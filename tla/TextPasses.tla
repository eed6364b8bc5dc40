----------------------------- MODULE TextPasses ------------------------------
(***************************************************************************)
(* The passes over the printed text: fix_blank_lines of                    *)
(* src/src/structuring/emission.rs and the passes on labels, gotos and     *)
(* unreachable lines it runs in up to MaxTextRounds rounds.  Each pass     *)
(* reads the text line by line and knows nothing of the graph.             *)
(*                                                                         *)
(* A line of `text` is a line of Emission's output; blank lines, which     *)
(* every pass skips, are left out.  So are the function's own braces, the  *)
(* passes on assignments and, in elide_redundant_gotos, the inlining of an *)
(* else branch that is a lone goto: every block printed starts with the    *)
(* comment with its PC, so that no goto follows its else directly.         *)
(***************************************************************************)
EXTENDS Emission

CONSTANT MaxTextRounds  \* the code has 4

ASSUME MaxTextRoundsAssumption == MaxTextRounds \in Nat \ {0}

VARIABLES
    text,
    before,     \* the text at the start of the round
    text_pass,  \* the pass to run next, or "none", "done"
    rounds      \* rounds begun

textVars == <<text, before, text_pass, rounds>>
printVars == <<emissionVars, textVars>>

-----------------------------------------------------------------------------
Opens(line) == line.op \in {"if", "while", "loop", "switch"}

\* Braces opened less braces closed in lines i..j; an else does both.
Net(t, i, j) ==
    Cardinality({k \in i..j : Opens(t[k])}) - Cardinality({k \in i..j : t[k].op = "close"})

IsLabel(line) == line.op = "label"

\* The lines that satisfy Keep, by their position.
KeepLines(t, Keep(_)) ==
    LET kept == SelectSeq([i \in DOMAIN t |-> i], Keep)
    IN  [k \in DOMAIN kept |-> t[kept[k]]]

\* The third pass of fix_blank_lines.
IsReturn(line) == line.op \in {"return", "trap"}

DedupReturns(t) == KeepLines(t, LAMBDA i : ~(i > 1 /\ IsReturn(t[i]) /\ IsReturn(t[i - 1])))

\* collapse_consecutive_labels: the first of a run stands for the others.
IsFirstLabel(t, i) == IsLabel(t[i]) /\ (i = 1 \/ ~IsLabel(t[i - 1]))

Canonical(t, b) ==
    LET later == {i \in DOMAIN t : t[i] = Line("label", b) /\ ~IsFirstLabel(t, i)}
        first == CHOOSE k \in 1..Max(later) :
                    IsFirstLabel(t, k) /\ \A m \in k..Max(later) : IsLabel(t[m])
    IN  IF later = {} THEN b ELSE t[first].at

Names(line) == line.op \in {"label", "goto", "if goto", "case goto"}

Collapsed(t) ==
    LET kept == KeepLines(t, LAMBDA i : IsLabel(t[i]) => IsFirstLabel(t, i))
    IN  [k \in DOMAIN kept |->
            IF Names(kept[k]) THEN [kept[k] EXCEPT !.at = Canonical(t, @)] ELSE kept[k]]

\* elide_redundant_gotos: where the label a goto may be left out for has to
\* be, at the same depth or right behind the brace that ends the block.
Landing(t, i) ==
    LET stops == {j \in (i + 1)..Len(t) :
                    \/ Net(t, i, j) < 0
                    \/ Net(t, i, j) = 0 /\ IsLabel(t[j])}
    IN  IF stops = {} THEN 0
        ELSE IF Net(t, i, Min(stops)) < 0 THEN Min(stops) + 1 ELSE Min(stops)

Elided(t) ==
    KeepLines(t, LAMBDA i :
        ~(/\ t[i].op = "goto"
          /\ Landing(t, i) \in DOMAIN t
          /\ t[Landing(t, i)] = Line("label", t[i].at)))

\* find_enclosing_if_else and both_branches_terminate, on the lines kept so
\* far, of which the last one is a closing brace.
BothTerminate(kept) ==
    LET c == Len(kept)
        elses == {e \in 1..(c - 1) : kept[e].op = "else" /\ Net(kept, e + 1, c - 1) = 0}
        ifs_of(e) == {f \in 1..(e - 1) : kept[f].op = "if" /\ Net(kept, f, e - 1) = 1}
    IN  /\ elses # {} /\ ifs_of(Max(elses)) # {}
        /\ IsTerminator(kept[c - 1])
        /\ Max(elses) > Max(ifs_of(Max(elses))) + 1
        /\ IsTerminator(kept[Max(elses) - 1])

\* A pass that drops the lines from the first one on at which the lines kept
\* so far satisfy Dead, up to one that satisfies Stop.
Dropping(t, Dead(_), Stop(_)) ==
    LET read(s, line) ==
            IF s.dead /\ ~Stop(line) THEN s
            ELSE [kept |-> Append(s.kept, line), dead |-> Dead(Append(s.kept, line))]
        S[k \in 0..Len(t)] ==
            IF k = 0 THEN {[kept |-> <<>>, dead |-> FALSE]} ELSE {read(s, t[k]) : s \in S[k - 1]}
    IN  (CHOOSE s \in S[Len(t)] : TRUE).kept

\* remove_unreachable_after_control_flow
AfterIf(t) ==
    Dropping(t, LAMBDA kept : Last(kept).op = "close" /\ BothTerminate(kept),
                LAMBDA line : line.op \in {"label", "close"})

\* remove_unreachable_after_terminators
AfterTerminator(t) ==
    Dropping(t, LAMBDA kept : IsTerminator(Last(kept)),
                LAMBDA line : line.op \in {"label", "close", "else", "case", "default",
                                           "case goto", "case continue"})

\* invert_conditional_gotos: the lines a conditional goto leaps over, up to
\* its label, become the body of a conditional.
Leap(t, i) ==
    LET stops == {j \in (i + 1)..Len(t) : IsLabel(t[j]) \/ Net(t, i, j) < 0}
    IN  IF stops = {} THEN 0 ELSE Min(stops)

IsInverted(t, i) ==
    /\ t[i].op = "if goto"
    /\ Leap(t, i) > i + 1
    /\ t[Leap(t, i)] = Line("label", t[i].at)
    /\ Net(t, i, Leap(t, i)) = 0

Inverted(t) ==
    LET from[i \in 1..(Len(t) + 1)] ==
            IF i > Len(t) THEN <<>>
            ELSE IF IsInverted(t, i)
            THEN <<Line("if", t[i].at)>> \o SubSeq(t, i + 1, Leap(t, i) - 1)
                    \o <<Line("close", t[i].at)>> \o from[Leap(t, i)]
            ELSE <<t[i]>> \o from[i + 1]
    IN  from[1]

\* Faulty variant: a label only conditional gotos name is dropped.
BugPruned(t) ==
    LET referenced == {t[i].at : i \in {k \in DOMAIN t : t[k].op \in {"goto", "case goto"}}}
    IN  KeepLines(t, LAMBDA i : IsLabel(t[i]) => t[i].at \in referenced)

\* prune_unused_labels
Pruned(t) ==
    LET referenced == {t[i].at : i \in {k \in DOMAIN t : Names(t[k]) /\ ~IsLabel(t[k])}}
    IN  KeepLines(t, LAMBDA i : IsLabel(t[i]) => t[i].at \in referenced)

-----------------------------------------------------------------------------
TInit ==
    /\ EInit
    /\ text = <<>>
    /\ before = <<>>
    /\ text_pass = "none"
    /\ rounds = 0

EmitStep == ENext /\ UNCHANGED textVars

FixBlankLines ==
    /\ walk = "text" /\ text_pass = "none"
    /\ text' = DedupReturns(output)
    /\ text_pass' = "collapse"
    /\ UNCHANGED <<emissionVars, before, rounds>>

Collapse ==
    /\ text_pass = "collapse"
    /\ text' = Collapsed(text)
    /\ before' = text'
    /\ text_pass' = "elide"
    /\ rounds' = 1
    /\ UNCHANGED emissionVars

Pass(this, next, new) ==
    /\ text_pass = this
    /\ text' = new
    /\ text_pass' = next
    /\ UNCHANGED <<emissionVars, before, rounds>>

Elide == Pass("elide", "after if", Elided(text))
RemoveAfterIf == Pass("after if", "after terminator", AfterIf(text))
RemoveAfterTerminator == Pass("after terminator", "invert", AfterTerminator(text))
Invert == Pass("invert", "prune", Inverted(text))

\* The last pass of a round; a round that changed nothing ends the loop.
Prune ==
    LET more == Pruned(text) # before /\ rounds < MaxTextRounds
    IN  /\ text_pass = "prune"
        /\ text' = Pruned(text)
        /\ before' = text'
        /\ text_pass' = IF more THEN "elide" ELSE "done"
        /\ rounds' = IF more THEN rounds + 1 ELSE rounds
        /\ UNCHANGED emissionVars

TextPass == FixBlankLines \/ Collapse \/ Elide \/ RemoveAfterIf \/ RemoveAfterTerminator \/ Invert \/ Prune

TNext == EmitStep \/ TextPass

TSpec == TInit /\ [][TNext]_printVars /\ WF_printVars(TNext)

=============================================================================

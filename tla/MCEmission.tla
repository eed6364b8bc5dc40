----------------------------- MODULE MCEmission ------------------------------
(***************************************************************************)
(* Instances of Emission and TextPasses for TLC: programs of four to six   *)
(* blocks, a meaning for the printed text, and what the emitter and the    *)
(* passes over its text keep.                                              *)
(***************************************************************************)
EXTENDS TextPasses

\* How block b of n may end, with its successors in the order of the code.
Ways(b, n) ==
    {<<"return", <<>>>>}
        \cup {<<"jump", <<t>>>> : t \in 0..(n - 1)}
        \cup IF b = n - 1 THEN {}
             ELSE {<<"fall", <<b + 1>>>>}
                    \cup {<<"branch", <<t, b + 1>>>> : t \in 0..(n - 1)}

Forward(b, n) == {w \in Ways(b, n) : \A i \in DOMAIN w[2] : w[2][i] > b}

Program(n, end, work) ==
    [blocks |-> 0..(n - 1), entry |-> 0, rank |-> [b \in 0..(n - 1) |-> n - b],
     succ |-> [b \in 0..(n - 1) |-> end[b][2]],
     indirect |-> {b \in 0..(n - 1) : end[b][1] = "switch"},
     ends |-> [b \in 0..(n - 1) |-> end[b][1]],
     work |-> work, test |-> [b \in 0..(n - 1) |-> 0], suppressed |-> {}, hidden |-> {}]

\* The programs of n blocks that end as Allowed says, all of them reachable.
Connected(n, Allowed(_)) ==
    LET Q[k \in 0..n] ==
            IF k = 0 THEN {<<>>} ELSE {Append(q, w) : q \in Q[k - 1], w \in Allowed(k - 1)}
        all == {Program(n, [b \in 0..(n - 1) |-> q[b + 1]], [b \in 0..(n - 1) |-> "other"]) :
                    q \in Q[n]}
    IN  {g \in all : Reach(g, 0, {}) = g.blocks}

\* Without the edges that lead back to a dominator, no block leads to itself.
IsReducibleGraph(g) ==
    LET dominates(a, b) == a = b \/ b \notin Reach(g, g.entry, {a})
        forward == [g EXCEPT !.succ = [b \in g.blocks |->
                        SelectSeq(g.succ[b], LAMBDA s : ~dominates(s, b))]]
    IN  \A b \in g.blocks : \A s \in Succs(forward, b) : b \notin Reach(forward, s, {})

Plain == {g \in Connected(4, LAMBDA b : Ways(b, 4)) : IsReducibleGraph(g)}

Irreducible == Connected(4, LAMBDA b : Ways(b, 4)) \ Plain

Acyclic == Connected(5, LAMBDA b : Forward(b, 5))

\* A jump table at block 0 or 1, a case of which may be the switch itself.
Dispatching ==
    LET ways(b, s, q) == IF b = s THEN {<<"switch", q>>}
                         ELSE {w \in Ways(b, 4) : w[1] # "fall"}
        with(s, q) == Connected(4, LAMBDA b : ways(b, s, q))
    IN  {g \in with(0, <<0, 1, 2>>) \cup with(1, <<2, 3>>) : IsReducibleGraph(g)}

\* A loop that steps a register, a diamond, a conditional with a trap, a call
\* in a branch, and a loop of two blocks, with little to print.
Loop == 0 :> <<"fall", <<1>>>> @@ 1 :> <<"branch", <<3, 2>>>>
            @@ 2 :> <<"jump", <<1>>>> @@ 3 :> <<"return", <<>>>>
Diamond == 0 :> <<"branch", <<2, 1>>>> @@ 1 :> <<"jump", <<3>>>>
            @@ 2 :> <<"fall", <<3>>>> @@ 3 :> <<"return", <<>>>>
Guarded == 0 :> <<"branch", <<2, 1>>>> @@ 1 :> <<"trap", <<>>>>
            @@ 2 :> <<"call", <<3>>>> @@ 3 :> <<"return", <<>>>>
LongLoop == 0 :> <<"fall", <<1>>>> @@ 1 :> <<"branch", <<4, 2>>>> @@ 2 :> <<"fall", <<3>>>>
            @@ 3 :> <<"jump", <<1>>>> @@ 4 :> <<"return", <<>>>>

Silent ==
    {[Program(4, end, work) EXCEPT !.suppressed = s, !.hidden = s] :
        end \in {Diamond, Guarded}, work \in [0..3 -> {"none", "other"}], s \in {{}, {1, 2}}}
    \cup {Program(4, Loop, work) : work \in [0..3 -> {"none", "step", "other"}]}
    \cup {Program(5, LongLoop, work) : work \in [0..4 -> {"none", "step"}]}

\* `if (x == 1) .. else if (x == 2) .. else ..`, the branches meeting again.
Ladder == 0 :> <<"branch", <<3, 1>>>> @@ 1 :> <<"branch", <<4, 2>>>> @@ 2 :> <<"jump", <<5>>>>
            @@ 3 :> <<"jump", <<5>>>> @@ 4 :> <<"fall", <<5>>>> @@ 5 :> <<"return", <<>>>>

Tested(x, end, work) ==
    [Program(6, end, [b \in 0..5 |-> IF b = 1 THEN work ELSE "other"]) EXCEPT
        !.test = 0 :> 1 @@ 1 :> x @@ [b \in 2..5 |-> 0]]

SwitchOnValue == {Tested(2, Ladder, "none")}

NoSwitch == {Tested(1, Ladder, "none"), Tested(2, Ladder, "other")}
    \cup {Tested(2, [Ladder EXCEPT ![2] = <<"return", <<>>>>, ![3] = <<"trap", <<>>>>], "none")}

\* A loop in a loop: block 2 goes back to the outer one, the conditional at 3
\* leaves the inner one for the next round of the outer one or for good.
TwoLoops == 0 :> <<"fall", <<1>>>> @@ 1 :> <<"fall", <<2>>>> @@ 2 :> <<"branch", <<0, 3>>>>
            @@ 3 :> <<"branch", <<5, 4>>>> @@ 4 :> <<"branch", <<1, 6>>>>
            @@ 5 :> <<"jump", <<0>>>> @@ 6 :> <<"return", <<>>>>

Nested == {Program(7, TwoLoops, [b \in 0..6 |-> "other"])}

\* A loop whose block 1 may leave it for the loop around it, or go on to 2.
Round == 0 :> <<"jump", <<3>>>> @@ 1 :> <<"branch", <<0, 2>>>>
            @@ 2 :> <<"branch", <<2, 3>>>> @@ 3 :> <<"jump", <<1>>>>

Leaving == {Program(4, Round, [b \in 0..3 |-> "other"])}

Programs == Plain \cup Acyclic \cup Dispatching \cup Silent \cup NoSwitch \cup Nested

-----------------------------------------------------------------------------
(* What the text means *)

CloseOf(t, i) == Min({k \in (i + 1)..Len(t) : Net(t, i + 1, k) < 0})

ElseOf(t, i) ==
    LET elses == {k \in (i + 1)..CloseOf(t, i) : t[k].op = "else" /\ Net(t, i + 1, k) = 0}
    IN  IF elses = {} THEN CloseOf(t, i) ELSE Min(elses)

OpenOf(t, k) == Max({i \in 1..(k - 1) : Opens(t[i]) /\ CloseOf(t, i) = k})

Around(t, i, ops) == {k \in 1..(i - 1) : t[k].op \in ops /\ CloseOf(t, k) > i}

LabelOf(t, b) == {i \in DOMAIN t : t[i] = Line("label", b)}

\* Where line i may lead; Len(t) + 1 is the end of the function.
LineNext(t, i) ==
    LET op == t[i].op
        inside == Max(Around(t, i, {"while", "loop"}))
    IN  CASE op \in {"trap", "return", "call indirect"} -> {}
          [] op = "goto" -> LabelOf(t, t[i].at)
          [] op \in {"if goto", "case goto"} -> {i + 1} \cup LabelOf(t, t[i].at)
          [] op = "if" -> {i + 1, ElseOf(t, i) + 1}
          [] op = "else" -> {CloseOf(t, i) + 1}
          [] op = "while" -> {i + 1, CloseOf(t, i) + 1}
          [] op = "switch" ->
                {i + 1} \cup {k \in (i + 1)..CloseOf(t, i) :
                                t[k].op \in {"case", "default"} /\ Net(t, i + 1, k) = 0}
          [] op = "break" -> {CloseOf(t, inside) + 1}
          [] op = "leave" -> {CloseOf(t, Max(Around(t, i, {"switch"}))) + 1}
          [] op = "continue" -> {inside}
          [] op \in {"if continue", "case continue"} -> {i + 1, inside}
          [] op = "close" /\ t[OpenOf(t, i)].op \in {"while", "loop"} -> {OpenOf(t, i)}
          [] OTHER -> {i + 1}

Visible(line) == line.op \in {"work", "call", "return", "trap"}

\* The lines reached from S along E without passing one that satisfies Halt.
LinesFrom(n, E, S, Halt(_)) ==
    LET on(R) == {p[2] : p \in {q \in E : q[1] \in R /\ ~Halt(q[1])}}
        R[k \in 0..n] == IF k = 0 THEN S ELSE UNION {X \cup on(X) : X \in {R[k - 1]}}
    IN  R[n]

\* The start and the end of the text.
Outer == Line("outer", NoBlock)

FlowAlong(t, E) ==
    LET n == Len(t)
        visible(i) == i \notin DOMAIN t \/ Visible(t[i])
        name(i) == IF i \in DOMAIN t THEN t[i] ELSE Outer
        next(S) == {j \in LinesFrom(n, E, S, visible) : visible(j)}
        live == {i \in LinesFrom(n, E, {1}, LAMBDA i : FALSE) \cap DOMAIN t : Visible(t[i])}
    IN  {<<Outer, name(j)>> : j \in next({1})}
            \cup UNION {{<<t[i], name(j)>> : j \in next({p[2] : p \in {q \in E : q[1] = i}})} :
                            i \in live}

\* Which visible line that can run may be followed by which.
Flow(t) ==
    UNION {FlowAlong(t, E) : E \in {UNION {{<<i, j>> : j \in LineNext(t, i)} : i \in DOMAIN t}}}

Balanced(t) == Net(t, 1, Len(t)) = 0 /\ \A i \in DOMAIN t : Net(t, 1, i) >= 0

-----------------------------------------------------------------------------
\* pseudo_code returns: the queue runs empty although blocks are put back to
\* its end, every method of the emitter returns, and the passes stop.
PrintingEnds == <>(text_pass = "done")

\* emit_if and emit_block_or_inline_if call each other; they never come back
\* to a conditional they are in the middle of, so the recursion ends.
NoReentry ==
    \A i, j \in DOMAIN calls :
        (i < j /\ calls[i].at = calls[j].at) =>
            ~(calls[i].method \in {"arm", "if"} /\ calls[j].method \in {"else", "endif"})

\* Two shapes that the passes are known to damage: a goto in a case, and an
\* else right behind a conditional both branches of which leave.
HasCaseGoto ==
    \E i \in DOMAIN output : output[i].op = "goto" /\ Around(output, i, {"switch"}) # {}

HasElseBehindIf ==
    \E i \in DOMAIN output :
        /\ i > 1 /\ output[i].op = "else" /\ output[i - 1].op = "close"
        /\ BothTerminate(SubSeq(output, 1, i - 1))

\* The passes over the text leave its meaning alone, whatever labels they
\* merge and drop, gotos they leave out, lines they take for unreachable and
\* conditions they turn round.  (Where they tear a pair of braces apart the
\* text has no meaning to compare.)
PassesKeepFlow ==
    (text_pass = "done" /\ Balanced(text) /\ ~HasCaseGoto /\ ~HasElseBehindIf) =>
        Flow(text) = Flow(output)

\* "This handles gotos inside switch cases where the label appears after the
\* switch closing brace." (emission.rs:2789): leaving such a goto out leaves
\* the meaning alone.
CasesKeepFlow == (text_pass = "done" /\ Balanced(text)) => Flow(text) = Flow(output)

=============================================================================

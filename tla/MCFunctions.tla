-------------------------- MODULE MCFunctions -----------------------------
(***************************************************************************)
(* Instances of FunctionBounds and CallSites for TLC.                      *)
(***************************************************************************)
EXTENDS CallSites, SmallGraphs, TLC

\* A block with one successor that is not the next block ends in a jump, and
\* so does a block that calls.
AsProgram(g, prologue, ret, heap) ==
    [blocks |-> g.blocks, entry |-> g.entry, succ |-> g.succ, rank |-> g.rank,
     jumps |-> {b \in g.blocks : \E t \in g.blocks :
                    g.succ[b] = <<t>> /\ (t # b + 1 \/ ret[b] # NoBlock)},
     prologue |-> prologue, ret |-> ret,
     table |-> Range(ret) \ {NoBlock},
     stubs |-> {b \in g.blocks : b > 0 /\ g.succ[b] = <<>>},
     heapLoads |-> heap, heapStore |-> {2}]

NoCalls(n) == [b \in 0..n-1 |-> NoBlock]

Programs4 == {AsProgram(Numbered(4, 0, s), p, NoCalls(4), {}) :
                 s \in SuccMaps(4), p \in {{2}, {1, 3}, {0, 2}}}

\* Calls from the first two blocks, returning to the last two; the last block
\* leaves the function or goes back.
Returns4(s) ==
    {0 :> x @@ 1 :> y @@ 2 :> NoBlock @@ 3 :> NoBlock :
        x \in (IF Len(s[0]) = 1 THEN {NoBlock, 2, 3} ELSE {NoBlock}),
        y \in (IF Len(s[1]) = 1 THEN {NoBlock, 2, 3} ELSE {NoBlock})}

CallPrograms4 ==
    UNION {{AsProgram(Numbered(4, 0, s), p, r, p) :
               r \in Returns4(s) \ {NoCalls(4)}, p \in {{}, {0, 3}}} :
              s \in {t \in SuccMaps(4) : t[3] \in {<<>>, <<1>>}}}

\* Two calls through trampolines and two blocks they may return to.
TwoTrampolines ==
    {AsProgram(Numbered(7, 0, 0 :> <<2>> @@ 1 :> <<2>> @@ 2 :> <<3>> @@ 3 :> <<1>>
                                @@ 4 :> <<2>> @@ 5 :> <<1>> @@ 6 :> <<>>), {},
               [b \in 0..6 |-> IF b \in {0, 1} THEN 6 ELSE IF b \in {4, 5} THEN b ELSE NoBlock],
               {})}

\* A trampoline (block 5) with two blocks behind it, 3 and 4, that printed code
\* branches to as well.
TwoLiveBlocks ==
    {AsProgram(Numbered(8, 0, 0 :> <<4, 1>> @@ 1 :> <<3, 2>> @@ 2 :> <<5>> @@ 3 :> <<>>
                                @@ 4 :> <<>> @@ 5 :> <<4, 6>> @@ 6 :> <<3>> @@ 7 :> <<>>), {},
               [b \in 0..7 |-> IF b = 2 THEN 7 ELSE NoBlock], {})}

FunctionPrograms == Programs4 \cup CallPrograms4 \cup TwoTrampolines \cup TwoLiveBlocks

=============================================================================

-------------------------------- MODULE MCSsa --------------------------------
(***************************************************************************)
(* Instances of DefUse and Ssa for TLC.                                    *)
(***************************************************************************)
EXTENDS Ssa, SmallGraphs

Ins(d, u) == [defs |-> d, uses |-> u]

WithCode(g, c) ==
    [blocks |-> g.blocks, entry |-> g.entry, succ |-> g.succ, rank |-> g.rank,
     code |-> c]

\* One register suffices: registers meet only in the test for another sweep.
\* A body reads it, sets it, updates it in place, reads and later sets it, or
\* leaves it alone.
Read == Ins({}, {1})
Set == Ins({1}, {})
Bodies == {<<Read>>, <<Set>>, <<Ins({1}, {1})>>, <<Read, Set>>, <<Ins({}, {})>>}

Code(q) == [b \in 0..(Len(q) - 1) |-> q[b + 1]]

\* Every graph of three blocks with every choice of bodies.
ThreeBlocks ==
    {WithCode(Numbered(3, 0, s), c) : s \in SuccMaps(3), c \in [0..2 -> Bodies]}

\* Every graph of four blocks with one choice of bodies.
FourBlocks ==
    {WithCode(Numbered(4, 0, s),
              Code(<<<<Read, Set>>, <<Read>>, <<Set, Read>>, <<Ins({1}, {1})>>>>)) :
        s \in SuccMaps(4)}

SsaCfgs == ThreeBlocks \cup FourBlocks

=============================================================================

----------------------------- MODULE MCLiveness -----------------------------
(***************************************************************************)
(* Instances of Liveness for TLC.                                          *)
(***************************************************************************)
EXTENDS Liveness, SmallGraphs

Ins(d, u) == [defs |-> d, uses |-> u]

\* Block bodies: a use, a definition, an update in place, and two
\* instructions whose order matters.
Bodies == {<<Ins({}, {1})>>, <<Ins({1}, {})>>, <<Ins({1}, {1, 2})>>,
           <<Ins({2}, {}), Ins({}, {1, 2})>>}

WithCode(g, c) ==
    [blocks |-> g.blocks, entry |-> g.entry, succ |-> g.succ, rank |-> g.rank,
     code |-> c]

SmallCfgs(n, entry, bodies) ==
    {WithCode(Numbered(n, entry, s), c) : s \in SuccMaps(n), c \in [0..n-1 -> bodies]}

\* Every graph of three blocks; with fewer bodies when block 0 is not the entry.
Cfgs3 == SmallCfgs(3, 0, Bodies) \cup
         SmallCfgs(3, 1, {<<Ins({}, {1})>>, <<Ins({1}, {2})>>})

=============================================================================

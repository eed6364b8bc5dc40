---------------------------- MODULE MCStructuring ----------------------------
(***************************************************************************)
(* Instances of Structuring, and of the DomTree it runs on, for TLC.       *)
(***************************************************************************)
EXTENDS Structuring, SmallGraphs

WithIndirect(g, S) ==
    [blocks |-> g.blocks, entry |-> g.entry, succ |-> g.succ, rank |-> g.rank,
     indirect |-> S]

\* Every graph of four blocks without indirect jumps, and those whose block 2
\* ends in one (it then has no successor but the return of a call).
Cfgs4 ==
    LET all == {Numbered(4, 0, s) : s \in SuccMaps(4)}
    IN  {WithIndirect(g, {}) : g \in all}
            \cup {WithIndirect(g, {2}) : g \in {h \in all : Len(h.succ[2]) <= 1}}

=============================================================================

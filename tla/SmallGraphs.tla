----------------------------- MODULE SmallGraphs -----------------------------
(***************************************************************************)
(* All flow graphs of a given number of blocks, for the modules that       *)
(* instantiate the analyses for TLC.                                       *)
(***************************************************************************)
EXTENDS FlowGraph

\* The successor vectors connect_blocks can give block b of the blocks
\* 0..n-1: none (trap, indirect jump, or an edge that left the function), a
\* jump, the fall through, or a branch (target first, duplicates kept).
SuccVectors(b, n) ==
    LET fall == IF b + 1 < n THEN <<b + 1>> ELSE <<>>
    IN  {<<>>, fall} \cup {<<t>> : t \in 0..n-1}
                     \cup {<<t>> \o fall : t \in 0..n-1}

SuccMaps(n) ==
    {f \in [0..n-1 -> UNION {SuccVectors(b, n) : b \in 0..n-1}] :
        \A b \in 0..n-1 : f[b] \in SuccVectors(b, n)}

\* Blocks 0..n-1 with successors s, met by map iteration in decreasing order.
Numbered(n, entry, s) ==
    [blocks |-> 0..n-1, entry |-> entry, succ |-> s,
     rank |-> [b \in 0..n-1 |-> n - b]]

=============================================================================

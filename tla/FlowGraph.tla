------------------------------ MODULE FlowGraph ------------------------------
(***************************************************************************)
(* The value every analysis of the decompiler works on: the                *)
(* ControlFlowGraph of one function (src/src/cfg.rs).                      *)
(*                                                                         *)
(* A block is named by the PC it starts at, so blocks are naturals and     *)
(* "sorted by PC" is their order as numbers.  A flow graph is a record     *)
(*   blocks  the keys of `cfg.blocks`,                                     *)
(*   entry   `entry_pc`,                                                   *)
(*   succ    the `successors` vector of every block, in its order and      *)
(*           with its duplicates (a branch to the next block yields two    *)
(*           equal entries),                                               *)
(*   rank    the position at which iterating the `blocks` HashMap meets a  *)
(*           block.  Rust seeds the hash per map, so any injective rank is *)
(*           possible, but one map keeps its order while it is unchanged.  *)
(***************************************************************************)
EXTENDS Integers, Sequences, FiniteSets, Functions

IsFlowGraph(g) ==
    /\ g.blocks \subseteq Nat
    /\ IsFiniteSet(g.blocks)
    /\ g.entry \in g.blocks
    /\ g.succ \in [g.blocks -> Seq(g.blocks)]
    /\ g.rank \in Injection(g.blocks, Nat)

Succs(g, b) == Range(g.succ[b])

\* `predecessors` and the predecessor maps are rebuilt from the successors.
Preds(g, b) == {p \in g.blocks : b \in Succs(g, p)}

\* A set of blocks as the vector a loop over the HashMap pushes them in.
InMapOrder(g, S) ==
    {q \in Bijection(1..Cardinality(S), S) :
        \A i, j \in DOMAIN q : i < j => g.rank[q[i]] < g.rank[q[j]]}

\* A set of blocks as a vector after sort().
Sorted(S) ==
    CHOOSE q \in [1..Cardinality(S) -> S] :
        \A i, j \in 1..Cardinality(S) : i < j => q[i] < q[j]

\* The elements of a vector that lie in S, in order and with duplicates.
Kept(s, S) ==
    LET F[i \in 0..Len(s)] ==
            IF i = 0 THEN <<>>
            ELSE IF s[i] \in S THEN Append(F[i - 1], s[i]) ELSE F[i - 1]
    IN  F[Len(s)]

\* What a search has found after n rounds that starts with S and goes on from
\* x to next[x].
Rounds(n, S, next) ==
    LET R[k \in 0..n] ==
            IF k = 0 THEN S
            ELSE LET found == R[k - 1] IN found \cup UNION {next[x] : x \in found}
    IN  R[n]

\* What it finds in the end.
Closure(S, next) == Rounds(Cardinality(DOMAIN next), S, next)

\* The blocks on paths from b that avoid the blocks of `without`.
Reach(g, b, without) ==
    Closure({b} \ without, [x \in g.blocks |-> Succs(g, x) \ without])

\* A depth-first search from the entry: the next successor of the block on top of
\* the stack, or the block itself once it has no more.
SearchStep(g, s) ==
    LET top == s.stack[Len(s.stack)]
        next == g.succ[top.block][top.next]
        moved == [s.stack EXCEPT ![Len(s.stack)].next = @ + 1]
    IN  IF s.stack = <<>> THEN s
        ELSE IF top.next > Len(g.succ[top.block])
        THEN [stack |-> SubSeq(s.stack, 1, Len(s.stack) - 1), visited |-> s.visited,
              post |-> Append(s.post, top.block)]
        ELSE [stack |-> IF next \in s.visited THEN moved
                        ELSE Append(moved, [block |-> next, next |-> 1]),
              visited |-> s.visited \cup {next}, post |-> s.post]

\* The steps the search takes: each successor of a block, and its end.
SearchSteps(g) == UNION {{b} \X (1..(Len(g.succ[b]) + 1)) : b \in g.blocks}

\* The blocks in the order the search leaves them; S[k] holds the one state it is
\* in after k steps.
PostOrder(g) ==
    LET n == Cardinality(SearchSteps(g))
        S[k \in 0..n] ==
            IF k = 0 THEN {[stack |-> <<[block |-> g.entry, next |-> 1]>>,
                            visited |-> {g.entry}, post |-> <<>>]}
            ELSE {SearchStep(g, s) : s \in S[k - 1]}
    IN  (CHOOSE s \in S[n] : TRUE).post

=============================================================================

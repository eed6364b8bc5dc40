------------------------------ MODULE CfgBuild ------------------------------
(***************************************************************************)
(* ControlFlowGraph::build of src/src/cfg.rs after the decoder: leaders,   *)
(* blocks of the instructions between them, edges by the last instruction  *)
(* of a block.  Instructions are named by their index in `instructions`.   *)
(***************************************************************************)
EXTENDS Decoder

VARIABLE cfg        \* NoGraph, then [blocks, entry, body, succ]

NoGraph == [blocks |-> {}, entry |-> 0, body |-> <<>>, succ |-> <<>>]

allVars == <<decodeVars, cfg>>

PcAt(i) == instructions[i].pc
BytesAt(i) == instructions[i].bytes
Indices == DOMAIN instructions

Least(S) == CHOOSE x \in S : \A y \in S : x <= y
Greatest(S) == CHOOSE x \in S : \A y \in S : x >= y

\* compute_jump_target: a target before the code is moved to its start.
JumpTarget(at, offset) == IF at + offset >= 0 THEN at + offset ELSE 0

TargetOf(i) == JumpTarget(PcAt(i), BranchOffset(BytesAt(i)))

\* identify_leaders
Leaders ==
    {0} \cup {TargetOf(i) : i \in {j \in Indices : HasBranchOffset(BytesAt(j))}}
        \cup {PcAt(i + 1) : i \in {j \in Indices : j + 1 \in Indices
                                                    /\ IsTerminator(BytesAt(j))}}

\* create_blocks: a block reaches up to the next leader, the last one up to
\* the end of the code.
BlockEnd(leaders, l) ==
    LET later == {k \in leaders : k > l} IN IF later = {} THEN head.code ELSE Least(later)

BodyOf(leaders, l) == {i \in Indices : l <= PcAt(i) /\ PcAt(i) < BlockEnd(leaders, l)}

\* A leader without instructions before the next one makes no block.
BlocksOf(leaders) == {l \in leaders : BodyOf(leaders, l) # {}}

\* connect_blocks: successors by the last instruction, target first.
NextBlock(blocks, b) ==
    LET later == {k \in blocks : k > b} IN IF later = {} THEN <<>> ELSE <<Least(later)>>

\* Faulty variant: a branch has no edge to the next block.
BugSuccessors(blocks, b, last) ==
    IF HasBranchOffset(BytesAt(last))
    THEN IF TargetOf(last) \in blocks THEN <<TargetOf(last)>> ELSE <<>>
    ELSE IF IsTerminator(BytesAt(last)) THEN <<>> ELSE NextBlock(blocks, b)

Successors(blocks, b, last) ==
    IF HasBranchOffset(BytesAt(last))
    THEN (IF TargetOf(last) \in blocks THEN <<TargetOf(last)>> ELSE <<>>)
           \o (IF IsConditionalBranch(BytesAt(last)) THEN NextBlock(blocks, b) ELSE <<>>)
    ELSE IF IsTerminator(BytesAt(last)) THEN <<>> ELSE NextBlock(blocks, b)

Graph ==
    LET leaders == Leaders
        blocks == BlocksOf(leaders)
        body == [b \in blocks |-> BodyOf(leaders, b)]
    IN  [blocks |-> blocks,
         entry |-> 0,
         body |-> body,
         succ |-> [b \in blocks |-> Successors(blocks, b, Greatest(body[b]))]]

-----------------------------------------------------------------------------
CInit == DecodeInit /\ cfg = NoGraph

\* A program without instructions has an empty graph.
Build ==
    /\ phase = "decoded"
    /\ cfg' = IF instructions = <<>> THEN NoGraph ELSE Graph
    /\ phase' = "built"
    /\ UNCHANGED <<input, data, mode, blob, position, head, jump_table, code, mask,
                   pc, instructions, memory_base>>

Decode == DecodeNext /\ UNCHANGED cfg

CNext == Decode \/ Build

CSpec == CInit /\ [][CNext]_allVars

-----------------------------------------------------------------------------
(* Properties *)

\* The machine may execute instruction j right after instruction i, as far as
\* the code shows it: the next one, or the target of a jump.
Follows(i, j) ==
    \/ j = i + 1 /\ (IsTerminator(BytesAt(i)) => IsConditionalBranch(BytesAt(i)))
    \/ HasBranchOffset(BytesAt(i)) /\ PcAt(j) = PcAt(i) + BranchOffset(BytesAt(i))

\* Every such step is a step inside a block or an edge of the graph, from the
\* last instruction of one block to the first of another: no execution leaves
\* the graph, wherever jumps split the code.
StepsAreInGraph ==
    phase = "built" =>
        \A i, j \in Indices :
            Follows(i, j) =>
                \E b, c \in cfg.blocks :
                    /\ i \in cfg.body[b] /\ j \in cfg.body[c]
                    /\ \/ b = c /\ j = i + 1
                       \/ /\ \E k \in DOMAIN cfg.succ[b] : cfg.succ[b][k] = c
                          /\ \A x \in cfg.body[b] : x <= i
                          /\ \A x \in cfg.body[c] : j <= x

\* An edge is a step the machine may take, except that a jump to no
\* instruction leads to the next one after its target or to the start.
EdgesAreSteps ==
    phase = "built" =>
        \A b \in cfg.blocks : \A k \in DOMAIN cfg.succ[b] :
            LET i == Greatest(cfg.body[b])
                j == Least(cfg.body[cfg.succ[b][k]])
            IN  \/ Follows(i, j)
                \/ /\ HasBranchOffset(BytesAt(i))
                   /\ \A x \in Indices : PcAt(x) # PcAt(i) + BranchOffset(BytesAt(i))

\* The graph has exactly the steps of the machine: none of them leaves it, and
\* no edge is made up.
GraphIsSteps == StepsAreInGraph /\ EdgesAreSteps

=============================================================================

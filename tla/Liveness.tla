------------------------------ MODULE Liveness ------------------------------
(***************************************************************************)
(* DataFlowAnalysis::compute_liveness of src/src/dataflow.rs: the          *)
(* depth-first ordering of the blocks, then the worklist iteration of      *)
(*     live_out[B] = union of live_in[S] over the successors S of B        *)
(*     live_in[B]  = use[B] \cup (live_out[B] \ def[B])                    *)
(* with its limit on the number of iterations.  The u16 masks of the code  *)
(* are sets of registers here.                                             *)
(*                                                                         *)
(* A graph of Cfgs has the fields of FlowGraph and the code of CodePaths,  *)
(* instructions reduced to what they define and use (extract_def_use).     *)
(***************************************************************************)
EXTENDS CodePaths

CONSTANTS
    Regs,           \* the registers
    Cfgs,           \* the flow graphs to analyse
    ItersPerBlock   \* max_iterations = blocks * ItersPerBlock; the code has 15

Instr == [defs : SUBSET Regs, uses : SUBSET Regs]

IsCode(g) == g.code \in [g.blocks -> Seq(Instr) \ {<<>>}]

ASSUME CfgsAssumption == \A g \in Cfgs : IsFlowGraph(g) /\ IsCode(g)

ASSUME ItersAssumption == ItersPerBlock \in Nat

VARIABLES
    cfg,            \* the graph under analysis
    phase,          \* "order", "flow", then "fixpoint" or "cut"
    stack,          \* reverse_postorder: the explicit DFS stack of [block, next]
    visited,        \* reverse_postorder: blocks entered
    postorder,      \* reverse_postorder: blocks left, in order
    worklist,       \* a Vec used as a LIFO stack: its last element is popped
    in_worklist,    \* the set kept beside it
    iterations,
    live_in,
    live_out

vars == <<cfg, phase, stack, visited, postorder, worklist, in_worklist,
          iterations, live_in, live_out>>

dfsVars == <<stack, visited, postorder>>
flowVars == <<worklist, in_worklist, iterations, live_in, live_out>>

-----------------------------------------------------------------------------
(* compute_block_use_def: a register is used by the block if some           *)
(* instruction uses it before any earlier instruction defines it.           *)

\* Faulty variant: an instruction that reads and writes a register hides its read.
BugBlockUse(g, b) ==
    {r \in Regs : \E i \in DOMAIN g.code[b] :
        /\ r \in g.code[b][i].uses
        /\ \A j \in DOMAIN g.code[b] : j <= i => r \notin g.code[b][j].defs}

BlockUse(g, b) ==
    {r \in Regs : \E i \in DOMAIN g.code[b] :
        /\ r \in g.code[b][i].uses
        /\ \A j \in DOMAIN g.code[b] : j < i => r \notin g.code[b][j].defs}

BlockDef(g, b) ==
    {r \in Regs : \E i \in DOMAIN g.code[b] : r \in g.code[b][i].defs}

\* The two dataflow equations, over any candidate live-in assignment.
OutOf(g, b, in) == {r \in Regs : \E s \in Succs(g, b) : r \in in[s]}

\* Faulty variant: the operands of the difference are swapped.
BugInSwapped(g, b, out) == BlockUse(g, b) \cup (BlockDef(g, b) \ out)

InOf(g, b, out) == BlockUse(g, b) \cup (out \ BlockDef(g, b))

MaxIterations == Cardinality(cfg.blocks) * ItersPerBlock

-----------------------------------------------------------------------------
Init ==
    /\ cfg \in Cfgs
    /\ phase = "order"
    /\ stack = <<>>
    /\ visited = {}
    /\ postorder = <<>>
    /\ worklist = <<>>
    /\ in_worklist = {}
    /\ iterations = 0
    /\ live_in = [b \in cfg.blocks |-> {}]
    /\ live_out = [b \in cfg.blocks |-> {}]

(* reverse_postorder, one turn of its loops per action. *)

\* dfs_from(entry_pc), then dfs_from of every block in increasing PC; a call
\* on a visited block returns at once, so only unvisited roots show.
IsNextRoot(r) ==
    /\ r \in cfg.blocks \ visited
    /\ \/ r = cfg.entry
       \/ /\ cfg.entry \in visited
          /\ \A b \in cfg.blocks \ visited : r <= b

DfsRoot ==
    /\ phase = "order"
    /\ stack = <<>>
    /\ \E r \in cfg.blocks :
          /\ IsNextRoot(r)
          /\ visited' = visited \cup {r}
          /\ stack' = <<[block |-> r, next |-> 1]>>
    /\ UNCHANGED <<cfg, phase, postorder, flowVars>>

Top == stack[Len(stack)]

\* Faulty variant: the index of a visited successor is not advanced.
BugDfsEdge ==
    /\ phase = "order"
    /\ stack # <<>>
    /\ Top.next <= Len(cfg.succ[Top.block])
    /\ LET s == cfg.succ[Top.block][Top.next]
       IN  /\ visited' = visited \cup {s}
           /\ stack' = IF s \in visited
                       THEN stack
                       ELSE Append([stack EXCEPT ![Len(stack)].next = @ + 1],
                                   [block |-> s, next |-> 1])
    /\ UNCHANGED <<cfg, phase, postorder, flowVars>>

\* Look at the next successor of the top block; descend if it is new.
DfsEdge ==
    /\ phase = "order"
    /\ stack # <<>>
    /\ Top.next <= Len(cfg.succ[Top.block])
    /\ LET s == cfg.succ[Top.block][Top.next]
           advanced == [stack EXCEPT ![Len(stack)].next = @ + 1]
       IN  /\ visited' = visited \cup {s}
           /\ stack' = IF s \in visited
                       THEN advanced
                       ELSE Append(advanced, [block |-> s, next |-> 1])
    /\ UNCHANGED <<cfg, phase, postorder, flowVars>>

DfsLeave ==
    /\ phase = "order"
    /\ stack # <<>>
    /\ Top.next > Len(cfg.succ[Top.block])
    /\ stack' = SubSeq(stack, 1, Len(stack) - 1)
    /\ postorder' = Append(postorder, Top.block)
    /\ UNCHANGED <<cfg, phase, visited, flowVars>>

\* The worklist is the reversed rpo, which is the reversed reversed
\* postorder: the entry block is on top and is popped first.
StartFlow ==
    /\ phase = "order"
    /\ stack = <<>>
    /\ cfg.blocks \subseteq visited
    /\ phase' = "flow"
    /\ worklist' = postorder
    /\ in_worklist' = Range(postorder)
    /\ UNCHANGED <<cfg, dfsVars, iterations, live_in, live_out>>

-----------------------------------------------------------------------------
(* The worklist loop.  Every action below but Finish pops the last element. *)

Popped == worklist[Len(worklist)]
Rest == SubSeq(worklist, 1, Len(worklist) - 1)
NewOut == OutOf(cfg, Popped, live_in)

\* Faulty variant: the definitions of the block are not taken out.
BugNewIn == BlockUse(cfg, Popped) \cup NewOut

NewIn == InOf(cfg, Popped, NewOut)

\* Faulty variant: only one of the two sets is compared.
BugChanged == NewOut # live_out[Popped]

Changed == NewIn # live_in[Popped] \/ NewOut # live_out[Popped]

\* Faulty variant: the popped block still counts as queued, so that a block
\* that is its own predecessor is not queued again.
BugToQueueStale == Preds(cfg, Popped) \ in_worklist

\* Predecessors of the popped block that are not queued after the pop.
ToQueue == Preds(cfg, Popped) \ (in_worklist \ {Popped})

\* The popped block is dropped without being processed.
Cut ==
    /\ phase = "flow"
    /\ worklist # <<>>
    /\ iterations + 1 > MaxIterations
    /\ phase' = "cut"
    /\ iterations' = iterations + 1
    /\ worklist' = Rest
    /\ in_worklist' = in_worklist \ {Popped}
    /\ UNCHANGED <<cfg, dfsVars, live_in, live_out>>

Settle ==
    /\ phase = "flow"
    /\ worklist # <<>>
    /\ iterations + 1 <= MaxIterations
    /\ ~Changed
    /\ iterations' = iterations + 1
    /\ worklist' = Rest
    /\ in_worklist' = in_worklist \ {Popped}
    /\ UNCHANGED <<cfg, phase, dfsVars, live_in, live_out>>

Update ==
    /\ phase = "flow"
    /\ worklist # <<>>
    /\ iterations + 1 <= MaxIterations
    /\ Changed
    /\ iterations' = iterations + 1
    /\ live_in' = [live_in EXCEPT ![Popped] = NewIn]
    /\ live_out' = [live_out EXCEPT ![Popped] = NewOut]
    /\ in_worklist' = (in_worklist \ {Popped}) \cup ToQueue
    /\ \E pushed \in InMapOrder(cfg, ToQueue) : worklist' = Rest \o pushed
    /\ UNCHANGED <<cfg, phase, dfsVars>>

Finish ==
    /\ phase = "flow"
    /\ worklist = <<>>
    /\ phase' = "fixpoint"
    /\ UNCHANGED <<cfg, dfsVars, flowVars>>

Next == DfsRoot \/ DfsEdge \/ DfsLeave \/ StartFlow
            \/ Cut \/ Settle \/ Update \/ Finish

\* The analysis is one sequential call: nothing stops it between two steps.
Spec == Init /\ [][Next]_vars /\ WF_vars(Next)

-----------------------------------------------------------------------------
(* Properties *)

StackBlocks == {stack[i].block : i \in DOMAIN stack}

\* Every variable has the shape the Rust types give it.
TypeOK ==
    /\ IsFlowGraph(cfg) /\ IsCode(cfg)
    /\ phase \in {"order", "flow", "fixpoint", "cut"}
    /\ stack \in Seq([block : cfg.blocks, next : Nat \ {0}])
    /\ visited \subseteq cfg.blocks
    /\ postorder \in Seq(cfg.blocks)
    /\ worklist \in Seq(cfg.blocks)
    /\ in_worklist \subseteq cfg.blocks
    /\ iterations \in Nat
    /\ live_in \in [cfg.blocks -> SUBSET Regs]
    /\ live_out \in [cfg.blocks -> SUBSET Regs]

\* reverse_postorder enters no block twice and loses none: the blocks left and
\* the blocks on the stack are the visited ones, each exactly once.
DfsPartition ==
    /\ visited = StackBlocks \cup Range(postorder)
    /\ StackBlocks \cap Range(postorder) = {}
    /\ IsInjective(postorder)
    /\ \A i, j \in DOMAIN stack : stack[i].block = stack[j].block => i = j

\* `in_worklist` tells exactly what `worklist` holds, and no block is queued
\* twice: the membership test that guards every push is never stale.
WorklistAgrees ==
    /\ in_worklist = Range(worklist)
    /\ IsInjective(worklist)

Settled(b) ==
    /\ live_out[b] = OutOf(cfg, b, live_in)
    /\ live_in[b] = InOf(cfg, b, live_out[b])

\* A block whose equations may not hold is always still queued, so nothing
\* has to be revisited when the worklist runs empty.
UnsettledIsQueued ==
    phase \in {"flow", "fixpoint"} =>
        \A b \in cfg.blocks \ in_worklist : Settled(b)

IsSolution(g, in) ==
    \A b \in g.blocks : in[b] = InOf(g, b, OutOf(g, b, in))

\* At every moment, and also when the limit has cut the analysis off, a
\* register is reported live only if every solution of the equations has it
\* live: the analysis errs by omission only.
NoSpuriousLive ==
    \A in \in [cfg.blocks -> SUBSET Regs] :
        IsSolution(cfg, in) =>
            \A b \in cfg.blocks : live_in[b] \subseteq in[b]

\* When the loop ends because the worklist is empty, live_in is a solution of
\* the equations in the doc comment of compute_liveness and live_out the one
\* that goes with it.  With NoSpuriousLive: it is the least solution.
FixpointSolves ==
    phase = "fixpoint" =>
        /\ IsSolution(cfg, live_in)
        /\ \A b \in cfg.blocks : live_out[b] = OutOf(cfg, b, live_in)

\* r may be read on some path from the start of b before it is written.
LiveByPaths(g, b) ==
    {r \in Regs : \E pc \in Reached(g, {<<b, 1>>}, r) : r \in At(g, pc).uses}

\* A completed analysis reports as live-in of a block exactly the registers
\* that some execution path from the block reads before writing them.
LiveMeansReadOnAPath ==
    phase = "fixpoint" => \A b \in cfg.blocks : live_in[b] = LiveByPaths(cfg, b)

\* A register once found live stays live: no step shrinks a live set.
LiveSetsGrow ==
    [][\A b \in cfg.blocks :
          live_in[b] \subseteq live_in'[b] /\ live_out[b] \subseteq live_out'[b]]_vars

\* The analysis always returns.
Terminates == <>(phase \in {"fixpoint", "cut"})

=============================================================================

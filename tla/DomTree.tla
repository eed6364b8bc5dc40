------------------------------- MODULE DomTree -------------------------------
(***************************************************************************)
(* DominatorTree::compute of src/src/structuring/analysis.rs: a            *)
(* depth-first reverse postorder from the entry, then Cooper-Harvey-       *)
(* Kennedy sweeps over it until no immediate dominator changes.  Every     *)
(* turn of every loop is a step, the climb of `intersect` included, so     *)
(* that the termination of each loop is part of what is checked.           *)
(*                                                                         *)
(* The `predecessors` vector is in PC order except for the call-return     *)
(* edges build_function_cfg appends; the model takes predecessors in any   *)
(* order, so the result is checked for all of them.                        *)
(***************************************************************************)
EXTENDS FlowGraph

CONSTANT Cfgs       \* the flow graphs to analyse

ASSUME GraphsAssumption == \A g \in Cfgs : IsFlowGraph(g)

NoBlock == -1       \* an absent key of the `idom` map; PCs are naturals

VARIABLES
    cfg,
    phase,      \* "order", "sweep", "meet", "done"
    stack,      \* the call stack of dfs_post_order: [block, next successor]
    visited,
    post_order,
    idom,       \* [blocks -> blocks or NoBlock]
    at,         \* position of the sweep, counted from the end of post_order
    changed,
    todo,       \* processed predecessors still to be intersected
    b1, b2      \* the two fingers of `intersect`; equal when it has returned

vars == <<cfg, phase, stack, visited, post_order, idom, at, changed, todo, b1, b2>>

dfsVars == <<stack, visited, post_order>>
domVars == <<idom, at, changed, todo, b1, b2>>

-----------------------------------------------------------------------------
\* rpo is post_order reversed: position k of rpo is position N + 1 - k of
\* post_order, and a larger rpo index is a smaller post_order index.
RpoAt(k) == post_order[Len(post_order) + 1 - k]

PostIndex(b) == CHOOSE i \in DOMAIN post_order : post_order[i] = b

Processed(b) == idom[b] # NoBlock

Init ==
    /\ cfg \in Cfgs
    /\ phase = "order"
    /\ stack = <<[block |-> cfg.entry, next |-> 1]>>
    /\ visited = {cfg.entry}
    /\ post_order = <<>>
    /\ idom = [b \in cfg.blocks |-> IF b = cfg.entry THEN b ELSE NoBlock]
    /\ at = 1
    /\ changed = FALSE
    /\ todo = {}
    /\ b1 = cfg.entry
    /\ b2 = cfg.entry

Top == stack[Len(stack)]

\* dfs_post_order calls itself on the next successor; the call returns at once
\* if the successor was visited.
DfsCall ==
    /\ phase = "order"
    /\ stack # <<>>
    /\ Top.next <= Len(cfg.succ[Top.block])
    /\ LET s == cfg.succ[Top.block][Top.next]
           advanced == [stack EXCEPT ![Len(stack)].next = @ + 1]
       IN  /\ visited' = visited \cup {s}
           /\ stack' = IF s \in visited
                       THEN advanced
                       ELSE Append(advanced, [block |-> s, next |-> 1])
    /\ UNCHANGED <<cfg, phase, post_order, domVars>>

DfsReturn ==
    /\ phase = "order"
    /\ stack # <<>>
    /\ Top.next > Len(cfg.succ[Top.block])
    /\ stack' = SubSeq(stack, 1, Len(stack) - 1)
    /\ post_order' = Append(post_order, Top.block)
    /\ phase' = IF Len(stack) = 1 THEN "sweep" ELSE "order"
    /\ UNCHANGED <<cfg, visited, domVars>>

-----------------------------------------------------------------------------
\* Predecessors that already have an immediate dominator; the entry is never
\* recomputed.
Candidates(b) ==
    IF b = cfg.entry THEN {} ELSE {p \in Preds(cfg, b) : Processed(p)}

InSweep == phase = "sweep" /\ at <= Len(post_order)

\* The entry, or a block without a processed predecessor.
Skip ==
    /\ InSweep
    /\ Candidates(RpoAt(at)) = {}
    /\ at' = at + 1
    /\ UNCHANGED <<cfg, phase, dfsVars, idom, changed, todo, b1, b2>>

\* The first processed predecessor is the candidate immediate dominator.
FirstPred ==
    /\ InSweep
    /\ \E p \in Candidates(RpoAt(at)) :
          /\ b1' = p
          /\ b2' = p
          /\ todo' = Candidates(RpoAt(at)) \ {p}
    /\ phase' = "meet"
    /\ UNCHANGED <<cfg, dfsVars, idom, at, changed>>

\* Call intersect(p, new_idom) for another processed predecessor.
NextPred ==
    /\ phase = "meet"
    /\ b1 = b2
    /\ \E p \in todo :
          /\ b1' = p
          /\ todo' = todo \ {p}
    /\ UNCHANGED <<cfg, phase, dfsVars, idom, at, changed, b2>>

\* intersect: the finger with the larger rpo index climbs to its idom.
Climb ==
    /\ phase = "meet"
    /\ b1 # b2
    /\ IF PostIndex(b1) < PostIndex(b2)
       THEN b1' = idom[b1] /\ b2' = b2
       ELSE b2' = idom[b2] /\ b1' = b1
    /\ UNCHANGED <<cfg, phase, dfsVars, idom, at, changed, todo>>

\* Faulty variant: a change is not noted, so that no second sweep follows.
BugRecordForgets ==
    /\ phase = "meet"
    /\ b1 = b2
    /\ todo = {}
    /\ idom' = [idom EXCEPT ![RpoAt(at)] = b2]
    /\ at' = at + 1
    /\ phase' = "sweep"
    /\ UNCHANGED <<cfg, dfsVars, changed, todo, b1, b2>>

\* Faulty variant: storing an equal value counts as a change.
BugRecordAlways ==
    /\ phase = "meet"
    /\ b1 = b2
    /\ todo = {}
    /\ idom' = [idom EXCEPT ![RpoAt(at)] = b2]
    /\ changed' = TRUE
    /\ at' = at + 1
    /\ phase' = "sweep"
    /\ UNCHANGED <<cfg, dfsVars, todo, b1, b2>>

\* All predecessors met: store the result if it differs.
Record ==
    /\ phase = "meet"
    /\ b1 = b2
    /\ todo = {}
    /\ idom' = [idom EXCEPT ![RpoAt(at)] = b2]
    /\ changed' = (changed \/ idom[RpoAt(at)] # b2)
    /\ at' = at + 1
    /\ phase' = "sweep"
    /\ UNCHANGED <<cfg, dfsVars, todo, b1, b2>>

\* while changed { changed = false; ... }
Resweep ==
    /\ phase = "sweep"
    /\ at > Len(post_order)
    /\ changed
    /\ changed' = FALSE
    /\ at' = 1
    /\ UNCHANGED <<cfg, phase, dfsVars, idom, todo, b1, b2>>

Return ==
    /\ phase = "sweep"
    /\ at > Len(post_order)
    /\ ~changed
    /\ phase' = "done"
    /\ UNCHANGED <<cfg, dfsVars, domVars>>

Next == DfsCall \/ DfsReturn \/ Skip \/ FirstPred \/ NextPred \/ Climb
            \/ Record \/ Resweep \/ Return

\* One sequential call: it keeps running as long as it has a step to take.
Spec == Init /\ [][Next]_vars /\ WF_vars(Next)

-----------------------------------------------------------------------------
(* Properties *)

=============================================================================

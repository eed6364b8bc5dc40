----------------------------- MODULE Structuring -----------------------------
(***************************************************************************)
(* StructuralAnalysis::analyze_with_dom_tree of                            *)
(* src/src/structuring/analysis.rs, run on the dominator tree that DomTree *)
(* computes: strongly connected components (Kosaraju), dispatch switches,  *)
(* natural loops and conditionals.                                         *)
(*                                                                         *)
(* A graph has, besides the fields of FlowGraph, the field `indirect`: the *)
(* blocks that end in JumpInd.  The program has a jump table and the       *)
(* function entries are known, as they are when the pipeline calls the     *)
(* analysis, so that every switch is dispatch.  Conditions and the cases   *)
(* of a switch are left out: they are copied from the instructions.        *)
(***************************************************************************)
EXTENDS DomTree

CONSTANT JoinDepth  \* depth limit of forward_reachable; the code has 20

ASSUME IndirectAssumption == \A g \in Cfgs : g.indirect \subseteq g.blocks

ASSUME DepthAssumption == JoinDepth \in Nat

VARIABLES
    stage,          \* "finish", "components", "loops", "ifs", "join", "end"
    frames,         \* compute_sccs: the depth-first stack of the first pass
    seen,           \* compute_sccs: visited
    finish_order,
    sccs,           \* the components found so far
    scan,           \* position of the loop over the blocks
    found,          \* detect_loops: the loops pushed so far
    loops,          \* the loops kept, after sorting and removing duplicates
    ifs,
    queue,          \* find_join_point: the search from the second successor
    reached         \* find_join_point: visited

sccVars == <<frames, seen, finish_order, sccs>>
structVars == <<stage, sccVars, scan, found, loops, ifs, queue, reached>>
allVars == <<vars, structVars>>

-----------------------------------------------------------------------------
\* dominates: walk the idom chain of b up to the entry.
IdomChain(b) ==
    Closure({b}, [x \in cfg.blocks |-> {idom[x]} \ {NoBlock}])

Dominates(a, b) == a \in IdomChain(b)

\* succ_index: the successors in increasing order, duplicates kept.
SortedSuccs(b) ==
    LET s == cfg.succ[b]
        place == CHOOSE q \in Bijection(DOMAIN s, DOMAIN s) :
                     \A i, j \in DOMAIN s : i < j => s[q[i]] <= s[q[j]]
    IN  [i \in DOMAIN s |-> s[place[i]]]

\* The second pass of compute_sccs: what leads to start among untaken blocks.
Backwards(start, taken) ==
    Closure({start}, [x \in cfg.blocks |-> Preds(cfg, x) \ taken])

\* Blocks of a region that some block outside leads to.
EntryNodes(body) == {n \in body : ~(Preds(cfg, n) \subseteq body)}

\* collect_dispatch_scc_blocks and collect_irreducible_scc_blocks.
DispatchBlocks == UNION {C \in sccs : C \cap cfg.indirect # {}}

IrreducibleBlocks ==
    UNION {C \in sccs : Cardinality(C) > 1 /\ Cardinality(EntryNodes(C)) > 1}

\* Faulty variant: the walk goes on past the header.
BugLoopBody(header, latch) == {header} \cup Backwards(latch, {})

\* collect_loop_body: walk predecessors from the latch, not past the header.
LoopBody(header, latch) ==
    IF header = latch THEN {header} ELSE {header} \cup Backwards(latch, {header})

IsBackEdge(b, s) == Dominates(s, b)

\* Faulty variant: a loop at the entry must have an entry edge as well.
BugIsReducible(header, body) ==
    /\ \A n \in body : Dominates(header, n)
    /\ EntryNodes(body) = {header}

\* is_reducible_loop_region
IsReducible(header, body) ==
    /\ \A n \in body : Dominates(header, n)
    /\ \/ header = cfg.entry /\ EntryNodes(body) = {}
       \/ EntryNodes(body) = {header}

\* The loops one block's edges contribute, in successor order.
LoopsFrom(b) ==
    LET body(h) == LoopBody(h, b)
        heads == Kept(cfg.succ[b],
                      {h \in Succs(cfg, b) : /\ IsBackEdge(b, h)
                                             /\ IsReducible(h, body(h))
                                             /\ ~(body(h) \subseteq DispatchBlocks)})
    IN  [i \in DOMAIN heads |-> [header |-> heads[i], latch |-> b, body |-> body(heads[i])]]

\* Faulty variant: loops are told apart by their latch.
BugFirstPerLatch(q) ==
    {q[i] : i \in {k \in DOMAIN q : \A j \in 1..(k - 1) : q[j].latch # q[k].latch}}

\* The stable sort by header, of which dedup_by_key keeps the first per header.
FirstPerHeader(q) ==
    {q[i] : i \in {k \in DOMAIN q : \A j \in 1..(k - 1) : q[j].header # q[k].header}}

-----------------------------------------------------------------------------
(* find_join_point *)

ForwardReachable(start, stop) ==
    Rounds(JoinDepth, {start}, [x \in cfg.blocks |-> Succs(cfg, x) \ {stop}])

NoJoin == NoBlock

\* Faulty variant: the ways back of loops are taken for branches.
BugHeadsIf(b) ==
    /\ Len(cfg.succ[b]) = 2
    /\ b \notin DispatchBlocks \cup IrreducibleBlocks

\* detect_if_then_else: blocks that may head a conditional.
HeadsIf(b) ==
    /\ Len(cfg.succ[b]) = 2
    /\ b \notin {l.header : l \in loops} \cup DispatchBlocks \cup IrreducibleBlocks
    /\ \A s \in Succs(cfg, b) : ~Dominates(s, b)

IfThenElse(b, join) ==
    LET t == cfg.succ[b][1]
        e == cfg.succ[b][2]
    IN  [header |-> b, join |-> join,
         then_blocks |-> IF join = t THEN {} ELSE {t},
         else_blocks |-> IF join # t /\ join = e THEN {} ELSE {e}]

-----------------------------------------------------------------------------
SInit ==
    /\ Init
    /\ stage = "finish"
    /\ frames = <<>>
    /\ seen = {}
    /\ finish_order = <<>>
    /\ sccs = {}
    /\ scan = 1
    /\ found = <<>>
    /\ loops = {}
    /\ ifs = {}
    /\ queue = <<>>
    /\ reached = {}

\* The dominator tree is computed first.
Dominators == Next /\ UNCHANGED structVars

FinishRoot ==
    /\ phase = "done" /\ stage = "finish"
    /\ frames = <<>>
    /\ \E r \in cfg.blocks \ seen :
          /\ \A b \in cfg.blocks \ seen : r <= b
          /\ seen' = seen \cup {r}
          /\ frames' = <<[block |-> r, next |-> 1]>>
    /\ UNCHANGED <<vars, stage, finish_order, sccs, scan, found, loops, ifs, queue, reached>>

TopFrame == frames[Len(frames)]

FinishEdge ==
    /\ phase = "done" /\ stage = "finish"
    /\ frames # <<>>
    /\ TopFrame.next <= Len(cfg.succ[TopFrame.block])
    /\ LET s == SortedSuccs(TopFrame.block)[TopFrame.next]
           advanced == [frames EXCEPT ![Len(frames)].next = @ + 1]
       IN  /\ seen' = seen \cup {s}
           /\ frames' = IF s \in seen THEN advanced
                        ELSE Append(advanced, [block |-> s, next |-> 1])
    /\ UNCHANGED <<vars, stage, finish_order, sccs, scan, found, loops, ifs, queue, reached>>

FinishLeave ==
    /\ phase = "done" /\ stage = "finish"
    /\ frames # <<>>
    /\ TopFrame.next > Len(cfg.succ[TopFrame.block])
    /\ frames' = SubSeq(frames, 1, Len(frames) - 1)
    /\ finish_order' = Append(finish_order, TopFrame.block)
    /\ stage' = IF Len(finish_order') = Cardinality(cfg.blocks)
                THEN "components" ELSE "finish"
    /\ UNCHANGED <<vars, seen, sccs, scan, found, loops, ifs, queue, reached>>

\* The unassigned block that finished last starts the next component.
TakeComponent ==
    /\ phase = "done" /\ stage = "components"
    /\ LET assigned == UNION sccs
           free == {i \in DOMAIN finish_order : finish_order[i] \notin assigned}
           last == CHOOSE i \in free : \A j \in free : j <= i
           C == Backwards(finish_order[last], assigned)
       IN  /\ free # {}
           /\ sccs' = sccs \cup {C}
           /\ stage' = IF assigned \cup C = cfg.blocks THEN "loops" ELSE "components"
    /\ UNCHANGED <<vars, frames, seen, finish_order, scan, found, loops, ifs, queue, reached>>

\* for block in cfg.blocks.values(): in the order of the map.
ScanBlock ==
    /\ phase = "done" /\ stage = "loops"
    /\ scan <= Cardinality(cfg.blocks)
    /\ \E order \in InMapOrder(cfg, cfg.blocks) :
          found' = found \o LoopsFrom(order[scan])
    /\ scan' = scan + 1
    /\ UNCHANGED <<vars, stage, frames, seen, finish_order, sccs, loops, ifs, queue, reached>>

KeepLoops ==
    /\ phase = "done" /\ stage = "loops"
    /\ scan > Cardinality(cfg.blocks)
    /\ loops' = FirstPerHeader(found)
    /\ stage' = "ifs"
    /\ scan' = 1
    /\ UNCHANGED <<vars, frames, seen, finish_order, sccs, found, ifs, queue, reached>>

InIfs == phase = "done" /\ stage = "ifs" /\ scan <= Len(post_order)

NotAnIf ==
    /\ InIfs
    /\ ~HeadsIf(RpoAt(scan))
    /\ scan' = scan + 1
    /\ UNCHANGED <<vars, stage, sccVars, found, loops, ifs, queue, reached>>

BeginIf ==
    /\ InIfs
    /\ HeadsIf(RpoAt(scan))
    /\ queue' = <<cfg.succ[RpoAt(scan)][2]>>
    /\ reached' = {}
    /\ stage' = "join"
    /\ UNCHANGED <<vars, sccVars, scan, found, loops, ifs>>

\* Faulty variant: any block but the first successor ends the search.
BugMeets(node) == node # cfg.succ[RpoAt(scan)][1]

\* What the first successor reaches, itself excluded, ends the search.
Meets(node) ==
    LET h == RpoAt(scan)
        a == cfg.succ[h][1]
    IN  node \in ForwardReachable(a, h) /\ node # a

\* find_join_point pops a block that is not the join.
SearchOn ==
    /\ phase = "done" /\ stage = "join"
    /\ queue # <<>>
    /\ \/ /\ Head(queue) \in reached
          /\ queue' = Tail(queue)
          /\ UNCHANGED reached
       \/ /\ Head(queue) \notin reached
          /\ ~Meets(Head(queue))
          /\ reached' = reached \cup {Head(queue)}
          /\ queue' = Tail(queue) \o Kept(cfg.succ[Head(queue)],
                {s \in cfg.blocks \ reached' : ~Dominates(s, RpoAt(scan))})
    /\ UNCHANGED <<vars, stage, sccVars, scan, found, loops, ifs>>

RecordIf(join) ==
    /\ ifs' = ifs \cup {IfThenElse(RpoAt(scan), join)}
    /\ scan' = scan + 1
    /\ stage' = "ifs"
    /\ UNCHANGED <<vars, sccVars, found, loops, queue, reached>>

JoinFound ==
    /\ phase = "done" /\ stage = "join"
    /\ queue # <<>>
    /\ Head(queue) \notin reached
    /\ Meets(Head(queue))
    /\ RecordIf(Head(queue))

\* The search ran dry; the second successor itself may be the join.
NoneFound ==
    /\ phase = "done" /\ stage = "join"
    /\ queue = <<>>
    /\ LET h == RpoAt(scan)
           e == cfg.succ[h][2]
       IN  RecordIf(IF e \in ForwardReachable(cfg.succ[h][1], h) THEN e ELSE NoJoin)

End ==
    /\ phase = "done" /\ stage = "ifs"
    /\ scan > Len(post_order)
    /\ stage' = "end"
    /\ UNCHANGED <<vars, frames, seen, finish_order, sccs, scan, found, loops, ifs, queue, reached>>

SNext == Dominators \/ FinishRoot \/ FinishEdge \/ FinishLeave \/ TakeComponent
            \/ ScanBlock \/ KeepLoops \/ NotAnIf \/ BeginIf \/ SearchOn
            \/ JoinFound \/ NoneFound \/ End

\* One sequential call after the other.
SSpec == SInit /\ [][SNext]_allVars /\ WF_allVars(SNext)

-----------------------------------------------------------------------------
(* Properties *)

\* The analysis always ends.
AnalysisEnds == <>(stage = "end")

\* Two loops kept are disjoint or one contains the other, also when several
\* back edges share a header and all but one of their loops were dropped:
\* the emitter can print one inside the other.
LoopsNest ==
    \A l, k \in loops :
        \/ l.body \cap k.body = {}
        \/ l.body \subseteq k.body
        \/ k.body \subseteq l.body

\* a dominates b, by paths.
ByPaths(a, b) ==
    /\ b \in Reach(cfg, cfg.entry, {})
    /\ b \notin Reach(cfg, cfg.entry, {a})

\* The finished tree is the dominator tree: the idom chain of a reachable
\* block consists of exactly its strict dominators, the nearest one first,
\* and an unreachable block has no entry in the map.
TreeIsDominance ==
    (phase = "done" /\ stage = "end") =>
        \A b \in cfg.blocks \ {cfg.entry} :
            IF b \in Reach(cfg, cfg.entry, {})
            THEN /\ idom[b] # b
                 /\ ByPaths(idom[b], b)
                 /\ \A a \in cfg.blocks \ {b} :
                        ByPaths(a, b) => a = idom[b] \/ ByPaths(a, idom[b])
            ELSE idom[b] = NoBlock

\* A loop kept is the natural loop of its back edge: the blocks from which
\* the latch is reached without passing the header.
LoopIsNatural ==
    \A l \in loops :
        /\ l.header \in Succs(cfg, l.latch)
        /\ \A n \in cfg.blocks \ {l.header} :
              n \in l.body <=> l.latch \in Reach(cfg, n, {l.header})

\* Each component is strongly connected and none can be made larger: the blocks
\* of it are those that a block of it reaches and is reached from.
ComponentsAreStrong ==
    \A C \in sccs : \A x \in C : \A y \in cfg.blocks :
        y \in C <=> y \in Reach(cfg, x, {}) /\ x \in Reach(cfg, y, {})

\* A cyclic region with a single way in is never left unstructured: unless it
\* is dispatch, a loop headed by its entry is kept.
NoReducibleRegionMissed ==
    stage = "end" =>
        \A C \in sccs : \A e \in C :
            (/\ e \in Reach(cfg, cfg.entry, {})
             /\ Cardinality(C) > 1
             /\ IF cfg.entry \in C THEN e = cfg.entry /\ EntryNodes(C) \subseteq {e}
                ELSE EntryNodes(C) = {e}
             /\ C \cap cfg.indirect = {})
            => \E l \in loops : l.header = e

\* The join of a conditional is common to its branches: both lead to it
\* without going round through the header.
JoinIsCommon ==
    \A f \in ifs :
        f.join # NoJoin =>
            \A s \in Succs(cfg, f.header) : f.join \in Reach(cfg, s, {f.header})

=============================================================================

--------------------------- MODULE FunctionBounds ---------------------------
(***************************************************************************)
(* detect_functions of src/src/functions.rs: the blocks of a program are   *)
(* grouped into components connected by edges of either direction, and a   *)
(* component is split where a block looks like the entry of a function.    *)
(* When it is split, a breadth-first search from each entry in turn claims *)
(* the blocks it reaches over a shorter way than the entries before it.    *)
(*                                                                         *)
(* A program graph has, besides the fields of FlowGraph,                   *)
(*   jumps     the blocks whose last instruction is an unconditional Jump, *)
(*   prologue  the blocks whose first instruction adjusts or stores to the *)
(*             stack pointer (has_stack_prologue).                         *)
(***************************************************************************)
EXTENDS FlowGraph

CONSTANT Programs   \* the program graphs to split

IsProgram(g) ==
    /\ IsFlowGraph(g)
    /\ g.jumps \subseteq g.blocks
    /\ g.prologue \subseteq g.blocks

ASSUME ProgramsAssumption == \A g \in Programs : IsProgram(g)

NoBlock == -1       \* a key missing from `distances` and `assignments`

VARIABLES
    cfg,
    phase,          \* "components", "split", "assign", "done"
    components,     \* find_connected_components: the components, in order
    comp,           \* index of the component being split
    entries,        \* all_entries of that component
    turn,           \* index of the entry whose search runs
    queue,          \* its VecDeque of <<block, distance>>
    distances,      \* [blocks -> distance or NoBlock]
    assignments,    \* [blocks -> entry or NoBlock]
    functions       \* the functions so far, as [entry, blocks]

vars == <<cfg, phase, components, comp, entries, turn, queue, distances,
          assignments, functions>>

assignVars == <<entries, turn, queue, distances, assignments>>

-----------------------------------------------------------------------------
MinOf(S) == CHOOSE x \in S : \A y \in S : x <= y

\* bfs_component: the blocks connected to start by edges in either direction.
Component(g, start) ==
    Closure({start}, [x \in g.blocks |-> Succs(g, x) \cup Preds(g, x)])

\* The smallest block nothing in the component leads to, else the smallest.
ComponentEntry(g, C) ==
    LET noPred == {b \in C : Preds(g, b) \cap C = {}}
    IN  MinOf(IF noPred # {} THEN noPred ELSE C)

\* Some block of the component ends in a jump (not a branch or a fall
\* through) and leads here.
IsCallTarget(g, b, C) == \E p \in Preds(g, b) \cap C : p \in g.jumps

PrologueEntries(g, C) ==
    {b \in C \ {ComponentEntry(g, C)} : b \in g.prologue /\ IsCallTarget(g, b, C)}

\* A function per entry, of the blocks assigned to it; entries that got none
\* are dropped.
Claimed(a, e) == {b \in cfg.blocks : a[b] = e}

RawFunctions(q, a) ==
    {[entry |-> q[i], blocks |-> Claimed(a, q[i])] :
        i \in {j \in DOMAIN q : Claimed(a, q[j]) # {}}}

-----------------------------------------------------------------------------
Init ==
    /\ cfg \in Programs
    /\ phase = "components"
    /\ components = <<>>
    /\ comp = 1
    /\ entries = <<>>
    /\ turn = 1
    /\ queue = <<>>
    /\ distances = [b \in cfg.blocks |-> NoBlock]
    /\ assignments = [b \in cfg.blocks |-> NoBlock]
    /\ functions = {}

Grouped == UNION Range(components)

\* The component of the entry comes first, the others by smallest block.
FindComponent ==
    /\ phase = "components"
    /\ Grouped # cfg.blocks
    /\ LET start == IF cfg.entry \notin Grouped THEN cfg.entry
                    ELSE MinOf(cfg.blocks \ Grouped)
       IN  components' = Append(components, Component(cfg, start))
    /\ UNCHANGED <<cfg, phase, comp, assignVars, functions>>

ComponentsFound ==
    /\ phase = "components"
    /\ Grouped = cfg.blocks
    /\ phase' = "split"
    /\ UNCHANGED <<cfg, components, comp, assignVars, functions>>

Splitting == phase = "split" /\ comp <= Len(components)

\* No prologue inside: the whole component is one function.  (A component of
\* one block has no other block and takes the same way.)
KeepWhole ==
    /\ Splitting
    /\ LET C == components[comp]
       IN  /\ PrologueEntries(cfg, C) = {}
           /\ functions' = functions \cup
                 {[entry |-> ComponentEntry(cfg, C), blocks |-> C]}
    /\ comp' = comp + 1
    /\ UNCHANGED <<cfg, phase, components, assignVars>>

\* Start the search from the component's entry, then one per prologue.
BeginSplit ==
    /\ Splitting
    /\ LET C == components[comp]
       IN  /\ PrologueEntries(cfg, C) # {}
           /\ entries' = <<ComponentEntry(cfg, C)>> \o Sorted(PrologueEntries(cfg, C))
           /\ queue' = <<<<ComponentEntry(cfg, C), 0>>>>
    /\ turn' = 1
    /\ distances' = [b \in cfg.blocks |-> NoBlock]
    /\ assignments' = [b \in cfg.blocks |-> NoBlock]
    /\ phase' = "assign"
    /\ UNCHANGED <<cfg, components, comp, functions>>

\* The popped block is claimed if it is new, nearer, or as near and the
\* running entry has the smaller PC.
Wins(b, d) ==
    \/ distances[b] = NoBlock
    \/ d < distances[b]
    \/ d = distances[b] /\ entries[turn] < assignments[b]

\* Faulty variant: a later search never goes through a claimed block.
BugOnlyNew(b, d, known) ==
    Kept(cfg.succ[b], {s \in components[comp] : known[s] = NoBlock})

\* Faulty variant: a missing distance counts as a short one.
BugMissingIsNear(b, d, known) ==
    Kept(cfg.succ[b], {s \in components[comp] : d + 1 < known[s]})

\* Successors of b that a way of length d + 1 improves, in successor order
\* and with duplicates; `known` are the distances after b was claimed.
Improved(b, d, known) ==
    Kept(cfg.succ[b], {s \in components[comp] : known[s] = NoBlock \/ d + 1 < known[s]})

Claim ==
    /\ phase = "assign"
    /\ queue # <<>>
    /\ LET b == queue[1][1]
           d == queue[1][2]
           near == Improved(b, d, [distances EXCEPT ![b] = d])
       IN  /\ Wins(b, d)
           /\ distances' = [distances EXCEPT ![b] = d]
           /\ assignments' = [assignments EXCEPT ![b] = entries[turn]]
           /\ queue' = Tail(queue) \o [i \in DOMAIN near |-> <<near[i], d + 1>>]
    /\ UNCHANGED <<cfg, phase, components, comp, entries, turn, functions>>

\* Faulty variant: the queue is looked at, not popped.
BugPassOver ==
    /\ phase = "assign"
    /\ queue # <<>>
    /\ ~Wins(queue[1][1], queue[1][2])
    /\ UNCHANGED vars

PassOver ==
    /\ phase = "assign"
    /\ queue # <<>>
    /\ ~Wins(queue[1][1], queue[1][2])
    /\ queue' = Tail(queue)
    /\ UNCHANGED <<cfg, phase, components, comp, entries, turn, distances,
                   assignments, functions>>

NextEntry ==
    /\ phase = "assign"
    /\ queue = <<>>
    /\ turn < Len(entries)
    /\ turn' = turn + 1
    /\ queue' = <<<<entries[turn + 1], 0>>>>
    /\ UNCHANGED <<cfg, phase, components, comp, entries, distances,
                   assignments, functions>>

EndSplit ==
    /\ phase = "assign"
    /\ queue = <<>>
    /\ turn = Len(entries)
    /\ functions' = functions \cup RawFunctions(entries, assignments)
    /\ comp' = comp + 1
    /\ phase' = "split"
    /\ UNCHANGED <<cfg, components, assignVars>>

\* Functions are sorted by entry and named; as a set they are complete.
Done ==
    /\ phase = "split"
    /\ comp > Len(components)
    /\ phase' = "done"
    /\ UNCHANGED <<cfg, components, comp, assignVars, functions>>

Next == FindComponent \/ ComponentsFound \/ KeepWhole \/ BeginSplit \/ Claim
            \/ PassOver \/ NextEntry \/ EndSplit \/ Done

\* One sequential call.
Spec == Init /\ [][Next]_vars /\ WF_vars(Next)

-----------------------------------------------------------------------------
(* Properties *)

\* A block is missing from every function only if no entry of its component
\* leads to it: reachable code is never dropped.
OnlyUnreachedDropped ==
    phase = "done" =>
        \A b \in cfg.blocks \ UNION {f.blocks : f \in functions} :
            \A f \in functions : b \notin Reach(cfg, f.entry, {})

\* The length of the shortest way from a to b; larger than any if none.
Distance(g, a, b) ==
    LET ways == {k \in 0..Cardinality(g.blocks) :
                    b \in Rounds(k, {a}, [x \in g.blocks |-> Succs(g, x)])}
    IN  IF ways = {} THEN Cardinality(g.blocks) + 1 ELSE MinOf(ways)

\* A block belongs to the function whose entry is nearest: no other function
\* of the program has an entry nearer to it.
NearestEntryWins ==
    phase = "done" =>
        \A f, h \in functions : \A b \in f.blocks :
            Distance(cfg, f.entry, b) <= Distance(cfg, h.entry, b)

=============================================================================

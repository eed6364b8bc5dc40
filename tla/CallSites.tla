------------------------------ MODULE CallSites ------------------------------
(***************************************************************************)
(* From the functions of a program to the part of each that is printed,    *)
(* following decompile_to_pseudocode of src/src/lib.rs after               *)
(* detect_functions: stub functions are pruned, direct calls (the return   *)
(* address loaded into r0, then a jump) are recognised, and for each       *)
(* function its graph is cut out of the program, completed with edges to   *)
(* the blocks its calls return to, and the blocks that only serve calls    *)
(* (trampolines) or heap allocation are hidden.                            *)
(*                                                                         *)
(* A program graph has, besides the fields of FunctionBounds,              *)
(*   ret        per block the address its call returns to: the block ends  *)
(*              in LoadImm64 r0 and Jump, and r0 names an entry of the     *)
(*              jump table (NoBlock if not so),                            *)
(*   table      the addresses in the jump table,                           *)
(*   stubs      the blocks of trap and fallthrough instructions only,      *)
(*   heapLoads  the blocks that load the heap pointer and the heap size,   *)
(*   heapStore  the blocks that store the heap pointer back.               *)
(***************************************************************************)
EXTENDS FunctionBounds

IsCallProgram(g) ==
    /\ IsProgram(g)
    /\ g.ret \in [g.blocks -> g.table \cup {NoBlock}]
    /\ g.table \subseteq Nat
    /\ g.stubs \subseteq g.blocks
    /\ g.heapLoads \subseteq g.blocks
    /\ g.heapStore \subseteq g.blocks

ASSUME CallProgramsAssumption == \A g \in Programs : IsCallProgram(g)

VARIABLES
    patterns,       \* direct_call_patterns, in the order of the block map
    todo,           \* functions still to be printed
    fn,             \* the function at hand
    succ, pred,     \* the edges of its graph
    turnOf,         \* index of the pattern a loop has come to
    hidden,         \* suppressed_blocks
    work            \* the queue of a search

callVars == <<patterns, todo, fn, succ, pred, turnOf, hidden, work>>
graphVars == <<succ, pred>>
boundsVars == <<cfg, components, comp, assignVars>>

NoFunction == [entry |-> NoBlock, blocks |-> {}]

-----------------------------------------------------------------------------
(* prune_unreachable_trivial_functions *)

IsPruned(f) ==
    /\ f.entry # cfg.entry
    /\ f.entry \notin cfg.table
    /\ Preds(cfg, f.entry) = {}
    /\ f.blocks \subseteq cfg.stubs

(* detect_direct_call_patterns *)

FunctionOf(b) ==
    IF \E f \in functions : b \in f.blocks
    THEN (CHOOSE f \in functions : b \in f.blocks).entry
    ELSE NoBlock

Entries == {f.entry : f \in functions}

\* The callee is the function jumped to.  A jump within the function is a call
\* through a trampoline if the return address is another function's entry,
\* which is then taken for the callee.
Callee(b) ==
    LET target == cfg.succ[b][1]
    IN  CASE FunctionOf(target) # FunctionOf(b) -> FunctionOf(target)
          [] FunctionOf(target) = FunctionOf(b) /\ cfg.ret[b] \in Entries \ {FunctionOf(b)}
                -> cfg.ret[b]
          [] OTHER -> NoBlock

IsDirectCall(b) ==
    /\ b \in cfg.jumps
    /\ cfg.ret[b] # NoBlock
    /\ FunctionOf(b) # NoBlock
    /\ cfg.succ[b] # <<>>
    /\ FunctionOf(cfg.succ[b][1]) # NoBlock
    /\ Callee(b) # NoBlock

PatternAt(b) ==
    [caller |-> b, target |-> cfg.succ[b][1], ret |-> cfg.ret[b], callee |-> Callee(b)]

AllPatterns == Range(patterns)

(* build_function_cfg *)

WithSucc(s, b, t) == IF t \in Range(s[b]) THEN s ELSE [s EXCEPT ![b] = Append(@, t)]
WithPred(p, b, t) == [p EXCEPT ![b] = @ \cup {t}]

\* Blocks of the jump table that nothing in the function leads to.
Orphans == {b \in fn.blocks \ {fn.entry} : pred[b] = {} /\ b \in cfg.table}

\* The first orphan behind the caller, else the first.
Continuation(caller) ==
    LET behind == {b \in Orphans : b > caller}
    IN  MinOf(IF behind # {} THEN behind ELSE Orphans)

(* The searches of decompile_to_pseudocode *)

\* suppression_stop_pcs
Stops ==
    {p.caller : p \in AllPatterns} \cup {p.ret : p \in AllPatterns}
    \cup {b \in fn.blocks \ {fn.entry} :
             b \in cfg.table /\ \A q \in pred[b] : \E p \in AllPatterns : p.target = q}

CallEdges == {<<p.caller, p.target>> : p \in AllPatterns}

\* A hidden block that code which is printed leads to, other than by a call.
HasLiveEdge(b) == \E p \in pred[b] : p \notin hidden /\ <<p, b>> \notin CallEdges

\* detect_heap_alloc_pattern: the blocks reached from the entry before the
\* first block, other than the entry, that stores the heap pointer back.
HasHeapPattern == fn.entry \in cfg.heapLoads /\ cfg.heapStore \cap (fn.blocks \ {fn.entry}) # {}

Convergence == MinOf(cfg.heapStore \cap (fn.blocks \ {fn.entry}))

SbrkBlocks ==
    LET ends == {fn.entry, Convergence}
    IN  Closure(Range(succ[fn.entry]) \ ends, [x \in fn.blocks |-> Range(succ[x]) \ ends])

-----------------------------------------------------------------------------
CallInit ==
    /\ Init
    /\ patterns = <<>>
    /\ todo = {}
    /\ fn = NoFunction
    /\ succ = <<>>
    /\ pred = <<>>
    /\ turnOf = 1
    /\ hidden = {}
    /\ work = <<>>

Prune ==
    /\ phase = "done"
    /\ functions' = {f \in functions : ~IsPruned(f)}
    /\ phase' = "calls"
    /\ UNCHANGED <<boundsVars, callVars>>

FindCalls ==
    /\ phase = "calls"
    /\ \E q \in InMapOrder(cfg, {b \in cfg.blocks : IsDirectCall(b)}) :
           patterns' = [i \in DOMAIN q |-> PatternAt(q[i])]
    /\ todo' = functions
    /\ phase' = "next"
    /\ UNCHANGED <<boundsVars, functions, fn, graphVars, turnOf, hidden, work>>

\* The next function by entry: its blocks, with the edges among them.
BeginFunction ==
    /\ phase = "next"
    /\ todo # {}
    /\ \E f \in todo :
        /\ \A h \in todo : f.entry <= h.entry
        /\ fn' = f
        /\ todo' = todo \ {f}
        /\ succ' = [b \in f.blocks |-> Kept(cfg.succ[b], f.blocks)]
        /\ pred' = [b \in f.blocks |-> Preds(cfg, b) \cap f.blocks]
    /\ turnOf' = 1
    /\ hidden' = {}
    /\ work' = <<>>
    /\ phase' = "edges"
    /\ UNCHANGED <<boundsVars, functions, patterns>>

AtPattern == turnOf <= Len(patterns)
Here == patterns[turnOf]

\* A call that returns into the function: the caller leads to the return.
ReturnEdge ==
    /\ phase = "edges"
    /\ AtPattern
    /\ turnOf' = turnOf + 1
    /\ IF {Here.caller, Here.ret} \subseteq fn.blocks
       THEN /\ succ' = WithSucc(succ, Here.caller, Here.ret)
            /\ pred' = WithPred(pred, Here.ret, Here.caller)
       ELSE UNCHANGED graphVars
    /\ UNCHANGED <<boundsVars, phase, functions, patterns, todo, fn, hidden, work>>

\* A call through a trampoline that returns elsewhere: the trampoline leads to
\* a block of the jump table nothing leads to yet.
OrphanEdge ==
    /\ phase = "orphans"
    /\ AtPattern
    /\ turnOf' = turnOf + 1
    /\ IF /\ {Here.caller, Here.target} \subseteq fn.blocks
          /\ Here.ret \notin fn.blocks
          /\ Orphans # {}
       THEN /\ succ' = WithSucc(succ, Here.target, Continuation(Here.caller))
            /\ pred' = WithPred(pred, Continuation(Here.caller), Here.target)
       ELSE UNCHANGED graphVars
    /\ UNCHANGED <<boundsVars, phase, functions, patterns, todo, fn, hidden, work>>

\* One loop over the patterns ends and the next begins.
NextLoop(from, to) ==
    /\ phase = from
    /\ ~AtPattern
    /\ work = <<>>
    /\ turnOf' = 1
    /\ phase' = to
    /\ UNCHANGED <<boundsVars, functions, patterns, todo, fn, graphVars, hidden, work>>

\* Start hiding at the trampoline of another function's call.
HideFrom ==
    /\ phase = "hide"
    /\ AtPattern
    /\ work = <<>>
    /\ turnOf' = turnOf + 1
    /\ work' = IF Here.target \in fn.blocks /\ Here.callee # fn.entry
               THEN <<Here.target>> ELSE <<>>
    /\ UNCHANGED <<boundsVars, phase, functions, patterns, todo, fn, graphVars, hidden>>

ToHide(b) == Kept(succ[b], fn.blocks \ (hidden \cup {b} \cup Stops))

HideBlock ==
    /\ phase = "hide"
    /\ work # <<>>
    /\ LET b == Head(work)
       IN  /\ hidden' = hidden \cup {b}
           /\ work' = Tail(work) \o (IF b \in hidden THEN <<>> ELSE ToHide(b))
    /\ UNCHANGED <<boundsVars, phase, functions, patterns, todo, fn, graphVars, turnOf>>

\* unsuppress_blocks_with_live_incoming_edges: the set is met in any order.
BeginShow ==
    /\ phase = "hide"
    /\ ~AtPattern
    /\ work = <<>>
    /\ LET live == {b \in hidden : HasLiveEdge(b)}
       IN  work' \in Bijection(1..Cardinality(live), live)
    /\ phase' = "show"
    /\ UNCHANGED <<boundsVars, functions, patterns, todo, fn, graphVars, turnOf, hidden>>

\* Faulty variant: what lies behind a block shown again stays hidden.
BugToShow(b) == <<>>

ToShow(b) == Kept(succ[b], hidden \ {b})

ShowBlock ==
    /\ phase = "show"
    /\ work # <<>>
    /\ LET b == Head(work)
       IN  /\ hidden' = hidden \ {b}
           /\ work' = Tail(work) \o (IF b \in hidden THEN ToShow(b) ELSE <<>>)
    /\ UNCHANGED <<boundsVars, phase, functions, patterns, todo, fn, graphVars, turnOf>>

\* apply_heap_alloc_suppression, if the pattern is found and hides a block.
HideHeap ==
    /\ phase = "show"
    /\ work = <<>>
    /\ hidden' = IF HasHeapPattern THEN hidden \cup SbrkBlocks ELSE hidden
    /\ phase' = "printed"
    /\ UNCHANGED <<boundsVars, functions, patterns, todo, fn, graphVars, turnOf, work>>

NextFunction ==
    /\ phase = "printed"
    /\ phase' = "next"
    /\ UNCHANGED <<boundsVars, functions, callVars>>

Finish ==
    /\ phase = "next"
    /\ todo = {}
    /\ phase' = "end"
    /\ UNCHANGED <<boundsVars, functions, callVars>>

CallNext ==
    \/ Next /\ UNCHANGED callVars
    \/ Prune \/ FindCalls \/ BeginFunction \/ ReturnEdge \/ NextLoop("edges", "orphans")
    \/ OrphanEdge \/ NextLoop("orphans", "hide") \/ HideFrom \/ HideBlock
    \/ BeginShow \/ ShowBlock \/ HideHeap \/ NextFunction \/ Finish

allVars == <<vars, callVars>>

CallSpec == CallInit /\ [][CallNext]_allVars /\ WF_allVars(CallNext)

-----------------------------------------------------------------------------
(* Properties *)

Shown == phase = "show" /\ work = <<>>

\* After the repair no printed block leads to a hidden one, except the call
\* that the hidden block serves: no goto to a label that is not printed.
HiddenIsSealed ==
    Shown =>
        \A p \in fn.blocks \ hidden : \A b \in Range(succ[p]) \cap hidden :
            <<p, b>> \in CallEdges

\* Every function of every program is printed in the end.
Terminates == <>(phase = "end")

=============================================================================

------------------------------- MODULE Lifting -------------------------------
(***************************************************************************)
(* LiftedProgram::analyze_with_dom_tree of src/src/lifting.rs: the passes  *)
(* that turn the instructions of a function into expressions over named    *)
(* variables, run after the chains of DefUse and the values of Ssa.  Each  *)
(* pass, and each round of a pass that loops, is one action.               *)
(*                                                                         *)
(* An instruction is the record Ins builds; its shape is one of            *)
(*   imm     dst = imm              bin     dst = a op b                   *)
(*   binimm  dst = a op imm         rev     dst = imm op a                 *)
(*   load    dst = [a + imm]        store   [a + imm] = b                  *)
(*   ecalli  host call              branch  if (a op imm)                  *)
(*   cmov    if (b) dst = a         storeimm  [a + .] = const              *)
(*   jumpind jump to a              nop                                    *)
(* Unary operators, absolute addresses and access widths are left out: the *)
(* passes treat them like `binimm`, a constant base and one width.         *)
(***************************************************************************)
EXTENDS Ssa, Expressions, Folds, SmallGraphs

CONSTANTS
    SP,             \* the stack pointer, register 1
    R8,             \* the register of a host call's second result
    CaptureSlot,    \* R8_CAPTURE_SLOT_OFFSET
    HaltAddress     \* the constant a halting jump goes to

ASSUME RegisterAssumption == {SP, R8} \subseteq Regs /\ {CaptureSlot, HaltAddress} \subseteq Words

VARIABLES
    pass,           \* position in Pipeline
    expressions,    \* the expression of each PC
    eliminated_pcs,
    var_at_use,     \* per PC and register it uses the name; rN stands for none
    stack_vars,     \* the slots with a name: <<base, offset>>
    processed       \* the copies propagate_copies is done with

liftVars == <<pass, expressions, eliminated_pcs, var_at_use, stack_vars, processed>>

-----------------------------------------------------------------------------
(* Instructions and names *)

Ins(shape, op, dst, a, b, imm) ==
    [shape |-> shape, op |-> op, dst |-> dst, a |-> a, b |-> b, imm |-> imm,
     defs |-> IF shape = "ecalli" THEN Regs ELSE {dst} \ {0},
     uses |-> IF shape = "ecalli" THEN Regs ELSE {a, b} \ {0}]

Reg(r) == <<"reg", r>>

IsDefName(x) == x[1] \in {"ptr", "cond", "var"}

Uses(g) == UNION {{<<pc, r>> : r \in At(g, pc).uses} : pc \in Pcs(g)}

Before(p, q) == p[1] < q[1] \/ (p[1] = q[1] /\ p[2] < q[2])

UsesOf(pc, r) ==
    UNION {c.uses : c \in {x \in chains : x.definition = [pc |-> pc, reg |-> r]}}

\* infer_type, as far as it shows in a name; is_used_as_base
TypeOf(pc, r) ==
    IF At(cfg, pc).shape \in {"bin", "binimm"} /\ At(cfg, pc).op = "<" THEN "cond"
    ELSE IF \E u \in UsesOf(pc, r) :
               At(cfg, u).shape \in {"load", "store"} /\ At(cfg, u).a = r
    THEN "ptr"
    ELSE "var"

\* The name of a definition: the counters of the code make it unique.
Name(pc, r) == <<TypeOf(pc, r), pc, r>>

\* variables
Names == {Name(d.pc, d.reg) : d \in Definitions(cfg)}

\* The first of the definitions whose chain has the use, else the register.
ChainName(pc, r) ==
    LET defs == {d \in Definitions(cfg) : d.reg = r /\ pc \in UsesOf(d.pc, r)}
    IN  IF defs = {} THEN Reg(r)
        ELSE Name((CHOOSE d \in defs : \A e \in defs \ {d} : Before(d.pc, e.pc)).pc, r)

\* lower_ssa_to_lifted_uses: an instruction's value has its name; a phi only if
\* all operands share one; otherwise the name from the chains stays.
Lowered(pc, r, old) ==
    LET v == UseValue(pc, r)
        operands == IF v[1] = "phi" THEN Operands(v[2], v[3]) ELSE {v}
        names == {Name(o[2], o[3]) : o \in operands}
    IN  IF (\A o \in operands : o[1] = "instr") /\ Cardinality(names) = 1
        THEN CHOOSE x \in names : TRUE
        ELSE old

\* is_halt_target: the definition must have been built already
IsHaltTarget(pc, x) ==
    /\ IsDefName(x)
    /\ Before(x[2], pc)
    /\ At(cfg, x[2]).shape = "imm"
    /\ At(cfg, x[2]).imm = HaltAddress

\* instruction_to_expression
ExpressionOf(pc) ==
    LET i == At(cfg, pc)
        use(r) == var_at_use[<<pc, r>>]
        v(r) == Var(use(r))
    IN  CASE i.shape = "imm" -> Const(i.imm)
          [] i.shape = "bin" -> Bin(i.op, v(i.a), v(i.b))
          [] i.shape = "binimm" -> Bin(i.op, v(i.a), Const(i.imm))
          [] i.shape = "rev" -> Bin(i.op, Const(i.imm), v(i.a))
          [] i.shape = "load" -> IF i.a = SP /\ i.imm = CaptureSlot
                                 THEN <<"call", "host_call_r8">>
                                 ELSE Load(v(i.a), i.imm)
          [] i.shape = "store" -> StoreTo(v(i.a), i.imm, v(i.b))
          [] i.shape = "ecalli" -> <<"call", pc>>
          [] i.shape = "jumpind" ->
                <<"raw", IF IsHaltTarget(pc, use(i.a)) THEN {} ELSE {use(i.a)}>>
          [] OTHER -> <<"raw", {use(r) : r \in i.uses}>>

\* The r8 capture store after a host call
IsCapture(pc) ==
    LET i == At(cfg, pc)
    IN  /\ i.shape = "store" /\ i.a = SP /\ i.b = R8 /\ i.imm = CaptureSlot
        /\ pc[2] > 1
        /\ At(cfg, <<pc[1], pc[2] - 1>>).shape = "ecalli"

-----------------------------------------------------------------------------
(* Passes on the expressions *)

Pipeline ==
    <<"variables", "lower", "build", "constants", "simplify", "copies", "forward",
      "copies", "stores", "simplify", "fold", "simplify", "fold", "simplify",
      "cross", "simplify", "slots", "copies", "fold", "simplify", "copies", "simplify">>

Running(p) == stage = "done" /\ pass <= Len(Pipeline) /\ Pipeline[pass] = p

Live == Pcs(cfg) \ eliminated_pcs

Everywhere(F(_)) == [pc \in Pcs(cfg) |-> F(expressions[pc])]

UseCount(x) == Cardinality({u \in DOMAIN var_at_use : var_at_use[u] = x})

\* build_var_use_index, without the definition itself
UsePcs(x) ==
    {pc \in Live \ {x[2]} :
        \/ x \in VarNames(expressions[pc])
        \/ /\ expressions[pc][1] = "raw"
           /\ \E r \in At(cfg, pc).uses : var_at_use[<<pc, r>>] = x}

\* Inline each candidate into its use in the order of the definitions, seeing
\* what earlier ones did.
Inlined(candidates) ==
    LET last(S) == CHOOSE c \in S : \A d \in S \ {c} :
                       \/ Before(d.name[2], c.name[2])
                       \/ (d.name[2] = c.name[2] /\ d.name[3] < c.name[3])
        inline(c, exprs) ==
            [exprs EXCEPT ![c.use] = Substitute(@, [x \in {c.name} |-> exprs[x[2]]])]
    IN  MapThenFoldSet(inline, expressions, LAMBDA c : c, last, candidates)

Eliminate(S) == eliminated_pcs' = eliminated_pcs \cup S

\* dom_tree.dominates (MCStructuring!TreeIsDominance), every block reachable
Dominates(a, b) == a = b \/ b \notin Reach(cfg, cfg.entry, {a})

-----------------------------------------------------------------------------
LInit ==
    /\ SInit
    /\ pass = 1
    /\ expressions = [pc \in Pcs(cfg) |-> <<"raw", {}>>]
    /\ eliminated_pcs = {}
    /\ var_at_use = [u \in Uses(cfg) |-> Reg(u[2])]
    /\ stack_vars = {}
    /\ processed = {}

Analyse == stage # "done" /\ SNext /\ UNCHANGED liftVars

AssignVariables ==
    /\ Running("variables")
    /\ var_at_use' = [u \in Uses(cfg) |-> ChainName(u[1], u[2])]
    /\ pass' = pass + 1
    /\ UNCHANGED <<allVars, expressions, eliminated_pcs, stack_vars, processed>>

LowerSsa ==
    /\ Running("lower")
    /\ var_at_use' = [u \in Uses(cfg) |-> Lowered(u[1], u[2], var_at_use[u])]
    /\ pass' = pass + 1
    /\ UNCHANGED <<allVars, expressions, eliminated_pcs, stack_vars, processed>>

BuildExpressions ==
    /\ Running("build")
    /\ expressions' = [pc \in Pcs(cfg) |-> ExpressionOf(pc)]
    /\ Eliminate({pc \in Pcs(cfg) : IsCapture(pc)})
    /\ pass' = pass + 1
    /\ UNCHANGED <<allVars, var_at_use, stack_vars, processed>>

\* Constants with one use-site binding replace their name everywhere.
PropagateConstants ==
    /\ Running("constants")
    /\ LET single == {x \in Names : IsConst(expressions[x[2]]) /\ UseCount(x) = 1}
           values == [x \in single |-> expressions[x[2]]]
       IN  /\ expressions' = Everywhere(LAMBDA e : Substitute(e, values))
           /\ Eliminate({x[2] : x \in single})
    /\ pass' = pass + 1
    /\ UNCHANGED <<allVars, var_at_use, stack_vars, processed>>

SimplifyAll ==
    /\ Running("simplify")
    /\ expressions' = Everywhere(Simplify)
    /\ pass' = pass + 1
    /\ UNCHANGED <<allVars, eliminated_pcs, var_at_use, stack_vars, processed>>

-----------------------------------------------------------------------------
(* propagate_copies *)

\* Faulty variant: copies that were propagated are found again.
BugCopies == {x \in Names : IsVar(expressions[x[2]]) /\ expressions[x[2]][2] # x}

Copies == {x \in Names : /\ x[2] \notin processed
                         /\ IsVar(expressions[x[2]])
                         /\ expressions[x[2]][2] # x}

\* A chain of copies is followed to its end, or once around a cycle.
RECURSIVE Source(_, _)
Source(x, seen) ==
    IF x \notin Copies \/ expressions[x[2]][2] \in seen THEN x
    ELSE Source(expressions[x[2]][2], seen \cup {x})

Renamed(x) == Source(expressions[x[2]][2], {x})

CopyRound ==
    /\ Running("copies")
    /\ Copies # {}
    /\ LET names == [x \in Copies |-> Var(Renamed(x))]
       IN  /\ expressions' = Everywhere(LAMBDA e : Substitute(e, names))
           /\ var_at_use' = [u \in DOMAIN var_at_use |->
                                IF var_at_use[u] \in Copies THEN Renamed(var_at_use[u])
                                ELSE var_at_use[u]]
    /\ Eliminate({x[2] : x \in Copies})
    /\ processed' = processed \cup {x[2] : x \in Copies}
    /\ UNCHANGED <<allVars, pass, stack_vars>>

CopiesEnd ==
    /\ Running("copies")
    /\ Copies = {}
    /\ processed' = {}
    /\ pass' = pass + 1
    /\ UNCHANGED <<allVars, expressions, eliminated_pcs, var_at_use, stack_vars>>

-----------------------------------------------------------------------------
(* Memory *)

\* The last earlier store of the block that is written to the same place.
StoresAbove(pc) ==
    {q \in Live : /\ q[1] = pc[1] /\ q[2] < pc[2]
                  /\ expressions[q][1] = "store"
                  /\ <<expressions[q][2], expressions[q][3]>> =
                     <<expressions[pc][2], expressions[pc][3]>>}

ForwardStoreLoads ==
    /\ Running("forward")
    /\ expressions' =
          [pc \in Pcs(cfg) |->
              IF pc \in Live /\ expressions[pc][1] = "load" /\ StoresAbove(pc) # {}
              THEN expressions[CHOOSE q \in StoresAbove(pc) :
                                  \A p \in StoresAbove(pc) : p[2] <= q[2]][4]
              ELSE expressions[pc]]
    /\ pass' = pass + 1
    /\ UNCHANGED <<allVars, eliminated_pcs, var_at_use, stack_vars, processed>>

ProvenanceDepth == 20

RECURSIVE IsConstantLike(_, _, _)
IsConstantLike(e, visiting, depth) ==
    /\ depth <= ProvenanceDepth
    /\ CASE IsConst(e) -> TRUE
         [] e[1] \in {"bin", "not"} ->
               \A c \in Children(e) : IsConstantLike(c, visiting, depth + 1)
         [] IsVar(e) ->
               /\ IsDefName(e[2])
               /\ e[2] \notin visiting
               /\ IsConstantLike(expressions[e[2][2]], visiting \cup {e[2]}, depth + 1)
         [] OTHER -> FALSE

\* has_stack_slot_provenance: the base is a definition of the stack pointer,
\* give or take constants.
RECURSIVE IsStackBase(_, _, _)
IsStackBase(e, visiting, depth) ==
    /\ depth <= ProvenanceDepth
    /\ CASE IsVar(e) ->
               /\ IsDefName(e[2])
               /\ e[2] \notin visiting
               /\ \/ e[2][3] = SP
                  \/ IsStackBase(expressions[e[2][2]], visiting \cup {e[2]}, depth + 2)
         [] IsBin(e, {"+", "-"}) ->
               \/ /\ IsStackBase(e[3], visiting, depth + 1)
                  /\ IsConstantLike(e[4], visiting, depth + 1)
               \/ /\ e[2] = "+"
                  /\ IsStackBase(e[4], visiting, depth + 1)
                  /\ IsConstantLike(e[3], visiting, depth + 1)
         [] OTHER -> FALSE

LoadedSlots == UNION {LoadsIn(expressions[pc]) : pc \in Live}

\* An offset is signed; the positive ones are all below 0x10000.
IsDeadStore(pc) ==
    LET e == expressions[pc]
    IN  /\ e[1] = "store"
        /\ IsStackBase(e[2], {}, 0)
        /\ 2 * e[3] < 2^W
        /\ <<e[2], e[3]>> \notin LoadedSlots

EliminateDeadStores ==
    /\ Running("stores")
    /\ Eliminate({pc \in Live : IsDeadStore(pc)})
    /\ pass' = pass + 1
    /\ UNCHANGED <<allVars, expressions, var_at_use, stack_vars, processed>>

PtrSlots(S) == {s \in S : IsVar(s[1]) /\ s[1][2][1] = "ptr"}

StoreBlocks(slot) == {pc[1] : pc \in {q \in Live : slot \in StoresIn(expressions[q])}}
LoadBlocks(slot) == {pc[1] : pc \in {q \in Live : slot \in LoadsIn(expressions[q])}}

\* Faulty variant: a store in any other block will do.
BugIsRecoverable(slot) ==
    /\ StoreBlocks(slot) # {}
    /\ \A l \in LoadBlocks(slot) : \E s \in StoreBlocks(slot) : s # l

IsRecoverable(slot) ==
    /\ StoreBlocks(slot) # {}
    /\ \A l \in LoadBlocks(slot) : \E s \in StoreBlocks(slot) : s # l /\ Dominates(s, l)

RecoverStackVariables ==
    /\ Running("slots")
    /\ LET slots == PtrSlots(UNION {LoadsIn(expressions[pc]) \cup StoresIn(expressions[pc]) :
                                    pc \in Pcs(cfg)})
           named == {s \in slots : IsRecoverable(s)}
       IN  /\ stack_vars' = named
           /\ expressions' = Everywhere(LAMBDA e : ReplaceLoads(e, named))
    /\ pass' = pass + 1
    /\ UNCHANGED <<allVars, eliminated_pcs, var_at_use, processed>>

-----------------------------------------------------------------------------
(* Folding *)

FoldDepth == 3
CrossFoldDepth == 2


\* The only use of x is at pc, later in the block.
Foldable(x, pc) ==
    /\ x[2] \in Live
    /\ expressions[x[2]][1] \notin {"raw", "store"}
    /\ UsePcs(x) = {pc}
    /\ pc[1] = x[2][1] /\ pc[2] > x[2][2]
    /\ Depth(expressions[x[2]]) < FoldDepth

FoldCandidates == {c \in [name : Names, use : Live] : Foldable(c.name, c.use)}

FoldRound ==
    /\ Running("fold")
    /\ FoldCandidates # {}
    /\ expressions' = Inlined(FoldCandidates)
    /\ Eliminate({c.name[2] : c \in FoldCandidates})
    /\ UNCHANGED <<allVars, pass, var_at_use, stack_vars, processed>>

FoldEnd ==
    /\ Running("fold")
    /\ FoldCandidates = {}
    /\ pass' = pass + 1
    /\ UNCHANGED <<allVars, expressions, eliminated_pcs, var_at_use, stack_vars, processed>>

\* A latch jumps back to a header that dominates it; the body is what leads to
\* a latch without passing the header.
LoopBody(h) ==
    {b \in cfg.blocks : \E l \in Preds(cfg, h) :
        Dominates(h, l) /\ (b = h \/ l \in Reach(cfg, b, {h}))}

IsLoopCarried(def, use) ==
    (\E l \in Preds(cfg, use) : Dominates(use, l)) /\ def \in LoopBody(use)

CrossFoldable(x, pc) ==
    /\ x[2] \in Live
    /\ ~HasSideEffects(expressions[x[2]])
    /\ Depth(expressions[x[2]]) < CrossFoldDepth
    /\ HasSingleUse(Def(x[2], x[3]), pc)
    /\ pc[1] # x[2][1]
    /\ Dominates(x[2][1], pc[1])
    /\ ~IsLoopCarried(x[2][1], pc[1])

CrossCandidates == {c \in [name : Names, use : Live] : CrossFoldable(c.name, c.use)}

CrossRound ==
    /\ Running("cross")
    /\ CrossCandidates # {}
    /\ expressions' = Inlined(CrossCandidates)
    /\ Eliminate({c.name[2] : c \in CrossCandidates})
    /\ UNCHANGED <<allVars, pass, var_at_use, stack_vars, processed>>

CrossEnd ==
    /\ Running("cross")
    /\ CrossCandidates = {}
    /\ pass' = pass + 1
    /\ UNCHANGED <<allVars, expressions, eliminated_pcs, var_at_use, stack_vars, processed>>

-----------------------------------------------------------------------------
LNext ==
    \/ Analyse \/ AssignVariables \/ LowerSsa \/ BuildExpressions
    \/ PropagateConstants \/ SimplifyAll \/ CopyRound \/ CopiesEnd
    \/ ForwardStoreLoads \/ EliminateDeadStores \/ FoldRound \/ FoldEnd
    \/ CrossRound \/ CrossEnd \/ RecoverStackVariables

LSpec == LInit /\ [][LNext]_<<allVars, liftVars>> /\ WF_<<allVars, liftVars>>(LNext)

Lifted == pass > Len(Pipeline)

-----------------------------------------------------------------------------
(* The text of a branch condition, which emission renders from the lifted
   program: format_condition_lifted and format_operand_lifted of emission.rs *)

ResolveDepth == 10

RECURSIVE ResolveEliminated(_, _)
ResolveEliminated(e, depth) ==
    IF depth > ResolveDepth THEN e
    ELSE CASE IsVar(e) -> IF IsDefName(e[2]) /\ e[2][2] \in eliminated_pcs
                          THEN ResolveEliminated(expressions[e[2][2]], depth + 1)
                          ELSE e
           [] e[1] = "bin" -> Bin(e[2], ResolveEliminated(e[3], depth), ResolveEliminated(e[4], depth))
           [] e[1] = "not" -> Neg(ResolveEliminated(e[2], depth))
           [] e[1] = "load" -> Load(ResolveEliminated(e[2], depth), e[3])
           [] OTHER -> e

OperandText(x) ==
    IF IsDefName(x) /\ x[2] \in eliminated_pcs /\ UseCount(x) <= 1
    THEN ResolveEliminated(expressions[x[2]], 0)
    ELSE Var(x)

\* A boolean compared with zero stands for itself or its negation.
ConditionText(pc) ==
    LET i == At(cfg, pc)
        x == var_at_use[<<pc, i.a>>]
    IN  IF i.imm = 0 /\ i.op \in {"==", "!="} /\ IsDefName(x) /\ IsBoolean(expressions[x[2]])
        THEN LET value == ResolveEliminated(expressions[x[2]], 0)
             IN  IF i.op = "==" THEN Simplify(Neg(value)) ELSE value
        ELSE Bin(i.op, OperandText(x), Const(i.imm))

=============================================================================

--------------------------------- MODULE Ssa ---------------------------------
(***************************************************************************)
(* SsaProgram::build of src/src/ir/ssa.rs, run after the chains of DefUse: *)
(* sweeps over the blocks in reverse postorder that give each block the    *)
(* value each register has on entry, with a phi where predecessors         *)
(* disagree, until nothing changes or the limit is reached; then the       *)
(* operands of the phis, the value of every use, and the queries that      *)
(* lifting rests on.  A value id is the kind of the value it stands for.   *)
(***************************************************************************)
EXTENDS DefUse

CONSTANT RoundsPerBlock     \* max_iterations = blocks * 20 in the code

ASSUME RoundsAssumption == RoundsPerBlock \in Nat

VARIABLES
    stage,          \* "chains", "sweep", "done"
    order,          \* the blocks in the order of a sweep
    pos,            \* position of the sweep
    round,
    changed,
    block_in,       \* the values on entry of a block; no value before its first visit
    block_out,
    phis            \* the phis created, kept also when they become superfluous

ssaVars == <<stage, order, pos, round, changed, block_in, block_out, phis>>
allVars == <<chainVars, ssaVars>>

-----------------------------------------------------------------------------
Param(r) == <<"param", r>>
Undef(r) == <<"undef", r>>
Def(pc, r) == <<"instr", pc, r>>
Phi(b, r) == <<"phi", b, r>>

\* dom_tree.rpo, then the blocks it does not reach by increasing PC.
Order(g) ==
    LET post == PostOrder(g)
    IN  [k \in DOMAIN post |-> post[Len(post) + 1 - k]]
            \o Sorted(g.blocks \ Range(post))

NoValues == <<>>

Visited(b) == block_out[b] # NoValues

\* The values of register r at the ends of the predecessors visited so far.
Incoming(b, r) == {block_out[p][r] : p \in {q \in Preds(cfg, b) : Visited(q)}}

\* Faulty variant: the first value that comes in is taken.
BugMerged(b, r) ==
    IF Preds(cfg, b) = {} THEN IF b = cfg.entry THEN Param(r) ELSE Undef(r)
    ELSE IF Incoming(b, r) = {} THEN Undef(r)
    ELSE CHOOSE v \in Incoming(b, r) : TRUE

Merged(b, r) ==
    IF Preds(cfg, b) = {} THEN IF b = cfg.entry THEN Param(r) ELSE Undef(r)
    ELSE IF Incoming(b, r) = {} THEN Undef(r)
    ELSE IF Cardinality(Incoming(b, r)) = 1 THEN CHOOSE v \in Incoming(b, r) : TRUE
    ELSE Phi(b, r)

\* The value of r before instruction i of block b, given the values on entry.
ValueBefore(b, i, r, in) ==
    LET above == {k \in DOMAIN cfg.code[b] : k < i /\ r \in cfg.code[b][k].defs}
    IN  IF above = {} THEN in[r]
        ELSE Def(<<b, CHOOSE k \in above : \A m \in above : m <= k>>, r)

\* Faulty variant: a sweep too few.
BugMaxRounds == Cardinality(cfg.blocks) - 1

MaxRounds == Cardinality(cfg.blocks) * RoundsPerBlock

-----------------------------------------------------------------------------
SInit ==
    /\ CInit
    /\ stage = "chains"
    /\ order = <<>>
    /\ pos = 1
    /\ round = 1
    /\ changed = FALSE
    /\ block_in = [b \in cfg.blocks |-> NoValues]
    /\ block_out = [b \in cfg.blocks |-> NoValues]
    /\ phis = {}

Chains == stage = "chains" /\ CNext /\ UNCHANGED ssaVars

BeginSsa ==
    /\ stage = "chains"
    /\ ChainsDone
    /\ order' = Order(cfg)
    /\ stage' = "sweep"
    /\ UNCHANGED <<chainVars, pos, round, changed, block_in, block_out, phis>>

\* One block of a sweep.
SweepBlock ==
    /\ stage = "sweep"
    /\ pos <= Len(order)
    /\ LET b == order[pos]
           in == [r \in Regs |-> Merged(b, r)]
           out == [r \in Regs |-> ValueBefore(b, Len(cfg.code[b]) + 1, r, in)]
       IN  /\ block_in' = [block_in EXCEPT ![b] = in]
           /\ block_out' = [block_out EXCEPT ![b] = out]
           /\ phis' = phis \cup {<<b, r>> : r \in {q \in Regs : in[q] = Phi(b, q)}}
           /\ changed' = (changed \/ block_in[b] # in \/ block_out[b] # out)
    /\ pos' = pos + 1
    /\ UNCHANGED <<chainVars, stage, order, round>>

\* while changed && iterations < max_iterations
NextRound ==
    /\ stage = "sweep"
    /\ pos > Len(order)
    /\ changed
    /\ round < MaxRounds
    /\ round' = round + 1
    /\ changed' = FALSE
    /\ pos' = 1
    /\ UNCHANGED <<chainVars, stage, order, block_in, block_out, phis>>

EndRounds ==
    /\ stage = "sweep"
    /\ pos > Len(order)
    /\ ~changed \/ round >= MaxRounds
    /\ stage' = "done"
    /\ UNCHANGED <<chainVars, order, pos, round, changed, block_in, block_out, phis>>

SNext == Chains \/ BeginSsa \/ SweepBlock \/ NextRound \/ EndRounds

\* One sequential call after the other.
SSpec == SInit /\ [][SNext]_allVars /\ WF_allVars(SNext)

-----------------------------------------------------------------------------
(* What is populated from the states after the last sweep. *)

\* A phi whose predecessors came to agree gets no operands.
Operands(b, r) == IF Cardinality(Incoming(b, r)) <= 1 THEN {} ELSE Incoming(b, r)

\* use_value_by_pc_reg
UseValue(pc, r) == ValueBefore(pc[1], pc[2], r, block_in[pc[1]])

RegOf(v) == v[Len(v)]

UseSites(v) ==
    {pc \in Pcs(cfg) : RegOf(v) \in At(cfg, pc).uses /\ UseValue(pc, RegOf(v)) = v}

PhiSites(v) == {p \in phis : v \in Operands(p[1], p[2])}

\* Faulty variant: uses by phis are not looked at.
BugHasSingleUse(v, pc) == UseSites(v) = {pc}

\* single_instruction_use_pc(v) = Some(pc)
HasSingleUse(v, pc) == PhiSites(v) = {} /\ UseSites(v) = {pc}

-----------------------------------------------------------------------------
(* Properties: reaching definitions by paths through instructions, which the *)
(* values are compared with.                                                 *)

\* The definitions that reach pc, the caller's value among them.
Reaching(g, pc, r) ==
    {Def(d.pc, r) : d \in {e \in Definitions(g) :
        e.reg = r /\ pc \in Reached(g, NextPcs(g, e.pc), r)}}
    \cup IF pc \in Reached(g, {<<g.entry, 1>>}, r) THEN {Param(r)} ELSE {}

\* A value of r with its phis resolved: the values other than phis among it and
\* the operands of the phis met on the way.
Leaves(v, r) ==
    LET operands == [b \in cfg.blocks |-> Operands(b, r)]
        met == Closure({b \in cfg.blocks : v = Phi(b, r)},
                       [b \in cfg.blocks |-> {c \in cfg.blocks : Phi(c, r) \in operands[b]}])
    IN  {x \in {v} \cup UNION {operands[b] : b \in met} : x[1] # "phi"}

\* The graphs on which construction is right: nothing leads back to the entry
\* and every block is reached from it.
Plain(g) == Preds(g, g.entry) = {} /\ Reach(g, g.entry, {}) = g.blocks

\* The value of a use, its phis resolved, stands for exactly the definitions
\* that reach it.  When blocks are unreachable or lead back to the entry, that
\* is still so of the definitions by instructions.
ValuesReach ==
    stage = "done" =>
        \A pc \in Pcs(cfg) : \A r \in At(cfg, pc).uses :
            LET leaves == Leaves(UseValue(pc, r), r)
                reaching == Reaching(cfg, pc, r)
            IN  /\ {v \in leaves : v[1] = "instr"} = reaching \ {Param(r)}
                /\ Plain(cfg) => leaves = reaching

\* A definition with a single use may be moved there: no other instruction
\* reads it, and no other definition reaches that use.
SingleUseIsOnlyUse ==
    (stage = "done" /\ Plain(cfg)) =>
        \A d \in Definitions(cfg) : \A pc \in Pcs(cfg) :
            HasSingleUse(Def(d.pc, d.reg), pc) =>
                RealUses(cfg, d) = {pc} /\ Reaching(cfg, pc, d.reg) = {Def(d.pc, d.reg)}

\* Construction ends, and with a sweep that changed nothing: the values the
\* proofs rest on are never those of a cut-off iteration.
SweepsSettle == <>[](stage = "done" /\ ~changed)

=============================================================================

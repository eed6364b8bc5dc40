------------------------------ MODULE MCLifting ------------------------------
(***************************************************************************)
(* Programs for Lifting and what their instructions compute, against which *)
(* the lifted lines are compared after every pass.                         *)
(***************************************************************************)
EXTENDS Lifting, Bitwise, TLC

\* Registers 1 (the stack pointer), 2 and 3.
Imm(d, c) == Ins("imm", "", d, 0, 0, c)
Op(op, d, a, b) == Ins("bin", op, d, a, b, 0)
OpImm(op, d, a, c) == Ins("binimm", op, d, a, 0, c)
Rev(op, d, a, c) == Ins("rev", op, d, a, 0, c)
Move(d, a) == OpImm("+", d, a, 0)
LoadAt(d, off) == Ins("load", "", d, 1, 0, off)
StoreAt(off, b) == Ins("store", "", 0, 1, b, off)
Branch(a, op, c) == Ins("branch", op, 0, a, 0, c)
Ecalli == Ins("ecalli", "", 0, 0, 0, 0)
Cmov(d, a, b) == Ins("cmov", "", d, a, b, 0)
Frame == OpImm("+", 1, 1, 3)        \* sp -= 1

Graph(succ, code) ==
    LET n == Len(code)
    IN  [blocks |-> 0..(n - 1), entry |-> 0,
         succ |-> [b \in 0..(n - 1) |-> succ[b + 1]],
         rank |-> [b \in 0..(n - 1) |-> n - b],
         code |-> [b \in 0..(n - 1) |-> code[b + 1]]]

Arithmetic ==
    {Imm(2, 1), Imm(3, 0), Op("+", 2, 2, 3), OpImm("+", 3, 2, 1), OpImm("+", 2, 2, 3),
     Op("<", 3, 2, 3), OpImm("<", 3, 2, 1), Rev("<", 2, 3, 0), Rev("<", 2, 3, 2), Move(2, 3), Move(3, 2),
     Op("*", 2, 2, 3), Op("&", 2, 3, 2)}

Memory == {LoadAt(2, 0), LoadAt(3, 1), StoreAt(0, 2), StoreAt(1, 3)}

\* A block of five: every pair of instructions between the frame and the end.
Straight ==
    {Graph(<<<<>>>>, <<<<Frame, i, j, k, Branch(2, c, 0)>>>>) :
        i, j \in Arithmetic \cup Memory,
        k \in {OpImm("+", 3, 2, 1), OpImm("<", 3, 2, 1), Rev("<", 2, 3, 0),
               Move(2, 3), LoadAt(2, 0), StoreAt(0, 2)},
        c \in {"==", "!="}}

Across == {Imm(2, 1), OpImm("+", 3, 2, 1), Op("<", 2, 2, 3), Move(2, 3),
           LoadAt(2, 0), LoadAt(3, 0), StoreAt(0, 2), StoreAt(0, 3)}

\* 0 -> 1 -> 2, 0 -> 2: the block in the middle may be skipped.
Skips ==
    {Graph(<<<<2, 1>>, <<2>>, <<>>>>,
           <<<<Frame, i, Branch(2, "!=", 0)>>, <<j>>, <<k, l, Branch(3, "<", 2)>>>>) :
        i, j \in Across, k, l \in Across}

\* 0 -> 1 -> 1, 1 -> 2: a loop, in which definitions reach uses above them.
Loops ==
    {Graph(<<<<1>>, <<1, 2>>, <<>>>>,
           <<<<Frame, i>>, <<j, k, Branch(2, "!=", 0)>>, <<l, m>>>>) :
        i \in {Imm(2, 1), Move(2, 3)}, j, k \in Across,
        l \in {OpImm("+", 3, 2, 1), Move(3, 2), StoreAt(0, 3)}, m \in {Move(2, 3), StoreAt(0, 2)}}

\* Host calls, conditional moves and indirect jumps.
Others ==
    {Graph(<<<<>>>>, <<<<i, j, Ecalli, k, l, Ins("jumpind", "", 0, 2, 0, 0)>>>>) :
        i \in {Imm(2, 3), Frame}, j \in {Imm(2, 1), Cmov(3, 2, 1), Move(3, 2)},
        k \in {StoreAt(CaptureSlot, 3), Op("+", 3, 2, 3)},
        l \in {LoadAt(2, CaptureSlot), Imm(2, HaltAddress), Cmov(2, 3, 2)}}

\* A value named by nothing but the text of a conditional move.
TextUses ==
    {Graph(<<<<>>>>, <<<<i, Cmov(3, 2, 1), StoreAt(0, 3)>>>>) :
        i \in {Imm(2, 1), Op("+", 2, 2, 3), Move(2, 3), LoadAt(2, 0), Ecalli}}

Programs == Straight \cup Skips \cup Loops \cup Others \cup TextUses

-----------------------------------------------------------------------------
(* What instructions and lifted lines compute.  Undefined stands for the
   value of a name without one. *)

Undefined == -1
AsVariable == -2        \* in place of the address of a store to a named slot

Bool(p) == IF p THEN 1 ELSE 0

Apply(op, a, b) ==
    IF Undefined \in {a, b} THEN Undefined
    ELSE CASE op = "+" -> Wrap(a + b) [] op = "-" -> Wrap(a - b) [] op = "*" -> Wrap(a * b)
           [] op = "&" -> a & b [] op = "|" -> a | b
           [] op = "<" -> Bool(a < b) [] op = ">" -> Bool(a > b)
           [] op = "<=" -> Bool(a <= b) [] op = ">=" -> Bool(a >= b)
           [] op = "==" -> Bool(a = b) [] op = "!=" -> Bool(a # b)

RECURSIVE Eval(_, _, _)
Eval(e, env, mem) ==
    CASE IsConst(e) -> e[2]
      [] IsVar(e) -> IF e[2] \in DOMAIN env THEN env[e[2]] ELSE Undefined
      [] e[1] = "bin" -> Apply(e[2], Eval(e[3], env, mem), Eval(e[4], env, mem))
      [] e[1] = "not" -> Apply("==", Eval(e[2], env, mem), 0)
      [] e[1] = "load" -> LET a == Apply("+", Eval(e[2], env, mem), e[3])
                          IN  IF a = Undefined THEN Undefined ELSE mem[a]

\* Executing the instructions at pcs: per PC the value it defines, the address
\* and value it stores, or whether it branches.
RECURSIVE Original(_, _, _)
Original(pcs, regs, mem) ==
    IF pcs = <<>> THEN <<>>
    ELSE LET i == At(cfg, Head(pcs))
             v == CASE i.shape = "imm" -> i.imm
                    [] i.shape = "bin" -> Apply(i.op, regs[i.a], regs[i.b])
                    [] i.shape \in {"binimm", "branch"} -> Apply(i.op, regs[i.a], i.imm)
                    [] i.shape = "rev" -> Apply(i.op, i.imm, regs[i.a])
                    [] i.shape = "load" -> mem[Wrap(regs[i.a] + i.imm)]
                    [] i.shape = "store" -> <<Wrap(regs[i.a] + i.imm), regs[i.b]>>
                    [] OTHER -> 0
         IN  <<v>> \o Original(Tail(pcs),
                       [r \in Regs |-> IF r = i.dst THEN v ELSE regs[r]],
                       IF i.shape = "store" THEN [mem EXCEPT ![v[1]] = v[2]] ELSE mem)

\* Executing the lines printed for them.
RECURSIVE Printed(_, _, _)
Printed(pcs, env, mem) ==
    IF pcs = <<>> THEN <<>>
    ELSE LET pc == Head(pcs)
             i == At(cfg, pc)
             e == expressions[pc]
             slot == <<"slot", e[2][2], e[3]>>
             val == Eval(e[4], env, mem)
         IN  IF pc \in eliminated_pcs THEN <<"none">> \o Printed(Tail(pcs), env, mem)
             ELSE IF i.shape = "branch"
             THEN <<Apply("!=", Eval(ConditionText(pc), env, mem), 0)>>
                      \o Printed(Tail(pcs), env, mem)
             ELSE IF e[1] = "raw" THEN <<0>> \o Printed(Tail(pcs), env, mem)
             ELSE IF e[1] # "store"
             THEN LET v == Eval(e, env, mem)
                  IN  <<v>> \o Printed(Tail(pcs), (Name(pc, i.dst) :> v) @@ env, mem)
             ELSE IF <<e[2], e[3]>> \in stack_vars
             THEN <<<<AsVariable, val>>>> \o Printed(Tail(pcs), (slot :> val) @@ env, mem)
             ELSE LET a == Apply("+", Eval(e[2], env, mem), e[3])
                  IN  <<<<a, val>>>> \o Printed(Tail(pcs), env,
                            IF a = Undefined THEN mem ELSE [mem EXCEPT ![a] = val])

\* The paths through an acyclic graph, as sequences of PCs.
RECURSIVE PathsFrom(_)
PathsFrom(b) ==
    LET own == [i \in DOMAIN cfg.code[b] |-> <<b, i>>]
    IN  IF cfg.succ[b] = <<>> THEN {own}
        ELSE {own \o p : p \in UNION {PathsFrom(s) : s \in Succs(cfg, b)}}

Paths == PathsFrom(cfg.entry)

\* Values of the registers on entry; the memory differs from them everywhere.
Starts == {[r \in Regs |-> Wrap(r + k)] : k \in {0, 2}}
           \cup {[r \in Regs |-> IF r = 1 THEN 1 ELSE 0]}
Store0 == [a \in Words |-> Wrap(3 - a)]

-----------------------------------------------------------------------------
Built == stage = "done" /\ pass > 3

Branches == {pc \in Pcs(cfg) : At(cfg, pc).shape = "branch"}

\* The definitions an expression mentions that are not printed.
Dangling(e) == {x \in VarNames(e) : IsDefName(x) /\ x[2] \in eliminated_pcs}

\* The programs for which lifting is right.  Beyond them a load may be moved
\* below a store that changes what it reads, a store through another name for
\* the address goes unnoticed, a use that several definitions reach is given
\* the name of one, and the negation of a negation is taken for the value.
Supported ==
    /\ \A b \in cfg.blocks : \A t \in Succs(cfg, b) : b < t
    /\ \A pc \in Pcs(cfg) : At(cfg, pc).shape \notin {"ecalli", "cmov", "jumpind"}
    /\ \A p \in Paths : \A m, n \in DOMAIN p :
          ~(m < n /\ At(cfg, p[m]).shape = "load" /\ At(cfg, p[n]).shape = "store")
    /\ \A u \in Uses(cfg) : UseValue(u[1], u[2])[1] # "phi"
    /\ Cardinality({UseValue(pc, SP) : pc \in {q \in Pcs(cfg) : At(cfg, q).shape \in {"load", "store"}}}) <= 1
    /\ Cardinality({pc \in Pcs(cfg) : At(cfg, pc).op = "<" /\ At(cfg, pc).imm = 1}) <= 1

Same(pc, old, new) ==
    \/ new = old
    \/ At(cfg, pc).shape = "store" /\ new = <<AsVariable, old[2]>>

\* A variable for a slot that no assignment reaches; see SlotReadsAreDominated.
Unassigned(pc, new) ==
    /\ stack_vars # {}
    /\ Undefined \in IF At(cfg, pc).shape = "store" THEN {new[1], new[2]} ELSE {new}

\* After every pass the lines still printed compute what their instructions
\* computed, on every path and for every start: the same values, the same
\* stores, the same branches.  (A condition may have lost its definition; see
\* OperandText.)
KeepsValues ==
    (Built /\ Supported) => \A p \in Paths : \A s \in Starts :
        LET before == Original(p, s, Store0)
            after == Printed(p, [x \in {Reg(r) : r \in Regs} |-> s[x[2]]], Store0)
        IN  \A n \in DOMAIN p :
                \/ p[n] \in eliminated_pcs
                \/ Same(p[n], before[n], after[n])
                \/ Unassigned(p[n], after[n])
                \/ p[n] \in Branches /\ Dangling(ConditionText(p[n])) # {}

\* Of these, the ones in the text of a raw line; a branch is printed by
\* ConditionText instead.
RawNames(pc) ==
    IF expressions[pc][1] = "raw" /\ pc \notin Branches
    THEN {x \in expressions[pc][2] : IsDefName(x)}
    ELSE {}
DanglingText(pc) == {x \in RawNames(pc) : x[2] \in eliminated_pcs}

\* What lifting may take from under raw text, which no pass rewrites: a copy,
\* and a definition whose only use in a printed line is that text.  (The line
\* of a host call does not mention the registers the call reads.)
LostInText(x, pc) ==
    \/ IsVar(expressions[x[2]])
    \/ {q \in Live : At(cfg, q).shape # "ecalli" /\ <<q, x[3]>> \in Uses(cfg)
                     /\ var_at_use[<<q, x[3]>>] = x} = {pc}


\* A definition is eliminated when its value has been inlined, "replace the
\* variable reference in the use-expression" (lifting.rs:805-806), so no
\* printed line mentions a name without a definition, raw text included.
EveryNameIsDefined ==
    Built => \A pc \in Live : Dangling(expressions[pc]) \cup DanglingText(pc) = {}

\* When slots get names, no line reads one before it is assigned: every path to
\* the line passes a block with a store to the slot.
SlotReadsAreDominated ==
    (Built /\ pass <= Len(Pipeline) /\ Pipeline[pass - 1] = "slots") =>
        \A pc \in Live : \A x \in VarNames(expressions[pc]) :
            x[1] = "slot" =>
                pc[1] \notin Reach(cfg, cfg.entry, StoreBlocks(<<Var(x[2]), x[3]>>) \ {pc[1]})

\* The passes that loop until nothing changes all come to an end.
PassesEnd == <>Lifted

=============================================================================

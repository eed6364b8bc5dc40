--------------------------- MODULE LivenessProofs ---------------------------
(***************************************************************************)
(* What compute_liveness guarantees for every flow graph, every set of     *)
(* registers and every iteration limit.  Each theorem is inductive given   *)
(* the ones before it:                                                     *)
(*   TypeCorrect -> DfsIsPartition -> WorklistExact -> QueuedUntilSettled  *)
(*               -> FixpointReached,                                       *)
(*   TypeCorrect -> OnlyRealLiveness,  TypeCorrect -> LiveNeverShrinks,    *)
(*   FixpointReached, OnlyRealLiveness -> LiveIsReadLater                  *)
(***************************************************************************)
EXTENDS Liveness, CommonLemmas

-----------------------------------------------------------------------------
(* The dataflow equations as operators. *)

\* A larger live-in assignment gives a larger live-out.
LEMMA OutMonotone ==
    ASSUME NEW g, IsFlowGraph(g), NEW b \in g.blocks, NEW x, NEW y,
           \A s \in g.blocks : x[s] \subseteq y[s]
    PROVE  OutOf(g, b, x) \subseteq OutOf(g, b, y)
BY SuccsAreBlocks DEF OutOf

\* Both equations yield sets of registers.
LEMMA EquationTypes ==
    ASSUME NEW g, NEW b, NEW in, NEW out \in SUBSET Regs
    PROVE  OutOf(g, b, in) \in SUBSET Regs /\ InOf(g, b, out) \in SUBSET Regs
BY DEF OutOf, InOf, BlockUse

-----------------------------------------------------------------------------
\* Every variable keeps its type: the first invariant the others build on
\* (all of dataflow.rs:90-230).
THEOREM TypeCorrect == Spec => []TypeOK
<1>1. Init => TypeOK
  <2> SUFFICES ASSUME Init PROVE TypeOK
    OBVIOUS
  <2>1. IsFlowGraph(cfg) /\ IsCode(cfg)
    BY CfgsAssumption DEF Init
  <2> QED BY <2>1, EmptySeq DEF Init, TypeOK
<1>2. TypeOK /\ [Next]_vars => TypeOK'
  <2> SUFFICES ASSUME TypeOK, [Next]_vars PROVE TypeOK'
    OBVIOUS
  <2> DEFINE Frame == [block : cfg.blocks, next : Nat \ {0}]
  <2>0. cfg' = cfg
    BY DEF Next, vars, DfsRoot, DfsEdge, DfsLeave, StartFlow, Cut, Settle, Update, Finish
  <2>00. IsFlowGraph(cfg)' /\ IsCode(cfg)'
    BY <2>0 DEF TypeOK, IsFlowGraph, IsCode
  <2>1. CASE DfsRoot
    <3>1. PICK r \in cfg.blocks : /\ visited' = visited \cup {r}
                                  /\ stack' = <<[block |-> r, next |-> 1]>>
      BY <2>1 DEF DfsRoot
    <3>2. stack' \in Seq(Frame)
      BY <3>1
    <3> QED BY <2>0, <2>00, <2>1, <3>1, <3>2 DEF TypeOK, DfsRoot, flowVars
  <2>2. CASE DfsEdge
    <3> DEFINE s == cfg.succ[Top.block][Top.next]
               advanced == [stack EXCEPT ![Len(stack)].next = @ + 1]
    <3>0. stack \in Seq(Frame) /\ stack # <<>>
      BY <2>2 DEF DfsEdge, TypeOK
    <3>1. Len(stack) \in 1..Len(stack) /\ Top \in Frame
      <4>1. Len(stack) \in Nat \ {0} /\ stack[Len(stack)] \in Frame
        BY <3>0, PopShape
      <4> QED BY <4>1 DEF Top
    <3>2. s \in cfg.blocks
      <4>1. cfg.succ[Top.block] \in Seq(cfg.blocks)
        BY <3>1 DEF TypeOK, IsFlowGraph
      <4>2. Top.next \in 1..Len(cfg.succ[Top.block])
        BY <2>2, <3>1, <4>1, LenProperties DEF DfsEdge
      <4> QED BY <4>1, <4>2, ElementOfSeq
    <3>3. advanced \in Seq(Frame)
      <4>1. [Top EXCEPT !.next = @ + 1] \in Frame
        BY <3>1
      <4>2. advanced = [stack EXCEPT ![Len(stack)] = [Top EXCEPT !.next = @ + 1]]
        BY DEF Top
      <4> HIDE DEF Frame
      <4> QED BY <3>0, <3>1, <4>1, <4>2, ExceptSeq
    <3>4. [block |-> s, next |-> 1] \in Frame
      BY <3>2
    <3>5. Append(advanced, [block |-> s, next |-> 1]) \in Seq(Frame)
      BY <3>3, <3>4, AppendProperties
    <3>6. stack' \in Seq(Frame) /\ visited' \subseteq cfg.blocks
      BY <2>2, <3>2, <3>3, <3>5 DEF DfsEdge, TypeOK
    <3> QED BY <2>0, <2>00, <2>2, <3>6 DEF TypeOK, DfsEdge, flowVars
  <2>3. CASE DfsLeave
    <3>1. Top \in Frame /\ stack' \in Seq(Frame)
      BY <2>3, PopShape DEF DfsLeave, Top, TypeOK
    <3>2. postorder' \in Seq(cfg.blocks)
      BY <2>3, <3>1, AppendProperties DEF DfsLeave, TypeOK
    <3> QED BY <2>0, <2>00, <2>3, <3>1, <3>2 DEF TypeOK, DfsLeave, flowVars
  <2>4. CASE StartFlow
    <3>1. Range(postorder) \subseteq cfg.blocks
      BY LenProperties DEF TypeOK, Range
    <3> QED BY <2>0, <2>00, <2>4, <3>1 DEF TypeOK, StartFlow, dfsVars
  <2>5. ASSUME phase = "flow", worklist # <<>>
        PROVE  Popped \in cfg.blocks /\ Rest \in Seq(cfg.blocks)
    BY <2>5, PopShape DEF Popped, Rest, TypeOK
  <2>6. CASE Cut
    <3>1. worklist' \in Seq(cfg.blocks)
      BY <2>5, <2>6 DEF Cut
    <3>2. in_worklist' \subseteq cfg.blocks /\ iterations' \in Nat
      BY <2>6 DEF Cut, TypeOK
    <3> QED BY <2>0, <2>00, <2>6, <3>1, <3>2 DEF TypeOK, Cut, dfsVars
  <2>7. CASE Settle
    <3>1. worklist' \in Seq(cfg.blocks)
      BY <2>5, <2>7 DEF Settle
    <3>2. in_worklist' \subseteq cfg.blocks /\ iterations' \in Nat
      BY <2>7 DEF Settle, TypeOK
    <3> QED BY <2>0, <2>00, <2>7, <3>1, <3>2 DEF TypeOK, Settle, dfsVars
  <2>8. CASE Update
    <3>1. Popped \in cfg.blocks /\ Rest \in Seq(cfg.blocks)
      BY <2>5, <2>8 DEF Update
    <3>2. NewOut \in SUBSET Regs /\ NewIn \in SUBSET Regs
      BY EquationTypes DEF NewOut, NewIn
    <3>3. ToQueue \subseteq cfg.blocks /\ IsFiniteSet(cfg.blocks)
      BY DEF ToQueue, Preds, TypeOK, IsFlowGraph
    <3>4. PICK pushed \in InMapOrder(cfg, ToQueue) : worklist' = Rest \o pushed
      BY <2>8 DEF Update
    <3>5. worklist' \in Seq(cfg.blocks)
      <4>1. pushed \in Seq(cfg.blocks)
        BY <3>3, <3>4, MapOrderShape
      <4> QED BY <3>1, <3>4, <4>1, ConcatProperties
    <3>6. /\ live_in' \in [cfg.blocks -> SUBSET Regs]
          /\ live_out' \in [cfg.blocks -> SUBSET Regs]
      BY <2>8, <3>1, <3>2 DEF Update, TypeOK
    <3>7. in_worklist' \subseteq cfg.blocks /\ iterations' \in Nat
      BY <2>8, <3>3 DEF Update, TypeOK
    <3> QED BY <2>0, <2>00, <2>8, <3>5, <3>6, <3>7 DEF TypeOK, Update, dfsVars
  <2>9. CASE Finish
    BY <2>0, <2>00, <2>9 DEF TypeOK, Finish, dfsVars, flowVars
  <2>10. CASE UNCHANGED vars
    BY <2>00, <2>10 DEF TypeOK, vars
  <2> QED BY <2>1, <2>2, <2>3, <2>4, <2>6, <2>7, <2>8, <2>9, <2>10 DEF Next
<1> QED BY <1>1, <1>2, PTL DEF Spec

-----------------------------------------------------------------------------
\* The iterative depth-first search of reverse_postorder visits every block
\* once: blocks on the stack and blocks left are disjoint, duplicate-free and
\* together the visited ones (dataflow.rs:199-227).
THEOREM DfsIsPartition == Spec => []DfsPartition
<1>1. Init => DfsPartition
  BY DEF Init, DfsPartition, StackBlocks, Range, IsInjective
<1>2. TypeOK /\ DfsPartition /\ [Next]_vars => DfsPartition'
  <2> SUFFICES ASSUME TypeOK, DfsPartition, [Next]_vars PROVE DfsPartition'
    OBVIOUS
  <2> DEFINE Frame == [block : cfg.blocks, next : Nat \ {0}]
  <2>0. stack \in Seq(Frame) /\ DOMAIN stack = 1..Len(stack) /\ Len(stack) \in Nat
    BY LenProperties DEF TypeOK
  <2>1. CASE DfsRoot
    <3>1. PICK r \in cfg.blocks \ visited :
             /\ visited' = visited \cup {r}
             /\ stack' = <<[block |-> r, next |-> 1]>>
      BY <2>1 DEF DfsRoot, IsNextRoot
    <3>2. StackBlocks = {} /\ postorder' = postorder
      BY <2>1 DEF DfsRoot, StackBlocks
    <3>3. DOMAIN stack' = {1} /\ stack'[1].block = r
      BY <3>1
    <3>4. StackBlocks' = {r}
      BY <3>3 DEF StackBlocks
    <3> QED BY <3>1, <3>2, <3>3, <3>4 DEF DfsPartition
  <2>2. CASE DfsEdge
    <3> DEFINE s == cfg.succ[Top.block][Top.next]
               advanced == [stack EXCEPT ![Len(stack)].next = @ + 1]
               pushed == Append(advanced, [block |-> s, next |-> 1])
    <3>1. /\ visited' = visited \cup {s}
          /\ stack' = IF s \in visited THEN advanced ELSE pushed
          /\ postorder' = postorder
      BY <2>2 DEF DfsEdge
    <3>2. /\ advanced \in Seq(Frame)
          /\ DOMAIN advanced = 1..Len(stack)
          /\ Len(advanced) = Len(stack)
          /\ \A i \in 1..Len(stack) : advanced[i].block = stack[i].block
          /\ s \in cfg.blocks
      <4>1. Len(stack) \in 1..Len(stack) /\ Top \in Frame
        <5>1. stack # <<>>
          BY <2>2 DEF DfsEdge
        <5>2. Len(stack) \in Nat \ {0} /\ stack[Len(stack)] \in Frame
          BY <2>0, <5>1, PopShape
        <5> QED BY <5>2 DEF Top
      <4>2. [Top EXCEPT !.next = @ + 1] \in Frame /\
            [Top EXCEPT !.next = @ + 1].block = Top.block
        BY <4>1
      <4>3. advanced = [stack EXCEPT ![Len(stack)] = [Top EXCEPT !.next = @ + 1]]
        BY DEF Top
      <4>4. cfg.succ[Top.block] \in Seq(cfg.blocks)
        BY <4>1 DEF TypeOK, IsFlowGraph
      <4>5. Top.next \in 1..Len(cfg.succ[Top.block])
        BY <2>2, <4>1, <4>4, LenProperties DEF DfsEdge
      <4>6. s \in cfg.blocks
        BY <4>4, <4>5, ElementOfSeq
      <4> HIDE DEF Frame
      <4>7. /\ advanced \in Seq(Frame)
            /\ Len(advanced) = Len(stack)
            /\ \A i \in 1..Len(stack) :
                  advanced[i] = IF i = Len(stack) THEN [Top EXCEPT !.next = @ + 1]
                                ELSE stack[i]
        BY <2>0, <4>1, <4>2, <4>3, ExceptSeq
      <4>8. DOMAIN advanced = 1..Len(stack)
        BY <4>7, LenProperties
      <4> QED BY <4>2, <4>6, <4>7, <4>8 DEF Top
    <3> HIDE DEF advanced, s
    <3>3. CASE s \in visited
      <4>1. StackBlocks' = StackBlocks
        BY <2>0, <3>1, <3>2, <3>3 DEF StackBlocks
      <4> QED BY <2>0, <3>1, <3>2, <3>3, <4>1 DEF DfsPartition
    <3>4. CASE s \notin visited
      <4>1. [block |-> s, next |-> 1] \in Frame
        BY <3>2
      <4> HIDE DEF Frame
      <4>2. /\ Len(pushed) = Len(stack) + 1
            /\ pushed \in Seq(Frame)
            /\ \A i \in 1..Len(stack) : pushed[i] = advanced[i]
            /\ pushed[Len(stack) + 1] = [block |-> s, next |-> 1]
        BY <3>2, <4>1, AppendProperties
      <4>3. DOMAIN pushed = 1..(Len(stack) + 1)
        BY <4>2, LenProperties
      <4>4. stack' = pushed
        BY <3>1, <3>4
      <4> HIDE DEF pushed
      <4>5. /\ DOMAIN stack' = 1..(Len(stack) + 1)
            /\ \A i \in 1..Len(stack) : stack'[i].block = stack[i].block
            /\ stack'[Len(stack) + 1].block = s
        BY <3>2, <4>2, <4>3, <4>4
      <4>6. StackBlocks' = StackBlocks \cup {s}
        <5>1. ASSUME NEW x \in StackBlocks' PROVE x \in StackBlocks \cup {s}
          BY <2>0, <4>5 DEF StackBlocks
        <5>2. ASSUME NEW x \in StackBlocks PROVE x \in StackBlocks'
          <6>1. PICK i \in 1..Len(stack) : x = stack[i].block
            BY <2>0 DEF StackBlocks
          <6>2. i \in 1..(Len(stack) + 1) /\ stack'[i].block = x
            BY <2>0, <4>5, <6>1
          <6> QED BY <4>5, <6>2 DEF StackBlocks
        <5>3. s \in StackBlocks'
          BY <2>0, <4>5 DEF StackBlocks
        <5> QED BY <5>1, <5>2, <5>3
      <4>7. s \notin StackBlocks /\ s \notin Range(postorder)
        BY <3>4 DEF DfsPartition
      <4>8. ASSUME NEW i \in 1..(Len(stack) + 1), NEW j \in 1..(Len(stack) + 1),
                   stack'[i].block = stack'[j].block
            PROVE  i = j
        <5>1. \A k \in 1..Len(stack) : stack'[k].block # s
          BY <2>0, <4>5, <4>7 DEF StackBlocks
        <5>2. CASE i \in 1..Len(stack) /\ j \in 1..Len(stack)
          BY <2>0, <4>5, <4>8, <5>2 DEF DfsPartition
        <5>3. CASE i = Len(stack) + 1 \/ j = Len(stack) + 1
          BY <2>0, <4>5, <4>8, <5>1, <5>3
        <5> QED BY <2>0, <5>2, <5>3
      <4> QED BY <3>1, <4>5, <4>6, <4>7, <4>8 DEF DfsPartition
    <3> QED BY <3>3, <3>4
  <2>3. CASE DfsLeave
    <3> DEFINE n == Len(stack)
    <3>1. /\ n \in Nat \ {0} /\ Top = stack[n] /\ Top \in Frame
          /\ DOMAIN stack' = 1..(n - 1)
          /\ \A i \in 1..(n - 1) : stack'[i] = stack[i]
      BY <2>0, <2>3, PopShape DEF DfsLeave, Top
    <3>2. StackBlocks' = StackBlocks \ {Top.block}
      <4>1. ASSUME NEW x \in StackBlocks' PROVE x \in StackBlocks \ {Top.block}
        <5>1. PICK i \in 1..(n - 1) : x = stack[i].block
          BY <3>1 DEF StackBlocks
        <5>2. i \in 1..n /\ n \in 1..n /\ i # n
          BY <3>1
        <5> QED BY <2>0, <3>1, <5>1, <5>2 DEF StackBlocks, DfsPartition
      <4>2. ASSUME NEW x \in StackBlocks \ {Top.block} PROVE x \in StackBlocks'
        <5>1. PICK i \in 1..n : x = stack[i].block
          BY <2>0 DEF StackBlocks
        <5>2. i \in 1..(n - 1)
          BY <3>1, <4>2, <5>1
        <5> QED BY <3>1, <5>1, <5>2 DEF StackBlocks
      <4> QED BY <4>1, <4>2
    <3>3. Top.block \in StackBlocks
      BY <2>0, <3>1 DEF StackBlocks
    <3>4. Top.block \notin Range(postorder)
      BY <3>3 DEF DfsPartition
    <3>5. /\ Range(postorder') = Range(postorder) \cup {Top.block}
          /\ IsInjective(postorder')
      BY <2>3, <3>1, <3>4, PushRange DEF DfsLeave, DfsPartition, TypeOK
    <3>6. \A i, j \in DOMAIN stack' : stack'[i].block = stack'[j].block => i = j
      BY <2>0, <3>1 DEF DfsPartition
    <3>7. visited' = visited
      BY <2>3 DEF DfsLeave
    <3> QED BY <3>2, <3>3, <3>5, <3>6, <3>7 DEF DfsPartition
  <2>4. CASE UNCHANGED dfsVars
    BY <2>4 DEF DfsPartition, dfsVars, StackBlocks
  <2> QED BY <2>1, <2>2, <2>3, <2>4
      DEF Next, vars, dfsVars, StartFlow, Cut, Settle, Update, Finish
<1> QED BY <1>1, <1>2, TypeCorrect, PTL DEF Spec

-----------------------------------------------------------------------------
\* in_worklist is exactly the set of queued blocks and no block is queued
\* twice (dataflow.rs:131-176).
THEOREM WorklistExact == Spec => []WorklistAgrees
<1>1. Init => WorklistAgrees
  BY DEF Init, WorklistAgrees, Range, IsInjective
<1>2. TypeOK /\ DfsPartition /\ WorklistAgrees /\ [Next]_vars => WorklistAgrees'
  <2> SUFFICES ASSUME TypeOK, DfsPartition, WorklistAgrees, [Next]_vars
               PROVE  WorklistAgrees'
    OBVIOUS
  <2>1. ASSUME worklist # <<>>
        PROVE  /\ Popped \in cfg.blocks
               /\ Rest \in Seq(cfg.blocks)
               /\ Range(Rest) = in_worklist \ {Popped}
               /\ IsInjective(Rest)
    BY <2>1, PopShape, PopRange DEF Popped, Rest, TypeOK, WorklistAgrees
  <2>2. CASE StartFlow
    BY <2>2 DEF StartFlow, WorklistAgrees, DfsPartition
  <2>3. CASE Cut
    BY <2>1, <2>3 DEF Cut, WorklistAgrees
  <2>4. CASE Settle
    BY <2>1, <2>4 DEF Settle, WorklistAgrees
  <2>5. CASE Update
    <3>1. /\ ToQueue \subseteq cfg.blocks /\ IsFiniteSet(cfg.blocks)
          /\ ToQueue \cap (in_worklist \ {Popped}) = {}
      BY DEF ToQueue, Preds, TypeOK, IsFlowGraph
    <3>2. PICK pushed \in InMapOrder(cfg, ToQueue) : worklist' = Rest \o pushed
      BY <2>5 DEF Update
    <3>3. pushed \in Seq(cfg.blocks) /\ Range(pushed) = ToQueue /\ IsInjective(pushed)
      BY <3>1, <3>2, MapOrderShape
    <3>4. /\ Rest \in Seq(cfg.blocks)
          /\ Range(Rest) = in_worklist \ {Popped}
          /\ IsInjective(Rest)
      BY <2>1, <2>5 DEF Update
    <3>5. Range(Rest) \cap Range(pushed) = {}
      BY <3>1, <3>3, <3>4
    <3>6. /\ Range(Rest \o pushed) = Range(Rest) \cup Range(pushed)
          /\ IsInjective(Rest \o pushed)
      BY <3>3, <3>4, <3>5, ConcatRange
    <3>7. in_worklist' = (in_worklist \ {Popped}) \cup ToQueue
      BY <2>5 DEF Update
    <3> QED BY <3>2, <3>3, <3>4, <3>6, <3>7 DEF WorklistAgrees
  <2>6. CASE UNCHANGED flowVars
    BY <2>6 DEF flowVars, WorklistAgrees
  <2> QED BY <2>2, <2>3, <2>4, <2>5, <2>6
      DEF Next, vars, flowVars, DfsRoot, DfsEdge, DfsLeave, Finish
<1> QED BY <1>1, <1>2, TypeCorrect, DfsIsPartition, PTL DEF Spec

-----------------------------------------------------------------------------
\* A block whose equations do not hold is still queued: nothing is forgotten
\* (dataflow.rs:140-176).
THEOREM QueuedUntilSettled == Spec => []UnsettledIsQueued
<1>1. Init => UnsettledIsQueued
  BY DEF Init, UnsettledIsQueued
<1>2. TypeOK /\ DfsPartition /\ UnsettledIsQueued /\ [Next]_vars => UnsettledIsQueued'
  <2> SUFFICES ASSUME TypeOK, DfsPartition, UnsettledIsQueued, [Next]_vars
               PROVE  UnsettledIsQueued'
    OBVIOUS
  <2>0. cfg' = cfg
    BY DEF Next, vars, DfsRoot, DfsEdge, DfsLeave, StartFlow, Cut, Settle, Update, Finish
  <2>1. CASE StartFlow
    <3>1. StackBlocks = {}
      BY <2>1 DEF StartFlow, StackBlocks
    <3>2. in_worklist' = Range(postorder) /\ cfg.blocks \subseteq Range(postorder)
      BY <2>1, <3>1 DEF StartFlow, DfsPartition
    <3> QED BY <2>0, <3>2 DEF UnsettledIsQueued
  <2>2. CASE Settle
    <3>1. Settled(Popped)
      BY <2>2 DEF Settle, Changed, NewIn, NewOut, Settled
    <3>2. /\ in_worklist' = in_worklist \ {Popped} /\ phase = "flow"
          /\ live_in' = live_in /\ live_out' = live_out
      BY <2>2 DEF Settle
    <3> QED BY <2>0, <3>1, <3>2 DEF UnsettledIsQueued, Settled
  <2>3. CASE Update
    <3>1. SUFFICES ASSUME NEW x \in cfg.blocks \ in_worklist'
                   PROVE  Settled(x)'
      BY <2>0 DEF UnsettledIsQueued
    <3>2. /\ phase = "flow"
          /\ live_in' = [live_in EXCEPT ![Popped] = NewIn]
          /\ live_out' = [live_out EXCEPT ![Popped] = NewOut]
          /\ in_worklist' = (in_worklist \ {Popped}) \cup ToQueue
          /\ Popped \in cfg.blocks
      BY <2>3, PopShape DEF Update, Popped, TypeOK
    <3>3. Popped \notin Succs(cfg, x)
      BY <3>1, <3>2 DEF ToQueue, Preds
    <3>4. OutOf(cfg, x, live_in') = OutOf(cfg, x, live_in)
      <4>1. IsFlowGraph(cfg) /\ \A s \in cfg.blocks \ {Popped} : live_in'[s] = live_in[s]
        BY <3>2 DEF TypeOK
      <4>2. x \in cfg.blocks
        BY <3>1
      <4>3. Succs(cfg, x) \subseteq cfg.blocks
        BY <4>1, <4>2, SuccsAreBlocks
      <4> QED BY <3>3, <4>1, <4>3 DEF OutOf
    <3>5. CASE x = Popped
      <4>1. live_in'[x] = NewIn /\ live_out'[x] = NewOut
        BY <3>2, <3>5 DEF TypeOK
      <4> QED BY <2>0, <3>4, <3>5, <4>1 DEF Settled, NewIn, NewOut
    <3>6. CASE x # Popped
      <4>1. live_in'[x] = live_in[x] /\ live_out'[x] = live_out[x]
        BY <3>2, <3>6 DEF TypeOK
      <4>2. Settled(x)
        BY <3>1, <3>2, <3>6 DEF UnsettledIsQueued
      <4> QED BY <2>0, <3>4, <4>1, <4>2 DEF Settled
    <3> QED BY <3>5, <3>6
  <2>4. CASE Cut
    BY <2>4 DEF Cut, UnsettledIsQueued
  <2>5. CASE Finish
    BY <2>0, <2>5 DEF Finish, UnsettledIsQueued, Settled, flowVars
  <2>6. CASE DfsRoot \/ DfsEdge \/ DfsLeave
    BY <2>6 DEF DfsRoot, DfsEdge, DfsLeave, UnsettledIsQueued
  <2>7. CASE UNCHANGED vars
    BY <2>7 DEF vars, UnsettledIsQueued, Settled
  <2> QED BY <2>1, <2>2, <2>3, <2>4, <2>5, <2>6, <2>7 DEF Next
<1> QED BY <1>1, <1>2, TypeCorrect, DfsIsPartition, PTL DEF Spec

\* The loop ends normally only on an empty worklist.
Drained == phase = "fixpoint" => worklist = <<>>

\* A loop that ended normally has an empty worklist.
LEMMA FixpointIsDrained == Spec => []Drained
<1>1. Init => Drained
  BY DEF Init, Drained
<1>2. Drained /\ [Next]_vars => Drained'
  BY DEF Drained, Next, vars, flowVars, DfsRoot, DfsEdge, DfsLeave, StartFlow,
         Cut, Settle, Update, Finish
<1> QED BY <1>1, <1>2, PTL DEF Spec

\* When the worklist loop ends without hitting its limit, its result solves
\* the dataflow equations (dataflow.rs:84-86).
THEOREM FixpointReached == Spec => []FixpointSolves
<1>1. TypeOK /\ WorklistAgrees /\ UnsettledIsQueued /\ Drained => FixpointSolves
  <2> SUFFICES ASSUME TypeOK, WorklistAgrees, UnsettledIsQueued, Drained,
                      phase = "fixpoint"
               PROVE  /\ IsSolution(cfg, live_in)
                      /\ \A b \in cfg.blocks : live_out[b] = OutOf(cfg, b, live_in)
    BY DEF FixpointSolves
  <2>1. in_worklist = {}
    BY DEF WorklistAgrees, Drained, Range
  <2>2. \A b \in cfg.blocks : Settled(b)
    BY <2>1 DEF UnsettledIsQueued
  <2> QED BY <2>2 DEF Settled, IsSolution
<1> QED BY <1>1, TypeCorrect, WorklistExact, QueuedUntilSettled, FixpointIsDrained, PTL

-----------------------------------------------------------------------------
\* Live sets stay below every solution of the equations, also when the
\* iteration limit cuts the loop off (dataflow.rs:137-156).
THEOREM OnlyRealLiveness == Spec => []NoSpuriousLive
<1>1. Init => NoSpuriousLive
  BY DEF Init, NoSpuriousLive
<1>2. TypeOK /\ NoSpuriousLive /\ [Next]_vars => NoSpuriousLive'
  <2> SUFFICES ASSUME TypeOK, NoSpuriousLive, [Next]_vars PROVE NoSpuriousLive'
    OBVIOUS
  <2>0. cfg' = cfg
    BY DEF Next, vars, DfsRoot, DfsEdge, DfsLeave, StartFlow, Cut, Settle, Update, Finish
  <2>1. CASE Update
    <3>1. SUFFICES ASSUME NEW in \in [cfg.blocks -> SUBSET Regs],
                          IsSolution(cfg, in), NEW b \in cfg.blocks
                   PROVE  live_in'[b] \subseteq in[b]
      BY <2>0 DEF NoSpuriousLive
    <3>2. \A x \in cfg.blocks : live_in[x] \subseteq in[x]
      BY <3>1 DEF NoSpuriousLive
    <3>3. Popped \in cfg.blocks /\ live_in' = [live_in EXCEPT ![Popped] = NewIn]
      BY <2>1, PopShape DEF Update, Popped, TypeOK
    <3>4. NewOut \subseteq OutOf(cfg, Popped, in)
      BY <3>2, <3>3, OutMonotone DEF NewOut, TypeOK
    <3>5. NewIn \subseteq in[Popped]
      <4>1. in[Popped] = InOf(cfg, Popped, OutOf(cfg, Popped, in))
        BY <3>1, <3>3 DEF IsSolution
      <4> QED BY <3>4, <4>1 DEF NewIn, InOf
    <3> QED BY <3>2, <3>3, <3>5 DEF TypeOK
  <2>2. CASE live_in' = live_in
    BY <2>0, <2>2 DEF NoSpuriousLive
  <2> QED BY <2>1, <2>2 DEF Next, vars, flowVars, DfsRoot, DfsEdge, DfsLeave,
                            StartFlow, Cut, Settle, Finish
<1> QED BY <1>1, <1>2, TypeCorrect, PTL DEF Spec

-----------------------------------------------------------------------------
\* The strengthening behind LiveSetsGrow: re-evaluating a block never yields
\* less than what is recorded for it.
Rising ==
    \A b \in cfg.blocks :
        /\ live_out[b] \subseteq OutOf(cfg, b, live_in)
        /\ live_in[b] \subseteq InOf(cfg, b, OutOf(cfg, b, live_in))

\* An update replaces the popped block's sets by supersets.
LEMMA UpdateGrows ==
    ASSUME TypeOK, Rising, Update
    PROVE  \A b \in cfg.blocks :
              live_in[b] \subseteq live_in'[b] /\ live_out[b] \subseteq live_out'[b]
<1>1. /\ Popped \in cfg.blocks
      /\ live_in' = [live_in EXCEPT ![Popped] = NewIn]
      /\ live_out' = [live_out EXCEPT ![Popped] = NewOut]
  BY PopShape DEF Update, Popped, TypeOK
<1>2. live_in[Popped] \subseteq NewIn /\ live_out[Popped] \subseteq NewOut
  BY <1>1 DEF Rising, NewIn, NewOut
<1> QED BY <1>1, <1>2 DEF TypeOK

\* Every step keeps the live sets rising.
LEMMA LiveRises == Spec => []Rising
<1>1. Init => Rising
  BY DEF Init, Rising
<1>2. TypeOK /\ Rising /\ [Next]_vars => Rising'
  <2> SUFFICES ASSUME TypeOK, Rising, [Next]_vars PROVE Rising'
    OBVIOUS
  <2>0. cfg' = cfg
    BY DEF Next, vars, DfsRoot, DfsEdge, DfsLeave, StartFlow, Cut, Settle, Update, Finish
  <2>1. CASE Update
    <3>1. SUFFICES ASSUME NEW b \in cfg.blocks
                   PROVE  /\ live_out'[b] \subseteq OutOf(cfg, b, live_in')
                          /\ live_in'[b] \subseteq InOf(cfg, b, OutOf(cfg, b, live_in'))
      BY <2>0 DEF Rising
    <3>2. OutOf(cfg, b, live_in) \subseteq OutOf(cfg, b, live_in')
      BY <2>1, UpdateGrows, OutMonotone DEF TypeOK
    <3>3. InOf(cfg, b, OutOf(cfg, b, live_in)) \subseteq InOf(cfg, b, OutOf(cfg, b, live_in'))
      BY <3>2 DEF InOf
    <3>4. /\ Popped \in cfg.blocks
          /\ live_in' = [live_in EXCEPT ![Popped] = NewIn]
          /\ live_out' = [live_out EXCEPT ![Popped] = NewOut]
      BY <2>1, PopShape DEF Update, Popped, TypeOK
    <3>5. CASE b = Popped
      <4>1. /\ live_in'[b] = InOf(cfg, b, OutOf(cfg, b, live_in))
            /\ live_out'[b] = OutOf(cfg, b, live_in)
        BY <3>4, <3>5 DEF TypeOK, NewIn, NewOut
      <4> QED BY <3>2, <3>3, <4>1
    <3>6. CASE b # Popped
      <4>1. live_in'[b] = live_in[b] /\ live_out'[b] = live_out[b]
        BY <3>4, <3>6 DEF TypeOK
      <4>2. /\ live_out[b] \subseteq OutOf(cfg, b, live_in)
            /\ live_in[b] \subseteq InOf(cfg, b, OutOf(cfg, b, live_in))
        BY DEF Rising
      <4> QED BY <3>2, <3>3, <4>1, <4>2
    <3> QED BY <3>5, <3>6
  <2>2. CASE UNCHANGED <<live_in, live_out>>
    BY <2>0, <2>2 DEF Rising
  <2> QED BY <2>1, <2>2 DEF Next, vars, flowVars, DfsRoot, DfsEdge, DfsLeave,
                            StartFlow, Cut, Settle, Finish
<1> QED BY <1>1, <1>2, TypeCorrect, PTL DEF Spec

\* No step of the analysis takes a register out of a live set.
THEOREM LiveNeverShrinks == Spec => LiveSetsGrow
<1>1. TypeOK /\ Rising /\ [Next]_vars =>
        [\A b \in cfg.blocks :
            live_in[b] \subseteq live_in'[b] /\ live_out[b] \subseteq live_out'[b]]_vars
  <2> SUFFICES ASSUME TypeOK, Rising, [Next]_vars
               PROVE  \A b \in cfg.blocks : /\ live_in[b] \subseteq live_in'[b]
                                            /\ live_out[b] \subseteq live_out'[b]
    OBVIOUS
  <2>1. CASE Update
    BY <2>1, UpdateGrows
  <2>2. CASE UNCHANGED <<live_in, live_out>>
    BY <2>2
  <2> QED BY <2>1, <2>2 DEF Next, vars, flowVars, DfsRoot, DfsEdge, DfsLeave,
                            StartFlow, Cut, Settle, Finish
<1> QED BY <1>1, TypeCorrect, LiveRises, PTL DEF Spec, LiveSetsGrow


-----------------------------------------------------------------------------
(* Liveness and paths.  A completed analysis yields the least solution of   *)
(* the equations; what is read along paths is a solution, and no larger     *)
(* than any other one.                                                      *)

\* Nothing before position i of b writes r.
Unwritten(g, b, i, r) == \A j \in 1..(i - 1) : r \notin g.code[b][j].defs

\* The code of a graph of Cfgs has an instruction in every block.
LEMMA CodeShape ==
    ASSUME NEW g, IsFlowGraph(g), IsCode(g)
    PROVE  HasCode(g)
<1>1. ASSUME NEW b \in g.blocks
      PROVE  Len(g.code[b]) \in Nat \ {0} /\ DOMAIN g.code[b] = 1..Len(g.code[b])
  <2>1. g.code[b] \in Seq(Instr) /\ g.code[b] # <<>>
    BY DEF IsCode
  <2> HIDE DEF Instr
  <2> QED BY <2>1, LenProperties, EmptySeq
<1>2. DOMAIN g.code = g.blocks
  BY DEF IsCode
<1> QED BY <1>1, <1>2 DEF HasCode

\* The use and def sets of a block, by positions of its code.
LEMMA BlockSets ==
    ASSUME NEW g, HasCode(g), NEW b \in g.blocks, NEW r \in Regs
    PROVE  /\ r \in BlockUse(g, b) <=>
                 \E i \in 1..Len(g.code[b]) : r \in g.code[b][i].uses /\ Unwritten(g, b, i, r)
           /\ r \in BlockDef(g, b) <=>
                 \E i \in 1..Len(g.code[b]) : r \in g.code[b][i].defs
<1>1. Len(g.code[b]) \in Nat /\ DOMAIN g.code[b] = 1..Len(g.code[b])
  BY DEF HasCode
<1>2. ASSUME NEW i \in 1..Len(g.code[b])
      PROVE  Unwritten(g, b, i, r) <=>
                 \A j \in DOMAIN g.code[b] : j < i => r \notin g.code[b][j].defs
  BY <1>1 DEF Unwritten
<1> QED BY <1>1, <1>2 DEF BlockUse, BlockDef

\* After one more instruction that leaves r alone r is still unwritten, and at
\* the end of the block this means that the block does not define r.
LEMMA BlockEnd ==
    ASSUME NEW g, HasCode(g), NEW b \in g.blocks, NEW r \in Regs,
           NEW i \in 1..Len(g.code[b]), Unwritten(g, b, i, r), r \notin g.code[b][i].defs
    PROVE  /\ i < Len(g.code[b]) => Unwritten(g, b, i + 1, r)
           /\ i = Len(g.code[b]) => r \notin BlockDef(g, b)
<1>1. Len(g.code[b]) \in Nat
  BY DEF HasCode
<1>2. \A j \in 1..i : r \notin g.code[b][j].defs
  BY <1>1 DEF Unwritten
<1> QED BY <1>1, <1>2, BlockSets DEF Unwritten

\* From the start of b a path leads to every position with no write before
\* it, and out of b if b does not write r.
LEMMA ThroughBlock ==
    ASSUME NEW g, IsFlowGraph(g), HasCode(g), NEW b \in g.blocks, NEW r \in Regs
    PROVE  /\ \A i \in 1..Len(g.code[b]) :
                 Unwritten(g, b, i, r) => <<b, i>> \in Reached(g, {<<b, 1>>}, r)
           /\ r \notin BlockDef(g, b) =>
                 \A s \in Succs(g, b) :
                    Reached(g, {<<s, 1>>}, r) \subseteq Reached(g, {<<b, 1>>}, r)
<1> DEFINE n == Len(g.code[b])
           S == {<<b, 1>>}
           R == Reached(g, S, r)
<1>1. n \in Nat \ {0} /\ 1 \in 1..n /\ n \in 1..n
  BY DEF HasCode
<1>2. S \in SUBSET Pcs(g) /\ Succs(g, b) \subseteq g.blocks
      /\ \A s \in g.blocks : {<<s, 1>>} \in SUBSET Pcs(g)
  BY PcsShape, SuccsAreBlocks
<1> HIDE DEF S
<1>3. S \subseteq R /\ \A pc \in R : r \notin At(g, pc).defs => NextPcs(g, pc) \subseteq R
  BY <1>2, ReachedIsLeast
<1>4. <<b, 1>> \in R
  BY <1>3 DEF S
<1> HIDE DEF R
<1>5. ASSUME NEW i \in 1..Len(g.code[b]), Unwritten(g, b, i, r) PROVE <<b, i>> \in R
  <2>1. i \in 1..Len(g.code[b]) /\ 1 \in 1..Len(g.code[b])
    BY <1>1
  <2>2. \A j \in 1..(i - 1) : r \notin g.code[b][j].defs
    BY <1>5 DEF Unwritten
  <2> QED BY <1>3, <1>4, <2>1, <2>2, RunsThrough
<1>6. ASSUME r \notin BlockDef(g, b), NEW s \in Succs(g, b)
      PROVE  Reached(g, {<<s, 1>>}, r) \subseteq R
  <2>1. \A j \in 1..n : r \notin g.code[b][j].defs
    BY <1>6, BlockSets
  <2>2. Unwritten(g, b, n, r)
    BY <1>1, <2>1 DEF Unwritten
  <2>3. <<b, n>> \in R
    BY <1>1, <1>5, <2>2
  <2>4. At(g, <<b, n>>) = g.code[b][n] /\ NextPcs(g, <<b, n>>) = Succs(g, b) \X {1}
    BY <1>1, NextPcsAre
  <2>5. <<s, 1>> \in R
    BY <1>1, <1>3, <2>1, <2>3, <2>4
  <2> DEFINE Q == {<<s, 1>>}
  <2>6. Q \in SUBSET Pcs(g) /\ Q \subseteq R
    BY <1>2, <2>5
  <2>7. \A pc \in R \cap Pcs(g) : r \notin At(g, pc).defs => NextPcs(g, pc) \subseteq R
    BY <1>3
  <2> HIDE DEF Q
  <2>8. Reached(g, Q, r) \subseteq R
    BY <2>6, <2>7, ReachedIsLeast
  <2> QED BY <2>8 DEF Q
<1> QED BY <1>5, <1>6 DEF R, S


\* What is read along paths satisfies the dataflow equations.
LEMMA PathsSolve ==
    ASSUME NEW g, IsFlowGraph(g), HasCode(g)
    PROVE  IsSolution(g, [b \in g.blocks |-> LiveByPaths(g, b)])
<1> DEFINE L == [b \in g.blocks |-> LiveByPaths(g, b)]
<1>0. \A b \in g.blocks : L[b] = LiveByPaths(g, b)
  OBVIOUS
<1> HIDE DEF L
<1> SUFFICES ASSUME NEW b \in g.blocks PROVE L[b] = InOf(g, b, OutOf(g, b, L))
  BY DEF L, IsSolution
<1>1. Succs(g, b) \subseteq g.blocks
  BY SuccsAreBlocks
<1>2. ASSUME NEW r \in Regs
      PROVE  /\ r \in L[b] <=> \E pc \in Reached(g, {<<b, 1>>}, r) : r \in At(g, pc).uses
             /\ r \in OutOf(g, b, L) <=>
                   \E s \in Succs(g, b) : \E pc \in Reached(g, {<<s, 1>>}, r) :
                      r \in At(g, pc).uses
  <2>1. ASSUME NEW s \in g.blocks
        PROVE  r \in L[s] <=> \E pc \in Reached(g, {<<s, 1>>}, r) : r \in At(g, pc).uses
    BY <1>0 DEF LiveByPaths
  <2> QED BY <1>1, <2>1 DEF OutOf
<1>3. ASSUME NEW r \in Regs, r \in BlockUse(g, b) PROVE r \in L[b]
  <2>1. PICK i \in 1..Len(g.code[b]) : r \in g.code[b][i].uses /\ Unwritten(g, b, i, r)
    BY <1>3, BlockSets
  <2>2. <<b, i>> \in Reached(g, {<<b, 1>>}, r)
    BY <2>1, ThroughBlock
  <2>3. At(g, <<b, i>>) = g.code[b][i]
    BY NextPcsAre
  <2> QED BY <1>2, <2>1, <2>2, <2>3
<1>4. ASSUME NEW r \in Regs, r \in OutOf(g, b, L), r \notin BlockDef(g, b) PROVE r \in L[b]
  <2>1. PICK s \in Succs(g, b) : \E pc \in Reached(g, {<<s, 1>>}, r) : r \in At(g, pc).uses
    BY <1>2, <1>4
  <2>2. Reached(g, {<<s, 1>>}, r) \subseteq Reached(g, {<<b, 1>>}, r)
    BY <1>4, ThroughBlock
  <2> QED BY <1>2, <2>1, <2>2
<1>5. ASSUME NEW r \in Regs, r \in L[b], r \notin BlockUse(g, b)
      PROVE  r \in OutOf(g, b, L) /\ r \notin BlockDef(g, b)
  <2> DEFINE Inside == {x \in Pcs(g) : x[1] = b /\ Unwritten(g, b, x[2], r)}
             Beyond == {x \in Pcs(g) : /\ r \notin BlockDef(g, b)
                                       /\ \E s \in Succs(g, b) : x \in Reached(g, {<<s, 1>>}, r)}
             X == Inside \cup Beyond
             S == {<<b, 1>>}
  <2>1. S \in SUBSET Pcs(g) /\ \A s \in g.blocks : {<<s, 1>>} \in SUBSET Pcs(g)
    BY PcsShape
  <2>2. S \subseteq X
    <3>1. Unwritten(g, b, 1, r)
      BY DEF Unwritten
    <3> QED BY <2>1, <3>1
  <2>3. ASSUME NEW s \in Succs(g, b)
        PROVE  /\ <<s, 1>> \in Reached(g, {<<s, 1>>}, r)
               /\ Reached(g, {<<s, 1>>}, r) \subseteq Pcs(g)
               /\ \A pc \in Reached(g, {<<s, 1>>}, r) :
                     r \notin At(g, pc).defs =>
                        NextPcs(g, pc) \subseteq Reached(g, {<<s, 1>>}, r)
    <3> DEFINE Q == {<<s, 1>>}
    <3>1. Q \in SUBSET Pcs(g)
      BY <1>1, <2>1
    <3>2. <<s, 1>> \in Q
      OBVIOUS
    <3> HIDE DEF Q
    <3>3. /\ Q \subseteq Reached(g, Q, r) /\ Reached(g, Q, r) \subseteq Pcs(g)
          /\ \A pc \in Reached(g, Q, r) :
                r \notin At(g, pc).defs => NextPcs(g, pc) \subseteq Reached(g, Q, r)
      BY <3>1, ReachedIsLeast
    <3> QED BY <3>2, <3>3 DEF Q
  <2>4. ASSUME NEW pc \in X \cap Pcs(g), r \notin At(g, pc).defs
        PROVE  NextPcs(g, pc) \subseteq X
    <3>0. NextPcs(g, pc) \subseteq Pcs(g)
      BY NextPcsShape
    <3>1. CASE pc \in Inside
      <4> DEFINE i == pc[2]
      <4>1. pc = <<b, i>> /\ i \in 1..Len(g.code[b]) /\ Unwritten(g, b, i, r)
        BY <3>1, PcsShape
      <4>2. Len(g.code[b]) \in Nat
        BY DEF HasCode
      <4> HIDE DEF i
      <4>3. /\ At(g, <<b, i>>) = g.code[b][i]
            /\ i < Len(g.code[b]) => NextPcs(g, <<b, i>>) = {<<b, i + 1>>}
            /\ i = Len(g.code[b]) => NextPcs(g, <<b, i>>) = Succs(g, b) \X {1}
        BY <4>1, NextPcsAre
      <4>4. r \notin g.code[b][i].defs
        BY <2>4, <4>1, <4>3
      <4>5. /\ i < Len(g.code[b]) => Unwritten(g, b, i + 1, r)
            /\ i = Len(g.code[b]) => r \notin BlockDef(g, b)
        BY <4>1, <4>4, BlockEnd
      <4>6. ASSUME i < Len(g.code[b]) PROVE NextPcs(g, pc) \subseteq X
        <5>1. NextPcs(g, pc) = {<<b, i + 1>>} /\ Unwritten(g, b, i + 1, r)
          BY <4>1, <4>3, <4>5, <4>6
        <5>2. <<b, i + 1>> \in Inside
          BY <3>0, <5>1
        <5> QED BY <5>1, <5>2
      <4>7. ASSUME i = Len(g.code[b]) PROVE NextPcs(g, pc) \subseteq X
        <5>1. NextPcs(g, pc) = Succs(g, b) \X {1} /\ r \notin BlockDef(g, b)
          BY <4>1, <4>3, <4>5, <4>7
        <5>2. \A s \in Succs(g, b) : <<s, 1>> \in Beyond
          BY <2>3, <5>1
        <5> QED BY <5>1, <5>2
      <4>8. i < Len(g.code[b]) \/ i = Len(g.code[b])
        BY <4>1, <4>2
      <4> HIDE DEF X
      <4> QED BY <4>6, <4>7, <4>8
    <3>2. CASE pc \in Beyond
      <4>1. r \notin BlockDef(g, b)
        BY <3>2
      <4>2. PICK s \in Succs(g, b) : pc \in Reached(g, {<<s, 1>>}, r)
        BY <3>2
      <4>3. NextPcs(g, pc) \subseteq Reached(g, {<<s, 1>>}, r)
        BY <2>3, <2>4, <4>2
      <4>4. NextPcs(g, pc) \subseteq Beyond
        BY <3>0, <4>1, <4>3
      <4> QED BY <4>4
    <3> QED BY <3>1, <3>2
  <2>5. PICK pc \in Reached(g, {<<b, 1>>}, r) : r \in At(g, pc).uses
    BY <1>2, <1>5
  <2>6. pc \in Reached(g, S, r)
    BY <2>5
  <2> HIDE DEF X, S
  <2>7. Reached(g, S, r) \subseteq X
    BY <2>1, <2>2, <2>4, ReachedIsLeast
  <2>8. pc \in Inside \/ pc \in Beyond
    BY <2>6, <2>7 DEF X
  <2>9. pc \notin Inside
    <3> SUFFICES ASSUME pc \in Inside PROVE FALSE
      OBVIOUS
    <3> DEFINE i == pc[2]
    <3>1. pc = <<b, i>> /\ i \in 1..Len(g.code[b]) /\ Unwritten(g, b, i, r)
      BY PcsShape
    <3> HIDE DEF i
    <3>2. At(g, pc) = g.code[b][i]
      BY <3>1, NextPcsAre
    <3> QED BY <1>5, <2>5, <3>1, <3>2, BlockSets
  <2> QED BY <1>2, <2>5, <2>8, <2>9
<1>6. /\ L[b] \subseteq Regs /\ OutOf(g, b, L) \subseteq Regs
      /\ BlockUse(g, b) \subseteq Regs
  BY <1>0 DEF LiveByPaths, OutOf, BlockUse
<1>7. L[b] \subseteq BlockUse(g, b) \cup (OutOf(g, b, L) \ BlockDef(g, b))
  BY <1>5, <1>6
<1>8. BlockUse(g, b) \cup (OutOf(g, b, L) \ BlockDef(g, b)) \subseteq L[b]
  BY <1>3, <1>4, <1>6
<1> QED BY <1>7, <1>8 DEF InOf

\* Every solution of the equations has at least what is read along paths.
LEMMA SolutionsHavePaths ==
    ASSUME NEW g, IsFlowGraph(g), HasCode(g), NEW in, IsSolution(g, in),
           NEW b \in g.blocks
    PROVE  LiveByPaths(g, b) \subseteq in[b]
<1> SUFFICES ASSUME NEW r \in Regs, r \notin in[b],
                    NEW pc \in Reached(g, {<<b, 1>>}, r), r \in At(g, pc).uses
             PROVE  FALSE
  BY DEF LiveByPaths
<1> DEFINE X == {x \in Pcs(g) : r \notin in[x[1]] /\ Unwritten(g, x[1], x[2], r)}
           S == {<<b, 1>>}
<1>1. S \in SUBSET Pcs(g) /\ \A c \in g.blocks : <<c, 1>> \in Pcs(g)
  BY PcsShape
<1>2. \A c \in g.blocks : Unwritten(g, c, 1, r)
  BY DEF Unwritten
<1>3. S \subseteq X
  BY <1>1, <1>2
<1>4. ASSUME NEW c \in g.blocks, r \notin in[c]
      PROVE  /\ r \notin BlockUse(g, c)
             /\ r \notin BlockDef(g, c) => \A s \in Succs(g, c) : r \notin in[s]
  BY <1>4 DEF IsSolution, InOf, OutOf
<1>5. ASSUME NEW x \in X \cap Pcs(g), r \notin At(g, x).defs
      PROVE  NextPcs(g, x) \subseteq X
  <2> DEFINE c == x[1]
             i == x[2]
  <2>0. NextPcs(g, x) \subseteq Pcs(g)
    BY NextPcsShape
  <2>1. /\ x = <<c, i>> /\ c \in g.blocks /\ i \in 1..Len(g.code[c])
        /\ Unwritten(g, c, i, r) /\ r \notin in[c]
    BY PcsShape
  <2> HIDE DEF c, i
  <2>2. Len(g.code[c]) \in Nat /\ Succs(g, c) \subseteq g.blocks
    BY <2>1, SuccsAreBlocks DEF HasCode
  <2>3. /\ At(g, <<c, i>>) = g.code[c][i]
        /\ i < Len(g.code[c]) => NextPcs(g, <<c, i>>) = {<<c, i + 1>>}
        /\ i = Len(g.code[c]) => NextPcs(g, <<c, i>>) = Succs(g, c) \X {1}
    BY <2>1, NextPcsAre
  <2>4. /\ i < Len(g.code[c]) => Unwritten(g, c, i + 1, r)
        /\ i = Len(g.code[c]) => r \notin BlockDef(g, c)
    <3>1. r \notin g.code[c][i].defs
      BY <1>5, <2>1, <2>3
    <3> QED BY <2>1, <3>1, BlockEnd
  <2>5. ASSUME i < Len(g.code[c]) PROVE NextPcs(g, x) \subseteq X
    <3>1. NextPcs(g, x) = {<<c, i + 1>>} /\ Unwritten(g, c, i + 1, r)
      BY <2>1, <2>3, <2>4, <2>5
    <3> QED BY <2>0, <2>1, <3>1
  <2>6. ASSUME i = Len(g.code[c]) PROVE NextPcs(g, x) \subseteq X
    <3>1. NextPcs(g, x) = Succs(g, c) \X {1} /\ \A s \in Succs(g, c) : r \notin in[s]
      BY <1>4, <2>1, <2>3, <2>4, <2>6
    <3>2. \A s \in Succs(g, c) : <<s, 1>> \in X
      BY <1>1, <1>2, <2>2, <3>1
    <3> QED BY <3>1, <3>2
  <2> QED BY <2>1, <2>2, <2>5, <2>6
<1>6. pc \in Reached(g, S, r)
  OBVIOUS
<1> HIDE DEF X, S
<1>7. Reached(g, S, r) \subseteq X
  BY <1>1, <1>3, <1>5, ReachedIsLeast
<1> DEFINE c == pc[1]
           i == pc[2]
<1>8. /\ pc = <<c, i>> /\ c \in g.blocks /\ i \in 1..Len(g.code[c])
      /\ Unwritten(g, c, i, r) /\ r \notin in[c]
  BY <1>6, <1>7, PcsShape DEF X
<1> HIDE DEF c, i
<1>9. At(g, pc) = g.code[c][i]
  BY <1>8, NextPcsAre
<1> QED BY <1>4, <1>8, <1>9, BlockSets

\* A completed analysis reports as live exactly what some path reads before
\* writing it, for every graph and every set of registers: the equations, and
\* the worklist that solves them, say what the doc comment of dataflow.rs
\* means by live.
THEOREM LiveIsReadLater == Spec => []LiveMeansReadOnAPath
<1>1. TypeOK /\ NoSpuriousLive /\ FixpointSolves => LiveMeansReadOnAPath
  <2> SUFFICES ASSUME TypeOK, NoSpuriousLive, FixpointSolves, phase = "fixpoint",
                      NEW b \in cfg.blocks
               PROVE  live_in[b] = LiveByPaths(cfg, b)
    BY DEF LiveMeansReadOnAPath
  <2> DEFINE L == [c \in cfg.blocks |-> LiveByPaths(cfg, c)]
  <2>1. IsFlowGraph(cfg) /\ HasCode(cfg)
    BY CodeShape DEF TypeOK
  <2>2. IsSolution(cfg, L)
    BY <2>1, PathsSolve
  <2>3. L \in [cfg.blocks -> SUBSET Regs] /\ L[b] = LiveByPaths(cfg, b)
    BY DEF LiveByPaths
  <2> HIDE DEF L
  <2>4. live_in[b] \subseteq L[b]
    BY <2>2, <2>3 DEF NoSpuriousLive
  <2>5. LiveByPaths(cfg, b) \subseteq live_in[b]
    BY <2>1, SolutionsHavePaths DEF FixpointSolves
  <2> QED BY <2>3, <2>4, <2>5
<1> QED BY <1>1, TypeCorrect, OnlyRealLiveness, FixpointReached, PTL


=============================================================================

-------------------------- MODULE StructuringProofs --------------------------
(***************************************************************************)
(* Proofs about DomTree and Structuring, for every flow graph:             *)
(*   TreeBuilds            what holds while the dominator tree is built,   *)
(*   DominatorTreeIsRight  the finished tree is dominance by paths,        *)
(*   LoopsAreNatural       a loop kept is the natural loop of its latch,   *)
(*   KeptLoopsNest         two loops kept are disjoint or nested,          *)
(*   JoinsAreCommon        a join is reached on both ways of its branch,   *)
(*   ComponentsAreRight    the two passes of compute_sccs find the         *)
(*                         strongly connected components,                  *)
(*   NoRegionMissed        a cyclic region with one way in gets its loop.  *)
(* A tree whose every entry lies on the chains of all predecessors is the  *)
(* dominator tree: along any path from the entry the chain of a block only *)
(* loses what the path has not passed.  The loops rest on the tree, since  *)
(* an edge is a back edge when its target dominates its source.  The       *)
(* components rest on the order in which the first pass finishes.          *)
(***************************************************************************)
EXTENDS Structuring, CommonLemmas

-----------------------------------------------------------------------------
(* The depth-first order *)

Frame == [block : cfg.blocks, next : Nat \ {0}]

OnStack == {stack[i].block : i \in DOMAIN stack}

\* The blocks reachable from the entry.
Live == Reach(cfg, cfg.entry, {})

DfsType ==
    /\ IsFlowGraph(cfg)
    /\ phase \in {"order", "sweep", "meet", "done"}
    /\ stack \in Seq(Frame)
    /\ visited \subseteq cfg.blocks
    /\ post_order \in Seq(cfg.blocks)

\* The blocks entered are those on the stack and those left, each once and
\* reachable; every successor looked at has been entered.
DfsSets ==
    /\ visited = OnStack \cup Range(post_order)
    /\ cfg.entry \in visited
    /\ visited \subseteq Live
    /\ OnStack \cap Range(post_order) = {}
    /\ IsInjective(post_order)
    /\ \A i, j \in DOMAIN stack : stack[i].block = stack[j].block => i = j
    /\ \A b \in Range(post_order) : Succs(cfg, b) \subseteq visited
    /\ \A i \in DOMAIN stack : \A k \in DOMAIN cfg.succ[stack[i].block] :
          k < stack[i].next => cfg.succ[stack[i].block][k] \in visited

\* A block other than the entry is entered over an edge from a block that is
\* left later; the entry is left last.
DfsOrder ==
    /\ (phase = "order") <=> (stack # <<>>)
    /\ stack # <<>> => stack[1].block = cfg.entry
    /\ stack = <<>> => post_order # <<>> /\ post_order[Len(post_order)] = cfg.entry
    /\ \A i \in DOMAIN stack : i > 1 => stack[i - 1].block \in Preds(cfg, stack[i].block)
    /\ \A i \in DOMAIN post_order : post_order[i] # cfg.entry =>
          \E p \in Preds(cfg, post_order[i]) :
             p \in OnStack \/ \E j \in DOMAIN post_order : i < j /\ post_order[j] = p

Dfs == DfsType /\ DfsSets /\ DfsOrder

\* The search starts at the entry.
LEMMA InitDfs == Init => Dfs
<1> SUFFICES ASSUME Init PROVE Dfs
  OBVIOUS
<1>1. IsFlowGraph(cfg)
  BY GraphsAssumption DEF Init
<1>2. cfg.entry \in cfg.blocks
  BY <1>1 DEF IsFlowGraph
<1>3. stack \in Seq(Frame) /\ DOMAIN stack = {1} /\ stack # <<>>
      /\ stack[1].block = cfg.entry /\ stack[1].next = 1
  BY <1>2 DEF Init, Frame
<1>4. OnStack = {cfg.entry}
  BY <1>3 DEF OnStack
<1>5. post_order = <<>> /\ Range(post_order) = {} /\ DOMAIN post_order = {}
  BY DEF Init, Range
<1>6. cfg.entry \in Live
  BY <1>1, <1>2, ReachIsLeast DEF Live
<1>7. DfsType
  BY <1>1, <1>2, <1>3, <1>5, EmptySeq DEF DfsType, Init
<1>8. DfsSets
  <2>1. visited = {cfg.entry}
    BY DEF Init
  <2>2. IsInjective(post_order)
    BY <1>5 DEF IsInjective
  <2>3. ASSUME NEW k \in DOMAIN cfg.succ[stack[1].block], k < stack[1].next
        PROVE  FALSE
    <3>1. cfg.succ[cfg.entry] \in Seq(cfg.blocks)
      BY <1>1, <1>2 DEF IsFlowGraph
    <3>2. k \in 1..Len(cfg.succ[cfg.entry])
      BY <1>3, <2>3, <3>1, LenProperties
    <3> QED BY <1>3, <2>3, <3>1, <3>2, LenProperties
  <2> QED BY <1>3, <1>4, <1>5, <1>6, <2>1, <2>2, <2>3 DEF DfsSets
<1>9. DfsOrder
  BY <1>3, <1>5 DEF DfsOrder, Init
<1> QED BY <1>7, <1>8, <1>9 DEF Dfs

\* What DfsCall does to the stack.
LEMMA CallShape ==
    ASSUME DfsType, DfsCall
    PROVE  LET n == Len(stack)
               s == cfg.succ[Top.block][Top.next]
           IN  /\ n \in Nat \ {0} /\ DOMAIN stack = 1..n
               /\ Top = stack[n] /\ Top.block \in cfg.blocks
               /\ Top.next \in Nat /\ Top.next \in DOMAIN cfg.succ[Top.block]
               /\ s \in cfg.blocks /\ s \in Succs(cfg, Top.block)
               /\ visited' = visited \cup {s}
               /\ stack' \in Seq(Frame) /\ stack' # <<>>
               /\ s \in visited => DOMAIN stack' = 1..n
               /\ s \notin visited => /\ DOMAIN stack' = 1..(n + 1)
                                      /\ stack'[n + 1].block = s
                                      /\ stack'[n + 1].next = 1
               /\ \A i \in 1..n : stack'[i].block = stack[i].block
               /\ \A i \in 1..n : stack'[i].next = IF i = n THEN Top.next + 1
                                                   ELSE stack[i].next
               /\ cfg' = cfg /\ phase' = phase /\ post_order' = post_order
<1> DEFINE n == Len(stack)
           s == cfg.succ[Top.block][Top.next]
           t == [stack EXCEPT ![Len(stack)].next = @ + 1]
           u == Append(t, [block |-> s, next |-> 1])
<1>1. /\ n \in Nat \ {0}
      /\ stack[n].block \in cfg.blocks /\ stack[n].next \in Nat \ {0}
      /\ t \in Seq(Frame)
      /\ Len(t) = n /\ DOMAIN t = 1..n /\ DOMAIN stack = 1..n
      /\ \A i \in 1..n : t[i].block = stack[i].block
      /\ \A i \in 1..n : t[i].next = IF i = n THEN stack[n].next + 1 ELSE stack[i].next
  <2>1. stack \in Seq([block : cfg.blocks, next : Nat \ {0}]) /\ stack # <<>>
    BY DEF DfsCall, DfsType, Frame
  <2> QED BY <2>1, AdvanceShape DEF Frame
<1>2. Top = stack[n]
  BY DEF Top
<1>3. Top.next \in DOMAIN cfg.succ[Top.block] /\ s \in cfg.blocks /\ s \in Succs(cfg, Top.block)
  <2>1. cfg.succ[Top.block] \in Seq(cfg.blocks)
    BY <1>1, <1>2 DEF DfsType, IsFlowGraph
  <2>2. Top.next \in 1..Len(cfg.succ[Top.block])
    BY <1>1, <1>2, <2>1, LenProperties DEF DfsCall
  <2>3. DOMAIN cfg.succ[Top.block] = 1..Len(cfg.succ[Top.block])
    BY <2>1, LenProperties
  <2>4. s \in cfg.blocks
    BY <2>1, <2>2, ElementOfSeq
  <2> QED BY <2>2, <2>3, <2>4 DEF Succs, Range
<1>4. /\ visited' = visited \cup {s}
      /\ stack' = IF s \in visited THEN t ELSE u
      /\ cfg' = cfg /\ phase' = phase /\ post_order' = post_order
  BY DEF DfsCall
<1>5. /\ u \in Seq(Frame)
      /\ DOMAIN u = 1..(n + 1)
      /\ \A i \in 1..n : u[i] = t[i]
      /\ u[n + 1].block = s /\ u[n + 1].next = 1
  <2> HIDE DEF t, s, n
  <2> QED BY <1>1, <1>3, PushFrame DEF Frame
<1> HIDE DEF n, s, t, u
<1>6. ASSUME s \in visited
      PROVE  /\ stack' \in Seq(Frame) /\ DOMAIN stack' = 1..n
             /\ \A i \in 1..n : stack'[i].block = stack[i].block
             /\ \A i \in 1..n : stack'[i].next = IF i = n THEN Top.next + 1
                                                 ELSE stack[i].next
  BY <1>1, <1>2, <1>4, <1>6
<1>7. ASSUME s \notin visited
      PROVE  /\ stack' \in Seq(Frame) /\ DOMAIN stack' = 1..(n + 1)
             /\ stack'[n + 1].block = s /\ stack'[n + 1].next = 1
             /\ \A i \in 1..n : stack'[i].block = stack[i].block
             /\ \A i \in 1..n : stack'[i].next = IF i = n THEN Top.next + 1
                                                 ELSE stack[i].next
  BY <1>1, <1>2, <1>4, <1>5, <1>7
<1>8. stack' # <<>>
  <2>1. 1 \in DOMAIN stack'
    BY <1>1, <1>6, <1>7
  <2> QED BY <2>1
<1> QED BY <1>1, <1>2, <1>3, <1>4, <1>6, <1>7, <1>8 DEF n, s

\* A call of dfs_post_order keeps the search in order.
LEMMA CallKeepsDfs == Dfs /\ DfsCall => Dfs'
<1> SUFFICES ASSUME Dfs, DfsCall PROVE Dfs'
  OBVIOUS
<1> DEFINE n == Len(stack)
           s == cfg.succ[Top.block][Top.next]
<1>1. DfsType /\ DfsSets /\ DfsOrder
  BY DEF Dfs
<1>2. /\ n \in Nat \ {0} /\ DOMAIN stack = 1..n
      /\ Top = stack[n] /\ Top.block \in cfg.blocks
      /\ Top.next \in Nat /\ Top.next \in DOMAIN cfg.succ[Top.block]
      /\ s \in cfg.blocks /\ s \in Succs(cfg, Top.block)
      /\ visited' = visited \cup {s}
      /\ stack' \in Seq(Frame) /\ stack' # <<>>
      /\ s \in visited => DOMAIN stack' = 1..n
      /\ s \notin visited => /\ DOMAIN stack' = 1..(n + 1)
                             /\ stack'[n + 1].block = s
                             /\ stack'[n + 1].next = 1
      /\ \A i \in 1..n : stack'[i].block = stack[i].block
      /\ \A i \in 1..n : stack'[i].next = IF i = n THEN Top.next + 1
                                          ELSE stack[i].next
      /\ cfg' = cfg /\ phase' = phase /\ post_order' = post_order
  BY <1>1, CallShape
<1>3. s = cfg.succ[Top.block][Top.next]
  OBVIOUS
<1> HIDE DEF n, s
<1>4. Frame' = Frame /\ Live' = Live
  BY <1>2 DEF Frame, Live, Reach, Succs
<1>5. DfsType'
  BY <1>1, <1>2, <1>4 DEF DfsType
<1>6. OnStack' = IF s \in visited THEN OnStack ELSE OnStack \cup {s}
  <2>1. CASE s \in visited
    BY <1>2, <2>1 DEF OnStack
  <2>2. CASE s \notin visited
    <3>1. OnStack' = {stack'[i].block : i \in 1..(n + 1)}
      BY <1>2, <2>2 DEF OnStack
    <3>2. 1..(n + 1) = (1..n) \cup {n + 1}
      BY <1>2
    <3> QED BY <1>2, <2>2, <3>1, <3>2 DEF OnStack
  <2> QED BY <2>1, <2>2
<1>7. Top.block \in visited /\ s \in Live
  <2>1. Top.block \in OnStack
    BY <1>2 DEF OnStack
  <2>2. Top.block \in Live
    BY <1>1, <2>1 DEF DfsSets
  <2>3. Succs(cfg, Top.block) \ {} \subseteq Live
    <3>1. IsFlowGraph(cfg) /\ cfg.entry \in cfg.blocks
      BY <1>1 DEF DfsType, IsFlowGraph
    <3> QED BY <2>2, <3>1, ReachIsLeast DEF Live
  <2> QED BY <1>1, <1>2, <2>1, <2>3 DEF DfsSets
<1>8. DfsSets'
  <2>1. /\ (visited = OnStack \cup Range(post_order))'
        /\ (cfg.entry \in visited)'
        /\ (visited \subseteq Live)'
        /\ (OnStack \cap Range(post_order) = {})'
        /\ IsInjective(post_order)'
    <3>1. Range(post_order)' = Range(post_order)
      BY <1>2
    <3> QED BY <1>1, <1>2, <1>4, <1>6, <1>7, <3>1 DEF DfsSets
  <2>2. (\A b \in Range(post_order) : Succs(cfg, b) \subseteq visited)'
    BY <1>1, <1>2 DEF DfsSets
  <2>3. \A i, j \in DOMAIN stack' : stack'[i].block = stack'[j].block => i = j
    <3>1. \A i, j \in 1..n : stack'[i].block = stack'[j].block => i = j
      BY <1>1, <1>2 DEF DfsSets
    <3>2. \A i \in 1..n : stack'[i].block \in visited
      BY <1>1, <1>2 DEF DfsSets, OnStack
    <3>3. CASE s \in visited
      BY <1>2, <3>1, <3>3
    <3>4. CASE s \notin visited
      <4> SUFFICES ASSUME NEW i \in 1..(n + 1), NEW j \in 1..(n + 1),
                          stack'[i].block = stack'[j].block
                   PROVE  i = j
        BY <1>2, <3>4
      <4>1. \A k \in 1..(n + 1) : k \in 1..n \/ k = n + 1
        BY <1>2
      <4> QED BY <1>2, <3>1, <3>2, <3>4, <4>1
    <3> QED BY <3>3, <3>4
  <2>4. ASSUME NEW i \in DOMAIN stack', NEW k \in DOMAIN cfg.succ[stack'[i].block],
               k < stack'[i].next
        PROVE  cfg.succ[stack'[i].block][k] \in visited'
    <3>1. i \in 1..n \/ (s \notin visited /\ i = n + 1)
      BY <1>2
    <3>2. stack'[i] \in Frame
      BY <1>2
    <3>3. k \in Nat \ {0}
      <4>1. stack'[i].block \in cfg.blocks
        BY <3>2 DEF Frame
      <4>2. cfg.succ[stack'[i].block] \in Seq(cfg.blocks)
        BY <1>1, <4>1 DEF DfsType, IsFlowGraph
      <4> QED BY <4>2, LenProperties
    <3>4. CASE i \in 1..n /\ i # n
      BY <1>1, <1>2, <2>4, <3>4 DEF DfsSets
    <3>5. CASE i = n /\ k < Top.next
      BY <1>1, <1>2, <3>5 DEF DfsSets
    <3>6. CASE i = n /\ ~(k < Top.next)
      <4>1. k < Top.next + 1
        BY <1>2, <2>4, <3>6
      <4>2. k = Top.next
        BY <1>2, <3>3, <3>6, <4>1
      <4> QED BY <1>2, <1>3, <3>6, <4>2
    <3>7. CASE s \notin visited /\ i = n + 1
      <4>1. k < 1
        BY <1>2, <2>4, <3>7
      <4> QED BY <3>3, <4>1
    <3> QED BY <3>1, <3>4, <3>5, <3>6, <3>7
  <2> QED BY <1>2, <2>1, <2>2, <2>3, <2>4 DEF DfsSets
<1>9. DfsOrder'
  <2>1. 1 \in 1..n /\ stack'[1].block = cfg.entry
    BY <1>1, <1>2 DEF DfsOrder
  <2>2. ASSUME NEW i \in DOMAIN stack', i > 1
        PROVE  stack'[i - 1].block \in Preds(cfg, stack'[i].block)
    <3>1. i \in 1..n \/ (s \notin visited /\ i = n + 1)
      BY <1>2
    <3>2. CASE i \in 1..n
      <4>1. i - 1 \in 1..n
        BY <1>2, <2>2, <3>2
      <4> QED BY <1>1, <1>2, <2>2, <3>2, <4>1 DEF DfsOrder
    <3>3. CASE s \notin visited /\ i = n + 1
      <4>1. i - 1 = n /\ n \in 1..n
        BY <1>2, <3>3
      <4> QED BY <1>2, <3>3, <4>1 DEF Preds
    <3> QED BY <3>1, <3>2, <3>3
  <2>3. OnStack \subseteq OnStack'
    BY <1>6
  <2>4. (phase = "order")'
    BY <1>2 DEF DfsCall
  <2> QED BY <1>1, <1>2, <2>1, <2>2, <2>3, <2>4 DEF DfsOrder, Preds, Succs
<1> QED BY <1>5, <1>8, <1>9 DEF Dfs

\* A return from dfs_post_order keeps the search in order.
LEMMA ReturnKeepsDfs == Dfs /\ DfsReturn => Dfs'
<1> SUFFICES ASSUME Dfs, DfsReturn PROVE Dfs'
  OBVIOUS
<1> DEFINE n == Len(stack)
           m == Len(post_order)
           b == Top.block
<1>1. DfsType /\ DfsSets /\ DfsOrder
  BY DEF Dfs
<1>2. /\ n \in Nat \ {0} /\ DOMAIN stack = 1..n
      /\ stack[n] \in Frame
      /\ stack' \in Seq(Frame) /\ DOMAIN stack' = 1..(n - 1)
      /\ \A i \in 1..(n - 1) : stack'[i] = stack[i]
  <2>1. stack \in Seq(Frame) /\ stack # <<>> /\ stack' = SubSeq(stack, 1, Len(stack) - 1)
    BY <1>1 DEF DfsReturn, DfsType
  <2>2. DOMAIN stack = 1..Len(stack)
    BY <2>1, LenProperties
  <2> HIDE DEF n
  <2> QED BY <2>1, <2>2, PopShape DEF n
<1>3. /\ b = stack[n].block /\ Top = stack[n] /\ b \in cfg.blocks
      /\ Top.next \in Nat
  BY <1>2 DEF Top, Frame
<1>4. Top.next > Len(cfg.succ[b])
  BY DEF DfsReturn
<1>5. /\ m \in Nat
      /\ DOMAIN post_order = 1..m
      /\ post_order' \in Seq(cfg.blocks)
      /\ DOMAIN post_order' = 1..(m + 1) /\ Len(post_order') = m + 1
      /\ \A i \in 1..m : post_order'[i] = post_order[i]
      /\ post_order'[m + 1] = b
      /\ Range(post_order') = Range(post_order) \cup {b}
      /\ (IsInjective(post_order) /\ b \notin Range(post_order)) => IsInjective(post_order')
  <2>1. post_order \in Seq(cfg.blocks) /\ post_order' = Append(post_order, b)
    BY <1>1 DEF DfsReturn, DfsType
  <2> DEFINE B == cfg.blocks
             t == Append(post_order, b)
  <2>2. post_order \in Seq(B) /\ b \in B
    BY <1>3, <2>1
  <2> HIDE DEF b, B
  <2>3. /\ t \in Seq(B)
        /\ Len(t) = m + 1
        /\ \A i \in 1..m : t[i] = post_order[i]
        /\ t[m + 1] = b
    BY <2>2, AppendProperties
  <2> HIDE DEF t
  <2>4. /\ post_order' \in Seq(cfg.blocks)
        /\ Len(post_order') = m + 1
        /\ \A i \in 1..m : post_order'[i] = post_order[i]
        /\ post_order'[m + 1] = b
    <3>1. post_order' = t
      BY <2>1 DEF t
    <3> QED BY <2>3, <3>1 DEF B
  <2>5. DOMAIN post_order = 1..m /\ m \in Nat /\ DOMAIN post_order' = 1..(m + 1)
    BY <2>1, <2>4, LenProperties
  <2> QED BY <1>3, <2>1, <2>4, <2>5, PushRange
<1>6. cfg' = cfg /\ visited' = visited /\ phase' = IF n = 1 THEN "sweep" ELSE "order"
  BY DEF DfsReturn
<1>7. Frame' = Frame /\ Live' = Live
  BY <1>6 DEF Frame, Live, Reach, Succs
<1> HIDE DEF n, m, b
<1>8. DfsType'
  BY <1>1, <1>2, <1>5, <1>6, <1>7 DEF DfsType
<1>9. b \in OnStack /\ OnStack' = OnStack \ {b}
  <2>1. b \in OnStack
    BY <1>2, <1>3 DEF OnStack
  <2>2. OnStack' = {stack[i].block : i \in 1..(n - 1)}
    BY <1>2 DEF OnStack
  <2>3. 1..n = (1..(n - 1)) \cup {n} /\ n \notin 1..(n - 1) /\ 1..(n - 1) \subseteq 1..n
    BY <1>2
  <2>4. \A i \in 1..(n - 1) : stack[i].block # b
    BY <1>1, <1>2, <1>3, <2>3 DEF DfsSets
  <2> QED BY <1>2, <1>3, <2>1, <2>2, <2>3, <2>4 DEF OnStack
<1>10. DfsSets'
  <2>1. Succs(cfg, b) \subseteq visited
    <3>1. cfg.succ[b] \in Seq(cfg.blocks)
      BY <1>1, <1>3 DEF DfsType, IsFlowGraph
    <3>2. DOMAIN cfg.succ[b] = 1..Len(cfg.succ[b]) /\ Len(cfg.succ[b]) \in Nat
      BY <3>1, LenProperties
    <3>3. \A k \in DOMAIN cfg.succ[b] : cfg.succ[b][k] \in visited
      BY <1>1, <1>2, <1>3, <1>4, <3>2 DEF DfsSets
    <3> QED BY <3>3 DEF Succs, Range
  <2>2. /\ visited = OnStack' \cup Range(post_order')
        /\ OnStack' \cap Range(post_order') = {}
        /\ IsInjective(post_order')
    <3>1. b \notin Range(post_order)
      BY <1>1, <1>9 DEF DfsSets
    <3> QED BY <1>1, <1>5, <1>9, <3>1 DEF DfsSets
  <2>3. \A i, j \in DOMAIN stack' : stack'[i].block = stack'[j].block => i = j
    BY <1>1, <1>2 DEF DfsSets
  <2>4. \A c \in Range(post_order') : Succs(cfg, c) \subseteq visited
    BY <1>1, <1>5, <2>1 DEF DfsSets
  <2>5. \A i \in DOMAIN stack' : \A k \in DOMAIN cfg.succ[stack'[i].block] :
           k < stack'[i].next => cfg.succ[stack'[i].block][k] \in visited
    BY <1>1, <1>2 DEF DfsSets
  <2>6. cfg.entry \in visited /\ visited \subseteq Live
    BY <1>1 DEF DfsSets
  <2> QED BY <1>6, <1>7, <2>2, <2>3, <2>4, <2>5, <2>6 DEF DfsSets
<1>11. DfsOrder'
  <2>1. (stack' = <<>>) <=> (n = 1)
    <3>1. CASE n = 1
      <4>1. Len(stack') = 0
        BY <1>2, <3>1, LenProperties
      <4> QED BY <1>2, <3>1, <4>1, EmptySeq
    <3>2. CASE n # 1
      <4>1. 1 \in DOMAIN stack'
        BY <1>2, <3>2
      <4> QED BY <3>2, <4>1
    <3> QED BY <3>1, <3>2
  <2>2. (phase' = "order") <=> (stack' # <<>>)
    BY <1>6, <2>1
  <2>3. stack[1].block = cfg.entry
    BY <1>1 DEF DfsReturn, DfsOrder
  <2>4. stack' # <<>> => stack'[1].block = cfg.entry
    BY <1>2, <2>1, <2>3
  <2>5. stack' = <<>> => post_order' # <<>> /\ post_order'[Len(post_order')] = cfg.entry
    <3>1. m + 1 \in DOMAIN post_order'
      BY <1>5
    <3>2. post_order' # <<>>
      BY <3>1
    <3> QED BY <1>3, <1>5, <2>1, <2>3, <3>2
  <2>6. \A i \in DOMAIN stack' : i > 1 => stack'[i - 1].block \in Preds(cfg, stack'[i].block)
    <3> SUFFICES ASSUME NEW i \in 1..(n - 1), i > 1
                 PROVE  stack'[i - 1].block \in Preds(cfg, stack'[i].block)
      BY <1>2
    <3>1. i - 1 \in 1..(n - 1) /\ i \in 1..n
      BY <1>2
    <3> QED BY <1>1, <1>2, <3>1 DEF DfsOrder
  <2>7. ASSUME NEW i \in DOMAIN post_order', post_order'[i] # cfg.entry
        PROVE  \E p \in Preds(cfg, post_order'[i]) :
                  p \in OnStack' \/ \E j \in DOMAIN post_order' : i < j /\ post_order'[j] = p
    <3>1. i \in 1..m \/ i = m + 1
      BY <1>5
    <3>2. CASE i \in 1..m
      <4>1. PICK p \in Preds(cfg, post_order[i]) :
                p \in OnStack \/ \E j \in DOMAIN post_order : i < j /\ post_order[j] = p
        BY <1>1, <1>5, <2>7, <3>2 DEF DfsOrder
      <4>2. CASE p = b
        <5>1. m + 1 \in DOMAIN post_order' /\ i < m + 1 /\ post_order'[m + 1] = p
          BY <1>5, <3>2, <4>2
        <5> QED BY <1>5, <3>2, <4>1, <5>1
      <4>3. CASE p # b /\ p \in OnStack
        BY <1>5, <1>9, <3>2, <4>1, <4>3
      <4>4. CASE \E j \in DOMAIN post_order : i < j /\ post_order[j] = p
        <5>1. PICK j \in 1..m : i < j /\ post_order[j] = p
          BY <1>5, <4>4
        <5>2. j \in DOMAIN post_order' /\ post_order'[j] = p
          BY <1>5, <5>1
        <5> QED BY <1>5, <3>2, <4>1, <5>1, <5>2
      <4> QED BY <4>1, <4>2, <4>3, <4>4
    <3>3. CASE i = m + 1
      <4>1. post_order'[i] = b /\ b # cfg.entry
        BY <1>5, <2>7, <3>3
      <4>2. n # 1
        BY <1>3, <2>3, <4>1
      <4>3. n - 1 \in 1..(n - 1) /\ n > 1 /\ n \in 1..n
        BY <1>2, <4>2
      <4>4. stack[n - 1].block \in Preds(cfg, b)
        BY <1>1, <1>2, <1>3, <4>3 DEF DfsOrder
      <4>5. stack[n - 1].block \in OnStack'
        BY <1>2, <4>3 DEF OnStack
      <4> QED BY <4>1, <4>4, <4>5
    <3> QED BY <3>1, <3>2, <3>3
  <2> QED BY <1>6, <2>2, <2>4, <2>5, <2>6, <2>7 DEF DfsOrder, Preds, Succs
<1> QED BY <1>8, <1>10, <1>11 DEF Dfs

\* Every other step leaves the search alone.
LEMMA StepDfs == Dfs /\ [Next]_vars => Dfs'
<1> SUFFICES ASSUME Dfs, [Next]_vars PROVE Dfs'
  OBVIOUS
<1>1. CASE DfsCall
  BY <1>1, CallKeepsDfs
<1>2. CASE DfsReturn
  BY <1>2, ReturnKeepsDfs
<1>3. CASE Skip \/ FirstPred \/ NextPred \/ Climb \/ Record \/ Resweep \/ Return \/ UNCHANGED vars
  <2>1. cfg' = cfg /\ stack' = stack /\ visited' = visited /\ post_order' = post_order
    BY <1>3 DEF Skip, FirstPred, NextPred, Climb, Record, Resweep, Return, vars, dfsVars
  <2>2. /\ phase' \in {"order", "sweep", "meet", "done"}
        /\ (phase' = "order") <=> (phase = "order")
    BY <1>3 DEF Skip, FirstPred, NextPred, Climb, Record, Resweep, Return, vars, InSweep,
                Dfs, DfsType
  <2>3. DfsType'
    BY <2>1, <2>2 DEF Dfs, DfsType, Frame
  <2>4. DfsSets'
    BY <2>1 DEF Dfs, DfsSets, OnStack, Live
  <2>5. DfsOrder'
    BY <2>1, <2>2 DEF Dfs, DfsOrder, OnStack
  <2> QED BY <2>3, <2>4, <2>5 DEF Dfs
<1> QED BY <1>1, <1>2, <1>3 DEF Next

-----------------------------------------------------------------------------
(* The finished order *)

\* When the search is over it has found the blocks that are reachable, the
\* entry comes last, and every other block has a predecessor after it.
LEMMA OrderFacts ==
    ASSUME Dfs, phase # "order"
    PROVE  LET N == Len(post_order)
           IN  /\ N \in Nat \ {0} /\ DOMAIN post_order = 1..N
               /\ visited = Live /\ visited \subseteq cfg.blocks
               /\ \A b \in visited : PostIndex(b) \in 1..N /\ post_order[PostIndex(b)] = b
               /\ \A i \in 1..N : post_order[i] \in visited /\ PostIndex(post_order[i]) = i
               /\ post_order[N] = cfg.entry
               /\ \A b \in visited : Succs(cfg, b) \subseteq visited
               /\ \A b \in visited \ {cfg.entry} :
                     \E p \in Preds(cfg, b) \cap visited : PostIndex(b) < PostIndex(p)
<1> DEFINE N == Len(post_order)
<1>1. DfsType /\ DfsSets /\ DfsOrder
  BY DEF Dfs
<1>2. stack = <<>> /\ post_order # <<>> /\ post_order[N] = cfg.entry
  BY <1>1 DEF DfsOrder
<1>3. post_order \in Seq(cfg.blocks)
  BY <1>1 DEF DfsType
<1>4. N \in Nat \ {0} /\ DOMAIN post_order = 1..N
  BY <1>2, <1>3, LenProperties, EmptySeq
<1>5. OnStack = {}
  BY <1>2 DEF OnStack
<1>6. visited = Range(post_order)
  BY <1>1, <1>5 DEF DfsSets
<1> HIDE DEF N
<1>7. \A i \in 1..N : post_order[i] \in visited /\ PostIndex(post_order[i]) = i
  <2> SUFFICES ASSUME NEW i \in 1..N
               PROVE  post_order[i] \in visited /\ PostIndex(post_order[i]) = i
    OBVIOUS
  <2>1. \A j \in DOMAIN post_order : post_order[j] = post_order[i] => j = i
    BY <1>1, <1>4 DEF DfsSets, IsInjective
  <2>2. PostIndex(post_order[i]) = i
    BY <1>4, <2>1 DEF PostIndex
  <2> QED BY <1>4, <1>6, <2>2 DEF Range
<1>8. \A b \in visited : PostIndex(b) \in 1..N /\ post_order[PostIndex(b)] = b
  <2> SUFFICES ASSUME NEW b \in visited
               PROVE  PostIndex(b) \in 1..N /\ post_order[PostIndex(b)] = b
    OBVIOUS
  <2>1. PICK i \in 1..N : post_order[i] = b
    BY <1>4, <1>6 DEF Range
  <2> QED BY <1>7, <2>1
<1>9. \A b \in visited : Succs(cfg, b) \subseteq visited
  BY <1>1, <1>6 DEF DfsSets
<1>10. visited = Live
  <2>1. IsFlowGraph(cfg) /\ cfg.entry \in cfg.blocks
    BY <1>1 DEF DfsType, IsFlowGraph
  <2>2. cfg.entry \in visited /\ \A x \in visited \cap cfg.blocks : Succs(cfg, x) \ {} \subseteq visited
    BY <1>1, <1>9 DEF DfsSets
  <2>3. Live \subseteq visited
    BY <2>1, <2>2, ReachIsLeast DEF Live
  <2> QED BY <1>1, <2>3 DEF DfsSets
<1>11. visited \subseteq cfg.blocks
  BY <1>1 DEF DfsType
<1>12. ASSUME NEW b \in visited \ {cfg.entry}
       PROVE  \E p \in Preds(cfg, b) \cap visited : PostIndex(b) < PostIndex(p)
  <2>1. PICK i \in 1..N : post_order[i] = b /\ PostIndex(b) = i
    BY <1>8
  <2>2. PICK p \in Preds(cfg, b) : \E j \in 1..N : i < j /\ post_order[j] = p
    BY <1>1, <1>4, <1>5, <1>12, <2>1 DEF DfsOrder
  <2> QED BY <1>7, <2>1, <2>2
<1> QED BY <1>2, <1>4, <1>7, <1>8, <1>9, <1>10, <1>11, <1>12 DEF N

-----------------------------------------------------------------------------
(* The idom map while it is computed *)

IdomType ==
    /\ idom \in [cfg.blocks -> cfg.blocks \cup {NoBlock}]
    /\ idom[cfg.entry] = cfg.entry
    /\ at \in Nat \ {0}
    /\ phase = "order" => \A b \in cfg.blocks \ {cfg.entry} : ~Processed(b)
    /\ phase = "order" => at = 1

\* An immediate dominator is a reachable block left later in the search, and
\* whatever else dominates the block dominates it as well.
Ascends ==
    \A b \in cfg.blocks \ {cfg.entry} : Processed(b) =>
        /\ b \in visited
        /\ idom[b] \in visited
        /\ Processed(idom[b])
        /\ PostIndex(b) < PostIndex(idom[b])
        /\ \A a \in cfg.blocks \ {b} : ByPaths(a, b) => ByPaths(a, idom[b])

\* The first sweep gives immediate dominators to the blocks in its order.
InOrder ==
    phase # "order" =>
        /\ \A k \in 1..Len(post_order) : k < at => Processed(RpoAt(k))
        /\ \A j, k \in 1..Len(post_order) :
              j < k /\ Processed(RpoAt(k)) => Processed(RpoAt(j))

\* While the predecessors of a block are met, whatever else dominates the
\* block dominates both fingers, and every predecessor met so far has one of
\* them on its idom chain.
Meeting ==
    phase = "meet" =>
        LET b == RpoAt(at)
        IN  /\ at <= Len(post_order)
            /\ b # cfg.entry
            /\ todo \subseteq Candidates(b)
            /\ b1 \in visited /\ b2 \in visited /\ Processed(b1) /\ Processed(b2)
            /\ \A q \in Candidates(b) \ todo :
                  \/ b1 \in IdomChain(q) /\ PostIndex(q) <= PostIndex(b1)
                  \/ b2 \in IdomChain(q) /\ PostIndex(q) <= PostIndex(b2)
            /\ \A a \in cfg.blocks \ {b} : ByPaths(a, b) => ByPaths(a, b1) /\ ByPaths(a, b2)

\* As long as a sweep has changed nothing, the blocks it has passed are
\* settled: their immediate dominator is on the chain of every predecessor.
Settled ==
    (phase \in {"sweep", "meet"} /\ ~changed) =>
        \A k \in 1..Len(post_order) : k < at =>
            \A q \in Candidates(RpoAt(k)) : idom[RpoAt(k)] \in IdomChain(q)

\* The sweep that changes nothing leaves every reachable block settled.
Solved ==
    phase = "done" =>
        \A b \in visited \ {cfg.entry} :
            /\ Processed(b)
            /\ \A q \in Preds(cfg, b) \cap visited : idom[b] \in IdomChain(q)

Tree == IdomType /\ Ascends /\ InOrder /\ Meeting /\ Settled /\ Solved

\* The tree starts empty.
LEMMA InitTree == Init => Tree
<1> SUFFICES ASSUME Init PROVE Tree
  OBVIOUS
<1>1. IsFlowGraph(cfg)
  BY GraphsAssumption DEF Init
<1>2. cfg.entry \in cfg.blocks /\ phase = "order"
  BY <1>1 DEF IsFlowGraph, Init
<1>3. /\ idom = [b \in cfg.blocks |-> IF b = cfg.entry THEN b ELSE NoBlock]
      /\ at = 1 /\ changed = FALSE
  BY DEF Init
<1>4. \A b \in cfg.blocks \ {cfg.entry} : ~Processed(b)
  BY <1>3 DEF Processed
<1>5. IdomType
  <2>1. idom \in [cfg.blocks -> cfg.blocks \cup {NoBlock}] /\ idom[cfg.entry] = cfg.entry
    BY <1>2, <1>3
  <2>2. at \in Nat \ {0} /\ at = 1
    BY <1>3
  <2> QED BY <1>4, <2>1, <2>2 DEF IdomType
<1>6. Ascends /\ InOrder /\ Meeting /\ Settled /\ Solved
  BY <1>2, <1>4 DEF Ascends, InOrder, Meeting, Settled, Solved
<1> QED BY <1>5, <1>6 DEF Tree

\* NoBlock is no block.
LEMMA NoBlockIsNone == IsFlowGraph(cfg) => NoBlock \notin cfg.blocks
  BY DEF IsFlowGraph, NoBlock

\* The walk of `dominates`: the chain of b is the least set that holds b and
\* the immediate dominators of its members.
LEMMA ChainIsLeast ==
    ASSUME IsFlowGraph(cfg), idom \in [cfg.blocks -> cfg.blocks \cup {NoBlock}],
           NEW b \in cfg.blocks
    PROVE  /\ b \in IdomChain(b)
           /\ IdomChain(b) \subseteq cfg.blocks
           /\ \A x \in IdomChain(b) : Processed(x) => idom[x] \in IdomChain(b)
           /\ \A X : (b \in X /\ \A x \in X \cap cfg.blocks : Processed(x) => idom[x] \in X)
                       => IdomChain(b) \subseteq X
<1> DEFINE B == cfg.blocks
           next == [x \in B |-> {idom[x]} \ {NoBlock}]
           S == {b}
<1>1. IsFiniteSet(B) /\ next \in [B -> SUBSET B] /\ S \in SUBSET B
  BY DEF IsFlowGraph
<1>2. IdomChain(b) = Closure(S, next)
  BY DEF IdomChain
<1>3. \A x \in B : next[x] = IF Processed(x) THEN {idom[x]} ELSE {}
  BY DEF Processed
<1> HIDE DEF B, next, S
<1>4. /\ S \subseteq Closure(S, next)
      /\ Closure(S, next) \subseteq B
      /\ \A x \in Closure(S, next) : next[x] \subseteq Closure(S, next)
      /\ \A X : (S \subseteq X /\ \A x \in X \cap B : next[x] \subseteq X)
                  => Closure(S, next) \subseteq X
  BY <1>1, ClosureIsLeast
<1>5. ASSUME NEW X, b \in X, \A x \in X \cap B : Processed(x) => idom[x] \in X
      PROVE  Closure(S, next) \subseteq X
  <2>1. S \subseteq X /\ \A x \in X \cap B : next[x] \subseteq X
    BY <1>3, <1>5 DEF S
  <2> QED BY <1>4, <2>1
<1>6. b \in Closure(S, next)
  BY <1>4 DEF S
<1>7. \A x \in Closure(S, next) : Processed(x) => idom[x] \in Closure(S, next)
  BY <1>3, <1>4
<1> QED BY <1>2, <1>4, <1>5, <1>6, <1>7 DEF B

\* A chain is its block followed by the chain of the immediate dominator, and
\* holds the chains of its members.
LEMMA ChainUnfolds ==
    ASSUME IsFlowGraph(cfg), idom \in [cfg.blocks -> cfg.blocks \cup {NoBlock}],
           NEW b \in cfg.blocks
    PROVE  /\ Processed(b) => IdomChain(b) \subseteq {b} \cup IdomChain(idom[b])
           /\ \A x \in IdomChain(b) : IdomChain(x) \subseteq IdomChain(b)
<1>1. ASSUME Processed(b) PROVE IdomChain(b) \subseteq {b} \cup IdomChain(idom[b])
  <2> DEFINE c == idom[b]
             X == {b} \cup IdomChain(c)
  <2>1. c \in cfg.blocks
    BY <1>1 DEF Processed
  <2>2. c \in IdomChain(c) /\ \A x \in IdomChain(c) : Processed(x) => idom[x] \in IdomChain(c)
    <3> HIDE DEF c
    <3> QED BY <2>1, ChainIsLeast
  <2>3. b \in X /\ \A x \in X \cap cfg.blocks : Processed(x) => idom[x] \in X
    BY <2>2
  <2> HIDE DEF X
  <2>4. IdomChain(b) \subseteq X
    BY <2>3, ChainIsLeast
  <2> QED BY <2>4 DEF X
<1>2. ASSUME NEW x \in IdomChain(b) PROVE IdomChain(x) \subseteq IdomChain(b)
  <2> DEFINE X == IdomChain(b)
  <2>1. x \in cfg.blocks /\ x \in X /\ \A y \in X \cap cfg.blocks : Processed(y) => idom[y] \in X
    BY ChainIsLeast
  <2> HIDE DEF X
  <2>2. IdomChain(x) \subseteq X
    BY <2>1, ChainIsLeast
  <2> QED BY <2>2 DEF X
<1> QED BY <1>1, <1>2

-----------------------------------------------------------------------------
(* Dominance by paths *)

\* Only the entry dominates the entry.
LEMMA EntryIsRoot ==
    ASSUME IsFlowGraph(cfg), NEW a, ByPaths(a, cfg.entry)
    PROVE  a = cfg.entry
<1>1. cfg.entry \in cfg.blocks
  BY DEF IsFlowGraph
<1>2. cfg.entry \notin {a} => cfg.entry \in Reach(cfg, cfg.entry, {a})
  BY <1>1, ReachIsLeast
<1> QED BY <1>2 DEF ByPaths

\* What dominates a block, other than the block, dominates its reachable
\* predecessors.
LEMMA DominatesPred ==
    ASSUME IsFlowGraph(cfg), NEW a, NEW b, a # b, ByPaths(a, b),
           NEW p \in Preds(cfg, b), p \in Live
    PROVE  ByPaths(a, p)
<1>1. cfg.entry \in cfg.blocks
  BY DEF IsFlowGraph
<1>2. b \in Succs(cfg, p)
  BY DEF Preds
<1>3. p \in Reach(cfg, cfg.entry, {a}) => b \in Reach(cfg, cfg.entry, {a})
  <2>1. \A x \in Reach(cfg, cfg.entry, {a}) :
           Succs(cfg, x) \ {a} \subseteq Reach(cfg, cfg.entry, {a})
    BY <1>1, ReachIsLeast
  <2> QED BY <1>2, <2>1
<1> QED BY <1>3 DEF ByPaths, Live

\* What dominates a block is reachable.
LEMMA DominatorIsLive ==
    ASSUME IsFlowGraph(cfg), NEW a, NEW b, ByPaths(a, b)
    PROVE  a \in Live /\ b \in Live
<1> DEFINE R == Reach(cfg, cfg.entry, {a})
           X == Live \cap R
<1>1. cfg.entry \in cfg.blocks
  BY DEF IsFlowGraph
<1>2. cfg.entry \in Live /\ \A x \in Live : Succs(cfg, x) \ {} \subseteq Live
  BY <1>1, ReachIsLeast DEF Live
<1>3. cfg.entry \notin {a} => cfg.entry \in R
  BY <1>1, ReachIsLeast
<1>4. \A x \in R : Succs(cfg, x) \ {a} \subseteq R
  BY <1>1, ReachIsLeast
<1>5. b \in Live /\ b \notin R
  BY DEF ByPaths, Live
<1> HIDE DEF R
<1>6. ASSUME a \notin Live PROVE Live \subseteq X
  <2>1. cfg.entry \in X
    BY <1>2, <1>3, <1>6
  <2>2. \A x \in X \cap cfg.blocks : Succs(cfg, x) \ {} \subseteq X
    BY <1>2, <1>4, <1>6
  <2> HIDE DEF X
  <2> QED BY <1>1, <2>1, <2>2, ReachIsLeast DEF Live
<1> QED BY <1>5, <1>6

\* A strict dominator of a processed block is left after it.
LEMMA DominatorIsHigher ==
    ASSUME Dfs, IdomType, Ascends, phase # "order",
           NEW a \in cfg.blocks,
           NEW b \in visited, Processed(b), ByPaths(a, b), a # b
    PROVE  PostIndex(b) < PostIndex(a)
<1> DEFINE N == Len(post_order)
           Bad == {x \in visited : Processed(x) /\ ByPaths(a, x) /\ a # x
                                   /\ ~(PostIndex(x) < PostIndex(a))}
           S == {N - PostIndex(x) : x \in Bad}
<1>1. IsFlowGraph(cfg)
  BY DEF Dfs, DfsType
<1>2. /\ N \in Nat /\ visited = Live /\ visited \subseteq cfg.blocks
      /\ \A x \in visited : PostIndex(x) \in 1..N
  BY OrderFacts
<1> SUFFICES ASSUME Bad # {} PROVE FALSE
  OBVIOUS
<1>3. S # {} /\ S \subseteq Nat
  BY <1>2
<1>4. PICK m \in S : \A y \in S : m <= y
  <2> HIDE DEF S
  <2> QED BY <1>3, LeastNatural
<1>5. PICK x \in Bad : m = N - PostIndex(x)
  OBVIOUS
<1>6. x # cfg.entry
  BY <1>1, <1>5, EntryIsRoot
<1>7. /\ idom[x] \in visited /\ Processed(idom[x])
      /\ PostIndex(x) < PostIndex(idom[x]) /\ ByPaths(a, idom[x])
  BY <1>2, <1>5, <1>6 DEF Ascends
<1>8. CASE a = idom[x]
  BY <1>5, <1>7, <1>8
<1>9. CASE a # idom[x] /\ PostIndex(idom[x]) < PostIndex(a)
  <2>1. /\ PostIndex(x) \in Nat /\ PostIndex(idom[x]) \in Nat
        /\ PostIndex(a) \in Nat
    <3>1. a \in visited
      <4>1. ByPaths(a, x) /\ x \in visited
        BY <1>5
      <4> QED BY <1>1, <1>2, <4>1, DominatorIsLive
    <3> QED BY <1>2, <1>5, <1>7, <3>1
  <2> QED BY <1>5, <1>7, <1>9, <2>1
<1>10. CASE a # idom[x] /\ ~(PostIndex(idom[x]) < PostIndex(a))
  <2>1. idom[x] \in Bad
    BY <1>7, <1>10
  <2>2. N - PostIndex(idom[x]) \in S
    BY <2>1
  <2>3. PostIndex(x) \in Nat /\ PostIndex(idom[x]) \in Nat
    BY <1>2, <1>5, <1>7
  <2>4. N - PostIndex(x) <= N - PostIndex(idom[x])
    BY <1>4, <1>5, <2>2
  <2> QED BY <1>2, <1>7, <2>3, <2>4
<1> QED BY <1>8, <1>9, <1>10

-----------------------------------------------------------------------------
(* The sweeps keep the tree in order *)

\* What depends on the graph and the order alone.
LEMMA SameGraph ==
    ASSUME cfg' = cfg, post_order' = post_order
    PROVE  /\ \A b : PostIndex(b)' = PostIndex(b)
           /\ \A k : RpoAt(k)' = RpoAt(k)
           /\ \A a, b : ByPaths(a, b)' <=> ByPaths(a, b)
           /\ \A b : Preds(cfg, b)' = Preds(cfg, b)
<1>1. \A b : PostIndex(b)' = PostIndex(b)
  BY DEF PostIndex
<1>2. \A k : RpoAt(k)' = RpoAt(k)
  BY DEF RpoAt
<1>3. \A a, b : ByPaths(a, b)' <=> ByPaths(a, b)
  BY DEF ByPaths
<1>4. \A b : Preds(cfg, b)' = Preds(cfg, b)
  BY DEF Preds
<1> QED BY <1>1, <1>2, <1>3, <1>4

\* What depends on the idom map alone.
LEMMA SameChains ==
    ASSUME cfg' = cfg, idom' = idom
    PROVE  /\ \A b : IdomChain(b)' = IdomChain(b)
           /\ \A b : Processed(b)' <=> Processed(b)
           /\ \A b : Candidates(b)' = Candidates(b)
<1>1. \A b : IdomChain(b)' = IdomChain(b)
  BY DEF IdomChain
<1>2. \A b : Processed(b)' <=> Processed(b)
  BY DEF Processed
<1>3. \A b : Candidates(b)' = Candidates(b)
  BY DEF Candidates, Preds, Processed
<1> QED BY <1>1, <1>2, <1>3

\* Ascends and IdomType outlast a step that leaves the map alone.
LEMMA KeepsAscends ==
    ASSUME IdomType, Ascends, phase # "order",
           UNCHANGED <<cfg, post_order, visited, idom>>,
           at' \in Nat \ {0}, phase' # "order"
    PROVE  IdomType' /\ Ascends'
<1>1. cfg' = cfg /\ post_order' = post_order /\ visited' = visited /\ idom' = idom
  OBVIOUS
<1>2. /\ \A b : PostIndex(b)' = PostIndex(b)
      /\ \A a, b : ByPaths(a, b)' <=> ByPaths(a, b)
  BY <1>1, SameGraph
<1>3. \A b : Processed(b)' <=> Processed(b)
  BY <1>1, SameChains
<1>4. IdomType'
  BY <1>1 DEF IdomType
<1>5. Ascends'
  BY <1>1, <1>2, <1>3 DEF Ascends
<1> QED BY <1>4, <1>5

\* The search comes before the sweeps.
LEMMA SearchKeepsTree == Dfs' /\ Tree /\ (DfsCall \/ DfsReturn) => Tree'
<1> SUFFICES ASSUME Dfs', Tree, DfsCall \/ DfsReturn PROVE Tree'
  OBVIOUS
<1>1. /\ phase = "order" /\ cfg' = cfg /\ idom' = idom /\ at' = at
      /\ phase' \in {"order", "sweep"}
  BY DEF DfsCall, DfsReturn, domVars
<1>2. IdomType /\ at = 1 /\ \A b \in cfg.blocks \ {cfg.entry} : ~Processed(b)
  BY <1>1 DEF Tree, IdomType
<1>3. \A b : Processed(b)' <=> Processed(b)
  BY <1>1, SameChains
<1>4. IdomType'
  BY <1>1, <1>2, <1>3 DEF IdomType
<1>5. Ascends'
  BY <1>1, <1>2, <1>3 DEF Ascends
<1>6. InOrder'
  <2> SUFFICES ASSUME phase' # "order"
               PROVE  \A k \in 1..Len(post_order') : Processed(RpoAt(k))' => k = 1
    BY <1>1, <1>2 DEF InOrder
  <2> SUFFICES ASSUME NEW k \in 1..Len(post_order'), Processed(RpoAt(k))'
               PROVE  k = 1
    OBVIOUS
  <2> DEFINE n == Len(post_order')
             i == n + 1 - k
  <2>1. /\ post_order' \in Seq(cfg.blocks) /\ IsInjective(post_order)'
        /\ post_order' # <<>> /\ post_order'[n] = cfg.entry
    BY <1>1 DEF Dfs, DfsType, DfsSets, DfsOrder
  <2>2. n \in Nat \ {0} /\ DOMAIN post_order' = 1..n
    BY <2>1, LenProperties, EmptySeq
  <2>3. i \in 1..n /\ n \in 1..n
    BY <2>2
  <2>4. RpoAt(k)' = post_order'[i]
    BY DEF RpoAt
  <2> HIDE DEF n, i
  <2>5. post_order'[i] \in cfg.blocks
    BY <2>1, <2>2, <2>3
  <2>6. post_order'[i] = cfg.entry
    <3>1. Processed(post_order'[i])
      BY <1>1, <2>4 DEF Processed
    <3> QED BY <1>2, <2>5, <3>1
  <2>7. i = n
    BY <2>1, <2>2, <2>3, <2>6 DEF IsInjective
  <2> QED BY <2>2, <2>7 DEF i
<1>7. Settled'
  BY <1>1, <1>2 DEF Settled
<1>8. Meeting' /\ Solved'
  BY <1>1 DEF Meeting, Solved
<1> QED BY <1>4, <1>5, <1>6, <1>7, <1>8 DEF Tree

\* The entry is processed from the start, and a processed block is reachable.
LEMMA ProcessedIsLive ==
    ASSUME Dfs, Tree
    PROVE  /\ Processed(cfg.entry) /\ cfg.entry \in visited
           /\ \A q \in cfg.blocks : Processed(q) => q \in visited
           /\ \A b : Candidates(b) \subseteq visited
           /\ \A b : \A q \in Candidates(b) : Processed(q) /\ q \in Preds(cfg, b)
<1>1. IsFlowGraph(cfg) /\ cfg.entry \in visited
  BY DEF Dfs, DfsType, DfsSets
<1>2. Processed(cfg.entry)
  <2>1. cfg.entry \in cfg.blocks
    BY <1>1 DEF IsFlowGraph
  <2> QED BY <1>1, <2>1, NoBlockIsNone DEF Processed, Tree, IdomType
<1>3. \A q \in cfg.blocks : Processed(q) => q \in visited
  BY <1>1 DEF Tree, Ascends
<1> QED BY <1>1, <1>2, <1>3 DEF Candidates, Preds

\* In a sweep every block but the entry has a processed predecessor that is
\* left after it.
LEMMA HasCandidate ==
    ASSUME Dfs, Tree, phase # "order", at <= Len(post_order)
    PROVE  LET b == RpoAt(at)
           IN  /\ b \in visited
               /\ b # cfg.entry =>
                     \E p \in Candidates(b) : p \in visited /\ PostIndex(b) < PostIndex(p)
<1> DEFINE N == Len(post_order)
           b == RpoAt(at)
<1>1. /\ N \in Nat \ {0} /\ DOMAIN post_order = 1..N
      /\ \A c \in visited : PostIndex(c) \in 1..N /\ post_order[PostIndex(c)] = c
      /\ \A i \in 1..N : post_order[i] \in visited /\ PostIndex(post_order[i]) = i
      /\ \A c \in visited \ {cfg.entry} :
            \E p \in Preds(cfg, c) \cap visited : PostIndex(c) < PostIndex(p)
  BY OrderFacts
<1>2. at \in 1..N
  BY <1>1 DEF Tree, IdomType
<1>3. N + 1 - at \in 1..N
  BY <1>1, <1>2
<1>4. b \in visited /\ PostIndex(b) = N + 1 - at
  BY <1>1, <1>3 DEF RpoAt
<1> HIDE DEF N, b
<1>5. ASSUME b # cfg.entry
      PROVE  \E p \in Candidates(b) : p \in visited /\ PostIndex(b) < PostIndex(p)
  <2>1. PICK p \in Preds(cfg, b) \cap visited : PostIndex(b) < PostIndex(p)
    BY <1>1, <1>4, <1>5
  <2> DEFINE k == N + 1 - PostIndex(p)
  <2>2. PostIndex(p) \in 1..N /\ post_order[PostIndex(p)] = p
    BY <1>1, <2>1
  <2>3. k \in 1..N /\ k < at
    BY <1>1, <1>2, <1>4, <2>1, <2>2
  <2>4. RpoAt(k) = p
    <3>1. N + 1 - k = PostIndex(p)
      BY <1>1, <2>2
    <3> QED BY <2>2, <3>1 DEF RpoAt, N
  <2>5. Processed(p)
    BY <2>3, <2>4 DEF Tree, InOrder, N
  <2> QED BY <1>5, <2>1, <2>5 DEF Candidates
<1> QED BY <1>4, <1>5 DEF b

\* A sweep passes over the entry and no other block.
LEMMA SkipKeepsTree == Dfs /\ Tree /\ Skip => Tree'
<1> SUFFICES ASSUME Dfs, Tree, Skip PROVE Tree'
  OBVIOUS
<1>1. /\ phase = "sweep" /\ phase' = "sweep" /\ at <= Len(post_order) /\ at' = at + 1
      /\ cfg' = cfg /\ post_order' = post_order /\ visited' = visited /\ idom' = idom
      /\ changed' = changed /\ Candidates(RpoAt(at)) = {}
  BY DEF Skip, InSweep, dfsVars
<1>2. at \in Nat \ {0} /\ at' \in Nat \ {0}
  BY <1>1 DEF Tree, IdomType
<1>3. RpoAt(at) = cfg.entry
  BY <1>1, HasCandidate
<1>4. Processed(cfg.entry)
  BY ProcessedIsLive
<1>5. IdomType' /\ Ascends'
  BY <1>1, <1>2, KeepsAscends DEF Tree
<1>6. /\ \A k : RpoAt(k)' = RpoAt(k)
      /\ \A b : IdomChain(b)' = IdomChain(b)
      /\ \A b : Processed(b)' <=> Processed(b)
      /\ \A b : Candidates(b)' = Candidates(b)
  BY <1>1, SameGraph, SameChains
<1>7. \A k \in 1..Len(post_order) : k < at' => k < at \/ k = at
  BY <1>1, <1>2
<1>8. InOrder'
  BY <1>1, <1>3, <1>4, <1>6, <1>7 DEF Tree, InOrder, Processed
<1>9. Settled'
  <2> SUFFICES ASSUME ~changed, NEW k \in 1..Len(post_order), k < at',
                      NEW q \in Candidates(RpoAt(k))
               PROVE  idom[RpoAt(k)] \in IdomChain(q)
    BY <1>1, <1>6 DEF Settled
  <2>1. k < at
    BY <1>1, <1>7
  <2> QED BY <1>1, <2>1 DEF Tree, Settled
<1>10. Meeting' /\ Solved'
  BY <1>1 DEF Meeting, Solved
<1> QED BY <1>5, <1>8, <1>9, <1>10 DEF Tree

\* Steps within the meeting of one block's predecessors disturb nothing but
\* what is said of the meeting.
LEMMA MeetFrame ==
    ASSUME Tree, phase \in {"sweep", "meet"}, phase' = "meet",
           UNCHANGED <<cfg, post_order, visited, idom, at, changed>>
    PROVE  /\ IdomType' /\ Ascends' /\ InOrder' /\ Settled' /\ Solved'
           /\ \A b : PostIndex(b)' = PostIndex(b)
           /\ RpoAt(at)' = RpoAt(at)
           /\ \A a, b : ByPaths(a, b)' <=> ByPaths(a, b)
           /\ \A b : IdomChain(b)' = IdomChain(b)
           /\ \A b : Processed(b)' <=> Processed(b)
           /\ \A b : Candidates(b)' = Candidates(b)
<1>1. /\ cfg' = cfg /\ post_order' = post_order /\ visited' = visited /\ idom' = idom
      /\ at' = at /\ changed' = changed
  OBVIOUS
<1>2. /\ \A b : PostIndex(b)' = PostIndex(b)
      /\ \A k : RpoAt(k)' = RpoAt(k)
      /\ \A a, b : ByPaths(a, b)' <=> ByPaths(a, b)
      /\ \A b : IdomChain(b)' = IdomChain(b)
      /\ \A b : Processed(b)' <=> Processed(b)
      /\ \A b : Candidates(b)' = Candidates(b)
  BY <1>1, SameGraph, SameChains
<1>3. RpoAt(at)' = RpoAt(at)
  BY <1>1 DEF RpoAt
<1>4. IdomType' /\ Ascends'
  BY <1>1, KeepsAscends DEF Tree, IdomType
<1>5. InOrder'
  BY <1>1, <1>2 DEF Tree, InOrder, RpoAt, Processed
<1>6. Settled'
  <2> SUFFICES ASSUME ~changed, NEW k \in 1..Len(post_order), k < at,
                      NEW q \in Candidates(RpoAt(k))
               PROVE  idom[RpoAt(k)] \in IdomChain(q)
    BY <1>1, <1>2 DEF Settled
  <2> QED BY DEF Tree, Settled
<1>7. Solved'
  BY DEF Solved
<1> QED BY <1>2, <1>3, <1>4, <1>5, <1>6, <1>7

\* The meeting starts with one predecessor.
LEMMA FirstPredKeepsTree == Dfs /\ Tree /\ FirstPred => Tree'
<1> SUFFICES ASSUME Dfs, Tree, FirstPred PROVE Tree'
  OBVIOUS
<1> DEFINE b == RpoAt(at)
<1>1. PICK p \in Candidates(b) : b1' = p /\ b2' = p /\ todo' = Candidates(b) \ {p}
  BY DEF FirstPred
<1>2. /\ phase = "sweep" /\ phase' = "meet" /\ at <= Len(post_order)
      /\ UNCHANGED <<cfg, post_order, visited, idom, at, changed>>
  BY DEF FirstPred, InSweep, dfsVars
<1>3. /\ IdomType' /\ Ascends' /\ InOrder' /\ Settled' /\ Solved'
      /\ \A c : PostIndex(c)' = PostIndex(c)
      /\ RpoAt(at)' = RpoAt(at)
      /\ \A a, c : ByPaths(a, c)' <=> ByPaths(a, c)
      /\ \A c : IdomChain(c)' = IdomChain(c)
      /\ \A c : Processed(c)' <=> Processed(c)
      /\ \A c : Candidates(c)' = Candidates(c)
  BY <1>2, MeetFrame
<1>4. IsFlowGraph(cfg) /\ idom \in [cfg.blocks -> cfg.blocks \cup {NoBlock}]
  BY DEF Dfs, DfsType, Tree, IdomType
<1>5. /\ Len(post_order) \in Nat
      /\ visited = Live /\ visited \subseteq cfg.blocks
      /\ \A c \in visited : PostIndex(c) \in 1..Len(post_order)
  BY <1>2, OrderFacts
<1>6. p \in visited /\ Processed(p) /\ p \in Preds(cfg, b)
  BY <1>1, ProcessedIsLive
<1>7. p \in IdomChain(p) /\ PostIndex(p) <= PostIndex(p)
  <2>1. PostIndex(p) \in Nat
    BY <1>5, <1>6
  <2> QED BY <1>4, <1>5, <1>6, <2>1, ChainIsLeast
<1>8. b # cfg.entry
  BY <1>1 DEF Candidates
<1> HIDE DEF b
<1>9. \A a \in cfg.blocks \ {b} : ByPaths(a, b) => ByPaths(a, p)
  BY <1>4, <1>5, <1>6, DominatesPred
<1>10. Meeting'
  <2>1. RpoAt(at)' = b
    BY <1>3 DEF b
  <2>2. todo' \subseteq Candidates(b) /\ Candidates(b) \ todo' \subseteq {p}
    BY <1>1
  <2>3. Processed(b1)' /\ Processed(b2)'
    BY <1>1, <1>2, <1>6 DEF Processed
  <2>4. \A q \in Candidates(b) \ todo' : b1' \in IdomChain(q) /\ PostIndex(q) <= PostIndex(b1)'
    <3>1. PostIndex(b1)' = PostIndex(p)
      BY <1>1, <1>2 DEF PostIndex
    <3> QED BY <1>1, <1>7, <2>2, <3>1
  <2>5. \A a \in cfg.blocks \ {b} : ByPaths(a, b) => ByPaths(a, b1)' /\ ByPaths(a, b2)'
    BY <1>1, <1>2, <1>9 DEF ByPaths
  <2> QED BY <1>1, <1>2, <1>3, <1>6, <1>8, <2>1, <2>2, <2>3, <2>4, <2>5 DEF Meeting
<1> QED BY <1>3, <1>10 DEF Tree

\* The next predecessor joins the meeting when the fingers agree.
LEMMA NextPredKeepsTree == Dfs /\ Tree /\ NextPred => Tree'
<1> SUFFICES ASSUME Dfs, Tree, NextPred PROVE Tree'
  OBVIOUS
<1> DEFINE b == RpoAt(at)
<1>1. PICK p \in todo : b1' = p /\ todo' = todo \ {p}
  BY DEF NextPred
<1>2. /\ phase = "meet" /\ phase' = "meet" /\ b1 = b2 /\ b2' = b2
      /\ UNCHANGED <<cfg, post_order, visited, idom, at, changed>>
  BY DEF NextPred, dfsVars
<1>3. /\ IdomType' /\ Ascends' /\ InOrder' /\ Settled' /\ Solved'
      /\ \A c : PostIndex(c)' = PostIndex(c)
      /\ RpoAt(at)' = RpoAt(at)
      /\ \A a, c : ByPaths(a, c)' <=> ByPaths(a, c)
      /\ \A c : IdomChain(c)' = IdomChain(c)
      /\ \A c : Processed(c)' <=> Processed(c)
      /\ \A c : Candidates(c)' = Candidates(c)
  BY <1>2, MeetFrame
<1>4. IsFlowGraph(cfg) /\ idom \in [cfg.blocks -> cfg.blocks \cup {NoBlock}]
  BY DEF Dfs, DfsType, Tree, IdomType
<1>5. /\ Len(post_order) \in Nat
      /\ visited = Live /\ visited \subseteq cfg.blocks
      /\ \A c \in visited : PostIndex(c) \in 1..Len(post_order)
  BY <1>2, OrderFacts
<1>6. /\ at <= Len(post_order) /\ b # cfg.entry /\ todo \subseteq Candidates(b)
      /\ b2 \in visited /\ Processed(b2)
      /\ \A q \in Candidates(b) \ todo : b2 \in IdomChain(q) /\ PostIndex(q) <= PostIndex(b2)
      /\ \A a \in cfg.blocks \ {b} : ByPaths(a, b) => ByPaths(a, b2)
  BY <1>2 DEF Tree, Meeting
<1>7. p \in visited /\ Processed(p) /\ p \in Preds(cfg, b)
  BY <1>1, <1>6, ProcessedIsLive
<1>8. p \in IdomChain(p) /\ PostIndex(p) <= PostIndex(p)
  <2>1. PostIndex(p) \in Nat
    BY <1>5, <1>7
  <2> QED BY <1>4, <1>5, <1>7, <2>1, ChainIsLeast
<1> HIDE DEF b
<1>9. \A a \in cfg.blocks \ {b} : ByPaths(a, b) => ByPaths(a, p)
  BY <1>4, <1>5, <1>7, DominatesPred
<1>10. Meeting'
  <2>1. RpoAt(at)' = b
    BY <1>3 DEF b
  <2>2. todo' \subseteq Candidates(b) /\ Candidates(b) \ todo' \subseteq (Candidates(b) \ todo) \cup {p}
    BY <1>1, <1>6
  <2>3. Processed(b1)' /\ Processed(b2)'
    BY <1>1, <1>2, <1>6, <1>7 DEF Processed
  <2>4. \A q \in Candidates(b) \ todo' :
            \/ b1' \in IdomChain(q) /\ PostIndex(q) <= PostIndex(b1)'
            \/ b2' \in IdomChain(q) /\ PostIndex(q) <= PostIndex(b2)'
    <3>1. PostIndex(b1)' = PostIndex(p) /\ PostIndex(b2)' = PostIndex(b2)
      BY <1>1, <1>2 DEF PostIndex
    <3> QED BY <1>1, <1>2, <1>6, <1>8, <2>2, <3>1
  <2>5. \A a \in cfg.blocks \ {b} : ByPaths(a, b) => ByPaths(a, b1)' /\ ByPaths(a, b2)'
    BY <1>1, <1>2, <1>6, <1>9 DEF ByPaths
  <2> QED BY <1>1, <1>2, <1>3, <1>6, <1>7, <2>1, <2>2, <2>3, <2>4, <2>5 DEF Meeting
<1> QED BY <1>3, <1>10 DEF Tree

\* The finger that climbs leaves no dominator of the block behind: were it
\* one itself, it would dominate the other finger, and then be above it.
LEMMA ClimbingFinger ==
    ASSUME Dfs, Tree, phase = "meet",
           NEW x \in visited, NEW y \in visited, Processed(x), Processed(y),
           x # y, ~(PostIndex(y) < PostIndex(x)),
           NEW b, \A a \in cfg.blocks \ {b} : ByPaths(a, b) => ByPaths(a, x) /\ ByPaths(a, y)
    PROVE  /\ x # cfg.entry
           /\ idom[x] \in visited /\ Processed(idom[x])
           /\ PostIndex(x) < PostIndex(idom[x])
           /\ \A a \in cfg.blocks \ {b} : ByPaths(a, b) => ByPaths(a, idom[x])
<1> DEFINE N == Len(post_order)
<1>1. /\ N \in Nat \ {0} /\ visited \subseteq cfg.blocks
      /\ \A c \in visited : PostIndex(c) \in 1..N /\ post_order[PostIndex(c)] = c
      /\ \A i \in 1..N : PostIndex(post_order[i]) = i
      /\ post_order[N] = cfg.entry
  BY OrderFacts
<1>2. IdomType /\ Ascends
  BY DEF Tree
<1>3. PostIndex(x) < PostIndex(y)
  <2>1. PostIndex(x) # PostIndex(y) /\ PostIndex(x) \in Nat /\ PostIndex(y) \in Nat
    BY <1>1
  <2> QED BY <2>1
<1>4. x # cfg.entry
  <2>1. PostIndex(cfg.entry) = N
    BY <1>1
  <2>2. PostIndex(x) \in 1..N /\ PostIndex(y) \in 1..N
    BY <1>1
  <2> HIDE DEF N
  <2> QED BY <1>1, <1>3, <2>1, <2>2
<1>5. /\ idom[x] \in visited /\ Processed(idom[x])
      /\ PostIndex(x) < PostIndex(idom[x])
      /\ \A a \in cfg.blocks \ {x} : ByPaths(a, x) => ByPaths(a, idom[x])
  BY <1>1, <1>2, <1>4 DEF Ascends
<1>6. ~(x \in cfg.blocks \ {b} /\ ByPaths(x, b))
  <2> SUFFICES ASSUME x \in cfg.blocks \ {b}, ByPaths(x, b) PROVE FALSE
    OBVIOUS
  <2>1. ByPaths(x, y)
    OBVIOUS
  <2>2. PostIndex(y) < PostIndex(x)
    BY <1>1, <1>2, <2>1, DominatorIsHigher
  <2> QED BY <2>2
<1> QED BY <1>4, <1>5, <1>6

\* intersect moves the finger that is further down.
LEMMA ClimbKeepsTree == Dfs /\ Tree /\ Climb => Tree'
<1> SUFFICES ASSUME Dfs, Tree, Climb PROVE Tree'
  OBVIOUS
<1> DEFINE b == RpoAt(at)
           N == Len(post_order)
<1>1. /\ phase = "meet" /\ phase' = "meet" /\ b1 # b2 /\ todo' = todo
      /\ UNCHANGED <<cfg, post_order, visited, idom, at, changed>>
  BY DEF Climb, dfsVars
<1>2. /\ IdomType' /\ Ascends' /\ InOrder' /\ Settled' /\ Solved'
      /\ \A c : PostIndex(c)' = PostIndex(c)
      /\ RpoAt(at)' = RpoAt(at)
      /\ \A a, c : ByPaths(a, c)' <=> ByPaths(a, c)
      /\ \A c : IdomChain(c)' = IdomChain(c)
      /\ \A c : Processed(c)' <=> Processed(c)
      /\ \A c : Candidates(c)' = Candidates(c)
  BY <1>1, MeetFrame
<1>3. IsFlowGraph(cfg) /\ idom \in [cfg.blocks -> cfg.blocks \cup {NoBlock}]
  BY DEF Dfs, DfsType, Tree, IdomType
<1>4. N \in Nat /\ visited \subseteq cfg.blocks /\ \A c \in visited : PostIndex(c) \in 1..N
  BY <1>1, OrderFacts
<1>5. /\ at <= Len(post_order) /\ b # cfg.entry /\ todo \subseteq Candidates(b)
      /\ b1 \in visited /\ b2 \in visited /\ Processed(b1) /\ Processed(b2)
      /\ \A q \in Candidates(b) \ todo :
            \/ b1 \in IdomChain(q) /\ PostIndex(q) <= PostIndex(b1)
            \/ b2 \in IdomChain(q) /\ PostIndex(q) <= PostIndex(b2)
      /\ \A a \in cfg.blocks \ {b} : ByPaths(a, b) => ByPaths(a, b1) /\ ByPaths(a, b2)
  BY <1>1 DEF Tree, Meeting
<1>6. Candidates(b) \subseteq visited
  BY ProcessedIsLive
<1>7. RpoAt(at)' = b
  BY <1>2
<1> HIDE DEF b, N
<1>8. ASSUME NEW x \in visited, NEW z \in visited, Processed(x), idom[x] = z,
             PostIndex(x) < PostIndex(z),
             NEW q \in visited, x \in IdomChain(q), PostIndex(q) <= PostIndex(x)
      PROVE  z \in IdomChain(q) /\ PostIndex(q) <= PostIndex(z)
  <2>1. PostIndex(x) \in Nat /\ PostIndex(z) \in Nat /\ PostIndex(q) \in Nat
    BY <1>4
  <2>2. PostIndex(q) <= PostIndex(z)
    BY <1>8, <2>1
  <2>3. z \in IdomChain(q)
    BY <1>3, <1>4, <1>8, ChainIsLeast
  <2> QED BY <2>2, <2>3
<1>9. ASSUME NEW x \in visited, NEW y \in visited, Processed(x), Processed(y),
             x # y, ~(PostIndex(y) < PostIndex(x)),
             \A a \in cfg.blocks \ {b} : ByPaths(a, b) => ByPaths(a, x) /\ ByPaths(a, y),
             \A q \in Candidates(b) \ todo :
                \/ x \in IdomChain(q) /\ PostIndex(q) <= PostIndex(x)
                \/ y \in IdomChain(q) /\ PostIndex(q) <= PostIndex(y)
      PROVE  LET z == idom[x]
             IN  /\ z \in visited /\ Processed(z)
                 /\ \A q \in Candidates(b) \ todo :
                       \/ z \in IdomChain(q) /\ PostIndex(q) <= PostIndex(z)
                       \/ y \in IdomChain(q) /\ PostIndex(q) <= PostIndex(y)
                 /\ \A a \in cfg.blocks \ {b} : ByPaths(a, b) => ByPaths(a, z) /\ ByPaths(a, y)
  <2>1. /\ idom[x] \in visited /\ Processed(idom[x]) /\ PostIndex(x) < PostIndex(idom[x])
        /\ \A a \in cfg.blocks \ {b} : ByPaths(a, b) => ByPaths(a, idom[x])
    BY <1>1, <1>9, ClimbingFinger
  <2> QED BY <1>6, <1>8, <1>9, <2>1
<1>10. CASE PostIndex(b1) < PostIndex(b2)
  <2>1. b1' = idom[b1] /\ b2' = b2
    BY <1>10 DEF Climb
  <2>2. ~(PostIndex(b2) < PostIndex(b1))
    <3>1. PostIndex(b1) \in Nat /\ PostIndex(b2) \in Nat
      BY <1>4, <1>5
    <3> QED BY <1>10, <3>1
  <2>3. /\ idom[b1] \in visited /\ Processed(idom[b1])
        /\ \A q \in Candidates(b) \ todo :
              \/ idom[b1] \in IdomChain(q) /\ PostIndex(q) <= PostIndex(idom[b1])
              \/ b2 \in IdomChain(q) /\ PostIndex(q) <= PostIndex(b2)
        /\ \A a \in cfg.blocks \ {b} : ByPaths(a, b) => ByPaths(a, idom[b1]) /\ ByPaths(a, b2)
    BY <1>1, <1>5, <1>9, <2>2
  <2>4. /\ PostIndex(b1)' = PostIndex(idom[b1]) /\ PostIndex(b2)' = PostIndex(b2)
        /\ Processed(b1)' /\ Processed(b2)'
        /\ \A a : ByPaths(a, b1)' <=> ByPaths(a, idom[b1])
        /\ \A a : ByPaths(a, b2)' <=> ByPaths(a, b2)
    BY <1>1, <1>5, <2>1, <2>3 DEF PostIndex, Processed, ByPaths
  <2>5. Meeting'
    BY <1>1, <1>2, <1>5, <1>7, <2>1, <2>3, <2>4 DEF Meeting
  <2> QED BY <1>2, <2>5 DEF Tree
<1>11. CASE ~(PostIndex(b1) < PostIndex(b2))
  <2>1. b2' = idom[b2] /\ b1' = b1
    BY <1>11 DEF Climb
  <2>2. /\ idom[b2] \in visited /\ Processed(idom[b2])
        /\ \A q \in Candidates(b) \ todo :
              \/ idom[b2] \in IdomChain(q) /\ PostIndex(q) <= PostIndex(idom[b2])
              \/ b1 \in IdomChain(q) /\ PostIndex(q) <= PostIndex(b1)
        /\ \A a \in cfg.blocks \ {b} : ByPaths(a, b) => ByPaths(a, idom[b2]) /\ ByPaths(a, b1)
    BY <1>1, <1>5, <1>9, <1>11
  <2>3. /\ PostIndex(b2)' = PostIndex(idom[b2]) /\ PostIndex(b1)' = PostIndex(b1)
        /\ Processed(b1)' /\ Processed(b2)'
        /\ \A a : ByPaths(a, b2)' <=> ByPaths(a, idom[b2])
        /\ \A a : ByPaths(a, b1)' <=> ByPaths(a, b1)
    BY <1>1, <1>5, <2>1, <2>2 DEF PostIndex, Processed, ByPaths
  <2>4. Meeting'
    BY <1>1, <1>2, <1>5, <1>7, <2>1, <2>2, <2>3 DEF Meeting
  <2> QED BY <1>2, <2>4 DEF Tree
<1> QED BY <1>10, <1>11

\* The meeting's result is stored.
LEMMA RecordKeepsTree == Dfs /\ Tree /\ Record => Tree'
<1> SUFFICES ASSUME Dfs, Tree, Record PROVE Tree'
  OBVIOUS
<1> DEFINE b == RpoAt(at)
           N == Len(post_order)
<1>1. /\ phase = "meet" /\ phase' = "sweep" /\ b1 = b2 /\ todo = {} /\ at' = at + 1
      /\ idom' = [idom EXCEPT ![b] = b2]
      /\ cfg' = cfg /\ post_order' = post_order /\ visited' = visited
  BY DEF Record, dfsVars
<1>2. changed' <=> (changed \/ idom[b] # b2)
  BY DEF Record
<1>3. IsFlowGraph(cfg) /\ IdomType /\ Ascends /\ InOrder
  BY DEF Dfs, DfsType, Tree
<1>4. /\ N \in Nat /\ visited \subseteq cfg.blocks /\ \A c \in visited : PostIndex(c) \in 1..N
      /\ \A i \in 1..N : post_order[i] \in visited /\ PostIndex(post_order[i]) = i
  BY <1>1, OrderFacts
<1>5. /\ at <= N /\ b # cfg.entry
      /\ b2 \in visited /\ Processed(b2)
      /\ \A q \in Candidates(b) : b2 \in IdomChain(q) /\ PostIndex(q) <= PostIndex(b2)
      /\ \A a \in cfg.blocks \ {b} : ByPaths(a, b) => ByPaths(a, b2)
  BY <1>1 DEF Tree, Meeting
<1>6. PICK p \in Candidates(b) : p \in visited /\ PostIndex(b) < PostIndex(p)
  BY <1>1, <1>5, HasCandidate
<1>7. b \in visited /\ b \in cfg.blocks
  BY <1>1, <1>4, <1>5, HasCandidate
<1> HIDE DEF b
<1>8. PostIndex(b) < PostIndex(b2) /\ b2 # b
  <2>1. PostIndex(p) <= PostIndex(b2)
    BY <1>5
  <2>2. PostIndex(b) \in Nat /\ PostIndex(p) \in Nat /\ PostIndex(b2) \in Nat
    BY <1>4, <1>5, <1>6, <1>7
  <2> QED BY <1>6, <2>1, <2>2
<1>9. /\ idom'[b] = b2
      /\ \A c \in cfg.blocks \ {b} : idom'[c] = idom[c]
      /\ idom' \in [cfg.blocks -> cfg.blocks \cup {NoBlock}]
  BY <1>1, <1>3, <1>4, <1>5, <1>7 DEF IdomType
<1>10. b2 # NoBlock
  BY <1>3, <1>4, <1>5, NoBlockIsNone
<1>11. /\ \A c \in cfg.blocks : idom'[c] # NoBlock <=> (Processed(c) \/ c = b)
       /\ \A c \in cfg.blocks : Processed(c)' <=> (Processed(c) \/ c = b)
  BY <1>9, <1>10 DEF Processed
<1>12. /\ \A c : PostIndex(c)' = PostIndex(c)
       /\ \A k : RpoAt(k)' = RpoAt(k)
       /\ \A a, c : ByPaths(a, c)' <=> ByPaths(a, c)
  BY <1>1, SameGraph
<1>13. at \in Nat \ {0} /\ at \in 1..N
  BY <1>3, <1>4, <1>5 DEF IdomType
<1>14. IdomType'
  <2>1. cfg.entry \in cfg.blocks
    BY <1>3 DEF IsFlowGraph
  <2>2. idom'[cfg.entry] = cfg.entry
    BY <1>3, <1>5, <1>9, <2>1 DEF IdomType
  <2> QED BY <1>1, <1>9, <1>13, <2>2 DEF IdomType
<1>15. Ascends'
  <2> SUFFICES ASSUME NEW c \in cfg.blocks \ {cfg.entry}, Processed(c) \/ c = b
               PROVE  /\ c \in visited
                      /\ idom'[c] \in visited
                      /\ idom'[idom'[c]] # NoBlock
                      /\ PostIndex(c) < PostIndex(idom'[c])
                      /\ \A a \in cfg.blocks \ {c} : ByPaths(a, c) => ByPaths(a, idom'[c])
    <3>1. \A c \in cfg.blocks : /\ PostIndex(idom[c])' = PostIndex(idom'[c])
                                /\ Processed(idom[c])' <=> idom'[idom'[c]] # NoBlock
                                /\ \A a : ByPaths(a, idom[c])' <=> ByPaths(a, idom'[c])
      BY <1>1 DEF PostIndex, Processed, ByPaths
    <3> QED BY <1>1, <1>11, <1>12, <3>1 DEF Ascends
  <2>1. CASE c = b
    BY <1>4, <1>5, <1>7, <1>8, <1>9, <1>11, <2>1
  <2>2. CASE c # b
    <3>1. Processed(c) /\ idom'[c] = idom[c]
      BY <1>9, <2>2
    <3> QED BY <1>3, <1>4, <1>11, <3>1 DEF Ascends
  <2> QED BY <2>1, <2>2
<1>16. InOrder'
  <2>1. \A k \in 1..N : RpoAt(k) \in cfg.blocks
    <3> SUFFICES ASSUME NEW k \in 1..N PROVE RpoAt(k) \in cfg.blocks
      OBVIOUS
    <3>1. N + 1 - k \in 1..N
      BY <1>4
    <3> QED BY <1>4, <3>1 DEF RpoAt
  <2>2. \A k \in 1..N : RpoAt(k) = b => k = at
    <3> SUFFICES ASSUME NEW k \in 1..N, RpoAt(k) = b PROVE k = at
      OBVIOUS
    <3>1. N + 1 - k \in 1..N /\ N + 1 - at \in 1..N
      BY <1>4, <1>13
    <3>2. post_order[N + 1 - k] = post_order[N + 1 - at]
      BY DEF RpoAt, b
    <3>3. N + 1 - k = N + 1 - at
      BY <1>4, <3>1, <3>2
    <3> QED BY <1>4, <1>13, <3>3
  <2>3. \A k \in 1..N : Processed(RpoAt(k))' <=> (Processed(RpoAt(k)) \/ RpoAt(k) = b)
    <3> SUFFICES ASSUME NEW k \in 1..N
                 PROVE  Processed(RpoAt(k))' <=> (Processed(RpoAt(k)) \/ RpoAt(k) = b)
      OBVIOUS
    <3>1. Processed(RpoAt(k))' <=> idom'[RpoAt(k)] # NoBlock
      BY <1>1 DEF Processed, RpoAt
    <3> QED BY <1>11, <2>1, <3>1
  <2>4. \A k \in 1..N : k < at => Processed(RpoAt(k))
    BY <1>1, <1>3 DEF InOrder
  <2>5. \A k \in 1..N : k < at' => k < at \/ k = at
    BY <1>1, <1>13
  <2>6. \A j, k \in 1..N : j < k /\ Processed(RpoAt(k)) => Processed(RpoAt(j))
    BY <1>1, <1>3 DEF InOrder
  <2>7. RpoAt(at) = b
    BY DEF b
  <2>8. N' = N
    BY <1>1
  <2> HIDE DEF N
  <2> QED BY <2>2, <2>3, <2>4, <2>5, <2>6, <2>7, <2>8 DEF InOrder, N
<1>17. Settled'
  <2> SUFFICES ASSUME ~changed' PROVE Settled'
    BY DEF Settled
  <2>1. ~changed /\ idom[b] = b2
    BY <1>2
  <2>2. idom' = idom
    BY <1>1, <1>3, <2>1 DEF IdomType
  <2>3. /\ \A c : IdomChain(c)' = IdomChain(c)
        /\ \A c : Candidates(c)' = Candidates(c)
    BY <1>1, <2>2, SameChains
  <2>4. ASSUME NEW k \in 1..N, k < at', NEW q \in Candidates(RpoAt(k))
        PROVE  idom[RpoAt(k)] \in IdomChain(q)
    <3>1. CASE k < at
      BY <1>1, <2>1, <3>1 DEF Tree, Settled
    <3>2. CASE k = at
      BY <1>5, <2>1, <3>2 DEF b
    <3> QED BY <1>1, <1>13, <2>4, <3>1, <3>2
  <2> QED BY <1>1, <1>12, <2>2, <2>3, <2>4 DEF Settled
<1>18. Meeting' /\ Solved'
  BY <1>1 DEF Meeting, Solved
<1> QED BY <1>14, <1>15, <1>16, <1>17, <1>18 DEF Tree

\* Another sweep starts from the top.
LEMMA ResweepKeepsTree == Tree /\ Resweep => Tree'
<1> SUFFICES ASSUME Tree, Resweep PROVE Tree'
  OBVIOUS
<1>1. /\ phase = "sweep" /\ phase' = "sweep" /\ at' = 1
      /\ cfg' = cfg /\ post_order' = post_order /\ visited' = visited /\ idom' = idom
  BY DEF Resweep, dfsVars
<1>2. IdomType' /\ Ascends'
  BY <1>1, KeepsAscends DEF Tree
<1>3. InOrder'
  BY <1>1 DEF Tree, InOrder, RpoAt, Processed
<1>4. Settled'
  BY <1>1 DEF Settled
<1>5. Meeting' /\ Solved'
  BY <1>1 DEF Meeting, Solved
<1> QED BY <1>2, <1>3, <1>4, <1>5 DEF Tree

\* A sweep without a change has settled every block.
LEMMA ReturnKeepsTree == Dfs /\ Tree /\ Return => Tree'
<1> SUFFICES ASSUME Dfs, Tree, Return PROVE Tree'
  OBVIOUS
<1> DEFINE N == Len(post_order)
<1>1. /\ phase = "sweep" /\ phase' = "done" /\ at' = at /\ at > N /\ ~changed
      /\ cfg' = cfg /\ post_order' = post_order /\ visited' = visited /\ idom' = idom
  BY DEF Return, dfsVars, domVars
<1>2. IdomType' /\ Ascends'
  BY <1>1, KeepsAscends DEF Tree, IdomType
<1>3. InOrder'
  BY <1>1 DEF Tree, InOrder, RpoAt, Processed
<1>4. Settled' /\ Meeting'
  BY <1>1 DEF Settled, Meeting
<1>5. /\ \A b : IdomChain(b)' = IdomChain(b)
      /\ \A b : Processed(b)' <=> Processed(b)
      /\ \A b : Preds(cfg, b)' = Preds(cfg, b)
  BY <1>1, SameGraph, SameChains
<1>6. ASSUME NEW b \in visited \ {cfg.entry}
      PROVE  /\ Processed(b)
             /\ \A q \in Preds(cfg, b) \cap visited : idom[b] \in IdomChain(q)
  <2>1. \A c \in visited : \E k \in 1..N : RpoAt(k) = c /\ k < at
    <3> SUFFICES ASSUME NEW c \in visited PROVE \E k \in 1..N : RpoAt(k) = c /\ k < at
      OBVIOUS
    <3>1. /\ N \in Nat /\ PostIndex(c) \in 1..N /\ post_order[PostIndex(c)] = c
          /\ at \in Nat
      BY <1>1, OrderFacts DEF Tree, IdomType
    <3>2. /\ N + 1 - PostIndex(c) \in 1..N
          /\ N + 1 - (N + 1 - PostIndex(c)) = PostIndex(c)
          /\ N + 1 - PostIndex(c) < at
      BY <1>1, <3>1
    <3>3. RpoAt(N + 1 - PostIndex(c)) = c
      BY <3>1, <3>2 DEF RpoAt
    <3> QED BY <3>2, <3>3
  <2>2. \A c \in visited : Processed(c)
    BY <1>1, <2>1 DEF Tree, InOrder
  <2>3. Preds(cfg, b) \cap visited \subseteq Candidates(b)
    BY <1>6, <2>2 DEF Candidates
  <2>4. PICK k \in 1..N : RpoAt(k) = b /\ k < at
    BY <2>1
  <2>5. \A q \in Candidates(b) : idom[b] \in IdomChain(q)
    BY <1>1, <2>4 DEF Tree, Settled
  <2> QED BY <2>2, <2>3, <2>5
<1>7. Solved'
  BY <1>1, <1>5, <1>6 DEF Solved
<1> QED BY <1>2, <1>3, <1>4, <1>7 DEF Tree

-----------------------------------------------------------------------------
(* The finished tree *)

Built == Dfs /\ Tree

\* Every step of DominatorTree::compute keeps the order and the tree.
LEMMA StepBuilt == Built /\ [Next]_vars => Built'
<1> SUFFICES ASSUME Dfs, Tree, [Next]_vars PROVE Dfs' /\ Tree'
  BY DEF Built
<1>1. Dfs'
  BY StepDfs
<1>2. CASE DfsCall \/ DfsReturn
  BY <1>1, <1>2, SearchKeepsTree
<1>3. CASE Skip
  BY <1>1, <1>3, SkipKeepsTree
<1>4. CASE FirstPred
  BY <1>1, <1>4, FirstPredKeepsTree
<1>5. CASE NextPred
  BY <1>1, <1>5, NextPredKeepsTree
<1>6. CASE Climb
  BY <1>1, <1>6, ClimbKeepsTree
<1>7. CASE Record
  BY <1>1, <1>7, RecordKeepsTree
<1>8. CASE Resweep
  BY <1>1, <1>8, ResweepKeepsTree
<1>9. CASE Return
  BY <1>1, <1>9, ReturnKeepsTree
<1>10. CASE UNCHANGED vars
  <2>1. /\ cfg' = cfg /\ post_order' = post_order /\ visited' = visited /\ idom' = idom
        /\ at' = at /\ changed' = changed /\ phase' = phase /\ todo' = todo
        /\ b1' = b1 /\ b2' = b2
    BY <1>10 DEF vars
  <2>2. /\ \A b : PostIndex(b)' = PostIndex(b)
        /\ \A k : RpoAt(k)' = RpoAt(k)
        /\ \A a, b : ByPaths(a, b)' <=> ByPaths(a, b)
        /\ \A b : Preds(cfg, b)' = Preds(cfg, b)
        /\ \A b : IdomChain(b)' = IdomChain(b)
        /\ \A b : Processed(b)' <=> Processed(b)
        /\ \A b : Candidates(b)' = Candidates(b)
    BY <2>1, SameGraph, SameChains
  <2>3. IdomType'
    BY <2>1 DEF Tree, IdomType, Processed
  <2>4. Ascends'
    BY <2>1, <2>2 DEF Tree, Ascends
  <2>5. InOrder'
    BY <2>1, <2>2 DEF Tree, InOrder
  <2>6. Meeting'
    <3>1. /\ RpoAt(at)' = RpoAt(at)
          /\ PostIndex(b1)' = PostIndex(b1) /\ PostIndex(b2)' = PostIndex(b2)
          /\ Processed(b1)' <=> Processed(b1)
          /\ Processed(b2)' <=> Processed(b2)
          /\ \A a : (ByPaths(a, b1)' <=> ByPaths(a, b1)) /\ (ByPaths(a, b2)' <=> ByPaths(a, b2))
      BY <2>1, <2>2
    <3> QED BY <2>1, <2>2, <3>1 DEF Tree, Meeting
  <2>7. Settled'
    BY <2>1, <2>2 DEF Tree, Settled
  <2>8. Solved'
    BY <2>1, <2>2 DEF Tree, Solved
  <2> QED BY <1>1, <2>3, <2>4, <2>5, <2>6, <2>7, <2>8 DEF Tree
<1> QED BY <1>2, <1>3, <1>4, <1>5, <1>6, <1>7, <1>8, <1>9, <1>10 DEF Next

\* In the finished tree a block on the chain of x lies on every path to x.
LEMMA ChainIsSound ==
    ASSUME Built, phase = "done", NEW x \in visited, NEW a \in IdomChain(x)
    PROVE  ByPaths(a, x)
<1> DEFINE X == {y \in visited : a \notin IdomChain(y)}
<1>1. IsFlowGraph(cfg) /\ idom \in [cfg.blocks -> cfg.blocks \cup {NoBlock}]
      /\ idom[cfg.entry] = cfg.entry
  BY DEF Built, Dfs, DfsType, Tree, IdomType
<1>2. /\ visited = Live /\ visited \subseteq cfg.blocks
      /\ \A b \in visited : Succs(cfg, b) \subseteq visited
  BY OrderFacts DEF Built
<1>3. cfg.entry \in cfg.blocks /\ cfg.entry \in visited
  BY <1>1 DEF IsFlowGraph, Built, Dfs, DfsSets
<1>4. IdomChain(cfg.entry) \subseteq {cfg.entry}
  <2> DEFINE E == {cfg.entry}
  <2>1. cfg.entry \in E /\ \A y \in E \cap cfg.blocks : Processed(y) => idom[y] \in E
    BY <1>1
  <2> HIDE DEF E
  <2>2. IdomChain(cfg.entry) \subseteq E
    BY <1>1, <1>3, <2>1, ChainIsLeast
  <2> QED BY <2>2 DEF E
<1>5. ASSUME NEW y \in X, NEW s \in Succs(cfg, y) \ {a} PROVE s \in X
  <2>1. s \in visited /\ y \in visited /\ y \in cfg.blocks
    BY <1>2
  <2>2. CASE s = cfg.entry
    BY <1>4, <2>1, <2>2
  <2>3. CASE s # cfg.entry
    <3>1. Processed(s) /\ idom[s] \in IdomChain(y)
      <4>1. y \in Preds(cfg, s) \cap visited
        BY <1>5, <2>1 DEF Preds
      <4> QED BY <2>1, <2>3, <4>1 DEF Built, Tree, Solved
    <3>2. IdomChain(s) \subseteq {s} \cup IdomChain(idom[s])
      BY <1>1, <1>2, <2>1, <3>1, ChainUnfolds
    <3>3. IdomChain(idom[s]) \subseteq IdomChain(y)
      BY <1>1, <2>1, <3>1, ChainUnfolds
    <3>4. a \notin IdomChain(y) /\ a # s
      BY <1>5
    <3> QED BY <2>1, <3>2, <3>3, <3>4
  <2> QED BY <2>2, <2>3
<1>6. cfg.entry \notin {a} => cfg.entry \in X
  BY <1>3, <1>4
<1>7. x \notin X
  OBVIOUS
<1> HIDE DEF X
<1>8. \A y \in X \cap cfg.blocks : Succs(cfg, y) \ {a} \subseteq X
  BY <1>5
<1>9. Reach(cfg, cfg.entry, {a}) \subseteq X
  BY <1>1, <1>3, <1>6, <1>8, ReachIsLeast
<1> QED BY <1>2, <1>7, <1>9 DEF ByPaths, Live

\* A step of the analysis is a step of the tree's computation or leaves it
\* alone.
LEMMA AnalysisKeepsTree == [SNext]_allVars => [Next]_vars
<1> SUFFICES ASSUME [SNext]_allVars PROVE [Next]_vars
  OBVIOUS
<1>1. CASE Dominators
  BY <1>1 DEF Dominators
<1>2. CASE FinishRoot \/ FinishEdge \/ FinishLeave \/ TakeComponent \/ ScanBlock \/ KeepLoops
              \/ NotAnIf \/ BeginIf \/ SearchOn \/ End
  BY <1>2 DEF FinishRoot, FinishEdge, FinishLeave, TakeComponent, ScanBlock, KeepLoops,
              NotAnIf, BeginIf, SearchOn, End
<1>3. CASE JoinFound \/ NoneFound
  BY <1>3 DEF JoinFound, NoneFound, RecordIf
<1>4. CASE UNCHANGED allVars
  BY <1>4 DEF allVars
<1> QED BY <1>1, <1>2, <1>3, <1>4 DEF SNext

\* The invariant of DominatorTree::compute, over the whole analysis.
THEOREM TreeBuilds == SSpec => []Built
<1>1. SInit => Built
  BY InitDfs, InitTree DEF SInit, Built
<1>2. Built /\ [SNext]_allVars => Built'
  BY StepBuilt, AnalysisKeepsTree
<1> QED BY <1>1, <1>2, PTL DEF SSpec

\* DominatorTree::compute of analysis.rs yields the dominator tree of any
\* flow graph, whatever the order of the predecessor vectors: on every
\* reachable block but the entry idom is its nearest strict dominator by
\* paths, and unreachable blocks have no entry.
THEOREM DominatorTreeIsRight == SSpec => []TreeIsDominance
<1>1. Built => TreeIsDominance
  <2> SUFFICES ASSUME Built, phase = "done", NEW b \in cfg.blocks \ {cfg.entry}
               PROVE  IF b \in Live
                      THEN /\ idom[b] # b
                           /\ ByPaths(idom[b], b)
                           /\ \A a \in cfg.blocks \ {b} :
                                  ByPaths(a, b) => a = idom[b] \/ ByPaths(a, idom[b])
                      ELSE idom[b] = NoBlock
    BY DEF TreeIsDominance, Live
  <2>1. /\ Len(post_order) \in Nat /\ visited = Live
        /\ \A c \in visited : PostIndex(c) \in 1..Len(post_order)
    BY OrderFacts DEF Built
  <2>2. CASE b \in Live
    <3>1. Processed(b)
      BY <2>1, <2>2 DEF Built, Tree, Solved
    <3>2. /\ idom[b] \in visited /\ PostIndex(b) < PostIndex(idom[b])
          /\ \A a \in cfg.blocks \ {b} : ByPaths(a, b) => ByPaths(a, idom[b])
      BY <3>1 DEF Built, Tree, Ascends
    <3>3. idom[b] # b
      <4>1. PostIndex(b) \in Nat
        BY <2>1, <2>2
      <4> QED BY <3>2, <4>1
    <3>4. idom[b] \in IdomChain(b)
      BY <3>1, ChainIsLeast DEF Built, Dfs, DfsType, Tree, IdomType
    <3>5. ByPaths(idom[b], b)
      BY <2>1, <2>2, <3>4, ChainIsSound
    <3> QED BY <2>2, <3>2, <3>3, <3>5
  <2>3. CASE b \notin Live
    BY <2>1, <2>3, ProcessedIsLive DEF Built, Processed
  <2> QED BY <2>2, <2>3
<1> QED BY <1>1, TreeBuilds, PTL

-----------------------------------------------------------------------------
(* Loops *)

\* A block reached leads nowhere new.
LEMMA ReachesOn ==
    ASSUME IsFlowGraph(cfg), NEW x \in cfg.blocks, NEW W, NEW y \in Reach(cfg, x, W)
    PROVE  Reach(cfg, y, W) \subseteq Reach(cfg, x, W)
<1> DEFINE R == Reach(cfg, x, W)
<1>1. y \in cfg.blocks /\ y \in R /\ \A z \in R : Succs(cfg, z) \ W \subseteq R
  BY ReachIsLeast
<1> HIDE DEF R
<1>2. Reach(cfg, y, W) \subseteq R
  BY <1>1, ReachIsLeast
<1> QED BY <1>2 DEF R

\* The walk over predecessors.
LEMMA BackwardsIsLeast ==
    ASSUME IsFlowGraph(cfg), NEW b \in cfg.blocks, NEW W
    PROVE  /\ b \in Backwards(b, W)
           /\ Backwards(b, W) \subseteq cfg.blocks
           /\ \A x \in Backwards(b, W) : Preds(cfg, x) \ W \subseteq Backwards(b, W)
           /\ \A X : (b \in X /\ \A x \in X \cap cfg.blocks : Preds(cfg, x) \ W \subseteq X)
                       => Backwards(b, W) \subseteq X
<1> DEFINE B == cfg.blocks
           next == [x \in B |-> Preds(cfg, x) \ W]
           S == {b}
<1>1. IsFiniteSet(B) /\ next \in [B -> SUBSET B] /\ S \in SUBSET B
  BY DEF IsFlowGraph, Preds
<1>2. Backwards(b, W) = Closure(S, next)
  BY DEF Backwards
<1>3. \A x \in B : next[x] = Preds(cfg, x) \ W
  OBVIOUS
<1> HIDE DEF B, next, S
<1>4. /\ S \subseteq Closure(S, next)
      /\ Closure(S, next) \subseteq B
      /\ \A x \in Closure(S, next) : next[x] \subseteq Closure(S, next)
      /\ \A X : (S \subseteq X /\ \A x \in X \cap B : next[x] \subseteq X)
                  => Closure(S, next) \subseteq X
  BY <1>1, ClosureIsLeast
<1>5. ASSUME NEW X, b \in X, \A x \in X \cap B : Preds(cfg, x) \ W \subseteq X
      PROVE  Closure(S, next) \subseteq X
  <2>1. S \subseteq X /\ \A x \in X \cap B : next[x] \subseteq X
    BY <1>3, <1>5 DEF S
  <2> QED BY <1>4, <2>1
<1>6. b \in Closure(S, next)
  BY <1>4 DEF S
<1>7. \A x \in Closure(S, next) : Preds(cfg, x) \ W \subseteq Closure(S, next)
  BY <1>3, <1>4
<1> QED BY <1>2, <1>4, <1>5, <1>6, <1>7 DEF B

\* Who leads to a block of the walk belongs to it.
LEMMA WalkTakesAll ==
    ASSUME IsFlowGraph(cfg), NEW b \in cfg.blocks, NEW h,
           NEW n \in cfg.blocks, n # h,
           NEW m \in Reach(cfg, n, {h}), m \in Backwards(b, {h})
    PROVE  n \in Backwards(b, {h})
<1> DEFINE Bw == Backwards(b, {h})
           X == {x \in cfg.blocks \ {h} : x \notin Bw}
<1>1. \A x \in Bw : Preds(cfg, x) \ {h} \subseteq Bw
  BY BackwardsIsLeast
<1>2. m \in Bw
  OBVIOUS
<1> HIDE DEF Bw
<1> SUFFICES ASSUME n \notin Bw PROVE FALSE
  BY DEF Bw
<1>3. n \in X
  OBVIOUS
<1>4. ASSUME NEW x \in X PROVE Succs(cfg, x) \ {h} \subseteq X
  <2>1. Succs(cfg, x) \subseteq cfg.blocks
    BY SuccsAreBlocks
  <2>2. \A s \in Succs(cfg, x) : x \in Preds(cfg, s)
    BY DEF Preds
  <2> QED BY <1>1, <2>1, <2>2
<1>5. m \notin X
  BY <1>2
<1> HIDE DEF X
<1>6. Reach(cfg, n, {h}) \subseteq X
  BY <1>3, <1>4, ReachIsLeast
<1> QED BY <1>5, <1>6

\* The walk from b that stops at h finds the blocks that lead to b without
\* passing h.
LEMMA BackwardsIsReach ==
    ASSUME IsFlowGraph(cfg), NEW b \in cfg.blocks, NEW h, b # h,
           NEW n \in cfg.blocks, n # h
    PROVE  n \in Backwards(b, {h}) <=> b \in Reach(cfg, n, {h})
<1>1. ASSUME b \in Reach(cfg, n, {h}) PROVE n \in Backwards(b, {h})
  BY <1>1, BackwardsIsLeast, WalkTakesAll
<1>2. ASSUME n \in Backwards(b, {h}) PROVE b \in Reach(cfg, n, {h})
  <2> DEFINE X == {x \in cfg.blocks \ {h} : b \in Reach(cfg, x, {h})}
  <2>1. b \in X
    BY ReachIsLeast
  <2>2. ASSUME NEW x \in X, NEW p \in Preds(cfg, x) \ {h} PROVE p \in X
    <3>1. p \in cfg.blocks \ {h} /\ x \in Succs(cfg, p) \ {h}
      BY DEF Preds
    <3>2. x \in Reach(cfg, p, {h})
      BY <3>1, ReachIsLeast
    <3>3. Reach(cfg, x, {h}) \subseteq Reach(cfg, p, {h})
      BY <3>1, <3>2, ReachesOn
    <3> QED BY <3>1, <3>3
  <2> HIDE DEF X
  <2>3. Backwards(b, {h}) \subseteq X
    BY <2>1, <2>2, BackwardsIsLeast
  <2> QED BY <1>2, <2>3 DEF X
<1> QED BY <1>1, <1>2

\* The blocks on one chain are ordered by dominance.
LEMMA ChainIsLinear ==
    ASSUME IsFlowGraph(cfg), idom \in [cfg.blocks -> cfg.blocks \cup {NoBlock}],
           NEW n \in cfg.blocks, NEW a \in IdomChain(n), NEW b \in IdomChain(n)
    PROVE  a \in IdomChain(b) \/ b \in IdomChain(a)
<1> DEFINE X == {x \in cfg.blocks : b \in IdomChain(x) \/ x \in IdomChain(b)}
<1>1. b \in cfg.blocks
  BY ChainIsLeast
<1>2. n \in X
  OBVIOUS
<1>3. ASSUME NEW x \in X, Processed(x) PROVE idom[x] \in X
  <2>1. idom[x] \in cfg.blocks
    BY <1>3 DEF Processed
  <2>2. CASE x \in IdomChain(b)
    BY <1>1, <1>3, <2>1, <2>2, ChainIsLeast
  <2>3. CASE x = b
    <3>1. idom[b] \in IdomChain(b)
      BY <1>1, <1>3, <2>3, ChainIsLeast
    <3> QED BY <2>1, <2>3, <3>1
  <2>4. CASE b \in IdomChain(x) /\ x # b
    BY <1>3, <2>1, <2>4, ChainUnfolds
  <2> QED BY <2>2, <2>3, <2>4
<1> HIDE DEF X
<1>4. IdomChain(n) \subseteq X
  BY <1>2, <1>3, ChainIsLeast
<1> QED BY <1>4 DEF X

\* A loop as collect_loop_body and is_reducible_loop_region let it through.
Loop == {l \in [header : cfg.blocks, latch : cfg.blocks, body : SUBSET cfg.blocks] :
            /\ l.header \in Succs(cfg, l.latch)
            /\ l.body = LoopBody(l.header, l.latch)
            /\ \A n \in l.body : Dominates(l.header, n)}

\* The loops pushed and kept are such loops, one per header.
LoopsRight ==
    /\ phase # "done" => stage = "finish" /\ found = <<>> /\ loops = {} /\ ifs = {}
    /\ scan \in Nat \ {0}
    /\ found \in Seq(Loop)
    /\ loops \subseteq Loop
    /\ \A l, k \in loops : l.header = k.header => l = k

\* A loop body is a set of blocks with the header.
LEMMA BodyIsBlocks ==
    ASSUME IsFlowGraph(cfg), NEW h \in cfg.blocks, NEW b \in cfg.blocks
    PROVE  LoopBody(h, b) \in SUBSET cfg.blocks /\ h \in LoopBody(h, b)
  BY BackwardsIsLeast DEF LoopBody

\* What one block contributes.
LEMMA LoopsFromShape ==
    ASSUME IsFlowGraph(cfg), NEW b \in cfg.blocks
    PROVE  LoopsFrom(b) \in Seq(Loop)
<1> DEFINE body(h) == LoopBody(h, b)
           S == {h \in Succs(cfg, b) : /\ IsBackEdge(b, h)
                                       /\ IsReducible(h, body(h))
                                       /\ ~(body(h) \subseteq DispatchBlocks)}
           heads == Kept(cfg.succ[b], S)
           Entry(h) == [header |-> h, latch |-> b, body |-> body(h)]
<1>1. cfg.succ[b] \in Seq(cfg.blocks)
  BY DEF IsFlowGraph
<1>2. \A h \in S : h \in cfg.blocks /\ h \in Succs(cfg, b) /\ \A n \in body(h) : Dominates(h, n)
  BY SuccsAreBlocks DEF IsReducible
<1>3. LoopsFrom(b) = [i \in DOMAIN heads |-> Entry(heads[i])]
  BY DEF LoopsFrom
<1> HIDE DEF S
<1>4. heads \in Seq(cfg.blocks) /\ Range(heads) = Range(cfg.succ[b]) \cap S
  BY <1>1, KeptRange
<1> HIDE DEF heads
<1>5. DOMAIN heads = 1..Len(heads) /\ Len(heads) \in Nat
  BY <1>4, LenProperties
<1>6. \A i \in DOMAIN heads : heads[i] \in S
  BY <1>4 DEF Range
<1>7. ASSUME NEW h \in S PROVE Entry(h) \in Loop
  <2>1. h \in cfg.blocks /\ body(h) \in SUBSET cfg.blocks
    BY <1>2, <1>7, BodyIsBlocks
  <2>2. Entry(h) \in [header : cfg.blocks, latch : cfg.blocks, body : SUBSET cfg.blocks]
    <3> HIDE DEF body
    <3> QED BY <2>1
  <2>3. Entry(h).header = h /\ Entry(h).latch = b /\ Entry(h).body = body(h)
    OBVIOUS
  <2> HIDE DEF Entry
  <2> QED BY <1>2, <1>7, <2>2, <2>3 DEF Loop
<1> HIDE DEF Entry
<1>8. \A i \in 1..Len(heads) : LoopsFrom(b)[i] \in Loop
  BY <1>3, <1>5, <1>6, <1>7
<1> QED BY <1>3, <1>5, <1>8

\* Every step of the structural analysis keeps the loops right.
LEMMA StepLoops == Built /\ LoopsRight /\ [SNext]_allVars => LoopsRight'
<1> SUFFICES ASSUME Built, LoopsRight, [SNext]_allVars PROVE LoopsRight'
  OBVIOUS
<1>1. IsFlowGraph(cfg)
  BY DEF Built, Dfs, DfsType
<1>2. ASSUME UNCHANGED vars PROVE Loop' = Loop /\ cfg' = cfg /\ phase' = phase
  BY <1>2 DEF Loop, LoopBody, Backwards, Dominates, IdomChain, Preds, vars
<1>3. CASE Dominators
  <2>1. /\ phase # "done" /\ stage' = stage /\ found' = found /\ loops' = loops
        /\ scan' = scan /\ ifs' = ifs
    BY <1>3 DEF Dominators, structVars, Next, DfsCall, DfsReturn, Skip, FirstPred, NextPred,
                Climb, Record, Resweep, Return, InSweep
  <2>2. found' = <<>> /\ loops' = {} /\ stage' = "finish" /\ ifs' = {} /\ scan' \in Nat \ {0}
    BY <2>1 DEF LoopsRight
  <2>3. found' \in Seq(Loop')
    BY <2>2, EmptySeq
  <2> QED BY <2>2, <2>3 DEF LoopsRight
<1>4. CASE ScanBlock
  <2>1. /\ UNCHANGED vars /\ phase = "done" /\ loops' = loops /\ scan' = scan + 1
        /\ scan <= Cardinality(cfg.blocks)
    BY <1>4 DEF ScanBlock
  <2>2. PICK order \in InMapOrder(cfg, cfg.blocks) : found' = found \o LoopsFrom(order[scan])
    BY <1>4 DEF ScanBlock
  <2>3. order[scan] \in cfg.blocks
    <3>1. Cardinality(cfg.blocks) \in Nat
      BY <1>1, FS_CardinalityType DEF IsFlowGraph
    <3>2. scan \in 1..Cardinality(cfg.blocks)
      BY <2>1, <3>1 DEF LoopsRight
    <3>3. order \in [1..Cardinality(cfg.blocks) -> cfg.blocks]
      BY DEF InMapOrder, Bijection, Injection
    <3> QED BY <3>2, <3>3
  <2>4. found \in Seq(Loop) /\ LoopsFrom(order[scan]) \in Seq(Loop)
    BY <1>1, <2>3, LoopsFromShape DEF LoopsRight
  <2>5. found' \in Seq(Loop)
    BY <2>2, <2>4, ConcatRange
  <2>6. scan' \in Nat \ {0}
    BY <2>1 DEF LoopsRight
  <2> QED BY <1>2, <2>1, <2>5, <2>6 DEF LoopsRight
<1>5. CASE KeepLoops
  <2>1. /\ UNCHANGED vars /\ phase = "done" /\ loops' = FirstPerHeader(found) /\ scan' = 1
        /\ found' = found
    BY <1>5 DEF KeepLoops
  <2>2. found \in Seq(Loop)
    BY DEF LoopsRight
  <2>3. DOMAIN found = 1..Len(found) /\ Len(found) \in Nat /\ \A i \in DOMAIN found : found[i] \in Loop
    BY <2>2, LenProperties, ElementOfSeq
  <2>4. loops' \subseteq Loop
    BY <2>1, <2>3 DEF FirstPerHeader
  <2>5. ASSUME NEW l \in loops', NEW k \in loops', l.header = k.header PROVE l = k
    <3>1. PICK i \in DOMAIN found : l = found[i] /\ \A j \in 1..(i - 1) : found[j].header # l.header
      BY <2>1, <2>5 DEF FirstPerHeader
    <3>2. PICK j \in DOMAIN found : k = found[j] /\ \A m \in 1..(j - 1) : found[m].header # k.header
      BY <2>1, <2>5 DEF FirstPerHeader
    <3>3. ~(i < j) /\ ~(j < i)
      <4>1. i < j => i \in 1..(j - 1)
        BY <2>3
      <4>2. j < i => j \in 1..(i - 1)
        BY <2>3
      <4> QED BY <2>5, <3>1, <3>2, <4>1, <4>2
    <3>4. i = j
      BY <2>3, <3>3
    <3> QED BY <3>1, <3>2, <3>4
  <2> QED BY <1>2, <2>1, <2>2, <2>4, <2>5 DEF LoopsRight
<1>6. CASE FinishRoot \/ FinishEdge \/ FinishLeave \/ TakeComponent \/ NotAnIf
              \/ BeginIf \/ SearchOn \/ End
  <2>1. UNCHANGED vars /\ phase = "done" /\ loops' = loops /\ found' = found
    BY <1>6 DEF FinishRoot, FinishEdge, FinishLeave, TakeComponent, NotAnIf, BeginIf,
                SearchOn, End, InIfs
  <2>2. scan' = scan \/ scan' = scan + 1
    BY <1>6 DEF FinishRoot, FinishEdge, FinishLeave, TakeComponent, NotAnIf, BeginIf,
                SearchOn, End
  <2>3. scan' \in Nat \ {0}
    BY <2>2 DEF LoopsRight
  <2> QED BY <1>2, <2>1, <2>3 DEF LoopsRight
<1>7. CASE JoinFound \/ NoneFound
  <2>1. /\ UNCHANGED vars /\ phase = "done" /\ loops' = loops /\ found' = found
        /\ scan' = scan + 1
    BY <1>7 DEF JoinFound, NoneFound, RecordIf
  <2>2. scan' \in Nat \ {0}
    BY <2>1 DEF LoopsRight
  <2> QED BY <1>2, <2>1, <2>2 DEF LoopsRight
<1>8. CASE UNCHANGED allVars
  <2>1. /\ UNCHANGED vars /\ loops' = loops /\ found' = found /\ scan' = scan
        /\ stage' = stage /\ ifs' = ifs
    BY <1>8 DEF allVars, structVars
  <2> QED BY <1>2, <2>1 DEF LoopsRight
<1> QED BY <1>3, <1>4, <1>5, <1>6, <1>7, <1>8 DEF SNext

\* The invariant of detect_loops.
THEOREM LoopsAreRight == SSpec => [](Built /\ LoopsRight)
<1>1. SInit => LoopsRight
  <2> SUFFICES ASSUME SInit PROVE LoopsRight
    OBVIOUS
  <2>1. found = <<>> /\ loops = {} /\ ifs = {} /\ scan = 1 /\ stage = "finish"
    BY DEF SInit
  <2>2. found \in Seq(Loop)
    BY <2>1, EmptySeq
  <2> QED BY <2>1, <2>2 DEF LoopsRight
<1>2. Built /\ LoopsRight /\ [SNext]_allVars => LoopsRight'
  BY StepLoops
<1> QED BY <1>1, <1>2, TreeBuilds, PTL DEF SSpec

\* A loop detect_loops keeps is the natural loop of its back edge: exactly
\* the blocks that lead to the latch without passing the header.
THEOREM LoopsAreNatural == SSpec => []LoopIsNatural
<1>1. Built /\ LoopsRight => LoopIsNatural
  <2> SUFFICES ASSUME Built, LoopsRight, NEW l \in loops
               PROVE  /\ l.header \in Succs(cfg, l.latch)
                      /\ \A n \in cfg.blocks \ {l.header} :
                            n \in l.body <=> l.latch \in Reach(cfg, n, {l.header})
    BY DEF LoopIsNatural
  <2> DEFINE h == l.header
             b == l.latch
  <2>1. IsFlowGraph(cfg)
    BY DEF Built, Dfs, DfsType
  <2>2. /\ h \in cfg.blocks /\ b \in cfg.blocks /\ h \in Succs(cfg, b)
        /\ l.body = LoopBody(h, b)
    BY DEF LoopsRight, Loop
  <2> HIDE DEF h, b
  <2>3. ASSUME NEW n \in cfg.blocks \ {h}
        PROVE  n \in LoopBody(h, b) <=> b \in Reach(cfg, n, {h})
    <3>1. CASE h = b
      <4>1. b \notin Reach(cfg, n, {h})
        BY <2>1, <3>1, ReachIsLeast
      <4> QED BY <3>1, <4>1 DEF LoopBody
    <3>2. CASE h # b
      BY <2>1, <2>2, <3>2, BackwardsIsReach DEF LoopBody
    <3> QED BY <3>1, <3>2
  <2> QED BY <2>2, <2>3 DEF h, b
<1> QED BY <1>1, LoopsAreRight, PTL

\* Two blocks that dominate each other are one.
LEMMA DominanceIsAntisymmetric ==
    ASSUME Built, phase = "done", NEW a \in visited, NEW b \in visited,
           ByPaths(a, b), ByPaths(b, a)
    PROVE  a = b
<1> SUFFICES ASSUME a # b PROVE FALSE
  OBVIOUS
<1>1. /\ Len(post_order) \in Nat /\ visited \subseteq cfg.blocks
      /\ \A c \in visited : PostIndex(c) \in 1..Len(post_order)
  BY OrderFacts DEF Built
<1>2. Processed(a) /\ Processed(b)
  BY ProcessedIsLive DEF Built, Tree, Solved
<1>3. PostIndex(b) < PostIndex(a) /\ PostIndex(a) < PostIndex(b)
  BY <1>1, <1>2, DominatorIsHigher DEF Built, Tree
<1>4. PostIndex(a) \in Nat /\ PostIndex(b) \in Nat
  BY <1>1
<1> QED BY <1>3, <1>4

\* Where g lies below h and dominates n, there is a way from g to n that
\* avoids h: a way to h need not pass g, and going on from h to n without
\* passing g is not possible.
LEMMA WayAround ==
    ASSUME IsFlowGraph(cfg), NEW h, NEW g \in cfg.blocks, NEW n,
           g # h, h \in Live, ~ByPaths(g, h), ByPaths(h, g), ByPaths(g, n)
    PROVE  n \in Reach(cfg, g, {h})
<1> DEFINE A == Reach(cfg, cfg.entry, {g})
           D == Reach(cfg, g, {h})
           Y == A \cup D
<1>1. cfg.entry \in cfg.blocks
  BY DEF IsFlowGraph
<1>2. h \in A
  BY DEF ByPaths, Live
<1>3. g \in D
  BY ReachIsLeast
<1>4. cfg.entry \in A
  <2>1. g # cfg.entry
    BY EntryIsRoot
  <2> QED BY <1>1, <2>1, ReachIsLeast
<1>5. \A x \in A : Succs(cfg, x) \ {g} \subseteq A
  BY <1>1, ReachIsLeast
<1>6. \A x \in D : Succs(cfg, x) \ {h} \subseteq D
  BY ReachIsLeast
<1>7. n \in Live /\ n \notin A
  BY DEF ByPaths, Live
<1> HIDE DEF A, D
<1>8. cfg.entry \in Y /\ \A x \in Y \cap cfg.blocks : Succs(cfg, x) \ {} \subseteq Y
  BY <1>2, <1>3, <1>4, <1>5, <1>6
<1> HIDE DEF Y
<1>9. Live \subseteq Y
  BY <1>1, <1>8, ReachIsLeast DEF Live
<1> QED BY <1>7, <1>9 DEF Y, D

\* Of two loops that share a block, the one whose header is dominated by the
\* other's lies inside.
LEMMA LowerLoopIsInside ==
    ASSUME Built, phase = "done", NEW l \in Loop, NEW k \in Loop,
           NEW n \in l.body \cap k.body, n \in visited,
           l.header # k.header, l.header \in IdomChain(k.header)
    PROVE  k.body \subseteq l.body
<1> DEFINE h == l.header
           g == k.header
           H == Backwards(l.latch, {h})
           G == Backwards(k.latch, {g})
<1>1. IsFlowGraph(cfg)
  BY DEF Built, Dfs, DfsType
<1>2. visited = Live /\ visited \subseteq cfg.blocks
  BY OrderFacts DEF Built
<1>3. /\ h \in cfg.blocks /\ l.latch \in cfg.blocks
      /\ l.body = IF h = l.latch THEN {h} ELSE {h} \cup H
      /\ g \in cfg.blocks /\ k.latch \in cfg.blocks /\ g \in Succs(cfg, k.latch)
      /\ k.body = IF g = k.latch THEN {g} ELSE {g} \cup G
      /\ \A m \in k.body : g \in IdomChain(m)
      /\ h # g /\ h \in IdomChain(g) /\ n \in l.body /\ n \in k.body
  BY DEF Loop, LoopBody, Dominates
<1> HIDE DEF h, g
<1>4. ByPaths(g, n) /\ g \in visited
  <2>1. ByPaths(g, n)
    BY <1>3, ChainIsSound
  <2> QED BY <1>1, <1>2, <2>1, DominatorIsLive
<1>5. ByPaths(h, g) /\ h \in visited
  <2>1. ByPaths(h, g)
    BY <1>3, <1>4, ChainIsSound
  <2> QED BY <1>1, <1>2, <2>1, DominatorIsLive
<1>6. ~ByPaths(g, h)
  BY <1>3, <1>4, <1>5, DominanceIsAntisymmetric
<1>7. h \notin k.body
  BY <1>3, <1>5, <1>6, ChainIsSound
<1>8. n \in Reach(cfg, g, {h})
  BY <1>1, <1>2, <1>3, <1>4, <1>5, <1>6, WayAround
<1>9. h # l.latch /\ n \in H
  BY <1>3, <1>7
<1>10. g \in H
  BY <1>1, <1>3, <1>8, <1>9, WalkTakesAll
<1>11. \A x \in H : Preds(cfg, x) \ {h} \subseteq H
  BY <1>1, <1>3, BackwardsIsLeast
<1>12. CASE g = k.latch
  BY <1>3, <1>9, <1>10, <1>12
<1>13. CASE g # k.latch
  <2>1. k.latch \in G /\ \A x \in G : Preds(cfg, x) \ {g} \subseteq G
    BY <1>1, <1>3, BackwardsIsLeast
  <2>2. k.latch \in H
    <3>1. k.latch \in Preds(cfg, g)
      BY <1>3 DEF Preds
    <3>2. k.latch # h
      BY <1>3, <1>7, <1>13, <2>1
    <3> QED BY <1>10, <1>11, <3>1, <3>2
  <2> DEFINE X == G \cap H
  <2>3. h \notin G
    BY <1>3, <1>7, <1>13
  <2> HIDE DEF G, H
  <2>4. \A x \in X \cap cfg.blocks : Preds(cfg, x) \ {g} \subseteq X
    BY <1>11, <2>1, <2>3
  <2>5. k.latch \in X
    BY <2>1, <2>2
  <2> HIDE DEF X
  <2>6. G \subseteq X
    BY <1>1, <1>3, <2>4, <2>5, BackwardsIsLeast DEF G
  <2> QED BY <1>3, <1>9, <1>10, <1>13, <2>6 DEF X
<1> QED BY <1>12, <1>13

\* The loops detect_loops keeps are disjoint or nested, on any flow graph.
THEOREM KeptLoopsNest == SSpec => []LoopsNest
<1>1. Built /\ LoopsRight => LoopsNest
  <2> SUFFICES ASSUME Built, LoopsRight, NEW l \in loops, NEW k \in loops,
                      NEW n \in l.body \cap k.body
               PROVE  l.body \subseteq k.body \/ k.body \subseteq l.body
    BY DEF LoopsNest
  <2>1. l \in Loop /\ k \in Loop /\ phase = "done"
    BY DEF LoopsRight
  <2>2. /\ n \in cfg.blocks /\ l.header \in IdomChain(n) /\ k.header \in IdomChain(n)
    BY <2>1 DEF Loop, Dominates
  <2>3. IsFlowGraph(cfg) /\ idom \in [cfg.blocks -> cfg.blocks \cup {NoBlock}]
    BY DEF Built, Dfs, DfsType, Tree, IdomType
  <2>4. CASE l.header = k.header
    BY <2>4 DEF LoopsRight
  <2>5. CASE n \notin visited
    <3>1. ~Processed(n)
      BY <2>2, <2>5, ProcessedIsLive DEF Built
    <3> DEFINE X == {n}
    <3>2. n \in X /\ \A x \in X \cap cfg.blocks : Processed(x) => idom[x] \in X
      BY <3>1
    <3> HIDE DEF X
    <3>3. IdomChain(n) \subseteq X
      BY <2>2, <2>3, <3>2, ChainIsLeast
    <3>4. l.header = k.header
      BY <2>2, <3>3 DEF X
    <3> QED BY <2>4, <3>4
  <2>6. CASE l.header # k.header /\ n \in visited
    <3>1. l.header \in IdomChain(k.header) \/ k.header \in IdomChain(l.header)
      BY <2>2, <2>3, ChainIsLinear
    <3>2. CASE l.header \in IdomChain(k.header)
      BY <2>1, <2>6, <3>2, LowerLoopIsInside
    <3>3. CASE k.header \in IdomChain(l.header)
      BY <2>1, <2>6, <3>3, LowerLoopIsInside
    <3> QED BY <3>1, <3>2, <3>3
  <2> QED BY <2>4, <2>5, <2>6
<1> QED BY <1>1, LoopsAreRight, PTL

-----------------------------------------------------------------------------
(* Joins *)

\* forward_reachable follows edges and does not pass the block it stops at.
LEMMA ForwardIsReach ==
    ASSUME IsFlowGraph(cfg), NEW a \in cfg.blocks, NEW h, a # h
    PROVE  ForwardReachable(a, h) \subseteq Reach(cfg, a, {h})
<1> DEFINE B == cfg.blocks
           next == [x \in B |-> Succs(cfg, x) \ {h}]
           S == {a}
           X == Reach(cfg, a, {h})
<1>1. next \in [B -> SUBSET B] /\ S \in SUBSET B
  BY SuccsAreBlocks
<1>2. S \subseteq X /\ \A x \in X \cap B : next[x] \subseteq X
  BY ReachIsLeast
<1>3. ForwardReachable(a, h) = Rounds(JoinDepth, S, next)
  BY DEF ForwardReachable
<1>4. JoinDepth \in Nat
  BY DepthAssumption
<1> HIDE DEF B, next, S, X
<1>5. Rounds(JoinDepth, S, next) \subseteq X
  BY <1>1, <1>2, <1>4, RoundsWithin
<1> QED BY <1>3, <1>5 DEF X

\* While a join is looked for, what is queued follows the second successor
\* without passing the header, which is no successor of its own.
JoinSearch ==
    stage = "join" =>
        LET h == RpoAt(scan)
        IN  /\ phase = "done"
            /\ h \in cfg.blocks
            /\ Len(cfg.succ[h]) = 2
            /\ h \notin Succs(cfg, h)
            /\ queue \in Seq(cfg.blocks)
            /\ Range(queue) \subseteq Reach(cfg, cfg.succ[h][2], {h})

JoinsRight == JoinSearch /\ JoinIsCommon

\* The two successors of a header.
LEMMA TwoWays ==
    ASSUME IsFlowGraph(cfg), NEW h \in cfg.blocks, Len(cfg.succ[h]) = 2
    PROVE  /\ cfg.succ[h][1] \in cfg.blocks /\ cfg.succ[h][2] \in cfg.blocks
           /\ Succs(cfg, h) = {cfg.succ[h][1], cfg.succ[h][2]}
<1> DEFINE s == cfg.succ[h]
<1>1. s \in Seq(cfg.blocks)
  BY DEF IsFlowGraph
<1>2. DOMAIN s = 1..2 /\ s[1] \in cfg.blocks /\ s[2] \in cfg.blocks
  BY <1>1, LenProperties, ElementOfSeq
<1>3. Range(s) = {s[1], s[2]}
  <2> HIDE DEF s
  <2>1. \A i \in 1..2 : i = 1 \/ i = 2
    OBVIOUS
  <2>2. 1 \in 1..2 /\ 2 \in 1..2
    OBVIOUS
  <2> QED BY <1>2, <2>1, <2>2 DEF Range
<1> QED BY <1>2, <1>3 DEF Succs

\* A conditional recorded with a common join.
LEMMA RecordsCommon ==
    ASSUME IsFlowGraph(cfg), JoinIsCommon, cfg' = cfg, NEW h \in cfg.blocks,
           Len(cfg.succ[h]) = 2, NEW j, ifs' = ifs \cup {IfThenElse(h, j)},
           j # NoJoin => /\ j \in Reach(cfg, cfg.succ[h][1], {h})
                         /\ j \in Reach(cfg, cfg.succ[h][2], {h})
    PROVE  JoinIsCommon'
<1> DEFINE r == IfThenElse(h, j)
<1>1. r.header = h /\ r.join = j
  BY DEF IfThenElse
<1> HIDE DEF r
<1>2. j # NoJoin => \A s \in Succs(cfg, h) : j \in Reach(cfg, s, {h})
  BY TwoWays
<1>3. \A f \in ifs' : f \in ifs \/ f = r
  BY DEF r
<1> QED BY <1>1, <1>2, <1>3 DEF JoinIsCommon

\* Every step of the structural analysis keeps the joins right.
LEMMA StepJoins == Built /\ LoopsRight /\ JoinsRight /\ [SNext]_allVars => JoinsRight'
<1> SUFFICES ASSUME Built, LoopsRight, JoinsRight, [SNext]_allVars PROVE JoinsRight'
  OBVIOUS
<1> DEFINE h == RpoAt(scan)
           e == cfg.succ[h][2]
<1>1. IsFlowGraph(cfg) /\ idom \in [cfg.blocks -> cfg.blocks \cup {NoBlock}]
  BY DEF Built, Dfs, DfsType, Tree, IdomType
<1>2. ASSUME UNCHANGED vars
      PROVE  cfg' = cfg /\ phase' = phase /\ \A k : RpoAt(k)' = RpoAt(k)
  BY <1>2 DEF vars, RpoAt
<1>3. \A b \in cfg.blocks : Dominates(b, b)
  BY <1>1, ChainIsLeast DEF Dominates
<1>4. CASE Dominators
  <2>1. phase # "done" /\ stage' = stage /\ ifs' = ifs
    BY <1>4 DEF Dominators, structVars, Next, DfsCall, DfsReturn, Skip, FirstPred, NextPred,
                Climb, Record, Resweep, Return, InSweep
  <2>2. stage' = "finish" /\ ifs' = {}
    BY <2>1 DEF LoopsRight
  <2> QED BY <2>2 DEF JoinsRight, JoinSearch, JoinIsCommon
<1>5. CASE FinishRoot \/ FinishEdge \/ FinishLeave \/ TakeComponent \/ ScanBlock \/ KeepLoops
              \/ NotAnIf \/ End
  <2>1. UNCHANGED vars /\ ifs' = ifs
    BY <1>5 DEF FinishRoot, FinishEdge, FinishLeave, TakeComponent, ScanBlock, KeepLoops,
                NotAnIf, End
  <2>2. stage' # "join"
    <3>1. CASE FinishRoot \/ FinishEdge \/ ScanBlock \/ NotAnIf
      BY <3>1 DEF FinishRoot, FinishEdge, ScanBlock, NotAnIf, InIfs
    <3>2. CASE FinishLeave \/ TakeComponent \/ KeepLoops \/ End
      BY <3>2 DEF FinishLeave, TakeComponent, KeepLoops, End
    <3> QED BY <1>5, <3>1, <3>2
  <2> QED BY <1>2, <2>1, <2>2 DEF JoinsRight, JoinSearch, JoinIsCommon
<1>6. CASE BeginIf
  <2>1. /\ UNCHANGED vars /\ ifs' = ifs /\ scan' = scan /\ queue' = <<e>>
        /\ phase = "done" /\ scan <= Len(post_order)
        /\ Len(cfg.succ[h]) = 2 /\ \A s \in Succs(cfg, h) : ~Dominates(s, h)
    BY <1>6 DEF BeginIf, InIfs, HeadsIf, sccVars
  <2>2. h \in cfg.blocks
    <3>1. /\ Len(post_order) \in Nat /\ visited \subseteq cfg.blocks
          /\ \A i \in 1..Len(post_order) : post_order[i] \in visited
      BY <2>1, OrderFacts DEF Built
    <3>2. Len(post_order) + 1 - scan \in 1..Len(post_order)
      BY <2>1, <3>1 DEF LoopsRight
    <3> QED BY <3>1, <3>2 DEF RpoAt
  <2> HIDE DEF h
  <2>3. h \notin Succs(cfg, h)
    BY <1>3, <2>1, <2>2
  <2>4. e \in cfg.blocks /\ e # h
    BY <1>1, <2>1, <2>2, <2>3, TwoWays
  <2>5. e \in Reach(cfg, e, {h})
    BY <1>1, <2>4, ReachIsLeast
  <2>6. queue' \in Seq(cfg.blocks) /\ Range(queue') = {e}
    <3> HIDE DEF e
    <3>1. <<e>> \in Seq(cfg.blocks)
      <4> DEFINE B == cfg.blocks
      <4>1. e \in B
        BY <2>4
      <4> HIDE DEF B
      <4>2. <<e>> \in Seq(B)
        BY <4>1
      <4> QED BY <4>2 DEF B
    <3>2. Range(<<e>>) = {e}
      BY DEF Range
    <3> QED BY <2>1, <3>1, <3>2
  <2>7. RpoAt(scan)' = h
    BY <1>2, <2>1 DEF h, RpoAt, vars
  <2>8. JoinSearch'
    BY <1>2, <2>1, <2>2, <2>3, <2>5, <2>6, <2>7 DEF JoinSearch, vars
  <2> QED BY <1>2, <2>1, <2>8 DEF JoinsRight, JoinIsCommon
<1>7. ASSUME stage = "join"
      PROVE  /\ phase = "done" /\ h \in cfg.blocks /\ Len(cfg.succ[h]) = 2
             /\ h \notin Succs(cfg, h) /\ queue \in Seq(cfg.blocks)
             /\ Range(queue) \subseteq Reach(cfg, e, {h})
             /\ cfg.succ[h][1] \in cfg.blocks /\ e \in cfg.blocks
             /\ cfg.succ[h][1] # h /\ e # h
  <2>1. /\ phase = "done" /\ h \in cfg.blocks /\ Len(cfg.succ[h]) = 2
        /\ h \notin Succs(cfg, h) /\ queue \in Seq(cfg.blocks)
        /\ Range(queue) \subseteq Reach(cfg, e, {h})
    BY <1>7 DEF JoinsRight, JoinSearch
  <2> QED BY <1>1, <2>1, TwoWays
<1>8. CASE SearchOn
  <2>1. /\ UNCHANGED vars /\ ifs' = ifs /\ scan' = scan /\ stage = "join" /\ stage' = stage
        /\ queue # <<>>
    BY <1>8 DEF SearchOn
  <2>2. RpoAt(scan)' = h
    BY <1>2, <2>1 DEF RpoAt, vars
  <2> HIDE DEF h, e
  <2>3. /\ Head(queue) \in cfg.blocks /\ Tail(queue) \in Seq(cfg.blocks)
        /\ Range(queue) = {Head(queue)} \cup Range(Tail(queue))
    BY <1>7, <2>1, TailRange
  <2>4. queue' \in Seq(cfg.blocks) /\ Range(queue') \subseteq Reach(cfg, e, {h})
    <3>1. CASE queue' = Tail(queue)
      BY <1>7, <2>1, <2>3, <3>1
    <3>2. CASE queue' # Tail(queue)
      <4> DEFINE S == {s \in cfg.blocks \ reached' : ~Dominates(s, h)}
                 new == Kept(cfg.succ[Head(queue)], S)
      <4>1. queue' = Tail(queue) \o new
        BY <1>8, <3>2 DEF SearchOn, h
      <4>2. cfg.succ[Head(queue)] \in Seq(cfg.blocks)
        BY <1>1, <2>3 DEF IsFlowGraph
      <4>3. h \notin S
        BY <1>3, <1>7, <2>1
      <4> HIDE DEF S
      <4>4. new \in Seq(cfg.blocks) /\ Range(new) = Succs(cfg, Head(queue)) \cap S
        BY <4>2, KeptRange DEF Succs
      <4> HIDE DEF new
      <4>5. queue' \in Seq(cfg.blocks) /\ Range(queue') = Range(Tail(queue)) \cup Range(new)
        <5> DEFINE rest == Tail(queue)
        <5>1. rest \in Seq(cfg.blocks) /\ queue' = rest \o new
          BY <2>3, <4>1
        <5> HIDE DEF rest
        <5>2. rest \o new \in Seq(cfg.blocks) /\ Range(rest \o new) = Range(rest) \cup Range(new)
          BY <4>4, <5>1, ConcatRange
        <5> QED BY <5>1, <5>2 DEF rest
      <4>6. Head(queue) \in Reach(cfg, e, {h}) /\ Range(Tail(queue)) \subseteq Reach(cfg, e, {h})
        BY <1>7, <2>1, <2>3
      <4>7. Succs(cfg, Head(queue)) \ {h} \subseteq Reach(cfg, e, {h})
        BY <1>1, <1>7, <2>1, <4>6, ReachIsLeast
      <4> QED BY <4>3, <4>4, <4>5, <4>6, <4>7
    <3> QED BY <3>1, <3>2
  <2>5. JoinSearch'
    BY <1>2, <1>7, <2>1, <2>2, <2>4 DEF JoinSearch, vars, e
  <2> QED BY <1>2, <2>1, <2>5 DEF JoinsRight, JoinIsCommon
<1>9. CASE JoinFound
  <2> DEFINE j == Head(queue)
             a == cfg.succ[h][1]
  <2>1. /\ UNCHANGED vars /\ stage = "join" /\ stage' = "ifs" /\ queue # <<>>
        /\ ifs' = ifs \cup {IfThenElse(h, j)}
        /\ j \in ForwardReachable(a, h)
    BY <1>9 DEF JoinFound, RecordIf, Meets
  <2> HIDE DEF h
  <2>2. j \in Reach(cfg, e, {h})
    <3>1. j \in Range(queue)
      BY <1>7, <2>1, TailRange
    <3> QED BY <1>7, <2>1, <3>1
  <2>3. j \in Reach(cfg, a, {h})
    BY <1>1, <1>7, <2>1, ForwardIsReach
  <2> HIDE DEF j
  <2>4. JoinIsCommon'
    BY <1>1, <1>2, <1>7, <2>1, <2>2, <2>3, RecordsCommon DEF JoinsRight
  <2> QED BY <2>1, <2>4 DEF JoinsRight, JoinSearch
<1>10. CASE NoneFound
  <2> DEFINE a == cfg.succ[h][1]
             j == IF e \in ForwardReachable(a, h) THEN e ELSE NoJoin
  <2>1. /\ UNCHANGED vars /\ stage = "join" /\ stage' = "ifs"
        /\ ifs' = ifs \cup {IfThenElse(h, j)}
    BY <1>10 DEF NoneFound, RecordIf
  <2> HIDE DEF h
  <2>2. j # NoJoin => j \in Reach(cfg, a, {h}) /\ j \in Reach(cfg, e, {h})
    <3>1. e \in Reach(cfg, e, {h})
      BY <1>1, <1>7, <2>1, ReachIsLeast
    <3>2. ForwardReachable(a, h) \subseteq Reach(cfg, a, {h})
      BY <1>1, <1>7, <2>1, ForwardIsReach
    <3> QED BY <3>1, <3>2
  <2> HIDE DEF j
  <2>3. JoinIsCommon'
    BY <1>1, <1>2, <1>7, <2>1, <2>2, RecordsCommon DEF JoinsRight
  <2> QED BY <2>1, <2>3 DEF JoinsRight, JoinSearch
<1>11. CASE UNCHANGED allVars
  <2>1. /\ UNCHANGED vars /\ ifs' = ifs /\ stage' = stage /\ scan' = scan /\ queue' = queue
    BY <1>11 DEF allVars, structVars
  <2>2. RpoAt(scan)' = RpoAt(scan)
    BY <2>1 DEF RpoAt, vars
  <2>3. JoinSearch'
    BY <1>2, <2>1, <2>2 DEF JoinsRight, JoinSearch
  <2> QED BY <1>2, <2>1, <2>3 DEF JoinsRight, JoinIsCommon
<1> QED BY <1>4, <1>5, <1>6, <1>8, <1>9, <1>10, <1>11 DEF SNext

\* find_join_point of detect_if_then_else: the join it records is reached
\* from both branches without going round through the header, whatever the
\* depth limit of forward_reachable.
THEOREM JoinsAreCommon == SSpec => []JoinIsCommon
<1>1. SInit => JoinsRight
  BY DEF SInit, JoinsRight, JoinSearch, JoinIsCommon
<1>2. Built /\ LoopsRight /\ JoinsRight /\ [SNext]_allVars => JoinsRight'
  BY StepJoins
<1>3. JoinsRight => JoinIsCommon
  BY DEF JoinsRight
<1> QED BY <1>1, <1>2, <1>3, LoopsAreRight, PTL DEF SSpec

-----------------------------------------------------------------------------
(* Strongly connected components *)

\* succ_index holds the successors of each block, at as many places.
LEMMA SortedSuccsShape ==
    ASSUME IsFlowGraph(cfg), NEW b \in cfg.blocks
    PROVE  /\ \A i \in DOMAIN cfg.succ[b] : SortedSuccs(b)[i] \in Succs(cfg, b)
           /\ \A x \in Succs(cfg, b) :
                 \E i \in DOMAIN cfg.succ[b] : SortedSuccs(b)[i] = x
<1> DEFINE s == cfg.succ[b]
           n == Len(s)
           D == DOMAIN s
           Places(q) == \A i, j \in D : i < j => s[q[i]] <= s[q[j]]
           place == CHOOSE q \in Bijection(D, D) : Places(q)
           Lt == {e \in D \X D : \/ s[e[1]] < s[e[2]]
                                 \/ s[e[1]] = s[e[2]] /\ e[1] < e[2]}
<1>1. s \in Seq(cfg.blocks) /\ cfg.blocks \subseteq Nat
  BY DEF IsFlowGraph
<1>2. n \in Nat /\ D = 1..n /\ \A i \in D : s[i] \in Nat
  BY <1>1, LenProperties, ElementOfSeq
<1>3. SortedSuccs(b) = [i \in D |-> s[place[i]]]
  BY DEF SortedSuccs
<1> HIDE DEF n, s, place
<1>4. IsFiniteSet(D) /\ Cardinality(D) = n
  <2>1. 1 \in Int /\ n \in Int
    BY <1>2
  <2>2. IsFiniteSet(1..n) /\ Cardinality(1..n) = IF 1 > n THEN 0 ELSE n - 1 + 1
    BY <2>1, FS_Interval
  <2> QED BY <1>2, <2>2
<1>5. \A i, j \in D : <<i, j>> \in Lt <=> s[i] < s[j] \/ (s[i] = s[j] /\ i < j)
  OBVIOUS
<1> HIDE DEF D, Lt
<1>6. /\ \A x \in D : <<x, x>> \notin Lt
      /\ \A x, y \in D : x # y => <<x, y>> \in Lt \/ <<y, x>> \in Lt
      /\ \A x, y, z \in D : <<x, y>> \in Lt /\ <<y, z>> \in Lt => <<x, z>> \in Lt
  <2>1. \A x \in D : x \in Nat /\ s[x] \in Nat
    BY <1>2
  <2> QED BY <1>5, <2>1
<1>7. PICK q \in Bijection(1..n, D) : \A i, j \in 1..n : i < j => <<q[i], q[j]>> \in Lt
  BY <1>4, <1>6, Enumerates
<1>8. q \in Bijection(D, D) /\ Places(q)
  <2>1. \A i \in D : q[i] \in D
    BY <1>2 DEF Bijection, Injection
  <2>2. \A i, j \in D : i < j => s[q[i]] < s[q[j]] \/ s[q[i]] = s[q[j]]
    BY <1>2, <1>5, <1>7, <2>1
  <2> QED BY <1>2, <2>1, <2>2
<1>9. place \in Bijection(D, D)
  <2> HIDE DEF Places
  <2> QED BY <1>8 DEF place
<1>10. /\ \A i \in D : place[i] \in D
       /\ \A j \in D : \E i \in D : place[i] = j
  BY <1>9 DEF Bijection, Injection, Surjection
<1>11. Succs(cfg, b) = {s[j] : j \in D}
  BY DEF Succs, Range, s, D
<1>12. \A i \in D : SortedSuccs(b)[i] \in Succs(cfg, b)
  BY <1>3, <1>10, <1>11
<1>13. ASSUME NEW x \in Succs(cfg, b) PROVE \E i \in D : SortedSuccs(b)[i] = x
  <2>1. PICK j \in D : x = s[j]
    BY <1>11
  <2>2. PICK i \in D : place[i] = j
    BY <1>10
  <2> QED BY <1>3, <2>1, <2>2
<1> QED BY <1>12, <1>13 DEF D, s

\* Blocks on the stack of the first pass.
Entered == {frames[i].block : i \in DOMAIN frames}

\* The first pass has entered the blocks on its stack and those it has left,
\* each once; every successor looked at has been entered; a block on the stack
\* leads to those above it.
FinishSets ==
    /\ frames \in Seq(Frame)
    /\ seen \subseteq cfg.blocks
    /\ finish_order \in Seq(cfg.blocks)
    /\ seen = Entered \cup Range(finish_order)
    /\ Entered \cap Range(finish_order) = {}
    /\ IsInjective(finish_order)
    /\ \A i, j \in DOMAIN frames : frames[i].block = frames[j].block => i = j
    /\ \A i, j \in DOMAIN frames :
          i <= j => frames[j].block \in Reach(cfg, frames[i].block, {})
    /\ \A i \in DOMAIN frames : \A k \in DOMAIN cfg.succ[frames[i].block] :
          k < frames[i].next => SortedSuccs(frames[i].block)[k] \in seen
    /\ \A b \in Range(finish_order) : Succs(cfg, b) \subseteq seen

\* Where an edge leaves the blocks finished up to some position, its target
\* leads to the block at that position.
FinishedInOrder ==
    \A i \in DOMAIN finish_order : \A j \in 1..i : \A s \in Succs(cfg, finish_order[j]) :
        (\E k \in 1..i : finish_order[k] = s) \/ finish_order[i] \in Reach(cfg, s, {})

FirstPass ==
    /\ FinishSets
    /\ FinishedInOrder
    /\ stage # "finish" => Range(finish_order) = cfg.blocks

\* What FinishEdge does to the stack.
LEMMA EdgeShape ==
    ASSUME IsFlowGraph(cfg), FinishSets, FinishEdge
    PROVE  LET n == Len(frames)
               b == TopFrame.block
               s == SortedSuccs(b)[TopFrame.next]
           IN  /\ n \in Nat \ {0} /\ DOMAIN frames = 1..n
               /\ TopFrame = frames[n] /\ b \in cfg.blocks
               /\ TopFrame.next \in Nat /\ s \in cfg.blocks /\ s \in Succs(cfg, b)
               /\ seen' = seen \cup {s}
               /\ frames' \in Seq(Frame)
               /\ s \in seen => DOMAIN frames' = 1..n
               /\ s \notin seen => /\ DOMAIN frames' = 1..(n + 1)
                                   /\ frames'[n + 1].block = s
                                   /\ frames'[n + 1].next = 1
               /\ \A i \in 1..n : frames'[i].block = frames[i].block
               /\ \A i \in 1..n : frames'[i].next = IF i = n THEN TopFrame.next + 1
                                                    ELSE frames[i].next
               /\ UNCHANGED <<vars, finish_order, stage>>
<1> DEFINE n == Len(frames)
           b == TopFrame.block
           s == SortedSuccs(b)[TopFrame.next]
           t == [frames EXCEPT ![Len(frames)].next = @ + 1]
           u == Append(t, [block |-> s, next |-> 1])
<1>1. /\ n \in Nat \ {0}
      /\ frames[n].block \in cfg.blocks /\ frames[n].next \in Nat \ {0}
      /\ t \in Seq(Frame)
      /\ Len(t) = n /\ DOMAIN t = 1..n /\ DOMAIN frames = 1..n
      /\ \A i \in 1..n : t[i].block = frames[i].block
      /\ \A i \in 1..n : t[i].next = IF i = n THEN frames[n].next + 1 ELSE frames[i].next
  <2>1. frames \in Seq([block : cfg.blocks, next : Nat \ {0}]) /\ frames # <<>>
    BY DEF FinishEdge, FinishSets, Frame
  <2> QED BY <2>1, AdvanceShape DEF Frame
<1>2. TopFrame = frames[n]
  BY DEF TopFrame
<1>3. s \in cfg.blocks /\ s \in Succs(cfg, b)
  <2>1. b \in cfg.blocks /\ cfg.succ[b] \in Seq(cfg.blocks)
    BY <1>1, <1>2 DEF IsFlowGraph
  <2>2. TopFrame.next \in DOMAIN cfg.succ[b]
    BY <1>1, <1>2, <2>1, LenProperties DEF FinishEdge
  <2>3. s \in Succs(cfg, b)
    <3> HIDE DEF b
    <3> QED BY <2>1, <2>2, SortedSuccsShape
  <2> HIDE DEF b, s
  <2> QED BY <2>1, <2>3, SuccsAreBlocks
<1>4. /\ seen' = seen \cup {s}
      /\ frames' = IF s \in seen THEN t ELSE u
      /\ UNCHANGED <<vars, finish_order, stage>>
  BY DEF FinishEdge
<1>5. /\ u \in Seq(Frame)
      /\ DOMAIN u = 1..(n + 1)
      /\ \A i \in 1..n : u[i] = t[i]
      /\ u[n + 1].block = s /\ u[n + 1].next = 1
  <2> HIDE DEF t, s, n
  <2> QED BY <1>1, <1>3, PushFrame DEF Frame
<1> HIDE DEF n, s, t, u
<1>6. ASSUME s \in seen
      PROVE  /\ frames' \in Seq(Frame) /\ DOMAIN frames' = 1..n
             /\ \A i \in 1..n : frames'[i].block = frames[i].block
             /\ \A i \in 1..n : frames'[i].next = IF i = n THEN TopFrame.next + 1
                                                 ELSE frames[i].next
  BY <1>1, <1>2, <1>4, <1>6
<1>7. ASSUME s \notin seen
      PROVE  /\ frames' \in Seq(Frame) /\ DOMAIN frames' = 1..(n + 1)
             /\ frames'[n + 1].block = s /\ frames'[n + 1].next = 1
             /\ \A i \in 1..n : frames'[i].block = frames[i].block
             /\ \A i \in 1..n : frames'[i].next = IF i = n THEN TopFrame.next + 1
                                                 ELSE frames[i].next
  BY <1>1, <1>2, <1>4, <1>5, <1>7
<1> QED BY <1>1, <1>2, <1>3, <1>4, <1>6, <1>7 DEF n, s

\* Going over an edge keeps the first pass in order.
LEMMA EdgeKeepsPass ==
    ASSUME IsFlowGraph(cfg), FirstPass, FinishEdge
    PROVE  FirstPass'
<1> DEFINE n == Len(frames)
           b == TopFrame.block
           s == SortedSuccs(b)[TopFrame.next]
<1>1. FinishSets
  BY DEF FirstPass
<1>2. /\ n \in Nat \ {0} /\ DOMAIN frames = 1..n
      /\ TopFrame = frames[n] /\ b \in cfg.blocks
      /\ TopFrame.next \in Nat /\ s \in cfg.blocks /\ s \in Succs(cfg, b)
      /\ seen' = seen \cup {s}
      /\ frames' \in Seq(Frame)
      /\ s \in seen => DOMAIN frames' = 1..n
      /\ s \notin seen => /\ DOMAIN frames' = 1..(n + 1)
                          /\ frames'[n + 1].block = s
                          /\ frames'[n + 1].next = 1
      /\ \A i \in 1..n : frames'[i].block = frames[i].block
      /\ \A i \in 1..n : frames'[i].next = IF i = n THEN TopFrame.next + 1
                                           ELSE frames[i].next
      /\ UNCHANGED <<vars, finish_order, stage>>
  BY <1>1, EdgeShape
<1>3. s = SortedSuccs(frames[n].block)[TopFrame.next]
  BY <1>2
<1> HIDE DEF n, s
<1>4. cfg' = cfg /\ Frame' = Frame /\ finish_order' = finish_order /\ stage' = stage
  BY <1>2 DEF Frame, vars
<1>5. Entered' = IF s \in seen THEN Entered ELSE Entered \cup {s}
  <2>1. CASE s \in seen
    BY <1>2, <2>1 DEF Entered
  <2>2. CASE s \notin seen
    <3>1. Entered' = {frames'[i].block : i \in 1..(n + 1)}
      BY <1>2, <2>2 DEF Entered
    <3>2. 1..(n + 1) = (1..n) \cup {n + 1}
      BY <1>2
    <3> QED BY <1>2, <2>2, <3>1, <3>2 DEF Entered
  <2> QED BY <2>1, <2>2
<1>6. \A i \in 1..n : frames[i].block \in seen /\ frames[i].block \in cfg.blocks
  BY <1>1, <1>2 DEF FinishSets, Entered
<1>7. \A i \in DOMAIN frames' : i \in 1..n \/ (s \notin seen /\ i = n + 1)
  BY <1>2
<1>8. ASSUME NEW i \in DOMAIN frames', NEW j \in DOMAIN frames',
             frames'[i].block = frames'[j].block
      PROVE  i = j
  BY <1>1, <1>2, <1>6, <1>7, <1>8 DEF FinishSets
<1>9. ASSUME NEW i \in DOMAIN frames', NEW j \in DOMAIN frames', i <= j
      PROVE  frames'[j].block \in Reach(cfg, frames'[i].block, {})
  <2>1. CASE i \in 1..n /\ j \in 1..n
    BY <1>1, <1>2, <1>9, <2>1 DEF FinishSets
  <2>2. CASE i \in 1..n /\ s \notin seen /\ j = n + 1
    <3> DEFINE x == frames[i].block
    <3>1. b \in Reach(cfg, x, {}) /\ x \in cfg.blocks
      <4>1. n \in 1..n /\ i <= n
        BY <1>2, <2>2
      <4> QED BY <1>1, <1>2, <1>6, <2>2, <4>1 DEF FinishSets
    <3> HIDE DEF x
    <3>2. Succs(cfg, b) \ {} \subseteq Reach(cfg, x, {})
      BY <3>1, ReachIsLeast
    <3> QED BY <1>2, <2>2, <3>2 DEF x
  <2>3. CASE s \notin seen /\ i = n + 1 /\ j = n + 1
    <3>1. s \in Reach(cfg, s, {})
      BY <1>2, ReachIsLeast
    <3> QED BY <1>2, <2>3, <3>1
  <2>4. ~(i = n + 1 /\ j \in 1..n)
    BY <1>2, <1>9
  <2> QED BY <1>7, <2>1, <2>2, <2>3, <2>4
<1>10. ASSUME NEW i \in DOMAIN frames', NEW k \in DOMAIN cfg.succ[frames'[i].block],
              k < frames'[i].next
       PROVE  SortedSuccs(frames'[i].block)[k] \in seen'
  <2>1. k \in Nat \ {0}
    <3>1. frames'[i].block \in cfg.blocks
      BY <1>2, <1>6, <1>7
    <3>2. cfg.succ[frames'[i].block] \in Seq(cfg.blocks)
      BY <3>1 DEF IsFlowGraph
    <3> QED BY <3>2, LenProperties
  <2>2. CASE i \in 1..n /\ i # n
    BY <1>1, <1>2, <1>10, <2>2 DEF FinishSets
  <2>3. CASE i = n /\ k < TopFrame.next
    BY <1>1, <1>2, <2>3 DEF FinishSets
  <2>4. CASE i = n /\ ~(k < TopFrame.next)
    <3>1. k < TopFrame.next + 1
      BY <1>2, <1>10, <2>4
    <3>2. k = TopFrame.next
      BY <1>2, <2>1, <2>4, <3>1
    <3> QED BY <1>2, <1>3, <2>4, <3>2
  <2>5. CASE s \notin seen /\ i = n + 1
    <3>1. k < 1
      BY <1>2, <1>10, <2>5
    <3> QED BY <2>1, <3>1
  <2> QED BY <1>7, <2>2, <2>3, <2>4, <2>5
<1>11. \A x : SortedSuccs(x)' = SortedSuccs(x)
  BY <1>4 DEF SortedSuccs
<1>12. FinishSets'
  <2>1. /\ seen' = Entered' \cup Range(finish_order)
        /\ Entered' \cap Range(finish_order) = {}
        /\ seen' \subseteq cfg.blocks
    <3>1. seen = Entered \cup Range(finish_order) /\ Entered \cap Range(finish_order) = {}
      BY <1>1 DEF FinishSets
    <3> QED BY <1>1, <1>2, <1>5, <3>1 DEF FinishSets
  <2>2. \A x \in Range(finish_order) : Succs(cfg, x) \subseteq seen'
    BY <1>1, <1>2 DEF FinishSets
  <2> QED BY <1>1, <1>2, <1>4, <1>8, <1>9, <1>10, <1>11, <2>1, <2>2 DEF FinishSets
<1>13. FinishedInOrder' /\ (stage' # "finish" => Range(finish_order') = cfg'.blocks)
  BY <1>4 DEF FirstPass, FinishedInOrder
<1> QED BY <1>12, <1>13 DEF FirstPass

\* A block without an edge left is finished.
LEMMA LeaveKeepsPass ==
    ASSUME IsFlowGraph(cfg), FirstPass, FinishLeave
    PROVE  FirstPass'
<1> DEFINE n == Len(frames)
           m == Len(finish_order)
           b == TopFrame.block
<1>1. FinishSets /\ FinishedInOrder
  BY DEF FirstPass
<1>2. /\ n \in Nat \ {0} /\ DOMAIN frames = 1..n
      /\ frames[n] \in Frame
      /\ frames' \in Seq(Frame) /\ DOMAIN frames' = 1..(n - 1)
      /\ \A i \in 1..(n - 1) : frames'[i] = frames[i]
  <2>1. frames \in Seq(Frame) /\ frames # <<>> /\ frames' = SubSeq(frames, 1, Len(frames) - 1)
    BY <1>1 DEF FinishLeave, FinishSets
  <2>2. DOMAIN frames = 1..Len(frames)
    BY <2>1, LenProperties
  <2> HIDE DEF n
  <2> QED BY <2>1, <2>2, PopShape DEF n
<1>3. /\ b = frames[n].block /\ TopFrame = frames[n] /\ b \in cfg.blocks
      /\ TopFrame.next \in Nat /\ TopFrame.next > Len(cfg.succ[b])
  BY <1>2 DEF TopFrame, Frame, FinishLeave
<1>4. /\ m \in Nat
      /\ DOMAIN finish_order = 1..m
      /\ finish_order' \in Seq(cfg.blocks)
      /\ DOMAIN finish_order' = 1..(m + 1) /\ Len(finish_order') = m + 1
      /\ \A i \in 1..m : finish_order'[i] = finish_order[i]
      /\ finish_order'[m + 1] = b
      /\ Range(finish_order') = Range(finish_order) \cup {b}
      /\ b \notin Range(finish_order) => IsInjective(finish_order')
  <2>1. finish_order \in Seq(cfg.blocks) /\ finish_order' = Append(finish_order, b)
        /\ IsInjective(finish_order)
    BY <1>1 DEF FinishLeave, FinishSets
  <2> DEFINE B == cfg.blocks
             t == Append(finish_order, b)
  <2>2. finish_order \in Seq(B) /\ b \in B
    BY <1>3, <2>1
  <2> HIDE DEF b, B
  <2>3. /\ t \in Seq(B)
        /\ Len(t) = m + 1
        /\ \A i \in 1..m : t[i] = finish_order[i]
        /\ t[m + 1] = b
    BY <2>2, AppendProperties
  <2>4. Range(t) = Range(finish_order) \cup {b}
        /\ (b \notin Range(finish_order) => IsInjective(t))
    BY <2>1, <2>2, PushRange
  <2> HIDE DEF t
  <2>5. finish_order' = t
    BY <2>1 DEF t
  <2>6. DOMAIN finish_order = 1..m /\ m \in Nat /\ DOMAIN t = 1..(m + 1)
    BY <2>2, <2>3, LenProperties
  <2> QED BY <2>3, <2>4, <2>5, <2>6 DEF B
<1>5. /\ cfg' = cfg /\ seen' = seen
      /\ stage' # "finish" => Len(finish_order') = Cardinality(cfg.blocks)
  BY DEF FinishLeave, vars
<1>6. Frame' = Frame /\ \A x : SortedSuccs(x)' = SortedSuccs(x)
  BY <1>5 DEF Frame, SortedSuccs
<1> HIDE DEF n, m, b
<1>7. b \in Entered /\ Entered' = Entered \ {b}
  <2>1. b \in Entered
    BY <1>2, <1>3 DEF Entered
  <2>2. Entered' = {frames[i].block : i \in 1..(n - 1)}
    BY <1>2 DEF Entered
  <2>3. 1..n = (1..(n - 1)) \cup {n} /\ n \notin 1..(n - 1) /\ 1..(n - 1) \subseteq 1..n
    BY <1>2
  <2>4. \A i \in 1..(n - 1) : frames[i].block # b
    BY <1>1, <1>2, <1>3, <2>3 DEF FinishSets
  <2> QED BY <1>2, <1>3, <2>1, <2>2, <2>3, <2>4 DEF Entered
<1>8. Succs(cfg, b) \subseteq seen
  <2>1. cfg.succ[b] \in Seq(cfg.blocks)
    BY <1>3 DEF IsFlowGraph
  <2>2. \A k \in DOMAIN cfg.succ[b] : k < TopFrame.next
    BY <1>3, <2>1, LenProperties
  <2>3. \A k \in DOMAIN cfg.succ[b] : SortedSuccs(b)[k] \in seen
    BY <1>1, <1>2, <1>3, <2>2 DEF FinishSets
  <2> QED BY <1>3, <2>3, SortedSuccsShape
<1>9. b \notin Range(finish_order)
  BY <1>1, <1>7 DEF FinishSets
<1>10. FinishSets'
  <2>1. 1..(n - 1) \subseteq 1..n
    BY <1>2
  <2>2. /\ seen = Entered' \cup Range(finish_order')
        /\ Entered' \cap Range(finish_order') = {}
        /\ IsInjective(finish_order')
    BY <1>1, <1>4, <1>7, <1>9 DEF FinishSets
  <2>3. /\ \A i, j \in DOMAIN frames' : frames'[i].block = frames'[j].block => i = j
        /\ \A i, j \in DOMAIN frames' :
              i <= j => frames'[j].block \in Reach(cfg, frames'[i].block, {})
        /\ \A i \in DOMAIN frames' : \A k \in DOMAIN cfg.succ[frames'[i].block] :
              k < frames'[i].next => SortedSuccs(frames'[i].block)[k] \in seen
    BY <1>1, <1>2, <2>1 DEF FinishSets
  <2>4. \A x \in Range(finish_order') : Succs(cfg, x) \subseteq seen
    BY <1>1, <1>4, <1>8 DEF FinishSets
  <2>5. seen \subseteq cfg.blocks
    BY <1>1 DEF FinishSets
  <2> QED BY <1>2, <1>4, <1>5, <1>6, <2>2, <2>3, <2>4, <2>5 DEF FinishSets
<1>11. FinishedInOrder'
  <2> SUFFICES ASSUME NEW i \in 1..(m + 1), NEW j \in 1..i,
                      NEW s \in Succs(cfg, finish_order'[j]),
                      \A k \in 1..i : finish_order'[k] # s
               PROVE  finish_order'[i] \in Reach(cfg, s, {})
    BY <1>4, <1>5 DEF FinishedInOrder
  <2>1. CASE i \in 1..m
    <3>1. \A k \in 1..i : k \in 1..m
      BY <1>4, <2>1
    <3>2. \A k \in 1..i : finish_order'[k] = finish_order[k]
      BY <1>4, <3>1
    <3> QED BY <1>1, <1>4, <2>1, <3>2 DEF FinishedInOrder
  <2>2. CASE i = m + 1
    <3>1. \A k \in 1..(m + 1) : finish_order'[k] \in Range(finish_order')
      BY <1>4 DEF Range
    <3>2. Succs(cfg, finish_order'[j]) \subseteq seen
      BY <1>1, <1>4, <1>8, <2>2, <3>1 DEF FinishSets
    <3>3. s \notin Range(finish_order')
      BY <1>4, <2>2 DEF Range
    <3>4. s \in Entered
      BY <1>1, <1>4, <3>2, <3>3 DEF FinishSets
    <3>5. PICK k \in 1..n : frames[k].block = s
      BY <1>2, <3>4 DEF Entered
    <3>6. k <= n /\ n \in 1..n
      BY <1>2
    <3>7. b \in Reach(cfg, s, {})
      BY <1>1, <1>2, <1>3, <3>5, <3>6 DEF FinishSets
    <3> QED BY <1>4, <2>2, <3>7
  <2> QED BY <1>4, <2>1, <2>2
<1>12. ASSUME Len(finish_order') = Cardinality(cfg.blocks) PROVE Range(finish_order') = cfg.blocks
  <2> DEFINE t == finish_order'
             N == m + 1
  <2>1. N \in Nat /\ t \in [1..N -> cfg.blocks] /\ IsInjective(t)
    BY <1>4, <1>9
  <2>2. t \in Injection(1..N, cfg.blocks)
    BY <2>1 DEF Injection
  <2>3. IsFiniteSet(1..N) /\ Cardinality(1..N) = Cardinality(cfg.blocks)
    <3>1. 1 \in Int /\ N \in Int
      BY <2>1
    <3>2. IsFiniteSet(1..N) /\ Cardinality(1..N) = IF 1 > N THEN 0 ELSE N - 1 + 1
      BY <3>1, FS_Interval
    <3> QED BY <1>4, <1>12, <3>2
  <2> HIDE DEF t, N
  <2>4. t \in Surjection(1..N, cfg.blocks)
    BY <2>2, <2>3, FS_Injection DEF IsFlowGraph
  <2>5. Range(t) = cfg.blocks
    BY <2>1, <2>4 DEF Surjection, Range
  <2> QED BY <2>5 DEF t
<1> QED BY <1>5, <1>10, <1>11, <1>12 DEF FirstPass

\* Every step keeps the first pass in order.
LEMMA StepPass == Built /\ LoopsRight /\ FirstPass /\ [SNext]_allVars => FirstPass'
<1> SUFFICES ASSUME Built, LoopsRight, FirstPass, [SNext]_allVars PROVE FirstPass'
  OBVIOUS
<1>1. IsFlowGraph(cfg)
  BY DEF Built, Dfs, DfsType
<1>2. ASSUME UNCHANGED <<cfg, frames, seen, finish_order>>,
             stage' = stage \/ stage # "finish"
      PROVE  FirstPass'
  <2>1. Frame' = Frame /\ Entered' = Entered /\ \A x : SortedSuccs(x)' = SortedSuccs(x)
    BY <1>2 DEF Frame, Entered, SortedSuccs
  <2> QED BY <1>2, <2>1 DEF FirstPass, FinishSets, FinishedInOrder
<1>3. CASE FinishRoot
  <2>1. PICK r \in cfg.blocks \ seen :
            seen' = seen \cup {r} /\ frames' = <<[block |-> r, next |-> 1]>>
    BY <1>3 DEF FinishRoot
  <2>2. cfg' = cfg /\ frames = <<>> /\ finish_order' = finish_order /\ stage' = stage
    BY <1>3 DEF FinishRoot, vars
  <2>3. Frame' = Frame /\ \A x : SortedSuccs(x)' = SortedSuccs(x)
    BY <2>2 DEF Frame, SortedSuccs
  <2>4. /\ frames' \in Seq(Frame) /\ DOMAIN frames' = {1}
        /\ frames'[1].block = r /\ frames'[1].next = 1
    BY <2>1 DEF Frame
  <2>5. Entered = {} /\ Entered' = {r}
    BY <2>2, <2>4 DEF Entered
  <2>6. r \in Reach(cfg, r, {})
    BY <1>1, <2>1, ReachIsLeast
  <2>7. ASSUME NEW k \in DOMAIN cfg.succ[r] PROVE ~(k < 1)
    <3>1. cfg.succ[r] \in Seq(cfg.blocks)
      BY <1>1, <2>1 DEF IsFlowGraph
    <3> QED BY <2>7, <3>1, LenProperties
  <2>8. FinishSets'
    <3>1. FinishSets
      BY DEF FirstPass
    <3> QED BY <2>1, <2>2, <2>3, <2>4, <2>5, <2>6, <2>7, <3>1 DEF FinishSets
  <2> QED BY <2>2, <2>8 DEF FirstPass, FinishedInOrder
<1>4. CASE FinishEdge
  BY <1>1, <1>4, EdgeKeepsPass
<1>5. CASE FinishLeave
  BY <1>1, <1>5, LeaveKeepsPass
<1>6. CASE Dominators
  <2>1. UNCHANGED structVars
    BY <1>6 DEF Dominators
  <2>2. cfg' = cfg
    BY <1>6 DEF Dominators, Next, DfsCall, DfsReturn, Skip, FirstPred, NextPred,
                Climb, Record, Resweep, Return
  <2> QED BY <1>2, <2>1, <2>2 DEF structVars, sccVars
<1>7. CASE TakeComponent \/ ScanBlock \/ KeepLoops
  BY <1>2, <1>7 DEF TakeComponent, ScanBlock, KeepLoops, vars
<1>8. CASE NotAnIf \/ BeginIf \/ SearchOn \/ End
  BY <1>2, <1>8 DEF NotAnIf, BeginIf, SearchOn, End, InIfs, sccVars, vars
<1>9. CASE JoinFound \/ NoneFound
  BY <1>2, <1>9 DEF JoinFound, NoneFound, RecordIf, sccVars, vars
<1>10. CASE UNCHANGED allVars
  BY <1>2, <1>10 DEF allVars, structVars, sccVars, vars
<1> QED BY <1>3, <1>4, <1>5, <1>6, <1>7, <1>8, <1>9, <1>10 DEF SNext

\* The components found so far are right, and whatever leads to a block of one
\* is in one.
Comps ==
    /\ stage \in {"finish", "components"} => scan = 1 /\ found = <<>>
    /\ stage = "finish" => sccs = {}
    /\ \A C \in sccs : C \subseteq cfg.blocks
    /\ ComponentsAreStrong
    /\ \A x \in UNION sccs : Preds(cfg, x) \subseteq UNION sccs
    /\ stage \notin {"finish", "components"} => UNION sccs = cfg.blocks

\* The unassigned blocks that lead to the one finished last are those it leads
\* to and back from.
LEMMA TakenIsStrong ==
    ASSUME IsFlowGraph(cfg), FirstPass, stage # "finish",
           NEW A, \A x \in A : Preds(cfg, x) \subseteq A,
           NEW last \in DOMAIN finish_order, finish_order[last] \notin A,
           \A j \in DOMAIN finish_order : finish_order[j] \notin A => j <= last
    PROVE  LET C == Backwards(finish_order[last], A)
           IN  /\ C \subseteq cfg.blocks
               /\ finish_order[last] \in C
               /\ \A x \in C : Preds(cfg, x) \subseteq A \cup C
               /\ \A x \in C : \A y \in cfg.blocks :
                     y \in C <=> y \in Reach(cfg, x, {}) /\ x \in Reach(cfg, y, {})
<1> DEFINE start == finish_order[last]
           C == Backwards(start, A)
           N == Len(finish_order)
           R == Reach(cfg, start, {})
<1>1. /\ finish_order \in Seq(cfg.blocks) /\ DOMAIN finish_order = 1..N /\ N \in Nat
      /\ Range(finish_order) = cfg.blocks
      /\ \A i, j \in DOMAIN finish_order : finish_order[i] = finish_order[j] => i = j
  BY LenProperties DEF FirstPass, FinishSets, IsInjective
<1>2. start \in cfg.blocks /\ start \notin A
  BY <1>1 DEF Range
<1> HIDE DEF start, N
<1>3. /\ start \in C
      /\ C \subseteq cfg.blocks
      /\ \A x \in C : Preds(cfg, x) \ A \subseteq C
      /\ \A X : (start \in X /\ \A x \in X \cap cfg.blocks : Preds(cfg, x) \ A \subseteq X)
                  => C \subseteq X
  BY <1>2, BackwardsIsLeast
<1> HIDE DEF C
<1>4. C \cap A = {}
  <2> DEFINE X == cfg.blocks \ A
  <2>1. start \in X /\ \A x \in X \cap cfg.blocks : Preds(cfg, x) \ A \subseteq X
    BY <1>2 DEF Preds
  <2> HIDE DEF X
  <2>2. C \subseteq X
    BY <1>3, <2>1
  <2> QED BY <2>2 DEF X
<1>5. \A x \in C : start \in Reach(cfg, x, {})
  <2> DEFINE X == {x \in cfg.blocks : start \in Reach(cfg, x, {})}
  <2>1. start \in X
    BY <1>2, ReachIsLeast
  <2>2. ASSUME NEW x \in X, NEW p \in Preds(cfg, x) PROVE p \in X
    <3>1. p \in cfg.blocks /\ x \in Succs(cfg, p)
      BY DEF Preds
    <3>2. x \in Reach(cfg, p, {})
      BY <3>1, ReachIsLeast
    <3>3. Reach(cfg, x, {}) \subseteq Reach(cfg, p, {})
      BY <3>1, <3>2, ReachesOn
    <3> QED BY <3>1, <3>3
  <2> HIDE DEF X
  <2>3. C \subseteq X
    BY <1>3, <2>1, <2>2
  <2> QED BY <2>3 DEF X
<1>6. start \in R
  BY <1>2, ReachIsLeast
<1>7. \A x \in R : Reach(cfg, x, {}) \subseteq R
  BY <1>2, ReachesOn
<1>8. C \subseteq R
  <2> DEFINE Bad == {i \in 1..N : finish_order[i] \in C \ R}
  <2> SUFFICES ASSUME NEW c \in C, c \notin R PROVE FALSE
    OBVIOUS
  <2>1. PICK i \in Bad : \A k \in Bad : k <= i
    <3>1. PICK i \in 1..N : finish_order[i] = c
      BY <1>1, <1>3 DEF Range
    <3>2. Bad # {} /\ Bad \subseteq 1..N
      BY <3>1
    <3> HIDE DEF Bad
    <3> QED BY <1>1, <3>2, GreatestNatural
  <2>2. i \in 1..N /\ finish_order[i] \in C /\ finish_order[i] \notin R
        /\ \A k \in Bad : k <= i
    BY <2>1
  <2> DEFINE Z == {w \in C : \A k \in 1..i : finish_order[k] # w}
  <2>3. start \in Z
    <3>1. i # last
      BY <1>6, <2>2 DEF start
    <3>2. i <= last
      BY <1>1, <1>4, <2>2
    <3>3. last \in 1..N
      BY <1>1
    <3>4. \A k \in 1..i : k # last /\ k \in 1..N
      BY <1>1, <2>2, <3>1, <3>2, <3>3
    <3> QED BY <1>1, <1>3, <3>3, <3>4 DEF start
  <2>4. ASSUME NEW w \in Z, NEW p \in Preds(cfg, w) \ A PROVE p \in Z
    <3>1. p \in C /\ w \in Succs(cfg, p)
      BY <1>3, <2>4 DEF Preds
    <3> SUFFICES ASSUME NEW k \in 1..i, finish_order[k] = p PROVE FALSE
      BY <3>1
    <3>2. finish_order[i] \in Reach(cfg, w, {})
      <4>1. FinishedInOrder
        BY DEF FirstPass
      <4> QED BY <1>1, <2>2, <3>1, <4>1 DEF FinishedInOrder
    <3>3. w \notin R
      BY <1>7, <2>2, <3>2
    <3>4. w \in C /\ w \in cfg.blocks
      BY <1>3
    <3>5. PICK j \in 1..N : finish_order[j] = w
      BY <1>1, <3>4 DEF Range
    <3>6. j \in Bad
      BY <3>3, <3>4, <3>5
    <3>7. j \in 1..i
      BY <1>1, <2>2, <3>6
    <3> QED BY <3>5, <3>7
  <2>5. finish_order[i] \notin Z
    BY <1>1, <2>2
  <2> HIDE DEF Z
  <2>6. C \subseteq Z
    BY <1>3, <2>3, <2>4
  <2> QED BY <2>2, <2>5, <2>6
<1>9. \A x \in C : Preds(cfg, x) \subseteq A \cup C
  BY <1>3
<1>10. ASSUME NEW x \in C, NEW y \in C PROVE y \in Reach(cfg, x, {})
  <2>1. x \in cfg.blocks /\ start \in Reach(cfg, x, {})
    BY <1>3, <1>5
  <2>2. R \subseteq Reach(cfg, x, {})
    BY <2>1, ReachesOn
  <2> QED BY <1>8, <2>2
<1>11. ASSUME NEW x \in C, NEW y \in cfg.blocks, y \in Reach(cfg, x, {}), x \in Reach(cfg, y, {})
       PROVE  y \in C
  <2> DEFINE W == cfg.blocks \ A
             X == {z \in W : z \notin C}
  <2>1. ASSUME NEW z \in W, NEW s \in Succs(cfg, z) PROVE s \in W /\ z \in Preds(cfg, s)
    <3>1. s \in cfg.blocks
      BY SuccsAreBlocks
    <3>2. z \in Preds(cfg, s)
      BY DEF Preds
    <3> QED BY <3>1, <3>2
  <2>2. x \in W /\ x \in cfg.blocks
    BY <1>3, <1>4
  <2>3. y \in W
    <3>1. Reach(cfg, x, {}) \subseteq W
      <4> HIDE DEF W
      <4> QED BY <2>1, <2>2, ReachIsLeast
    <3> QED BY <1>11, <3>1
  <2> SUFFICES ASSUME y \notin C PROVE FALSE
    OBVIOUS
  <2>4. y \in X
    BY <2>3
  <2>5. ASSUME NEW z \in X, NEW s \in Succs(cfg, z) PROVE s \in X
    <3>1. s \in W /\ z \in Preds(cfg, s) \ A
      BY <2>1
    <3> QED BY <1>3, <3>1
  <2>6. x \notin X
    OBVIOUS
  <2> HIDE DEF X
  <2>7. Reach(cfg, y, {}) \subseteq X
    BY <2>4, <2>5, ReachIsLeast
  <2> QED BY <1>11, <2>6, <2>7
<1>12. \A x \in C : x \in cfg.blocks
  BY <1>3
<1> QED BY <1>3, <1>9, <1>10, <1>11, <1>12 DEF C, start

\* Taking a component.
LEMMA TakeKeepsComps ==
    ASSUME IsFlowGraph(cfg), FirstPass, Comps, TakeComponent
    PROVE  Comps'
<1> DEFINE A == UNION sccs
           free == {i \in DOMAIN finish_order : finish_order[i] \notin A}
           last == CHOOSE i \in free : \A j \in free : j <= i
           C == Backwards(finish_order[last], A)
           N == Len(finish_order)
<1>1. /\ free # {} /\ sccs' = sccs \cup {C}
      /\ stage = "components"
      /\ stage' = IF A \cup C = cfg.blocks THEN "loops" ELSE "components"
      /\ cfg' = cfg /\ scan' = scan /\ found' = found
  BY DEF TakeComponent, vars
<1>2. DOMAIN finish_order = 1..N /\ N \in Nat
  BY LenProperties DEF FirstPass, FinishSets
<1>3. last \in free /\ \A j \in free : j <= last
  <2>1. \E i \in free : \A j \in free : j <= i
    <3>1. free \subseteq 1..N /\ free # {}
      BY <1>1, <1>2
    <3> HIDE DEF free
    <3> QED BY <1>2, <3>1, GreatestNatural
  <2> HIDE DEF free
  <2> QED BY <2>1
<1> HIDE DEF last, C
<1>4. \A x \in A : Preds(cfg, x) \subseteq A
  BY DEF Comps
<1>5. /\ C \subseteq cfg.blocks
      /\ \A x \in C : Preds(cfg, x) \subseteq A \cup C
      /\ \A x \in C : \A y \in cfg.blocks :
            y \in C <=> y \in Reach(cfg, x, {}) /\ x \in Reach(cfg, y, {})
  <2> HIDE DEF A
  <2>1. last \in DOMAIN finish_order /\ finish_order[last] \notin A
        /\ \A j \in DOMAIN finish_order : finish_order[j] \notin A => j <= last
    BY <1>3
  <2> QED BY <1>1, <1>4, <2>1, TakenIsStrong DEF C
<1>6. UNION sccs' = A \cup C
  BY <1>1
<1>7. ComponentsAreStrong'
  BY <1>1, <1>5 DEF Comps, ComponentsAreStrong
<1>8. \A x \in A \cup C : Preds(cfg, x) \subseteq A \cup C
  BY <1>4, <1>5
<1> HIDE DEF A
<1>9. \A D \in sccs' : D \subseteq cfg.blocks
  BY <1>1, <1>5 DEF Comps
<1> QED BY <1>1, <1>6, <1>7, <1>8, <1>9 DEF Comps

\* Every step keeps the components right.
LEMMA StepComps ==
    Built /\ LoopsRight /\ FirstPass /\ Comps /\ [SNext]_allVars => Comps'
<1> SUFFICES ASSUME Built, LoopsRight, FirstPass, Comps, [SNext]_allVars PROVE Comps'
  OBVIOUS
<1>1. IsFlowGraph(cfg)
  BY DEF Built, Dfs, DfsType
<1>2. ASSUME UNCHANGED <<cfg, sccs>>,
             \/ UNCHANGED <<stage, scan, found>>
             \/ UNCHANGED <<scan, found>> /\ stage = "finish" /\ stage' = "components"
             \/ stage \notin {"finish", "components"} /\ stage' \notin {"finish", "components"}
      PROVE  Comps'
  BY <1>2 DEF Comps, ComponentsAreStrong
<1>3. CASE TakeComponent
  BY <1>1, <1>3, TakeKeepsComps
<1>4. CASE FinishRoot \/ FinishEdge
  BY <1>2, <1>4 DEF FinishRoot, FinishEdge, vars
<1>5. CASE FinishLeave
  BY <1>2, <1>5 DEF FinishLeave, vars
<1>6. CASE Dominators
  <2>1. UNCHANGED structVars
    BY <1>6 DEF Dominators
  <2>2. cfg' = cfg
    BY <1>6 DEF Dominators, Next, DfsCall, DfsReturn, Skip, FirstPred, NextPred,
                Climb, Record, Resweep, Return
  <2> QED BY <1>2, <2>1, <2>2 DEF structVars, sccVars
<1>7. CASE ScanBlock \/ KeepLoops \/ End
  BY <1>2, <1>7 DEF ScanBlock, KeepLoops, End, vars
<1>8. CASE NotAnIf \/ BeginIf \/ SearchOn
  BY <1>2, <1>8 DEF NotAnIf, BeginIf, SearchOn, InIfs, sccVars, vars
<1>9. CASE JoinFound \/ NoneFound
  BY <1>2, <1>9 DEF JoinFound, NoneFound, RecordIf, sccVars, vars
<1>10. CASE UNCHANGED allVars
  BY <1>2, <1>10 DEF allVars, structVars, sccVars, vars
<1> QED BY <1>3, <1>4, <1>5, <1>6, <1>7, <1>8, <1>9, <1>10 DEF SNext

\* The invariant of compute_sccs.
THEOREM ComponentsBuild == SSpec => [](FirstPass /\ Comps)
<1>1. SInit => FirstPass /\ Comps
  <2> SUFFICES ASSUME SInit PROVE FirstPass /\ Comps
    OBVIOUS
  <2>1. /\ frames = <<>> /\ seen = {} /\ finish_order = <<>> /\ stage = "finish"
        /\ sccs = {} /\ scan = 1 /\ found = <<>>
    BY DEF SInit
  <2>2. DOMAIN frames = {} /\ DOMAIN finish_order = {} /\ Range(finish_order) = {} /\ Entered = {}
    BY <2>1 DEF Range, Entered
  <2>3. IsInjective(finish_order)
    BY <2>2 DEF IsInjective
  <2>4. frames \in Seq(Frame) /\ finish_order \in Seq(cfg.blocks)
    BY <2>1, EmptySeq
  <2> QED BY <2>1, <2>2, <2>3, <2>4
          DEF FirstPass, FinishSets, FinishedInOrder, Comps, ComponentsAreStrong
<1>2. Built /\ LoopsRight /\ FirstPass /\ [SNext]_allVars => FirstPass'
  BY StepPass
<1>3. Built /\ LoopsRight /\ FirstPass /\ Comps /\ [SNext]_allVars => Comps'
  BY StepComps
<1> QED BY <1>1, <1>2, <1>3, LoopsAreRight, PTL DEF SSpec

\* compute_sccs finds the strongly connected components of any flow graph: a
\* component holds, of any block of it, exactly the blocks on cycles with it.
THEOREM ComponentsAreRight == SSpec => []ComponentsAreStrong
<1>1. Comps => ComponentsAreStrong
  BY DEF Comps
<1> QED BY <1>1, ComponentsBuild, PTL


-----------------------------------------------------------------------------
(* No reducible region is missed *)

\* One map has one order.
LEMMA OneMapOrder ==
    ASSUME NEW g, IsFlowGraph(g),
           NEW p \in InMapOrder(g, g.blocks), NEW q \in InMapOrder(g, g.blocks)
    PROVE  p = q
<1> DEFINE n == Cardinality(g.blocks)
           Diff == {i \in 1..n : p[i] # q[i]}
           rank == g.rank
<1>1. n \in Nat
  BY FS_CardinalityType DEF IsFlowGraph
<1>2. /\ p \in [1..n -> g.blocks] /\ q \in [1..n -> g.blocks]
      /\ \A i, j \in 1..n : i < j => rank[p[i]] < rank[p[j]] /\ rank[q[i]] < rank[q[j]]
      /\ \A i, j \in 1..n : p[i] = p[j] \/ q[i] = q[j] => i = j
      /\ \A b \in g.blocks : (\E i \in 1..n : p[i] = b) /\ (\E i \in 1..n : q[i] = b)
  BY DEF InMapOrder, Bijection, Injection, Surjection, IsInjective
<1>3. \A b \in g.blocks : rank[b] \in Nat
  BY DEF IsFlowGraph, Injection
<1> HIDE DEF n, rank
<1> SUFFICES ASSUME p # q PROVE FALSE
  OBVIOUS
<1>4. Diff # {}
  <2>1. p = [k \in 1..n |-> p[k]] /\ q = [k \in 1..n |-> q[k]]
    BY <1>2
  <2> SUFFICES ASSUME \A k \in 1..n : p[k] = q[k] PROVE p = q
    OBVIOUS
  <2> HIDE DEF Diff
  <2> QED BY <2>1
<1>5. PICK i \in Diff : \A j \in Diff : i <= j
  <2>1. Diff \subseteq Nat
    BY <1>1
  <2> HIDE DEF Diff
  <2> QED BY <1>4, <2>1, LeastNatural
<1>6. i \in 1..n /\ p[i] # q[i] /\ \A j \in 1..n : j < i => p[j] = q[j]
  BY <1>1, <1>5
<1> HIDE DEF Diff
<1>7. PICK j \in 1..n : p[j] = q[i]
  BY <1>2, <1>6
<1>8. PICK m \in 1..n : q[m] = p[i]
  BY <1>2, <1>6
<1>9. i < j /\ i < m
  <2>1. i \in Int /\ j \in Int /\ m \in Int
    BY <1>1, <1>6
  <2>2. j # i /\ m # i
    BY <1>6, <1>7, <1>8
  <2>3. ~(j < i)
    <3> SUFFICES ASSUME j < i PROVE FALSE
      OBVIOUS
    <3>1. q[j] = q[i]
      BY <1>6, <1>7
    <3> QED BY <1>2, <1>6, <2>2, <3>1
  <2>4. ~(m < i)
    <3> SUFFICES ASSUME m < i PROVE FALSE
      OBVIOUS
    <3>1. p[m] = p[i]
      BY <1>6, <1>8
    <3> QED BY <1>2, <1>6, <2>2, <3>1
  <2> QED BY <2>1, <2>2, <2>3, <2>4
<1>10. rank[p[i]] < rank[q[i]] /\ rank[q[i]] < rank[p[i]]
  BY <1>2, <1>6, <1>7, <1>8, <1>9
<1>11. rank[p[i]] \in Nat /\ rank[q[i]] \in Nat
  BY <1>2, <1>3, <1>6
<1> QED BY <1>10, <1>11

\* One map has an order, in which every block has its place.
LEMMA MapHasOrder ==
    ASSUME NEW g, IsFlowGraph(g), NEW b \in g.blocks
    PROVE  \E q \in InMapOrder(g, g.blocks) : \E i \in 1..Cardinality(g.blocks) : q[i] = b
<1> DEFINE S == g.blocks
           n == Cardinality(S)
           rank == g.rank
           Lt == {e \in S \X S : rank[e[1]] < rank[e[2]]}
<1>1. IsFiniteSet(S) /\ rank \in Injection(S, Nat)
  BY DEF IsFlowGraph
<1>2. \A x, y \in S : rank[x] \in Nat /\ (rank[x] = rank[y] => x = y)
  BY <1>1 DEF Injection, IsInjective
<1>3. \A x, y \in S : <<x, y>> \in Lt <=> rank[x] < rank[y]
  OBVIOUS
<1> HIDE DEF Lt, rank
<1>4. /\ \A x \in S : <<x, x>> \notin Lt
      /\ \A x, y \in S : x # y => <<x, y>> \in Lt \/ <<y, x>> \in Lt
      /\ \A x, y, z \in S : <<x, y>> \in Lt /\ <<y, z>> \in Lt => <<x, z>> \in Lt
  BY <1>2, <1>3
<1>5. PICK q \in Bijection(1..n, S) : \A i, j \in 1..n : i < j => <<q[i], q[j]>> \in Lt
  <2> HIDE DEF S
  <2> QED BY <1>1, <1>4, Enumerates
<1>6. q \in [1..n -> S] /\ \E i \in 1..n : q[i] = b
  BY DEF Bijection, Injection, Surjection
<1>7. q \in InMapOrder(g, S)
  BY <1>3, <1>5, <1>6 DEF InMapOrder, rank
<1> QED BY <1>6, <1>7

\* The scan has pushed the loops of the blocks it has passed; the loops kept
\* have every header that a block contributes.
LoopsComplete ==
    /\ stage = "loops" =>
          \A order \in InMapOrder(cfg, cfg.blocks) : \A k \in 1..Cardinality(cfg.blocks) :
              k < scan => Range(LoopsFrom(order[k])) \subseteq Range(found)
    /\ stage \in {"ifs", "join", "end"} =>
          \A b \in cfg.blocks : \A l \in Range(LoopsFrom(b)) : \E k \in loops : k.header = l.header

\* The removal of duplicates keeps a loop for every header.
LEMMA KeptForHeader ==
    ASSUME NEW q \in Seq(Loop), NEW l \in Range(q)
    PROVE  \E k \in FirstPerHeader(q) : k.header = l.header
<1> DEFINE S == {i \in 1..Len(q) : q[i].header = l.header}
<1>1. DOMAIN q = 1..Len(q) /\ Len(q) \in Nat
  BY LenProperties
<1>2. S # {} /\ S \subseteq Nat
  BY <1>1 DEF Range
<1>3. PICK i \in S : \A j \in S : i <= j
  <2> HIDE DEF S
  <2> QED BY <1>2, LeastNatural
<1>4. i \in 1..Len(q) /\ q[i].header = l.header
  OBVIOUS
<1>5. ASSUME NEW j \in 1..(i - 1) PROVE q[j].header # q[i].header
  <2>1. j \in 1..Len(q) /\ ~(i <= j)
    BY <1>1, <1>4
  <2> QED BY <1>3, <1>4, <2>1
<1>6. q[i] \in FirstPerHeader(q)
  BY <1>1, <1>4, <1>5 DEF FirstPerHeader
<1> QED BY <1>4, <1>6

\* Every step keeps the loops complete.
LEMMA StepComplete ==
    Built /\ LoopsRight /\ Comps /\ LoopsComplete /\ [SNext]_allVars => LoopsComplete'
<1> SUFFICES ASSUME Built, LoopsRight, Comps, LoopsComplete, [SNext]_allVars
             PROVE  LoopsComplete'
  OBVIOUS
<1>1. IsFlowGraph(cfg)
  BY DEF Built, Dfs, DfsType
<1>2. ASSUME UNCHANGED <<vars, sccs>>
      PROVE  /\ cfg' = cfg
             /\ \A b : LoopsFrom(b)' = LoopsFrom(b)
             /\ InMapOrder(cfg, cfg.blocks)' = InMapOrder(cfg, cfg.blocks)
  <2>1. cfg' = cfg /\ idom' = idom /\ sccs' = sccs
    BY <1>2 DEF vars
  <2>2. \A b : LoopsFrom(b)' = LoopsFrom(b)
    BY <2>1 DEF LoopsFrom, LoopBody, Backwards, Preds, Succs, IsBackEdge, IsReducible,
                EntryNodes, Dominates, IdomChain, DispatchBlocks
  <2> QED BY <2>1, <2>2
<1>3. CASE TakeComponent
  <2>1. /\ UNCHANGED vars /\ stage' \in {"loops", "components"} /\ scan' = 1
    BY <1>3 DEF TakeComponent, Comps
  <2>2. cfg' = cfg
    BY <2>1 DEF vars
  <2>3. Cardinality(cfg.blocks) \in Nat
    BY <1>1, FS_CardinalityType DEF IsFlowGraph
  <2>4. \A k \in 1..Cardinality(cfg.blocks) : ~(k < 1)
    BY <2>3
  <2> QED BY <2>1, <2>2, <2>4 DEF LoopsComplete
<1>4. CASE ScanBlock
  <2>1. UNCHANGED <<vars, sccs>> /\ stage = "loops" /\ stage' = "loops" /\ scan' = scan + 1
    BY <1>4 DEF ScanBlock
  <2>2. PICK p \in InMapOrder(cfg, cfg.blocks) : found' = found \o LoopsFrom(p[scan])
    BY <1>4 DEF ScanBlock
  <2>3. p[scan] \in cfg.blocks
    <3>1. Cardinality(cfg.blocks) \in Nat /\ scan <= Cardinality(cfg.blocks)
      BY <1>1, <1>4, FS_CardinalityType DEF IsFlowGraph, ScanBlock
    <3>2. scan \in 1..Cardinality(cfg.blocks)
      BY <3>1 DEF LoopsRight
    <3>3. p \in [1..Cardinality(cfg.blocks) -> cfg.blocks]
      BY DEF InMapOrder, Bijection, Injection
    <3> QED BY <3>2, <3>3
  <2>4. found \in Seq(Loop) /\ LoopsFrom(p[scan]) \in Seq(Loop)
    BY <1>1, <2>3, LoopsFromShape DEF LoopsRight
  <2>5. Range(found') = Range(found) \cup Range(LoopsFrom(p[scan]))
    BY <2>2, <2>4, ConcatRange
  <2>6. ASSUME NEW order \in InMapOrder(cfg, cfg.blocks), NEW k \in 1..Cardinality(cfg.blocks),
               k < scan + 1
        PROVE  Range(LoopsFrom(order[k])) \subseteq Range(found')
    <3>1. order = p
      BY <1>1, OneMapOrder
    <3>2. k < scan \/ k = scan
      <4>1. k \in Int /\ scan \in Nat
        BY DEF LoopsRight
      <4> QED BY <2>6, <4>1
    <3>3. CASE k < scan
      BY <2>1, <2>5, <3>3 DEF LoopsComplete
    <3>4. CASE k = scan
      BY <2>5, <3>1, <3>4
    <3> QED BY <3>2, <3>3, <3>4
  <2> QED BY <1>2, <2>1, <2>6 DEF LoopsComplete
<1>5. CASE KeepLoops
  <2>1. /\ UNCHANGED <<vars, sccs>> /\ stage = "loops" /\ stage' = "ifs"
        /\ loops' = FirstPerHeader(found) /\ scan > Cardinality(cfg.blocks)
    BY <1>5 DEF KeepLoops
  <2>2. ASSUME NEW b \in cfg.blocks, NEW l \in Range(LoopsFrom(b))
        PROVE  \E k \in loops' : k.header = l.header
    <3>1. PICK order \in InMapOrder(cfg, cfg.blocks) :
              \E i \in 1..Cardinality(cfg.blocks) : order[i] = b
      BY <1>1, MapHasOrder
    <3>2. PICK i \in 1..Cardinality(cfg.blocks) : order[i] = b
      BY <3>1
    <3>3. i < scan
      <4>1. Cardinality(cfg.blocks) \in Nat /\ scan \in Nat
        BY <1>1, FS_CardinalityType DEF IsFlowGraph, LoopsRight
      <4> QED BY <2>1, <4>1
    <3>4. l \in Range(found)
      BY <2>1, <2>2, <3>2, <3>3 DEF LoopsComplete
    <3> QED BY <2>1, <3>4, KeptForHeader DEF LoopsRight
  <2> QED BY <1>2, <2>1, <2>2 DEF LoopsComplete
<1>6. ASSUME UNCHANGED <<vars, sccs, loops>>,
             stage \in {"ifs", "join"}, stage' \in {"ifs", "join", "end"}
      PROVE  LoopsComplete'
  BY <1>2, <1>6 DEF LoopsComplete
<1>7. CASE NotAnIf \/ BeginIf \/ SearchOn \/ End
  BY <1>6, <1>7 DEF NotAnIf, BeginIf, SearchOn, End, InIfs, sccVars
<1>8. CASE JoinFound \/ NoneFound
  BY <1>6, <1>8 DEF JoinFound, NoneFound, RecordIf, sccVars
<1>9. CASE FinishRoot \/ FinishEdge \/ FinishLeave
  <2>1. stage' \in {"finish", "components"}
    BY <1>9 DEF FinishRoot, FinishEdge, FinishLeave
  <2> QED BY <2>1 DEF LoopsComplete
<1>10. CASE Dominators
  <2>1. phase # "done" /\ stage' = stage
    BY <1>10 DEF Dominators, structVars, Next, DfsCall, DfsReturn, Skip, FirstPred, NextPred,
                 Climb, Record, Resweep, Return, InSweep
  <2>2. stage' = "finish"
    BY <2>1 DEF LoopsRight
  <2> QED BY <2>2 DEF LoopsComplete
<1>11. CASE UNCHANGED allVars
  <2>1. UNCHANGED <<vars, sccs, found, loops, stage, scan>>
    BY <1>11 DEF allVars, structVars, sccVars
  <2> QED BY <1>2, <2>1 DEF LoopsComplete
<1> QED BY <1>3, <1>4, <1>5, <1>7, <1>8, <1>9, <1>10, <1>11 DEF SNext

\* In the finished tree whatever dominates a block is on its chain.
LEMMA ChainIsComplete ==
    ASSUME Built, phase = "done", NEW a, NEW n \in visited, ByPaths(a, n)
    PROVE  a \in IdomChain(n)
<1> DEFINE N == Len(post_order)
           Bad == {x \in visited : ByPaths(a, x) /\ a \notin IdomChain(x)}
           S == {PostIndex(x) : x \in Bad}
<1>1. /\ IsFlowGraph(cfg) /\ idom \in [cfg.blocks -> cfg.blocks \cup {NoBlock}]
  BY DEF Built, Dfs, DfsType, Tree, IdomType
<1>2. /\ N \in Nat /\ visited = Live /\ visited \subseteq cfg.blocks
      /\ \A x \in visited : PostIndex(x) \in 1..N
  BY OrderFacts DEF Built
<1> SUFFICES ASSUME n \in Bad PROVE FALSE
  OBVIOUS
<1>3. S # {} /\ S \subseteq 1..N
  BY <1>2
<1>4. PICK m \in S : \A y \in S : y <= m
  <2> HIDE DEF S
  <2> QED BY <1>2, <1>3, GreatestNatural
<1>5. PICK x \in Bad : m = PostIndex(x)
  OBVIOUS
<1>6. a # x
  BY <1>1, <1>2, <1>5, ChainIsLeast
<1>7. x # cfg.entry
  BY <1>1, <1>5, <1>6, EntryIsRoot
<1>8. Processed(x)
  BY <1>2, <1>5, <1>7 DEF Built, Tree, Solved
<1>9. a \in cfg.blocks
  BY <1>1, <1>2, <1>5, DominatorIsLive
<1>10. /\ idom[x] \in visited /\ PostIndex(x) < PostIndex(idom[x])
       /\ ByPaths(a, idom[x])
  BY <1>2, <1>5, <1>6, <1>7, <1>8, <1>9 DEF Built, Tree, Ascends
<1>11. a \notin IdomChain(idom[x])
  <2>1. idom[x] \in IdomChain(x) /\ IdomChain(idom[x]) \subseteq IdomChain(x)
    BY <1>1, <1>2, <1>5, <1>8, ChainIsLeast, ChainUnfolds
  <2> QED BY <1>5, <2>1
<1>12. PostIndex(idom[x]) \in S
  BY <1>10, <1>11
<1>13. PostIndex(x) \in Nat /\ PostIndex(idom[x]) \in Nat
  BY <1>2, <1>5, <1>10
<1> HIDE DEF S
<1>14. PostIndex(idom[x]) <= PostIndex(x)
  BY <1>4, <1>5, <1>12
<1> QED BY <1>10, <1>13, <1>14

\* A component of several blocks has an edge back to each of its blocks.
LEMMA EdgeBack ==
    ASSUME IsFlowGraph(cfg), ComponentsAreStrong, NEW C \in sccs, C \subseteq cfg.blocks,
           NEW e \in C, Cardinality(C) > 1
    PROVE  \E p \in C : e \in Succs(cfg, p)
<1>1. PICK y \in C : y # e
  <2> SUFFICES ASSUME C = {e} PROVE FALSE
    OBVIOUS
  <2>1. Cardinality({e}) = 1
    BY FS_Singleton
  <2> QED BY <2>1
<1>2. /\ \A x \in C : \A z \in cfg.blocks :
            z \in C <=> z \in Reach(cfg, x, {}) /\ x \in Reach(cfg, z, {})
  BY DEF ComponentsAreStrong
<1>3. e \in cfg.blocks /\ y \in cfg.blocks
  BY <1>1
<1>4. e \in Reach(cfg, y, {})
  BY <1>1, <1>2, <1>3
<1> SUFFICES ASSUME \A p \in C : e \notin Succs(cfg, p) PROVE FALSE
  OBVIOUS
<1> DEFINE X == {z \in cfg.blocks : z # e /\ (z \in C \/ e \notin Reach(cfg, z, {}))}
<1>5. y \in X
  BY <1>1, <1>3
<1>6. ASSUME NEW z \in X, NEW s \in Succs(cfg, z) PROVE s \in X
  <2>1. z \in cfg.blocks /\ s \in cfg.blocks
    BY SuccsAreBlocks
  <2>2. s \in Reach(cfg, z, {})
    BY <2>1, ReachIsLeast
  <2>3. Reach(cfg, s, {}) \subseteq Reach(cfg, z, {})
    BY <2>1, <2>2, ReachesOn
  <2>4. CASE z \in C
    <3>1. s # e
      BY <2>4
    <3>2. ASSUME e \in Reach(cfg, s, {}) PROVE s \in C
      <4>1. z \in Reach(cfg, e, {})
        BY <1>2, <2>4
      <4>2. Reach(cfg, e, {}) \subseteq Reach(cfg, s, {})
        BY <2>1, <3>2, ReachesOn
      <4> QED BY <1>2, <2>1, <2>2, <2>4, <4>1, <4>2
    <3> QED BY <2>1, <3>1, <3>2
  <2>5. CASE z \notin C
    <3>1. e \notin Reach(cfg, s, {})
      BY <2>3, <2>5
    <3>2. s # e
      BY <1>3, <3>1, ReachIsLeast
    <3> QED BY <2>1, <3>1, <3>2
  <2> QED BY <2>4, <2>5
<1>7. e \notin X
  OBVIOUS
<1> HIDE DEF X
<1>8. Reach(cfg, y, {}) \subseteq X
  BY <1>3, <1>5, <1>6, ReachIsLeast
<1> QED BY <1>4, <1>7, <1>8

\* The single way into a component dominates its blocks, and its back edges
\* close loops inside it.
LEMMA RegionIsLoop ==
    ASSUME Built, phase = "done", Comps, NEW C \in sccs, NEW e \in C, e \in Live,
           EntryNodes(C) \subseteq {e}, cfg.entry \in C => e = cfg.entry,
           NEW p \in C, e \in Succs(cfg, p)
    PROVE  /\ IsBackEdge(p, e)
           /\ LoopBody(e, p) \subseteq C
           /\ IsReducible(e, LoopBody(e, p))
<1> DEFINE body == LoopBody(e, p)
           A == Reach(cfg, cfg.entry, {e})
<1>1. /\ IsFlowGraph(cfg) /\ cfg.entry \in cfg.blocks /\ visited = Live /\ C \subseteq cfg.blocks
      /\ ComponentsAreStrong
  BY OrderFacts DEF Built, Dfs, DfsType, IsFlowGraph, Comps
<1>2. e \in cfg.blocks /\ p \in cfg.blocks
  BY <1>1
<1>3. \A x \in cfg.blocks : \A s \in Succs(cfg, x) : s \in C /\ s # e => x \in C
  BY DEF EntryNodes, Preds
<1>4. A \cap C = {}
  <2> DEFINE X == cfg.blocks \ C
  <2>1. cfg.entry \notin {e} => cfg.entry \in X
    BY <1>1
  <2>2. ASSUME NEW x \in X, NEW s \in Succs(cfg, x) \ {e} PROVE s \in X
    BY <1>3, <2>2, SuccsAreBlocks, <1>1
  <2> HIDE DEF X
  <2>3. A \subseteq X
    BY <1>1, <2>1, <2>2, ReachIsLeast
  <2> QED BY <2>3 DEF X
<1>5. ASSUME NEW n \in C PROVE ByPaths(e, n) /\ n \in visited
  <2>1. n \in Reach(cfg, e, {})
    BY <1>1, <1>2 DEF ComponentsAreStrong
  <2>2. Reach(cfg, e, {}) \subseteq Live
    BY <1>1, ReachesOn DEF Live
  <2> QED BY <1>1, <1>4, <2>1, <2>2 DEF ByPaths, Live
<1>6. \A n \in C : Dominates(e, n)
  BY <1>5, ChainIsComplete DEF Dominates
<1>7. /\ e \in body
      /\ \A n \in body \ {e} : Preds(cfg, n) \subseteq body
      /\ body \subseteq C
  <2>1. CASE e = p
    BY <2>1 DEF LoopBody
  <2>2. CASE e # p
    <3> DEFINE W == Backwards(p, {e})
               X == C \ {e}
    <3>1. body = {e} \cup W
      BY <2>2 DEF LoopBody
    <3>2. \A x \in W : Preds(cfg, x) \ {e} \subseteq W
      BY <1>1, <1>2, BackwardsIsLeast
    <3>3. p \in X
      BY <2>2
    <3>4. ASSUME NEW x \in X, NEW q \in Preds(cfg, x) \ {e} PROVE q \in X
      BY <1>3, <3>4 DEF Preds
    <3> HIDE DEF X
    <3>5. W \subseteq X
      BY <1>1, <1>2, <3>3, <3>4, BackwardsIsLeast
    <3> HIDE DEF W
    <3> QED BY <3>1, <3>2, <3>5 DEF X
  <2> QED BY <2>1, <2>2
<1> HIDE DEF body
<1>8. EntryNodes(body) \subseteq {e}
  BY <1>7 DEF EntryNodes
<1>9. ASSUME e # cfg.entry PROVE e \in EntryNodes(body)
  <2> SUFFICES ASSUME Preds(cfg, e) \subseteq body PROVE FALSE
    BY <1>7 DEF EntryNodes
  <2>1. cfg.entry \in A /\ \A x \in A : Succs(cfg, x) \ {e} \subseteq A
    BY <1>1, <1>9, ReachIsLeast
  <2>2. A \subseteq cfg.blocks
    BY <1>1, ReachIsLeast
  <2>3. \A x \in A : e \notin Succs(cfg, x)
    BY <1>4, <1>7, <2>2 DEF Preds
  <2>4. \A x \in A : Succs(cfg, x) \subseteq A
    BY <2>1, <2>3
  <2> HIDE DEF A
  <2>5. Live \subseteq A
    BY <1>1, <2>1, <2>4, ReachIsLeast DEF Live
  <2> QED BY <1>4, <2>5
<1>10. IsReducible(e, body)
  BY <1>6, <1>7, <1>8, <1>9 DEF IsReducible
<1> QED BY <1>6, <1>7, <1>10 DEF IsBackEdge, body

\* detect_loops leaves no reducible cyclic region unstructured: a component
\* with several blocks, none of which ends in an indirect jump, and a single
\* way in has a loop kept at that way in.
THEOREM NoRegionMissed == SSpec => []NoReducibleRegionMissed
<1>1. Built /\ LoopsRight /\ Comps /\ LoopsComplete => NoReducibleRegionMissed
  <2> SUFFICES ASSUME Built, LoopsRight, Comps, LoopsComplete, stage = "end",
                      NEW C \in sccs, NEW e \in C, e \in Live, Cardinality(C) > 1,
                      IF cfg.entry \in C THEN e = cfg.entry /\ EntryNodes(C) \subseteq {e}
                      ELSE EntryNodes(C) = {e},
                      C \cap cfg.indirect = {}
               PROVE  \E l \in loops : l.header = e
    BY DEF NoReducibleRegionMissed, Live
  <2>1. phase = "done" /\ IsFlowGraph(cfg) /\ ComponentsAreStrong /\ C \subseteq cfg.blocks
    BY DEF LoopsRight, Built, Dfs, DfsType, Comps
  <2>2. PICK p \in C : e \in Succs(cfg, p)
    BY <2>1, EdgeBack
  <2>3. EntryNodes(C) \subseteq {e} /\ (cfg.entry \in C => e = cfg.entry)
    OBVIOUS
  <2>4. /\ IsBackEdge(p, e)
        /\ IsReducible(e, LoopBody(e, p))
    BY <2>1, <2>2, <2>3, RegionIsLoop
  <2>5. e \notin DispatchBlocks
    <3> SUFFICES ASSUME NEW D \in sccs, D \cap cfg.indirect # {}, e \in D PROVE FALSE
      BY DEF DispatchBlocks
    <3>1. D \subseteq cfg.blocks
      BY DEF Comps
    <3>2. D = C
      BY <2>1, <3>1 DEF ComponentsAreStrong
    <3> QED BY <3>2
  <2>6. p \in cfg.blocks /\ e \in cfg.blocks /\ e \in LoopBody(e, p)
    BY <2>1, BodyIsBlocks
  <2> DEFINE body(h) == LoopBody(h, p)
             S == {h \in Succs(cfg, p) : /\ IsBackEdge(p, h)
                                         /\ IsReducible(h, body(h))
                                         /\ ~(body(h) \subseteq DispatchBlocks)}
             heads == Kept(cfg.succ[p], S)
  <2>7. e \in S
    BY <2>2, <2>4, <2>5, <2>6
  <2>8. LoopsFrom(p) = [i \in DOMAIN heads |->
                           [header |-> heads[i], latch |-> p, body |-> body(heads[i])]]
    BY DEF LoopsFrom
  <2> HIDE DEF S
  <2>9. Range(heads) = Succs(cfg, p) \cap S
    <3>1. cfg.succ[p] \in Seq(cfg.blocks)
      BY <2>1, <2>6 DEF IsFlowGraph
    <3> QED BY <3>1, KeptRange DEF Succs
  <2> HIDE DEF heads
  <2>10. PICK i \in DOMAIN heads : heads[i] = e
    BY <2>2, <2>7, <2>9 DEF Range
  <2>11. LoopsFrom(p)[i] \in Range(LoopsFrom(p)) /\ LoopsFrom(p)[i].header = e
    BY <2>8, <2>10 DEF Range
  <2> QED BY <2>6, <2>11 DEF LoopsComplete
<1>2. SInit => LoopsComplete
  BY DEF SInit, LoopsComplete
<1>3. Built /\ LoopsRight /\ Comps /\ LoopsComplete /\ [SNext]_allVars => LoopsComplete'
  BY StepComplete
<1> QED BY <1>1, <1>2, <1>3, LoopsAreRight, ComponentsBuild, PTL DEF SSpec


=============================================================================

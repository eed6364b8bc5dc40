---------------------------- MODULE FunctionProofs ----------------------------
(***************************************************************************)
(* Proofs about function detection and call sites, for every program:      *)
(*   DetectionIsRight       the inductive invariant of detect_functions,   *)
(*   NoReachedBlockDropped  reachable code is in some function,            *)
(*   NearestEntry           a block is in the function of nearest entry,   *)
(*   HiddenStaysSealed      no printed block leads to a hidden one.        *)
(* The searches of a split are proved right the way a shortest-path        *)
(* algorithm is: a distance is the length of a real way (so never too      *)
(* short), and an edge that could still shorten one waits in the queue (so *)
(* never too long once the queue is empty).  The graph of a function is    *)
(* proved to name every edge on both sides, and every hidden block with a  *)
(* live edge to wait in the queue of the repair.                           *)
(***************************************************************************)
EXTENDS CallSites, CommonLemmas

-----------------------------------------------------------------------------
(* Operators of the model *)

\* MinOf names the least element of a set of naturals that is not empty.
LEMMA MinOfIsLeast ==
    ASSUME NEW S, S \subseteq Nat, S # {}
    PROVE  MinOf(S) \in S /\ \A y \in S : MinOf(S) <= y
<1>1. \E x \in S : \A y \in S : x <= y
  BY LeastNatural
<1> QED BY <1>1 DEF MinOf

\* The blocks a way of at most k edges leads to from a.
Way(g, k, a) == Rounds(k, {a}, [x \in g.blocks |-> Succs(g, x)])

\* A way of no edge stays where it is, a longer one goes on along an edge.
LEMMA WayStep ==
    ASSUME NEW g, IsFlowGraph(g), NEW a \in g.blocks, NEW k \in Nat
    PROVE  /\ Way(g, 0, a) = {a}
           /\ Way(g, k + 1, a) = Way(g, k, a) \cup UNION {Succs(g, x) : x \in Way(g, k, a)}
           /\ Way(g, k, a) \subseteq g.blocks
<1> DEFINE B == g.blocks
           next == [x \in B |-> Succs(g, x)]
           S == {a}
           W == Way(g, k, a)
<1>1. next \in [B -> SUBSET B] /\ S \in SUBSET B
  BY SuccsAreBlocks
<1>2. \A x \in B : next[x] = Succs(g, x)
  OBVIOUS
<1>3. \A j : Way(g, j, a) = Rounds(j, S, next)
  BY DEF Way
<1> HIDE DEF B, next, S
<1>4. /\ Rounds(0, S, next) = S
      /\ Rounds(k + 1, S, next) =
            Rounds(k, S, next) \cup UNION {next[x] : x \in Rounds(k, S, next)}
      /\ Rounds(k, S, next) \in SUBSET B
  BY <1>1, RoundsStep
<1>5. W \in SUBSET B /\ Way(g, k + 1, a) = W \cup UNION {next[x] : x \in W}
  BY <1>3, <1>4
<1> HIDE DEF W
<1>6. {next[x] : x \in W} = {Succs(g, x) : x \in W}
  BY <1>2, <1>5
<1> QED BY <1>3, <1>4, <1>5, <1>6 DEF B, S, W

\* A way never leaves a set that is closed under the edges.
LEMMA WayWithin ==
    ASSUME NEW g, IsFlowGraph(g), NEW a \in g.blocks, NEW k \in Nat,
           NEW X, a \in X, \A x \in X \cap g.blocks : Succs(g, x) \subseteq X
    PROVE  Way(g, k, a) \subseteq X
<1> DEFINE B == g.blocks
           next == [x \in B |-> Succs(g, x)]
           S == {a}
<1>1. /\ next \in [B -> SUBSET B] /\ S \in SUBSET B
      /\ S \subseteq X /\ \A x \in X \cap B : next[x] \subseteq X
  BY SuccsAreBlocks
<1>2. Way(g, k, a) = Rounds(k, S, next)
  BY DEF Way
<1> HIDE DEF B, next, S
<1> QED BY <1>1, <1>2, RoundsWithin

\* Distance is a number, at most one more than there are blocks; it is the
\* length of a way unless there is none.
LEMMA DistanceType ==
    ASSUME NEW g, IsFlowGraph(g), NEW a \in g.blocks, NEW b
    PROVE  LET n == Cardinality(g.blocks)
           IN  /\ n \in Nat /\ Distance(g, a, b) \in Nat
               /\ Distance(g, a, b) <= n + 1
               /\ Distance(g, a, b) = n + 1 \/ b \in Way(g, Distance(g, a, b), a)
               /\ \A k \in 0..n : b \in Way(g, k, a) => Distance(g, a, b) <= k
<1> DEFINE n == Cardinality(g.blocks)
           ways == {k \in 0..n : b \in Way(g, k, a)}
<1>1. n \in Nat
  BY FS_CardinalityType DEF IsFlowGraph
<1>2. Distance(g, a, b) = IF ways = {} THEN n + 1 ELSE MinOf(ways)
  BY DEF Distance, Way
<1> HIDE DEF n
<1>3. ways \subseteq Nat
  BY <1>1
<1>4. CASE ways = {}
  BY <1>1, <1>2, <1>4 DEF n
<1>5. CASE ways # {}
  <2>1. Distance(g, a, b) \in ways /\ \A y \in ways : Distance(g, a, b) <= y
    <3> HIDE DEF ways
    <3> QED BY <1>2, <1>3, <1>5, MinOfIsLeast
  <2> QED BY <1>1, <2>1 DEF n
<1> QED BY <1>4, <1>5

\* A way, however long, bounds the distance.
LEMMA DistanceOfWay ==
    ASSUME NEW g, IsFlowGraph(g), NEW a \in g.blocks, NEW b, NEW d \in Nat,
           b \in Way(g, d, a)
    PROVE  Distance(g, a, b) <= d /\ Distance(g, a, b) <= Cardinality(g.blocks)
<1> DEFINE n == Cardinality(g.blocks)
           D == Distance(g, a, b)
           next == [x \in g.blocks |-> Succs(g, x)]
<1>1. n \in Nat /\ D \in Nat /\ \A k \in 0..n : b \in Way(g, k, a) => D <= k
  BY DistanceType
<1>2. b \in Way(g, n, a)
  <2> DEFINE B == g.blocks
             S == {a}
             X == Closure(S, next)
  <2>1. IsFiniteSet(B) /\ next \in [B -> SUBSET B] /\ S \in SUBSET B
    BY SuccsAreBlocks DEF IsFlowGraph
  <2>2. X = Way(g, n, a)
    BY DEF Way, Closure
  <2>3. \A x \in B : next[x] = Succs(g, x)
    OBVIOUS
  <2> HIDE DEF B, S, next, n, D
  <2>4. S \subseteq X /\ X \subseteq B /\ \A x \in X : next[x] \subseteq X
    BY <2>1, ClosureIsLeast
  <2>5. a \in X /\ \A x \in X \cap g.blocks : Succs(g, x) \subseteq X
    BY <2>3, <2>4 DEF S, B
  <2> HIDE DEF X
  <2>6. Way(g, d, a) \subseteq X
    BY <2>5, WayWithin
  <2> QED BY <2>2, <2>6
<1> HIDE DEF n, D, next
<1>3. D <= n
  BY <1>1, <1>2
<1>4. D <= d
  <2>1. CASE d <= n
    BY <1>1, <2>1
  <2>2. CASE d > n
    BY <1>1, <1>3, <2>2
  <2> QED BY <1>1, <2>1, <2>2
<1> QED BY <1>3, <1>4 DEF n, D

\* Where no way leads, the distance is the largest.
LEMMA DistanceApart ==
    ASSUME NEW g, IsFlowGraph(g), NEW a \in g.blocks, NEW b, NEW X, a \in X, b \notin X,
           \A x \in X \cap g.blocks : Succs(g, x) \subseteq X
    PROVE  Distance(g, a, b) = Cardinality(g.blocks) + 1
<1>1. Distance(g, a, b) \in Nat
      /\ (Distance(g, a, b) = Cardinality(g.blocks) + 1
            \/ b \in Way(g, Distance(g, a, b), a))
  BY DistanceType
<1>2. Way(g, Distance(g, a, b), a) \subseteq X
  BY <1>1, WayWithin
<1> QED BY <1>1, <1>2

-----------------------------------------------------------------------------
(* Components *)

\* No edge of the graph enters or leaves C.
IsApart(g, C) ==
    /\ C \subseteq g.blocks
    /\ C # {}
    /\ \A x \in C : Succs(g, x) \cup Preds(g, x) \subseteq C

\* A component has its start, is closed under edges of either direction, and
\* lies in every set that is.
LEMMA ComponentIsApart ==
    ASSUME NEW g, IsFlowGraph(g), NEW b \in g.blocks
    PROVE  /\ IsApart(g, Component(g, b))
           /\ b \in Component(g, b)
           /\ \A X : (b \in X /\ \A x \in X \cap g.blocks : Succs(g, x) \cup Preds(g, x) \subseteq X)
                        => Component(g, b) \subseteq X
<1> DEFINE B == g.blocks
           next == [x \in B |-> Succs(g, x) \cup Preds(g, x)]
           S == {b}
           C == Closure(S, next)
<1>1. IsFiniteSet(B) /\ next \in [B -> SUBSET B] /\ S \in SUBSET B
  BY SuccsAreBlocks DEF IsFlowGraph, Preds
<1>2. Component(g, b) = C
  BY DEF Component
<1>3. \A x \in B : next[x] = Succs(g, x) \cup Preds(g, x)
  OBVIOUS
<1> HIDE DEF B, next, S
<1>4. /\ S \subseteq C /\ C \subseteq B /\ \A x \in C : next[x] \subseteq C
      /\ \A X : (S \subseteq X /\ \A x \in X \cap B : next[x] \subseteq X) => C \subseteq X
  BY <1>1, ClosureIsLeast
<1> HIDE DEF C
<1>5. ASSUME NEW X, b \in X, \A x \in X \cap B : Succs(g, x) \cup Preds(g, x) \subseteq X
      PROVE  C \subseteq X
  <2>1. S \subseteq X /\ \A x \in X \cap B : next[x] \subseteq X
    BY <1>3, <1>5 DEF S
  <2> QED BY <1>4, <2>1
<1>6. \A x \in C : Succs(g, x) \cup Preds(g, x) \subseteq C
  BY <1>3, <1>4
<1>7. b \in C
  BY <1>4 DEF S
<1>8. IsApart(g, C)
  BY <1>4, <1>6, <1>7 DEF IsApart, B
<1> QED BY <1>2, <1>5, <1>7, <1>8 DEF B

\* The components found so far are apart from each other.
GroupsRight ==
    /\ cfg \in Programs
    /\ components \in Seq(SUBSET cfg.blocks)
    /\ comp \in Nat \ {0}
    /\ \A i \in 1..Len(components) : IsApart(cfg, components[i])
    /\ \A i, j \in 1..Len(components) : i # j => components[i] \cap components[j] = {}
    /\ phase = "components" => comp = 1 /\ functions = {}

\* A program's graph is well formed.
LEMMA ProgramGraph ==
    ASSUME cfg \in Programs
    PROVE  IsFlowGraph(cfg) /\ IsProgram(cfg) /\ IsCallProgram(cfg)
BY ProgramsAssumption, CallProgramsAssumption DEF IsProgram

\* Detection starts with no component.
LEMMA InitGroups ==
    ASSUME Init
    PROVE  GroupsRight
<1>1. components = <<>> /\ cfg \in Programs /\ comp = 1 /\ functions = {}
  BY DEF Init
<1>2. components \in Seq(SUBSET cfg.blocks) /\ Len(components) = 0
  BY <1>1, EmptySeq
<1> QED BY <1>1, <1>2 DEF GroupsRight

\* The component found next is apart from the earlier ones: it cannot reach
\* into them, since they are closed under edges of both directions.
LEMMA FindComponentKeepsGroups ==
    ASSUME GroupsRight, FindComponent
    PROVE  GroupsRight'
<1> DEFINE B == cfg.blocks
           G == Grouped
           start == IF cfg.entry \notin G THEN cfg.entry ELSE MinOf(B \ G)
           C == Component(cfg, start)
           n == Len(components)
<1>1. IsFlowGraph(cfg)
  BY ProgramGraph DEF GroupsRight
<1>2. /\ cfg' = cfg /\ comp' = comp /\ functions' = functions /\ phase' = phase
      /\ components' = Append(components, C) /\ G # B
  BY DEF FindComponent
<1>3. components \in Seq(SUBSET B) /\ n \in Nat /\ DOMAIN components = 1..n
  BY LenProperties DEF GroupsRight
<1>4. \A i \in 1..n : IsApart(cfg, components[i])
  BY DEF GroupsRight
<1>5. \A x : x \in G <=> \E i \in 1..n : x \in components[i]
  BY <1>3 DEF Grouped, Range
<1>6. G \subseteq B
  BY <1>4, <1>5 DEF IsApart
<1> HIDE DEF G
<1>7. start \in B /\ start \notin G
  <2>1. CASE cfg.entry \notin G
    BY <1>1, <2>1 DEF IsFlowGraph
  <2>2. CASE cfg.entry \in G
    <3>1. B \ G \subseteq Nat /\ B \ G # {}
      BY <1>1, <1>2, <1>6 DEF IsFlowGraph
    <3>2. MinOf(B \ G) \in B \ G
      <4> HIDE DEF B
      <4> QED BY <3>1, MinOfIsLeast
    <3> QED BY <2>2, <3>2
  <2> QED BY <2>1, <2>2
<1> HIDE DEF start
<1>8. /\ IsApart(cfg, C)
      /\ \A X : (start \in X /\ \A x \in X \cap B : Succs(cfg, x) \cup Preds(cfg, x) \subseteq X)
                   => C \subseteq X
  BY <1>1, <1>7, ComponentIsApart
<1>9. C \subseteq B \ G
  <2> DEFINE X == B \ G
  <2>1. ASSUME NEW x \in X, NEW y \in Succs(cfg, x) \cup Preds(cfg, x) PROVE y \in X
    <3>1. y \in B
      BY <1>1, SuccsAreBlocks DEF Preds
    <3>2. y \notin G
      <4> SUFFICES ASSUME y \in G PROVE FALSE
        OBVIOUS
      <4>1. PICK i \in 1..n : y \in components[i]
        BY <1>5
      <4>2. Succs(cfg, y) \cup Preds(cfg, y) \subseteq components[i]
        BY <1>4, <4>1 DEF IsApart
      <4>3. x \in Succs(cfg, y) \cup Preds(cfg, y)
        BY <2>1 DEF Preds
      <4> QED BY <1>5, <2>1, <4>2, <4>3
    <3> QED BY <3>1, <3>2
  <2>2. start \in X /\ \A x \in X \cap B : Succs(cfg, x) \cup Preds(cfg, x) \subseteq X
    BY <1>7, <2>1
  <2> HIDE DEF X
  <2>3. C \subseteq X
    BY <1>8, <2>2
  <2> QED BY <2>3 DEF X
<1> DEFINE T == components'
<1>10. C \in SUBSET B
  BY <1>8 DEF IsApart
<1> HIDE DEF C, B
<1>11. /\ T \in Seq(SUBSET B)
       /\ Len(T) = n + 1
       /\ \A i \in 1..n : T[i] = components[i]
       /\ T[n + 1] = C
  BY <1>2, <1>3, <1>10, AppendProperties
<1> HIDE DEF T, n
<1>12. \A i \in 1..(n + 1) : IsApart(cfg, T[i])
  <2> SUFFICES ASSUME NEW i \in 1..(n + 1) PROVE IsApart(cfg, T[i])
    OBVIOUS
  <2>1. CASE i \in 1..n
    BY <1>4, <1>11, <2>1
  <2>2. CASE i = n + 1
    BY <1>8, <1>11, <2>2
  <2> QED BY <1>3, <2>1, <2>2
<1>13. \A i \in 1..n : components[i] \cap C = {}
  BY <1>5, <1>9
<1>14. \A i, j \in 1..(n + 1) : i # j => T[i] \cap T[j] = {}
  <2> SUFFICES ASSUME NEW i \in 1..(n + 1), NEW j \in 1..(n + 1), i # j
               PROVE  T[i] \cap T[j] = {}
    OBVIOUS
  <2>1. CASE i \in 1..n /\ j \in 1..n
    BY <1>11, <2>1 DEF GroupsRight, n
  <2>2. CASE i \in 1..n /\ j = n + 1
    BY <1>11, <1>13, <2>2
  <2>3. CASE i = n + 1 /\ j \in 1..n
    BY <1>11, <1>13, <2>3
  <2> QED BY <1>3, <2>1, <2>2, <2>3
<1>15. cfg \in Programs /\ comp \in Nat \ {0}
       /\ (phase = "components" => comp = 1 /\ functions = {})
  BY DEF GroupsRight
<1> QED BY <1>2, <1>11, <1>12, <1>14, <1>15 DEF GroupsRight, T, B

\* No other step of the detection changes the components.
LEMMA NextKeepsGroups ==
    ASSUME GroupsRight, Next
    PROVE  GroupsRight'
<1>1. CASE FindComponent
  BY <1>1, FindComponentKeepsGroups
<1>2. ASSUME cfg' = cfg, components' = components, phase' # "components",
             comp' = comp \/ comp' = comp + 1
      PROVE  GroupsRight'
  <2>1. comp' \in Nat \ {0}
    BY <1>2 DEF GroupsRight
  <2> QED BY <1>2, <2>1 DEF GroupsRight
<1>3. CASE ComponentsFound
  BY <1>2, <1>3 DEF ComponentsFound
<1>4. CASE KeepWhole
  BY <1>2, <1>4 DEF KeepWhole, Splitting
<1>5. CASE BeginSplit
  BY <1>2, <1>5 DEF BeginSplit
<1>6. CASE Claim
  BY <1>2, <1>6 DEF Claim
<1>7. CASE PassOver
  BY <1>2, <1>7 DEF PassOver
<1>8. CASE NextEntry
  BY <1>2, <1>8 DEF NextEntry
<1>9. CASE EndSplit
  BY <1>2, <1>9 DEF EndSplit
<1>10. CASE Done
  BY <1>2, <1>10 DEF Done
<1> QED BY <1>1, <1>3, <1>4, <1>5, <1>6, <1>7, <1>8, <1>9, <1>10 DEF Next

-----------------------------------------------------------------------------
(* Functions *)

Blocks(F) == UNION {f.blocks : f \in F}

\* The functions F made of the blocks in O: they keep the blocks their entries
\* lead to, and a block is where the nearest entry is.
Fair(g, F, O) ==
    /\ \A f \in F : f.entry \in Blocks(F)
    /\ \A x \in Blocks(F) : x \in O /\ Succs(g, x) \subseteq Blocks(F)
    /\ \A f, h \in F : \A b \in f.blocks : Distance(g, f.entry, b) <= Distance(g, h.entry, b)

\* Functions of two regions no edge connects do not interfere.
LEMMA FairUnion ==
    ASSUME NEW g, IsFlowGraph(g), NEW O, NEW C, NEW F, NEW N,
           O \subseteq g.blocks, C \subseteq g.blocks, O \cap C = {},
           \A x \in O : Succs(g, x) \subseteq O, \A x \in C : Succs(g, x) \subseteq C,
           Fair(g, F, O), Fair(g, N, C)
    PROVE  Fair(g, F \cup N, O \cup C)
<1> DEFINE U == F \cup N
           D(f, b) == Distance(g, f.entry, b)
<1>1. Blocks(U) = Blocks(F) \cup Blocks(N)
  BY DEF Blocks
<1>2. \A f \in U : f.entry \in Blocks(U)
  BY <1>1 DEF Fair
<1>3. \A x \in Blocks(U) : x \in O \cup C /\ Succs(g, x) \subseteq Blocks(U)
  BY <1>1 DEF Fair
<1>4. /\ \A f \in F : f.entry \in O /\ f.blocks \subseteq O
      /\ \A f \in N : f.entry \in C /\ f.blocks \subseteq C
  BY DEF Fair, Blocks
<1>5. ASSUME NEW f, NEW h, NEW b, f.entry \in g.blocks, NEW X, X \subseteq g.blocks,
             h.entry \in X, b \notin X,
             \A x \in X : Succs(g, x) \subseteq X
      PROVE  D(f, b) <= D(h, b)
  <2>1. D(h, b) = Cardinality(g.blocks) + 1
    BY <1>5, DistanceApart
  <2>2. D(f, b) <= Cardinality(g.blocks) + 1
    BY <1>5, DistanceType
  <2> QED BY <2>1, <2>2
<1>6. ASSUME NEW f \in U, NEW h \in U, NEW b \in f.blocks PROVE D(f, b) <= D(h, b)
  <2> HIDE DEF D
  <2>1. CASE f \in F /\ h \in F
    BY <2>1 DEF Fair, D
  <2>2. CASE f \in N /\ h \in N
    BY <2>2 DEF Fair, D
  <2>3. CASE f \in F /\ h \in N
    <3>1. f.entry \in g.blocks /\ h.entry \in C /\ b \notin C
      BY <1>4, <2>3
    <3> QED BY <1>5, <3>1
  <2>4. CASE f \in N /\ h \in F
    <3>1. f.entry \in g.blocks /\ h.entry \in O /\ b \notin O
      BY <1>4, <2>4
    <3> QED BY <1>5, <3>1
  <2> QED BY <2>1, <2>2, <2>3, <2>4
<1> QED BY <1>2, <1>3, <1>6 DEF Fair


-----------------------------------------------------------------------------
(* The searches of a split *)

\* s is claimed at most d away, or waits to be popped with such a distance.
Near(D, Q, s, d) ==
    \/ D[s] # NoBlock /\ D[s] <= d
    \/ \E e \in Range(Q) : e[1] = s /\ e[2] <= d

\* The state of the searches in component C from the entries E, the t-th
\* running: a distance is the length of a way from the entry that claimed the
\* block, and no edge from a claimed block could still shorten one that does
\* not wait in the queue.
Assigning(g, C, E, t, Q, D, A) ==
    /\ E \in Seq(C) /\ t \in 1..Len(E)
    /\ Q \in Seq(C \X Nat)
    /\ D \in [g.blocks -> Nat \cup {NoBlock}]
    /\ A \in [g.blocks -> Nat \cup {NoBlock}]
    /\ \A b \in g.blocks : D[b] = NoBlock => A[b] = NoBlock
    /\ \A b \in g.blocks : D[b] # NoBlock =>
          b \in C /\ A[b] \in Range(E) /\ b \in Way(g, D[b], A[b])
    /\ \A e \in Range(Q) : e[1] \in Way(g, e[2], E[t])
    /\ \A i \in 1..t : Near(D, Q, E[i], 0)
    /\ \A b \in g.blocks : D[b] # NoBlock =>
          \A s \in Succs(g, b) : Near(D, Q, s, D[b] + 1)

\* Every element of a vector paired with the same number.
Paired(s, k) == [i \in DOMAIN s |-> <<s[i], k>>]

\* The elements of such a vector are the pairs.
LEMMA PairedShape ==
    ASSUME NEW B, NEW s \in Seq(B), NEW C, Range(s) \subseteq C, NEW k \in Nat
    PROVE  /\ Paired(s, k) \in Seq(C \X Nat)
           /\ \A e : e \in Range(Paired(s, k)) <=> \E x \in Range(s) : e = <<x, k>>
<1> DEFINE n == Len(s)
           p == Paired(s, k)
<1>1. n \in Nat /\ DOMAIN s = 1..n
  BY LenProperties
<1>2. \A i \in 1..n : s[i] \in C
  BY <1>1 DEF Range
<1> HIDE DEF n
<1>3. p = [i \in 1..n |-> <<s[i], k>>]
  BY <1>1 DEF Paired
<1>4. p \in [1..n -> C \X Nat]
  BY <1>2, <1>3
<1>5. p \in Seq(C \X Nat)
  <2> DEFINE T == C \X Nat
  <2>1. p \in [1..n -> T]
    BY <1>4
  <2> HIDE DEF p, T
  <2>2. p \in Seq(T)
    BY <1>1, <2>1, SeqDef
  <2> QED BY <2>2 DEF T
<1>6. \A e : e \in Range(p) <=> \E x \in Range(s) : e = <<x, k>>
  BY <1>1, <1>3 DEF Range
<1> QED BY <1>5, <1>6

\* A vector of one element.
LEMMA OneShape ==
    ASSUME NEW S, NEW x \in S
    PROVE  <<x>> \in Seq(S) /\ Range(<<x>>) = {x} /\ Len(<<x>>) = 1
<1>1. <<x>> \in Seq(S) /\ Len(<<x>>) = 1
  OBVIOUS
<1>2. Range(<<x>>) = {x}
  BY DEF Range
<1> QED BY <1>1, <1>2

\* The searches keep to blocks.
LEMMA EntriesAreBlocks ==
    ASSUME NEW g, IsFlowGraph(g), NEW C, IsApart(g, C), NEW E, E \in Seq(C)
    PROVE  /\ Range(E) \subseteq C /\ C \subseteq g.blocks /\ C \subseteq Nat
           /\ Len(E) \in Nat /\ DOMAIN E = 1..Len(E)
           /\ \A i \in 1..Len(E) : E[i] \in C /\ E[i] \in g.blocks /\ E[i] \in Nat
                                     /\ E[i] # NoBlock
<1>1. C \subseteq g.blocks /\ g.blocks \subseteq Nat
  BY DEF IsApart, IsFlowGraph
<1>2. DOMAIN E = 1..Len(E) /\ \A i \in 1..Len(E) : E[i] \in C
  BY LenProperties, ElementOfSeq
<1>3. C \subseteq Nat
  BY <1>1
<1>4. \A x \in Nat : x # NoBlock
  BY DEF NoBlock
<1>5. Range(E) \subseteq C
  BY <1>2 DEF Range
<1>6. \A i \in 1..Len(E) : E[i] \in Nat /\ E[i] \in g.blocks
  BY <1>1, <1>2, <1>3
<1>7. Len(E) \in Nat
  BY LenProperties
<1> QED BY <1>1, <1>2, <1>3, <1>4, <1>5, <1>6, <1>7

\* An entry that does not win is dropped: its block is claimed as near.
LEMMA PassOverKeeps ==
    ASSUME NEW g, NEW C, NEW E, NEW t, NEW Q, NEW D, NEW A,
           Assigning(g, C, E, t, Q, D, A), IsFlowGraph(g), IsApart(g, C), Q # <<>>,
           D[Q[1][1]] # NoBlock, ~(Q[1][2] < D[Q[1][1]])
    PROVE  Assigning(g, C, E, t, Tail(Q), D, A)
<1> DEFINE b == Q[1][1]
           d == Q[1][2]
           T == C \X Nat
           R == Tail(Q)
<1>1. Q \in Seq(T) /\ Head(Q) = Q[1]
  BY DEF Assigning
<1>2. \A e \in T : e[1] \in C /\ e[2] \in Nat
  OBVIOUS
<1> HIDE DEF T
<1>3. Head(Q) \in T /\ Tail(Q) \in Seq(T) /\ Range(Q) = {Head(Q)} \cup Range(Tail(Q))
  BY <1>1, TailRange
<1>4. R \in Seq(T) /\ Range(Q) = {Q[1]} \cup Range(R) /\ b \in C /\ d \in Nat
  BY <1>1, <1>2, <1>3
<1> HIDE DEF R
<1>5. b \in g.blocks /\ D[b] \in Nat /\ D[b] # NoBlock /\ D[b] <= d
  <2>1. b \in g.blocks
    BY <1>4 DEF IsApart
  <2>2. D[b] \in Nat
    BY <2>1 DEF Assigning
  <2> QED BY <1>4, <2>1, <2>2
<1>6. ASSUME NEW s, NEW k \in Int, Near(D, Q, s, k) PROVE Near(D, R, s, k)
  <2>1. CASE D[s] # NoBlock /\ D[s] <= k
    BY <2>1 DEF Near
  <2>2. CASE \E e \in Range(Q) : e[1] = s /\ e[2] <= k
    <3>1. PICK e \in Range(Q) : e[1] = s /\ e[2] <= k
      BY <2>2
    <3>2. CASE e = Q[1]
      <4>1. s = b /\ d <= k
        BY <3>1, <3>2
      <4>2. D[s] <= k
        BY <1>4, <1>5, <4>1
      <4> QED BY <1>5, <4>1, <4>2 DEF Near
    <3>3. CASE e \in Range(R)
      BY <3>1, <3>3 DEF Near
    <3> QED BY <1>4, <3>2, <3>3
  <2> QED BY <1>6, <2>1, <2>2 DEF Near
<1>7. \A i \in 1..t : Near(D, R, E[i], 0)
  BY <1>6 DEF Assigning
<1>8. ASSUME NEW x \in g.blocks, D[x] # NoBlock, NEW s \in Succs(g, x)
      PROVE  Near(D, R, s, D[x] + 1)
  <2>1. D[x] \in Nat
    BY <1>8 DEF Assigning
  <2>2. D[x] + 1 \in Int
    BY <2>1
  <2>3. Near(D, Q, s, D[x] + 1)
    BY <1>8 DEF Assigning
  <2> QED BY <1>6, <2>2, <2>3
<1>9. \A e \in Range(R) : e[1] \in Way(g, e[2], E[t])
  BY <1>4 DEF Assigning
<1> QED BY <1>4, <1>7, <1>8, <1>9 DEF Assigning, R, T


Put(f, x, v) == [f EXCEPT ![x] = v]

\* The blocks that a way of length k improves.
Gaining(C, D, k) == {s \in C : D[s] = NoBlock \/ k < D[s]}

\* A block that wins is claimed, and the neighbours it improves wait.
LEMMA ClaimKeeps ==
    ASSUME NEW g, NEW C, NEW E, NEW t, NEW Q, NEW D, NEW A, NEW b, NEW d, NEW N,
           Assigning(g, C, E, t, Q, D, A), IsFlowGraph(g), IsApart(g, C), Q # <<>>,
           b = Q[1][1], d = Q[1][2], D[b] = NoBlock \/ d <= D[b],
           N = Kept(g.succ[b], Gaining(C, Put(D, b, d), d + 1))
    PROVE  Assigning(g, C, E, t, Tail(Q) \o Paired(N, d + 1), Put(D, b, d), Put(A, b, E[t]))
<1> DEFINE T == C \X Nat
           P == Paired(N, d + 1)
           R == Tail(Q) \o P
           D2 == Put(D, b, d)
           A2 == Put(A, b, E[t])
           Better == Gaining(C, D2, d + 1)
<1>1. Q \in Seq(T) /\ Head(Q) = Q[1]
  BY DEF Assigning
<1>2. \A e \in T : e[1] \in C /\ e[2] \in Nat
  OBVIOUS
<1>3. N = Kept(g.succ[b], Better)
  OBVIOUS
<1>4. C \subseteq g.blocks /\ \A x \in C : Succs(g, x) \subseteq C
  BY DEF IsApart
<1> HIDE DEF T
<1>5. Head(Q) \in T /\ Tail(Q) \in Seq(T) /\ Range(Q) = {Head(Q)} \cup Range(Tail(Q))
  BY <1>1, TailRange
<1>6. Range(Q) = {Q[1]} \cup Range(Tail(Q)) /\ b \in C /\ d \in Nat /\ b \in g.blocks
  BY <1>1, <1>2, <1>4, <1>5
<1>7. /\ D \in [g.blocks -> Nat \cup {NoBlock}] /\ A \in [g.blocks -> Nat \cup {NoBlock}]
      /\ E \in Seq(C) /\ t \in 1..Len(E)
  BY DEF Assigning
<1>8. d # NoBlock
  BY <1>6 DEF NoBlock
<1>9. E[t] \in C /\ E[t] \in g.blocks /\ E[t] \in Nat /\ E[t] \in Range(E)
  <2>1. E[t] \in C /\ E[t] \in g.blocks /\ E[t] \in Nat /\ DOMAIN E = 1..Len(E)
    BY <1>7, EntriesAreBlocks
  <2> QED BY <1>7, <2>1 DEF Range
<1>10. /\ D2 \in [g.blocks -> Nat \cup {NoBlock}] /\ A2 \in [g.blocks -> Nat \cup {NoBlock}]
       /\ D2[b] = d /\ A2[b] = E[t]
       /\ \A x \in g.blocks : x # b => D2[x] = D[x] /\ A2[x] = A[x]
  BY <1>6, <1>7, <1>9 DEF Put
<1> HIDE DEF D2, A2
<1>11. Range(N) = Succs(g, b) \cap Better /\ N \in Seq(g.blocks)
  <2> DEFINE B == g.blocks
             v == g.succ[b]
  <2>1. v \in Seq(B) /\ Succs(g, b) = Range(v) /\ N = Kept(v, Better)
    BY <1>3, <1>6 DEF IsFlowGraph, Succs
  <2> HIDE DEF Better, B, v
  <2>2. Kept(v, Better) \in Seq(B) /\ Range(Kept(v, Better)) = Range(v) \cap Better
    BY <2>1, KeptRange
  <2> QED BY <2>1, <2>2 DEF B
<1>12. Range(N) \subseteq C
  BY <1>11 DEF Gaining
<1>13. P \in Seq(T) /\ \A e : e \in Range(P) <=> \E x \in Range(N) : e = <<x, d + 1>>
  <2> DEFINE k == d + 1
             B == g.blocks
  <2>1. k \in Nat /\ N \in Seq(B)
    BY <1>6, <1>11
  <2>2. P = Paired(N, k)
    OBVIOUS
  <2> HIDE DEF Better, k, P, B
  <2>3. k \in Nat /\ N \in Seq(B) /\ Range(N) \subseteq C
    BY <1>12, <2>1
  <2>4. Paired(N, k) \in Seq(C \X Nat)
    BY ONLY <2>3, PairedShape
  <2>5. \A e : e \in Range(Paired(N, k)) <=> \E x \in Range(N) : e = <<x, k>>
    BY ONLY <2>3, PairedShape
  <2> QED BY <2>2, <2>4, <2>5 DEF T, k
<1> HIDE DEF P, Better
<1>14. R \in Seq(T) /\ Range(R) = Range(Tail(Q)) \cup Range(P)
  <2> DEFINE q == Tail(Q)
  <2>1. q \in Seq(T) /\ P \in Seq(T) /\ R = q \o P
    BY <1>5, <1>13
  <2> HIDE DEF q, R
  <2>2. R \in Seq(T) /\ Range(R) = Range(q) \cup Range(P)
    BY <2>1, ConcatRange
  <2> QED BY <2>2 DEF q
<1> HIDE DEF R
<1>15. ASSUME NEW s, NEW k \in Int, Near(D, Q, s, k), s \in g.blocks PROVE Near(D2, R, s, k)
  <2>1. CASE D[s] # NoBlock /\ D[s] <= k
    <3>1. CASE s = b
      <4>1. D[b] \in Nat /\ d <= D[b]
        BY <1>7, <1>15, <2>1, <3>1
      <4>2. d <= k
        BY <1>6, <1>15, <2>1, <3>1, <4>1
      <4> QED BY <1>8, <1>10, <3>1, <4>2 DEF Near
    <3>2. CASE s # b
      BY <1>10, <1>15, <2>1, <3>2 DEF Near
    <3> QED BY <3>1, <3>2
  <2>2. CASE \E e \in Range(Q) : e[1] = s /\ e[2] <= k
    <3>1. PICK e \in Range(Q) : e[1] = s /\ e[2] <= k
      BY <2>2
    <3>2. CASE e = Q[1]
      <4>1. s = b /\ d <= k
        BY <3>1, <3>2
      <4> QED BY <1>8, <1>10, <4>1 DEF Near
    <3>3. CASE e \in Range(Tail(Q))
      BY <1>14, <3>1, <3>3 DEF Near
    <3> QED BY <1>6, <3>2, <3>3
  <2> QED BY <1>15, <2>1, <2>2 DEF Near
<1>16. \A i \in 1..t : Near(D2, R, E[i], 0)
  <2> SUFFICES ASSUME NEW i \in 1..t PROVE Near(D2, R, E[i], 0)
    OBVIOUS
  <2>1. Near(D, Q, E[i], 0)
    BY DEF Assigning
  <2>2. i \in 1..Len(E)
    <3>1. Len(E) \in Nat
      BY <1>7, LenProperties
    <3> QED BY <1>7, <3>1
  <2>3. E[i] \in g.blocks
    BY <1>7, <2>2, EntriesAreBlocks
  <2> QED BY <1>15, <2>1, <2>3
<1>17. ASSUME NEW x \in g.blocks, D2[x] # NoBlock, NEW s \in Succs(g, x)
       PROVE  Near(D2, R, s, D2[x] + 1)
  <2>0. s \in g.blocks
    BY SuccsAreBlocks
  <2>1. CASE x = b
    <3>1. s \in C
      BY <1>4, <1>6, <2>1
    <3>2. CASE s \in Better
      <4>1. <<s, d + 1>> \in Range(R)
        BY <1>11, <1>13, <1>14, <2>1, <3>2
      <4>2. d + 1 <= D2[x] + 1
        BY <1>6, <1>10, <2>1
      <4>3. \E e \in Range(R) : e[1] = s /\ e[2] <= D2[x] + 1
        <5> DEFINE e == <<s, d + 1>>
        <5>1. e \in Range(R) /\ e[1] = s /\ e[2] <= D2[x] + 1
          BY <4>1, <4>2
        <5> HIDE DEF e
        <5> QED BY <5>1
      <4> QED BY <4>3 DEF Near
    <3>3. CASE s \notin Better
      <4>1. D2[s] # NoBlock /\ ~(d + 1 < D2[s])
        BY <3>1, <3>3 DEF Better, Gaining
      <4>2. D2[s] \in Nat
        BY <1>10, <2>0, <4>1
      <4>3. D2[s] <= d + 1
        BY <1>6, <4>1, <4>2
      <4> QED BY <1>10, <2>1, <4>1, <4>3 DEF Near
    <3> QED BY <3>2, <3>3
  <2>2. CASE x # b
    <3>1. D2[x] = D[x] /\ D[x] # NoBlock
      BY <1>10, <1>17, <2>2
    <3>2. D[x] \in Nat
      BY <1>7, <3>1
    <3>3. Near(D, Q, s, D[x] + 1)
      BY <3>1 DEF Assigning
    <3>4. D[x] + 1 \in Int
      BY <3>2
    <3> QED BY <1>15, <2>0, <3>1, <3>3, <3>4
  <2> QED BY <2>1, <2>2
<1>18. Q[1] \in Range(Q) /\ b \in Way(g, d, E[t])
  <2>1. Q[1] \in Range(Q)
    BY <1>6
  <2> QED BY <2>1 DEF Assigning
<1>19. ASSUME NEW e \in Range(R) PROVE e[1] \in Way(g, e[2], E[t])
  <2>1. CASE e \in Range(Tail(Q))
    BY <1>6, <2>1 DEF Assigning
  <2>2. CASE e \in Range(P)
    <3>1. PICK x \in Succs(g, b) : e = <<x, d + 1>>
      BY <1>11, <1>13, <2>2
    <3>2. Way(g, d + 1, E[t]) = Way(g, d, E[t]) \cup UNION {Succs(g, y) : y \in Way(g, d, E[t])}
      BY <1>6, <1>9, WayStep
    <3>3. x \in Way(g, d + 1, E[t])
      BY <1>18, <3>2
    <3> QED BY <3>1, <3>3
  <2> QED BY <1>14, <2>1, <2>2
<1>20. ASSUME NEW x \in g.blocks
       PROVE  /\ D2[x] = NoBlock => A2[x] = NoBlock
              /\ D2[x] # NoBlock =>
                    x \in C /\ A2[x] \in Range(E) /\ x \in Way(g, D2[x], A2[x])
  <2>1. CASE x = b
    BY <1>6, <1>8, <1>9, <1>10, <1>18, <2>1
  <2>2. CASE x # b
    BY <1>10, <2>2 DEF Assigning
  <2> QED BY <2>1, <2>2
<1>21. Assigning(g, C, E, t, R, D2, A2)
  BY <1>7, <1>10, <1>14, <1>16, <1>17, <1>19, <1>20 DEF Assigning, T
<1> QED BY <1>21 DEF R, P, D2, A2

\* The search from the next entry starts when the last one has run dry.
LEMMA NextEntryKeeps ==
    ASSUME NEW g, NEW C, NEW E, NEW t, NEW Q, NEW D, NEW A,
           Assigning(g, C, E, t, Q, D, A), IsFlowGraph(g), IsApart(g, C), Q = <<>>,
           t < Len(E)
    PROVE  Assigning(g, C, E, t + 1, <<<<E[t + 1], 0>>>>, D, A)
<1> DEFINE x == E[t + 1]
           e == <<x, 0>>
           R == <<e>>
           T == C \X Nat
<1>1. E \in Seq(C) /\ t \in 1..Len(E) /\ Len(E) \in Nat
  BY LenProperties DEF Assigning
<1>2. t + 1 \in 1..Len(E)
  BY <1>1
<1>3. x \in C /\ x \in g.blocks
  BY <1>1, <1>2, EntriesAreBlocks
<1>4. e \in T /\ e[1] = x /\ e[2] = 0
  BY <1>3
<1> HIDE DEF e, T
<1>5. R \in Seq(T) /\ Range(R) = {e}
  BY <1>4, OneShape
<1> HIDE DEF R
<1>6. Range(Q) = {}
  BY DEF Range
<1>7. \A s, k : Near(D, Q, s, k) => Near(D, R, s, k)
  BY <1>6 DEF Near
<1>8. x \in Way(g, 0, x)
  BY <1>3, WayStep
<1>9. \A f \in Range(R) : f[1] \in Way(g, f[2], x)
  BY <1>4, <1>5, <1>8
<1>10. \A i \in 1..(t + 1) : Near(D, R, E[i], 0)
  <2> SUFFICES ASSUME NEW i \in 1..(t + 1) PROVE Near(D, R, E[i], 0)
    OBVIOUS
  <2>1. CASE i \in 1..t
    BY <1>7, <2>1 DEF Assigning
  <2>2. CASE i = t + 1
    <3>1. e \in Range(R) /\ e[1] = E[i] /\ e[2] <= 0
      BY <1>4, <1>5, <2>2
    <3> QED BY <3>1 DEF Near
  <2> QED BY <1>1, <2>1, <2>2
<1>11. \A b \in g.blocks : D[b] # NoBlock => \A s \in Succs(g, b) : Near(D, R, s, D[b] + 1)
  BY <1>7 DEF Assigning
<1>12. /\ D \in [g.blocks -> Nat \cup {NoBlock}] /\ A \in [g.blocks -> Nat \cup {NoBlock}]
       /\ \A b \in g.blocks : D[b] = NoBlock => A[b] = NoBlock
       /\ \A b \in g.blocks : D[b] # NoBlock =>
             b \in C /\ A[b] \in Range(E) /\ b \in Way(g, D[b], A[b])
  BY DEF Assigning
<1>13. Assigning(g, C, E, t + 1, R, D, A)
  BY <1>1, <1>2, <1>5, <1>9, <1>10, <1>11, <1>12 DEF Assigning, T
<1> QED BY <1>13 DEF R, e


\* When the last search has run dry, a block is claimed at no more than its
\* distance from any entry.
LEMMA SettledIsNearest ==
    ASSUME NEW g, NEW C, NEW E, NEW Q, NEW D, NEW A,
           Assigning(g, C, E, Len(E), Q, D, A), IsFlowGraph(g), IsApart(g, C), Q = <<>>,
           NEW i \in 1..Len(E), NEW k \in Nat, NEW x \in Way(g, k, E[i])
    PROVE  x \in g.blocks /\ D[x] \in Nat /\ D[x] <= k
<1> DEFINE e == E[i]
           Good(m) == \A y \in Way(g, m, e) : y \in g.blocks /\ D[y] \in Nat /\ D[y] <= m
           P == {m \in 0..k : Good(m)}
<1>1. E \in Seq(C) /\ D \in [g.blocks -> Nat \cup {NoBlock}]
  BY DEF Assigning
<1>2. e \in g.blocks
  BY <1>1, EntriesAreBlocks
<1>3. Range(Q) = {}
  BY DEF Range
<1>4. \A s, m : Near(D, Q, s, m) => D[s] # NoBlock /\ D[s] <= m
  BY <1>3 DEF Near
<1>5. D[e] # NoBlock /\ D[e] <= 0
  BY <1>4 DEF Assigning
<1>6. \A y \in g.blocks : D[y] # NoBlock => \A s \in Succs(g, y) : D[s] # NoBlock /\ D[s] <= D[y] + 1
  BY <1>4 DEF Assigning
<1> HIDE DEF e
<1>7. 0 \in P
  <2>1. Way(g, 0, e) = {e}
    BY <1>2, WayStep
  <2>2. D[e] \in Nat
    BY <1>1, <1>2, <1>5
  <2> QED BY <1>2, <1>5, <2>1, <2>2
<1>8. ASSUME NEW m \in 1..k, m - 1 \in P PROVE m \in P
  <2> DEFINE W == Way(g, m - 1, e)
  <2>1. m - 1 \in Nat /\ (m - 1) + 1 = m /\ m \in 0..k
    OBVIOUS
  <2>2. Way(g, (m - 1) + 1, e) = W \cup UNION {Succs(g, y) : y \in W}
    BY <1>2, <2>1, WayStep
  <2>3. \A y \in W : y \in g.blocks /\ D[y] \in Nat /\ D[y] <= m - 1
    BY <1>8
  <2>4. Way(g, m, e) = W \cup UNION {Succs(g, y) : y \in W}
    BY <2>1, <2>2
  <2> HIDE DEF W
  <2>5. ASSUME NEW y \in W, NEW s \in Succs(g, y)
        PROVE  s \in g.blocks /\ D[s] \in Nat /\ D[s] <= m
    <3>1. y \in g.blocks /\ D[y] \in Nat /\ D[y] <= m - 1 /\ D[y] # NoBlock
      BY <2>3 DEF NoBlock
    <3>2. s \in g.blocks
      BY <3>1, SuccsAreBlocks
    <3>3. D[s] # NoBlock /\ D[s] <= D[y] + 1
      BY <1>6, <3>1
    <3>4. D[s] \in Nat
      BY <1>1, <3>2, <3>3
    <3> QED BY <3>1, <3>2, <3>3, <3>4
  <2>6. ASSUME NEW y \in W PROVE y \in g.blocks /\ D[y] \in Nat /\ D[y] <= m
    <3>1. y \in g.blocks /\ D[y] \in Nat /\ D[y] <= m - 1
      BY <2>3
    <3> QED BY <3>1
  <2>7. Good(m)
    BY <2>4, <2>5, <2>6
  <2> HIDE DEF Good
  <2> QED BY <2>1, <2>7
<1> HIDE DEF P
<1>9. 0..k \subseteq P
  <2>1. k \in Nat
    OBVIOUS
  <2> QED BY ONLY <1>7, <1>8, <2>1, Induct
<1>10. k \in P
  BY <1>9
<1> QED BY <1>10 DEF P, e

\* The functions of a component that was split.
LEMMA SplitIsFair ==
    ASSUME NEW C, NEW E, NEW Q, NEW D, NEW A,
           Assigning(cfg, C, E, Len(E), Q, D, A), IsFlowGraph(cfg), IsApart(cfg, C), Q = <<>>
    PROVE  Fair(cfg, RawFunctions(E, A), C)
<1> DEFINE N == RawFunctions(E, A)
           K == {b \in cfg.blocks : D[b] # NoBlock}
<1>1. E \in Seq(C) /\ D \in [cfg.blocks -> Nat \cup {NoBlock}]
  BY DEF Assigning
<1>2. /\ Len(E) \in Nat /\ DOMAIN E = 1..Len(E)
      /\ \A i \in 1..Len(E) : E[i] \in C /\ E[i] \in cfg.blocks /\ E[i] \in Nat
                                /\ E[i] # NoBlock
  BY <1>1, EntriesAreBlocks
<1>3. \A f \in N : \E i \in 1..Len(E) :
          f.entry = E[i] /\ f.blocks = {b \in cfg.blocks : A[b] = E[i]}
  BY <1>2 DEF RawFunctions, Claimed
<1>4. \A b \in K : b \in C /\ A[b] \in Range(E) /\ b \in Way(cfg, D[b], A[b])
  BY DEF Assigning
<1>5. \A b \in cfg.blocks : b \notin K => A[b] = NoBlock
  BY DEF Assigning
<1>6. Blocks(N) = K
  <2>1. ASSUME NEW b \in Blocks(N) PROVE b \in K
    BY <1>2, <1>3, <1>5 DEF Blocks
  <2>2. ASSUME NEW b \in K PROVE b \in Blocks(N)
    <3>1. PICK i \in 1..Len(E) : A[b] = E[i]
      BY <1>2, <1>4 DEF Range
    <3> DEFINE f == [entry |-> E[i], blocks |-> Claimed(A, E[i])]
    <3>2. b \in Claimed(A, E[i])
      BY <3>1 DEF Claimed
    <3>3. f \in N
      BY <1>2, <3>2 DEF RawFunctions
    <3>4. f.blocks = Claimed(A, E[i])
      OBVIOUS
    <3> HIDE DEF f, N
    <3> QED BY <3>2, <3>3, <3>4 DEF Blocks
  <2> QED BY <2>1, <2>2
<1> HIDE DEF N
<1>7. \A x \in Nat : x # NoBlock
  BY DEF NoBlock
<1>8. ASSUME NEW i \in 1..Len(E), NEW k \in Nat, NEW x \in Way(cfg, k, E[i])
      PROVE  x \in K /\ D[x] \in Nat /\ D[x] <= k
  <2>1. x \in cfg.blocks /\ D[x] \in Nat /\ D[x] <= k
    BY SettledIsNearest
  <2> QED BY <1>7, <2>1
<1>9. \A i \in 1..Len(E) : E[i] \in K
  <2> SUFFICES ASSUME NEW i \in 1..Len(E) PROVE E[i] \in K
    OBVIOUS
  <2>1. E[i] \in Way(cfg, 0, E[i])
    BY <1>2, WayStep
  <2> QED BY <1>8, <2>1
<1>10. ASSUME NEW x \in K PROVE Succs(cfg, x) \subseteq K
  <2>1. PICK i \in 1..Len(E) : A[x] = E[i]
    BY <1>2, <1>4 DEF Range
  <2>2. D[x] \in Nat
    BY <1>1
  <2>3. x \in Way(cfg, D[x], E[i]) /\ E[i] \in cfg.blocks
    BY <1>2, <1>4, <2>1
  <2>4. Succs(cfg, x) \subseteq Way(cfg, D[x] + 1, E[i])
    <3> DEFINE W == Way(cfg, D[x], E[i])
    <3>1. Way(cfg, D[x] + 1, E[i]) = W \cup UNION {Succs(cfg, y) : y \in W}
      BY <2>2, <2>3, WayStep
    <3> HIDE DEF W
    <3>2. x \in W
      BY <2>3 DEF W
    <3> QED BY <3>1, <3>2
  <2>5. D[x] + 1 \in Nat
    BY <2>2
  <2> QED BY <1>8, <2>4, <2>5
<1>11. ASSUME NEW f \in N, NEW h \in N, NEW b \in f.blocks
       PROVE  Distance(cfg, f.entry, b) <= Distance(cfg, h.entry, b)
  <2> DEFINE n == Cardinality(cfg.blocks)
             df == Distance(cfg, f.entry, b)
             dh == Distance(cfg, h.entry, b)
  <2>1. PICK i \in 1..Len(E) : f.entry = E[i] /\ f.blocks = {x \in cfg.blocks : A[x] = E[i]}
    BY <1>3
  <2>2. PICK j \in 1..Len(E) : h.entry = E[j]
    BY <1>3
  <2>3. b \in K /\ A[b] = f.entry /\ f.entry \in cfg.blocks /\ h.entry \in cfg.blocks
    BY <1>2, <1>5, <2>1, <2>2
  <2>4. D[b] \in Nat
    BY <1>1, <2>3
  <2>5. df \in Nat /\ dh \in Nat /\ n \in Nat
    BY <2>3, DistanceType
  <2>6. df <= D[b] /\ df <= n
    <3>1. b \in Way(cfg, D[b], f.entry)
      BY <1>4, <2>3
    <3> QED BY <2>3, <2>4, <3>1, DistanceOfWay
  <2>7. dh = n + 1 \/ b \in Way(cfg, dh, E[j])
    BY <2>2, <2>3, DistanceType
  <2> HIDE DEF n, df, dh
  <2>8. ASSUME dh = n + 1 PROVE df <= dh
    BY <2>5, <2>6, <2>8
  <2>9. ASSUME b \in Way(cfg, dh, E[j]) PROVE df <= dh
    <3>1. D[b] <= dh
      BY <1>8, <2>5, <2>9
    <3> QED BY <2>4, <2>5, <2>6, <3>1
  <2>10. df <= dh
    BY <2>7, <2>8, <2>9
  <2> QED BY <2>10 DEF df, dh
<1>12. \A f \in N : f.entry \in K
  BY <1>3, <1>9
<1>13. \A x \in K : x \in C /\ Succs(cfg, x) \subseteq K
  BY <1>4, <1>10
<1>14. Fair(cfg, N, C)
  BY <1>6, <1>11, <1>12, <1>13 DEF Fair
<1> QED BY <1>14 DEF N

\* The entry of a component is one of its blocks.
LEMMA ComponentEntryIn ==
    ASSUME NEW g, IsFlowGraph(g), NEW C, IsApart(g, C)
    PROVE  ComponentEntry(g, C) \in C /\ ComponentEntry(g, C) \in g.blocks
<1> DEFINE noPred == {b \in C : Preds(g, b) \cap C = {}}
           S == IF noPred # {} THEN noPred ELSE C
<1>1. S \subseteq C /\ S # {} /\ C \subseteq g.blocks /\ g.blocks \subseteq Nat
  BY DEF IsApart, IsFlowGraph
<1>2. ComponentEntry(g, C) = MinOf(S)
  BY DEF ComponentEntry
<1> HIDE DEF S
<1>3. S \subseteq Nat
  BY <1>1
<1>4. MinOf(S) \in S
  BY <1>1, <1>3, MinOfIsLeast
<1> QED BY <1>1, <1>2, <1>4

\* A component kept whole is one function.
LEMMA WholeIsFair ==
    ASSUME NEW g, IsFlowGraph(g), NEW C, IsApart(g, C)
    PROVE  Fair(g, {[entry |-> ComponentEntry(g, C), blocks |-> C]}, C)
<1> DEFINE f == [entry |-> ComponentEntry(g, C), blocks |-> C]
           N == {f}
<1>1. f.entry \in C /\ f.blocks = C /\ f.entry \in g.blocks
  BY ComponentEntryIn
<1> HIDE DEF f
<1>2. Blocks(N) = C
  BY <1>1 DEF Blocks
<1>3. \A b : Distance(g, f.entry, b) <= Distance(g, f.entry, b)
  <2> SUFFICES ASSUME NEW b PROVE Distance(g, f.entry, b) <= Distance(g, f.entry, b)
    OBVIOUS
  <2>1. Distance(g, f.entry, b) \in Nat
    BY <1>1, DistanceType
  <2> QED BY <2>1
<1>4. Fair(g, N, C)
  BY <1>1, <1>2, <1>3 DEF Fair, IsApart
<1> QED BY <1>4 DEF f

\* A split starts with the entry of the component waiting.
LEMMA SplitStarts ==
    ASSUME NEW g, IsFlowGraph(g), NEW C, IsApart(g, C)
    PROVE  Assigning(g, C, <<ComponentEntry(g, C)>> \o Sorted(PrologueEntries(g, C)), 1,
                     <<<<ComponentEntry(g, C), 0>>>>,
                     [b \in g.blocks |-> NoBlock], [b \in g.blocks |-> NoBlock])
<1> DEFINE x == ComponentEntry(g, C)
           P == PrologueEntries(g, C)
           s == <<x>>
           S == Sorted(P)
           E == s \o S
           e == <<x, 0>>
           T == C \X Nat
           R == <<e>>
           D == [b \in g.blocks |-> NoBlock]
<1>1. x \in C /\ x \in g.blocks
  BY ComponentEntryIn
<1>2. P \subseteq C /\ P \subseteq Nat /\ IsFiniteSet(P)
  <2>1. P \subseteq C /\ P \subseteq g.blocks /\ IsFiniteSet(g.blocks) /\ g.blocks \subseteq Nat
    BY DEF PrologueEntries, IsApart, IsFlowGraph
  <2> HIDE DEF P
  <2>2. IsFiniteSet(P)
    BY <2>1, FS_Subset
  <2> QED BY <2>1, <2>2
<1> HIDE DEF x, P
<1>3. S \in Seq(C)
  <2>1. S \in Seq(P)
    BY <1>2, SortedShape
  <2> HIDE DEF S
  <2> QED BY <1>2, <2>1, SeqMonotonic
<1>4. s \in Seq(C) /\ Len(s) = 1 /\ s[1] = x
  BY <1>1, OneShape
<1> HIDE DEF s, S
<1>5. E \in Seq(C) /\ Len(E) = 1 + Len(S) /\ Len(S) \in Nat /\ E[1] = x
  <2>1. Len(S) \in Nat
    BY <1>3, LenProperties
  <2>2. /\ E \in Seq(C) /\ Len(E) = Len(s) + Len(S)
        /\ \A i \in 1..(Len(s) + Len(S)) : E[i] = IF i <= Len(s) THEN s[i] ELSE S[i - Len(s)]
    BY <1>3, <1>4, ConcatProperties
  <2> HIDE DEF E
  <2>3. 1 \in 1..(Len(s) + Len(S)) /\ 1 <= Len(s)
    BY <1>4, <2>1
  <2> QED BY <1>4, <2>1, <2>2, <2>3
<1> HIDE DEF E
<1>6. e \in T /\ e[1] = x /\ e[2] = 0
  BY <1>1
<1> HIDE DEF e, T
<1>7. R \in Seq(T) /\ Range(R) = {e}
  BY <1>6, OneShape
<1> HIDE DEF R
<1>8. x \in Way(g, 0, x)
  BY <1>1, WayStep
<1>9. \A f \in Range(R) : f[1] \in Way(g, f[2], E[1])
  BY <1>5, <1>6, <1>7, <1>8
<1>10. \A i \in 1..1 : Near(D, R, E[i], 0)
  <2>1. e \in Range(R) /\ e[1] = E[1] /\ e[2] <= 0
    BY <1>5, <1>6, <1>7
  <2> QED BY <2>1 DEF Near
<1>11. /\ D \in [g.blocks -> Nat \cup {NoBlock}]
       /\ \A b \in g.blocks : D[b] = NoBlock
  OBVIOUS
<1>12. 1 \in 1..Len(E)
  BY <1>5
<1> HIDE DEF D
<1>13. Assigning(g, C, E, 1, R, D, D)
  BY <1>5, <1>7, <1>9, <1>10, <1>11, <1>12 DEF Assigning, T
<1> QED BY <1>13 DEF E, R, D, e, s, S, x, P


-----------------------------------------------------------------------------
(* Steps of the detection *)

\* The blocks of the components that are done.
Old == UNION {components[i] : i \in {j \in 1..Len(components) : j < comp}}

Detecting == phase \in {"components", "split", "assign", "done"}

SplitsRight ==
    /\ Detecting => Fair(cfg, functions, Old)
    /\ phase = "assign" =>
          /\ comp <= Len(components)
          /\ Assigning(cfg, components[comp], entries, turn, queue, distances, assignments)

\* No function is fair.
LEMMA NoneIsFair ==
    ASSUME NEW g, NEW O
    PROVE  Fair(g, {}, O)
BY DEF Fair, Blocks

\* A component is finished with the functions N.
LEMMA FinishComponent ==
    ASSUME GroupsRight, SplitsRight, Detecting, comp <= Len(components), NEW N,
           Fair(cfg, N, components[comp]), cfg' = cfg, components' = components,
           comp' = comp + 1, functions' = functions \cup N
    PROVE  Fair(cfg', functions', Old')
<1> DEFINE n == Len(components)
           C == components[comp]
           O == Old
<1>1. IsFlowGraph(cfg) /\ n \in Nat /\ comp \in 1..n
  BY ProgramGraph, LenProperties DEF GroupsRight
<1>2. \A i \in 1..n : components[i] \subseteq cfg.blocks
                        /\ \A x \in components[i] : Succs(cfg, x) \subseteq components[i]
  BY DEF GroupsRight, IsApart
<1>3. \A x : x \in O <=> \E i \in 1..n : i < comp /\ x \in components[i]
  BY DEF Old
<1>4. \A x : x \in Old' <=> \E i \in 1..n : i < comp + 1 /\ x \in components[i]
  BY DEF Old
<1>5. \A i \in 1..n : i # comp => components[i] \cap C = {}
  BY <1>1 DEF GroupsRight
<1>6. \A i \in 1..n : i < comp => i # comp
  BY <1>1
<1>7. \A i \in 1..n : i < comp + 1 <=> i < comp \/ i = comp
  BY <1>1
<1> HIDE DEF n, C, O
<1>8. Old' = O \cup C
  BY <1>1, <1>3, <1>4, <1>7 DEF C
<1>9. O \cap C = {}
  BY <1>3, <1>5, <1>6
<1>10. O \subseteq cfg.blocks /\ \A x \in O : Succs(cfg, x) \subseteq O
  BY <1>2, <1>3
<1>11. C \subseteq cfg.blocks /\ \A x \in C : Succs(cfg, x) \subseteq C
  BY <1>1, <1>2 DEF C
<1>12. Fair(cfg, functions, O) /\ Fair(cfg, N, C)
  BY DEF SplitsRight, O, C
<1>13. Fair(cfg, functions \cup N, O \cup C)
  BY <1>1, <1>9, <1>10, <1>11, <1>12, FairUnion
<1> QED BY <1>8, <1>13

\* Every step of the detection keeps the searches and functions right.
LEMMA NextKeepsSplits ==
    ASSUME GroupsRight, SplitsRight, Next
    PROVE  SplitsRight'
<1> DEFINE C == components[comp]
<1>1. IsFlowGraph(cfg)
  BY ProgramGraph DEF GroupsRight
<1>2. ASSUME comp <= Len(components) PROVE IsApart(cfg, C)
  <2>1. comp \in 1..Len(components)
    BY <1>2, LenProperties DEF GroupsRight
  <2> QED BY <2>1 DEF GroupsRight
<1>3. CASE FindComponent
  <2>1. functions' = {} /\ phase' = "components"
    BY <1>3 DEF FindComponent, GroupsRight
  <2> QED BY <2>1, NoneIsFair DEF SplitsRight
<1>4. CASE ComponentsFound
  BY <1>4 DEF ComponentsFound, SplitsRight, Detecting, Old
<1>5. CASE KeepWhole
  <2> DEFINE N == {[entry |-> ComponentEntry(cfg, C), blocks |-> C]}
  <2>1. /\ Detecting /\ comp <= Len(components) /\ cfg' = cfg /\ components' = components
        /\ comp' = comp + 1 /\ functions' = functions \cup N /\ phase' = "split"
    BY <1>5 DEF KeepWhole, Splitting, Detecting
  <2>2. Fair(cfg, N, C)
    BY <1>1, <1>2, <2>1, WholeIsFair
  <2> HIDE DEF N
  <2>3. Fair(cfg', functions', Old')
    BY <2>1, <2>2, FinishComponent
  <2> QED BY <2>1, <2>3 DEF SplitsRight
<1>6. CASE BeginSplit
  <2>1. /\ phase = "split" /\ phase' = "assign" /\ comp <= Len(components) /\ cfg' = cfg
        /\ components' = components /\ comp' = comp /\ functions' = functions
    BY <1>6 DEF BeginSplit, Splitting
  <2>2. /\ entries' = <<ComponentEntry(cfg, C)>> \o Sorted(PrologueEntries(cfg, C))
        /\ queue' = <<<<ComponentEntry(cfg, C), 0>>>> /\ turn' = 1
        /\ distances' = [b \in cfg.blocks |-> NoBlock]
        /\ assignments' = [b \in cfg.blocks |-> NoBlock]
    BY <1>6 DEF BeginSplit
  <2>3. Assigning(cfg, C, entries', turn', queue', distances', assignments')
    BY <1>1, <1>2, <2>1, <2>2, SplitStarts
  <2>4. Fair(cfg', functions', Old')
    BY <2>1 DEF SplitsRight, Detecting, Old
  <2> QED BY <2>1, <2>3, <2>4 DEF SplitsRight
<1>7. CASE Claim
  <2> DEFINE b == queue[1][1]
             d == queue[1][2]
             N == Improved(b, d, [distances EXCEPT ![b] = d])
  <2>1. /\ phase = "assign" /\ phase' = "assign" /\ cfg' = cfg /\ components' = components
        /\ comp' = comp /\ functions' = functions /\ entries' = entries /\ turn' = turn
        /\ queue # <<>> /\ Wins(b, d)
        /\ distances' = [distances EXCEPT ![b] = d]
        /\ assignments' = [assignments EXCEPT ![b] = entries[turn]]
        /\ queue' = Tail(queue) \o [i \in DOMAIN N |-> <<N[i], d + 1>>]
    BY <1>7 DEF Claim
  <2>2. /\ comp <= Len(components) /\ Fair(cfg, functions, Old)
        /\ Assigning(cfg, C, entries, turn, queue, distances, assignments)
    BY <2>1 DEF SplitsRight, Detecting
  <2>3. IsApart(cfg, C)
    BY <1>2, <2>2
  <2>4. distances[b] = NoBlock \/ d <= distances[b]
    <3>1. d \in Int /\ distances[b] \in Int
      <4> DEFINE T == C \X Nat
      <4>1. queue \in Seq(T) /\ distances \in [cfg.blocks -> Nat \cup {NoBlock}]
        BY <2>2 DEF Assigning
      <4>2. \A e \in T : e[1] \in C /\ e[2] \in Nat
        OBVIOUS
      <4> HIDE DEF T
      <4>3. Head(queue) \in T /\ Head(queue) = queue[1]
        BY <2>1, <4>1, TailRange
      <4>4. b \in cfg.blocks /\ d \in Nat
        BY <2>3, <4>2, <4>3 DEF IsApart
      <4> QED BY <4>1, <4>4 DEF NoBlock
    <3> HIDE DEF b, d
    <3> QED BY <2>1, <3>1 DEF Wins
  <2> DEFINE D2 == Put(distances, b, d)
             A2 == Put(assignments, b, entries[turn])
             R == Tail(queue) \o Paired(N, d + 1)
  <2>5. N = Kept(cfg.succ[b], Gaining(C, D2, d + 1))
    BY DEF Improved, Gaining, Put
  <2>6. Assigning(cfg, C, entries, turn, queue', distances', assignments')
    <3>1. Assigning(cfg, C, entries, turn, R, D2, A2)
      <4> HIDE DEF N, C
      <4> QED BY <1>1, <2>1, <2>2, <2>3, <2>4, <2>5, ClaimKeeps
    <3>2. R = queue' /\ D2 = distances' /\ A2 = assignments'
      BY <2>1 DEF Put, Paired
    <3> HIDE DEF R, D2, A2
    <3> QED BY <3>1, <3>2
  <2>7. Old' = Old
    BY <2>1 DEF Old
  <2> HIDE DEF N, b, d, D2, A2, R
  <2>8. Fair(cfg', functions', Old')
    BY <2>1, <2>2, <2>7
  <2>9. comp' <= Len(components')
        /\ Assigning(cfg', components'[comp'], entries', turn', queue', distances', assignments')
    BY <2>1, <2>2, <2>6
  <2> QED BY <2>8, <2>9 DEF SplitsRight
<1>8. CASE PassOver
  <2>1. /\ phase = "assign" /\ phase' = "assign" /\ cfg' = cfg /\ components' = components
        /\ comp' = comp /\ functions' = functions /\ entries' = entries /\ turn' = turn
        /\ queue # <<>> /\ ~Wins(queue[1][1], queue[1][2])
        /\ distances' = distances /\ assignments' = assignments /\ queue' = Tail(queue)
    BY <1>8 DEF PassOver
  <2>2. /\ comp <= Len(components) /\ Fair(cfg, functions, Old)
        /\ Assigning(cfg, C, entries, turn, queue, distances, assignments)
    BY <2>1 DEF SplitsRight, Detecting
  <2>3. distances[queue[1][1]] # NoBlock /\ ~(queue[1][2] < distances[queue[1][1]])
    BY <2>1 DEF Wins
  <2>4. Assigning(cfg, C, entries, turn, Tail(queue), distances, assignments)
    BY <1>1, <1>2, <2>1, <2>2, <2>3, PassOverKeeps
  <2>5. Old' = Old
    BY <2>1 DEF Old
  <2> QED BY <2>1, <2>2, <2>4, <2>5 DEF SplitsRight
<1>9. CASE NextEntry
  <2>1. /\ phase = "assign" /\ phase' = "assign" /\ cfg' = cfg /\ components' = components
        /\ comp' = comp /\ functions' = functions /\ entries' = entries /\ turn' = turn + 1
        /\ queue = <<>> /\ turn < Len(entries)
        /\ distances' = distances /\ assignments' = assignments
        /\ queue' = <<<<entries[turn + 1], 0>>>>
    BY <1>9 DEF NextEntry
  <2>2. /\ comp <= Len(components) /\ Fair(cfg, functions, Old)
        /\ Assigning(cfg, C, entries, turn, queue, distances, assignments)
    BY <2>1 DEF SplitsRight, Detecting
  <2>3. Assigning(cfg, C, entries, turn + 1, <<<<entries[turn + 1], 0>>>>, distances, assignments)
    BY <1>1, <1>2, <2>1, <2>2, NextEntryKeeps
  <2>4. Old' = Old
    BY <2>1 DEF Old
  <2>5. Assigning(cfg, C, entries, turn', queue', distances, assignments)
    BY <2>1, <2>3
  <2> QED BY <2>1, <2>2, <2>4, <2>5 DEF SplitsRight
<1>10. CASE EndSplit
  <2> DEFINE N == RawFunctions(entries, assignments)
  <2>1. /\ phase = "assign" /\ phase' = "split" /\ cfg' = cfg /\ components' = components
        /\ comp' = comp + 1 /\ functions' = functions \cup N
        /\ queue = <<>> /\ turn = Len(entries)
    BY <1>10 DEF EndSplit
  <2>2. /\ comp <= Len(components) /\ Detecting
        /\ Assigning(cfg, C, entries, turn, queue, distances, assignments)
    BY <2>1 DEF SplitsRight, Detecting
  <2>3. Fair(cfg, N, C)
    BY <1>1, <1>2, <2>1, <2>2, SplitIsFair
  <2> HIDE DEF N
  <2>4. Fair(cfg', functions', Old')
    BY <2>1, <2>2, <2>3, FinishComponent
  <2> QED BY <2>1, <2>4 DEF SplitsRight
<1>11. CASE Done
  BY <1>11 DEF Done, SplitsRight, Detecting, Old
<1> QED BY <1>3, <1>4, <1>5, <1>6, <1>7, <1>8, <1>9, <1>10, <1>11 DEF Next

\* What follows the detection leaves its state alone.
LEMMA CallStepFrame ==
    ASSUME Prune \/ FindCalls \/ BeginFunction \/ ReturnEdge \/ NextLoop("edges", "orphans")
              \/ OrphanEdge \/ NextLoop("orphans", "hide") \/ HideFrom \/ HideBlock
              \/ BeginShow \/ ShowBlock \/ HideHeap \/ NextFunction \/ Finish
    PROVE  /\ cfg' = cfg /\ components' = components /\ comp' = comp
           /\ phase' \notin {"components", "split", "assign", "done"}
<1>1. CASE Prune BY <1>1 DEF Prune, boundsVars
<1>2. CASE FindCalls BY <1>2 DEF FindCalls, boundsVars
<1>3. CASE BeginFunction BY <1>3 DEF BeginFunction, boundsVars
<1>4. CASE ReturnEdge BY <1>4 DEF ReturnEdge, boundsVars
<1>5. CASE NextLoop("edges", "orphans") BY <1>5 DEF NextLoop, boundsVars
<1>6. CASE OrphanEdge BY <1>6 DEF OrphanEdge, boundsVars
<1>7. CASE NextLoop("orphans", "hide") BY <1>7 DEF NextLoop, boundsVars
<1>8. CASE HideFrom BY <1>8 DEF HideFrom, boundsVars
<1>9. CASE HideBlock BY <1>9 DEF HideBlock, boundsVars
<1>10. CASE BeginShow BY <1>10 DEF BeginShow, boundsVars
<1>11. CASE ShowBlock BY <1>11 DEF ShowBlock, boundsVars
<1>12. CASE HideHeap BY <1>12 DEF HideHeap, boundsVars
<1>13. CASE NextFunction BY <1>13 DEF NextFunction, boundsVars
<1>14. CASE Finish BY <1>14 DEF Finish, boundsVars
<1> QED BY <1>1, <1>2, <1>3, <1>4, <1>5, <1>6, <1>7, <1>8, <1>9, <1>10, <1>11, <1>12,
           <1>13, <1>14

DetectionRight == GroupsRight /\ SplitsRight

\* detect_functions: in every state the components found are apart and the
\* functions of those that are done are fair.
THEOREM DetectionIsRight == CallSpec => []DetectionRight
<1>1. CallInit => DetectionRight
  <2> SUFFICES ASSUME CallInit PROVE DetectionRight
    OBVIOUS
  <2>1. Init
    BY DEF CallInit
  <2>2. functions = {} /\ phase = "components"
    BY <2>1 DEF Init
  <2>3. SplitsRight
    BY <2>2, NoneIsFair DEF SplitsRight
  <2> QED BY <2>1, <2>3, InitGroups DEF DetectionRight
<1>2. DetectionRight /\ [CallNext]_allVars => DetectionRight'
  <2> SUFFICES ASSUME DetectionRight, [CallNext]_allVars PROVE DetectionRight'
    OBVIOUS
  <2>1. GroupsRight /\ SplitsRight
    BY DEF DetectionRight
  <2>2. CASE Next
    BY <2>1, <2>2, NextKeepsGroups, NextKeepsSplits DEF DetectionRight
  <2>3. CASE UNCHANGED allVars
    <3>1. /\ cfg' = cfg /\ phase' = phase /\ components' = components /\ comp' = comp
          /\ entries' = entries /\ turn' = turn /\ queue' = queue /\ distances' = distances
          /\ assignments' = assignments /\ functions' = functions
      BY <2>3 DEF allVars, vars
    <3>2. GroupsRight'
      BY <2>1, <3>1 DEF GroupsRight
    <3>3. SplitsRight'
      BY <2>1, <3>1 DEF SplitsRight, Detecting, Old
    <3> QED BY <3>2, <3>3 DEF DetectionRight
  <2>4. CASE ~Next /\ CallNext
    <3>1. /\ cfg' = cfg /\ components' = components /\ comp' = comp
          /\ phase' \notin {"components", "split", "assign", "done"}
      BY <2>4, CallStepFrame DEF CallNext
    <3>2. GroupsRight'
      BY <2>1, <3>1 DEF GroupsRight
    <3>3. SplitsRight'
      BY <3>1 DEF SplitsRight, Detecting
    <3> QED BY <3>2, <3>3 DEF DetectionRight
  <2> QED BY <2>2, <2>3, <2>4
<1> QED BY <1>1, <1>2, PTL DEF CallSpec

\* No block that an entry leads to is missing from the functions
\* (detect_functions, split_at_prologues).
THEOREM NoReachedBlockDropped == CallSpec => []OnlyUnreachedDropped
<1>1. DetectionRight => OnlyUnreachedDropped
  <2> SUFFICES ASSUME DetectionRight, phase = "done",
                      NEW b \in cfg.blocks \ UNION {f.blocks : f \in functions},
                      NEW f \in functions
               PROVE  b \notin Reach(cfg, f.entry, {})
    BY DEF OnlyUnreachedDropped
  <2> DEFINE K == Blocks(functions)
  <2>1. IsFlowGraph(cfg)
    BY ProgramGraph DEF DetectionRight, GroupsRight
  <2>2. Fair(cfg, functions, Old)
    BY DEF DetectionRight, SplitsRight, Detecting
  <2>3. f.entry \in K /\ \A x \in K : Succs(cfg, x) \subseteq K
    BY <2>2 DEF Fair
  <2>4. f.entry \in cfg.blocks
    <3>1. f.entry \in Old
      BY <2>2, <2>3 DEF Fair
    <3> QED BY <3>1 DEF Old, DetectionRight, GroupsRight, IsApart
  <2>5. b \notin K
    BY DEF Blocks
  <2> HIDE DEF K
  <2>6. Reach(cfg, f.entry, {}) \subseteq K
    <3>1. /\ f.entry \notin {} => f.entry \in K
          /\ \A x \in K \cap cfg.blocks : Succs(cfg, x) \ {} \subseteq K
      BY <2>3
    <3> QED BY <2>1, <2>4, <3>1, ReachIsLeast
  <2> QED BY <2>5, <2>6
<1> QED BY <1>1, DetectionIsRight, PTL

\* A block is in the function with the nearest entry, whatever the order in
\* which the searches of split_at_prologues claim and reclaim it.
THEOREM NearestEntry == CallSpec => []NearestEntryWins
<1>1. DetectionRight => NearestEntryWins
  BY DEF DetectionRight, SplitsRight, Detecting, Fair, NearestEntryWins
<1> QED BY <1>1, DetectionIsRight, PTL


-----------------------------------------------------------------------------
(* The graph of one function, and the blocks it hides *)

\* Successors and predecessors are the same edges among the blocks F.
IsMirrored(F, s, p) ==
    /\ s \in [F -> Seq(F)]
    /\ p \in [F -> SUBSET F]
    /\ \A x, y \in F : y \in Range(s[x]) <=> x \in p[y]

GraphRight ==
    /\ fn.blocks \subseteq cfg.blocks
    /\ IsMirrored(fn.blocks, succ, pred)
    /\ hidden \subseteq fn.blocks
    /\ work \in Seq(fn.blocks)

\* A hidden block with a live edge waits to be shown.
LiveQueued == \A b \in hidden : HasLiveEdge(b) => b \in Range(work)

PrintRight ==
    /\ \A f \in functions \cup todo : f.blocks \subseteq cfg.blocks
    /\ phase \in {"edges", "orphans", "hide", "show"} => GraphRight
    /\ phase = "show" => LiveQueued

\* The blocks of a function with the edges among them.
LEMMA CutIsMirrored ==
    ASSUME NEW g, IsFlowGraph(g), NEW F, F \subseteq g.blocks
    PROVE  IsMirrored(F, [b \in F |-> Kept(g.succ[b], F)], [b \in F |-> Preds(g, b) \cap F])
<1> DEFINE s == [b \in F |-> Kept(g.succ[b], F)]
           p == [b \in F |-> Preds(g, b) \cap F]
           B == g.blocks
<1>1. ASSUME NEW b \in F
      PROVE  Kept(g.succ[b], F) \in Seq(F) /\ Range(Kept(g.succ[b], F)) = Succs(g, b) \cap F
  <2> DEFINE v == g.succ[b]
             k == Kept(v, F)
  <2>1. v \in Seq(B) /\ Succs(g, b) = Range(v)
    BY DEF IsFlowGraph, Succs
  <2> HIDE DEF v, B
  <2>2. k \in Seq(B) /\ Range(k) = Range(v) \cap F
    BY <2>1, KeptRange
  <2> HIDE DEF k
  <2>3. Len(k) \in Nat /\ k \in [1..Len(k) -> B] /\ DOMAIN k = 1..Len(k)
    BY <2>2, LenProperties
  <2>4. \A i \in 1..Len(k) : k[i] \in F
    BY <2>2, <2>3 DEF Range
  <2>5. k \in [1..Len(k) -> F]
    BY <2>3, <2>4
  <2>6. k \in Seq(F)
    BY <2>3, <2>5, SeqDef
  <2> QED BY <2>1, <2>2, <2>6 DEF k, v
<1>2. s \in [F -> Seq(F)] /\ \A x \in F : Range(s[x]) = Succs(g, x) \cap F
  BY <1>1
<1>3. p \in [F -> SUBSET F] /\ \A y \in F : p[y] = Preds(g, y) \cap F
  OBVIOUS
<1> HIDE DEF s, p
<1>4. \A x, y \in F : y \in Range(s[x]) <=> x \in p[y]
  BY <1>2, <1>3 DEF Preds
<1>5. IsMirrored(F, s, p)
  BY <1>2, <1>3, <1>4 DEF IsMirrored
<1> QED BY <1>5 DEF s, p

\* build_function_cfg enters an added edge on both sides.
LEMMA EdgeIsMirrored ==
    ASSUME NEW F, NEW s, NEW p, IsMirrored(F, s, p), NEW b \in F, NEW t \in F
    PROVE  IsMirrored(F, WithSucc(s, b, t), WithPred(p, t, b))
<1> DEFINE s2 == WithSucc(s, b, t)
           p2 == WithPred(p, t, b)
           v == Append(s[b], t)
<1>1. s \in [F -> Seq(F)] /\ p \in [F -> SUBSET F]
      /\ \A x, y \in F : y \in Range(s[x]) <=> x \in p[y]
  BY DEF IsMirrored
<1>2. v \in Seq(F) /\ Range(v) = Range(s[b]) \cup {t}
  <2>1. s[b] \in Seq(F)
    BY <1>1
  <2> QED BY <2>1, PushRange
<1> HIDE DEF v
<1>3. s2 = IF t \in Range(s[b]) THEN s ELSE [s EXCEPT ![b] = v]
  BY DEF WithSucc, v
<1>4. /\ s2 \in [F -> Seq(F)]
      /\ Range(s2[b]) = Range(s[b]) \cup {t}
      /\ \A x \in F : x # b => s2[x] = s[x]
  <2> DEFINE Z == Seq(F)
  <2>1. s \in [F -> Z] /\ v \in Z
    BY <1>1, <1>2
  <2> HIDE DEF Z, s2
  <2>2. CASE t \in Range(s[b])
    <3>1. s2 = s
      BY <1>3, <2>2
    <3> QED BY <2>1, <2>2, <3>1 DEF Z
  <2>3. CASE t \notin Range(s[b])
    <3>1. s2 = [s EXCEPT ![b] = v]
      BY <1>3, <2>3
    <3>2. s2 \in [F -> Z] /\ s2[b] = v /\ \A x \in F : x # b => s2[x] = s[x]
      BY <2>1, <3>1
    <3> QED BY <1>2, <3>2 DEF Z
  <2> QED BY <2>2, <2>3
<1>5. /\ p2 \in [F -> SUBSET F]
      /\ p2[t] = p[t] \cup {b}
      /\ \A y \in F : y # t => p2[y] = p[y]
  BY <1>1 DEF WithPred
<1> HIDE DEF s2, p2
<1>6. ASSUME NEW x \in F, NEW y \in F PROVE y \in Range(s2[x]) <=> x \in p2[y]
  <2>1. y \in Range(s2[x]) <=> (y \in Range(s[x]) \/ (x = b /\ y = t))
    BY <1>4
  <2>2. x \in p2[y] <=> (x \in p[y] \/ (x = b /\ y = t))
    BY <1>5
  <2> QED BY <1>1, <2>1, <2>2
<1>7. IsMirrored(F, s2, p2)
  BY <1>4, <1>5, <1>6 DEF IsMirrored
<1> QED BY <1>7 DEF s2, p2

\* A set met in any order.
LEMMA ListingShape ==
    ASSUME NEW T, IsFiniteSet(T), NEW S, S \subseteq T,
           NEW q \in Bijection(1..Cardinality(S), S)
    PROVE  q \in Seq(T) /\ Range(q) = S
<1>1. Cardinality(S) \in Nat
  BY FS_Subset, FS_CardinalityType
<1>2. q \in [1..Cardinality(S) -> S] /\ \A t \in S : \E i \in 1..Cardinality(S) : q[i] = t
  BY DEF Bijection, Injection, Surjection
<1>3. q \in Seq(S)
  BY <1>1, <1>2, SeqDef
<1>4. q \in Seq(T)
  BY <1>3, SeqMonotonic
<1> QED BY <1>2, <1>4 DEF Range

\* A function is cut out of the program.
LEMMA BeginFunctionKeepsPrint ==
    ASSUME GroupsRight, PrintRight, BeginFunction
    PROVE  PrintRight'
<1>1. IsFlowGraph(cfg)
  BY ProgramGraph DEF GroupsRight
<1>2. PICK f \in todo :
         /\ fn' = f /\ todo' = todo \ {f}
         /\ succ' = [b \in f.blocks |-> Kept(cfg.succ[b], f.blocks)]
         /\ pred' = [b \in f.blocks |-> Preds(cfg, b) \cap f.blocks]
  BY DEF BeginFunction
<1>3. /\ cfg' = cfg /\ functions' = functions /\ hidden' = {} /\ work' = <<>>
      /\ phase' = "edges"
  BY DEF BeginFunction, boundsVars
<1>4. f.blocks \subseteq cfg.blocks
  BY DEF PrintRight
<1>5. IsMirrored(f.blocks, succ', pred')
  BY <1>1, <1>2, <1>4, CutIsMirrored
<1>6. work' \in Seq(f.blocks)
  BY <1>3, EmptySeq
<1>7. GraphRight'
  BY <1>2, <1>3, <1>4, <1>5, <1>6 DEF GraphRight
<1>8. \A h \in functions' \cup todo' : h.blocks \subseteq cfg'.blocks
  BY <1>2, <1>3 DEF PrintRight
<1> QED BY <1>3, <1>7, <1>8 DEF PrintRight

\* An edge to the return address, or to the orphan a trampoline returns to.
LEMMA EdgesKeepPrint ==
    ASSUME GroupsRight, PrintRight, ReturnEdge \/ OrphanEdge
    PROVE  PrintRight'
<1>1. IsFlowGraph(cfg)
  BY ProgramGraph DEF GroupsRight
<1>2. /\ cfg' = cfg /\ functions' = functions /\ todo' = todo /\ fn' = fn /\ hidden' = hidden
      /\ work' = work /\ phase' = phase /\ phase \in {"edges", "orphans"}
  BY DEF ReturnEdge, OrphanEdge, boundsVars
<1>3. GraphRight
  BY <1>2 DEF PrintRight
<1>4. IsMirrored(fn.blocks, succ, pred) /\ fn.blocks \subseteq cfg.blocks
  BY <1>3 DEF GraphRight
<1>5. CASE UNCHANGED graphVars
  <2>1. succ' = succ /\ pred' = pred
    BY <1>5 DEF graphVars
  <2>2. GraphRight'
    BY <1>2, <1>3, <2>1 DEF GraphRight
  <2> QED BY <1>2, <2>2 DEF PrintRight
<1>6. CASE ~UNCHANGED graphVars
  <2>1. PICK b \in fn.blocks, t \in fn.blocks :
           succ' = WithSucc(succ, b, t) /\ pred' = WithPred(pred, t, b)
    <3>1. CASE ReturnEdge
      BY <1>6, <3>1 DEF ReturnEdge
    <3>2. CASE OrphanEdge
      <4> DEFINE t == Continuation(Here.caller)
      <4>1. /\ Here.target \in fn.blocks /\ Orphans # {}
            /\ succ' = WithSucc(succ, Here.target, t) /\ pred' = WithPred(pred, t, Here.target)
        BY <1>6, <3>2 DEF OrphanEdge
      <4>2. Orphans \subseteq fn.blocks /\ fn.blocks \subseteq Nat
        BY <1>1, <1>4 DEF Orphans, IsFlowGraph
      <4> DEFINE behind == {b \in Orphans : b > Here.caller}
                 S == IF behind # {} THEN behind ELSE Orphans
      <4>3. t = MinOf(S) /\ S # {} /\ S \subseteq Orphans
        BY <4>1 DEF Continuation
      <4> HIDE DEF S, t
      <4>4. S \subseteq Nat
        BY <4>2, <4>3
      <4>5. MinOf(S) \in S
        BY <4>3, <4>4, MinOfIsLeast
      <4>6. t \in fn.blocks
        BY <4>2, <4>3, <4>5
      <4> QED BY <4>1, <4>6
    <3> QED BY <3>1, <3>2
  <2>2. IsMirrored(fn.blocks, succ', pred')
    BY <1>4, <2>1, EdgeIsMirrored
  <2>3. GraphRight'
    BY <1>2, <1>3, <2>2 DEF GraphRight
  <2> QED BY <1>2, <2>3 DEF PrintRight
<1> QED BY <1>5, <1>6

\* Hiding stays within the function.
LEMMA HidingKeepsPrint ==
    ASSUME GroupsRight, PrintRight, HideFrom \/ HideBlock
    PROVE  PrintRight'
<1> DEFINE F == fn.blocks
<1>1. /\ cfg' = cfg /\ functions' = functions /\ todo' = todo /\ fn' = fn
      /\ phase' = "hide" /\ phase = "hide" /\ succ' = succ /\ pred' = pred
  BY DEF HideFrom, HideBlock, boundsVars, graphVars
<1>2. GraphRight
  BY <1>1 DEF PrintRight
<1>3. IsMirrored(F, succ, pred) /\ hidden \subseteq F /\ work \in Seq(F)
  BY <1>2 DEF GraphRight
<1>4. hidden' \subseteq F /\ work' \in Seq(F)
  <2>1. CASE HideFrom
    <3>1. hidden' = hidden /\ (work' = <<>> \/ (Here.target \in F /\ work' = <<Here.target>>))
      BY <2>1 DEF HideFrom
    <3> HIDE DEF F
    <3>2. \A x \in F : <<x>> \in Seq(F)
      BY OneShape
    <3>3. work' \in Seq(F)
      BY <3>1, <3>2, EmptySeq
    <3> QED BY <1>3, <3>1, <3>3
  <2>2. CASE HideBlock
    <3> DEFINE b == Head(work)
               more == IF b \in hidden THEN <<>> ELSE ToHide(b)
               q == Tail(work)
    <3>1. work # <<>> /\ hidden' = hidden \cup {b} /\ work' = q \o more
      BY <2>2 DEF HideBlock
    <3> HIDE DEF F
    <3>2. b \in F /\ q \in Seq(F)
      BY <1>3, <3>1, TailRange
    <3>3. more \in Seq(F)
      <4>1. succ[b] \in Seq(F)
        BY <1>3, <3>2 DEF IsMirrored
      <4>2. ToHide(b) \in Seq(F)
        <5> DEFINE v == succ[b]
                   S == fn.blocks \ (hidden \cup {b} \cup Stops)
        <5>1. ToHide(b) = Kept(v, S) /\ v \in Seq(F)
          BY <4>1 DEF ToHide
        <5> HIDE DEF v, S, b
        <5> QED BY <5>1, KeptRange
      <4> QED BY <4>2, EmptySeq
    <3> HIDE DEF b, q, more
    <3>4. q \o more \in Seq(F)
      BY <3>2, <3>3, ConcatRange
    <3> QED BY <1>3, <3>1, <3>2, <3>4
  <2> QED BY <2>1, <2>2
<1>5. GraphRight'
  BY <1>1, <1>2, <1>4 DEF GraphRight
<1> QED BY <1>1, <1>5 DEF PrintRight

\* The repair starts with every block that has a live edge.
LEMMA BeginShowKeepsPrint ==
    ASSUME GroupsRight, PrintRight, BeginShow
    PROVE  PrintRight'
<1> DEFINE F == fn.blocks
           live == {b \in hidden : HasLiveEdge(b)}
<1>1. /\ cfg' = cfg /\ functions' = functions /\ todo' = todo /\ fn' = fn
      /\ phase' = "show" /\ phase = "hide" /\ succ' = succ /\ pred' = pred
      /\ hidden' = hidden /\ patterns' = patterns
      /\ work' \in Bijection(1..Cardinality(live), live)
  BY DEF BeginShow, boundsVars, graphVars
<1>2. GraphRight
  BY <1>1 DEF PrintRight
<1>3. live \subseteq F /\ IsFiniteSet(F)
  <2>1. F \subseteq cfg.blocks /\ IsFiniteSet(cfg.blocks)
    BY <1>2, ProgramGraph DEF GraphRight, GroupsRight, IsFlowGraph
  <2>2. IsFiniteSet(F)
    BY <2>1, FS_Subset
  <2>3. hidden \subseteq F
    BY <1>2 DEF GraphRight
  <2> QED BY <2>2, <2>3
<1> HIDE DEF F
<1>4. work' \in Seq(F) /\ Range(work') = live
  <2> HIDE DEF live
  <2> QED BY <1>1, <1>3, ListingShape
<1>5. GraphRight'
  BY <1>1, <1>2, <1>4 DEF GraphRight, F
<1>6. \A b : HasLiveEdge(b)' <=> HasLiveEdge(b)
  BY <1>1 DEF HasLiveEdge, CallEdges, AllPatterns
<1>7. LiveQueued'
  BY <1>1, <1>4, <1>6 DEF LiveQueued
<1> QED BY <1>1, <1>5, <1>7 DEF PrintRight

\* A block shown again passes its liveness on to the hidden blocks behind it.
LEMMA ShowBlockKeepsPrint ==
    ASSUME GroupsRight, PrintRight, ShowBlock
    PROVE  PrintRight'
<1> DEFINE F == fn.blocks
           b == Head(work)
           more == IF b \in hidden THEN ToShow(b) ELSE <<>>
           q == Tail(work)
<1>1. /\ cfg' = cfg /\ functions' = functions /\ todo' = todo /\ fn' = fn
      /\ phase' = "show" /\ phase = "show" /\ succ' = succ /\ pred' = pred
      /\ patterns' = patterns /\ work # <<>>
      /\ hidden' = hidden \ {b} /\ work' = q \o more
  BY DEF ShowBlock, boundsVars, graphVars
<1>2. GraphRight /\ LiveQueued
  BY <1>1 DEF PrintRight
<1>3. IsMirrored(F, succ, pred) /\ hidden \subseteq F /\ work \in Seq(F)
  BY <1>2 DEF GraphRight
<1> HIDE DEF F
<1>4. b \in F /\ q \in Seq(F) /\ Range(work) = {b} \cup Range(q)
  BY <1>1, <1>3, TailRange
<1>5. ToShow(b) \in Seq(F) /\ Range(ToShow(b)) = Range(succ[b]) \cap (hidden \ {b})
  <2> DEFINE v == succ[b]
             S == hidden \ {b}
  <2>1. ToShow(b) = Kept(v, S) /\ v \in Seq(F)
    BY <1>3, <1>4 DEF ToShow, IsMirrored
  <2>2. Kept(v, S) \in Seq(F) /\ Range(Kept(v, S)) = Range(v) \cap S
    <3> HIDE DEF v, S
    <3> QED BY <2>1, KeptRange
  <2> QED BY <2>1, <2>2
<1>6. more \in Seq(F) /\ (b \in hidden => more = ToShow(b))
  <2> HIDE DEF b
  <2> QED BY <1>5, EmptySeq
<1> HIDE DEF b, q, more
<1>7. q \o more \in Seq(F) /\ Range(q \o more) = Range(q) \cup Range(more)
  BY <1>4, <1>6, ConcatRange
<1>8. GraphRight'
  BY <1>1, <1>2, <1>7 DEF GraphRight, F
<1>9. ASSUME NEW c \in hidden', HasLiveEdge(c)' PROVE c \in Range(work')
  <2>1. PICK p \in pred[c] : p \notin hidden' /\ <<p, c>> \notin CallEdges
    BY <1>1, <1>9 DEF HasLiveEdge, CallEdges, AllPatterns
  <2>2. c \in hidden /\ c # b /\ c \in F
    BY <1>1, <1>3
  <2>3. CASE p \notin hidden
    <3>1. HasLiveEdge(c)
      BY <2>1, <2>3 DEF HasLiveEdge
    <3>2. c \in Range(work)
      BY <1>2, <2>2, <3>1 DEF LiveQueued
    <3> QED BY <1>1, <1>4, <1>7, <2>2, <3>2
  <2>4. CASE p \in hidden
    <3>1. p = b
      BY <1>1, <2>1, <2>4
    <3>2. c \in Range(succ[b])
      BY <1>3, <1>4, <2>1, <2>2, <3>1 DEF IsMirrored
    <3>3. c \in Range(more)
      BY <1>5, <1>6, <2>2, <2>4, <3>1, <3>2
    <3> QED BY <1>1, <1>7, <3>3
  <2> QED BY <2>3, <2>4
<1>10. LiveQueued'
  BY <1>9 DEF LiveQueued
<1> QED BY <1>1, <1>8, <1>10 DEF PrintRight


\* Every step keeps the function at hand right.
LEMMA StepKeepsPrint ==
    ASSUME DetectionRight, DetectionRight', PrintRight, [CallNext]_allVars
    PROVE  PrintRight'
<1>1. GroupsRight
  BY DEF DetectionRight
<1>2. ASSUME cfg' = cfg, functions' \subseteq functions, todo' \subseteq functions \cup todo,
             phase' \notin {"edges", "orphans", "hide", "show"}
      PROVE  PrintRight'
  BY <1>2 DEF PrintRight
<1>3. CASE Next /\ UNCHANGED callVars
  <2>1. todo' = todo /\ cfg' = cfg
    BY <1>3 DEF callVars, Next, FindComponent, ComponentsFound, KeepWhole, BeginSplit, Claim,
                PassOver, NextEntry, EndSplit, Done
  <2>2. phase' \in {"components", "split", "assign", "done"}
    BY <1>3 DEF Next, FindComponent, ComponentsFound, KeepWhole, Splitting, BeginSplit, Claim,
                PassOver, NextEntry, EndSplit, Done
  <2>3. Fair(cfg', functions', Old') /\ GroupsRight'
    BY <2>2 DEF DetectionRight, SplitsRight, Detecting
  <2>4. Old' \subseteq cfg'.blocks
    BY <2>3 DEF Old, GroupsRight, IsApart
  <2>5. \A f \in functions' : f.blocks \subseteq cfg'.blocks
    BY <2>3, <2>4 DEF Fair, Blocks
  <2>6. \A f \in todo' : f.blocks \subseteq cfg'.blocks
    BY <2>1 DEF PrintRight
  <2> QED BY <2>2, <2>5, <2>6 DEF PrintRight
<1>4. CASE Prune
  BY <1>2, <1>4 DEF Prune, boundsVars, callVars
<1>5. CASE FindCalls
  BY <1>2, <1>5 DEF FindCalls, boundsVars
<1>6. CASE BeginFunction
  BY <1>1, <1>6, BeginFunctionKeepsPrint
<1>7. CASE ReturnEdge \/ OrphanEdge
  BY <1>1, <1>7, EdgesKeepPrint
<1>8. CASE NextLoop("edges", "orphans") \/ NextLoop("orphans", "hide")
  <2>1. /\ cfg' = cfg /\ functions' = functions /\ todo' = todo /\ fn' = fn
        /\ succ' = succ /\ pred' = pred /\ hidden' = hidden /\ work' = work
        /\ phase' \in {"orphans", "hide"} /\ phase \in {"edges", "orphans"}
    BY <1>8 DEF NextLoop, boundsVars, graphVars
  <2>2. GraphRight'
    BY <2>1 DEF PrintRight, GraphRight
  <2> QED BY <2>1, <2>2 DEF PrintRight
<1>9. CASE HideFrom \/ HideBlock
  BY <1>1, <1>9, HidingKeepsPrint
<1>10. CASE BeginShow
  BY <1>1, <1>10, BeginShowKeepsPrint
<1>11. CASE ShowBlock
  BY <1>1, <1>11, ShowBlockKeepsPrint
<1>12. CASE HideHeap
  BY <1>2, <1>12 DEF HideHeap, boundsVars
<1>13. CASE NextFunction
  BY <1>2, <1>13 DEF NextFunction, boundsVars, callVars
<1>14. CASE Finish
  BY <1>2, <1>14 DEF Finish, boundsVars, callVars
<1>15. CASE UNCHANGED allVars
  <2>1. /\ cfg' = cfg /\ functions' = functions /\ todo' = todo /\ fn' = fn
        /\ succ' = succ /\ pred' = pred /\ hidden' = hidden /\ work' = work
        /\ phase' = phase /\ patterns' = patterns
    BY <1>15 DEF allVars, vars, callVars
  <2>2. GraphRight' <=> GraphRight
    BY <2>1 DEF GraphRight
  <2>3. LiveQueued' <=> LiveQueued
    BY <2>1 DEF LiveQueued, HasLiveEdge, CallEdges, AllPatterns
  <2> QED BY <2>1, <2>2, <2>3 DEF PrintRight
<1> QED BY <1>3, <1>4, <1>5, <1>6, <1>7, <1>8, <1>9, <1>10, <1>11, <1>12, <1>13, <1>14,
           <1>15 DEF CallNext

\* Once unsuppress_blocks_with_live_incoming_edges is done, no printed block
\* leads to a hidden one other than by the call that the hidden block serves.
THEOREM HiddenStaysSealed == CallSpec => []HiddenIsSealed
<1>1. CallInit => PrintRight
  BY DEF CallInit, Init, PrintRight
<1>2. DetectionRight /\ DetectionRight' /\ PrintRight /\ [CallNext]_allVars => PrintRight'
  BY StepKeepsPrint
<1>3. PrintRight => HiddenIsSealed
  <2> SUFFICES ASSUME PrintRight, Shown, NEW p \in fn.blocks \ hidden,
                      NEW b \in Range(succ[p]) \cap hidden
               PROVE  <<p, b>> \in CallEdges
    BY DEF HiddenIsSealed
  <2>1. GraphRight /\ LiveQueued /\ work = <<>>
    BY DEF PrintRight, Shown
  <2>2. Range(work) = {}
    BY <2>1 DEF Range
  <2>3. b \in fn.blocks /\ p \in pred[b]
    BY <2>1 DEF GraphRight, IsMirrored
  <2>4. ~HasLiveEdge(b)
    BY <2>1, <2>2 DEF LiveQueued
  <2> QED BY <2>3, <2>4 DEF HasLiveEdge
<1> QED BY <1>1, <1>2, <1>3, DetectionIsRight, PTL DEF CallSpec


=============================================================================

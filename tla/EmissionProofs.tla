--------------------------- MODULE EmissionProofs ---------------------------
(***************************************************************************)
(* The pseudo-code emitter takes every block once its dominators are       *)
(* printed, and prints every labelled block.                               *)
(*                                                                         *)
(* The emitter is recursive, so the invariant EmitInv is about its stack   *)
(* of calls. It has six parts:                                             *)
(*   - Analysed: the graph, the loops and the conditionals are those that  *)
(*     StructuringProofs proves structural analysis to find;               *)
(*   - EmitType: types;                                                    *)
(*   - Stacked: a call that may take lines of the output back (an empty    *)
(*     else, an empty loop) remembers the position where its own lines     *)
(*     begin, the calls above it remember later ones, and a loop that is   *)
(*     taken back has printed no statement. So no step takes back a        *)
(*     statement that another call printed;                                *)
(*   - FrontClosed: the blocks printed, with those the calls under way     *)
(*     have begun with, are closed under dominators (DomClosed), and stay  *)
(*     so with any one block of the queue added. Every step adds blocks    *)
(*     found along edges from such a set (FoundFrom, ClosedWithin), a loop *)
(*     because it is entered at its header only (BodyFromHeader);          *)
(*   - AllCounted: a block that counts as printed has its statements in    *)
(*     the output, has none to print or is behind what can leave its loop  *)
(*     (Silent), or is due to a call under way; or it is a branch of a     *)
(*     conditional that turns away from a loop (Stray). What the search of *)
(*     emit_loop does not find is one or the other (LeftOut). At the end   *)
(*     no call is under way;                                               *)
(*   - ArmsCared: the branches of a conditional whose `if` is in the       *)
(*     output are printed or due, be they strays or not.                   *)
(* NoBlockIsPutBack follows from FrontClosed and the soundness of the      *)
(* dominator tree, NoTargetIsLost from AllCounted and ArmsCared.           *)
(***************************************************************************)
EXTENDS Emission, StructuringProofs

-----------------------------------------------------------------------------
(* Sequences of whatever elements *)

\* A Vec of whatever elements.
IsVector(s) == s \in Seq(Range(s))

\* A sequence over a set is a vector.
LEMMA VectorIs ==
    ASSUME NEW B, NEW s \in Seq(B)
    PROVE  IsVector(s) /\ Range(s) \subseteq B
<1>1. Len(s) \in Nat /\ DOMAIN s = 1..Len(s) /\ \A i \in 1..Len(s) : s[i] \in B
  BY LenProperties, ElementOfSeq
<1>2. Range(s) = {s[i] : i \in 1..Len(s)}
  BY <1>1 DEF Range
<1>3. s \in [1..Len(s) -> Range(s)]
  BY <1>1, <1>2, LenProperties
<1>4. s \in Seq(Range(s))
  BY <1>1, <1>3, SeqDef
<1> QED BY <1>1, <1>2, <1>4 DEF IsVector

\* What a vector is.
LEMMA VectorShape ==
    ASSUME NEW s, IsVector(s)
    PROVE  Len(s) \in Nat /\ DOMAIN s = 1..Len(s) /\ Range(s) = {s[i] : i \in 1..Len(s)}
<1>1. Len(s) \in Nat /\ DOMAIN s = 1..Len(s)
  BY LenProperties DEF IsVector
<1> QED BY <1>1 DEF Range

\* The empty vector and those of one element.
LEMMA VectorNone == IsVector(<<>>) /\ Range(<<>>) = {} /\ Len(<<>>) = 0
<1>1. <<>> \in Seq({}) /\ Range(<<>>) = {} /\ Len(<<>>) = 0
  BY EmptySeq DEF Range
<1> QED BY <1>1 DEF IsVector

\* A vector of one element.
LEMMA VectorOne ==
    ASSUME NEW x
    PROVE  IsVector(<<x>>) /\ Range(<<x>>) = {x} /\ Len(<<x>>) = 1 /\ <<x>>[1] = x
<1>1. <<x>> \in Seq({x}) /\ Len(<<x>>) = 1 /\ <<x>>[1] = x /\ DOMAIN <<x>> = {1}
  OBVIOUS
<1>2. Range(<<x>>) = {x}
  BY <1>1 DEF Range
<1> QED BY <1>1, <1>2 DEF IsVector

\* Two vectors in a row.
LEMMA VectorConcat ==
    ASSUME NEW s, NEW t, IsVector(s), IsVector(t)
    PROVE  /\ IsVector(s \o t)
           /\ Range(s \o t) = Range(s) \cup Range(t)
           /\ Len(s \o t) = Len(s) + Len(t)
           /\ \A i \in 1..Len(s) : (s \o t)[i] = s[i]
           /\ \A i \in 1..Len(t) : (s \o t)[Len(s) + i] = t[i]
<1> DEFINE B == Range(s) \cup Range(t)
<1>1. s \in Seq(B) /\ t \in Seq(B)
  BY SeqMonotonic DEF IsVector
<1>2. s \o t \in Seq(B) /\ Range(s \o t) = Range(s) \cup Range(t)
  <2> HIDE DEF B
  <2> QED BY <1>1, ConcatRange
<1>3. IsVector(s \o t)
  BY <1>2, VectorIs
<1>4. Len(s) \in Nat /\ Len(t) \in Nat
  BY VectorShape
<1>5. /\ Len(s \o t) = Len(s) + Len(t)
      /\ \A i \in 1..(Len(s) + Len(t)) : (s \o t)[i] = IF i <= Len(s) THEN s[i] ELSE t[i - Len(s)]
  <2> HIDE DEF B
  <2> QED BY <1>1, ConcatProperties
<1>6. \A i \in 1..Len(s) : (s \o t)[i] = s[i]
  BY <1>4, <1>5
<1>7. ASSUME NEW i \in 1..Len(t) PROVE (s \o t)[Len(s) + i] = t[i]
  <2> DEFINE k == Len(s) + i
  <2>1. k \in 1..(Len(s) + Len(t)) /\ ~(k <= Len(s)) /\ k - Len(s) = i
    BY <1>4
  <2> HIDE DEF k
  <2>2. (s \o t)[k] = t[i]
    BY <1>5, <2>1
  <2> QED BY <2>2 DEF k
<1> QED BY <1>2, <1>3, <1>5, <1>6, <1>7

\* One element more.
LEMMA VectorAppend ==
    ASSUME NEW s, NEW x, IsVector(s)
    PROVE  /\ IsVector(Append(s, x))
           /\ Range(Append(s, x)) = Range(s) \cup {x}
           /\ Len(Append(s, x)) = Len(s) + 1
           /\ \A i \in 1..Len(s) : Append(s, x)[i] = s[i]
           /\ Append(s, x)[Len(s) + 1] = x
<1> DEFINE B == Range(s) \cup {x}
<1>1. s \in Seq(B) /\ x \in B
  BY SeqMonotonic DEF IsVector
<1>2. Append(s, x) = s \o <<x>>
  BY <1>1, AppendIsConcat
<1>3. IsVector(<<x>>) /\ Range(<<x>>) = {x} /\ Len(<<x>>) = 1 /\ <<x>>[1] = x
  BY VectorOne
<1>4. 1 \in 1..Len(<<x>>)
  BY <1>3
<1> QED BY <1>2, <1>3, <1>4, VectorConcat

\* The start of a vector.
LEMMA VectorCut ==
    ASSUME NEW s, IsVector(s), NEW n \in 0..Len(s)
    PROVE  /\ IsVector(SubSeq(s, 1, n)) /\ Len(SubSeq(s, 1, n)) = n
           /\ \A i \in 1..n : SubSeq(s, 1, n)[i] = s[i]
<1> DEFINE B == Range(s)
<1>1. s \in Seq(B) /\ Len(s) \in Nat /\ n \in Nat /\ n <= Len(s)
  BY VectorShape DEF IsVector
<1>2. \A i \in 1..n : i \in 1..Len(s)
  BY <1>1
<1>3. /\ SubSeq(s, 1, n) \in Seq(B)
      /\ Len(SubSeq(s, 1, n)) = IF 1 <= n THEN n - 1 + 1 ELSE 0
      /\ \A i \in 1..(n - 1 + 1) : SubSeq(s, 1, n)[i] = s[1 + i - 1]
  <2> HIDE DEF B
  <2>1. n <= Len(s) + 1 /\ 1 \in 1..(Len(s) + 1)
    BY <1>1
  <2> QED BY <1>1, <2>1, SubSeqProperties
<1>4. IsVector(SubSeq(s, 1, n))
  BY <1>3, VectorIs
<1>5. Len(SubSeq(s, 1, n)) = n
  BY <1>1, <1>3
<1>6. \A i \in 1..n : SubSeq(s, 1, n)[i] = s[i]
  BY <1>1, <1>3
<1> QED BY <1>4, <1>5, <1>6

\* A function on 1..n is a vector.
LEMMA VectorFun ==
    ASSUME NEW n \in Nat, NEW f, f = [i \in 1..n |-> f[i]]
    PROVE  IsVector(f) /\ Len(f) = n /\ Range(f) = {f[i] : i \in 1..n}
<1>1. DOMAIN f = 1..n
  BY ONLY f = [i \in 1..n |-> f[i]]
<1>2. Range(f) = {f[i] : i \in 1..n}
  BY <1>1 DEF Range
<1>3. f \in [1..n -> Range(f)]
  BY <1>2
<1>4. f \in Seq(Range(f))
  BY <1>3, SeqDef
<1>5. Len(f) = n
  BY <1>1, <1>4, LenProperties
<1> QED BY <1>2, <1>4, <1>5 DEF IsVector

\* The parts of a vector of vectors, one after the other.
LEMMA FlattenRange ==
    ASSUME NEW n \in Nat, NEW F, F = [i \in 1..n |-> F[i]], \A i \in 1..n : IsVector(F[i])
    PROVE  IsVector(FlattenSeq(F)) /\ Range(FlattenSeq(F)) = UNION {Range(F[i]) : i \in 1..n}
<1>1. IsVector(F) /\ Len(F) = n
  BY VectorFun
<1>2. CASE n = 0
  <2>1. F = <<>>
    BY <1>1, <1>2, EmptySeq DEF IsVector
  <2>2. FlattenSeq(F) = F
    BY <1>1, <1>2 DEF FlattenSeq
  <2> QED BY <1>2, <2>1, <2>2, VectorNone
<1>3. CASE n # 0
  <2> DEFINE B == UNION {Range(F[i]) : i \in 1..n}
             T == Seq(B)
             Step(k, q) == IF k = 1 THEN F[k] ELSE q \o F[k]
             f == [k \in 1..n |-> [q \in T |-> Step(k, q)]]
             Solves(R) == R = [k \in 1..n |-> IF k = 1 THEN F[k] ELSE R[k - 1] \o F[k]]
             Q == CHOOSE R : Solves(R)
             empty == <<>>
  <2>1. FlattenSeq(F) = Q[n]
    BY <1>1, <1>3 DEF FlattenSeq
  <2>2. ASSUME NEW k \in 1..n PROVE F[k] \in T
    <3>1. F[k] \in Seq(Range(F[k])) /\ Range(F[k]) \subseteq B
      BY DEF IsVector
    <3> HIDE DEF B
    <3> QED BY <3>1, SeqMonotonic
  <2>3. empty \in T
    BY EmptySeq
  <2> HIDE DEF B
  <2>4. \A k \in 1..n : \A q \in T : Step(k, q) \in T
    BY <2>2, ConcatProperties
  <2> HIDE DEF T, empty
  <2> HIDE DEF Q
  <2>5. Solves(Q)
    <3>1. f \in [1..n -> [T -> T]]
      BY <2>4
    <3> HIDE DEF f, Solves, Step
    <3>2. PICK R \in [0..n -> T] : R[0] = empty /\ \A k \in 1..n : R[k] = f[k][R[k - 1]]
      <4>1. n \in Nat
        OBVIOUS
      <4> QED BY ONLY <2>3, <3>1, <4>1, IterationExists
    <3>3. ASSUME NEW k \in 1..n PROVE R[k] = Step(k, R[k - 1])
      <4>1. R[k - 1] \in T
        BY <1>3
      <4> QED BY <3>2, <4>1 DEF f, Step
    <3> DEFINE V == [k \in 1..n |-> R[k]]
    <3>4. \A k \in 1..n : V[k] = IF k = 1 THEN F[k] ELSE V[k - 1] \o F[k]
      <4> SUFFICES ASSUME NEW k \in 1..n PROVE V[k] = IF k = 1 THEN F[k] ELSE V[k - 1] \o F[k]
        OBVIOUS
      <4>1. V[k] = R[k]
        OBVIOUS
      <4>4. R[k] = IF k = 1 THEN F[k] ELSE R[k - 1] \o F[k]
        BY <3>3 DEF Step
      <4>2. CASE k = 1
        <5> HIDE DEF V
        <5> QED BY <4>1, <4>2, <4>4
      <4>3. CASE k # 1
        <5>1. k - 1 \in 1..n
          BY <4>3
        <5>2. V[k - 1] = R[k - 1]
          BY <5>1
        <5> HIDE DEF V
        <5> QED BY <4>1, <4>3, <4>4, <5>2
      <4> QED BY <4>2, <4>3
    <3>5. Solves(V)
      <4>1. V = [k \in 1..n |-> V[k]]
        OBVIOUS
      <4> HIDE DEF V
      <4> QED BY <3>4, <4>1 DEF Solves
    <3> QED BY <3>5 DEF Q
  <2>6. \A k \in 1..n : Q[k] = IF k = 1 THEN F[k] ELSE Q[k - 1] \o F[k]
    BY <2>5
  <2> HIDE DEF Solves, Step
  <2> DEFINE Up(k) == UNION {Range(F[i]) : i \in 1..k}
             P == {k \in 0..n : k > 0 => IsVector(Q[k]) /\ Range(Q[k]) = Up(k)}
  <2>7. 0 \in P
    OBVIOUS
  <2>8. ASSUME NEW k \in 1..n, k - 1 \in P PROVE k \in P
    <3>1. k \in 0..n /\ IsVector(F[k])
      OBVIOUS
    <3>2. CASE k = 1
      <4>1. Q[k] = F[k]
        BY <2>6, <3>2
      <4>2. 1..1 = {1}
        OBVIOUS
      <4>3. Up(k) = Range(F[k])
        BY <3>2, <4>2
      <4> HIDE DEF Up
      <4> QED BY <3>1, <4>1, <4>3
    <3>3. CASE k # 1
      <4>1. Q[k] = Q[k - 1] \o F[k]
        BY <2>6, <3>3
      <4>2. IsVector(Q[k - 1]) /\ Range(Q[k - 1]) = Up(k - 1)
        BY <2>8, <3>3
      <4>3. 1..k = 1..(k - 1) \cup {k}
        BY <3>3
      <4>4. Up(k) = Up(k - 1) \cup Range(F[k])
        BY <4>3
      <4> HIDE DEF Up
      <4>5. IsVector(Q[k - 1] \o F[k]) /\ Range(Q[k - 1] \o F[k]) = Range(Q[k - 1]) \cup Range(F[k])
        BY <3>1, <4>2, VectorConcat
      <4> QED BY <3>1, <4>1, <4>2, <4>4, <4>5
    <3> QED BY <3>2, <3>3
  <2>9. n \in P
    <3> HIDE DEF P
    <3> QED BY <2>7, <2>8, Induct
  <2> QED BY <1>3, <2>1, <2>9 DEF B
<1> QED BY <1>2, <1>3

-----------------------------------------------------------------------------
(* Sets that hold the dominators of their blocks *)

\* No block outside S is on every path to a block of S.
DomClosed(S) ==
    /\ S \subseteq Live
    /\ \A a \in cfg.blocks \ S : S \subseteq Reach(cfg, cfg.entry, {a})

\* Every block of T is found from S along edges between blocks of S and T.
FoundFrom(S, T) ==
    \A X : (S \subseteq X /\ \A x \in X \cap (S \cup T) : Succs(cfg, x) \cap (S \cup T) \subseteq X)
              => T \subseteq X

\* What is found from such a set may be added to it.
LEMMA ClosedWithin ==
    ASSUME IsFlowGraph(cfg), NEW S, DomClosed(S), NEW T, FoundFrom(S, T)
    PROVE  DomClosed(S \cup T)
<1>1. cfg.entry \in cfg.blocks
  BY DEF IsFlowGraph
<1>2. \A W : \A x \in Reach(cfg, cfg.entry, W) : Succs(cfg, x) \ W \subseteq Reach(cfg, cfg.entry, W)
  BY <1>1, ReachIsLeast
<1>3. T \subseteq Live
  <2>1. S \subseteq Live
    BY DEF DomClosed
  <2>2. \A x \in Live : Succs(cfg, x) \subseteq Live
    BY <1>2 DEF Live
  <2> QED BY <2>1, <2>2 DEF FoundFrom
<1>4. ASSUME NEW a \in cfg.blocks \ (S \cup T) PROVE T \subseteq Reach(cfg, cfg.entry, {a})
  <2> DEFINE X == Reach(cfg, cfg.entry, {a})
  <2>1. S \subseteq X
    BY DEF DomClosed
  <2>2. \A x \in X : Succs(cfg, x) \ {a} \subseteq X
    BY <1>2
  <2> HIDE DEF X
  <2>3. \A x \in X \cap (S \cup T) : Succs(cfg, x) \cap (S \cup T) \subseteq X
    BY <2>2
  <2>4. T \subseteq X
    BY <2>1, <2>3 DEF FoundFrom
  <2> QED BY <2>4 DEF X
<1> QED BY <1>3, <1>4 DEF DomClosed

\* Successors of the blocks of a set are found from it.
LEMMA FoundNext ==
    ASSUME NEW S, NEW T, \A t \in T : \E p \in S : t \in Succs(cfg, p)
    PROVE  FoundFrom(S, T)
  BY DEF FoundFrom

\* So is what a search finds that starts with a successor and follows edges.
LEMMA FoundSearch ==
    ASSUME IsFlowGraph(cfg), NEW S, NEW p \in S, p \in cfg.blocks, NEW t \in Succs(cfg, p),
           NEW next \in [cfg.blocks -> SUBSET cfg.blocks],
           \A x \in cfg.blocks : next[x] \subseteq Succs(cfg, x)
    PROVE  FoundFrom(S, Closure({t}, next))
<1> DEFINE T == Closure({t}, next)
<1>1. t \in cfg.blocks
  BY SuccsAreBlocks
<1>2. IsFiniteSet(cfg.blocks) /\ {t} \in SUBSET cfg.blocks
  BY <1>1 DEF IsFlowGraph
<1>3. /\ {t} \subseteq T /\ T \subseteq cfg.blocks /\ \A x \in T : next[x] \subseteq T
      /\ \A X : ({t} \subseteq X /\ \A x \in X \cap cfg.blocks : next[x] \subseteq X) => T \subseteq X
  <2> DEFINE B == cfg.blocks
             One == {t}
  <2>1. IsFiniteSet(B) /\ next \in [B -> SUBSET B] /\ One \in SUBSET B
    BY <1>2
  <2> HIDE DEF B, One
  <2>2. /\ One \subseteq Closure(One, next)
        /\ Closure(One, next) \subseteq B
        /\ \A x \in Closure(One, next) : next[x] \subseteq Closure(One, next)
        /\ \A X : (One \subseteq X /\ \A x \in X \cap B : next[x] \subseteq X)
                    => Closure(One, next) \subseteq X
    BY <2>1, ClosureIsLeast
  <2> QED BY <2>2 DEF B, One
<1> HIDE DEF T
<1>4. ASSUME NEW X, S \subseteq X, \A x \in X \cap (S \cup T) : Succs(cfg, x) \cap (S \cup T) \subseteq X
      PROVE  T \subseteq X
  <2> DEFINE Y == X \cap T
  <2>1. t \in X
    BY <1>3, <1>4
  <2>2. \A x \in Y : next[x] \subseteq Y
    BY <1>3, <1>4
  <2>3. {t} \subseteq Y
    BY <1>3, <2>1
  <2> HIDE DEF Y
  <2>4. T \subseteq Y
    BY <1>3, <2>2, <2>3
  <2> QED BY <2>4 DEF Y
<1>5. FoundFrom(S, T)
  BY <1>4 DEF FoundFrom
<1> QED BY <1>5 DEF T

-----------------------------------------------------------------------------
(* Loops are entered at their header *)

\* The blocks of a loop are reachable when its header is, and each is reached
\* from the header inside the loop.
LEMMA BodyFromHeader ==
    ASSUME Built, phase = "done", NEW l \in Loop, l.header \in Live,
           NEW X, l.header \in X, \A x \in X \cap l.body : Succs(cfg, x) \cap l.body \subseteq X
    PROVE  l.body \subseteq Live /\ l.header \in l.body /\ l.body \subseteq X
<1> DEFINE h == l.header
           b == l.latch
           body == l.body
<1>1. /\ IsFlowGraph(cfg) /\ idom \in [cfg.blocks -> cfg.blocks \cup {NoBlock}]
      /\ cfg.entry \in cfg.blocks
  BY DEF Built, Dfs, DfsType, Tree, IdomType, IsFlowGraph
<1>2. /\ h \in cfg.blocks /\ b \in cfg.blocks /\ body \subseteq cfg.blocks
      /\ body = LoopBody(h, b) /\ \A n \in body : h \in IdomChain(n)
  BY DEF Loop, Dominates
<1>3. h \in Live /\ h \in X /\ \A x \in X \cap body : Succs(cfg, x) \cap body \subseteq X
  OBVIOUS
<1> HIDE DEF h, b, body
<1>4. h \in body
  BY <1>1, <1>2, BodyIsBlocks
<1>5. ASSUME NEW n \in body, n # h PROVE Preds(cfg, n) \subseteq body
  <2>1. h # b
    BY <1>2, <1>5 DEF LoopBody
  <2>2. n \in Backwards(b, {h})
    BY <1>2, <1>5, <2>1 DEF LoopBody
  <2>3. Preds(cfg, n) \ {h} \subseteq Backwards(b, {h})
    BY <1>1, <1>2, <2>2, BackwardsIsLeast
  <2> QED BY <1>2, <1>4, <2>1, <2>3 DEF LoopBody
<1>6. visited = Live
  BY OrderFacts DEF Built
<1>7. ASSUME NEW n \in body, n \notin Live PROVE FALSE
  <2>1. n \in cfg.blocks /\ h \in IdomChain(n) /\ n # h
    BY <1>2, <1>3, <1>7
  <2>2. ~Processed(n)
    BY <1>6, <1>7, <2>1, ProcessedIsLive DEF Built
  <2> DEFINE Only == {n}
  <2>3. n \in Only /\ \A x \in Only \cap cfg.blocks : Processed(x) => idom[x] \in Only
    BY <2>2
  <2>4. IdomChain(n) \subseteq Only
    <3> HIDE DEF Only
    <3> QED BY <1>1, <2>1, <2>3, ChainIsLeast
  <2> QED BY <2>1, <2>4
<1>8. cfg.entry \in body => cfg.entry = h
  <2> SUFFICES ASSUME cfg.entry \in body PROVE cfg.entry = h
    OBVIOUS
  <2>1. h \in IdomChain(cfg.entry)
    BY <1>2
  <2>2. cfg.entry \in visited
    BY DEF Built, Dfs, DfsSets
  <2>3. ByPaths(h, cfg.entry)
    BY <2>1, <2>2, ChainIsSound
  <2> QED BY <1>1, <2>3, EntryIsRoot
<1> DEFINE Y == (cfg.blocks \ body) \cup (X \cap body)
<1>9. cfg.entry \in Y
  BY <1>1, <1>3, <1>8
<1>10. ASSUME NEW x \in Y \cap cfg.blocks PROVE Succs(cfg, x) \subseteq Y
  <2> SUFFICES ASSUME NEW s \in Succs(cfg, x) PROVE s \in Y
    OBVIOUS
  <2>1. s \in cfg.blocks /\ x \in Preds(cfg, s)
    BY <1>1, SuccsAreBlocks DEF Preds
  <2>2. CASE s \notin body
    BY <2>1, <2>2
  <2>3. CASE s = h
    BY <1>3, <1>4, <2>3
  <2>4. CASE s \in body /\ s # h
    <3>1. x \in body
      BY <1>5, <2>1, <2>4
    <3>2. x \in X \cap body
      BY <3>1
    <3> QED BY <1>3, <2>4, <3>2
  <2> QED BY <2>2, <2>3, <2>4
<1> HIDE DEF Y
<1>11. Live \subseteq Y
  BY <1>1, <1>9, <1>10, ReachIsLeast DEF Live
<1>12. body \subseteq X
  BY <1>7, <1>11 DEF Y
<1> QED BY <1>4, <1>7, <1>12 DEF h, body

\* The blocks of a loop are found from its header.
LEMMA FoundLoop ==
    ASSUME Built, phase = "done", NEW l \in Loop, NEW S, l.header \in S, S \subseteq Live
    PROVE  FoundFrom(S, l.body)
<1> SUFFICES ASSUME NEW X, S \subseteq X,
                    \A x \in X \cap (S \cup l.body) : Succs(cfg, x) \cap (S \cup l.body) \subseteq X
             PROVE  l.body \subseteq X
  BY DEF FoundFrom
<1>1. l.header \in X /\ \A x \in X \cap l.body : Succs(cfg, x) \cap l.body \subseteq X
  OBVIOUS
<1> QED BY <1>1, BodyFromHeader

-----------------------------------------------------------------------------
(* The structures the emitter is given *)

\* A conditional's branches are successors of its header, and with blocks in
\* both branches they are all of them.
IfsRight ==
    /\ IsFiniteSet(ifs)
    /\ \A f \in ifs : /\ f.header \in cfg.blocks
                      /\ f.then_blocks \cup f.else_blocks \subseteq Succs(cfg, f.header)
                      /\ f.then_blocks # {} /\ f.else_blocks # {} =>
                            Succs(cfg, f.header) \subseteq f.then_blocks \cup f.else_blocks

\* What structural analysis guarantees to the emitter.
Analysed == Built /\ LoopsRight /\ JoinsRight /\ IfsRight

\* Recording the conditionals keeps that.
LEMMA StepIfs == Analysed /\ [SNext]_allVars => IfsRight'
<1> SUFFICES ASSUME Analysed, [SNext]_allVars PROVE IfsRight'
  OBVIOUS
<1>1. IsFlowGraph(cfg) /\ IfsRight
  BY DEF Analysed, Built, Dfs, DfsType
<1>2. CASE Dominators
  <2>1. ifs = {} /\ ifs' = ifs
    BY <1>2 DEF Dominators, structVars, Next, DfsCall, DfsReturn, Skip, FirstPred, NextPred,
                Climb, Record, Resweep, Return, InSweep, Analysed, LoopsRight
  <2> QED BY <2>1, FS_EmptySet DEF IfsRight
<1>3. CASE JoinFound \/ NoneFound
  <2> DEFINE h == RpoAt(scan)
  <2>1. PICK j : ifs' = ifs \cup {IfThenElse(h, j)}
    BY <1>3 DEF JoinFound, NoneFound, RecordIf
  <2>2. stage = "join" /\ UNCHANGED vars
    BY <1>3 DEF JoinFound, NoneFound, RecordIf
  <2>3. h \in cfg.blocks /\ Len(cfg.succ[h]) = 2
    BY <2>2 DEF Analysed, JoinsRight, JoinSearch
  <2> HIDE DEF h
  <2>4. Succs(cfg, h) = {cfg.succ[h][1], cfg.succ[h][2]}
    BY <1>1, <2>3, TwoWays
  <2> DEFINE r == IfThenElse(h, j)
  <2>5. /\ r.header = h /\ r.then_blocks \cup r.else_blocks \subseteq Succs(cfg, h)
        /\ r.then_blocks # {} /\ r.else_blocks # {} =>
              Succs(cfg, h) \subseteq r.then_blocks \cup r.else_blocks
    BY <2>4 DEF IfThenElse
  <2> HIDE DEF r
  <2>6. IsFiniteSet(ifs')
    BY <1>1, <2>1, FS_AddElement DEF r, IfsRight
  <2>7. ifs' = ifs \cup {r} /\ cfg' = cfg
    BY <2>1, <2>2 DEF r, vars
  <2> QED BY <1>1, <2>3, <2>5, <2>6, <2>7 DEF IfsRight
<1>4. ASSUME ~Dominators, ~JoinFound, ~NoneFound PROVE UNCHANGED <<cfg, ifs>>
  BY <1>4 DEF SNext, FinishRoot, FinishEdge, FinishLeave, TakeComponent, ScanBlock, KeepLoops,
              NotAnIf, BeginIf, SearchOn, End, allVars, structVars, vars
<1>5. ASSUME UNCHANGED <<cfg, ifs>> PROVE IfsRight'
  BY <1>1, <1>5 DEF IfsRight
<1> QED BY <1>2, <1>3, <1>4, <1>5

\* What the proofs about structural analysis establish, at every step of it.
LEMMA StepAnalysed == Analysed /\ [SNext]_allVars => Analysed'
  BY StepBuilt, AnalysisKeepsTree, StepLoops, StepJoins, StepIfs DEF Analysed

\* And before the first.
LEMMA InitAnalysed == SInit => Analysed
<1> SUFFICES ASSUME SInit PROVE Analysed
  OBVIOUS
<1>1. /\ found = <<>> /\ loops = {} /\ ifs = {} /\ scan = 1 /\ stage = "finish" /\ Init
  BY DEF SInit
<1>2. Built
  BY <1>1, InitDfs, InitTree DEF Built
<1>3. LoopsRight
  <2>1. found \in Seq(Loop)
    BY <1>1, EmptySeq
  <2> QED BY <1>1, <2>1 DEF LoopsRight
<1>4. JoinsRight
  BY <1>1 DEF JoinsRight, JoinSearch, JoinIsCommon
<1>5. IfsRight
  BY <1>1, FS_EmptySet DEF IfsRight
<1> QED BY <1>2, <1>3, <1>4, <1>5 DEF Analysed

\* When the analysis has ended it does nothing more.
LEMMA AnalysisOver ==
    ASSUME Analysed, stage = "end"
    PROVE  phase = "done" /\ ~SNext
<1>1. phase = "done"
  BY DEF Analysed, LoopsRight
<1>2. ~Next
  BY <1>1 DEF Next, DfsCall, DfsReturn, Skip, FirstPred, NextPred, Climb, Record, Resweep,
              Return, InSweep
<1>3. ~SNext
  BY <1>2 DEF SNext, Dominators, FinishRoot, FinishEdge, FinishLeave, TakeComponent,
              ScanBlock, KeepLoops, NotAnIf, BeginIf, SearchOn, JoinFound, NoneFound, End, InIfs
<1> QED BY <1>1, <1>3

\* What the maps give.
LEMMA IfAtIs ==
    ASSUME Analysed, NEW b, IsIf(b)
    PROVE  /\ IfAt(b) \in ifs /\ IfAt(b).header = b /\ b \in cfg.blocks
           /\ IfAt(b).then_blocks \subseteq Succs(cfg, b)
           /\ IfAt(b).else_blocks \subseteq Succs(cfg, b)
           /\ IfAt(b).then_blocks # {} /\ IfAt(b).else_blocks # {} =>
                 Succs(cfg, b) \subseteq IfAt(b).then_blocks \cup IfAt(b).else_blocks
<1>1. PICK f \in ifs : f.header = b
  BY DEF IsIf
<1>2. IfAt(b) \in ifs /\ IfAt(b).header = b
  BY <1>1 DEF IfAt
<1> QED BY <1>2 DEF Analysed, IfsRight

\* The loop of a header.
LEMMA LoopAtIs ==
    ASSUME Analysed, NEW b, IsLoop(b)
    PROVE  LoopAt(b) \in loops /\ LoopAt(b) \in Loop /\ LoopAt(b).header = b
<1>1. PICK l \in loops : l.header = b
  BY DEF IsLoop
<1>2. LoopAt(b) \in loops /\ LoopAt(b).header = b
  BY <1>1 DEF LoopAt
<1> QED BY <1>2 DEF Analysed, LoopsRight

\* The reverse postorder has the reachable blocks.
LEMMA RpoRange ==
    ASSUME Analysed, phase = "done", NEW S
    PROVE  InRpo(S) \in Seq(Live) /\ Range(InRpo(S)) = S \cap Live
<1> DEFINE N == Len(post_order)
           rpo == [k \in DOMAIN post_order |-> RpoAt(k)]
<1>1. /\ N \in Nat /\ DOMAIN post_order = 1..N /\ visited = Live
      /\ \A b \in visited : PostIndex(b) \in 1..N /\ post_order[PostIndex(b)] = b
      /\ \A i \in 1..N : post_order[i] \in visited
  BY OrderFacts DEF Analysed, Built
<1>2. \A k \in 1..N : N + 1 - k \in 1..N /\ rpo[k] = post_order[N + 1 - k]
  BY <1>1 DEF RpoAt
<1>3. DOMAIN rpo = 1..N
  BY <1>1
<1>4. rpo = [k \in 1..N |-> rpo[k]]
  BY <1>1
<1> HIDE DEF rpo, N
<1>5. rpo \in [1..N -> Live]
  BY <1>1, <1>2, <1>4
<1>6. rpo \in Seq(Live)
  BY <1>1, <1>5, SeqDef
<1>7. Range(rpo) = Live
  <2>1. ASSUME NEW b \in Live PROVE b \in Range(rpo)
    <3> DEFINE k == N + 1 - PostIndex(b)
    <3>1. PostIndex(b) \in 1..N
      BY <1>1
    <3>2. k \in 1..N /\ N + 1 - k = PostIndex(b)
      BY <1>1, <3>1
    <3> HIDE DEF k
    <3>3. rpo[k] = b
      BY <1>1, <1>2, <3>2
    <3> QED BY <1>3, <3>2, <3>3 DEF Range
  <2>2. Range(rpo) \subseteq Live
    BY <1>3, <1>5 DEF Range
  <2> QED BY <2>1, <2>2
<1>8. Kept(rpo, S) \in Seq(Live) /\ Range(Kept(rpo, S)) = Range(rpo) \cap S
  BY <1>6, KeptRange
<1> QED BY <1>7, <1>8 DEF InRpo, rpo

\* A set of blocks in order.
LEMMA SortedBlocks ==
    ASSUME IsFlowGraph(cfg), NEW S, S \subseteq cfg.blocks
    PROVE  Sorted(S) \in Seq(S) /\ Range(Sorted(S)) = S
<1>1. S \subseteq Nat /\ IsFiniteSet(S)
  BY FS_Subset DEF IsFlowGraph
<1> QED BY <1>1, SortedShape

\* A visit goes on to blocks of the body, the successors among them.
LEMMA OnwardShape ==
    ASSUME IsFlowGraph(cfg), NEW l, l.body \subseteq cfg.blocks, NEW b
    PROVE  /\ Onward(l, b) \in Seq(l.body)
           /\ InBody(l, Succs(cfg, b)) \subseteq Range(Onward(l, b))
<1> DEFINE body == l.body
           S == InBody(l, Succs(cfg, b))
           A == InBody(l, Arms(IfAt(b)))
           t == IF IsIf(b) THEN Sorted(A) ELSE <<>>
<1>1. S \subseteq body /\ A \subseteq body /\ body \subseteq cfg.blocks
  BY DEF InBody
<1>2. Onward(l, b) = Sorted(S) \o t
  BY DEF Onward
<1> HIDE DEF S, A
<1>3. Sorted(S) \in Seq(body) /\ Range(Sorted(S)) = S
  <2>1. Sorted(S) \in Seq(S) /\ Range(Sorted(S)) = S
    BY <1>1, SortedBlocks
  <2> QED BY <1>1, <2>1, SeqMonotonic
<1>4. t \in Seq(body)
  <2>1. Sorted(A) \in Seq(A)
    BY <1>1, SortedBlocks
  <2>2. Sorted(A) \in Seq(body)
    BY <1>1, <2>1, SeqMonotonic
  <2> QED BY <2>2, EmptySeq
<1> HIDE DEF t, body
<1>5. Sorted(S) \o t \in Seq(body) /\ Range(Sorted(S) \o t) = S \cup Range(t)
  BY <1>3, <1>4, ConcatRange
<1> QED BY <1>2, <1>5 DEF S, body

\* The order of a loop's body has every block but the header.
LEMMA BodyOrderShape ==
    ASSUME Analysed, phase = "done", NEW l \in Loop, l.header \in Live
    PROVE  BodyOrder(l) \in Seq(l.body) /\ l.body \subseteq {l.header} \cup Range(BodyOrder(l))
<1> DEFINE h == l.header
           body == l.body
           g == BodyGraph(l)
           post == PostOrder(g)
           n == Len(post) - 1
<1>1. IsFlowGraph(cfg) /\ body \subseteq cfg.blocks
  BY DEF Analysed, Built, Dfs, DfsType, Loop
<1>2. h \in body
  BY <1>1, BodyIsBlocks DEF Loop
<1>3. IsFiniteSet(body)
  BY <1>1, FS_Subset DEF IsFlowGraph
<1>4. \A b \in body : /\ Onward(l, b) \in Seq(body)
                       /\ InBody(l, Succs(cfg, b)) \subseteq Range(Onward(l, b))
  BY <1>1, OnwardShape
<1>5. /\ g.blocks = body /\ g.entry = h /\ g.succ = [b \in body |-> Onward(l, b)]
  BY DEF BodyGraph
<1> HIDE DEF g
<1>6. Searchable(g)
  <2>1. g.succ \in [body -> Seq(body)]
    <3> HIDE DEF body
    <3> QED BY <1>4, <1>5
  <2> QED BY <1>2, <1>3, <1>5, <2>1 DEF Searchable
<1>7. /\ post \in Seq(body) /\ post # <<>> /\ post[Len(post)] = h
      /\ \A b \in Range(post) : Range(g.succ[b]) \subseteq Range(post)
  <2> HIDE DEF body, h
  <2> QED BY <1>5, <1>6, PostOrderShape
<1>8. /\ n \in Nat /\ Len(post) = n + 1 /\ DOMAIN post = 1..(n + 1)
      /\ \A i \in 1..(n + 1) : post[i] \in body
  <2>1. Len(post) \in Nat /\ DOMAIN post = 1..Len(post) /\ \A i \in 1..Len(post) : post[i] \in body
    BY <1>7, LenProperties, ElementOfSeq
  <2>2. Len(post) # 0
    BY <1>7, EmptySeq
  <2> QED BY <2>1, <2>2
<1>9. BodyOrder(l) = [k \in 1..n |-> post[n + 1 - k]]
  BY DEF BodyOrder, g
<1> HIDE DEF post
<1>10. Range(post) \subseteq body /\ h \in Range(post)
  BY <1>7, <1>8 DEF Range
<1>11. body \subseteq Range(post)
  <2> DEFINE X == Range(post)
  <2>1. ASSUME NEW x \in X \cap l.body, NEW s \in Succs(cfg, x) \cap l.body PROVE s \in X
    <3>1. CASE s = h
      BY <1>10, <3>1
    <3>2. CASE s # h
      <4>1. s \in InBody(l, Succs(cfg, x))
        BY <3>2 DEF InBody
      <4>2. s \in Range(g.succ[x])
        BY <1>4, <1>5, <4>1
      <4> QED BY <1>7, <4>2
    <3> QED BY <3>1, <3>2
  <2>2. l.header \in X
    BY <1>10
  <2> HIDE DEF X
  <2>3. l.body \subseteq X
    BY <2>1, <2>2, BodyFromHeader DEF Analysed
  <2> QED BY <2>3 DEF X
<1> HIDE DEF n
<1> DEFINE o == [k \in 1..n |-> post[n + 1 - k]]
<1>12. \A k \in 1..n : n + 1 - k \in 1..(n + 1) /\ n + 1 - k \in 1..n
  BY <1>8
<1>13. o \in Seq(body)
  <2>1. o \in [1..n -> body]
    BY <1>8, <1>12
  <2> HIDE DEF o, body
  <2> QED BY <1>8, <2>1, SeqDef
<1>14. body \subseteq {h} \cup Range(o)
  <2> SUFFICES ASSUME NEW x \in body, x # h PROVE x \in Range(o)
    OBVIOUS
  <2>1. PICK i \in 1..(n + 1) : x = post[i]
    BY <1>8, <1>11 DEF Range
  <2>2. i # n + 1
    BY <1>7, <1>8, <2>1
  <2>3. i \in 1..n
    BY <1>8, <2>2
  <2> DEFINE k == n + 1 - i
  <2>4. k \in 1..n /\ n + 1 - k = i
    BY <1>8, <2>3
  <2> HIDE DEF k
  <2>5. o[k] = x /\ DOMAIN o = 1..n
    BY <2>1, <2>4
  <2> HIDE DEF o
  <2> QED BY <2>4, <2>5 DEF Range
<1> QED BY <1>9, <1>13, <1>14

-----------------------------------------------------------------------------
(* Switches and linear regions *)

\* Successors of what has been found are found as well.
LEMMA FoundMore ==
    ASSUME NEW S, NEW T, NEW U, FoundFrom(S, T),
           \A u \in U : \E p \in S \cup T : u \in Succs(cfg, p)
    PROVE  FoundFrom(S, T \cup U)
<1> SUFFICES ASSUME NEW X, S \subseteq X,
                    \A x \in X \cap (S \cup (T \cup U)) :
                        Succs(cfg, x) \cap (S \cup (T \cup U)) \subseteq X
             PROVE  T \cup U \subseteq X
  BY DEF FoundFrom
<1>1. T \subseteq X
  BY DEF FoundFrom
<1>2. U \subseteq X
  BY <1>1
<1> QED BY <1>1, <1>2

\* The conditionals of a switch, found from the first.
Ladders(b) ==
    {q \in Seq({x \in cfg.blocks : IsIf(x)}) :
        q # <<>> /\ q[1] = b /\ FoundFrom({b}, Range(q))}

\* try_collect_switch_cases follows else branches from one conditional to another.
LEMMA ChainShape ==
    ASSUME Analysed, NEW b \in cfg.blocks, IsIf(b)
    PROVE  Chain(b) \in Ladders(b)
<1> DEFINE n == Cardinality(ifs)
           Heads == {x \in cfg.blocks : IsIf(x)}
           next(h) == IfAt(h).else_blocks \cap Heads
           Type == Ladders(b)
           T == {Q \in SUBSET Type : Q # {}}
           base == {<<b>>}
           Step(Q) == {q \o Sorted(next(Last(q))) : q \in Q}
           f == [k \in 1..n |-> [Q \in T |-> Step(Q)]]
           Solves(R) == R = [k \in 0..n |-> IF k = 0 THEN base ELSE Step(R[k - 1])]
           R == CHOOSE V : Solves(V)
<1>1. Chain(b) = CHOOSE q \in R[n] : TRUE
  BY DEF Chain
<1>2. n \in Nat
  BY FS_CardinalityType DEF Analysed, IfsRight
<1>3. IsFlowGraph(cfg)
  BY DEF Analysed, Built, Dfs, DfsType
<1>4. <<b>> \in Type
  <2>1. b \in Heads
    OBVIOUS
  <2> HIDE DEF Heads
  <2>2. <<b>> \in Seq(Heads) /\ <<b>> # <<>> /\ <<b>>[1] = b
    BY <2>1
  <2>3. Range(<<b>>) = {b}
    BY VectorOne
  <2>4. FoundFrom({b}, {b})
    BY DEF FoundFrom
  <2> QED BY <2>2, <2>3, <2>4 DEF Ladders, Heads
<1>5. ASSUME NEW q \in Type PROVE q \o Sorted(next(Last(q))) \in Type
  <2> DEFINE U == next(Last(q))
             r == Sorted(U)
  <2>1. q \in Seq(Heads) /\ q # <<>> /\ q[1] = b /\ FoundFrom({b}, Range(q))
    BY DEF Ladders
  <2>2. Len(q) \in Nat \ {0} /\ DOMAIN q = 1..Len(q) /\ Last(q) \in Heads /\ Last(q) \in Range(q)
    <3> HIDE DEF Heads
    <3>1. Len(q) \in Nat /\ DOMAIN q = 1..Len(q) /\ \A i \in 1..Len(q) : q[i] \in Heads
      BY <2>1, LenProperties, ElementOfSeq
    <3>2. Len(q) # 0
      BY <2>1, EmptySeq
    <3>3. Len(q) \in 1..Len(q)
      BY <3>1, <3>2
    <3> QED BY <3>1, <3>2, <3>3 DEF Last, Range
  <2>3. U \subseteq Heads /\ U \subseteq Succs(cfg, Last(q))
    BY <2>2, IfAtIs
  <2>4. r \in Seq(U) /\ Range(r) = U
    BY <1>3, <2>3, SortedBlocks
  <2> HIDE DEF r, U, Heads
  <2>5. r \in Seq(Heads)
    BY <2>3, <2>4, SeqMonotonic
  <2>6. q \o r \in Seq(Heads) /\ Range(q \o r) = Range(q) \cup U
    BY <2>1, <2>4, <2>5, ConcatRange
  <2>7. FoundFrom({b}, Range(q \o r))
    <3>1. \A u \in U : \E p \in {b} \cup Range(q) : u \in Succs(cfg, p)
      BY <2>2, <2>3
    <3>2. FoundFrom({b}, Range(q) \cup U)
      BY <2>1, <3>1, FoundMore
    <3> QED BY <2>6, <3>2
  <2>8. q \o r # <<>> /\ (q \o r)[1] = b
    <3>1. IsVector(q) /\ IsVector(r)
      BY <2>1, <2>5, VectorIs
    <3>2. Len(q \o r) = Len(q) + Len(r) /\ (q \o r)[1] = q[1] /\ Len(r) \in Nat
      BY <2>2, <3>1, VectorConcat, VectorShape
    <3>3. Len(q \o r) # 0
      BY <2>2, <3>2
    <3> QED BY <2>1, <3>2, <3>3, VectorNone
  <2> QED BY <2>6, <2>7, <2>8 DEF Ladders, Heads, r, U
<1>6. base \in T /\ \A Q \in T : Step(Q) \in T
  <2> HIDE DEF Type, next
  <2> QED BY <1>4, <1>5
<1> HIDE DEF T, base, Step, R, n
<1>7. Solves(R)
  <2>1. f \in [1..n -> [T -> T]]
    BY <1>6
  <2> HIDE DEF f
  <2>2. PICK V \in [0..n -> T] : V[0] = base /\ \A k \in 1..n : V[k] = f[k][V[k - 1]]
    <3>1. base \in T
      BY <1>6
    <3>2. PICK m, D, a, g : m = n /\ D = T /\ a = base /\ g = f
      OBVIOUS
    <3>3. m \in Nat /\ a \in D /\ g \in [1..m -> [D -> D]]
      BY <1>2, <2>1, <3>1, <3>2
    <3>4. \E V \in [0..m -> D] : V[0] = a /\ \A k \in 1..m : V[k] = g[k][V[k - 1]]
      BY ONLY <3>3, IterationExists
    <3> QED BY ONLY <3>2, <3>4
  <2>3. ASSUME NEW k \in 0..n PROVE V[k] = IF k = 0 THEN base ELSE Step(V[k - 1])
    <3>1. CASE k = 0
      BY <2>2, <3>1
    <3>2. CASE k # 0
      <4>1. k \in 1..n /\ k - 1 \in 0..n
        BY <1>2, <3>2
      <4>2. V[k - 1] \in T
        BY <4>1
      <4>3. f[k][V[k - 1]] = Step(V[k - 1])
        BY <4>1, <4>2 DEF f
      <4> QED BY <2>2, <3>2, <4>1, <4>3
    <3> QED BY <3>1, <3>2
  <2>4. V = [k \in 0..n |-> V[k]]
    OBVIOUS
  <2>5. Solves(V)
    BY <2>3, <2>4
  <2> HIDE DEF Solves
  <2> QED BY <2>5 DEF R
<1>8. R[0] = base /\ \A k \in 1..n : R[k] = Step(R[k - 1])
  BY <1>2, <1>7
<1> HIDE DEF Solves
<1> DEFINE P == {k \in 0..n : R[k] \in T}
<1>9. 0 \in P
  BY <1>2, <1>6, <1>8
<1>10. ASSUME NEW k \in 1..n, k - 1 \in P PROVE k \in P
  <2>1. k \in 0..n
    BY <1>2
  <2> QED BY <1>6, <1>8, <1>10, <2>1
<1>11. n \in P
  <2> HIDE DEF P
  <2> QED BY <1>2, <1>9, <1>10, Induct
<1>12. R[n] \in SUBSET Type /\ R[n] # {}
  BY <1>11 DEF T
<1> HIDE DEF Type
<1> QED BY <1>1, <1>12 DEF Type

\* The blocks of a linear region, found from the first.
Regions(b) ==
    {q \in Seq(cfg.blocks) : q # <<>> /\ q[1] = b /\ FoundFrom({b}, Range(q))}

\* collect_linear_region follows fallthroughs from its block.
LEMMA LinearRegionShape ==
    ASSUME IsFlowGraph(cfg), NEW b \in cfg.blocks
    PROVE  LinearRegion(b) \in Regions(b)
<1> DEFINE n == Cardinality(cfg.blocks)
           Type == Regions(b)
           T == {Q \in SUBSET Type : Q # {}}
           base == {<<b>>}
           Longer(q) == IF Chains(Last(q), Range(q)) THEN Append(q, cfg.succ[Last(q)][1]) ELSE q
           Step(Q) == {Longer(q) : q \in Q}
           f == [k \in 1..n |-> [Q \in T |-> Step(Q)]]
           Solves(R) == R = [k \in 0..n |-> IF k = 0 THEN base ELSE Step(R[k - 1])]
           R == CHOOSE V : Solves(V)
<1>1. LinearRegion(b) = CHOOSE q \in R[n] : TRUE
  BY DEF LinearRegion
<1>2. n \in Nat
  BY FS_CardinalityType DEF IsFlowGraph
<1>4. <<b>> \in Type
  <2> DEFINE B == cfg.blocks
  <2>1. b \in B
    OBVIOUS
  <2> HIDE DEF B
  <2>2. <<b>> \in Seq(B) /\ <<b>> # <<>> /\ <<b>>[1] = b
    BY <2>1
  <2>3. Range(<<b>>) = {b}
    BY VectorOne
  <2>4. FoundFrom({b}, {b})
    BY DEF FoundFrom
  <2> QED BY <2>2, <2>3, <2>4 DEF Regions, B
<1>5. ASSUME NEW q \in Type PROVE Longer(q) \in Type
  <2> DEFINE last == Last(q)
             s == cfg.succ[last][1]
  <2> SUFFICES ASSUME Chains(last, Range(q)) PROVE Append(q, s) \in Type
    OBVIOUS
  <2>1. q \in Seq(cfg.blocks) /\ q # <<>> /\ q[1] = b /\ FoundFrom({b}, Range(q))
    BY DEF Regions
  <2>2. Len(q) \in Nat \ {0} /\ DOMAIN q = 1..Len(q) /\ last \in cfg.blocks /\ last \in Range(q)
    <3>1. Len(q) \in Nat /\ DOMAIN q = 1..Len(q) /\ \A i \in 1..Len(q) : q[i] \in cfg.blocks
      BY <2>1, LenProperties, ElementOfSeq
    <3>2. Len(q) # 0
      BY <2>1, EmptySeq
    <3>3. Len(q) \in 1..Len(q)
      BY <3>1, <3>2
    <3> QED BY <3>1, <3>2, <3>3 DEF Last, Range
  <2>3. Len(cfg.succ[last]) = 1
    BY DEF Chains
  <2>4. cfg.succ[last] \in Seq(cfg.blocks)
    BY <2>2 DEF IsFlowGraph
  <2> HIDE DEF last
  <2>5. s \in cfg.blocks /\ s \in Succs(cfg, last)
    <3>1. DOMAIN cfg.succ[last] = 1..1 /\ \A i \in 1..1 : cfg.succ[last][i] \in cfg.blocks
      BY <2>3, <2>4, LenProperties, ElementOfSeq
    <3>2. 1 \in 1..1
      OBVIOUS
    <3> QED BY <3>1, <3>2 DEF Succs, Range
  <2> HIDE DEF s
  <2>6. Append(q, s) \in Seq(cfg.blocks)
    BY <2>1, <2>5, AppendProperties
  <2>7. IsVector(q)
    BY <2>1, VectorIs
  <2>8. /\ Range(Append(q, s)) = Range(q) \cup {s} /\ Len(Append(q, s)) = Len(q) + 1
        /\ Append(q, s)[1] = q[1]
    BY <2>2, <2>7, VectorAppend
  <2>9. FoundFrom({b}, Range(q) \cup {s})
    BY <2>1, <2>2, <2>5, FoundMore
  <2>10. Append(q, s) # <<>>
    BY <2>2, <2>8, VectorNone
  <2> QED BY <2>1, <2>6, <2>8, <2>9, <2>10 DEF Regions
<1>6. base \in T /\ \A Q \in T : Step(Q) \in T
  <2> HIDE DEF Type, Longer
  <2> QED BY <1>4, <1>5
<1> HIDE DEF T, base, Step, R, n
<1>7. Solves(R)
  <2>1. f \in [1..n -> [T -> T]]
    BY <1>6
  <2> HIDE DEF f
  <2>2. PICK V \in [0..n -> T] : V[0] = base /\ \A k \in 1..n : V[k] = f[k][V[k - 1]]
    <3>1. base \in T
      BY <1>6
    <3>2. PICK m, D, a, g : m = n /\ D = T /\ a = base /\ g = f
      OBVIOUS
    <3>3. m \in Nat /\ a \in D /\ g \in [1..m -> [D -> D]]
      BY <1>2, <2>1, <3>1, <3>2
    <3>4. \E V \in [0..m -> D] : V[0] = a /\ \A k \in 1..m : V[k] = g[k][V[k - 1]]
      BY ONLY <3>3, IterationExists
    <3> QED BY ONLY <3>2, <3>4
  <2>3. ASSUME NEW k \in 0..n PROVE V[k] = IF k = 0 THEN base ELSE Step(V[k - 1])
    <3>1. CASE k = 0
      BY <2>2, <3>1
    <3>2. CASE k # 0
      <4>1. k \in 1..n /\ k - 1 \in 0..n
        BY <1>2, <3>2
      <4>2. V[k - 1] \in T
        BY <4>1
      <4>3. f[k][V[k - 1]] = Step(V[k - 1])
        BY <4>1, <4>2 DEF f
      <4> QED BY <2>2, <3>2, <4>1, <4>3
    <3> QED BY <3>1, <3>2
  <2>4. V = [k \in 0..n |-> V[k]]
    OBVIOUS
  <2>5. Solves(V)
    BY <2>3, <2>4
  <2> HIDE DEF Solves
  <2> QED BY <2>5 DEF R
<1>8. R[0] = base /\ \A k \in 1..n : R[k] = Step(R[k - 1])
  BY <1>2, <1>7
<1> HIDE DEF Solves
<1> DEFINE P == {k \in 0..n : R[k] \in T}
<1>9. 0 \in P
  BY <1>2, <1>6, <1>8
<1>10. ASSUME NEW k \in 1..n, k - 1 \in P PROVE k \in P
  <2>1. k \in 0..n
    BY <1>2
  <2> QED BY <1>6, <1>8, <1>10, <2>1
<1>11. n \in P
  <2> HIDE DEF P
  <2> QED BY <1>2, <1>9, <1>10, Induct
<1>12. R[n] \in SUBSET Type /\ R[n] # {}
  BY <1>11 DEF T
<1> HIDE DEF Type
<1> QED BY <1>1, <1>12 DEF Type

-----------------------------------------------------------------------------
(* What is printed *)

\* A block with statements to print.
Shows(b) == Speaks(b) /\ b \notin cfg.suppressed

\* The line that stands for a block's statements.
Work(b) == Line("work", b)

\* Lines among which no conditional begins.
NoIf(lines) == \A x \in Range(lines) : x.op # "if"

\* Lines that print the statements of S, where they have any, and no `if`.
Tells(lines, S) ==
    IsVector(lines) /\ NoIf(lines) /\ \A b \in S : Shows(b) => Work(b) \in Range(lines)

\* No lines.
LEMMA TellsNone == Tells(<<>>, {})
  BY VectorNone DEF Tells, NoIf

\* Lines that print statements of S only.
TellsOnly(lines, S) ==
    \A x \in Range(lines) : x.op = "work" => \E b \in S : Shows(b) /\ x = Work(b)

\* emit_block_body prints the statements of its block and no others.
LEMMA BodyPrints ==
    ASSUME NEW b, NEW skip_terminator, NEW fallthrough_target
    PROVE  /\ Tells(Body(b, skip_terminator, fallthrough_target), {b})
           /\ TellsOnly(Body(b, skip_terminator, fallthrough_target), {b})
<1> DEFINE one == IF Speaks(b) THEN <<Work(b)>> ELSE <<>>
           two == IF skip_terminator THEN <<>> ELSE Terminator(b, fallthrough_target)
           three == IF cfg.ends[b] = "return" THEN <<Line("return", b)>> ELSE <<>>
           lines == one \o two \o three
           pc == <<Line("pc", b)>>
<1>1. IsVector(one) /\ Range(one) = IF Speaks(b) THEN {Work(b)} ELSE {}
  BY VectorNone, VectorOne
<1>0. NoIf(one)
  <2>1. Work(b).op # "if"
    BY DEF Work, Line
  <2> QED BY <1>1, <2>1 DEF NoIf
<1>2. IsVector(two) /\ \A x \in Range(two) : x.op \notin {"work", "if"}
  <2>1. CASE skip_terminator
    BY <2>1, VectorNone
  <2>2. CASE ~skip_terminator
    <3> DEFINE Ops == {"continue", "goto", "if continue", "if goto", "call", "trap",
                       "call indirect"}
               t == cfg.succ[b][1]
    <3>0. two = Terminator(b, fallthrough_target)
      BY <2>2
    <3> HIDE DEF two
    <3>1. two = <<>> \/ \E op \in Ops : \E c : two = <<Line(op, c)>>
      <4>1. CASE cfg.ends[b] = "jump"
        <5>1. two = IF t # fallthrough_target
                    THEN IF t = dispatch_loop_header THEN <<Line("continue", b)>>
                         ELSE <<Line("goto", t)>>
                    ELSE <<>>
          BY <3>0, <4>1 DEF Terminator, BranchShows
        <5> QED BY <5>1
      <4>2. CASE BranchShows(b)
        <5>1. cfg.ends[b] = "branch"
          BY <4>2 DEF BranchShows
        <5>2. two = IF t = dispatch_loop_header THEN <<Line("if continue", b)>>
                    ELSE <<Line("if goto", t)>>
          BY <3>0, <4>2, <5>1 DEF Terminator
        <5> QED BY <5>2
      <4>3. CASE cfg.ends[b] \in {"call", "trap"}
        <5>1. two = <<Line(cfg.ends[b], b)>>
          BY <3>0, <4>3 DEF Terminator, BranchShows
        <5> QED BY <4>3, <5>1
      <4>4. CASE cfg.ends[b] = "switch"
        <5>1. two = <<Line("call indirect", b)>>
          BY <3>0, <4>4 DEF Terminator, BranchShows
        <5> QED BY <5>1
      <4>5. CASE cfg.ends[b] \notin {"jump", "call", "trap", "switch"} /\ ~BranchShows(b)
        BY <3>0, <4>5 DEF Terminator
      <4> QED BY <4>1, <4>2, <4>3, <4>4, <4>5
    <3>2. ASSUME NEW op \in Ops, NEW c, two = <<Line(op, c)>>
          PROVE  IsVector(two) /\ \A x \in Range(two) : x.op \notin {"work", "if"}
      <4> DEFINE line == Line(op, c)
      <4>1. line.op \notin {"work", "if"}
        BY DEF Line
      <4> HIDE DEF line
      <4>2. IsVector(<<line>>) /\ Range(<<line>>) = {line}
        BY VectorOne
      <4> QED BY <3>2, <4>1, <4>2 DEF line
    <3> HIDE DEF Ops
    <3> QED BY <3>1, <3>2, VectorNone
  <2> QED BY <2>1, <2>2
<1>3. IsVector(three) /\ \A x \in Range(three) : x.op \notin {"work", "if"}
  <2> DEFINE line == Line("return", b)
  <2>1. line.op \notin {"work", "if"}
    BY DEF Line
  <2> HIDE DEF line
  <2>2. IsVector(<<line>>) /\ Range(<<line>>) = {line}
    BY VectorOne
  <2>3. three = IF cfg.ends[b] = "return" THEN <<line>> ELSE <<>>
    BY DEF line
  <2> HIDE DEF three
  <2> QED BY <2>1, <2>2, <2>3, VectorNone
<1> HIDE DEF one, two, three
<1>4. IsVector(lines) /\ Range(lines) = Range(one) \cup Range(two) \cup Range(three)
  <2>1. IsVector(one \o two) /\ Range(one \o two) = Range(one) \cup Range(two)
    BY <1>1, <1>2, VectorConcat
  <2> QED BY <1>3, <2>1, VectorConcat
<1> HIDE DEF lines
<1>5. IsVector(pc) /\ \A x \in Range(pc) : x.op \notin {"work", "if"}
  <2> DEFINE line == Line("pc", b)
  <2>1. line.op \notin {"work", "if"}
    BY DEF Line
  <2> HIDE DEF line
  <2>2. IsVector(<<line>>) /\ Range(<<line>>) = {line}
    BY VectorOne
  <2> QED BY <2>1, <2>2 DEF line
<1> HIDE DEF pc
<1>6. Body(b, skip_terminator, fallthrough_target) =
        IF b \in cfg.suppressed \/ lines = <<>> THEN <<>> ELSE pc \o lines
  BY DEF Body, lines, one, two, three, pc, Work
<1>7. CASE b \in cfg.suppressed \/ lines = <<>>
  <2>1. Shows(b) => Work(b) \in Range(lines)
    BY <1>1, <1>4 DEF Shows
  <2> QED BY <1>6, <1>7, <2>1, VectorNone DEF Tells, TellsOnly, NoIf, Shows
<1>8. CASE ~(b \in cfg.suppressed \/ lines = <<>>)
  <2>1. IsVector(pc \o lines) /\ Range(pc \o lines) = Range(pc) \cup Range(lines)
    BY <1>4, <1>5, VectorConcat
  <2>2. Shows(b) => Work(b) \in Range(pc \o lines)
    BY <1>1, <1>4, <2>1 DEF Shows
  <2>3. \A x \in Range(pc \o lines) : x.op = "work" => Speaks(b) /\ x = Work(b)
    BY <1>1, <1>2, <1>3, <1>4, <1>5, <2>1
  <2>4. NoIf(pc \o lines)
    BY <1>0, <1>2, <1>3, <1>4, <1>5, <2>1 DEF NoIf
  <2> QED BY <1>6, <1>8, <2>1, <2>2, <2>3, <2>4 DEF Tells, TellsOnly, Shows
<1> QED BY <1>7, <1>8

\* Lines in a row, and one line more.
LEMMA PrintConcat ==
    ASSUME NEW s, NEW t, NEW S, NEW T, Tells(s, S), Tells(t, T)
    PROVE  Tells(s \o t, S \cup T) /\ Range(s \o t) = Range(s) \cup Range(t)
  BY VectorConcat DEF Tells, NoIf

\* A line that is not a statement.
LEMMA PrintLine ==
    ASSUME NEW op, op # "if", NEW b
    PROVE  Tells(<<Line(op, b)>>, {}) /\ (op # "work" => TellsOnly(<<Line(op, b)>>, {}))
<1> DEFINE line == Line(op, b)
<1>1. line.op = op
  BY DEF Line
<1> HIDE DEF line
<1>2. IsVector(<<line>>) /\ Range(<<line>>) = {line}
  BY VectorOne
<1> QED BY <1>1, <1>2 DEF line, Tells, TellsOnly, NoIf

\* So does a block whose terminator is a break or a continue of its loop.
LEMMA ControlledPrints ==
    ASSUME NEW b, NEW loop, NEW fallthrough_target
    PROVE  /\ Tells(Controlled(b, loop, fallthrough_target), {b})
           /\ TellsOnly(Controlled(b, loop, fallthrough_target), {b})
<1> DEFINE act == Action(LoopAt(loop), b)
           quiet == Body(b, TRUE, NoBlock)
           line == <<Line(act, b)>>
<1>1. CASE loop # NoBlock /\ act # "none"
  <2>1. Controlled(b, loop, fallthrough_target) = quiet \o line
    BY <1>1 DEF Controlled
  <2>2. act \notin {"work", "if"}
    BY DEF Action
  <2>3. Tells(quiet, {b}) /\ TellsOnly(quiet, {b})
    BY BodyPrints
  <2>4. Tells(line, {}) /\ TellsOnly(line, {})
    <3> HIDE DEF act
    <3> QED BY <2>2, PrintLine
  <2> HIDE DEF quiet, line
  <2>5. Tells(quiet \o line, {b} \cup {}) /\ Range(quiet \o line) = Range(quiet) \cup Range(line)
    BY <2>3, <2>4, PrintConcat
  <2> QED BY <2>1, <2>3, <2>4, <2>5 DEF TellsOnly
<1>2. CASE ~(loop # NoBlock /\ act # "none")
  <2>1. Controlled(b, loop, fallthrough_target) = Body(b, FALSE, fallthrough_target)
    BY <1>2 DEF Controlled
  <2> QED BY <2>1, BodyPrints
<1> QED BY <1>1, <1>2

\* The parts of a text.
LEMMA PrintParts ==
    ASSUME NEW n \in Nat, NEW F, F = [i \in 1..n |-> F[i]],
           NEW q, \A i \in 1..n : Tells(F[i], {q[i]})
    PROVE  Tells(FlattenSeq(F), {q[i] : i \in 1..n})
<1>1. \A i \in 1..n : IsVector(F[i])
  BY DEF Tells
<1>2. IsVector(FlattenSeq(F)) /\ Range(FlattenSeq(F)) = UNION {Range(F[i]) : i \in 1..n}
  BY <1>1, FlattenRange
<1> QED BY <1>2 DEF Tells, NoIf

\* One case of a switch.
LEMMA CasePrints ==
    ASSUME IsFlowGraph(cfg), NEW S, S \subseteq cfg.blocks, NEW op, op # "if", NEW b, NEW loop
    PROVE  Tells(Case(Line(op, b), S, loop), S)
<1> DEFINE q == Sorted(S)
           F == [i \in DOMAIN q |-> Controlled(q[i], loop, NoBlock)]
           head == <<Line(op, b)>>
           lines == head \o FlattenSeq(F)
           leave == Line("leave", Line(op, b).at)
<1>1. q \in Seq(S) /\ Range(q) = S
  BY SortedBlocks
<1> HIDE DEF q
<1>2. Len(q) \in Nat /\ DOMAIN q = 1..Len(q) /\ S = {q[i] : i \in 1..Len(q)}
  BY <1>1, LenProperties DEF Range
<1>3. F = [i \in 1..Len(q) |-> F[i]] /\ \A i \in 1..Len(q) : F[i] = Controlled(q[i], loop, NoBlock)
  BY <1>2
<1> HIDE DEF F
<1>4. Tells(FlattenSeq(F), S)
  <2>1. \A i \in 1..Len(q) : Tells(F[i], {q[i]})
    BY <1>3, ControlledPrints
  <2>2. Tells(FlattenSeq(F), {q[i] : i \in 1..Len(q)})
    <3>1. PICK n, G, r : n = Len(q) /\ G = F /\ r = q
      OBVIOUS
    <3>2. n \in Nat /\ G = [i \in 1..n |-> G[i]] /\ \A i \in 1..n : Tells(G[i], {r[i]})
      BY <1>2, <1>3, <2>1, <3>1
    <3>3. Tells(FlattenSeq(G), {r[i] : i \in 1..n})
      BY ONLY <3>2, PrintParts
    <3> QED BY <3>1, <3>3
  <2> QED BY <1>2, <2>2
<1>5. Tells(head, {})
  BY PrintLine
<1>6. Case(Line(op, b), S, loop) = IF IsTerminator(Last(lines)) THEN lines ELSE Append(lines, leave)
  BY DEF Case, F, q
<1>9. leave.op # "if"
  BY DEF Line
<1> HIDE DEF head, leave
<1>7. Tells(lines, {} \cup S)
  BY <1>4, <1>5, PrintConcat
<1> HIDE DEF lines
<1>8. Tells(Append(lines, leave), S)
  <2>1. IsVector(Append(lines, leave)) /\ Range(Append(lines, leave)) = Range(lines) \cup {leave}
    BY <1>7, VectorAppend DEF Tells
  <2> QED BY <1>7, <1>9, <2>1 DEF Tells, NoIf
<1> QED BY <1>6, <1>7, <1>8

\* The label of a block.
LEMMA LabelPrints ==
    ASSUME NEW b
    PROVE  Tells(Label(b), {})
<1>1. Tells(<<Line("label", b)>>, {})
  BY PrintLine
<1> QED BY <1>1, TellsNone DEF Label

\* A linear region.
LEMMA LinearPrints ==
    ASSUME NEW q, q \in Seq(cfg.blocks)
    PROVE  Tells(FlattenSeq([i \in DOMAIN q |->
                                (IF i = 1 THEN <<>> ELSE Label(q[i]))
                                    \o Body(q[i], FALSE, FallsInto(q, i))]),
                 Range(q))
<1> DEFINE label(i) == IF i = 1 THEN <<>> ELSE Label(q[i])
           body(i) == Body(q[i], FALSE, FallsInto(q, i))
           F == [i \in DOMAIN q |-> label(i) \o body(i)]
<1>1. Len(q) \in Nat /\ DOMAIN q = 1..Len(q) /\ Range(q) = {q[i] : i \in 1..Len(q)}
  BY VectorIs, VectorShape
<1>2. \A i \in 1..Len(q) : Tells(label(i) \o body(i), {q[i]})
  <2> SUFFICES ASSUME NEW i \in 1..Len(q) PROVE Tells(label(i) \o body(i), {q[i]})
    OBVIOUS
  <2>1. Tells(label(i), {})
    BY LabelPrints, TellsNone
  <2>2. Tells(body(i), {q[i]})
    BY BodyPrints
  <2> HIDE DEF label, body
  <2>3. Tells(label(i) \o body(i), {} \cup {q[i]})
    BY <2>1, <2>2, PrintConcat
  <2> QED BY <2>3
<1>3. F = [i \in 1..Len(q) |-> F[i]] /\ \A i \in 1..Len(q) : Tells(F[i], {q[i]})
  <2> HIDE DEF label, body
  <2> QED BY <1>1, <1>2
<1> HIDE DEF F
<1>4. Tells(FlattenSeq(F), {q[i] : i \in 1..Len(q)})
  <2>1. PICK n, G, r : n = Len(q) /\ G = F /\ r = q
    OBVIOUS
  <2>2. n \in Nat /\ G = [i \in 1..n |-> G[i]] /\ \A i \in 1..n : Tells(G[i], {r[i]})
    BY <1>1, <1>3, <2>1
  <2>3. Tells(FlattenSeq(G), {r[i] : i \in 1..n})
    BY ONLY <2>2, PrintParts
  <2> QED BY <2>1, <2>3
<1> QED BY <1>1, <1>4 DEF F

\* A recovered switch.
LEMMA SwitchPrints ==
    ASSUME Analysed, NEW b \in cfg.blocks, NEW q, q \in Ladders(b), IsSwitchChain(q), NEW loop
    PROVE  Tells(RecoveredSwitch(q, loop), SwitchBlocks(q))
<1> DEFINE cases == Cases(q)
           then(i) == IfAt(cases[i]).then_blocks
           F == [i \in DOMAIN cases |-> Case(Line("case", cases[i]), then(i), loop)]
           first == Body(q[1], TRUE, NoBlock)
           switch == <<Line("switch", q[1])>>
           default == IF Default(q) = {} THEN <<>>
                      ELSE Case(Line("default", q[1]), Default(q), loop)
           close == <<Line("close", q[1])>>
           Heads == {x \in cfg.blocks : IsIf(x)}
<1>1. IsFlowGraph(cfg)
  BY DEF Analysed, Built, Dfs, DfsType
<1>2. q \in Seq(Heads) /\ q # <<>>
  BY DEF Ladders
<1>3. Len(q) \in Nat \ {0} /\ DOMAIN q = 1..Len(q) /\ \A i \in 1..Len(q) : q[i] \in Heads
  <2> HIDE DEF Heads
  <2>1. Len(q) \in Nat /\ DOMAIN q = 1..Len(q) /\ \A i \in 1..Len(q) : q[i] \in Heads
    BY <1>2, LenProperties, ElementOfSeq
  <2>2. Len(q) # 0
    BY <1>2, EmptySeq
  <2> QED BY <2>1, <2>2
<1>4. cases \in Seq(Heads) /\ Len(cases) \in Nat /\ DOMAIN cases = 1..Len(cases)
      /\ \A i \in 1..Len(cases) : cases[i] \in Heads
  <2> DEFINE K == {h \in Range(q) : \A i \in DOMAIN q :
                      cfg.test[q[i]] = cfg.test[h] => \E j \in 1..i : q[j] = h}
  <2>1. cases = Kept(q, K)
    BY DEF Cases
  <2> HIDE DEF K, Heads
  <2>2. Kept(q, K) \in Seq(Heads)
    BY <1>2, KeptRange
  <2> QED BY <2>1, <2>2, LenProperties, ElementOfSeq
<1>5. Default(q) \subseteq cfg.blocks
  <2>1. Last(q) \in Heads
    BY <1>3 DEF Last
  <2>2. Default(q) \subseteq Succs(cfg, Last(q))
    BY <2>1, IfAtIs DEF Default
  <2> QED BY <1>1, <2>1, <2>2, SuccsAreBlocks
<1> HIDE DEF cases
<1>6. \A i \in 1..Len(cases) : Tells(F[i], then(i))
  <2> SUFFICES ASSUME NEW i \in 1..Len(cases) PROVE Tells(F[i], then(i))
    OBVIOUS
  <2>1. cases[i] \in cfg.blocks /\ then(i) \subseteq Succs(cfg, cases[i])
    BY <1>4, IfAtIs
  <2>2. then(i) \subseteq cfg.blocks
    BY <1>1, <2>1, SuccsAreBlocks
  <2>3. F[i] = Case(Line("case", cases[i]), then(i), loop)
    BY <1>4
  <2> HIDE DEF F
  <2>4. \A S : S \subseteq cfg.blocks => Tells(Case(Line("case", cases[i]), S, loop), S)
    BY <1>1, CasePrints
  <2> QED BY <2>2, <2>3, <2>4
<1>7. F = [i \in 1..Len(cases) |-> F[i]]
  BY <1>4
<1> DEFINE All == UNION {then(i) : i \in 1..Len(cases)}
<1> HIDE DEF F, then
<1>8. Tells(FlattenSeq(F), All)
  <2>1. \A i \in 1..Len(cases) : IsVector(F[i])
    BY <1>6 DEF Tells
  <2>2. IsVector(FlattenSeq(F)) /\ Range(FlattenSeq(F)) = UNION {Range(F[i]) : i \in 1..Len(cases)}
    <3>1. PICK n, G : n = Len(cases) /\ G = F
      OBVIOUS
    <3>2. n \in Nat /\ G = [i \in 1..n |-> G[i]] /\ \A i \in 1..n : IsVector(G[i])
      BY <1>4, <1>7, <2>1, <3>1
    <3>3. IsVector(FlattenSeq(G)) /\ Range(FlattenSeq(G)) = UNION {Range(G[i]) : i \in 1..n}
      BY ONLY <3>2, FlattenRange
    <3> QED BY <3>1, <3>3
  <2> QED BY <1>6, <2>2 DEF Tells, NoIf
<1>9. Tells(first, {q[1]}) /\ Tells(switch, {}) /\ Tells(close, {})
  BY BodyPrints, PrintLine
<1>10. Tells(default, Default(q))
  <2>1. Tells(<<>>, {})
    BY TellsNone
  <2>2. Tells(Case(Line("default", q[1]), Default(q), loop), Default(q))
    BY <1>1, <1>5, CasePrints
  <2> QED BY <2>1, <2>2
<1>11. RecoveredSwitch(q, loop) = first \o switch \o FlattenSeq(F) \o default \o close
  BY DEF RecoveredSwitch, F, then, cases
<1>12. SwitchBlocks(q) = Range(q) \cup Default(q) \cup All
  <2>1. SwitchBlocks(q) = Range(q) \cup Default(q)
                            \cup UNION {IfAt(cases[i]).then_blocks : i \in DOMAIN cases}
    BY DEF SwitchBlocks, cases
  <2> QED BY <1>4, <2>1 DEF then
<1> HIDE DEF first, switch, default, close, All
<1> DEFINE t1 == first \o switch
           t2 == t1 \o FlattenSeq(F)
           t3 == t2 \o default
           t4 == t3 \o close
<1>13. Tells(t1, {q[1]} \cup {})
  BY <1>9, PrintConcat
<1> HIDE DEF t1
<1>14. Tells(t2, ({q[1]} \cup {}) \cup All)
  BY <1>8, <1>13, PrintConcat
<1> HIDE DEF t2
<1>15. Tells(t3, (({q[1]} \cup {}) \cup All) \cup Default(q))
  BY <1>10, <1>14, PrintConcat
<1> HIDE DEF t3
<1>16. Tells(t4, ((({q[1]} \cup {}) \cup All) \cup Default(q)) \cup {})
  BY <1>9, <1>15, PrintConcat
<1> HIDE DEF t4
<1>17. \A x \in Range(q) : x = q[1] \/ ~Shows(x)
  <2> SUFFICES ASSUME NEW i \in 1..Len(q), i # 1 PROVE ~Shows(q[i])
    BY <1>3 DEF Range
  <2>1. ~MayEmit(q[i], TRUE)
    <3>1. i \in DOMAIN q /\ i > 1
      BY <1>3
    <3>2. \A k \in DOMAIN q : k > 1 => ~MayEmit(q[k], TRUE)
      BY ONLY IsSwitchChain(q) DEF IsSwitchChain
    <3> QED BY <3>1, <3>2
  <2> QED BY <2>1 DEF MayEmit, Shows
<1>18. Tells(t4, SwitchBlocks(q))
  BY <1>12, <1>16, <1>17 DEF Tells
<1> QED BY <1>11, <1>18 DEF t4, t3, t2, t1

-----------------------------------------------------------------------------
(* The emitter's call stack *)

\* The methods of the emitter.
Methods == {"arm", "if", "else", "endif", "loop", "body", "linear", "dispatch", "roots",
            "region", "after"}

\* The calls that may be under way.
Calls ==
    {c \in [method : Methods, at : Live, loop : cfg.blocks \cup {NoBlock},
            from : Nat, mid : Nat, rest : Seq(Live)] :
        /\ c.method \in {"if", "else", "endif"} => IsIf(c.at)
        /\ c.method \in {"loop", "body"} => IsLoop(c.at)
        /\ c.method = "body" => Range(c.rest) \subseteq Range(BodyOrder(LoopAt(c.at)))
        /\ c.method = "roots" => Range(c.rest) \subseteq Succs(cfg, c.at)}

\* Calls that have kept a position of the output, and those whose lines may be
\* taken back because they print nothing.
Marked(c) == c.method \in {"else", "endif", "body"}
HollowCall(c) == c.method = "body" /\ IsHollow(LoopAt(c.at))

\* Call y waits for call x: it is not hollow and has kept an earlier position.
Under(x, y) == ~HollowCall(y) /\ (Marked(x) /\ Marked(y) => y.from < x.from)

\* Every call waits for those above it.
Ordered(s) == \A i, j \in DOMAIN s : i < j => Under(s[i], s[j])

\* A vector over a set.
LEMMA VectorOver ==
    ASSUME NEW B, NEW s, IsVector(s), Range(s) \subseteq B
    PROVE  s \in Seq(B)
  BY SeqMonotonic DEF IsVector

\* The first element and the others.
LEMMA VectorSplit ==
    ASSUME NEW s, IsVector(s), s # <<>>
    PROVE  /\ IsVector(Tail(s)) /\ Head(s) \in Range(s)
           /\ Range(s) = {Head(s)} \cup Range(Tail(s))
           /\ Len(s) \in Nat \ {0} /\ Len(Tail(s)) = Len(s) - 1 /\ Head(s) = s[1]
           /\ \A i \in 1..Len(Tail(s)) : Tail(s)[i] = s[i + 1]
<1> DEFINE B == Range(s)
<1>1. s \in Seq(B)
  BY DEF IsVector
<1>2. Len(s) \in Nat /\ DOMAIN s = 1..Len(s) /\ B = {s[i] : i \in 1..Len(s)}
  BY VectorShape
<1> HIDE DEF B
<1>3. Len(s) # 0
  BY <1>1, EmptySeq
<1>4. /\ Tail(s) \in Seq(B) /\ Head(s) = s[1] /\ Len(Tail(s)) = Len(s) - 1
      /\ \A i \in 1..Len(Tail(s)) : Tail(s)[i] = s[i + 1]
  BY <1>1, <1>2, <1>3, HeadTailProperties
<1>5. IsVector(Tail(s)) /\ Range(Tail(s)) = {Tail(s)[i] : i \in 1..Len(Tail(s))}
  BY <1>4, VectorIs, VectorShape
<1>6. 1 \in 1..Len(s)
  BY <1>2, <1>3
<1>7. \A i \in 1..Len(Tail(s)) : i + 1 \in 1..Len(s)
  BY <1>2, <1>4
<1>8. \A i \in 1..Len(s) : i = 1 \/ (i - 1 \in 1..Len(Tail(s)) /\ s[i] = Tail(s)[i - 1])
  <2> SUFFICES ASSUME NEW i \in 1..Len(s), i # 1
               PROVE  i - 1 \in 1..Len(Tail(s)) /\ s[i] = Tail(s)[i - 1]
    OBVIOUS
  <2>1. i - 1 \in 1..Len(Tail(s)) /\ (i - 1) + 1 = i
    BY <1>2, <1>4
  <2> QED BY <1>4, <2>1
<1>9. B \subseteq {Head(s)} \cup Range(Tail(s))
  <2> SUFFICES ASSUME NEW i \in 1..Len(s), i # 1 PROVE s[i] \in Range(Tail(s))
    BY <1>2, <1>4
  <2> QED BY <1>5, <1>8
<1>10. {Head(s)} \cup Range(Tail(s)) \subseteq B
  <2>1. \A i \in 1..Len(Tail(s)) : Tail(s)[i] \in B
    BY <1>2, <1>4, <1>7
  <2>2. Head(s) \in B
    BY <1>2, <1>4, <1>6
  <2> QED BY <1>5, <2>1, <2>2
<1> QED BY <1>2, <1>3, <1>4, <1>5, <1>9, <1>10 DEF B

\* Order in the parts of a stack and in the whole.
LEMMA OrderedNone == Ordered(<<>>)
  BY EmptySeq DEF Ordered

\* One call is in order.
LEMMA OrderedOne ==
    ASSUME NEW x
    PROVE  Ordered(<<x>>)
<1>1. DOMAIN <<x>> = {1}
  OBVIOUS
<1> QED BY <1>1 DEF Ordered

\* The calls below the current one are in order, and wait for it.
LEMMA OrderedSplit ==
    ASSUME NEW s, IsVector(s), s # <<>>, Ordered(s)
    PROVE  Ordered(Tail(s)) /\ \A y \in Range(Tail(s)) : Under(Head(s), y)
<1> DEFINE t == Tail(s)
<1>1. /\ IsVector(t) /\ Len(s) \in Nat \ {0} /\ Len(t) = Len(s) - 1 /\ Head(s) = s[1]
      /\ \A i \in 1..Len(t) : t[i] = s[i + 1]
  BY VectorSplit
<1> HIDE DEF t
<1>2. DOMAIN s = 1..Len(s) /\ DOMAIN t = 1..Len(t) /\ Range(t) = {t[i] : i \in 1..Len(t)}
  BY <1>1, VectorShape
<1>3. \A i \in 1..Len(t) : i + 1 \in 1..Len(s)
  BY <1>1
<1>4. ASSUME NEW i \in 1..Len(t), NEW j \in 1..Len(t), i < j PROVE Under(t[i], t[j])
  <2>1. i + 1 < j + 1
    BY <1>4
  <2>2. Under(s[i + 1], s[j + 1])
    BY <1>2, <1>3, <2>1 DEF Ordered
  <2> QED BY <1>1, <2>2
<1>5. ASSUME NEW i \in 1..Len(t) PROVE Under(Head(s), t[i])
  <2>1. 1 < i + 1 /\ 1 \in 1..Len(s)
    BY <1>1
  <2>2. Under(s[1], s[i + 1])
    BY <1>2, <1>3, <2>1 DEF Ordered
  <2> QED BY <1>1, <2>2
<1>6. Ordered(t)
  BY <1>2, <1>4 DEF Ordered
<1> QED BY <1>2, <1>5, <1>6 DEF t

\* Calls that others wait for go on top of them.
LEMMA OrderedConcat ==
    ASSUME NEW s, NEW t, IsVector(s), IsVector(t), Ordered(s), Ordered(t),
           \A x \in Range(s), y \in Range(t) : Under(x, y)
    PROVE  Ordered(s \o t)
<1> DEFINE r == s \o t
           n == Len(s)
           m == Len(t)
<1>1. /\ n \in Nat /\ DOMAIN s = 1..n /\ Range(s) = {s[i] : i \in 1..n}
      /\ m \in Nat /\ DOMAIN t = 1..m /\ Range(t) = {t[i] : i \in 1..m}
  BY VectorShape
<1>2. /\ IsVector(r) /\ Len(r) = n + m
      /\ \A i \in 1..n : r[i] = s[i]
      /\ \A i \in 1..m : r[n + i] = t[i]
  BY VectorConcat
<1> HIDE DEF r, n, m
<1>3. DOMAIN r = 1..(n + m)
  BY <1>2, VectorShape
<1>4. \A i \in 1..(n + m) : i \in 1..n \/ (i - n \in 1..m /\ r[i] = t[i - n])
  <2> SUFFICES ASSUME NEW i \in 1..(n + m), i \notin 1..n PROVE i - n \in 1..m /\ r[i] = t[i - n]
    OBVIOUS
  <2>1. i - n \in 1..m /\ n + (i - n) = i
    BY <1>1
  <2> QED BY <1>2, <2>1
<1>5. ASSUME NEW i \in 1..(n + m), NEW j \in 1..(n + m), i < j PROVE Under(r[i], r[j])
  <2>1. CASE j \in 1..n
    <3>1. i \in 1..n
      BY <1>1, <1>5, <2>1
    <3> QED BY <1>1, <1>2, <1>5, <2>1, <3>1 DEF Ordered
  <2>2. CASE i \in 1..n /\ j \notin 1..n
    BY <1>1, <1>2, <1>4, <2>2
  <2>3. CASE i \notin 1..n /\ j \notin 1..n
    <3>1. /\ i - n \in 1..m /\ r[i] = t[i - n] /\ j - n \in 1..m /\ r[j] = t[j - n]
      BY <1>4, <2>3
    <3>2. i - n < j - n
      BY <1>1, <1>5
    <3> QED BY <1>1, <3>1, <3>2 DEF Ordered
  <2> QED BY <2>1, <2>2, <2>3
<1>6. Ordered(r)
  BY <1>3, <1>5 DEF Ordered
<1> QED BY <1>6 DEF r

\* Calls put on the stack in the place of its head.
LEMMA PushOne ==
    ASSUME NEW s, IsVector(s), s # <<>>, Ordered(s), NEW x,
           \A y \in Range(Tail(s)) : Marked(x) /\ Marked(y) => y.from < x.from
    PROVE  /\ IsVector(<<x>> \o Tail(s)) /\ Range(<<x>> \o Tail(s)) = {x} \cup Range(Tail(s))
           /\ Ordered(<<x>> \o Tail(s))
<1> DEFINE one == <<x>>
           t == Tail(s)
<1>1. IsVector(one) /\ Range(one) = {x} /\ Ordered(one)
  BY VectorOne, OrderedOne
<1>2. IsVector(t) /\ Ordered(t) /\ \A y \in Range(t) : ~HollowCall(y)
  BY VectorSplit, OrderedSplit DEF Under
<1>3. \A y \in Range(t) : Under(x, y)
  BY <1>2 DEF Under
<1> HIDE DEF one, t
<1>4. \A z \in Range(one), y \in Range(t) : Under(z, y)
  BY <1>1, <1>3
<1>5. IsVector(one \o t) /\ Range(one \o t) = Range(one) \cup Range(t) /\ Ordered(one \o t)
  BY <1>1, <1>2, <1>4, VectorConcat, OrderedConcat
<1> QED BY <1>1, <1>5 DEF one, t

\* Two calls in its place: the second waits for the first.
LEMMA PushTwo ==
    ASSUME NEW s, IsVector(s), s # <<>>, Ordered(s), NEW x, NEW y, ~Marked(x), ~HollowCall(y),
           \A z \in Range(Tail(s)) : Marked(y) /\ Marked(z) => z.from < y.from
    PROVE  /\ IsVector(<<x>> \o (<<y>> \o Tail(s)))
           /\ Range(<<x>> \o (<<y>> \o Tail(s))) = {x, y} \cup Range(Tail(s))
           /\ Ordered(<<x>> \o (<<y>> \o Tail(s)))
<1> DEFINE one == <<x>>
           t == <<y>> \o Tail(s)
<1>1. IsVector(one) /\ Range(one) = {x} /\ Ordered(one)
  BY VectorOne, OrderedOne
<1>2. IsVector(t) /\ Range(t) = {y} \cup Range(Tail(s)) /\ Ordered(t)
  BY PushOne
<1>3. \A z \in Range(Tail(s)) : ~HollowCall(z)
  BY OrderedSplit DEF Under
<1>4. \A z \in Range(t) : Under(x, z)
  BY <1>2, <1>3 DEF Under
<1> HIDE DEF one, t
<1>5. \A w \in Range(one), z \in Range(t) : Under(w, z)
  BY <1>1, <1>4
<1>6. IsVector(one \o t) /\ Range(one \o t) = Range(one) \cup Range(t) /\ Ordered(one \o t)
  BY <1>1, <1>2, <1>5, VectorConcat, OrderedConcat
<1> QED BY <1>1, <1>2, <1>6 DEF one, t

\* A call for each block of a set.
LEMMA CallEachShape ==
    ASSUME IsFlowGraph(cfg), NEW S, S \subseteq cfg.blocks, NEW method, NEW loop
    PROVE  /\ IsVector(CallEach(S, method, loop))
           /\ Range(CallEach(S, method, loop)) = {Call(method, b, loop) : b \in S}
<1> DEFINE q == Sorted(S)
           n == Len(q)
           F == [i \in DOMAIN q |-> Call(method, q[i], loop)]
<1>1. q \in Seq(S) /\ Range(q) = S
  BY SortedBlocks
<1> HIDE DEF q
<1>2. n \in Nat /\ DOMAIN q = 1..n /\ S = {q[i] : i \in 1..n}
  BY <1>1, LenProperties DEF Range
<1>3. F = [i \in 1..n |-> F[i]] /\ \A i \in 1..n : F[i] = Call(method, q[i], loop)
  BY <1>2
<1>4. CallEach(S, method, loop) = F
  BY DEF CallEach, q
<1> HIDE DEF F, n
<1>5. IsVector(F) /\ Range(F) = {F[i] : i \in 1..n}
  BY <1>2, <1>3, VectorFun
<1>6. {F[i] : i \in 1..n} = {Call(method, b, loop) : b \in S}
  BY <1>2, <1>3
<1> QED BY <1>4, <1>5, <1>6

\* The branches of a conditional in its place, with what comes after them.
LEMMA PushEach ==
    ASSUME IsFlowGraph(cfg), NEW s, IsVector(s), s # <<>>, Ordered(s),
           NEW S, S \subseteq cfg.blocks, NEW loop, NEW y, ~HollowCall(y),
           \A z \in Range(Tail(s)) : Marked(y) /\ Marked(z) => z.from < y.from
    PROVE  /\ IsVector(CallEach(S, "arm", loop) \o <<y>> \o Tail(s))
           /\ Range(CallEach(S, "arm", loop) \o <<y>> \o Tail(s))
                = {Call("arm", b, loop) : b \in S} \cup {y} \cup Range(Tail(s))
           /\ Ordered(CallEach(S, "arm", loop) \o <<y>> \o Tail(s))
<1> DEFINE arms == CallEach(S, "arm", loop)
           one == <<y>>
           t == Tail(s)
           N == {Call("arm", b, loop) : b \in S}
<1>1. IsVector(arms) /\ Range(arms) = N
  BY CallEachShape
<1>2. IsVector(one) /\ Range(one) = {y} /\ Ordered(one)
  BY VectorOne, OrderedOne
<1>3. IsVector(t) /\ Ordered(t) /\ \A z \in Range(t) : ~HollowCall(z)
  BY VectorSplit, OrderedSplit DEF Under
<1>4. \A x \in N : ~Marked(x) /\ ~HollowCall(x)
  BY DEF Call, Marked, HollowCall
<1> HIDE DEF arms, one, t, N
<1>5. Ordered(arms)
  <2>1. \A i \in DOMAIN arms : arms[i] \in N
    BY <1>1 DEF Range
  <2> QED BY <1>4, <2>1 DEF Ordered, Under
<1>6. IsVector(arms \o one) /\ Range(arms \o one) = N \cup {y} /\ Ordered(arms \o one)
  <2>1. \A w \in Range(arms), z \in Range(one) : Under(w, z)
    BY <1>1, <1>2, <1>4 DEF Under
  <2>2. IsVector(arms \o one) /\ Range(arms \o one) = Range(arms) \cup Range(one)
    BY <1>1, <1>2, VectorConcat
  <2>3. Ordered(arms \o one)
    BY <1>1, <1>2, <1>5, <2>1, OrderedConcat
  <2> QED BY <1>1, <1>2, <2>2, <2>3
<1>7. \A w \in Range(arms \o one), z \in Range(t) : Under(w, z)
  <2>1. \A z \in Range(t) : Marked(y) /\ Marked(z) => z.from < y.from
    BY DEF t
  <2> QED BY <1>3, <1>4, <1>6, <2>1 DEF Under
<1> DEFINE u == arms \o one
<1> HIDE DEF u
<1>8. IsVector(u) /\ Range(u) = N \cup {y} /\ Ordered(u) /\ \A w \in Range(u), z \in Range(t) : Under(w, z)
  BY <1>6, <1>7 DEF u
<1>9. IsVector(u \o t) /\ Range(u \o t) = Range(u) \cup Range(t) /\ Ordered(u \o t)
  BY <1>3, <1>8, VectorConcat, OrderedConcat
<1> QED BY <1>8, <1>9 DEF u, arms, one, t, N

-----------------------------------------------------------------------------
(* Positions kept in the output *)

\* A call that has kept a position has printed the line that follows it.
MarkSet(c, lines) ==
    Marked(c) => /\ c.from + 1 \in DOMAIN lines /\ lines[c.from + 1].op # "work"
                 /\ c.method = "endif" => c.from + 1 <= c.mid

\* A loop that prints nothing has printed no statement.
HollowQuiet(c, lines) ==
    HollowCall(c) => \A i \in DOMAIN lines : i > c.from => lines[i].op # "work"

\* Statements printed in s are in t.
WorkKept(s, t) == \A x \in Range(s) : x.op = "work" => x \in Range(t)

\* Lines are added at the end.
LEMMA MarksAppend ==
    ASSUME NEW s, IsVector(s), NEW t, IsVector(t)
    PROVE  /\ IsVector(s \o t) /\ Range(s \o t) = Range(s) \cup Range(t) /\ WorkKept(s, s \o t)
           /\ \A c : MarkSet(c, s) => MarkSet(c, s \o t)
<1> DEFINE r == s \o t
<1>1. /\ IsVector(r) /\ Range(r) = Range(s) \cup Range(t) /\ Len(r) = Len(s) + Len(t)
      /\ \A i \in 1..Len(s) : r[i] = s[i]
  BY VectorConcat
<1> HIDE DEF r
<1>2. /\ DOMAIN s = 1..Len(s) /\ DOMAIN r = 1..Len(r) /\ Len(s) \in Nat /\ Len(t) \in Nat
  BY <1>1, VectorShape
<1>3. \A i \in DOMAIN s : i \in DOMAIN r /\ r[i] = s[i]
  BY <1>1, <1>2
<1>4. \A c : MarkSet(c, s) => MarkSet(c, r)
  BY <1>3 DEF MarkSet
<1> QED BY <1>1, <1>4 DEF WorkKept, r

\* Lines are taken back and others added.
LEMMA MarksCut ==
    ASSUME NEW s, IsVector(s), NEW n \in 0..Len(s), NEW t, IsVector(t)
    PROVE  /\ IsVector(SubSeq(s, 1, n) \o t)
           /\ \A c : (MarkSet(c, s) /\ c.from \in Nat /\ c.from < n)
                        => MarkSet(c, SubSeq(s, 1, n) \o t)
           /\ (\A i \in DOMAIN s : i > n => s[i].op # "work")
                => WorkKept(s, SubSeq(s, 1, n) \o t)
           /\ Range(SubSeq(s, 1, n) \o t) \subseteq Range(s) \cup Range(t)
<1> DEFINE u == SubSeq(s, 1, n)
           r == u \o t
<1>1. IsVector(u) /\ Len(u) = n /\ \A i \in 1..n : u[i] = s[i]
  BY VectorCut
<1> HIDE DEF u
<1>2. /\ IsVector(r) /\ Range(r) = Range(u) \cup Range(t) /\ Len(r) = Len(u) + Len(t)
      /\ \A i \in 1..Len(u) : r[i] = u[i]
  BY <1>1, VectorConcat
<1> HIDE DEF r
<1>3. /\ DOMAIN s = 1..Len(s) /\ DOMAIN r = 1..Len(r) /\ Len(s) \in Nat /\ Len(t) \in Nat
      /\ DOMAIN u = 1..n /\ n \in Nat /\ n <= Len(s)
  BY <1>1, <1>2, VectorShape
<1>4. \A i \in 1..n : i \in DOMAIN r /\ r[i] = s[i]
  BY <1>1, <1>2, <1>3
<1>5. ASSUME NEW c, MarkSet(c, s), c.from \in Nat, c.from < n PROVE MarkSet(c, r)
  <2>1. c.from + 1 \in 1..n
    BY <1>3, <1>5
  <2> QED BY <1>4, <1>5, <2>1 DEF MarkSet
<1>6. ASSUME \A i \in DOMAIN s : i > n => s[i].op # "work" PROVE WorkKept(s, r)
  <2> SUFFICES ASSUME NEW i \in DOMAIN s, s[i].op = "work" PROVE s[i] \in Range(r)
    BY DEF WorkKept, Range
  <2>1. i \in 1..n
    BY <1>3, <1>6
  <2> QED BY <1>4, <2>1 DEF Range
<1>7. Range(u) \subseteq Range(s)
  BY <1>1, <1>3 DEF Range
<1> QED BY <1>2, <1>5, <1>6, <1>7 DEF r, u

\* The rest of a vector.
LEMMA VectorRest ==
    ASSUME NEW s, IsVector(s), NEW n \in 0..Len(s)
    PROVE  /\ IsVector(SubSeq(s, n + 1, Len(s)))
           /\ Range(SubSeq(s, n + 1, Len(s))) \subseteq Range(s)
           /\ \A i \in 1..Len(s) : i > n => s[i] \in Range(SubSeq(s, n + 1, Len(s)))
<1> DEFINE B == Range(s)
           m == Len(s)
           u == SubSeq(s, n + 1, m)
<1>1. s \in Seq(B) /\ m \in Nat /\ n \in Nat /\ n <= m
  BY VectorShape DEF IsVector
<1>2. \A i \in (n + 1)..m : i \in 1..Len(s)
  BY <1>1
<1>3. /\ u \in Seq(B)
      /\ Len(u) = IF n + 1 <= m THEN m - (n + 1) + 1 ELSE 0
      /\ \A i \in 1..(m - (n + 1) + 1) : u[i] = s[(n + 1) + i - 1]
  <2> HIDE DEF B
  <2>1. n + 1 \in 1..(Len(s) + 1) /\ m \in n..Len(s)
    BY <1>1
  <2>2. n + 1 <= Len(s) + 1
    BY <1>1
  <2> QED BY <1>1, <2>1, <2>2, SubSeqProperties
<1> HIDE DEF u
<1>4. IsVector(u) /\ Range(u) \subseteq Range(s)
  BY <1>3, VectorIs
<1>5. ASSUME NEW i \in 1..m, i > n PROVE s[i] \in Range(u)
  <2> DEFINE k == i - n
  <2>1. k \in 1..(m - (n + 1) + 1) /\ (n + 1) + k - 1 = i /\ n + 1 <= m
    BY <1>1, <1>5
  <2>2. u[k] = s[i]
    BY <1>3, <2>1
  <2>3. Len(u) = m - (n + 1) + 1
    BY <1>3, <2>1
  <2>4. DOMAIN u = 1..Len(u)
    BY <1>4, VectorShape
  <2> HIDE DEF k
  <2> QED BY <2>1, <2>2, <2>3, <2>4 DEF Range
<1> QED BY <1>4, <1>5 DEF u, m

\* A line is put in, another added.
LEMMA MarksInsert ==
    ASSUME NEW s, IsVector(s), NEW n \in 0..Len(s), NEW x, NEW y
    PROVE  LET r == SubSeq(s, 1, n) \o <<x>> \o SubSeq(s, n + 1, Len(s)) \o <<y>>
           IN  /\ IsVector(r) /\ WorkKept(s, r) /\ Range(r) \subseteq Range(s) \cup {x, y}
               /\ \A c : (MarkSet(c, s) /\ c.from \in Nat /\ c.from < n) => MarkSet(c, r)
<1> DEFINE u == SubSeq(s, 1, n)
           v == SubSeq(s, n + 1, Len(s))
           a == u \o <<x>>
           b == a \o v
           r == b \o <<y>>
<1>1. IsVector(u) /\ Len(u) = n /\ \A i \in 1..n : u[i] = s[i]
  BY VectorCut
<1>2. IsVector(v) /\ Range(v) \subseteq Range(s) /\ \A i \in 1..Len(s) : i > n => s[i] \in Range(v)
  BY VectorRest
<1>3. IsVector(<<x>>) /\ IsVector(<<y>>) /\ Range(<<x>>) = {x} /\ Range(<<y>>) = {y}
  BY VectorOne
<1>13. Range(u) \subseteq Range(s)
  <2>1. DOMAIN u = 1..n /\ DOMAIN s = 1..Len(s) /\ n \in Nat /\ n <= Len(s) /\ Len(s) \in Nat
    BY <1>1, VectorShape
  <2> QED BY <1>1, <2>1 DEF Range
<1> HIDE DEF u, v
<1>4. IsVector(a) /\ Range(a) = Range(u) \cup {x} /\ Len(a) = n + Len(<<x>>) /\ \A i \in 1..n : a[i] = s[i]
  BY <1>1, <1>3, VectorConcat
<1>5. Len(<<x>>) = 1
  OBVIOUS
<1> HIDE DEF a
<1>6. IsVector(b) /\ Range(b) = Range(a) \cup Range(v) /\ Len(b) = Len(a) + Len(v)
      /\ \A i \in 1..Len(a) : b[i] = a[i]
  BY <1>2, <1>4, VectorConcat
<1> HIDE DEF b
<1>7. IsVector(r) /\ Range(r) = Range(b) \cup {y} /\ Len(r) = Len(b) + Len(<<y>>)
      /\ \A i \in 1..Len(b) : r[i] = b[i]
  BY <1>3, <1>6, VectorConcat
<1>8. Len(<<y>>) = 1
  OBVIOUS
<1> HIDE DEF r
<1>9. Len(v) \in Nat /\ n \in Nat /\ DOMAIN r = 1..Len(r) /\ Len(s) \in Nat /\ DOMAIN s = 1..Len(s)
  BY <1>2, <1>7, VectorShape
<1>10. \A i \in 1..n : i \in DOMAIN r /\ r[i] = s[i]
  <2> SUFFICES ASSUME NEW i \in 1..n PROVE i \in DOMAIN r /\ r[i] = s[i]
    OBVIOUS
  <2>1. i \in 1..Len(a) /\ i \in 1..Len(b) /\ i \in 1..Len(r)
    BY <1>4, <1>5, <1>6, <1>7, <1>8, <1>9
  <2> QED BY <1>4, <1>6, <1>7, <1>9, <2>1
<1>11. WorkKept(s, r)
  <2> SUFFICES ASSUME NEW i \in 1..Len(s) PROVE s[i] \in Range(r)
    BY <1>9 DEF WorkKept, Range
  <2>1. CASE i > n
    BY <1>2, <1>6, <1>7, <2>1
  <2>2. CASE ~(i > n)
    <3>1. i \in 1..n
      BY <1>9, <2>2
    <3> QED BY <1>10, <3>1 DEF Range
  <2> QED BY <2>1, <2>2
<1>12. ASSUME NEW c, MarkSet(c, s), c.from \in Nat, c.from < n PROVE MarkSet(c, r)
  <2>1. c.from + 1 \in 1..n
    BY <1>9, <1>12
  <2> QED BY <1>10, <1>12, <2>1 DEF MarkSet
<1>14. Range(r) \subseteq Range(s) \cup {x, y}
  BY <1>2, <1>4, <1>6, <1>7, <1>13
<1> QED BY <1>7, <1>11, <1>12, <1>14 DEF r, b, a, u, v

-----------------------------------------------------------------------------
(* The invariant *)

\* Types, and what is empty when.
EmitType ==
    /\ walk \in {"analysis", "blocks", "targets", "text"}
    /\ walk # "analysis" => stage = "end"
    /\ walk = "analysis" => /\ pending = <<>> /\ targets = <<>> /\ emitted = {}
                            /\ output = <<>> /\ calls = <<>>
    /\ walk = "text" => calls = <<>>
    /\ pending \in Seq(Live) /\ targets \in Seq(Live)
    /\ emitted \subseteq Live
    /\ IsVector(output)
    /\ calls \in Seq(Calls)

\* Calls wait for each other in the order of the positions they have kept.
Stacked ==
    /\ Ordered(calls)
    /\ \A c \in Range(calls) : MarkSet(c, output) /\ HollowQuiet(c, output)

\* The blocks a call has begun with.
Opened(c) ==
    IF c.method \in {"loop", "body"} THEN LoopAt(c.at).body
    ELSE IF c.method \in {"after", "region", "roots"} THEN {}
    ELSE {c.at}

\* The blocks of S and those the calls of N have begun with.
OpenedIn(S, N) == S \cup UNION {Opened(c) : c \in N}

\* The blocks printed or begun with hold their dominators; each block of the
\* queue could be added.
FrontClosed ==
    walk = "blocks" =>
        /\ DomClosed(OpenedIn(emitted, Range(calls)))
        /\ \A b \in Range(pending) : DomClosed(OpenedIn(emitted, Range(calls)) \cup {b})
        /\ \A c \in Range(calls) :
              /\ c.method = "after" => c.at \in OpenedIn(emitted, Range(calls))
              /\ c.method = "roots" => c.at \in emitted
              /\ c.method = "region" => Range(c.rest) \subseteq emitted

\* The blocks a call has yet to print.
Due(c) ==
    IF c.method = "region" THEN Range(c.rest)
    ELSE IF c.method = "else" THEN IfAt(c.at).else_blocks
    ELSE IF c.method \in {"arm", "if", "linear", "loop", "dispatch"} THEN {c.at}
    ELSE {}

\* A block without statements of its own, or of a loop that paths reach only
\* through blocks that can leave the loop.
Silent(b) == ~Shows(b) \/ \E l \in loops : b \in l.body \ Unbroken(l)

\* A branch of a conditional that turns away from a loop.
Stray(b) ==
    \E l \in loops, h \in cfg.blocks :
        IsIf(h) /\ b \in l.body \cap Arms(IfAt(h)) /\ TurnsAway(l, IfAt(h))

\* A block whose statements are printed, if it has any.
Told(b, lines) == Silent(b) \/ Work(b) \in Range(lines)

\* A block printed, with nothing to print, or due.
Cared(b, lines, N) == Told(b, lines) \/ \E c \in N : b \in Due(c)

\* The same, or a branch that may be left out with its conditional.
Counted(b, lines, N) == Stray(b) \/ Cared(b, lines, N)

\* Every block printed, and at the end every labelled one, is accounted for.
AllCounted ==
    /\ \A b \in emitted : Counted(b, output, Range(calls))
    /\ \A c \in Range(calls) :
          /\ c.method = "body" =>
                \A b \in LoopAt(c.at).body : b \in Range(c.rest) \/ Counted(b, output, Range(calls))
          /\ c.method \in {"else", "endif", "body"} => Counted(c.at, output, Range(calls))
    /\ walk = "targets" =>
          \A b \in Labels \cap Live : b \in Range(targets) \/ Counted(b, output, Range(calls))
    /\ walk = "text" => \A b \in Labels \cap Live : Counted(b, output, Range(calls))

\* The conditional at h is in the text as an `if`.
HasIf(h, lines) == IsIf(h) /\ Line("if", h) \in Range(lines)

\* No branch of such a conditional is lost.
ArmsCared ==
    \A h : HasIf(h, output) =>
               \A b \in Arms(IfAt(h)) : Cared(b, output, Range(calls))

\* The invariant of the emitter.
EmitInv == Analysed /\ EmitType /\ Stacked /\ FrontClosed /\ AllCounted /\ ArmsCared

\* What depends on the analysis alone.
LEMMA SameProgram ==
    ASSUME UNCHANGED allVars
    PROVE  /\ Live' = Live /\ Labels' = Labels /\ stage' = stage /\ cfg' = cfg
           /\ Calls' = Calls
           /\ \A b : LoopAt(b)' = LoopAt(b)
           /\ \A b : (Silent(b)' <=> Silent(b)) /\ (Stray(b)' <=> Stray(b))
           /\ \A b : IfAt(b)' = IfAt(b) /\ (IsIf(b)' <=> IsIf(b)) /\ Arms(IfAt(b))' = Arms(IfAt(b))
           /\ \A c : HollowCall(c)' <=> HollowCall(c)
           /\ \A S : DomClosed(S)' <=> DomClosed(S)
<1>1. cfg' = cfg /\ loops' = loops /\ ifs' = ifs /\ idom' = idom /\ post_order' = post_order
      /\ stage' = stage
  BY DEF allVars, structVars, vars
<1>2. Live' = Live /\ \A S : DomClosed(S)' <=> DomClosed(S)
  BY <1>1 DEF Live, DomClosed, Reach, Succs
<1>3. \A b : /\ LoopAt(b)' = LoopAt(b) /\ IfAt(b)' = IfAt(b)
             /\ (IsLoop(b)' <=> IsLoop(b)) /\ (IsIf(b)' <=> IsIf(b))
  BY <1>1 DEF LoopAt, IfAt, IsLoop, IsIf
<1>4. Labels' = Labels
  BY <1>1 DEF Labels, Arms, Succs
<1>5. \A l : IsForLoop(l)' <=> IsForLoop(l)
  BY <1>1 DEF IsForLoop, Outside, Preds, Succs
<1>6. \A b : Speaks(b)' <=> Speaks(b)
  BY <1>1, <1>5 DEF Speaks, InForHead, Outside, Preds, Succs
<1>7. \A b, skip : MayEmit(b, skip)' <=> MayEmit(b, skip)
  BY <1>1, <1>3, <1>6 DEF MayEmit, BranchShows
<1>8. \A l, b : Action(l, b)' = Action(l, b)
  BY <1>1 DEF Action, Succs
<1>9. ASSUME NEW l
      PROVE  BodyOrder(l)' = BodyOrder(l) /\ LoopReachable(l)' = LoopReachable(l)
  <2>1. ASSUME NEW b PROVE Onward(l, b)' = Onward(l, b)
    <3>1. Succs(cfg, b)' = Succs(cfg, b)
      BY <1>1 DEF Succs
    <3>2. IfAt(b)' = IfAt(b) /\ (IsIf(b)' <=> IsIf(b))
      BY <1>3
    <3>3. CASE IsIf(b)
      BY <3>1, <3>2, <3>3 DEF Onward, InBody, Arms
    <3>4. CASE ~IsIf(b)
      BY <3>1, <3>2, <3>4 DEF Onward, InBody
    <3> QED BY <3>3, <3>4
  <2>2. ASSUME NEW b PROVE StopsAt(l, b)' <=> StopsAt(l, b)
    <3>1. IfAt(b)' = IfAt(b) /\ (IsIf(b)' <=> IsIf(b)) /\ \A a : Action(l, a)' = Action(l, a)
      BY <1>3, <1>8
    <3> QED BY <3>1 DEF StopsAt, Arms
  <2>3. BodyOrder(l)' = BodyOrder(l)
    <3>1. BodyGraph(l)' = BodyGraph(l)
      BY <2>1 DEF BodyGraph
    <3> QED BY <3>1 DEF BodyOrder
  <2>4. LoopReachable(l)' = LoopReachable(l)
    <3> DEFINE next == [b \in l.body |-> IF StopsAt(l, b) THEN {} ELSE Range(Onward(l, b))]
               start == InBody(l, Succs(cfg, l.header))
    <3>1. next' = next
      <4>1. ASSUME NEW b
            PROVE  (IF StopsAt(l, b) THEN {} ELSE Range(Onward(l, b)))'
                        = IF StopsAt(l, b) THEN {} ELSE Range(Onward(l, b))
        BY <2>1, <2>2
      <4> QED BY <4>1
    <3>2. start' = start
      BY <1>1 DEF InBody, Succs
    <3>3. LoopReachable(l) = Closure(start, next)
      BY DEF LoopReachable
    <3>4. LoopReachable(l)' = Closure(start', next')
      BY DEF LoopReachable
    <3> HIDE DEF start, next
    <3> QED BY <3>1, <3>2, <3>3, <3>4
  <2> QED BY <2>3, <2>4
<1>10. \A l : Exits(l)' = Exits(l)
  BY <1>1 DEF Exits, Succs
<1>14. ASSUME NEW l PROVE Unbroken(l)' = Unbroken(l)
  <2> DEFINE next == [x \in l.body |-> IF x \in Exits(l) THEN {} ELSE Succs(cfg, x) \cap l.body]
  <2>1. ASSUME NEW x
        PROVE  (IF x \in Exits(l) THEN {} ELSE Succs(cfg, x) \cap l.body)'
                  = IF x \in Exits(l) THEN {} ELSE Succs(cfg, x) \cap l.body
    BY <1>1, <1>10 DEF Succs
  <2>2. next' = next
    BY <2>1
  <2>3. Unbroken(l) = Closure({l.header}, next) /\ Unbroken(l)' = Closure({l.header}, next')
    BY DEF Unbroken
  <2> HIDE DEF next
  <2> QED BY <2>2, <2>3
<1>11. \A b : Silent(b)' <=> Silent(b)
  BY <1>1, <1>6, <1>14 DEF Silent, Shows
<1>15. \A f : Arms(f)' = Arms(f)
  BY DEF Arms
<1>16. \A b : Arms(IfAt(b))' = Arms(IfAt(b))
  BY <1>3, <1>15
<1>17. \A l, b : TurnsAway(l, IfAt(b))' <=> TurnsAway(l, IfAt(b))
  BY <1>1, <1>3, <1>16 DEF TurnsAway, Succs
<1>18. \A b : Stray(b)' <=> Stray(b)
  BY <1>1, <1>3, <1>16, <1>17 DEF Stray
<1>12. ASSUME NEW c PROVE HollowCall(c)' <=> HollowCall(c)
  <2>1. ASSUME NEW l PROVE IsHollow(l)' <=> IsHollow(l)
    <3>1. /\ BodyOrder(l)' = BodyOrder(l) /\ LoopReachable(l)' = LoopReachable(l)
          /\ IsForLoop(l)' <=> IsForLoop(l)
      BY <1>5, <1>9
    <3>2. ASSUME NEW b PROVE IsLastEmittable(l, b)' <=> IsLastEmittable(l, b)
      BY <3>1 DEF IsLastEmittable
    <3> DEFINE Quiet(b) == /\ ~IsLoop(b) /\ ~IsIf(b)
                           /\ IF b = l.latch /\ IsForLoop(l) THEN ~MayEmit(b, TRUE)
                              ELSE IF Action(l, b) = "none" THEN ~MayEmit(b, FALSE)
                              ELSE /\ ~MayEmit(b, TRUE)
                                   /\ Action(l, b) = "continue" /\ IsLastEmittable(l, b)
    <3>3. ASSUME NEW b PROVE Quiet(b)' <=> Quiet(b)
      <4>1. /\ IsLoop(b)' <=> IsLoop(b)
            /\ IsIf(b)' <=> IsIf(b)
            /\ MayEmit(b, TRUE)' <=> MayEmit(b, TRUE)
            /\ MayEmit(b, FALSE)' <=> MayEmit(b, FALSE)
            /\ Action(l, b)' = Action(l, b)
        BY <1>3, <1>7, <1>8
      <4> QED BY <3>1, <3>2, <4>1
    <3>4. IsHollow(l) <=> /\ ~MayEmit(l.header, TRUE)
                          /\ \A b \in Range(BodyOrder(l)) \cap LoopReachable(l) : Quiet(b)
      BY DEF IsHollow
    <3>5. IsHollow(l)' <=> /\ ~MayEmit(l.header, TRUE)'
                           /\ \A b \in Range(BodyOrder(l))' \cap LoopReachable(l)' : Quiet(b)'
      BY DEF IsHollow
    <3>6. MayEmit(l.header, TRUE)' <=> MayEmit(l.header, TRUE)
      BY <1>7
    <3>7. Range(BodyOrder(l))' = Range(BodyOrder(l))
      BY <3>1 DEF Range
    <3> HIDE DEF Quiet
    <3> QED BY <3>1, <3>3, <3>4, <3>5, <3>6, <3>7
  <2> QED BY <1>3, <2>1 DEF HollowCall
<1>13. Calls' = Calls
  <2> DEFINE R == [method : Methods, at : Live, loop : cfg.blocks \cup {NoBlock},
                   from : Nat, mid : Nat, rest : Seq(Live)]
             Right(c) == /\ c.method \in {"if", "else", "endif"} => IsIf(c.at)
                         /\ c.method \in {"loop", "body"} => IsLoop(c.at)
                         /\ c.method = "body" => Range(c.rest) \subseteq Range(BodyOrder(LoopAt(c.at)))
                         /\ c.method = "roots" => Range(c.rest) \subseteq Succs(cfg, c.at)
  <2>1. Calls = {c \in R : Right(c)} /\ Calls' = {c \in R' : Right(c)'}
    BY DEF Calls
  <2>2. R' = R
    BY <1>1, <1>2
  <2>3. ASSUME NEW c PROVE Right(c)' <=> Right(c)
    <3>1. BodyOrder(LoopAt(c.at))' = BodyOrder(LoopAt(c.at))
      <4>1. LoopAt(c.at)' = LoopAt(c.at)
        BY <1>3
      <4>2. \A l : BodyOrder(l)' = BodyOrder(l)
        BY <1>9
      <4> QED BY <4>1, <4>2
    <3>2. (IsIf(c.at)' <=> IsIf(c.at)) /\ (IsLoop(c.at)' <=> IsLoop(c.at))
      BY <1>3
    <3>3. Succs(cfg, c.at)' = Succs(cfg, c.at)
      BY <1>1 DEF Succs
    <3>4. Range(BodyOrder(LoopAt(c.at)))' = Range(BodyOrder(LoopAt(c.at)))
      BY <3>1 DEF Range
    <3> QED BY <3>2, <3>3, <3>4
  <2> HIDE DEF R, Right
  <2> QED BY <2>1, <2>2, <2>3
<1> QED BY <1>1, <1>2, <1>3, <1>4, <1>11, <1>12, <1>13, <1>16, <1>18

\* What is found from a set is found from a larger one.
LEMMA FoundWider ==
    ASSUME NEW S, NEW T, FoundFrom(S, T), NEW R, S \subseteq R
    PROVE  FoundFrom(R, T)
<1> SUFFICES ASSUME NEW X, R \subseteq X,
                    \A x \in X \cap (R \cup T) : Succs(cfg, x) \cap (R \cup T) \subseteq X
             PROVE  T \subseteq X
  BY DEF FoundFrom
<1>1. S \subseteq X /\ \A x \in X \cap (S \cup T) : Succs(cfg, x) \cap (S \cup T) \subseteq X
  OBVIOUS
<1> QED BY <1>1 DEF FoundFrom

\* Two closed sets are closed together.
LEMMA DomUnion ==
    ASSUME NEW S, NEW R, DomClosed(S), DomClosed(R)
    PROVE  DomClosed(S \cup R)
  BY DEF DomClosed

-----------------------------------------------------------------------------
(* A step of the emitter: the calls of N take the place of the current one *)

Turn(N) ==
    /\ UNCHANGED <<allVars, walk, pending, queued, targets>>
    /\ calls # <<>>
    /\ IsVector(calls') /\ Range(calls') = N \cup Range(Tail(calls)) /\ Ordered(calls')
    /\ N \subseteq Calls

\* The calls that wait for the current one.
Others == Range(Tail(calls))

\* The current call and those that wait for it.
LEMMA CurrentIs ==
    ASSUME EmitType, Stacked, calls # <<>>
    PROVE  /\ IsVector(calls) /\ Current \in Calls /\ Current \in Range(calls)
           /\ Range(calls) = {Current} \cup Others /\ Others \subseteq Calls
           /\ walk \in {"blocks", "targets"} /\ stage = "end"
           /\ Ordered(calls)
           /\ \A y \in Others : Under(Current, y)
<1>1. IsVector(calls) /\ Range(calls) \subseteq Calls
  BY VectorIs DEF EmitType
<1>2. Head(calls) \in Range(calls) /\ Range(calls) = {Head(calls)} \cup Range(Tail(calls))
  BY <1>1, VectorSplit
<1>3. walk \in {"blocks", "targets"} /\ stage = "end"
  BY DEF EmitType
<1>4. Ordered(calls) /\ \A y \in Range(Tail(calls)) : Under(Head(calls), y)
  BY <1>1, OrderedSplit DEF Stacked
<1> QED BY <1>1, <1>2, <1>3, <1>4 DEF Current, Others

\* Such a step keeps the types,
LEMMA TurnType ==
    ASSUME EmitType, Stacked, NEW N, Turn(N), emitted' \subseteq Live, IsVector(output')
    PROVE  EmitType'
<1>1. /\ UNCHANGED <<allVars, walk, pending, queued, targets>> /\ calls # <<>>
      /\ IsVector(calls') /\ Range(calls') = N \cup Others /\ N \subseteq Calls
  BY DEF Turn, Others
<1>2. Live' = Live /\ stage' = stage /\ Calls' = Calls
  BY <1>1, SameProgram
<1>3. Others \subseteq Calls /\ walk \in {"blocks", "targets"} /\ stage = "end"
  BY <1>1, CurrentIs
<1>4. calls' \in Seq(Calls)
  BY <1>1, <1>3, VectorOver
<1>5. IsVector(output)'
  BY DEF IsVector
<1> QED BY <1>1, <1>2, <1>3, <1>4, <1>5 DEF EmitType

\* the order of the calls and of the positions they kept,
LEMMA TurnStacked ==
    ASSUME NEW N, Turn(N),
           \A c \in N \cup Others : MarkSet(c, output') /\ HollowQuiet(c, output')
    PROVE  Stacked'
<1>1. /\ UNCHANGED allVars /\ Ordered(calls') /\ Range(calls') = N \cup Others
  BY DEF Turn, Others
<1>2. \A c : HollowCall(c)' <=> HollowCall(c)
  BY <1>1, SameProgram
<1>3. Ordered(calls)'
  BY <1>1, <1>2 DEF Ordered, Under
<1>4. ASSUME NEW c \in Range(calls') PROVE MarkSet(c, output') /\ HollowQuiet(c, output)'
  <2>1. MarkSet(c, output') /\ HollowQuiet(c, output')
    BY <1>1
  <2> QED BY <1>2, <2>1 DEF HollowQuiet
<1>5. Range(calls)' = Range(calls') /\ \A c : MarkSet(c, output)' <=> MarkSet(c, output')
  BY DEF Range, MarkSet
<1> QED BY <1>3, <1>4, <1>5 DEF Stacked

\* the closure of what is printed or begun,
LEMMA TurnFront ==
    ASSUME EmitType, Stacked, FrontClosed, IsFlowGraph(cfg), NEW N, Turn(N), emitted \subseteq emitted',
           walk = "blocks" =>
             /\ \E T : /\ FoundFrom(OpenedIn(emitted, {Current}), T)
                       /\ OpenedIn(emitted', N) = OpenedIn(emitted, {Current}) \cup T
             /\ \A c \in N : /\ c.method # "after"
                             /\ c.method = "roots" => c.at \in emitted'
                             /\ c.method = "region" => Range(c.rest) \subseteq emitted'
    PROVE  FrontClosed'
<1>1. /\ UNCHANGED allVars /\ Range(calls') = N \cup Others /\ calls # <<>>
      /\ walk' = walk /\ pending' = pending
  BY DEF Turn, Others
<1> SUFFICES ASSUME walk = "blocks" PROVE FrontClosed'
  BY <1>1 DEF FrontClosed
<1>2. Range(calls) = {Current} \cup Others
  BY <1>1, CurrentIs
<1> DEFINE A == OpenedIn(emitted, {Current})
           B == OpenedIn(emitted', N)
           R == UNION {Opened(c) : c \in Others}
           G == OpenedIn(emitted, Range(calls))
           H == OpenedIn(emitted', Range(calls'))
<1>3. PICK T : FoundFrom(A, T) /\ B = A \cup T
  OBVIOUS
<1>4. G = A \cup R
  BY <1>2 DEF OpenedIn
<1>5. H = B \cup R
  BY <1>1 DEF OpenedIn
<1>6. DomClosed(G) /\ \A b \in Range(pending) : DomClosed(G \cup {b})
  BY DEF FrontClosed
<1>7. \A c \in Range(calls) : /\ c.method = "after" => c.at \in G
                              /\ c.method = "roots" => c.at \in emitted
                              /\ c.method = "region" => Range(c.rest) \subseteq emitted
  BY DEF FrontClosed
<1>8. \A c \in N : /\ c.method # "after"
                   /\ c.method = "roots" => c.at \in emitted'
                   /\ c.method = "region" => Range(c.rest) \subseteq emitted'
  OBVIOUS
<1>9. H = OpenedIn(emitted, Range(calls))'
  <2>1. Range(calls)' = Range(calls')
    BY DEF Range
  <2>2. OpenedIn(emitted, Range(calls))' = emitted' \cup UNION {Opened(c)' : c \in Range(calls')}
    BY <2>1 DEF OpenedIn
  <2>3. \A c : Opened(c)' = Opened(c)
    <3>1. \A b : LoopAt(b)' = LoopAt(b)
      BY <1>1, SameProgram
    <3> QED BY <3>1 DEF Opened
  <2> QED BY <2>2, <2>3 DEF OpenedIn
<1> HIDE DEF A, B, R, G, H
<1>10. FoundFrom(G, T)
  BY <1>3, <1>4, FoundWider
<1>11. H = G \cup T
  BY <1>3, <1>4, <1>5
<1>12. DomClosed(H)
  BY <1>6, <1>10, <1>11, ClosedWithin
<1>13. ASSUME NEW b \in Range(pending) PROVE DomClosed(H \cup {b})
  <2>1. H \cup {b} = (G \cup {b}) \cup H
    BY <1>11
  <2>2. DomClosed(G \cup {b})
    BY <1>6
  <2> QED BY <1>12, <2>1, <2>2, DomUnion
<1>14. \A c \in Range(calls') : /\ c.method = "after" => c.at \in H
                                /\ c.method = "roots" => c.at \in emitted'
                                /\ c.method = "region" => Range(c.rest) \subseteq emitted'
  BY <1>1, <1>2, <1>7, <1>8, <1>11
<1>15. (\A S : DomClosed(S)' <=> DomClosed(S)) /\ Range(calls)' = Range(calls')
  BY <1>1, SameProgram DEF Range
<1>16. Range(pending)' = Range(pending)
  BY <1>1 DEF Range
<1> QED BY <1>1, <1>9, <1>12, <1>13, <1>14, <1>15, <1>16 DEF FrontClosed

\* What was printed stays printed.
LEMMA ToldOn ==
    ASSUME NEW s, NEW t, WorkKept(s, t), NEW b, Told(b, s)
    PROVE  Told(b, t)
<1>1. Work(b).op = "work"
  BY DEF Work, Line
<1> QED BY <1>1 DEF Told, WorkKept

\* The emitter changes nothing of the analysis that decides what is silent.
LEMMA SameCared ==
    ASSUME UNCHANGED allVars
    PROVE  \A b : /\ Cared(b, output, Range(calls))' <=> Cared(b, output', Range(calls'))
                  /\ Counted(b, output, Range(calls))' <=> Counted(b, output', Range(calls'))
                  /\ HasIf(b, output)' <=> HasIf(b, output')
                  /\ Arms(IfAt(b))' = Arms(IfAt(b))
<1>1. \A b : /\ (Silent(b)' <=> Silent(b)) /\ (Stray(b)' <=> Stray(b))
             /\ IfAt(b)' = IfAt(b) /\ (IsIf(b)' <=> IsIf(b)) /\ Arms(IfAt(b))' = Arms(IfAt(b))
  BY SameProgram
<1>2. Range(calls)' = Range(calls') /\ Range(output)' = Range(output')
  BY DEF Range
<1>3. \A b : Told(b, output)' <=> Told(b, output')
  BY <1>1, <1>2 DEF Told, Work, Line
<1>4. \A c : Due(c)' = Due(c)
  BY <1>1 DEF Due, Range
<1>5. \A b : Cared(b, output, Range(calls))' <=> Cared(b, output', Range(calls'))
  BY <1>2, <1>3, <1>4 DEF Cared
<1>6. \A b : Counted(b, output, Range(calls))' <=> Counted(b, output', Range(calls'))
  BY <1>1, <1>5 DEF Counted
<1>7. \A b : HasIf(b, output)' <=> HasIf(b, output')
  BY <1>1, <1>2 DEF HasIf, Line
<1> QED BY <1>1, <1>5, <1>6, <1>7

\* and accounts for every block, when the new calls do for theirs.
LEMMA TurnCared ==
    ASSUME EmitType, Stacked, AllCounted, ArmsCared, NEW N, Turn(N), WorkKept(output, output'),
           \A b \in Due(Current) : Cared(b, output', N),
           \A b \in emitted' : \/ Counted(b, output, Range(calls))
                               \/ Cared(b, output', N),
           \A c \in N :
              /\ c.method = "body" =>
                    \A b \in LoopAt(c.at).body : \/ b \in Range(c.rest)
                                                 \/ Counted(b, output, Range(calls))
                                                 \/ Cared(b, output', N)
              /\ c.method \in {"else", "endif", "body"} => \/ Counted(c.at, output, Range(calls))
                                                           \/ Cared(c.at, output', N),
           \A h : HasIf(h, output') => \/ HasIf(h, output)
                                       \/ \A b \in Arms(IfAt(h)) : Cared(b, output', N)
    PROVE  AllCounted' /\ ArmsCared'
<1>1. /\ UNCHANGED allVars /\ Range(calls') = N \cup Others /\ calls # <<>>
      /\ walk' = walk /\ targets' = targets
  BY DEF Turn, Others
<1>2. Range(calls) = {Current} \cup Others /\ walk # "text"
  BY <1>1, CurrentIs
<1> DEFINE Old(b) == Counted(b, output, Range(calls))
           New(b) == Counted(b, output', Range(calls'))
           Fresh(b) == Cared(b, output', N)
<1>3. ASSUME NEW b, Fresh(b) PROVE Cared(b, output', Range(calls'))
  BY <1>1, <1>3 DEF Cared
<1>4. ASSUME NEW b, Cared(b, output, Range(calls)) PROVE Cared(b, output', Range(calls'))
  <2>1. CASE Told(b, output)
    <3>1. Told(b, output')
      BY <2>1, ToldOn
    <3> QED BY <3>1 DEF Cared
  <2>2. CASE \E c \in Others : b \in Due(c)
    BY <1>1, <2>2 DEF Cared
  <2>3. CASE b \in Due(Current)
    BY <1>3, <2>3
  <2> QED BY <1>2, <1>4, <2>1, <2>2, <2>3 DEF Cared
<1>5. \A b : Old(b) \/ Fresh(b) => New(b)
  BY <1>3, <1>4 DEF Counted
<1>6. /\ \A b \in emitted : Old(b)
      /\ \A c \in Range(calls) :
            /\ c.method = "body" => \A b \in LoopAt(c.at).body : b \in Range(c.rest) \/ Old(b)
            /\ c.method \in {"else", "endif", "body"} => Old(c.at)
      /\ walk = "targets" => \A b \in Labels \cap Live : b \in Range(targets) \/ Old(b)
  BY DEF AllCounted
<1>7. /\ \A b \in emitted' : Old(b) \/ Fresh(b)
      /\ \A c \in N :
            /\ c.method = "body" =>
                  \A b \in LoopAt(c.at).body : b \in Range(c.rest) \/ Old(b) \/ Fresh(b)
            /\ c.method \in {"else", "endif", "body"} => Old(c.at) \/ Fresh(c.at)
  OBVIOUS
<1>8. \A b : /\ Cared(b, output, Range(calls))' <=> Cared(b, output', Range(calls'))
             /\ Counted(b, output, Range(calls))' <=> New(b)
             /\ HasIf(b, output)' <=> HasIf(b, output')
             /\ Arms(IfAt(b))' = Arms(IfAt(b))
  BY <1>1, SameCared
<1>9. /\ Live' = Live /\ Labels' = Labels /\ \A b : LoopAt(b)' = LoopAt(b)
  BY <1>1, SameProgram
<1>10. ArmsCared'
  <2>1. \A h : HasIf(h, output') => \A b \in Arms(IfAt(h)) : Cared(b, output', Range(calls'))
    BY <1>3, <1>4 DEF ArmsCared
  <2>2. ArmsCared' <=> \A h : HasIf(h, output)' =>
                                  \A b \in Arms(IfAt(h))' : Cared(b, output, Range(calls))'
    BY DEF ArmsCared
  <2> QED BY <1>8, <2>1, <2>2
<1> HIDE DEF Old, New, Fresh
<1>11. \A b \in emitted' : New(b)
  BY <1>5, <1>7
<1>12. \A c \in Range(calls') :
          /\ c.method = "body" => \A b \in LoopAt(c.at).body : b \in Range(c.rest) \/ New(b)
          /\ c.method \in {"else", "endif", "body"} => New(c.at)
  BY <1>1, <1>2, <1>5, <1>6, <1>7
<1>13. walk = "targets" => \A b \in Labels \cap Live : b \in Range(targets) \/ New(b)
  BY <1>5, <1>6
<1>14. Range(calls)' = Range(calls') /\ Range(targets)' = Range(targets)
  BY <1>1 DEF Range
<1>15. AllCounted'
  BY <1>1, <1>2, <1>8, <1>9, <1>11, <1>12, <1>13, <1>14 DEF AllCounted
<1> QED BY <1>10, <1>15

\* The invariant outlasts a step of the emitter.
LEMMA TurnKeeps ==
    ASSUME EmitInv, NEW N, Turn(N),
           emitted \subseteq emitted', emitted' \subseteq Live, IsVector(output'),
           \A c \in N \cup Others : MarkSet(c, output') /\ HollowQuiet(c, output'),
           walk = "blocks" =>
             /\ \E T : /\ FoundFrom(OpenedIn(emitted, {Current}), T)
                       /\ OpenedIn(emitted', N) = OpenedIn(emitted, {Current}) \cup T
             /\ \A c \in N : /\ c.method # "after"
                             /\ c.method = "roots" => c.at \in emitted'
                             /\ c.method = "region" => Range(c.rest) \subseteq emitted',
           WorkKept(output, output'),
           \A b \in Due(Current) : Cared(b, output', N),
           \A b \in emitted' : \/ Counted(b, output, Range(calls))
                               \/ Cared(b, output', N),
           \A c \in N :
              /\ c.method = "body" =>
                    \A b \in LoopAt(c.at).body : \/ b \in Range(c.rest)
                                                 \/ Counted(b, output, Range(calls))
                                                 \/ Cared(b, output', N)
              /\ c.method \in {"else", "endif", "body"} => \/ Counted(c.at, output, Range(calls))
                                                           \/ Cared(c.at, output', N),
           \A h : HasIf(h, output') => \/ HasIf(h, output)
                                       \/ \A b \in Arms(IfAt(h)) : Cared(b, output', N)
    PROVE  EmitInv'
<1>1. EmitType /\ Stacked /\ FrontClosed /\ AllCounted /\ ArmsCared /\ IsFlowGraph(cfg) /\ Analysed
  BY DEF EmitInv, Analysed, Built, Dfs, DfsType
<1>2. EmitType'
  BY <1>1, TurnType
<1>3. Stacked'
  BY TurnStacked
<1>4. FrontClosed'
  BY <1>1, TurnFront
<1>5. AllCounted' /\ ArmsCared'
  BY <1>1, TurnCared
<1>6. Analysed'
  BY <1>1, StepAnalysed DEF Turn
<1> QED BY <1>2, <1>3, <1>4, <1>5, <1>6 DEF EmitInv

\* What a step opens, and what it prints or leaves due.
FrontTurn(N) ==
    /\ \E T : /\ FoundFrom(OpenedIn(emitted, {Current}), T)
              /\ OpenedIn(emitted', N) = OpenedIn(emitted, {Current}) \cup T
    /\ \A c \in N : /\ c.method # "after"
                    /\ c.method = "roots" => c.at \in emitted'
                    /\ c.method = "region" => Range(c.rest) \subseteq emitted'

CaredTurn(N) ==
    /\ \A b \in Due(Current) : Cared(b, output', N)
    /\ \A b \in emitted' : Counted(b, output, Range(calls)) \/ Cared(b, output', N)
    /\ \A c \in N :
          /\ c.method = "body" =>
                \A b \in LoopAt(c.at).body : \/ b \in Range(c.rest)
                                             \/ Counted(b, output, Range(calls))
                                             \/ Cared(b, output', N)
          /\ c.method \in {"else", "endif", "body"} => \/ Counted(c.at, output, Range(calls))
                                                       \/ Cared(c.at, output', N)

\* The emitter walks the blocks of a flow graph that can be reached.
LEMMA LiveIsBlocks ==
    ASSUME EmitInv
    PROVE  IsFlowGraph(cfg) /\ Live \subseteq cfg.blocks /\ NoBlock \notin Live
<1>1. IsFlowGraph(cfg)
  BY DEF EmitInv, Analysed, Built, Dfs, DfsType
<1>2. cfg.entry \in cfg.blocks
  BY <1>1 DEF IsFlowGraph
<1>3. Live \subseteq cfg.blocks
  BY <1>1, <1>2, ReachIsLeast DEF Live
<1> QED BY <1>1, <1>3, NoBlockIsNone

\* The other calls are not hollow, and their positions are before that of the
\* current one.
LEMMA OthersWait ==
    ASSUME EmitInv, calls # <<>>
    PROVE  /\ \A c \in Others : MarkSet(c, output) /\ ~HollowCall(c) /\ c.from \in Nat
           /\ \A c \in Others : Marked(c) /\ Marked(Current) => c.from < Current.from
           /\ MarkSet(Current, output) /\ HollowQuiet(Current, output)
<1>1. /\ Range(calls) = {Current} \cup Others /\ \A y \in Others : Under(Current, y)
      /\ Others \subseteq Calls /\ Stacked
  BY CurrentIs DEF EmitInv
<1>2. \A c \in Others : c.from \in Nat
  BY <1>1 DEF Calls
<1> QED BY <1>1, <1>2 DEF Under, Stacked

\* A step that adds lines.
LEMMA AppendKeeps ==
    ASSUME EmitInv, NEW N, Turn(N), emitted \subseteq emitted', emitted' \subseteq Live,
           NEW x, IsVector(x), output' = output \o x,
           NoIf(x) \/ \A h : Line("if", h) \in Range(x) =>
                                 \A b \in Arms(IfAt(h)) : Cared(b, output', N),
           \A c \in N : Marked(c) => MarkSet(c, output') /\ HollowQuiet(c, output'),
           walk = "blocks" => FrontTurn(N), CaredTurn(N)
    PROVE  EmitInv'
<1>1. IsVector(output) /\ calls # <<>>
  BY DEF EmitInv, EmitType, Turn
<1>2. /\ IsVector(output') /\ WorkKept(output, output')
      /\ \A c : MarkSet(c, output) => MarkSet(c, output')
  BY <1>1, MarksAppend
<1>3. \A c \in N \cup Others : MarkSet(c, output') /\ HollowQuiet(c, output')
  <2>1. \A c \in Others : MarkSet(c, output') /\ HollowQuiet(c, output')
    BY <1>1, <1>2, OthersWait DEF HollowQuiet
  <2>2. \A c \in N : MarkSet(c, output') /\ HollowQuiet(c, output')
    BY DEF MarkSet, HollowQuiet, HollowCall, Marked
  <2> QED BY <2>1, <2>2
<1>4. ASSUME NEW h, HasIf(h, output')
      PROVE  HasIf(h, output) \/ \A b \in Arms(IfAt(h)) : Cared(b, output', N)
  <2>1. Range(output') = Range(output) \cup Range(x)
    BY <1>1, MarksAppend
  <2>2. NoIf(x) => Line("if", h) \notin Range(x)
    BY DEF NoIf, Line
  <2> QED BY <1>4, <2>1, <2>2 DEF HasIf
<1> QED BY <1>2, <1>3, <1>4, TurnKeeps DEF FrontTurn, CaredTurn

\* A step that prints nothing.
LEMMA SilentKeeps ==
    ASSUME EmitInv, NEW N, Turn(N), emitted \subseteq emitted', emitted' \subseteq Live,
           output' = output,
           \A c \in N : Marked(c) => MarkSet(c, output) /\ HollowQuiet(c, output),
           walk = "blocks" => FrontTurn(N), CaredTurn(N)
    PROVE  EmitInv'
<1>1. IsVector(output) /\ calls # <<>>
  BY DEF EmitInv, EmitType, Turn
<1>2. WorkKept(output, output')
  BY DEF WorkKept
<1>3. \A c \in N \cup Others : MarkSet(c, output') /\ HollowQuiet(c, output')
  <2>1. \A c \in Others : MarkSet(c, output') /\ HollowQuiet(c, output')
    BY <1>1, OthersWait DEF HollowQuiet
  <2>2. \A c \in N : MarkSet(c, output') /\ HollowQuiet(c, output')
    BY DEF MarkSet, HollowQuiet, HollowCall, Marked
  <2> QED BY <2>1, <2>2
<1>4. \A h : HasIf(h, output') => HasIf(h, output)
  OBVIOUS
<1> QED BY <1>1, <1>2, <1>3, <1>4, TurnKeeps DEF FrontTurn, CaredTurn

\* Lines that print the statements of S.
LEMMA TellsTold ==
    ASSUME NEW s, IsVector(s), NEW t, NEW S, Tells(t, S)
    PROVE  \A b \in S : Told(b, s \o t)
<1>1. Range(s \o t) = Range(s) \cup Range(t)
  BY VectorConcat DEF Tells
<1> QED BY <1>1 DEF Tells, Told, Silent

\* The ways to change the stack.
LEMMA PopTurn ==
    ASSUME EmitInv, calls # <<>>, calls' = Tail(calls),
           UNCHANGED <<allVars, walk, pending, queued, targets>>
    PROVE  Turn({})
<1>1. IsVector(calls) /\ Ordered(calls)
  BY CurrentIs DEF EmitInv
<1>2. IsVector(Tail(calls)) /\ Ordered(Tail(calls))
  BY <1>1, VectorSplit, OrderedSplit
<1> QED BY <1>2 DEF Turn

\* A call goes on as another, with the position it had kept.
LEMMA OneTurn ==
    ASSUME EmitInv, calls # <<>>, NEW x \in Calls, calls' = <<x>> \o Tail(calls),
           Marked(x) => Marked(Current) /\ x.from = Current.from,
           UNCHANGED <<allVars, walk, pending, queued, targets>>
    PROVE  Turn({x})
<1>1. IsVector(calls) /\ Ordered(calls)
  BY CurrentIs DEF EmitInv
<1>2. \A y \in Range(Tail(calls)) : Marked(x) /\ Marked(y) => y.from < x.from
  BY OthersWait DEF Others
<1>3. /\ IsVector(<<x>> \o Tail(calls))
      /\ Range(<<x>> \o Tail(calls)) = {x} \cup Range(Tail(calls))
      /\ Ordered(<<x>> \o Tail(calls))
  BY <1>1, <1>2, PushOne
<1> QED BY <1>3 DEF Turn

\* A position kept now is behind those the other calls have kept.
LEMMA MarkTurn ==
    ASSUME EmitInv, calls # <<>>, NEW x \in Calls, calls' = <<x>> \o Tail(calls),
           Len(output) <= x.from,
           UNCHANGED <<allVars, walk, pending, queued, targets>>
    PROVE  Turn({x})
<1>1. IsVector(calls) /\ Ordered(calls)
  BY CurrentIs DEF EmitInv
<1>2. \A y \in Others : Marked(y) => y.from < Len(output)
  <2>1. IsVector(output)
    BY DEF EmitInv, EmitType
  <2>2. DOMAIN output = 1..Len(output) /\ Len(output) \in Nat
    BY <2>1, VectorShape
  <2>3. \A y \in Others : Marked(y) => y.from + 1 \in DOMAIN output /\ y.from \in Nat
    BY OthersWait DEF MarkSet
  <2> QED BY <2>2, <2>3
<1>3. \A y \in Range(Tail(calls)) : Marked(x) /\ Marked(y) => y.from < x.from
  <2>1. x.from \in Nat /\ Len(output) \in Nat /\ \A y \in Others : y.from \in Nat
    <3>1. IsVector(output)
      BY DEF EmitInv, EmitType
    <3> QED BY <3>1, OthersWait, VectorShape DEF Calls
  <2> QED BY <1>2, <2>1 DEF Others
<1>4. /\ IsVector(<<x>> \o Tail(calls))
      /\ Range(<<x>> \o Tail(calls)) = {x} \cup Range(Tail(calls))
      /\ Ordered(<<x>> \o Tail(calls))
  BY <1>1, <1>3, PushOne
<1> QED BY <1>4 DEF Turn

\* A call made by the current one, which goes on later.
LEMMA TwoTurn ==
    ASSUME EmitInv, calls # <<>>, NEW x \in Calls, NEW y \in Calls,
           calls' = <<x>> \o (<<y>> \o Tail(calls)), ~Marked(x), ~HollowCall(y),
           Marked(y) => Marked(Current) /\ y.from = Current.from,
           UNCHANGED <<allVars, walk, pending, queued, targets>>
    PROVE  Turn({x, y})
<1>1. IsVector(calls) /\ Ordered(calls)
  BY CurrentIs DEF EmitInv
<1>2. \A z \in Range(Tail(calls)) : Marked(y) /\ Marked(z) => z.from < y.from
  BY OthersWait DEF Others
<1>3. /\ IsVector(<<x>> \o (<<y>> \o Tail(calls)))
      /\ Range(<<x>> \o (<<y>> \o Tail(calls))) = {x, y} \cup Range(Tail(calls))
      /\ Ordered(<<x>> \o (<<y>> \o Tail(calls)))
  BY <1>1, <1>2, PushTwo
<1> QED BY <1>3 DEF Turn

\* Calls on the blocks of a branch, made by a conditional that goes on later.
LEMMA EachTurn ==
    ASSUME EmitInv, calls # <<>>, NEW S, S \subseteq Live, NEW loop \in cfg.blocks \cup {NoBlock},
           NEW y \in Calls, y.method \in {"else", "endif"},
           calls' = CallEach(S, "arm", loop) \o <<y>> \o Tail(calls),
           \A z \in Others : Marked(z) => z.from < y.from,
           UNCHANGED <<allVars, walk, pending, queued, targets>>
    PROVE  Turn({Call("arm", b, loop) : b \in S} \cup {y})
<1> DEFINE N == {Call("arm", b, loop) : b \in S}
<1>1. IsVector(calls) /\ Ordered(calls)
  BY CurrentIs DEF EmitInv
<1>2. IsFlowGraph(cfg) /\ S \subseteq cfg.blocks
  BY LiveIsBlocks
<1>3. ~HollowCall(y) /\ \A z \in Range(Tail(calls)) : Marked(y) /\ Marked(z) => z.from < y.from
  BY DEF HollowCall, Others
<1>4. /\ IsVector(CallEach(S, "arm", loop) \o <<y>> \o Tail(calls))
      /\ Range(CallEach(S, "arm", loop) \o <<y>> \o Tail(calls)) = N \cup {y} \cup Range(Tail(calls))
      /\ Ordered(CallEach(S, "arm", loop) \o <<y>> \o Tail(calls))
  BY <1>1, <1>2, <1>3, PushEach
<1>5. N \subseteq Calls
  <2> SUFFICES ASSUME NEW b \in S PROVE Call("arm", b, loop) \in Calls
    OBVIOUS
  <2>1. <<>> \in Seq(Live)
    BY EmptySeq
  <2> QED BY <2>1 DEF Call, Calls, Methods
<1> QED BY <1>4, <1>5 DEF Turn

\* The types of the current call.
LEMMA RunningIs ==
    ASSUME EmitInv, NEW m, Running(m)
    PROVE  /\ calls # <<>> /\ Current \in Calls /\ Current.method = m /\ Current.at \in Live
           /\ Current.rest \in Seq(Live) /\ Current.from \in Nat /\ Current.mid \in Nat
           /\ Current.loop \in cfg.blocks \cup {NoBlock}
           /\ Analysed /\ phase = "done" /\ emitted \subseteq Live /\ IsVector(output)
           /\ Range(calls) = {Current} \cup Others
<1>1. calls # <<>> /\ Current.method = m
  BY DEF Running
<1>2. Current \in Calls /\ stage = "end" /\ Range(calls) = {Current} \cup Others
  BY <1>1, CurrentIs DEF EmitInv
<1>3. phase = "done"
  BY <1>2, AnalysisOver DEF EmitInv
<1> QED BY <1>1, <1>2, <1>3 DEF Calls, EmitInv, EmitType

\* The branches of the current conditional.
LEMMA ArmsAre ==
    ASSUME EmitInv, NEW b \in Live, IsIf(b)
    PROVE  /\ IfAt(b).then_blocks \subseteq Live /\ IfAt(b).else_blocks \subseteq Live
           /\ Arms(IfAt(b)) = IfAt(b).then_blocks \cup IfAt(b).else_blocks
           /\ \A t \in Arms(IfAt(b)) : t \in Succs(cfg, b) /\ t \in Live
<1>1. IfAt(b).then_blocks \subseteq Succs(cfg, b) /\ IfAt(b).else_blocks \subseteq Succs(cfg, b)
  BY IfAtIs DEF EmitInv
<1>2. IsFlowGraph(cfg) /\ cfg.entry \in cfg.blocks
  BY LiveIsBlocks DEF IsFlowGraph
<1>3. \A x \in Live : Succs(cfg, x) \subseteq Live
  BY <1>2, ReachIsLeast DEF Live
<1> QED BY <1>1, <1>3 DEF Arms

\* Blocks with nothing to print.
LEMMA NothingIsSilent ==
    ASSUME NEW S
    PROVE  /\ SaysNothing(S) => \A b \in S : Silent(b)
           /\ (\A b \in S : IsTrapOnly(b)) => \A b \in S : Silent(b)
           /\ S \subseteq cfg.suppressed => \A b \in S : Silent(b)
<1>1. ASSUME SaysNothing(S), NEW b \in S PROVE Silent(b)
  <2>1. ~MayEmit(b, FALSE)
    BY <1>1 DEF SaysNothing
  <2> QED BY <2>1 DEF MayEmit, Silent, Shows
<1>2. ASSUME NEW b, IsTrapOnly(b) PROVE Silent(b)
  BY <1>2 DEF IsTrapOnly, Silent, Shows, Speaks
<1>3. ASSUME NEW b \in cfg.suppressed PROVE Silent(b)
  BY DEF Silent, Shows
<1> QED BY <1>1, <1>2, <1>3

\* A conditional whose branches print nothing: the header alone.
LEMMA StepIfOmitted == EmitInv /\ IfOmitted => EmitInv'
<1> SUFFICES ASSUME EmitInv, IfOmitted PROVE EmitInv'
  OBVIOUS
<1> DEFINE b == Current.at
           f == IfAt(b)
           x == Body(b, TRUE, NoBlock)
<1>1. /\ Running("if") /\ output' = output \o x
      /\ emitted' = emitted \cup {b} \cup Arms(f)
      /\ calls' = Tail(calls) /\ UNCHANGED <<allVars, walk, pending, queued, targets>>
      /\ FullySuppressed(f) \/ (EmptyThen(f) /\ EmptyElse(f))
  BY DEF IfOmitted, KeepWalk
<1>2. /\ calls # <<>> /\ Current \in Calls /\ Current.method = "if" /\ b \in Live
      /\ emitted \subseteq Live /\ IsVector(output)
  BY <1>1, RunningIs
<1>3. /\ IsIf(b)
      /\ \A t \in Arms(f) : t \in Succs(cfg, b) /\ t \in Live
      /\ Arms(f) = f.then_blocks \cup f.else_blocks
  BY <1>2, ArmsAre DEF Calls
<1>4. Turn({})
  BY <1>1, <1>2, PopTurn
<1>5. \A t \in Arms(f) : Silent(t)
  <2>1. CASE FullySuppressed(f)
    BY <2>1, NothingIsSilent DEF FullySuppressed
  <2>2. CASE EmptyThen(f) /\ EmptyElse(f)
    <3>1. \A t \in f.then_blocks : Silent(t)
      BY <2>2, NothingIsSilent DEF EmptyThen
    <3>2. \A t \in f.else_blocks : Silent(t)
      BY <2>2, NothingIsSilent DEF EmptyElse
    <3> QED BY <1>3, <3>1, <3>2
  <2> QED BY <1>1, <2>1, <2>2
<1>6. Tells(x, {b})
  BY BodyPrints
<1>7. Told(b, output')
  BY <1>1, <1>2, <1>6, TellsTold
<1>8. FrontTurn({})
  <2>1. FoundFrom(OpenedIn(emitted, {Current}), Arms(f))
    <3>1. b \in OpenedIn(emitted, {Current})
      BY <1>2 DEF OpenedIn, Opened
    <3> QED BY <1>3, <3>1, FoundNext
  <2>2. OpenedIn(emitted', {}) = OpenedIn(emitted, {Current}) \cup Arms(f)
    BY <1>1, <1>2 DEF OpenedIn, Opened
  <2> QED BY <2>1, <2>2 DEF FrontTurn
<1>9. CaredTurn({})
  <2>1. Due(Current) = {b}
    BY <1>2 DEF Due
  <2>2. \A t \in emitted : Counted(t, output, Range(calls))
    BY DEF EmitInv, AllCounted
  <2>3. \A t \in Arms(f) : Told(t, output')
    BY <1>5 DEF Told
  <2> QED BY <1>1, <1>7, <2>1, <2>2, <2>3 DEF CaredTurn, Cared
<1>10. emitted' \subseteq Live /\ emitted \subseteq emitted' /\ IsVector(x) /\ NoIf(x)
  BY <1>1, <1>2, <1>3, <1>6 DEF Tells
<1> HIDE DEF x
<1> QED BY <1>1, <1>4, <1>8, <1>9, <1>10, AppendKeeps

\* Three vectors in a row.
LEMMA VectorAssoc ==
    ASSUME NEW s, NEW t, NEW u, IsVector(s), IsVector(t), IsVector(u)
    PROVE  (s \o t) \o u = s \o (t \o u)
<1> DEFINE B == Range(s) \cup Range(t) \cup Range(u)
<1>1. s \in Seq(B) /\ t \in Seq(B) /\ u \in Seq(B)
  BY SeqMonotonic DEF IsVector
<1> HIDE DEF B
<1> QED BY <1>1, ConcatAssociative

\* An element at the end.
LEMMA VectorAppendIs ==
    ASSUME NEW s, NEW x, IsVector(s)
    PROVE  Append(s, x) = s \o <<x>>
<1> DEFINE B == Range(s) \cup {x}
<1>1. s \in Seq(B) /\ x \in B
  BY SeqMonotonic DEF IsVector
<1> HIDE DEF B
<1> QED BY <1>1, AppendIsConcat

\* The positions the other calls kept are before the end of the output.
LEMMA OthersBefore ==
    ASSUME EmitInv, calls # <<>>
    PROVE  \A y \in Others : Marked(y) => y.from < Len(output)
<1>1. IsVector(output)
  BY DEF EmitInv, EmitType
<1>2. DOMAIN output = 1..Len(output) /\ Len(output) \in Nat
  BY <1>1, VectorShape
<1>3. \A y \in Others : Marked(y) => y.from + 1 \in DOMAIN output /\ y.from \in Nat
  BY OthersWait DEF MarkSet
<1> QED BY <1>2, <1>3

\* A conditional: its header, and its then branch is next.
LEMMA StepIfThen == EmitInv /\ IfThen => EmitInv'
<1> SUFFICES ASSUME EmitInv, IfThen PROVE EmitInv'
  OBVIOUS
<1> DEFINE b == Current.at
           f == IfAt(b)
           x == Body(b, TRUE, NoBlock)
           line == Line("if", b)
           head == output \o x
           y == x \o <<line>>
           else == [Current EXCEPT !.method = "else", !.from = Len(head)]
           arms == {Call("arm", t, Current.loop) : t \in f.then_blocks}
<1>1. /\ Running("if") /\ output' = Append(head, line)
      /\ UNCHANGED <<allVars, walk, pending, queued, targets>>
      /\ \/ /\ EmptyThen(f) /\ emitted' = emitted \cup f.then_blocks
            /\ calls' = <<else>> \o Tail(calls)
         \/ /\ calls' = CallEach(f.then_blocks, "arm", Current.loop) \o <<else>> \o Tail(calls)
            /\ emitted' = emitted
  BY DEF IfThen, KeepWalk
<1>2. /\ calls # <<>> /\ Current \in Calls /\ Current.method = "if" /\ b \in Live
      /\ emitted \subseteq Live /\ IsVector(output) /\ Current.loop \in cfg.blocks \cup {NoBlock}
  BY <1>1, RunningIs
<1>3. /\ IsIf(b) /\ f.then_blocks \subseteq Live
      /\ \A t \in f.then_blocks : t \in Succs(cfg, b)
  BY <1>2, ArmsAre DEF Calls
<1>4. Tells(x, {b}) /\ IsVector(<<line>>) /\ Range(<<line>>) = {line}
  BY BodyPrints, VectorOne
<1> HIDE DEF x
<1>5. /\ IsVector(head) /\ Len(head) = Len(output) + Len(x) /\ Len(head) \in Nat
      /\ Len(output) \in Nat /\ Len(x) \in Nat
  <2>1. IsVector(head) /\ Len(head) = Len(output) + Len(x)
    BY <1>2, <1>4, VectorConcat DEF Tells
  <2> HIDE DEF head
  <2> QED BY <1>2, <1>4, <2>1, VectorShape DEF Tells
<1>6. output' = output \o y /\ IsVector(y) /\ Range(y) = Range(x) \cup {line}
  <2>1. Append(head, line) = head \o <<line>>
    <3> HIDE DEF head, line
    <3> QED BY <1>5, VectorAppendIs
  <2>2. head \o <<line>> = output \o y
    <3> HIDE DEF line
    <3> QED BY <1>2, <1>4, VectorAssoc DEF Tells
  <2>3. IsVector(y) /\ Range(y) = Range(x) \cup {line}
    <3> HIDE DEF line
    <3> QED BY <1>4, VectorConcat DEF Tells
  <2> QED BY <1>1, <2>1, <2>2, <2>3
<1>7. Told(b, output')
  <2> HIDE DEF y
  <2>1. Range(output') = Range(output) \cup Range(y)
    BY <1>2, <1>6, VectorConcat
  <2> QED BY <1>4, <1>6, <2>1 DEF Tells, Told, Silent
<1>15. \A h : Line("if", h) \in Range(y) => h = b
  <2>1. \A h : Line("if", h).op = "if" /\ Line("if", h).at = h
    BY DEF Line
  <2> QED BY <1>4, <1>6, <2>1 DEF Tells, NoIf
<1>16. Arms(f) = f.then_blocks \cup f.else_blocks
  BY DEF Arms
<1>8. /\ else \in Calls /\ else.method = "else" /\ else.at = b /\ else.from = Len(head)
      /\ Opened(else) = {b} /\ Due(else) = f.else_blocks
  <2> HIDE DEF head
  <2>1. /\ else.method = "else" /\ else.at = b /\ else.from = Len(head)
        /\ else \in [method : Methods, at : Live, loop : cfg.blocks \cup {NoBlock},
                     from : Nat, mid : Nat, rest : Seq(Live)]
    BY <1>2, <1>5 DEF Calls, Methods
  <2> HIDE DEF else
  <2> QED BY <1>3, <2>1 DEF Calls, Opened, Due
<1>9. MarkSet(else, output') /\ HollowQuiet(else, output')
  <2>1. Append(head, line)[Len(head) + 1] = line /\ Len(Append(head, line)) = Len(head) + 1
        /\ IsVector(Append(head, line))
    <3> HIDE DEF head, line
    <3> QED BY <1>5, VectorAppend
  <2>2. line.op # "work"
    BY DEF Line
  <2>3. Len(head) + 1 \in DOMAIN Append(head, line)
    <3> HIDE DEF head, line
    <3> QED BY <1>5, <2>1, VectorShape
  <2> HIDE DEF else, head, line
  <2> QED BY <1>1, <1>8, <2>1, <2>2, <2>3 DEF MarkSet, HollowQuiet, HollowCall
<1>10. \A t \in emitted : Counted(t, output, Range(calls))
  BY DEF EmitInv, AllCounted
<1>11. Due(Current) = {b} /\ Opened(Current) = {b}
  BY <1>2 DEF Due, Opened
<1>12. FoundFrom(OpenedIn(emitted, {Current}), f.then_blocks)
  BY <1>3, <1>11, FoundNext DEF OpenedIn
<1> HIDE DEF else, head, y, line, f
<1>13. CASE EmptyThen(f) /\ emitted' = emitted \cup f.then_blocks
            /\ calls' = <<else>> \o Tail(calls)
  <2> DEFINE N == {else}
  <2>1. Turn(N)
    BY <1>1, <1>2, <1>5, <1>8, <1>13, MarkTurn
  <2>2. FrontTurn(N)
    <3>1. OpenedIn(emitted', N) = OpenedIn(emitted, {Current}) \cup f.then_blocks
      BY <1>8, <1>11, <1>13 DEF OpenedIn
    <3> QED BY <1>8, <1>12, <3>1 DEF FrontTurn
  <2>3. \A t \in f.then_blocks : Told(t, output')
    BY <1>13, NothingIsSilent DEF EmptyThen, Told
  <2>7. \A t \in f.else_blocks : t \in Due(else)
    BY <1>8
  <2>8. \A h : Line("if", h) \in Range(y) => \A t \in Arms(IfAt(h)) : Cared(t, output', N)
    BY <1>15, <1>16, <2>3, <2>7 DEF Cared, f
  <2>4. CaredTurn(N)
    BY <1>7, <1>8, <1>10, <1>11, <1>13, <2>3 DEF CaredTurn, Cared
  <2>5. emitted \subseteq emitted' /\ emitted' \subseteq Live
    BY <1>2, <1>3, <1>13
  <2>6. \A c \in N : Marked(c) => MarkSet(c, output') /\ HollowQuiet(c, output')
    BY <1>9
  <2> HIDE DEF N
  <2> QED BY <1>6, <2>1, <2>2, <2>4, <2>5, <2>6, <2>8, AppendKeeps
<1>14. CASE /\ calls' = CallEach(f.then_blocks, "arm", Current.loop) \o <<else>> \o Tail(calls)
            /\ emitted' = emitted
  <2> DEFINE N == arms \cup {else}
  <2>1. Turn(N)
    <3>1. \A z \in Others : Marked(z) => z.from < else.from
      <4>1. \A z \in Others : Marked(z) => z.from < Len(output) /\ z.from \in Nat
        BY <1>2, OthersBefore, OthersWait
      <4> QED BY <1>5, <1>8, <4>1
    <3>2. PICK S, l, e : S = f.then_blocks /\ l = Current.loop /\ e = else
      OBVIOUS
    <3>3. /\ calls # <<>> /\ S \subseteq Live /\ l \in cfg.blocks \cup {NoBlock}
          /\ e \in Calls /\ e.method \in {"else", "endif"}
          /\ calls' = CallEach(S, "arm", l) \o <<e>> \o Tail(calls)
          /\ \A z \in Others : Marked(z) => z.from < e.from
          /\ UNCHANGED <<allVars, walk, pending, queued, targets>>
      BY <1>1, <1>2, <1>3, <1>8, <1>14, <3>1, <3>2
    <3>4. Turn({Call("arm", t, l) : t \in S} \cup {e})
      BY ONLY <3>3, EmitInv, EachTurn
    <3> QED BY <3>2, <3>4
  <2>2. \A c \in arms : c.method = "arm" /\ Opened(c) = {c.at} /\ ~Marked(c)
    BY DEF Call, Opened, Marked
  <2>3. FrontTurn(N)
    <3>1. UNION {Opened(c) : c \in arms} = f.then_blocks
      <4>1. \A t \in f.then_blocks : Opened(Call("arm", t, Current.loop)) = {t}
        BY DEF Call, Opened
      <4> QED BY <4>1
    <3>2. OpenedIn(emitted', N) = OpenedIn(emitted, {Current}) \cup f.then_blocks
      <4> HIDE DEF arms
      <4> QED BY <1>8, <1>11, <1>14, <3>1 DEF OpenedIn
    <3> HIDE DEF arms
    <3> QED BY <1>8, <1>12, <2>2, <3>2 DEF FrontTurn
  <2>8. \A h : Line("if", h) \in Range(y) => \A t \in Arms(IfAt(h)) : Cared(t, output', N)
    <3>1. \A t \in f.then_blocks : \E c \in N : t \in Due(c)
      <4>1. \A t \in f.then_blocks : t \in Due(Call("arm", t, Current.loop))
        BY DEF Call, Due
      <4> QED BY <4>1
    <3>2. \A t \in f.else_blocks : \E c \in N : t \in Due(c)
      BY <1>8
    <3> HIDE DEF N
    <3> QED BY <1>15, <1>16, <3>1, <3>2 DEF Cared, f
  <2>4. CaredTurn(N)
    <3> HIDE DEF arms
    <3> QED BY <1>7, <1>8, <1>10, <1>11, <1>14, <2>2 DEF CaredTurn, Cared
  <2>5. emitted \subseteq emitted' /\ emitted' \subseteq Live
    BY <1>2, <1>14
  <2>6. \A c \in N : Marked(c) => MarkSet(c, output') /\ HollowQuiet(c, output')
    <3> HIDE DEF arms
    <3> QED BY <1>9, <2>2
  <2> HIDE DEF N
  <2> QED BY <1>6, <2>1, <2>3, <2>4, <2>5, <2>6, <2>8, AppendKeeps
<1> QED BY <1>1, <1>13, <1>14 DEF else, head, y, line, f

\* Its else branch is next.
LEMMA StepIfElse == EmitInv /\ IfElse => EmitInv'
<1> SUFFICES ASSUME EmitInv, IfElse PROVE EmitInv'
  OBVIOUS
<1> DEFINE b == Current.at
           f == IfAt(b)
           end == [Current EXCEPT !.method = "endif", !.mid = Len(output)]
           arms == {Call("arm", t, Current.loop) : t \in f.else_blocks}
<1>1. /\ Running("else") /\ output' = output
      /\ UNCHANGED <<allVars, walk, pending, queued, targets>>
      /\ \/ /\ EmptyElse(f) /\ emitted' = emitted \cup f.else_blocks
            /\ calls' = <<end>> \o Tail(calls)
         \/ /\ calls' = CallEach(f.else_blocks, "arm", Current.loop) \o <<end>> \o Tail(calls)
            /\ emitted' = emitted
  BY DEF IfElse, KeepWalk
<1>2. /\ calls # <<>> /\ Current \in Calls /\ Current.method = "else" /\ b \in Live
      /\ emitted \subseteq Live /\ IsVector(output) /\ Current.loop \in cfg.blocks \cup {NoBlock}
      /\ Current \in Range(calls) /\ Current.from \in Nat
  BY <1>1, RunningIs
<1>3. /\ IsIf(b) /\ f.else_blocks \subseteq Live
      /\ \A t \in f.else_blocks : t \in Succs(cfg, b)
  BY <1>2, ArmsAre DEF Calls
<1>4. DOMAIN output = 1..Len(output) /\ Len(output) \in Nat
  BY <1>2, VectorShape
<1>5. Current.from + 1 \in DOMAIN output /\ output[Current.from + 1].op # "work"
  BY <1>2, OthersWait DEF MarkSet, Marked
<1>6. /\ end \in Calls /\ end.method = "endif" /\ end.at = b /\ end.from = Current.from
      /\ end.mid = Len(output) /\ Opened(end) = {b} /\ Due(end) = {}
  <2>1. /\ end.method = "endif" /\ end.at = b /\ end.from = Current.from /\ end.mid = Len(output)
        /\ end \in [method : Methods, at : Live, loop : cfg.blocks \cup {NoBlock},
                    from : Nat, mid : Nat, rest : Seq(Live)]
    BY <1>2, <1>4 DEF Calls, Methods
  <2> HIDE DEF end
  <2> QED BY <1>3, <2>1 DEF Calls, Opened, Due
<1> HIDE DEF end
<1>7. MarkSet(end, output) /\ HollowQuiet(end, output)
  BY <1>2, <1>4, <1>5, <1>6 DEF MarkSet, HollowQuiet, HollowCall
<1>8. \A t \in emitted : Counted(t, output, Range(calls))
  BY DEF EmitInv, AllCounted
<1>9. /\ Due(Current) = f.else_blocks /\ Opened(Current) = {b}
      /\ Counted(b, output, Range(calls))
  BY <1>2 DEF Due, Opened, EmitInv, AllCounted
<1>10. FoundFrom(OpenedIn(emitted, {Current}), f.else_blocks)
  BY <1>3, <1>9, FoundNext DEF OpenedIn
<1>11. \A z \in Others : Marked(z) => z.from < end.from
  BY <1>2, <1>6, OthersWait DEF Marked
<1>12. CASE EmptyElse(f) /\ emitted' = emitted \cup f.else_blocks
            /\ calls' = <<end>> \o Tail(calls)
  <2> DEFINE N == {end}
  <2>1. Turn(N)
    <3>1. Marked(Current)
      BY <1>2 DEF Marked
    <3> QED BY <1>1, <1>2, <1>6, <1>12, <3>1, OneTurn
  <2>2. FrontTurn(N)
    <3>1. OpenedIn(emitted', N) = OpenedIn(emitted, {Current}) \cup f.else_blocks
      BY <1>6, <1>9, <1>12 DEF OpenedIn
    <3> QED BY <1>6, <1>10, <3>1 DEF FrontTurn
  <2>3. \A t \in f.else_blocks : Told(t, output')
    BY <1>12, NothingIsSilent DEF EmptyElse, Told
  <2>4. CaredTurn(N)
    BY <1>6, <1>8, <1>9, <1>12, <2>3 DEF CaredTurn, Cared
  <2>5. emitted \subseteq emitted' /\ emitted' \subseteq Live
    BY <1>2, <1>3, <1>12
  <2>6. \A c \in N : Marked(c) => MarkSet(c, output) /\ HollowQuiet(c, output)
    BY <1>7
  <2> HIDE DEF N
  <2> QED BY <1>1, <2>1, <2>2, <2>4, <2>5, <2>6, SilentKeeps
<1>13. CASE /\ calls' = CallEach(f.else_blocks, "arm", Current.loop) \o <<end>> \o Tail(calls)
            /\ emitted' = emitted
  <2> DEFINE N == arms \cup {end}
  <2>1. Turn(N)
    <3>1. PICK S, l, e : S = f.else_blocks /\ l = Current.loop /\ e = end
      OBVIOUS
    <3>2. /\ calls # <<>> /\ S \subseteq Live /\ l \in cfg.blocks \cup {NoBlock}
          /\ e \in Calls /\ e.method \in {"else", "endif"}
          /\ calls' = CallEach(S, "arm", l) \o <<e>> \o Tail(calls)
          /\ \A z \in Others : Marked(z) => z.from < e.from
          /\ UNCHANGED <<allVars, walk, pending, queued, targets>>
      BY <1>1, <1>2, <1>3, <1>6, <1>11, <1>13, <3>1
    <3>3. Turn({Call("arm", t, l) : t \in S} \cup {e})
      BY ONLY <3>2, EmitInv, EachTurn
    <3> QED BY <3>1, <3>3
  <2>2. \A c \in arms : c.method = "arm" /\ Opened(c) = {c.at} /\ ~Marked(c)
    BY DEF Call, Opened, Marked
  <2>3. FrontTurn(N)
    <3>1. UNION {Opened(c) : c \in arms} = f.else_blocks
      <4>1. \A t \in f.else_blocks : Opened(Call("arm", t, Current.loop)) = {t}
        BY DEF Call, Opened
      <4> QED BY <4>1
    <3>2. OpenedIn(emitted', N) = OpenedIn(emitted, {Current}) \cup f.else_blocks
      <4> HIDE DEF arms
      <4> QED BY <1>6, <1>9, <1>13, <3>1 DEF OpenedIn
    <3> HIDE DEF arms
    <3> QED BY <1>6, <1>10, <2>2, <3>2 DEF FrontTurn
  <2>4. CaredTurn(N)
    <3>1. \A t \in f.else_blocks : \E c \in N : t \in Due(c)
      <4>1. \A t \in f.else_blocks : t \in Due(Call("arm", t, Current.loop))
        BY DEF Call, Due
      <4> QED BY <4>1
    <3> HIDE DEF arms
    <3> QED BY <1>6, <1>8, <1>9, <1>13, <2>2, <3>1 DEF CaredTurn, Cared
  <2>5. emitted \subseteq emitted' /\ emitted' \subseteq Live
    BY <1>2, <1>13
  <2>6. \A c \in N : Marked(c) => MarkSet(c, output) /\ HollowQuiet(c, output)
    <3> HIDE DEF arms
    <3> QED BY <1>7, <2>2
  <2> HIDE DEF N
  <2> QED BY <1>1, <2>1, <2>3, <2>4, <2>5, <2>6, SilentKeeps
<1> QED BY <1>1, <1>12, <1>13 DEF end

\* Its end: an else is put in, or the conditional taken back when nothing was printed.
LEMMA StepIfEnd == EmitInv /\ IfEnd => EmitInv'
<1> SUFFICES ASSUME EmitInv, IfEnd PROVE EmitInv'
  OBVIOUS
<1> DEFINE b == Current.at
           from == Current.from
           mid == Current.mid
           close == Line("close", b)
           n == Len(output)
<1>1. /\ Running("endif")
      /\ output' = IF n > mid
                   THEN SubSeq(output, 1, mid) \o <<Line("else", b)>>
                          \o SubSeq(output, mid + 1, n) \o <<close>>
                   ELSE IF mid > from + 1 THEN output \o <<close>>
                   ELSE SubSeq(output, 1, from)
      /\ emitted' = emitted \cup {b} /\ calls' = Tail(calls)
      /\ UNCHANGED <<allVars, walk, pending, queued, targets>>
  BY DEF IfEnd, KeepWalk
<1>2. /\ calls # <<>> /\ Current \in Calls /\ Current.method = "endif" /\ b \in Live
      /\ emitted \subseteq Live /\ IsVector(output)
      /\ Current \in Range(calls) /\ from \in Nat /\ mid \in Nat
  BY <1>1, RunningIs
<1>3. DOMAIN output = 1..n /\ n \in Nat
  BY <1>2, VectorShape
<1>4. from + 1 \in DOMAIN output /\ output[from + 1].op # "work" /\ from + 1 <= mid
  BY <1>2, OthersWait DEF MarkSet, Marked
<1>5. \A c \in Others : /\ MarkSet(c, output) /\ ~HollowCall(c) /\ c.from \in Nat
                        /\ Marked(c) => c.from < from
  BY <1>2, OthersWait DEF Marked
<1>6. Turn({})
  BY <1>1, <1>2, PopTurn
<1>12. \A h : Line("if", h) # Line("else", b) /\ Line("if", h) # close
  BY DEF Line
<1>7. /\ IsVector(output') /\ WorkKept(output, output') /\ \A c \in Others : MarkSet(c, output')
      /\ Range(output') \subseteq Range(output) \cup {Line("else", b), close}
  <2>1. CASE n > mid
    <3>1. mid \in 0..n
      BY <1>2, <1>3, <2>1
    <3>2. PICK k, x, y : k = mid /\ x = Line("else", b) /\ y = close
      OBVIOUS
    <3>3. output' = SubSeq(output, 1, k) \o <<x>> \o SubSeq(output, k + 1, Len(output)) \o <<y>>
      BY <1>1, <2>1, <3>2
    <3>4. /\ IsVector(output') /\ WorkKept(output, output')
          /\ Range(output') \subseteq Range(output) \cup {x, y}
          /\ \A c : (MarkSet(c, output) /\ c.from \in Nat /\ c.from < k) => MarkSet(c, output')
      <4>1. PICK r : r = SubSeq(output, 1, k) \o <<x>> \o SubSeq(output, k + 1, Len(output)) \o <<y>>
        OBVIOUS
      <4>2. k \in 0..Len(output)
        BY <3>1, <3>2
      <4>3. /\ IsVector(r) /\ WorkKept(output, r) /\ Range(r) \subseteq Range(output) \cup {x, y}
            /\ \A c : (MarkSet(c, output) /\ c.from \in Nat /\ c.from < k) => MarkSet(c, r)
        BY <1>2, <4>1, <4>2, MarksInsert
      <4> QED BY <3>3, <4>1, <4>3
    <3>5. \A c \in Others : Marked(c) => c.from < k
      BY <1>2, <1>4, <1>5, <3>2
    <3> QED BY <1>5, <3>2, <3>4, <3>5 DEF MarkSet
  <2>2. CASE ~(n > mid) /\ mid > from + 1
    <3>1. IsVector(<<close>>) /\ Range(<<close>>) = {close}
      BY VectorOne
    <3>2. output' = output \o <<close>>
      BY <1>1, <2>2
    <3> HIDE DEF close
    <3> QED BY <1>2, <1>5, <3>1, <3>2, MarksAppend
  <2>3. CASE ~(n > mid) /\ ~(mid > from + 1)
    <3>1. from \in 0..n
      BY <1>2, <1>3, <1>4
    <3>2. IsVector(<<>>) /\ Range(<<>>) = {}
      BY VectorNone
    <3>3. PICK k : k = from
      OBVIOUS
    <3>4. output' = SubSeq(output, 1, k) \o <<>>
      <4>1. output' = SubSeq(output, 1, k)
        BY <1>1, <2>3, <3>3
      <4>2. IsVector(SubSeq(output, 1, k))
        BY <1>2, <3>1, <3>3, VectorCut
      <4> QED BY <4>1, <4>2, ConcatEmptySeq DEF IsVector
    <3>5. \A i \in DOMAIN output : i > k => output[i].op # "work"
      <4>1. \A i \in DOMAIN output : i > k => i = from + 1
        BY <1>2, <1>3, <1>4, <2>3, <3>3
      <4> QED BY <1>4, <4>1
    <3>6. /\ IsVector(output') /\ WorkKept(output, output')
          /\ Range(output') \subseteq Range(output)
          /\ \A c : (MarkSet(c, output) /\ c.from \in Nat /\ c.from < k) => MarkSet(c, output')
      BY <1>2, <3>1, <3>2, <3>3, <3>4, <3>5, MarksCut
    <3> QED BY <1>5, <3>3, <3>6 DEF MarkSet
  <2> QED BY <2>1, <2>2, <2>3
<1>8. \A c \in {} \cup Others : MarkSet(c, output') /\ HollowQuiet(c, output')
  BY <1>5, <1>7 DEF HollowQuiet
<1>9. FrontTurn({})
  <2>1. FoundFrom(OpenedIn(emitted, {Current}), {})
    BY FoundNext
  <2>2. OpenedIn(emitted', {}) = OpenedIn(emitted, {Current}) \cup {}
    BY <1>1, <1>2 DEF OpenedIn, Opened
  <2> QED BY <2>1, <2>2 DEF FrontTurn
<1>10. CaredTurn({})
  <2>1. Due(Current) = {}
    BY <1>2 DEF Due
  <2>2. (\A t \in emitted : Counted(t, output, Range(calls))) /\ Counted(b, output, Range(calls))
    BY <1>2 DEF EmitInv, AllCounted
  <2> QED BY <1>1, <2>1, <2>2 DEF CaredTurn
<1>11. emitted' \subseteq Live /\ emitted \subseteq emitted'
  BY <1>1, <1>2
<1>13. \A h : HasIf(h, output') => HasIf(h, output)
  BY <1>7, <1>12 DEF HasIf
<1> QED BY <1>6, <1>7, <1>8, <1>9, <1>10, <1>11, <1>13, TurnKeeps DEF FrontTurn, CaredTurn

\* A block that is printed as a conditional.
LEMMA StepAsIf == EmitInv /\ AsIf => EmitInv'
<1> SUFFICES ASSUME EmitInv, AsIf PROVE EmitInv'
  OBVIOUS
<1> DEFINE b == Current.at
           x == [Current EXCEPT !.method = "if"]
           N == {x}
<1>1. /\ Running("arm") /\ IsIf(b) /\ output' = output /\ emitted' = emitted
      /\ calls' = <<x>> \o Tail(calls) /\ UNCHANGED <<allVars, walk, pending, queued, targets>>
  BY DEF AsIf, KeepWalk
<1>2. /\ calls # <<>> /\ Current \in Calls /\ Current.method = "arm" /\ b \in Live
      /\ emitted \subseteq Live
  BY <1>1, RunningIs
<1>3. x \in Calls /\ x.method = "if" /\ x.at = b
  <2>1. /\ x.method = "if" /\ x.at = b
        /\ x \in [method : Methods, at : Live, loop : cfg.blocks \cup {NoBlock},
                  from : Nat, mid : Nat, rest : Seq(Live)]
    BY <1>2 DEF Calls, Methods
  <2> HIDE DEF x
  <2> QED BY <1>1, <2>1 DEF Calls
<1> HIDE DEF x
<1>4. Turn(N)
  BY <1>1, <1>2, <1>3, OneTurn DEF Marked
<1>5. FrontTurn(N)
  <2>1. FoundFrom(OpenedIn(emitted, {Current}), {})
    BY FoundNext
  <2>2. OpenedIn(emitted', N) = OpenedIn(emitted, {Current}) \cup {}
    BY <1>1, <1>2, <1>3 DEF OpenedIn, Opened
  <2> QED BY <1>3, <2>1, <2>2 DEF FrontTurn
<1>6. CaredTurn(N)
  <2>1. \A t \in emitted : Counted(t, output, Range(calls))
    BY DEF EmitInv, AllCounted
  <2>2. Due(Current) = {b} /\ Due(x) = {b}
    BY <1>2, <1>3 DEF Due
  <2> QED BY <1>1, <1>3, <2>1, <2>2 DEF CaredTurn, Cared
<1>7. \A c \in N : ~Marked(c)
  BY <1>3 DEF Marked
<1> HIDE DEF N
<1> QED BY <1>1, <1>2, <1>4, <1>5, <1>6, <1>7, SilentKeeps

\* A block that heads no conditional.
LEMMA StepAsBlock == EmitInv /\ AsBlock => EmitInv'
<1> SUFFICES ASSUME EmitInv, AsBlock PROVE EmitInv'
  OBVIOUS
<1> DEFINE b == Current.at
           x == Controlled(b, Current.loop, NoBlock)
<1>1. /\ Running("arm") /\ output' = output \o x /\ emitted' = emitted \cup {b}
      /\ calls' = Tail(calls) /\ UNCHANGED <<allVars, walk, pending, queued, targets>>
  BY DEF AsBlock, KeepWalk
<1>2. /\ calls # <<>> /\ Current \in Calls /\ Current.method = "arm" /\ b \in Live
      /\ emitted \subseteq Live /\ IsVector(output)
  BY <1>1, RunningIs
<1>3. Turn({})
  BY <1>1, <1>2, PopTurn
<1>4. Tells(x, {b})
  BY ControlledPrints
<1> HIDE DEF x
<1>5. Told(b, output')
  BY <1>1, <1>2, <1>4, TellsTold
<1>6. FrontTurn({})
  <2>1. FoundFrom(OpenedIn(emitted, {Current}), {})
    BY FoundNext
  <2>2. OpenedIn(emitted', {}) = OpenedIn(emitted, {Current}) \cup {}
    BY <1>1, <1>2 DEF OpenedIn, Opened
  <2> QED BY <2>1, <2>2 DEF FrontTurn
<1>7. CaredTurn({})
  <2>1. \A t \in emitted : Counted(t, output, Range(calls))
    BY DEF EmitInv, AllCounted
  <2>2. Due(Current) = {b}
    BY <1>2 DEF Due
  <2> QED BY <1>1, <1>5, <2>1, <2>2 DEF CaredTurn, Cared
<1>8. emitted' \subseteq Live /\ emitted \subseteq emitted' /\ IsVector(x) /\ NoIf(x)
  BY <1>1, <1>2, <1>4 DEF Tells
<1> QED BY <1>1, <1>3, <1>6, <1>7, <1>8, AppendKeeps

\* The blocks of a recovered switch are found from its first conditional.
LEMMA SwitchFound ==
    ASSUME EmitInv, NEW b \in Live, NEW q \in Ladders(b)
    PROVE  FoundFrom({b}, SwitchBlocks(q)) /\ Range(q) \subseteq SwitchBlocks(q)
           /\ \A t \in SwitchBlocks(q) : t \in Range(q) \/ \E h \in Range(q) : t \in Succs(cfg, h)
<1> DEFINE Heads == {x \in cfg.blocks : IsIf(x)}
           cases == Cases(q)
           U == Default(q) \cup UNION {IfAt(cases[i]).then_blocks : i \in DOMAIN cases}
<1>1. q \in Seq(Heads) /\ q # <<>> /\ FoundFrom({b}, Range(q))
  BY DEF Ladders
<1>2. Len(q) \in Nat \ {0} /\ \A i \in 1..Len(q) : q[i] \in Heads
  <2>1. Len(q) \in Nat /\ \A i \in 1..Len(q) : q[i] \in Heads
    BY <1>1, LenProperties, ElementOfSeq
  <2>2. Len(q) # 0
    BY <1>1, EmptySeq
  <2> QED BY <2>1, <2>2
<1>3. DOMAIN q = 1..Len(q)
  BY <1>1, LenProperties
<1>4. \A i \in DOMAIN cases : cases[i] \in Range(q)
  <2> DEFINE K == {h \in Range(q) : \A i \in DOMAIN q :
                      cfg.test[q[i]] = cfg.test[h] => \E j \in 1..i : q[j] = h}
  <2>1. cases = Kept(q, K)
    BY DEF Cases
  <2>2. cases \in Seq(Heads) /\ Range(cases) = Range(q) \cap K
    <3> HIDE DEF K
    <3> QED BY <1>1, <2>1, KeptRange
  <2> QED BY <2>2 DEF Range
<1>5. Last(q) \in Range(q) /\ \A h \in Range(q) : IsIf(h)
  BY <1>2, <1>3 DEF Last, Range
<1>6. \A h \in Range(q) : /\ IfAt(h).then_blocks \subseteq Succs(cfg, h)
                          /\ IfAt(h).else_blocks \subseteq Succs(cfg, h)
  BY <1>5, IfAtIs DEF EmitInv
<1>7. \A t \in U : \E h \in Range(q) : t \in Succs(cfg, h)
  BY <1>4, <1>5, <1>6 DEF Default
<1>8. SwitchBlocks(q) = Range(q) \cup U
  BY DEF SwitchBlocks
<1> HIDE DEF U
<1>9. FoundFrom({b}, Range(q) \cup U)
  BY <1>1, <1>7, FoundMore
<1> QED BY <1>7, <1>8, <1>9

\* A conditional that is printed as a switch.
LEMMA StepAsSwitch == EmitInv /\ AsSwitch => EmitInv'
<1> SUFFICES ASSUME EmitInv, AsSwitch PROVE EmitInv'
  OBVIOUS
<1> DEFINE b == Current.at
<1>1. PICK q \in {Chain(b)} :
         /\ IsSwitchChain(q)
         /\ output' = output \o RecoveredSwitch(q, Current.loop)
         /\ emitted' = emitted \cup SwitchBlocks(q)
  BY DEF AsSwitch
<1>2. /\ Running("arm") /\ IsIf(b)
      /\ calls' = Tail(calls) /\ UNCHANGED <<allVars, walk, pending, queued, targets>>
  BY DEF AsSwitch, KeepWalk
<1>3. /\ calls # <<>> /\ Current \in Calls /\ Current.method = "arm" /\ b \in Live
      /\ emitted \subseteq Live /\ IsVector(output) /\ Analysed
  BY <1>2, RunningIs
<1>4. /\ IsFlowGraph(cfg) /\ b \in cfg.blocks /\ cfg.entry \in cfg.blocks
  BY <1>3, LiveIsBlocks DEF IsFlowGraph
<1>5. q \in Ladders(b)
  BY <1>2, <1>3, <1>4, ChainShape
<1>6. Turn({})
  BY <1>2, <1>3, PopTurn
<1> DEFINE x == RecoveredSwitch(q, Current.loop)
           T == SwitchBlocks(q)
<1>7. Tells(x, T)
  BY <1>1, <1>3, <1>4, <1>5, SwitchPrints
<1>8. /\ FoundFrom({b}, T) /\ Range(q) \subseteq T
      /\ \A t \in T : t \in Range(q) \/ \E h \in Range(q) : t \in Succs(cfg, h)
  BY <1>3, <1>5, SwitchFound
<1>9. T \subseteq Live
  <2>1. \A y \in Live : Succs(cfg, y) \subseteq Live
    BY <1>4, ReachIsLeast DEF Live
  <2> QED BY <1>3, <1>8, <2>1 DEF FoundFrom
<1>10. b \in T
  <2>1. q \in Seq({y \in cfg.blocks : IsIf(y)}) /\ q # <<>> /\ q[1] = b
    BY <1>5 DEF Ladders
  <2>2. Len(q) \in Nat /\ DOMAIN q = 1..Len(q)
    BY <2>1, LenProperties
  <2>3. Len(q) # 0
    BY <2>1, EmptySeq
  <2>4. b \in Range(q)
    BY <2>1, <2>2, <2>3 DEF Range
  <2> QED BY <1>8, <2>4
<1> HIDE DEF x, T
<1>11. \A t \in T : Told(t, output')
  BY <1>1, <1>3, <1>7, TellsTold DEF x, T
<1>12. FrontTurn({})
  <2>1. OpenedIn(emitted, {Current}) = emitted \cup {b}
    BY <1>3 DEF OpenedIn, Opened
  <2>2. FoundFrom(OpenedIn(emitted, {Current}), T)
    BY <1>8, <2>1, FoundWider
  <2>3. OpenedIn(emitted', {}) = OpenedIn(emitted, {Current}) \cup T
    BY <1>1, <1>10, <2>1 DEF OpenedIn, T
  <2> QED BY <2>2, <2>3 DEF FrontTurn
<1>13. CaredTurn({})
  <2>1. \A t \in emitted : Counted(t, output, Range(calls))
    BY DEF EmitInv, AllCounted
  <2>2. Due(Current) = {b}
    BY <1>3 DEF Due
  <2> QED BY <1>1, <1>10, <1>11, <2>1, <2>2 DEF CaredTurn, Cared, T
<1>14. emitted' \subseteq Live /\ emitted \subseteq emitted' /\ IsVector(x) /\ NoIf(x)
  BY <1>1, <1>3, <1>7, <1>9 DEF Tells, T
<1>15. output' = output \o x
  BY <1>1 DEF x
<1> QED BY <1>6, <1>12, <1>13, <1>14, <1>15, AppendKeeps

\* The loop a block is the header of.
LEMMA LoopIs ==
    ASSUME EmitInv, stage = "end", NEW b \in Live, IsLoop(b)
    PROVE  LET l == LoopAt(b)
           IN  /\ l \in loops /\ l \in Loop /\ l.header = b /\ b \in l.body /\ l.body \subseteq Live
               /\ BodyOrder(l) \in Seq(l.body) /\ l.body \subseteq {b} \cup Range(BodyOrder(l))
<1> DEFINE l == LoopAt(b)
<1>1. /\ l \in loops /\ l \in Loop /\ l.header = b /\ phase = "done" /\ Built /\ Analysed
  BY LoopAtIs, AnalysisOver DEF EmitInv, Analysed
<1> HIDE DEF l
<1>2. l.body \subseteq Live /\ l.header \in l.body
  <2> DEFINE X == l.body \cup {l.header}
  <2>1. l.header \in X /\ \A x \in X \cap l.body : Succs(cfg, x) \cap l.body \subseteq X
    OBVIOUS
  <2> HIDE DEF X
  <2> QED BY <1>1, <2>1, BodyFromHeader
<1>3. BodyOrder(l) \in Seq(l.body) /\ l.body \subseteq {l.header} \cup Range(BodyOrder(l))
  BY <1>1, BodyOrderShape
<1> QED BY <1>1, <1>2, <1>3 DEF l

\* A loop with nothing left to print.
LEMMA StepLoopOmitted == EmitInv /\ LoopOmitted => EmitInv'
<1> SUFFICES ASSUME EmitInv, LoopOmitted PROVE EmitInv'
  OBVIOUS
<1> DEFINE b == Current.at
           l == LoopAt(b)
           x == Body(b, TRUE, NoBlock)
<1>1. /\ Running("loop") /\ ~HasUnemittedBody(l) /\ output' = output \o Body(l.header, TRUE, NoBlock)
      /\ emitted' = emitted \cup l.body
      /\ calls' = Tail(calls) /\ UNCHANGED <<allVars, walk, pending, queued, targets>>
  BY DEF LoopOmitted, KeepWalk
<1>2. /\ calls # <<>> /\ Current \in Calls /\ Current.method = "loop" /\ b \in Live
      /\ emitted \subseteq Live /\ IsVector(output) /\ stage = "end"
  BY <1>1, RunningIs, CurrentIs DEF EmitInv
<1>3. l.header = b /\ b \in l.body /\ l.body \subseteq Live
  BY <1>2, LoopIs DEF Calls
<1>4. Turn({})
  BY <1>1, <1>2, PopTurn
<1>5. Tells(x, {b}) /\ output' = output \o x
  BY <1>1, <1>3, BodyPrints
<1> HIDE DEF x
<1>6. Told(b, output')
  BY <1>2, <1>5, TellsTold
<1>7. \A t \in l.body \ {b} : t \in emitted \/ Silent(t)
  BY <1>1, <1>3 DEF HasUnemittedBody, Silent, Shows
<1>8. FrontTurn({})
  <2>1. FoundFrom(OpenedIn(emitted, {Current}), {})
    BY FoundNext
  <2>2. OpenedIn(emitted', {}) = OpenedIn(emitted, {Current}) \cup {}
    BY <1>1, <1>2 DEF OpenedIn, Opened
  <2> QED BY <2>1, <2>2 DEF FrontTurn
<1>9. CaredTurn({})
  <2>1. \A t \in emitted : Counted(t, output, Range(calls))
    BY DEF EmitInv, AllCounted
  <2>2. Due(Current) = {b}
    BY <1>2 DEF Due
  <2>3. \A t : Silent(t) => Told(t, output')
    BY DEF Told
  <2> HIDE DEF l
  <2> QED BY <1>1, <1>6, <1>7, <2>1, <2>2, <2>3 DEF CaredTurn, Cared
<1>10. emitted' \subseteq Live /\ emitted \subseteq emitted' /\ IsVector(x) /\ NoIf(x)
  BY <1>1, <1>2, <1>3, <1>5 DEF Tells
<1> QED BY <1>4, <1>5, <1>8, <1>9, <1>10, AppendKeeps

\* The header of a loop that prints nothing has no statement to print.
LEMMA HollowHeader ==
    ASSUME NEW l, IsHollow(l)
    PROVE  ~Shows(l.header)
  BY DEF IsHollow, MayEmit, Shows

\* The header of a loop.
LEMMA StepLoopHead == EmitInv /\ LoopHead => EmitInv'
<1> SUFFICES ASSUME EmitInv, LoopHead PROVE EmitInv'
  OBVIOUS
<1> DEFINE b == Current.at
           l == LoopAt(b)
           n == Len(output)
           first == Line("while", b)
           x == Body(b, TRUE, NoBlock)
           y == <<first>> \o x
           body == [Current EXCEPT !.method = "body", !.from = n, !.rest = BodyOrder(l)]
           N == {body}
<1>1. /\ Running("loop")
      /\ output' = output \o <<Line("while", l.header)>> \o Body(l.header, TRUE, NoBlock)
      /\ calls' = <<body>> \o Tail(calls) /\ emitted' = emitted
      /\ UNCHANGED <<allVars, walk, pending, queued, targets>>
  BY DEF LoopHead, KeepWalk
<1>2. /\ calls # <<>> /\ Current \in Calls /\ Current.method = "loop" /\ b \in Live
      /\ emitted \subseteq Live /\ IsVector(output) /\ stage = "end"
  BY <1>1, RunningIs, CurrentIs DEF EmitInv
<1>3. IsLoop(b)
  BY <1>2 DEF Calls
<1>4. /\ l.header = b /\ b \in l.body /\ l.body \subseteq Live
      /\ BodyOrder(l) \in Seq(l.body) /\ l.body \subseteq {b} \cup Range(BodyOrder(l))
  BY <1>2, <1>3, LoopIs
<1>5. n \in Nat /\ DOMAIN output = 1..n
  BY <1>2, VectorShape
<1>6. /\ body \in Calls /\ body.method = "body" /\ body.at = b /\ body.from = n
      /\ body.rest = BodyOrder(l)
  <2>1. BodyOrder(l) \in Seq(Live)
    <3> HIDE DEF l
    <3> QED BY <1>4, SeqMonotonic
  <2>2. /\ body.method = "body" /\ body.at = b /\ body.from = n /\ body.rest = BodyOrder(l)
        /\ body \in [method : Methods, at : Live, loop : cfg.blocks \cup {NoBlock},
                  from : Nat, mid : Nat, rest : Seq(Live)]
    <3> HIDE DEF l
    <3> QED BY <1>2, <1>5, <2>1 DEF Calls, Methods
  <2> HIDE DEF body
  <2> QED BY <1>3, <2>2 DEF Calls
<1> HIDE DEF body
<1>7. Opened(body) = l.body /\ Opened(Current) = l.body /\ Due(body) = {} /\ Due(Current) = {b}
  BY <1>2, <1>6 DEF Opened, Due
<1>8. Tells(x, {b}) /\ TellsOnly(x, {b}) /\ IsVector(<<first>>) /\ first.op = "while"
  BY BodyPrints, VectorOne DEF Line
<1>9. output' = (output \o <<first>>) \o x
  BY <1>1, <1>4
<1> HIDE DEF x, first, l
<1>10. /\ IsVector(y) /\ Range(y) = {first} \cup Range(x) /\ Len(y) \in Nat /\ Len(y) >= 1
       /\ y[1] = first /\ DOMAIN y = 1..Len(y) /\ Tells(y, {b}) /\ NoIf(y)
  <2>1. Len(<<first>>) = 1 /\ Range(<<first>>) = {first} /\ <<first>>[1] = first
    BY VectorOne
  <2>2. IsVector(x)
    BY <1>8 DEF Tells
  <2>3. IsVector(y) /\ Range(y) = {first} \cup Range(x) /\ Len(y) = 1 + Len(x) /\ y[1] = first
    BY <1>8, <2>1, <2>2, VectorConcat
  <2> HIDE DEF y
  <2>4. Len(x) \in Nat /\ DOMAIN y = 1..Len(y)
    BY <2>2, <2>3, VectorShape
  <2>5. NoIf(y)
    BY <1>8, <2>3 DEF Tells, NoIf
  <2> QED BY <1>8, <2>3, <2>4, <2>5 DEF Tells
<1>11. output' = output \o y
  BY <1>2, <1>8, <1>9, VectorAssoc DEF Tells
<1> HIDE DEF y
<1>12. Told(b, output')
  BY <1>2, <1>10, <1>11, TellsTold
<1>13. /\ IsVector(output') /\ Len(output') = n + Len(y)
       /\ \A i \in 1..Len(y) : output'[n + i] = y[i]
  BY <1>2, <1>10, <1>11, VectorConcat
<1>14. DOMAIN output' = 1..Len(output')
  BY <1>13, VectorShape
<1>15. MarkSet(body, output')
  <2>1. n + 1 \in DOMAIN output' /\ output'[n + 1] = first
    BY <1>5, <1>10, <1>13, <1>14
  <2> QED BY <1>6, <1>8, <2>1 DEF MarkSet
<1>16. HollowQuiet(body, output')
  <2> SUFFICES ASSUME HollowCall(body), NEW i \in DOMAIN output', i > n
               PROVE  output'[i].op # "work"
    BY <1>6 DEF HollowQuiet
  <2>1. ~Shows(b)
    BY <1>4, <1>6, HollowHeader DEF HollowCall, l
  <2>2. PICK k \in 1..Len(y) : output'[i] = y[k]
    <3> DEFINE j == i - n
    <3>1. j \in 1..Len(y) /\ n + j = i
      BY <1>5, <1>10, <1>13, <1>14
    <3> QED BY <1>13, <3>1
  <2>3. output'[i] \in Range(y)
    BY <1>10, <2>2 DEF Range
  <2> QED BY <1>8, <1>10, <2>1, <2>3 DEF TellsOnly
<1>17. Turn(N)
  BY <1>1, <1>2, <1>5, <1>6, MarkTurn
<1>18. FrontTurn(N)
  <2>1. FoundFrom(OpenedIn(emitted, {Current}), {})
    BY FoundNext
  <2>2. OpenedIn(emitted', N) = OpenedIn(emitted, {Current}) \cup {}
    BY <1>1, <1>7 DEF OpenedIn
  <2> QED BY <1>6, <2>1, <2>2 DEF FrontTurn
<1>19. CaredTurn(N)
  <2>1. \A t \in emitted : Counted(t, output, Range(calls))
    BY DEF EmitInv, AllCounted
  <2>2. \A t \in LoopAt(body.at).body : t \in Range(body.rest) \/ t = b
    BY <1>4, <1>6 DEF l
  <2> QED BY <1>1, <1>6, <1>7, <1>12, <2>1, <2>2 DEF CaredTurn, Cared
<1>20. \A c \in N : Marked(c) => MarkSet(c, output') /\ HollowQuiet(c, output')
  BY <1>15, <1>16
<1> HIDE DEF N
<1> QED BY <1>1, <1>2, <1>10, <1>11, <1>17, <1>18, <1>19, <1>20, AppendKeeps

\* A call goes on with the rest of its blocks.
LEMMA RestCall ==
    ASSUME EmitInv, NEW m \in {"body", "region", "roots"}, Running(m), Current.rest # <<>>
    PROVE  LET x == [Current EXCEPT !.rest = Tail(Current.rest)]
           IN  /\ x \in Calls /\ x.method = m /\ x.at = Current.at /\ x.from = Current.from
               /\ Range(Current.rest) = {NextOfBody} \cup Range(x.rest)
               /\ NextOfBody \in Live
               /\ RestOfBody = <<x>> \o Tail(calls)
<1> DEFINE x == [Current EXCEPT !.rest = Tail(Current.rest)]
           r == Current.rest
<1>1. /\ Current \in Calls /\ Current.method = m /\ r \in Seq(Live)
  BY RunningIs
<1>2. IsVector(r) /\ Range(r) \subseteq Live
  BY <1>1, VectorIs
<1>3. /\ Head(r) \in Range(r) /\ Range(r) = {Head(r)} \cup Range(Tail(r)) /\ IsVector(Tail(r))
  BY <1>2, VectorSplit
<1>4. Tail(r) \in Seq(Live)
  BY <1>2, <1>3, VectorOver
<1>5. /\ x.method = m /\ x.at = Current.at /\ x.from = Current.from /\ x.rest = Tail(r)
      /\ x \in [method : Methods, at : Live, loop : cfg.blocks \cup {NoBlock},
                from : Nat, mid : Nat, rest : Seq(Live)]
  <2> HIDE DEF r
  <2> QED BY <1>1, <1>4 DEF Calls, r
<1>6. RestOfBody = <<x>> \o Tail(calls)
  BY DEF RestOfBody
<1> HIDE DEF x, r
<1>7. x \in Calls
  BY <1>1, <1>3, <1>5 DEF Calls, r
<1> QED BY <1>2, <1>3, <1>5, <1>6, <1>7 DEF NextOfBody, x, r

\* A loop's body goes on.
LEMMA BodyGoesOn ==
    ASSUME EmitInv, InLoopBody
    PROVE  LET l == LoopAt(Current.at)
               x == [Current EXCEPT !.rest = Tail(Current.rest)]
           IN  /\ calls # <<>> /\ l \in loops /\ l.header = Current.at
               /\ l.body \subseteq Live /\ Current.at \in Live
               /\ NextOfBody \in l.body \cap Range(BodyOrder(l))
               /\ x \in Calls /\ x.method = "body" /\ x.at = Current.at /\ x.from = Current.from
               /\ x.from \in Nat /\ Marked(Current)
               /\ Opened(x) = l.body /\ Opened(Current) = l.body /\ Due(x) = {} /\ Due(Current) = {}
               /\ RestOfBody = <<x>> \o Tail(calls)
               /\ \A t \in l.body : \/ t \in Range(x.rest) \/ t = NextOfBody
                                    \/ Counted(t, output, Range(calls))
               /\ Counted(Current.at, output, Range(calls))
               /\ MarkSet(x, output)
               /\ HollowCall(x) <=> IsHollow(l)
               /\ HollowCall(x) => \A i \in DOMAIN output : i > x.from => output[i].op # "work"
<1> DEFINE b == Current.at
           l == LoopAt(b)
           x == [Current EXCEPT !.rest = Tail(Current.rest)]
<1>1. /\ Running("body") /\ Current.rest # <<>>
  BY DEF InLoopBody
<1>2. /\ calls # <<>> /\ Current \in Calls /\ Current.method = "body" /\ b \in Live
      /\ stage = "end" /\ Current \in Range(calls) /\ Current.from \in Nat
  BY <1>1, RunningIs, CurrentIs DEF EmitInv
<1>3. IsLoop(b) /\ Range(Current.rest) \subseteq Range(BodyOrder(l))
  BY <1>2 DEF Calls
<1>4. /\ l \in loops /\ l.header = b /\ b \in l.body /\ l.body \subseteq Live
      /\ BodyOrder(l) \in Seq(l.body)
  BY <1>2, <1>3, LoopIs
<1> HIDE DEF l
<1>5. /\ x \in Calls /\ x.method = "body" /\ x.at = b /\ x.from = Current.from
      /\ Range(Current.rest) = {NextOfBody} \cup Range(x.rest)
      /\ RestOfBody = <<x>> \o Tail(calls)
  BY <1>1, RestCall
<1> HIDE DEF x
<1>6. Range(BodyOrder(l)) \subseteq l.body
  BY <1>4, VectorIs
<1>7. NextOfBody \in l.body \cap Range(BodyOrder(l))
  BY <1>3, <1>5, <1>6
<1>8. /\ \A t \in l.body : t \in Range(Current.rest) \/ Counted(t, output, Range(calls))
      /\ Counted(b, output, Range(calls))
  BY <1>2 DEF EmitInv, AllCounted, l
<1>9. Opened(x) = l.body /\ Opened(Current) = l.body /\ Due(x) = {} /\ Due(Current) = {}
  BY <1>2, <1>5 DEF Opened, Due, l
<1>10. MarkSet(Current, output) /\ HollowQuiet(Current, output)
  BY <1>2, OthersWait
<1>11. MarkSet(x, output) /\ Marked(Current)
  BY <1>2, <1>5, <1>10 DEF MarkSet, Marked
<1>12. (HollowCall(x) <=> IsHollow(l)) /\ (HollowCall(Current) <=> IsHollow(l))
  BY <1>2, <1>5 DEF HollowCall, l
<1>13. HollowCall(x) => \A i \in DOMAIN output : i > x.from => output[i].op # "work"
  BY <1>5, <1>10, <1>12 DEF HollowQuiet
<1> QED BY <1>2, <1>4, <1>5, <1>7, <1>8, <1>9, <1>11, <1>12, <1>13 DEF l, x

\* What the search of emit_loop does not find is behind a block that can leave
\* the loop, or a branch of a conditional both of whose branches turn away.
LEMMA LeftOut ==
    ASSUME EmitInv, NEW l \in loops, NEW n \in l.body, n # l.header, n \notin LoopReachable(l)
    PROVE  n \notin Unbroken(l) \/ Stray(n)
<1> DEFINE h == l.header
           body == l.body
           R == LoopReachable(l)
           away(a, x) == IsIf(x) /\ a \in Arms(IfAt(x)) /\ TurnsAway(l, IfAt(x))
           S == {a \in body : \E x \in cfg.blocks : away(a, x)}
           X == {h} \cup R \cup S
           next == [x \in body |-> IF x \in Exits(l) THEN {} ELSE Succs(cfg, x) \cap body]
<1>1. /\ IsFlowGraph(cfg) /\ body \subseteq cfg.blocks /\ h \in body /\ IsFiniteSet(body)
      /\ Analysed
  <2>1. l \in Loop /\ IsFlowGraph(cfg) /\ Analysed
    BY DEF EmitInv, Analysed, LoopsRight, Built, Dfs, DfsType
  <2>2. body \subseteq cfg.blocks /\ h \in body
    BY <2>1, BodyIsBlocks DEF Loop
  <2> QED BY <2>1, <2>2, FS_Subset DEF IsFlowGraph
<1>2. /\ InBody(l, Succs(cfg, h)) \subseteq R /\ R \subseteq body
      /\ \A x \in R : ~StopsAt(l, x) => Range(Onward(l, x)) \subseteq R
  <2> DEFINE go == [x \in body |-> IF StopsAt(l, x) THEN {} ELSE Range(Onward(l, x))]
             start == InBody(l, Succs(cfg, h))
             B == body
  <2>1. \A x : Range(Onward(l, x)) \subseteq body
    <3>1. \A x : Onward(l, x) \in Seq(body)
      BY <1>1, OnwardShape
    <3> QED BY <3>1, VectorIs
  <2>2. go \in [B -> SUBSET B] /\ start \in SUBSET B /\ IsFiniteSet(B)
    BY <1>1, <2>1 DEF InBody
  <2>3. R = Closure(start, go)
    BY DEF LoopReachable
  <2>4. \A x \in B : go[x] = IF StopsAt(l, x) THEN {} ELSE Range(Onward(l, x))
    OBVIOUS
  <2> HIDE DEF go, start, B, R
  <2>5. start \subseteq R /\ R \subseteq B /\ \A x \in R : go[x] \subseteq R
    BY <2>2, <2>3, ClosureIsLeast
  <2>6. \A x \in R : ~StopsAt(l, x) => Range(Onward(l, x)) \subseteq R
    BY <2>4, <2>5
  <2> QED BY <2>5, <2>6 DEF start, B
<1>3. \A x : InBody(l, Succs(cfg, x)) \subseteq Range(Onward(l, x))
  BY <1>1, OnwardShape
<1>4. ASSUME NEW x, cfg.succ[x] = <<h>> PROVE Succs(cfg, x) = {h}
  <2>1. Range(<<h>>) = {h}
    BY VectorOne
  <2> QED BY <1>4, <2>1 DEF Succs
<1> HIDE DEF R
<1>5. ASSUME NEW x \in X \cap body, x \notin Exits(l) PROVE Succs(cfg, x) \cap body \subseteq X
  <2>1. CASE x = h
    BY <1>2, <2>1 DEF InBody
  <2>2. CASE x # h
    <3>1. Succs(cfg, x) \subseteq body
      BY <1>5, <2>2 DEF Exits
    <3>2. CASE x \in S
      <4>1. PICK y \in cfg.blocks : away(x, y)
        BY <3>2
      <4>2. cfg.succ[x] = <<h>>
        BY <3>1, <4>1 DEF TurnsAway
      <4> QED BY <1>4, <4>2
    <3>3. CASE x \in R /\ ~StopsAt(l, x)
      BY <1>2, <1>3, <3>3 DEF InBody
    <3>4. CASE x \in R /\ Action(l, x) # "none"
      <4>1. cfg.succ[x] = <<h>>
        BY <3>1, <3>4 DEF Action
      <4> QED BY <1>4, <4>1
    <3>5. CASE /\ IsIf(x)
               /\ IfAt(x).then_blocks # {} /\ IfAt(x).else_blocks # {}
               /\ \A a \in Arms(IfAt(x)) : Action(l, a) # "none"
      <4>1. Succs(cfg, x) \subseteq Arms(IfAt(x)) /\ x \in cfg.blocks
        BY <1>1, <3>5, IfAtIs DEF Arms
      <4>2. TurnsAway(l, IfAt(x))
        BY <3>5 DEF TurnsAway, Action
      <4>3. \A a \in Succs(cfg, x) : away(a, x)
        BY <3>5, <4>1, <4>2
      <4> HIDE DEF away
      <4> QED BY <4>1, <4>3
    <3> QED BY <1>5, <2>2, <3>2, <3>3, <3>4, <3>5 DEF StopsAt
  <2> QED BY <2>1, <2>2
<1>6. Unbroken(l) \subseteq X
  <2> DEFINE B == body
             One == {h}
  <2>1. next \in [B -> SUBSET B] /\ One \in SUBSET B /\ IsFiniteSet(B) /\ One \subseteq X
    BY <1>1
  <2>2. \A x \in X \cap B : next[x] \subseteq X
    <3> SUFFICES ASSUME NEW x \in X \cap B PROVE next[x] \subseteq X
      OBVIOUS
    <3>1. next[x] = IF x \in Exits(l) THEN {} ELSE Succs(cfg, x) \cap body
      OBVIOUS
    <3>2. x \notin Exits(l) => Succs(cfg, x) \cap body \subseteq X
      BY <1>5
    <3> HIDE DEF next, X
    <3> QED BY <3>1, <3>2
  <2>3. Unbroken(l) = Closure(One, next)
    BY DEF Unbroken
  <2> HIDE DEF B, One, next, X
  <2> QED BY <2>1, <2>2, <2>3, ClosureIsLeast
<1>7. n \in S => Stray(n)
  BY DEF Stray
<1> HIDE DEF S
<1> QED BY <1>6, <1>7 DEF R

\* A block of a loop's body that is printed already or comes after its end.
LEMMA StepBodySkip == EmitInv /\ BodySkip => EmitInv'
<1> SUFFICES ASSUME EmitInv, BodySkip PROVE EmitInv'
  OBVIOUS
<1> DEFINE l == LoopAt(Current.at)
           x == [Current EXCEPT !.rest = Tail(Current.rest)]
           n == NextOfBody
           N == {x}
<1>1. /\ InLoopBody
      /\ emitted' = emitted \cup {n} /\ calls' = RestOfBody /\ output' = output
      /\ UNCHANGED <<allVars, walk, pending, queued, targets>>
  BY DEF BodySkip, KeepWalk
<1>2. /\ calls # <<>> /\ l \in loops /\ l.header = Current.at /\ l.body \subseteq Live /\ n \in l.body
      /\ x \in Calls /\ x.method = "body" /\ x.at = Current.at /\ x.from = Current.from
      /\ Marked(Current)
      /\ Opened(x) = l.body /\ Opened(Current) = l.body /\ Due(x) = {} /\ Due(Current) = {}
      /\ RestOfBody = <<x>> \o Tail(calls)
      /\ \A t \in l.body : t \in Range(x.rest) \/ t = n \/ Counted(t, output, Range(calls))
      /\ Counted(Current.at, output, Range(calls))
      /\ MarkSet(x, output)
      /\ HollowCall(x) => \A i \in DOMAIN output : i > x.from => output[i].op # "work"
  BY <1>1, BodyGoesOn
<1> HIDE DEF x, n
<1>3. Turn(N)
  BY <1>1, <1>2, OneTurn
<1>4. \A t \in emitted : Counted(t, output, Range(calls))
  BY DEF EmitInv, AllCounted
<1>5. Counted(n, output, Range(calls))
  <2>1. CASE n \in emitted
    BY <1>4, <2>1
  <2>2. CASE n \notin LoopReachable(l)
    <3>1. CASE n = l.header
      BY <1>2, <3>1
    <3>2. CASE n # l.header
      <4>1. n \notin Unbroken(l) \/ Stray(n)
        BY <1>2, <2>2, <3>2, LeftOut
      <4>2. Silent(n) \/ Stray(n)
        BY <1>2, <4>1 DEF Silent
      <4> QED BY <4>2 DEF Counted, Cared, Told
    <3> QED BY <3>1, <3>2
  <2>3. n \in emitted \/ n \notin LoopReachable(l)
    BY DEF BodySkip, n
  <2> QED BY <2>1, <2>2, <2>3
<1>6. FrontTurn(N)
  <2>1. FoundFrom(OpenedIn(emitted, {Current}), {})
    BY FoundNext
  <2>2. OpenedIn(emitted', N) = OpenedIn(emitted, {Current}) \cup {}
    BY <1>1, <1>2 DEF OpenedIn
  <2> QED BY <1>2, <2>1, <2>2 DEF FrontTurn
<1>7. CaredTurn(N)
  <2>1. LoopAt(x.at) = l
    BY <1>2
  <2> HIDE DEF l
  <2> QED BY <1>1, <1>2, <1>4, <1>5, <2>1 DEF CaredTurn
<1>8. emitted' \subseteq Live /\ emitted \subseteq emitted'
  BY <1>1, <1>2 DEF EmitInv, EmitType
<1>9. \A c \in N : Marked(c) => MarkSet(c, output) /\ HollowQuiet(c, output)
  BY <1>2 DEF HollowQuiet
<1>10. output' = output
  BY <1>1
<1> HIDE DEF N
<1> QED BY <1>3, <1>6, <1>7, <1>8, <1>9, <1>10, SilentKeeps

\* A block of a loop's body that begins a structure of its own.
LEMMA StepBodyNested == EmitInv /\ BodyNested => EmitInv'
<1> SUFFICES ASSUME EmitInv, BodyNested PROVE EmitInv'
  OBVIOUS
<1> DEFINE b == Current.at
           l == LoopAt(b)
           x == [Current EXCEPT !.rest = Tail(Current.rest)]
           n == NextOfBody
           k == LoopAt(n)
           S == OpenedIn(emitted, {Current})
<1>1. /\ InLoopBody /\ n \in LoopReachable(l)
      /\ emitted' = emitted /\ output' = output
      /\ UNCHANGED <<allVars, walk, pending, queued, targets>>
      /\ \/ IsLoop(n) /\ calls' = <<Call("loop", n, NoBlock)>> \o RestOfBody
         \/ IsIf(n) /\ calls' = <<Call("if", n, b)>> \o RestOfBody
  BY DEF BodyNested, IsNextInBody, KeepWalk
<1>2. /\ calls # <<>> /\ l \in loops /\ l.body \subseteq Live /\ b \in Live
      /\ n \in l.body /\ n \in Range(BodyOrder(l))
      /\ x \in Calls /\ x.method = "body" /\ x.at = Current.at /\ x.from = Current.from
      /\ Marked(Current)
      /\ Opened(x) = l.body /\ Opened(Current) = l.body /\ Due(x) = {} /\ Due(Current) = {}
      /\ RestOfBody = <<x>> \o Tail(calls)
      /\ \A t \in l.body : t \in Range(x.rest) \/ t = n \/ Counted(t, output, Range(calls))
      /\ Counted(Current.at, output, Range(calls))
      /\ MarkSet(x, output)
      /\ HollowCall(x) <=> IsHollow(l)
      /\ HollowCall(x) => \A i \in DOMAIN output : i > x.from => output[i].op # "work"
  BY <1>1, BodyGoesOn
<1>3. ~HollowCall(x)
  BY <1>1, <1>2 DEF IsHollow
<1> HIDE DEF x, n, k
<1>4. /\ IsFlowGraph(cfg) /\ Live \subseteq cfg.blocks /\ emitted \subseteq Live
      /\ stage = "end" /\ phase = "done" /\ Built
  BY <1>2, LiveIsBlocks, CurrentIs, AnalysisOver DEF EmitInv, EmitType, Analysed
<1>5. \A t \in emitted : Counted(t, output, Range(calls))
  BY DEF EmitInv, AllCounted
<1>6. S = emitted \cup l.body /\ S \subseteq Live
  BY <1>2, <1>4 DEF OpenedIn
<1> HIDE DEF S, l
<1>7. ASSUME NEW y \in Calls, y.method \in {"loop", "if"}, y.at = n, ~Marked(y),
             calls' = <<y>> \o RestOfBody,
             NEW T, Opened(y) \cup l.body = T \cup l.body, FoundFrom(S, T)
      PROVE  EmitInv'
  <2> DEFINE N == {y, x}
  <2>1. Turn(N)
    <3>1. calls' = <<y>> \o (<<x>> \o Tail(calls))
      BY <1>2, <1>7
    <3> QED BY <1>1, <1>2, <1>3, <1>7, <3>1, TwoTurn
  <2>2. FrontTurn(N)
    <3>1. OpenedIn(emitted', N) = OpenedIn(emitted, {Current}) \cup T
      BY <1>1, <1>2, <1>7 DEF OpenedIn
    <3> QED BY <1>2, <1>7, <3>1 DEF FrontTurn, S
  <2>3. CaredTurn(N)
    <3>1. n \in Due(y)
      BY <1>7 DEF Due
    <3>2. LoopAt(x.at) = l
      BY <1>2 DEF l
    <3> QED BY <1>1, <1>2, <1>5, <1>7, <3>1, <3>2 DEF CaredTurn, Cared
  <2>4. \A c \in N : Marked(c) => MarkSet(c, output) /\ HollowQuiet(c, output)
    BY <1>2, <1>7 DEF HollowQuiet
  <2> HIDE DEF N
  <2> QED BY <1>1, <1>4, <2>1, <2>2, <2>3, <2>4, SilentKeeps
<1>8. n \in Live /\ n \in S
  BY <1>2, <1>6
<1>9. CASE IsLoop(n) /\ calls' = <<Call("loop", n, NoBlock)>> \o RestOfBody
  <2> DEFINE y == Call("loop", n, NoBlock)
  <2>1. k \in Loop /\ k.header = n
    BY <1>4, <1>8, <1>9, LoopIs DEF k
  <2>2. FoundFrom(S, k.body)
    BY <1>4, <1>6, <1>8, <2>1, FoundLoop
  <2>3. y.method = "loop" /\ y.at = n /\ y \in Calls
    <3>1. <<>> \in Seq(Live)
      BY EmptySeq
    <3> QED BY <1>8, <1>9, <3>1 DEF Call, Calls, Methods
  <2> HIDE DEF y
  <2>4. Opened(y) = k.body /\ ~Marked(y)
    BY <2>3 DEF Opened, Marked, k
  <2> QED BY <1>7, <1>9, <2>2, <2>3, <2>4 DEF y
<1>10. CASE IsIf(n) /\ calls' = <<Call("if", n, b)>> \o RestOfBody
  <2> DEFINE y == Call("if", n, b)
  <2>1. FoundFrom(S, {})
    BY FoundNext
  <2>2. y.method = "if" /\ y.at = n /\ y \in Calls
    <3>1. <<>> \in Seq(Live)
      BY EmptySeq
    <3> QED BY <1>2, <1>4, <1>8, <1>10, <3>1 DEF Call, Calls, Methods
  <2> HIDE DEF y
  <2>3. Opened(y) = {n} /\ ~Marked(y)
    BY <2>2 DEF Opened, Marked
  <2>4. Opened(y) \cup l.body = {} \cup l.body
    BY <1>2, <2>3 DEF l
  <2> QED BY <1>7, <1>10, <2>1, <2>2, <2>3, <2>4 DEF y
<1> QED BY <1>1, <1>9, <1>10

\* Lines without statements are added to those of a loop that prints nothing.
LEMMA QuietAppend ==
    ASSUME NEW s, IsVector(s), NEW t, IsVector(t), \A x \in Range(t) : x.op # "work",
           NEW n \in Nat, \A i \in DOMAIN s : i > n => s[i].op # "work"
    PROVE  \A i \in DOMAIN (s \o t) : i > n => (s \o t)[i].op # "work"
<1> DEFINE r == s \o t
<1>1. /\ IsVector(r) /\ Len(r) = Len(s) + Len(t)
      /\ \A i \in 1..Len(s) : r[i] = s[i]
      /\ \A i \in 1..Len(t) : r[Len(s) + i] = t[i]
  BY VectorConcat
<1> HIDE DEF r
<1>2. /\ DOMAIN r = 1..Len(r) /\ DOMAIN s = 1..Len(s) /\ Len(s) \in Nat /\ Len(t) \in Nat
      /\ Range(t) = {t[i] : i \in 1..Len(t)}
  BY <1>1, VectorShape
<1>3. ASSUME NEW i \in DOMAIN r, i > n PROVE r[i].op # "work"
  <2>1. CASE i <= Len(s)
    <3>1. i \in DOMAIN s /\ i \in 1..Len(s)
      BY <1>2, <2>1
    <3> QED BY <1>1, <1>3, <3>1
  <2>2. CASE ~(i <= Len(s))
    <3> DEFINE j == i - Len(s)
    <3>1. j \in 1..Len(t) /\ Len(s) + j = i
      BY <1>1, <1>2, <2>2
    <3>2. r[i] = t[j]
      BY <1>1, <3>1
    <3> QED BY <1>2, <3>1, <3>2
  <2> QED BY <2>1, <2>2
<1> QED BY <1>3 DEF r

\* A block of a loop's body.
LEMMA StepBodyBlock == EmitInv /\ BodyBlock => EmitInv'
<1> SUFFICES ASSUME EmitInv, BodyBlock PROVE EmitInv'
  OBVIOUS
<1> DEFINE l == LoopAt(Current.at)
           x == [Current EXCEPT !.rest = Tail(Current.rest)]
           n == NextOfBody
           N == {x}
           implied == Action(l, n) = "continue" /\ IsLastEmittable(l, n)
           z == IF (n = l.latch /\ IsForLoop(l)) \/ implied
                THEN Body(n, TRUE, NoBlock)
                ELSE Controlled(n, l.header, FollowingInBody(l))
<1>1. /\ InLoopBody /\ n \in LoopReachable(l)
      /\ output' = output \o z
      /\ emitted' = emitted \cup {n} /\ calls' = RestOfBody
      /\ UNCHANGED <<allVars, walk, pending, queued, targets>>
  BY DEF BodyBlock, IsNextInBody, KeepWalk
<1>2. /\ calls # <<>> /\ l \in loops /\ l.body \subseteq Live
      /\ n \in l.body /\ n \in Range(BodyOrder(l))
      /\ x \in Calls /\ x.method = "body" /\ x.at = Current.at /\ x.from = Current.from
      /\ x.from \in Nat /\ Marked(Current)
      /\ Opened(x) = l.body /\ Opened(Current) = l.body /\ Due(x) = {} /\ Due(Current) = {}
      /\ RestOfBody = <<x>> \o Tail(calls)
      /\ \A t \in l.body : t \in Range(x.rest) \/ t = n \/ Counted(t, output, Range(calls))
      /\ Counted(Current.at, output, Range(calls))
      /\ MarkSet(x, output)
      /\ HollowCall(x) <=> IsHollow(l)
      /\ HollowCall(x) => \A i \in DOMAIN output : i > x.from => output[i].op # "work"
  BY <1>1, BodyGoesOn
<1>3. IsVector(output) /\ emitted \subseteq Live
  BY DEF EmitInv, EmitType
<1>4. Tells(z, {n}) /\ TellsOnly(z, {n})
  BY BodyPrints, ControlledPrints
<1>5. IsHollow(l) => ~Shows(n)
  <2> SUFFICES ASSUME IsHollow(l) PROVE ~Shows(n)
    OBVIOUS
  <2>1. ~MayEmit(n, TRUE) \/ ~MayEmit(n, FALSE)
    BY <1>1, <1>2 DEF IsHollow
  <2> QED BY <2>1 DEF MayEmit, Shows
<1> HIDE DEF x, n, z
<1>6. Told(n, output')
  BY <1>1, <1>3, <1>4, TellsTold
<1>7. IsVector(z) /\ NoIf(z) /\ IsVector(output') /\ MarkSet(x, output')
  BY <1>1, <1>2, <1>3, <1>4, MarksAppend DEF Tells
<1>8. HollowQuiet(x, output')
  <2> SUFFICES ASSUME HollowCall(x)
               PROVE  \A i \in DOMAIN output' : i > x.from => output'[i].op # "work"
    BY DEF HollowQuiet
  <2>1. \A y \in Range(z) : y.op # "work"
    BY <1>2, <1>4, <1>5 DEF TellsOnly
  <2>2. \A i \in DOMAIN output : i > x.from => output[i].op # "work"
    BY <1>2
  <2>3. x.from \in Nat
    BY <1>2
  <2>4. PICK m : m = x.from
    OBVIOUS
  <2>5. \A i \in DOMAIN (output \o z) : i > m => (output \o z)[i].op # "work"
    BY <1>3, <1>7, <2>1, <2>2, <2>3, <2>4, QuietAppend
  <2> QED BY <1>1, <2>4, <2>5
<1>9. Turn(N)
  BY <1>1, <1>2, OneTurn
<1>10. FrontTurn(N)
  <2>1. FoundFrom(OpenedIn(emitted, {Current}), {})
    BY FoundNext
  <2>2. OpenedIn(emitted', N) = OpenedIn(emitted, {Current}) \cup {}
    BY <1>1, <1>2 DEF OpenedIn
  <2> QED BY <1>2, <2>1, <2>2 DEF FrontTurn
<1>11. CaredTurn(N)
  <2>1. LoopAt(x.at) = l
    BY <1>2
  <2>2. \A t \in emitted : Counted(t, output, Range(calls))
    BY DEF EmitInv, AllCounted
  <2> HIDE DEF l
  <2> QED BY <1>1, <1>2, <1>6, <2>1, <2>2 DEF CaredTurn, Cared
<1>12. emitted' \subseteq Live /\ emitted \subseteq emitted'
  BY <1>1, <1>2, <1>3
<1>13. \A c \in N : Marked(c) => MarkSet(c, output') /\ HollowQuiet(c, output')
  BY <1>7, <1>8
<1>14. output' = output \o z
  BY <1>1
<1> HIDE DEF N
<1> QED BY <1>7, <1>9, <1>10, <1>11, <1>12, <1>13, <1>14, AppendKeeps

\* The end of a loop, taken back with its header when nothing was printed.
LEMMA StepLoopEnd == EmitInv /\ LoopEnd => EmitInv'
<1> SUFFICES ASSUME EmitInv, LoopEnd PROVE EmitInv'
  OBVIOUS
<1> DEFINE b == Current.at
           l == LoopAt(b)
           from == Current.from
           big == Cardinality(l.body) - 1 > ShellSize
           close == <<Line("close", l.header)>>
           more == <<Line("continue", l.header)>>
           x == Body(l.header, TRUE, NoBlock)
<1>1. /\ Running("body") /\ Current.rest = <<>>
      /\ output' = IF ~IsHollow(l) THEN output \o close
                   ELSE IF big THEN SubSeq(output, 1, from) \o x
                   ELSE output \o more \o close
      /\ emitted' = emitted \cup l.body
      /\ calls' = Tail(calls) /\ UNCHANGED <<allVars, walk, pending, queued, targets>>
  BY DEF LoopEnd, KeepWalk
<1>2. /\ calls # <<>> /\ Current \in Calls /\ Current.method = "body" /\ b \in Live
      /\ emitted \subseteq Live /\ IsVector(output) /\ stage = "end" /\ from \in Nat
      /\ Current \in Range(calls)
  BY <1>1, RunningIs, CurrentIs DEF EmitInv
<1>3. l.header = b /\ b \in l.body /\ l.body \subseteq Live
  BY <1>2, LoopIs DEF Calls
<1>4. \A t \in l.body : Counted(t, output, Range(calls))
  <2>1. Range(Current.rest) = {}
    BY <1>1, VectorNone
  <2> QED BY <1>2, <2>1 DEF EmitInv, AllCounted
<1>5. MarkSet(Current, output) /\ HollowQuiet(Current, output)
  BY <1>2, OthersWait
<1>6. \A c \in Others : /\ MarkSet(c, output) /\ ~HollowCall(c) /\ c.from \in Nat
                        /\ Marked(c) => c.from < from
  BY <1>2, OthersWait DEF Marked
<1>7. /\ IsVector(close) /\ IsVector(more) /\ IsVector(x)
      /\ NoIf(close) /\ NoIf(more) /\ NoIf(x)
  BY PrintLine, BodyPrints DEF Tells
<1> HIDE DEF close, more, x, big
<1>8. /\ IsVector(output') /\ WorkKept(output, output') /\ \A c \in Others : MarkSet(c, output')
      /\ Range(output') \subseteq Range(output) \cup Range(x) \cup Range(close) \cup Range(more)
  <2>1. CASE ~IsHollow(l)
    BY <1>1, <1>2, <1>6, <1>7, <2>1, MarksAppend
  <2>2. CASE IsHollow(l) /\ big
    <3>1. DOMAIN output = 1..Len(output) /\ Len(output) \in Nat
      BY <1>2, VectorShape
    <3>2. from \in 0..Len(output)
      BY <1>2, <1>5, <3>1 DEF MarkSet, Marked
    <3>3. PICK k : k = from
      OBVIOUS
    <3>4. \A i \in DOMAIN output : i > k => output[i].op # "work"
      BY <1>2, <1>5, <2>2, <3>3 DEF HollowQuiet, HollowCall
    <3>5. output' = SubSeq(output, 1, k) \o x
      BY <1>1, <2>2, <3>3
    <3>6. /\ IsVector(output') /\ WorkKept(output, output')
          /\ Range(output') \subseteq Range(output) \cup Range(x)
          /\ \A c : (MarkSet(c, output) /\ c.from \in Nat /\ c.from < k) => MarkSet(c, output')
      BY <1>2, <1>7, <3>2, <3>3, <3>4, <3>5, MarksCut
    <3> QED BY <1>6, <3>3, <3>6 DEF MarkSet
  <2>3. CASE IsHollow(l) /\ ~big
    <3> DEFINE y == more \o close
    <3>1. IsVector(y) /\ Range(y) = Range(more) \cup Range(close)
      BY <1>7, VectorConcat
    <3>2. output' = output \o y
      BY <1>1, <1>2, <1>7, <2>3, VectorAssoc
    <3> HIDE DEF y
    <3> QED BY <1>2, <1>6, <3>1, <3>2, MarksAppend
  <2> QED BY <2>1, <2>2, <2>3
<1>9. \A c \in {} \cup Others : MarkSet(c, output') /\ HollowQuiet(c, output')
  BY <1>6, <1>8 DEF HollowQuiet
<1>10. Turn({})
  BY <1>1, <1>2, PopTurn
<1>11. FrontTurn({})
  <2>1. FoundFrom(OpenedIn(emitted, {Current}), {})
    BY FoundNext
  <2>2. OpenedIn(emitted', {}) = OpenedIn(emitted, {Current}) \cup {}
    BY <1>1, <1>2 DEF OpenedIn, Opened
  <2> QED BY <2>1, <2>2 DEF FrontTurn
<1>12. CaredTurn({})
  <2>1. Due(Current) = {}
    BY <1>2 DEF Due
  <2>2. \A t \in emitted : Counted(t, output, Range(calls))
    BY DEF EmitInv, AllCounted
  <2> HIDE DEF l
  <2> QED BY <1>1, <1>4, <2>1, <2>2 DEF CaredTurn
<1>13. emitted' \subseteq Live /\ emitted \subseteq emitted'
  BY <1>1, <1>2, <1>3
<1>14. \A h : HasIf(h, output') => HasIf(h, output)
  <2>1. \A h : Line("if", h).op = "if"
    BY DEF Line
  <2> QED BY <1>7, <1>8, <2>1 DEF HasIf, NoIf
<1> QED BY <1>8, <1>9, <1>10, <1>11, <1>12, <1>13, <1>14, TurnKeeps DEF FrontTurn, CaredTurn

\* A linear region.
LEMMA StepLinear == EmitInv /\ Linear => EmitInv'
<1> SUFFICES ASSUME EmitInv, Linear PROVE EmitInv'
  OBVIOUS
<1> DEFINE b == Current.at
           q == LinearRegion(b)
           x == FlattenSeq([i \in DOMAIN q |->
                               (IF i = 1 THEN <<>> ELSE Label(q[i]))
                                   \o Body(q[i], FALSE, FallsInto(q, i))])
           T == Range(q)
<1>1. /\ Running("linear") /\ output' = output \o x /\ emitted' = emitted \cup T
      /\ calls' = Tail(calls) /\ UNCHANGED <<allVars, walk, pending, queued, targets>>
  BY DEF Linear, KeepWalk
<1>2. /\ calls # <<>> /\ Current \in Calls /\ Current.method = "linear" /\ b \in Live
      /\ emitted \subseteq Live /\ IsVector(output)
  BY <1>1, RunningIs
<1>3. IsFlowGraph(cfg) /\ b \in cfg.blocks /\ cfg.entry \in cfg.blocks
  BY <1>2, LiveIsBlocks DEF IsFlowGraph
<1>4. q \in Seq(cfg.blocks) /\ q # <<>> /\ q[1] = b /\ FoundFrom({b}, T)
  BY <1>3, LinearRegionShape DEF Regions
<1>5. Tells(x, T)
  <2> HIDE DEF q
  <2> QED BY <1>4, LinearPrints
<1> HIDE DEF q, x
<1>6. b \in T
  <2>1. Len(q) \in Nat /\ DOMAIN q = 1..Len(q)
    BY <1>4, LenProperties
  <2>2. Len(q) # 0
    BY <1>4, EmptySeq
  <2> QED BY <1>4, <2>1, <2>2 DEF Range
<1>7. T \subseteq Live
  <2>1. \A y \in Live : Succs(cfg, y) \subseteq Live
    BY <1>3, ReachIsLeast DEF Live
  <2> HIDE DEF T
  <2> QED BY <1>2, <1>4, <2>1 DEF FoundFrom
<1> HIDE DEF T
<1>8. \A t \in T : Told(t, output')
  BY <1>1, <1>2, <1>5, TellsTold
<1>9. Turn({})
  BY <1>1, <1>2, PopTurn
<1>10. FrontTurn({})
  <2>1. OpenedIn(emitted, {Current}) = emitted \cup {b}
    BY <1>2 DEF OpenedIn, Opened
  <2>2. FoundFrom(OpenedIn(emitted, {Current}), T)
    BY <1>4, <2>1, FoundWider
  <2>3. OpenedIn(emitted', {}) = OpenedIn(emitted, {Current}) \cup T
    BY <1>1, <1>6, <2>1 DEF OpenedIn
  <2> QED BY <2>2, <2>3 DEF FrontTurn
<1>11. CaredTurn({})
  <2>1. \A t \in emitted : Counted(t, output, Range(calls))
    BY DEF EmitInv, AllCounted
  <2>2. Due(Current) = {b}
    BY <1>2 DEF Due
  <2> QED BY <1>1, <1>6, <1>8, <2>1, <2>2 DEF CaredTurn, Cared
<1>12. emitted' \subseteq Live /\ emitted \subseteq emitted' /\ IsVector(x) /\ NoIf(x)
  BY <1>1, <1>2, <1>5, <1>7 DEF Tells
<1> QED BY <1>1, <1>9, <1>10, <1>11, <1>12, AppendKeeps

\* A region is over.
LEMMA StepRegionEnd == EmitInv /\ RegionEnd => EmitInv'
<1> SUFFICES ASSUME EmitInv, RegionEnd PROVE EmitInv'
  OBVIOUS
<1>1. /\ Running("region") /\ Current.rest = <<>> /\ output' = output /\ emitted' = emitted
      /\ calls' = Tail(calls) /\ UNCHANGED <<allVars, walk, pending, queued, targets>>
  BY DEF RegionEnd, KeepWalk
<1>2. /\ calls # <<>> /\ Current.method = "region" /\ emitted \subseteq Live
  BY <1>1, RunningIs
<1>3. Turn({})
  BY <1>1, <1>2, PopTurn
<1>4. FrontTurn({})
  <2>1. FoundFrom(OpenedIn(emitted, {Current}), {})
    BY FoundNext
  <2>2. OpenedIn(emitted', {}) = OpenedIn(emitted, {Current}) \cup {}
    BY <1>1, <1>2 DEF OpenedIn, Opened
  <2> QED BY <2>1, <2>2 DEF FrontTurn
<1>5. CaredTurn({})
  <2>1. \A t \in emitted : Counted(t, output, Range(calls))
    BY DEF EmitInv, AllCounted
  <2>2. Due(Current) = {}
    BY <1>1, <1>2, VectorNone DEF Due
  <2> QED BY <1>1, <2>1, <2>2 DEF CaredTurn
<1> QED BY <1>1, <1>2, <1>3, <1>4, <1>5, SilentKeeps

\* The next block of a region.
LEMMA StepRegionBlock == EmitInv /\ RegionBlock => EmitInv'
<1> SUFFICES ASSUME EmitInv, RegionBlock PROVE EmitInv'
  OBVIOUS
<1> DEFINE n == NextOfBody
           x == [Current EXCEPT !.rest = Tail(Current.rest)]
           k == LoopAt(n)
           label == IF n = Current.at THEN <<>>
                    ELSE IF dispatch_loop_header = NoBlock THEN Label(n)
                    ELSE IF n \in Labels THEN <<Line("label", n)>> ELSE <<>>
           body == Body(n, FALSE, NoBlock)
<1>1. /\ Running("region") /\ Current.rest # <<>> /\ emitted' = emitted
      /\ UNCHANGED <<allVars, walk, pending, queued, targets>>
      /\ \/ /\ IsLoop(n)
            /\ calls' = <<Call("loop", n, NoBlock)>> \o RestOfBody
            /\ output' = output \o label
         \/ /\ IsIf(n)
            /\ calls' = <<Call("if", n, NoBlock)>> \o RestOfBody
            /\ output' = output \o label
         \/ /\ calls' = RestOfBody
            /\ output' = output \o label \o body
  BY DEF RegionBlock, InRegion, KeepWalk
<1>2. /\ calls # <<>> /\ Current \in Calls /\ Current.method = "region"
      /\ emitted \subseteq Live /\ IsVector(output) /\ Current \in Range(calls)
      /\ stage = "end" /\ phase = "done" /\ Built
  BY <1>1, RunningIs, CurrentIs DEF EmitInv, Analysed
<1>3. /\ x \in Calls /\ x.method = "region" /\ x.at = Current.at /\ x.from = Current.from
      /\ Range(Current.rest) = {n} \cup Range(x.rest)
      /\ n \in Live /\ RestOfBody = <<x>> \o Tail(calls)
  BY <1>1, RestCall
<1> HIDE DEF x, n, k
<1>4. /\ Opened(x) = {} /\ Opened(Current) = {} /\ Due(x) = Range(x.rest)
      /\ Due(Current) = {n} \cup Range(x.rest) /\ ~Marked(x) /\ ~HollowCall(x)
  BY <1>2, <1>3 DEF Opened, Due, Marked, HollowCall
<1>5. Tells(label, {}) /\ Tells(body, {n})
  BY TellsNone, LabelPrints, PrintLine, BodyPrints
<1> HIDE DEF label, body
<1>6. \A t \in emitted : Counted(t, output, Range(calls))
  BY DEF EmitInv, AllCounted
<1>7. walk = "blocks" => Range(Current.rest) \subseteq emitted
  BY <1>2 DEF EmitInv, FrontClosed
<1>8. OpenedIn(emitted, {Current}) = emitted
  BY <1>4 DEF OpenedIn
<1>9. ASSUME NEW y \in Calls, y.method \in {"loop", "if"}, y.at = n, ~Marked(y),
             calls' = <<y>> \o RestOfBody, output' = output \o label,
             NEW T, Opened(y) \cup {n} = T \cup {n}, walk = "blocks" => FoundFrom(emitted, T)
      PROVE  EmitInv'
  <2> DEFINE N == {y, x}
  <2>1. Turn(N)
    <3>1. calls' = <<y>> \o (<<x>> \o Tail(calls))
      BY <1>3, <1>9
    <3> QED BY <1>1, <1>2, <1>3, <1>4, <1>9, <3>1, TwoTurn
  <2>2. walk = "blocks" => FrontTurn(N)
    <3> SUFFICES ASSUME walk = "blocks" PROVE FrontTurn(N)
      OBVIOUS
    <3>1. n \in emitted /\ Range(x.rest) \subseteq emitted
      BY <1>3, <1>7
    <3>2. OpenedIn(emitted', N) = OpenedIn(emitted, {Current}) \cup T
      BY <1>1, <1>4, <1>8, <1>9, <3>1 DEF OpenedIn
    <3> QED BY <1>1, <1>3, <1>8, <1>9, <3>1, <3>2 DEF FrontTurn
  <2>3. CaredTurn(N)
    <3>1. n \in Due(y)
      BY <1>9 DEF Due
    <3> QED BY <1>1, <1>3, <1>4, <1>6, <1>9, <3>1 DEF CaredTurn, Cared
  <2>4. \A c \in N : Marked(c) => MarkSet(c, output') /\ HollowQuiet(c, output')
    BY <1>4, <1>9
  <2> HIDE DEF N
  <2> QED BY <1>1, <1>2, <1>5, <1>9, <2>1, <2>2, <2>3, <2>4, AppendKeeps DEF Tells
<1>10. <<>> \in Seq(Live)
  BY EmptySeq
<1>11. CASE /\ IsLoop(n) /\ calls' = <<Call("loop", n, NoBlock)>> \o RestOfBody
            /\ output' = output \o label
  <2> DEFINE y == Call("loop", n, NoBlock)
  <2>1. k \in Loop /\ k.header = n /\ n \in k.body
    BY <1>2, <1>3, <1>11, LoopIs DEF k
  <2>2. walk = "blocks" => FoundFrom(emitted, k.body)
    BY <1>2, <1>3, <1>7, <2>1, FoundLoop
  <2>3. y.method = "loop" /\ y.at = n /\ y \in Calls
    BY <1>3, <1>10, <1>11 DEF Call, Calls, Methods
  <2> HIDE DEF y
  <2>4. Opened(y) = k.body /\ ~Marked(y)
    BY <2>3 DEF Opened, Marked, k
  <2> QED BY <1>9, <1>11, <2>2, <2>3, <2>4 DEF y
<1>12. CASE /\ IsIf(n) /\ calls' = <<Call("if", n, NoBlock)>> \o RestOfBody
            /\ output' = output \o label
  <2> DEFINE y == Call("if", n, NoBlock)
  <2>1. FoundFrom(emitted, {})
    BY FoundNext
  <2>2. y.method = "if" /\ y.at = n /\ y \in Calls
    BY <1>3, <1>10, <1>12 DEF Call, Calls, Methods
  <2> HIDE DEF y
  <2>3. Opened(y) \cup {n} = {} \cup {n} /\ ~Marked(y)
    BY <2>2 DEF Opened, Marked
  <2> QED BY <1>9, <1>12, <2>1, <2>2, <2>3 DEF y
<1>13. CASE calls' = RestOfBody /\ output' = output \o label \o body
  <2> DEFINE N == {x}
             z == label \o body
  <2>1. output' = output \o z
    BY <1>2, <1>5, <1>13, VectorAssoc DEF Tells
  <2>2. Tells(z, {n})
    <3>1. Tells(z, {} \cup {n})
      BY <1>5, PrintConcat
    <3> HIDE DEF z
    <3> QED BY <3>1 DEF Tells
  <2> HIDE DEF z
  <2>3. Told(n, output')
    BY <1>2, <2>1, <2>2, TellsTold
  <2>4. Turn(N)
    BY <1>1, <1>2, <1>3, <1>4, <1>13, OneTurn
  <2>5. walk = "blocks" => FrontTurn(N)
    <3> SUFFICES ASSUME walk = "blocks" PROVE FrontTurn(N)
      OBVIOUS
    <3>1. FoundFrom(OpenedIn(emitted, {Current}), {})
      BY FoundNext
    <3>2. OpenedIn(emitted', N) = OpenedIn(emitted, {Current}) \cup {}
      BY <1>1, <1>4 DEF OpenedIn
    <3> QED BY <1>1, <1>3, <1>7, <3>1, <3>2 DEF FrontTurn
  <2>6. CaredTurn(N)
    BY <1>1, <1>3, <1>4, <1>6, <2>3 DEF CaredTurn, Cared
  <2>7. \A c \in N : Marked(c) => MarkSet(c, output') /\ HollowQuiet(c, output')
    BY <1>4
  <2> HIDE DEF N
  <2> QED BY <1>1, <1>2, <2>1, <2>2, <2>4, <2>5, <2>6, <2>7, AppendKeeps DEF Tells
<1> QED BY <1>1, <1>11, <1>12, <1>13

\* The blocks a region takes in.
LEMMA CollectedIs ==
    ASSUME EmitInv, NEW t \in Live, NEW next
    PROVE  t \in Collected(t, next) /\ Collected(t, next) \subseteq Live
<1> DEFINE B == cfg.blocks
           g == [x \in B |-> next[x] \cap (Reachable \ emitted)]
           One == {t}
           C == Closure(One, g)
<1>1. IsFlowGraph(cfg) /\ Live \subseteq B /\ IsFiniteSet(B) /\ Reachable = Live
  BY LiveIsBlocks DEF IsFlowGraph, Reachable, Live
<1>2. g \in [B -> SUBSET B] /\ One \in SUBSET B /\ \A x \in B : g[x] \subseteq Live
  BY <1>1
<1>3. Collected(t, next) = C
  BY DEF Collected
<1>4. IsFiniteSet(B)
  BY <1>1
<1> HIDE DEF B, g, One
<1>5. /\ One \subseteq Closure(One, g)
      /\ \A X : (One \subseteq X /\ \A x \in X \cap B : g[x] \subseteq X)
                  => Closure(One, g) \subseteq X
  BY <1>2, <1>4, ClosureIsLeast
<1>6. One \subseteq Live
  BY DEF One
<1>7. C \subseteq Live
  BY <1>2, <1>5, <1>6
<1>8. t \in One
  BY DEF One
<1> QED BY <1>3, <1>5, <1>7, <1>8

\* When it follows edges from a successor of p, they are found from p.
LEMMA CollectedFound ==
    ASSUME EmitInv, NEW S, NEW p \in S, p \in cfg.blocks, NEW t \in Succs(cfg, p), NEW next,
           \A x \in cfg.blocks : next[x] \subseteq Succs(cfg, x)
    PROVE  FoundFrom(S, Collected(t, next))
<1> DEFINE g == [x \in cfg.blocks |-> next[x] \cap (Reachable \ emitted)]
<1>1. IsFlowGraph(cfg)
  BY LiveIsBlocks
<1>2. g \in [cfg.blocks -> SUBSET cfg.blocks] /\ \A x \in cfg.blocks : g[x] \subseteq Succs(cfg, x)
  BY <1>1, SuccsAreBlocks
<1>3. Collected(t, next) = Closure({t}, g)
  BY DEF Collected
<1> HIDE DEF g
<1> QED BY <1>1, <1>2, <1>3, FoundSearch

\* A loop over a dispatch: its header.
LEMMA StepDispatchHead == EmitInv /\ DispatchHead => EmitInv'
<1> SUFFICES ASSUME EmitInv, DispatchHead PROVE EmitInv'
  OBVIOUS
<1> DEFINE b == Current.at
           targets_of == Kept(cfg.succ[b], {b} \cup Roots(b))
           way(i) == IF targets_of[i] = b THEN Line("case continue", b)
                     ELSE Line("case goto", targets_of[i])
           one == <<Line("loop", b)>>
           two == Body(b, TRUE, NoBlock)
           three == <<Line("switch", b)>>
           four == [i \in DOMAIN targets_of |-> way(i)]
           five == <<Line("close", b)>>
           r == Sorted(Roots(b))
           x == [Current EXCEPT !.method = "roots", !.rest = r]
           N == {x}
<1>1. /\ Running("dispatch")
      /\ output' = output \o one \o two \o three \o four \o five
      /\ emitted' = emitted \cup {b} /\ calls' = <<x>> \o Tail(calls)
      /\ UNCHANGED <<allVars, walk, pending, queued, targets>>
  BY DEF DispatchHead, KeepWalk
<1>2. /\ calls # <<>> /\ Current \in Calls /\ Current.method = "dispatch" /\ b \in Live
      /\ emitted \subseteq Live /\ IsVector(output)
  BY <1>1, RunningIs
<1>3. IsFlowGraph(cfg) /\ Live \subseteq cfg.blocks /\ b \in cfg.blocks
  BY <1>2, LiveIsBlocks
<1>4. IsVector(four) /\ NoIf(four)
  <2>1. cfg.succ[b] \in Seq(cfg.blocks)
    BY <1>3 DEF IsFlowGraph
  <2> DEFINE K == {b} \cup Roots(b)
  <2>2. targets_of \in Seq(cfg.blocks)
    <3> HIDE DEF K
    <3>1. Kept(cfg.succ[b], K) \in Seq(cfg.blocks)
      BY <2>1, KeptRange
    <3> QED BY <3>1 DEF K
  <2> HIDE DEF targets_of, way
  <2>3. Len(targets_of) \in Nat /\ DOMAIN targets_of = 1..Len(targets_of)
    BY <2>2, LenProperties
  <2>4. PICK n \in Nat : DOMAIN targets_of = 1..n
    BY <2>3
  <2>5. four = [i \in 1..n |-> four[i]] /\ DOMAIN four = 1..n
    BY <2>4
  <2>6. \A i \in 1..n : four[i].op # "if"
    BY <2>4 DEF way, Line
  <2> HIDE DEF four
  <2> QED BY <2>5, <2>6, VectorFun DEF NoIf, Range
<1>5. /\ IsVector(one) /\ IsVector(three) /\ IsVector(five) /\ Tells(two, {b})
      /\ Tells(one, {}) /\ Tells(three, {}) /\ Tells(five, {})
  BY PrintLine, BodyPrints DEF Tells
<1> HIDE DEF one, two, three, four, five
<1> DEFINE a2 == one \o two
           a3 == a2 \o three
           a4 == a3 \o four
           z == a4 \o five
<1>6. IsVector(two) /\ Tells(one, {}) /\ Tells(three, {}) /\ Tells(four, {}) /\ Tells(five, {})
  BY <1>4, <1>5 DEF Tells
<1>7. Tells(a2, {} \cup {b})
  BY <1>5, <1>6, PrintConcat
<1>8. output \o one \o two = output \o a2
  BY <1>2, <1>5, <1>6, VectorAssoc
<1> HIDE DEF a2
<1>9. Tells(a3, {b} \cup {})
  <2>1. Tells(a2, {b})
    BY <1>7 DEF Tells
  <2> QED BY <1>6, <2>1, PrintConcat
<1>10. output \o a2 \o three = output \o a3
  BY <1>2, <1>5, <1>7, VectorAssoc DEF Tells
<1> HIDE DEF a3
<1>11. Tells(a4, {b} \cup {})
  <2>1. Tells(a3, {b})
    BY <1>9 DEF Tells
  <2> QED BY <1>6, <2>1, PrintConcat
<1>12. output \o a3 \o four = output \o a4
  BY <1>2, <1>4, <1>9, VectorAssoc DEF Tells
<1> HIDE DEF a4
<1>13. Tells(z, {b} \cup {})
  <2>1. Tells(a4, {b})
    BY <1>11 DEF Tells
  <2> QED BY <1>6, <2>1, PrintConcat
<1>14. output \o a4 \o five = output \o z
  <2>1. IsVector(a4) /\ IsVector(five) /\ IsVector(output)
    BY <1>2, <1>5, <1>11 DEF Tells
  <2> QED BY <2>1, VectorAssoc
<1> HIDE DEF z
<1>15. output' = output \o z /\ Tells(z, {b})
  BY <1>1, <1>8, <1>10, <1>12, <1>13, <1>14 DEF Tells
<1>16. Told(b, output')
  BY <1>2, <1>15, TellsTold
<1>17. r \in Seq(Live) /\ Range(r) \subseteq Succs(cfg, b)
  <2> DEFINE S == Roots(b)
  <2>1. S \subseteq Live /\ S \subseteq Succs(cfg, b) /\ S \subseteq cfg.blocks
    BY <1>3 DEF Roots, Reachable, Live
  <2> HIDE DEF S
  <2>2. Sorted(S) \in Seq(S) /\ Range(Sorted(S)) = S
    BY <1>3, <2>1, SortedBlocks
  <2>3. Sorted(S) \in Seq(Live)
    BY <2>1, <2>2, SeqMonotonic
  <2> QED BY <2>1, <2>2, <2>3 DEF S
<1> HIDE DEF r
<1>18. x \in Calls /\ x.method = "roots" /\ x.at = b
  <2>1. /\ x.method = "roots" /\ x.at = b /\ x.rest = r
        /\ x \in [method : Methods, at : Live, loop : cfg.blocks \cup {NoBlock},
                  from : Nat, mid : Nat, rest : Seq(Live)]
    BY <1>2, <1>17 DEF Calls, Methods
  <2> HIDE DEF x
  <2> QED BY <1>17, <2>1 DEF Calls
<1> HIDE DEF x
<1>19. Opened(x) = {} /\ Due(x) = {} /\ ~Marked(x) /\ Opened(Current) = {b} /\ Due(Current) = {b}
  BY <1>2, <1>18 DEF Opened, Due, Marked
<1>20. Turn(N)
  BY <1>1, <1>2, <1>18, <1>19, OneTurn
<1>21. FrontTurn(N)
  <2>1. FoundFrom(OpenedIn(emitted, {Current}), {})
    BY FoundNext
  <2>2. OpenedIn(emitted', N) = OpenedIn(emitted, {Current}) \cup {}
    BY <1>1, <1>19 DEF OpenedIn
  <2> QED BY <1>1, <1>18, <2>1, <2>2 DEF FrontTurn
<1>22. CaredTurn(N)
  <2>1. \A t \in emitted : Counted(t, output, Range(calls))
    BY DEF EmitInv, AllCounted
  <2> QED BY <1>1, <1>16, <1>18, <1>19, <2>1 DEF CaredTurn, Cared
<1>23. \A c \in N : Marked(c) => MarkSet(c, output') /\ HollowQuiet(c, output')
  BY <1>19
<1>24. emitted' \subseteq Live /\ emitted \subseteq emitted' /\ IsVector(z) /\ NoIf(z)
  BY <1>1, <1>2, <1>15 DEF Tells
<1> HIDE DEF N
<1> QED BY <1>15, <1>20, <1>21, <1>22, <1>23, <1>24, AppendKeeps

\* The loop over a dispatch is over.
LEMMA StepDispatchEnd == EmitInv /\ DispatchEnd => EmitInv'
<1> SUFFICES ASSUME EmitInv, DispatchEnd PROVE EmitInv'
  OBVIOUS
<1> DEFINE line == Line("close", Current.at)
           z == <<line>>
<1>7. IsVector(z) /\ NoIf(z)
  BY PrintLine DEF Tells
<1>1. /\ Running("roots") /\ output' = Append(output, line)
      /\ emitted' = emitted
      /\ calls' = Tail(calls) /\ UNCHANGED <<allVars, walk, pending, queued, targets>>
  BY DEF DispatchEnd, KeepWalk
<1> HIDE DEF line
<1>2. /\ calls # <<>> /\ Current.method = "roots" /\ emitted \subseteq Live /\ IsVector(output)
  BY <1>1, RunningIs
<1>3. output' = output \o z
  BY <1>1, <1>2, VectorAppendIs
<1> HIDE DEF z
<1>4. Turn({})
  BY <1>1, <1>2, PopTurn
<1>5. FrontTurn({})
  <2>1. FoundFrom(OpenedIn(emitted, {Current}), {})
    BY FoundNext
  <2>2. OpenedIn(emitted', {}) = OpenedIn(emitted, {Current}) \cup {}
    BY <1>1, <1>2 DEF OpenedIn, Opened
  <2> QED BY <2>1, <2>2 DEF FrontTurn
<1>6. CaredTurn({})
  <2>1. \A t \in emitted : Counted(t, output, Range(calls))
    BY DEF EmitInv, AllCounted
  <2>2. Due(Current) = {}
    BY <1>1, <1>2 DEF Due
  <2> QED BY <1>1, <2>1, <2>2 DEF CaredTurn
<1> QED BY <1>1, <1>2, <1>3, <1>4, <1>5, <1>6, <1>7, AppendKeeps

\* A target of a dispatch, with the region it leads to.
LEMMA StepDispatchTarget == EmitInv /\ DispatchTarget => EmitInv'
<1> SUFFICES ASSUME EmitInv, DispatchTarget PROVE EmitInv'
  OBVIOUS
<1> DEFINE b == Current.at
           t == NextOfBody
           next == [y \in cfg.blocks |-> Succs(cfg, y)]
           region == Collected(t, next)
           line == Line("label", t)
           x == [Current EXCEPT !.rest = Tail(Current.rest)]
           y == [Call("region", t, NoBlock) EXCEPT !.rest = InRpo(region)]
<1>1. /\ Running("roots") /\ Current.rest # <<>>
      /\ UNCHANGED <<allVars, walk, pending, queued, targets>>
      /\ \/ /\ t \in emitted /\ calls' = RestOfBody /\ output' = output /\ emitted' = emitted
         \/ /\ output' = Append(output, line) /\ emitted' = emitted \cup region
            /\ calls' = <<y>> \o RestOfBody
  BY DEF DispatchTarget, KeepWalk
<1>12. IsVector(<<line>>) /\ NoIf(<<line>>)
  BY PrintLine DEF Tells
<1>2. /\ calls # <<>> /\ Current \in Calls /\ Current.method = "roots" /\ b \in Live
      /\ emitted \subseteq Live /\ IsVector(output) /\ Current \in Range(calls)
      /\ phase = "done" /\ Analysed
  BY <1>1, RunningIs, CurrentIs DEF EmitInv
<1>3. /\ x \in Calls /\ x.method = "roots" /\ x.at = b /\ x.from = Current.from
      /\ Range(Current.rest) = {t} \cup Range(x.rest)
      /\ t \in Live /\ RestOfBody = <<x>> \o Tail(calls)
  BY <1>1, RestCall
<1>4. t \in Succs(cfg, b)
  BY <1>2, <1>3 DEF Calls
<1>5. /\ IsFlowGraph(cfg) /\ b \in cfg.blocks /\ \A u \in cfg.blocks : Succs(cfg, u) \subseteq cfg.blocks
  BY <1>2, LiveIsBlocks, SuccsAreBlocks
<1> HIDE DEF x, t, line
<1>6. /\ Opened(x) = {} /\ Opened(Current) = {} /\ Due(x) = {} /\ Due(Current) = {}
      /\ ~Marked(x) /\ ~HollowCall(x)
  BY <1>2, <1>3 DEF Opened, Due, Marked, HollowCall
<1>7. \A u \in emitted : Counted(u, output, Range(calls))
  BY DEF EmitInv, AllCounted
<1>8. OpenedIn(emitted, {Current}) = emitted
  BY <1>6 DEF OpenedIn
<1>9. walk = "blocks" => b \in emitted
  BY <1>2 DEF EmitInv, FrontClosed
<1>10. CASE t \in emitted /\ calls' = RestOfBody /\ output' = output /\ emitted' = emitted
  <2> DEFINE N == {x}
  <2>1. Turn(N)
    BY <1>1, <1>2, <1>3, <1>6, <1>10, OneTurn
  <2>2. walk = "blocks" => FrontTurn(N)
    <3>1. FoundFrom(OpenedIn(emitted, {Current}), {})
      BY FoundNext
    <3>2. OpenedIn(emitted', N) = OpenedIn(emitted, {Current}) \cup {}
      BY <1>6, <1>10 DEF OpenedIn
    <3> QED BY <1>3, <1>9, <1>10, <3>1, <3>2 DEF FrontTurn
  <2>3. CaredTurn(N)
    BY <1>3, <1>6, <1>7, <1>10 DEF CaredTurn
  <2>4. \A c \in N : Marked(c) => MarkSet(c, output) /\ HollowQuiet(c, output)
    BY <1>6
  <2> HIDE DEF N
  <2> QED BY <1>2, <1>10, <2>1, <2>2, <2>3, <2>4, SilentKeeps
<1>11. CASE /\ output' = Append(output, line) /\ emitted' = emitted \cup region
            /\ calls' = <<y>> \o RestOfBody
  <2> DEFINE N == {y, x}
             z == <<line>>
  <2>1. \A u \in cfg.blocks : next[u] = Succs(cfg, u)
    OBVIOUS
  <2> HIDE DEF next
  <2>2. t \in region /\ region \subseteq Live
    BY <1>3, CollectedIs
  <2>3. walk = "blocks" => FoundFrom(emitted, region)
    BY <1>4, <1>5, <1>9, <2>1, CollectedFound
  <2> HIDE DEF region
  <2>4. InRpo(region) \in Seq(Live) /\ Range(InRpo(region)) = region
    BY <1>2, <2>2, RpoRange
  <2>5. y \in Calls /\ y.method = "region" /\ y.at = t /\ y.rest = InRpo(region)
    <3>1. <<>> \in Seq(Live)
      BY EmptySeq
    <3>2. /\ y.method = "region" /\ y.at = t /\ y.rest = InRpo(region)
          /\ y \in [method : Methods, at : Live, loop : cfg.blocks \cup {NoBlock},
                    from : Nat, mid : Nat, rest : Seq(Live)]
      BY <1>3, <2>4 DEF Call, Methods
    <3> HIDE DEF y
    <3> QED BY <3>2 DEF Calls
  <2> HIDE DEF y
  <2>6. Opened(y) = {} /\ Due(y) = region /\ ~Marked(y)
    BY <2>4, <2>5 DEF Opened, Due, Marked
  <2>7. output' = output \o z /\ IsVector(z) /\ NoIf(z)
    BY <1>2, <1>11, <1>12, VectorAppendIs
  <2> HIDE DEF z
  <2>8. Turn(N)
    <3>1. calls' = <<y>> \o (<<x>> \o Tail(calls))
      BY <1>3, <1>11
    <3> QED BY <1>1, <1>2, <1>3, <1>6, <2>5, <2>6, <3>1, TwoTurn
  <2>9. walk = "blocks" => FrontTurn(N)
    <3>1. OpenedIn(emitted', N) = OpenedIn(emitted, {Current}) \cup region
      BY <1>6, <1>8, <1>11, <2>6 DEF OpenedIn
    <3> QED BY <1>3, <1>8, <1>9, <1>11, <2>3, <2>4, <2>5, <3>1 DEF FrontTurn
  <2>10. CaredTurn(N)
    BY <1>3, <1>6, <1>7, <1>11, <2>5, <2>6 DEF CaredTurn, Cared
  <2>11. \A c \in N : Marked(c) => MarkSet(c, output') /\ HollowQuiet(c, output')
    BY <1>6, <2>6
  <2>12. emitted' \subseteq Live /\ emitted \subseteq emitted'
    BY <1>2, <1>11, <2>2
  <2> HIDE DEF N
  <2> QED BY <2>7, <2>8, <2>9, <2>10, <2>11, <2>12, AppendKeeps
<1> QED BY <1>1, <1>10, <1>11

\* A step of the emitter's methods.
LEMMA StepEmit == EmitInv /\ Emit => EmitInv'
  BY StepIfOmitted, StepIfThen, StepIfElse, StepIfEnd, StepAsSwitch, StepAsIf, StepAsBlock,
     StepLoopOmitted, StepLoopHead, StepBodySkip, StepBodyNested, StepBodyBlock, StepLoopEnd,
     StepLinear, StepRegionBlock, StepRegionEnd, StepDispatchHead, StepDispatchTarget,
     StepDispatchEnd DEF Emit

-----------------------------------------------------------------------------
(* The other steps of pseudo_code *)

\* At the start nothing is printed.
LEMMA EmitBegins == EInit => EmitInv
<1> SUFFICES ASSUME EInit PROVE EmitInv
  OBVIOUS
<1>1. /\ SInit /\ walk = "analysis" /\ pending = <<>> /\ emitted = {} /\ output = <<>>
      /\ calls = <<>> /\ targets = <<>>
  BY DEF EInit
<1>2. Analysed
  BY <1>1, InitAnalysed
<1>3. IsVector(<<>>) /\ Range(<<>>) = {} /\ <<>> \in Seq(Live) /\ <<>> \in Seq(Calls)
  BY VectorNone, EmptySeq
<1>4. EmitType
  BY <1>1, <1>3 DEF EmitType
<1>5. Stacked
  BY <1>1, <1>3, OrderedNone DEF Stacked
<1>6. FrontClosed /\ AllCounted /\ ArmsCared
  BY <1>1, <1>3 DEF FrontClosed, AllCounted, ArmsCared, HasIf
<1> QED BY <1>2, <1>4, <1>5, <1>6 DEF EmitInv

\* Structural analysis, before the emitter.
LEMMA StepAnalysis == EmitInv /\ Analysis => EmitInv'
<1> SUFFICES ASSUME EmitInv, Analysis PROVE EmitInv'
  OBVIOUS
<1>1. SNext /\ UNCHANGED emitVars /\ Analysed
  BY DEF Analysis, EmitInv
<1>2. walk = "analysis"
  <2> SUFFICES ASSUME walk # "analysis" PROVE FALSE
    OBVIOUS
  <2>1. stage = "end"
    BY DEF EmitInv, EmitType
  <2> QED BY <1>1, <2>1, AnalysisOver
<1>3. /\ pending = <<>> /\ targets = <<>> /\ emitted = {} /\ output = <<>> /\ calls = <<>>
  BY <1>2 DEF EmitInv, EmitType
<1>4. /\ walk' = "analysis" /\ pending' = <<>> /\ targets' = <<>> /\ emitted' = {}
      /\ output' = <<>> /\ calls' = <<>>
  BY <1>1, <1>2, <1>3 DEF emitVars
<1>5. Analysed'
  BY <1>1, StepAnalysed
<1>6. IsVector(<<>>) /\ Range(<<>>) = {} /\ (\A B : <<>> \in Seq(B))
  BY VectorNone, EmptySeq
<1>7. IsVector(output)' /\ Range(calls)' = {} /\ Ordered(calls)' /\ Range(output)' = {}
  BY <1>4, <1>6 DEF IsVector, Range, Ordered
<1>8. EmitType'
  BY <1>4, <1>6, <1>7 DEF EmitType
<1>9. Stacked'
  BY <1>7 DEF Stacked
<1>10. FrontClosed' /\ AllCounted'
  BY <1>4, <1>7 DEF FrontClosed, AllCounted
<1>11. ArmsCared'
  BY <1>7 DEF ArmsCared, HasIf
<1> QED BY <1>5, <1>8, <1>9, <1>10, <1>11 DEF EmitInv

\* The entry has no other dominator.
LEMMA EntryClosed ==
    ASSUME IsFlowGraph(cfg)
    PROVE  DomClosed({}) /\ DomClosed({cfg.entry}) /\ cfg.entry \in Live
<1>1. cfg.entry \in cfg.blocks
  BY DEF IsFlowGraph
<1>2. cfg.entry \in Live
  BY <1>1, ReachIsLeast DEF Live
<1>3. \A a \in cfg.blocks \ {cfg.entry} : cfg.entry \in Reach(cfg, cfg.entry, {a})
  BY <1>1, ReachIsLeast
<1> QED BY <1>2, <1>3 DEF DomClosed

\* What is printed or due stays so when no line is lost and no `if` is added.
LEMMA CaredOn ==
    ASSUME EmitInv, UNCHANGED allVars,
           \A b : Cared(b, output, Range(calls)) => Cared(b, output', Range(calls')),
           \A h : HasIf(h, output') => HasIf(h, output)
    PROVE  /\ \A b : Counted(b, output, Range(calls)) => Counted(b, output, Range(calls))'
           /\ ArmsCared'
<1>1. \A b : /\ Cared(b, output, Range(calls))' <=> Cared(b, output', Range(calls'))
             /\ Counted(b, output, Range(calls))' <=> Counted(b, output', Range(calls'))
             /\ HasIf(b, output)' <=> HasIf(b, output')
             /\ Arms(IfAt(b))' = Arms(IfAt(b))
  BY SameCared
<1>2. \A b : Counted(b, output, Range(calls)) => Counted(b, output', Range(calls'))
  BY DEF Counted
<1>3. \A h : HasIf(h, output') => \A b \in Arms(IfAt(h)) : Cared(b, output', Range(calls'))
  BY DEF EmitInv, ArmsCared
<1>4. ArmsCared' <=> \A h : HasIf(h, output)' =>
                                \A b \in Arms(IfAt(h))' : Cared(b, output, Range(calls))'
  BY DEF ArmsCared
<1> QED BY <1>1, <1>2, <1>3, <1>4

\* So when the first calls are made for a block and lines are added that begin
\* no conditional.
LEMMA FirstLines ==
    ASSUME EmitInv, UNCHANGED allVars, calls = <<>>, NEW x, IsVector(x), NoIf(x),
           output' = output \o x
    PROVE  /\ \A b : Counted(b, output, Range(calls)) => Counted(b, output, Range(calls))'
           /\ ArmsCared'
<1>1. Range(calls) = {} /\ IsVector(output)
  BY VectorNone DEF EmitInv, EmitType
<1>2. WorkKept(output, output') /\ Range(output') = Range(output) \cup Range(x)
  BY <1>1, MarksAppend
<1>3. ASSUME NEW b, Cared(b, output, Range(calls)) PROVE Cared(b, output', Range(calls'))
  <2>1. Told(b, output)
    BY <1>1, <1>3 DEF Cared
  <2>2. Told(b, output')
    BY <1>2, <2>1, ToldOn
  <2> QED BY <2>2 DEF Cared
<1>4. ASSUME NEW h, HasIf(h, output') PROVE HasIf(h, output)
  <2>1. Line("if", h) \notin Range(x)
    BY DEF NoIf, Line
  <2> QED BY <1>2, <1>4, <2>1 DEF HasIf
<1> QED BY <1>3, <1>4, CaredOn

\* What lasts when only the walk through the blocks goes on.
LEMMA SameText ==
    ASSUME EmitInv, UNCHANGED <<allVars, emitted, output, calls>>
    PROVE  /\ Analysed' /\ Stacked' /\ IsVector(output)' /\ ArmsCared'
           /\ OpenedIn(emitted, Range(calls))' = OpenedIn(emitted, Range(calls))
           /\ \A b : Counted(b, output, Range(calls)) => Counted(b, output, Range(calls))'
<1>1. Analysed'
  BY StepAnalysed DEF EmitInv
<1>2. Range(calls)' = Range(calls) /\ IsVector(output)'
  BY DEF Range, IsVector, EmitInv, EmitType
<1>3. /\ \A b : LoopAt(b)' = LoopAt(b)
      /\ \A c : HollowCall(c)' <=> HollowCall(c)
  BY SameProgram
<1>4. \A c : Opened(c)' = Opened(c)
  BY <1>3 DEF Opened
<1>5. OpenedIn(emitted, Range(calls))' = OpenedIn(emitted, Range(calls))
  BY <1>2, <1>4 DEF OpenedIn
<1>6. Stacked'
  <2>1. Ordered(calls)'
    BY <1>3 DEF EmitInv, Stacked, Ordered, Under
  <2>2. \A c : /\ MarkSet(c, output)' <=> MarkSet(c, output)
               /\ HollowQuiet(c, output)' <=> HollowQuiet(c, output)
    BY <1>3 DEF MarkSet, HollowQuiet
  <2> QED BY <1>2, <2>1, <2>2 DEF EmitInv, Stacked
<1>7. output' = output /\ calls' = calls
  OBVIOUS
<1>8. /\ \A b : Counted(b, output, Range(calls)) => Counted(b, output, Range(calls))'
      /\ ArmsCared'
  BY <1>7, CaredOn
<1> QED BY <1>1, <1>2, <1>5, <1>6, <1>8

\* The queue begins with the entry.
LEMMA StepStart == EmitInv /\ Start => EmitInv'
<1> SUFFICES ASSUME EmitInv, Start PROVE EmitInv'
  OBVIOUS
<1>1. /\ walk = "analysis" /\ stage = "end" /\ walk' = "blocks" /\ pending' = <<cfg.entry>>
      /\ UNCHANGED <<allVars, emitted, output, calls, targets>>
  BY DEF Start
<1>2. emitted = {} /\ output = <<>> /\ calls = <<>> /\ targets = <<>>
  BY <1>1 DEF EmitInv, EmitType
<1>3. Live' = Live /\ stage' = stage /\ Calls' = Calls /\ \A S : DomClosed(S)' <=> DomClosed(S)
  BY <1>1, SameProgram
<1>4. DomClosed({}) /\ DomClosed({cfg.entry}) /\ cfg.entry \in Live
  BY EntryClosed, LiveIsBlocks
<1>5. /\ Analysed' /\ Stacked' /\ IsVector(output)' /\ ArmsCared'
      /\ OpenedIn(emitted, Range(calls))' = OpenedIn(emitted, Range(calls))
  BY <1>1, SameText
<1>6. Range(<<>>) = {} /\ (\A B : <<>> \in Seq(B)) /\ Range(<<cfg.entry>>) = {cfg.entry}
  BY VectorNone, VectorOne, EmptySeq
<1>7. <<cfg.entry>> \in Seq(Live)
  BY <1>4
<1>8. EmitType'
  BY <1>1, <1>2, <1>3, <1>5, <1>6, <1>7 DEF EmitType
<1>9. Range(pending)' = {cfg.entry} /\ Range(calls)' = {}
  BY <1>1, <1>2, <1>6 DEF Range
<1>10. FrontClosed'
  <2>1. OpenedIn(emitted, Range(calls)) = {}
    BY <1>2, <1>6 DEF OpenedIn
  <2> QED BY <1>3, <1>4, <1>5, <1>9, <2>1 DEF FrontClosed
<1>11. AllCounted'
  BY <1>1, <1>2, <1>9 DEF AllCounted
<1> QED BY <1>5, <1>8, <1>10, <1>11 DEF EmitInv

\* A block of the queue that is printed already.
LEMMA StepPopEmitted == EmitInv /\ PopEmitted => EmitInv'
<1> SUFFICES ASSUME EmitInv, PopEmitted PROVE EmitInv'
  OBVIOUS
<1>1. /\ walk = "blocks" /\ pending # <<>> /\ pending' = Tail(pending) /\ walk' = walk
      /\ UNCHANGED <<allVars, emitted, output, calls, targets>>
  BY DEF PopEmitted, Popping
<1>2. /\ Live' = Live /\ stage' = stage /\ Calls' = Calls /\ Labels' = Labels
      /\ \A S : DomClosed(S)' <=> DomClosed(S)
      /\ \A b : LoopAt(b)' = LoopAt(b)
  BY <1>1, SameProgram
<1>3. /\ Analysed' /\ Stacked' /\ IsVector(output)' /\ ArmsCared'
      /\ OpenedIn(emitted, Range(calls))' = OpenedIn(emitted, Range(calls))
      /\ \A b : Counted(b, output, Range(calls)) => Counted(b, output, Range(calls))'
  BY <1>1, SameText
<1>4. IsVector(pending) /\ Range(pending) \subseteq Live
  BY VectorIs DEF EmitInv, EmitType
<1>5. IsVector(Tail(pending)) /\ Range(pending) = {Head(pending)} \cup Range(Tail(pending))
  BY <1>1, <1>4, VectorSplit
<1>6. Tail(pending) \in Seq(Live)
  BY <1>4, <1>5, VectorOver
<1>7. EmitType'
  BY <1>1, <1>2, <1>3, <1>6 DEF EmitInv, EmitType
<1>8. Range(pending)' = Range(Tail(pending)) /\ Range(calls)' = Range(calls)
  BY <1>1 DEF Range
<1>9. FrontClosed'
  BY <1>1, <1>2, <1>3, <1>5, <1>8 DEF EmitInv, FrontClosed
<1>10. AllCounted'
  BY <1>1, <1>2, <1>3, <1>8 DEF EmitInv, AllCounted
<1> QED BY <1>3, <1>7, <1>9, <1>10 DEF EmitInv

\* The queue is empty: labelled blocks are next.
LEMMA StepLeftovers == EmitInv /\ Leftovers => EmitInv'
<1> SUFFICES ASSUME EmitInv, Leftovers PROVE EmitInv'
  OBVIOUS
<1>1. /\ walk = "blocks" /\ calls = <<>> /\ walk' = "targets"
      /\ targets' = InRpo(Labels \ emitted)
      /\ UNCHANGED <<allVars, pending, emitted, output, calls>>
  BY DEF Leftovers
<1>2. Live' = Live /\ stage' = stage /\ Calls' = Calls /\ Labels' = Labels
  BY <1>1, SameProgram
<1>3. /\ Analysed' /\ Stacked' /\ IsVector(output)' /\ ArmsCared'
      /\ \A b : Counted(b, output, Range(calls)) => Counted(b, output, Range(calls))'
  BY <1>1, SameText
<1>4. stage = "end" /\ Analysed
  BY <1>1 DEF EmitInv, EmitType
<1>5. targets' \in Seq(Live) /\ Range(targets') = (Labels \ emitted) \cap Live
  <2>1. phase = "done"
    BY <1>4, AnalysisOver
  <2> QED BY <1>1, <1>4, <2>1, RpoRange
<1>6. EmitType'
  BY <1>1, <1>2, <1>3, <1>4, <1>5 DEF EmitInv, EmitType
<1>7. Range(targets)' = Range(targets') /\ Range(calls)' = Range(calls) /\ Range(calls) = {}
  BY <1>1, VectorNone DEF Range
<1>8. FrontClosed'
  BY <1>1 DEF FrontClosed
<1>9. \A b \in emitted : Counted(b, output, Range(calls))
  BY DEF EmitInv, AllCounted
<1>10. AllCounted'
  BY <1>1, <1>2, <1>3, <1>5, <1>7, <1>9 DEF AllCounted
<1> QED BY <1>3, <1>6, <1>8, <1>10 DEF EmitInv

\* A labelled block that is printed already.
LEMMA StepPrinted == EmitInv /\ Printed => EmitInv'
<1> SUFFICES ASSUME EmitInv, Printed PROVE EmitInv'
  OBVIOUS
<1>1. /\ walk = "targets" /\ calls = <<>> /\ targets = <<>> /\ walk' = "text"
      /\ UNCHANGED <<allVars, pending, emitted, output, calls, targets>>
  BY DEF Printed
<1>2. Live' = Live /\ stage' = stage /\ Calls' = Calls /\ Labels' = Labels
  BY <1>1, SameProgram
<1>3. /\ Analysed' /\ Stacked' /\ IsVector(output)' /\ ArmsCared'
      /\ \A b : Counted(b, output, Range(calls)) => Counted(b, output, Range(calls))'
  BY <1>1, SameText
<1>4. EmitType'
  BY <1>1, <1>2, <1>3 DEF EmitInv, EmitType
<1>5. Range(calls)' = Range(calls) /\ Range(calls) = {} /\ Range(targets) = {}
  BY <1>1, VectorNone DEF Range
<1>6. FrontClosed'
  BY <1>1 DEF FrontClosed
<1>7. /\ \A b \in emitted : Counted(b, output, Range(calls))
      /\ \A b \in Labels \cap Live : Counted(b, output, Range(calls))
  BY <1>1, <1>5 DEF EmitInv, AllCounted
<1>8. AllCounted'
  BY <1>1, <1>2, <1>3, <1>5, <1>7 DEF AllCounted
<1> QED BY <1>3, <1>4, <1>6, <1>8 DEF EmitInv

\* After a block its successors go to the front of the queue.
LEMMA StepAfter == EmitInv /\ After => EmitInv'
<1> SUFFICES ASSUME EmitInv, After PROVE EmitInv'
  OBVIOUS
<1> DEFINE b == Current.at
           new == {s \in Succs(cfg, b) : s \notin emitted \cup queued}
           H == OpenedIn(emitted, Range(calls))
<1>1. /\ Running("after") /\ pending' = InRpo(new) \o pending /\ calls' = Tail(calls)
      /\ UNCHANGED <<allVars, walk, emitted, output, targets>>
  BY DEF After
<1>2. /\ calls # <<>> /\ Current \in Range(calls) /\ Current.method = "after" /\ b \in Live
      /\ Analysed /\ phase = "done" /\ emitted \subseteq Live /\ IsVector(output)
      /\ Range(calls) = {Current} \cup Others
  BY <1>1, RunningIs
<1>3. /\ IsVector(calls) /\ Ordered(calls) /\ Others \subseteq Calls
      /\ walk \in {"blocks", "targets"} /\ stage = "end"
  BY <1>2, CurrentIs DEF EmitInv
<1>4. /\ IsFlowGraph(cfg) /\ \A x \in Live : Succs(cfg, x) \subseteq Live
  <2>1. IsFlowGraph(cfg) /\ cfg.entry \in cfg.blocks
    BY LiveIsBlocks DEF IsFlowGraph
  <2> QED BY <2>1, ReachIsLeast DEF Live
<1>5. /\ Live' = Live /\ stage' = stage /\ Calls' = Calls /\ Labels' = Labels
      /\ \A S : DomClosed(S)' <=> DomClosed(S)
      /\ \A t : LoopAt(t)' = LoopAt(t)
      /\ \A c : HollowCall(c)' <=> HollowCall(c)
  BY <1>1, SameProgram
<1>6. new \subseteq Live /\ InRpo(new) \in Seq(Live) /\ Range(InRpo(new)) = new
  BY <1>2, <1>4, RpoRange
<1> HIDE DEF new
<1>7. pending' \in Seq(Live) /\ Range(pending') = new \cup Range(pending)
  <2>1. pending \in Seq(Live)
    BY DEF EmitInv, EmitType
  <2> QED BY <1>1, <1>6, <2>1, ConcatProperties, ConcatRange
<1>8. IsVector(Tail(calls)) /\ Ordered(Tail(calls)) /\ Range(Tail(calls)) = Others
  BY <1>2, <1>3, VectorSplit, OrderedSplit DEF Others
<1>9. Range(calls)' = Others /\ Range(pending)' = Range(pending') /\ IsVector(output)'
      /\ Range(targets)' = Range(targets)
  BY <1>1, <1>2, <1>8 DEF Range, IsVector
<1>10. Analysed'
  BY <1>1, <1>2, StepAnalysed
<1>11. EmitType'
  <2>1. Tail(calls) \in Seq(Calls)
    BY <1>3, <1>8, VectorOver
  <2> QED BY <1>1, <1>3, <1>5, <1>7, <1>9, <2>1 DEF EmitInv, EmitType
<1>12. Stacked'
  <2>1. Ordered(calls)'
    BY <1>1, <1>5, <1>8 DEF Ordered, Under
  <2>2. \A c \in Range(calls) : MarkSet(c, output) /\ HollowQuiet(c, output)
    BY DEF EmitInv, Stacked
  <2>3. \A c : /\ MarkSet(c, output)' <=> MarkSet(c, output)
               /\ HollowQuiet(c, output)' <=> HollowQuiet(c, output)
    BY <1>1, <1>5 DEF MarkSet, HollowQuiet
  <2> QED BY <1>2, <1>9, <2>1, <2>2, <2>3 DEF Stacked
<1>13. Opened(Current) = {} /\ Due(Current) = {}
  BY <1>2 DEF Opened, Due
<1>14. FrontClosed'
  <2> SUFFICES ASSUME walk = "blocks" PROVE FrontClosed'
    BY <1>1 DEF FrontClosed
  <2>1. OpenedIn(emitted, Range(calls))' = H
    <3>1. \A c : Opened(c)' = Opened(c)
      BY <1>5 DEF Opened
    <3> QED BY <1>1, <1>2, <1>9, <1>13, <3>1 DEF OpenedIn
  <2>2. /\ DomClosed(H) /\ b \in H
        /\ \A p \in Range(pending) : DomClosed(H \cup {p})
        /\ \A c \in Range(calls) :
              /\ c.method = "after" => c.at \in H
              /\ c.method = "roots" => c.at \in emitted
              /\ c.method = "region" => Range(c.rest) \subseteq emitted
    BY <1>2 DEF EmitInv, FrontClosed
  <2> HIDE DEF H
  <2>3. ASSUME NEW p \in new PROVE DomClosed(H \cup {p})
    <3> DEFINE T == {p}
    <3>1. \A t \in T : \E q \in H : t \in Succs(cfg, q)
      BY <2>2 DEF new
    <3> HIDE DEF T
    <3>2. FoundFrom(H, T)
      BY <3>1, FoundNext
    <3>3. DomClosed(H \cup T)
      BY <1>4, <2>2, <3>2, ClosedWithin
    <3> QED BY <3>3 DEF T
  <2> QED BY <1>1, <1>2, <1>5, <1>7, <1>9, <2>1, <2>2, <2>3 DEF FrontClosed
<1>15. AllCounted' /\ ArmsCared'
  <2>1. output' = output /\ Range(calls') = Others
    BY <1>1, <1>8
  <2>2. \A t : Cared(t, output, Range(calls)) => Cared(t, output, Others)
    BY <1>2, <1>13 DEF Cared
  <2>3. /\ \A t : Counted(t, output, Range(calls)) => Counted(t, output, Range(calls))'
        /\ ArmsCared'
    BY <1>1, <2>1, <2>2, CaredOn
  <2> QED BY <1>1, <1>2, <1>5, <1>9, <2>3 DEF EmitInv, AllCounted
<1> QED BY <1>10, <1>11, <1>12, <1>14, <1>15 DEF EmitInv

\* The calls that print a block taken from the queue or from the targets.
LEMMA NewCalls ==
    ASSUME EmitInv, calls = <<>>, UNCHANGED allVars, stage = "end",
           NEW x \in Calls, ~Marked(x), NEW S, S \subseteq Calls,
           \A c \in S : ~Marked(c),
           IsVector(calls'), Range(calls') = {x} \cup S
    PROVE  Stacked' /\ calls' \in Seq(Calls)
<1>1. calls' \in Seq(Calls)
  BY VectorOver
<1>2. \A c : HollowCall(c)' <=> HollowCall(c)
  BY SameProgram
<1>3. \A c \in {x} \cup S : ~Marked(c) /\ ~HollowCall(c)
  BY DEF Marked, HollowCall
<1>4. Range(calls)' = {x} \cup S
  BY DEF Range
<1>5. Ordered(calls)'
  <2>1. \A i \in DOMAIN calls' : calls'[i] \in {x} \cup S
    BY DEF Range
  <2>2. Ordered(calls')
    BY <1>3, <2>1 DEF Ordered, Under
  <2> QED BY <1>2, <2>2 DEF Ordered, Under
<1>6. \A c \in {x} \cup S : MarkSet(c, output)' /\ HollowQuiet(c, output)'
  BY <1>2, <1>3 DEF MarkSet, HollowQuiet
<1> QED BY <1>1, <1>4, <1>5, <1>6 DEF Stacked

\* A block of the queue.
LEMMA StepPopBlock == EmitInv /\ PopBlock => EmitInv'
<1> SUFFICES ASSUME EmitInv, PopBlock PROVE EmitInv'
  OBVIOUS
<1> DEFINE b == Head(pending)
           x == Call(MethodFor(b), b, NoBlock)
           y == Call("after", b, NoBlock)
           label == IF IsDispatchLoop(b) THEN <<>> ELSE Label(b)
<1>1. /\ walk = "blocks" /\ calls = <<>> /\ pending # <<>> /\ walk' = walk
      /\ UNCHANGED <<allVars, emitted, targets>>
      /\ \/ /\ pending' = Append(Tail(pending), b) /\ output' = output /\ calls' = calls
         \/ /\ pending' = Tail(pending) /\ output' = output \o label
            /\ calls' = <<x, y>>
  BY DEF PopBlock, Popping
<1>2. /\ Live' = Live /\ stage' = stage /\ Calls' = Calls /\ Labels' = Labels
      /\ \A S : DomClosed(S)' <=> DomClosed(S)
      /\ \A t : LoopAt(t)' = LoopAt(t)
  BY <1>1, SameProgram
<1>3. IsVector(pending) /\ Range(pending) \subseteq Live /\ stage = "end" /\ emitted \subseteq Live
      /\ IsVector(output) /\ Analysed
  BY <1>1, VectorIs DEF EmitInv, EmitType
<1>4. /\ IsVector(Tail(pending)) /\ b \in Range(pending)
      /\ Range(pending) = {b} \cup Range(Tail(pending))
  BY <1>1, <1>3, VectorSplit
<1>5. b \in Live
  BY <1>3, <1>4
<1> HIDE DEF b, x, y, label
<1>6. Range(calls) = {} /\ OpenedIn(emitted, Range(calls)) = emitted
  BY <1>1, VectorNone DEF OpenedIn
<1>7. DomClosed(emitted) /\ \A p \in Range(pending) : DomClosed(emitted \cup {p})
  BY <1>1, <1>6 DEF EmitInv, FrontClosed
<1>8. \A t \in emitted : Counted(t, output, Range(calls))
  BY DEF EmitInv, AllCounted
<1>9. CASE pending' = Append(Tail(pending), b) /\ output' = output /\ calls' = calls
  <2>1. /\ Analysed' /\ Stacked' /\ IsVector(output)' /\ ArmsCared'
        /\ OpenedIn(emitted, Range(calls))' = OpenedIn(emitted, Range(calls))
        /\ \A t : Counted(t, output, Range(calls)) => Counted(t, output, Range(calls))'
    <3>1. UNCHANGED <<allVars, emitted, output, calls>>
      BY <1>1, <1>9
    <3> QED BY <3>1, SameText
  <2>2. IsVector(pending') /\ Range(pending') = Range(pending)
    BY <1>4, <1>9, VectorAppend
  <2>3. pending' \in Seq(Live)
    BY <1>3, <2>2, VectorOver
  <2>4. EmitType'
    BY <1>1, <1>2, <1>9, <2>1, <2>3 DEF EmitInv, EmitType
  <2>5. Range(pending)' = Range(pending) /\ Range(calls)' = {}
    BY <1>6, <1>9, <2>2 DEF Range
  <2>6. FrontClosed'
    BY <1>2, <1>6, <1>7, <2>1, <2>5 DEF FrontClosed
  <2>7. AllCounted'
    BY <1>1, <1>2, <1>8, <2>1, <2>5 DEF AllCounted
  <2> QED BY <2>1, <2>4, <2>6, <2>7 DEF EmitInv
<1>10. CASE pending' = Tail(pending) /\ output' = output \o label /\ calls' = <<x, y>>
  <2>1. /\ x.method \in {"loop", "arm", "dispatch", "linear"} /\ x.at = b
        /\ x.method = "loop" => IsLoop(b)
        /\ y.method = "after" /\ y.at = b
    BY DEF x, y, Call, MethodFor
  <2>2. x \in Calls /\ y \in Calls
    <3>1. <<>> \in Seq(Live)
      BY EmptySeq
    <3>2. x \in [method : Methods, at : Live, loop : cfg.blocks \cup {NoBlock},
                 from : Nat, mid : Nat, rest : Seq(Live)]
      BY <1>5, <2>1, <3>1 DEF x, Call, Methods
    <3>3. y \in [method : Methods, at : Live, loop : cfg.blocks \cup {NoBlock},
                 from : Nat, mid : Nat, rest : Seq(Live)]
      BY <1>5, <2>1, <3>1 DEF y, Call, Methods
    <3> QED BY <2>1, <3>2, <3>3 DEF Calls
  <2> DEFINE S == {y}
  <2>3. IsVector(<<x, y>>) /\ Range(<<x, y>>) = {x} \cup S
    <3>1. <<x, y>> \in Seq({x, y})
      OBVIOUS
    <3>2. DOMAIN <<x, y>> = {1, 2} /\ <<x, y>>[1] = x /\ <<x, y>>[2] = y
      OBVIOUS
    <3> QED BY <3>1, <3>2, VectorIs DEF Range
  <2>4. ~Marked(x) /\ ~Marked(y)
    BY <2>1 DEF Marked
  <2>5. Stacked' /\ calls' \in Seq(Calls)
    <3>1. /\ S \subseteq Calls /\ \A c \in S : ~Marked(c)
          /\ IsVector(calls') /\ Range(calls') = {x} \cup S
      BY <1>10, <2>2, <2>3, <2>4
    <3> HIDE DEF S
    <3>2. PICK u, v, W : u = x /\ v = y /\ W = S
      OBVIOUS
    <3>3. /\ calls = <<>> /\ UNCHANGED allVars /\ stage = "end"
          /\ u \in Calls /\ ~Marked(u) /\ W \subseteq Calls
          /\ \A c \in W : ~Marked(c)
          /\ IsVector(calls') /\ Range(calls') = {u} \cup W
      BY <1>1, <1>3, <2>2, <2>4, <3>1, <3>2
    <3> QED BY ONLY <3>3, EmitInv, NewCalls
  <2>6. IsVector(label) /\ NoIf(label)
    BY LabelPrints, TellsNone DEF label, Tells
  <2>7. IsVector(output') /\ WorkKept(output, output')
    BY <1>3, <1>10, <2>6, MarksAppend
  <2>8. Analysed'
    BY <1>1, <1>3, StepAnalysed
  <2>9. Tail(pending) \in Seq(Live)
    BY <1>3, <1>4, VectorOver
  <2>10. /\ Range(pending)' = Range(Tail(pending)) /\ Range(calls)' = {x, y}
         /\ IsVector(output)' /\ Range(calls') = {x, y}
    BY <1>10, <2>3, <2>7 DEF Range, IsVector
  <2>11. EmitType'
    BY <1>1, <1>2, <1>3, <1>10, <2>5, <2>9, <2>10 DEF EmitInv, EmitType
  <2>12. FrontClosed'
    <3> DEFINE T == Opened(x)
               G == emitted \cup {b}
    <3>1. FoundFrom(G, T) /\ b \in T
      <4>1. CASE x.method = "loop"
        <5>1. /\ LoopAt(b) \in Loop /\ LoopAt(b).header = b /\ b \in LoopAt(b).body
          BY <1>3, <1>5, <2>1, <4>1, LoopIs
        <5>2. T = LoopAt(b).body
          BY <2>1, <4>1 DEF Opened
        <5>3. Built /\ phase = "done"
          BY <1>3, AnalysisOver DEF Analysed
        <5>4. b \in G /\ G \subseteq Live
          BY <1>3, <1>5
        <5> HIDE DEF G
        <5> QED BY <5>1, <5>2, <5>3, <5>4, FoundLoop
      <4>2. CASE x.method # "loop"
        <5>1. T = {b}
          BY <2>1, <4>2 DEF Opened
        <5>2. FoundFrom(G, {b})
          BY DEF FoundFrom
        <5> QED BY <5>1, <5>2
      <4> QED BY <4>1, <4>2
    <3> DEFINE H == G \cup T
    <3>2. OpenedIn(emitted, Range(calls))' = H
      <4>1. \A c : Opened(c)' = Opened(c)
        BY <1>2 DEF Opened
      <4>2. Opened(y) = {}
        BY <2>1 DEF Opened
      <4> QED BY <1>1, <2>10, <3>1, <4>1, <4>2 DEF OpenedIn
    <3>3. DomClosed(G)
      BY <1>4, <1>7
    <3>4. b \in H
      OBVIOUS
    <3>5. IsFlowGraph(cfg)
      BY LiveIsBlocks
    <3> HIDE DEF T
    <3>6. DomClosed(H)
      <4> HIDE DEF G
      <4> QED BY <3>1, <3>3, <3>5, ClosedWithin
    <3>7. ASSUME NEW p \in Range(Tail(pending)) PROVE DomClosed(H \cup {p})
      <4>1. DomClosed(emitted \cup {p})
        BY <1>4, <1>7
      <4>2. H \cup {p} = (emitted \cup {p}) \cup H
        OBVIOUS
      <4> HIDE DEF H
      <4> QED BY <3>6, <4>1, <4>2, DomUnion
    <3> HIDE DEF H
    <3>8. \A c \in {x, y} : /\ c.method = "after" => c.at \in H
                            /\ c.method # "roots" /\ c.method # "region"
      BY <2>1, <3>4
    <3> QED BY <1>2, <2>10, <3>2, <3>6, <3>7, <3>8 DEF FrontClosed
  <2>13. AllCounted' /\ ArmsCared'
    <3>1. /\ \A t : Counted(t, output, Range(calls)) => Counted(t, output, Range(calls))'
          /\ ArmsCared'
      BY <1>1, <1>10, <2>6, FirstLines
    <3>2. \A c \in {x, y} : c.method \notin {"else", "endif", "body"}
      BY <2>1
    <3> QED BY <1>1, <1>8, <2>10, <3>1, <3>2 DEF AllCounted
  <2> QED BY <2>5, <2>8, <2>11, <2>12, <2>13 DEF EmitInv
<1> QED BY <1>1, <1>9, <1>10

\* A labelled block, with the region it leads to.
LEMMA StepTarget == EmitInv /\ Target => EmitInv'
<1> SUFFICES ASSUME EmitInv, Target PROVE EmitInv'
  OBVIOUS
<1> DEFINE t == Head(targets)
           exits(x) == (UNION {Succs(cfg, y) : y \in LoopAt(x).body}) \ LoopAt(x).body
           next == [x \in cfg.blocks |-> IF IsLoop(x) THEN exits(x) ELSE Succs(cfg, x)]
           region == Collected(t, next)
           r == InRpo(region)
           call == [Call("region", t, NoBlock) EXCEPT !.rest = r]
           label == Label(t)
<1>1. /\ walk = "targets" /\ calls = <<>> /\ targets # <<>> /\ targets' = Tail(targets)
      /\ UNCHANGED <<allVars, walk, pending>>
      /\ \/ /\ t \in emitted /\ output' = output /\ emitted' = emitted /\ calls' = calls
         \/ /\ output' = output \o label
            /\ emitted' = emitted \cup {x \in region : ~IsLoop(x)}
            /\ calls' = <<call>>
  BY DEF Target
<1>2. /\ Live' = Live /\ stage' = stage /\ Calls' = Calls /\ Labels' = Labels
      /\ \A b : LoopAt(b)' = LoopAt(b)
  BY <1>1, SameProgram
<1>3. /\ IsVector(targets) /\ Range(targets) \subseteq Live /\ stage = "end" /\ emitted \subseteq Live
      /\ IsVector(output) /\ Analysed
  BY <1>1, VectorIs DEF EmitInv, EmitType
<1>4. /\ IsVector(Tail(targets)) /\ Range(targets) = {t} \cup Range(Tail(targets))
  BY <1>1, <1>3, VectorSplit
<1>5. t \in Live
  BY <1>3, <1>4
<1>6. Tail(targets) \in Seq(Live)
  BY <1>3, <1>4, VectorOver
<1>7. Range(calls) = {}
  BY <1>1, VectorNone
<1>8. /\ \A b \in emitted : Counted(b, output, Range(calls))
      /\ \A b \in Labels \cap Live : b \in Range(targets) \/ Counted(b, output, Range(calls))
  BY <1>1 DEF EmitInv, AllCounted
<1>9. FrontClosed' /\ Range(targets)' = Range(Tail(targets))
  BY <1>1 DEF FrontClosed, Range
<1>10. Analysed'
  BY <1>1, <1>3, StepAnalysed
<1>11. CASE t \in emitted /\ output' = output /\ emitted' = emitted /\ calls' = calls
  <2>1. /\ Stacked' /\ IsVector(output)' /\ ArmsCared'
        /\ \A b : Counted(b, output, Range(calls)) => Counted(b, output, Range(calls))'
    <3>1. UNCHANGED <<allVars, emitted, output, calls>>
      BY <1>1, <1>11
    <3> QED BY <3>1, SameText
  <2>2. EmitType'
    BY <1>1, <1>2, <1>6, <1>11, <2>1 DEF EmitInv, EmitType
  <2>3. Range(calls)' = {}
    BY <1>7, <1>11 DEF Range
  <2> HIDE DEF t
  <2>4. AllCounted'
    BY <1>1, <1>2, <1>4, <1>8, <1>9, <1>11, <2>1, <2>3 DEF AllCounted
  <2> QED BY <1>9, <1>10, <2>1, <2>2, <2>4 DEF EmitInv
<1>12. CASE /\ output' = output \o label
            /\ emitted' = emitted \cup {x \in region : ~IsLoop(x)}
            /\ calls' = <<call>>
  <2> HIDE DEF t, next
  <2>1. t \in region /\ region \subseteq Live
    BY <1>5, CollectedIs
  <2> HIDE DEF region
  <2>2. r \in Seq(Live) /\ Range(r) = region
    <3>1. phase = "done"
      BY <1>3, AnalysisOver
    <3> QED BY <1>3, <2>1, <3>1, RpoRange
  <2> HIDE DEF r
  <2>3. call.method = "region" /\ call.rest = r /\ call \in Calls
    <3>1. <<>> \in Seq(Live)
      BY EmptySeq
    <3>2. /\ call.method = "region" /\ call.rest = r
          /\ call \in [method : Methods, at : Live, loop : cfg.blocks \cup {NoBlock},
                       from : Nat, mid : Nat, rest : Seq(Live)]
      BY <1>5, <2>2, <3>1 DEF Call, Methods
    <3> HIDE DEF call
    <3> QED BY <3>2 DEF Calls
  <2> HIDE DEF call
  <2>4. Due(call) = region /\ ~Marked(call)
    BY <2>2, <2>3 DEF Due, Marked
  <2>5. IsVector(<<call>>) /\ Range(<<call>>) = {call}
    BY VectorOne
  <2>6. Stacked' /\ calls' \in Seq(Calls)
    <3>1. PICK u, W : u = call /\ W = {}
      OBVIOUS
    <3>2. /\ calls = <<>> /\ UNCHANGED allVars /\ stage = "end"
          /\ u \in Calls /\ ~Marked(u) /\ W \subseteq Calls /\ \A c \in W : ~Marked(c)
          /\ IsVector(calls') /\ Range(calls') = {u} \cup W
      BY <1>1, <1>3, <1>12, <2>3, <2>4, <2>5, <3>1
    <3> QED BY ONLY <3>2, EmitInv, NewCalls
  <2>7. IsVector(label) /\ NoIf(label)
    BY LabelPrints DEF Tells
  <2> HIDE DEF label
  <2>8. IsVector(output') /\ WorkKept(output, output')
    BY <1>3, <1>12, <2>7, MarksAppend
  <2>9. Range(calls)' = {call} /\ Range(calls') = {call} /\ IsVector(output)'
    BY <1>12, <2>5, <2>8 DEF Range, IsVector
  <2>10. EmitType'
    BY <1>1, <1>2, <1>3, <1>6, <1>12, <2>1, <2>6, <2>9 DEF EmitInv, EmitType
  <2>11. AllCounted' /\ ArmsCared'
    <3>1. /\ \A b : Counted(b, output, Range(calls)) => Counted(b, output, Range(calls))'
          /\ ArmsCared'
      BY <1>1, <1>12, <2>7, FirstLines
    <3>2. \A b \in region : Counted(b, output, Range(calls))'
      <4>1. \A b \in region : Counted(b, output', Range(calls'))
        BY <2>4, <2>9 DEF Cared, Counted
      <4> QED BY <1>1, <4>1, SameCared
    <3> QED BY <1>1, <1>2, <1>4, <1>8, <1>9, <1>12, <2>1, <2>3, <2>9, <3>1, <3>2 DEF AllCounted
  <2> QED BY <1>9, <1>10, <2>6, <2>10, <2>11 DEF EmitInv
<1> QED BY <1>1, <1>11, <1>12

\* Every step keeps the invariant.
LEMMA EmitKeeps == EmitInv /\ [ENext]_emissionVars => EmitInv'
<1>1. CASE UNCHANGED emissionVars
  <2> SUFFICES ASSUME EmitInv PROVE EmitInv'
    OBVIOUS
  <2>1. /\ UNCHANGED <<allVars, walk, pending, targets, emitted, output, calls>>
    BY <1>1 DEF emissionVars, emitVars
  <2>2. /\ Live' = Live /\ stage' = stage /\ Calls' = Calls /\ Labels' = Labels
        /\ \A S : DomClosed(S)' <=> DomClosed(S)
        /\ \A b : LoopAt(b)' = LoopAt(b)
    BY <2>1, SameProgram
  <2>3. /\ Analysed' /\ Stacked' /\ IsVector(output)' /\ ArmsCared'
        /\ OpenedIn(emitted, Range(calls))' = OpenedIn(emitted, Range(calls))
        /\ \A b : Counted(b, output, Range(calls)) => Counted(b, output, Range(calls))'
    BY <2>1, SameText
  <2>4. EmitType'
    BY <2>1, <2>2, <2>3 DEF EmitInv, EmitType
  <2>5. /\ Range(pending)' = Range(pending) /\ Range(calls)' = Range(calls)
        /\ Range(targets)' = Range(targets)
    BY <2>1 DEF Range
  <2>6. FrontClosed'
    BY <2>1, <2>2, <2>3, <2>5 DEF EmitInv, FrontClosed
  <2>7. AllCounted'
    BY <2>1, <2>2, <2>3, <2>5 DEF EmitInv, AllCounted
  <2> QED BY <2>3, <2>4, <2>6, <2>7 DEF EmitInv
<1> QED BY <1>1, StepAnalysis, StepStart, StepPopEmitted, StepPopBlock, StepAfter,
           StepLeftovers, StepTarget, StepPrinted, StepEmit DEF ENext

-----------------------------------------------------------------------------

\* In every run of the emitter, on every program, the calls under way wait for
\* each other in the order of the positions they have kept, and the blocks
\* printed or begun with are accounted for.
THEOREM EmissionIsSteady == ESpec => []EmitInv
<1>1. EmitInv /\ [][ENext]_emissionVars => []EmitInv
  BY EmitKeeps, PTL
<1> QED BY <1>1, EmitBegins, PTL DEF ESpec

\* What pseudo_code prints is closed under dominators whenever it takes a block
\* from the queue, so it never puts one back.
THEOREM NoBlockIsPutBack == ESpec => []NeverDeferred
<1>1. EmitInv => NeverDeferred
  <2> SUFFICES ASSUME EmitInv, Popping, Head(pending) \notin emitted,
                      idom[Head(pending)] # Head(pending), idom[Head(pending)] \notin emitted
               PROVE  FALSE
    BY DEF NeverDeferred, IsDeferred
  <2> DEFINE b == Head(pending)
             d == idom[b]
  <2>1. walk = "blocks" /\ calls = <<>> /\ pending # <<>>
    BY DEF Popping
  <2>2. IsVector(pending) /\ Range(pending) \subseteq Live /\ stage = "end"
    BY <2>1, VectorIs DEF EmitInv, EmitType
  <2>3. b \in Range(pending) /\ b \in Live
    BY <2>1, <2>2, VectorSplit
  <2>4. DomClosed(emitted \cup {b})
    <3>1. OpenedIn(emitted, Range(calls)) = emitted
      BY <2>1, VectorNone DEF OpenedIn
    <3> HIDE DEF b
    <3> QED BY <2>1, <2>3, <3>1 DEF EmitInv, FrontClosed
  <2>5. Built /\ phase = "done" /\ b \in cfg.blocks
    BY <2>2, <2>3, AnalysisOver, LiveIsBlocks DEF EmitInv, Analysed
  <2>6. b # cfg.entry
    BY DEF EmitInv, Analysed, Built, Tree, IdomType
  <2>7. /\ Len(post_order) \in Nat /\ visited = Live
    BY <2>5, OrderFacts DEF Built
  <2> HIDE DEF b
  <2>8. Processed(b)
    BY <2>3, <2>5, <2>6, <2>7 DEF Built, Tree, Solved
  <2>9. d \in visited
    BY <2>5, <2>6, <2>8 DEF Built, Tree, Ascends
  <2>10. d \in IdomChain(b)
    BY <2>5, <2>8, ChainIsLeast DEF Built, Dfs, DfsType, Tree, IdomType
  <2>11. ByPaths(d, b)
    BY <2>3, <2>5, <2>7, <2>10, ChainIsSound
  <2>12. d \in cfg.blocks \ (emitted \cup {b})
    BY <2>7, <2>9, LiveIsBlocks DEF b
  <2> QED BY <2>4, <2>11, <2>12 DEF ByPaths, DomClosed
<1> QED BY <1>1, EmissionIsSteady, PTL

\* When the text is complete every labelled block that can be reached, headers
\* of loops included, has been printed or is suppressed, unless it belongs to a
\* loop and paths reach it only through blocks that can leave the loop, or it is
\* a branch of a conditional that turns away from a loop and is not in the text.
THEOREM NoTargetIsLost == ESpec => []TargetsArePrinted
<1>1. EmitInv => TargetsArePrinted
  <2> SUFFICES ASSUME EmitInv, walk = "text", NEW b \in Labels \cap Reachable
               PROVE  \/ IsTold(b)
                      \/ \E l \in loops : b \in l.body \ Unbroken(l)
                      \/ \E l \in loops, f \in ifs :
                            /\ b \in l.body \cap Arms(f)
                            /\ TurnsAway(l, f)
                            /\ Line("if", f.header) \notin Range(output)
    BY DEF TargetsArePrinted
  <2>1. Range(calls) = {}
    BY VectorNone DEF EmitInv, EmitType
  <2>2. Counted(b, output, {})
    <3>1. b \in Labels \cap Live
      BY DEF Reachable, Live
    <3> QED BY <2>1, <3>1 DEF EmitInv, AllCounted
  <2>3. CASE Told(b, output)
    BY <2>3 DEF Told, Silent, Shows, Work, IsTold
  <2>4. CASE Stray(b) /\ ~Told(b, output)
    <3>1. PICK l \in loops, h \in cfg.blocks :
             IsIf(h) /\ b \in l.body \cap Arms(IfAt(h)) /\ TurnsAway(l, IfAt(h))
      BY <2>4 DEF Stray
    <3>2. IfAt(h) \in ifs /\ IfAt(h).header = h
      BY <3>1, IfAtIs DEF EmitInv
    <3>3. ~HasIf(h, output)
      BY <2>1, <2>4, <3>1 DEF EmitInv, ArmsCared, Cared
    <3>4. Line("if", h) \notin Range(output)
      BY <3>1, <3>3 DEF HasIf
    <3> QED BY <3>1, <3>2, <3>4
  <2> QED BY <2>2, <2>3, <2>4 DEF Counted, Cared
<1> QED BY <1>1, EmissionIsSteady, PTL

=============================================================================

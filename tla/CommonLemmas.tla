---------------------------- MODULE CommonLemmas ----------------------------
(***************************************************************************)
(* Facts the proofs about several components rest on:                      *)
(*   - least elements and induction over an interval of naturals, as       *)
(*     statements about sets, which the provers can instantiate;           *)
(*   - bounded iteration, the form in which the models write a search that *)
(*     the code runs until nothing is added, and with it Reach (paths      *)
(*     through blocks) and Reached (paths through instructions);           *)
(*   - a Vec used as a stack or a queue: what popping, pushing, extending  *)
(*     and filtering do to the elements it holds and to the absence of     *)
(*     duplicates;                                                         *)
(*   - sorting: a finite set can be put in any order, Sorted(S) has all of *)
(*     S;                                                                  *)
(*   - PostOrder: the search leaves the entry last, and has left whatever  *)
(*     a block of its result leads to.                                     *)
(* The proofs about worklists and stacks cite these and never reason about *)
(* SubSeq, Append, Tail or \o themselves.                                  *)
(***************************************************************************)
EXTENDS CodePaths, SequenceTheorems, FiniteSetTheorems, WellFoundedInduction, TLAPS

-----------------------------------------------------------------------------
(* Induction and iteration *)

\* A set of naturals that is not empty has a least element.
LEMMA LeastNatural ==
    ASSUME NEW S, S \subseteq Nat, S # {}
    PROVE  \E x \in S : \A y \in S : x <= y
<1> DEFINE R == OpToRel(<, Nat)
<1>1. IsWellFoundedOn(R, Nat)
  BY NatLessThanWellFounded
<1>2. \A x \in Nat, y \in Nat : y < x => <<y, x>> \in R
  BY DEF OpToRel
<1> HIDE DEF R
<1>3. PICK x \in S : \A y \in S : ~(<<y, x>> \in R)
  BY <1>1, WFMin
<1>4. ASSUME NEW y \in S PROVE x <= y
  <2>1. x \in Nat /\ y \in Nat
    OBVIOUS
  <2>2. ~(y < x)
    BY <1>2, <1>3, <2>1
  <2> QED BY <2>1, <2>2
<1> QED BY <1>4

\* A bounded set of naturals that is not empty has a greatest element.
LEMMA GreatestNatural ==
    ASSUME NEW n \in Nat, NEW S, S \subseteq 1..n, S # {}
    PROVE  \E x \in S : \A y \in S : y <= x
<1> DEFINE T == {n - x : x \in S}
<1>1. T \subseteq Nat /\ T # {}
  <2>1. \A x \in S : n - x \in Nat
    OBVIOUS
  <2> QED BY <2>1
<1>2. PICK t \in T : \A u \in T : t <= u
  <2> HIDE DEF T
  <2> QED BY <1>1, LeastNatural
<1>3. PICK x \in S : t = n - x
  BY <1>2
<1>4. ASSUME NEW y \in S PROVE y <= x
  <2>1. n - x <= n - y
    BY <1>2, <1>3
  <2>2. x \in Nat /\ y \in Nat
    OBVIOUS
  <2> QED BY <2>1, <2>2
<1> QED BY <1>4

\* Induction over 0..n, with the set of the numbers that have the property in
\* place of the property.
LEMMA Induct ==
    ASSUME NEW n \in Nat, NEW P, 0 \in P, \A k \in 1..n : k - 1 \in P => k \in P
    PROVE  0..n \subseteq P
<1> SUFFICES ASSUME (0..n) \ P # {} PROVE FALSE
  OBVIOUS
<1>1. (0..n) \ P \subseteq Nat
  OBVIOUS
<1>2. PICK x \in (0..n) \ P : \A y \in (0..n) \ P : x <= y
  BY <1>1, LeastNatural
<1>3. x \in 1..n /\ x - 1 \in 0..n
  BY <1>2
<1>4. x - 1 \in P
  BY <1>2, <1>3
<1> QED BY <1>2, <1>3, <1>4

\* A recursion over 0..n whose value at k is computed from k and the value at
\* k - 1 has a solution.
LEMMA IterationExists ==
    ASSUME NEW T, NEW base \in T, NEW n \in Nat, NEW f \in [1..n -> [T -> T]]
    PROVE  \E R \in [0..n -> T] :
              R[0] = base /\ \A k \in 1..n : R[k] = f[k][R[k - 1]]
<1> DEFINE Eq(m, R) == R[0] = base /\ \A k \in 1..m : R[k] = f[k][R[k - 1]]
           P == {m \in 0..n : \E R \in [0..m -> T] : Eq(m, R)}
<1>1. 0 \in P
  <2> DEFINE Z == [k \in 0..0 |-> base]
  <2>1. Z \in [0..0 -> T] /\ Eq(0, Z)
    OBVIOUS
  <2> HIDE DEF Z, Eq
  <2> QED BY <2>1
<1>2. ASSUME NEW m \in 1..n, m - 1 \in P PROVE m \in P
  <2>1. PICK R \in [0..(m - 1) -> T] : Eq(m - 1, R)
    BY <1>2
  <2> DEFINE S == [k \in 0..m |-> IF k = m THEN f[m][R[m - 1]] ELSE R[k]]
  <2>2. S \in [0..m -> T]
    <3>1. R[m - 1] \in T
      OBVIOUS
    <3>2. f[m][R[m - 1]] \in T
      BY <3>1
    <3>3. ASSUME NEW k \in 0..m, k # m PROVE R[k] \in T
      BY <3>3
    <3> QED BY <3>2, <3>3
  <2>3. Eq(m, S)
    <3>1. S[0] = base
      BY <2>1
    <3>2. ASSUME NEW k \in 1..m PROVE S[k] = f[k][S[k - 1]]
      <4>1. k - 1 \in 0..m /\ k - 1 # m /\ S[k - 1] = R[k - 1]
        OBVIOUS
      <4>2. CASE k = m
        BY <4>1, <4>2
      <4>3. CASE k # m
        <5>1. k \in 1..(m - 1) /\ S[k] = R[k]
          BY <4>3
        <5> QED BY <2>1, <4>1, <5>1
      <4> QED BY <4>2, <4>3
    <3> QED BY <3>1, <3>2
  <2> HIDE DEF S, Eq
  <2> QED BY <2>2, <2>3
<1>3. 0..n \subseteq P
  <2> HIDE DEF P, Eq
  <2> QED BY <1>1, <1>2, Induct
<1>4. n \in P
  BY <1>3
<1> QED BY <1>4

-----------------------------------------------------------------------------
(* Searches *)

\* Q[k] is what a search has found after k of its n rounds.
IsSearch(Q, B, n, S, next) ==
    /\ Rounds(n, S, next) = Q[n]
    /\ Q[0] = S
    /\ \A k \in 1..n : Q[k] = Q[k - 1] \cup UNION {next[x] : x \in Q[k - 1]}
    /\ \A k \in 0..n : Q[k] \in SUBSET B

\* Every search has its sequence of sets.
LEMMA RoundsUnfold ==
    ASSUME NEW B, NEW n \in Nat, NEW next \in [B -> SUBSET B], NEW S \in SUBSET B
    PROVE  \E Q : IsSearch(Q, B, n, S, next)
<1> DEFINE Step(q) == q \cup UNION {next[x] : x \in q}
           f == [k \in 1..n |-> [q \in SUBSET B |-> Step(q)]]
           Solves(R) == R = [k \in 0..n |-> IF k = 0 THEN S ELSE Step(R[k - 1])]
           Q == CHOOSE R : Solves(R)
<1>1. n \in Nat
  OBVIOUS
<1>2. \A q \in SUBSET B : Step(q) \in SUBSET B
  OBVIOUS
<1>3. Rounds(n, S, next) = Q[n]
  BY DEF Rounds
<1> HIDE DEF Step
<1>4. Solves(Q)
  <2> DEFINE T == SUBSET B
  <2>1. f \in [1..n -> [T -> T]] /\ S \in T
    BY <1>2
  <2> HIDE DEF f, T
  <2>2. PICK R \in [0..n -> T] :
            R[0] = S /\ \A k \in 1..n : R[k] = f[k][R[k - 1]]
    BY <1>1, <2>1, IterationExists
  <2>3. ASSUME NEW k \in 1..n PROVE f[k][R[k - 1]] = Step(R[k - 1])
    <3>1. R[k - 1] \in T
      BY <1>1
    <3> QED BY <3>1 DEF f, T
  <2>4. Solves(R)
    <3>1. \A k \in 0..n : R[k] = IF k = 0 THEN S ELSE Step(R[k - 1])
      <4> SUFFICES ASSUME NEW k \in 0..n
                   PROVE  R[k] = IF k = 0 THEN S ELSE Step(R[k - 1])
        OBVIOUS
      <4>1. CASE k = 0
        BY <2>2, <4>1
      <4>2. CASE k # 0
        <5>1. k \in 1..n
          BY <1>1, <4>2
        <5> QED BY <2>2, <2>3, <4>2, <5>1
      <4> QED BY <4>1, <4>2
    <3> QED BY <3>1
  <2> HIDE DEF Solves
  <2> QED BY <2>4
<1> HIDE DEF Q
<1>5. Q[0] = S /\ \A k \in 1..n : Q[k] = Step(Q[k - 1])
  BY <1>1, <1>4
<1> HIDE DEF Solves
<1>6. \A k \in 0..n : Q[k] \in SUBSET B
  <2> DEFINE P == {k \in 0..n : Q[k] \in SUBSET B}
  <2>1. 0 \in P
    BY <1>1, <1>5
  <2>2. ASSUME NEW k \in 1..n, k - 1 \in P PROVE k \in P
    BY <1>2, <1>5, <2>2
  <2> HIDE DEF P
  <2>3. 0..n \subseteq P
    BY <1>1, <2>1, <2>2, Induct
  <2> QED BY <2>3 DEF P
<1>7. IsSearch(Q, B, n, S, next)
  BY <1>3, <1>5, <1>6 DEF IsSearch, Step
<1> QED BY <1>7

\* However many rounds a search takes, it stays in a set that has its start
\* and is closed under its edges.
LEMMA RoundsWithin ==
    ASSUME NEW B, NEW n \in Nat, NEW next \in [B -> SUBSET B], NEW S \in SUBSET B,
           NEW X, S \subseteq X, \A x \in X \cap B : next[x] \subseteq X
    PROVE  Rounds(n, S, next) \subseteq X
<1>0. PICK Q : IsSearch(Q, B, n, S, next)
  BY RoundsUnfold
<1>1. /\ Rounds(n, S, next) = Q[n]
      /\ Q[0] = S
      /\ \A k \in 1..n : Q[k] = Q[k - 1] \cup UNION {next[x] : x \in Q[k - 1]}
      /\ \A k \in 0..n : Q[k] \in SUBSET B
  BY <1>0 DEF IsSearch
<1> DEFINE P == {k \in 0..n : Q[k] \subseteq X}
<1>2. 0 \in P
  BY <1>1
<1>3. ASSUME NEW k \in 1..n, k - 1 \in P PROVE k \in P
  <2>1. /\ Q[k] = Q[k - 1] \cup UNION {next[x] : x \in Q[k - 1]}
        /\ Q[k - 1] \in SUBSET B /\ Q[k - 1] \subseteq X
    BY <1>1, <1>3
  <2>2. Q[k] \subseteq X
    BY <2>1
  <2>3. k \in 0..n
    OBVIOUS
  <2> QED BY <2>2, <2>3
<1> HIDE DEF P
<1>4. n \in P
  BY <1>2, <1>3, Induct
<1> QED BY <1>1, <1>4 DEF P

\* A search starts with its start, and a further round adds what the edges
\* lead to.
LEMMA RoundsStep ==
    ASSUME NEW B, NEW n \in Nat, NEW next \in [B -> SUBSET B], NEW S \in SUBSET B
    PROVE  /\ Rounds(0, S, next) = S
           /\ Rounds(n + 1, S, next) =
                 Rounds(n, S, next) \cup UNION {next[x] : x \in Rounds(n, S, next)}
           /\ Rounds(n, S, next) \in SUBSET B
<1>1. PICK Q : IsSearch(Q, B, n, S, next)
  BY RoundsUnfold
<1>2. PICK R : IsSearch(R, B, n + 1, S, next)
  <2>1. n + 1 \in Nat
    OBVIOUS
  <2> QED BY <2>1, RoundsUnfold
<1>3. PICK Z : IsSearch(Z, B, 0, S, next)
  BY RoundsUnfold
<1>4. Rounds(0, S, next) = S
  BY <1>3 DEF IsSearch
<1> DEFINE P == {k \in 0..n : Q[k] = R[k]}
<1>5. 0 \in P
  BY <1>1, <1>2 DEF IsSearch
<1>6. ASSUME NEW k \in 1..n, k - 1 \in P PROVE k \in P
  <2>1. k \in 1..(n + 1) /\ k \in 0..n
    OBVIOUS
  <2>2. /\ Q[k] = Q[k - 1] \cup UNION {next[x] : x \in Q[k - 1]}
        /\ R[k] = R[k - 1] \cup UNION {next[x] : x \in R[k - 1]}
    BY <1>1, <1>2, <2>1 DEF IsSearch
  <2>3. Q[k - 1] = R[k - 1]
    BY <1>6
  <2> QED BY <2>1, <2>2, <2>3
<1> HIDE DEF P
<1>7. n \in P
  BY <1>5, <1>6, Induct
<1>8. /\ Rounds(n, S, next) = Q[n] /\ Q[n] \in SUBSET B
      /\ Rounds(n + 1, S, next) = R[n + 1]
      /\ R[n + 1] = R[(n + 1) - 1] \cup UNION {next[x] : x \in R[(n + 1) - 1]}
  BY <1>1, <1>2 DEF IsSearch
<1>9. (n + 1) - 1 = n /\ Q[n] = R[n]
  BY <1>7 DEF P
<1> QED BY <1>4, <1>8, <1>9

\* A search that takes as many rounds as there are nodes finds the least set
\* that has its start and is closed under its edges.
LEMMA ClosureIsLeast ==
    ASSUME NEW B, IsFiniteSet(B), NEW next \in [B -> SUBSET B], NEW S \in SUBSET B
    PROVE  /\ S \subseteq Closure(S, next)
           /\ Closure(S, next) \subseteq B
           /\ \A x \in Closure(S, next) : next[x] \subseteq Closure(S, next)
           /\ \A X : (S \subseteq X /\ \A x \in X \cap B : next[x] \subseteq X)
                       => Closure(S, next) \subseteq X
<1> DEFINE n == Cardinality(B)
           Step(q) == q \cup UNION {next[x] : x \in q}
<1>1. n \in Nat
  BY FS_CardinalityType
<1>2. \A q \in SUBSET B : Step(q) \in SUBSET B
  OBVIOUS
<1>3. Closure(S, next) = Rounds(n, S, next)
  BY DEF Closure
<1> HIDE DEF n
<1>4. PICK Q : IsSearch(Q, B, n, S, next)
  BY <1>1, RoundsUnfold
<1>5. /\ Rounds(n, S, next) = Q[n] /\ Q[0] = S
      /\ \A k \in 1..n : Q[k] = Step(Q[k - 1])
  BY <1>4 DEF IsSearch
<1> HIDE DEF Step
<1>6. \A k \in 0..n : Q[k] \in SUBSET B /\ S \subseteq Q[k]
  <2> DEFINE P == {k \in 0..n : Q[k] \in SUBSET B /\ S \subseteq Q[k]}
  <2>1. 0 \in P
    BY <1>1, <1>5
  <2>2. ASSUME NEW k \in 1..n, k - 1 \in P PROVE k \in P
    <3>1. Q[k] = Step(Q[k - 1]) /\ Q[k - 1] \in SUBSET B /\ S \subseteq Q[k - 1]
      BY <1>5, <2>2
    <3> QED BY <1>2, <3>1 DEF Step
  <2> HIDE DEF P
  <2>3. 0..n \subseteq P
    BY <1>1, <2>1, <2>2, Induct
  <2> QED BY <2>3 DEF P
<1>7. Step(Q[n]) = Q[n]
  <2> DEFINE P == {k \in 0..n : Cardinality(Q[k]) >= k \/ Step(Q[k]) = Q[k]}
  <2>1. 0 \in P
    <3>1. IsFiniteSet(S) /\ Cardinality(S) \in Nat
      BY FS_Subset, FS_CardinalityType
    <3> QED BY <1>1, <1>5, <3>1
  <2>2. ASSUME NEW k \in 1..n, k - 1 \in P PROVE k \in P
    <3>1. /\ k - 1 \in 0..n /\ Q[k] = Step(Q[k - 1])
          /\ Q[k - 1] \in SUBSET B /\ Q[k] \in SUBSET B
      BY <1>1, <1>5, <1>6
    <3>2. CASE Step(Q[k - 1]) = Q[k - 1]
      BY <3>1, <3>2
    <3>3. CASE Step(Q[k - 1]) # Q[k - 1] /\ Cardinality(Q[k - 1]) >= k - 1
      <4>1. Q[k - 1] \in SUBSET Q[k] /\ Q[k - 1] # Q[k]
        BY <3>1, <3>3 DEF Step
      <4>2. IsFiniteSet(Q[k])
        BY <3>1, FS_Subset
      <4>3. /\ Cardinality(Q[k - 1]) <= Cardinality(Q[k])
            /\ Cardinality(Q[k - 1]) # Cardinality(Q[k])
        BY <4>1, <4>2, FS_Subset
      <4>4. Cardinality(Q[k - 1]) \in Nat /\ Cardinality(Q[k]) \in Nat
        BY <4>1, <4>2, FS_Subset, FS_CardinalityType
      <4> HIDE DEF P
      <4>5. Cardinality(Q[k]) >= k
        BY <3>3, <4>3, <4>4
      <4> QED BY <4>5 DEF P
    <3> QED BY <2>2, <3>2, <3>3
  <2> HIDE DEF P
  <2>3. n \in P
    BY <1>1, <2>1, <2>2, Induct
  <2>4. CASE Cardinality(Q[n]) >= n
    <3>1. Q[n] \in SUBSET B
      BY <1>1, <1>6
    <3>2. Cardinality(Q[n]) <= n /\ (n = Cardinality(Q[n]) => B = Q[n])
      BY <3>1, FS_Subset DEF n
    <3>3. Cardinality(Q[n]) \in Nat
      BY <3>1, FS_Subset, FS_CardinalityType
    <3>4. Q[n] = B
      BY <1>1, <2>4, <3>2, <3>3
    <3> QED BY <1>2, <3>4 DEF Step
  <2>5. CASE Step(Q[n]) = Q[n]
    BY <2>5
  <2> QED BY <2>3, <2>4, <2>5 DEF P
<1>8. ASSUME NEW X, S \subseteq X, \A x \in X \cap B : next[x] \subseteq X
      PROVE  Q[n] \subseteq X
  <2>1. Rounds(n, S, next) \subseteq X
    BY <1>1, <1>8, RoundsWithin
  <2>2. Rounds(n, S, next) = Q[n]
    BY <1>5
  <2> QED BY <2>1, <2>2
<1>9. Q[n] \in SUBSET B /\ S \subseteq Q[n]
  BY <1>1, <1>6
<1>10. \A x \in Q[n] : next[x] \subseteq Q[n]
  BY <1>7 DEF Step
<1> QED BY <1>3, <1>5, <1>8, <1>9, <1>10

\* Successors of a block of a well-formed graph are blocks of it.
LEMMA SuccsAreBlocks ==
    ASSUME NEW g, IsFlowGraph(g), NEW b \in g.blocks
    PROVE  Succs(g, b) \subseteq g.blocks
<1>1. g.succ[b] \in Seq(g.blocks)
  BY DEF IsFlowGraph
<1>2. g.succ[b] \in [1..Len(g.succ[b]) -> g.blocks]
  BY <1>1, LenProperties
<1> QED BY <1>2 DEF Succs, Range

\* Reach is the least set of blocks that holds the start and follows every
\* edge, short of the blocks it must avoid.
LEMMA ReachIsLeast ==
    ASSUME NEW g, IsFlowGraph(g), NEW b \in g.blocks, NEW W
    PROVE  /\ Reach(g, b, W) \subseteq g.blocks \ W
           /\ b \notin W => b \in Reach(g, b, W)
           /\ \A x \in Reach(g, b, W) : Succs(g, x) \ W \subseteq Reach(g, b, W)
           /\ \A X : (/\ b \notin W => b \in X
                     /\ \A x \in X \cap g.blocks : Succs(g, x) \ W \subseteq X)
                    => Reach(g, b, W) \subseteq X
<1> DEFINE B == g.blocks
           next == [x \in B |-> Succs(g, x) \ W]
           S == {b} \ W
<1>1. IsFiniteSet(B) /\ next \in [B -> SUBSET B] /\ S \in SUBSET B
  BY SuccsAreBlocks DEF IsFlowGraph
<1>2. Reach(g, b, W) = Closure(S, next)
  BY DEF Reach
<1>3. \A x \in B : next[x] = Succs(g, x) \ W
  OBVIOUS
<1> HIDE DEF B, next, S
<1>4. /\ S \subseteq Closure(S, next)
      /\ Closure(S, next) \subseteq B
      /\ \A x \in Closure(S, next) : next[x] \subseteq Closure(S, next)
      /\ \A X : (S \subseteq X /\ \A x \in X \cap B : next[x] \subseteq X)
                  => Closure(S, next) \subseteq X
  BY <1>1, ClosureIsLeast
<1>5. ASSUME NEW X, b \notin W => b \in X,
             \A x \in X \cap B : Succs(g, x) \ W \subseteq X
      PROVE  Closure(S, next) \subseteq X
  <2>1. S \subseteq X /\ \A x \in X \cap B : next[x] \subseteq X
    BY <1>3, <1>5 DEF S
  <2> QED BY <1>4, <2>1
<1>6. Closure(S, next) \subseteq B \ W
  <2>1. /\ b \notin W => b \in B \ W
        /\ \A x \in (B \ W) \cap B : Succs(g, x) \ W \subseteq B \ W
    BY SuccsAreBlocks DEF B
  <2> QED BY <1>5, <2>1
<1>7. b \notin W => b \in Closure(S, next)
  BY <1>4 DEF S
<1>8. \A x \in Closure(S, next) : Succs(g, x) \ W \subseteq Closure(S, next)
  BY <1>3, <1>4
<1> QED BY <1>2, <1>5, <1>6, <1>7, <1>8 DEF B

-----------------------------------------------------------------------------
(* Paths through instructions *)

\* The instructions are the positions of the blocks' code.
LEMMA PcsShape ==
    ASSUME NEW g, IsFlowGraph(g), HasCode(g)
    PROVE  /\ \A b \in g.blocks : \A i \in 1..Len(g.code[b]) : <<b, i>> \in Pcs(g)
           /\ \A pc \in Pcs(g) : /\ pc[1] \in g.blocks
                                 /\ pc[2] \in 1..Len(g.code[pc[1]])
                                 /\ pc = <<pc[1], pc[2]>>
           /\ \A b \in g.blocks : Len(g.code[b]) \in Nat \ {0}
           /\ \A b \in g.blocks : <<b, 1>> \in Pcs(g)
           /\ IsFiniteSet(Pcs(g))
<1>1. \A b \in g.blocks : Len(g.code[b]) \in Nat \ {0} /\ DOMAIN g.code[b] = 1..Len(g.code[b])
  BY DEF HasCode
<1>2. \A b \in g.blocks : \A i \in 1..Len(g.code[b]) : <<b, i>> \in Pcs(g)
  BY <1>1 DEF Pcs
<1>3. \A pc \in Pcs(g) : /\ pc[1] \in g.blocks /\ pc[2] \in 1..Len(g.code[pc[1]])
                         /\ pc = <<pc[1], pc[2]>>
  BY <1>1 DEF Pcs
<1>4. \A b \in g.blocks : <<b, 1>> \in Pcs(g)
  BY <1>1, <1>2
<1>5. IsFiniteSet(Pcs(g))
  <2> DEFINE B == g.blocks
             Row(b) == {b} \X DOMAIN g.code[b]
             F == {Row(b) : b \in B}
             row == [b \in B |-> Row(b)]
  <2>1. IsFiniteSet(B)
    BY DEF IsFlowGraph
  <2>2. \A b \in B : IsFiniteSet(Row(b))
    <3> SUFFICES ASSUME NEW b \in B PROVE IsFiniteSet(Row(b))
      OBVIOUS
    <3>1. IsFiniteSet({b})
      BY FS_Singleton
    <3>2. DOMAIN g.code[b] = 1..Len(g.code[b]) /\ Len(g.code[b]) \in Int /\ 1 \in Int
      BY <1>1
    <3>3. IsFiniteSet(DOMAIN g.code[b])
      BY <3>2, FS_Interval
    <3> QED BY <3>1, <3>3, FS_Product
  <2>3. Pcs(g) = UNION F
    BY DEF Pcs
  <2> HIDE DEF B, Row
  <2>4. row \in Surjection(B, F)
    BY DEF Surjection
  <2> HIDE DEF row, F
  <2>5. IsFiniteSet(F)
    BY <2>1, <2>4, FS_Surjection
  <2>6. \A T \in F : IsFiniteSet(T)
    BY <2>2 DEF F
  <2> QED BY <2>3, <2>5, <2>6, FS_UNION
<1> QED BY <1>1, <1>2, <1>3, <1>4, <1>5

\* An instruction is followed by instructions.
LEMMA NextPcsShape ==
    ASSUME NEW g, IsFlowGraph(g), HasCode(g), NEW pc \in Pcs(g)
    PROVE  NextPcs(g, pc) \subseteq Pcs(g)
<1>1. /\ pc[1] \in g.blocks /\ pc[2] \in 1..Len(g.code[pc[1]])
      /\ Len(g.code[pc[1]]) \in Nat \ {0}
      /\ \A i \in 1..Len(g.code[pc[1]]) : <<pc[1], i>> \in Pcs(g)
      /\ \A b \in g.blocks : <<b, 1>> \in Pcs(g)
  BY PcsShape
<1>2. CASE pc[2] < Len(g.code[pc[1]])
  <2>1. NextPcs(g, pc) = {<<pc[1], pc[2] + 1>>}
    BY <1>2 DEF NextPcs
  <2>2. pc[2] + 1 \in 1..Len(g.code[pc[1]])
    BY <1>1, <1>2
  <2> QED BY <1>1, <2>1, <2>2
<1>3. CASE ~(pc[2] < Len(g.code[pc[1]]))
  <2>1. NextPcs(g, pc) = Succs(g, pc[1]) \X {1}
    BY <1>3 DEF NextPcs
  <2>2. Succs(g, pc[1]) \subseteq g.blocks
    BY <1>1, SuccsAreBlocks
  <2> QED BY <1>1, <2>1, <2>2
<1> QED BY <1>2, <1>3

\* Reached is the least set of instructions that has the start and goes on
\* from every one that leaves r alone.
LEMMA ReachedIsLeast ==
    ASSUME NEW g, IsFlowGraph(g), HasCode(g), NEW S \in SUBSET Pcs(g), NEW r
    PROVE  /\ S \subseteq Reached(g, S, r)
           /\ Reached(g, S, r) \subseteq Pcs(g)
           /\ \A pc \in Reached(g, S, r) :
                 r \notin At(g, pc).defs => NextPcs(g, pc) \subseteq Reached(g, S, r)
           /\ \A X : (/\ S \subseteq X
                     /\ \A pc \in X \cap Pcs(g) :
                           r \notin At(g, pc).defs => NextPcs(g, pc) \subseteq X)
                    => Reached(g, S, r) \subseteq X
<1> DEFINE B == Pcs(g)
           next == [pc \in B |-> IF r \in At(g, pc).defs THEN {} ELSE NextPcs(g, pc)]
<1>1. \A pc \in B : NextPcs(g, pc) \subseteq B
  BY NextPcsShape
<1>2. IsFiniteSet(B)
  BY PcsShape
<1>3. next \in [B -> SUBSET B]
  BY <1>1
<1>4. Reached(g, S, r) = Closure(S, next)
  BY DEF Reached
<1>5. \A pc \in B : /\ r \in At(g, pc).defs => next[pc] = {}
                    /\ r \notin At(g, pc).defs => next[pc] = NextPcs(g, pc)
  OBVIOUS
<1>6. S \in SUBSET B
  OBVIOUS
<1> HIDE DEF B, next
<1>7. /\ S \subseteq Closure(S, next)
      /\ Closure(S, next) \subseteq B
      /\ \A x \in Closure(S, next) : next[x] \subseteq Closure(S, next)
      /\ \A X : (S \subseteq X /\ \A x \in X \cap B : next[x] \subseteq X)
                  => Closure(S, next) \subseteq X
  BY <1>2, <1>3, <1>6, ClosureIsLeast
<1>8. \A pc \in Closure(S, next) :
          r \notin At(g, pc).defs => NextPcs(g, pc) \subseteq Closure(S, next)
  BY <1>5, <1>7
<1>9. ASSUME NEW X, S \subseteq X,
             \A pc \in X \cap B : r \notin At(g, pc).defs => NextPcs(g, pc) \subseteq X
      PROVE  Closure(S, next) \subseteq X
  <2>1. \A x \in X \cap B : next[x] \subseteq X
    BY <1>5, <1>9
  <2> QED BY <1>7, <1>9, <2>1
<1> QED BY <1>4, <1>7, <1>8, <1>9 DEF B

\* What follows the instruction at a position of a block.
LEMMA NextPcsAre ==
    ASSUME NEW g, HasCode(g), NEW b \in g.blocks, NEW i \in 1..Len(g.code[b])
    PROVE  /\ At(g, <<b, i>>) = g.code[b][i]
           /\ i < Len(g.code[b]) => NextPcs(g, <<b, i>>) = {<<b, i + 1>>}
           /\ i = Len(g.code[b]) => NextPcs(g, <<b, i>>) = Succs(g, b) \X {1}
<1>1. Len(g.code[b]) \in Nat
  BY DEF HasCode
<1> QED BY <1>1 DEF NextPcs, At

\* A set of instructions that goes on from every one that leaves r alone runs
\* through a block for as long as nothing in it writes r.
LEMMA RunsThrough ==
    ASSUME NEW g, HasCode(g), NEW b \in g.blocks, NEW r, NEW R,
           \A pc \in R : r \notin At(g, pc).defs => NextPcs(g, pc) \subseteq R,
           NEW m \in 1..Len(g.code[b]), <<b, m>> \in R,
           NEW i \in m..Len(g.code[b]),
           \A j \in m..(i - 1) : r \notin g.code[b][j].defs
    PROVE  <<b, i>> \in R
<1> DEFINE n == i - m
           P == {k \in 0..n : <<b, m + k>> \in R}
<1>1. Len(g.code[b]) \in Nat
  BY DEF HasCode
<1>2. m \in Nat /\ i \in Nat /\ n \in Nat /\ m <= i
  BY <1>1
<1>3. 0 \in P
  BY <1>2
<1>4. ASSUME NEW k \in 1..n, k - 1 \in P PROVE k \in P
  <2> DEFINE j == m + (k - 1)
  <2>1. j \in m..(i - 1) /\ j \in 1..Len(g.code[b]) /\ j < Len(g.code[b]) /\ j + 1 = m + k
    BY <1>1, <1>2
  <2>2. <<b, j>> \in R
    BY <1>4
  <2> HIDE DEF j
  <2>3. At(g, <<b, j>>) = g.code[b][j] /\ NextPcs(g, <<b, j>>) = {<<b, j + 1>>}
    BY <2>1, NextPcsAre
  <2>4. <<b, j + 1>> \in R
    BY <2>1, <2>2, <2>3
  <2> QED BY <2>1, <2>4
<1>5. m + n = i
  BY <1>2
<1>6. n \in Nat
  BY <1>2
<1> HIDE DEF P, n
<1>7. 0..n \subseteq P
  BY ONLY <1>3, <1>4, <1>6, Induct
<1>8. n \in P
  BY <1>6, <1>7
<1> QED BY <1>5, <1>8 DEF P

-----------------------------------------------------------------------------
(* Stacks and queues *)

\* Vec::pop keeps the other elements in place.
LEMMA PopShape ==
    ASSUME NEW S, NEW s \in Seq(S), s # <<>>
    PROVE  /\ Len(s) \in Nat \ {0}
           /\ s[Len(s)] \in S
           /\ SubSeq(s, 1, Len(s) - 1) \in Seq(S)
           /\ Len(SubSeq(s, 1, Len(s) - 1)) = Len(s) - 1
           /\ DOMAIN SubSeq(s, 1, Len(s) - 1) = 1..(Len(s) - 1)
           /\ \A i \in 1..(Len(s) - 1) : SubSeq(s, 1, Len(s) - 1)[i] = s[i]
<1>1. Len(s) \in Nat \ {0} /\ s[Len(s)] \in S
  BY EmptySeq, ElementOfSeq, LenProperties
<1>2. \A i \in 1..(Len(s) - 1) : s[i] \in S
  BY <1>1, ElementOfSeq
<1>3. /\ SubSeq(s, 1, Len(s) - 1) \in Seq(S)
      /\ Len(SubSeq(s, 1, Len(s) - 1)) =
            IF 1 <= Len(s) - 1 THEN Len(s) - 1 - 1 + 1 ELSE 0
      /\ \A i \in 1..(Len(s) - 1 - 1 + 1) :
            SubSeq(s, 1, Len(s) - 1)[i] = s[1 + i - 1]
  <2>1. 1 \in Int /\ Len(s) - 1 \in Int
    BY <1>1
  <2> QED BY <1>2, <2>1, SubSeqProperties
<1>4. Len(SubSeq(s, 1, Len(s) - 1)) = Len(s) - 1
  <2> DEFINE n == Len(s)
             m == Len(SubSeq(s, 1, Len(s) - 1))
  <2>1. n \in Nat \ {0} /\ m = IF 1 <= n - 1 THEN n - 1 - 1 + 1 ELSE 0
    BY <1>1, <1>3
  <2> HIDE DEF n, m
  <2>2. m = n - 1
    BY <2>1
  <2> QED BY <2>2 DEF n, m
<1>5. \A i \in 1..(Len(s) - 1) : SubSeq(s, 1, Len(s) - 1)[i] = s[i]
  BY <1>1, <1>3
<1>6. DOMAIN SubSeq(s, 1, Len(s) - 1) = 1..(Len(s) - 1)
  BY <1>3, <1>4, LenProperties
<1> QED BY <1>1, <1>3, <1>4, <1>5, <1>6

\* Popping a stack without duplicates removes exactly the popped element.
LEMMA PopRange ==
    ASSUME NEW S, NEW s \in Seq(S), s # <<>>, IsInjective(s)
    PROVE  /\ Range(SubSeq(s, 1, Len(s) - 1)) = Range(s) \ {s[Len(s)]}
           /\ IsInjective(SubSeq(s, 1, Len(s) - 1))
           /\ s[Len(s)] \in Range(s)
<1> DEFINE r == SubSeq(s, 1, Len(s) - 1)
<1>1. /\ Len(s) \in Nat \ {0}
      /\ DOMAIN r = 1..(Len(s) - 1)
      /\ \A i \in 1..(Len(s) - 1) : r[i] = s[i]
  BY PopShape
<1>2. DOMAIN s = 1..Len(s)
  BY LenProperties
<1> HIDE DEF r
<1>3. Range(r) = Range(s) \ {s[Len(s)]}
  BY <1>1, <1>2 DEF Range, IsInjective
<1>4. IsInjective(r)
  BY <1>1, <1>2 DEF IsInjective
<1>5. s[Len(s)] \in Range(s)
  BY <1>1, <1>2 DEF Range
<1> QED BY <1>3, <1>4, <1>5 DEF r

\* Vec::pop on a stack that may hold an element twice.
LEMMA PopSplit ==
    ASSUME NEW S, NEW s \in Seq(S), s # <<>>
    PROVE  /\ s[Len(s)] \in Range(s)
           /\ Range(s) = Range(SubSeq(s, 1, Len(s) - 1)) \cup {s[Len(s)]}
<1> DEFINE r == SubSeq(s, 1, Len(s) - 1)
<1>1. /\ Len(s) \in Nat \ {0} /\ DOMAIN r = 1..(Len(s) - 1)
      /\ \A i \in 1..(Len(s) - 1) : r[i] = s[i]
  BY PopShape
<1>2. DOMAIN s = 1..Len(s)
  BY LenProperties
<1> HIDE DEF r
<1>3. s[Len(s)] \in Range(s)
  BY <1>1, <1>2 DEF Range
<1>4. Range(r) \subseteq Range(s)
  <2> SUFFICES ASSUME NEW i \in 1..(Len(s) - 1) PROVE r[i] \in Range(s)
    BY <1>1 DEF Range
  <2>1. i \in 1..Len(s) /\ r[i] = s[i]
    BY <1>1
  <2> QED BY <1>2, <2>1 DEF Range
<1>5. ASSUME NEW x \in Range(s), x # s[Len(s)] PROVE x \in Range(r)
  <2>1. PICK i \in 1..Len(s) : x = s[i]
    BY <1>2 DEF Range
  <2>2. i \in 1..(Len(s) - 1)
    BY <1>1, <1>5, <2>1
  <2> QED BY <1>1, <2>1, <2>2 DEF Range
<1> QED BY <1>3, <1>4, <1>5 DEF r

\* Vec::push of an element that is not there.
LEMMA PushRange ==
    ASSUME NEW S, NEW s \in Seq(S), NEW e \in S
    PROVE  /\ Append(s, e) \in Seq(S)
           /\ Range(Append(s, e)) = Range(s) \cup {e}
           /\ (IsInjective(s) /\ e \notin Range(s)) => IsInjective(Append(s, e))
<1> DEFINE t == Append(s, e)
<1>1. /\ t \in Seq(S)
      /\ Len(t) = Len(s) + 1
      /\ \A i \in 1..Len(s) : t[i] = s[i]
      /\ t[Len(s) + 1] = e
  BY AppendProperties
<1>2. /\ DOMAIN s = 1..Len(s) /\ Len(s) \in Nat
      /\ DOMAIN t = 1..(Len(s) + 1)
  BY <1>1, LenProperties
<1> HIDE DEF t
<1>3. Range(t) = Range(s) \cup {e}
  <2>1. ASSUME NEW x \in Range(t) PROVE x \in Range(s) \cup {e}
    BY <1>1, <1>2 DEF Range
  <2>2. ASSUME NEW x \in Range(s) PROVE x \in Range(t)
    <3>1. PICK i \in 1..Len(s) : x = s[i]
      BY <1>2 DEF Range
    <3> QED BY <1>1, <1>2, <3>1 DEF Range
  <2>3. e \in Range(t)
    BY <1>1, <1>2 DEF Range
  <2> QED BY <2>1, <2>2, <2>3
<1>4. ASSUME IsInjective(s), e \notin Range(s) PROVE IsInjective(t)
  <2> SUFFICES ASSUME NEW i \in 1..(Len(s) + 1), NEW j \in 1..(Len(s) + 1),
                      t[i] = t[j]
               PROVE  i = j
    BY <1>2 DEF IsInjective
  <2>1. CASE i \in 1..Len(s) /\ j \in 1..Len(s)
    BY <1>1, <1>2, <1>4, <2>1 DEF IsInjective
  <2>2. CASE i = Len(s) + 1 /\ j \in 1..Len(s)
    BY <1>1, <1>2, <1>4, <2>2 DEF Range
  <2>3. CASE j = Len(s) + 1 /\ i \in 1..Len(s)
    BY <1>1, <1>2, <1>4, <2>3 DEF Range
  <2>4. CASE j = Len(s) + 1 /\ i = Len(s) + 1
    BY <2>4
  <2> QED BY <1>2, <2>1, <2>2, <2>3, <2>4
<1> QED BY <1>1, <1>3, <1>4 DEF t

\* Pushing a batch of distinct new elements.
LEMMA ConcatRange ==
    ASSUME NEW S, NEW s \in Seq(S), NEW t \in Seq(S)
    PROVE  /\ s \o t \in Seq(S)
           /\ Range(s \o t) = Range(s) \cup Range(t)
           /\ (/\ IsInjective(s)
               /\ IsInjective(t)
               /\ Range(s) \cap Range(t) = {}) => IsInjective(s \o t)
<1> DEFINE c == s \o t
<1>1. /\ c \in Seq(S)
      /\ Len(c) = Len(s) + Len(t)
      /\ \A i \in 1..(Len(s) + Len(t)) :
            c[i] = IF i <= Len(s) THEN s[i] ELSE t[i - Len(s)]
  BY ConcatProperties
<1>2. /\ DOMAIN s = 1..Len(s) /\ Len(s) \in Nat
      /\ DOMAIN t = 1..Len(t) /\ Len(t) \in Nat
      /\ DOMAIN c = 1..(Len(s) + Len(t))
  BY <1>1, LenProperties
<1> HIDE DEF c
<1>3. Range(c) = Range(s) \cup Range(t)
  <2>1. ASSUME NEW x \in Range(c) PROVE x \in Range(s) \cup Range(t)
    <3>1. PICK i \in 1..(Len(s) + Len(t)) : x = c[i]
      BY <1>2 DEF Range
    <3>2. CASE i <= Len(s)
      BY <1>1, <1>2, <3>1, <3>2 DEF Range
    <3>3. CASE ~(i <= Len(s))
      <4>1. i - Len(s) \in 1..Len(t) /\ x = t[i - Len(s)]
        BY <1>1, <1>2, <3>1, <3>3
      <4> QED BY <1>2, <4>1 DEF Range
    <3> QED BY <3>2, <3>3
  <2>2. ASSUME NEW x \in Range(s) PROVE x \in Range(c)
    <3>1. PICK i \in 1..Len(s) : x = s[i]
      BY <1>2 DEF Range
    <3>2. i \in 1..(Len(s) + Len(t)) /\ c[i] = x
      BY <1>1, <1>2, <3>1
    <3> QED BY <1>2, <3>2 DEF Range
  <2>3. ASSUME NEW x \in Range(t) PROVE x \in Range(c)
    <3>1. PICK i \in 1..Len(t) : x = t[i]
      BY <1>2 DEF Range
    <3>2. PICK k \in 1..(Len(s) + Len(t)) : k = Len(s) + i
      BY <1>2
    <3>3. c[k] = t[k - Len(s)] /\ k - Len(s) = i
      BY <1>1, <1>2, <3>2
    <3> QED BY <1>2, <3>1, <3>3 DEF Range
  <2> QED BY <2>1, <2>2, <2>3
<1>4. ASSUME IsInjective(s), IsInjective(t), Range(s) \cap Range(t) = {}
      PROVE  IsInjective(c)
  <2> SUFFICES ASSUME NEW i \in 1..(Len(s) + Len(t)),
                      NEW j \in 1..(Len(s) + Len(t)), c[i] = c[j]
               PROVE  i = j
    BY <1>2 DEF IsInjective
  <2>1. CASE i <= Len(s) /\ j <= Len(s)
    BY <1>1, <1>2, <1>4, <2>1 DEF IsInjective
  <2>2. CASE ~(i <= Len(s)) /\ ~(j <= Len(s))
    <3>1. /\ i - Len(s) \in 1..Len(t) /\ j - Len(s) \in 1..Len(t)
          /\ t[i - Len(s)] = t[j - Len(s)]
      BY <1>1, <1>2, <2>2
    <3>2. i - Len(s) = j - Len(s)
      BY <1>2, <1>4, <3>1 DEF IsInjective
    <3> QED BY <1>2, <3>2
  <2>3. ASSUME NEW k \in 1..(Len(s) + Len(t)), NEW m \in 1..(Len(s) + Len(t)),
               k <= Len(s), ~(m <= Len(s))
        PROVE  c[k] # c[m]
    <3>1. c[k] \in Range(s)
      <4>1. k \in 1..Len(s) /\ c[k] = s[k]
        BY <1>1, <1>2, <2>3
      <4> QED BY <1>2, <4>1 DEF Range
    <3>2. m - Len(s) \in 1..Len(t) /\ c[m] = t[m - Len(s)]
      BY <1>1, <1>2, <2>3
    <3>3. c[m] \in Range(t)
      BY <1>2, <3>2 DEF Range
    <3> QED BY <1>4, <3>1, <3>3
  <2> QED BY <2>1, <2>2, <2>3
<1> QED BY <1>1, <1>3, <1>4 DEF c

\* Filtering a vector keeps exactly its elements that lie in the set.
LEMMA KeptRange ==
    ASSUME NEW B, NEW s \in Seq(B), NEW S
    PROVE  Kept(s, S) \in Seq(B) /\ Range(Kept(s, S)) = Range(s) \cap S
<1> DEFINE n == Len(s)
           Step(k, q) == IF s[k] \in S THEN Append(q, s[k]) ELSE q
           f == [k \in 1..n |-> [q \in Seq(B) |-> Step(k, q)]]
           Solves(R) == R = [k \in 0..n |-> IF k = 0 THEN <<>> ELSE Step(k, R[k - 1])]
           Q == CHOOSE R : Solves(R)
<1>1. n \in Nat /\ DOMAIN s = 1..n /\ \A k \in 1..n : s[k] \in B
  BY LenProperties, ElementOfSeq
<1>2. \A k \in 1..n : \A q \in Seq(B) : Step(k, q) \in Seq(B)
  BY <1>1, AppendProperties
<1>3. Kept(s, S) = Q[n]
  BY DEF Kept
<1> HIDE DEF n
<1>4. Solves(Q)
  <2> DEFINE T == Seq(B)
             empty == <<>>
  <2>1. f \in [1..n -> [T -> T]]
    BY <1>2
  <2>2. empty \in T
    BY EmptySeq
  <2> HIDE DEF f, T, Step, Solves, empty
  <2>3. PICK R \in [0..n -> T] :
            R[0] = empty /\ \A k \in 1..n : R[k] = f[k][R[k - 1]]
    <3>1. n \in Nat
      BY <1>1
    <3> QED BY <2>1, <2>2, <3>1, IterationExists
  <2>4. ASSUME NEW k \in 1..n PROVE f[k][R[k - 1]] = Step(k, R[k - 1])
    <3>1. R[k - 1] \in T
      BY <1>1
    <3> QED BY <3>1 DEF f, T
  <2>5. Solves(R)
    <3>1. \A k \in 0..n : R[k] = IF k = 0 THEN <<>> ELSE Step(k, R[k - 1])
      <4> SUFFICES ASSUME NEW k \in 0..n
                   PROVE  R[k] = IF k = 0 THEN <<>> ELSE Step(k, R[k - 1])
        OBVIOUS
      <4>1. CASE k = 0
        BY <2>3, <4>1 DEF empty
      <4>2. CASE k # 0
        <5>1. k \in 1..n
          BY <1>1, <4>2
        <5> QED BY <2>3, <2>4, <4>2, <5>1
      <4> QED BY <4>1, <4>2
    <3> QED BY <3>1 DEF Solves
  <2> QED BY <2>5
<1> HIDE DEF Q
<1>5. Q[0] = <<>> /\ \A k \in 1..n : Q[k] = Step(k, Q[k - 1])
  <2> HIDE DEF Step
  <2> QED BY <1>1, <1>4
<1> HIDE DEF Solves
<1> DEFINE Before(k) == {s[i] : i \in 1..k} \cap S
           P == {k \in 0..n : Q[k] \in Seq(B) /\ Range(Q[k]) = Before(k)}
<1>6. 0 \in P
  <2>1. Range(<<>>) = {}
    BY DEF Range
  <2>2. Before(0) = {}
    OBVIOUS
  <2>3. Q[0] \in Seq(B) /\ Range(Q[0]) = Before(0)
    BY <1>5, <2>1, <2>2, EmptySeq
  <2> HIDE DEF Before, Step
  <2> QED BY <1>1, <2>3
<1>7. ASSUME NEW k \in 1..n, k - 1 \in P PROVE k \in P
  <2>1. Q[k] = Step(k, Q[k - 1]) /\ Q[k - 1] \in Seq(B) /\ Range(Q[k - 1]) = Before(k - 1)
    BY <1>5, <1>7
  <2>2. Before(k) = Before(k - 1) \cup ({s[k]} \cap S)
    BY <1>1
  <2> HIDE DEF Before
  <2>3. ASSUME s[k] \in S PROVE Q[k] \in Seq(B) /\ Range(Q[k]) = Before(k)
    <3>1. Q[k] = Append(Q[k - 1], s[k])
      BY <2>1, <2>3
    <3>2. Q[k] \in Seq(B) /\ Range(Q[k]) = Range(Q[k - 1]) \cup {s[k]}
      BY <1>1, <2>1, <3>1, PushRange
    <3> QED BY <2>1, <2>2, <2>3, <3>2
  <2>4. ASSUME s[k] \notin S PROVE Q[k] \in Seq(B) /\ Range(Q[k]) = Before(k)
    BY <2>1, <2>2, <2>4
  <2>5. k \in 0..n
    BY <1>1
  <2> HIDE DEF Step
  <2> QED BY <2>3, <2>4, <2>5
<1>8. n \in P
  <2> HIDE DEF P
  <2> QED BY <1>1, <1>6, <1>7, Induct
<1>9. Before(n) = Range(s) \cap S
  BY <1>1 DEF Range
<1> HIDE DEF Before
<1> QED BY <1>3, <1>8, <1>9

\* Taking the front of a queue leaves the others.
LEMMA TailRange ==
    ASSUME NEW B, NEW s \in Seq(B), s # <<>>
    PROVE  /\ Head(s) \in B
           /\ Tail(s) \in Seq(B)
           /\ Range(s) = {Head(s)} \cup Range(Tail(s))
<1>1. /\ Head(s) \in B /\ Tail(s) \in Seq(B)
      /\ Len(Tail(s)) = Len(s) - 1
      /\ \A i \in 1..Len(Tail(s)) : Tail(s)[i] = s[i + 1]
  BY HeadTailProperties
<1>2. /\ Len(s) \in Nat \ {0} /\ DOMAIN s = 1..Len(s)
      /\ DOMAIN Tail(s) = 1..(Len(s) - 1)
  BY <1>1, LenProperties, EmptySeq
<1>3. Head(s) = s[1]
  OBVIOUS
<1> DEFINE t == Tail(s)
<1>4. DOMAIN t = 1..(Len(s) - 1) /\ \A i \in 1..(Len(s) - 1) : t[i] = s[i + 1]
  BY <1>1, <1>2
<1> HIDE DEF t
<1>5. ASSUME NEW x \in Range(s) PROVE x \in {s[1]} \cup Range(t)
  <2>1. PICK i \in 1..Len(s) : x = s[i]
    BY <1>2 DEF Range
  <2>2. CASE i = 1
    BY <2>1, <2>2
  <2>3. CASE i # 1
    <3>1. i - 1 \in 1..(Len(s) - 1) /\ t[i - 1] = s[i]
      BY <1>2, <1>4, <2>3
    <3> QED BY <1>4, <2>1, <3>1 DEF Range
  <2> QED BY <2>2, <2>3
<1>6. Range(t) \subseteq Range(s)
  BY <1>2, <1>4 DEF Range
<1>7. s[1] \in Range(s)
  BY <1>2 DEF Range
<1> QED BY <1>1, <1>3, <1>5, <1>6, <1>7 DEF t

\* An element of InMapOrder(g, S) is a duplicate-free vector of exactly S.
LEMMA MapOrderShape ==
    ASSUME NEW g, NEW T, IsFiniteSet(T), NEW S, S \subseteq T,
           NEW q \in InMapOrder(g, S)
    PROVE  q \in Seq(T) /\ Range(q) = S /\ IsInjective(q)
<1>1. Cardinality(S) \in Nat
  BY FS_Subset, FS_CardinalityType
<1>2. /\ q \in [1..Cardinality(S) -> S]
      /\ IsInjective(q)
      /\ \A t \in S : \E i \in 1..Cardinality(S) : q[i] = t
  BY DEF InMapOrder, Bijection, Injection, Surjection
<1>3. q \in Seq(S)
  BY <1>1, <1>2, SeqDef
<1>4. q \in Seq(T)
  BY <1>3, SeqMonotonic
<1>5. Range(q) = S
  BY <1>2 DEF Range
<1> QED BY <1>2, <1>4, <1>5

-----------------------------------------------------------------------------
(* The stack of a depth-first search: frames [block, next successor] *)

\* The top frame moves on to its next successor.
LEMMA AdvanceShape ==
    ASSUME NEW B, NEW s \in Seq([block : B, next : Nat \ {0}]), s # <<>>
    PROVE  LET n == Len(s)
               t == [s EXCEPT ![Len(s)].next = @ + 1]
           IN  /\ n \in Nat \ {0}
               /\ s[n].block \in B /\ s[n].next \in Nat \ {0}
               /\ t \in Seq([block : B, next : Nat \ {0}])
               /\ Len(t) = n /\ DOMAIN t = 1..n /\ DOMAIN s = 1..n
               /\ \A i \in 1..n : t[i].block = s[i].block
               /\ \A i \in 1..n : t[i].next = IF i = n THEN s[n].next + 1 ELSE s[i].next
<1> DEFINE Frame == [block : B, next : Nat \ {0}]
<1>0. s \in Seq(Frame)
  OBVIOUS
<1>1. /\ \A x \in Frame : x.block \in B /\ x.next \in Nat \ {0}
      /\ \A x \in Frame : [x EXCEPT !.next = @ + 1] \in Frame
      /\ \A x \in Frame : LET y == [x EXCEPT !.next = @ + 1]
                           IN  y.block = x.block /\ y.next = x.next + 1
  OBVIOUS
<1> HIDE DEF Frame
<1> DEFINE n == Len(s)
           top == [s[n] EXCEPT !.next = @ + 1]
           t == [s EXCEPT ![Len(s)].next = @ + 1]
<1>2. n \in Nat \ {0} /\ s[n] \in Frame
  BY <1>0, PopShape
<1>3. t = [s EXCEPT ![n] = top]
  OBVIOUS
<1>4. top \in Frame /\ top.block = s[n].block /\ top.next = s[n].next + 1
  BY <1>1, <1>2
<1> HIDE DEF top
<1>5. /\ t \in Seq(Frame)
      /\ Len(t) = n
      /\ \A i \in 1..n : t[i] = IF i = n THEN top ELSE s[i]
  <2>1. n \in 1..Len(s)
    BY <1>2
  <2> HIDE DEF t
  <2> QED BY <1>0, <1>3, <1>4, <2>1, ExceptSeq
<1>6. DOMAIN t = 1..n /\ DOMAIN s = 1..n
  BY <1>0, <1>5, LenProperties
<1> HIDE DEF n, t
<1>7. /\ \A i \in 1..n : t[i].block = s[i].block
      /\ \A i \in 1..n : t[i].next = IF i = n THEN s[n].next + 1 ELSE s[i].next
  BY <1>4, <1>5
<1> QED BY <1>1, <1>2, <1>5, <1>6, <1>7 DEF n, t, Frame

\* A frame is pushed for a new block.
LEMMA PushFrame ==
    ASSUME NEW B, NEW t \in Seq([block : B, next : Nat \ {0}]), NEW b \in B
    PROVE  LET n == Len(t)
               u == Append(t, [block |-> b, next |-> 1])
           IN  /\ u \in Seq([block : B, next : Nat \ {0}])
               /\ Len(u) = n + 1 /\ DOMAIN u = 1..(n + 1)
               /\ \A i \in 1..n : u[i] = t[i]
               /\ u[n + 1].block = b /\ u[n + 1].next = 1
<1> DEFINE Frame == [block : B, next : Nat \ {0}]
           f == [block |-> b, next |-> 1]
           u == Append(t, f)
<1>1. f \in Frame /\ f.block = b /\ f.next = 1
  OBVIOUS
<1> HIDE DEF Frame, f
<1>2. /\ u \in Seq(Frame)
      /\ Len(u) = Len(t) + 1
      /\ \A i \in 1..Len(t) : u[i] = t[i]
      /\ u[Len(t) + 1] = f
  BY <1>1, AppendProperties DEF Frame
<1>3. DOMAIN u = 1..(Len(t) + 1)
  BY <1>2, LenProperties
<1> QED BY <1>1, <1>2, <1>3 DEF Frame, f

-----------------------------------------------------------------------------
(* Sorting *)

\* A finite set can be put in the order of any strict total order on it: the
\* place of x is the number of elements up to x.
LEMMA Enumerates ==
    ASSUME NEW S, IsFiniteSet(S), NEW Lt,
           \A x \in S : <<x, x>> \notin Lt,
           \A x, y \in S : x # y => <<x, y>> \in Lt \/ <<y, x>> \in Lt,
           \A x, y, z \in S : <<x, y>> \in Lt /\ <<y, z>> \in Lt => <<x, z>> \in Lt
    PROVE  \E q \in Bijection(1..Cardinality(S), S) :
              \A i, j \in 1..Cardinality(S) : i < j => <<q[i], q[j]>> \in Lt
<1> DEFINE n == Cardinality(S)
           UpTo(x) == {y \in S : y = x \/ <<y, x>> \in Lt}
           r == [x \in S |-> Cardinality(UpTo(x))]
<1>1. n \in Nat
  BY FS_CardinalityType
<1>2. \A x \in S : UpTo(x) \in SUBSET S /\ IsFiniteSet(UpTo(x)) /\ x \in UpTo(x)
  BY FS_Subset
<1>3. ASSUME NEW x \in S PROVE r[x] \in 1..n
  <2>1. r[x] = Cardinality(UpTo(x))
    OBVIOUS
  <2>2. Cardinality(UpTo(x)) \in Nat /\ Cardinality(UpTo(x)) <= n
    BY <1>2, FS_Subset, FS_CardinalityType
  <2>3. Cardinality(UpTo(x)) # 0
    BY <1>2, FS_EmptySet
  <2> HIDE DEF UpTo, n, r
  <2> QED BY <1>1, <2>1, <2>2, <2>3
<1>4. ASSUME NEW x \in S, NEW y \in S, <<x, y>> \in Lt PROVE r[x] < r[y]
  <2>1. r[x] = Cardinality(UpTo(x)) /\ r[y] = Cardinality(UpTo(y))
    OBVIOUS
  <2>2. UpTo(x) \in SUBSET UpTo(y) /\ y \in UpTo(y) /\ y \notin UpTo(x)
    <3>1. <<y, x>> \notin Lt /\ x # y
      BY <1>4
    <3>2. \A z \in S : <<z, x>> \in Lt => <<z, y>> \in Lt
      BY <1>4
    <3> QED BY <1>4, <3>1, <3>2
  <2>3. IsFiniteSet(UpTo(y)) /\ UpTo(x) # UpTo(y)
    BY <1>2, <2>2
  <2> HIDE DEF UpTo, r, n
  <2>4. Cardinality(UpTo(x)) <= Cardinality(UpTo(y))
        /\ Cardinality(UpTo(x)) # Cardinality(UpTo(y))
    BY <2>2, <2>3, FS_Subset
  <2>5. Cardinality(UpTo(x)) \in Nat /\ Cardinality(UpTo(y)) \in Nat
    BY <1>2, FS_CardinalityType
  <2> QED BY <2>1, <2>4, <2>5
<1>5. r \in [S -> 1..n]
  <2>1. r = [x \in S |-> r[x]]
    OBVIOUS
  <2> HIDE DEF r, n
  <2> QED BY <1>3, <2>1
<1> HIDE DEF r, UpTo, n
<1>6. \A x, y \in S : r[x] = r[y] => x = y
  <2> SUFFICES ASSUME NEW x \in S, NEW y \in S, x # y PROVE r[x] # r[y]
    OBVIOUS
  <2>1. r[x] \in Nat /\ r[y] \in Nat
    BY <1>1, <1>3
  <2>2. r[x] < r[y] \/ r[y] < r[x]
    BY <1>4
  <2> QED BY <2>1, <2>2
<1>7. r \in Injection(S, 1..n)
  BY <1>5, <1>6 DEF Injection, IsInjective
<1>8. r \in Surjection(S, 1..n)
  <2>1. IsFiniteSet(1..n) /\ Cardinality(1..n) = n
    <3>1. 1 \in Int /\ n \in Int
      BY <1>1
    <3>2. IsFiniteSet(1..n) /\ Cardinality(1..n) = IF 1 > n THEN 0 ELSE n - 1 + 1
      BY <3>1, FS_Interval
    <3> QED BY <1>1, <3>2
  <2>2. Cardinality(S) = Cardinality(1..n)
    BY <2>1 DEF n
  <2> QED BY <1>7, <2>1, <2>2, FS_Injection
<1>9. \A i \in 1..n : \E x \in S : r[x] = i
  BY <1>8 DEF Surjection
<1> DEFINE q == [i \in 1..n |-> CHOOSE x \in S : r[x] = i]
<1>10. \A i \in 1..n : q[i] \in S /\ r[q[i]] = i
  BY <1>9
<1>11. q \in [1..n -> S]
  BY <1>10
<1> HIDE DEF q
<1>12. ASSUME NEW i \in 1..n, NEW j \in 1..n, i < j PROVE <<q[i], q[j]>> \in Lt
  <2>1. q[i] \in S /\ q[j] \in S /\ r[q[i]] = i /\ r[q[j]] = j
    BY <1>10
  <2>2. i \in Nat /\ j \in Nat
    BY <1>1
  <2>3. q[i] # q[j]
    BY <1>12, <2>1, <2>2
  <2>4. <<q[j], q[i]>> \notin Lt
    <3> SUFFICES ASSUME <<q[j], q[i]>> \in Lt PROVE FALSE
      OBVIOUS
    <3>1. r[q[j]] < r[q[i]]
      BY <1>4, <2>1
    <3> QED BY <1>12, <2>1, <2>2, <3>1
  <2> QED BY <2>1, <2>3, <2>4
<1>13. q \in Bijection(1..n, S)
  <2>1. \A x \in S : r[x] \in 1..n /\ q[r[x]] \in S /\ r[q[r[x]]] = r[x]
    BY <1>3, <1>10
  <2>2. \A x \in S : r[x] \in 1..n /\ q[r[x]] = x
    BY <1>6, <2>1
  <2>3. IsInjective(q)
    <3>1. DOMAIN q = 1..n
      BY <1>11
    <3> QED BY <1>10, <3>1 DEF IsInjective
  <2> QED BY <1>11, <2>2, <2>3 DEF Bijection, Injection, Surjection
<1> QED BY <1>12, <1>13 DEF n

\* A finite set of naturals can be sorted, so Sorted is a vector of it.
LEMMA SortedShape ==
    ASSUME NEW S, S \subseteq Nat, IsFiniteSet(S)
    PROVE  Sorted(S) \in Seq(S) /\ Range(Sorted(S)) = S
<1> DEFINE n == Cardinality(S)
           Lt == {e \in S \X S : e[1] < e[2]}
           Ordered(q) == \A i, j \in 1..n : i < j => q[i] < q[j]
<1>1. n \in Nat
  BY FS_CardinalityType
<1>2. \A x, y \in S : <<x, y>> \in Lt <=> x < y
  OBVIOUS
<1>3. \A x \in S : <<x, x>> \notin Lt
  BY <1>2
<1>4. \A x, y \in S : x # y => <<x, y>> \in Lt \/ <<y, x>> \in Lt
  BY <1>2
<1>5. \A x, y, z \in S : <<x, y>> \in Lt /\ <<y, z>> \in Lt => <<x, z>> \in Lt
  BY <1>2
<1> HIDE DEF Lt
<1>6. PICK q \in Bijection(1..n, S) : \A i, j \in 1..n : i < j => <<q[i], q[j]>> \in Lt
  BY <1>3, <1>4, <1>5, Enumerates
<1>7. q \in [1..n -> S] /\ \A x \in S : \E i \in 1..n : q[i] = x
  BY DEF Bijection, Injection, Surjection
<1>8. Ordered(q)
  BY <1>2, <1>6, <1>7
<1>9. Sorted(S) \in [1..n -> S] /\ Ordered(Sorted(S))
  <2>1. Sorted(S) = CHOOSE p \in [1..n -> S] : Ordered(p)
    BY DEF Sorted, n
  <2> HIDE DEF Ordered
  <2> QED BY <1>7, <1>8, <2>1
<1> DEFINE p == Sorted(S)
<1>10. p \in [1..n -> S] /\ Ordered(p)
  BY <1>9
<1> HIDE DEF p
<1>11. p \in Injection(1..n, S)
  <2>1. \A i, j \in 1..n : i # j => p[i] # p[j]
    <3> SUFFICES ASSUME NEW i \in 1..n, NEW j \in 1..n, i # j PROVE p[i] # p[j]
      OBVIOUS
    <3>1. i \in Nat /\ j \in Nat
      BY <1>1
    <3>2. p[i] \in Nat /\ p[j] \in Nat
      BY <1>10
    <3>3. p[i] < p[j] \/ p[j] < p[i]
      BY <1>10, <3>1
    <3> QED BY <3>2, <3>3
  <2> QED BY <1>10, <2>1 DEF Injection, IsInjective
<1>12. p \in Surjection(1..n, S)
  <2>1. IsFiniteSet(1..n) /\ Cardinality(1..n) = n
    <3>1. 1 \in Int /\ n \in Int
      BY <1>1
    <3>2. IsFiniteSet(1..n) /\ Cardinality(1..n) = IF 1 > n THEN 0 ELSE n - 1 + 1
      BY <3>1, FS_Interval
    <3> QED BY <1>1, <3>2
  <2> QED BY <1>11, <2>1, FS_Injection DEF n
<1>13. Range(p) = S
  BY <1>10, <1>12 DEF Surjection, Range
<1>14. p \in Seq(S)
  BY <1>1, <1>10, SeqDef
<1> QED BY <1>13, <1>14 DEF p

-----------------------------------------------------------------------------
(* The postorder of a depth-first search *)

\* What a search needs of a graph.
Searchable(g) ==
    /\ IsFiniteSet(g.blocks)
    /\ g.entry \in g.blocks
    /\ g.succ \in [g.blocks -> Seq(g.blocks)]

\* The states the search can be in.
SearchType(g) ==
    [stack : Seq([block : g.blocks, next : Nat \ {0}]), visited : SUBSET g.blocks,
     post : Seq(g.blocks)]

OpenBlocks(s) == {s.stack[i].block : i \in DOMAIN s.stack}

\* The blocks entered are those on the stack and those left, each once; the
\* successors looked at have been entered, and the entry is left last.
SearchSound(g, s) ==
    /\ s \in SearchType(g)
    /\ s.visited = OpenBlocks(s) \cup Range(s.post)
    /\ OpenBlocks(s) \cap Range(s.post) = {}
    /\ \A i, j \in DOMAIN s.stack : s.stack[i].block = s.stack[j].block => i = j
    /\ g.entry \in s.visited
    /\ \A b \in Range(s.post) : Range(g.succ[b]) \subseteq s.visited
    /\ \A i \in DOMAIN s.stack :
          /\ s.stack[i].next <= Len(g.succ[s.stack[i].block]) + 1
          /\ \A k \in 1..(s.stack[i].next - 1) : g.succ[s.stack[i].block][k] \in s.visited
    /\ s.stack # <<>> => s.stack[1].block = g.entry
    /\ s.stack = <<>> => s.post # <<>> /\ s.post[Len(s.post)] = g.entry

\* The steps the search has taken.
Taken(g, s) ==
    {p \in SearchSteps(g) :
        \/ p[1] \in Range(s.post)
        \/ \E i \in DOMAIN s.stack : s.stack[i].block = p[1] /\ p[2] < s.stack[i].next}

\* Leaving the block on top of the stack.
LEMMA SearchLeaves ==
    ASSUME NEW g, Searchable(g), NEW s, SearchSound(g, s), s.stack # <<>>,
           s.stack[Len(s.stack)].next > Len(g.succ[s.stack[Len(s.stack)].block])
    PROVE  LET t == SearchStep(g, s)
               p == <<s.stack[Len(s.stack)].block, s.stack[Len(s.stack)].next>>
           IN  SearchSound(g, t) /\ p \in Taken(g, t) \ Taken(g, s) /\ Taken(g, s) \subseteq Taken(g, t)
<1> DEFINE B == g.blocks
           Frame == [block : B, next : Nat \ {0}]
           n == Len(s.stack)
           top == s.stack[n]
           b == top.block
           rest == SubSeq(s.stack, 1, n - 1)
           post == Append(s.post, b)
           t == SearchStep(g, s)
           p == <<b, top.next>>
<1>1. s.stack \in Seq(Frame) /\ s.visited \in SUBSET B /\ s.post \in Seq(B)
  BY DEF SearchSound, SearchType
<1>2. t = [stack |-> rest, visited |-> s.visited, post |-> post]
  BY DEF SearchStep
<1>3. t.stack = rest /\ t.visited = s.visited /\ t.post = post
  BY <1>2
<1>4. /\ n \in Nat \ {0} /\ top \in Frame /\ rest \in Seq(Frame)
      /\ DOMAIN rest = 1..(n - 1) /\ \A i \in 1..(n - 1) : rest[i] = s.stack[i]
      /\ Len(rest) = n - 1
  BY <1>1, PopShape
<1>5. DOMAIN s.stack = 1..n
  BY <1>1, LenProperties
<1>6. b \in B /\ top.next \in Nat \ {0}
  BY <1>4
<1>7. /\ post \in Seq(B) /\ Range(post) = Range(s.post) \cup {b}
      /\ Len(post) = Len(s.post) + 1 /\ post[Len(s.post) + 1] = b
  <2>1. s.post \in Seq(B) /\ b \in B
    BY <1>1, <1>6
  <2> HIDE DEF B, b
  <2>2. post \in Seq(B) /\ Range(post) = Range(s.post) \cup {b}
    BY <2>1, PushRange
  <2>3. Len(post) = Len(s.post) + 1 /\ post[Len(s.post) + 1] = b
    BY <2>1, AppendProperties
  <2> QED BY <2>2, <2>3
<1>8. g.succ[b] \in Seq(B) /\ Len(g.succ[b]) \in Nat /\ DOMAIN g.succ[b] = 1..Len(g.succ[b])
  BY <1>6, LenProperties DEF Searchable
<1>9. \A i \in 1..n : \A j \in 1..n : s.stack[i].block = s.stack[j].block => i = j
  BY <1>5 DEF SearchSound
<1>10. top.next = Len(g.succ[b]) + 1 /\ \A k \in 1..(top.next - 1) : g.succ[b][k] \in s.visited
  <2>1. n \in DOMAIN s.stack
    BY <1>4, <1>5
  <2>2. top.next <= Len(g.succ[b]) + 1
    BY <2>1 DEF SearchSound
  <2>3. top.next > Len(g.succ[b])
    OBVIOUS
  <2>4. top.next = Len(g.succ[b]) + 1
    BY <1>6, <1>8, <2>2, <2>3
  <2>5. \A k \in 1..(top.next - 1) : g.succ[b][k] \in s.visited
    BY <2>1 DEF SearchSound
  <2> QED BY <2>4, <2>5
<1> HIDE DEF B, Frame, n, top, b, rest, post, t, p
<1>11. OpenBlocks(t) = OpenBlocks(s) \ {b} /\ b \in OpenBlocks(s)
  <2>1. OpenBlocks(t) = {rest[i].block : i \in 1..(n - 1)}
    BY <1>3, <1>4 DEF OpenBlocks
  <2>2. OpenBlocks(s) = {s.stack[i].block : i \in 1..n}
    BY <1>5 DEF OpenBlocks
  <2>3. s.stack[n].block = b /\ n \in 1..n
    BY <1>4 DEF top, b
  <2>4. \A i \in 1..n : i = n \/ i \in 1..(n - 1)
    BY <1>4
  <2>5. \A i \in 1..(n - 1) : i \in 1..n /\ i # n
    BY <1>4
  <2> QED BY <1>4, <1>9, <2>1, <2>2, <2>3, <2>4, <2>5
<1>12. SearchSound(g, t)
  <2>1. t \in SearchType(g)
    BY <1>1, <1>2, <1>4, <1>7 DEF SearchType, B, Frame
  <2>2. t.visited = OpenBlocks(t) \cup Range(t.post) /\ OpenBlocks(t) \cap Range(t.post) = {}
    BY <1>3, <1>7, <1>11 DEF SearchSound
  <2>3. \A i, j \in DOMAIN t.stack : t.stack[i].block = t.stack[j].block => i = j
    <3>1. \A i \in 1..(n - 1) : i \in 1..n
      BY <1>4
    <3> QED BY <1>3, <1>4, <1>9, <3>1
  <2>4. g.entry \in t.visited
    BY <1>3 DEF SearchSound
  <2>5. \A c \in Range(t.post) : Range(g.succ[c]) \subseteq t.visited
    <3>1. Range(g.succ[b]) \subseteq s.visited
      <4> SUFFICES ASSUME NEW k \in 1..Len(g.succ[b]) PROVE g.succ[b][k] \in s.visited
        BY <1>8 DEF Range
      <4>1. k \in 1..(top.next - 1)
        BY <1>8, <1>10
      <4> QED BY <1>10, <4>1
    <3> QED BY <1>3, <1>7, <3>1 DEF SearchSound
  <2>6. \A i \in DOMAIN t.stack :
            /\ t.stack[i].next <= Len(g.succ[t.stack[i].block]) + 1
            /\ \A k \in 1..(t.stack[i].next - 1) : g.succ[t.stack[i].block][k] \in t.visited
    <3> SUFFICES ASSUME NEW i \in 1..(n - 1)
                 PROVE  /\ t.stack[i].next <= Len(g.succ[t.stack[i].block]) + 1
                        /\ \A k \in 1..(t.stack[i].next - 1) :
                              g.succ[t.stack[i].block][k] \in t.visited
      BY <1>3, <1>4
    <3>1. t.stack[i] = s.stack[i] /\ i \in DOMAIN s.stack
      BY <1>3, <1>4, <1>5
    <3> QED BY <1>3, <3>1 DEF SearchSound
  <2>7. t.stack # <<>> => t.stack[1].block = g.entry
    <3> SUFFICES ASSUME t.stack # <<>> PROVE t.stack[1].block = g.entry
      OBVIOUS
    <3>1. n - 1 # 0
      BY <1>3, <1>4, EmptySeq
    <3>2. 1 \in 1..(n - 1) /\ s.stack # <<>>
      BY <1>4, <3>1
    <3> QED BY <1>3, <1>4, <3>2 DEF SearchSound
  <2>8. t.stack = <<>> => t.post # <<>> /\ t.post[Len(t.post)] = g.entry
    <3> SUFFICES ASSUME t.stack = <<>> PROVE t.post # <<>> /\ t.post[Len(t.post)] = g.entry
      OBVIOUS
    <3>1. n - 1 = 0
      BY <1>3, <1>4, EmptySeq
    <3>2. n = 1
      BY <1>4, <3>1
    <3>3. b = g.entry
      BY <3>2 DEF SearchSound, b, top
    <3>4. Len(s.post) \in Nat
      BY <1>1, LenProperties
    <3>5. post # <<>>
      BY <1>7, <3>4, EmptySeq
    <3> QED BY <1>3, <1>7, <3>3, <3>5
  <2> QED BY <2>1, <2>2, <2>3, <2>4, <2>5, <2>6, <2>7, <2>8 DEF SearchSound
<1>13. p \in SearchSteps(g)
  <2>1. top.next \in 1..(Len(g.succ[b]) + 1)
    BY <1>6, <1>8, <1>10
  <2> QED BY <1>6, <2>1 DEF SearchSteps, p, B
<1>14. p[1] = b /\ p[2] = top.next
  BY DEF p
<1>15. p \in Taken(g, t)
  BY <1>3, <1>7, <1>13, <1>14 DEF Taken
<1>16. p \notin Taken(g, s)
  <2>1. b \notin Range(s.post)
    BY <1>11 DEF SearchSound
  <2>2. ASSUME NEW i \in 1..n, s.stack[i].block = b, top.next < s.stack[i].next PROVE FALSE
    <3>1. s.stack[n].block = b /\ n \in 1..n
      BY <1>4 DEF top, b
    <3>2. i = n
      BY <1>9, <2>2, <3>1
    <3> QED BY <1>6, <2>2, <3>2 DEF top
  <2> QED BY <1>5, <1>14, <2>1, <2>2 DEF Taken
<1>17. Taken(g, s) \subseteq Taken(g, t)
  <2> SUFFICES ASSUME NEW q \in Taken(g, s) PROVE q \in Taken(g, t)
    OBVIOUS
  <2>1. q \in SearchSteps(g)
    BY DEF Taken
  <2>2. CASE q[1] \in Range(s.post)
    BY <1>3, <1>7, <2>1, <2>2 DEF Taken
  <2>3. ASSUME NEW i \in 1..n, s.stack[i].block = q[1], q[2] < s.stack[i].next
        PROVE  q \in Taken(g, t)
    <3>1. CASE i = n
      <4>1. q[1] = b
        BY <2>3, <3>1 DEF b, top
      <4> QED BY <1>3, <1>7, <2>1, <4>1 DEF Taken
    <3>2. CASE i # n
      <4>1. i \in 1..(n - 1)
        BY <1>4, <3>2
      <4>2. i \in DOMAIN t.stack /\ t.stack[i] = s.stack[i]
        BY <1>3, <1>4, <4>1
      <4> QED BY <2>1, <2>3, <4>2 DEF Taken
    <3> QED BY <3>1, <3>2
  <2> QED BY <1>5, <2>2, <2>3 DEF Taken
<1> QED BY <1>12, <1>15, <1>16, <1>17 DEF t, p, b, top, n

\* Following an edge of the block on top of the stack.
LEMMA SearchFollows ==
    ASSUME NEW g, Searchable(g), NEW s, SearchSound(g, s), s.stack # <<>>,
           ~(s.stack[Len(s.stack)].next > Len(g.succ[s.stack[Len(s.stack)].block]))
    PROVE  LET t == SearchStep(g, s)
               p == <<s.stack[Len(s.stack)].block, s.stack[Len(s.stack)].next>>
           IN  SearchSound(g, t) /\ p \in Taken(g, t) \ Taken(g, s) /\ Taken(g, s) \subseteq Taken(g, t)
<1> DEFINE B == g.blocks
           Frame == [block : B, next : Nat \ {0}]
           n == Len(s.stack)
           top == s.stack[n]
           b == top.block
           x == g.succ[b][top.next]
           moved == [s.stack EXCEPT ![Len(s.stack)].next = @ + 1]
           pushed == Append(moved, [block |-> x, next |-> 1])
           t == SearchStep(g, s)
           p == <<b, top.next>>
<1>1. s.stack \in Seq(Frame) /\ s.visited \in SUBSET B /\ s.post \in Seq(B)
  BY DEF SearchSound, SearchType
<1>2. t = [stack |-> IF x \in s.visited THEN moved ELSE pushed,
           visited |-> s.visited \cup {x}, post |-> s.post]
  BY DEF SearchStep
<1>3. /\ t.stack = IF x \in s.visited THEN moved ELSE pushed
      /\ t.visited = s.visited \cup {x} /\ t.post = s.post
  BY <1>2
<1>4. /\ n \in Nat \ {0} /\ b \in B /\ top.next \in Nat \ {0}
      /\ moved \in Seq(Frame) /\ Len(moved) = n /\ DOMAIN moved = 1..n /\ DOMAIN s.stack = 1..n
      /\ \A i \in 1..n : moved[i].block = s.stack[i].block
      /\ \A i \in 1..n : moved[i].next = IF i = n THEN top.next + 1 ELSE s.stack[i].next
  BY <1>1, AdvanceShape
<1>5. g.succ[b] \in Seq(B) /\ Len(g.succ[b]) \in Nat /\ DOMAIN g.succ[b] = 1..Len(g.succ[b])
  BY <1>4, LenProperties DEF Searchable
<1>6. top.next \in 1..Len(g.succ[b]) /\ x \in B
  <2>1. top.next \in 1..Len(g.succ[b])
    BY <1>4, <1>5
  <2> QED BY <1>5, <2>1, ElementOfSeq
<1>7. /\ pushed \in Seq(Frame) /\ DOMAIN pushed = 1..(n + 1)
      /\ \A i \in 1..n : pushed[i] = moved[i]
      /\ pushed[n + 1].block = x /\ pushed[n + 1].next = 1
  <2> HIDE DEF moved, x, n, B
  <2> QED BY <1>4, <1>6, PushFrame
<1>8. /\ \A i \in 1..n : \A j \in 1..n : s.stack[i].block = s.stack[j].block => i = j
      /\ \A i \in 1..n : /\ s.stack[i].next <= Len(g.succ[s.stack[i].block]) + 1
                         /\ s.stack[i].next \in Nat \ {0}
                         /\ s.stack[i].block \in s.visited
                         /\ \A k \in 1..(s.stack[i].next - 1) :
                               g.succ[s.stack[i].block][k] \in s.visited
      /\ s.stack[1].block = g.entry
  <2>1. \A i \in 1..n : s.stack[i] \in Frame /\ s.stack[i].block \in OpenBlocks(s)
    <3> HIDE DEF Frame
    <3>1. \A i \in 1..n : s.stack[i] \in Frame
      BY <1>1, ElementOfSeq
    <3>2. \A i \in 1..n : s.stack[i].block \in OpenBlocks(s)
      BY <1>4 DEF OpenBlocks
    <3> QED BY <3>1, <3>2
  <2>2. \A i \in 1..n : s.stack[i].next \in Nat \ {0} /\ s.stack[i].block \in s.visited
    BY <2>1 DEF SearchSound
  <2> HIDE DEF n
  <2>3. \A i \in 1..n : \A j \in 1..n : s.stack[i].block = s.stack[j].block => i = j
    BY <1>4 DEF SearchSound
  <2>4. \A i \in 1..n : /\ s.stack[i].next <= Len(g.succ[s.stack[i].block]) + 1
                        /\ \A k \in 1..(s.stack[i].next - 1) :
                               g.succ[s.stack[i].block][k] \in s.visited
    BY <1>4 DEF SearchSound
  <2> QED BY <2>2, <2>3, <2>4 DEF SearchSound
<1>9. b = s.stack[n].block /\ top.next = s.stack[n].next /\ n \in 1..n
      /\ x = g.succ[b][top.next]
  BY <1>4
<1> HIDE DEF B, Frame, n, top, b, x, moved, pushed, t, p
<1>10. /\ t.stack \in Seq(Frame) /\ t.stack # <<>>
       /\ x \in s.visited => DOMAIN t.stack = 1..n
       /\ x \notin s.visited => /\ DOMAIN t.stack = 1..(n + 1)
                                /\ t.stack[n + 1].block = x /\ t.stack[n + 1].next = 1
       /\ \A i \in 1..n : /\ i \in DOMAIN t.stack /\ t.stack[i].block = s.stack[i].block
                          /\ t.stack[i].next = IF i = n THEN top.next + 1 ELSE s.stack[i].next
  <2>1. CASE x \in s.visited
    <3>1. t.stack = moved
      BY <1>3, <2>1
    <3> QED BY <1>4, <1>9, <2>1, <3>1, EmptySeq
  <2>2. CASE x \notin s.visited
    <3>1. t.stack = pushed
      BY <1>3, <2>2
    <3>2. \A i \in 1..n : i \in 1..(n + 1)
      BY <1>4
    <3> QED BY <1>4, <1>7, <1>9, <2>2, <3>1, <3>2, EmptySeq
  <2> QED BY <2>1, <2>2
<1>11. OpenBlocks(t) = OpenBlocks(s) \cup (IF x \in s.visited THEN {} ELSE {x})
  <2>1. OpenBlocks(s) = {s.stack[i].block : i \in 1..n}
    BY <1>4 DEF OpenBlocks
  <2>2. CASE x \in s.visited
    <3>1. OpenBlocks(t) = {t.stack[i].block : i \in 1..n}
      BY <1>10, <2>2 DEF OpenBlocks
    <3> QED BY <1>10, <2>1, <2>2, <3>1
  <2>3. CASE x \notin s.visited
    <3>1. OpenBlocks(t) = {t.stack[i].block : i \in 1..(n + 1)}
      BY <1>10, <2>3 DEF OpenBlocks
    <3>2. 1..(n + 1) = (1..n) \cup {n + 1}
      BY <1>4
    <3> QED BY <1>10, <2>1, <2>3, <3>1, <3>2
  <2> QED BY <2>2, <2>3
<1>12. \A i \in DOMAIN t.stack : i \in 1..n \/ (x \notin s.visited /\ i = n + 1)
  BY <1>4, <1>10
<1>13. SearchSound(g, t)
  <2>1. t \in SearchType(g)
    <3>1. t = [stack |-> t.stack, visited |-> t.visited, post |-> t.post]
      BY <1>2, <1>3
    <3>2. t.visited \in SUBSET B /\ t.post \in Seq(B)
      BY <1>1, <1>3, <1>6
    <3> QED BY <1>10, <3>1, <3>2 DEF SearchType, B, Frame
  <2>2. t.visited = OpenBlocks(t) \cup Range(t.post) /\ OpenBlocks(t) \cap Range(t.post) = {}
    BY <1>3, <1>11 DEF SearchSound
  <2>3. \A i, j \in DOMAIN t.stack : t.stack[i].block = t.stack[j].block => i = j
    BY <1>8, <1>10, <1>12
  <2>4. g.entry \in t.visited
    BY <1>3 DEF SearchSound
  <2>5. \A c \in Range(t.post) : Range(g.succ[c]) \subseteq t.visited
    BY <1>3 DEF SearchSound
  <2>6. ASSUME NEW i \in DOMAIN t.stack
        PROVE  /\ t.stack[i].next <= Len(g.succ[t.stack[i].block]) + 1
               /\ \A k \in 1..(t.stack[i].next - 1) : g.succ[t.stack[i].block][k] \in t.visited
    <3>1. CASE i \in 1..n /\ i # n
      BY <1>3, <1>8, <1>10, <3>1
    <3>2. CASE i = n
      <4>1. t.stack[i].next = top.next + 1 /\ t.stack[i].block = b
        BY <1>9, <1>10, <3>2
      <4>2. top.next + 1 <= Len(g.succ[b]) + 1
        BY <1>5, <1>6
      <4>3. \A k \in 1..((top.next + 1) - 1) : k = top.next \/ k \in 1..(top.next - 1)
        BY <1>6
      <4>4. \A k \in 1..(top.next - 1) : g.succ[b][k] \in s.visited
        BY <1>8, <1>9
      <4> QED BY <1>3, <1>9, <4>1, <4>2, <4>3, <4>4
    <3>3. CASE x \notin s.visited /\ i = n + 1
      <4>1. t.stack[i].next = 1 /\ t.stack[i].block = x
        BY <1>10, <3>3
      <4>2. g.succ[x] \in Seq(B)
        BY <1>6 DEF Searchable, B
      <4>3. Len(g.succ[x]) \in Nat
        BY <4>2, LenProperties
      <4> QED BY <4>1, <4>3
    <3> QED BY <1>12, <3>1, <3>2, <3>3
  <2>7. t.stack[1].block = g.entry
    <3>1. 1 \in 1..n
      BY <1>4
    <3> QED BY <1>8, <1>10, <3>1
  <2> QED BY <1>10, <2>1, <2>2, <2>3, <2>4, <2>5, <2>6, <2>7 DEF SearchSound
<1>14. p \in SearchSteps(g)
  <2>1. top.next \in 1..(Len(g.succ[b]) + 1)
    BY <1>5, <1>6
  <2> QED BY <1>4, <2>1 DEF SearchSteps, p, B
<1>15. p[1] = b /\ p[2] = top.next
  BY DEF p
<1>16. p \in Taken(g, t)
  <2>1. top.next < top.next + 1
    BY <1>4
  <2>2. n \in DOMAIN t.stack /\ t.stack[n].block = b /\ t.stack[n].next = top.next + 1
    BY <1>9, <1>10
  <2> QED BY <1>14, <1>15, <2>1, <2>2 DEF Taken
<1>17. p \notin Taken(g, s)
  <2>1. b \in OpenBlocks(s)
    BY <1>4, <1>9 DEF OpenBlocks
  <2>2. b \notin Range(s.post)
    BY <2>1 DEF SearchSound
  <2>3. ASSUME NEW i \in 1..n, s.stack[i].block = b, top.next < s.stack[i].next PROVE FALSE
    <3>1. i = n
      BY <1>8, <1>9, <2>3
    <3> QED BY <1>4, <1>9, <2>3, <3>1
  <2> QED BY <1>4, <1>15, <2>2, <2>3 DEF Taken
<1>18. Taken(g, s) \subseteq Taken(g, t)
  <2> SUFFICES ASSUME NEW q \in Taken(g, s) PROVE q \in Taken(g, t)
    OBVIOUS
  <2>1. q \in SearchSteps(g)
    BY DEF Taken
  <2>2. CASE q[1] \in Range(s.post)
    BY <1>3, <2>1, <2>2 DEF Taken
  <2>3. ASSUME NEW i \in 1..n, s.stack[i].block = q[1], q[2] < s.stack[i].next
        PROVE  q \in Taken(g, t)
    <3>1. q[2] \in Int
      <4>1. PICK c \in g.blocks : q \in {c} \X (1..(Len(g.succ[c]) + 1))
        BY <2>1 DEF SearchSteps
      <4> QED BY <4>1
    <3>2. q[2] < t.stack[i].next
      <4> DEFINE m == s.stack[i].next
      <4>1. m \in Int /\ q[2] < m
        BY <1>8, <2>3
      <4>2. t.stack[i].next = m \/ t.stack[i].next = m + 1
        BY <1>9, <1>10
      <4> HIDE DEF m
      <4> QED BY <3>1, <4>1, <4>2
    <3> QED BY <1>10, <2>1, <2>3, <3>2 DEF Taken
  <2> QED BY <1>4, <2>2, <2>3 DEF Taken
<1> QED BY <1>13, <1>16, <1>17, <1>18 DEF t, p, b, top, n

\* The search takes finitely many steps.
LEMMA SearchStepsFinite ==
    ASSUME NEW g, Searchable(g)
    PROVE  IsFiniteSet(SearchSteps(g)) /\ Cardinality(SearchSteps(g)) \in Nat
<1> DEFINE B == g.blocks
           Row(b) == {b} \X (1..(Len(g.succ[b]) + 1))
           F == {Row(b) : b \in B}
           row == [b \in B |-> Row(b)]
<1>1. IsFiniteSet(B)
  BY DEF Searchable
<1>2. \A b \in B : IsFiniteSet(Row(b))
  <2> SUFFICES ASSUME NEW b \in B PROVE IsFiniteSet(Row(b))
    OBVIOUS
  <2>1. IsFiniteSet({b})
    BY FS_Singleton
  <2>2. g.succ[b] \in Seq(B)
    BY DEF Searchable
  <2>3. Len(g.succ[b]) \in Nat
    BY <2>2, LenProperties
  <2>4. Len(g.succ[b]) + 1 \in Int /\ 1 \in Int
    BY <2>3
  <2>5. IsFiniteSet(1..(Len(g.succ[b]) + 1))
    BY <2>4, FS_Interval
  <2> QED BY <2>1, <2>5, FS_Product
<1>3. SearchSteps(g) = UNION F
  BY DEF SearchSteps
<1> HIDE DEF B, Row
<1>4. row \in Surjection(B, F)
  BY DEF Surjection
<1> HIDE DEF row, F
<1>5. IsFiniteSet(F)
  BY <1>1, <1>4, FS_Surjection
<1>6. \A T \in F : IsFiniteSet(T)
  BY <1>2 DEF F
<1>7. IsFiniteSet(SearchSteps(g))
  BY <1>3, <1>5, <1>6, FS_UNION
<1> QED BY <1>7, FS_CardinalityType

\* The search ends: the postorder has the entry last, and whatever a block of it
\* leads to.
LEMMA PostOrderShape ==
    ASSUME NEW g, Searchable(g)
    PROVE  /\ PostOrder(g) \in Seq(g.blocks) /\ PostOrder(g) # <<>>
           /\ PostOrder(g)[Len(PostOrder(g))] = g.entry
           /\ \A b \in Range(PostOrder(g)) : Range(g.succ[b]) \subseteq Range(PostOrder(g))
<1> DEFINE n == Cardinality(SearchSteps(g))
           Type == {s \in SearchType(g) : SearchSound(g, s)}
           start == [stack |-> <<[block |-> g.entry, next |-> 1]>>,
                     visited |-> {g.entry}, post |-> <<>>]
           base == {start}
           T == {q \in SUBSET Type : q # {}}
           Step(q) == {SearchStep(g, s) : s \in q}
           f == [k \in 1..n |-> [q \in T |-> Step(q)]]
           Solves(R) == R = [k \in 0..n |-> IF k = 0 THEN base ELSE Step(R[k - 1])]
           Q == CHOOSE R : Solves(R)
<1>1. n \in Nat
  BY SearchStepsFinite
<1>2. PostOrder(g) = (CHOOSE s \in Q[n] : TRUE).post
  BY DEF PostOrder
<1> HIDE DEF n
<1>3. start \in Type
  <2> DEFINE first == [block |-> g.entry, next |-> 1]
  <2>1. g.entry \in g.blocks
    BY DEF Searchable
  <2>2. first \in [block : g.blocks, next : Nat \ {0}]
    BY <2>1
  <2>3. start.stack = <<first>> /\ start.visited = {g.entry} /\ start.post = <<>>
    OBVIOUS
  <2>4. first.block = g.entry /\ first.next = 1
    OBVIOUS
  <2> HIDE DEF first
  <2>5. <<first>> \in Seq([block : g.blocks, next : Nat \ {0}]) /\ Len(<<first>>) = 1
        /\ <<first>>[1] = first /\ DOMAIN <<first>> = 1..1
    BY <2>2
  <2>6. start \in SearchType(g)
    BY <2>1, <2>3, <2>5 DEF SearchType
  <2>7. OpenBlocks(start) = {g.entry}
    BY <2>3, <2>4, <2>5 DEF OpenBlocks
  <2>8. Range(start.post) = {}
    BY <2>3 DEF Range
  <2>9. g.succ[g.entry] \in Seq(g.blocks)
    BY <2>1 DEF Searchable
  <2>10. Len(g.succ[g.entry]) \in Nat
    BY <2>9, LenProperties
  <2> HIDE DEF start
  <2>11. \A i \in DOMAIN start.stack : i = 1 /\ start.stack[i].block = g.entry /\ start.stack[i].next = 1
    BY <2>3, <2>4, <2>5
  <2> QED BY <2>3, <2>6, <2>7, <2>8, <2>10, <2>11 DEF SearchSound
<1>4. \A s \in Type : SearchStep(g, s) \in Type
  <2> SUFFICES ASSUME NEW s \in Type PROVE SearchStep(g, s) \in Type
    OBVIOUS
  <2>1. s.stack # <<>> => SearchSound(g, SearchStep(g, s))
    BY SearchLeaves, SearchFollows
  <2>2. s.stack = <<>> => SearchStep(g, s) = s
    BY DEF SearchStep
  <2> QED BY <2>1, <2>2 DEF SearchSound
<1>0. base \in T /\ \A q \in T : Step(q) \in T
  <2> HIDE DEF Type, start
  <2> QED BY <1>3, <1>4
<1> HIDE DEF T, base, Step
<1>5. Solves(Q)
  <2>1. f \in [1..n -> [T -> T]]
    BY <1>0
  <2>2. PICK R \in [0..n -> T] : R[0] = base /\ \A k \in 1..n : R[k] = f[k][R[k - 1]]
    <3> HIDE DEF f
    <3> QED BY <1>0, <1>1, <2>1, IterationExists
  <2>3. ASSUME NEW k \in 1..n PROVE f[k][R[k - 1]] = Step(R[k - 1])
    <3>1. R[k - 1] \in T
      BY <1>1
    <3> QED BY <3>1
  <2> HIDE DEF f
  <2>4. Solves(R)
    <3>1. \A k \in 0..n : R[k] = IF k = 0 THEN base ELSE Step(R[k - 1])
      <4> SUFFICES ASSUME NEW k \in 0..n
                   PROVE  R[k] = IF k = 0 THEN base ELSE Step(R[k - 1])
        OBVIOUS
      <4>1. CASE k = 0
        BY <2>2, <4>1
      <4>2. CASE k # 0
        <5>1. k \in 1..n
          BY <1>1, <4>2
        <5> QED BY <2>2, <2>3, <4>2, <5>1
      <4> QED BY <4>1, <4>2
    <3> QED BY <3>1
  <2> HIDE DEF Solves
  <2> QED BY <2>4
<1> HIDE DEF Q
<1>6. Q[0] = base /\ \A k \in 1..n : Q[k] = Step(Q[k - 1])
  BY <1>1, <1>5
<1> HIDE DEF Solves
<1> DEFINE Far(k, s) == s \in Type /\ (s.stack # <<>> => Cardinality(Taken(g, s)) >= k)
           P == {k \in 0..n : Q[k] # {} /\ \A s \in Q[k] : Far(k, s)}
<1>7. 0 \in P
  <2>1. Q[0] = {start}
    BY <1>6 DEF base
  <2>2. IsFiniteSet(Taken(g, start))
    BY SearchStepsFinite, FS_Subset DEF Taken
  <2>3. Cardinality(Taken(g, start)) >= 0
    BY <2>2, FS_CardinalityType
  <2> HIDE DEF start, Type
  <2> QED BY <1>1, <1>3, <2>1, <2>3
<1>8. ASSUME NEW k \in 1..n, k - 1 \in P PROVE k \in P
  <2>1. k \in 0..n /\ k - 1 \in Nat
    BY <1>1
  <2>2. Q[k] = {SearchStep(g, s) : s \in Q[k - 1]} /\ Q[k] # {}
    <3>1. Q[k] = {SearchStep(g, s) : s \in Q[k - 1]}
      <4> HIDE DEF P, Type, start
      <4> QED BY <1>6 DEF Step
    <3>2. Q[k - 1] # {}
      <4> HIDE DEF Far
      <4> QED BY <1>8
    <3> HIDE DEF P, Type, start
    <3>3. PICK s \in Q[k - 1] : TRUE
      BY <3>2
    <3>4. SearchStep(g, s) \in Q[k]
      BY <3>1, <3>3
    <3> QED BY <3>1, <3>4
  <2>3. ASSUME NEW s \in Q[k - 1] PROVE Far(k, SearchStep(g, s))
    <3>1. Far(k - 1, s)
      BY <1>8
    <3>2. CASE s.stack = <<>>
      BY <3>1, <3>2 DEF SearchStep
    <3>3. CASE s.stack # <<>>
      <4> DEFINE t == SearchStep(g, s)
                 p == <<s.stack[Len(s.stack)].block, s.stack[Len(s.stack)].next>>
      <4>1. SearchSound(g, s)
        BY <3>1
      <4>2. p \in Taken(g, t) \ Taken(g, s) /\ Taken(g, s) \subseteq Taken(g, t)
        BY <3>3, <4>1, SearchLeaves, SearchFollows
      <4>3. t \in Type
        BY <1>4, <3>1
      <4> HIDE DEF p, t
      <4>4. IsFiniteSet(Taken(g, t)) /\ IsFiniteSet(Taken(g, s))
        BY SearchStepsFinite, FS_Subset DEF Taken
      <4>5. /\ Cardinality(Taken(g, s)) <= Cardinality(Taken(g, t))
            /\ Cardinality(Taken(g, s)) = Cardinality(Taken(g, t)) => Taken(g, s) = Taken(g, t)
        BY <4>2, <4>4, FS_Subset
      <4>6. Cardinality(Taken(g, s)) # Cardinality(Taken(g, t))
        BY <4>2, <4>5
      <4>7. Cardinality(Taken(g, s)) \in Nat /\ Cardinality(Taken(g, t)) \in Nat
        BY <4>4, FS_CardinalityType
      <4>8. Cardinality(Taken(g, s)) >= k - 1
        BY <3>1, <3>3
      <4> HIDE DEF Type
      <4>9. Cardinality(Taken(g, t)) >= k
        BY <2>1, <4>5, <4>6, <4>7, <4>8
      <4> QED BY <4>3, <4>9 DEF t
    <3> QED BY <3>2, <3>3
  <2> HIDE DEF Far
  <2> QED BY <2>1, <2>2, <2>3
<1> HIDE DEF P
<1>9. n \in P
  BY <1>1, <1>7, <1>8, Induct
<1> DEFINE e == CHOOSE s \in Q[n] : TRUE
<1>10. e \in Q[n]
  BY <1>9 DEF P
<1>11. SearchSound(g, e) /\ (e.stack # <<>> => Cardinality(Taken(g, e)) >= n)
  BY <1>9, <1>10 DEF P
<1>12. PostOrder(g) = e.post
  BY <1>2
<1> HIDE DEF e
<1>13. e.stack = <<>>
  <2> SUFFICES ASSUME e.stack # <<>> PROVE FALSE
    OBVIOUS
  <2> DEFINE p == <<e.stack[Len(e.stack)].block, e.stack[Len(e.stack)].next>>
             u == SearchStep(g, e)
  <2>1. p \in Taken(g, u) \ Taken(g, e)
    BY <1>11, SearchLeaves, SearchFollows
  <2>2. p \in SearchSteps(g) /\ p \notin Taken(g, e)
    BY <2>1 DEF Taken
  <2> HIDE DEF p
  <2>3. Taken(g, e) \subseteq SearchSteps(g) /\ IsFiniteSet(SearchSteps(g))
    BY SearchStepsFinite DEF Taken
  <2>4. /\ Cardinality(Taken(g, e)) <= n
        /\ Cardinality(Taken(g, e)) = n => Taken(g, e) = SearchSteps(g)
    BY <2>3, FS_Subset DEF n
  <2>5. IsFiniteSet(Taken(g, e))
    BY <2>3, FS_Subset
  <2>6. Cardinality(Taken(g, e)) \in Nat
    BY <2>5, FS_CardinalityType
  <2> QED BY <1>1, <1>11, <2>2, <2>4, <2>6
<1>14. e.post \in Seq(g.blocks)
  BY <1>11 DEF SearchSound, SearchType
<1>15. OpenBlocks(e) = {}
  BY <1>13 DEF OpenBlocks
<1> QED BY <1>11, <1>12, <1>13, <1>14, <1>15 DEF SearchSound

=============================================================================

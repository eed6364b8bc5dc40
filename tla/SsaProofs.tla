------------------------------ MODULE SsaProofs ------------------------------
(***************************************************************************)
(* What build_chains and SsaProgram::build guarantee for every flow graph, *)
(* every code and every limit.                                             *)
(*                                                                         *)
(* Chains: a chain has only uses its definition reaches along a path, and  *)
(* all of them, but for the ones above the definition in its own block,    *)
(* unless the limit on visited blocks cut it short.  The search invariant, *)
(* Searching, is the usual one of a worklist: what is queued is reached,   *)
(* what has been seen has been scanned, and the ways out of what has been  *)
(* scanned are seen or queued.  When the worklist is empty the scanned     *)
(* instructions are closed under NextPcs, so that they contain Reached,    *)
(* the least such set.                                                     *)
(*                                                                         *)
(* Values: the sweeps keep SweepInv, in which every value found so far     *)
(* flows, along a path that does not write its register, from its source   *)
(* (the caller, an instruction or a phi) to where it is recorded, and      *)
(* the equations hold at the blocks of a sweep that has changed nothing.   *)
(* After such a sweep they hold everywhere (Final).  Then the leaves of a  *)
(* value, got by resolving its phis, flow to the use because values do,    *)
(* and a definition that reaches the use is among them because "is a leaf  *)
(* here" goes on from every instruction that leaves the register alone.    *)
(***************************************************************************)
EXTENDS Ssa, CommonLemmas

-----------------------------------------------------------------------------
(* Scanning a block *)

\* UpToKill and KilledFrom by the positions from i on.
LEMMA ScanShape ==
    ASSUME NEW g, HasCode(g), NEW b \in g.blocks, NEW i \in Nat \ {0}, NEW r
    PROVE  /\ \A x : x \in UpToKill(g, b, i, r) <=>
                 \E k \in i..Len(g.code[b]) :
                    x = <<b, k>> /\ \A m \in i..(k - 1) : r \notin g.code[b][m].defs
           /\ KilledFrom(g, b, i, r) <=>
                 \E k \in i..Len(g.code[b]) : r \in g.code[b][k].defs
<1>1. Len(g.code[b]) \in Nat /\ DOMAIN g.code[b] = 1..Len(g.code[b])
  BY DEF HasCode
<1>2. \A k : k \in i..Len(g.code[b]) <=> (k \in DOMAIN g.code[b] /\ k >= i)
  BY <1>1
<1> QED BY <1>2 DEF UpToKill, KilledFrom

\* A scan from an instruction of R finds instructions of R only, if R goes on
\* from every instruction that leaves r alone; and if the scan meets no write,
\* R has the starts of the successors.
LEMMA ScanWithin ==
    ASSUME NEW g, HasCode(g), NEW b \in g.blocks, NEW r, NEW R,
           \A pc \in R : r \notin At(g, pc).defs => NextPcs(g, pc) \subseteq R,
           NEW i \in 1..Len(g.code[b]), <<b, i>> \in R
    PROVE  /\ UpToKill(g, b, i, r) \subseteq R
           /\ ~KilledFrom(g, b, i, r) => \A s \in Succs(g, b) : <<s, 1>> \in R
<1> DEFINE n == Len(g.code[b])
<1>1. n \in Nat /\ i \in Nat \ {0} /\ n \in i..n /\ n \in 1..n
  BY DEF HasCode
<1>2. ASSUME NEW k \in i..n, \A m \in i..(k - 1) : r \notin g.code[b][m].defs
      PROVE  <<b, k>> \in R
  BY <1>2, RunsThrough
<1>3. UpToKill(g, b, i, r) \subseteq R
  BY <1>1, <1>2, ScanShape
<1>4. ASSUME ~KilledFrom(g, b, i, r), NEW s \in Succs(g, b) PROVE <<s, 1>> \in R
  <2>1. \A k \in i..n : r \notin g.code[b][k].defs
    BY <1>1, <1>4, ScanShape
  <2>2. \A m \in i..(n - 1) : r \notin g.code[b][m].defs
    BY <1>1, <2>1
  <2>3. <<b, n>> \in R
    BY <1>1, <1>2, <2>2
  <2>4. At(g, <<b, n>>) = g.code[b][n] /\ NextPcs(g, <<b, n>>) = Succs(g, b) \X {1}
    BY <1>1, NextPcsAre
  <2> QED BY <1>1, <2>1, <2>3, <2>4
<1> QED BY <1>3, <1>4

\* From a scanned instruction that leaves r alone execution goes on to another
\* scanned one, or out of a block in which the scan met no write.
LEMMA ScanOut ==
    ASSUME NEW g, HasCode(g), NEW b \in g.blocks, NEW i \in Nat \ {0}, NEW r,
           NEW pc \in UpToKill(g, b, i, r), r \notin At(g, pc).defs
    PROVE  \/ NextPcs(g, pc) \subseteq UpToKill(g, b, i, r)
           \/ ~KilledFrom(g, b, i, r) /\ NextPcs(g, pc) = Succs(g, b) \X {1}
<1> DEFINE n == Len(g.code[b])
<1>1. n \in Nat
  BY DEF HasCode
<1>2. PICK k \in i..n : pc = <<b, k>> /\ \A m \in i..(k - 1) : r \notin g.code[b][m].defs
  BY ScanShape
<1>3. k \in 1..n
  BY <1>1
<1>4. /\ At(g, pc) = g.code[b][k]
      /\ k < n => NextPcs(g, pc) = {<<b, k + 1>>}
      /\ k = n => NextPcs(g, pc) = Succs(g, b) \X {1}
  BY <1>2, <1>3, NextPcsAre
<1>5. \A m \in i..k : r \notin g.code[b][m].defs
  BY <1>1, <1>2, <1>4
<1>6. CASE k < n
  <2>1. k + 1 \in i..n /\ (k + 1) - 1 = k
    BY <1>1, <1>3, <1>6
  <2>2. <<b, k + 1>> \in UpToKill(g, b, i, r)
    BY <1>5, <2>1, ScanShape
  <2> QED BY <1>4, <1>6, <2>2
<1>7. CASE k = n
  <2>1. ~KilledFrom(g, b, i, r)
    BY <1>5, <1>7, ScanShape
  <2> QED BY <1>4, <1>7, <2>1
<1> QED BY <1>1, <1>3, <1>6, <1>7

-----------------------------------------------------------------------------
(* The search for the uses of one definition *)

\* Where the scan of block c starts: behind the definition in its own block.
ScanStart(d, c) == IF c = d.pc[1] THEN d.pc[2] + 1 ELSE 1

\* The search for d, with blocks `seen`, worklist `work` and uses `found`, is
\* sound, and complete but for what is queued unless the limit has ended it.
Searching(g, d, seen, work, found, limit) ==
    /\ d \in Definitions(g)
    /\ seen \subseteq g.blocks
    /\ d.pc[1] \in seen
    /\ work \in Seq(g.blocks)
    /\ found \subseteq RealUses(g, d)
    /\ \A w \in Range(work) : <<w, 1>> \in Reached(g, NextPcs(g, d.pc), d.reg)
    /\ \A c \in seen : UsesFrom(g, c, ScanStart(d, c), d.reg) \subseteq found
    /\ ~limit =>
          \A c \in seen : ~KilledFrom(g, c, ScanStart(d, c), d.reg) =>
                              Succs(g, c) \subseteq seen \cup Range(work)

\* A definition is at an instruction that writes its register, and what it
\* reaches is the least set of instructions closed under going on.
LEMMA DefinitionShape ==
    ASSUME NEW g, IsFlowGraph(g), HasCode(g), NEW d \in Definitions(g)
    PROVE  /\ d.pc \in Pcs(g)
           /\ d.reg \in At(g, d.pc).defs
           /\ d.pc[1] \in g.blocks /\ d.pc[2] \in 1..Len(g.code[d.pc[1]])
           /\ d.pc = <<d.pc[1], d.pc[2]>>
           /\ \A c : ScanStart(d, c) \in Nat \ {0}
           /\ NextPcs(g, d.pc) \in SUBSET Pcs(g)
<1>1. d.pc \in Pcs(g) /\ d.reg \in At(g, d.pc).defs
  BY DEF Definitions
<1>2. /\ d.pc[1] \in g.blocks /\ d.pc[2] \in 1..Len(g.code[d.pc[1]])
      /\ d.pc = <<d.pc[1], d.pc[2]>>
  BY <1>1, PcsShape
<1>3. \A c : ScanStart(d, c) \in Nat \ {0}
  BY <1>2 DEF ScanStart
<1>4. NextPcs(g, d.pc) \in SUBSET Pcs(g)
  BY <1>1, NextPcsShape
<1> QED BY <1>1, <1>2, <1>3, <1>4

\* The scan of the definition's own block finds what the definition reaches.
LEMMA OwnBlock ==
    ASSUME NEW g, IsFlowGraph(g), HasCode(g), NEW d \in Definitions(g)
    PROVE  LET b == d.pc[1]
               i == d.pc[2] + 1
               R == Reached(g, NextPcs(g, d.pc), d.reg)
           IN  /\ UpToKill(g, b, i, d.reg) \subseteq R
               /\ ~KilledFrom(g, b, i, d.reg) => \A s \in Succs(g, b) : <<s, 1>> \in R
<1> DEFINE b == d.pc[1]
           i == d.pc[2] + 1
           r == d.reg
           n == Len(g.code[b])
           S == NextPcs(g, d.pc)
           R == Reached(g, S, r)
<1>1. /\ b \in g.blocks /\ d.pc[2] \in 1..n /\ d.pc = <<b, d.pc[2]>> /\ S \in SUBSET Pcs(g)
  BY DefinitionShape
<1>2. n \in Nat
  BY <1>1 DEF HasCode
<1>3. /\ d.pc[2] < n => S = {<<b, d.pc[2] + 1>>}
      /\ d.pc[2] = n => S = Succs(g, b) \X {1}
  <2> DEFINE k == d.pc[2]
  <2>1. b \in g.blocks /\ k \in 1..Len(g.code[b]) /\ S = NextPcs(g, <<b, k>>)
    BY <1>1
  <2> HIDE DEF b, k, S
  <2>2. /\ k < Len(g.code[b]) => S = {<<b, k + 1>>}
        /\ k = Len(g.code[b]) => S = Succs(g, b) \X {1}
    BY <2>1, NextPcsAre
  <2> QED BY <2>2 DEF k
<1> HIDE DEF S
<1>4. S \subseteq R /\ \A pc \in R : r \notin At(g, pc).defs => NextPcs(g, pc) \subseteq R
  BY <1>1, ReachedIsLeast
<1>5. i \in Nat \ {0} /\ (d.pc[2] < n => i \in 1..n) /\ (d.pc[2] = n => i..n = {})
  BY <1>1, <1>2
<1> HIDE DEF R
<1>6. ASSUME d.pc[2] < n
      PROVE  /\ UpToKill(g, b, i, r) \subseteq R
             /\ ~KilledFrom(g, b, i, r) => \A s \in Succs(g, b) : <<s, 1>> \in R
  <2>1. <<b, i>> \in R /\ i \in 1..n
    BY <1>3, <1>4, <1>5, <1>6
  <2> HIDE DEF i
  <2> QED BY <1>1, <1>4, <2>1, ScanWithin
<1>7. ASSUME d.pc[2] = n
      PROVE  /\ UpToKill(g, b, i, r) \subseteq R
             /\ ~KilledFrom(g, b, i, r) => \A s \in Succs(g, b) : <<s, 1>> \in R
  <2>1. UpToKill(g, b, i, r) = {}
    BY <1>1, <1>5, <1>7, ScanShape
  <2>2. \A s \in Succs(g, b) : <<s, 1>> \in R
    BY <1>3, <1>4, <1>7
  <2> QED BY <2>1, <2>2
<1>8. d.pc[2] < n \/ d.pc[2] = n
  BY <1>1, <1>2
<1> QED BY <1>6, <1>7, <1>8 DEF R, S

\* BeginChain starts a search.
LEMMA SearchBegins ==
    ASSUME NEW g, IsFlowGraph(g), HasCode(g), NEW d \in Definitions(g), NEW b, NEW i,
           b = d.pc[1], i = d.pc[2] + 1
    PROVE  Searching(g, d, {b},
                     IF KilledFrom(g, b, i, d.reg) THEN <<>> ELSE g.succ[b],
                     UsesFrom(g, b, i, d.reg), FALSE)
<1> DEFINE work == IF KilledFrom(g, b, i, d.reg) THEN <<>> ELSE g.succ[b]
           R == Reached(g, NextPcs(g, d.pc), d.reg)
<1>1. b \in g.blocks
  BY DefinitionShape
<1>2. ScanStart(d, b) = i
  BY DEF ScanStart
<1>3. /\ UpToKill(g, b, i, d.reg) \subseteq R
      /\ ~KilledFrom(g, b, i, d.reg) => \A s \in Succs(g, b) : <<s, 1>> \in R
  BY OwnBlock
<1>4. work \in Seq(g.blocks)
  BY <1>1, EmptySeq DEF IsFlowGraph
<1>5. /\ KilledFrom(g, b, i, d.reg) => Range(work) = {}
      /\ ~KilledFrom(g, b, i, d.reg) => Range(work) = Succs(g, b)
  BY DEF Range, Succs
<1>6. UsesFrom(g, b, i, d.reg) \subseteq RealUses(g, d)
  BY <1>3 DEF UsesFrom, RealUses
<1> HIDE DEF work
<1>7. \A w \in Range(work) : <<w, 1>> \in R
  BY <1>3, <1>5
<1> HIDE DEF R
<1>8. Searching(g, d, {b}, work, UsesFrom(g, b, i, d.reg), FALSE)
  BY <1>1, <1>2, <1>4, <1>5, <1>6, <1>7 DEF Searching, R
<1> QED BY <1>8 DEF work

\* PopSeen drops a block that has been scanned.
LEMMA SearchSkips ==
    ASSUME NEW g, NEW d, NEW seen, NEW work, NEW found, NEW limit,
           Searching(g, d, seen, work, found, limit),
           work # <<>>, work[Len(work)] \in seen
    PROVE  Searching(g, d, seen, SubSeq(work, 1, Len(work) - 1), found, limit)
<1> DEFINE rest == SubSeq(work, 1, Len(work) - 1)
<1>1. work \in Seq(g.blocks)
  BY DEF Searching
<1>2. rest \in Seq(g.blocks) /\ Range(work) = Range(rest) \cup {work[Len(work)]}
  BY <1>1, PopShape, PopSplit
<1> HIDE DEF rest
<1>3. Searching(g, d, seen, rest, found, limit)
  BY <1>2 DEF Searching
<1> QED BY <1>3 DEF rest

\* PopCut ends the search at the limit.
LEMMA SearchCut ==
    ASSUME NEW g, NEW d, NEW seen, NEW work, NEW found, NEW limit,
           Searching(g, d, seen, work, found, limit)
    PROVE  Searching(g, d, seen, <<>>, found, TRUE)
BY EmptySeq DEF Searching, Range

\* PopNew scans a block and queues the ways out of it.
LEMMA SearchScans ==
    ASSUME NEW g, IsFlowGraph(g), HasCode(g),
           NEW d, NEW seen, NEW work, NEW found, NEW limit, NEW c, NEW now,
           Searching(g, d, seen, work, found, limit), work # <<>>,
           c = work[Len(work)], c \notin seen, now = seen \cup {c}
    PROVE  Searching(g, d, now,
                     IF KilledFrom(g, c, 1, d.reg) THEN SubSeq(work, 1, Len(work) - 1)
                     ELSE SubSeq(work, 1, Len(work) - 1) \o Kept(g.succ[c], g.blocks \ now),
                     found \cup UsesFrom(g, c, 1, d.reg), limit)
<1> DEFINE rest == SubSeq(work, 1, Len(work) - 1)
           more == Kept(g.succ[c], g.blocks \ now)
           next == IF KilledFrom(g, c, 1, d.reg) THEN rest ELSE rest \o more
           S == NextPcs(g, d.pc)
           R == Reached(g, S, d.reg)
           all == found \cup UsesFrom(g, c, 1, d.reg)
<1>0. /\ d \in Definitions(g) /\ work \in Seq(g.blocks) /\ seen \subseteq g.blocks
      /\ d.pc[1] \in seen /\ found \subseteq RealUses(g, d)
      /\ \A w \in Range(work) : <<w, 1>> \in R
      /\ \A x \in seen : UsesFrom(g, x, ScanStart(d, x), d.reg) \subseteq found
      /\ ~limit =>
            \A x \in seen : ~KilledFrom(g, x, ScanStart(d, x), d.reg) =>
                                Succs(g, x) \subseteq seen \cup Range(work)
  BY DEF Searching
<1>1. /\ rest \in Seq(g.blocks) /\ c \in g.blocks
      /\ c \in Range(work) /\ Range(work) = Range(rest) \cup {c}
  BY <1>0, PopShape, PopSplit
<1>2. g.succ[c] \in Seq(g.blocks) /\ Succs(g, c) \subseteq g.blocks
  BY <1>1, SuccsAreBlocks DEF IsFlowGraph
<1>3. more \in Seq(g.blocks) /\ Range(more) = Succs(g, c) \ now
  <2>1. more \in Seq(g.blocks) /\ Range(more) = Range(g.succ[c]) \cap (g.blocks \ now)
    BY <1>2, KeptRange
  <2> QED BY <1>2, <2>1 DEF Succs
<1> HIDE DEF rest, more
<1>4. rest \o more \in Seq(g.blocks) /\ Range(rest \o more) = Range(rest) \cup Range(more)
  BY <1>1, <1>3, ConcatRange
<1>5. /\ next \in Seq(g.blocks)
      /\ Range(rest) \subseteq Range(next)
      /\ Range(next) \subseteq Range(rest) \cup Range(more)
      /\ KilledFrom(g, c, 1, d.reg) => Range(next) = Range(rest)
      /\ ~KilledFrom(g, c, 1, d.reg) => Range(next) = Range(rest) \cup Range(more)
  BY <1>1, <1>4
<1>6. /\ UpToKill(g, c, 1, d.reg) \subseteq R
      /\ ~KilledFrom(g, c, 1, d.reg) => \A s \in Succs(g, c) : <<s, 1>> \in R
  <2>1. S \in SUBSET Pcs(g)
    BY <1>0, DefinitionShape
  <2> HIDE DEF S
  <2>2. \A pc \in R : d.reg \notin At(g, pc).defs => NextPcs(g, pc) \subseteq R
    BY <2>1, ReachedIsLeast
  <2>3. 1 \in 1..Len(g.code[c])
    BY <1>1 DEF HasCode
  <2>4. <<c, 1>> \in R
    BY <1>0, <1>1
  <2> HIDE DEF R
  <2> QED BY <1>1, <2>2, <2>3, <2>4, ScanWithin
<1>7. all \subseteq RealUses(g, d)
  BY <1>0, <1>6 DEF UsesFrom, RealUses
<1> HIDE DEF next
<1>8. \A w \in Range(next) : <<w, 1>> \in R
  <2>1. ASSUME NEW w \in Range(next) PROVE <<w, 1>> \in R
    <3>1. CASE w \in Range(rest)
      BY <1>0, <1>1, <3>1
    <3>2. CASE ~KilledFrom(g, c, 1, d.reg) /\ w \in Range(more)
      BY <1>3, <1>6, <3>2
    <3> QED BY <1>5, <3>1, <3>2
  <2> QED BY <2>1
<1> HIDE DEF R
<1>9. ScanStart(d, c) = 1
  BY <1>0 DEF ScanStart
<1>10. \A x \in now : UsesFrom(g, x, ScanStart(d, x), d.reg) \subseteq all
  BY <1>0, <1>9
<1>11. ASSUME ~limit, NEW x \in now, ~KilledFrom(g, x, ScanStart(d, x), d.reg)
       PROVE  Succs(g, x) \subseteq now \cup Range(next)
  <2>1. CASE x = c
    BY <1>3, <1>5, <1>9, <1>11, <2>1
  <2>2. CASE x # c
    <3>1. Succs(g, x) \subseteq seen \cup Range(work)
      BY <1>0, <1>11, <2>2
    <3> QED BY <1>1, <1>5, <3>1
  <2> QED BY <2>1, <2>2
<1>12. now \subseteq g.blocks /\ d.pc[1] \in now
  BY <1>0, <1>1
<1> HIDE DEF all
<1>13. Searching(g, d, now, next, all, limit)
  BY <1>0, <1>5, <1>7, <1>8, <1>10, <1>11, <1>12 DEF Searching, R, S
<1> QED BY <1>13 DEF next, rest, more, all

\* A search that has run empty has found what its chain must have.
LEMMA SearchEnds ==
    ASSUME NEW g, IsFlowGraph(g), HasCode(g), NEW d, NEW seen, NEW found, NEW limit,
           Searching(g, d, seen, <<>>, found, limit)
    PROVE  /\ found \subseteq RealUses(g, d)
           /\ ~limit => \A u \in RealUses(g, d) \ found : u[1] = d.pc[1] /\ u[2] <= d.pc[2]
<1> DEFINE b == d.pc[1]
           i == d.pc[2]
           r == d.reg
           Scan(c) == UpToKill(g, c, ScanStart(d, c), r)
           Above == {x \in Pcs(g) : x[1] = b /\ x[2] <= i}
           Scanned == UNION {Scan(c) : c \in seen}
           X == Scanned \cup Above
           S == NextPcs(g, d.pc)
<1>0. /\ d \in Definitions(g) /\ seen \subseteq g.blocks /\ b \in seen
      /\ found \subseteq RealUses(g, d)
      /\ \A c \in seen : UsesFrom(g, c, ScanStart(d, c), r) \subseteq found
  BY DEF Searching
<1> SUFFICES ASSUME ~limit, NEW u \in RealUses(g, d), u \notin found
             PROVE  u[1] = b /\ u[2] <= i
  BY <1>0
<1>1. \A c \in seen : ~KilledFrom(g, c, ScanStart(d, c), r) => Succs(g, c) \subseteq seen
  BY DEF Searching, Range
<1>2. /\ d.pc = <<b, i>> /\ b \in g.blocks /\ i \in 1..Len(g.code[b]) /\ r \in At(g, d.pc).defs
      /\ S \in SUBSET Pcs(g) /\ \A c : ScanStart(d, c) \in Nat \ {0}
  BY <1>0, DefinitionShape
<1>3. Len(g.code[b]) \in Nat
  BY <1>2 DEF HasCode
<1>4. ASSUME NEW c \in seen PROVE <<c, 1>> \in X
  <2>1. <<c, 1>> \in Pcs(g) /\ Len(g.code[c]) \in Nat \ {0}
    BY <1>0, PcsShape
  <2>2. CASE c = b
    BY <1>2, <2>1, <2>2
  <2>3. CASE c # b
    <3>1. ScanStart(d, c) = 1
      BY <2>3 DEF ScanStart
    <3>2. 1 \in 1..Len(g.code[c]) /\ \A m \in 1..(1 - 1) : r \notin g.code[c][m].defs
      BY <2>1
    <3>3. <<c, 1>> \in Scan(c)
      BY <1>0, <3>1, <3>2, ScanShape
    <3> QED BY <3>3
  <2> QED BY <2>2, <2>3
<1>5. ASSUME NEW c \in seen, ~KilledFrom(g, c, ScanStart(d, c), r)
      PROVE  Succs(g, c) \X {1} \subseteq X
  <2>1. Succs(g, c) \subseteq seen
    BY <1>1, <1>5
  <2> HIDE DEF X
  <2> QED BY <1>4, <2>1
<1>6. S \subseteq X
  <2>1. /\ i < Len(g.code[b]) => S = {<<b, i + 1>>}
        /\ i = Len(g.code[b]) => S = Succs(g, b) \X {1}
    <3>1. b \in g.blocks /\ i \in 1..Len(g.code[b]) /\ S = NextPcs(g, <<b, i>>)
      BY <1>2
    <3> HIDE DEF b, i, S
    <3> QED BY <3>1, NextPcsAre
  <2>2. ScanStart(d, b) = i + 1
    BY DEF ScanStart
  <2>3. ASSUME i < Len(g.code[b]) PROVE S \subseteq X
    <3>1. i + 1 \in (i + 1)..Len(g.code[b]) /\ (i + 1)..((i + 1) - 1) = {}
      BY <1>2, <1>3, <2>3
    <3>2. i + 1 \in Nat \ {0}
      BY <1>2
    <3>3. <<b, i + 1>> \in UpToKill(g, b, i + 1, r)
      BY <1>2, <3>1, <3>2, ScanShape
    <3> QED BY <1>0, <2>1, <2>2, <2>3, <3>3
  <2>4. ASSUME i = Len(g.code[b]) PROVE S \subseteq X
    <3>1. (i + 1)..Len(g.code[b]) = {} /\ i + 1 \in Nat \ {0}
      BY <1>2, <1>3, <2>4
    <3>2. ~KilledFrom(g, b, i + 1, r)
      BY <1>2, <3>1, ScanShape
    <3>3. ~KilledFrom(g, b, ScanStart(d, b), r)
      BY <2>2, <3>2
    <3> HIDE DEF X
    <3> QED BY <1>0, <1>5, <2>1, <2>4, <3>3
  <2>5. i < Len(g.code[b]) \/ i = Len(g.code[b])
    BY <1>2, <1>3
  <2> HIDE DEF X, S
  <2> QED BY <2>3, <2>4, <2>5
<1>7. ASSUME NEW pc \in X \cap Pcs(g), r \notin At(g, pc).defs
      PROVE  NextPcs(g, pc) \subseteq X
  <2>1. ASSUME NEW c \in seen, pc \in Scan(c) PROVE NextPcs(g, pc) \subseteq X
    <3>1. \/ NextPcs(g, pc) \subseteq Scan(c)
          \/ /\ ~KilledFrom(g, c, ScanStart(d, c), r)
             /\ NextPcs(g, pc) = Succs(g, c) \X {1}
      <4>1. c \in g.blocks /\ ScanStart(d, c) \in Nat \ {0}
        BY <1>0, <1>2
      <4> QED BY <1>7, <2>1, <4>1, ScanOut
    <3>2. Scan(c) \subseteq X
      OBVIOUS
    <3> HIDE DEF X, Scan
    <3> QED BY <1>5, <3>1, <3>2
  <2>2. ASSUME pc \in Above PROVE NextPcs(g, pc) \subseteq X
    <3> DEFINE k == pc[2]
    <3>1. pc = <<b, k>> /\ k \in 1..Len(g.code[b]) /\ k <= i
      BY <2>2, PcsShape
    <3> HIDE DEF k
    <3>2. k < i
      <4>1. k # i
        BY <1>2, <1>7, <3>1
      <4> QED BY <1>2, <1>3, <3>1, <4>1
    <3>3. NextPcs(g, pc) = {<<b, k + 1>>}
      <4>1. k < Len(g.code[b])
        BY <1>2, <1>3, <3>1, <3>2
      <4> QED BY <1>2, <3>1, <4>1, NextPcsAre
    <3>4. <<b, k + 1>> \in Pcs(g) /\ k + 1 <= i
      <4>1. NextPcs(g, pc) \subseteq Pcs(g)
        BY NextPcsShape
      <4> QED BY <1>2, <3>1, <3>2, <3>3, <4>1
    <3>5. <<b, k + 1>> \in Above
      BY <3>4
    <3> HIDE DEF Above
    <3> QED BY <3>3, <3>5
  <2>3. (\E c \in seen : pc \in Scan(c)) \/ pc \in Above
    OBVIOUS
  <2> HIDE DEF X, Above, Scan
  <2> QED BY <2>1, <2>2, <2>3
<1>8. u \in Reached(g, S, r) /\ r \in At(g, u).uses
  BY DEF RealUses
<1>9. u \in X
  <2> HIDE DEF X, S
  <2> QED BY <1>2, <1>6, <1>7, <1>8, ReachedIsLeast
<1>10. \A c \in seen : u \notin Scan(c)
  BY <1>0, <1>8 DEF UsesFrom
<1>11. u \in Above
  BY <1>9, <1>10
<1> QED BY <1>11


-----------------------------------------------------------------------------
(* The chains of a program *)

\* The search under way, if there is one, and the chains built before it.
ChainInv ==
    /\ IsFlowGraph(cfg) /\ HasCode(cfg)
    /\ definition # NoDef =>
          Searching(cfg, definition, seen_blocks, worklist, uses, cut)
    /\ ChainsReach

\* What ChainsReach says of a chain.
IsChain(g, c) ==
    /\ c.uses \subseteq RealUses(g, c.definition)
    /\ ~c.cut => \A u \in RealUses(g, c.definition) \ c.uses :
                    u[1] = c.definition.pc[1] /\ u[2] <= c.definition.pc[2]

\* ChainsReach chain by chain.
LEMMA ChainByChain == ChainsReach <=> \A c \in chains : IsChain(cfg, c)
BY DEF ChainsReach, IsChain

\* Every step of build_chains keeps the search and the chains right.
LEMMA StepChains ==
    ASSUME ChainInv, CNext
    PROVE  ChainInv'
<1>1. cfg' = cfg
  BY DEF CNext, BeginChain, PopSeen, PopCut, PopNew, EndChain
<1>2. IsFlowGraph(cfg) /\ HasCode(cfg) /\ (IsFlowGraph(cfg) /\ HasCode(cfg))'
  BY <1>1 DEF ChainInv, IsFlowGraph, HasCode
<1>3. \A c \in chains : IsChain(cfg, c)
  BY ChainByChain DEF ChainInv
<1>4. ASSUME \A c \in chains' : IsChain(cfg, c) PROVE ChainsReach'
  <2>1. \A c \in chains' : IsChain(cfg', c)
    BY <1>1, <1>4
  <2> QED BY <2>1 DEF ChainsReach, IsChain
<1>5. ASSUME chains' = chains PROVE ChainsReach'
  BY <1>3, <1>4, <1>5
<1>6. ASSUME definition' # NoDef =>
                 Searching(cfg, definition', seen_blocks', worklist', uses', cut'),
             ChainsReach'
      PROVE  ChainInv'
  <2>1. definition' # NoDef =>
            Searching(cfg', definition', seen_blocks', worklist', uses', cut')
    BY <1>1, <1>6
  <2>2. (definition # NoDef => Searching(cfg, definition, seen_blocks, worklist, uses, cut))'
    BY <2>1
  <2> QED BY <1>2, <1>6, <2>2 DEF ChainInv
<1>7. CASE BeginChain
  <2>1. PICK d \in Definitions(cfg) :
            LET b == d.pc[1]
                i == d.pc[2] + 1
            IN  /\ definition' = d
                /\ uses' = UsesFrom(cfg, b, i, d.reg)
                /\ seen_blocks' = {b}
                /\ worklist' = IF KilledFrom(cfg, b, i, d.reg) THEN <<>> ELSE cfg.succ[b]
    BY <1>7 DEF BeginChain
  <2> DEFINE b == d.pc[1]
             i == d.pc[2] + 1
  <2>2. Searching(cfg, d, {b}, IF KilledFrom(cfg, b, i, d.reg) THEN <<>> ELSE cfg.succ[b],
                  UsesFrom(cfg, b, i, d.reg), FALSE)
    BY <1>2, SearchBegins
  <2>3. cut' = FALSE /\ chains' = chains
    BY <1>7 DEF BeginChain
  <2>4. Searching(cfg, definition', seen_blocks', worklist', uses', cut')
    BY <2>1, <2>2, <2>3
  <2> QED BY <1>5, <1>6, <2>3, <2>4
<1>8. CASE PopSeen
  <2>1. /\ worklist # <<>> /\ worklist[Len(worklist)] \in seen_blocks
        /\ worklist' = SubSeq(worklist, 1, Len(worklist) - 1)
        /\ definition' = definition /\ seen_blocks' = seen_blocks
        /\ uses' = uses /\ cut' = cut /\ chains' = chains
    BY <1>8 DEF PopSeen, Popped, Rest
  <2>2. ASSUME definition # NoDef
        PROVE  Searching(cfg, definition', seen_blocks', worklist', uses', cut')
    <3>1. Searching(cfg, definition, seen_blocks, worklist, uses, cut)
      BY <2>2 DEF ChainInv
    <3>2. Searching(cfg, definition, seen_blocks,
                    SubSeq(worklist, 1, Len(worklist) - 1), uses, cut)
      BY <2>1, <3>1, SearchSkips
    <3> QED BY <2>1, <3>2
  <2> QED BY <1>5, <1>6, <2>1, <2>2
<1>9. CASE PopCut
  <2>1. /\ worklist' = <<>> /\ cut' = TRUE
        /\ definition' = definition /\ seen_blocks' = seen_blocks
        /\ uses' = uses /\ chains' = chains
    BY <1>9 DEF PopCut
  <2>2. ASSUME definition # NoDef
        PROVE  Searching(cfg, definition', seen_blocks', worklist', uses', cut')
    <3>1. Searching(cfg, definition, seen_blocks, worklist, uses, cut)
      BY <2>2 DEF ChainInv
    <3>2. Searching(cfg, definition, seen_blocks, <<>>, uses, TRUE)
      BY <3>1, SearchCut
    <3> QED BY <2>1, <3>2
  <2> QED BY <1>5, <1>6, <2>1, <2>2
<1>10. CASE PopNew
  <2> DEFINE c == worklist[Len(worklist)]
             now == seen_blocks \cup {c}
             rest == SubSeq(worklist, 1, Len(worklist) - 1)
             r == definition.reg
  <2>1. /\ worklist # <<>> /\ c \notin seen_blocks
        /\ seen_blocks' = now
        /\ uses' = uses \cup UsesFrom(cfg, c, 1, r)
        /\ worklist' = IF KilledFrom(cfg, c, 1, r) THEN rest
                       ELSE rest \o Kept(cfg.succ[c], cfg.blocks \ now)
        /\ definition' = definition /\ cut' = cut /\ chains' = chains
    BY <1>10 DEF PopNew, Popped, Rest
  <2>2. ASSUME definition # NoDef
        PROVE  Searching(cfg, definition', seen_blocks', worklist', uses', cut')
    <3>1. Searching(cfg, definition, seen_blocks, worklist, uses, cut)
      BY <2>2 DEF ChainInv
    <3>2. Searching(cfg, definition, now,
                    IF KilledFrom(cfg, c, 1, r) THEN rest
                    ELSE rest \o Kept(cfg.succ[c], cfg.blocks \ now),
                    uses \cup UsesFrom(cfg, c, 1, r), cut)
      BY <1>2, <2>1, <3>1, SearchScans
    <3> HIDE DEF c, now, rest, r
    <3> QED BY <2>1, <3>2
  <2> HIDE DEF c, now, rest, r
  <2> QED BY <1>5, <1>6, <2>1, <2>2
<1>11. CASE EndChain
  <2> DEFINE c == [definition |-> definition, uses |-> uses, cut |-> cut]
  <2>1. /\ definition # NoDef /\ worklist = <<>> /\ definition' = NoDef
        /\ chains' = chains \cup {c}
    BY <1>11 DEF EndChain
  <2>2. Searching(cfg, definition, seen_blocks, <<>>, uses, cut)
    BY <2>1 DEF ChainInv
  <2>3. IsChain(cfg, c)
    BY <1>2, <2>2, SearchEnds DEF IsChain
  <2> HIDE DEF c
  <2>4. ChainsReach'
    BY <1>3, <1>4, <2>1, <2>3
  <2> QED BY <1>6, <2>1, <2>4
<1> QED BY <1>7, <1>8, <1>9, <1>10, <1>11 DEF CNext

\* The chains lifting works from link a definition to uses it reaches along
\* some path, and to all of them unless the limit on visited blocks ended the
\* search, but for those above the definition in its own block
\* (build_chains, dataflow.rs:234-302).
THEOREM ChainsAreReaching == SSpec => []ChainsReach
<1>1. SInit => ChainInv
  <2> SUFFICES ASSUME SInit PROVE ChainInv
    OBVIOUS
  <2>1. IsFlowGraph(cfg) /\ HasCode(cfg)
    BY CodeAssumption DEF SInit, CInit
  <2>2. definition = NoDef /\ chains = {}
    BY DEF SInit, CInit
  <2> QED BY <2>1, <2>2 DEF ChainInv, ChainsReach
<1>2. ChainInv /\ [SNext]_allVars => ChainInv'
  <2> SUFFICES ASSUME ChainInv, [SNext]_allVars PROVE ChainInv'
    OBVIOUS
  <2>1. CASE Chains
    BY <2>1, StepChains DEF Chains
  <2>2. CASE UNCHANGED chainVars
    <3>1. UNCHANGED <<cfg, definition, seen_blocks, worklist, uses, cut, chains>>
      BY <2>2 DEF chainVars, searchVars
    <3>2. ChainsReach'
      BY <3>1 DEF ChainInv, ChainsReach
    <3>3. (IsFlowGraph(cfg) /\ HasCode(cfg))'
      BY <3>1 DEF ChainInv, IsFlowGraph, HasCode
    <3>4. (definition # NoDef =>
             Searching(cfg, definition, seen_blocks, worklist, uses, cut))'
      BY <3>1 DEF ChainInv
    <3> QED BY <3>2, <3>3, <3>4 DEF ChainInv
  <2> QED BY <2>1, <2>2 DEF SNext, BeginSsa, SweepBlock, NextRound, EndRounds, allVars
<1>3. ChainInv => ChainsReach
  BY DEF ChainInv
<1> QED BY <1>1, <1>2, <1>3, PTL DEF SSpec

-----------------------------------------------------------------------------
(* The order of a sweep *)

\* A sweep visits every block.
LEMMA OrderHasAll ==
    ASSUME NEW g, IsFlowGraph(g)
    PROVE  Order(g) \in Seq(g.blocks) /\ Range(Order(g)) = g.blocks
<1> DEFINE post == PostOrder(g)
           rpo == [k \in DOMAIN post |-> post[Len(post) + 1 - k]]
           others == g.blocks \ Range(post)
<1>1. post \in Seq(g.blocks)
  BY PostOrderShape DEF IsFlowGraph, Searchable
<1>2. Len(post) \in Nat /\ DOMAIN post = 1..Len(post)
      /\ \A k \in 1..Len(post) : post[k] \in g.blocks
  BY <1>1, LenProperties, ElementOfSeq
<1>3. Order(g) = rpo \o Sorted(others)
  BY DEF Order
<1> HIDE DEF post
<1>4. \A k \in 1..Len(post) : Len(post) + 1 - k \in 1..Len(post)
  BY <1>2
<1>5. rpo \in Seq(g.blocks) /\ DOMAIN rpo = 1..Len(post)
      /\ \A k \in 1..Len(post) : rpo[k] = post[Len(post) + 1 - k]
  <2>1. rpo \in [1..Len(post) -> g.blocks]
    BY <1>2, <1>4
  <2>2. rpo \in Seq(g.blocks)
    BY <1>2, <2>1, SeqDef
  <2> QED BY <1>2, <2>1, <2>2
<1> HIDE DEF rpo
<1>6. Range(rpo) = Range(post)
  <2>1. ASSUME NEW k \in 1..Len(post) PROVE post[k] \in Range(rpo)
    <3> DEFINE j == Len(post) + 1 - k
    <3>1. j \in 1..Len(post) /\ Len(post) + 1 - j = k
      BY <1>2
    <3> HIDE DEF j
    <3>2. rpo[j] = post[k]
      BY <1>5, <3>1
    <3> QED BY <1>5, <3>1, <3>2 DEF Range
  <2>2. ASSUME NEW k \in 1..Len(post) PROVE rpo[k] \in Range(post)
    BY <1>2, <1>4, <1>5 DEF Range
  <2> QED BY <1>2, <1>5, <2>1, <2>2 DEF Range
<1>7. others \subseteq Nat /\ IsFiniteSet(others)
  BY FS_Subset DEF IsFlowGraph
<1>8. Sorted(others) \in Seq(g.blocks) /\ Range(Sorted(others)) = others
  <2>1. others \subseteq g.blocks
    OBVIOUS
  <2> HIDE DEF others
  <2>2. Sorted(others) \in Seq(others) /\ Range(Sorted(others)) = others
    BY <1>7, SortedShape
  <2> QED BY <2>1, <2>2, SeqMonotonic
<1>9. Range(post) \subseteq g.blocks
  BY <1>2 DEF Range
<1>10. Order(g) \in Seq(g.blocks) /\ Range(Order(g)) = Range(rpo) \cup Range(Sorted(others))
  <2> HIDE DEF others
  <2> QED BY <1>3, <1>5, <1>8, ConcatRange
<1> QED BY <1>6, <1>8, <1>9, <1>10

-----------------------------------------------------------------------------
(* Values follow paths *)

\* Where execution is before position i of block b: there, or at the starts of
\* the successors.
Here(g, b, i) == IF i <= Len(g.code[b]) THEN {<<b, i>>} ELSE Succs(g, b) \X {1}

\* A set of instructions that goes on from every one that leaves r alone.
GoesOn(g, R, r) ==
    \A pc \in R \cap Pcs(g) : r \notin At(g, pc).defs => NextPcs(g, pc) \subseteq R

\* Past an instruction execution is at what may follow it.
LEMMA HereNext ==
    ASSUME NEW g, IsFlowGraph(g), HasCode(g), NEW b \in g.blocks,
           NEW i \in 1..(Len(g.code[b]) + 1)
    PROVE  /\ Here(g, b, i) \subseteq Pcs(g)
           /\ i <= Len(g.code[b]) => Here(g, b, i + 1) = NextPcs(g, <<b, i>>)
<1> DEFINE n == Len(g.code[b])
<1>1. n \in Nat \ {0} /\ (\A k \in 1..n : <<b, k>> \in Pcs(g))
      /\ \A c \in g.blocks : <<c, 1>> \in Pcs(g)
  BY PcsShape
<1>2. Succs(g, b) \subseteq g.blocks
  BY SuccsAreBlocks
<1>3. Here(g, b, i) \subseteq Pcs(g)
  <2>1. CASE i <= n
    BY <1>1, <2>1 DEF Here
  <2>2. CASE ~(i <= n)
    BY <1>1, <1>2, <2>2 DEF Here
  <2> QED BY <2>1, <2>2
<1>4. ASSUME i <= n PROVE Here(g, b, i + 1) = NextPcs(g, <<b, i>>)
  <2>1. i \in 1..n
    BY <1>4
  <2>2. /\ i < n => NextPcs(g, <<b, i>>) = {<<b, i + 1>>}
        /\ i = n => NextPcs(g, <<b, i>>) = Succs(g, b) \X {1}
    BY <2>1, NextPcsAre
  <2>3. CASE i < n
    <3>1. i + 1 <= n
      BY <1>1, <2>1, <2>3
    <3> QED BY <2>2, <2>3, <3>1 DEF Here
  <2>4. CASE i = n
    <3>1. ~(i + 1 <= n)
      BY <1>1, <2>4
    <3> QED BY <2>2, <2>4, <3>1 DEF Here
  <2> QED BY <1>1, <2>1, <2>3, <2>4
<1> QED BY <1>3, <1>4

\* It runs through a block, and out of it, for as long as nothing writes r.
LEMMA RunsOn ==
    ASSUME NEW g, IsFlowGraph(g), HasCode(g), NEW b \in g.blocks, NEW r, NEW R,
           GoesOn(g, R, r),
           NEW m \in 1..(Len(g.code[b]) + 1), Here(g, b, m) \subseteq R,
           NEW i \in m..(Len(g.code[b]) + 1),
           \A j \in m..(i - 1) : r \notin g.code[b][j].defs
    PROVE  Here(g, b, i) \subseteq R
<1> DEFINE len == Len(g.code[b])
           n == i - m
           P == {k \in 0..n : Here(g, b, m + k) \subseteq R}
<1>1. len \in Nat
  BY DEF HasCode
<1>2. m \in Nat /\ i \in Nat /\ n \in Nat /\ m <= i /\ 1 <= m /\ i <= len + 1
  BY <1>1
<1>3. 0 \in P
  BY <1>2
<1>4. ASSUME NEW k \in 1..n, k - 1 \in P PROVE k \in P
  <2> DEFINE j == m + (k - 1)
  <2>1. j \in m..(i - 1) /\ j \in 1..len /\ j + 1 = m + k
    BY <1>1, <1>2
  <2>2. Here(g, b, j) \subseteq R
    BY <1>4
  <2> HIDE DEF j
  <2>3. j <= len /\ j \in 1..(len + 1)
    BY <1>1, <2>1
  <2>4. <<b, j>> \in R \cap Pcs(g)
    <3>1. Here(g, b, j) = {<<b, j>>}
      BY <2>3 DEF Here
    <3> QED BY <2>2, <2>3, <3>1, HereNext
  <2>5. At(g, <<b, j>>) = g.code[b][j]
    BY <2>1, NextPcsAre
  <2>6. NextPcs(g, <<b, j>>) \subseteq R
    BY <2>1, <2>4, <2>5 DEF GoesOn
  <2>7. Here(g, b, j + 1) \subseteq R
    BY <2>3, <2>6, HereNext
  <2> QED BY <2>1, <2>7
<1>5. m + n = i
  BY <1>2
<1>6. n \in Nat
  BY <1>2
<1> HIDE DEF P, n
<1>7. 0..n \subseteq P
  BY ONLY <1>3, <1>4, <1>6, Induct
<1>8. n \in P
  BY <1>6, <1>7
<1> QED BY <1>5, <1>8 DEF P

\* v can be the value of r at the instructions of X: its source reaches them.
\* P are the phis there are.
Flows(g, P, v, r, X) ==
    \/ v = Undef(r)
    \/ v = Param(r) /\ X \subseteq Reached(g, {<<g.entry, 1>>}, r)
    \/ \E d \in Definitions(g) :
          d.reg = r /\ v = Def(d.pc, r) /\ X \subseteq Reached(g, NextPcs(g, d.pc), r)
    \/ \E c \in g.blocks :
          v = Phi(c, r) /\ <<c, r>> \in P /\ X \subseteq Reached(g, {<<c, 1>>}, r)

\* The last write above position i of a block, if there is one.
Above(g, b, i, r) == {k \in DOMAIN g.code[b] : k < i /\ r \in g.code[b][k].defs}

\* The value before position i is the one on entry, if nothing above writes the
\* register, or else the last write's.
LEMMA ValueIs ==
    ASSUME HasCode(cfg), NEW b \in cfg.blocks, NEW i \in 1..(Len(cfg.code[b]) + 1),
           NEW r, NEW in
    PROVE  \/ /\ \A j \in 1..(i - 1) : r \notin cfg.code[b][j].defs
              /\ ValueBefore(b, i, r, in) = in[r]
           \/ \E k \in 1..(i - 1) :
                 /\ r \in cfg.code[b][k].defs
                 /\ \A j \in (k + 1)..(i - 1) : r \notin cfg.code[b][j].defs
                 /\ ValueBefore(b, i, r, in) = Def(<<b, k>>, r)
<1> DEFINE A == Above(cfg, b, i, r)
           last == CHOOSE k \in A : \A m \in A : m <= k
<1>1. Len(cfg.code[b]) \in Nat /\ DOMAIN cfg.code[b] = 1..Len(cfg.code[b])
  BY DEF HasCode
<1>2. /\ A \subseteq 1..Len(cfg.code[b])
      /\ \A j \in 1..(i - 1) : j \in A <=> r \in cfg.code[b][j].defs
      /\ \A k \in A : k \in 1..(i - 1)
  BY <1>1 DEF Above
<1>3. ValueBefore(b, i, r, in) = IF A = {} THEN in[r] ELSE Def(<<b, last>>, r)
  BY DEF ValueBefore, Above
<1> HIDE DEF A
<1>4. CASE A = {}
  BY <1>2, <1>3, <1>4
<1>5. CASE A # {}
  <2>1. \E k \in A : \A m \in A : m <= k
    BY <1>1, <1>2, <1>5, GreatestNatural
  <2>2. last \in A /\ \A m \in A : m <= last
    BY <2>1
  <2> HIDE DEF last
  <2>3. last \in 1..(i - 1) /\ r \in cfg.code[b][last].defs
    BY <1>2, <2>2
  <2>4. ASSUME NEW j \in (last + 1)..(i - 1) PROVE r \notin cfg.code[b][j].defs
    <3>1. j \in 1..(i - 1) /\ ~(j <= last)
      BY <2>3
    <3> QED BY <1>2, <2>2, <3>1
  <2> QED BY <1>3, <1>5, <2>3, <2>4
<1> QED BY <1>4, <1>5

\* A value that flows to a set flows on from it.
LEMMA FlowsOn ==
    ASSUME NEW g, IsFlowGraph(g), HasCode(g), NEW P, NEW v, NEW r, NEW X, NEW Y,
           Flows(g, P, v, r, X),
           \A R : X \subseteq R /\ GoesOn(g, R, r) => Y \subseteq R
    PROVE  Flows(g, P, v, r, Y)
<1>1. \A S \in SUBSET Pcs(g) : GoesOn(g, Reached(g, S, r), r)
  BY ReachedIsLeast DEF GoesOn
<1>2. \A S \in SUBSET Pcs(g) : X \subseteq Reached(g, S, r) => Y \subseteq Reached(g, S, r)
  BY <1>1
<1>3. /\ \A c \in g.blocks : {<<c, 1>>} \in SUBSET Pcs(g)
      /\ {<<g.entry, 1>>} \in SUBSET Pcs(g)
      /\ \A d \in Definitions(g) : NextPcs(g, d.pc) \in SUBSET Pcs(g)
  <2>1. \A c \in g.blocks : <<c, 1>> \in Pcs(g)
    BY PcsShape
  <2>2. g.entry \in g.blocks
    BY DEF IsFlowGraph
  <2>3. \A d \in Definitions(g) : NextPcs(g, d.pc) \in SUBSET Pcs(g)
    BY DefinitionShape
  <2> QED BY <2>1, <2>2, <2>3
<1> QED BY <1>2, <1>3 DEF Flows

\* If what enters a block flows to its start, then the value before each of its
\* instructions flows there, and the value at its end flows to its successors.
LEMMA ValueFlows ==
    ASSUME IsFlowGraph(cfg), HasCode(cfg), NEW b \in cfg.blocks,
           NEW i \in 1..(Len(cfg.code[b]) + 1), NEW r, NEW in, NEW P,
           Flows(cfg, P, in[r], r, {<<b, 1>>})
    PROVE  Flows(cfg, P, ValueBefore(b, i, r, in), r, Here(cfg, b, i))
<1> DEFINE v == ValueBefore(b, i, r, in)
<1>1. Len(cfg.code[b]) \in Nat \ {0} /\ DOMAIN cfg.code[b] = 1..Len(cfg.code[b])
  BY DEF HasCode
<1>2. CASE /\ \A j \in 1..(i - 1) : r \notin cfg.code[b][j].defs
           /\ v = in[r]
  <2>1. Here(cfg, b, 1) = {<<b, 1>>}
    BY <1>1 DEF Here
  <2>2. ASSUME NEW R, {<<b, 1>>} \subseteq R, GoesOn(cfg, R, r)
        PROVE  Here(cfg, b, i) \subseteq R
    <3>1. 1 \in 1..(Len(cfg.code[b]) + 1) /\ i \in 1..(Len(cfg.code[b]) + 1)
          /\ Here(cfg, b, 1) \subseteq R
      BY <1>1, <2>1, <2>2
    <3> QED BY <1>2, <2>2, <3>1, RunsOn
  <2> HIDE DEF v
  <2>3. Flows(cfg, P, v, r, {<<b, 1>>})
    BY <1>2
  <2>4. Flows(cfg, P, v, r, Here(cfg, b, i))
    BY <2>2, <2>3, FlowsOn
  <2> QED BY <2>4 DEF v
<1>3. ASSUME NEW k \in 1..(i - 1), r \in cfg.code[b][k].defs,
             \A j \in (k + 1)..(i - 1) : r \notin cfg.code[b][j].defs,
             v = Def(<<b, k>>, r)
      PROVE  Flows(cfg, P, v, r, Here(cfg, b, i))
  <2> DEFINE pc == <<b, k>>
             d == [pc |-> pc, reg |-> r]
             R == Reached(cfg, NextPcs(cfg, pc), r)
  <2>1. k \in 1..Len(cfg.code[b]) /\ k <= Len(cfg.code[b])
        /\ k + 1 \in 1..(Len(cfg.code[b]) + 1) /\ k \in 1..(Len(cfg.code[b]) + 1)
        /\ i \in (k + 1)..(Len(cfg.code[b]) + 1)
    BY <1>1
  <2>2. pc \in Pcs(cfg) /\ At(cfg, pc) = cfg.code[b][k]
    BY <2>1, PcsShape, NextPcsAre
  <2>3. d \in Definitions(cfg) /\ d.pc = pc /\ d.reg = r
    BY <1>3, <2>2 DEF Definitions
  <2>4. Here(cfg, b, k + 1) = NextPcs(cfg, pc)
    BY <2>1, HereNext
  <2>5. NextPcs(cfg, pc) \in SUBSET Pcs(cfg)
    BY <2>2, NextPcsShape
  <2> HIDE DEF pc, d, v
  <2>6. GoesOn(cfg, R, r) /\ NextPcs(cfg, pc) \subseteq R
    BY <2>5, ReachedIsLeast DEF GoesOn
  <2> HIDE DEF R
  <2>7. Here(cfg, b, i) \subseteq R
    BY <1>3, <2>1, <2>4, <2>6, RunsOn
  <2>8. v = Def(pc, r)
    BY <1>3 DEF pc
  <2> QED BY <2>3, <2>7, <2>8 DEF Flows, R
<1> QED BY <1>2, <1>3, ValueIs

-----------------------------------------------------------------------------
(* The sweeps *)

\* What holds on entry of a block flows to its start, what holds at its end to
\* its successors.
InFlows(g, P, in) ==
    \A b \in g.blocks : in[b] # NoValues =>
        \A r \in Regs : Flows(g, P, in[b][r], r, {<<b, 1>>})

OutFlows(g, P, out) ==
    \A b \in g.blocks : out[b] # NoValues =>
        \A r \in Regs : Flows(g, P, out[b][r], r, Succs(g, b) \X {1})

\* The equations of a block.
SolvedAt(b) ==
    /\ block_in[b] = [r \in Regs |-> Merged(b, r)]
    /\ block_out[b] = [r \in Regs |-> ValueBefore(b, Len(cfg.code[b]) + 1, r, block_in[b])]

\* While a sweep has changed nothing, the equations hold where it has been.
Settled ==
    (stage # "chains" /\ ~changed) => \A k \in DOMAIN order : k < pos => SolvedAt(order[k])

\* A sweep goes over all blocks, and the values found flow along paths.
SweepInv ==
    /\ cfg \in Cfgs
    /\ stage # "chains" => order \in Seq(cfg.blocks) /\ Range(order) = cfg.blocks
    /\ stage = "chains" => pos = 1
    /\ stage = "done" => pos > Len(order)
    /\ pos \in Nat \ {0}
    /\ block_in = [b \in cfg.blocks |-> block_in[b]]
    /\ block_out = [b \in cfg.blocks |-> block_out[b]]
    /\ InFlows(cfg, phis, block_in)
    /\ OutFlows(cfg, phis, block_out)
    /\ Settled

\* A value that flows keeps flowing when there are more phis.
LEMMA FlowsMonotonic ==
    ASSUME NEW g, NEW P, NEW Q, P \subseteq Q, NEW v, NEW r, NEW X, Flows(g, P, v, r, X)
    PROVE  Flows(g, Q, v, r, X)
BY DEF Flows

\* What a block merges from its predecessors flows to its start.
LEMMA MergedFlows ==
    ASSUME IsFlowGraph(cfg), HasCode(cfg), NEW b \in cfg.blocks, NEW r \in Regs,
           OutFlows(cfg, phis, block_out), NEW Q, phis \subseteq Q,
           Merged(b, r) = Phi(b, r) => <<b, r>> \in Q
    PROVE  Flows(cfg, Q, Merged(b, r), r, {<<b, 1>>})
<1> DEFINE v == Merged(b, r)
<1>1. \A c \in cfg.blocks : {<<c, 1>>} \subseteq Reached(cfg, {<<c, 1>>}, r)
  <2> SUFFICES ASSUME NEW c \in cfg.blocks
               PROVE  {<<c, 1>>} \subseteq Reached(cfg, {<<c, 1>>}, r)
    OBVIOUS
  <2>1. {<<c, 1>>} \in SUBSET Pcs(cfg)
    BY PcsShape
  <2> QED BY <2>1, ReachedIsLeast
<1>2. \A x \in Incoming(b, r) : Flows(cfg, Q, x, r, {<<b, 1>>})
  <2> SUFFICES ASSUME NEW p \in Preds(cfg, b), block_out[p] # NoValues
               PROVE  Flows(cfg, Q, block_out[p][r], r, {<<b, 1>>})
    BY DEF Incoming, Visited
  <2>1. p \in cfg.blocks /\ b \in Succs(cfg, p)
    BY DEF Preds
  <2>2. Flows(cfg, phis, block_out[p][r], r, Succs(cfg, p) \X {1})
    BY <2>1 DEF OutFlows
  <2>3. Flows(cfg, Q, block_out[p][r], r, Succs(cfg, p) \X {1})
    BY <2>2, FlowsMonotonic
  <2>4. {<<b, 1>>} \subseteq Succs(cfg, p) \X {1}
    BY <2>1
  <2> QED BY <2>3, <2>4 DEF Flows
<1>3. CASE v = Undef(r)
  BY <1>3 DEF Flows
<1>4. CASE v = Param(r) /\ b = cfg.entry
  BY <1>1, <1>4 DEF Flows
<1>5. CASE v = Phi(b, r)
  BY <1>1, <1>5 DEF Flows
<1>6. CASE v \in Incoming(b, r)
  BY <1>2, <1>6
<1>7. v = Undef(r) \/ (v = Param(r) /\ b = cfg.entry) \/ v = Phi(b, r) \/ v \in Incoming(b, r)
  <2>1. Incoming(b, r) # {} => (CHOOSE x \in Incoming(b, r) : TRUE) \in Incoming(b, r)
    OBVIOUS
  <2> QED BY <2>1 DEF Merged
<1> QED BY <1>3, <1>4, <1>5, <1>6, <1>7

\* The equations are about the graph and the values only.
LEMMA SolvedSame ==
    ASSUME UNCHANGED <<cfg, block_in, block_out>>
    PROVE  \A b : SolvedAt(b)' <=> SolvedAt(b)
BY DEF SolvedAt, Merged, Incoming, Visited, ValueBefore

\* SweepBlock keeps the invariant.
LEMMA SweepKeeps ==
    ASSUME SweepInv, SweepBlock
    PROVE  SweepInv'
<1> DEFINE b == order[pos]
           in == [r \in Regs |-> Merged(b, r)]
           out == [r \in Regs |-> ValueBefore(b, Len(cfg.code[b]) + 1, r, in)]
<1>0. /\ IsFlowGraph(cfg) /\ HasCode(cfg)
      /\ stage = "sweep" /\ pos <= Len(order) /\ pos \in Nat \ {0}
      /\ order \in Seq(cfg.blocks) /\ Range(order) = cfg.blocks
      /\ InFlows(cfg, phis, block_in) /\ OutFlows(cfg, phis, block_out)
      /\ block_in = [c \in cfg.blocks |-> block_in[c]]
      /\ block_out = [c \in cfg.blocks |-> block_out[c]]
      /\ ~changed => \A k \in DOMAIN order : k < pos => SolvedAt(order[k])
  BY CodeAssumption DEF SweepInv, Settled, SweepBlock
<1>1. /\ block_in' = [block_in EXCEPT ![b] = in]
      /\ block_out' = [block_out EXCEPT ![b] = out]
      /\ phis' = phis \cup {<<b, r>> : r \in {q \in Regs : in[q] = Phi(b, q)}}
      /\ changed' = (changed \/ block_in[b] # in \/ block_out[b] # out)
      /\ pos' = pos + 1 /\ cfg' = cfg /\ stage' = stage /\ order' = order
  BY DEF SweepBlock, chainVars
<1>2. b \in cfg.blocks
  <2>1. Len(order) \in Nat /\ pos \in 1..Len(order)
    BY <1>0, LenProperties
  <2> QED BY <1>0, <2>1, ElementOfSeq
<1>3. \A r \in Regs : /\ in[r] = Merged(b, r)
                      /\ in[r] = Phi(b, r) => <<b, r>> \in phis'
                      /\ out[r] = ValueBefore(b, Len(cfg.code[b]) + 1, r, in)
  BY <1>1
<1>4. phis \subseteq phis'
  BY <1>1
<1> HIDE DEF b, in, out
<1>5. ASSUME NEW r \in Regs PROVE Flows(cfg, phis', in[r], r, {<<b, 1>>})
  <2>1. Flows(cfg, phis', Merged(b, r), r, {<<b, 1>>})
    BY <1>0, <1>2, <1>3, <1>4, MergedFlows
  <2> QED BY <1>3, <2>1
<1>6. ASSUME NEW r \in Regs PROVE Flows(cfg, phis', out[r], r, Succs(cfg, b) \X {1})
  <2>1. Len(cfg.code[b]) \in Nat
    BY <1>0, <1>2 DEF HasCode
  <2> DEFINE i == Len(cfg.code[b]) + 1
  <2>2. i \in 1..(Len(cfg.code[b]) + 1) /\ Here(cfg, b, i) = Succs(cfg, b) \X {1}
    BY <2>1 DEF Here
  <2> HIDE DEF i
  <2>3. Flows(cfg, phis', ValueBefore(b, i, r, in), r, Here(cfg, b, i))
    BY <1>0, <1>2, <1>5, <2>2, ValueFlows
  <2> QED BY <1>3, <2>2, <2>3 DEF i
<1>7. InFlows(cfg, phis', block_in')
  <2> SUFFICES ASSUME NEW c \in cfg.blocks, block_in'[c] # NoValues, NEW r \in Regs
               PROVE  Flows(cfg, phis', block_in'[c][r], r, {<<c, 1>>})
    BY DEF InFlows
  <2>1. CASE c = b
    <3>1. block_in'[c] = in
      BY <1>0, <1>1, <2>1
    <3> QED BY <1>5, <2>1, <3>1
  <2>2. CASE c # b
    <3>1. block_in'[c] = block_in[c]
      BY <1>0, <1>1, <2>2
    <3>2. Flows(cfg, phis, block_in[c][r], r, {<<c, 1>>})
      BY <1>0, <3>1 DEF InFlows
    <3> QED BY <1>4, <3>1, <3>2, FlowsMonotonic
  <2> QED BY <2>1, <2>2
<1>8. OutFlows(cfg, phis', block_out')
  <2> SUFFICES ASSUME NEW c \in cfg.blocks, block_out'[c] # NoValues, NEW r \in Regs
               PROVE  Flows(cfg, phis', block_out'[c][r], r, Succs(cfg, c) \X {1})
    BY DEF OutFlows
  <2>1. CASE c = b
    <3>1. block_out'[c] = out
      BY <1>0, <1>1, <2>1
    <3> QED BY <1>6, <2>1, <3>1
  <2>2. CASE c # b
    <3>1. block_out'[c] = block_out[c]
      BY <1>0, <1>1, <2>2
    <3>2. Flows(cfg, phis, block_out[c][r], r, Succs(cfg, c) \X {1})
      BY <1>0, <3>1 DEF OutFlows
    <3> QED BY <1>4, <3>1, <3>2, FlowsMonotonic
  <2> QED BY <2>1, <2>2
<1>9. ASSUME ~changed', NEW k \in DOMAIN order, k < pos'
      PROVE  SolvedAt(order[k])'
  <2>1. ~changed /\ block_in[b] = in /\ block_out[b] = out
    BY <1>1, <1>9
  <2>2. block_in' = block_in /\ block_out' = block_out
    BY <1>0, <1>1, <1>2, <2>1
  <2>3. SolvedAt(order[k])
    <3>1. CASE k < pos
      BY <1>0, <2>1, <3>1
    <3>2. CASE k = pos
      <4>1. SolvedAt(b)
        BY <2>1 DEF SolvedAt, in, out
      <4> QED BY <3>2, <4>1 DEF b
    <3>3. k \in Nat
      <4>1. DOMAIN order = 1..Len(order)
        BY <1>0, LenProperties
      <4> QED BY <4>1
    <3>4. k < pos \/ k = pos
      BY <1>0, <1>1, <1>9, <3>3
    <3> QED BY <3>1, <3>2, <3>4
  <2> QED BY <1>1, <2>2, <2>3, SolvedSame
<1>10. /\ block_in' = [c \in cfg.blocks |-> block_in'[c]]
       /\ block_out' = [c \in cfg.blocks |-> block_out'[c]]
  BY <1>0, <1>1
<1>11. pos' \in Nat \ {0}
  BY <1>0, <1>1
<1>12. cfg' \in Cfgs /\ order' \in Seq(cfg'.blocks) /\ Range(order') = cfg'.blocks
       /\ stage' = "sweep"
  BY <1>0, <1>1 DEF SweepInv
<1>13. /\ block_in' = [c \in cfg'.blocks |-> block_in'[c]]
       /\ block_out' = [c \in cfg'.blocks |-> block_out'[c]]
       /\ InFlows(cfg', phis', block_in') /\ OutFlows(cfg', phis', block_out')
       /\ ~changed' => \A k \in DOMAIN order' : k < pos' => SolvedAt(order[k])'
  BY <1>1, <1>7, <1>8, <1>9, <1>10
<1> QED BY <1>11, <1>12, <1>13 DEF SweepInv, Settled

\* Nothing has a value before the first sweep.
LEMMA InitSweep == SInit => SweepInv
<1> SUFFICES ASSUME SInit PROVE SweepInv
  OBVIOUS
<1>1. /\ cfg \in Cfgs /\ stage = "chains" /\ pos = 1
      /\ block_in = [b \in cfg.blocks |-> NoValues]
      /\ block_out = [b \in cfg.blocks |-> NoValues]
  BY DEF SInit, CInit
<1>2. InFlows(cfg, phis, block_in) /\ OutFlows(cfg, phis, block_out)
  BY <1>1 DEF InFlows, OutFlows
<1> QED BY <1>1, <1>2 DEF SweepInv, Settled

\* Every step keeps the invariant.
LEMMA StepSweep ==
    ASSUME SweepInv, [SNext]_allVars
    PROVE  SweepInv'
<1>1. ASSUME UNCHANGED <<cfg, stage, order, pos, changed, block_in, block_out, phis>>
      PROVE  SweepInv'
  <2>1. Settled'
    BY <1>1, SolvedSame DEF SweepInv, Settled
  <2> QED BY <1>1, <2>1 DEF SweepInv, InFlows, OutFlows
<1>2. CASE Chains
  <2>1. cfg' = cfg
    BY <1>2 DEF Chains, CNext, BeginChain, PopSeen, PopCut, PopNew, EndChain
  <2> QED BY <1>1, <1>2, <2>1 DEF Chains, ssaVars
<1>3. CASE BeginSsa
  <2>1. /\ order' = Order(cfg) /\ stage' = "sweep"
        /\ UNCHANGED <<cfg, pos, changed, block_in, block_out, phis>>
    BY <1>3 DEF BeginSsa, chainVars
  <2>2. IsFlowGraph(cfg)
    BY CodeAssumption DEF SweepInv
  <2>3. order' \in Seq(cfg'.blocks) /\ Range(order') = cfg'.blocks
    BY <2>1, <2>2, OrderHasAll
  <2>4. pos' \in Nat \ {0}
    BY <2>1 DEF SweepInv
  <2>5. Settled'
    <3>1. \A k \in DOMAIN order' : ~(k < pos')
      <4>1. DOMAIN order' = 1..Len(order')
        BY <2>3, LenProperties
      <4>2. pos' = 1
        BY <1>3, <2>1 DEF SweepInv, BeginSsa
      <4> QED BY <4>1, <4>2
    <3> QED BY <3>1 DEF Settled
  <2> QED BY <2>1, <2>3, <2>4, <2>5 DEF SweepInv, InFlows, OutFlows
<1>4. CASE SweepBlock
  BY <1>4, SweepKeeps
<1>5. CASE NextRound
  <2>1. /\ stage = "sweep" /\ pos' = 1 /\ UNCHANGED <<cfg, stage, order, block_in, block_out, phis>>
    BY <1>5 DEF NextRound, chainVars
  <2>2. \A k \in DOMAIN order' : ~(k < pos')
    <3>1. order \in Seq(cfg.blocks)
      BY <2>1 DEF SweepInv
    <3>2. DOMAIN order = 1..Len(order) /\ Len(order) \in Nat
      BY <3>1, LenProperties
    <3> QED BY <2>1, <3>2
  <2>3. Settled'
    BY <2>2 DEF Settled
  <2>4. pos' \in Nat \ {0} /\ stage' = "sweep"
    BY <2>1
  <2> QED BY <2>1, <2>3, <2>4 DEF SweepInv, InFlows, OutFlows
<1>6. CASE EndRounds
  <2>1. /\ stage = "sweep" /\ stage' = "done" /\ pos > Len(order)
        /\ UNCHANGED <<cfg, order, pos, changed, block_in, block_out, phis>>
    BY <1>6 DEF EndRounds, chainVars
  <2>2. Settled'
    BY <2>1, SolvedSame DEF SweepInv, Settled
  <2> QED BY <2>1, <2>2 DEF SweepInv, InFlows, OutFlows
<1>7. CASE UNCHANGED allVars
  BY <1>1, <1>7 DEF allVars, chainVars, ssaVars
<1> QED BY <1>2, <1>3, <1>4, <1>5, <1>6, <1>7 DEF SNext

-----------------------------------------------------------------------------
(* What the values stand for *)

\* The kinds of values differ, and a value tells what it was made of.
LEMMA Kinds ==
    /\ \A r : /\ Param(r)[1] = "param" /\ Undef(r)[1] = "undef"
              /\ RegOf(Param(r)) = r /\ RegOf(Undef(r)) = r
    /\ \A x, r : /\ Def(x, r)[1] = "instr" /\ Def(x, r)[2] = x /\ RegOf(Def(x, r)) = r
                 /\ Phi(x, r)[1] = "phi" /\ Phi(x, r)[2] = x /\ RegOf(Phi(x, r)) = r
BY DEF Param, Undef, Def, Phi, RegOf

\* The sweeps have ended with one that changed nothing.
Final ==
    /\ IsFlowGraph(cfg) /\ HasCode(cfg)
    /\ \A pc \in Pcs(cfg) : At(cfg, pc).defs \cup At(cfg, pc).uses \subseteq Regs
    /\ InFlows(cfg, phis, block_in)
    /\ OutFlows(cfg, phis, block_out)
    /\ \A b \in cfg.blocks : SolvedAt(b)

\* A sweep that ends without a change leaves the equations true everywhere.
LEMMA SettledIsFinal == SweepInv /\ stage = "done" /\ ~changed => Final
<1> SUFFICES ASSUME SweepInv, stage = "done", ~changed PROVE Final
  OBVIOUS
<1>1. IsFlowGraph(cfg) /\ HasCode(cfg)
  BY CodeAssumption DEF SweepInv
<1>2. ASSUME NEW pc \in Pcs(cfg) PROVE At(cfg, pc).defs \cup At(cfg, pc).uses \subseteq Regs
  <2>1. pc[1] \in cfg.blocks /\ pc[2] \in DOMAIN cfg.code[pc[1]]
    <3>1. pc[1] \in cfg.blocks /\ pc[2] \in 1..Len(cfg.code[pc[1]])
      BY <1>1, PcsShape
    <3> QED BY <1>1, <3>1 DEF HasCode
  <2> QED BY <2>1, CodeAssumption DEF SweepInv, At
<1>3. ASSUME NEW b \in cfg.blocks PROVE SolvedAt(b)
  <2>1. order \in Seq(cfg.blocks) /\ Range(order) = cfg.blocks /\ pos > Len(order) /\ pos \in Nat
    BY DEF SweepInv
  <2>2. DOMAIN order = 1..Len(order) /\ Len(order) \in Nat
    BY <2>1, LenProperties
  <2>3. PICK k \in 1..Len(order) : order[k] = b
    BY <2>1, <2>2 DEF Range
  <2>4. k < pos
    BY <2>1, <2>2
  <2> QED BY <2>2, <2>3, <2>4 DEF SweepInv, Settled
<1> QED BY <1>1, <1>2, <1>3 DEF Final, SweepInv

\* The equations register by register: every predecessor has values.
LEMMA FinalValues ==
    ASSUME Final, NEW b \in cfg.blocks, NEW r \in Regs
    PROVE  /\ block_in[b][r] = Merged(b, r)
           /\ block_out[b][r] = ValueBefore(b, Len(cfg.code[b]) + 1, r, block_in[b])
           /\ Incoming(b, r) = {block_out[p][r] : p \in Preds(cfg, b)}
           /\ IsFiniteSet(Incoming(b, r))
           /\ Flows(cfg, phis, block_in[b][r], r, {<<b, 1>>})
           /\ Flows(cfg, phis, block_out[b][r], r, Succs(cfg, b) \X {1})
<1>1. \A c \in cfg.blocks :
          /\ block_in[c] = [q \in Regs |-> Merged(c, q)]
          /\ block_out[c] = [q \in Regs |-> ValueBefore(c, Len(cfg.code[c]) + 1, q, block_in[c])]
  BY DEF Final, SolvedAt
<1>2. \A c \in cfg.blocks : block_in[c] # NoValues /\ block_out[c] # NoValues
  <2>1. \A f : f = NoValues => r \notin DOMAIN f
    BY DEF NoValues
  <2>2. \A c \in cfg.blocks : r \in DOMAIN block_in[c] /\ r \in DOMAIN block_out[c]
    BY <1>1
  <2> QED BY <2>1, <2>2
<1>3. Incoming(b, r) = {block_out[p][r] : p \in Preds(cfg, b)}
  <2>1. {q \in Preds(cfg, b) : Visited(q)} = Preds(cfg, b)
    BY <1>2 DEF Preds, Visited
  <2> QED BY <2>1 DEF Incoming
<1>4. IsFiniteSet(Incoming(b, r))
  <2> DEFINE S == Preds(cfg, b)
             T == {block_out[p][r] : p \in S}
             f == [p \in S |-> block_out[p][r]]
  <2>1. IsFiniteSet(S)
    <3>1. S \in SUBSET cfg.blocks /\ IsFiniteSet(cfg.blocks)
      BY DEF Preds, Final, IsFlowGraph
    <3> QED BY <3>1, FS_Subset
  <2> HIDE DEF S
  <2>2. f \in Surjection(S, T)
    BY DEF Surjection
  <2> HIDE DEF T, f
  <2>3. IsFiniteSet(T)
    BY <2>1, <2>2, FS_Surjection
  <2> QED BY <1>3, <2>3 DEF T, S
<1> QED BY <1>1, <1>2, <1>3, <1>4 DEF Final, InFlows, OutFlows

\* Leaves goes through the least set of phis that has the value's own and those
\* among the operands of the others.
LEMMA LeavesAre ==
    ASSUME Final, NEW v, NEW r
    PROVE  \E met \in SUBSET cfg.blocks :
              /\ \A x : x \in Leaves(v, r) <=>
                    x[1] # "phi" /\ (x = v \/ \E b \in met : x \in Operands(b, r))
              /\ \A b \in cfg.blocks : v = Phi(b, r) => b \in met
              /\ \A b \in met : \A c \in cfg.blocks : Phi(c, r) \in Operands(b, r) => c \in met
              /\ \A Y : (/\ \A b \in cfg.blocks : v = Phi(b, r) => b \in Y
                         /\ \A b \in Y \cap cfg.blocks : \A c \in cfg.blocks :
                               Phi(c, r) \in Operands(b, r) => c \in Y)
                       => met \subseteq Y
<1> DEFINE B == cfg.blocks
           operands == [b \in B |-> Operands(b, r)]
           next == [b \in B |-> {c \in B : Phi(c, r) \in operands[b]}]
           S == {b \in B : v = Phi(b, r)}
           met == Closure(S, next)
<1>1. IsFiniteSet(B) /\ next \in [B -> SUBSET B] /\ S \in SUBSET B
  BY DEF Final, IsFlowGraph
<1>2. Leaves(v, r) = {x \in {v} \cup UNION {operands[b] : b \in met} : x[1] # "phi"}
  BY DEF Leaves
<1>3. /\ \A b \in B : operands[b] = Operands(b, r)
      /\ \A b, c \in B : c \in next[b] <=> Phi(c, r) \in Operands(b, r)
      /\ \A b : b \in S <=> b \in B /\ v = Phi(b, r)
  OBVIOUS
<1> HIDE DEF next, S, operands, B
<1>4. /\ S \subseteq met /\ met \subseteq B
      /\ \A x \in met : next[x] \subseteq met
      /\ \A X : (S \subseteq X /\ \A x \in X \cap B : next[x] \subseteq X) => met \subseteq X
  BY <1>1, ClosureIsLeast
<1> HIDE DEF met
<1>5. \A x : x \in Leaves(v, r) <=>
                x[1] # "phi" /\ (x = v \/ \E b \in met : x \in Operands(b, r))
  BY <1>2, <1>3, <1>4
<1>6. /\ \A b \in B : v = Phi(b, r) => b \in met
      /\ \A b \in met : \A c \in B : Phi(c, r) \in Operands(b, r) => c \in met
  BY <1>3, <1>4
<1>7. ASSUME NEW Y, \A b \in B : v = Phi(b, r) => b \in Y,
             \A b \in Y \cap B : \A c \in B : Phi(c, r) \in Operands(b, r) => c \in Y
      PROVE  met \subseteq Y
  <2>1. S \subseteq Y
    BY <1>3, <1>7
  <2>2. ASSUME NEW x \in Y \cap B PROVE next[x] \subseteq Y
    <3>1. next[x] \subseteq B
      BY <1>1
    <3> QED BY <1>3, <1>7, <3>1
  <2> QED BY <1>4, <2>1, <2>2
<1>8. met \in SUBSET B
  BY <1>4
<1> QED BY <1>5, <1>6, <1>7, <1>8 DEF B

\* The leaves of an operand are leaves of the phi.
LEMMA LeafOfOperand ==
    ASSUME Final, NEW r, NEW c \in cfg.blocks, NEW x \in Operands(c, r), NEW y \in Leaves(x, r)
    PROVE  y \in Leaves(Phi(c, r), r)
<1>1. PICK met \in SUBSET cfg.blocks :
          /\ \A z : z \in Leaves(x, r) <=>
                z[1] # "phi" /\ (z = x \/ \E b \in met : z \in Operands(b, r))
          /\ \A Y : (/\ \A b \in cfg.blocks : x = Phi(b, r) => b \in Y
                     /\ \A b \in Y \cap cfg.blocks : \A e \in cfg.blocks :
                           Phi(e, r) \in Operands(b, r) => e \in Y)
                   => met \subseteq Y
  BY LeavesAre
<1>2. PICK all \in SUBSET cfg.blocks :
          /\ \A z : z \in Leaves(Phi(c, r), r) <=>
                z[1] # "phi" /\ (z = Phi(c, r) \/ \E b \in all : z \in Operands(b, r))
          /\ \A b \in cfg.blocks : Phi(c, r) = Phi(b, r) => b \in all
          /\ \A b \in all : \A e \in cfg.blocks : Phi(e, r) \in Operands(b, r) => e \in all
  BY LeavesAre
<1>3. c \in all
  BY <1>2
<1>4. met \subseteq all
  BY <1>1, <1>2, <1>3
<1> QED BY <1>1, <1>2, <1>3, <1>4

\* What leaves a block enters its successors, through a phi or as it is.
LEMMA LeafGoesOn ==
    ASSUME Final, NEW r \in Regs, NEW p \in cfg.blocks, NEW s \in Succs(cfg, p),
           NEW y \in Leaves(block_out[p][r], r)
    PROVE  y \in Leaves(block_in[s][r], r)
<1> DEFINE I == Incoming(s, r)
<1>1. s \in cfg.blocks
  BY SuccsAreBlocks DEF Final
<1>2. p \in Preds(cfg, s)
  BY DEF Preds
<1>3. block_in[s][r] = Merged(s, r) /\ block_out[p][r] \in I /\ IsFiniteSet(I)
  BY <1>1, <1>2, FinalValues
<1>4. Cardinality(I) \in Nat /\ Cardinality(I) # 0
  BY <1>3, FS_CardinalityType, FS_EmptySet
<1>5. CASE Cardinality(I) = 1
  <2>1. \E x : I = {x}
    BY <1>3, <1>5, FS_Singleton
  <2>2. Merged(s, r) = CHOOSE v \in I : TRUE
    BY <1>2, <1>3, <1>5 DEF Merged
  <2>3. Merged(s, r) = block_out[p][r]
    BY <1>3, <2>1, <2>2
  <2> QED BY <1>3, <2>3
<1>6. CASE Cardinality(I) # 1
  <2>1. Merged(s, r) = Phi(s, r)
    BY <1>2, <1>3, <1>6 DEF Merged
  <2>2. ~(Cardinality(I) <= 1)
    BY <1>4, <1>6
  <2>3. Operands(s, r) = I
    BY <2>2 DEF Operands
  <2> QED BY <1>1, <1>3, <2>1, <2>3, LeafOfOperand
<1> QED BY <1>5, <1>6

\* The value before an instruction, from instruction to instruction.
LEMMA ValueSteps ==
    ASSUME HasCode(cfg), NEW b \in cfg.blocks, NEW i \in 1..Len(cfg.code[b]), NEW r, NEW in
    PROVE  /\ ValueBefore(b, 1, r, in) = in[r]
           /\ r \notin cfg.code[b][i].defs =>
                 ValueBefore(b, i + 1, r, in) = ValueBefore(b, i, r, in)
           /\ r \in cfg.code[b][i].defs => ValueBefore(b, i + 1, r, in) = Def(<<b, i>>, r)
<1> DEFINE n == Len(cfg.code[b])
           last(A) == CHOOSE k \in A : \A m \in A : m <= k
<1>1. n \in Nat \ {0} /\ DOMAIN cfg.code[b] = 1..n /\ i \in 1..n
  BY DEF HasCode
<1>2. \A j : ValueBefore(b, j, r, in) =
                IF Above(cfg, b, j, r) = {} THEN in[r]
                ELSE Def(<<b, last(Above(cfg, b, j, r))>>, r)
  BY DEF ValueBefore, Above
<1>3. Above(cfg, b, 1, r) = {}
  BY <1>1 DEF Above
<1>4. ASSUME r \notin cfg.code[b][i].defs
      PROVE  Above(cfg, b, i + 1, r) = Above(cfg, b, i, r)
  <2>1. \A k \in 1..n : k < i + 1 <=> k < i \/ k = i
    BY <1>1
  <2> QED BY <1>1, <1>4, <2>1 DEF Above
<1>5. ASSUME r \in cfg.code[b][i].defs
      PROVE  ValueBefore(b, i + 1, r, in) = Def(<<b, i>>, r)
  <2> DEFINE A == Above(cfg, b, i + 1, r)
             top == last(A)
  <2>1. i \in A /\ \A k \in A : k <= i /\ k \in Nat
    BY <1>1, <1>5 DEF Above
  <2>2. ValueBefore(b, i + 1, r, in) = Def(<<b, top>>, r)
    BY <1>2, <2>1
  <2> HIDE DEF A
  <2>3. top \in A /\ \A m \in A : m <= top
    BY <2>1
  <2> HIDE DEF top
  <2>4. top = i
    BY <2>1, <2>3
  <2> QED BY <2>2, <2>4
<1> HIDE DEF last
<1> QED BY <1>2, <1>3, <1>4, <1>5

\* The value at the start of a block is the one on entry.
LEMMA EntryValue ==
    ASSUME HasCode(cfg), NEW b \in cfg.blocks, NEW r
    PROVE  UseValue(<<b, 1>>, r) = block_in[b][r]
<1>1. 1 \in 1..Len(cfg.code[b])
  BY DEF HasCode
<1> QED BY <1>1, ValueSteps DEF UseValue

\* A leaf of the value at the start is one of the value at every instruction
\* reached from there.
LEMMA LeafAlongPath ==
    ASSUME Final, NEW r \in Regs, NEW y, NEW S \in SUBSET Pcs(cfg),
           \A pc \in S : y \in Leaves(UseValue(pc, r), r)
    PROVE  \A pc \in Reached(cfg, S, r) : y \in Leaves(UseValue(pc, r), r)
<1> DEFINE X == {pc \in Pcs(cfg) : y \in Leaves(UseValue(pc, r), r)}
<1>0. IsFlowGraph(cfg) /\ HasCode(cfg)
  BY DEF Final
<1>1. ASSUME NEW pc \in X, r \notin At(cfg, pc).defs PROVE NextPcs(cfg, pc) \subseteq X
  <2> DEFINE b == pc[1]
             i == pc[2]
             n == Len(cfg.code[b])
  <2>1. /\ b \in cfg.blocks /\ i \in 1..n /\ pc = <<b, i>> /\ n \in Nat
        /\ NextPcs(cfg, pc) \subseteq Pcs(cfg)
    BY <1>0, PcsShape, NextPcsShape
  <2>2. UseValue(pc, r) = ValueBefore(b, i, r, block_in[b])
    BY DEF UseValue
  <2>3. /\ At(cfg, pc) = cfg.code[b][i]
        /\ i < n => NextPcs(cfg, pc) = {<<b, i + 1>>}
        /\ i = n => NextPcs(cfg, pc) = Succs(cfg, b) \X {1}
    BY <2>1 DEF At, NextPcs
  <2> HIDE DEF b, i
  <2>4. ValueBefore(b, i + 1, r, block_in[b]) = UseValue(pc, r)
    <3>1. r \notin cfg.code[b][i].defs
      BY <1>1, <2>3
    <3>2. ValueBefore(b, i + 1, r, block_in[b]) = ValueBefore(b, i, r, block_in[b])
      BY <1>0, <2>1, <3>1, ValueSteps
    <3> QED BY <2>1, <2>2, <3>1, <3>2
  <2>5. CASE i < n
    <3>1. UseValue(<<b, i + 1>>, r) = UseValue(pc, r)
      BY <2>4 DEF UseValue
    <3> QED BY <2>1, <2>3, <2>5, <3>1
  <2>6. CASE i = n
    <3>1. block_out[b][r] = UseValue(pc, r)
      BY <2>1, <2>4, <2>6, FinalValues
    <3>2. ASSUME NEW s \in Succs(cfg, b) PROVE y \in Leaves(UseValue(<<s, 1>>, r), r)
      <4>1. s \in cfg.blocks
        BY <1>0, <2>1, SuccsAreBlocks
      <4>2. UseValue(<<s, 1>>, r) = block_in[s][r]
        BY <1>0, <4>1, EntryValue
      <4> QED BY <2>1, <3>1, <4>2, LeafGoesOn
    <3> QED BY <2>1, <2>3, <2>6, <3>2
  <2> QED BY <2>1, <2>5, <2>6
<1>2. S \subseteq X
  OBVIOUS
<1>3. Reached(cfg, S, r) \subseteq X
  <2> HIDE DEF X
  <2> QED BY <1>0, <1>1, <1>2, ReachedIsLeast
<1> QED BY <1>3

\* A definition that reaches an instruction is a leaf of the value there.
LEMMA DefIsLeaf ==
    ASSUME Final, NEW d \in Definitions(cfg),
           NEW pc \in Reached(cfg, NextPcs(cfg, d.pc), d.reg)
    PROVE  Def(d.pc, d.reg) \in Leaves(UseValue(pc, d.reg), d.reg)
<1> DEFINE r == d.reg
           b == d.pc[1]
           i == d.pc[2]
           v == Def(d.pc, r)
           S == NextPcs(cfg, d.pc)
<1>0. IsFlowGraph(cfg) /\ HasCode(cfg)
  BY DEF Final
<1>1. /\ d.pc \in Pcs(cfg) /\ r \in At(cfg, d.pc).defs /\ d.pc = <<b, i>>
      /\ b \in cfg.blocks /\ i \in 1..Len(cfg.code[b]) /\ S \in SUBSET Pcs(cfg)
      /\ Len(cfg.code[b]) \in Nat
  BY <1>0, DefinitionShape DEF HasCode
<1>2. r \in Regs /\ r \in cfg.code[b][i].defs
  BY <1>1 DEF Final, At
<1>3. v \in Leaves(v, r)
  <2>1. v[1] # "phi"
    BY Kinds
  <2> HIDE DEF v
  <2> QED BY <2>1 DEF Leaves
<1>4. /\ i < Len(cfg.code[b]) => S = {<<b, i + 1>>}
      /\ i = Len(cfg.code[b]) => S = Succs(cfg, b) \X {1}
  <2>1. S = NextPcs(cfg, <<b, i>>)
    BY <1>1
  <2> HIDE DEF b, i, S
  <2> QED BY <1>0, <1>1, <2>1, NextPcsAre
<1>5. ValueBefore(b, i + 1, r, block_in[b]) = v
  <2>1. v = Def(<<b, i>>, r)
    BY <1>1
  <2> HIDE DEF b, i, r, v
  <2> QED BY <1>0, <1>1, <1>2, <2>1, ValueSteps
<1> HIDE DEF v
<1>6. \A x \in S : v \in Leaves(UseValue(x, r), r)
  <2>1. CASE i < Len(cfg.code[b])
    <3>1. UseValue(<<b, i + 1>>, r) = v
      BY <1>5 DEF UseValue
    <3> HIDE DEF b, i, r, S
    <3> QED BY <1>3, <1>4, <2>1, <3>1
  <2>2. CASE i = Len(cfg.code[b])
    <3>1. block_out[b][r] = v
      <4> HIDE DEF b, i, r
      <4> QED BY <1>1, <1>2, <1>5, <2>2, FinalValues
    <3>2. ASSUME NEW s \in Succs(cfg, b) PROVE v \in Leaves(UseValue(<<s, 1>>, r), r)
      <4>1. s \in cfg.blocks
        BY <1>0, <1>1, SuccsAreBlocks
      <4> HIDE DEF b, r
      <4>2. UseValue(<<s, 1>>, r) = block_in[s][r]
        BY <1>0, <4>1, EntryValue
      <4>3. v \in Leaves(block_out[b][r], r)
        BY <1>3, <3>1
      <4> QED BY <1>1, <1>2, <4>2, <4>3, LeafGoesOn
    <3> HIDE DEF b, r, S
    <3> QED BY <1>4, <2>2, <3>2
  <2> HIDE DEF S, b, i
  <2> QED BY <1>1, <2>1, <2>2
<1> HIDE DEF S
<1>7. pc \in Reached(cfg, S, r)
  BY DEF S
<1> HIDE DEF r
<1>8. v \in Leaves(UseValue(pc, r), r)
  BY <1>1, <1>2, <1>6, <1>7, LeafAlongPath
<1> QED BY <1>8 DEF v, r

\* What the source of a value reaches, it reaches through a phi as well.
LEMMA FlowsThroughPhi ==
    ASSUME Final, NEW P, NEW v, NEW r, NEW b \in cfg.blocks, NEW pc,
           Flows(cfg, P, v, r, {<<b, 1>>}), pc \in Reached(cfg, {<<b, 1>>}, r)
    PROVE  Flows(cfg, P, v, r, {pc})
<1>0. IsFlowGraph(cfg) /\ HasCode(cfg)
  BY DEF Final
<1>1. {<<b, 1>>} \in SUBSET Pcs(cfg)
  BY <1>0, PcsShape
<1>2. ASSUME NEW R, {<<b, 1>>} \subseteq R, GoesOn(cfg, R, r) PROVE {pc} \subseteq R
  BY <1>0, <1>1, <1>2, ReachedIsLeast DEF GoesOn
<1> QED BY <1>0, <1>2, FlowsOn

\* A leaf of a value that flows to an instruction flows there itself.
LEMMA LeafFlows ==
    ASSUME Final, NEW r \in Regs, NEW v, NEW pc, Flows(cfg, phis, v, r, {pc}),
           NEW x \in Leaves(v, r)
    PROVE  Flows(cfg, phis, x, r, {pc})
<1> DEFINE Y == {b \in cfg.blocks : pc \in Reached(cfg, {<<b, 1>>}, r)}
<1>1. PICK met \in SUBSET cfg.blocks :
          /\ \A z : z \in Leaves(v, r) <=>
                z[1] # "phi" /\ (z = v \/ \E b \in met : z \in Operands(b, r))
          /\ \A Z : (/\ \A b \in cfg.blocks : v = Phi(b, r) => b \in Z
                     /\ \A b \in Z \cap cfg.blocks : \A c \in cfg.blocks :
                           Phi(c, r) \in Operands(b, r) => c \in Z)
                   => met \subseteq Z
  BY LeavesAre
<1>2. ASSUME NEW b \in cfg.blocks, NEW z \in Operands(b, r)
      PROVE  Flows(cfg, phis, z, r, {<<b, 1>>})
  <2>1. z \in Incoming(b, r)
    BY <1>2 DEF Operands
  <2>2. PICK p \in Preds(cfg, b) : z = block_out[p][r]
    BY <2>1, FinalValues
  <2>3. p \in cfg.blocks /\ b \in Succs(cfg, p)
    BY DEF Preds
  <2>4. Flows(cfg, phis, z, r, Succs(cfg, p) \X {1})
    BY <2>2, <2>3, FinalValues
  <2> QED BY <2>3, <2>4 DEF Flows
<1>3. \A c \in cfg.blocks : \A X : Flows(cfg, phis, Phi(c, r), r, X) =>
          X \subseteq Reached(cfg, {<<c, 1>>}, r)
  <2> SUFFICES ASSUME NEW c \in cfg.blocks, NEW X, Flows(cfg, phis, Phi(c, r), r, X)
               PROVE  X \subseteq Reached(cfg, {<<c, 1>>}, r)
    OBVIOUS
  <2>1. /\ Phi(c, r) # Undef(r) /\ Phi(c, r) # Param(r)
        /\ \A d : Phi(c, r) # Def(d, r)
        /\ \A b : Phi(c, r) = Phi(b, r) => c = b
    BY Kinds
  <2> QED BY <2>1 DEF Flows
<1>4. \A b \in cfg.blocks : v = Phi(b, r) => b \in Y
  BY <1>3
<1>5. ASSUME NEW b \in Y, NEW c \in cfg.blocks, Phi(c, r) \in Operands(b, r)
      PROVE  c \in Y
  <2>1. Flows(cfg, phis, Phi(c, r), r, {<<b, 1>>})
    BY <1>2, <1>5
  <2>2. Flows(cfg, phis, Phi(c, r), r, {pc})
    BY <2>1, FlowsThroughPhi
  <2> QED BY <1>3, <2>2
<1>6. met \subseteq Y
  <2> HIDE DEF Y
  <2> QED BY <1>1, <1>4, <1>5
<1>7. ASSUME NEW b \in met, x \in Operands(b, r) PROVE Flows(cfg, phis, x, r, {pc})
  BY <1>2, <1>6, <1>7, FlowsThroughPhi
<1> QED BY <1>1, <1>7

\* The value before an instruction flows there.
LEMMA UseFlows ==
    ASSUME Final, NEW r \in Regs, NEW pc \in Pcs(cfg)
    PROVE  Flows(cfg, phis, UseValue(pc, r), r, {pc})
<1>0. IsFlowGraph(cfg) /\ HasCode(cfg)
  BY DEF Final
<1>1. /\ pc[1] \in cfg.blocks /\ pc[2] \in 1..Len(cfg.code[pc[1]]) /\ pc = <<pc[1], pc[2]>>
      /\ Len(cfg.code[pc[1]]) \in Nat
  BY <1>0, PcsShape
<1> DEFINE b == pc[1]
           i == pc[2]
<1>2. i \in 1..(Len(cfg.code[b]) + 1) /\ Here(cfg, b, i) = {pc} /\ b \in cfg.blocks
  BY <1>1 DEF Here
<1>3. UseValue(pc, r) = ValueBefore(b, i, r, block_in[b])
  BY DEF UseValue
<1> HIDE DEF b, i
<1>4. Flows(cfg, phis, block_in[b][r], r, {<<b, 1>>})
  BY <1>2, FinalValues
<1> QED BY <1>0, <1>2, <1>3, <1>4, ValueFlows

\* Without unreachable blocks and edges to the entry, every value has a source.
LEMMA NothingUndefined ==
    ASSUME Final, Plain(cfg), NEW r \in Regs
    PROVE  \A b \in cfg.blocks : block_in[b][r] # Undef(r) /\ block_out[b][r] # Undef(r)
<1> DEFINE X == {b \in cfg.blocks : block_in[b][r] # Undef(r)}
<1>0. IsFlowGraph(cfg) /\ HasCode(cfg) /\ cfg.entry \in cfg.blocks
  BY DEF Final, IsFlowGraph
<1>1. ASSUME NEW b \in X PROVE block_out[b][r] # Undef(r)
  <2> DEFINE i == Len(cfg.code[b]) + 1
  <2>1. Len(cfg.code[b]) \in Nat
    BY <1>0 DEF HasCode
  <2>2. i \in 1..(Len(cfg.code[b]) + 1)
    BY <2>1
  <2>3. block_out[b][r] = ValueBefore(b, i, r, block_in[b])
    BY FinalValues
  <2> HIDE DEF i
  <2> DEFINE in == block_in[b]
  <2> HIDE DEF in
  <2>4. \/ ValueBefore(b, i, r, in) = in[r]
        \/ \E x : ValueBefore(b, i, r, in) = Def(x, r)
    BY DEF ValueBefore
  <2>5. \A x : Def(x, r) # Undef(r)
    BY Kinds
  <2> QED BY <2>3, <2>4, <2>5 DEF in
<1>2. cfg.entry \in X
  <2>1. block_in[cfg.entry][r] = Param(r)
    <3>1. block_in[cfg.entry][r] = Merged(cfg.entry, r)
      BY <1>0, FinalValues
    <3> QED BY <3>1 DEF Merged, Plain
  <2>2. Param(r) # Undef(r)
    BY Kinds
  <2> QED BY <1>0, <2>1, <2>2
<1>3. ASSUME NEW b \in X, NEW s \in Succs(cfg, b) PROVE s \in X
  <2>1. s \in cfg.blocks /\ b \in Preds(cfg, s)
    BY <1>0, SuccsAreBlocks DEF Preds
  <2>2. block_in[s][r] = Merged(s, r) /\ block_out[b][r] \in Incoming(s, r)
        /\ IsFiniteSet(Incoming(s, r))
    BY <2>1, FinalValues
  <2>3. CASE Cardinality(Incoming(s, r)) = 1
    <3>1. \E x : Incoming(s, r) = {x}
      BY <2>2, <2>3, FS_Singleton
    <3>2. Merged(s, r) = CHOOSE v \in Incoming(s, r) : TRUE
      BY <2>1, <2>2, <2>3 DEF Merged
    <3>3. block_in[s][r] = block_out[b][r]
      BY <2>2, <3>1, <3>2
    <3> QED BY <1>1, <2>1, <3>3
  <2>4. CASE Cardinality(Incoming(s, r)) # 1
    <3>1. block_in[s][r] = Phi(s, r)
      BY <2>1, <2>2, <2>4 DEF Merged
    <3>2. Phi(s, r) # Undef(r)
      BY Kinds
    <3> QED BY <2>1, <3>1, <3>2
  <2> QED BY <2>3, <2>4
<1>4. cfg.blocks \subseteq X
  <2> HIDE DEF X
  <2>1. \A x \in X \cap cfg.blocks : Succs(cfg, x) \ {} \subseteq X
    BY <1>3
  <2>2. Reach(cfg, cfg.entry, {}) \subseteq X
    BY <1>0, <1>2, <2>1, ReachIsLeast
  <2> QED BY <2>2 DEF Plain
<1> QED BY <1>1, <1>4

\* Undefined values are no leaves, and the caller's value is one wherever it
\* reaches.
LEMMA PlainLeaves ==
    ASSUME Final, Plain(cfg), NEW r \in Regs, NEW pc \in Pcs(cfg)
    PROVE  /\ Undef(r) \notin Leaves(UseValue(pc, r), r)
           /\ pc \in Reached(cfg, {<<cfg.entry, 1>>}, r) =>
                 Param(r) \in Leaves(UseValue(pc, r), r)
<1>0. IsFlowGraph(cfg) /\ HasCode(cfg) /\ cfg.entry \in cfg.blocks
  BY DEF Final, IsFlowGraph
<1>1. \A b \in cfg.blocks : block_in[b][r] # Undef(r) /\ block_out[b][r] # Undef(r)
  BY NothingUndefined
<1>2. UseValue(pc, r) # Undef(r)
  <2>1. pc[1] \in cfg.blocks
    BY <1>0, PcsShape
  <2>2. \/ UseValue(pc, r) = block_in[pc[1]][r]
        \/ \E x : UseValue(pc, r) = Def(x, r)
    BY DEF UseValue, ValueBefore
  <2>3. \A x : Def(x, r) # Undef(r)
    BY Kinds
  <2> QED BY <1>1, <2>1, <2>2, <2>3
<1>3. \A b \in cfg.blocks : Undef(r) \notin Operands(b, r)
  <2> SUFFICES ASSUME NEW b \in cfg.blocks, Undef(r) \in Incoming(b, r) PROVE FALSE
    BY DEF Operands
  <2>1. PICK p \in Preds(cfg, b) : Undef(r) = block_out[p][r]
    BY FinalValues
  <2> QED BY <1>1, <2>1 DEF Preds
<1>4. Undef(r) \notin Leaves(UseValue(pc, r), r)
  <2>1. PICK met \in SUBSET cfg.blocks :
            \A x : x \in Leaves(UseValue(pc, r), r) <=>
                x[1] # "phi" /\ (x = UseValue(pc, r) \/ \E b \in met : x \in Operands(b, r))
    BY LeavesAre
  <2> QED BY <1>2, <1>3, <2>1
<1>5. ASSUME pc \in Reached(cfg, {<<cfg.entry, 1>>}, r)
      PROVE  Param(r) \in Leaves(UseValue(pc, r), r)
  <2>1. UseValue(<<cfg.entry, 1>>, r) = Param(r)
    <3>1. block_in[cfg.entry][r] = Param(r)
      <4>1. block_in[cfg.entry][r] = Merged(cfg.entry, r)
        BY <1>0, FinalValues
      <4> QED BY <4>1 DEF Merged, Plain
    <3> QED BY <1>0, <3>1, EntryValue
  <2>2. Param(r) \in Leaves(Param(r), r)
    <3>1. Param(r)[1] # "phi"
      BY Kinds
    <3> QED BY <3>1 DEF Leaves
  <2>3. {<<cfg.entry, 1>>} \in SUBSET Pcs(cfg)
    BY <1>0, PcsShape
  <2> DEFINE S == {<<cfg.entry, 1>>}
             y == Param(r)
  <2>4. \A x \in S : y \in Leaves(UseValue(x, r), r)
    BY <2>1, <2>2
  <2>5. S \in SUBSET Pcs(cfg) /\ pc \in Reached(cfg, S, r)
    BY <1>5, <2>3
  <2> HIDE DEF S, y
  <2>6. y \in Leaves(UseValue(pc, r), r)
    BY <2>4, <2>5, LeafAlongPath
  <2> QED BY <2>6 DEF y
<1> QED BY <1>4, <1>5

\* The leaves of a value are the definitions that reach it.
LEMMA LeavesReach ==
    ASSUME Final, NEW pc \in Pcs(cfg), NEW r \in At(cfg, pc).uses
    PROVE  /\ {v \in Leaves(UseValue(pc, r), r) : v[1] = "instr"}
                  = Reaching(cfg, pc, r) \ {Param(r)}
           /\ Plain(cfg) => Leaves(UseValue(pc, r), r) = Reaching(cfg, pc, r)
<1> DEFINE L == Leaves(UseValue(pc, r), r)
           R == Reaching(cfg, pc, r)
<1>1. r \in Regs
  BY DEF Final
<1>2. \A x : x \in R <=>
          \/ \E d \in Definitions(cfg) :
                d.reg = r /\ x = Def(d.pc, r) /\ pc \in Reached(cfg, NextPcs(cfg, d.pc), r)
          \/ x = Param(r) /\ pc \in Reached(cfg, {<<cfg.entry, 1>>}, r)
  BY DEF Reaching
<1>3. \A x \in L : x[1] # "phi"
  BY DEF Leaves
<1>4. ASSUME NEW x \in L PROVE x = Undef(r) \/ x \in R
  <2>1. Flows(cfg, phis, x, r, {pc})
    BY <1>1, UseFlows, LeafFlows
  <2>2. \A c : x # Phi(c, r)
    BY <1>3, Kinds
  <2> HIDE DEF R
  <2> QED BY <1>2, <2>1, <2>2 DEF Flows
<1>5. ASSUME NEW d \in Definitions(cfg), d.reg = r,
             pc \in Reached(cfg, NextPcs(cfg, d.pc), r)
      PROVE  Def(d.pc, r) \in L
  BY <1>5, DefIsLeaf
<1> HIDE DEF R
<1>6. \A x \in R : x[1] = "instr" => x \in L
  BY <1>2, <1>5, Kinds
<1>7. \A x \in R : x # Param(r) => x[1] = "instr"
  BY <1>2, Kinds
<1>8. /\ Undef(r)[1] # "instr" /\ Param(r)[1] # "instr"
  BY Kinds
<1> HIDE DEF L
<1>9. {v \in L : v[1] = "instr"} = R \ {Param(r)}
  BY <1>4, <1>6, <1>7, <1>8
<1>10. ASSUME Plain(cfg) PROVE L = R
  <2>1. Undef(r) \notin L /\ (Param(r) \in R => Param(r) \in L)
    <3>1. Param(r) \in R => pc \in Reached(cfg, {<<cfg.entry, 1>>}, r)
      <4>1. \A x : Def(x, r) # Param(r)
        BY Kinds
      <4> QED BY <1>2, <4>1
    <3> QED BY <1>1, <1>10, <3>1, PlainLeaves DEF L
  <2> QED BY <1>4, <1>6, <1>7, <2>1
<1> QED BY <1>9, <1>10 DEF L, R

\* A value used by no phi and at one instruction only is read nowhere else.
LEMMA OnlyUse ==
    ASSUME Final, Plain(cfg), NEW d \in Definitions(cfg), NEW pc \in Pcs(cfg),
           HasSingleUse(Def(d.pc, d.reg), pc)
    PROVE  RealUses(cfg, d) = {pc} /\ Reaching(cfg, pc, d.reg) = {Def(d.pc, d.reg)}
<1> DEFINE r == d.reg
           v == Def(d.pc, r)
           S == NextPcs(cfg, d.pc)
<1>0. IsFlowGraph(cfg) /\ HasCode(cfg)
  BY DEF Final
<1>1. /\ RegOf(v) = r /\ v[1] = "instr" /\ v[2] = d.pc
      /\ \A x : Def(x, r)[2] = x /\ Def(x, r)[1] = "instr"
      /\ \A x : Phi(x, r)[1] = "phi"
      /\ Param(r)[1] = "param" /\ Undef(r)[1] = "undef"
  BY Kinds
<1>2. PhiSites(v) = {} /\ UseSites(v) = {pc}
  BY DEF HasSingleUse
<1>3. /\ \A x \in Pcs(cfg) : (r \in At(cfg, x).uses /\ UseValue(x, r) = v) => x = pc
      /\ r \in At(cfg, pc).uses /\ UseValue(pc, r) = v
  BY <1>1, <1>2 DEF UseSites
<1>4. \A p \in phis : v \notin Operands(p[1], p[2])
  BY <1>2 DEF PhiSites
<1>5. r \in Regs /\ S \in SUBSET Pcs(cfg)
  <2>1. S \in SUBSET Pcs(cfg)
    BY <1>0, DefinitionShape
  <2> QED BY <1>3, <2>1 DEF Final
<1>6. RealUses(cfg, d) = {x \in Reached(cfg, S, r) : r \in At(cfg, x).uses}
  BY DEF RealUses
<1>7. \A x \in Reached(cfg, S, r) : v \in Leaves(UseValue(x, r), r) /\ x \in Pcs(cfg)
  <2>1. Reached(cfg, S, r) \subseteq Pcs(cfg)
    BY <1>0, <1>5, ReachedIsLeast
  <2> QED BY <2>1, DefIsLeaf
<1>8. pc \in Reached(cfg, S, r)
  <2>1. Flows(cfg, phis, v, r, {pc})
    BY <1>3, <1>5, UseFlows
  <2>2. PICK e \in Definitions(cfg) :
            e.reg = r /\ v = Def(e.pc, r) /\ {pc} \subseteq Reached(cfg, NextPcs(cfg, e.pc), r)
    <3> HIDE DEF v, r
    <3>1. v # Undef(r) /\ v # Param(r) /\ \A c : v # Phi(c, r)
      BY <1>1
    <3> QED BY <2>1, <3>1 DEF Flows
  <2>3. e.pc = d.pc
    <3> HIDE DEF v
    <3> QED BY <1>1, <2>2
  <2> QED BY <2>2, <2>3
<1> HIDE DEF v, S, r
<1>9. ASSUME NEW x \in Reached(cfg, S, r), r \in At(cfg, x).uses PROVE x = pc
  <2>1. PICK met \in SUBSET cfg.blocks :
            /\ \A z : z \in Leaves(UseValue(x, r), r) <=>
                  z[1] # "phi" /\ (z = UseValue(x, r) \/ \E b \in met : z \in Operands(b, r))
            /\ \A Y : (/\ \A b \in cfg.blocks : UseValue(x, r) = Phi(b, r) => b \in Y
                       /\ \A b \in Y \cap cfg.blocks : \A c \in cfg.blocks :
                             Phi(c, r) \in Operands(b, r) => c \in Y)
                     => met \subseteq Y
    BY LeavesAre
  <2> DEFINE Y == {b \in cfg.blocks : <<b, r>> \in phis}
  <2>2. \A X, w : \A c \in cfg.blocks : Flows(cfg, phis, w, r, X) /\ w = Phi(c, r) =>
            <<c, r>> \in phis
    <3> SUFFICES ASSUME NEW X, NEW c \in cfg.blocks, Flows(cfg, phis, Phi(c, r), r, X)
                 PROVE  <<c, r>> \in phis
      OBVIOUS
    <3>1. /\ Phi(c, r) # Undef(r) /\ Phi(c, r) # Param(r)
          /\ \A e : Phi(c, r) # Def(e, r)
          /\ \A b : Phi(c, r) = Phi(b, r) => c = b
      BY Kinds
    <3> QED BY <3>1 DEF Flows
  <2>3. \A b \in cfg.blocks : UseValue(x, r) = Phi(b, r) => b \in Y
    <3>1. Flows(cfg, phis, UseValue(x, r), r, {x})
      BY <1>5, <1>7, UseFlows
    <3> QED BY <2>2, <3>1
  <2>4. ASSUME NEW b \in cfg.blocks, NEW c \in cfg.blocks, Phi(c, r) \in Operands(b, r)
        PROVE  c \in Y
    <3>1. Phi(c, r) \in Incoming(b, r)
      BY <2>4 DEF Operands
    <3>2. PICK p \in Preds(cfg, b) : Phi(c, r) = block_out[p][r]
      <4>1. Incoming(b, r) = {block_out[p][r] : p \in Preds(cfg, b)}
        BY <1>5, FinalValues
      <4> QED BY <3>1, <4>1
    <3>3. Flows(cfg, phis, block_out[p][r], r, Succs(cfg, p) \X {1})
      BY <1>5, FinalValues DEF Preds
    <3> QED BY <2>2, <3>2, <3>3
  <2>5. met \subseteq Y
    <3> HIDE DEF Y
    <3> QED BY <2>1, <2>3, <2>4
  <2>6. \A b \in met : v \notin Operands(b, r)
    <3>1. \A b \in met : <<b, r>> \in phis
      BY <2>5
    <3> QED BY <1>4, <3>1
  <2>7. UseValue(x, r) = v
    BY <1>7, <2>1, <2>6
  <2> QED BY <1>3, <1>7, <1>9, <2>7
<1>10. RealUses(cfg, d) = {pc}
  BY <1>3, <1>6, <1>8, <1>9
<1>11. Reaching(cfg, pc, r) = {v}
  <2>1. Leaves(v, r) = Reaching(cfg, pc, r)
    BY <1>3, LeavesReach
  <2>2. PICK met \in SUBSET cfg.blocks :
            /\ \A z : z \in Leaves(v, r) <=>
                  z[1] # "phi" /\ (z = v \/ \E b \in met : z \in Operands(b, r))
            /\ \A Y : (/\ \A b \in cfg.blocks : v = Phi(b, r) => b \in Y
                       /\ \A b \in Y \cap cfg.blocks : \A c \in cfg.blocks :
                             Phi(c, r) \in Operands(b, r) => c \in Y)
                     => met \subseteq Y
    BY LeavesAre
  <2>3. met \subseteq {}
    <3>1. \A b \in cfg.blocks : v # Phi(b, r)
      BY <1>1
    <3> DEFINE none == {}
    <3>2. \A x : x \notin none
      OBVIOUS
    <3> HIDE DEF none
    <3>3. met \subseteq none
      BY <2>2, <3>1, <3>2
    <3> QED BY <3>3 DEF none
  <2> QED BY <1>1, <2>1, <2>2, <2>3
<1> QED BY <1>10, <1>11 DEF v, r

-----------------------------------------------------------------------------
(* The values lifting works from *)

\* When a sweep has changed nothing, the value of every use, its phis resolved,
\* stands for exactly the definitions that reach the use along a path, and the
\* caller's value (SsaProgram::build, ssa.rs:111-257).  SweepsSettle says that
\* the rounds end this way.
THEOREM SettledValuesReach == SSpec => [](~changed => ValuesReach)
<1>1. SInit => SweepInv
  BY InitSweep
<1>2. SweepInv /\ [SNext]_allVars => SweepInv'
  BY StepSweep
<1>3. SweepInv => (~changed => ValuesReach)
  BY SettledIsFinal, LeavesReach DEF ValuesReach
<1> QED BY <1>1, <1>2, <1>3, PTL DEF SSpec

\* Then a definition said to have a single use is read by that instruction only,
\* and nothing else reaches it, so that moving the definition there keeps what
\* is computed (single_instruction_use_pc, ssa.rs:306-323).
THEOREM SettledSingleUse == SSpec => [](~changed => SingleUseIsOnlyUse)
<1>1. SInit => SweepInv
  BY InitSweep
<1>2. SweepInv /\ [SNext]_allVars => SweepInv'
  BY StepSweep
<1>3. SweepInv => (~changed => SingleUseIsOnlyUse)
  BY SettledIsFinal, OnlyUse DEF SingleUseIsOnlyUse
<1> QED BY <1>1, <1>2, <1>3, PTL DEF SSpec

=============================================================================

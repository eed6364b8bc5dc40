------------------------------- MODULE DefUse -------------------------------
(***************************************************************************)
(* DataFlowAnalysis::build_chains of src/src/dataflow.rs: for each         *)
(* definition of a register, the search for the instructions that use it,  *)
(* first in the rest of its block and then through the successors, in at   *)
(* most MaxBlocksToVisit blocks.                                           *)
(*                                                                         *)
(* A graph has the fields of FlowGraph and the code of CodePaths.          *)
(***************************************************************************)
EXTENDS CodePaths

CONSTANTS
    Regs,               \* the registers
    Cfgs,               \* the flow graphs to analyse
    MaxBlocksToVisit    \* the code has 200

ASSUME CodeAssumption ==
    \A g \in Cfgs :
        /\ IsFlowGraph(g)
        /\ HasCode(g)
        /\ \A b \in g.blocks : \A i \in DOMAIN g.code[b] :
              g.code[b][i].defs \cup g.code[b][i].uses \subseteq Regs

ASSUME VisitAssumption == MaxBlocksToVisit \in Nat

VARIABLES
    cfg,
    definition,     \* the definition whose uses are searched, or NoDef
    seen_blocks,
    worklist,       \* a Vec popped at its end
    uses,
    cut,            \* the limit ended the search (not a variable of the code)
    chains          \* the finished chains: [definition, uses, cut]

searchVars == <<definition, seen_blocks, worklist, uses, cut>>
chainVars == <<cfg, searchVars, chains>>

-----------------------------------------------------------------------------
Definitions(g) ==
    UNION {{[pc |-> pc, reg |-> r] : r \in At(g, pc).defs} : pc \in Pcs(g)}

NoDef == [pc |-> <<>>, reg |-> -1]

\* The PCs of block b from position i on, up to the first that defines r.
UpToKill(g, b, i, r) ==
    {<<b, k>> : k \in {n \in DOMAIN g.code[b] :
        n >= i /\ \A m \in i..(n - 1) : r \notin g.code[b][m].defs}}

UsesFrom(g, b, i, r) == {pc \in UpToKill(g, b, i, r) : r \in At(g, pc).uses}

KilledFrom(g, b, i, r) == \E n \in DOMAIN g.code[b] : n >= i /\ r \in g.code[b][n].defs

CInit ==
    /\ cfg \in Cfgs
    /\ definition = NoDef
    /\ seen_blocks = {}
    /\ worklist = <<>>
    /\ uses = {}
    /\ cut = FALSE
    /\ chains = {}

Searched == {c.definition : c \in chains}

\* Blocks in map order, the instructions of a block in code order.
ComesBefore(d, e) ==
    \/ cfg.rank[d.pc[1]] < cfg.rank[e.pc[1]]
    \/ d.pc[1] = e.pc[1] /\ d.pc[2] < e.pc[2]
    \/ d.pc = e.pc /\ d.reg < e.reg

\* The next definition: search its own block; a redefinition there ends the
\* search, otherwise it goes on in the successors.
BeginChain ==
    /\ definition = NoDef
    /\ \E d \in Definitions(cfg) \ Searched :
          LET b == d.pc[1]
              i == d.pc[2] + 1
          IN  /\ \A e \in Definitions(cfg) \ (Searched \cup {d}) : ComesBefore(d, e)
              /\ definition' = d
              /\ uses' = UsesFrom(cfg, b, i, d.reg)
              /\ seen_blocks' = {b}
              /\ worklist' = IF KilledFrom(cfg, b, i, d.reg) THEN <<>> ELSE cfg.succ[b]
    /\ cut' = FALSE
    /\ UNCHANGED <<cfg, chains>>

Popped == worklist[Len(worklist)]
Rest == SubSeq(worklist, 1, Len(worklist) - 1)

PopSeen ==
    /\ worklist # <<>>
    /\ Popped \in seen_blocks
    /\ worklist' = Rest
    /\ UNCHANGED <<cfg, definition, seen_blocks, uses, cut, chains>>

PopCut ==
    /\ worklist # <<>>
    /\ Popped \notin seen_blocks
    /\ Cardinality(seen_blocks) >= MaxBlocksToVisit
    /\ cut' = TRUE
    /\ worklist' = <<>>
    /\ UNCHANGED <<cfg, definition, seen_blocks, uses, chains>>

\* Faulty variant: the successors of a block are pushed in spite of a redefinition.
BugPopNew ==
    /\ worklist # <<>>
    /\ Popped \notin seen_blocks
    /\ Cardinality(seen_blocks) < MaxBlocksToVisit
    /\ seen_blocks' = seen_blocks \cup {Popped}
    /\ uses' = uses \cup UsesFrom(cfg, Popped, 1, definition.reg)
    /\ worklist' = Rest \o Kept(cfg.succ[Popped], cfg.blocks \ seen_blocks')
    /\ UNCHANGED <<cfg, definition, cut, chains>>

PopNew ==
    /\ worklist # <<>>
    /\ Popped \notin seen_blocks
    /\ Cardinality(seen_blocks) < MaxBlocksToVisit
    /\ seen_blocks' = seen_blocks \cup {Popped}
    /\ uses' = uses \cup UsesFrom(cfg, Popped, 1, definition.reg)
    /\ worklist' = IF KilledFrom(cfg, Popped, 1, definition.reg)
                   THEN Rest
                   ELSE Rest \o Kept(cfg.succ[Popped], cfg.blocks \ seen_blocks')
    /\ UNCHANGED <<cfg, definition, cut, chains>>

EndChain ==
    /\ definition # NoDef
    /\ worklist = <<>>
    /\ chains' = chains \cup {[definition |-> definition, uses |-> uses, cut |-> cut]}
    /\ definition' = NoDef
    /\ UNCHANGED <<cfg, seen_blocks, worklist, uses, cut>>

ChainsDone == definition = NoDef /\ Searched = Definitions(cfg)

CNext == BeginChain \/ PopSeen \/ PopCut \/ PopNew \/ EndChain

-----------------------------------------------------------------------------
(* Properties *)

RealUses(g, d) == {pc \in Reached(g, NextPcs(g, d.pc), d.reg) : d.reg \in At(g, pc).uses}

\* A chain has only uses its definition reaches, and all of them unless the
\* limit ended the search, except uses above the definition in its own block,
\* which it can only reach around a loop.
ChainsReach ==
    \A c \in chains :
        LET d == c.definition
            real == RealUses(cfg, d)
        IN  /\ c.uses \subseteq real
            /\ ~c.cut => \A u \in real \ c.uses : u[1] = d.pc[1] /\ u[2] <= d.pc[2]

=============================================================================

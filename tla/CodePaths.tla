------------------------------ MODULE CodePaths ------------------------------
(***************************************************************************)
(* A flow graph with code, and the paths of execution through it.  `code`  *)
(* has per block the sequence of its instructions, each with the registers *)
(* it defines and uses (the modules about lifting look at more of one).    *)
(* The PC of an instruction is the pair of its block and its position.     *)
(* Reached knows nothing of dataflow equations or chains: the analyses are *)
(* compared with it.                                                       *)
(***************************************************************************)
EXTENDS FlowGraph

\* create_blocks makes no block without instructions.
HasCode(g) ==
    /\ DOMAIN g.code = g.blocks
    /\ \A b \in g.blocks : /\ Len(g.code[b]) \in Nat \ {0}
                           /\ DOMAIN g.code[b] = 1..Len(g.code[b])

Pcs(g) == UNION {{b} \X DOMAIN g.code[b] : b \in g.blocks}

At(g, pc) == g.code[pc[1]][pc[2]]

\* The instructions that may execute right after the one at pc.
NextPcs(g, pc) ==
    IF pc[2] < Len(g.code[pc[1]]) THEN {<<pc[1], pc[2] + 1>>} ELSE Succs(g, pc[1]) \X {1}

\* The instructions reached from those of `start`, past ones that leave r alone.
Reached(g, start, r) ==
    Closure(start, [pc \in Pcs(g) |-> IF r \in At(g, pc).defs THEN {} ELSE NextPcs(g, pc)])

=============================================================================

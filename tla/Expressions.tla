----------------------------- MODULE Expressions -----------------------------
(***************************************************************************)
(* The Expression trees of src/src/lifting.rs and the functions on them.   *)
(* A tree is a tuple headed by its kind:                                   *)
(*   <<"const", c>>  <<"var", name>>  <<"bin", op, l, r>>  <<"not", e>>    *)
(*   <<"load", base, offset>>   <<"store", base, offset, value>>           *)
(*   <<"call", id>>             <<"raw", names>>                           *)
(* Raw text is reduced to the set of names it contains.  Operators stand   *)
(* for one of each class simplify_expression tells apart; constants are    *)
(* words of W bits.  The width of a memory access and the format of text   *)
(* are left out; two bases are written alike exactly if they are equal.    *)
(***************************************************************************)
EXTENDS Integers, Sequences, FiniteSets

CONSTANT W          \* the width of a word; the code has 64 bits

ASSUME WidthAssumption == W \in Nat \ {0}

Words == 0..(2^W - 1)

Wrap(n) == n % 2^W

Const(c) == <<"const", c>>
Var(x) == <<"var", x>>
Bin(op, l, r) == <<"bin", op, l, r>>
Neg(e) == <<"not", e>>
Load(base, off) == <<"load", base, off>>
StoreTo(base, off, val) == <<"store", base, off, val>>

IsConst(e) == e[1] = "const"
IsVar(e) == e[1] = "var"
IsBin(e, ops) == e[1] = "bin" /\ e[2] \in ops

\* Unsigned comparisons; the signed ones are treated alike.
Comparisons == {"<", ">=", ">", "<="}

-----------------------------------------------------------------------------
(* Traversals *)

Children(e) ==
    CASE e[1] = "bin" -> {e[3], e[4]}
      [] e[1] \in {"not", "load"} -> {e[2]}
      [] e[1] = "store" -> {e[2], e[4]}
      [] OTHER -> {}

RECURSIVE Subterms(_)
Subterms(e) == {e} \cup UNION {Subterms(c) : c \in Children(e)}

\* collect_var_names
VarNames(e) == {x[2] : x \in {t \in Subterms(e) : IsVar(t)}}

\* Replace the variables in the domain of sub: substitute_var and the
\* renaming traversals.
RECURSIVE Substitute(_, _)
Substitute(e, sub) ==
    CASE IsVar(e) -> IF e[2] \in DOMAIN sub THEN sub[e[2]] ELSE e
      [] e[1] = "bin" -> Bin(e[2], Substitute(e[3], sub), Substitute(e[4], sub))
      [] e[1] = "not" -> Neg(Substitute(e[2], sub))
      [] e[1] = "load" -> Load(Substitute(e[2], sub), e[3])
      [] e[1] = "store" -> StoreTo(Substitute(e[2], sub), e[3], Substitute(e[4], sub))
      [] OTHER -> e

RECURSIVE Depth(_)
Depth(e) ==
    IF e[1] \in {"const", "var", "raw"} THEN 0
    ELSE IF Children(e) = {} THEN 1
    ELSE LET depths == {Depth(c) : c \in Children(e)}
         IN  1 + CHOOSE d \in depths : \A x \in depths : x <= d

\* has_side_effects, a load counted among them
HasSideEffects(e) == \E t \in Subterms(e) : t[1] \in {"load", "store", "call", "raw"}

\* Loads and stores as slots: the base and the offset.
LoadsIn(e) == {<<t[2], t[3]>> : t \in {s \in Subterms(e) : s[1] = "load"}}
StoresIn(e) == {<<t[2], t[3]>> : t \in {s \in Subterms(e) : s[1] = "store"}}

\* replace_stack_loads: loads from the slots of `named` become variables.
RECURSIVE ReplaceLoads(_, _)
ReplaceLoads(e, named) ==
    CASE e[1] = "load" -> IF <<e[2], e[3]>> \in named
                          THEN Var(<<"slot", e[2][2], e[3]>>)
                          ELSE Load(ReplaceLoads(e[2], named), e[3])
      [] e[1] = "bin" -> Bin(e[2], ReplaceLoads(e[3], named), ReplaceLoads(e[4], named))
      [] e[1] = "not" -> Neg(ReplaceLoads(e[2], named))
      [] e[1] = "store" -> StoreTo(ReplaceLoads(e[2], named), e[3], ReplaceLoads(e[4], named))
      [] OTHER -> e

-----------------------------------------------------------------------------
(* simplify_expression *)

RECURSIVE IsBoolean(_)
IsBoolean(e) ==
    \/ e[1] = "not"
    \/ IsBin(e, Comparisons)
    \/ IsBin(e, {"&", "|"}) /\ IsBoolean(e[3]) /\ IsBoolean(e[4])

Inverted(op) == CASE op = "<" -> ">=" [] op = ">=" -> "<" [] op = ">" -> "<=" [] op = "<=" -> ">"

Folded(op, a, b) ==
    Const(CASE op = "+" -> Wrap(a + b) [] op = "-" -> Wrap(a - b) [] op = "*" -> Wrap(a * b))

\* One operation on simplified operands, in the order of the match.
SimplifyBin(op, l, r) ==
    CASE op \in {"+", "-", "*"} /\ IsConst(l) /\ IsConst(r) -> Folded(op, l[2], r[2])
      [] op \in {"+", "-", "|"} /\ r = Const(0) -> l
      [] op \in {"+", "|"} /\ l = Const(0) /\ r # Const(0) -> r
      [] op = "+" /\ IsConst(r) /\ r # Const(0) /\ IsBin(l, {"+"}) /\ IsConst(l[4]) ->
            IF Wrap(l[4][2] + r[2]) = 0 THEN l[3]
            ELSE Bin("+", l[3], Const(Wrap(l[4][2] + r[2])))
      [] op = "*" /\ ~IsConst(l) /\ r = Const(1) -> l
      [] op = "*" /\ ~IsConst(r) /\ l = Const(1) -> r
      [] op \in {"*", "&"} /\ Const(0) \in {l, r} /\ ~(op = "*" /\ IsConst(l) /\ IsConst(r)) -> Const(0)
      [] op = "<" /\ r = Const(1) -> Neg(l)
      [] op = "<" /\ l = Const(0) /\ r # Const(1) /\ IsBoolean(r) -> r
      [] op = "<" /\ IsConst(l) /\ l # Const(0) /\ r # Const(1) -> Bin(">", r, l)
      [] OTHER -> Bin(op, l, r)

\* Faulty variant: a negated comparison keeps its operator and swaps its operands.
BugSimplifyNot(e) ==
    CASE e[1] = "not" -> e[2]
      [] IsBin(e, Comparisons) -> Bin(e[2], e[4], e[3])
      [] OTHER -> Neg(e)

SimplifyNot(e) ==
    CASE e[1] = "not" -> e[2]
      [] IsBin(e, Comparisons) -> Bin(Inverted(e[2]), e[3], e[4])
      [] OTHER -> Neg(e)

\* A constant added to a base moves into the offset.
AbsorbedBase(base) == IF IsBin(base, {"+"}) /\ IsConst(base[4]) THEN base[3] ELSE base
AbsorbedOffset(base, off) ==
    IF IsBin(base, {"+"}) /\ IsConst(base[4]) THEN Wrap(off + base[4][2]) ELSE off

RECURSIVE Simplify(_)
Simplify(e) ==
    CASE e[1] = "bin" -> SimplifyBin(e[2], Simplify(e[3]), Simplify(e[4]))
      [] e[1] = "not" -> SimplifyNot(Simplify(e[2]))
      [] e[1] = "load" ->
            LET base == Simplify(e[2])
            IN  Load(AbsorbedBase(base), AbsorbedOffset(base, e[3]))
      [] e[1] = "store" ->
            LET base == Simplify(e[2])
            IN  StoreTo(AbsorbedBase(base), AbsorbedOffset(base, e[3]), Simplify(e[4]))
      [] OTHER -> e

=============================================================================

------------------------------ MODULE MCDriver ------------------------------
(***************************************************************************)
(* Files and options for Driver: an encoder for small programs, and damaged *)
(* files.  All files go through --llvm, which decodes them and builds their *)
(* graphs; --decompile and --refine, whose steps do not look at the file,   *)
(* get a good and a damaged one.                                            *)
(***************************************************************************)
EXTENDS Driver, MCExternalTool, SequencesExt

\* Instructions that end blocks or not, jumps of no, negative and positive
\* offset into and between instructions, a branch with an immediate, an
\* unassigned opcode and a branch cut short.
Samples ==
    {<<0>>, <<1>>, <<200, 1, 2>>, <<40>>, <<40, 253>>, <<40, 3>>, <<81, 17, 5, 2>>,
     <<81, 1, 252, 255>>, <<50, 0>>, <<80, 1, 4>>, <<255, 7>>, <<170>>}

Bits(S, k) == FoldSet(LAMBDA p, sum : sum + 2 ^ (p - 8 * k), 0, {p \in S : p \div 8 = k})

\* A program: its code as a sequence of instructions, and its jump table.
CodeOf(prog) == FlattenSeq(prog.code)
StartsOf(prog) == {Len(FlattenSeq(SubSeq(prog.code, 1, i - 1))) : i \in DOMAIN prog.code}

RawFile(c, starts, table) ==
    <<Len(table), IF table = <<>> THEN 0 ELSE 2, Len(c)>>
        \o FlattenSeq([i \in DOMAIN table |-> <<table[i] % 256, table[i] \div 256>>])
        \o c \o [k \in 1..((Len(c) + 7) \div 8) |-> Bits(starts, k - 1)]

SpiFile(ro, rw, raw) ==
    <<ro, 0, 0, rw, 0, 0, 1, 0, 0, 16, 0>> \o [i \in 1..(ro + rw) |-> 7]
        \o <<Len(raw), 0, 0, 0>> \o raw

Meta(file) == <<5, 110, 97, 109, 101, 0>> \o file

File(s) ==
    LET raw == RawFile(CodeOf(s), StartsOf(s), s.table)
    IN  CASE s.form = "raw" -> raw
          [] s.form = "spi" -> SpiFile(s.ro, 1, raw)
          [] s.form = "meta" -> Meta(SpiFile(s.ro, 1, raw))
          [] s.form = "cut" -> SubSeq(raw, 1, Len(raw) - s.ro)
          [] s.form = "spicut" -> SpiFile(0, 0, SubSeq(raw, 1, Len(raw) - s.ro))
          [] s.form = "long" -> SpiFile(s.ro, 1, raw) \o <<0>>

Source(form, prog, table, ro) == [form |-> form, code |-> prog, table |-> table, ro |-> ro]

Sources ==
    {Source("raw", q, <<>>, 0) : q \in [1..4 -> Samples]}
    \cup {Source(f, <<x, <<0>>>>, t, ro) :
             f \in {"raw", "spi", "meta", "long"}, x \in Samples,
             t \in {<<>>, <<0>>, <<1, 300>>}, ro \in 0..2}
    \cup {Source(f, <<x, <<0>>>>, <<1, 2>>, n) :
             f \in {"cut", "spicut"}, x \in Samples, n \in 0..9}

\* Code under every mask: starts in the middle of instructions, none at 0.
Masked ==
    {RawFile(c, S, <<>>) :
        c \in {<<40, 254, 81, 17, 1>>, <<1, 40, 1, 40, 255>>},
        S \in SUBSET (0..4)}

Files == {File(s) : s \in Sources} \cup Masked

VARIABLE source

NoSource == Source("none", <<>>, <<>>, 0)

Program == Source("raw", <<<<40>>, <<0>>>>, <<>>, 0)
Damaged == Source("cut", <<<<40>>, <<0>>>>, <<>>, 1)

MCInit ==
    /\ source \in Sources \cup {NoSource}
    /\ input \in (IF source = NoSource THEN Masked ELSE {File(source)})
    /\ Start
    /\ cfg = NoGraph
    /\ Init
    /\ RInit
    /\ output_mode \in {"PseudoCode", "LlvmIr", "Decompile"}
    /\ enable_refine = (output_mode = "PseudoCode")
    /\ output_mode # "LlvmIr" => source \in {Program, Damaged}
    /\ output_mode # "Decompile" => plan \in SurvivingHelper

MCNext == DriverNext /\ UNCHANGED source

MCSpec == MCInit /\ [][MCNext]_<<driverVars, source>> /\ DriverFairness

IsWhole == source.form \in {"raw", "spi", "meta"}

\* Whatever container a program comes in, the decoder finds the container,
\* the jump table, the base of the heap, and every instruction with its bytes.
DecodesWhatWasEncoded ==
    (phase \in {"decoded", "error"} /\ IsWhole) =>
        /\ phase = "decoded"
        /\ mode = IF source.form = "raw" THEN "raw" ELSE "spi"
        /\ jump_table = source.table
        /\ [i \in DOMAIN instructions |-> instructions[i].bytes] = source.code
        /\ {instructions[i].pc : i \in DOMAIN instructions} = StartsOf(source)
        /\ memory_base = IF source.form = "raw" THEN 0
                         ELSE IF source.ro = 0 THEN 131072 ELSE 196608

=============================================================================

--------------------------- MODULE DecoderProofs ---------------------------
(***************************************************************************)
(* Proofs about Decoder and CfgBuild, for any set of files: the decoder    *)
(* never reads past a section (ReadsSafe), decodes every position the mask *)
(* marks exactly once (DecodedOnce), whatever the lengths in the file      *)
(* claim, and the graph built from the instructions has exactly the steps  *)
(* of the machine (GraphIsTheSteps).                                       *)
(***************************************************************************)
EXTENDS CfgBuild, CommonLemmas

-----------------------------------------------------------------------------
(* Operators *)

\* find_instruction_length returns at least one byte, stays within the code,
\* and passes no start of an instruction.
LEMMA LengthBounds ==
    ASSUME NEW m, NEW p \in Nat, NEW len \in Nat, p < len
    PROVE  /\ InstructionLength(m, p, len) \in Nat \ {0}
           /\ p + InstructionLength(m, p, len) <= len
           /\ \A q \in p+1..p+InstructionLength(m, p, len)-1 : ~IsStart(m, q)
<1> DEFINE next == {q \in p+1..len-1 : IsStart(m, q)}
<1>1. CASE next = {}
  <2>1. InstructionLength(m, p, len) = len - p
    BY <1>1 DEF InstructionLength
  <2> QED BY <2>1, <1>1
<1>2. CASE next # {}
  <2> DEFINE first == CHOOSE q \in next : \A r \in next : q <= r
  <2>1. next \subseteq Nat
    OBVIOUS
  <2> HIDE DEF next
  <2>2. \E q \in next : \A r \in next : q <= r
    BY <1>2, <2>1, LeastNatural
  <2>3. first \in next /\ \A r \in next : first <= r
    BY <2>2
  <2>4. InstructionLength(m, p, len) = first - p
    BY <1>2 DEF InstructionLength, next
  <2> HIDE DEF first
  <2> QED BY <2>3, <2>4 DEF next
<1> QED BY <1>1, <1>2

\* Bytes are naturals.
LEMMA BytesAreNatural == \A b \in Byte : b \in Nat
BY DEF Byte

\* Little-endian values are naturals.
LEMMA LittleEndianType ==
    ASSUME NEW d \in Seq(Byte), NEW p \in Nat, NEW n \in 0..4, p + n <= Len(d)
    PROVE  LittleEndian(d, p, n) \in Nat
<1> DEFINE at(i) == IF i < n THEN d[p + i + 1] ELSE 0
<1>1. ASSUME NEW i \in 0..3 PROVE at(i) \in Nat
  <2>1. CASE i < n
    <3>1. p + i + 1 \in 1..Len(d)
      BY <2>1
    <3>2. d[p + i + 1] \in Byte
      BY <3>1
    <3>3. d[p + i + 1] \in Nat
      BY <3>2, BytesAreNatural
    <3> QED BY <2>1, <3>3
  <2>2. CASE ~(i < n)
    BY <2>2
  <2> QED BY <2>1, <2>2
<1>2. at(0) \in Nat /\ at(1) \in Nat /\ at(2) \in Nat /\ at(3) \in Nat
  BY <1>1
<1>3. LittleEndian(d, p, n) = at(0) + 256 * at(1) + 65536 * at(2) + 16777216 * at(3)
  BY DEF LittleEndian
<1> HIDE DEF at
<1> QED BY <1>2, <1>3

\* A first byte announces at most five bytes.
LEMMA VarBytesType ==
    ASSUME NEW b \in Byte
    PROVE  VarBytes(b) \in 0..5
BY DEF Byte, VarBytes

\* The value bits of a first byte are a natural.
LEMMA VarHighType ==
    ASSUME NEW b \in Byte
    PROVE  VarHigh(b) \in Nat
<1>1. b \in 0..255
  BY DEF Byte
<1>2. /\ VarBytes(b) = 2 => b >= 128
      /\ VarBytes(b) = 3 => b >= 192
      /\ VarBytes(b) = 4 => b >= 224
  BY <1>1 DEF VarBytes
<1> QED BY <1>1, <1>2 DEF VarHigh

\* decode_var_u32 returns a natural and consumes bytes that are there.
LEMMA VarType ==
    ASSUME NEW d \in Seq(Byte), NEW p \in Nat, HasVar(d, p)
    PROVE  /\ VarValue(d, p) \in Nat
           /\ VarBytes(d[p + 1]) \in 1..5
           /\ p + VarBytes(d[p + 1]) <= Len(d)
<1>1. d[p + 1] \in Byte
  BY DEF HasVar
<1>2. VarBytes(d[p + 1]) \in 1..5 /\ p + VarBytes(d[p + 1]) <= Len(d)
  BY <1>1, VarBytesType DEF HasVar
<1>3. VarHigh(d[p + 1]) \in Nat
  BY <1>1, VarHighType
<1>4. LittleEndian(d, p + 1, VarBytes(d[p + 1]) - 1) \in Nat
  BY <1>2, LittleEndianType
<1>5. VarValue(d, p) \in Nat
  BY <1>2, <1>3, <1>4 DEF VarValue
<1> QED BY <1>2, <1>5

\* A slice within a byte string is a byte string of the expected length.
LEMMA SliceType ==
    ASSUME NEW d \in Seq(Byte), NEW a \in Nat, NEW b \in Nat, a <= b, b <= Len(d)
    PROVE  SubSeq(d, a + 1, b) \in Seq(Byte) /\ Len(SubSeq(d, a + 1, b)) = b - a
<1>1. \A i \in a+1..b : d[i] \in Byte
  OBVIOUS
<1> QED BY <1>1, SubSeqProperties

\* The blob of an SPI container starts within the file.
LEMMA SpiType ==
    ASSUME NEW d \in Seq(Byte), IsSpi(d)
    PROVE  BlobAt(d) \in Nat /\ BlobAt(d) <= Len(d) /\ HeapStart(d) \in Nat
<1>1. RoLen(d) \in Nat /\ RwLen(d) \in Nat
  BY LittleEndianType DEF IsSpi, SpiHeaderBytes, RoLen, RwLen
<1>2. BlobAt(d) \in Nat /\ BlobAt(d) <= Len(d)
  BY <1>1 DEF BlobAt, IsSpi, SpiHeaderBytes
<1>3. HeapStart(d) \in Nat
  BY <1>1 DEF HeapStart, SegmentSize
<1> QED BY <1>2, <1>3

\* Stripping leaves a byte string.
LEMMA StrippedType ==
    ASSUME NEW d \in Seq(Byte)
    PROVE  Stripped(d) \in Seq(Byte)
<1>1. CASE HasMetadata(d)
  <2>1. HasVar(d, 0) /\ VarBytes(d[1]) + VarValue(d, 0) <= Len(d)
    BY <1>1 DEF HasMetadata
  <2>2. VarValue(d, 0) \in Nat /\ VarBytes(d[1]) \in 1..5
    BY <2>1, VarType
  <2>3. SubSeq(d, (VarBytes(d[1]) + VarValue(d, 0)) + 1, Len(d)) \in Seq(Byte)
    BY <2>1, <2>2, SliceType
  <2> QED BY <1>1, <2>3 DEF Stripped
<1>2. CASE ~HasMetadata(d)
  BY <1>2 DEF Stripped
<1> QED BY <1>1, <1>2

-----------------------------------------------------------------------------
(* The sections stay within the blob *)

\* Past the opening, SPI mode means that the data is an SPI container.
SpiOpened == (mode = "spi" /\ phase \notin {"strip", "spi"}) => IsSpi(data)

\* Nothing is decoded before the sections are read.
NothingYet ==
    phase \in {"strip", "spi", "header", "table"} => pc = 0 /\ instructions = <<>>

Safe == DecodeTypeOK /\ SpiOpened /\ NothingYet /\ ReadsStayInside

\* Safe holds before anything is read.
LEMMA InitSafe == CInit => Safe
<1> SUFFICES ASSUME CInit PROVE Safe
  OBVIOUS
<1>1. DecodeTypeOK
  BY InputsAssumption DEF CInit, DecodeInit, Start, DecodeTypeOK, Byte
<1>2. SpiOpened /\ NothingYet /\ ReadsStayInside
  BY DEF CInit, DecodeInit, Start, SpiOpened, NothingYet, ReadsStayInside, Scanned
<1> QED BY <1>1, <1>2 DEF Safe

\* Falling back to a raw blob, or giving up, keeps Safe.
LEMMA RejectSafe ==
    ASSUME Safe, phase # "strip", Reject
    PROVE  Safe'
<1> USE DEF Safe
<1>1. CASE mode = "spi"
  <2>1. DecodeTypeOK'
    BY <1>1 DEF Reject, Enter, DecodeTypeOK
  <2>2. SpiOpened' /\ NothingYet' /\ ReadsStayInside'
    BY <1>1 DEF Reject, Enter, SpiOpened, NothingYet, ReadsStayInside, Scanned, DecodeTypeOK
  <2> QED BY <2>1, <2>2
<1>2. CASE mode # "spi"
  <2>1. DecodeTypeOK'
    BY <1>2 DEF Reject, DecodeTypeOK
  <2>2. SpiOpened' /\ NothingYet' /\ ReadsStayInside'
    BY <1>2 DEF Reject, SpiOpened, NothingYet, ReadsStayInside, Scanned
  <2> QED BY <2>1, <2>2
<1> QED BY <1>1, <1>2

\* Every step of the decoder keeps Safe.
LEMMA StepSafe == Safe /\ [CNext]_allVars => Safe'
<1> SUFFICES ASSUME Safe, [CNext]_allVars PROVE Safe'
  OBVIOUS
<1> USE DEF Safe
<1>1. CASE StripMetadata
  <2>1. Stripped(input) \in Seq(Byte)
    BY StrippedType DEF DecodeTypeOK
  <2>2. DecodeTypeOK'
    BY <1>1, <2>1 DEF StripMetadata, DecodeTypeOK
  <2> QED BY <1>1, <2>2 DEF StripMetadata, SpiOpened, NothingYet, ReadsStayInside, Scanned
<1>2. CASE OpenSpi
  <2>1. BlobAt(data) \in Nat /\ BlobAt(data) <= Len(data)
    BY <1>2, SpiType DEF OpenSpi, DecodeTypeOK
  <2>2. SubSeq(data, BlobAt(data) + 1, Len(data)) \in Seq(Byte)
    BY <2>1, SliceType DEF DecodeTypeOK
  <2>3. DecodeTypeOK'
    BY <1>2, <2>2 DEF OpenSpi, Enter, DecodeTypeOK
  <2> QED BY <1>2, <2>3 DEF OpenSpi, Enter, SpiOpened, NothingYet, ReadsStayInside,
                            Scanned, DecodeTypeOK
<1>3. CASE NotSpi \/ BadHeader \/ BadEntry \/ BadSections
  BY <1>3, RejectSafe DEF NotSpi, BadHeader, BadEntry, BadSections
<1>4. CASE ReadHeader
  <2> DEFINE p == VarBytes(blob[1])
  <2>1. blob \in Seq(Byte) /\ HasVar(blob, 0) /\ p < Len(blob) /\ HasVar(blob, p + 1)
    BY <1>4 DEF ReadHeader, HeaderFits, DecodeTypeOK
  <2>2. p \in 1..5 /\ VarValue(blob, 0) \in Nat
    BY <2>1, VarType
  <2>3. /\ VarValue(blob, p + 1) \in Nat
        /\ VarBytes(blob[p + 2]) \in 1..5
        /\ p + 1 + VarBytes(blob[p + 2]) <= Len(blob)
    <3>1. (p + 1) + 1 = p + 2
      BY <2>2
    <3> QED BY <2>1, <2>2, <3>1, VarType
  <2>4. blob[p + 1] \in Byte
    BY <2>1, <2>2
  <2>5. position' \in Nat /\ position' <= Len(blob')
    BY <1>4, <2>2, <2>3 DEF ReadHeader
  <2>6. head' \in [table : Nat, item : Byte, code : Nat]
    BY <1>4, <2>2, <2>3, <2>4 DEF ReadHeader
  <2> HIDE DEF p
  <2>7. DecodeTypeOK'
    BY <1>4, <2>5, <2>6 DEF ReadHeader, DecodeTypeOK
  <2> QED BY <1>4, <2>5, <2>7 DEF ReadHeader, SpiOpened, NothingYet, ReadsStayInside, Scanned
<1>5. CASE ReadEntry
  <2>0. head.item \in Nat /\ position \in Nat /\ blob \in Seq(Byte)
    BY BytesAreNatural DEF DecodeTypeOK
  <2>1. head.item \in 0..4 /\ position + head.item <= Len(blob)
    <3>1. head.item <= 4 /\ Len(blob) - position >= head.item
      BY <1>5 DEF ReadEntry, EntryFits, Remaining
    <3>2. Len(blob) \in Nat
      BY <2>0
    <3> QED BY <2>0, <3>1, <3>2
  <2>2. LittleEndian(blob, position, head.item) \in Nat
    BY <2>0, <2>1, LittleEndianType
  <2>3. position' \in Nat /\ position' <= Len(blob')
    BY <1>5, <2>0, <2>1 DEF ReadEntry
  <2>4. jump_table' \in Seq(Nat)
    BY <1>5, <2>2 DEF ReadEntry, DecodeTypeOK
  <2>5. DecodeTypeOK'
    BY <1>5, <2>3, <2>4 DEF ReadEntry, DecodeTypeOK
  <2> QED BY <1>5, <2>3, <2>5 DEF ReadEntry, SpiOpened, NothingYet, ReadsStayInside, Scanned
<1>6. CASE ReadSections
  <2>1. head.code \in Nat /\ MaskBytes \in Nat /\ position \in Nat /\ blob \in Seq(Byte)
    BY DEF MaskBytes, DecodeTypeOK
  <2> DEFINE codeEnd == position + head.code
             maskEnd == position + head.code + MaskBytes
  <2>2. /\ codeEnd \in Nat /\ maskEnd \in Nat
        /\ position <= codeEnd /\ codeEnd <= maskEnd /\ maskEnd <= Len(blob)
        /\ codeEnd - position = head.code /\ maskEnd - codeEnd = MaskBytes
    <3>1. Len(blob) - position >= head.code + MaskBytes
      BY <1>6 DEF ReadSections, SectionsFit, Remaining
    <3>2. Len(blob) \in Nat
      BY <2>1
    <3>3. \A a, b, c, l \in Nat : l - a >= b + c =>
             /\ a + b \in Nat /\ a + b + c \in Nat
             /\ a <= a + b /\ a + b <= a + b + c /\ a + b + c <= l
             /\ (a + b) - a = b /\ (a + b + c) - (a + b) = c
      OBVIOUS
    <3> QED BY <2>1, <3>1, <3>2, <3>3
  <2>9. /\ code' = SubSeq(blob, position + 1, codeEnd)
        /\ mask' = SubSeq(blob, codeEnd + 1, maskEnd)
        /\ position' = codeEnd /\ blob' = blob
    BY <1>6 DEF ReadSections
  <2> HIDE DEF codeEnd, maskEnd
  <2>10. codeEnd <= Len(blob)
    <3>1. Len(blob) \in Nat
      BY <2>1
    <3> QED BY <2>2, <3>1
  <2>3. code' \in Seq(Byte) /\ Len(code') = head.code
    BY <2>1, <2>2, <2>9, <2>10, SliceType
  <2>4. mask' \in Seq(Byte) /\ Len(mask') = MaskBytes
    BY <2>1, <2>2, <2>9, SliceType
  <2>5. MaskBytes' = MaskBytes /\ head' = head /\ pc' = 0
    BY <1>6 DEF ReadSections, MaskBytes, NothingYet
  <2>6. position' \in Nat /\ position' <= Len(blob')
    BY <2>2, <2>9, <2>10
  <2>7. DecodeTypeOK'
    BY <1>6, <2>3, <2>4, <2>6 DEF ReadSections, DecodeTypeOK
  <2>8. ReadsStayInside'
    BY <2>1, <2>3, <2>4, <2>5, <2>6 DEF ReadsStayInside
  <2> QED BY <1>6, <2>7, <2>8 DEF ReadSections, SpiOpened, NothingYet
<1>7. CASE SkipByte
  <2>1. pc' \in Nat /\ pc' <= head.code
    BY <1>7 DEF SkipByte, Scanning, DecodeTypeOK
  <2>2. DecodeTypeOK'
    BY <1>7, <2>1 DEF SkipByte, DecodeTypeOK
  <2> QED BY <1>7, <2>1, <2>2 DEF SkipByte, Scanning, SpiOpened, NothingYet, ReadsStayInside,
                                  Scanned, MaskBytes
<1>8. CASE DecodeOne
  <2> DEFINE n == InstructionLength(mask, pc, head.code)
  <2>1. pc \in Nat /\ head.code \in Nat /\ pc < head.code /\ code \in Seq(Byte)
        /\ Len(code) = head.code
    BY <1>8 DEF DecodeOne, Scanning, ReadsStayInside, Scanned, DecodeTypeOK
  <2>2. n \in Nat \ {0} /\ pc + n <= head.code
    BY <2>1, LengthBounds
  <2>3. SubSeq(code, pc + 1, pc + n) \in Seq(Byte)
    BY <2>1, <2>2, SliceType
  <2> HIDE DEF n
  <2>4. instructions' = Append(instructions,
                               [pc |-> pc, bytes |-> SubSeq(code, pc + 1, pc + n)])
        /\ pc' = pc + n
    BY <1>8 DEF DecodeOne, n
  <2>5. [pc |-> pc, bytes |-> SubSeq(code, pc + 1, pc + n)] \in [pc : Nat, bytes : Seq(Byte)]
    BY <2>1, <2>3
  <2>6. instructions' \in Seq([pc : Nat, bytes : Seq(Byte)])
    BY <2>4, <2>5 DEF DecodeTypeOK
  <2>7. pc' \in Nat /\ pc' <= head.code
    BY <2>1, <2>2, <2>4
  <2>8. DecodeTypeOK'
    BY <1>8, <2>6, <2>7 DEF DecodeOne, DecodeTypeOK
  <2> QED BY <1>8, <2>7, <2>8 DEF DecodeOne, Scanning, SpiOpened, NothingYet,
                                  ReadsStayInside, Scanned, MaskBytes
<1>9. CASE Decoded
  <2>1. mode = "spi" => HeapStart(data) \in Nat
    BY <1>9, SpiType DEF Decoded, SpiOpened, DecodeTypeOK
  <2>2. DecodeTypeOK'
    BY <1>9, <2>1 DEF Decoded, DecodeTypeOK
  <2> QED BY <1>9, <2>2 DEF Decoded, SpiOpened, NothingYet, ReadsStayInside, Scanned, MaskBytes
<1>10. CASE Build
  <2>1. DecodeTypeOK'
    BY <1>10 DEF Build, DecodeTypeOK
  <2> QED BY <1>10, <2>1 DEF Build, SpiOpened, NothingYet, ReadsStayInside, Scanned, MaskBytes
<1>11. CASE UNCHANGED allVars
  BY <1>11 DEF allVars, decodeVars, DecodeTypeOK, SpiOpened, NothingYet, ReadsStayInside, Scanned, MaskBytes
<1> QED BY <1>1, <1>2, <1>3, <1>4, <1>5, <1>6, <1>7, <1>8, <1>9, <1>10, <1>11
        DEF CNext, Decode, DecodeNext

\* No slice of the decoder is taken past its end, for any file.
THEOREM ReadsSafe == CSpec => []ReadsStayInside
<1>1. Safe => ReadsStayInside
  BY DEF Safe
<1> QED BY InitSafe, StepSafe, <1>1, PTL DEF CSpec

-----------------------------------------------------------------------------
(* Every marked position is decoded once *)

\* The positions decoded so far, in order.
DecodedPcs == {instructions[i].pc : i \in DOMAIN instructions}

InOrder ==
    \A i, j \in DOMAIN instructions : i < j => instructions[i].pc < instructions[j].pc

\* Every step of the scan decodes exactly the marks it passes.
LEMMA StepOnce == Safe /\ StartsDecodedOnce /\ [CNext]_allVars => StartsDecodedOnce'
<1> SUFFICES ASSUME Safe, StartsDecodedOnce, [CNext]_allVars PROVE StartsDecodedOnce'
  OBVIOUS
<1>1. CASE StripMetadata \/ OpenSpi \/ ReadHeader \/ ReadEntry
  BY <1>1 DEF StripMetadata, OpenSpi, Enter, ReadHeader, ReadEntry, StartsDecodedOnce, Scanned
<1>2. CASE NotSpi \/ BadHeader \/ BadEntry \/ BadSections
  BY <1>2 DEF NotSpi, BadHeader, BadEntry, BadSections, Reject, Enter, StartsDecodedOnce, Scanned
<1>3. CASE ReadSections
  <2>1. pc' = 0 /\ instructions' = <<>>
    BY <1>3 DEF ReadSections, Safe, NothingYet
  <2> QED BY <2>1 DEF StartsDecodedOnce
<1>4. CASE SkipByte
  <2>1. pc \in Nat /\ ~IsStart(mask, pc) /\ pc' = pc + 1 /\ mask' = mask
        /\ instructions' = instructions /\ Scanned
    BY <1>4 DEF SkipByte, Scanning, Scanned, Safe, DecodeTypeOK
  <2>2. 0..pc'-1 = (0..pc-1) \cup {pc}
    BY <2>1
  <2> QED BY <2>1, <2>2 DEF StartsDecodedOnce, IsStart
<1>5. CASE DecodeOne
  <2> DEFINE n == InstructionLength(mask, pc, head.code)
             new == [pc |-> pc, bytes |-> SubSeq(code, pc + 1, pc + n)]
  <2>1. /\ pc \in Nat /\ head.code \in Nat /\ pc < head.code
        /\ IsStart(mask, pc) /\ mask' = mask /\ Scanned
        /\ instructions \in Seq([pc : Nat, bytes : Seq(Byte)])
    BY <1>5 DEF DecodeOne, Scanning, Scanned, Safe, DecodeTypeOK
  <2>2. n \in Nat \ {0} /\ \A q \in pc+1..pc+n-1 : ~IsStart(mask, q)
    BY <2>1, LengthBounds
  <2>3. instructions' = Append(instructions, new) /\ pc' = pc + n
    BY <1>5 DEF DecodeOne
  <2>4. new.pc = pc
    OBVIOUS
  <2> HIDE DEF n, new
  <2>5. {p \in 0..pc'-1 : IsStart(mask, p)} = {p \in 0..pc-1 : IsStart(mask, p)} \cup {pc}
    <3>1. 0..pc'-1 = (0..pc-1) \cup {pc} \cup (pc+1..pc+n-1)
      BY <2>1, <2>2, <2>3
    <3> QED BY <2>1, <2>2, <3>1
  <2>6. /\ Len(instructions') = Len(instructions) + 1
        /\ DOMAIN instructions' = DOMAIN instructions \cup {Len(instructions) + 1}
        /\ \A i \in DOMAIN instructions : instructions'[i] = instructions[i]
        /\ instructions'[Len(instructions) + 1] = new
    BY <2>1, <2>3
  <2>7. DecodedPcs' = DecodedPcs \cup {pc}
    BY <2>4, <2>6 DEF DecodedPcs
  <2>8. DecodedPcs = {p \in 0..pc-1 : IsStart(mask, p)} /\ InOrder
    BY <2>1 DEF StartsDecodedOnce, DecodedPcs, InOrder
  <2>9. InOrder'
    <3> SUFFICES ASSUME NEW i \in DOMAIN instructions', NEW j \in DOMAIN instructions', i < j
                 PROVE  instructions'[i].pc < instructions'[j].pc
      BY DEF InOrder
    <3>1. DOMAIN instructions = 1..Len(instructions) /\ Len(instructions) \in Nat
      BY <2>1
    <3>2. i \in DOMAIN instructions
      BY <2>6, <3>1
    <3>3. CASE j \in DOMAIN instructions
      BY <2>6, <2>8, <3>2, <3>3 DEF InOrder
    <3>4. CASE j = Len(instructions) + 1
      <4>1. instructions[i].pc \in 0..pc-1
        BY <2>8, <3>2 DEF DecodedPcs
      <4> QED BY <2>1, <2>4, <2>6, <3>2, <3>4, <4>1
    <3> QED BY <2>6, <3>3, <3>4
  <2>10. DecodedPcs' = {p \in 0..pc'-1 : IsStart(mask, p)}
    BY <2>5, <2>7, <2>8
  <2> QED BY <2>1, <2>9, <2>10 DEF StartsDecodedOnce, DecodedPcs, InOrder, IsStart
<1>6. CASE Decoded \/ Build
  BY <1>6 DEF Decoded, Build, StartsDecodedOnce, Scanned, IsStart
<1>7. CASE UNCHANGED allVars
  BY <1>7 DEF allVars, decodeVars, StartsDecodedOnce, Scanned, IsStart
<1> QED BY <1>1, <1>2, <1>3, <1>4, <1>5, <1>6, <1>7 DEF CNext, Decode, DecodeNext

\* The instructions decoded are those the mask marks, each once and in order,
\* also after a failed attempt as an SPI container.
THEOREM DecodedOnce == CSpec => []StartsDecodedOnce
<1>1. CInit => StartsDecodedOnce
  BY DEF CInit, DecodeInit, Start, StartsDecodedOnce, Scanned
<1> QED BY InitSafe, StepSafe, StepOnce, <1>1, PTL DEF CSpec

-----------------------------------------------------------------------------
(* The graph has the steps of the machine *)

\* Least of a set of naturals.
LEMMA LeastIs ==
    ASSUME NEW S, S \subseteq Nat, S # {}
    PROVE  Least(S) \in S /\ \A y \in S : Least(S) <= y
BY LeastNatural DEF Least

\* Greatest of a bounded set of naturals.
LEMMA GreatestIs ==
    ASSUME NEW S, S \subseteq Nat, S # {}, NEW n \in Nat, \A x \in S : x <= n
    PROVE  Greatest(S) \in S /\ \A y \in S : y <= Greatest(S)
<1> DEFINE T == {n - x : x \in S}
<1>1. T \subseteq Nat /\ T # {}
  <2>1. \A x \in S : n - x \in Nat
    OBVIOUS
  <2> QED BY <2>1
<1>2. PICK t \in T : \A u \in T : t <= u
  BY <1>1, LeastNatural
<1>3. PICK x \in S : t = n - x
  OBVIOUS
<1>4. ASSUME NEW y \in S PROVE x >= y
  <2>1. n - x <= n - y /\ x \in Nat /\ y \in Nat
    BY <1>2, <1>3
  <2> QED BY <2>1
<1>5. \A y \in S : Greatest(S) >= y /\ Greatest(S) \in S
  BY <1>4 DEF Greatest
<1> QED BY <1>5

\* A branch ends its block, and a conditional branch has a target.
LEMMA BranchKinds ==
    ASSUME NEW d
    PROVE  /\ HasBranchOffset(d) => IsTerminator(d) /\ IsKnown(d)
           /\ IsConditionalBranch(d) => HasBranchOffset(d)
BY DEF HasBranchOffset, IsTerminator, IsConditionalBranch, IsIn

\* The immediate at the end of an instruction is a number.
LEMMA ImmType ==
    ASSUME NEW d \in Seq(Byte), NEW p \in Nat \ {0}, p <= Len(d)
    PROVE  DecodeImm(d, p) \in Int
<1> DEFINE n == IF Len(d) - p <= 4 THEN Len(d) - p ELSE 4
           last == d[p + n]
           scale == CASE n = 1 -> 1 [] n = 2 -> 256 [] n = 3 -> 65536 [] OTHER -> 16777216
<1>1. Len(d) \in Nat /\ n \in 0..4 /\ p + n <= Len(d)
  BY LenProperties
<1>2. p + n \in 1..Len(d)
  BY <1>1
<1>3. last \in Int
  <2>1. d[p + n] \in Byte
    BY <1>2, ElementOfSeq
  <2> QED BY <2>1, BytesAreNatural
<1>4. scale \in Nat
  OBVIOUS
<1> HIDE DEF scale, last
<1>5. CASE n = 0
  BY <1>5 DEF DecodeImm
<1>6. CASE n # 0
  <2>1. n - 1 \in 0..4 /\ p + (n - 1) <= Len(d)
    BY <1>1, <1>6
  <2>2. LittleEndian(d, p, n - 1) \in Nat
    BY <2>1, LittleEndianType
  <2>3. (IF last >= 128 THEN last - 256 ELSE last) * scale \in Int
    BY <1>3, <1>4
  <2>4. DecodeImm(d, p) =
          LittleEndian(d, p, n - 1) + (IF last >= 128 THEN last - 256 ELSE last) * scale
    BY <1>6 DEF DecodeImm, last, scale
  <2> QED BY <2>2, <2>3, <2>4
<1> QED BY <1>5, <1>6

\* The fields of an operand byte are numbers.
LEMMA FieldType ==
    ASSUME NEW b \in Byte
    PROVE  Lo(b) \in Nat /\ Hi(b) \in Nat
<1>1. b \in Nat
  BY BytesAreNatural
<1> HIDE DEF Byte
<1> QED BY <1>1 DEF Lo, Hi

\* An instruction with a first immediate has the operand byte that sizes it.
LEMMA FixedIs ==
    ASSUME NEW op
    PROVE  /\ op \in BranchImm \cup LoadImmJump \cup StoreImmInd => FixedBytes(op) = 2
           /\ op \in StoreImm => FixedBytes(op) = 2
           /\ op \in LoadImmJumpInd => FixedBytes(op) = 3
BY DEF FixedBytes, BranchImm, LoadImmJump, StoreImmInd, StoreImm, ThreeReg, CmovReg,
       LoadImmJumpInd, LoadImm64, Trap, Fallthrough, Ecalli, Jump

\* The offset of a branch is a number.
LEMMA OffsetType ==
    ASSUME NEW d \in Seq(Byte), IsKnown(d)
    PROVE  BranchOffset(d) \in Int
<1> DEFINE p == FixedBytes(d[1]) + FirstImmBytes(d)
<1>1. Len(d) \in Nat /\ FixedBytes(d[1]) \in Nat \ {0} /\ FixedBytes(d[1]) <= Len(d)
  BY LenProperties DEF IsKnown, FixedBytes
<1>2. FirstImmBytes(d) \in Nat
  <2>1. \A k \in 1..Len(d) : Lo(d[k]) \in Nat /\ Hi(d[k]) \in Nat
    BY ElementOfSeq, FieldType
  <2>2. ASSUME d[1] \in BranchImm \cup LoadImmJump \cup StoreImmInd
        PROVE  Hi(d[2]) \in Nat
    <3>1. FixedBytes(d[1]) = 2
      BY <2>2, FixedIs
    <3> QED BY <1>1, <2>1, <3>1
  <2>3. ASSUME d[1] \in StoreImm PROVE Lo(d[2]) \in Nat
    <3>1. FixedBytes(d[1]) = 2
      BY <2>3, FixedIs
    <3> QED BY <1>1, <2>1, <3>1
  <2>4. ASSUME d[1] \in LoadImmJumpInd PROVE Lo(d[3]) \in Nat
    <3>1. FixedBytes(d[1]) = 3
      BY <2>4, FixedIs
    <3> QED BY <1>1, <2>1, <3>1
  <2> QED BY <2>2, <2>3, <2>4 DEF FirstImmBytes
<1>3. p \in Nat \ {0} /\ p <= Len(d)
  BY <1>1, <1>2 DEF IsKnown
<1> HIDE DEF p
<1>4. DecodeImm(d, p) \in Int
  BY <1>3, ImmType
<1> QED BY <1>4 DEF BranchOffset, p


\* What the scan leaves behind, and the leaders found in it: instructions at
\* increasing positions within the code, and among the leaders the start, the
\* targets of branches and what follows an instruction that ends a block.
LaidOut ==
    /\ Len(instructions) \in Nat
    /\ Indices = 1..Len(instructions)
    /\ head.code \in Nat
    /\ \A i \in Indices : PcAt(i) \in Nat /\ PcAt(i) < head.code
    /\ \A i, j \in Indices : i < j <=> PcAt(i) < PcAt(j)
    /\ Leaders \subseteq Nat
    /\ 0 \in Leaders
    /\ \A i \in Indices :
          HasBranchOffset(BytesAt(i)) => /\ BranchOffset(BytesAt(i)) \in Int
                                         /\ TargetOf(i) \in Leaders
    /\ \A i \in Indices :
          i + 1 \in Indices /\ IsTerminator(BytesAt(i)) => PcAt(i + 1) \in Leaders

\* Decoding leaves the instructions laid out.
LEMMA DecodedIsLaidOut ==
    ASSUME DecodeTypeOK, ReadsStayInside, StartsDecodedOnce, Scanned
    PROVE  LaidOut
<1> DEFINE Ins == [pc : Nat, bytes : Seq(Byte)]
<1>1. instructions \in Seq(Ins)
  BY DEF DecodeTypeOK
<1> HIDE DEF Ins
<1>2. /\ Len(instructions) \in Nat /\ Indices = 1..Len(instructions)
      /\ \A i \in Indices : instructions[i] \in Ins
  BY <1>1, LenProperties, ElementOfSeq DEF Indices
<1>3. \A i \in Indices : PcAt(i) \in Nat /\ BytesAt(i) \in Seq(Byte)
  BY <1>2 DEF PcAt, BytesAt, Ins
<1>4. head.code \in Nat /\ pc \in Nat /\ pc <= head.code
  BY DEF DecodeTypeOK, ReadsStayInside
<1>5. ASSUME NEW i \in Indices PROVE PcAt(i) < head.code
  <2>1. PcAt(i) \in {p \in 0..pc-1 : IsStart(mask, p)}
    BY DEF StartsDecodedOnce, PcAt, Indices
  <2> QED BY <1>4, <2>1
<1>6. ASSUME NEW i \in Indices, NEW j \in Indices PROVE i < j <=> PcAt(i) < PcAt(j)
  <2>1. (i < j => PcAt(i) < PcAt(j)) /\ (j < i => PcAt(j) < PcAt(i))
    BY DEF StartsDecodedOnce, PcAt, Indices
  <2>2. i \in Int /\ j \in Int /\ PcAt(i) \in Nat /\ PcAt(j) \in Nat
    BY <1>2, <1>3
  <2> QED BY <2>1, <2>2
<1>7. ASSUME NEW i \in Indices, HasBranchOffset(BytesAt(i))
      PROVE  /\ BranchOffset(BytesAt(i)) \in Int
             /\ TargetOf(i) \in Nat
             /\ TargetOf(i) \in Leaders
  <2>1. BranchOffset(BytesAt(i)) \in Int
    BY <1>3, <1>7, BranchKinds, OffsetType
  <2>2. TargetOf(i) \in Nat
    BY <1>3, <2>1 DEF TargetOf, JumpTarget
  <2> QED BY <1>7, <2>1, <2>2 DEF Leaders
<1>8. Leaders \subseteq Nat
  BY <1>3, <1>7 DEF Leaders
<1>9. 0 \in Leaders
  BY DEF Leaders
<1>10. \A i \in Indices :
          i + 1 \in Indices /\ IsTerminator(BytesAt(i)) => PcAt(i + 1) \in Leaders
  BY DEF Leaders
<1> QED BY <1>2, <1>3, <1>4, <1>5, <1>6, <1>7, <1>8, <1>9, <1>10 DEF LaidOut

\* A block ends at the next leader, or with the code.
LEMMA EndIs ==
    ASSUME LaidOut, NEW l \in Leaders
    PROVE  /\ BlockEnd(Leaders, l) \in Nat
           /\ \A k \in Leaders : k > l => BlockEnd(Leaders, l) <= k
           /\ \A i \in Indices : (\A k \in Leaders : k > l => PcAt(i) < k)
                                    => PcAt(i) < BlockEnd(Leaders, l)
<1> DEFINE later == {k \in Leaders : k > l}
<1>1. BlockEnd(Leaders, l) = IF later = {} THEN head.code ELSE Least(later)
  BY DEF BlockEnd
<1>2. CASE later = {}
  BY <1>1, <1>2 DEF LaidOut
<1>3. CASE later # {}
  <2>1. later \subseteq Nat
    BY DEF LaidOut
  <2>2. Least(later) \in later /\ \A y \in later : Least(later) <= y
    <3> HIDE DEF later
    <3> QED BY <1>3, <2>1, LeastIs
  <2>3. BlockEnd(Leaders, l) = Least(later)
    BY <1>1, <1>3
  <2> QED BY <2>1, <2>2, <2>3
<1> QED BY <1>2, <1>3

\* The members of a body.
LEMMA BodyIs ==
    ASSUME LaidOut, NEW l \in Leaders, NEW i \in BodyOf(Leaders, l)
    PROVE  i \in Indices /\ l <= PcAt(i) /\ PcAt(i) < BlockEnd(Leaders, l)
BY DEF BodyOf

\* Bodies lie in the order of their leaders.
LEMMA BodiesApart ==
    ASSUME LaidOut, NEW b \in Leaders, NEW c \in Leaders,
           NEW i \in BodyOf(Leaders, b), NEW j \in BodyOf(Leaders, c)
    PROVE  b < c => i < j
<1> SUFFICES ASSUME b < c PROVE i < j
  OBVIOUS
<1>1. /\ i \in Indices /\ j \in Indices
      /\ PcAt(i) < BlockEnd(Leaders, b) /\ c <= PcAt(j)
  BY BodyIs
<1>2. BlockEnd(Leaders, b) \in Nat /\ BlockEnd(Leaders, b) <= c
  <2>1. c > b
    BY DEF LaidOut
  <2> QED BY <2>1, EndIs
<1>3. PcAt(i) \in Nat /\ PcAt(j) \in Nat /\ c \in Nat
  BY <1>1 DEF LaidOut
<1>4. PcAt(i) < PcAt(j)
  BY <1>1, <1>2, <1>3
<1> QED BY <1>1, <1>4 DEF LaidOut

\* Every instruction is in a block.
LEMMA InABlock ==
    ASSUME LaidOut, NEW i \in Indices
    PROVE  \E b \in BlocksOf(Leaders) : b \in Leaders /\ i \in BodyOf(Leaders, b)
<1> DEFINE S == {l \in Leaders : l <= PcAt(i)}
           b == Greatest(S)
<1>1. PcAt(i) \in Nat /\ S \subseteq Nat /\ 0 \in S /\ \A x \in S : x <= PcAt(i)
  <2>1. PcAt(i) \in Nat /\ Leaders \subseteq Nat /\ 0 \in Leaders
    BY DEF LaidOut
  <2>2. 0 <= PcAt(i)
    BY <2>1
  <2> QED BY <2>1, <2>2
<1> HIDE DEF S
<1>2. b \in S /\ \A y \in S : y <= b
  BY <1>1, GreatestIs
<1> HIDE DEF b
<1>3. b \in Leaders /\ b <= PcAt(i) /\ b \in Nat
  BY <1>1, <1>2 DEF S
<1>4. ASSUME NEW k \in Leaders, k > b PROVE PcAt(i) < k
  <2>1. k \in Nat
    BY DEF LaidOut
  <2>2. k \notin S
    BY <1>2, <1>3, <1>4, <2>1
  <2> QED BY <1>1, <2>1, <2>2 DEF S
<1>5. PcAt(i) < BlockEnd(Leaders, b)
  BY <1>3, <1>4, EndIs
<1>6. i \in BodyOf(Leaders, b)
  BY <1>3, <1>5 DEF BodyOf
<1> QED BY <1>3, <1>6 DEF BlocksOf

\* An instruction at a leader starts a block.
LEMMA LeaderStarts ==
    ASSUME LaidOut, NEW j \in Indices, PcAt(j) \in Leaders
    PROVE  /\ PcAt(j) \in BlocksOf(Leaders)
           /\ j \in BodyOf(Leaders, PcAt(j))
           /\ \A x \in BodyOf(Leaders, PcAt(j)) : j <= x
<1>1. PcAt(j) \in Nat /\ PcAt(j) <= PcAt(j)
  BY DEF LaidOut
<1>2. PcAt(j) < BlockEnd(Leaders, PcAt(j))
  BY EndIs
<1>3. j \in BodyOf(Leaders, PcAt(j))
  BY <1>1, <1>2 DEF BodyOf
<1>4. ASSUME NEW x \in BodyOf(Leaders, PcAt(j)) PROVE j <= x
  <2>1. x \in Indices /\ PcAt(j) <= PcAt(x)
    BY BodyIs
  <2>2. ~(x < j)
    BY <1>1, <2>1 DEF LaidOut
  <2>3. x \in Int /\ j \in Int
    BY <2>1 DEF LaidOut
  <2> QED BY <2>2, <2>3
<1> QED BY <1>3, <1>4 DEF BlocksOf

\* Nothing follows an instruction that ends its block within the block.
LEMMA TerminatorEnds ==
    ASSUME LaidOut, NEW b \in Leaders, NEW i \in BodyOf(Leaders, b),
           IsTerminator(BytesAt(i)), NEW x \in BodyOf(Leaders, b)
    PROVE  x <= i
<1>1. /\ i \in Indices /\ x \in Indices /\ i \in Int /\ x \in Int
      /\ b <= PcAt(i) /\ PcAt(x) < BlockEnd(Leaders, b)
      /\ Indices = 1..Len(instructions) /\ Len(instructions) \in Nat
  BY BodyIs DEF LaidOut
<1> SUFFICES ASSUME i < x PROVE FALSE
  BY <1>1
<1>2. i + 1 \in Indices /\ i < i + 1 /\ i + 1 <= x
  BY <1>1
<1>3. /\ PcAt(i + 1) \in Leaders /\ PcAt(i) < PcAt(i + 1)
      /\ PcAt(i) \in Nat /\ PcAt(i + 1) \in Nat /\ PcAt(x) \in Nat
  BY <1>1, <1>2 DEF LaidOut
<1>4. PcAt(i + 1) > b /\ b \in Nat
  BY <1>1, <1>3 DEF LaidOut
<1>5. BlockEnd(Leaders, b) <= PcAt(i + 1) /\ BlockEnd(Leaders, b) \in Nat
  BY <1>3, <1>4, EndIs
<1>6. ~(PcAt(x) < PcAt(i + 1))
  BY <1>1, <1>2 DEF LaidOut
<1> QED BY <1>1, <1>3, <1>5, <1>6


\* Greatest and Least of a body.
LEMMA BodyEnds ==
    ASSUME LaidOut, NEW b \in BlocksOf(Leaders)
    PROVE  LET B == BodyOf(Leaders, b)
           IN  /\ b \in Leaders
               /\ Greatest(B) \in B /\ \A y \in B : y <= Greatest(B)
               /\ Least(B) \in B /\ \A y \in B : Least(B) <= y
<1> DEFINE B == BodyOf(Leaders, b)
<1>1. b \in Leaders /\ B # {}
  BY DEF BlocksOf
<1>2. B \subseteq Indices
  BY DEF BodyOf
<1>3. Len(instructions) \in Nat /\ B \subseteq Nat /\ \A x \in B : x <= Len(instructions)
  BY <1>2 DEF LaidOut
<1> HIDE DEF B
<1>4. Greatest(B) \in B /\ \A y \in B : y <= Greatest(B)
  BY <1>1, <1>3, GreatestIs
<1>5. Least(B) \in B /\ \A y \in B : Least(B) <= y
  BY <1>1, <1>3, LeastIs
<1> QED BY <1>1, <1>4, <1>5 DEF B

\* The bounds of a body are its greatest and least members.
LEMMA BoundsAre ==
    ASSUME LaidOut, NEW b \in BlocksOf(Leaders), NEW i \in BodyOf(Leaders, b)
    PROVE  /\ (\A x \in BodyOf(Leaders, b) : x <= i) => Greatest(BodyOf(Leaders, b)) = i
           /\ (\A x \in BodyOf(Leaders, b) : i <= x) => Least(BodyOf(Leaders, b)) = i
<1> DEFINE B == BodyOf(Leaders, b)
<1>1. B \subseteq Int
  BY DEF BodyOf, LaidOut
<1>2. /\ Greatest(B) \in B /\ \A y \in B : y <= Greatest(B)
      /\ Least(B) \in B /\ \A y \in B : Least(B) <= y
  BY BodyEnds
<1> HIDE DEF B
<1>3. i \in B
  BY DEF B
<1>4. i \in Int /\ Greatest(B) \in Int /\ Least(B) \in Int
  BY <1>1, <1>2, <1>3
<1>5. (\A x \in B : x <= i) => Greatest(B) = i
  BY <1>2, <1>3, <1>4
<1>6. (\A x \in B : i <= x) => Least(B) = i
  BY <1>2, <1>3, <1>4
<1> QED BY <1>5, <1>6 DEF B

\* The last instruction of a block and the first of the next one are adjacent.
LEMMA NextBlockIs ==
    ASSUME LaidOut, NEW b \in BlocksOf(Leaders), NEW i, i = Greatest(BodyOf(Leaders, b))
    PROVE  /\ i + 1 \in Indices =>
                 \A c \in BlocksOf(Leaders) :
                    i + 1 \in BodyOf(Leaders, c) =>
                       NextBlock(BlocksOf(Leaders), b) = <<c>>
           /\ \A k \in DOMAIN NextBlock(BlocksOf(Leaders), b) :
                 LET c == NextBlock(BlocksOf(Leaders), b)[k]
                 IN  /\ c \in BlocksOf(Leaders)
                     /\ Least(BodyOf(Leaders, c)) = i + 1
<1> DEFINE blocks == BlocksOf(Leaders)
           later == {k \in blocks : k > b}
           first == Least(later)
           Body(c) == BodyOf(Leaders, c)
<1>1. blocks \subseteq Leaders /\ blocks \subseteq Nat /\ later \subseteq Nat
  BY DEF BlocksOf, LaidOut
<1>2. /\ i \in Body(b) /\ \A y \in Body(b) : y <= i
  BY BodyEnds
<1>3. /\ Indices = 1..Len(instructions) /\ Len(instructions) \in Nat
      /\ \A c \in blocks : Body(c) \subseteq Indices
      /\ i \in Indices /\ i \in Int
  <2>1. \A c \in blocks : Body(c) \subseteq Indices
    BY DEF BodyOf
  <2> QED BY <1>2, <2>1 DEF LaidOut
<1>4. NextBlock(blocks, b) = IF later = {} THEN <<>> ELSE <<first>>
  BY DEF NextBlock
<1>5. later # {} => first \in later /\ \A y \in later : first <= y
  <2> HIDE DEF later
  <2> QED BY <1>1, LeastIs
<1>6. \A c \in blocks, d \in blocks : \A x \in Body(c), y \in Body(d) : c < d => x < y
  BY <1>1, BodiesApart
<1>7. \A c \in blocks : Body(c) # {}
  BY DEF BlocksOf
<1> HIDE DEF blocks, Body, first
<1>8. ASSUME i + 1 \in Indices, NEW c \in blocks, i + 1 \in Body(c)
      PROVE  NextBlock(blocks, b) = <<c>>
  <2>0. b \in blocks /\ b \in Nat /\ c \in Nat
    BY <1>1 DEF blocks
  <2>1. c > b
    <3>1. c # b
      <4> SUFFICES ASSUME c = b PROVE FALSE
        OBVIOUS
      <4>1. i + 1 <= i
        BY <1>2, <1>8
      <4> QED BY <1>3, <4>1
    <3>2. ~(c < b)
      <4> SUFFICES ASSUME c < b PROVE FALSE
        OBVIOUS
      <4>1. i + 1 < i
        BY <1>2, <1>6, <1>8, <2>0
      <4> QED BY <1>3, <4>1
    <3> QED BY <2>0, <3>1, <3>2
  <2>2. c \in later /\ first \in later /\ first <= c
    BY <1>5, <1>8, <2>1
  <2>3. ~(first < c)
    <3> SUFFICES ASSUME first < c PROVE FALSE
      OBVIOUS
    <3>1. first \in blocks /\ b < first /\ first \in Nat
      BY <1>1, <2>0, <2>2
    <3>2. PICK x \in Body(first) : TRUE
      BY <1>7, <3>1
    <3>3. i < x /\ x < i + 1 /\ x \in Int
      BY <1>2, <1>3, <1>6, <1>8, <2>0, <3>1, <3>2
    <3> QED BY <1>3, <3>3
  <2>4. first = c
    BY <1>1, <2>0, <2>2, <2>3
  <2> QED BY <1>4, <2>2, <2>4
<1>9. ASSUME NEW k \in DOMAIN NextBlock(blocks, b)
      PROVE  /\ NextBlock(blocks, b)[k] \in blocks
             /\ Least(Body(NextBlock(blocks, b)[k])) = i + 1
  <2>1. later # {} /\ NextBlock(blocks, b)[k] = first
    BY <1>4
  <2>2. first \in blocks /\ first > b /\ \A y \in later : first <= y
    BY <1>5, <2>1
  <2>3. b \in blocks /\ b \in Nat /\ first \in Nat
    BY <1>1, <2>2 DEF blocks
  <2> DEFINE j == Least(Body(first))
  <2>4. j \in Body(first) /\ \A y \in Body(first) : j <= y
    BY <2>2, BodyEnds DEF blocks, Body
  <2> HIDE DEF j
  <2>5. i < j /\ j \in Indices /\ j \in Int
    BY <1>2, <1>3, <1>6, <2>2, <2>3, <2>4
  <2>6. ~(i + 1 < j)
    <3> SUFFICES ASSUME i + 1 < j PROVE FALSE
      OBVIOUS
    <3>1. i + 1 \in Indices
      BY <1>3, <2>5
    <3>2. PICK m \in blocks : i + 1 \in Body(m)
      BY <3>1, InABlock DEF blocks, Body
    <3>3. m \in Nat
      BY <1>1
    <3>4. m # b
      <4> SUFFICES ASSUME m = b PROVE FALSE
        OBVIOUS
      <4>1. i + 1 <= i
        BY <1>2, <3>2
      <4> QED BY <1>3, <4>1
    <3>5. ~(m < b)
      <4> SUFFICES ASSUME m < b PROVE FALSE
        OBVIOUS
      <4>1. i + 1 < i
        BY <1>2, <1>6, <2>3, <3>2
      <4> QED BY <1>3, <4>1
    <3>6. m \in later /\ first <= m
      BY <2>2, <2>3, <3>3, <3>4, <3>5
    <3>7. m # first
      <4> SUFFICES ASSUME m = first PROVE FALSE
        OBVIOUS
      <4>1. j <= i + 1
        BY <2>4, <3>2
      <4> QED BY <1>3, <2>5, <4>1
    <3>8. first < m
      BY <2>3, <3>3, <3>6, <3>7
    <3>9. j < i + 1
      BY <1>6, <2>2, <2>4, <3>2, <3>8
    <3> QED BY <1>3, <2>5, <3>9
  <2>7. j = i + 1
    BY <1>3, <2>5, <2>6
  <2> QED BY <2>1, <2>2, <2>7 DEF j
<1> QED BY <1>8, <1>9 DEF blocks, Body


\* The edges out of a block, by its last instruction.
LEMMA EdgesAre ==
    ASSUME LaidOut, NEW b \in BlocksOf(Leaders), NEW i \in Indices
    PROVE  Range(Successors(BlocksOf(Leaders), b, i)) =
              {c \in {TargetOf(i)} : HasBranchOffset(BytesAt(i)) /\ c \in BlocksOf(Leaders)}
                \cup {c \in Range(NextBlock(BlocksOf(Leaders), b)) :
                        IsTerminator(BytesAt(i)) => IsConditionalBranch(BytesAt(i))}
<1> DEFINE blocks == BlocksOf(Leaders)
           next == NextBlock(blocks, b)
           jump == IF TargetOf(i) \in blocks THEN <<TargetOf(i)>> ELSE <<>>
           fall == IF IsConditionalBranch(BytesAt(i)) THEN next ELSE <<>>
           later == {k \in blocks : k > b}
           Has == HasBranchOffset(BytesAt(i))
           Ends == IsTerminator(BytesAt(i))
           Cond == IsConditionalBranch(BytesAt(i))
<1>1. (Has => Ends) /\ (Cond => Has)
  BY BranchKinds
<1>2. next \in Seq(blocks)
  <2>1. later \subseteq Nat
    BY DEF BlocksOf, LaidOut
  <2>2. later # {} => Least(later) \in later
    <3> HIDE DEF later
    <3> QED BY <2>1, LeastIs
  <2>3. next = IF later = {} THEN <<>> ELSE <<Least(later)>>
    BY DEF NextBlock
  <2>4. later # {} => Least(later) \in blocks
    BY <2>2
  <2> HIDE DEF later, next, blocks
  <2> QED BY <2>3, <2>4, EmptySeq
<1>3. Range(<<>>) = {}
  BY DEF Range
<1>4. Range(<<TargetOf(i)>>) = {TargetOf(i)}
  BY DEF Range
<1>5. Successors(blocks, b, i) =
          IF Has THEN jump \o fall ELSE IF Ends THEN <<>> ELSE next
  BY DEF Successors
<1> HIDE DEF blocks, next, Has, Ends, Cond
<1>6. /\ jump \in Seq(blocks) /\ fall \in Seq(blocks)
      /\ Range(jump) = {c \in {TargetOf(i)} : c \in blocks}
      /\ Range(fall) = {c \in Range(next) : Cond}
  <2>1. jump \in Seq(blocks) /\ fall \in Seq(blocks)
    BY <1>2, EmptySeq
  <2>2. Range(jump) = {c \in {TargetOf(i)} : c \in blocks}
    BY <1>3, <1>4
  <2>3. Range(fall) = {c \in Range(next) : Cond}
    BY <1>3 DEF Cond
  <2> QED BY <2>1, <2>2, <2>3
<1> HIDE DEF jump, fall
<1>7. Range(jump \o fall) = Range(jump) \cup Range(fall)
  BY <1>6, ConcatRange
<1>8. CASE Has
  <2>1. Range(Successors(blocks, b, i)) = Range(jump) \cup Range(fall)
    BY <1>5, <1>7, <1>8
  <2>2. Range(Successors(blocks, b, i)) =
            {c \in {TargetOf(i)} : Has /\ c \in blocks} \cup {c \in Range(next) : Ends => Cond}
    BY <1>1, <1>6, <1>8, <2>1
  <2> QED BY <2>2 DEF blocks, next, Has, Ends, Cond
<1>9. CASE ~Has
  <2>1. Range(Successors(blocks, b, i)) = {c \in Range(next) : ~Ends}
    BY <1>3, <1>5, <1>9
  <2>2. Range(Successors(blocks, b, i)) =
            {c \in {TargetOf(i)} : Has /\ c \in blocks} \cup {c \in Range(next) : Ends => Cond}
    BY <1>1, <1>9, <2>1
  <2> QED BY <2>2 DEF blocks, next, Has, Ends, Cond
<1> QED BY <1>8, <1>9

\* The parts of the graph.
LEMMA GraphParts ==
    ASSUME cfg = Graph
    PROVE  /\ cfg.blocks = BlocksOf(Leaders)
           /\ \A b \in BlocksOf(Leaders) :
                 /\ cfg.body[b] = BodyOf(Leaders, b)
                 /\ cfg.succ[b] = Successors(BlocksOf(Leaders), b, Greatest(BodyOf(Leaders, b)))
BY DEF Graph

\* No step of the machine leaves the graph.
LEMMA StepsInGraph ==
    ASSUME LaidOut, cfg = Graph, NEW i \in Indices, NEW j \in Indices, Follows(i, j)
    PROVE  \E b, c \in cfg.blocks :
              /\ i \in cfg.body[b] /\ j \in cfg.body[c]
              /\ \/ b = c /\ j = i + 1
                 \/ /\ \E k \in DOMAIN cfg.succ[b] : cfg.succ[b][k] = c
                    /\ \A x \in cfg.body[b] : x <= i
                    /\ \A x \in cfg.body[c] : j <= x
<1> DEFINE blocks == BlocksOf(Leaders)
           Body(c) == BodyOf(Leaders, c)
<1>0. i \in Int /\ j \in Int /\ blocks \subseteq Leaders /\ blocks \subseteq Nat
      /\ \A c \in blocks : Body(c) \subseteq Indices
  <2>1. i \in Int /\ j \in Int
    BY DEF LaidOut
  <2>2. blocks \subseteq Leaders /\ blocks \subseteq Nat
    BY DEF LaidOut, BlocksOf
  <2>3. \A c \in blocks : Body(c) \subseteq Indices
    BY DEF BodyOf
  <2> QED BY <2>1, <2>2, <2>3
<1>1. /\ cfg.blocks = blocks
      /\ \A b \in blocks : /\ cfg.body[b] = Body(b)
                           /\ cfg.succ[b] = Successors(blocks, b, Greatest(Body(b)))
  BY GraphParts
<1>2. PICK b \in blocks : i \in Body(b)
  BY InABlock
<1>3. PICK c \in blocks : j \in Body(c)
  BY InABlock
<1>4. (HasBranchOffset(BytesAt(i)) => IsTerminator(BytesAt(i)))
      /\ (IsConditionalBranch(BytesAt(i)) => HasBranchOffset(BytesAt(i)))
  BY BranchKinds
<1>5. ASSUME NEW d \in blocks, j \in Body(d), \A x \in Body(b) : x <= i,
             \A x \in Body(d) : j <= x,
             d \in Range(Successors(blocks, b, i))
      PROVE  /\ i \in cfg.body[b] /\ j \in cfg.body[d]
             /\ \E k \in DOMAIN cfg.succ[b] : cfg.succ[b][k] = d
             /\ \A x \in cfg.body[b] : x <= i
             /\ \A x \in cfg.body[d] : j <= x
  <2>1. Greatest(Body(b)) = i
    BY <1>2, <1>5, BoundsAre
  <2>2. cfg.succ[b] = Successors(blocks, b, i)
    BY <1>1, <2>1
  <2>3. \E k \in DOMAIN cfg.succ[b] : cfg.succ[b][k] = d
    BY <1>5, <2>2 DEF Range
  <2> HIDE DEF blocks, Body
  <2> QED BY <1>1, <1>2, <1>5, <2>3
<1>6. ASSUME j = i + 1, IsTerminator(BytesAt(i)) => IsConditionalBranch(BytesAt(i)), b # c
      PROVE  /\ \A x \in Body(b) : x <= i
             /\ \A x \in Body(c) : j <= x
             /\ c \in Range(Successors(blocks, b, i))
  <2>0. b \in Leaders /\ c \in Leaders /\ b \in Nat /\ c \in Nat
    BY <1>0
  <2>1. ~(c < b)
    <3> SUFFICES ASSUME c < b PROVE FALSE
      OBVIOUS
    <3>1. j < i
      BY <1>2, <1>3, <2>0, BodiesApart
    <3> QED BY <1>0, <1>6, <3>1
  <2>2. b < c
    BY <1>6, <2>0, <2>1
  <2>3. ASSUME NEW x \in Body(b) PROVE x <= i
    <3>1. x < j
      BY <1>3, <2>0, <2>2, BodiesApart
    <3>2. x \in Int
      BY <1>0 DEF LaidOut
    <3> QED BY <1>0, <1>6, <3>1, <3>2
  <2>4. ASSUME NEW x \in Body(c) PROVE j <= x
    <3>1. i < x
      BY <1>2, <2>0, <2>2, BodiesApart
    <3>2. x \in Int
      BY <1>0 DEF LaidOut
    <3> QED BY <1>0, <1>6, <3>1, <3>2
  <2>5. Greatest(Body(b)) = i
    BY <1>2, <2>3, BoundsAre
  <2>6. NextBlock(blocks, b) = <<c>>
    BY <1>3, <1>6, <2>5, NextBlockIs
  <2>7. c \in Range(NextBlock(blocks, b))
    BY <2>6 DEF Range
  <2>8. c \in Range(Successors(blocks, b, i))
    <3> HIDE DEF Body
    <3> QED BY <1>6, <2>7, EdgesAre
  <2> QED BY <2>3, <2>4, <2>8
<1>7. ASSUME HasBranchOffset(BytesAt(i)), PcAt(j) = PcAt(i) + BranchOffset(BytesAt(i))
      PROVE  \E d \in blocks : /\ j \in Body(d)
                               /\ \A x \in Body(b) : x <= i
                               /\ \A x \in Body(d) : j <= x
                               /\ d \in Range(Successors(blocks, b, i))
  <2>1. PcAt(j) = TargetOf(i) /\ PcAt(j) \in Leaders
    <3>1. PcAt(j) \in Nat /\ TargetOf(i) \in Leaders
      BY <1>7 DEF LaidOut
    <3> QED BY <1>7, <3>1 DEF TargetOf, JumpTarget
  <2>2. PcAt(j) \in blocks /\ j \in Body(PcAt(j)) /\ \A x \in Body(PcAt(j)) : j <= x
    BY <2>1, LeaderStarts
  <2>3. \A x \in Body(b) : x <= i
    BY <1>0, <1>2, <1>4, <1>7, TerminatorEnds
  <2>4. PcAt(j) \in Range(Successors(blocks, b, i))
    <3> HIDE DEF Body
    <3> QED BY <1>7, <2>1, <2>2, EdgesAre
  <2> QED BY <2>2, <2>3, <2>4
<1> HIDE DEF blocks, Body
<1>8. CASE j = i + 1 /\ (IsTerminator(BytesAt(i)) => IsConditionalBranch(BytesAt(i)))
  <2>1. CASE b = c
    BY <1>1, <1>2, <1>3, <1>8, <2>1
  <2>2. CASE b # c
    <3>1. /\ \A x \in Body(b) : x <= i
          /\ \A x \in Body(c) : j <= x
          /\ c \in Range(Successors(blocks, b, i))
      BY <1>6, <1>8, <2>2
    <3>2. /\ i \in cfg.body[b] /\ j \in cfg.body[c]
          /\ \E k \in DOMAIN cfg.succ[b] : cfg.succ[b][k] = c
          /\ \A x \in cfg.body[b] : x <= i
          /\ \A x \in cfg.body[c] : j <= x
      BY <1>3, <1>5, <3>1
    <3> QED BY <1>1, <3>2
  <2> QED BY <2>1, <2>2
<1>9. CASE HasBranchOffset(BytesAt(i)) /\ PcAt(j) = PcAt(i) + BranchOffset(BytesAt(i))
  <2>1. PICK d \in blocks : /\ j \in Body(d)
                            /\ \A x \in Body(b) : x <= i
                            /\ \A x \in Body(d) : j <= x
                            /\ d \in Range(Successors(blocks, b, i))
    BY <1>7, <1>9
  <2>2. /\ i \in cfg.body[b] /\ j \in cfg.body[d]
        /\ \E k \in DOMAIN cfg.succ[b] : cfg.succ[b][k] = d
        /\ \A x \in cfg.body[b] : x <= i
        /\ \A x \in cfg.body[d] : j <= x
    BY <1>5, <2>1
  <2> QED BY <1>1, <2>2
<1> QED BY <1>8, <1>9 DEF Follows

\* No edge of the graph is made up.
LEMMA EdgesAreReal ==
    ASSUME LaidOut, cfg = Graph, NEW b \in cfg.blocks, NEW k \in DOMAIN cfg.succ[b],
           NEW i, NEW j, i = Greatest(cfg.body[b]), j = Least(cfg.body[cfg.succ[b][k]])
    PROVE  \/ Follows(i, j)
           \/ /\ HasBranchOffset(BytesAt(i))
              /\ \A x \in Indices : PcAt(x) # PcAt(i) + BranchOffset(BytesAt(i))
<1> DEFINE blocks == BlocksOf(Leaders)
           Body(c) == BodyOf(Leaders, c)
           s == cfg.succ[b][k]
<1>1. /\ cfg.blocks = blocks /\ b \in blocks
      /\ \A c \in blocks : cfg.body[c] = Body(c)
      /\ cfg.succ[b] = Successors(blocks, b, Greatest(Body(b)))
  BY GraphParts
<1>2. i = Greatest(Body(b)) /\ s \in Range(Successors(blocks, b, i))
  BY <1>1 DEF Range
<1>3. i \in Body(b) /\ i \in Indices
  BY <1>1, <1>2, BodyEnds DEF BodyOf
<1> HIDE DEF s
<1>4. \/ s = TargetOf(i) /\ HasBranchOffset(BytesAt(i)) /\ s \in blocks
      \/ /\ s \in Range(NextBlock(blocks, b))
         /\ IsTerminator(BytesAt(i)) => IsConditionalBranch(BytesAt(i))
  <2> HIDE DEF Body
  <2> QED BY <1>1, <1>2, <1>3, EdgesAre
<1>5. ASSUME s \in Range(NextBlock(blocks, b)),
             IsTerminator(BytesAt(i)) => IsConditionalBranch(BytesAt(i))
      PROVE  Follows(i, j)
  <2>1. PICK n \in DOMAIN NextBlock(blocks, b) : s = NextBlock(blocks, b)[n]
    BY <1>5 DEF Range
  <2>2. s \in blocks /\ Least(Body(s)) = i + 1
    BY <1>1, <1>2, <2>1, NextBlockIs
  <2>3. j = i + 1
    BY <1>1, <2>2 DEF s
  <2> QED BY <1>5, <2>3 DEF Follows
<1>6. ASSUME s = TargetOf(i), HasBranchOffset(BytesAt(i)), s \in blocks,
             NEW x \in Indices, PcAt(x) = PcAt(i) + BranchOffset(BytesAt(i))
      PROVE  Follows(i, j)
  <2>1. PcAt(x) = s /\ PcAt(x) \in Leaders
    <3>1. PcAt(x) \in Nat /\ TargetOf(i) \in Leaders
      BY <1>3, <1>6 DEF LaidOut
    <3> QED BY <1>6, <3>1 DEF TargetOf, JumpTarget
  <2>2. x \in Body(s) /\ \A y \in Body(s) : x <= y
    BY <2>1, LeaderStarts
  <2>3. Least(Body(s)) = x
    BY <1>6, <2>2, BoundsAre
  <2>4. j = x
    BY <1>1, <1>6, <2>3 DEF s
  <2> QED BY <1>6, <2>4 DEF Follows
<1> QED BY <1>4, <1>5, <1>6


\* Building the graph changes nothing it is built from.
LEMMA GraphStays ==
    ASSUME instructions' = instructions, head' = head
    PROVE  Graph' = Graph
<1>1. Indices' = Indices
  BY DEF Indices
<1>2. \A i : PcAt(i)' = PcAt(i) /\ BytesAt(i)' = BytesAt(i)
  BY DEF PcAt, BytesAt
<1>3. \A i : TargetOf(i)' = TargetOf(i)
  BY <1>2 DEF TargetOf
<1>4. Leaders' = Leaders
  BY <1>1, <1>2, <1>3 DEF Leaders
<1>5. \A L, l : BlockEnd(L, l)' = BlockEnd(L, l)
  BY DEF BlockEnd
<1>6. \A L, l : BodyOf(L, l)' = BodyOf(L, l)
  BY <1>1, <1>2, <1>5 DEF BodyOf
<1>7. \A L : BlocksOf(L)' = BlocksOf(L)
  BY <1>6 DEF BlocksOf
<1>8. \A B, b, i : Successors(B, b, i)' = Successors(B, b, i)
  BY <1>2, <1>3 DEF Successors
<1> DEFINE blocks == BlocksOf(Leaders)
           body == [b \in blocks |-> BodyOf(Leaders, b)]
           succ == [b \in blocks |-> Successors(blocks, b, Greatest(body[b]))]
<1>9. BlocksOf(Leaders)' = BlocksOf(Leaders)
  BY <1>4, <1>7
<1>10. \A b : BodyOf(Leaders, b)' = BodyOf(Leaders, b)
  BY <1>4, <1>6
<1>11. body' = body
  BY <1>9, <1>10
<1>12. succ' = succ
  BY <1>8, <1>9, <1>11
<1>13. Graph = [blocks |-> blocks, entry |-> 0, body |-> body, succ |-> succ]
  BY DEF Graph
<1>14. Graph' = [blocks |-> blocks', entry |-> 0, body |-> body', succ |-> succ']
  BY DEF Graph
<1> QED BY <1>9, <1>11, <1>12, <1>13, <1>14

\* What is built is the graph of the instructions decoded.
Built == phase = "built" => cfg = IF instructions = <<>> THEN NoGraph ELSE Graph

\* Built holds: nothing happens after the graph is built.
LEMMA GraphIsBuilt == CSpec => []Built
<1>1. CInit => Built
  BY DEF CInit, DecodeInit, Start, Built
<1>2. DecodeTypeOK /\ Built /\ [CNext]_allVars => Built'
  <2> SUFFICES ASSUME DecodeTypeOK, Built, [CNext]_allVars PROVE Built'
    OBVIOUS
  <2>1. CASE Build
    <3>1. /\ instructions' = instructions /\ head' = head
          /\ cfg' = IF instructions = <<>> THEN NoGraph ELSE Graph
      BY <2>1 DEF Build
    <3>2. Graph' = Graph
      BY <3>1, GraphStays
    <3> QED BY <3>1, <3>2 DEF Built, NoGraph
  <2>2. CASE Decode
    <3>1. phase' # "built"
      <4>1. CASE NotSpi \/ BadHeader \/ BadEntry \/ BadSections
        BY <4>1 DEF NotSpi, BadHeader, BadEntry, BadSections, Reject, Enter
      <4>2. CASE StripMetadata \/ OpenSpi \/ ReadHeader \/ ReadEntry \/ ReadSections
        BY <4>2 DEF StripMetadata, OpenSpi, Enter, ReadHeader, ReadEntry, ReadSections
      <4>3. CASE SkipByte \/ DecodeOne \/ Decoded
        BY <4>3 DEF SkipByte, DecodeOne, Decoded, Scanning
      <4> QED BY <2>2, <4>1, <4>2, <4>3 DEF Decode, DecodeNext
    <3> QED BY <3>1 DEF Built
  <2>3. CASE UNCHANGED allVars
    <3>1. /\ instructions' = instructions /\ head' = head /\ cfg' = cfg /\ phase' = phase
      BY <2>3 DEF allVars, decodeVars
    <3>2. Graph' = Graph
      BY <3>1, GraphStays
    <3> QED BY <3>1, <3>2 DEF Built, NoGraph
  <2> QED BY <2>1, <2>2, <2>3 DEF CNext
<1>3. CSpec => []DecodeTypeOK
  <2>1. Safe => DecodeTypeOK
    BY DEF Safe
  <2> QED BY InitSafe, StepSafe, <2>1, PTL DEF CSpec
<1> QED BY <1>1, <1>2, <1>3, PTL DEF CSpec

\* The control flow graph of every file that decodes has exactly the steps of
\* the machine, as ControlFlowGraph::build sees them: no execution leaves it
\* and no edge is made up, wherever its jumps go (cfg.rs:46-228).
THEOREM GraphIsTheSteps == CSpec => []GraphIsSteps
<1>1. Safe /\ StartsDecodedOnce /\ Built => GraphIsSteps
  <2> SUFFICES ASSUME Safe, StartsDecodedOnce, Built, phase = "built"
               PROVE  GraphIsSteps
    BY DEF GraphIsSteps, StepsAreInGraph, EdgesAreSteps
  <2>1. LaidOut
    BY DecodedIsLaidOut DEF Safe, Scanned
  <2>2. CASE instructions = <<>>
    <3>1. Indices = {} /\ cfg.blocks = {}
      BY <2>2 DEF Indices, Built, NoGraph
    <3> QED BY <3>1 DEF GraphIsSteps, StepsAreInGraph, EdgesAreSteps
  <2>3. CASE instructions # <<>>
    <3>1. cfg = Graph
      BY <2>3 DEF Built
    <3>2. StepsAreInGraph
      BY <2>1, <3>1, StepsInGraph DEF StepsAreInGraph
    <3>3. EdgesAreSteps
      BY <2>1, <3>1, EdgesAreReal DEF EdgesAreSteps
    <3> QED BY <3>2, <3>3 DEF GraphIsSteps
  <2> QED BY <2>2, <2>3
<1>2. CSpec => []Safe
  BY InitSafe, StepSafe, PTL DEF CSpec
<1> QED BY <1>1, <1>2, DecodedOnce, GraphIsBuilt, PTL


=============================================================================

------------------------------- MODULE Decoder -------------------------------
(***************************************************************************)
(* From the bytes of a file to a DecodedProgram (src/src/decoder.rs and    *)
(* src/src/varint.rs, driven by decompile_to_pseudocode of                 *)
(* src/src/lib.rs): a metadata prefix is stripped, the rest is read as an  *)
(* SPI container and, if anything in that fails, as a raw program blob.    *)
(*                                                                         *)
(* Positions count from 0 as in the code; data[p + 1] is the byte at p.    *)
(***************************************************************************)
EXTENDS Instructions, FiniteSets

CONSTANT Inputs     \* the files to decode

ASSUME InputsAssumption == Inputs \subseteq Seq(Byte)

VARIABLES
    input,
    phase,          \* "strip", "spi", "header", "table", "scan",
                    \* then "decoded" or "error"
    data,           \* what is left after stripping
    mode,           \* "spi" while decode_spi runs, then "raw"
    blob,           \* the slice decode_blob_internal works on
    position,       \* its cursor
    head,           \* the lengths read from the blob's header
    jump_table,
    code, mask,     \* the code section and the mask section
    pc,
    instructions,   \* sequence of [pc, bytes]
    memory_base     \* 0 for None

decodeVars == <<input, phase, data, mode, blob, position, head, jump_table, code,
                mask, pc, instructions, memory_base>>

-----------------------------------------------------------------------------
(* Reading *)

\* The number of bytes of the varint that starts with byte b, 0 if none can.
VarBytes(b) ==
    CASE b < 128 -> 1
      [] b >= 128 /\ b < 192 -> 2
      [] b >= 192 /\ b < 224 -> 3
      [] b >= 224 /\ b < 240 -> 4
      [] b = 240 -> 5
      [] OTHER -> 0

\* decode_var_u32: the first byte carries the length and the highest bits.
HasVar(d, p) ==
    /\ p < Len(d)
    /\ VarBytes(d[p + 1]) # 0
    /\ p + VarBytes(d[p + 1]) <= Len(d)

\* The bits of the first byte that belong to the value.
VarHigh(b) ==
    CASE VarBytes(b) = 2 -> b - 128
      [] VarBytes(b) = 3 -> b - 192
      [] VarBytes(b) = 4 -> b - 224
      [] VarBytes(b) = 5 -> 0
      [] OTHER -> b

VarValue(d, p) ==
    LET n == VarBytes(d[p + 1])
        scale == CASE n = 2 -> 256 [] n = 3 -> 65536 [] n = 4 -> 16777216 [] OTHER -> 1
    IN  VarHigh(d[p + 1]) * scale + LittleEndian(d, p + 1, n - 1)

IsPrintable(b) == b \in 32..126 \cup {9, 10, 13}

\* Faulty variant: the bytes are not looked at.
BugHasMetadata(d) ==
    /\ HasVar(d, 0)
    /\ VarValue(d, 0) > 0
    /\ VarBytes(d[1]) + VarValue(d, 0) <= Len(d)

\* try_strip_metadata: a length and as many bytes, four fifths of them
\* printable, are dropped.
HasMetadata(d) ==
    /\ HasVar(d, 0)
    /\ LET from == VarBytes(d[1])
           len == VarValue(d, 0)
       IN  /\ len > 0
           /\ from + len <= Len(d)
           /\ 10 * Cardinality({i \in from+1..from+len : IsPrintable(d[i])}) >= 8 * len

Stripped(d) ==
    IF HasMetadata(d) THEN SubSeq(d, VarBytes(d[1]) + VarValue(d, 0) + 1, Len(d)) ELSE d

\* decode_spi: an 11 byte header, read-only and read-write data of the lengths
\* it gives, the length of the blob, and the blob up to the last byte.
SpiHeaderBytes == 11

RoLen(d) == LittleEndian(d, 0, 3)
RwLen(d) == LittleEndian(d, 3, 3)
BlobAt(d) == SpiHeaderBytes + RoLen(d) + RwLen(d) + 4

IsSpi(d) ==
    /\ Len(d) >= SpiHeaderBytes
    /\ Len(d) >= BlobAt(d)
    /\ Len(d) = BlobAt(d) + LittleEndian(d, BlobAt(d) - 4, 4)

SegmentSize == 65536

\* heapStart, two segments and the aligned read-only data.
HeapStart(d) ==
    2 * SegmentSize + ((RoLen(d) + SegmentSize - 1) \div SegmentSize) * SegmentSize

\* The mask has one bit per byte of code, lowest bit first.
IsStart(m, p) == (m[p \div 8 + 1] \div 2 ^ (p % 8)) % 2 = 1

\* Faulty variant: the last start is taken for the next one.
BugInstructionLength(m, p, len) ==
    LET next == {q \in p+1..len-1 : IsStart(m, q)}
    IN  (IF next = {} THEN len ELSE CHOOSE q \in next : \A r \in next : q >= r) - p

\* find_instruction_length: up to the next start or the end of the code.
InstructionLength(m, p, len) ==
    LET next == {q \in p+1..len-1 : IsStart(m, q)}
    IN  (IF next = {} THEN len ELSE CHOOSE q \in next : \A r \in next : q <= r) - p

-----------------------------------------------------------------------------
Start ==
    /\ phase = "strip"
    /\ data = <<>>
    /\ mode = "spi"
    /\ blob = <<>>
    /\ position = 0
    /\ head = [table |-> 0, item |-> 0, code |-> 0]
    /\ jump_table = <<>>
    /\ code = <<>>
    /\ mask = <<>>
    /\ pc = 0
    /\ instructions = <<>>
    /\ memory_base = 0

DecodeInit == input \in Inputs /\ Start

StripMetadata ==
    /\ phase = "strip"
    /\ data' = Stripped(input)
    /\ phase' = "spi"
    /\ UNCHANGED <<input, mode, blob, position, head, jump_table, code, mask, pc,
                   instructions, memory_base>>

\* decode_blob_internal starts on b.
Enter(b) ==
    /\ blob' = b
    /\ position' = 0
    /\ jump_table' = <<>>
    /\ instructions' = <<>>
    /\ pc' = 0
    /\ phase' = "header"

OpenSpi ==
    /\ phase = "spi"
    /\ IsSpi(data)
    /\ Enter(SubSeq(data, BlobAt(data) + 1, Len(data)))
    /\ UNCHANGED <<input, data, mode, head, code, mask, memory_base>>

\* Any error of decode_spi lets lib.rs try decode_blob on the same bytes; an
\* error of that is the result.
Reject ==
    \/ /\ mode = "spi"
       /\ mode' = "raw"
       /\ Enter(data)
       /\ UNCHANGED <<input, data, head, code, mask, memory_base>>
    \/ /\ mode = "raw"
       /\ phase' = "error"
       /\ UNCHANGED <<input, data, mode, blob, position, head, jump_table, code,
                      mask, pc, instructions, memory_base>>

NotSpi ==
    /\ phase = "spi"
    /\ ~IsSpi(data)
    /\ Reject

\* Jump table length, entry size and code length.
HeaderFits ==
    /\ HasVar(blob, 0)
    /\ LET p == VarBytes(blob[1])
       IN  /\ p < Len(blob)
           /\ HasVar(blob, p + 1)

ReadHeader ==
    /\ phase = "header"
    /\ HeaderFits
    /\ LET p == VarBytes(blob[1])
       IN  /\ head' = [table |-> VarValue(blob, 0), item |-> blob[p + 1],
                       code |-> VarValue(blob, p + 1)]
           /\ position' = p + 1 + VarBytes(blob[p + 2])
    /\ phase' = "table"
    /\ UNCHANGED <<input, data, mode, blob, jump_table, code, mask, pc,
                   instructions, memory_base>>

BadHeader ==
    /\ phase = "header"
    /\ ~HeaderFits
    /\ Reject

Remaining == Len(blob) - position

EntriesLeft == head.item > 0 /\ Len(jump_table) < head.table

EntryFits == head.item <= 4 /\ Remaining >= head.item

ReadEntry ==
    /\ phase = "table"
    /\ EntriesLeft
    /\ EntryFits
    /\ jump_table' = Append(jump_table, LittleEndian(blob, position, head.item))
    /\ position' = position + head.item
    /\ UNCHANGED <<input, phase, data, mode, blob, head, code, mask, pc,
                   instructions, memory_base>>

BadEntry ==
    /\ phase = "table"
    /\ EntriesLeft
    /\ ~EntryFits
    /\ Reject

MaskBytes == (head.code + 7) \div 8

SectionsFit == Remaining >= head.code + MaskBytes

ReadSections ==
    /\ phase = "table"
    /\ ~EntriesLeft
    /\ SectionsFit
    /\ code' = SubSeq(blob, position + 1, position + head.code)
    /\ mask' = SubSeq(blob, position + head.code + 1, position + head.code + MaskBytes)
    /\ position' = position + head.code
    /\ phase' = "scan"
    /\ UNCHANGED <<input, data, mode, blob, head, jump_table, pc, instructions,
                   memory_base>>

BadSections ==
    /\ phase = "table"
    /\ ~EntriesLeft
    /\ ~SectionsFit
    /\ Reject

Scanning == phase = "scan" /\ pc < head.code

\* Faulty variant: a byte without a mark is taken for an operand byte.
BugSkipByte ==
    /\ Scanning
    /\ ~IsStart(mask, pc)
    /\ pc' = pc + 2
    /\ UNCHANGED <<input, phase, data, mode, blob, position, head, jump_table,
                   code, mask, instructions, memory_base>>

SkipByte ==
    /\ Scanning
    /\ ~IsStart(mask, pc)
    /\ pc' = pc + 1
    /\ UNCHANGED <<input, phase, data, mode, blob, position, head, jump_table,
                   code, mask, instructions, memory_base>>

DecodeOne ==
    /\ Scanning
    /\ IsStart(mask, pc)
    /\ LET n == InstructionLength(mask, pc, head.code)
       IN  /\ instructions' = Append(instructions,
                                     [pc |-> pc, bytes |-> SubSeq(code, pc + 1, pc + n)])
           /\ pc' = pc + n
    /\ UNCHANGED <<input, phase, data, mode, blob, position, head, jump_table,
                   code, mask, memory_base>>

Decoded ==
    /\ phase = "scan"
    /\ pc >= head.code
    /\ memory_base' = IF mode = "spi" THEN HeapStart(data) ELSE 0
    /\ phase' = "decoded"
    /\ UNCHANGED <<input, data, mode, blob, position, head, jump_table, code,
                   mask, pc, instructions>>

DecodeNext ==
    \/ StripMetadata \/ OpenSpi \/ NotSpi \/ ReadHeader \/ BadHeader \/ ReadEntry
    \/ BadEntry \/ ReadSections \/ BadSections \/ SkipByte \/ DecodeOne \/ Decoded

-----------------------------------------------------------------------------
(* Properties *)

Scanned == phase \in {"scan", "decoded", "built"}

\* Every variable has the shape its Rust counterpart has.
DecodeTypeOK ==
    /\ input \in Seq(Byte)
    /\ phase \in {"strip", "spi", "header", "table", "scan", "decoded", "built", "error"}
    /\ data \in Seq(Byte)
    /\ mode \in {"spi", "raw"}
    /\ blob \in Seq(Byte)
    /\ position \in Nat
    /\ head \in [table : Nat, item : Byte, code : Nat]
    /\ jump_table \in Seq(Nat)
    /\ code \in Seq(Byte)
    /\ mask \in Seq(Byte)
    /\ pc \in Nat
    /\ instructions \in Seq([pc : Nat, bytes : Seq(Byte)])
    /\ memory_base \in Nat

\* No slice of decode_blob_internal is taken past its end: the cursor stays
\* within the blob, the sections have the lengths the header promised, and the
\* scan never passes the end of the code, whatever lengths the file claims.
ReadsStayInside ==
    /\ position <= Len(blob)
    /\ Scanned => /\ Len(code) = head.code
                  /\ Len(mask) = MaskBytes
                  /\ pc <= head.code

\* The instructions decoded so far are exactly those the mask marks before pc,
\* in increasing order, none twice; a retry as a raw blob starts afresh.
StartsDecodedOnce ==
    Scanned =>
        /\ {instructions[i].pc : i \in DOMAIN instructions}
                = {p \in 0..pc-1 : IsStart(mask, p)}
        /\ \A i, j \in DOMAIN instructions : i < j => instructions[i].pc < instructions[j].pc

=============================================================================

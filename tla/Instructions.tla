---------------------------- MODULE Instructions ----------------------------
(***************************************************************************)
(* What the decompiler knows of one PVM instruction: decode_instruction of *)
(* src/src/decoder.rs composed with InstructionShape of                    *)
(* src/src/instruction.rs.  An instruction is the sequence of its bytes,   *)
(* opcode first.  The opcodes of one operand layout form one set; which    *)
(* arithmetic an opcode stands for and the width of a memory access are    *)
(* left out, since no analysis of control or data flow looks at them.      *)
(***************************************************************************)
EXTENDS Integers, Sequences

Byte == 0..255

\* The four-bit fields of an operand byte.
Lo(b) == b % 16
Hi(b) == b \div 16

-----------------------------------------------------------------------------
(* Opcodes by operand layout *)

Trap == {0}
Fallthrough == {1}
Ecalli == {10}
LoadImm64 == {20}
StoreImm == 30..33          \* two immediates
Jump == {40}
JumpInd == {50}
LoadImm == {51}
LoadAbsolute == 52..58
StoreAbsolute == 59..62
StoreImmInd == 70..73
LoadImmJump == {80}
BranchImm == 81..90
TwoReg == 100..111          \* moves, sbrk and unary operations
Store == 120..123
Load == 124..130
TwoRegImm == (131..146) \cup (149..161)
CmovImm == {147, 148}
BranchReg == 170..175
LoadImmJumpInd == {180}
ThreeReg == (190..217) \cup (220..230)
CmovReg == {218, 219}

Assigned ==
    Trap \cup Fallthrough \cup Ecalli \cup LoadImm64 \cup StoreImm \cup Jump
    \cup JumpInd \cup LoadImm \cup LoadAbsolute \cup StoreAbsolute
    \cup StoreImmInd \cup LoadImmJump \cup BranchImm \cup TwoReg \cup Store
    \cup Load \cup TwoRegImm \cup CmovImm \cup BranchReg \cup LoadImmJumpInd
    \cup ThreeReg \cup CmovReg

-----------------------------------------------------------------------------
(* decode_instruction *)

\* Bytes before the immediates; a shorter instruction is an error.
FixedBytes(op) ==
    IF op \in ThreeReg \cup CmovReg \cup LoadImmJumpInd THEN 3
    ELSE IF op \in LoadImm64 THEN 10
    ELSE IF op \in Trap \cup Fallthrough \cup Ecalli \cup Jump THEN 1
    ELSE 2

\* The length of the first of two immediates, as the operand bytes give it.
FirstImmBytes(d) ==
    CASE d[1] \in BranchImm \cup LoadImmJump \cup StoreImmInd -> Hi(d[2])
      [] d[1] \in StoreImm -> Lo(d[2])
      [] d[1] \in LoadImmJumpInd -> Lo(d[3])
      [] OTHER -> 0

\* An error makes the caller keep the bytes as Instruction::Unknown, which is
\* what an unassigned opcode becomes, too.
IsKnown(d) ==
    /\ d[1] \in Assigned
    /\ Len(d) >= FixedBytes(d[1])
    /\ Len(d) >= FixedBytes(d[1]) + FirstImmBytes(d)

\* n <= 4 bytes of d from position p on (counted from 0), little endian.
LittleEndian(d, p, n) ==
    LET at(i) == IF i < n THEN d[p + i + 1] ELSE 0
    IN  at(0) + 256 * at(1) + 65536 * at(2) + 16777216 * at(3)

\* decode_imm_bytes of the bytes of d from position p on: little endian, at
\* most four bytes, the last of them signed.
DecodeImm(d, p) ==
    LET n == IF Len(d) - p <= 4 THEN Len(d) - p ELSE 4
        last == d[p + n]
    IN  IF n = 0 THEN 0
        ELSE LittleEndian(d, p, n - 1)
               + (IF last >= 128 THEN last - 256 ELSE last)
                    * (CASE n = 1 -> 1 [] n = 2 -> 256 [] n = 3 -> 65536
                         [] OTHER -> 16777216)

-----------------------------------------------------------------------------
(* InstructionShape; d stands for a decoded instruction *)

IsIn(d, ops) == IsKnown(d) /\ d[1] \in ops

IsTerminator(d) ==
    IsIn(d, Trap \cup Jump \cup JumpInd \cup LoadImmJump \cup LoadImmJumpInd
               \cup BranchImm \cup BranchReg)

HasBranchOffset(d) == IsIn(d, Jump \cup LoadImmJump \cup BranchImm \cup BranchReg)

IsConditionalBranch(d) == IsIn(d, BranchImm \cup BranchReg)

\* The last immediate of the instruction.
BranchOffset(d) == DecodeImm(d, FixedBytes(d[1]) + FirstImmBytes(d))

AllRegisters == 0..12

\* Ecalli and unknown instructions may do anything to the registers.
IsOpaque(d) == ~IsKnown(d) \/ d[1] \in Ecalli

\* def_use, defined registers.  def_reg names the same one, and none for an
\* opaque instruction.
Defs(d) ==
    CASE IsOpaque(d) -> AllRegisters
      [] d[1] \in ThreeReg \cup CmovReg -> {Lo(d[3])}
      [] d[1] \in LoadImm64 \cup LoadImm \cup LoadAbsolute \cup LoadImmJump
                    \cup TwoReg \cup Load \cup TwoRegImm \cup CmovImm
                    \cup LoadImmJumpInd -> {Lo(d[2])}
      [] OTHER -> {}

\* def_use, used registers.
Uses(d) ==
    CASE IsOpaque(d) -> AllRegisters
      [] d[1] \in ThreeReg \cup CmovReg \cup Store \cup BranchReg -> {Lo(d[2]), Hi(d[2])}
      [] d[1] \in TwoReg \cup Load \cup TwoRegImm \cup CmovImm
                    \cup LoadImmJumpInd -> {Hi(d[2])}
      [] d[1] \in JumpInd \cup StoreAbsolute \cup StoreImmInd \cup BranchImm -> {Lo(d[2])}
      [] OTHER -> {}

=============================================================================

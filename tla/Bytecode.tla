------------------------------ MODULE Bytecode ------------------------------
(***************************************************************************)
(* The instructions of the bytecode (src/kernel/bytecode.c, bytecode.h):   *)
(* how the assembler writes them (bytecodeInstructionCreate...) and how    *)
(* the kernel and the emulator read them (bytecodeInstructionParse).       *)
(*                                                                         *)
(* An instruction is a record: operation, destination, two operands, and a *)
(* value.  In ALU instructions the value is the one the operand fields     *)
(* stand for in inc and dec.                                               *)
(***************************************************************************)
EXTENDS Integers, Sequences, SequencesExt

\* Position of x in the sequence s, which has it once.
IndexOf(x, s) == CHOOSE k \in DOMAIN s : s[k] = x

RegIds == 0 .. 7
SP == 6
IP == 7

\* BytecodeInstructionAluType and BytecodeInstructionAluExtraType, from 0.
AluTypes == << "inc", "dec", "add", "sub", "mul", "div", "xor", "or", "and", "cmp", "shl", "shr",
               "skip", "extra" >>
ExtraTypes == << "not", "store16", "load16", "push16", "pop16", "call", "xchg8", "clz" >>
MiscTypes == << "nop", "syscall", "clearicache", "illegal", "debug", "set8", "set16" >>

Instr(op, dest, a, b, value) == [op |-> op, dest |-> dest, a |-> a, b |-> b, value |-> value]
Alu(op, dest, a, b) == Instr(op, dest, a, b, 8 * a + b + 1)
Extra(op, dest, a) == Alu("extra", dest, a, IndexOf(op, ExtraTypes) - 1)
IncDec(op, dest, value) == Alu(op, dest, (value - 1) \div 8, (value - 1) % 8)

\* Field of `width' bits of n, from bit `low' on.
Bits(n, low, width) == (n \div 2 ^ low) % 2 ^ width
-----------------------------------------------------------------------------
(* Writing. *)

Create(i) ==
    CASE i.op = "load8" -> << 8 * i.dest + i.a >>
      [] i.op = "store8" -> << 64 + 8 * i.dest + i.a >>
      [] i.op = "set4" -> << 128 + 16 * i.dest + i.value >>
      [] i.op = "set8" -> << 208 + i.dest, i.value >>
      [] i.op = "set16" -> << 216 + i.dest, i.value \div 256, i.value % 256 >>
      [] i.op \in ToSet(AluTypes) ->
            << 224 + 2 * (IndexOf(i.op, AluTypes) - 1) + i.dest \div 4,
               64 * (i.dest % 4) + 8 * i.a + i.b >>
      [] OTHER -> << 192 + IndexOf(i.op, MiscTypes) - 1 >>

\* bytecodeInstructionCreateSet: the shortest instruction for a value.
CreateSet(dest, value) ==
    Create(Instr(IF value < 16 /\ dest < 4 THEN "set4" ELSE IF value < 256 THEN "set8" ELSE "set16",
                 dest, 0, 0, value))
-----------------------------------------------------------------------------
(* Reading. *)

ParseLength(first) ==
    IF first < 208 THEN 1 ELSE IF Bits(first, 3, 5) # 27 THEN 2 ELSE 3

\* Mutant: the upper bit of the destination, in the first byte, is lost.
AluDestTwoBits(upper16) == Bits(upper16, 6, 2)

AluDest(upper16) == Bits(upper16, 6, 3)

ParseMemory(first) ==
    LET type == Bits(first, 6, 2)
    IN  IF type = 2 THEN Instr("set4", Bits(first, 4, 2), 0, 0, Bits(first, 0, 4))
        ELSE Instr(IF type = 0 THEN "load8" ELSE "store8", Bits(first, 3, 3), Bits(first, 0, 3), 0, 0)

\* Two types have no operation.
ParseAlu(upper16) ==
    LET type == Bits(upper16, 9, 4)
    IN  Alu(IF type < Len(AluTypes) THEN AluTypes[type + 1] ELSE "unknown",
            AluDest(upper16), Bits(upper16, 3, 3), Bits(upper16, 0, 3))

\* Of the short instructions, 5 and 6 are read as a set8 and a set16 whose
\* fields are not written: "garbage". The others that are not listed are unknown.
ParseMisc(bytes) ==
    LET first == bytes[1]
        short == Bits(first, 0, 4)
    IN  IF Bits(first, 4, 1) = 0
        THEN Instr(IF short < 5 THEN MiscTypes[short + 1] ELSE IF short < 7 THEN "garbage" ELSE "unknown", 0, 0, 0, 0)
        ELSE IF Bits(first, 3, 1) = 1
             THEN Instr("set16", Bits(first, 0, 3), 0, 0, 256 * bytes[2] + bytes[3])
             ELSE Instr("set8", Bits(first, 0, 3), 0, 0, bytes[2])

Parse(bytes) ==
    IF Bits(bytes[1], 6, 2) # 3 THEN ParseMemory(bytes[1])
    ELSE IF Bits(bytes[1], 5, 1) = 1 THEN ParseAlu(256 * bytes[1] + bytes[2])
         ELSE ParseMisc(bytes)
=============================================================================

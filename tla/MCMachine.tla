----------------------------- MODULE MCMachine -----------------------------
(* Programs and registers for Machine. *)
EXTENDS Machine

\* Registers 0 and 1 have the words given, the stack pointer is at the RAM, and the instruction
\* pointer behind the two magic bytes.
Regs(w, v) == [r \in RegIds |-> CASE r = 0 -> w [] r = 1 -> v [] r = SP -> RamAddr [] r = IP -> 2 [] OTHER -> 0]

Simple == {Instr(op, 0, 0, 0, 0) : op \in {"nop", "clearicache", "illegal", "debug"}}
Sets == {Instr("set4", d, 0, 0, v) : d \in {0, 3}, v \in {0, 15}}
    \cup {Instr("set8", d, 0, 0, v) : d \in {0, 7}, v \in {0, 16, 255}}
    \cup {Instr("set16", d, 0, 0, v) : d \in {0, 7}, v \in {256, 32768, 65535}}
Alus == {Alu(op, d, a, b) : op \in ToSet(AluTypes), d \in RegIds, a \in {0, 1, 7}, b \in RegIds}

\* Addresses at the edges of the regions, of the RAM and of the environment.
Places == {0, 2, 32765, 32766, 32767, 32768, 32770, 32771, 32772, 64512, 64514, 64515, 65535}
Pointing == {Instr(op, d, a, 0, 0) : op \in {"load8", "store8"}, d \in {0, 1, 7}, a \in {0, 1, 7}}
    \cup {Extra(op, d, a) : op \in ToSet(ExtraTypes) \ {"not", "clz"}, d \in {0, 1, 7}, a \in {0, 1, 7}}
Storing == {i \in Pointing : i.op = "store8" \/ (i.op = "extra" /\ ExtraOp(i) \in {"store16", "push16", "call", "xchg8"})}

\* The process writes, over its next instruction if that is in RAM, and goes on there or skips.
Follow == {Instr("load8", 1, 0, 0, 0), Instr("store8", 0, 1, 0, 0), Extra("load16", 1, 0), Extra("pop16", 2, 0),
           Alu("skip", 1, 0, 0), Instr("clearicache", 0, 0, 0, 0), Instr("set16", 7, 0, 0, 32768)}

MCEnvData == << 33, 34, 35 >>

MCStarts ==
         {[code |-> <<i>>, regs |-> Regs(3, 5)] : i \in Simple \cup Sets \cup Alus}
    \cup {[code |-> <<i, Instr("nop", 0, 0, 0, 0)>>, regs |-> Regs(w, v)] : i \in Pointing, w \in Places, v \in {0, 32768, 32771, 64512}}
    \cup {[code |-> <<i, j, j>>, regs |-> Regs(w, 32768)] : i \in Storing, j \in Follow, w \in Places}
=============================================================================

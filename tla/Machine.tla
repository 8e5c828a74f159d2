------------------------------ MODULE Machine ------------------------------
(***************************************************************************)
(* The two machines that run the bytecode: the kernel's                    *)
(* (procManProcessExecInstruction, with the memory map of a process and    *)
(* the instruction prefetch of a tick, src/kernel/procman.c) and the       *)
(* developers' emulator (processRunNextInstruction,                        *)
(* src/tools/emulator/emulator.c).                                         *)
(*                                                                         *)
(* They start on the same program and run in turns: the kernel executes an *)
(* instruction, then the emulator does, with the calls that pass over the  *)
(* instructions the kernel skips at once.  Words have their 16 bits and    *)
(* addresses their place: a program below RamAddr, RAM from there on, the  *)
(* environment (arguments, pwd, path) from EnvAddr on.  In the kernel the  *)
(* environment is the start of the file that also holds the RAM; in the    *)
(* emulator all memory is one array, here the function of the bytes        *)
(* written so far.  System calls are left to ProcMan.                      *)
(***************************************************************************)
EXTENDS Bytecode, Bitwise, FiniteSetsExt

CONSTANTS
    Starts,      \* what may run: records of code (a sequence of instructions) and regs
    EnvData,     \* the bytes of the environment
    RamLens,     \* lengths the RAM may have grown to before
    Rooms,       \* sizes up to which the file system lets the RAM file grow
    Fills,       \* bytes that memory never written may hold
    MaxSteps     \* bound on the instructions executed

ASSUME EnvAssumption == EnvData # << >>

VARIABLES
    code,      \* the program, instruction by instruction
    prog,      \* ... and its bytes, with the two magic bytes in front
    room, fill,
    proc,      \* the kernel's process
    emu,       \* the emulator's process
    turn,      \* who executes next
    steps,     \* instructions executed
    written,   \* addresses the process wrote to since the prefetch buffer was last cleared
    excused    \* something happened that the machines do not do alike

vars == << code, prog, room, fill, proc, emu, turn, steps, written, excused >>

RamAddr == 32768
EnvAddr == 64512
PrefetchSizes == {32, 16, 8, 4, 2, 1}
Magic == << 47, 47 >>

Word(n) == n % 65536
High(w) == w \div 256
Low(w) == w % 256
-----------------------------------------------------------------------------
(* Arithmetic, which both write with the same C expressions on ints. *)

\* The product of two words can exceed TLC's integers, so it is taken in two parts.
Product(a, b) == Word(Word(High(a) * b) * 256 + Low(a) * b)

Bit(condition, n) == IF condition THEN 2 ^ n ELSE 0

Compare(a, b) ==
      Bit(a = b, 0) + Bit(a = 0, 1) + Bit(a # b, 2) + Bit(a # 0, 3)
    + Bit(a < b, 4) + Bit(a <= b, 5) + Bit(a > b, 6) + Bit(a >= b, 7)

\* clz16, with its table of the 8-bit values.
Clz8(n) == IF n = 0 THEN 8 ELSE CHOOSE z \in 0 .. 7 : n \div 2 ^ (7 - z) = 1
Clz(w) == IF High(w) # 0 THEN Clz8(High(w)) ELSE Clz8(Low(w)) + 8

Result(op, a, b) ==
    CASE op = "add" -> Word(a + b)
      [] op = "sub" -> Word(a - b)
      [] op = "mul" -> Product(a, b)
      [] op = "div" -> a \div b
      [] op = "xor" -> a ^^ b
      [] op = "or" -> a | b
      [] op = "and" -> a & b
      [] op = "cmp" -> Compare(a, b)
      [] op = "shl" -> IF b < 16 THEN Word(Word(a * 2 ^ (b \div 2)) * 2 ^ (b - b \div 2)) ELSE 0
      [] op = "shr" -> IF b < 16 THEN a \div 2 ^ b ELSE 0

\* The bit of a register that a skip tests.
Tests(reg, i) == Bits(reg, i.a, 1) = 1

ExtraOp(i) == ExtraTypes[i.b + 1]
-----------------------------------------------------------------------------
(* The memory of a process in the kernel. *)

EnvLen == Len(EnvData)
RamLen(k) == Len(k.ram) - EnvLen
Killed(k) == [k EXCEPT !.alive = FALSE]

\* A read of the whole block, or nothing.
FileRead(bytes, offset, n) ==
    IF offset + n <= Len(bytes) THEN SubSeq(bytes, offset + 1, offset + n) ELSE << >>

ReadBlock(k, addr, n) ==
    IF addr + n < RamAddr THEN FileRead(prog, addr, n)
    ELSE IF addr < RamAddr THEN << >>
    ELSE IF addr - RamAddr < RamLen(k) THEN FileRead(k.ram, EnvLen + addr - RamAddr, n)
    ELSE IF addr >= EnvAddr /\ addr - EnvAddr < EnvLen THEN FileRead(k.ram, addr - EnvAddr, n)
    ELSE << >>

Patched(bytes, offset, data) ==
    [j \in DOMAIN bytes |-> IF j - offset \in DOMAIN data THEN data[j - offset] ELSE bytes[j]]

\* The file is made to end with the data and up to 15 bytes more, as many as there is room for.
GrownSizes(end) == {s \in {end + extra - 1 : extra \in {16, 8, 4, 2, 1}} : s <= room}
Grown(k, end) ==
    [k EXCEPT !.ram = @ \o [j \in 1 .. (Max(GrownSizes(end)) - Len(@)) |-> fill]]

RamOffset(addr) == EnvLen + addr - RamAddr

WriteBlock(k, addr, data) ==
    LET n == Len(data)
        offset == RamOffset(addr)
    IN  IF addr < RamAddr THEN Killed(k)
        ELSE IF addr - RamAddr + n < RamLen(k) THEN [k EXCEPT !.ram = Patched(@, offset, data)]
        ELSE IF addr >= EnvAddr
             THEN IF addr - EnvAddr + n <= Len(k.ram)
                  THEN [k EXCEPT !.ram = Patched(@, addr - EnvAddr, data)]
                  ELSE Killed(k)
        ELSE IF GrownSizes(offset + n) = {} THEN Killed(k)
        ELSE [Grown(k, offset + n) EXCEPT !.ram = Patched(@, offset, data)]

\* The value at an address, put in a register; the process is killed if there is none.
LoadTo(k, addr, n, reg) ==
    LET data == ReadBlock(k, addr, n)
    IN  IF data = << >> THEN Killed(k)
        ELSE [k EXCEPT !.regs[reg] = IF n = 1 THEN data[1] ELSE 256 * data[1] + data[2]]
-----------------------------------------------------------------------------
(* Fetching: procManPrefetchDataReadByte, procManProcessGetInstruction. *)

\* Mutant: the buffer is kept.
ClearedNot(k) == k

Cleared(k) == [k EXCEPT !.buffer = << >>]

Cached(k, addr) == addr \in k.base .. (k.base + Len(k.buffer) - 1)

Prefetched(k, addr) ==
    LET sizes == {n \in PrefetchSizes : ReadBlock(k, addr, n) # << >>}
    IN  IF Cached(k, addr) THEN k
        ELSE [k EXCEPT !.base = addr,
                       !.buffer = IF sizes = {} THEN << >> ELSE ReadBlock(k, addr, Max(sizes))]

GetByte(k) ==
    LET addr == k.regs[IP]
        p == Prefetched(k, addr)
    IN  IF ~k.alive THEN k
        ELSE IF p.buffer = << >> THEN Killed(p)
        ELSE [p EXCEPT !.regs[IP] = Word(@ + 1),
                       !.instr = Append(@, p.buffer[addr - p.base + 1])]

GetInstruction(k) ==
    LET first == GetByte([k EXCEPT !.instr = << >>])
        more == IF first.alive THEN ParseLength(first.instr[1]) - 1 ELSE 0
    IN  FoldLeft(LAMBDA m, j : GetByte(m), first, [j \in 1 .. more |-> j])

\* The next n instructions are fetched and not executed.
SkipInstructions(k, n) ==
    FoldLeft(LAMBDA m, j : IF m.alive THEN GetInstruction(m) ELSE m, k, [j \in 1 .. n |-> j])
-----------------------------------------------------------------------------
(* Executing, in the kernel. *)

ExecMemory(k, i) ==
    CASE i.op = "store8" -> WriteBlock(k, k.regs[i.dest], << Low(k.regs[i.a]) >>)
      [] i.op = "load8" -> LoadTo(k, k.regs[i.a], 1, i.dest)
      [] i.op = "set4" -> [k EXCEPT !.regs[i.dest] = i.value]

WriteWord(k, addr, w) == WriteBlock(k, addr, << High(w), Low(w) >>)

\* xchg8 reads first: an address that cannot be read is not written either.
Exchange(k, i) ==
    LET addr == k.regs[i.dest]
        old == ReadBlock(k, addr, 1)
    IN  IF old = << >> THEN Killed(k)
        ELSE [WriteBlock(k, addr, << Low(k.regs[i.a]) >>) EXCEPT !.regs[i.a] = old[1]]

\* Mutant: a call saves the address of the call itself.
CallSavesItself(k, i) ==
    LET pushed == WriteWord(k, k.regs[i.a], Word(k.regs[IP] - 2))
        bumped == [pushed EXCEPT !.regs[i.a] = Word(@ + 2)]
    IN  [bumped EXCEPT !.regs[IP] = bumped.regs[i.dest]]

Call(k, i) ==
    LET pushed == WriteWord(k, k.regs[i.a], k.regs[IP])
        bumped == [pushed EXCEPT !.regs[i.a] = Word(@ + 2)]
    IN  [bumped EXCEPT !.regs[IP] = bumped.regs[i.dest]]

ExecExtra(k, i) ==
    LET r == k.regs
    IN  CASE ExtraOp(i) = "not" -> [k EXCEPT !.regs[i.dest] = 65535 - r[i.a]]
          [] ExtraOp(i) = "store16" -> WriteWord(k, r[i.dest], r[i.a])
          [] ExtraOp(i) = "load16" -> LoadTo(k, r[i.a], 2, i.dest)
          [] ExtraOp(i) = "push16" ->
                [WriteWord(k, r[i.dest], r[i.a]) EXCEPT !.regs[i.dest] = Word(@ + 2)]
          [] ExtraOp(i) = "pop16" ->
                LoadTo([k EXCEPT !.regs[i.a] = Word(@ - 2)], Word(r[i.a] - 2), 2, i.dest)
          [] ExtraOp(i) = "call" -> Call(k, i)
          [] ExtraOp(i) = "xchg8" -> Exchange(k, i)
          [] ExtraOp(i) = "clz" -> [k EXCEPT !.regs[i.dest] = Clz(r[i.a])]

ExecAlu(k, i) ==
    LET r == k.regs
    IN  CASE i.op = "inc" -> [k EXCEPT !.regs[i.dest] = Word(@ + i.value)]
          [] i.op = "dec" -> [k EXCEPT !.regs[i.dest] = Word(@ - i.value)]
          [] i.op = "skip" -> IF Tests(r[i.dest], i) THEN SkipInstructions(k, i.b + 1) ELSE k
          [] i.op = "extra" -> ExecExtra(k, i)
          [] i.op = "div" /\ r[i.b] = 0 -> Killed(k)
          [] OTHER -> [k EXCEPT !.regs[i.dest] = Result(i.op, r[i.a], r[i.b])]

ExecMisc(k, i) ==
    CASE i.op \in {"nop", "debug"} -> k
      [] i.op = "clearicache" -> Cleared(k)
      [] i.op \in {"set8", "set16"} -> [k EXCEPT !.regs[i.dest] = i.value]
      [] OTHER -> Killed(k)

MemoryOps == {"store8", "load8", "set4"}
ExecInstruction(k, i) ==
    IF i.op \in MemoryOps THEN ExecMemory(k, i)
    ELSE IF i.op \in ToSet(AluTypes) THEN ExecAlu(k, i)
    ELSE ExecMisc(k, i)

\* The addresses an instruction writes to.
Addresses(addr, n) == {Word(addr + j) : j \in 0 .. (n - 1)}
WrittenBy(k, i) ==
    IF i.op = "store8" THEN Addresses(k.regs[i.dest], 1)
    ELSE IF i.op # "extra" THEN {}
    ELSE CASE ExtraOp(i) \in {"store16", "push16"} -> Addresses(k.regs[i.dest], 2)
           [] ExtraOp(i) = "call" -> Addresses(k.regs[i.a], 2)
           [] ExtraOp(i) = "xchg8" -> Addresses(k.regs[i.dest], 1)
           [] OTHER -> {}
-----------------------------------------------------------------------------
(* The emulator. *)

\* A byte never written holds anything, and is remembered to have been read.
EmuRead(e, addr) == IF addr \in DOMAIN e.mem THEN e.mem[addr] ELSE fill
EmuMark(e, addrs) == [e EXCEPT !.wild = @ \/ \E a \in addrs : a \notin DOMAIN e.mem]
EmuWrite(e, addr, byte) ==
    [e EXCEPT !.mem = [a \in DOMAIN @ \cup {addr} |-> IF a = addr THEN byte ELSE @[a]]]

EmuFetch(e) ==
    LET ip == e.regs[IP]
        n == ParseLength(EmuRead(e, ip))
    IN  [EmuMark(e, Addresses(ip, n)) EXCEPT
            !.regs[IP] = Word(@ + n),
            !.instr = [j \in 1 .. n |-> EmuRead(e, Word(ip + j - 1))]]

\* Stores below the RAM are made and then reported.
EmuStopIfReadOnly(e, addr) == [e EXCEPT !.ok = @ /\ addr >= RamAddr]

EmuMemory(e, i) ==
    LET r == e.regs
    IN  CASE i.op = "store8" ->
                EmuStopIfReadOnly(EmuWrite(e, r[i.dest], Low(r[i.a])), r[i.dest])
          [] i.op = "load8" ->
                [EmuMark(e, {r[i.a]}) EXCEPT !.regs[i.dest] = EmuRead(e, r[i.a])]
          [] i.op = "set4" -> [e EXCEPT !.regs[i.dest] = i.value]

\* A byte is pushed, or popped, with the register moved after, or before, it.
EmuPush(e, reg, byte) == [EmuWrite(e, e.regs[reg], byte) EXCEPT !.regs[reg] = Word(@ + 1)]
EmuPop(e, reg, dest, high) ==
    LET m == [e EXCEPT !.regs[reg] = Word(@ - 1)]
        byte == EmuRead(m, m.regs[reg])
    IN  [EmuMark(m, {m.regs[reg]}) EXCEPT !.regs[dest] = IF high THEN @ | (256 * byte) ELSE byte]

EmuCall(e, i) ==
    LET pushed == EmuPush(EmuPush(e, i.a, High(e.regs[IP])), i.a, Low(e.regs[IP]))
    IN  [pushed EXCEPT !.regs[IP] = pushed.regs[i.dest]]

EmuExtra(e, i) ==
    LET r == e.regs
    IN  CASE ExtraOp(i) = "not" -> [e EXCEPT !.regs[i.dest] = 65535 - r[i.a]]
          [] ExtraOp(i) = "store16" ->
                EmuStopIfReadOnly(EmuWrite(EmuWrite(e, r[i.dest], High(r[i.a])),
                                           r[i.dest] + 1, Low(r[i.a])), r[i.dest])
          [] ExtraOp(i) = "load16" ->
                [EmuMark(e, {r[i.a], r[i.a] + 1}) EXCEPT
                    !.regs[i.dest] = 256 * EmuRead(e, r[i.a]) + EmuRead(e, r[i.a] + 1)]
          [] ExtraOp(i) = "push16" ->
                EmuPush(EmuPush(e, i.dest, High(r[i.a])), i.dest, Low(r[i.a]))
          [] ExtraOp(i) = "pop16" ->
                EmuPop(EmuPop(e, i.a, i.dest, FALSE), i.a, i.dest, TRUE)
          [] ExtraOp(i) = "call" -> EmuCall(e, i)
          [] ExtraOp(i) = "xchg8" ->
                [EmuWrite(EmuMark(e, {r[i.dest]}), r[i.dest], Low(r[i.a])) EXCEPT
                    !.regs[i.a] = EmuRead(e, r[i.dest])]
          [] ExtraOp(i) = "clz" -> [e EXCEPT !.regs[i.dest] = Clz(r[i.a])]

EmuAlu(e, i) ==
    LET r == e.regs
    IN  CASE i.op = "inc" -> [e EXCEPT !.regs[i.dest] = Word(@ + i.value)]
          [] i.op = "dec" -> [e EXCEPT !.regs[i.dest] = Word(@ - i.value)]
          [] i.op = "skip" -> [e EXCEPT !.skip = IF Tests(r[i.dest], i) THEN i.b + 1 ELSE 0]
          [] i.op = "extra" -> EmuExtra(e, i)
          [] i.op = "div" /\ r[i.b] = 0 -> [e EXCEPT !.ok = FALSE]
          [] OTHER -> [e EXCEPT !.regs[i.dest] = Result(i.op, r[i.a], r[i.b])]

\* An ALU or short instruction that has no meaning is passed over.
EmuMisc(e, i) ==
    CASE i.op \in {"set8", "set16"} -> [e EXCEPT !.regs[i.dest] = i.value]
      [] i.op = "illegal" -> [e EXCEPT !.ok = FALSE]
      [] OTHER -> e

\* processRunNextInstruction: an instruction to be skipped is only fetched.
RunNextInstruction(e) ==
    LET f == EmuFetch(e)
        i == Parse(f.instr)
    IN  IF f.skip > 0 THEN [f EXCEPT !.skip = @ - 1]
        ELSE IF i.op \in MemoryOps THEN EmuMemory(f, i)
        ELSE IF i.op \in ToSet(AluTypes) THEN EmuAlu(f, i)
        ELSE EmuMisc(f, i)
-----------------------------------------------------------------------------
Bytes(instrs) == Magic \o FoldLeft(LAMBDA bytes, i : bytes \o Create(i), << >>, instrs)

\* The program as the emulator loads it, with the environment, and the RAM written before.
EmuMemoryOf(bytes, ram) ==
    [a \in 0 .. (Len(bytes) - 1) |-> bytes[a + 1]]
        @@ [a \in EnvAddr .. (EnvAddr + EnvLen - 1) |-> EnvData[a - EnvAddr + 1]]
        @@ [a \in RamAddr .. (RamAddr + Len(ram) - 1) |-> ram[a - RamAddr + 1]]

Init ==
    /\ \E s \in Starts, n \in RamLens :
          LET ram == [j \in 1 .. n |-> j]
          IN  /\ code = s.code
              /\ prog = Bytes(s.code)
              /\ proc = [regs |-> s.regs, ram |-> EnvData \o ram, alive |-> TRUE,
                         base |-> 0, buffer |-> << >>, instr |-> << >>]
              /\ emu = [regs |-> s.regs, mem |-> EmuMemoryOf(prog, ram), ok |-> TRUE,
                        skip |-> 0, instr |-> << >>, wild |-> FALSE]
    /\ room \in Rooms
    /\ fill \in Fills
    /\ turn = "kernel"
    /\ steps = 0
    /\ written = {}
    /\ excused = FALSE

\* What the kernel executes may be excused from being like the emulator's: a write past the
\* environment, which lands in the RAM, or the pop of a pointer into itself.
Excused(k, i) ==
    \/ \E a \in WrittenBy(k, i) : a - EnvAddr >= EnvLen
    \/ i.op = "extra" /\ ExtraOp(i) = "pop16" /\ i.dest = i.a

\* The addresses an instruction was fetched from, with the ones it skips.
FetchedFrom(before, fetched, run, i) ==
    Addresses(before.regs[IP], IF i.op = "skip" THEN Word(run.regs[IP] - before.regs[IP])
                               ELSE Len(fetched.instr))

\* The kernel executes an instruction, or kills the process that has none. The comparison ends
\* at a system call and at a set instruction whose fields nobody wrote.
KernelStep ==
    LET fetched == GetInstruction(proc)
        i == Parse(fetched.instr)
        run == ExecInstruction(fetched, i)
    IN  /\ turn = "kernel"
        /\ proc.alive
        /\ steps < MaxSteps
        /\ \/ /\ ~fetched.alive
              /\ proc' = fetched
              /\ UNCHANGED << excused, written >>
           \/ /\ fetched.alive
              /\ i.op \notin {"syscall", "garbage"}
              /\ proc' = run
              /\ excused' = (\/ excused
                             \/ Excused(fetched, i)
                             \/ written \cap FetchedFrom(proc, fetched, run, i) # {})
              /\ written' = (IF i.op = "clearicache" THEN {} ELSE written) \cup WrittenBy(fetched, i)
        /\ turn' = "emulator"
        /\ steps' = steps + 1
        /\ UNCHANGED << code, prog, room, fill, emu >>

\* The emulator catches up, one call at a time.
EmulatorStep ==
    /\ turn = "emulator"
    /\ proc.alive
    /\ emu.ok
    /\ emu' = RunNextInstruction(emu)
    /\ turn' = IF emu'.skip > 0 THEN "emulator" ELSE "kernel"
    /\ UNCHANGED << code, prog, room, fill, proc, steps, written, excused >>

\* A new tick of the kernel's process starts with an empty buffer.
Tick ==
    /\ turn = "kernel"
    /\ proc.alive
    /\ proc.buffer # << >>
    /\ proc' = Cleared(proc)
    /\ written' = {}
    /\ UNCHANGED << code, prog, room, fill, emu, turn, steps, excused >>

Next == KernelStep \/ EmulatorStep \/ Tick

Spec == Init /\ [][Next]_vars
-----------------------------------------------------------------------------
(* Properties. *)

\* The assembler's encoding is the one the kernel and the emulator decode: every instruction is
\* read back as it was written, with the length it was written with, and the shortest encoding of
\* a set has the value and the register that were asked for.
EncodingRoundTrips ==
    \A j \in DOMAIN code :
        LET i == code[j]
            set == CreateSet(i.dest, i.value)
        IN  /\ Parse(Create(i)) = i
            /\ Len(Create(i)) = ParseLength(Create(i)[1])
            /\ Len(set) = ParseLength(set[1])
            /\ Parse(set).dest = i.dest /\ Parse(set).value = i.value

\* A process that the kernel runs does what it does in the emulator: as long as the kernel has not
\* killed it, the emulator has not stopped either, has the same registers, and every byte of RAM
\* and environment written so far reads the same in the kernel, however the RAM file grew and
\* wherever ticks emptied the prefetch buffer. Not if the process read memory that was never
\* written, wrote past the environment, popped a pointer into itself, or executed an instruction
\* it had overwritten without clearicache.
EmulatorAgrees ==
    (turn = "kernel" /\ proc.alive /\ ~excused /\ ~emu.wild) =>
        /\ emu.ok
        /\ emu.regs = proc.regs
        /\ \A a \in DOMAIN emu.mem : (a >= RamAddr) => ReadBlock(proc, a, 1) = << emu.mem[a] >>

\* A byte in the prefetch buffer is the one in memory, unless the process wrote to it since the
\* buffer was cleared, by clearicache or by the start of a tick; blocks read from the environment
\* can run on into the RAM behind it.
PrefetchIsFresh ==
    (~excused /\ proc.base < EnvAddr) =>
        \A j \in DOMAIN proc.buffer :
            \/ proc.base + j - 1 \in written
            \/ ReadBlock(proc, proc.base + j - 1, 1) = << proc.buffer[j] >>
=============================================================================

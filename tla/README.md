# A formal model of the ArduinoOS kernel

TLA+ modules that model the kernel in `src/kernel` (and the emulator in
`src/tools`), TLC configurations that check them on small instances, and TLAPS
proofs of the results that hold for every size. Line numbers without a path refer
to files in `src/kernel`.

## 1. The system

ArduinoOS is a kernel for an AVR microcontroller (and a PC build of the same
code). One thread runs everything: the main loop in `kernel.c` polls devices and
gives each of up to 16 processes a *tick*, in which a bytecode interpreter runs up
to 160 instructions; some are system calls. Even the registers and the RAM of a
process are files, in a small file system in RAM mounted on `/tmp`. All
concurrency is therefore between ticks of different processes, between a tick's
local copy of a process and the file it came from, and (on the AVR) between the
main loop and one receive interrupt.

| Component | State | Operations | Hard behaviours | What makes it correct |
|---|---|---|---|---|
| Descriptor table, `kernelfs.c` | 64 slots: path, mode, 3-bit reference count | open, dupe, dupe-or-open, close, create, delete | the table or a count is full; slot 0, the invalid fd | counts equal references; exclusive files are open once; open files exist |
| Devices and paths, `kernelfs.c` | device table, mount points | add/remove device, path lookup, read, write, resize | device removed with files open; device index cached in a slot | a descriptor reaches the device it was opened on |
| Process manager, `procman.c` | process table, ProcData files, a tick's copy | tick, exit, kill, waitpid, fork, exec, signal, open, close, read, write, pipeopen, growth of RAM | copy against file; failure half way; who is woken, by what; pid reuse | no leak, no sharing of private files, waiters woken truthfully, nobody disturbs others |
| Interpreter, `procman.c`, `bytecode.c` | registers, RAM file, prefetch buffer | every instruction | edges of the memory map; a buffer that is stale | kernel and emulator execute a program alike |
| Mounts, `kernelmount.c` | mounted devices with the fd of their backing file; ring offsets inside it | mount, unmount, remount, functors | unmount with files open; failure in the middle of a remount; full and empty ring | a circular buffer file is a bounded queue; a mount holds its backing file |
| Main loop, `kernel.c` | kernel state and the time it was entered, SPI lock fd | boot, loop, shutdown begin/next/final, grab/release lock | timeouts against processes that die late or cannot be signalled | everybody is asked first; shutdown ends; lock holders are exclusive |
| MiniFs, `minifs.c` | header table and file regions on a byte volume | create, delete, resize, read, write | a file is moved because its gap is too small; no room | regions never overlap; contents survive a move |
| Circular buffer and tty, `circbuf.c`, `tty.c` | 64-byte ring, flags, activity count | push, pop, unpush, peek; receive interrupt; line editing | interrupt between two steps of the main loop; ring full | no byte lost or invented below the limit |
| Hardware devices, SD, `hwdevice.c`, `sd.c`, `pins.c` | device slots, grabbed pins, a cached block | register, deregister, mount, unmount, tick; block read/write | failure half way through register or mount; dirty cache at unmount | pins have one owner; acknowledged bytes reach the card |
| FAT, `fat.c` | none of its own (read only) | lookups | geometry at its limits | agreement with the on-disk format |
| Time, strings, log, UART, SPI transfer, program table | little or none | conversions, wrappers | numeric edges | agreement with a reference definition |
| Tools (`src/tools`) and programs (`src/userspace`) | sequential | assembler, emulator, builders; shell, init | – | not part of the kernel's state |

How they interact: the process manager calls the file system (synchronously),
which calls a device functor, which for a mounted ring calls the file system again
on the backing file. `kernel.c` and the hardware drivers call the process manager
to kill and signal. System calls call all of them. State is shared through the
global descriptor table: a *local* fd of a process indexes its own table of
*global* fds, and a global fd is shared after fork by counting references.

## 2. Modules

| Module | Models | Extends |
|---|---|---|
| `KernelFs` | descriptor table operations as pure operators on a table value | – |
| `FdTable` | the table as a component with arbitrary clients | `KernelFs` |
| `ProcFs` | what the process manager does to tables, files and pipes, as operators on a file system value | `KernelFs` |
| `ProcMan` | the process manager: ticks and system calls | `ProcFs` |
| `Mounts` | device table, mount table, volumes and rings in files, composed with the descriptor table | `KernelFs` |
| `Kernel` | boot, main loop and shutdown, over processes reduced to life, handler and signal | – |
| `ByteQueue` | abstract: a bounded queue of bytes, the last of which may be taken back | – |
| `CircBuf` | the ring: head, tail and an array | – |
| `Tty` | the terminal with its interrupt; its ring implements `ByteQueue` | `CircBuf` |
| `HwDevice` | device slots, pins, SD cache, keypads, device files and the SPI lock | – |
| `Bytecode` | encoding and decoding of instructions | – |
| `Machine` | the kernel's interpreter and the emulator, side by side | `Bytecode` |
| `FileStore` | abstract: what a MiniFs volume promises, a map from names to contents | – |
| `MiniFs` | the volume itself: units, regions, the table, bytes; implements `FileStore` | – |
| `MC...` | instances for TLC | |
| `KernelFsProofs` | lemmas about the operators | `KernelFs` |
| `FdTableProofs`, `ProcManProofs`, `MountsProofs`, `MiniFsProofs`, `KernelProofs`, `HwDeviceProofs`, `TtyProofs` | invariants and theorems | the module of that name |

Definitions whose comment begins with "Mutant" are deliberately wrong variants of
the definition below them; each is a bug the code might have had, and shows that
some property would have noticed it. No specification uses them.

### KernelFs and FdTable

A slot is `[path, mode, ref]`; the code keeps mode and count in spare bits of the
path string. `NewFd` is the search of `kernelFsFileOpen` (the last free slot wins,
and 0 if there is none), `FileOpen` writes that slot *whatever it is*, so an open
in a full table writes slot 0 and returns "invalid". `FileClose` works on any
slot, 0 included. In `FdTable` clients call these in any order; the history
variable `held` counts what they were given.

### ProcFs and ProcMan

One action is one kernel function run to completion, with all the calls it makes:
nothing else runs meanwhile, as there is one thread. What does interleave is:

- ticks of different processes (`turn`, `run`);
- system calls within a tick, in any number and order, as the program may be any;
- the two versions of a ProcData. `procManProcessTick` loads the file into a local
  copy (`loc`) and stores it at the end of the tick (`TickEnd`). System calls work
  on the copy. But a kill by another process loads the *file*, the reading of
  `ramFd` in a kill always does, and a signal works on the file even if its target
  is the caller. `procFile` and `loc` are kept apart for this, and `Data(pid)` is
  the version that counts.

| Code | Model |
|---|---|
| `processes[]` (state, progmemFd, procFd, stateData) | `processes` |
| `/tmp/proc<pid>` contents: r0, signal handlers, ramFd, fds | `procFile` |
| local `procData` of `procManProcessTick` | `loc` |
| `kernelFsData.fdt`, existing files, mounted circular buffers and their fill level | `fs.fdt`, `fs.files`, `fs.pipes` |
| `procManProcessTick` before its loop | `TickActive`, `TickTimeout`, `TickReadReady`, `TickWriteReady`, `TickNothing` |
| ... after its loop | `TickEnd` |
| `goto kill`, the exit system call | `Exit(status)` |
| `procManProcessKill` | `Kill`, used by `Exit`, `KillSyscall`, `WriteBeyondRam`, `Exec` |
| `procManProcessMemoryWriteBlock` beyond the end of RAM | `WriteBeyondRam` |
| `procManProcessSendSignal` | `SendSignal` in `SignalSyscall` |
| system calls fork, exec, waitpid, kill, signal, registersignalhandler, open, close, read, write, pipeopen, resizefile of a new file, delete | the action of that name |

Abstractions:

- Instructions that only change registers or bytes are not steps (`Machine` has
  them). `r0` is kept only as far as waitpid's answers go, and until the process
  runs again.
- There is one kind of signal and one handler flag; where the return address goes
  is left out, but not that pushing it may need more RAM.
- File contents are left out, except how many units a pipe holds (`Mounts` has the
  bytes of rings). A read or write moves any amount the pipe allows.
- Whether there is space on `/tmp`, in the device table or in the mount table is an
  outcome chosen by `Success`; `{TRUE, FALSE}` explores both.
- Time is not a number: a timed wait may expire at any of the process's turns.
- The program a process executes is a path; the interpreter line of a script and
  the search path are resolved outside the model.
- Closing several descriptors one after the other is written as their combined
  effect. That is exact if no descriptor occurs twice in one local table, which is
  a consequence of `RefCountsExact` with fork and open as the only sources.

`stale`. When RAM is reopened it may get another descriptor. If the process dies in
that same tick, the kill uses the old one (see section 6). What follows depends on
which file has that slot and on uninitialised stack memory, so a run is followed
up to and including that kill, but no further: `stale` becomes TRUE and only
`NotFollowed` remains possible. The same holds for a growth of RAM by a process
that lost its ram file. Properties guarded by `~stale` say nothing about the
states after that, so none of them is about what such a kill, or the kill of a failed
exec, leaves behind.

### Mounts

| Code | Model |
|---|---|
| `kernelFsData.devices` | `devs`: type, path, user data, whether it is a mount |
| `kernelFsData.fdt` | `fdt` (as in `KernelFs`) and `cached`, the device index of an open file |
| `kernelMountedDevices` | `mounts` |
| what flat devices hold | `stores`: a volume of files with their bytes, or something else |
| `kernelFsGetDeviceFromPathRecursive` | `DeviceFromPathRecursive`, letter by letter, for it compares prefixes |
| `kernelMount`, `kernelUnmount`, `kernelRemount` | `Mount`, `MountHalf`, `Unmount`, `RemountMiniFs`, `RemountFails` |
| circular buffer functors | `RingRead`, `RingWrite` over `PushByte`, `GetOffset`, `SetOffset` |
| `kernelFsFileDelete` of a device, of a file | `DeleteDevice`, `DeleteFile` |

Paths are sequences of letters here, and nowhere else, since which device serves a
path depends on them. A ring is the bytes of its backing file, offsets included, so
the number of bytes an offset takes (`OffsetSize`) and its wrapping are in the
model; `sent`, the history of what was written and not yet read, is what they must
amount to. A volume is a map from names to contents, which `MiniFs` implements; how
full it is (`Total`) is the number of its `Cells`, pairs of a name and a place in the
file of that name.

Three assumptions say what the constants stand for. `MountsAssumption`: paths are
absolute (`kernelFsPathIsValid`), volumes are mounted from flat devices and rings from
files of volumes, at whose paths programs mount nothing; `kernelMount` would also take a
ring on a device, or a flat file from a file, which are left out. `BootAssumption`:
`kernelBoot` adds no path twice, and flat devices (`/dev/ram`, `/dev/eeprom`, SD cards) are
writable and have nothing below them. `StoresAssumption`: what is on a device at the start
fits on it, and files consist of bytes and are no longer than a `KernelFsFileOffset` can
say. User data of the devices of the boot are kept as `kernelUnmount` and `kernelRemount`
see them, after the conversion to a `KernelFsFd`.

### Kernel

| Code | Model |
|---|---|
| `kernelState`, time since `kernelStateTime` | `state`, `waited` |
| `kernelBoot` and what it has set up | `stage`, `present` |
| process table and ProcData files | `alive`, `file` (handler registered, signal delivered) |
| `procManTickAll`, `procManProcessTick` | `turn`, `ticking`, `copy`; `TickBegin`, `TickEnd`, `TickSkip` |
| `kernelShutdownBegin` / `Next` / `Final` | `ShutdownBegin`, `ShutdownNext`, `LeaveLoop` and `ShutdownFinal` |

`ProcMan` has the process table in full; this module keeps what a shutdown
depends on, the copy against the file included. `excused` and `late` are histories.

### ByteQueue, CircBuf and Tty

`CircBuf` has the operations of `circbuf.c` on a record of head, tail and bytes.
`Tty` has one action per step the interrupt can come between: `HandleByte` is the
interrupt, and may happen in every state; `ttyFlags |= ...` and `&= ~...` of the
main thread are a load (`Load`) and a store (`Store`); `ttyTick` is `TickBegin`, a
`TickSignal` for each process, and `TickClear`. `dropped` records that a store has
overwritten a ctrl+c that came after the load (section 6), so that the liveness
property speaks of the others.

### HwDevice

| Code | Model |
|---|---|
| `hwDevices` with the card, keypad or sensor of the slot | `hw` |
| `pinsUsedArray`, power pins that are high | `used`, `high` |
| device files and which processes have them open | `files`, `open` |
| `kernelSpiLockFd` and a process that has `/dev/spi` | `spi` |
| the blocks of a card | `cards`; `written` is what writers were told |
| `sdInit` | `SdMount`, `SdMountFails` at each of `InitSteps` |
| `sdReadByte`/`sdWriteByte`, cache and write back | `ReadByte`, `WriteByte`, `Ensure`, `WriteBack`, `Load` |

Operations hold the lock only inside one call, and a process holds it between calls;
so a transaction fails when a process has `/dev/spi`, or when the card does not
answer: `io` is how many transactions of an operation succeed before one does not.

What the code leaves uninitialised is a choice. Registering a card reader sets neither
the bits of its cache (`garbage` in `Register`) nor its mount point: `mount` is `NoPath`
until a mount sets it, and an unmount that finds it so deletes the file at any path, or
none (`UnmountPaths`). This happens after an initialisation that failed late (section
6). A residue that is no string at all is not followed.

### Bytecode and Machine

`Create` and `Parse` are `bytecodeCreateInstruction...` and `bytecodeInstructionParse`,
bit by bit. In `Machine` the kernel executes an instruction (`KernelStep`), then the
emulator does (`EmulatorStep`); `Tick` ends the kernel's tick, which drops its
prefetch buffer. `WriteBlock`, `ReadBlock`, `GetByte` and `Prefetched` are the memory
map of a process. `excused` becomes TRUE when a program does what only one of the
two defines (section 6 lists these); `wild` is a read of memory never written, which
the emulator gets from `malloc`.

### FileStore and MiniFs

| Code | Model |
|---|---|
| table of first units in the header of the volume | the domain of `files` |
| length, size factor and name at the start of a file | `files[o]`, for a file that starts at unit `o` |
| everything else on the volume | `bytes` |
| `miniFsFileCreate`, `miniFsFileDelete`, `miniFsFileWrite` | `Create`, `Delete`, `Write` |
| `miniFsFileResize`, called by `kernelFsFileResize` | `Resize`: `Shrink`, `GrowInPlace` or `GrowByMoving` |
| `miniFsFindFreeRegionFactor` | `FindFreeRegion` |
| `miniFsResortFileOffsets` | `Resort`, see below |

A refused request changes nothing and is not a step. Every operation that changes
the table ends with a sort of it, and all of them rely on it being sorted with the
unused entries last. In the model a table is the set of its entries, which is
the same thing as long as the sort sorts; `Resort` is the code's algorithm, passes
that get shorter included, and `ResortSorts` checks it, in every
state, on all tables made of the files of the volume, in any order. Arithmetic is that of the PC build, where sums are wider
than the fields they end up in; a size is cut off to its field when it is stored.
Files that overlap would also overwrite each other's headers; as headers are kept
apart from `bytes`, the model is exact only up to the first state in which two
files overlap, which `RegionsDisjoint` says does not come (and the violation run
stops there).

`Store` maps a volume to the abstract map: the contents of a name are the bytes
behind its header. The abstract `Resize` keeps the common prefix and lets new room
hold anything, since the code does not clear it.

## 3. Runs

`tlc -config <cfg> <module>` for each line.

| Run | Module, configuration | Question | Bounds that matter |
|---|---|---|---|
| `fd_table` | `MCFdTable`, `MCFdTable.cfg` | counts equal references, exclusive files are open once, open files exist | 4 slots, counts below 3, an exclusive and a shared path: the table fills up and counts reach their limit |
| `proc_life` | `MCProcMan`, `ProcManLife.cfg` | waiters, what waitpid reports, timed waits end | 3 pids: all in use, reused, waiting in a chain and in a cycle; signals |
| `proc_pipes` | `MCProcMan`, `ProcManPipes.cfg` | life of a pipe, exact counts, blocked processes hold what they wait on, nobody disturbs others, readers are served | 2 processes, 2 pipes of one unit (full and empty at every transfer), counts below 2 so that each fork opens everything again, 11 usable slots so that the table runs out on the way, failures of every request for space |
| `proc_exec` | `MCProcMan`, `ProcManExec.cfg` | private files, nothing left by the dead | 2 processes that fork, exec, grow, signal, open, create and end by themselves or by the kernel, each with its failures; ram files move between slots, or are lost to a signal; 7 usable slots and counts below 2, so that each fork opens everything again and one slot is left |
| `minifs` | `MCMiniFs`, `MiniFs.cfg` | disjoint regions, no gap missed, the sort, refinement of `FileStore` | 5 units of 2 bytes, 3 files with headers of 1 and 2 bytes and up to 2 bytes of contents, two of the names interchangeable: full volumes, gaps in every place, moves in both directions |
| `kernel` | `MCKernel`, `Kernel.cfg` | everybody is asked before anybody is killed, init is last, a shutdown ends | 3 pids (init, two others or a reuse), timeouts of 2, every failure of boot |
| `mounts` | `MCMounts`, `Mounts.cfg` | an open file is served by its device until that is removed, volumes stay intact below mounts, remount keeps files, a ring is a queue | 8 devices, 2 mounts, 3 usable descriptors, one removal at a time in a history, files of 4 and 6 bytes with bytes of 6 values, so that offsets take one and two bytes; 2 bytes are pushed at a time, so that a ring fills, wraps and refuses |
| `hw` | `MCHwDevice`, `HwDevice.cfg` | pins have one owner, no card is powered without use, acknowledged bytes are kept | 2 slots, 5 pins of which the bus has one, 2 blocks of 2 bytes, reads and writes across the border of blocks, failure of any of the first 4 transactions; requests that collide with a pin of the bus, with each other and with themselves |
| `tty` | `MCTty`, `Tty.cfg` | the ring is a queue, a full line can be read, a ctrl+c is delivered | a ring of 2 bytes, every kind of byte at every step, 2 processes, at most 2 line ends counted |
| `machine` | `MCMachine`, `Machine.cfg` | decoding inverts encoding, kernel and emulator agree, the prefetch buffer is fresh | every instruction alone; each that uses memory with addresses at every edge of the memory map; a store followed by what it may have overwritten; up to 3 instructions, RAM of 0 and 4 bytes that may or may not grow |
| `wrong_device`, `minifs_wide` | `MCMounts`, `MountsPins.cfg`; `MCMiniFs`, `MiniFsWide.cfg` | statements of comments that the code does not keep | violated; section 6 |

`Ops` selects the system calls of a `ProcMan` run, so that each question is asked with
the calls that bear on it; together the passing runs take every action. Two or three
processes are enough for parent, child and a third party; all conflicts in the
code are between a pair (killer and victim, waiter and target, the two ends of a
pipe) with the pid of one of them reused.

In `MiniFs.cfg` the widths are larger than any request needs (`RequestsFit`), as they
are in the system when no program asks for more than a volume can hold; in
`MiniFsWide.cfg` they are not. In `MountsPins.cfg` the devices are those of the boot
order with two pins whose names have the same length; in `Mounts.cfg` names have
different lengths, so that the properties there are about the rest of the code.

Deadlock is checked where the system never stops. It is off in `mounts`,
`wrong_device`, `hw` and `machine`, whose bounds (removals, transactions,
instructions) end every behaviour of the model.

### Fairness

- `ProcMan`: `WF_vars(Tick)`, as `procManTickAll` always comes to the next pid and a
  tick ends after at most 160 instructions; and `SF_vars(turn = pid /\ TickTimeout)`:
  time passes, so a process whose deadline is looked at again and again finds it
  expired. Nothing is assumed of programs: they may never exit, read or write.
- `Kernel`: `WF_vars(Loop)`, for the same reason, and `WF_vars(Pass)`, time passes.
- `Tty`: `WF_vars` of the steps of a `ttyTick` that has begun and of the second halves
  of updates, for the main thread always goes on; `SF_vars(TickBegin)`, for the main
  loop comes back to `ttyTick` whatever processes do in between. Bytes need not come.

## 4. Proofs

`tlapm <module>` checks them; nothing is assumed beyond the named assumptions on
constants (sizes are positive, paths are the ones the kernel makes up).

`FdTableProofs`: the inductive invariant is `TypeOK`, `RefCountsAreHeld`,
`ExclusiveFilesOpenOnce` and `OpenFilesExist` together. Counts need types (a count
is below its limit), and exclusiveness needs counts: dupe-or-open only opens again
what is open, so it must refuse what cannot be shared.

`ProcManProofs`: the inductive invariant `IInv` strengthens `TypeOK` where a step
needs more than types:

- every slot in use has a count of at least one (`CountedTables`), or closing it
  would give a negative count; `KernelFsProofs` and the first part of `ProcManProofs` show that each
  operation preserves this, up to fork's duplication of a whole local table;
- the last local fd is free in *both* versions of each ProcData (`SafeDatas`), as
  either may replace the other;
- `WaitersHaveTargets`.

`KillPreserves` is shared by exit, kill, failed growth and failed exec;
`WaitersKept` by all actions that change one process and leave it alive.

Counts, private files and pipes need a second invariant, `KInv`: while `~stale`, the
state is `Balanced`. None of the properties is inductive alone. That a count is
right is of no use unless every place that keeps the descriptor is known;
that closing the ram fd of a process leaves others alone needs that it is the
descriptor of its own file; that a dead pid's files are gone needs that nobody else
has them open. So `Balanced` speaks of all of them together, through *books*: a
function `held` from places (program, proc and ram of each process, its local fds,
the backing files of pipes) to descriptors.

- `BooksBalance`: some `held` says what the state keeps in each place (`BooksOf`), and
  the file system value is `Consistent` with it: counts equal the number of places,
  each place has a file that belongs there under its descriptor, and the files that
  exist are those of the places.
- `PipesUsed`: a mounted pipe has an end somebody holds.
- `LivesAgree`: a process has its program and its proc file, or nothing at all.
- `WaitedFdsAreHeld`, which is a property, too.
- `RamRemembered`: a kill reads the ram fd from the file, which may be older than the
  copy, but does not miss it.

For each operator of `ProcFs` (open, close, duplicate a local
table, close it, mount or unmount a pipe), a lemma says which books it leads to from given
ones and that it keeps every path under a descriptor somebody still holds. The proofs follow
the chain of such operators in each action, every way of failing and of taking back
what was done included, with one lemma for each (`ForkKeeps`, `ExecKeeps`, `GrowKeeps`,
`KillKeeps`, ...), which also gives `FdsStable`, the action property. The proviso
`~stale` is necessary: after a kill with a descriptor its owner had replaced the code
does lose count (section 6). Balance at boot needs `BootAssumption`, that the table has
room for what boot opens. `WaitpidTellsTheTruth` follows each action by who is woken.

`MiniFsProofs`: the theorems hold under `RequestsFit`, that the largest request with
its header fits in 255 units and in 65535 bytes; without it they are false
(run `minifs_wide`). The inductive invariant is `TypeOK`, `RegionsDisjoint` and
`ContentsFit` together: that a region found free meets no other
(`FoundIsFree`) needs the order of the regions, that a file can be shrunk or
grown where it is needs that its length is within its size, and that its size is
positive, which is what keeps two files from starting at the same unit, follows
from its header being there. `PlacedPreserves` is shared by create and move, `ChangedPreserves`
by shrinking and growing in place.

`FreeRunsAreFound`: the gap that a free run of units lies in begins at unit 1 or behind
the last file before the run, found as the one with the least distance to it. `VolumeIsAStore` uses the
invariant `SInv`, which adds that no file is longer than anybody asked for; the contents of
different files are in different bytes (`CellsApart`), so each operation changes one name
of the abstract map (`CreateStores`, ..., `WriteStores`), and a move copies each byte to where
the new place has it, for it goes to a region that was free.

`SortAlwaysSorts` is an induction over the passes and, in each, over its steps.
`PassInv`: up to where the pass is, the last of the entries has arrived; nothing was
exchanged only if they were in order; and what every entry was below, every entry is still
below. `SortInv`: after k passes the last k entries are in place, and all of them are if the
last pass changed nothing, which is when the code stops. The exchange of two
neighbours is a bijection of the places an entry is at (`SwapFacts`), so counts stay.

`MountsProofs`: the types need `TInv`, which adds what the tables mean to each other: a
mounted device names a descriptor that can be one, every descriptor is open once
(`OneRef`), the descriptor of a mount is open, for a volume on a flat device, and no two
mounts share one (`MountsFit`), and the volumes of all stores fit (`StoresFit`). One
lemma for each way the table of mounts changes (`MountsGrow`, `MountsShrink`,
`MountsExchange`) and for each way a store does (`FilesGrow`, `FilesShrink`, `CopiedFits`,
`BytesReplaced`); that a push leaves the length of a file alone is an induction over the
bytes pushed.

`VolumesIntact` is about `FlatDevicesStay`: programs unmount and delete other devices
only. The code does not refuse to delete `/dev/ram` while it is not open, nor to unmount
a device whose user data happens to be the descriptor of a mount; after
that a path of the same name may mean another device. Its invariant `VInv` says that each
flat device of the boot is there and nothing is below it (`FlatsFit`), that its path is
open at most once (`OpensFit`), which is what the refusal to open writable devices twice
achieves, and that what is under each mounted volume is a volume (`VolumesFit`). A write
over a flat device then is by a program that holds its only descriptor, or through a
flat file mounted from it, and in neither case can a volume be mounted from it.

The two action properties follow from `TInv` alone. `RemountsKeepFiles`: the entry that
is exchanged is the one the device will find (`RemountShowsTheSame`), no other device is
touched (`RemountTouchesOne`), and new devices take free entries.
`OrphansAlwaysHaveACause` follows each entry of the table of mounts through each step:
unmounting moves the last one into the gap (`WithoutFacts`), and the only one lost is that
of the device named. The proof made the list of causes complete: an orphan's descriptor
may be given to the next mount, and then unmounting either takes the other's mount.

`FilesStayServed` is about `NamesTellApart`, which says of the names of devices and files
what the search for a device needs: no device has a name as long as that of a file
programs open, or one that starts like the volume the file is on, unless a device that
never goes away hides it by being met first. That is what `wrong_device` lacks: the
hypothesis holds for the constants of `mounts` and fails for those of `MountsPins.cfg`, both
evaluated with TLC. The invariant `SInv` knows which names there can be, that only the
boot and mounts of MiniFs make volumes, and that the first devices of the boot are still
there. The search is then right (`SearchFinds`): whatever it takes at the full length of
the path is the file itself, and otherwise it takes the volume, for what agrees with more
of the path comes later in the scan and nothing wrong agrees with as much
(`TakenFacts`, `TakenReaches`). That it stays right is the bookkeeping of the
device table: an entry in use is never given to another path (`PathsKept`).

`RingsHoldWhatWasSent` says for every size of file, width of offsets and bytes written what
`mounts` checks for files of 4 and 6 bytes. Its first part is about one file. An offset is
put together again from its bytes, most significant first, for one, two and four of them
(`DigitsFacts`, `GetOffsetIs`); writing one offset leaves the other and the buffer alone
(`SetHeadFacts`, `SetTailFacts`); what is held between two offsets is given without
remainders (`HeldIs`), so that reading takes the first byte (`HeldPop`) and a round of the
writing loop appends one or finds the ring full (`PushByteFacts`); the whole write is an
induction over its rounds (`RingPushed`). `IsRingOf(b, q)` says that file `b` holds `q`.

The second part is about who else may write the file. `RingHoldsWhatWasSent` alone is not
inductive: it does not say that the file of a ring is the file of no other, nor that the
tables lead to it. `RInv` does. For each ring that is followed there are a device, its
mount, the descriptor the mount holds, and a volume that serves it (`RingTables`) and shows
a file that holds the history (`RingData`); no other descriptor has that file (`Alone`); no
two rings share a descriptor (`RingsApart`); devices have paths of their own
(`PathsApart`). With `VInv` and `SInv`, a write through any other descriptor then reaches
another file (`OtherFile`), a write over a flat device reaches another store, and a remount
either moves the volume with all its files or formats a device nobody has open
(`StoreNotOpened`, `RemountKeepsRing`). Before it was proved TLC found `RInv` in all states of `mounts`
and in the first million of an instance with two rings.

The theorem has three hypotheses. `FlatDevicesStay` and `NamesTellApart` are those of the
other theorems and hold for the constants of `mounts`. `VolumesTellApart` is about
behaviours: no volume names the mount of another in its user data, unless the other is
neither mounted nor ever remounted. The code does not enforce it. A ring mounted from a
read-only file stays behind without its mount (`MountHalf`), with the number of a
descriptor that has been closed; the next volume is mounted and gets that number; unmounting
the first device then takes the mount of that volume, closes its descriptor, and a second
volume mounted after that gets the number again. Both volumes now show the files of the
second, and a program can write through the first into a ring of the second, whose bytes
are then not those sent. `RingsHoldWithoutOrphans` gives the hypothesis in terms of what the
runs look at: while no device has lost its mount (`Orphans`), no two devices name one mount
(`MountsApart`), provided that no volume of the boot that is remounted has the number of a
descriptor in its user data (`BootVolumesTellApart`: `/etc` has 0, which is none; the
volumes with programs have addresses, of which the last byte counts). How a device loses its mount is `OrphansAlwaysHaveACause`.

`KernelProofs`: the invariant adds three facts to the types (`Types`, which says what
`TypeOK` says without sequences): while the kernel boots nothing runs
(`BootComesFirst`), only a process that has the turn is in its tick
(`TicksHaveATurn`), and, stronger than `EveryoneIsAsked`, init too has been asked or
is excused (`AllAskedOrExcused`): init's forks are excused because init is, and pid
0 may be handed out again after init has died. That nobody is killed early then
follows from the guard of `ShutdownNext` by counting: if only one process is left
and init lives, that process is init, which this step does not kill.

`HwDeviceProofs`: the invariant adds to `PinsHeldByDevices` and `PoweredWhileUsed` only
that an unused slot has no pins and a device at least two (`Slots`). Each needs the
other: a failed registration clears the pins it had grabbed, which leaves the power of
others alone because power pins are pins in use (`HighIsUsed`) and pins have one owner.
`QuietStep` is for the steps that keep all slots, `PowerStep` for those that turn one
card on or off.

`WritesAreKept` uses the types (`TInv`, stronger than `TypeOK`: each slot has the fields its
type has, and a ring of keys has room left) and `CardInv`: a card that is mounted will hold what
writers were told once its cache is written back, and a valid cache that is not dirty is what
the card holds (`Sound`); every other card holds it now. The second part of `Sound` is what
reading needs to be harmless, for it may replace the cached block. A read or a write of many
bytes is a chain of single ones, any of which may fail; `ReadChain`, `WriteChain` and
`ScanChain` show that a property of single steps holds of chains of any length.

`TtyProofs`: `ContentIs` rids the ring of remainders, `PushAppends`, `PopTakesFirst` and
`UnpushTakesLast` relate it to the queue, and `RingSteps` says that every step of the
terminal is one of these or leaves the ring alone. The invariant adds that the line
ends in the ring are at most those counted, for which the three operations must be
followed through the set of line ends (`EndsOfAppend`, `EndsOfTail`, `EndsOfFront`).

| Theorem | Result |
|---|---|
| `FdTableProofs!RefCountsExact`, `ExclusiveOpen`, `NoDanglingOpenFile`, `TypeCorrect` | the invariants of the descriptor table |
| `ProcManProofs!TypeCorrect` | all state stays in its ranges through every tick and system call |
| `ProcManProofs!WaitersAreWoken` | nobody waits for a dead process |
| `ProcManProofs!LastFdNeverUsed` | the search for a free local fd stays inside its array |
| `ProcManProofs!BooksStayBalanced` | the invariant of the books, for any number of processes and descriptors |
| `ProcManProofs!ReferencesAreCounted`, `FilesArePrivate`, `DeadLeaveNothing`, `PipesLiveAsLongAsUsed`, `WaitersHoldTheirFds` | exact counts; own files; pids can be reused; the life of a pipe; who waits holds what he waits on: all while `~stale` |
| `ProcManProofs!DescriptorsAreStable`, `WaitpidTellsTheTruth` | action properties: nobody changes the descriptors of others; what waitpid reports is so |
| `MountsProofs!TypeCorrect` | tables stay in their ranges and no volume holds more than fits, whatever is mounted, remounted, created and written |
| `MountsProofs!VolumesIntact` | under `FlatDevicesStay`, no mounted volume is ever written over or formatted |
| `MountsProofs!RemountsKeepFiles`, `OrphansAlwaysHaveACause` | action properties: a remount keeps all files; the ways a device can lose its mount |
| `MountsProofs!FilesStayServed` | under `NamesTellApart`, an open file is served by the right device until that device is removed |
| `MountsProofs!RingsHoldWhatWasSent`, `RingsHoldWithoutOrphans` | under `FlatDevicesStay`, `NamesTellApart` and as long as no two volumes name one mount, or no device has lost its own, a ring in a file holds exactly what was sent and not yet read, for every size |
| `MiniFsProofs!NoOverlap`, `FilesAreWhole`, `TypeCorrect` | under `RequestsFit`, for every volume: regions are disjoint and inside it, files are inside their regions, names are unique |
| `MiniFsProofs!FreeRunsAreFound`, `SortAlwaysSorts` | no gap that is large enough is missed; the table is sorted, for any number of files |
| `MiniFsProofs!VolumeIsAStore` | `MiniFs` implements `FileStore`, step by step |
| `KernelProofs!EverybodyIsAsked`, `InitIsLast`, `NobodyIsKilledEarly` | the three safety properties of the shutdown, for any number of processes and any timeout |
| `HwDeviceProofs!PinsHaveOneOwner`, `PowerIsUsed` | pins have one owner and exactly what is used is powered, whatever fails half way |
| `HwDeviceProofs!TypeCorrect`, `WritesAreKept` | keypad rings never overrun; no byte reported as written is lost while its card is mounted, for cards of any size |
| `TtyProofs!RingIsAQueue`, `LinesStayReadable` | the terminal implements `ByteQueue` for every size of the ring, and a complete line can be read |

Recursive functions (passes, chains of bytes) are reasoned about with induction over
sets of numbers: the set of lengths for which a claim holds contains the next one with
each, so a least counterexample does not exist (`Induction`, `InductionFromOne`, from
`LeastElement`). That the function exists is shown in the same way (`PassExists`,
`SortExists`, `ReadExists`, ...).

Only model-checked: `EncodingRoundTrips`, `EmulatorAgrees` and `PrefetchIsFresh` of `Machine`,
which uses bitwise operators that no prover here knows; and all liveness (`TimedWaitsEnd`,
`ReadersAreServed`, `ShutdownEnds`, `BreaksAreDelivered`), which is out of the prover's
reach, as is ENABLED.

## 5. Plan

Done: `KernelFs`, `FdTable`, `ProcFs`, `ProcMan`, `FileStore`, `MiniFs`, `Kernel`,
`ByteQueue`, `CircBuf`, `Tty`, `Mounts`, `HwDevice`, `Bytecode`, `Machine`, with their
runs and the theorems above.

Next, in this order:

1. Pure algorithms against a reference: path normalisation, date conversion, memory
   moves that overlap.
2. FAT lookups, once the code reports file lengths.

## 6. Where code and comments disagree

Shown by runs:

- `wrong_device`. The comment at `kernelfs.c:1595` wants the device with the longest
  matching path, and the assertion at `kernelfs.c:1131` that the device an open file
  remembers serves it. `kernelFsGetDeviceFromPathRecursive` stops at the first device
  whose name is as long as the path, even if the last letters differ
  (`kernelfs.c:1619`). So `/dev/pin1` to `/dev/pin9` are opened as `/dev/pin0`, and, in
  the Arduino build, `/dev/spi` as `/dev/ram`. The proof of `FilesStayServed` names the other
  ways the search goes wrong: a device `/ta` before `/t` in the table is taken for the file
  `/t/f`, and so is a device mounted at `/t/f` for the file `/t/f1`, for a match is counted
  in letters and not in parts of a path.
- `minifs_wide`. `minifs.c:240`: a large enough region is looked for. The size is cut
  off to 8 bits first (`minifs.c:242`), so that a file of more than 32640 bytes with
  its header is taken for a small one; `kernelFsFileResize` lets such a request
  through (`kernelfs.c:716`).

Met while modelling, and part of the models.

Descriptors and processes:

- `kernelfs.h:114`: closing the invalid fd does nothing. It frees slot 0 if an open
  has found the table full before (`kernelfs.c:784`). Nothing holds slot 0, so the
  effect is confined to that slot, which the theorems above confirm.
- `kernelfs.h:123`: only character devices can make a read wait. A
  descriptor opened for writing only does too, for ever (`kernelfs.c:1018`).
- `procman.h:45`: a kill uses the ProcData it is given instead
  of loading the file. It does for the local fds, not for the ram fd
  (`procman.c:444`). A process that grows its RAM and exits in the same tick may
  leave `/tmp/ram<pid>` behind, and closes a descriptor and deletes a file that are
  not its own.
- `procman.c:434`: a kill closes the ram file and deletes it. An exec that cannot resize it
  has closed it before (`procman.c:3315`), and the kill then looks for its path under a
  slot that is free. The file stays, or another is deleted in its place, and no fork can
  have that pid while it is there.
- `procman.c:802`: the first process uses pid 0 and exists as long as the system
  runs. The kill system call spares it, but nothing keeps it from exiting.
- `procman.h:15`: local fds go up to 8. `procManProcessOpenFile` never gives out the
  last one (`procman.c:3682`); that this is so is `LastLocalFdUnused`, which is proved.

Shutdown: the caller of shutdown loses its own suicide signal, as the end of its
tick overwrites the file the signal went to (`kernel.c:243`). If init has died and
one process is left, `kernelShutdownNext` kills that one at once, without the 30 s
that `man/1/shutdown:10` speaks of. Forks of init made while the others are waited
for are never asked.

Terminal: a backspace can remove a ctrl+d without taking back the count of line
ends (`tty.c:253`), after which the terminal is readable with nothing in it. The
updates of `ttyFlags` in the main thread are not atomic (`tty.c:223`), so a ctrl+c
between their two halves is lost. A full ring without a line end accepts nothing
more, the line end included.

Mounts: unmount and delete do not look for open files below the mount point, which
go on with the index of a device that is gone, or of the one that was given its entry:
the assertions at `kernelfs.c:1131` and its likes then fail, and `ServedUntilRemoved`
says that they hold up to the removal. Unmount takes any device's user data
for a descriptor. A ring on a read-only file leaves a device without a mount.
Remount reads a FAT volume as if it were MiniFs and leaks a descriptor. Deleting a
mounted device leaves its mount and its open file; a MiniFs volume counts as empty
even if devices are mounted below it.

Hardware: `sdInit` sets the type of the card before its last commands, and its
error path does not reset it, so that the next mount is refused although the
comment at `hwdevice.c:42` takes such a slot for unmounted. An unmount of it uses a
mount point that was never set (`hwdevice.c:450`), and may delete the file of another
device or any other that is not open. An unmount cannot delete
a device file that is open, and that file then serves whatever is mounted next.
A dirty cache is lost at shutdown, and when writing it back fails at an unmount.
Keys pressed while the ring is full are lost.

Interpreter: the last byte of program memory, 0x7FFF, cannot be read, for the
comparison is strict; writes past the environment alias the start of RAM
(`procman.c:1008`); `pop16` with a register as its own stack pointer differs between
kernel and emulator; the undefined miscellaneous codes 0xC5 and 0xC6 parse as sets
with uninitialised fields (`bytecode.c:67`); two undefined ALU codes kill a process
in the kernel and are ignored by the emulator, which also lets a program write its
own read-only part by push, call and exchange, and whose memory ends at 0xFFFE and
starts uninitialised.

## 7. Not modelled

- FAT lookups: read only and without state; as lengths are reported as 0, little of
  it can be reached.
- Listing directories and normalising paths: they change nothing.
- The system calls for the environment, time, ioctl and raw devices; argument
  strings; the interpreter line and the search path of exec. The models let a
  process call the others in any order and with any outcome, which covers what
  programs do with the answers of these.
- A reset in the middle of an operation: the code has no recovery to check. What
  the next boot makes of a volume is what it makes of any bytes.
- Bit-level protocols (SPI, SD commands beyond success and failure, DHT22),
  formatting, logging, the program table, the UART and the C library wrappers: no
  state a property here could be about.
- Assembler, disassembler, volume builders and userspace programs: sequential text
  tools, and programs that are the environment of the models.

Arithmetic is that of the PC build where the builds differ; on the AVR the sum of
an address and a length in `procman.c` has 16 bits.

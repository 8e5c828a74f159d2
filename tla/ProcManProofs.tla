----------------------------- MODULE ProcManProofs -----------------------------
(***************************************************************************)
(* Theorems about the process manager, for any number of processes, local  *)
(* and global descriptors and pipes and any set of programs.               *)
(*                                                                         *)
(* The first inductive invariant, IInv, is type correctness, made stronger *)
(* where an action needs it: a slot of the descriptor table that is in use *)
(* has a count of at least one (or closing it would give a negative one),  *)
(* the last local fd is free in both versions of every ProcData (either    *)
(* may replace the other), and whoever waits for a process waits for a     *)
(* living one.  The second, KInv, adds the books of all descriptors; the   *)
(* counts, the private files, the pipes and the descriptors waited on      *)
(* follow from it.                                                         *)
(*                                                                         *)
(* The first part is about the operators of ProcFs: each keeps the file    *)
(* system well formed, and leads from books to the books it should.        *)
(***************************************************************************)
EXTENDS ProcMan, KernelFsProofs, FiniteSets, FiniteSetTheorems

(***************************************************************************)
(* The operators of ProcFs.                                                *)
(***************************************************************************)
CountedFs == {sys \in FileSystems : sys.fdt \in CountedTables}
LocalTables == [LocalFds -> Fds]

\* A file system is built from, and falls apart into, its three parts.
LEMMA FsParts ==
    ASSUME NEW sys \in CountedFs
    PROVE  /\ sys.fdt \in CountedTables /\ sys.fdt \in Tables
           /\ sys.files \in SUBSET Paths
           /\ sys.pipes \in Pipes
           /\ sys = [fdt |-> sys.fdt, files |-> sys.files, pipes |-> sys.pipes]
BY DEF CountedFs, FileSystems, CountedTables

LEMMA FsBuilt ==
    ASSUME NEW t \in CountedTables, NEW f \in SUBSET Paths, NEW p \in Pipes
    PROVE  [fdt |-> t, files |-> f, pipes |-> p] \in CountedFs
BY DEF CountedFs, FileSystems, CountedTables

LEMMA FsWithTable ==
    ASSUME NEW sys \in CountedFs, NEW t \in CountedTables
    PROVE  [sys EXCEPT !.fdt = t] \in CountedFs
BY DEF CountedFs, FileSystems, CountedTables

LEMMA FsWithFiles ==
    ASSUME NEW sys \in CountedFs, NEW f \in SUBSET Paths
    PROVE  [sys EXCEPT !.files = f] \in CountedFs
BY DEF CountedFs, FileSystems, CountedTables

LEMMA FsWithBoth ==
    ASSUME NEW sys \in CountedFs, NEW t \in CountedTables, NEW f \in SUBSET Paths
    PROVE  [sys EXCEPT !.fdt = t, !.files = f] \in CountedFs
BY DEF CountedFs, FileSystems, CountedTables

\* The paths the process manager makes up are paths of the file system.
LEMMA PathTypes ==
    /\ \A pid \in Pids : ProcPath(pid) \in Paths /\ RamPath(pid) \in Paths
    /\ \A i \in PipeIds : PipeDev(i) \in Paths /\ PipeBacking(i) \in Paths
    /\ \A prog \in Programs : ProgPath(prog) \in Paths
    /\ \A f \in UserFiles : UserPath(f) \in Paths
BY PathsAreThese DEF AllPaths, ProgPaths, PipeDevs

LEMMA FdInvalidType == FdInvalid \in Fds
BY FdMaxAssumption DEF FdInvalid, Fds

LEMMA NoFdsType == NoFds \in LocalTables
BY FdInvalidType DEF NoFds, LocalTables

LEMMA LocalBounds == MaxFds - 1 \in LocalFds /\ MaxFds \in Nat /\ MaxFds \notin LocalFds
BY SizesAssumption DEF LocalFds

\* kernelFsFileDelete only removes paths.
LEMMA FileDeleteType ==
    ASSUME NEW t, NEW f \in SUBSET Paths, NEW path
    PROVE  FileDelete(t, f, path) \in SUBSET Paths
BY DEF FileDelete

\* Transfers change the amount in one pipe, within its bounds.
LEMMA TransferType ==
    ASSUME NEW sys \in CountedFs, NEW fd \in Fds
    PROVE  /\ \A new \in AfterRead(sys, fd) : new \in CountedFs
           /\ \A new \in AfterWrite(sys, fd) : new \in CountedFs
<1>1. \A i \in PipeIds : /\ sys.pipes[i] \in [fd : Fds, len : 0 .. PipeSize]
                         /\ sys.pipes[i].len \in 0 .. PipeSize
  BY FsParts DEF Pipes
<1>2. ASSUME NEW i \in PipeIds, NEW n \in 0 .. PipeSize
      PROVE  [sys EXCEPT !.pipes[i].len = n] \in CountedFs
  <2>1. [sys.pipes[i] EXCEPT !.len = n] \in [fd : Fds, len : 0 .. PipeSize]
    BY <1>1
  <2>2. [sys.pipes EXCEPT ![i] = [sys.pipes[i] EXCEPT !.len = n]] \in Pipes
    BY <2>1, FsParts DEF Pipes
  <2>3. [sys EXCEPT !.pipes[i].len = n] =
          [fdt |-> sys.fdt, files |-> sys.files, pipes |-> [sys.pipes EXCEPT ![i] = [sys.pipes[i] EXCEPT !.len = n]]]
    BY <1>1, FsParts DEF Pipes, CountedFs, FileSystems
  <2> QED BY <2>2, <2>3, FsParts, FsBuilt
<1>3. PipeOf(sys, fd) \subseteq PipeIds
  BY DEF PipeOf
<1>4. \A i \in PipeIds : /\ 0 .. sys.pipes[i].len \subseteq 0 .. PipeSize
                         /\ sys.pipes[i].len .. PipeSize \subseteq 0 .. PipeSize
  BY <1>1, SizesAssumption
<1>5. \A new \in AfterRead(sys, fd) : new \in CountedFs
  <2> TAKE new \in AfterRead(sys, fd)
  <2>1. CASE PipeOf(sys, fd) = {}
    BY <2>1 DEF AfterRead
  <2>2. CASE PipeOf(sys, fd) # {}
    <3>1. PICK i \in PipeOf(sys, fd) : \E n \in 0 .. sys.pipes[i].len : new = [sys EXCEPT !.pipes[i].len = n]
      BY <2>2 DEF AfterRead
    <3> QED BY <3>1, <1>2, <1>3, <1>4
  <2> QED BY <2>1, <2>2
<1>6. \A new \in AfterWrite(sys, fd) : new \in CountedFs
  <2> TAKE new \in AfterWrite(sys, fd)
  <2>1. CASE PipeOf(sys, fd) = {}
    BY <2>1 DEF AfterWrite
  <2>2. CASE PipeOf(sys, fd) # {}
    <3>1. PICK i \in PipeOf(sys, fd) : \E n \in sys.pipes[i].len .. PipeSize : new = [sys EXCEPT !.pipes[i].len = n]
      BY <2>2 DEF AfterWrite
    <3> QED BY <3>1, <1>2, <1>3, <1>4
  <2> QED BY <2>1, <2>2
<1> QED BY <1>5, <1>6

\* kernelUnmount of any set of pipes.
LEMMA NoPipeType == NoPipe \in [fd : Fds, len : 0 .. PipeSize]
BY FdInvalidType, SizesAssumption DEF NoPipe

LEMMA UnmountType ==
    ASSUME NEW sys \in CountedFs, NEW ids
    PROVE  Unmount(sys, ids) \in CountedFs
<1> DEFINE gone == {i \in ids : PipeDev(i) \in sys.files}
           backing == {sys.pipes[i].fd : i \in gone}
           t == [fd \in Fds |-> IF fd \in backing THEN FileClose(sys.fdt, fd)[fd] ELSE sys.fdt[fd]]
           f == sys.files \ ({PipeDev(i) : i \in gone} \cup {PipeBacking(i) : i \in gone})
           p == [i \in PipeIds |-> IF i \in gone THEN NoPipe ELSE sys.pipes[i]]
<1>1. t \in CountedTables
  <2> HIDE DEF backing
  <2> QED BY FsParts, CloseSetCounted
<1>2. f \in SUBSET Paths
  BY FsParts
<1>3. p \in Pipes
  BY FsParts, NoPipeType DEF Pipes
<1>4. Unmount(sys, ids) = [fdt |-> t, files |-> f, pipes |-> p]
  BY DEF Unmount
<1> HIDE DEF t, f, p
<1> QED BY <1>1, <1>2, <1>3, <1>4, FsBuilt

\* procManProcessCloseFile, for any set of descriptors.
LEMMA CloseFilesType ==
    ASSUME NEW sys \in CountedFs, NEW S
    PROVE  CloseFiles(sys, S) \in CountedFs
<1> DEFINE closed == [fd \in Fds |-> IF fd \in S THEN FileClose(sys.fdt, fd)[fd] ELSE sys.fdt[fd]]
           ended == {i \in PipeIds : /\ \E fd \in S : sys.fdt[fd].path = PipeDev(i)
                                     /\ ~FileIsOpen(closed, PipeDev(i))}
<1>1. closed \in CountedTables
  BY FsParts, CloseSetCounted
<1>2. CloseFiles(sys, S) = Unmount([sys EXCEPT !.fdt = closed], ended)
  BY DEF CloseFiles
<1> HIDE DEF closed, ended
<1>3. [sys EXCEPT !.fdt = closed] \in CountedFs
  BY <1>1, FsWithTable
<1> QED BY <1>2, <1>3, UnmountType

\* procManProcessOpenFile. It leaves the last local fd alone.
LEMMA OpenLocalType ==
    ASSUME NEW sys \in CountedFs, NEW fds \in LocalTables, NEW path \in Paths, NEW mode \in Modes
    PROVE  /\ OpenLocal(sys, fds, path, mode).fs \in CountedFs
           /\ OpenLocal(sys, fds, path, mode).fds \in LocalTables
           /\ OpenLocal(sys, fds, path, mode).fds[MaxFds - 1] = fds[MaxFds - 1]
<1> DEFINE l == FirstLocal(fds)
           new == NewFd(sys.fdt)
           t == FileOpen(sys.fdt, path, mode)
<1>1. CASE ~MayOpenLocal(fds) \/ ~MayOpen(sys.fdt, sys.files, path)
  BY <1>1 DEF OpenLocal
<1>2. CASE MayOpenLocal(fds) /\ MayOpen(sys.fdt, sys.files, path)
  <2>1. /\ OpenLocal(sys, fds, path, mode).fs = [sys EXCEPT !.fdt = t]
        /\ OpenLocal(sys, fds, path, mode).fds = [fds EXCEPT ![l] = new]
    BY <1>2 DEF OpenLocal, CountedFs, FileSystems
  <2>2. t \in CountedTables /\ new \in Fds
    BY FsParts, FileOpenCounted, NewFdFacts
  <2>3. l # MaxFds - 1
    BY <1>2 DEF MayOpenLocal
  <2> HIDE DEF l, new, t
  <2>4. [sys EXCEPT !.fdt = t] \in CountedFs
    BY <2>2, FsWithTable
  <2>5. [fds EXCEPT ![l] = new] \in LocalTables /\ [fds EXCEPT ![l] = new][MaxFds - 1] = fds[MaxFds - 1]
    BY <2>2, <2>3, LocalBounds DEF LocalTables
  <2> QED BY <2>1, <2>4, <2>5
<1> QED BY <1>1, <1>2

\* kernelMount of a pipe, whether or not it succeeds.
LEMMA MountType ==
    ASSUME NEW sys \in CountedFs, NEW i \in PipeIds, NEW room
    PROVE  Mount(sys, i, room) \in CountedFs
<1> DEFINE new == NewFd(sys.fdt)
           opened == FileOpen(sys.fdt, PipeBacking(i), "RW")
           p == [sys.pipes EXCEPT ![i] = [fd |-> new, len |-> 0]]
<1>1. opened \in CountedTables
  BY FsParts, FileOpenCounted, PathTypes DEF Modes
<1>2. p \in Pipes
  BY FsParts, NewFdFacts, SizesAssumption DEF Pipes
<1>3. sys.files \cup {PipeDev(i)} \in SUBSET Paths
  BY FsParts, PathTypes
<1>4. CASE new # FdInvalid /\ room
  <2>1. Mount(sys, i, room) = [fdt |-> opened, files |-> sys.files \cup {PipeDev(i)}, pipes |-> p]
    BY <1>4, FsParts DEF Mount, CountedFs, FileSystems
  <2> HIDE DEF opened, p
  <2> QED BY <2>1, <1>1, <1>2, <1>3, FsBuilt
<1>5. CASE ~(new # FdInvalid /\ room)
  <2>1. Mount(sys, i, room) = [sys EXCEPT !.fdt = IF new # FdInvalid THEN sys.fdt ELSE opened]
    BY <1>5 DEF Mount
  <2> HIDE DEF opened, new
  <2> QED BY <2>1, <1>1, FsParts, FsWithTable
<1> QED BY <1>4, <1>5

\* Closing, resizing and opening again the ram file of a process.
LEMMA ReopenRamType ==
    ASSUME NEW sys \in CountedFs, NEW pid \in Pids, NEW ramFd \in Fds
    PROVE  /\ ReopenRam(sys, pid, ramFd) \in CountedFs
           /\ ReopenedRamFd(sys, ramFd) \in Fds
<1>1. FileClose(sys.fdt, ramFd) \in CountedTables
  BY FsParts, FileCloseCounted
<1>2. FileOpen(FileClose(sys.fdt, ramFd), RamPath(pid), "RW") \in CountedTables
  BY <1>1, FileOpenCounted, PathTypes DEF Modes
<1>3. ReopenRam(sys, pid, ramFd) \in CountedFs
  BY <1>2, FsWithTable DEF ReopenRam
<1> QED BY <1>3, NewFdFacts DEF ReopenedRamFd

\* Sharing the descriptors of a parent with its child.
LEMMA DupeAllType ==
    ASSUME NEW sys \in CountedFs, NEW fds \in LocalTables, NEW fresh \in Reopenings(sys, fds)
    PROVE  /\ DupeAll(sys, fds, fresh) \in CountedFs
           /\ DupedFds(sys, fds, fresh) \in LocalTables
           /\ fds[MaxFds - 1] = FdInvalid => DupedFds(sys, fds, fresh)[MaxFds - 1] = FdInvalid
<1> DEFINE Reopened(fd) == {l \in AtLimit(sys, fds) : fresh[l] = fd}
           Slot(fd) ==
              IF Reopened(fd) # {}
              THEN [sys.fdt[fds[CHOOSE l \in Reopened(fd) : TRUE]] EXCEPT !.ref = 1]
              ELSE IF fd \in GlobalFds(fds) /\ MayDupe(sys.fdt, fd) THEN FileDupe(sys.fdt, fd)[fd]
              ELSE sys.fdt[fd]
           t == [fd \in Fds |-> Slot(fd)]
<1>1. ASSUME NEW fd \in Fds
      PROVE  Slot(fd) \in Slots /\ (Slot(fd).path # NoPath => Slot(fd).ref > 0)
  <2>1. CASE Reopened(fd) # {}
    <3>1. PICK l \in LocalFds : Slot(fd) = [sys.fdt[fds[l]] EXCEPT !.ref = 1]
      BY <2>1 DEF AtLimit
    <3>2. sys.fdt[fds[l]] \in Slots
      BY FsParts DEF LocalTables, Tables
    <3> HIDE DEF Slot
    <3> QED BY <3>1, <3>2, RefCountMaxAssumption DEF Slots
  <2>2. CASE Reopened(fd) = {} /\ fd \in GlobalFds(fds) /\ MayDupe(sys.fdt, fd)
    <3>1. FileDupe(sys.fdt, fd) \in CountedTables
      BY <2>2, FsParts, FileDupeCounted
    <3>2. Slot(fd) = FileDupe(sys.fdt, fd)[fd]
      BY <2>2
    <3> HIDE DEF Slot
    <3> QED BY <3>1, <3>2 DEF CountedTables, Counted, InUse, Tables
  <2>3. CASE Reopened(fd) = {} /\ ~(fd \in GlobalFds(fds) /\ MayDupe(sys.fdt, fd))
    <3>1. Slot(fd) = sys.fdt[fd]
      BY <2>3
    <3> HIDE DEF Slot
    <3> QED BY <3>1, FsParts DEF CountedTables, Counted, InUse, Tables
  <2> HIDE DEF Slot, Reopened
  <2> QED BY <2>1, <2>2, <2>3
<1>2. DupeAll(sys, fds, fresh) = [sys EXCEPT !.fdt = t]
  BY DEF DupeAll
<1>3. t \in CountedTables
  <2> HIDE DEF Slot
  <2> QED BY <1>1 DEF CountedTables, Counted, InUse, Tables
<1>4. DupeAll(sys, fds, fresh) \in CountedFs
  <2> HIDE DEF t
  <2> QED BY <1>2, <1>3, FsWithTable
<1>5. DupedFds(sys, fds, fresh) \in LocalTables
  <2>1. \A l \in AtLimit(sys, fds) : fresh[l] \in Fds
    BY DEF Reopenings, FreeFds, ValidFds, Fds
  <2> QED BY <2>1 DEF DupedFds, LocalTables
<1>6. fds[MaxFds - 1] = FdInvalid => DupedFds(sys, fds, fresh)[MaxFds - 1] = FdInvalid
  BY LocalBounds DEF DupedFds, AtLimit
<1> QED BY <1>4, <1>5, <1>6

\* kernelFsFileDupeOrOpen.
LEMMA DupeOrOpenType ==
    ASSUME NEW t \in CountedTables, NEW fd \in Fds
    PROVE  DupeOrOpenTable(t, fd) \in CountedTables /\ DupeOrOpenFd(t, fd) \in Fds
<1>1. t[fd].path \in Paths \cup {NoPath} /\ t[fd].mode \in Modes
  BY DEF CountedTables, Tables, Slots
<1>2. DupeOrOpenTable(t, fd) \in CountedTables
  BY <1>1, FileDupeCounted, FileOpenCounted DEF DupeOrOpenTable
<1> QED BY <1>2, NewFdFacts DEF DupeOrOpenFd

\* The error path of procManProcessFork.
LEMMA UndoForkType ==
    ASSUME NEW sys \in CountedFs, NEW child \in Pids
    PROVE  UndoFork(sys, child) \in CountedFs
<1> DEFINE t == FileClose(sys.fdt, FdInvalid)
           f == FileDelete(sys.fdt, FileDelete(sys.fdt, sys.files, ProcPath(child)), RamPath(child))
<1>1. t \in CountedTables
  BY FsParts, FileCloseCounted, FdInvalidType
<1>2. f \in SUBSET Paths
  BY FsParts, FileDeleteType
<1>3. UndoFork(sys, child) = [sys EXCEPT !.fdt = t, !.files = f]
  BY DEF UndoFork, CountedFs, FileSystems
<1> HIDE DEF t, f
<1>4. [sys EXCEPT !.fdt = t, !.files = f] \in CountedFs
  BY <1>1, <1>2, FsWithBoth
<1> QED BY ONLY <1>3, <1>4
-----------------------------------------------------------------------------
(***************************************************************************)
(* The books.  A reference to a global fd is kept in a place: the program, *)
(* the proc file or the ram file of a process, an entry of its local       *)
(* table, or the mount of a pipe.  `held' says which fd every place keeps, *)
(* FdInvalid for none.                                                     *)
(***************************************************************************)
Prog(pid) == <<"progmem", pid>>
Proc(pid) == <<"proc", pid>>
Ram(pid) == <<"ram", pid>>
Local(pid, l) == <<"local", pid, l>>
Pipe(i) == <<"pipe", i>>

ProcessPlaces == {Prog(pid) : pid \in Pids} \cup {Proc(pid) : pid \in Pids} \cup {Ram(pid) : pid \in Pids}
LocalPlaces == {Local(pid, l) : pid \in Pids, l \in LocalFds}
PipePlaces == {Pipe(i) : i \in PipeIds}
Places == ProcessPlaces \cup LocalPlaces \cup PipePlaces
Books == [Places -> Fds]

\* The files that belong to one place each, and the paths a place may keep open.
OwnedPaths ==
    {ProcPath(pid) : pid \in Pids} \cup {RamPath(pid) : pid \in Pids} \cup {PipeBacking(i) : i \in PipeIds}
Rightful(x) ==
    IF x[1] = "progmem" THEN ProgPaths
    ELSE IF x[1] = "proc" THEN {ProcPath(x[2])}
    ELSE IF x[1] = "ram" THEN {RamPath(x[2])}
    ELSE IF x[1] = "pipe" THEN {PipeBacking(x[2])}
    ELSE Paths \ OwnedPaths

KeptAt(held, fd) == {x \in Places : held[x] = fd}

\* Counts are exact, and a slot is in use as long as its count is not zero.
Booked(t, held) ==
    \A fd \in ValidFds : /\ t[fd].ref = Cardinality(KeptAt(held, fd))
                         /\ InUse(t, fd) <=> t[fd].ref # 0
\* Every place keeps a descriptor of what it may keep open.
AllRightful(t, held) == \A x \in Places : held[x] # FdInvalid => t[held[x]].path \in Rightful(x)
\* A file that may not be opened twice is open in one slot.
OpenOnce(t) ==
    \A f, g \in ValidFds : InUse(t, f) /\ t[f].path = t[g].path => f = g \/ t[f].path \in SharedPaths
\* A local table has a descriptor once.
LocalsDiffer(held) ==
    \A pid \in Pids : \A l, m \in LocalFds :
        held[Local(pid, l)] = held[Local(pid, m)] => l = m \/ held[Local(pid, l)] = FdInvalid

Sound(t, held) == Booked(t, held) /\ AllRightful(t, held) /\ OpenOnce(t) /\ LocalsDiffer(held)
-----------------------------------------------------------------------------
\* What sort of place a place is.
LEMMA PlaceKinds ==
    /\ \A pid \in Pids : Prog(pid) \in Places /\ Proc(pid) \in Places /\ Ram(pid) \in Places
    /\ \A pid \in Pids, l \in LocalFds : Local(pid, l) \in Places
    /\ \A i \in PipeIds : Pipe(i) \in Places
    /\ \A x \in Places : \/ \E pid \in Pids : x = Prog(pid) \/ x = Proc(pid) \/ x = Ram(pid)
                         \/ \E pid \in Pids, l \in LocalFds : x = Local(pid, l)
                         \/ \E i \in PipeIds : x = Pipe(i)
BY DEF Places, ProcessPlaces, LocalPlaces, PipePlaces

\* Places are told apart by their names.
LEMMA PlacesDiffer ==
    /\ \A p, q : Prog(p) # Proc(q) /\ Prog(p) # Ram(q) /\ Prog(p) # Pipe(q) /\ Proc(p) # Ram(q)
                 /\ Proc(p) # Pipe(q) /\ Ram(p) # Pipe(q)
    /\ \A p, q, l : Local(p, l) # Prog(q) /\ Local(p, l) # Proc(q) /\ Local(p, l) # Ram(q) /\ Local(p, l) # Pipe(q)
    /\ \A p, q : (Prog(p) = Prog(q) => p = q) /\ (Proc(p) = Proc(q) => p = q) /\ (Ram(p) = Ram(q) => p = q)
                 /\ (Pipe(p) = Pipe(q) => p = q)
    /\ \A p, q, l, m : Local(p, l) = Local(q, m) => p = q /\ l = m
<1>1. \A p, q : Prog(p) # Proc(q) /\ Prog(p) # Ram(q) /\ Prog(p) # Pipe(q) /\ Proc(p) # Ram(q)
                 /\ Proc(p) # Pipe(q) /\ Ram(p) # Pipe(q)
  BY DEF Prog, Proc, Ram, Pipe
<1>2. \A p, q, l : /\ Local(p, l)[1] = "local" /\ Prog(q)[1] = "progmem" /\ Proc(q)[1] = "proc"
                   /\ Ram(q)[1] = "ram" /\ Pipe(q)[1] = "pipe"
  BY DEF Prog, Proc, Ram, Pipe, Local
<1>3. \A p, q, l : Local(p, l) # Prog(q) /\ Local(p, l) # Proc(q) /\ Local(p, l) # Ram(q) /\ Local(p, l) # Pipe(q)
  BY <1>2
<1>4. \A p, q : (Prog(p) = Prog(q) => p = q) /\ (Proc(p) = Proc(q) => p = q) /\ (Ram(p) = Ram(q) => p = q)
                 /\ (Pipe(p) = Pipe(q) => p = q)
  BY DEF Prog, Proc, Ram, Pipe
<1>5. \A p, q, l, m : Local(p, l) = Local(q, m) => p = q /\ l = m
  BY DEF Local
<1> QED BY <1>1, <1>3, <1>4, <1>5

\* What a place may keep, by its sort.
LEMMA RightfulPaths ==
    /\ \A pid \in Pids : /\ Rightful(Prog(pid)) = ProgPaths
                         /\ Rightful(Proc(pid)) = {ProcPath(pid)}
                         /\ Rightful(Ram(pid)) = {RamPath(pid)}
    /\ \A pid \in Pids, l \in LocalFds : Rightful(Local(pid, l)) = Paths \ OwnedPaths
    /\ \A i \in PipeIds : Rightful(Pipe(i)) = {PipeBacking(i)}
<1>1. \A p, l : /\ Prog(p)[1] = "progmem" /\ Proc(p)[1] = "proc" /\ Proc(p)[2] = p
                /\ Ram(p)[1] = "ram" /\ Ram(p)[2] = p /\ Pipe(p)[1] = "pipe" /\ Pipe(p)[2] = p
                /\ Local(p, l)[1] = "local"
  BY DEF Prog, Proc, Ram, Pipe, Local
<1> QED BY <1>1 DEF Rightful

\* Paths made up for different purposes are different.
LEMMA PathsDiffer ==
    /\ \A p, q : /\ ProcPath(p) # RamPath(q) /\ ProcPath(p) # PipeBacking(q) /\ RamPath(p) # PipeBacking(q)
                 /\ ProcPath(p) # PipeDev(q) /\ RamPath(p) # PipeDev(q) /\ PipeBacking(p) # PipeDev(q)
                 /\ ProcPath(p) # ProgPath(q) /\ RamPath(p) # ProgPath(q) /\ PipeBacking(p) # ProgPath(q)
                 /\ ProcPath(p) # UserPath(q) /\ RamPath(p) # UserPath(q) /\ PipeBacking(p) # UserPath(q)
                 /\ PipeDev(p) # ProgPath(q) /\ PipeDev(p) # UserPath(q) /\ ProgPath(p) # UserPath(q)
    /\ \A p, q : /\ ProcPath(p) = ProcPath(q) => p = q
                 /\ RamPath(p) = RamPath(q) => p = q
                 /\ PipeBacking(p) = PipeBacking(q) => p = q
                 /\ PipeDev(p) = PipeDev(q) => p = q
BY DEF ProcPath, RamPath, PipeBacking, PipeDev, ProgPath, UserPath

\* Only programs and pipe devices may be open more than once.
LEMMA OwnedAreExclusive ==
    /\ OwnedPaths \subseteq Paths
    /\ \A path \in OwnedPaths : path \notin SharedPaths /\ path \notin ProgPaths /\ path # NoPath
    /\ ProgPaths \subseteq Paths
    /\ \A x \in Places : Rightful(x) \subseteq Paths
<1>1. OwnedPaths \subseteq Paths
  BY PathTypes DEF OwnedPaths
<1>2. \A path \in OwnedPaths : path \notin ProgPaths /\ path \notin PipeDevs
  BY PathsDiffer DEF OwnedPaths, ProgPaths, PipeDevs
<1>3. ProgPaths \subseteq Paths
  BY PathTypes DEF ProgPaths
<1>4. \A x \in Places : Rightful(x) \subseteq Paths
  BY <1>3, PlaceKinds, RightfulPaths, PathTypes
<1> QED BY <1>1, <1>2, <1>3, <1>4, PathsAreThese, PathsAssumption

LEMMA PlacesFinite == IsFiniteSet(Places)
<1>1. IsFiniteSet(Pids) /\ IsFiniteSet(LocalFds) /\ IsFiniteSet(PipeIds)
  BY SizesAssumption, FS_Interval DEF Pids, LocalFds, PipeIds
<1>2. /\ IsFiniteSet({Prog(pid) : pid \in Pids}) /\ IsFiniteSet({Proc(pid) : pid \in Pids})
      /\ IsFiniteSet({Ram(pid) : pid \in Pids}) /\ IsFiniteSet({Pipe(i) : i \in PipeIds})
  <2>1. \A kind : IsFiniteSet({kind} \X Pids) /\ IsFiniteSet({kind} \X PipeIds)
    BY <1>1, FS_Singleton, FS_Product
  <2>2. /\ {Prog(pid) : pid \in Pids} = {"progmem"} \X Pids
        /\ {Proc(pid) : pid \in Pids} = {"proc"} \X Pids
        /\ {Ram(pid) : pid \in Pids} = {"ram"} \X Pids
        /\ {Pipe(i) : i \in PipeIds} = {"pipe"} \X PipeIds
    BY DEF Prog, Proc, Ram, Pipe
  <2> QED BY <2>1, <2>2
<1>3. IsFiniteSet(LocalPlaces)
  <2> DEFINE f == [y \in Pids \X LocalFds |-> Local(y[1], y[2])]
  <2>1. IsFiniteSet(Pids \X LocalFds)
    BY <1>1, FS_Product
  <2>2. f \in Surjection(Pids \X LocalFds, LocalPlaces)
    <3>1. \A y \in Pids \X LocalFds : f[y] \in LocalPlaces
      BY DEF LocalPlaces
    <3>2. \A x \in LocalPlaces : \E y \in Pids \X LocalFds : f[y] = x
      <4> TAKE x \in LocalPlaces
      <4>1. PICK pid \in Pids, l \in LocalFds : x = Local(pid, l)
        BY DEF LocalPlaces
      <4> WITNESS <<pid, l>> \in Pids \X LocalFds
      <4> QED BY <4>1
    <3> QED BY <3>1, <3>2 DEF Surjection
  <2> QED BY <2>1, <2>2, FS_Surjection
<1>4. IsFiniteSet(ProcessPlaces)
  BY <1>2, FS_Union DEF ProcessPlaces
<1> QED BY <1>2, <1>3, <1>4, FS_Union DEF Places, PipePlaces

LEMMA KeptAtFinite ==
    ASSUME NEW held, NEW fd
    PROVE  IsFiniteSet(KeptAt(held, fd)) /\ Cardinality(KeptAt(held, fd)) \in Nat
BY PlacesFinite, FS_Subset, FS_CardinalityType DEF KeptAt
-----------------------------------------------------------------------------
\* A free slot is kept nowhere, a slot that is kept is in use.
LEMMA FreeIsNotKept ==
    ASSUME NEW t, NEW held, Booked(t, held), NEW fd \in ValidFds
    PROVE  /\ ~InUse(t, fd) <=> KeptAt(held, fd) = {}
           /\ \A x \in Places : held[x] = fd => InUse(t, fd)
<1>1. IsFiniteSet(KeptAt(held, fd)) /\ t[fd].ref = Cardinality(KeptAt(held, fd))
  BY KeptAtFinite DEF Booked
<1>2. t[fd].ref = 0 <=> KeptAt(held, fd) = {}
  BY <1>1, FS_EmptySet
<1> QED BY <1>2 DEF Booked, KeptAt

\* A reference is put in a place that had none, or taken from its place.
LEMMA KeepOneMore ==
    ASSUME NEW held \in Books, NEW x \in Places, held[x] = FdInvalid, NEW fd \in ValidFds
    PROVE  LET new == [held EXCEPT ![x] = fd]
           IN  /\ new \in Books
               /\ Cardinality(KeptAt(new, fd)) = Cardinality(KeptAt(held, fd)) + 1
               /\ \A g \in ValidFds : g # fd => KeptAt(new, g) = KeptAt(held, g)
<1> DEFINE new == [held EXCEPT ![x] = fd]
<1>1. fd \in Fds /\ fd # FdInvalid /\ FdInvalid \notin ValidFds
  BY FdMaxAssumption DEF ValidFds, Fds, FdInvalid
<1>2. new \in Books
  BY <1>1 DEF Books
<1>3. \A y \in Places : new[y] = IF y = x THEN fd ELSE held[y]
  BY DEF Books
<1>4. KeptAt(new, fd) = KeptAt(held, fd) \cup {x} /\ x \notin KeptAt(held, fd)
  BY <1>1, <1>3 DEF KeptAt
<1>5. \A g \in ValidFds : g # fd => KeptAt(new, g) = KeptAt(held, g)
  BY <1>1, <1>3 DEF KeptAt
<1>6. Cardinality(KeptAt(held, fd) \cup {x}) = Cardinality(KeptAt(held, fd)) + 1
  BY <1>4, KeptAtFinite, FS_AddElement
<1> QED BY <1>2, <1>4, <1>5, <1>6

LEMMA KeepOneLess ==
    ASSUME NEW held \in Books, NEW x \in Places, held[x] # FdInvalid
    PROVE  LET new == [held EXCEPT ![x] = FdInvalid]
               fd == held[x]
           IN  /\ new \in Books
               /\ fd \in ValidFds
               /\ Cardinality(KeptAt(new, fd)) = Cardinality(KeptAt(held, fd)) - 1
               /\ \A g \in ValidFds : g # fd => KeptAt(new, g) = KeptAt(held, g)
<1> DEFINE new == [held EXCEPT ![x] = FdInvalid]
           fd == held[x]
<1>1. fd \in ValidFds /\ FdInvalid \notin ValidFds /\ FdInvalid \in Fds
  BY FdMaxAssumption DEF ValidFds, Fds, FdInvalid, Books
<1>2. new \in Books
  BY <1>1 DEF Books
<1>3. \A y \in Places : new[y] = IF y = x THEN FdInvalid ELSE held[y]
  BY DEF Books
<1>4. KeptAt(new, fd) = KeptAt(held, fd) \ {x} /\ x \in KeptAt(held, fd)
  BY <1>1, <1>3 DEF KeptAt
<1>5. \A g \in ValidFds : g # fd => KeptAt(new, g) = KeptAt(held, g)
  BY <1>1, <1>3 DEF KeptAt
<1>6. Cardinality(KeptAt(held, fd) \ {x}) = Cardinality(KeptAt(held, fd)) - 1
  BY <1>4, KeptAtFinite, FS_RemoveElement
<1> QED BY <1>1, <1>2, <1>4, <1>5, <1>6

\* What kernelFsFileClose does to a slot that is in use.
LEMMA CloseEffect ==
    ASSUME NEW t \in CountedTables, NEW fd \in Fds, InUse(t, fd)
    PROVE  /\ FileClose(t, fd)[fd].ref = t[fd].ref - 1
           /\ FileClose(t, fd)[fd].ref \in Nat
           /\ FileClose(t, fd)[fd].path = IF t[fd].ref = 1 THEN NoPath ELSE t[fd].path
           /\ t[fd].path # NoPath
<1>1. t[fd] \in Slots /\ t[fd].ref \in Nat /\ t[fd].ref > 0
  BY RefCountMaxAssumption DEF CountedTables, Counted, Tables, Slots
<1>2. CASE t[fd].ref = 1
  <2>1. FileClose(t, fd)[fd] = UnusedSlot
    BY <1>2 DEF FileClose, CountedTables, Tables
  <2> QED BY <1>2, <2>1 DEF UnusedSlot, InUse
<1>3. CASE t[fd].ref # 1
  <2>1. FileClose(t, fd)[fd] = [t[fd] EXCEPT !.ref = @ - 1]
    BY <1>3 DEF FileClose, CountedTables, Tables
  <2> QED BY <1>1, <1>3, <2>1 DEF Slots, InUse
<1> QED BY <1>2, <1>3

\* A table with fewer references: paths only go away.
Fewer(t, held, u, kept) ==
    /\ \A fd \in ValidFds : u[fd].path = t[fd].path \/ u[fd].path = NoPath
    /\ \A x \in Places : kept[x] = held[x] \/ kept[x] = FdInvalid

LEMMA FewerIsSound ==
    ASSUME NEW t, NEW held \in Books, Sound(t, held), NEW u, NEW kept \in Books,
           Fewer(t, held, u, kept), Booked(u, kept)
    PROVE  Sound(u, kept)
<1>1. AllRightful(u, kept)
  <2> SUFFICES ASSUME NEW x \in Places, kept[x] # FdInvalid PROVE u[kept[x]].path \in Rightful(x)
    BY DEF AllRightful
  <2>1. kept[x] = held[x] /\ kept[x] \in ValidFds
    BY DEF Fewer, Books, Fds, ValidFds, FdInvalid
  <2>2. InUse(u, kept[x])
    BY <2>1, FreeIsNotKept
  <2>3. u[kept[x]].path = t[kept[x]].path
    BY <2>1, <2>2 DEF Fewer, InUse
  <2> QED BY <2>1, <2>3 DEF Sound, AllRightful
<1>2. OpenOnce(u)
  BY DEF Sound, OpenOnce, Fewer, InUse
<1>3. LocalsDiffer(kept)
  BY PlaceKinds DEF Sound, LocalsDiffer, Fewer
<1> QED BY <1>1, <1>2, <1>3 DEF Sound

\* Closing the descriptor that is kept in one place.
LEMMA CloseIsSound ==
    ASSUME NEW t \in CountedTables, NEW held \in Books, Sound(t, held),
           NEW x \in Places, held[x] # FdInvalid
    PROVE  /\ Sound(FileClose(t, held[x]), [held EXCEPT ![x] = FdInvalid])
           /\ Fewer(t, held, FileClose(t, held[x]), [held EXCEPT ![x] = FdInvalid])
           /\ [held EXCEPT ![x] = FdInvalid] \in Books
<1> DEFINE fd == held[x]
           u == FileClose(t, fd)
           kept == [held EXCEPT ![x] = FdInvalid]
<1>1. /\ kept \in Books /\ fd \in ValidFds /\ fd \in Fds
      /\ Cardinality(KeptAt(kept, fd)) = Cardinality(KeptAt(held, fd)) - 1
      /\ \A g \in ValidFds : g # fd => KeptAt(kept, g) = KeptAt(held, g)
  BY KeepOneLess DEF Books
<1>2. InUse(t, fd)
  BY <1>1, FreeIsNotKept DEF Sound
<1>3. /\ u[fd].ref = t[fd].ref - 1 /\ u[fd].ref \in Nat
      /\ u[fd].path = IF t[fd].ref = 1 THEN NoPath ELSE t[fd].path
      /\ t[fd].path # NoPath
  BY <1>1, <1>2, CloseEffect
<1>4. \A g \in Fds : g # fd => u[g] = t[g]
  BY <1>1, FileCloseCounted
<1>5. t[fd].ref \in Nat /\ t[fd].ref = Cardinality(KeptAt(held, fd))
  BY <1>1, KeptAtFinite DEF Sound, Booked
<1>6. ValidFds \subseteq Fds
  BY DEF ValidFds, Fds
<1> HIDE DEF fd, u, kept
<1>7. Booked(u, kept)
  <2> SUFFICES ASSUME NEW g \in ValidFds
               PROVE  u[g].ref = Cardinality(KeptAt(kept, g)) /\ (InUse(u, g) <=> u[g].ref # 0)
    BY DEF Booked
  <2>1. CASE g = fd
    <3>1. u[fd].path # NoPath <=> u[fd].ref # 0
      BY <1>3, <1>5
    <3> QED BY <2>1, <3>1, <1>1, <1>3, <1>5 DEF InUse
  <2>2. CASE g # fd
    BY <2>2, <1>1, <1>4, <1>6 DEF InUse, Sound, Booked
  <2> QED BY <2>1, <2>2
<1>8. Fewer(t, held, u, kept)
  BY <1>3, <1>4, <1>6 DEF Fewer, kept, Books
<1>9. Sound(u, kept)
  BY <1>1, <1>7, <1>8, FewerIsSound
<1> QED BY <1>1, <1>8, <1>9 DEF fd, u, kept

\* The slot of the invalid fd is in nobody's books.
LEMMA SameSlotsAreSound ==
    ASSUME NEW t, NEW u, NEW held \in Books, Sound(t, held), \A fd \in ValidFds : u[fd] = t[fd]
    PROVE  Sound(u, held)
<1>1. Booked(u, held) /\ OpenOnce(u)
  BY DEF Sound, Booked, OpenOnce, InUse
<1>2. \A x \in Places : held[x] # FdInvalid => held[x] \in ValidFds
  BY DEF Books, Fds, ValidFds, FdInvalid
<1> QED BY <1>1, <1>2 DEF Sound, AllRightful

\* A file is opened in a free slot for a place.
LEMMA OpenIsSound ==
    ASSUME NEW t \in CountedTables, NEW held \in Books, Sound(t, held),
           NEW x \in Places, held[x] = FdInvalid, NEW fd \in FreeFds(t),
           NEW path \in Rightful(x), NEW mode, path \in SharedPaths \/ ~FileIsOpen(t, path),
           NEW u, u = [t EXCEPT ![fd] = [path |-> path, mode |-> mode, ref |-> 1]]
    PROVE  Sound(u, [held EXCEPT ![x] = fd]) /\ [held EXCEPT ![x] = fd] \in Books
<1> DEFINE kept == [held EXCEPT ![x] = fd]
<1>1. fd \in ValidFds /\ ~InUse(t, fd) /\ ValidFds \subseteq Fds /\ FdInvalid \notin ValidFds
  BY FdMaxAssumption DEF FreeFds, ValidFds, Fds, FdInvalid
<1>2. /\ kept \in Books
      /\ Cardinality(KeptAt(kept, fd)) = Cardinality(KeptAt(held, fd)) + 1
      /\ \A g \in ValidFds : g # fd => KeptAt(kept, g) = KeptAt(held, g)
  BY <1>1, KeepOneMore
<1>3. KeptAt(held, fd) = {} /\ \A y \in Places : held[y] # fd
  BY <1>1, FreeIsNotKept DEF Sound, KeptAt
<1>4. Cardinality(KeptAt(kept, fd)) = 1
  BY <1>2, <1>3, FS_EmptySet
<1>5. path \in Paths /\ path # NoPath
  BY OwnedAreExclusive, PathsAssumption
<1>6. u[fd].path = path /\ u[fd].ref = 1 /\ \A g \in Fds : g # fd => u[g] = t[g]
  BY <1>1 DEF CountedTables, Tables
<1>7. \A y \in Places : kept[y] = IF y = x THEN fd ELSE held[y]
  BY DEF Books
<1> HIDE DEF kept
<1>8. Booked(u, kept)
  <2> SUFFICES ASSUME NEW g \in ValidFds
               PROVE  u[g].ref = Cardinality(KeptAt(kept, g)) /\ (InUse(u, g) <=> u[g].ref # 0)
    BY DEF Booked
  <2>1. CASE g = fd
    BY <2>1, <1>4, <1>5, <1>6 DEF InUse
  <2>2. CASE g # fd
    BY <2>2, <1>1, <1>2, <1>6 DEF InUse, Sound, Booked
  <2> QED BY <2>1, <2>2
<1>9. AllRightful(u, kept)
  <2> SUFFICES ASSUME NEW y \in Places, kept[y] # FdInvalid PROVE u[kept[y]].path \in Rightful(y)
    BY DEF AllRightful
  <2>1. CASE y = x
    BY <2>1, <1>6, <1>7
  <2>2. CASE y # x
    <3>1. kept[y] = held[y] /\ held[y] # fd /\ held[y] \in Fds
      BY <2>2, <1>3, <1>7 DEF Books
    <3> QED BY <3>1, <1>6 DEF Sound, AllRightful
  <2> QED BY <2>1, <2>2
<1>10. OpenOnce(u)
  <2> SUFFICES ASSUME NEW f \in ValidFds, NEW g \in ValidFds, InUse(u, f), u[f].path = u[g].path, f # g
               PROVE  u[f].path \in SharedPaths
    BY DEF OpenOnce
  <2>1. CASE f # fd /\ g # fd
    BY <2>1, <1>1, <1>6 DEF Sound, OpenOnce, InUse
  <2>2. CASE f = fd
    BY <2>2, <1>1, <1>6 DEF FileIsOpen
  <2>3. CASE g = fd
    BY <2>3, <1>1, <1>6 DEF FileIsOpen
  <2> QED BY <2>1, <2>2, <2>3
<1>11. LocalsDiffer(kept)
  <2> SUFFICES ASSUME NEW pid \in Pids, NEW l \in LocalFds, NEW m \in LocalFds,
                      kept[Local(pid, l)] = kept[Local(pid, m)], l # m
               PROVE  kept[Local(pid, l)] = FdInvalid
    BY DEF LocalsDiffer
  <2>1. Local(pid, l) \in Places /\ Local(pid, m) \in Places /\ Local(pid, l) # Local(pid, m)
    BY PlaceKinds, PlacesDiffer
  <2> QED BY <2>1, <1>3, <1>7 DEF Sound, LocalsDiffer
<1> QED BY <1>2, <1>8, <1>9, <1>10, <1>11 DEF Sound, kept

\* A descriptor is shared with a place that is not in a local table.
LEMMA DupeIsSound ==
    ASSUME NEW t \in CountedTables, NEW held \in Books, Sound(t, held),
           NEW x \in Places \ LocalPlaces, held[x] = FdInvalid, NEW fd \in ValidFds,
           MayDupe(t, fd), t[fd].path \in Rightful(x)
    PROVE  /\ Sound(FileDupe(t, fd), [held EXCEPT ![x] = fd])
           /\ [held EXCEPT ![x] = fd] \in Books
           /\ \A g \in Fds : FileDupe(t, fd)[g].path = t[g].path
<1> DEFINE kept == [held EXCEPT ![x] = fd]
           u == FileDupe(t, fd)
<1>1. ValidFds \subseteq Fds /\ FdInvalid \notin ValidFds
  BY FdMaxAssumption DEF ValidFds, Fds, FdInvalid
<1>2. /\ kept \in Books
      /\ Cardinality(KeptAt(kept, fd)) = Cardinality(KeptAt(held, fd)) + 1
      /\ \A g \in ValidFds : g # fd => KeptAt(kept, g) = KeptAt(held, g)
  BY KeepOneMore
<1>3. t[fd].ref \in Nat /\ t[fd] \in Slots
  BY <1>1, RefCountMaxAssumption DEF CountedTables, Tables, Slots
<1>4. u[fd].path = t[fd].path /\ u[fd].ref = t[fd].ref + 1 /\ \A g \in Fds : g # fd => u[g] = t[g]
  BY <1>1, <1>3 DEF CountedTables, Tables, Slots, FileDupe
<1>5. \A y \in Places : kept[y] = IF y = x THEN fd ELSE held[y]
  BY DEF Books
<1>6. \A g \in Fds : u[g].path = t[g].path
  BY <1>4
<1> HIDE DEF kept, u
<1>7. Booked(u, kept)
  <2> SUFFICES ASSUME NEW g \in ValidFds
               PROVE  u[g].ref = Cardinality(KeptAt(kept, g)) /\ (InUse(u, g) <=> u[g].ref # 0)
    BY DEF Booked
  <2>1. CASE g = fd
    <3>1. u[fd].ref = Cardinality(KeptAt(kept, fd)) /\ u[fd].ref # 0
      BY <1>2, <1>3, <1>4 DEF Sound, Booked
    <3> QED BY <2>1, <3>1, <1>4 DEF InUse, MayDupe
  <2>2. CASE g # fd
    BY <2>2, <1>1, <1>2, <1>4 DEF InUse, Sound, Booked
  <2> QED BY <2>1, <2>2
<1>8. AllRightful(u, kept)
  <2>1. \A y \in Places : kept[y] \in Fds
    BY <1>2 DEF Books
  <2> QED BY <2>1, <1>5, <1>6 DEF Sound, AllRightful
<1>9. OpenOnce(u)
  BY <1>1, <1>6 DEF Sound, OpenOnce, InUse
<1>10. LocalsDiffer(kept)
  <2>1. \A pid \in Pids, l \in LocalFds : Local(pid, l) \in LocalPlaces /\ Local(pid, l) \in Places
    BY DEF LocalPlaces, Places
  <2>2. \A pid \in Pids, l \in LocalFds : kept[Local(pid, l)] = held[Local(pid, l)]
    BY <2>1, <1>5
  <2> QED BY <2>2 DEF Sound, LocalsDiffer
<1> QED BY <1>2, <1>6, <1>7, <1>8, <1>9, <1>10 DEF Sound, kept, u

\* A set of places gives up its descriptors, which are all different.
EmptiedAt(held, X) == [x \in Places |-> IF x \in X THEN FdInvalid ELSE held[x]]
ClosedIn(t, S) == [fd \in Fds |-> IF fd \in S THEN FileClose(t, fd)[fd] ELSE t[fd]]

LEMMA CloseSetIsSound ==
    ASSUME NEW t \in CountedTables, NEW held \in Books, Sound(t, held), NEW X \in SUBSET Places,
           \A x \in X : held[x] # FdInvalid,
           \A x, y \in X : held[x] = held[y] => x = y,
           NEW S, S = {held[x] : x \in X}
    PROVE  /\ Sound(ClosedIn(t, S), EmptiedAt(held, X))
           /\ Fewer(t, held, ClosedIn(t, S), EmptiedAt(held, X))
           /\ EmptiedAt(held, X) \in Books
<1> DEFINE u == ClosedIn(t, S)
           kept == EmptiedAt(held, X)
<1>1. ValidFds \subseteq Fds /\ FdInvalid \notin ValidFds /\ FdInvalid \in Fds
  BY FdMaxAssumption DEF ValidFds, Fds, FdInvalid
<1>2. kept \in Books /\ \A y \in Places : kept[y] = IF y \in X THEN FdInvalid ELSE held[y]
  BY <1>1 DEF Books, EmptiedAt
<1>3. \A fd \in Fds : u[fd] = IF fd \in S THEN FileClose(t, fd)[fd] ELSE t[fd]
  BY DEF ClosedIn
<1> HIDE DEF u, kept
<1>4. ASSUME NEW fd \in ValidFds, fd \notin S
      PROVE  KeptAt(kept, fd) = KeptAt(held, fd) /\ u[fd] = t[fd]
  BY <1>1, <1>2, <1>3, <1>4 DEF KeptAt
<1>5. ASSUME NEW fd \in ValidFds, fd \in S
      PROVE  /\ InUse(t, fd) /\ u[fd] = FileClose(t, fd)[fd]
             /\ Cardinality(KeptAt(kept, fd)) = Cardinality(KeptAt(held, fd)) - 1
  <2>1. PICK x \in X : held[x] = fd
    BY <1>5
  <2>2. KeptAt(kept, fd) = KeptAt(held, fd) \ {x} /\ x \in KeptAt(held, fd)
    BY <2>1, <1>1, <1>2 DEF KeptAt
  <2>3. Cardinality(KeptAt(held, fd) \ {x}) = Cardinality(KeptAt(held, fd)) - 1
    BY <2>2, KeptAtFinite, FS_RemoveElement
  <2>4. InUse(t, fd)
    BY <2>1, FreeIsNotKept DEF Sound
  <2> QED BY <2>2, <2>3, <2>4, <1>1, <1>3, <1>5
<1>6. ASSUME NEW fd \in ValidFds
      PROVE  /\ u[fd].ref = Cardinality(KeptAt(kept, fd)) /\ (InUse(u, fd) <=> u[fd].ref # 0)
             /\ u[fd].path = t[fd].path \/ u[fd].path = NoPath
  <2>1. CASE fd \notin S
    BY <2>1, <1>4 DEF Sound, Booked, InUse
  <2>2. CASE fd \in S
    <3>1. /\ u[fd].ref = t[fd].ref - 1 /\ u[fd].ref \in Nat
          /\ u[fd].path = IF t[fd].ref = 1 THEN NoPath ELSE t[fd].path
          /\ t[fd].path # NoPath
      BY <2>2, <1>1, <1>5, CloseEffect
    <3>2. t[fd].ref \in Nat /\ t[fd].ref = Cardinality(KeptAt(held, fd))
      BY KeptAtFinite DEF Sound, Booked
    <3>3. u[fd].path # NoPath <=> u[fd].ref # 0
      BY <3>1, <3>2
    <3> QED BY <2>2, <3>1, <3>2, <3>3, <1>5 DEF InUse
  <2> QED BY <2>1, <2>2
<1>7. Booked(u, kept) /\ Fewer(t, held, u, kept)
  BY <1>2, <1>6 DEF Booked, Fewer
<1>8. Sound(u, kept)
  BY <1>2, <1>7, FewerIsSound
<1> QED BY <1>2, <1>7, <1>8 DEF u, kept
-----------------------------------------------------------------------------
(***************************************************************************)
(* The file system and the books.  What is open exists, what belongs to    *)
(* one place exists only while it is open, programs always exist, and the  *)
(* device of a pipe exists while its mount keeps the backing file open.    *)
(***************************************************************************)
OpenExist(sys) == \A fd \in ValidFds : InUse(sys.fdt, fd) => sys.fdt[fd].path \in sys.files
OwnedAreOpen(sys) == \A path \in OwnedPaths : path \in sys.files => FileIsOpen(sys.fdt, path)
MountsKept(sys, held) ==
    \A i \in PipeIds : /\ held[Pipe(i)] = sys.pipes[i].fd
                       /\ PipeDev(i) \in sys.files <=> held[Pipe(i)] # FdInvalid
Consistent(sys, held) ==
    /\ Sound(sys.fdt, held)
    /\ OpenExist(sys)
    /\ OwnedAreOpen(sys)
    /\ ProgPaths \subseteq sys.files
    /\ MountsKept(sys, held)

\* Somebody has an end of every pipe that is mounted, those in J left aside.
PipesUsed(sys, J) == \A i \in PipeIds \ J : PipeDev(i) \in sys.files => FileIsOpen(sys.fdt, PipeDev(i))

\* The slots that stay in use keep their paths.
PathsKept(t, u) == \A fd \in ValidFds : InUse(t, fd) /\ InUse(u, fd) => u[fd].path = t[fd].path

LEMMA FdFacts ==
    /\ ValidFds \subseteq Fds /\ FdInvalid \notin ValidFds /\ FdInvalid \in Fds
    /\ \A fd \in Fds : fd # FdInvalid => fd \in ValidFds
BY FdMaxAssumption DEF ValidFds, Fds, FdInvalid

LEMMA BooksParts ==
    ASSUME NEW held \in Books
    PROVE  /\ \A x \in Places : held[x] \in Fds
           /\ \A x \in Places : held[x] # FdInvalid => held[x] \in ValidFds
BY FdFacts DEF Books

\* A path that belongs to a place belongs to no other.
LEMMA OneOwner ==
    ASSUME NEW path \in OwnedPaths, NEW x \in Places, NEW y \in Places,
           path \in Rightful(x), path \in Rightful(y)
    PROVE  x = y
<1>1. path \notin ProgPaths /\ path \notin Paths \ OwnedPaths
  BY OwnedAreExclusive
<1>2. ASSUME NEW z \in Places, path \in Rightful(z)
      PROVE  \/ \E pid \in Pids : z = Proc(pid) /\ path = ProcPath(pid)
             \/ \E pid \in Pids : z = Ram(pid) /\ path = RamPath(pid)
             \/ \E i \in PipeIds : z = Pipe(i) /\ path = PipeBacking(i)
  BY <1>1, <1>2, PlaceKinds, RightfulPaths
<1>3. CASE \E pid \in Pids : x = Proc(pid) /\ path = ProcPath(pid)
  BY <1>2, <1>3, PathsDiffer
<1>4. CASE \E pid \in Pids : x = Ram(pid) /\ path = RamPath(pid)
  BY <1>2, <1>4, PathsDiffer
<1>5. CASE \E i \in PipeIds : x = Pipe(i) /\ path = PipeBacking(i)
  BY <1>2, <1>5, PathsDiffer
<1> QED BY <1>2, <1>3, <1>4, <1>5

\* A path that belongs to one place is kept open by that place only.
LEMMA OwnerKeeps ==
    ASSUME NEW t, NEW held \in Books, Sound(t, held), NEW x \in Places, NEW path \in OwnedPaths,
           Rightful(x) = {path}
    PROVE  /\ FileIsOpen(t, path) <=> held[x] # FdInvalid
           /\ \A fd \in ValidFds : t[fd].path = path <=> held[x] = fd
           /\ held[x] # FdInvalid => /\ KeptAt(held, held[x]) = {x}
                                     /\ t[held[x]].ref = 1
                                     /\ t[held[x]].path = path
<1>1. \A y \in Places : path \in Rightful(y) => y = x
  BY OneOwner
<1>2. ASSUME NEW fd \in ValidFds, t[fd].path = path
      PROVE  held[x] = fd
  <2>1. InUse(t, fd)
    BY <1>2, OwnedAreExclusive DEF InUse
  <2>2. PICK y \in Places : held[y] = fd
    BY <2>1, FreeIsNotKept DEF Sound, KeptAt
  <2>3. path \in Rightful(y)
    BY <1>2, <2>2, FdFacts DEF Sound, AllRightful
  <2> QED BY <1>1, <2>2, <2>3
<1>3. ASSUME held[x] # FdInvalid
      PROVE  t[held[x]].path = path /\ held[x] \in ValidFds
  BY <1>3, BooksParts DEF Sound, AllRightful
<1>4. ASSUME held[x] # FdInvalid
      PROVE  KeptAt(held, held[x]) = {x} /\ t[held[x]].ref = 1
  <2>1. \A y \in Places : held[y] = held[x] => y = x
    BY <1>1, <1>3, <1>4 DEF Sound, AllRightful
  <2>2. KeptAt(held, held[x]) = {x}
    BY <2>1 DEF KeptAt
  <2>3. Cardinality(KeptAt(held, held[x])) = 1
    BY <2>2, FS_Singleton
  <2> QED BY <1>3, <1>4, <2>2, <2>3 DEF Sound, Booked
<1>5. FileIsOpen(t, path) <=> held[x] # FdInvalid
  BY <1>2, <1>3, FdFacts DEF FileIsOpen
<1> QED BY <1>2, <1>3, <1>4, <1>5, FdFacts

LEMMA Owners ==
    /\ \A pid \in Pids : /\ ProcPath(pid) \in OwnedPaths /\ Rightful(Proc(pid)) = {ProcPath(pid)}
                         /\ RamPath(pid) \in OwnedPaths /\ Rightful(Ram(pid)) = {RamPath(pid)}
    /\ \A i \in PipeIds : PipeBacking(i) \in OwnedPaths /\ Rightful(Pipe(i)) = {PipeBacking(i)}
    /\ \A i \in PipeIds : PipeDev(i) \notin OwnedPaths /\ PipeDev(i) \in SharedPaths /\ PipeDev(i) \notin ProgPaths
    /\ \A pid \in Pids, l \in LocalFds : Rightful(Local(pid, l)) = Paths \ OwnedPaths
    /\ \A pid \in Pids : Rightful(Prog(pid)) = ProgPaths
<1>1. \A i \in PipeIds : PipeDev(i) \notin OwnedPaths /\ PipeDev(i) \in SharedPaths /\ PipeDev(i) \notin ProgPaths
  BY PathsDiffer, PathsAreThese DEF OwnedPaths, PipeDevs, ProgPaths
<1> QED BY <1>1, RightfulPaths DEF OwnedPaths

\* The three parts of a changed file system.
LEMMA FsFields ==
    ASSUME NEW sys \in CountedFs, NEW t, NEW f
    PROVE  /\ [sys EXCEPT !.fdt = t].fdt = t /\ [sys EXCEPT !.fdt = t].files = sys.files
           /\ [sys EXCEPT !.fdt = t].pipes = sys.pipes
           /\ [sys EXCEPT !.files = f].fdt = sys.fdt /\ [sys EXCEPT !.files = f].files = f
           /\ [sys EXCEPT !.files = f].pipes = sys.pipes
           /\ [sys EXCEPT !.fdt = t, !.files = f].fdt = t /\ [sys EXCEPT !.fdt = t, !.files = f].files = f
           /\ [sys EXCEPT !.fdt = t, !.files = f].pipes = sys.pipes
BY DEF CountedFs, FileSystems

\* Only the slots of valid fds and the fds of the mounts matter.
LEMMA SameIsConsistent ==
    ASSUME NEW sys, NEW held \in Books, Consistent(sys, held), NEW new,
           \A fd \in ValidFds : new.fdt[fd] = sys.fdt[fd],
           new.files = sys.files, \A i \in PipeIds : new.pipes[i].fd = sys.pipes[i].fd
    PROVE  /\ Consistent(new, held)
           /\ \A J : PipesUsed(sys, J) => PipesUsed(new, J)
           /\ PathsKept(sys.fdt, new.fdt)
<1>1. Sound(new.fdt, held)
  BY SameSlotsAreSound DEF Consistent
<1>2. \A path : FileIsOpen(new.fdt, path) <=> FileIsOpen(sys.fdt, path)
  BY DEF FileIsOpen
<1>3. OpenExist(new) /\ OwnedAreOpen(new) /\ ProgPaths \subseteq new.files /\ MountsKept(new, held)
  BY <1>2 DEF Consistent, OpenExist, OwnedAreOpen, MountsKept, InUse
<1> QED BY <1>1, <1>2, <1>3 DEF Consistent, PipesUsed, PathsKept
-----------------------------------------------------------------------------
\* Which mounts and ends of pipes there are depends on the pipes' own places.
LEMMA MountsStay ==
    ASSUME NEW sys, NEW held \in Books, MountsKept(sys, held), NEW x \in Places \ PipePlaces, NEW fd,
           NEW new, new.pipes = sys.pipes, \A i \in PipeIds : PipeDev(i) \in new.files <=> PipeDev(i) \in sys.files
    PROVE  MountsKept(new, [held EXCEPT ![x] = fd])
<1>1. \A i \in PipeIds : [held EXCEPT ![x] = fd][Pipe(i)] = held[Pipe(i)]
  BY PlaceKinds DEF Books, PipePlaces
<1> QED BY <1>1 DEF MountsKept

LEMMA NotPipes ==
    /\ \A pid \in Pids : /\ Prog(pid) \in Places \ PipePlaces /\ Prog(pid) \notin LocalPlaces
                         /\ Proc(pid) \in Places \ PipePlaces /\ Ram(pid) \in Places \ PipePlaces
    /\ \A pid \in Pids, l \in LocalFds : Local(pid, l) \in Places \ PipePlaces
BY PlaceKinds, PlacesDiffer DEF PipePlaces, LocalPlaces

\* A program's descriptor is closed.
LEMMA CloseProgram ==
    ASSUME NEW sys \in CountedFs, NEW held \in Books, Consistent(sys, held),
           NEW pid \in Pids, held[Prog(pid)] # FdInvalid,
           NEW new \in CountedFs, new.fdt = FileClose(sys.fdt, held[Prog(pid)]), new.files = sys.files,
           new.pipes = sys.pipes
    PROVE  /\ [held EXCEPT ![Prog(pid)] = FdInvalid] \in Books
           /\ Consistent(new, [held EXCEPT ![Prog(pid)] = FdInvalid])
           /\ \A J : PipesUsed(sys, J) => PipesUsed(new, J)
           /\ PathsKept(sys.fdt, new.fdt)
<1> DEFINE fd == held[Prog(pid)]
           t == sys.fdt
           u == FileClose(t, fd)
           kept == [held EXCEPT ![Prog(pid)] = FdInvalid]
<1>1. Prog(pid) \in Places /\ t \in CountedTables /\ Sound(t, held) /\ fd \in ValidFds /\ fd \in Fds
  BY NotPipes, FsParts, BooksParts, FdFacts DEF Consistent
<1>2. Sound(u, kept) /\ Fewer(t, held, u, kept) /\ kept \in Books
  BY <1>1, CloseIsSound
<1>3. u \in CountedTables /\ \A g \in Fds : g # fd => u[g] = t[g]
  BY <1>1, FileCloseCounted
<1>4. t[fd].path \in ProgPaths
  BY <1>1, Owners DEF Sound, AllRightful
<1>5. new.fdt = u /\ new.files = sys.files /\ new.pipes = sys.pipes
  OBVIOUS
<1> HIDE DEF fd, t, u, kept
<1>6. \A path : path \notin ProgPaths /\ FileIsOpen(t, path) => FileIsOpen(u, path)
  BY <1>3, <1>4, FdFacts DEF FileIsOpen
<1>7. OpenExist(new)
  BY <1>2, <1>5 DEF Consistent, OpenExist, Fewer, InUse, t
<1>8. OwnedAreOpen(new)
  BY <1>5, <1>6, OwnedAreExclusive DEF Consistent, OwnedAreOpen, t
<1>9. MountsKept(new, kept)
  BY <1>5, NotPipes, MountsStay DEF Consistent, kept
<1>10. \A J : PipesUsed(sys, J) => PipesUsed(new, J)
  BY <1>5, <1>6, Owners DEF PipesUsed, t
<1>11. PathsKept(t, u)
  BY <1>2 DEF PathsKept, Fewer, InUse
<1> QED BY <1>2, <1>5, <1>7, <1>8, <1>9, <1>10, <1>11 DEF Consistent, t, kept

\* The proc file or the ram file of a process is closed and deleted.
LEMMA CloseOwned ==
    ASSUME NEW sys \in CountedFs, NEW held \in Books, Consistent(sys, held),
           NEW x \in Places \ PipePlaces, NEW path \in OwnedPaths, Rightful(x) = {path}, held[x] # FdInvalid,
           NEW new \in CountedFs, new.fdt = FileClose(sys.fdt, held[x]), new.files = sys.files \ {path},
           new.pipes = sys.pipes
    PROVE  /\ [held EXCEPT ![x] = FdInvalid] \in Books /\ Consistent(new, [held EXCEPT ![x] = FdInvalid])
           /\ \A J : PipesUsed(sys, J) => PipesUsed(new, J)
           /\ PathsKept(sys.fdt, new.fdt)
           /\ ~FileIsOpen(new.fdt, path)
<1> DEFINE fd == held[x]
           t == sys.fdt
           u == FileClose(t, fd)
           kept == [held EXCEPT ![x] = FdInvalid]
<1>1. x \in Places /\ t \in CountedTables /\ Sound(t, held) /\ fd \in ValidFds /\ fd \in Fds
  BY FsParts, BooksParts, FdFacts DEF Consistent
<1>2. Sound(u, kept) /\ Fewer(t, held, u, kept) /\ kept \in Books /\ kept[x] = FdInvalid
  BY <1>1, CloseIsSound DEF Books
<1>3. u \in CountedTables /\ \A g \in Fds : g # fd => u[g] = t[g]
  BY <1>1, FileCloseCounted
<1>4. t[fd].path = path
  BY <1>1, OwnerKeeps
<1> HIDE DEF kept
<1>5. ~FileIsOpen(u, path)
  BY <1>1, <1>2, OwnerKeeps
<1>6. new.fdt = u /\ new.files = sys.files \ {path} /\ new.pipes = sys.pipes
  OBVIOUS
<1> HIDE DEF fd, t, u
<1>7. \A q : q # path /\ FileIsOpen(t, q) => FileIsOpen(u, q)
  BY <1>3, <1>4, FdFacts DEF FileIsOpen
<1>8. OpenExist(new)
  <2> SUFFICES ASSUME NEW g \in ValidFds, u[g].path # NoPath PROVE u[g].path \in sys.files \ {path}
    BY <1>6 DEF OpenExist, InUse
  <2>1. u[g].path # path
    BY <1>5 DEF FileIsOpen
  <2>2. u[g].path = t[g].path
    BY <1>2 DEF Fewer
  <2> QED BY <2>1, <2>2 DEF Consistent, OpenExist, InUse, t
<1>9. OwnedAreOpen(new)
  BY <1>6, <1>7 DEF Consistent, OwnedAreOpen, t
<1>10. \A i \in PipeIds : PipeDev(i) \in new.files <=> PipeDev(i) \in sys.files
  BY <1>6, Owners
<1>11. MountsKept(new, kept)
  BY <1>6, <1>10, MountsStay DEF Consistent, kept
<1>12. \A J : PipesUsed(sys, J) => PipesUsed(new, J)
  BY <1>6, <1>7, Owners DEF PipesUsed, t
<1>13. PathsKept(t, u)
  BY <1>2 DEF PathsKept, Fewer, InUse
<1>14. ProgPaths \subseteq new.files
  BY <1>6, OwnedAreExclusive DEF Consistent
<1> QED BY <1>2, <1>5, <1>6, <1>8, <1>9, <1>11, <1>12, <1>13, <1>14 DEF Consistent, t, kept

\* A free slot is given to a file that exists or is made.
OpenedAt(t, fd, path, mode) == [t EXCEPT ![fd] = [path |-> path, mode |-> mode, ref |-> 1]]

LEMMA OpenedFacts ==
    ASSUME NEW t \in CountedTables, NEW fd \in FreeFds(t), NEW path \in Paths, NEW mode \in Modes
    PROVE  /\ OpenedAt(t, fd, path, mode) \in CountedTables
           /\ OpenedAt(t, fd, path, mode)[fd].path = path
           /\ \A g \in Fds : g # fd => OpenedAt(t, fd, path, mode)[g] = t[g]
           /\ PathsKept(t, OpenedAt(t, fd, path, mode))
           /\ \A q : FileIsOpen(t, q) /\ q # NoPath => FileIsOpen(OpenedAt(t, fd, path, mode), q)
           /\ FileIsOpen(OpenedAt(t, fd, path, mode), path)
<1> DEFINE u == OpenedAt(t, fd, path, mode)
<1>1. fd \in ValidFds /\ fd \in Fds /\ ~InUse(t, fd)
  BY FdFacts DEF FreeFds
<1>2. [path |-> path, mode |-> mode, ref |-> 1] \in Slots
  BY RefCountMaxAssumption DEF Slots
<1>3. u[fd] = [path |-> path, mode |-> mode, ref |-> 1] /\ \A g \in Fds : g # fd => u[g] = t[g]
  BY <1>1 DEF OpenedAt, CountedTables, Tables
<1>4. u \in CountedTables
  BY <1>1, <1>2, <1>3 DEF OpenedAt, CountedTables, Counted, Tables, InUse
<1> HIDE DEF u
<1>5. PathsKept(t, u)
  BY <1>1, <1>3, FdFacts DEF PathsKept, InUse
<1>6. \A q : FileIsOpen(t, q) /\ q # NoPath => FileIsOpen(u, q)
  BY <1>1, <1>3, FdFacts DEF FileIsOpen, InUse
<1>7. FileIsOpen(u, path)
  BY <1>1, <1>3 DEF FileIsOpen
<1> QED BY <1>3, <1>4, <1>5, <1>6, <1>7 DEF u

\* kernelFsFileOpen takes such a slot if there is one.
LEMMA NewFdIsFree ==
    ASSUME NEW t \in CountedTables, NEW path, NEW mode
    PROVE  /\ NewFd(t) # FdInvalid => NewFd(t) \in FreeFds(t)
           /\ FileOpen(t, path, mode) = OpenedAt(t, NewFd(t), path, mode)
           /\ NewFd(t) = FdInvalid => /\ FreeFds(t) = {}
                                      /\ \A fd \in ValidFds : FileOpen(t, path, mode)[fd] = t[fd]
<1>1. FileOpen(t, path, mode) = OpenedAt(t, NewFd(t), path, mode)
  BY DEF FileOpen, OpenedAt
<1>2. NewFd(t) # FdInvalid => NewFd(t) \in FreeFds(t)
  BY NewFdFacts DEF FreeFds
<1>3. NewFd(t) = FdInvalid => /\ FreeFds(t) = {}
                              /\ \A fd \in ValidFds : FileOpen(t, path, mode)[fd] = t[fd]
  BY NewFdFacts, FdFacts DEF FileOpen, CountedTables, Tables
<1> QED BY <1>1, <1>2, <1>3

\* A file that exists is opened for a program or for a local table.
LEMMA OpenExisting ==
    ASSUME NEW sys \in CountedFs, NEW held \in Books, Consistent(sys, held),
           NEW x \in Places \ PipePlaces, held[x] = FdInvalid, NEW fd \in FreeFds(sys.fdt),
           NEW path \in Rightful(x), path \notin OwnedPaths, MayOpen(sys.fdt, sys.files, path), NEW mode \in Modes,
           NEW new \in CountedFs, new.fdt = OpenedAt(sys.fdt, fd, path, mode), new.files = sys.files,
           new.pipes = sys.pipes
    PROVE  /\ [held EXCEPT ![x] = fd] \in Books /\ Consistent(new, [held EXCEPT ![x] = fd])
           /\ \A J : PipesUsed(sys, J) => PipesUsed(new, J)
           /\ PathsKept(sys.fdt, new.fdt)
<1> DEFINE t == sys.fdt
           u == OpenedAt(t, fd, path, mode)
           kept == [held EXCEPT ![x] = fd]
<1>1. x \in Places /\ t \in CountedTables /\ Sound(t, held) /\ path \in Paths
  BY FsParts, OwnedAreExclusive DEF Consistent
<1>2. Sound(u, kept) /\ kept \in Books
  BY <1>1, OpenIsSound DEF OpenedAt, MayOpen
<1>3. /\ u \in CountedTables /\ u[fd].path = path /\ PathsKept(t, u)
      /\ \A g \in Fds : g # fd => u[g] = t[g]
      /\ \A q : FileIsOpen(t, q) /\ q # NoPath => FileIsOpen(u, q)
  BY <1>1, OpenedFacts
<1>4. new.fdt = u /\ new.files = sys.files /\ new.pipes = sys.pipes
  OBVIOUS
<1> HIDE DEF t, u, kept
<1>5. OpenExist(new)
  BY <1>3, <1>4, FdFacts DEF Consistent, OpenExist, MayOpen, InUse, t
<1>6. OwnedAreOpen(new)
  BY <1>3, <1>4, OwnedAreExclusive DEF Consistent, OwnedAreOpen, t
<1>7. MountsKept(new, kept)
  BY <1>4, MountsStay DEF Consistent, kept
<1>8. \A J : PipesUsed(sys, J) => PipesUsed(new, J)
  BY <1>3, <1>4, PathTypes, PathsAssumption DEF PipesUsed, t
<1> QED BY <1>2, <1>3, <1>4, <1>5, <1>6, <1>7, <1>8 DEF Consistent, t, kept

\* The proc file or the ram file of a process is made and opened.
LEMMA OpenOwned ==
    ASSUME NEW sys \in CountedFs, NEW held \in Books, Consistent(sys, held),
           NEW x \in Places \ PipePlaces, NEW path \in OwnedPaths, Rightful(x) = {path}, held[x] = FdInvalid,
           NEW fd \in FreeFds(sys.fdt), NEW mode \in Modes,
           NEW new \in CountedFs, new.fdt = OpenedAt(sys.fdt, fd, path, mode), new.files = sys.files \cup {path},
           new.pipes = sys.pipes
    PROVE  /\ [held EXCEPT ![x] = fd] \in Books /\ Consistent(new, [held EXCEPT ![x] = fd])
           /\ \A J : PipesUsed(sys, J) => PipesUsed(new, J)
           /\ PathsKept(sys.fdt, new.fdt)
<1> DEFINE t == sys.fdt
           u == OpenedAt(t, fd, path, mode)
           kept == [held EXCEPT ![x] = fd]
<1>1. x \in Places /\ t \in CountedTables /\ Sound(t, held) /\ path \in Paths /\ path \in Rightful(x)
  BY FsParts, OwnedAreExclusive DEF Consistent
<1>2. ~FileIsOpen(t, path)
  BY <1>1, OwnerKeeps
<1>3. Sound(u, kept) /\ kept \in Books
  BY <1>1, <1>2, OpenIsSound DEF OpenedAt
<1>4. /\ u \in CountedTables /\ u[fd].path = path /\ PathsKept(t, u) /\ FileIsOpen(u, path)
      /\ \A g \in Fds : g # fd => u[g] = t[g]
      /\ \A q : FileIsOpen(t, q) /\ q # NoPath => FileIsOpen(u, q)
  BY <1>1, OpenedFacts
<1>5. new.fdt = u /\ new.files = sys.files \cup {path} /\ new.pipes = sys.pipes
  OBVIOUS
<1> HIDE DEF t, u, kept
<1>6. OpenExist(new)
  BY <1>4, <1>5, FdFacts DEF Consistent, OpenExist, InUse, t
<1>7. OwnedAreOpen(new)
  BY <1>4, <1>5, OwnedAreExclusive DEF Consistent, OwnedAreOpen, t
<1>8. \A i \in PipeIds : PipeDev(i) \in new.files <=> PipeDev(i) \in sys.files
  BY <1>5, Owners
<1>9. MountsKept(new, kept)
  BY <1>5, <1>8, MountsStay DEF Consistent, kept
<1>10. \A J : PipesUsed(sys, J) => PipesUsed(new, J)
  BY <1>4, <1>8, <1>5, PathTypes, PathsAssumption DEF PipesUsed, t
<1>11. ProgPaths \subseteq new.files
  BY <1>5 DEF Consistent
<1> QED BY <1>3, <1>4, <1>5, <1>6, <1>7, <1>9, <1>10, <1>11 DEF Consistent, t, kept
-----------------------------------------------------------------------------
\* A slot in use is kept at some place, and the path there is one it may keep.
LEMMA KeptSomewhere ==
    ASSUME NEW t, NEW held \in Books, Sound(t, held), NEW fd \in ValidFds, InUse(t, fd)
    PROVE  \E x \in Places : held[x] = fd /\ t[fd].path \in Rightful(x)
<1>1. PICK x \in Places : held[x] = fd
  BY FreeIsNotKept DEF Sound, KeptAt
<1>2. held[x] # FdInvalid
  BY <1>1, FdFacts
<1> QED BY <1>1, <1>2 DEF Sound, AllRightful

\* A place that keeps its descriptor keeps it on the same file.
LEMMA KeptPathsStay ==
    ASSUME NEW t, NEW held \in Books, Sound(t, held), NEW u, NEW kept \in Books, Sound(u, kept),
           PathsKept(t, u), NEW x \in Places, held[x] # FdInvalid, kept[x] = held[x]
    PROVE  u[held[x]].path = t[held[x]].path
<1>1. held[x] \in ValidFds
  BY BooksParts
<1>2. InUse(t, held[x]) /\ InUse(u, held[x])
  BY <1>1, FreeIsNotKept DEF Sound
<1> QED BY <1>1, <1>2 DEF PathsKept

\* Files exist that are open.
LEMMA KeptExist ==
    ASSUME NEW sys, NEW held \in Books, Consistent(sys, held), NEW x \in Places, held[x] # FdInvalid
    PROVE  /\ held[x] \in ValidFds /\ InUse(sys.fdt, held[x])
           /\ sys.fdt[held[x]].path \in sys.files /\ sys.fdt[held[x]].path \in Rightful(x)
<1>1. held[x] \in ValidFds
  BY BooksParts
<1>2. InUse(sys.fdt, held[x])
  BY <1>1, FreeIsNotKept DEF Sound, Consistent
<1> QED BY <1>1, <1>2 DEF Consistent, OpenExist, Sound, AllRightful

\* The ram file is closed and opened again, perhaps in another slot.
LEMMA ReopenRamIsConsistent ==
    ASSUME NEW sys \in CountedFs, NEW held \in Books, Consistent(sys, held), NEW pid \in Pids,
           held[Ram(pid)] # FdInvalid
    PROVE  LET new == ReopenRam(sys, pid, held[Ram(pid)])
               fd == ReopenedRamFd(sys, held[Ram(pid)])
           IN  /\ fd # FdInvalid
               /\ new \in CountedFs /\ [held EXCEPT ![Ram(pid)] = fd] \in Books
               /\ Consistent(new, [held EXCEPT ![Ram(pid)] = fd])
               /\ \A J : PipesUsed(sys, J) => PipesUsed(new, J)
<1> DEFINE old == held[Ram(pid)]
           closed == FileClose(sys.fdt, old)
           files == sys.files \ {RamPath(pid)}
           mid == [fdt |-> closed, files |-> files, pipes |-> sys.pipes]
           between == [held EXCEPT ![Ram(pid)] = FdInvalid]
           fd == NewFd(closed)
           new == ReopenRam(sys, pid, old)
           kept == [held EXCEPT ![Ram(pid)] = fd]
<1>1. /\ Ram(pid) \in Places \ PipePlaces /\ RamPath(pid) \in OwnedPaths
      /\ Rightful(Ram(pid)) = {RamPath(pid)} /\ "RW" \in Modes
  BY NotPipes, Owners DEF Modes
<1>2. /\ old \in ValidFds /\ old \in Fds /\ InUse(sys.fdt, old) /\ RamPath(pid) \in sys.files
      /\ sys.fdt[old].ref = 1 /\ sys.fdt \in CountedTables /\ sys.files \in SUBSET Paths
  <2>1. old \in ValidFds /\ InUse(sys.fdt, old) /\ sys.fdt[old].path \in sys.files /\ sys.fdt[old].path = RamPath(pid)
    BY <1>1, KeptExist
  <2>2. sys.fdt[old].ref = 1
    BY <1>1, OwnerKeeps DEF Consistent
  <2> QED BY <2>1, <2>2, FdFacts, FsParts
<1>3. closed \in CountedTables /\ files \in SUBSET Paths /\ mid \in CountedFs
  BY <1>2, FileCloseCounted, FsBuilt, FsParts
<1>4. mid.fdt = closed /\ mid.files = files /\ mid.pipes = sys.pipes
  OBVIOUS
<1>5. new.fdt = FileOpen(closed, RamPath(pid), "RW") /\ new.files = sys.files /\ new.pipes = sys.pipes /\ new \in CountedFs
  BY <1>2, FsFields, ReopenRamType DEF ReopenRam
<1>6. between \in Books /\ between[Ram(pid)] = FdInvalid /\ kept = [between EXCEPT ![Ram(pid)] = fd]
  BY <1>1, FdFacts DEF Books
<1>7. old \in FreeFds(closed)
  BY <1>2 DEF FileClose, FreeFds, InUse, UnusedSlot, CountedTables, Tables
<1> HIDE DEF closed, files, mid, between, new, kept
<1>8. Consistent(mid, between) /\ \A J : PipesUsed(sys, J) => PipesUsed(mid, J)
  BY <1>1, <1>3, <1>4, CloseOwned DEF closed, files, between
<1>9. fd # FdInvalid /\ fd \in FreeFds(closed)
  BY <1>3, <1>7, NewFdIsFree
<1>10. /\ new.fdt = OpenedAt(mid.fdt, fd, RamPath(pid), "RW")
       /\ new.files = mid.files \cup {RamPath(pid)} /\ new.pipes = mid.pipes
  BY <1>2, <1>3, <1>4, <1>5, NewFdIsFree DEF files
<1>11. /\ [between EXCEPT ![Ram(pid)] = fd] \in Books
       /\ Consistent(new, [between EXCEPT ![Ram(pid)] = fd])
       /\ \A J : PipesUsed(mid, J) => PipesUsed(new, J)
  <2> HIDE DEF fd
  <2> QED BY <1>1, <1>3, <1>4, <1>5, <1>6, <1>8, <1>9, <1>10, OpenOwned
<1>12. fd = ReopenedRamFd(sys, old)
  BY DEF ReopenedRamFd, closed
<1> QED BY <1>5, <1>6, <1>8, <1>9, <1>11, <1>12 DEF new, kept
-----------------------------------------------------------------------------
\* The books with another local table for a process.
WithLocals(held, pid, fds) ==
    [x \in Places |-> IF x \in {Local(pid, l) : l \in LocalFds} THEN fds[x[3]] ELSE held[x]]
HasLocals(held, pid, fds) == \A l \in LocalFds : held[Local(pid, l)] = fds[l]

LEMMA WithLocalsFacts ==
    ASSUME NEW held \in Books, NEW pid \in Pids, NEW fds \in LocalTables
    PROVE  /\ WithLocals(held, pid, fds) \in Books
           /\ HasLocals(WithLocals(held, pid, fds), pid, fds)
           /\ \A x \in Places : (\A l \in LocalFds : x # Local(pid, l)) => WithLocals(held, pid, fds)[x] = held[x]
           /\ HasLocals(held, pid, fds) => WithLocals(held, pid, fds) = held
<1> DEFINE new == WithLocals(held, pid, fds)
<1>1. \A l \in LocalFds : Local(pid, l) \in Places /\ Local(pid, l)[3] = l
  BY PlaceKinds DEF Local
<1>2. \A l \in LocalFds : new[Local(pid, l)] = fds[l]
  BY <1>1 DEF WithLocals
<1>3. \A x \in Places : (\A l \in LocalFds : x # Local(pid, l)) => new[x] = held[x]
  BY DEF WithLocals
<1>4. new \in Books
  <2>1. \A x \in Places : new[x] \in Fds
    BY <1>2, <1>3 DEF Books, LocalTables
  <2> QED BY <2>1 DEF WithLocals, Books
<1>5. HasLocals(held, pid, fds) => new = held
  <2> SUFFICES ASSUME HasLocals(held, pid, fds) PROVE new = held
    OBVIOUS
  <2>1. \A x \in Places : new[x] = held[x]
    BY <1>2, <1>3 DEF HasLocals
  <2> HIDE DEF new
  <2> QED BY <1>4, <2>1 DEF Books
<1> QED BY <1>2, <1>3, <1>4, <1>5 DEF HasLocals

LEMMA WithLocalChanged ==
    ASSUME NEW held \in Books, NEW pid \in Pids, NEW fds \in LocalTables, HasLocals(held, pid, fds),
           NEW l \in LocalFds, NEW fd \in Fds
    PROVE  /\ [fds EXCEPT ![l] = fd] \in LocalTables
           /\ [held EXCEPT ![Local(pid, l)] = fd] = WithLocals(held, pid, [fds EXCEPT ![l] = fd])
<1> DEFINE more == [fds EXCEPT ![l] = fd]
           new == [held EXCEPT ![Local(pid, l)] = fd]
<1>1. more \in LocalTables
  BY DEF LocalTables
<1>2. Local(pid, l) \in Places
  BY PlaceKinds
<1>3. new \in Books
  BY <1>2 DEF Books
<1>4. HasLocals(new, pid, more)
  BY <1>2, PlaceKinds, PlacesDiffer DEF HasLocals, LocalTables, Books
<1>5. WithLocals(new, pid, more) = new
  BY <1>1, <1>3, <1>4, WithLocalsFacts
<1>6. WithLocals(new, pid, more) = WithLocals(held, pid, more)
  <2>1. \A x \in Places : x \notin {Local(pid, m) : m \in LocalFds} => new[x] = held[x]
    BY <1>2 DEF Books
  <2> HIDE DEF new, more
  <2> QED BY <2>1 DEF WithLocals
<1> QED BY <1>1, <1>5, <1>6

\* A table whose last entry is free has a first free entry.
LEMMA FirstLocalFacts ==
    ASSUME NEW fds \in LocalTables, fds[MaxFds - 1] = FdInvalid
    PROVE  FirstLocal(fds) \in LocalFds /\ fds[FirstLocal(fds)] = FdInvalid
<1> DEFINE S == {l \in LocalFds : fds[l] = FdInvalid}
<1>1. S # {} /\ S \subseteq Nat
  BY LocalBounds DEF LocalFds
<1>2. PICK l \in S : \A m \in S : l <= m
  <2> DEFINE n == MaxFds - 1
             T == {n - m : m \in S}
  <2>1. n \in Nat /\ S \subseteq 0 .. n
    BY SizesAssumption DEF LocalFds
  <2>2. T \subseteq 0 .. n /\ T # {}
    BY <1>1, <2>1
  <2> HIDE DEF S, n
  <2>3. PICK x \in T : \A y \in T : y <= x
    BY <2>1, <2>2, GreatestElement
  <2>4. PICK l \in S : x = n - l
    BY <2>3
  <2>5. ASSUME NEW m \in S PROVE l <= m
    <3>1. n - m \in T
      OBVIOUS
    <3>2. n - m <= n - l
      BY <2>3, <2>4, <3>1
    <3>3. n \in Nat /\ m \in Nat /\ l \in Nat
      BY <2>1
    <3> QED BY <3>2, <3>3
  <2> QED BY <2>5
<1>3. fds[l] = FdInvalid /\ l \in LocalFds /\ \A m \in 1 .. (l - 1) : fds[m] # FdInvalid
  <2>1. \A m \in 1 .. (l - 1) : m \in LocalFds /\ ~(l <= m)
    BY <1>2, SizesAssumption DEF LocalFds
  <2> QED BY <1>2, <2>1
<1>4. \E m \in LocalFds : fds[m] = FdInvalid /\ \A k \in 1 .. (m - 1) : fds[k] # FdInvalid
  BY <1>3
<1> QED BY <1>3, <1>4 DEF FirstLocal

\* procManProcessOpenFile: the books have the new local table. What was open
\* locally stays, and after a success the file is open.
LEMMA OpenLocalIsConsistent ==
    ASSUME NEW sys \in CountedFs, NEW held \in Books, Consistent(sys, held),
           NEW pid \in Pids, NEW fds \in LocalTables, fds[MaxFds - 1] = FdInvalid, HasLocals(held, pid, fds),
           NEW path \in Paths, NEW mode \in Modes
    PROVE  LET opened == OpenLocal(sys, fds, path, mode)
               kept == WithLocals(held, pid, opened.fds)
           IN  /\ opened.fs \in CountedFs /\ opened.fds \in LocalTables /\ opened.fds[MaxFds - 1] = FdInvalid
               /\ kept \in Books /\ Consistent(opened.fs, kept)
               /\ \A J : PipesUsed(sys, J) => PipesUsed(opened.fs, J)
               /\ PathsKept(sys.fdt, opened.fs.fdt)
               /\ \A l \in LocalFds : fds[l] # FdInvalid => opened.fds[l] = fds[l]
               /\ opened.local # FdInvalid => FileIsOpen(opened.fs.fdt, path)
<1> DEFINE o == OpenLocal(sys, fds, path, mode)
           l == FirstLocal(fds)
           fd == NewFd(sys.fdt)
           u == FileOpen(sys.fdt, path, mode)
           Goal(opened) == LET kept == WithLocals(held, pid, opened.fds)
              IN  /\ opened.fs \in CountedFs /\ opened.fds \in LocalTables /\ opened.fds[MaxFds - 1] = FdInvalid
                  /\ kept \in Books /\ Consistent(opened.fs, kept)
                  /\ \A J : PipesUsed(sys, J) => PipesUsed(opened.fs, J)
                  /\ PathsKept(sys.fdt, opened.fs.fdt)
                  /\ \A m \in LocalFds : fds[m] # FdInvalid => opened.fds[m] = fds[m]
                  /\ opened.local # FdInvalid => FileIsOpen(opened.fs.fdt, path)
<1>1. o.fs \in CountedFs /\ o.fds \in LocalTables /\ o.fds[MaxFds - 1] = FdInvalid
  BY OpenLocalType
<1>2. l \in LocalFds /\ fds[l] = FdInvalid /\ Local(pid, l) \in Places \ PipePlaces /\ held[Local(pid, l)] = FdInvalid
  BY FirstLocalFacts, NotPipes DEF HasLocals
<1>3. sys.fdt \in CountedTables /\ WithLocals(held, pid, fds) = held
  BY FsParts, WithLocalsFacts
<1>4. ASSUME o.fds = fds, o.local = FdInvalid, o.fs.files = sys.files, o.fs.pipes = sys.pipes,
             \A g \in ValidFds : o.fs.fdt[g] = sys.fdt[g]
      PROVE  Goal(o)
  <2> HIDE DEF o
  <2>1. /\ Consistent(o.fs, held) /\ \A J : PipesUsed(sys, J) => PipesUsed(o.fs, J)
        /\ PathsKept(sys.fdt, o.fs.fdt)
    BY <1>4, SameIsConsistent
  <2> QED BY <1>1, <1>3, <1>4, <2>1
<1>5. CASE ~MayOpenLocal(fds) \/ ~MayOpen(sys.fdt, sys.files, path)
  <2>1. o = [fs |-> sys, fds |-> fds, local |-> FdInvalid]
    BY <1>5 DEF OpenLocal
  <2>2. o.fds = fds /\ o.local = FdInvalid /\ o.fs = sys
    BY <2>1
  <2> HIDE DEF o
  <2>3. Goal(o)
    BY <1>4, <2>2
  <2> QED BY <2>3 DEF o
<1>6. CASE ~(~MayOpenLocal(fds) \/ ~MayOpen(sys.fdt, sys.files, path))
  <2>1. o = [fs    |-> [sys EXCEPT !.fdt = u],
             fds   |-> [fds EXCEPT ![l] = fd],
             local |-> IF fd = FdInvalid THEN FdInvalid ELSE l]
    BY <1>6 DEF OpenLocal
  <2> HIDE DEF o, u, fd, l
  <2>2. /\ o.fs.fdt = u /\ o.fs.files = sys.files /\ o.fs.pipes = sys.pipes
        /\ o.fds = [fds EXCEPT ![l] = fd] /\ o.local = IF fd = FdInvalid THEN FdInvalid ELSE l
    <3>1. [sys EXCEPT !.fdt = u].fdt = u /\ [sys EXCEPT !.fdt = u].files = sys.files
          /\ [sys EXCEPT !.fdt = u].pipes = sys.pipes
      BY FsFields
    <3> QED BY <2>1, <3>1
  <2> USE DEF fd, l
  <2>3. CASE fd = FdInvalid
    <3>1. \A g \in ValidFds : o.fs.fdt[g] = sys.fdt[g]
      BY <1>3, <2>2, <2>3, NewFdIsFree DEF u
    <3>2. o.fds = fds
      BY <1>2, <2>2, <2>3 DEF LocalTables
    <3>3. Goal(o)
      BY <1>4, <2>2, <2>3, <3>1, <3>2
    <3> QED BY <3>3 DEF o
  <2>4. CASE fd # FdInvalid
    <3>1. fd \in FreeFds(sys.fdt) /\ u = OpenedAt(sys.fdt, fd, path, mode) /\ fd \in Fds
      BY <1>3, <2>4, NewFdIsFree, NewFdFacts DEF u
    <3>2. path \in Paths \ OwnedPaths
      BY <1>6, OwnedAreExclusive DEF Consistent, OwnedAreOpen, MayOpen
    <3>3. path \in Rightful(Local(pid, l))
      BY <1>2, <3>2, Owners
    <3>4. MayOpen(sys.fdt, sys.files, path)
      BY <1>6
    <3> HIDE DEF fd, l
    <3>5. /\ [held EXCEPT ![Local(pid, l)] = fd] \in Books
          /\ Consistent(o.fs, [held EXCEPT ![Local(pid, l)] = fd])
          /\ \A J : PipesUsed(sys, J) => PipesUsed(o.fs, J)
          /\ PathsKept(sys.fdt, o.fs.fdt)
      BY <1>1, <1>2, <2>2, <3>1, <3>2, <3>3, <3>4, OpenExisting
    <3>6. [held EXCEPT ![Local(pid, l)] = fd] = WithLocals(held, pid, o.fds)
      BY <1>2, <2>2, <3>1, WithLocalChanged
    <3>7. \A m \in LocalFds : fds[m] # FdInvalid => o.fds[m] = fds[m]
      BY <1>2, <2>2 DEF LocalTables
    <3>8. FileIsOpen(o.fs.fdt, path)
      BY <1>3, <2>2, <3>1, OpenedFacts
    <3>9. Goal(o)
      BY <1>1, <3>5, <3>6, <3>7, <3>8
    <3> QED BY <3>9 DEF o
  <2> QED BY <2>3, <2>4
<1> QED BY <1>5, <1>6
-----------------------------------------------------------------------------
\* What stays in its place, the mounts left aside, stays the same file.
SamePaths(t, held, u, kept) ==
    \A x \in Places \ PipePlaces : kept[x] # FdInvalid /\ kept[x] = held[x] => u[kept[x]].path = t[held[x]].path

LEMMA SlotsGiveSamePaths ==
    ASSUME NEW t, NEW held \in Books, Sound(t, held), NEW u, NEW kept \in Books, Sound(u, kept), PathsKept(t, u)
    PROVE  SamePaths(t, held, u, kept)
BY KeptPathsStay DEF SamePaths

\* The books go on as they were, but for the places in X and those of mounts,
\* which go by the mount table.
GoesOn(sys, held, X, new, kept) ==
    /\ kept \in Books /\ Consistent(new, kept)
    /\ SamePaths(sys.fdt, held, new.fdt, kept)
    /\ \A x \in Places \ PipePlaces : kept[x] = IF x \in X THEN FdInvalid ELSE held[x]

LEMMA GoingOn ==
    ASSUME NEW sys, NEW held \in Books, Consistent(sys, held), NEW X, NEW mid, NEW between,
           GoesOn(sys, held, X, mid, between), NEW Y, NEW new, NEW kept, GoesOn(mid, between, Y, new, kept)
    PROVE  GoesOn(sys, held, X \cup Y, new, kept)
<1>1. \A x \in Places \ PipePlaces : kept[x] = IF x \in X \cup Y THEN FdInvalid ELSE held[x]
  BY DEF GoesOn
<1>2. \A x \in Places \ PipePlaces : kept[x] # FdInvalid => kept[x] = between[x] /\ between[x] = held[x]
  BY DEF GoesOn
<1>3. SamePaths(sys.fdt, held, new.fdt, kept)
  BY <1>2 DEF GoesOn, SamePaths
<1> QED BY <1>1, <1>3 DEF GoesOn

\* kernelUnmount of pipes nobody has an end of, with their backing files.
LEMMA UnmountIsConsistent ==
    ASSUME NEW sys \in CountedFs, NEW held \in Books, Consistent(sys, held), NEW ids \in SUBSET PipeIds,
           \A i \in ids : ~FileIsOpen(sys.fdt, PipeDev(i))
    PROVE  /\ Unmount(sys, ids) \in CountedFs
           /\ \E kept : GoesOn(sys, held, {}, Unmount(sys, ids), kept)
           /\ \A J : PipesUsed(sys, J \cup ids) => PipesUsed(Unmount(sys, ids), J)
<1> DEFINE new == Unmount(sys, ids)
           t == sys.fdt
           gone == {i \in ids : PipeDev(i) \in sys.files}
           X == {Pipe(i) : i \in gone}
           S == {sys.pipes[i].fd : i \in gone}
           u == ClosedIn(t, S)
           kept == EmptiedAt(held, X)
<1>1. new \in CountedFs
  BY UnmountType
<1>2. /\ new.fdt = u
      /\ new.files = sys.files \ ({PipeDev(i) : i \in gone} \cup {PipeBacking(i) : i \in gone})
      /\ new.pipes = [i \in PipeIds |-> IF i \in gone THEN NoPipe ELSE sys.pipes[i]]
  BY DEF Unmount, ClosedIn
<1>3. t \in CountedTables /\ Sound(t, held)
  BY FsParts DEF Consistent
<1> HIDE DEF new, t, u
<1>4. /\ X \in SUBSET Places /\ gone \subseteq PipeIds
      /\ \A i \in gone : Pipe(i) \in Places /\ held[Pipe(i)] = sys.pipes[i].fd /\ held[Pipe(i)] # FdInvalid
      /\ \A i \in gone : t[held[Pipe(i)]].path = PipeBacking(i)
  <2>1. gone \subseteq PipeIds
    OBVIOUS
  <2>2. \A i \in gone : Pipe(i) \in Places /\ held[Pipe(i)] = sys.pipes[i].fd /\ held[Pipe(i)] # FdInvalid
    BY PlaceKinds DEF Consistent, MountsKept
  <2>3. \A i \in gone : t[held[Pipe(i)]].path = PipeBacking(i)
    BY <1>3, <2>1, <2>2, OwnerKeeps, Owners
  <2> QED BY <2>1, <2>2, <2>3
<1> HIDE DEF gone
<1>5. \A x, y \in X : held[x] = held[y] => x = y
  BY <1>4, PathsDiffer
<1>6. S = {held[x] : x \in X}
  BY <1>4
<1>7. \A x \in X : held[x] # FdInvalid
  BY <1>4
<1>8. Sound(u, kept) /\ Fewer(t, held, u, kept) /\ kept \in Books
  <2> HIDE DEF X, S, kept
  <2> QED BY <1>3, <1>4, <1>5, <1>6, <1>7, CloseSetIsSound DEF u, kept
<1>9. /\ \A x \in Places \ PipePlaces : kept[x] = held[x]
      /\ \A i \in PipeIds : kept[Pipe(i)] = IF i \in gone THEN FdInvalid ELSE held[Pipe(i)]
  <2>1. \A x \in Places \ PipePlaces : x \notin X
    BY <1>4 DEF PipePlaces
  <2>2. \A i \in PipeIds : Pipe(i) \in X <=> i \in gone
    BY PlacesDiffer
  <2> QED BY <2>1, <2>2, PlaceKinds DEF EmptiedAt
<1>10. \A fd \in ValidFds : fd \notin S => u[fd] = t[fd]
  BY FdFacts DEF u, ClosedIn
<1>11. \A fd \in S : \E i \in gone : t[fd].path = PipeBacking(i)
  BY <1>4
<1> HIDE DEF X, S, kept
<1>12. \A i \in gone : ~FileIsOpen(u, PipeBacking(i))
  <2> TAKE i \in gone
  <2>1. i \in PipeIds /\ Pipe(i) \in Places /\ kept[Pipe(i)] = FdInvalid
    BY <1>4, <1>9
  <2> QED BY <1>8, <2>1, OwnerKeeps, Owners
<1>13. OpenExist(new)
  <2> SUFFICES ASSUME NEW fd \in ValidFds, u[fd].path # NoPath PROVE u[fd].path \in new.files
    BY <1>2 DEF OpenExist, InUse
  <2>1. u[fd].path = t[fd].path
    BY <1>8 DEF Fewer
  <2>2. t[fd].path \in sys.files
    BY <2>1 DEF Consistent, OpenExist, InUse, t
  <2>3. \A i \in gone : t[fd].path # PipeDev(i)
    BY DEF FileIsOpen, t, gone
  <2>4. \A i \in gone : u[fd].path # PipeBacking(i)
    BY <1>12 DEF FileIsOpen
  <2> QED BY <1>2, <2>1, <2>2, <2>3, <2>4
<1>14. \A path : FileIsOpen(t, path) /\ (\A i \in gone : path # PipeBacking(i)) => FileIsOpen(u, path)
  BY <1>10, <1>11 DEF FileIsOpen
<1>15. OwnedAreOpen(new)
  BY <1>2, <1>14 DEF Consistent, OwnedAreOpen, t
<1>16. ProgPaths \subseteq new.files
  BY <1>2, <1>4, Owners, OwnedAreExclusive DEF Consistent
<1>17. \A i \in PipeIds : PipeDev(i) \in new.files <=> PipeDev(i) \in sys.files /\ i \notin gone
  BY <1>2, PathsDiffer
<1>18. MountsKept(new, kept)
  <2>1. \A i \in PipeIds : new.pipes[i].fd = IF i \in gone THEN FdInvalid ELSE sys.pipes[i].fd
    BY <1>2 DEF NoPipe
  <2> QED BY <1>9, <1>17, <2>1 DEF Consistent, MountsKept
<1>19. \A J : PipesUsed(sys, J \cup ids) => PipesUsed(new, J)
  <2> SUFFICES ASSUME NEW J, PipesUsed(sys, J \cup ids), NEW i \in PipeIds \ J, PipeDev(i) \in new.files
               PROVE  FileIsOpen(u, PipeDev(i))
    BY <1>2 DEF PipesUsed
  <2>1. PipeDev(i) \in sys.files /\ i \notin ids
    BY <1>17 DEF gone
  <2>2. FileIsOpen(t, PipeDev(i))
    BY <2>1 DEF PipesUsed, t
  <2> QED BY <1>14, <2>2, PathsDiffer
<1>20. SamePaths(t, held, u, kept)
  <2>1. PathsKept(t, u)
    BY <1>8 DEF PathsKept, Fewer, InUse
  <2> QED BY <1>3, <1>8, <2>1, SlotsGiveSamePaths
<1>21. Consistent(new, kept)
  BY <1>2, <1>8, <1>13, <1>15, <1>16, <1>18 DEF Consistent
<1>22. GoesOn(sys, held, {}, new, kept)
  BY <1>2, <1>8, <1>9, <1>20, <1>21 DEF GoesOn, t
<1> QED BY <1>1, <1>19, <1>22 DEF new

\* Files that are open in a local table are closed, their ends of pipes and so
\* perhaps some pipes with them.
LEMMA CloseFilesIsConsistent ==
    ASSUME NEW sys \in CountedFs, NEW held \in Books, Consistent(sys, held), NEW pid \in Pids,
           NEW L \in SUBSET LocalFds, \A l \in L : held[Local(pid, l)] # FdInvalid,
           NEW S, S = {held[Local(pid, l)] : l \in L}
    PROVE  /\ CloseFiles(sys, S) \in CountedFs
           /\ \E kept : GoesOn(sys, held, {Local(pid, l) : l \in L}, CloseFiles(sys, S), kept)
           /\ \A J : PipesUsed(sys, J) => PipesUsed(CloseFiles(sys, S), J)
<1> DEFINE new == CloseFiles(sys, S)
           t == sys.fdt
           X == {Local(pid, l) : l \in L}
           u == ClosedIn(t, S)
           mid == [fdt |-> u, files |-> sys.files, pipes |-> sys.pipes]
           between == EmptiedAt(held, X)
           ended == {i \in PipeIds : (\E fd \in S : t[fd].path = PipeDev(i)) /\ ~FileIsOpen(u, PipeDev(i))}
<1>1. new = Unmount([sys EXCEPT !.fdt = u], ended)
  BY DEF CloseFiles, ClosedIn
<1>2. t \in CountedTables /\ Sound(t, held) /\ sys.files \in SUBSET Paths /\ sys.pipes \in Pipes
  BY FsParts DEF Consistent
<1>3. u \in CountedTables
  BY <1>2, CloseSetCounted DEF ClosedIn
<1>4. mid \in CountedFs /\ mid.fdt = u /\ mid.files = sys.files /\ mid.pipes = sys.pipes
  <2> HIDE DEF u
  <2> QED BY <1>2, <1>3, FsBuilt
<1>5. [sys EXCEPT !.fdt = u] = mid
  <2> HIDE DEF u
  <2> QED BY DEF CountedFs, FileSystems
<1> HIDE DEF new, t, u, mid
<1>6. /\ X \in SUBSET Places
      /\ \A l \in L : Local(pid, l) \in Places /\ t[held[Local(pid, l)]].path \in Paths \ OwnedPaths
  BY <1>2, PlaceKinds, Owners DEF Sound, AllRightful
<1>7. Sound(u, between) /\ Fewer(t, held, u, between) /\ between \in Books
  <2>1. \A x \in X : held[x] # FdInvalid
    OBVIOUS
  <2>2. \A x, y \in X : held[x] = held[y] => x = y
    BY <1>2 DEF Sound, LocalsDiffer
  <2>3. S = {held[x] : x \in X}
    OBVIOUS
  <2> HIDE DEF X, between
  <2> QED BY <1>2, <1>6, <2>1, <2>2, <2>3, CloseSetIsSound DEF u, between
<1>8. \A fd \in ValidFds : fd \notin S => u[fd] = t[fd]
  BY FdFacts DEF u, ClosedIn
<1>9. \A fd \in S : t[fd].path \in Paths \ OwnedPaths
  BY <1>6
<1>10. \A x \in Places : between[x] = IF x \in X THEN FdInvalid ELSE held[x]
  BY DEF EmptiedAt
<1>11. \A i \in PipeIds : Pipe(i) \in Places /\ Pipe(i) \notin X
  BY PlaceKinds, PlacesDiffer
<1> HIDE DEF X, between
<1>12. OpenExist(mid)
  BY <1>4, <1>7 DEF Consistent, OpenExist, InUse, Fewer, t
<1>13. OwnedAreOpen(mid)
  BY <1>4, <1>8, <1>9 DEF Consistent, OwnedAreOpen, FileIsOpen, t
<1>14. MountsKept(mid, between)
  BY <1>4, <1>10, <1>11 DEF Consistent, MountsKept
<1>15. Consistent(mid, between)
  BY <1>4, <1>7, <1>12, <1>13, <1>14 DEF Consistent
<1>16. ended \in SUBSET PipeIds /\ \A i \in ended : ~FileIsOpen(mid.fdt, PipeDev(i))
  BY <1>4
<1>17. \A J : PipesUsed(sys, J) => PipesUsed(mid, J \cup ended)
  <2> SUFFICES ASSUME NEW J, PipesUsed(sys, J), NEW i \in PipeIds \ (J \cup ended), PipeDev(i) \in sys.files
               PROVE  FileIsOpen(u, PipeDev(i))
    BY <1>4 DEF PipesUsed
  <2>1. PICK fd \in ValidFds : t[fd].path = PipeDev(i)
    BY DEF PipesUsed, FileIsOpen, t
  <2>2. CASE fd \in S
    BY <2>1, <2>2
  <2>3. CASE fd \notin S
    BY <1>8, <2>1, <2>3 DEF FileIsOpen
  <2> QED BY <2>2, <2>3
<1> HIDE DEF ended
<1>18. /\ Unmount(mid, ended) \in CountedFs
       /\ \E kept : GoesOn(mid, between, {}, Unmount(mid, ended), kept)
       /\ \A J : PipesUsed(mid, J \cup ended) => PipesUsed(Unmount(mid, ended), J)
  BY <1>4, <1>7, <1>15, <1>16, UnmountIsConsistent
<1>19. new = Unmount(mid, ended)
  BY <1>1, <1>5
<1>20. PICK kept : GoesOn(mid, between, {}, new, kept)
  BY <1>18, <1>19
<1>21. GoesOn(sys, held, X, mid, between)
  <2>1. PathsKept(t, u)
    BY <1>7 DEF PathsKept, Fewer, InUse
  <2>2. SamePaths(t, held, u, between)
    BY <1>2, <1>7, <2>1, SlotsGiveSamePaths
  <2> QED BY <1>4, <1>7, <1>10, <1>15, <2>2 DEF GoesOn, t
<1>22. GoesOn(sys, held, X, new, kept)
  <2>1. GoesOn(sys, held, X \cup {}, new, kept)
    BY <1>20, <1>21, GoingOn
  <2>2. X \cup {} = X
    OBVIOUS
  <2> QED BY <2>1, <2>2
<1>23. \A J : PipesUsed(sys, J) => PipesUsed(new, J)
  BY <1>17, <1>18, <1>19
<1> QED BY <1>18, <1>19, <1>22, <1>23 DEF new, X

\* kernelMount of a new pipe, whose backing file has just been made; without
\* success that file is deleted again.
LEMMA MountIsConsistent ==
    ASSUME NEW sys \in CountedFs, NEW held \in Books, Consistent(sys, held), NEW i \in PipeIds,
           PipeBacking(i) \notin sys.files, PipeDev(i) \notin sys.files, NEW room,
           NEW mounted, mounted = Mount([sys EXCEPT !.files = @ \cup {PipeBacking(i)}], i, room)
    PROVE  /\ mounted \in CountedFs
           /\ PipeDev(i) \in mounted.files =>
                /\ \E kept : GoesOn(sys, held, {}, mounted, kept)
                /\ PipesUsed(sys, {}) => PipesUsed(mounted, {i})
           /\ PipeDev(i) \notin mounted.files =>
                LET back == [mounted EXCEPT !.files = @ \ {PipeBacking(i)}]
                IN  /\ back \in CountedFs /\ Consistent(back, held)
                    /\ \A J : PipesUsed(sys, J) => PipesUsed(back, J)
                    /\ PathsKept(sys.fdt, back.fdt)
<1> DEFINE t == sys.fdt
           more == sys.files \cup {PipeBacking(i)}
           from == [fdt |-> t, files |-> more, pipes |-> sys.pipes]
           fd == NewFd(t)
           u == FileOpen(t, PipeBacking(i), "RW")
           pipes == [sys.pipes EXCEPT ![i] = [fd |-> fd, len |-> 0]]
           back == [mounted EXCEPT !.files = @ \ {PipeBacking(i)}]
<1>1. t \in CountedTables /\ Sound(t, held) /\ sys.files \in SUBSET Paths /\ sys.pipes \in Pipes
  BY FsParts DEF Consistent
<1>2. from \in CountedFs /\ from.fdt = t /\ from.files = more /\ from.pipes = sys.pipes
  <2>1. more \in SUBSET Paths
    BY <1>1, PathTypes
  <2> HIDE DEF t, more
  <2> QED BY <1>1, <2>1, FsBuilt
<1>3. [sys EXCEPT !.files = @ \cup {PipeBacking(i)}] = from
  BY DEF CountedFs, FileSystems
<1>4. mounted = Mount(from, i, room) /\ mounted \in CountedFs
  BY <1>2, <1>3, MountType
<1> HIDE DEF from
<1>5. CASE fd # FdInvalid /\ room
  <2>1. mounted = [from EXCEPT !.fdt = u, !.files = more \cup {PipeDev(i)}, !.pipes = pipes]
    BY <1>2, <1>4, <1>5 DEF Mount
  <2>2. mounted.fdt = u /\ mounted.files = more \cup {PipeDev(i)} /\ mounted.pipes = pipes
    <3> HIDE DEF u, more, pipes, t
    <3> QED BY <1>2, <2>1 DEF CountedFs, FileSystems
  <2>3. fd \in FreeFds(t) /\ u = OpenedAt(t, fd, PipeBacking(i), "RW") /\ fd \in ValidFds
    BY <1>1, <1>5, NewFdIsFree DEF FreeFds
  <2> DEFINE kept == [held EXCEPT ![Pipe(i)] = fd]
  <2>4. /\ Pipe(i) \in Places /\ Rightful(Pipe(i)) = {PipeBacking(i)} /\ PipeBacking(i) \in Paths
        /\ PipeBacking(i) \in OwnedPaths /\ held[Pipe(i)] = FdInvalid /\ "RW" \in Modes
    BY PlaceKinds, Owners, PathTypes DEF Consistent, MountsKept, Modes
  <2>5. ~FileIsOpen(t, PipeBacking(i))
    BY <1>1, <2>4, OwnerKeeps
  <2> HIDE DEF fd, t, u
  <2>6. Sound(u, kept) /\ kept \in Books
    BY <1>1, <2>3, <2>4, <2>5, OpenIsSound DEF OpenedAt
  <2>7. /\ u[fd].path = PipeBacking(i) /\ PathsKept(t, u) /\ FileIsOpen(u, PipeBacking(i))
        /\ \A g \in Fds : g # fd => u[g] = t[g]
        /\ \A q : FileIsOpen(t, q) /\ q # NoPath => FileIsOpen(u, q)
    BY <1>1, <2>3, <2>4, OpenedFacts
  <2>8. OpenExist(mounted)
    BY <2>2, <2>7, FdFacts DEF Consistent, OpenExist, InUse, t
  <2>9. OwnedAreOpen(mounted)
    BY <2>2, <2>7, Owners, OwnedAreExclusive DEF Consistent, OwnedAreOpen, t
  <2>10. ProgPaths \subseteq mounted.files
    BY <2>2 DEF Consistent
  <2>11. /\ \A j \in PipeIds : PipeDev(j) \in mounted.files <=> PipeDev(j) \in sys.files \/ j = i
         /\ PipeDev(i) \in mounted.files
    BY <2>2, PathsDiffer
  <2>12. /\ \A x \in Places \ PipePlaces : kept[x] = held[x]
         /\ \A j \in PipeIds : kept[Pipe(j)] = IF j = i THEN fd ELSE held[Pipe(j)]
    BY <2>4, PlaceKinds, PlacesDiffer DEF PipePlaces, Books
  <2>13. MountsKept(mounted, kept)
    <3>1. \A j \in PipeIds : mounted.pipes[j].fd = IF j = i THEN fd ELSE sys.pipes[j].fd
      BY <1>1, <2>2 DEF Pipes
    <3> HIDE DEF kept
    <3> QED BY <2>3, <2>11, <2>12, <3>1, FdFacts DEF Consistent, MountsKept
  <2> HIDE DEF kept
  <2>14. GoesOn(sys, held, {}, mounted, kept)
    <3>1. SamePaths(t, held, u, kept)
      BY <1>1, <2>6, <2>7, SlotsGiveSamePaths
    <3> QED BY <2>2, <2>6, <2>8, <2>9, <2>10, <2>12, <2>13, <3>1 DEF GoesOn, Consistent, t
  <2>15. PipesUsed(sys, {}) => PipesUsed(mounted, {i})
    BY <2>2, <2>7, <2>11, PathTypes, PathsAssumption DEF PipesUsed, t
  <2> QED BY <1>4, <2>11, <2>14, <2>15
<1>6. CASE ~(fd # FdInvalid /\ room)
  <2> DEFINE v == IF fd # FdInvalid THEN t ELSE u
  <2>1. mounted = [from EXCEPT !.fdt = v]
    BY <1>2, <1>4, <1>6 DEF Mount
  <2>2. mounted.fdt = v /\ mounted.files = more /\ mounted.pipes = sys.pipes
    <3> HIDE DEF v, more, t
    <3>1. /\ [from EXCEPT !.fdt = v].fdt = v /\ [from EXCEPT !.fdt = v].files = from.files
          /\ [from EXCEPT !.fdt = v].pipes = from.pipes
      BY <1>2, FsFields
    <3> QED BY <1>2, <2>1, <3>1
  <2>3. PipeDev(i) \notin mounted.files
    BY <2>2, PathsDiffer
  <2>4. \A g \in ValidFds : v[g] = t[g]
    BY <1>1, NewFdIsFree
  <2>5. back.fdt = v /\ back.files = sys.files /\ back.pipes = sys.pipes /\ back \in CountedFs
    <3>1. more \ {PipeBacking(i)} = sys.files
      OBVIOUS
    <3>2. back = [mounted EXCEPT !.files = sys.files]
      BY <1>4, <2>2, <3>1 DEF CountedFs, FileSystems
    <3> HIDE DEF v, back
    <3> QED BY <1>1, <1>4, <2>2, <3>2, FsFields, FsWithFiles
  <2> HIDE DEF v, back
  <2>6. /\ Consistent(back, held) /\ \A J : PipesUsed(sys, J) => PipesUsed(back, J)
        /\ PathsKept(sys.fdt, back.fdt)
    BY <2>4, <2>5, SameIsConsistent
  <2> QED BY <1>4, <2>3, <2>5, <2>6 DEF back
<1> QED BY <1>5, <1>6
-----------------------------------------------------------------------------
\* The books go on, with another local table for a process.
GoesOnWith(sys, held, pid, fds, new, kept) ==
    /\ kept \in Books /\ Consistent(new, kept) /\ HasLocals(kept, pid, fds)
    /\ SamePaths(sys.fdt, held, new.fdt, kept)
    /\ \A x \in Places \ PipePlaces : (\A l \in LocalFds : x # Local(pid, l)) => kept[x] = held[x]

\* OpenLocalIsConsistent in these terms.
LEMMA OpenLocalGoesOn ==
    ASSUME NEW sys \in CountedFs, NEW held \in Books, Consistent(sys, held),
           NEW pid \in Pids, NEW fds \in LocalTables, fds[MaxFds - 1] = FdInvalid, HasLocals(held, pid, fds),
           NEW path \in Paths, NEW mode \in Modes, NEW opened, opened = OpenLocal(sys, fds, path, mode)
    PROVE  /\ opened.fs \in CountedFs /\ opened.fds \in LocalTables /\ opened.fds[MaxFds - 1] = FdInvalid
           /\ \E kept : GoesOnWith(sys, held, pid, opened.fds, opened.fs, kept)
           /\ \A J : PipesUsed(sys, J) => PipesUsed(opened.fs, J)
           /\ \A l \in LocalFds : fds[l] # FdInvalid => opened.fds[l] = fds[l]
           /\ opened.local # FdInvalid => FileIsOpen(opened.fs.fdt, path)
<1> DEFINE kept == WithLocals(held, pid, opened.fds)
<1>1. /\ opened.fs \in CountedFs /\ opened.fds \in LocalTables /\ opened.fds[MaxFds - 1] = FdInvalid
      /\ kept \in Books /\ Consistent(opened.fs, kept)
      /\ \A J : PipesUsed(sys, J) => PipesUsed(opened.fs, J)
      /\ PathsKept(sys.fdt, opened.fs.fdt)
      /\ \A l \in LocalFds : fds[l] # FdInvalid => opened.fds[l] = fds[l]
      /\ opened.local # FdInvalid => FileIsOpen(opened.fs.fdt, path)
  BY OpenLocalIsConsistent
<1>2. /\ HasLocals(kept, pid, opened.fds)
      /\ \A x \in Places : (\A l \in LocalFds : x # Local(pid, l)) => kept[x] = held[x]
  BY <1>1, WithLocalsFacts
<1> HIDE DEF kept
<1>3. SamePaths(sys.fdt, held, opened.fs.fdt, kept)
  BY <1>1, SlotsGiveSamePaths DEF Consistent
<1>4. GoesOnWith(sys, held, pid, opened.fds, opened.fs, kept)
  BY <1>1, <1>2, <1>3 DEF GoesOnWith
<1> QED BY <1>1, <1>4

\* An end of a pipe is open in local tables only.
LEMMA EndsAreLocal ==
    ASSUME NEW t, NEW held \in Books, Sound(t, held), NEW i \in PipeIds, NEW fd \in ValidFds, t[fd].path = PipeDev(i)
    PROVE  \E pid \in Pids, l \in LocalFds : held[Local(pid, l)] = fd
<1>1. InUse(t, fd)
  BY PathTypes, PathsAssumption DEF InUse
<1>2. PICK x \in Places : held[x] = fd /\ PipeDev(i) \in Rightful(x)
  BY <1>1, KeptSomewhere
<1>3. \A p \in Pids : x # Prog(p) /\ x # Proc(p) /\ x # Ram(p)
  BY <1>2, Owners, PathsDiffer
<1>4. \A j \in PipeIds : x # Pipe(j)
  BY <1>2, Owners, PathsDiffer
<1> QED BY <1>2, <1>3, <1>4, PlaceKinds

\* The two ends of a new pipe are opened; without success the one that may have
\* been is closed, and the pipe unmounted.
LEMMA EndsAreConsistent ==
    ASSUME NEW sys \in CountedFs, NEW held \in Books, Consistent(sys, held), PipesUsed(sys, {}),
           NEW i \in PipeIds, PipeDev(i) \notin sys.files,
           NEW mounted \in CountedFs, NEW between, GoesOn(sys, held, {}, mounted, between), PipesUsed(mounted, {i}),
           NEW pid \in Pids, NEW fds \in LocalTables, fds[MaxFds - 1] = FdInvalid, HasLocals(held, pid, fds),
           NEW reader, reader = OpenLocal(mounted, fds, PipeDev(i), "RO"),
           NEW writer, writer = OpenLocal(reader.fs, reader.fds, PipeDev(i), "WO"),
           NEW undone, undone = Unmount(CloseFiles(writer.fs, GlobalFds(writer.fds) \ GlobalFds(fds)), {i})
    PROVE  /\ FdInvalid \notin {reader.local, writer.local} =>
                /\ \E kept : GoesOnWith(sys, held, pid, writer.fds, writer.fs, kept)
                /\ PipesUsed(writer.fs, {})
           /\ \E kept : GoesOn(sys, held, {}, undone, kept)
           /\ PipesUsed(undone, {})
<1>1. PipeDev(i) \in Paths /\ "RO" \in Modes /\ "WO" \in Modes
  BY PathTypes DEF Modes
<1>2. /\ between \in Books /\ Consistent(mounted, between) /\ HasLocals(between, pid, fds)
      /\ SamePaths(sys.fdt, held, mounted.fdt, between)
      /\ \A x \in Places \ PipePlaces : between[x] = held[x]
  BY NotPipes DEF GoesOn, HasLocals
<1>3. /\ reader.fs \in CountedFs /\ reader.fds \in LocalTables /\ reader.fds[MaxFds - 1] = FdInvalid
      /\ \E kept : GoesOnWith(mounted, between, pid, reader.fds, reader.fs, kept)
      /\ PipesUsed(reader.fs, {i})
      /\ \A l \in LocalFds : fds[l] # FdInvalid => reader.fds[l] = fds[l]
  BY <1>1, <1>2, OpenLocalGoesOn
<1>4. PICK read : GoesOnWith(mounted, between, pid, reader.fds, reader.fs, read)
  BY <1>3
<1>5. read \in Books /\ Consistent(reader.fs, read) /\ HasLocals(read, pid, reader.fds)
  BY <1>4 DEF GoesOnWith
<1>6. /\ writer.fs \in CountedFs /\ writer.fds \in LocalTables
      /\ \E kept : GoesOnWith(reader.fs, read, pid, writer.fds, writer.fs, kept)
      /\ PipesUsed(writer.fs, {i})
      /\ \A l \in LocalFds : reader.fds[l] # FdInvalid => writer.fds[l] = reader.fds[l]
      /\ writer.local # FdInvalid => FileIsOpen(writer.fs.fdt, PipeDev(i))
  BY <1>1, <1>3, <1>5, OpenLocalGoesOn
<1>7. PICK both : GoesOnWith(reader.fs, read, pid, writer.fds, writer.fs, both)
  BY <1>6
<1>8. both \in Books /\ Consistent(writer.fs, both) /\ HasLocals(both, pid, writer.fds)
  BY <1>7 DEF GoesOnWith
<1>9. \A l \in LocalFds : fds[l] # FdInvalid => writer.fds[l] = fds[l] /\ reader.fds[l] = fds[l]
  BY <1>3, <1>6
<1>10. \A x \in Places \ PipePlaces : (\A l \in LocalFds : x # Local(pid, l)) =>
          both[x] = held[x] /\ read[x] = held[x] /\ between[x] = held[x]
  BY <1>2, <1>4, <1>7 DEF GoesOnWith
<1>11. \A x \in Places \ PipePlaces : held[x] # FdInvalid =>
          both[x] = held[x] /\ read[x] = held[x] /\ between[x] = held[x]
  BY <1>2, <1>5, <1>8, <1>9, <1>10 DEF HasLocals
<1>12. SamePaths(sys.fdt, held, writer.fs.fdt, both)
  BY <1>2, <1>4, <1>7, <1>11 DEF GoesOnWith, SamePaths
<1>13. GoesOnWith(sys, held, pid, writer.fds, writer.fs, both)
  BY <1>8, <1>10, <1>12 DEF GoesOnWith
<1>14. writer.local # FdInvalid => PipesUsed(writer.fs, {})
  BY <1>6 DEF PipesUsed
<1> DEFINE ends == GlobalFds(writer.fds) \ GlobalFds(fds)
           L == {l \in LocalFds : writer.fds[l] \in ends}
           X == {Local(pid, l) : l \in L}
           closed == CloseFiles(writer.fs, ends)
<1>15. /\ L \in SUBSET LocalFds /\ \A l \in L : both[Local(pid, l)] # FdInvalid
       /\ ends = {both[Local(pid, l)] : l \in L}
  BY <1>8 DEF GlobalFds, HasLocals
<1>16. \A l \in LocalFds : (IF l \in L THEN FdInvalid ELSE writer.fds[l]) = fds[l]
  <2> TAKE l \in LocalFds
  <2>1. CASE fds[l] # FdInvalid
    BY <1>9, <2>1 DEF GlobalFds
  <2>2. CASE fds[l] = FdInvalid /\ l \notin L
    <3> SUFFICES ASSUME writer.fds[l] # FdInvalid PROVE FALSE
      BY <2>2
    <3>1. PICK m \in LocalFds : writer.fds[l] = fds[m] /\ fds[m] # FdInvalid
      BY <2>2 DEF GlobalFds
    <3>2. writer.fds[m] = writer.fds[l] /\ m # l
      BY <1>9, <2>2, <3>1
    <3> QED BY <1>8, <3>2 DEF HasLocals, Consistent, Sound, LocalsDiffer
  <2>3. CASE fds[l] = FdInvalid /\ l \in L
    BY <2>3
  <2> QED BY <2>1, <2>2, <2>3
<1> HIDE DEF ends, L, closed
<1>17. /\ closed \in CountedFs
       /\ \E kept : GoesOn(writer.fs, both, X, closed, kept)
       /\ PipesUsed(closed, {i})
  <2>1. /\ CloseFiles(writer.fs, ends) \in CountedFs
        /\ \E kept : GoesOn(writer.fs, both, {Local(pid, l) : l \in L}, CloseFiles(writer.fs, ends), kept)
        /\ \A J : PipesUsed(writer.fs, J) => PipesUsed(CloseFiles(writer.fs, ends), J)
    BY <1>6, <1>8, <1>15, CloseFilesIsConsistent, ZenonT(30)
  <2> QED BY <1>6, <2>1 DEF closed
<1>18. PICK left : GoesOn(writer.fs, both, X, closed, left)
  BY <1>17
<1>19. \A x \in Places \ PipePlaces : left[x] = held[x]
  <2> TAKE x \in Places \ PipePlaces
  <2>1. ASSUME NEW l \in LocalFds, x = Local(pid, l) PROVE left[x] = held[x]
    <3>1. x \in X <=> l \in L
      BY <2>1, PlacesDiffer DEF L
    <3> HIDE DEF X
    <3>2. left[x] = IF l \in L THEN FdInvalid ELSE writer.fds[l]
      BY <1>8, <1>18, <2>1, <3>1 DEF GoesOn, HasLocals
    <3> QED BY <1>16, <2>1, <3>2 DEF HasLocals
  <2>2. CASE \A l \in LocalFds : x # Local(pid, l)
    <3>1. x \notin X
      BY <2>2 DEF L
    <3> HIDE DEF X
    <3> QED BY <1>10, <1>18, <2>2, <3>1 DEF GoesOn
  <2> QED BY <2>1, <2>2
<1>20. GoesOn(sys, held, {}, closed, left)
  <2>1. \A x \in Places \ PipePlaces : left[x] # FdInvalid => both[x] = left[x]
    BY <1>18 DEF GoesOn
  <2>2. SamePaths(sys.fdt, held, closed.fdt, left)
    BY <1>12, <1>18, <1>19, <2>1 DEF GoesOn, SamePaths
  <2> QED BY <1>18, <1>19, <2>2 DEF GoesOn
<1>21. left \in Books /\ Consistent(closed, left)
  BY <1>20 DEF GoesOn
<1>22. ~FileIsOpen(closed.fdt, PipeDev(i))
  <2> SUFFICES ASSUME NEW fd \in ValidFds, closed.fdt[fd].path = PipeDev(i) PROVE FALSE
    BY DEF FileIsOpen
  <2>1. PICK p \in Pids, l \in LocalFds : left[Local(p, l)] = fd
    BY <1>21, EndsAreLocal DEF Consistent
  <2>2. Local(p, l) \in Places \ PipePlaces /\ fd # FdInvalid
    BY NotPipes, FdFacts
  <2>3. held[Local(p, l)] = fd /\ sys.fdt[fd].path = PipeDev(i)
    BY <1>19, <1>20, <2>1, <2>2 DEF GoesOn, SamePaths
  <2>4. PipeDev(i) \in sys.files
    BY <2>2, <2>3, KeptExist
  <2> QED BY <2>4
<1>23. {i} \in SUBSET PipeIds /\ \A j \in {i} : ~FileIsOpen(closed.fdt, PipeDev(j)) /\ undone = Unmount(closed, {i})
  BY <1>22 DEF closed, ends
<1>24. /\ \E kept : GoesOn(closed, left, {}, undone, kept)
       /\ PipesUsed(undone, {})
  <2>1. PipesUsed(closed, {} \cup {i})
    BY <1>17
  <2> QED BY <1>17, <1>21, <1>23, <2>1, UnmountIsConsistent
<1>25. PICK kept : GoesOn(closed, left, {}, undone, kept)
  BY <1>24
<1>26. GoesOn(sys, held, {} \cup {}, undone, kept)
  BY <1>20, <1>25, GoingOn
<1>27. GoesOn(sys, held, {}, undone, kept)
  BY <1>26
<1> QED BY <1>13, <1>14, <1>24, <1>27
-----------------------------------------------------------------------------
\* One place is emptied; what was empty already may be counted in.
LEMMA OneLess ==
    ASSUME NEW sys, NEW held \in Books, Consistent(sys, held), NEW x \in Places \ PipePlaces, NEW new,
           Consistent(new, [held EXCEPT ![x] = FdInvalid]), PathsKept(sys.fdt, new.fdt)
    PROVE  GoesOn(sys, held, {x}, new, [held EXCEPT ![x] = FdInvalid])
<1> DEFINE kept == [held EXCEPT ![x] = FdInvalid]
<1>1. kept \in Books /\ \A y \in Places : kept[y] = IF y \in {x} THEN FdInvalid ELSE held[y]
  BY FdFacts DEF Books
<1> HIDE DEF kept
<1>2. Consistent(new, kept)
  BY DEF kept
<1>3. SamePaths(sys.fdt, held, new.fdt, kept)
  BY <1>1, <1>2, SlotsGiveSamePaths DEF Consistent
<1>4. GoesOn(sys, held, {x}, new, kept)
  BY <1>1, <1>2, <1>3 DEF GoesOn
<1> QED BY <1>4 DEF kept

LEMMA EmptyAnyway ==
    ASSUME NEW sys, NEW held, NEW X, NEW Y, NEW new, NEW kept, GoesOn(sys, held, X, new, kept), X \subseteq Y,
           \A x \in Y \ X : x \in Places \ PipePlaces => held[x] = FdInvalid
    PROVE  GoesOn(sys, held, Y, new, kept)
BY DEF GoesOn

PlacesOf(pid) == {Prog(pid), Proc(pid), Ram(pid)} \cup {Local(pid, l) : l \in LocalFds}

\* procManProcessKill with its files closed so far as those of the local table.
AfterDeath(closed, progmemFd, procFd, ramFd, pid) ==
    LET noProg == FileClose(closed.fdt, progmemFd)
        noRam == IF ramFd = FdInvalid THEN noProg ELSE FileClose(noProg, ramFd)
        noProc == FileClose(noRam, procFd)
        path == IF ramFd = FdInvalid THEN NoPath ELSE RamPath(pid)
    IN [closed EXCEPT !.fdt = noProc,
                      !.files = FileDelete(noProc, FileDelete(noRam, @, path), noRam[procFd].path)]

\* Every place of the process is empty afterwards, if its ram fd was the one to
\* its ram file.
LEMMA DeathIsConsistent ==
    ASSUME NEW sys \in CountedFs, NEW held \in Books, Consistent(sys, held), NEW pid \in Pids,
           NEW fds \in LocalTables, HasLocals(held, pid, fds), NEW ramFd \in Fds,
           held[Prog(pid)] # FdInvalid, held[Proc(pid)] # FdInvalid,
           ramFd = FdInvalid => held[Ram(pid)] = FdInvalid,
           ramFd # FdInvalid =>
               FileClose(CloseFiles(sys, GlobalFds(fds)).fdt, held[Prog(pid)])[ramFd].path = RamPath(pid),
           NEW new,
           new = AfterDeath(CloseFiles(sys, GlobalFds(fds)), held[Prog(pid)], held[Proc(pid)], ramFd, pid)
    PROVE  /\ new \in CountedFs
           /\ \E kept : GoesOn(sys, held, PlacesOf(pid), new, kept)
           /\ \A J : PipesUsed(sys, J) => PipesUsed(new, J)
<1> DEFINE closed == CloseFiles(sys, GlobalFds(fds))
           noProg == FileClose(closed.fdt, held[Prog(pid)])
           noRam == IF ramFd = FdInvalid THEN noProg ELSE FileClose(noProg, ramFd)
           noProc == FileClose(noRam, held[Proc(pid)])
           path == IF ramFd = FdInvalid THEN NoPath ELSE RamPath(pid)
<1>0. /\ closed = CloseFiles(sys, GlobalFds(fds))
      /\ noProg = FileClose(closed.fdt, held[Prog(pid)])
      /\ noRam = IF ramFd = FdInvalid THEN noProg ELSE FileClose(noProg, ramFd)
      /\ noProc = FileClose(noRam, held[Proc(pid)])
      /\ path = IF ramFd = FdInvalid THEN NoPath ELSE RamPath(pid)
      /\ ramFd # FdInvalid => noProg[ramFd].path = RamPath(pid)
      /\ new = [closed EXCEPT !.fdt = noProc,
                   !.files = FileDelete(noProc, FileDelete(noRam, @, path), noRam[held[Proc(pid)]].path)]
  BY DEF AfterDeath
<1> HIDE DEF closed, noProg, noRam, noProc, path
<1> DEFINE L == {l \in LocalFds : fds[l] # FdInvalid}
           X == {Local(pid, l) : l \in L}
<1>1. /\ \A l \in L : held[Local(pid, l)] # FdInvalid
      /\ GlobalFds(fds) = {held[Local(pid, l)] : l \in L} /\ L \in SUBSET LocalFds
  BY DEF HasLocals, GlobalFds
<1>2. /\ closed \in CountedFs
      /\ \E kept : GoesOn(sys, held, {Local(pid, l) : l \in L}, closed, kept)
      /\ \A J : PipesUsed(sys, J) => PipesUsed(closed, J)
  <2> HIDE DEF L
  <2>1. /\ CloseFiles(sys, GlobalFds(fds)) \in CountedFs
        /\ \E kept : GoesOn(sys, held, {Local(pid, l) : l \in L}, CloseFiles(sys, GlobalFds(fds)), kept)
        /\ \A J : PipesUsed(sys, J) => PipesUsed(CloseFiles(sys, GlobalFds(fds)), J)
    BY <1>1, CloseFilesIsConsistent, ZenonT(30)
  <2> QED BY <2>1, <1>0
<1>3. PICK h1 : GoesOn(sys, held, X, closed, h1)
  BY <1>2
<1>4. /\ Prog(pid) \in Places \ PipePlaces /\ Proc(pid) \in Places \ PipePlaces /\ Ram(pid) \in Places \ PipePlaces
      /\ Prog(pid) \notin X /\ Proc(pid) \notin X /\ Ram(pid) \notin X
  BY NotPipes, PlacesDiffer
<1> HIDE DEF L, X
<1>5. /\ h1 \in Books /\ Consistent(closed, h1)
      /\ h1[Prog(pid)] = held[Prog(pid)] /\ h1[Proc(pid)] = held[Proc(pid)] /\ h1[Ram(pid)] = held[Ram(pid)]
  BY <1>3, <1>4 DEF GoesOn
<1>6. closed.fdt \in CountedTables /\ closed.files \in SUBSET Paths /\ closed.pipes \in Pipes
  BY <1>2, FsParts
<1>7. held[Prog(pid)] \in Fds /\ held[Proc(pid)] \in Fds
  BY <1>4, BooksParts
<1>8. noProg \in CountedTables /\ noRam \in CountedTables /\ noProc \in CountedTables
  BY <1>0, <1>6, <1>7, FileCloseCounted
\* The program.
<1> DEFINE sys2 == [fdt |-> noProg, files |-> closed.files, pipes |-> closed.pipes]
           h2 == [h1 EXCEPT ![Prog(pid)] = FdInvalid]
<1>9. sys2 \in CountedFs /\ sys2.fdt = noProg /\ sys2.files = closed.files /\ sys2.pipes = closed.pipes
  BY <1>6, <1>8, FsBuilt
<1>10. /\ h2 \in Books /\ h2[Ram(pid)] = held[Ram(pid)] /\ h2[Proc(pid)] = held[Proc(pid)]
  BY <1>4, <1>5, FdFacts, PlacesDiffer DEF Books
<1> HIDE DEF sys2
<1>11. /\ Consistent(sys2, h2) /\ \A J : PipesUsed(closed, J) => PipesUsed(sys2, J)
       /\ PathsKept(closed.fdt, sys2.fdt)
  <2>1. sys2.fdt = FileClose(closed.fdt, h1[Prog(pid)]) /\ h1[Prog(pid)] # FdInvalid
    BY <1>0, <1>5, <1>9
  <2> QED BY <1>2, <1>5, <1>9, <2>1, CloseProgram
<1>12. GoesOn(closed, h1, {Prog(pid)}, sys2, h2)
  BY <1>4, <1>5, <1>11, OneLess
<1> HIDE DEF h2
\* The ram file, if there is one.
<1> DEFINE files3 == FileDelete(noRam, closed.files, path)
           sys3 == [fdt |-> noRam, files |-> files3, pipes |-> closed.pipes]
<1>13. files3 \in SUBSET Paths /\ sys3 \in CountedFs /\ sys3.fdt = noRam /\ sys3.files = files3 /\ sys3.pipes = closed.pipes
  <2>1. files3 \in SUBSET Paths
    BY <1>6, FileDeleteType
  <2> HIDE DEF files3
  <2> QED BY <1>6, <1>8, <2>1, FsBuilt
<1> HIDE DEF sys3
<1>14. /\ \E kept : GoesOn(sys2, h2, {Ram(pid)}, sys3, kept) /\ kept[Proc(pid)] = held[Proc(pid)]
       /\ \A J : PipesUsed(sys2, J) => PipesUsed(sys3, J)
  <2>1. CASE ramFd = FdInvalid
    <3>1. files3 = closed.files /\ noRam = noProg
      BY <1>0, <1>6, <2>1, PathsAssumption DEF FileDelete
    <3>2. sys3 = sys2
      BY <3>1 DEF sys3, sys2
    <3>3. GoesOn(sys2, h2, {}, sys2, h2)
      BY <1>10, <1>11 DEF GoesOn, SamePaths
    <3>4. GoesOn(sys2, h2, {Ram(pid)}, sys2, h2)
      BY <1>10, <2>1, <3>3, EmptyAnyway
    <3> QED BY <1>10, <3>2, <3>4
  <2>2. CASE ramFd # FdInvalid
    <3>1. Sound(noProg, h2) /\ ramFd \in ValidFds /\ noProg[ramFd].path = RamPath(pid)
      BY <1>0, <1>9, <1>11, <2>2, FdFacts DEF Consistent
    <3>2. /\ Ram(pid) \in Places /\ RamPath(pid) \in OwnedPaths /\ Rightful(Ram(pid)) = {RamPath(pid)}
          /\ path = RamPath(pid) /\ noRam = FileClose(noProg, ramFd)
      BY <1>0, <1>4, <2>2, Owners
    <3>3. h2[Ram(pid)] = ramFd
      BY <1>10, <3>1, <3>2, OwnerKeeps
    <3>4. ~FileIsOpen(noRam, RamPath(pid))
      <4>1. Sound(noRam, [h2 EXCEPT ![Ram(pid)] = FdInvalid]) /\ [h2 EXCEPT ![Ram(pid)] = FdInvalid] \in Books
        BY <1>8, <1>10, <2>2, <3>1, <3>2, <3>3, CloseIsSound
      <4> DEFINE h == [h2 EXCEPT ![Ram(pid)] = FdInvalid]
      <4>2. h[Ram(pid)] = FdInvalid
        BY <1>10, <3>2 DEF Books
      <4> HIDE DEF h
      <4>3. Sound(noRam, h) /\ h \in Books
        BY <4>1 DEF h
      <4> QED BY <3>2, <4>2, <4>3, OwnerKeeps
    <3>5. files3 = sys2.files \ {RamPath(pid)}
      BY <1>9, <3>2, <3>4 DEF FileDelete
    <3>6. /\ Consistent(sys3, [h2 EXCEPT ![Ram(pid)] = FdInvalid])
          /\ \A J : PipesUsed(sys2, J) => PipesUsed(sys3, J)
          /\ PathsKept(sys2.fdt, sys3.fdt)
      BY <1>4, <1>9, <1>10, <1>11, <1>13, <2>2, <3>2, <3>3, <3>5, CloseOwned
    <3>7. GoesOn(sys2, h2, {Ram(pid)}, sys3, [h2 EXCEPT ![Ram(pid)] = FdInvalid])
      BY <1>4, <1>10, <1>11, <3>6, OneLess
    <3>8. [h2 EXCEPT ![Ram(pid)] = FdInvalid][Proc(pid)] = held[Proc(pid)]
      BY <1>4, <1>10, PlacesDiffer DEF Books
    <3> QED BY <3>6, <3>7, <3>8
  <2> QED BY <2>1, <2>2
<1>15. PICK h3 : GoesOn(sys2, h2, {Ram(pid)}, sys3, h3) /\ h3[Proc(pid)] = held[Proc(pid)]
  BY <1>14
<1>16. h3 \in Books /\ Consistent(sys3, h3)
  BY <1>15 DEF GoesOn
\* The proc file.
<1>17. /\ Proc(pid) \in Places /\ ProcPath(pid) \in OwnedPaths /\ Rightful(Proc(pid)) = {ProcPath(pid)}
       /\ noRam[held[Proc(pid)]].path = ProcPath(pid)
  <2>1. Proc(pid) \in Places /\ ProcPath(pid) \in OwnedPaths /\ Rightful(Proc(pid)) = {ProcPath(pid)}
    BY <1>4, Owners
  <2> QED BY <1>13, <1>15, <1>16, <2>1, KeptExist
<1> DEFINE h4 == [h3 EXCEPT ![Proc(pid)] = FdInvalid]
<1>18. Sound(noProc, h4) /\ h4 \in Books /\ h4[Proc(pid)] = FdInvalid
  <2>1. Sound(noRam, h3)
    BY <1>13, <1>16 DEF Consistent
  <2>2. Sound(noProc, h4) /\ h4 \in Books
    BY <1>0, <1>8, <1>15, <1>16, <1>17, <2>1, CloseIsSound
  <2> QED BY <1>16, <1>17, <2>2 DEF Books
<1>19. ~FileIsOpen(noProc, ProcPath(pid))
  <2> HIDE DEF h4
  <2> QED BY <1>17, <1>18, OwnerKeeps
<1> DEFINE files4 == sys3.files \ {ProcPath(pid)}
           sys4 == [fdt |-> noProc, files |-> files4, pipes |-> closed.pipes]
<1>20. sys4 \in CountedFs /\ sys4.fdt = noProc /\ sys4.files = files4 /\ sys4.pipes = closed.pipes
  <2>1. files4 \in SUBSET Paths
    BY <1>13
  <2> HIDE DEF files4
  <2> QED BY <1>6, <1>8, <2>1, FsBuilt
<1>21. new = sys4
  <2>1. FileDelete(noProc, files3, ProcPath(pid)) = files4
    BY <1>13, <1>19 DEF FileDelete
  <2>2. new = [closed EXCEPT !.fdt = noProc, !.files = files4]
    <3> HIDE DEF files4
    <3> QED BY <1>0, <1>2, <1>17, <2>1 DEF CountedFs, FileSystems
  <2> HIDE DEF files4
  <2> QED BY <1>2, <2>2 DEF CountedFs, FileSystems
<1> HIDE DEF files3, sys4
<1>22. /\ Consistent(sys4, h4) /\ \A J : PipesUsed(sys3, J) => PipesUsed(sys4, J)
       /\ PathsKept(sys3.fdt, sys4.fdt)
  BY <1>0, <1>4, <1>13, <1>15, <1>16, <1>17, <1>20, CloseOwned
<1>23. GoesOn(sys3, h3, {Proc(pid)}, sys4, h4)
  BY <1>4, <1>16, <1>22, OneLess
<1> HIDE DEF h4
<1>24. GoesOn(sys, held, X \cup {Prog(pid)}, sys2, h2)
  BY <1>3, <1>12, GoingOn
<1>25. GoesOn(sys, held, (X \cup {Prog(pid)}) \cup {Ram(pid)}, sys3, h3)
  BY <1>15, <1>24, GoingOn
<1>26. GoesOn(sys, held, ((X \cup {Prog(pid)}) \cup {Ram(pid)}) \cup {Proc(pid)}, sys4, h4)
  BY <1>23, <1>25, GoingOn
<1>27. GoesOn(sys, held, PlacesOf(pid), sys4, h4)
  <2> DEFINE Y == ((X \cup {Prog(pid)}) \cup {Ram(pid)}) \cup {Proc(pid)}
  <2>1. Y \subseteq PlacesOf(pid)
    BY DEF PlacesOf, X, L
  <2>2. \A x \in PlacesOf(pid) \ Y : held[x] = FdInvalid
    BY DEF PlacesOf, X, L, HasLocals
  <2> HIDE DEF Y
  <2>3. GoesOn(sys, held, Y, sys4, h4)
    BY <1>26 DEF Y
  <2> QED BY <2>1, <2>2, <2>3, EmptyAnyway
<1>28. \A J : PipesUsed(sys, J) => PipesUsed(sys4, J)
  BY <1>2, <1>11, <1>14, <1>22
<1> QED BY <1>20, <1>21, <1>27, <1>28
-----------------------------------------------------------------------------
\* One place is filled.
LEMMA OneMore ==
    ASSUME NEW sys, NEW held \in Books, Consistent(sys, held), NEW x \in Places \ PipePlaces, NEW fd, NEW new,
           [held EXCEPT ![x] = fd] \in Books, Consistent(new, [held EXCEPT ![x] = fd]), PathsKept(sys.fdt, new.fdt)
    PROVE  /\ [held EXCEPT ![x] = fd][x] = fd
           /\ \A y \in Places : y # x => [held EXCEPT ![x] = fd][y] = held[y]
           /\ SamePaths(sys.fdt, held, new.fdt, [held EXCEPT ![x] = fd])
<1> DEFINE kept == [held EXCEPT ![x] = fd]
<1>1. kept[x] = fd /\ \A y \in Places : y # x => kept[y] = held[y]
  BY DEF Books
<1>2. kept \in Books /\ Consistent(new, kept)
  OBVIOUS
<1> HIDE DEF kept
<1>3. SamePaths(sys.fdt, held, new.fdt, kept)
  BY <1>2, SlotsGiveSamePaths DEF Consistent
<1> QED BY <1>1, <1>3 DEF kept

\* kernelFsFileDupeOrOpen of a program's descriptor for another process.
LEMMA DupeOrOpenIsConsistent ==
    ASSUME NEW sys \in CountedFs, NEW held \in Books, Consistent(sys, held),
           NEW parent \in Pids, NEW child \in Pids, NEW old, old = held[Prog(parent)], old # FdInvalid,
           held[Prog(child)] = FdInvalid, NEW fd, fd = DupeOrOpenFd(sys.fdt, old), fd # FdInvalid,
           NEW new \in CountedFs, new.fdt = DupeOrOpenTable(sys.fdt, old), new.files = sys.files, new.pipes = sys.pipes
    PROVE  /\ [held EXCEPT ![Prog(child)] = fd] \in Books /\ Consistent(new, [held EXCEPT ![Prog(child)] = fd])
           /\ \A J : PipesUsed(sys, J) => PipesUsed(new, J)
           /\ PathsKept(sys.fdt, new.fdt)
<1> DEFINE t == sys.fdt
           kept == [held EXCEPT ![Prog(child)] = fd]
<1>1. /\ Prog(child) \in Places \ PipePlaces /\ Prog(child) \notin LocalPlaces /\ Prog(parent) \in Places
      /\ Rightful(Prog(child)) = ProgPaths /\ Rightful(Prog(parent)) = ProgPaths
  BY NotPipes, Owners
<1>2. t \in CountedTables /\ Sound(t, held)
  BY FsParts DEF Consistent
<1>3. old \in ValidFds /\ old \in Fds /\ InUse(t, old) /\ t[old].path \in sys.files /\ t[old].path \in ProgPaths
  BY <1>1, KeptExist, FdFacts
<1>4. CASE MayDupe(t, old)
  <2>1. fd = old /\ new.fdt = FileDupe(t, old)
    BY <1>4 DEF DupeOrOpenFd, DupeOrOpenTable
  <2>2. Sound(new.fdt, kept) /\ kept \in Books /\ \A g \in Fds : new.fdt[g].path = t[g].path
    BY <1>1, <1>2, <1>3, <1>4, <2>1, DupeIsSound
  <2>3. \A q : FileIsOpen(new.fdt, q) <=> FileIsOpen(t, q)
    BY <2>2, FdFacts DEF FileIsOpen
  <2>4. OpenExist(new) /\ OwnedAreOpen(new) /\ ProgPaths \subseteq new.files
    BY <2>2, <2>3, FdFacts DEF Consistent, OpenExist, OwnedAreOpen, InUse
  <2>5. MountsKept(new, kept)
    BY <1>1, MountsStay DEF Consistent
  <2>6. \A J : PipesUsed(sys, J) => PipesUsed(new, J)
    BY <2>3 DEF PipesUsed
  <2>7. PathsKept(t, new.fdt)
    BY <2>2, FdFacts DEF PathsKept
  <2> QED BY <2>2, <2>4, <2>5, <2>6, <2>7 DEF Consistent
<1>5. CASE ~MayDupe(t, old)
  <2>1. fd = NewFd(t) /\ new.fdt = FileOpen(t, t[old].path, t[old].mode)
    BY <1>5 DEF DupeOrOpenFd, DupeOrOpenTable
  <2>2. t[old].mode \in Modes /\ t[old].path \notin OwnedPaths /\ MayOpen(t, sys.files, t[old].path)
    BY <1>2, <1>3, OwnedAreExclusive, PathsAreThese DEF MayOpen, CountedTables, Tables, Slots
  <2>3. fd \in FreeFds(t) /\ new.fdt = OpenedAt(t, fd, t[old].path, t[old].mode)
    BY <1>2, <2>1, NewFdIsFree
  <2> QED BY <1>1, <1>3, <2>2, <2>3, OpenExisting
<1> QED BY <1>4, <1>5

\* procManProcessFork up to the parent's descriptors: the child's three files.
ChildTable(t, child) == FileOpen(FileOpen(t, ProcPath(child), "RW"), RamPath(child), "RW")
ChildFiles(sys, old, child) ==
    [sys EXCEPT !.fdt = DupeOrOpenTable(ChildTable(sys.fdt, child), old), !.files = @ \cup {ProcPath(child), RamPath(child)}]

LEMMA ChildFilesAreConsistent ==
    ASSUME NEW sys \in CountedFs, NEW held \in Books, Consistent(sys, held), PipesUsed(sys, {}),
           NEW parent \in Pids, NEW child \in Pids, NEW old, old = held[Prog(parent)], old # FdInvalid,
           held[Prog(child)] = FdInvalid, held[Proc(child)] = FdInvalid, held[Ram(child)] = FdInvalid,
           NEW procFd, procFd = NewFd(sys.fdt), procFd # FdInvalid,
           NEW ramFd, ramFd = NewFd(FileOpen(sys.fdt, ProcPath(child), "RW")), ramFd # FdInvalid,
           NEW progmemFd, progmemFd = DupeOrOpenFd(ChildTable(sys.fdt, child), old), progmemFd # FdInvalid,
           NEW new, new = ChildFiles(sys, old, child)
    PROVE  /\ new \in CountedFs /\ PipesUsed(new, {})
           /\ \E kept \in Books : /\ Consistent(new, kept) /\ SamePaths(sys.fdt, held, new.fdt, kept)
                                  /\ kept[Prog(child)] = progmemFd /\ kept[Proc(child)] = procFd
                                  /\ kept[Ram(child)] = ramFd
                                  /\ \A x \in Places : x \notin {Prog(child), Proc(child), Ram(child)} => kept[x] = held[x]
<1> DEFINE proc == FileOpen(sys.fdt, ProcPath(child), "RW")
           ram == FileOpen(proc, RamPath(child), "RW")
<1>0. /\ proc = FileOpen(sys.fdt, ProcPath(child), "RW")
      /\ ram = FileOpen(proc, RamPath(child), "RW")
      /\ ramFd = NewFd(proc) /\ progmemFd = DupeOrOpenFd(ram, old)
      /\ new = [sys EXCEPT !.fdt = DupeOrOpenTable(ram, old), !.files = @ \cup {ProcPath(child), RamPath(child)}]
  BY DEF ChildFiles, ChildTable
<1> HIDE DEF proc, ram
<1>1. /\ Prog(child) \in Places \ PipePlaces /\ Proc(child) \in Places \ PipePlaces /\ Ram(child) \in Places \ PipePlaces
      /\ Prog(child) # Proc(child) /\ Prog(child) # Ram(child) /\ Proc(child) # Ram(child)
      /\ Prog(parent) \in Places /\ Prog(parent) # Proc(child) /\ Prog(parent) # Ram(child)
  BY NotPipes, PlacesDiffer
<1>2. /\ ProcPath(child) \in OwnedPaths /\ Rightful(Proc(child)) = {ProcPath(child)} /\ ProcPath(child) \in Paths
      /\ RamPath(child) \in OwnedPaths /\ Rightful(Ram(child)) = {RamPath(child)} /\ RamPath(child) \in Paths
      /\ "RW" \in Modes
  BY Owners, PathTypes DEF Modes
<1>3. sys.fdt \in CountedTables /\ sys.files \in SUBSET Paths /\ sys.pipes \in Pipes
  BY FsParts
<1>4. procFd \in FreeFds(sys.fdt) /\ proc = OpenedAt(sys.fdt, procFd, ProcPath(child), "RW") /\ proc \in CountedTables
  BY <1>0, <1>2, <1>3, NewFdIsFree, OpenedFacts
<1>5. ramFd \in FreeFds(proc) /\ ram = OpenedAt(proc, ramFd, RamPath(child), "RW") /\ ram \in CountedTables
  BY <1>0, <1>2, <1>4, NewFdIsFree, OpenedFacts
<1>6. old \in Fds
  BY <1>1, BooksParts
<1>7. DupeOrOpenTable(ram, old) \in CountedTables
  BY <1>5, <1>6, DupeOrOpenType
<1> DEFINE files1 == sys.files \cup {ProcPath(child)}
           files2 == files1 \cup {RamPath(child)}
           sys1 == [fdt |-> proc, files |-> files1, pipes |-> sys.pipes]
           sys2 == [fdt |-> ram, files |-> files2, pipes |-> sys.pipes]
           sys3 == [fdt |-> DupeOrOpenTable(ram, old), files |-> files2, pipes |-> sys.pipes]
<1>8. files1 \in SUBSET Paths /\ files2 \in SUBSET Paths
  BY <1>2, <1>3
<1>9. new = sys3
  <2>1. files2 = sys.files \cup {ProcPath(child), RamPath(child)}
    OBVIOUS
  <2> HIDE DEF files1, files2
  <2> QED BY <1>0, <2>1 DEF CountedFs, FileSystems
<1>10. /\ sys1 \in CountedFs /\ sys1.fdt = proc /\ sys1.files = files1 /\ sys1.pipes = sys.pipes
       /\ sys2 \in CountedFs /\ sys2.fdt = ram /\ sys2.files = files2 /\ sys2.pipes = sys.pipes
       /\ sys3 \in CountedFs /\ sys3.fdt = DupeOrOpenTable(ram, old) /\ sys3.files = files2 /\ sys3.pipes = sys.pipes
  <2> HIDE DEF files1, files2
  <2> QED BY <1>3, <1>4, <1>5, <1>7, <1>8, FsBuilt
<1>11. sys2.files = sys1.files \cup {RamPath(child)} /\ sys1.files = sys.files \cup {ProcPath(child)} /\ sys3.files = sys2.files
  BY <1>10
<1> HIDE DEF files1, files2, sys1, sys2, sys3
<1> DEFINE h1 == [held EXCEPT ![Proc(child)] = procFd]
           h2 == [h1 EXCEPT ![Ram(child)] = ramFd]
           h3 == [h2 EXCEPT ![Prog(child)] = progmemFd]
<1>12. /\ h1 \in Books /\ Consistent(sys1, h1) /\ PipesUsed(sys1, {}) /\ PathsKept(sys.fdt, sys1.fdt)
  BY <1>1, <1>2, <1>4, <1>10, <1>11, OpenOwned
<1>13. /\ h1[Proc(child)] = procFd /\ \A y \in Places : y # Proc(child) => h1[y] = held[y]
       /\ SamePaths(sys.fdt, held, sys1.fdt, h1)
  BY <1>1, <1>12, OneMore
<1> HIDE DEF h1
<1>14. h1[Ram(child)] = FdInvalid
  BY <1>1, <1>13
<1>15. /\ h2 \in Books /\ Consistent(sys2, h2) /\ PipesUsed(sys2, {}) /\ PathsKept(sys1.fdt, sys2.fdt)
  BY <1>1, <1>2, <1>5, <1>10, <1>11, <1>12, <1>14, OpenOwned
<1>16. /\ h2[Ram(child)] = ramFd /\ \A y \in Places : y # Ram(child) => h2[y] = h1[y]
       /\ SamePaths(sys1.fdt, h1, sys2.fdt, h2)
  BY <1>1, <1>12, <1>14, <1>15, OneMore
<1> HIDE DEF h2
<1>17. h2[Prog(child)] = FdInvalid /\ h2[Prog(parent)] = old
  BY <1>1, <1>13, <1>16
<1>18. /\ h3 \in Books /\ Consistent(sys3, h3) /\ PipesUsed(sys3, {}) /\ PathsKept(sys2.fdt, sys3.fdt)
  <2>1. /\ progmemFd = DupeOrOpenFd(sys2.fdt, old) /\ sys3.fdt = DupeOrOpenTable(sys2.fdt, old)
        /\ sys3.pipes = sys2.pipes /\ sys3.files = sys2.files /\ old = h2[Prog(parent)]
    BY <1>0, <1>10, <1>11, <1>17
  <2> QED BY <1>10, <1>15, <1>17, <2>1, DupeOrOpenIsConsistent
<1>19. /\ h3[Prog(child)] = progmemFd /\ \A y \in Places : y # Prog(child) => h3[y] = h2[y]
       /\ SamePaths(sys2.fdt, h2, sys3.fdt, h3)
  BY <1>1, <1>15, <1>17, <1>18, OneMore
<1> HIDE DEF h3
<1>20. \A x \in Places : x \notin {Prog(child), Proc(child), Ram(child)} => h3[x] = held[x] /\ h2[x] = held[x] /\ h1[x] = held[x]
  BY <1>13, <1>16, <1>19
<1>21. SamePaths(sys.fdt, held, sys3.fdt, h3)
  <2> SUFFICES ASSUME NEW x \in Places \ PipePlaces, h3[x] # FdInvalid, h3[x] = held[x]
               PROVE  sys3.fdt[h3[x]].path = sys.fdt[held[x]].path
    BY DEF SamePaths
  <2>1. x \notin {Prog(child), Proc(child), Ram(child)}
    OBVIOUS
  <2>2. h2[x] = held[x] /\ h1[x] = held[x]
    BY <1>20, <2>1
  <2> QED BY <1>13, <1>16, <1>19, <2>2 DEF SamePaths
<1>22. h3[Proc(child)] = procFd /\ h3[Ram(child)] = ramFd
  BY <1>1, <1>13, <1>16, <1>19
<1> QED BY <1>9, <1>10, <1>18, <1>19, <1>20, <1>21, <1>22

\* Forking gives the child a reference to each of the parent's descriptors or,
\* where the count of one is at its limit, a descriptor of its own.
LEMMA DupedSlots ==
    ASSUME NEW sys \in CountedFs, NEW fds \in LocalTables, NEW fresh \in Reopenings(sys, fds),
           \A l \in LocalFds : fds[l] # FdInvalid => fds[l] \in ValidFds /\ InUse(sys.fdt, fds[l])
    PROVE  LET t == sys.fdt
               u == DupeAll(sys, fds, fresh).fdt
               A == AtLimit(sys, fds)
           IN  /\ \A l \in A : fresh[l] \in FreeFds(t) /\ u[fresh[l]].path = t[fds[l]].path /\ u[fresh[l]].ref = 1
               /\ \A l, m \in A : fresh[l] = fresh[m] => l = m
               /\ \A fd \in GlobalFds(fds) : MayDupe(t, fd) => /\ u[fd].path = t[fd].path /\ u[fd].ref = t[fd].ref + 1
                                                               /\ t[fd].ref \in Nat
               /\ \A fd \in ValidFds : (\A l \in A : fd # fresh[l]) /\ ~(fd \in GlobalFds(fds) /\ MayDupe(t, fd)) =>
                     u[fd] = t[fd]
<1> DEFINE t == sys.fdt
           A == AtLimit(sys, fds)
           Reopened(fd) == {l \in A : fresh[l] = fd}
           Slot(fd) == IF Reopened(fd) # {}
                       THEN [t[fds[CHOOSE l \in Reopened(fd) : TRUE]] EXCEPT !.ref = 1]
                       ELSE IF fd \in GlobalFds(fds) /\ MayDupe(t, fd) THEN FileDupe(t, fd)[fd]
                       ELSE t[fd]
           u == [fd \in Fds |-> Slot(fd)]
<1>1. DupeAll(sys, fds, fresh).fdt = u
  BY DEF DupeAll, CountedFs, FileSystems
<1>2. /\ fresh \in [A -> FreeFds(t)] /\ A \subseteq LocalFds
      /\ \A l, m \in A : l < m => fresh[l] > fresh[m]
  BY DEF Reopenings, AtLimit
<1>3. t \in CountedTables /\ \A fd \in Fds : t[fd] \in Slots /\ t[fd].ref \in Nat
  BY FsParts, RefCountMaxAssumption DEF CountedTables, Tables, Slots
<1> HIDE DEF A, t
<1>4. \A l \in A : fresh[l] \in FreeFds(t) /\ fresh[l] \in ValidFds /\ ~InUse(t, fresh[l])
  BY <1>2 DEF FreeFds
<1>5. ASSUME NEW l \in A, NEW m \in A, fresh[l] = fresh[m] PROVE l = m
  <2>1. l \in Nat /\ m \in Nat
    BY <1>2 DEF LocalFds
  <2>2. fresh[l] \in Nat /\ fresh[m] \in Nat
    BY <1>4 DEF ValidFds
  <2> QED BY <1>2, <1>5, <2>1, <2>2
<1>6. \A fd \in Fds : u[fd] = Slot(fd)
  OBVIOUS
<1> HIDE DEF u
<1>7. ASSUME NEW l \in A PROVE u[fresh[l]].path = t[fds[l]].path /\ u[fresh[l]].ref = 1
  <2>1. Reopened(fresh[l]) = {l}
    BY <1>5
  <2>2. (CHOOSE m \in Reopened(fresh[l]) : TRUE) = l
    BY <2>1
  <2>3. u[fresh[l]] = [t[fds[l]] EXCEPT !.ref = 1]
    BY <1>4, <1>6, <2>1, <2>2, FdFacts
  <2>4. t[fds[l]] \in Slots
    BY <1>2, <1>3 DEF LocalTables
  <2> QED BY <2>3, <2>4 DEF Slots
<1>8. ASSUME NEW fd \in GlobalFds(fds), MayDupe(t, fd)
      PROVE  u[fd].path = t[fd].path /\ u[fd].ref = t[fd].ref + 1 /\ t[fd].ref \in Nat
  <2>1. fd \in Fds /\ InUse(t, fd)
    BY <1>8, FdFacts DEF MayDupe, GlobalFds, LocalTables
  <2>2. Reopened(fd) = {}
    BY <1>4, <2>1
  <2>3. u[fd] = FileDupe(t, fd)[fd]
    BY <1>6, <1>8, <2>1, <2>2
  <2>4. FileDupe(t, fd)[fd] = [t[fd] EXCEPT !.ref = @ + 1]
    BY <1>3, <2>1 DEF FileDupe, CountedTables, Tables
  <2> QED BY <1>3, <2>1, <2>3, <2>4 DEF Slots
<1>9. ASSUME NEW fd \in ValidFds, \A l \in A : fd # fresh[l], ~(fd \in GlobalFds(fds) /\ MayDupe(t, fd))
      PROVE  u[fd] = t[fd]
  <2>1. Reopened(fd) = {} /\ fd \in Fds
    BY <1>9, FdFacts
  <2> QED BY <1>6, <1>9, <2>1
<1> QED BY <1>1, <1>4, <1>5, <1>7, <1>8, <1>9 DEF t, A

LEMMA DupeAllIsConsistent ==
    ASSUME NEW sys \in CountedFs, NEW held \in Books, Consistent(sys, held), NEW parent \in Pids, NEW child \in Pids,
           parent # child, NEW fds \in LocalTables, HasLocals(held, parent, fds), HasLocals(held, child, NoFds),
           NEW fresh \in Reopenings(sys, fds), MayReopen(sys, fds),
           NEW new, new = DupeAll(sys, fds, fresh), NEW more, more = DupedFds(sys, fds, fresh)
    PROVE  /\ new \in CountedFs
           /\ \E kept : GoesOnWith(sys, held, child, more, new, kept)
           /\ \A J : PipesUsed(sys, J) => PipesUsed(new, J)
<1> DEFINE t == sys.fdt
           u == new.fdt
           A == AtLimit(sys, fds)
           kept == WithLocals(held, child, more)
<1>1. new \in CountedFs /\ more \in LocalTables /\ new.files = sys.files /\ new.pipes = sys.pipes
  BY DupeAllType DEF DupeAll, CountedFs, FileSystems
<1>2. /\ kept \in Books /\ HasLocals(kept, child, more)
      /\ \A x \in Places : (\A l \in LocalFds : x # Local(child, l)) => kept[x] = held[x]
  BY <1>1, WithLocalsFacts
<1>3. t \in CountedTables /\ Sound(t, held)
  BY FsParts DEF Consistent
<1>4. \A l \in LocalFds : /\ Local(parent, l) \in Places \ PipePlaces /\ Local(child, l) \in Places \ PipePlaces
                          /\ held[Local(parent, l)] = fds[l] /\ held[Local(child, l)] = FdInvalid
  BY NotPipes DEF HasLocals, NoFds
<1>5. /\ \A l \in LocalFds : fds[l] # FdInvalid => /\ fds[l] \in ValidFds /\ InUse(t, fds[l])
                                                   /\ t[fds[l]].path \in Paths \ OwnedPaths
      /\ \A l, m \in LocalFds : fds[l] = fds[m] => l = m \/ fds[l] = FdInvalid
  <2>1. ASSUME NEW l \in LocalFds, fds[l] # FdInvalid
        PROVE  fds[l] \in ValidFds /\ InUse(t, fds[l]) /\ t[fds[l]].path \in Paths \ OwnedPaths
    BY <1>4, <2>1, KeptExist, Owners
  <2> QED BY <1>3, <1>4, <2>1 DEF Sound, LocalsDiffer
<1>6. /\ \A l \in A : fresh[l] \in FreeFds(t) /\ u[fresh[l]].path = t[fds[l]].path /\ u[fresh[l]].ref = 1
      /\ \A l, m \in A : fresh[l] = fresh[m] => l = m
      /\ \A fd \in GlobalFds(fds) : MayDupe(t, fd) => /\ u[fd].path = t[fd].path /\ u[fd].ref = t[fd].ref + 1
                                                      /\ t[fd].ref \in Nat
      /\ \A fd \in ValidFds : (\A l \in A : fd # fresh[l]) /\ ~(fd \in GlobalFds(fds) /\ MayDupe(t, fd)) => u[fd] = t[fd]
  BY <1>5, DupedSlots
<1>7. /\ A \subseteq LocalFds
      /\ \A l \in A : more[l] = fresh[l] /\ fds[l] # FdInvalid /\ t[fds[l]].path \in SharedPaths
      /\ \A l \in LocalFds \ A : more[l] = fds[l] /\ (fds[l] # FdInvalid => MayDupe(t, fds[l]))
  BY DEF AtLimit, DupedFds, MayReopen
<1> HIDE DEF t, u, A, kept
<1>8. \A l \in A : fresh[l] \in ValidFds /\ ~InUse(t, fresh[l]) /\ fresh[l] # FdInvalid
  BY <1>6, FdFacts DEF FreeFds
\* What is in use keeps its path, and what a local table of the child has is
\* open on the parent's file.
<1>9. \A fd \in ValidFds : InUse(t, fd) => u[fd].path = t[fd].path
  BY <1>6, <1>8
<1>10. \A l \in LocalFds : more[l] # FdInvalid => /\ more[l] \in ValidFds /\ fds[l] # FdInvalid
                                                  /\ u[more[l]].path = t[fds[l]].path
  BY <1>5, <1>6, <1>7, <1>8, <1>9
\* Where each descriptor is kept.
<1>11. \A l, m \in LocalFds : more[l] = more[m] => l = m \/ more[l] = FdInvalid
  <2> SUFFICES ASSUME NEW l \in LocalFds, NEW m \in LocalFds, more[l] = more[m], more[l] # FdInvalid PROVE l = m
    OBVIOUS
  <2>1. l \in A <=> m \in A
    BY <1>5, <1>7, <1>8
  <2> QED BY <1>5, <1>6, <1>7, <2>1
<1>12. \A x \in Places, l \in LocalFds : x = Local(child, l) => kept[x] = more[l] /\ held[x] = FdInvalid
  BY <1>2, <1>4 DEF HasLocals
<1>13. ASSUME NEW fd \in ValidFds, NEW l \in LocalFds, more[l] = fd
       PROVE  KeptAt(kept, fd) = KeptAt(held, fd) \cup {Local(child, l)}
  <2>1. fd # FdInvalid
    BY FdFacts
  <2>2. ASSUME NEW x \in Places PROVE kept[x] = fd <=> held[x] = fd \/ x = Local(child, l)
    <3>1. CASE \A m \in LocalFds : x # Local(child, m)
      BY <1>2, <3>1
    <3>2. ASSUME NEW m \in LocalFds, x = Local(child, m) PROVE kept[x] = fd <=> held[x] = fd \/ x = Local(child, l)
      BY <1>11, <1>12, <1>13, <2>1, <3>2, PlacesDiffer
    <3> QED BY <3>1, <3>2
  <2> QED BY <1>4, <2>2 DEF KeptAt
<1>14. ASSUME NEW fd \in ValidFds, \A l \in LocalFds : more[l] # fd
       PROVE  KeptAt(kept, fd) = KeptAt(held, fd)
  <2>1. ASSUME NEW x \in Places PROVE kept[x] = fd <=> held[x] = fd
    <3>1. CASE \A m \in LocalFds : x # Local(child, m)
      BY <1>2, <3>1
    <3>2. ASSUME NEW m \in LocalFds, x = Local(child, m) PROVE kept[x] = fd <=> held[x] = fd
      BY <1>12, <1>14, <3>2, FdFacts
    <3> QED BY <3>1, <3>2
  <2> QED BY <2>1 DEF KeptAt
<1>15. Booked(u, kept)
  <2> SUFFICES ASSUME NEW fd \in ValidFds
               PROVE  u[fd].ref = Cardinality(KeptAt(kept, fd)) /\ (InUse(u, fd) <=> u[fd].ref # 0)
    BY DEF Booked
  <2>1. t[fd].ref = Cardinality(KeptAt(held, fd)) /\ (InUse(t, fd) <=> t[fd].ref # 0)
    BY <1>3 DEF Sound, Booked
  <2>2. CASE \E l \in A : fd = fresh[l]
    <3>1. PICK l \in A : fd = fresh[l]
      BY <2>2
    <3>2. KeptAt(held, fd) = {}
      BY <1>3, <1>8, <3>1, FreeIsNotKept DEF Sound
    <3>3. KeptAt(kept, fd) = {Local(child, l)}
      BY <1>7, <1>13, <3>1, <3>2
    <3>4. Cardinality(KeptAt(kept, fd)) = 1
      BY <3>3, FS_Singleton
    <3>5. u[fd].ref = 1 /\ InUse(u, fd)
      BY <1>5, <1>6, <1>7, <3>1, PathsAssumption DEF InUse
    <3> QED BY <3>4, <3>5
  <2>3. CASE (\A l \in A : fd # fresh[l]) /\ fd \in GlobalFds(fds) /\ MayDupe(t, fd)
    <3>1. PICK l \in LocalFds : fd = fds[l]
      BY <2>3 DEF GlobalFds
    <3>2. l \notin A
      BY <2>3, <3>1 DEF A, AtLimit, t
    <3>3. KeptAt(kept, fd) = KeptAt(held, fd) \cup {Local(child, l)}
      BY <1>7, <1>13, <3>1, <3>2
    <3>4. Local(child, l) \notin KeptAt(held, fd)
      BY <1>4, FdFacts DEF KeptAt
    <3>5. Cardinality(KeptAt(kept, fd)) = Cardinality(KeptAt(held, fd)) + 1
      BY <3>3, <3>4, KeptAtFinite, FS_AddElement
    <3>6. u[fd].ref = t[fd].ref + 1 /\ t[fd].ref \in Nat /\ u[fd].path = t[fd].path
      BY <1>6, <2>3
    <3>7. InUse(t, fd)
      BY <2>3 DEF MayDupe
    <3> QED BY <2>1, <3>5, <3>6, <3>7 DEF InUse
  <2>4. CASE (\A l \in A : fd # fresh[l]) /\ ~(fd \in GlobalFds(fds) /\ MayDupe(t, fd))
    <3>1. u[fd] = t[fd]
      BY <1>6, <2>4
    <3>2. \A l \in LocalFds : more[l] # fd
      <4> SUFFICES ASSUME NEW l \in LocalFds, more[l] = fd PROVE FALSE
        OBVIOUS
      <4>1. l \notin A /\ fds[l] = fd /\ fd # FdInvalid
        BY <1>7, <2>4, FdFacts
      <4> QED BY <1>7, <2>4, <4>1 DEF GlobalFds
    <3> QED BY <1>14, <2>1, <3>1, <3>2 DEF InUse
  <2> QED BY <2>2, <2>3, <2>4
<1>16. \A x \in Places : held[x] # FdInvalid => /\ held[x] \in ValidFds /\ InUse(t, held[x])
                                                /\ u[held[x]].path = t[held[x]].path
  BY <1>9, KeptExist DEF t
<1>17. AllRightful(u, kept)
  <2> SUFFICES ASSUME NEW x \in Places, kept[x] # FdInvalid PROVE u[kept[x]].path \in Rightful(x)
    BY DEF AllRightful
  <2>1. CASE \A m \in LocalFds : x # Local(child, m)
    BY <1>2, <1>3, <1>16, <2>1 DEF Sound, AllRightful
  <2>2. ASSUME NEW m \in LocalFds, x = Local(child, m) PROVE u[kept[x]].path \in Rightful(x)
    BY <1>5, <1>10, <1>12, <2>2, Owners
  <2> QED BY <2>1, <2>2
<1>18. OpenOnce(u)
  <2> SUFFICES ASSUME NEW f \in ValidFds, NEW g \in ValidFds, InUse(u, f), u[f].path = u[g].path,
                      u[f].path \notin SharedPaths
               PROVE  f = g
    BY DEF OpenOnce
  <2>1. \A l \in A : f # fresh[l] /\ g # fresh[l]
    BY <1>6, <1>7
  <2>2. u[f].path = t[f].path /\ u[g].path = t[g].path
    BY <1>6, <2>1
  <2> QED BY <1>3, <2>2 DEF Sound, OpenOnce, InUse
<1>19. LocalsDiffer(kept)
  <2> SUFFICES ASSUME NEW pid \in Pids, NEW l \in LocalFds, NEW m \in LocalFds,
                      kept[Local(pid, l)] = kept[Local(pid, m)], kept[Local(pid, l)] # FdInvalid
               PROVE  l = m
    BY DEF LocalsDiffer
  <2>1. CASE pid = child
    BY <1>2, <1>11, <2>1 DEF HasLocals
  <2>2. CASE pid # child
    <3>1. kept[Local(pid, l)] = held[Local(pid, l)] /\ kept[Local(pid, m)] = held[Local(pid, m)]
      BY <1>2, <2>2, NotPipes, PlacesDiffer
    <3> QED BY <1>3, <3>1 DEF Sound, LocalsDiffer
  <2> QED BY <2>1, <2>2
<1>20. \A q : q # NoPath /\ FileIsOpen(t, q) => FileIsOpen(u, q)
  BY <1>9 DEF FileIsOpen, InUse
<1>21. OpenExist(new)
  <2> SUFFICES ASSUME NEW fd \in ValidFds, InUse(u, fd) PROVE u[fd].path \in sys.files
    BY <1>1 DEF OpenExist, u
  <2>1. PICK x \in Places : kept[x] = fd
    <3>1. KeptAt(kept, fd) # {}
      BY <1>2, <1>15, FreeIsNotKept
    <3> QED BY <3>1 DEF KeptAt
  <2>2. CASE \A m \in LocalFds : x # Local(child, m)
    <3>1. held[x] = fd /\ fd # FdInvalid
      BY <1>2, <2>1, <2>2, FdFacts
    <3> QED BY <1>16, <3>1, KeptExist DEF t
  <2>3. ASSUME NEW m \in LocalFds, x = Local(child, m) PROVE u[fd].path \in sys.files
    <3>1. fds[m] # FdInvalid /\ u[fd].path = t[fds[m]].path
      BY <1>10, <1>12, <2>1, <2>3, FdFacts
    <3> QED BY <1>4, <3>1, KeptExist DEF t
  <2> QED BY <2>2, <2>3
<1>22. OwnedAreOpen(new)
  BY <1>1, <1>20, OwnedAreExclusive DEF Consistent, OwnedAreOpen, t, u
<1>23. \A i \in PipeIds : kept[Pipe(i)] = held[Pipe(i)]
  BY <1>2, PlaceKinds, PlacesDiffer
<1>24. MountsKept(new, kept)
  BY <1>1, <1>23 DEF Consistent, MountsKept
<1>25. Consistent(new, kept)
  BY <1>1, <1>15, <1>17, <1>18, <1>19, <1>21, <1>22, <1>24 DEF Consistent, Sound, u
<1>26. SamePaths(t, held, u, kept)
  BY <1>16 DEF SamePaths
<1>27. GoesOnWith(sys, held, child, more, new, kept)
  BY <1>2, <1>25, <1>26 DEF GoesOnWith, t, u
<1>28. \A J : PipesUsed(sys, J) => PipesUsed(new, J)
  BY <1>1, <1>20, PathTypes, PathsAssumption DEF PipesUsed, t, u
<1> QED BY <1>1, <1>27, <1>28

\* A fork that fails leaves what it found.
LEMMA UndoForkIsConsistent ==
    ASSUME NEW sys \in CountedFs, NEW held \in Books, Consistent(sys, held), NEW child \in Pids,
           held[Proc(child)] = FdInvalid, held[Ram(child)] = FdInvalid,
           NEW new, new = UndoFork(sys, child)
    PROVE  Consistent(new, held) /\ (\A J : PipesUsed(sys, J) => PipesUsed(new, J)) /\ PathsKept(sys.fdt, new.fdt)
<1>1. ProcPath(child) \notin sys.files /\ RamPath(child) \notin sys.files
  <2>1. ~FileIsOpen(sys.fdt, ProcPath(child)) /\ ~FileIsOpen(sys.fdt, RamPath(child))
    BY OwnerKeeps, Owners, NotPipes DEF Consistent
  <2> QED BY <2>1, Owners DEF Consistent, OwnedAreOpen
<1>2. FileDelete(sys.fdt, FileDelete(sys.fdt, sys.files, ProcPath(child)), RamPath(child)) = sys.files
  BY <1>1 DEF FileDelete
<1>3. new = [sys EXCEPT !.fdt = FileClose(sys.fdt, FdInvalid), !.files = sys.files]
  BY <1>2 DEF UndoFork, CountedFs, FileSystems
<1>4. new.files = sys.files /\ new.pipes = sys.pipes /\ new.fdt = FileClose(sys.fdt, FdInvalid)
  BY <1>3 DEF CountedFs, FileSystems
<1>5. \A fd \in ValidFds : new.fdt[fd] = sys.fdt[fd]
  BY <1>4, FsParts, FileCloseCounted, FdFacts
<1> QED BY <1>4, <1>5, SameIsConsistent

\* A transfer changes what a pipe holds.
LEMMA TransferIsConsistent ==
    ASSUME NEW sys \in CountedFs, NEW held \in Books, Consistent(sys, held), NEW fd,
           NEW new \in AfterRead(sys, fd) \cup AfterWrite(sys, fd)
    PROVE  Consistent(new, held) /\ (\A J : PipesUsed(sys, J) => PipesUsed(new, J)) /\ PathsKept(sys.fdt, new.fdt)
<1>1. new = sys \/ \E i \in PipeIds, n \in Nat : new = [sys EXCEPT !.pipes[i].len = n]
  <2>1. CASE PipeOf(sys, fd) = {}
    BY <2>1 DEF AfterRead, AfterWrite
  <2>2. CASE PipeOf(sys, fd) # {}
    <3>1. PICK i \in PipeOf(sys, fd) : \E n \in 0 .. sys.pipes[i].len \cup sys.pipes[i].len .. PipeSize : new = [sys EXCEPT !.pipes[i].len = n]
      BY <2>2 DEF AfterRead, AfterWrite
    <3>2. i \in PipeIds
      BY DEF PipeOf
    <3>3. sys.pipes[i].len \in Nat /\ PipeSize \in Nat
      BY <3>2, FsParts, SizesAssumption DEF Pipes
    <3> QED BY <3>1, <3>2, <3>3
  <2> QED BY <2>1, <2>2
<1>2. new.fdt = sys.fdt /\ new.files = sys.files /\ \A i \in PipeIds : new.pipes[i].fd = sys.pipes[i].fd
  <2>1. ASSUME NEW j \in PipeIds, NEW n \in Nat, new = [sys EXCEPT !.pipes[j].len = n]
        PROVE  new.fdt = sys.fdt /\ new.files = sys.files /\ \A i \in PipeIds : new.pipes[i].fd = sys.pipes[i].fd
    <3>1. new.fdt = sys.fdt /\ new.files = sys.files /\ new.pipes = [sys.pipes EXCEPT ![j].len = n]
      BY <2>1 DEF CountedFs, FileSystems
    <3>2. \A i \in PipeIds : sys.pipes[i] \in [fd : Fds, len : 0 .. PipeSize] /\ sys.pipes \in [PipeIds -> [fd : Fds, len : 0 .. PipeSize]]
      BY FsParts DEF Pipes
    <3> QED BY <3>1, <3>2
  <2> QED BY <1>1, <2>1
<1> QED BY <1>2, SameIsConsistent

\* Users' files come and go, but not while they are open.
LEMMA UserFileIsConsistent ==
    ASSUME NEW sys \in CountedFs, NEW held \in Books, Consistent(sys, held), NEW f \in UserFiles, NEW new,
           \/ new = [sys EXCEPT !.files = @ \cup {UserPath(f)}]
           \/ new = [sys EXCEPT !.files = FileDelete(sys.fdt, @, UserPath(f))]
    PROVE  Consistent(new, held) /\ (\A J : PipesUsed(sys, J) => PipesUsed(new, J)) /\ PathsKept(sys.fdt, new.fdt)
<1>1. /\ new.fdt = sys.fdt /\ new.pipes = sys.pipes
      /\ new.files = sys.files \cup {UserPath(f)} \/ new.files = FileDelete(sys.fdt, sys.files, UserPath(f))
  BY DEF CountedFs, FileSystems
<1>2. UserPath(f) \notin OwnedPaths /\ UserPath(f) \notin ProgPaths /\ \A i \in PipeIds : UserPath(f) # PipeDev(i)
  BY PathsDiffer DEF OwnedPaths, ProgPaths
<1>3. OpenExist(new)
  BY <1>1 DEF Consistent, OpenExist, FileDelete, FileIsOpen
<1>4. OwnedAreOpen(new) /\ ProgPaths \subseteq new.files /\ MountsKept(new, held)
  BY <1>1, <1>2 DEF Consistent, OwnedAreOpen, MountsKept, FileDelete
<1>5. \A J : PipesUsed(sys, J) => PipesUsed(new, J)
  BY <1>1, <1>2 DEF PipesUsed, FileDelete
<1> QED BY <1>1, <1>3, <1>4, <1>5 DEF Consistent, PathsKept

\* procManProcessExecCommon opens the new program before it closes the old one.
LEMMA NewProgramIsConsistent ==
    ASSUME NEW sys \in CountedFs, NEW held \in Books, Consistent(sys, held), NEW pid \in Pids, NEW prog \in Programs,
           held[Prog(pid)] # FdInvalid, NEW fd, fd = NewFd(sys.fdt), fd # FdInvalid,
           NEW new \in CountedFs, new.fdt = FileClose(FileOpen(sys.fdt, ProgPath(prog), "RO"), held[Prog(pid)]),
           new.files = sys.files, new.pipes = sys.pipes
    PROVE  /\ [held EXCEPT ![Prog(pid)] = fd] \in Books
           /\ Consistent(new, [held EXCEPT ![Prog(pid)] = fd])
           /\ \A J : PipesUsed(sys, J) => PipesUsed(new, J)
<1> DEFINE t == sys.fdt
           old == held[Prog(pid)]
           path == ProgPath(prog)
           opened == FileOpen(t, path, "RO")
           closed == FileClose(t, old)
           mid == [fdt |-> closed, files |-> sys.files, pipes |-> sys.pipes]
           between == [held EXCEPT ![Prog(pid)] = FdInvalid]
<1>1. Prog(pid) \in Places \ PipePlaces /\ path \in Paths /\ "RO" \in Modes /\ path \in ProgPaths
  BY NotPipes, PathTypes DEF Modes, ProgPaths
<1>2. t \in CountedTables /\ Sound(t, held) /\ sys.files \in SUBSET Paths /\ sys.pipes \in Pipes
  BY FsParts DEF Consistent
<1>3. old \in ValidFds /\ old \in Fds /\ InUse(t, old)
  BY <1>1, KeptExist, FdFacts
<1>4. fd \in FreeFds(t) /\ opened = OpenedAt(t, fd, path, "RO") /\ opened \in CountedTables
  BY <1>1, <1>2, NewFdIsFree, OpenedFacts
<1>5. fd # old /\ fd \in ValidFds /\ fd \in Fds
  BY <1>3, <1>4, FdFacts DEF FreeFds
<1>6. closed \in CountedTables /\ closed[fd] = t[fd] /\ fd \in FreeFds(closed)
  BY <1>2, <1>3, <1>4, <1>5, FileCloseCounted DEF FreeFds, InUse
<1>7. FileClose(opened, old) = OpenedAt(closed, fd, path, "RO")
  <2>1. opened[old] = t[old]
    BY <1>3, <1>4, <1>5, <1>2 DEF OpenedAt, CountedTables, Tables
  <2>2. t \in [Fds -> Slots]
    BY <1>2 DEF CountedTables, Tables
  <2>3. CASE t[old].ref = 1
    <3>1. /\ FileClose(opened, old) = [opened EXCEPT ![old] = UnusedSlot]
          /\ closed = [t EXCEPT ![old] = UnusedSlot]
      BY <1>3, <2>1, <2>3 DEF FileClose, InUse
    <3> HIDE DEF opened, closed, old, t
    <3> QED BY <1>3, <1>4, <1>5, <2>2, <3>1 DEF OpenedAt
  <2>4. CASE t[old].ref # 1
    <3>1. /\ FileClose(opened, old) = [opened EXCEPT ![old] = [opened[old] EXCEPT !.ref = @ - 1]]
          /\ closed = [t EXCEPT ![old] = [t[old] EXCEPT !.ref = @ - 1]]
      BY <1>3, <2>1, <2>4 DEF FileClose, InUse
    <3> HIDE DEF opened, closed, old, t
    <3> QED BY <1>3, <1>4, <1>5, <2>1, <2>2, <3>1 DEF OpenedAt
  <2> QED BY <2>3, <2>4
<1>8. mid \in CountedFs /\ mid.fdt = closed /\ mid.files = sys.files /\ mid.pipes = sys.pipes
  <2> HIDE DEF closed
  <2> QED BY <1>2, <1>6, FsBuilt
<1>9. new.fdt = OpenedAt(closed, fd, path, "RO")
  BY <1>7
<1> HIDE DEF mid
<1>10. between \in Books /\ between[Prog(pid)] = FdInvalid /\ [held EXCEPT ![Prog(pid)] = fd] = [between EXCEPT ![Prog(pid)] = fd]
  BY <1>1, FdFacts DEF Books
<1>11. Consistent(mid, between) /\ \A J : PipesUsed(sys, J) => PipesUsed(mid, J)
  BY <1>8, CloseProgram
<1>12. path \in Rightful(Prog(pid)) /\ path \notin OwnedPaths /\ MayOpen(mid.fdt, mid.files, path)
  BY <1>1, <1>8, Owners, OwnedAreExclusive, PathsAreThese DEF MayOpen, Consistent
<1>13. new.fdt = OpenedAt(mid.fdt, fd, path, "RO") /\ new.files = mid.files /\ new.pipes = mid.pipes /\ fd \in FreeFds(mid.fdt)
  BY <1>6, <1>8, <1>9
<1> HIDE DEF between, path, closed, t, old, opened
<1>14. /\ [between EXCEPT ![Prog(pid)] = fd] \in Books /\ Consistent(new, [between EXCEPT ![Prog(pid)] = fd])
       /\ \A J : PipesUsed(mid, J) => PipesUsed(new, J)
  <2>1. Prog(pid) \in Places \ PipePlaces /\ "RO" \in Modes
    BY <1>1
  <2>2. path \in Rightful(Prog(pid)) /\ path \notin OwnedPaths
    BY <1>12
  <2> QED BY <1>8, <1>9, <1>10, <1>11, <1>12, <1>13, <2>1, <2>2, OpenExisting
<1> QED BY <1>9, <1>10, <1>11, <1>14
-----------------------------------------------------------------------------
\* Closing takes paths away and puts none.
LEMMA CloseTakesPaths ==
    ASSUME NEW t \in CountedTables, NEW fd \in Fds
    PROVE  \A g \in Fds : FileClose(t, fd)[g].path \in {t[g].path, NoPath}
<1>1. \A g \in Fds : g # fd => FileClose(t, fd)[g] = t[g]
  BY FileCloseCounted
<1>2. CASE InUse(t, fd)
  BY <1>1, <1>2, CloseEffect
<1>3. CASE ~InUse(t, fd)
  BY <1>3 DEF FileClose
<1> QED BY <1>2, <1>3

LEMMA CloseFilesTakesPaths ==
    ASSUME NEW sys \in CountedFs, NEW S
    PROVE  \A g \in Fds : CloseFiles(sys, S).fdt[g].path \in {sys.fdt[g].path, NoPath}
<1> DEFINE closed == [fd \in Fds |-> IF fd \in S THEN FileClose(sys.fdt, fd)[fd] ELSE sys.fdt[fd]]
           mid == [sys EXCEPT !.fdt = closed]
<1>1. sys.fdt \in CountedTables /\ closed \in CountedTables
  BY FsParts, CloseSetCounted
<1>2. \A g \in Fds : closed[g].path \in {sys.fdt[g].path, NoPath}
  BY <1>1, CloseTakesPaths
<1>3. mid.fdt = closed
  <2> HIDE DEF closed
  <2> QED BY FsFields
<1>4. PICK ids : CloseFiles(sys, S) = Unmount(mid, ids)
  BY DEF CloseFiles
<1> HIDE DEF closed, mid
<1>5. PICK backing : Unmount(mid, ids).fdt = [fd \in Fds |-> IF fd \in backing THEN FileClose(mid.fdt, fd)[fd] ELSE mid.fdt[fd]]
  BY DEF Unmount
<1>6. \A g \in Fds : Unmount(mid, ids).fdt[g].path \in {closed[g].path, NoPath}
  BY <1>1, <1>3, <1>5, CloseTakesPaths
<1> QED BY <1>2, <1>4, <1>6

\* What stays open while a ram file is closed and opened again, or while a new
\* program takes the place of the old one, stays open on the same file.
LEMMA ReopenRamKeepsPaths ==
    ASSUME NEW sys \in CountedFs, NEW held \in Books, Consistent(sys, held), NEW pid \in Pids,
           held[Ram(pid)] # FdInvalid
    PROVE  PathsKept(sys.fdt, ReopenRam(sys, pid, held[Ram(pid)]).fdt)
<1> DEFINE t == sys.fdt
           old == held[Ram(pid)]
           closed == FileClose(t, old)
           fd == NewFd(closed)
           new == ReopenRam(sys, pid, old)
<1>1. t \in CountedTables /\ old \in Fds /\ t[old].path = RamPath(pid)
  BY FsParts, NotPipes, Owners, KeptExist, FdFacts
<1>2. closed \in CountedTables /\ \A g \in Fds : g # old => closed[g] = t[g]
  BY <1>1, FileCloseCounted
<1>3. \A g \in Fds : closed[g].path \in {t[g].path, NoPath}
  BY <1>1, CloseTakesPaths
<1>4. new.fdt = OpenedAt(closed, fd, RamPath(pid), "RW")
  BY <1>2, NewFdIsFree, FsFields DEF ReopenRam
<1>5. fd # FdInvalid => fd \in FreeFds(closed)
  BY <1>2, NewFdIsFree
<1> HIDE DEF closed, new, t, old, fd
<1>6. \A g \in ValidFds : new.fdt[g] = IF g = fd THEN [path |-> RamPath(pid), mode |-> "RW", ref |-> 1] ELSE closed[g]
  BY <1>2, <1>4, FdFacts DEF OpenedAt, CountedTables, Tables
<1>7. SUFFICES ASSUME NEW g \in ValidFds, InUse(t, g), InUse(new.fdt, g)
               PROVE  new.fdt[g].path = t[g].path
  BY DEF PathsKept, t, old, new
<1>8. CASE g # fd
  BY <1>3, <1>6, <1>7, <1>8, FdFacts DEF InUse
<1>9. CASE g = fd
  BY <1>1, <1>2, <1>5, <1>6, <1>7, <1>9, FdFacts DEF InUse, FreeFds
<1> QED BY <1>8, <1>9

LEMMA NewProgramKeepsPaths ==
    ASSUME NEW t \in CountedTables, NewFd(t) # FdInvalid, NEW path, NEW old \in Fds, NEW new,
           NEW mode \in Modes, path \in Paths, new = FileClose(FileOpen(t, path, mode), old)
    PROVE  PathsKept(t, new)
<1> DEFINE fd == NewFd(t)
           opened == FileOpen(t, path, mode)
<1>1. fd \in FreeFds(t) /\ opened = OpenedAt(t, fd, path, mode) /\ opened \in CountedTables
  BY NewFdIsFree, OpenedFacts
<1> HIDE DEF fd, opened
<1>2. \A g \in Fds : new[g].path \in {opened[g].path, NoPath}
  BY <1>1, CloseTakesPaths DEF opened
<1>3. \A g \in Fds : g # fd => opened[g] = t[g]
  BY <1>1, OpenedFacts
<1> QED BY <1>1, <1>2, <1>3, FdFacts DEF PathsKept, InUse, FreeFds
-----------------------------------------------------------------------------
(***************************************************************************)
(* The process manager.                                                    *)
(***************************************************************************)
SafeDatas == {data \in ProcDatas : data.fds[MaxFds - 1] = FdInvalid}

StateOK ==
    /\ fs \in CountedFs
    /\ processes \in [Pids -> Processes]
    /\ procFile \in [Pids -> SafeDatas]
    /\ run \in Pids \cup {PidMax}
    /\ loc \in SafeDatas
    /\ turn \in Pids
    /\ stale \in BOOLEAN

IInv == StateOK /\ WaitersHaveTargets
-----------------------------------------------------------------------------
\* What the assignments of the actions do to records.
LEMMA SafeDataParts ==
    ASSUME NEW data \in SafeDatas
    PROVE  /\ data.r0 \in R0 /\ data.handler \in BOOLEAN /\ data.ramFd \in Fds
           /\ data.fds \in LocalTables /\ data.fds[MaxFds - 1] = FdInvalid
           /\ \A l \in LocalFds : data.fds[l] \in Fds
BY DEF SafeDatas, ProcDatas, LocalTables

LEMMA SafeDataChanges ==
    ASSUME NEW data \in SafeDatas
    PROVE  /\ \A r0 \in R0 : [data EXCEPT !.r0 = r0] \in SafeDatas
           /\ Consumed(data) \in SafeDatas
           /\ \A h \in BOOLEAN : [data EXCEPT !.handler = h] \in SafeDatas
           /\ \A fd \in Fds : [data EXCEPT !.ramFd = fd] \in SafeDatas
           /\ \A fd \in Fds : [data EXCEPT !.handler = FALSE, !.ramFd = fd] \in SafeDatas
           /\ \A fds \in LocalTables : fds[MaxFds - 1] = FdInvalid =>
                [data EXCEPT !.r0 = "other", !.fds = fds] \in SafeDatas
           /\ \A l \in LocalFds : [data EXCEPT !.fds[l] = FdInvalid] \in SafeDatas
<1>1. "other" \in R0
  BY DEF R0
<1>2. \A l \in LocalFds : /\ [data.fds EXCEPT ![l] = FdInvalid] \in LocalTables
                          /\ [data.fds EXCEPT ![l] = FdInvalid][MaxFds - 1] = FdInvalid
  BY SafeDataParts, FdInvalidType, LocalBounds DEF LocalTables
<1>3. \A l \in LocalFds : [data EXCEPT !.fds[l] = FdInvalid] = [data EXCEPT !.fds = [data.fds EXCEPT ![l] = FdInvalid]]
  BY DEF SafeDatas, ProcDatas
<1>4. \A fds \in LocalTables : fds[MaxFds - 1] = FdInvalid => [data EXCEPT !.fds = fds] \in SafeDatas
  BY DEF SafeDatas, ProcDatas, LocalTables
<1>5. \A l \in LocalFds : [data EXCEPT !.fds[l] = FdInvalid] \in SafeDatas
  BY <1>2, <1>3, <1>4
<1>6. /\ \A r0 \in R0 : [data EXCEPT !.r0 = r0] \in SafeDatas
      /\ Consumed(data) \in SafeDatas
      /\ \A h \in BOOLEAN : [data EXCEPT !.handler = h] \in SafeDatas
  BY <1>1 DEF SafeDatas, ProcDatas, Consumed
<1>7. /\ \A fd \in Fds : [data EXCEPT !.ramFd = fd] \in SafeDatas
      /\ \A fd \in Fds : [data EXCEPT !.handler = FALSE, !.ramFd = fd] \in SafeDatas
  BY DEF SafeDatas, ProcDatas
<1>8. \A fds \in LocalTables : fds[MaxFds - 1] = FdInvalid =>
        [data EXCEPT !.r0 = "other", !.fds = fds] \in SafeDatas
  BY <1>1 DEF SafeDatas, ProcDatas, LocalTables
<1> QED BY <1>5, <1>6, <1>7, <1>8

LEMMA BlankDataSafe == BlankData \in SafeDatas
BY NoFdsType, FdInvalidType, LocalBounds DEF BlankData, SafeDatas, ProcDatas, R0, NoFds, LocalTables

LEMMA PidZero == 0 \in Pids
BY SizesAssumption DEF Pids

LEMMA NoWaitType == NoWait \in Waits
BY PidZero, FdInvalidType DEF NoWait, Waits

LEMMA UnusedProcessType == UnusedProcess \in Processes
BY NoWaitType, FdInvalidType DEF UnusedProcess, Processes, States

LEMMA ProcessChanges ==
    ASSUME NEW p \in Processes
    PROVE  /\ p.progmemFd \in Fds /\ p.procFd \in Fds /\ p.wait.pid \in Pids /\ p.wait.fd \in Fds
           /\ [p EXCEPT !.state = "Active", !.wait = NoWait] \in Processes
           /\ \A fd \in Fds : [p EXCEPT !.progmemFd = fd] \in Processes
BY NoWaitType DEF Processes, States, Waits

\* A process that is woken, or changes its program, keeps being alive.
LEMMA EndTurnType ==
    ASSUME StateOK, EndTurn
    PROVE  run' \in Pids \cup {PidMax} /\ loc' \in SafeDatas /\ turn' \in Pids
<1>1. turn \in Nat /\ PidMax \in Nat /\ PidMax > 0
  BY SizesAssumption DEF StateOK, Pids
<1>2. (turn + 1) % PidMax \in 0 .. (PidMax - 1)
  BY <1>1
<1> QED BY <1>2, BlankDataSafe DEF EndTurn, Pids

LEMMA DataSafe ==
    ASSUME StateOK, NEW pid \in Pids
    PROVE  Data(pid) \in SafeDatas
BY DEF StateOK, Data
-----------------------------------------------------------------------------
\* The death of a process, in whatever file system its files are closed, keeps
\* everything well formed and wakes everybody who waits for it.
LEMMA KillPreserves ==
    ASSUME IInv, NEW pid \in Pids, NEW status \in R0, NEW from \in CountedFs,
           NEW progmemFd \in Fds, NEW fds, NEW ramFd \in Fds,
           Kill(pid, status, from, progmemFd, fds, ramFd)
    PROVE  /\ fs' \in CountedFs
           /\ processes' \in [Pids -> Processes]
           /\ procFile' \in [Pids -> SafeDatas]
           /\ stale' \in BOOLEAN
           /\ WaitersHaveTargets'
<1> DEFINE closed == CloseFiles(from, GlobalFds(fds))
           noProg == FileClose(closed.fdt, progmemFd)
           noRam == IF ramFd = FdInvalid THEN noProg ELSE FileClose(noProg, ramFd)
           noProc == FileClose(noRam, processes[pid].procFd)
           Waiter(q) == q # pid /\ WaitsFor(q, pid)
<1>1. closed \in CountedFs
  BY CloseFilesType
<1>2. noProg \in CountedTables
  <2> HIDE DEF closed
  <2> QED BY <1>1, FsParts, FileCloseCounted
<1>3. noRam \in CountedTables
  <2> HIDE DEF noProg
  <2> QED BY <1>2, FileCloseCounted
<1>4. noProc \in CountedTables
  <2>1. processes[pid].procFd \in Fds
    BY ProcessChanges DEF IInv, StateOK
  <2> HIDE DEF noRam
  <2> QED BY <2>1, <1>3, FileCloseCounted
<1>5. fs' \in CountedFs
  <2>1. PICK path :
          fs' = [closed EXCEPT !.fdt = noProc,
                               !.files = FileDelete(noProc, FileDelete(noRam, @, path), noRam[processes[pid].procFd].path)]
    BY DEF Kill
  <2> DEFINE f == FileDelete(noProc, FileDelete(noRam, closed.files, path), noRam[processes[pid].procFd].path)
  <2>2. f \in SUBSET Paths
    <3> HIDE DEF closed, noRam, noProc
    <3> QED BY <1>1, FsParts, FileDeleteType
  <2>3. fs' = [closed EXCEPT !.fdt = noProc, !.files = f]
    <3> HIDE DEF closed, noRam, noProc
    <3> QED BY <2>1, <1>1 DEF CountedFs, FileSystems
  <2> HIDE DEF closed, noProc, f
  <2> QED BY <2>2, <2>3, <1>1, <1>4, FsWithBoth
<1>6. processes' = [q \in Pids |->
         IF q = pid THEN UnusedProcess
         ELSE IF Waiter(q) THEN [processes[q] EXCEPT !.state = "Active", !.wait = NoWait]
         ELSE processes[q]]
  BY DEF Kill
<1>7. processes' \in [Pids -> Processes]
  BY <1>6, UnusedProcessType, ProcessChanges DEF IInv, StateOK
<1>8. procFile' \in [Pids -> SafeDatas]
  <2>1. procFile' = [q \in Pids |->
          IF q = pid THEN BlankData
          ELSE IF Waiter(q) THEN [procFile[q] EXCEPT !.r0 = status]
          ELSE procFile[q]]
    BY DEF Kill
  <2>2. \A q \in Pids : procFile[q] \in SafeDatas
    BY DEF IInv, StateOK
  <2> QED BY <2>1, <2>2, BlankDataSafe, SafeDataChanges
<1>9. stale' \in BOOLEAN
  BY DEF Kill
<1>10. WaitersHaveTargets'
  <2> SUFFICES ASSUME NEW q \in Pids, processes'[q].state = "WaitingWaitpid"
               PROVE  processes'[processes'[q].wait.pid].progmemFd # FdInvalid
    BY DEF WaitersHaveTargets, Alive
  <2>1. q # pid
    BY <1>6 DEF UnusedProcess
  <2>2. ~Waiter(q)
    BY <1>6, <2>1 DEF IInv, StateOK, Processes
  <2>3. processes'[q] = processes[q] /\ processes[q].state = "WaitingWaitpid" /\ processes[q].wait.pid # pid
    BY <1>6, <2>1, <2>2 DEF WaitsFor
  <2>4. processes[q].wait.pid \in Pids
    BY ProcessChanges DEF IInv, StateOK
  <2>5. processes[processes[q].wait.pid].progmemFd # FdInvalid
    BY <2>3 DEF IInv, WaitersHaveTargets, Alive
  <2>6. ASSUME NEW r \in Pids, r # pid
        PROVE  processes'[r].progmemFd = processes[r].progmemFd
    BY <1>6, <2>6 DEF IInv, StateOK, Processes
  <2> QED BY <2>3, <2>4, <2>5, <2>6
<1> QED BY <1>5, <1>7, <1>8, <1>9, <1>10
-----------------------------------------------------------------------------
\* Most actions change one process and keep its program file, or none.
LEMMA WaitersKept ==
    ASSUME IInv, NEW pid \in Pids, NEW p \in Processes,
           processes' = [processes EXCEPT ![pid] = p],
           processes[pid].progmemFd # FdInvalid => p.progmemFd # FdInvalid,
           p.state = "WaitingWaitpid" => Alive(p.wait.pid)
    PROVE  processes' \in [Pids -> Processes] /\ WaitersHaveTargets'
<1>1. processes' \in [Pids -> Processes]
  BY DEF IInv, StateOK
<1>2. \A q \in Pids : processes[q].progmemFd # FdInvalid => processes'[q].progmemFd # FdInvalid
  BY DEF IInv, StateOK
<1>3. \A q \in Pids : processes'[q].state = "WaitingWaitpid" =>
         /\ processes'[q].wait.pid \in Pids
         /\ processes[processes'[q].wait.pid].progmemFd # FdInvalid
  <2> TAKE q \in Pids
  <2>1. CASE q = pid
    BY <2>1, ProcessChanges DEF IInv, StateOK, Alive
  <2>2. CASE q # pid
    BY <2>2, ProcessChanges DEF IInv, StateOK, WaitersHaveTargets, Alive
  <2> QED BY <2>1, <2>2
<1> QED BY <1>1, <1>2, <1>3 DEF WaitersHaveTargets, Alive

\* The same when no process changes.
LEMMA WaitersUnchanged ==
    ASSUME IInv, UNCHANGED processes
    PROVE  processes' \in [Pids -> Processes] /\ WaitersHaveTargets'
BY DEF IInv, StateOK, WaitersHaveTargets, Alive

LEMMA InitEstablishes == Init => IInv
<1> SUFFICES ASSUME Init PROVE IInv
  OBVIOUS
<1>1. \A prog \in Programs : ProgPath(prog) \in Paths
  BY PathTypes
<1>2. (CHOOSE prog \in Programs : TRUE) \in Programs
  BY SizesAssumption
<1>3. ProcPath(0) \in Paths /\ RamPath(0) \in Paths
  BY PidZero, PathTypes
<1>4. Boot0 \in CountedTables
  BY <1>1, <1>2, EmptyTableCounted, FileOpenCounted DEF Boot0, Modes
<1>5. Boot1 \in CountedTables
  BY <1>3, <1>4, FileOpenCounted DEF Boot1, Modes
<1>6. Boot2 \in CountedTables
  BY <1>3, <1>5, FileOpenCounted DEF Boot2, Modes
<1>7. ProgPaths \cup {ProcPath(0), RamPath(0)} \in SUBSET Paths
  BY <1>1, <1>3 DEF ProgPaths
<1>8. [i \in PipeIds |-> NoPipe] \in Pipes
  BY NoPipeType DEF Pipes
<1>9. fs \in CountedFs
  BY <1>6, <1>7, <1>8, FsBuilt DEF Init
<1>10. InitProcess \in Processes /\ InitProcess.state = "Active"
  BY NewFdFacts, NoWaitType DEF InitProcess, Processes, States
<1>11. processes \in [Pids -> Processes]
  BY <1>10, UnusedProcessType DEF Init
<1>12. procFile \in [Pids -> SafeDatas]
  BY BlankDataSafe, SafeDataChanges, NewFdFacts DEF Init
<1>13. WaitersHaveTargets
  BY <1>10 DEF Init, WaitersHaveTargets, UnusedProcess
<1> QED BY <1>9, <1>11, <1>12, <1>13, BlankDataSafe, PidZero DEF Init, IInv, StateOK
-----------------------------------------------------------------------------
\* The beginning of a tick.
LEMMA LoadPreserves ==
    ASSUME IInv, NEW data \in SafeDatas, NEW newFs \in CountedFs,
           NEW process \in {processes[turn], Woken}, Load(data, process, newFs)
    PROVE  IInv'
<1>1. turn \in Pids /\ processes[turn] \in Processes
  BY DEF IInv, StateOK
<1>2. process \in Processes
  BY <1>1, ProcessChanges DEF Woken
<1>3. process.progmemFd = processes[turn].progmemFd
  BY <1>1 DEF Woken, Processes
<1>4. process.state = "WaitingWaitpid" => Alive(process.wait.pid)
  BY <1>1 DEF Woken, Processes, IInv, WaitersHaveTargets
<1>5. processes' \in [Pids -> Processes] /\ WaitersHaveTargets'
  BY <1>1, <1>2, <1>3, <1>4, WaitersKept DEF Load
<1> QED BY <1>5 DEF Load, IInv, StateOK

LEMMA TickPreserves == ASSUME IInv, Tick PROVE IInv'
<1>1. /\ turn \in Pids /\ processes[turn] \in Processes /\ procFile[turn] \in SafeDatas
      /\ processes[turn].wait.fd \in Fds /\ fs \in CountedFs
  BY ProcessChanges DEF IInv, StateOK
<1>2. Consumed(procFile[turn]) \in SafeDatas /\ [procFile[turn] EXCEPT !.r0 = "timeout"] \in SafeDatas
  BY <1>1, SafeDataChanges DEF R0
<1>3. CASE TickActive
  BY <1>1, <1>2, <1>3, LoadPreserves DEF TickActive
<1>4. CASE TickTimeout
  BY <1>1, <1>2, <1>4, LoadPreserves DEF TickTimeout
<1>5. CASE TickReadReady
  BY <1>1, <1>2, <1>5, LoadPreserves, TransferType DEF TickReadReady
<1>6. CASE TickWriteReady
  BY <1>1, <1>2, <1>6, LoadPreserves, TransferType DEF TickWriteReady
<1>7. CASE TickNothing
  <2>1. run' \in Pids \cup {PidMax} /\ loc' \in SafeDatas /\ turn' \in Pids
    BY <1>7, EndTurnType DEF TickNothing, IInv
  <2>2. processes' \in [Pids -> Processes] /\ WaitersHaveTargets'
    BY <1>7, WaitersUnchanged DEF TickNothing
  <2> QED BY <1>7, <2>1, <2>2 DEF TickNothing, IInv, StateOK
<1>8. CASE TickEnd
  <2>1. run' \in Pids \cup {PidMax} /\ loc' \in SafeDatas /\ turn' \in Pids
    BY <1>8, EndTurnType DEF TickEnd, IInv
  <2>2. processes' \in [Pids -> Processes] /\ WaitersHaveTargets'
    BY <1>8, WaitersUnchanged DEF TickEnd
  <2>3. Consumed(loc) \in SafeDatas
    BY SafeDataChanges DEF IInv, StateOK
  <2>4. procFile' \in [Pids -> SafeDatas]
    BY <1>8, <2>3 DEF TickEnd, IInv, StateOK
  <2> QED BY <1>8, <2>1, <2>2, <2>4 DEF TickEnd, IInv, StateOK
<1> QED BY <1>3, <1>4, <1>5, <1>6, <1>7, <1>8 DEF Tick
-----------------------------------------------------------------------------
\* The process that makes a system call is one of the processes.
LEMMA CallerFacts ==
    ASSUME IInv, NEW op, Calls(op)
    PROVE  /\ run \in Pids /\ processes[run] \in Processes /\ procFile[run] \in SafeDatas
           /\ processes[run].state = "Active"
           /\ processes[run].progmemFd \in Fds
           /\ loc \in SafeDatas /\ loc.fds \in LocalTables /\ loc.ramFd \in Fds
           /\ \A l \in LocalFds : loc.fds[l] \in Fds
           /\ fs \in CountedFs
BY SafeDataParts, ProcessChanges DEF IInv, StateOK, Calls

\* A system call that changes no process and no ProcData file.
LEMMA LocalCallPreserves ==
    ASSUME IInv, fs' \in CountedFs, loc' \in SafeDatas,
           UNCHANGED <<processes, procFile, run, turn, stale>>
    PROVE  IInv'
BY WaitersUnchanged DEF IInv, StateOK

\* A kill that ends the turn.
LEMMA KillEndsTurn ==
    ASSUME IInv, NEW pid \in Pids, NEW status \in R0, NEW from \in CountedFs,
           NEW progmemFd \in Fds, NEW fds, NEW ramFd \in Fds,
           Kill(pid, status, from, progmemFd, fds, ramFd), EndTurn
    PROVE  IInv'
<1>1. /\ fs' \in CountedFs /\ processes' \in [Pids -> Processes] /\ procFile' \in [Pids -> SafeDatas]
      /\ stale' \in BOOLEAN /\ WaitersHaveTargets'
  BY KillPreserves
<1>2. run' \in Pids \cup {PidMax} /\ loc' \in SafeDatas /\ turn' \in Pids
  BY EndTurnType DEF IInv
<1> QED BY <1>1, <1>2 DEF IInv, StateOK

LEMMA ExitPreserves == ASSUME IInv, NEW status \in {"exit", "killed"}, Exit(status) PROVE IInv'
<1>1. procFile[run].ramFd \in Fds /\ run \in Pids /\ processes[run].progmemFd \in Fds /\ fs \in CountedFs
  BY CallerFacts, SafeDataParts DEF Exit
<1>2. status \in R0
  BY DEF R0
<1> QED BY <1>1, <1>2, KillEndsTurn DEF Exit

LEMMA KillSyscallPreserves == ASSUME IInv, NEW pid \in Pids, KillSyscall(pid) PROVE IInv'
<1>1. procFile[pid].ramFd \in Fds /\ processes[pid].progmemFd \in Fds /\ fs \in CountedFs /\ "killed" \in R0
  BY SafeDataParts, ProcessChanges DEF IInv, StateOK, R0
<1>2. CASE Alive(pid)
  <2>1. Kill(pid, "killed", fs, processes[pid].progmemFd, Data(pid).fds, procFile[pid].ramFd)
    BY <1>2 DEF KillSyscall
  <2>2. /\ fs' \in CountedFs /\ processes' \in [Pids -> Processes] /\ procFile' \in [Pids -> SafeDatas]
        /\ stale' \in BOOLEAN /\ WaitersHaveTargets'
    BY <1>1, <2>1, KillPreserves
  <2> QED BY <2>2 DEF KillSyscall, IInv, StateOK
<1>3. CASE ~Alive(pid)
  <2>1. UNCHANGED vars
    BY <1>3 DEF KillSyscall, vars
  <2> QED BY <2>1, WaitersUnchanged DEF vars, IInv, StateOK
<1> QED BY <1>2, <1>3

LEMMA WaitPidPreserves == ASSUME IInv, NEW pid \in Pids, NEW timed \in BOOLEAN, WaitPid(pid, timed) PROVE IInv'
<1>1. run \in Pids /\ processes[run] \in Processes /\ loc \in SafeDatas
  BY CallerFacts DEF WaitPid
<1>2. CASE Alive(pid)
  <2> DEFINE p == [processes[run] EXCEPT !.state = "WaitingWaitpid",
                                         !.wait = [pid |-> pid, timed |-> timed, fd |-> FdInvalid]]
  <2>1. p \in Processes /\ p.progmemFd = processes[run].progmemFd
    BY <1>1, FdInvalidType DEF Processes, States, Waits
  <2>2. p.wait.pid = pid
    BY <1>1 DEF Processes
  <2>3. processes' = [processes EXCEPT ![run] = p] /\ UNCHANGED <<loc, fs, procFile, run, turn, stale>>
    BY <1>1, <1>2 DEF WaitPid, IInv, StateOK
  <2> HIDE DEF p
  <2>4. processes' \in [Pids -> Processes] /\ WaitersHaveTargets'
    BY <1>1, <1>2, <2>1, <2>2, <2>3, WaitersKept
  <2> QED BY <2>3, <2>4 DEF IInv, StateOK
<1>3. CASE ~Alive(pid)
  <2>1. loc' \in SafeDatas
    BY <1>1, <1>3, SafeDataChanges DEF WaitPid, R0
  <2>2. fs' \in CountedFs /\ UNCHANGED <<processes, procFile, run, turn, stale>>
    BY <1>3 DEF WaitPid, IInv, StateOK
  <2> QED BY <2>1, <2>2, LocalCallPreserves
<1> QED BY <1>2, <1>3

LEMMA RegisterPreserves == ASSUME IInv, RegisterSignalHandler PROVE IInv'
<1>1. loc \in SafeDatas /\ fs \in CountedFs
  BY CallerFacts DEF RegisterSignalHandler
<1> QED BY <1>1, SafeDataChanges, LocalCallPreserves DEF RegisterSignalHandler, OnlyLoc

LEMMA OpenPreserves ==
    ASSUME IInv, NEW path \in Paths, NEW mode \in Modes, Open(path, mode)
    PROVE  IInv'
<1> DEFINE opened == OpenLocal(fs, loc.fds, path, mode)
<1>1. loc \in SafeDatas /\ loc.fds \in LocalTables /\ loc.fds[MaxFds - 1] = FdInvalid /\ fs \in CountedFs
  BY CallerFacts, SafeDataParts DEF Open
<1>2. opened.fs \in CountedFs /\ opened.fds \in LocalTables /\ opened.fds[MaxFds - 1] = FdInvalid
  BY <1>1, OpenLocalType
<1>3. fs' = opened.fs /\ loc' = [loc EXCEPT !.r0 = "other", !.fds = opened.fds]
  BY DEF Open
<1>4. UNCHANGED <<processes, procFile, run, turn, stale>>
  BY DEF Open
<1> HIDE DEF opened
<1> QED BY <1>1, <1>2, <1>3, <1>4, SafeDataChanges, LocalCallPreserves

LEMMA ClosePreserves == ASSUME IInv, NEW l \in LocalFds, Close(l) PROVE IInv'
<1>1. loc \in SafeDatas /\ fs \in CountedFs
  BY CallerFacts DEF Close
<1>2. fs' \in CountedFs
  BY <1>1, CloseFilesType DEF Close
<1>3. loc' \in SafeDatas
  BY <1>1, SafeDataChanges DEF Close
<1> QED BY <1>2, <1>3, LocalCallPreserves DEF Close

\* A transfer that is made, or a process that begins to wait for one.
LEMMA TransferPreserves ==
    ASSUME IInv, NEW l \in LocalFds, Read(l) \/ Write(l)
    PROVE  IInv'
<1>1. /\ run \in Pids /\ processes[run] \in Processes /\ loc \in SafeDatas /\ loc.fds[l] \in Fds
      /\ fs \in CountedFs /\ UNCHANGED <<procFile, run, turn, stale>>
  BY CallerFacts DEF Read, Write
<1>2. CASE UNCHANGED processes
  <2>1. fs' \in CountedFs /\ loc' \in SafeDatas
    <3>1. fs' \in AfterRead(fs, loc.fds[l]) \cup AfterWrite(fs, loc.fds[l]) \cup {fs}
      BY DEF Read, Write
    <3>2. loc' = loc \/ loc' = Consumed(loc)
      BY DEF Read, Write
    <3> QED BY <1>1, <3>1, <3>2, TransferType, SafeDataChanges
  <2> QED BY <1>1, <1>2, <2>1, LocalCallPreserves
<1>3. CASE ~UNCHANGED processes
  <2>1. PICK state \in {"WaitingRead", "WaitingWrite"} :
          processes' = [processes EXCEPT ![run].state = state, ![run].wait.fd = loc.fds[l]]
    BY <1>3 DEF Read, Write
  <2>2. UNCHANGED <<fs, loc>>
    BY <1>3 DEF Read, Write
  <2> DEFINE p == [processes[run] EXCEPT !.state = state, !.wait.fd = loc.fds[l]]
  <2>3. p \in Processes /\ p.progmemFd = processes[run].progmemFd /\ p.state # "WaitingWaitpid"
    BY <1>1 DEF Processes, States, Waits
  <2>4. processes' = [processes EXCEPT ![run] = p]
    BY <1>1, <2>1 DEF IInv, StateOK
  <2> HIDE DEF p
  <2>5. processes' \in [Pids -> Processes] /\ WaitersHaveTargets'
    BY <1>1, <2>3, <2>4, WaitersKept
  <2> QED BY <1>1, <2>2, <2>5 DEF IInv, StateOK
<1> QED BY <1>2, <1>3

LEMMA FilesPreserve ==
    ASSUME IInv, NEW f \in UserFiles, CreateFile(f) \/ DeleteFile(f)
    PROVE  IInv'
<1>1. /\ loc \in SafeDatas /\ fs \in CountedFs /\ loc' = Consumed(loc)
      /\ UNCHANGED <<processes, procFile, run, turn, stale>>
  BY CallerFacts DEF CreateFile, DeleteFile
<1>2. fs.files \cup {UserPath(f)} \in SUBSET Paths /\ FileDelete(fs.fdt, fs.files, UserPath(f)) \in SUBSET Paths
  BY <1>1, FsParts, PathTypes, FileDeleteType
<1>3. \/ fs' = [fs EXCEPT !.files = fs.files \cup {UserPath(f)}]
      \/ fs' = [fs EXCEPT !.files = FileDelete(fs.fdt, fs.files, UserPath(f))]
  BY DEF CreateFile, DeleteFile
<1>4. fs' \in CountedFs
  BY <1>1, <1>2, <1>3, FsWithFiles
<1> QED BY <1>1, <1>4, SafeDataChanges, LocalCallPreserves
-----------------------------------------------------------------------------
LEMMA WithoutRamType ==
    ASSUME fs \in CountedFs, NEW pid, NEW data \in SafeDatas
    PROVE  WithoutRam(pid, data) \in CountedFs
<1> DEFINE closed == FileClose(fs.fdt, data.ramFd)
           f == FileDelete(closed, fs.files, RamPath(pid))
<1>1. closed \in CountedTables
  BY SafeDataParts, FsParts, FileCloseCounted
<1>2. f \in SUBSET Paths
  BY FsParts, FileDeleteType
<1>3. WithoutRam(pid, data) = [fs EXCEPT !.fdt = closed, !.files = f]
  BY DEF WithoutRam, CountedFs, FileSystems
<1> HIDE DEF closed, f
<1>4. [fs EXCEPT !.fdt = closed, !.files = f] \in CountedFs
  BY <1>1, <1>2, FsWithBoth
<1> QED BY <1>3, <1>4

LEMMA LosesRamPreserves == ASSUME IInv, LosesRam PROVE IInv'
BY WaitersUnchanged DEF LosesRam, IInv, StateOK

LEMMA GrowPreserves == ASSUME IInv, WriteBeyondRam PROVE IInv'
<1>1. /\ run \in Pids /\ processes[run].progmemFd \in Fds /\ loc \in SafeDatas /\ loc.ramFd \in Fds
      /\ fs \in CountedFs
  BY CallerFacts DEF WriteBeyondRam
<1>2. CASE LosesRam
  BY <1>2, LosesRamPreserves
<1>3. CASE /\ fs' = ReopenRam(fs, run, loc.ramFd)
           /\ loc' = GrownRam(loc)
           /\ UNCHANGED <<processes, procFile, run, turn, stale>>
  BY <1>1, <1>3, ReopenRamType, SafeDataChanges, LocalCallPreserves DEF GrownRam
<1>4. CASE /\ Kill(run, "killed", WithoutRam(run, loc), processes[run].progmemFd, loc.fds, FdInvalid)
           /\ EndTurn
  <2>1. WithoutRam(run, loc) \in CountedFs /\ "killed" \in R0
    BY <1>1, WithoutRamType DEF R0
  <2> QED BY <1>1, <1>4, <2>1, FdInvalidType, KillEndsTurn
<1> QED BY <1>2, <1>3, <1>4 DEF WriteBeyondRam

LEMMA SignalPreserves == ASSUME IInv, NEW pid \in Pids, SignalSyscall(pid) PROVE IInv'
<1> DEFINE data == Interrupted(procFile[pid], processes[pid].state)
           Store(newFs, newData) ==
              /\ fs' = newFs
              /\ procFile' = [procFile EXCEPT ![pid] = newData]
              /\ processes' = [processes EXCEPT ![pid].state = "Active", ![pid].wait = NoWait]
              /\ stale' = (stale \/ (pid = run /\ newData.ramFd # loc.ramFd))
              /\ UNCHANGED <<run, loc, turn>>
<1>1. procFile[pid] \in SafeDatas /\ processes[pid] \in Processes /\ fs \in CountedFs
  BY DEF IInv, StateOK
<1>2. data \in SafeDatas
  BY <1>1, SafeDataChanges DEF Interrupted, R0
<1>3. data.ramFd \in Fds
  BY <1>2, SafeDataParts
<1>4. ASSUME NEW newFs \in CountedFs, NEW newData \in SafeDatas, Store(newFs, newData)
      PROVE  IInv'
  <2> DEFINE p == [processes[pid] EXCEPT !.state = "Active", !.wait = NoWait]
  <2>1. p \in Processes /\ p.progmemFd = processes[pid].progmemFd /\ p.state = "Active"
    BY <1>1, ProcessChanges DEF Processes
  <2>2. processes' = [processes EXCEPT ![pid] = p]
    BY <1>1, <1>4 DEF IInv, StateOK
  <2> HIDE DEF p
  <2>3. processes' \in [Pids -> Processes] /\ WaitersHaveTargets'
    BY <2>1, <2>2, WaitersKept
  <2>4. procFile' \in [Pids -> SafeDatas]
    BY <1>4 DEF IInv, StateOK
  <2> QED BY <1>4, <2>3, <2>4 DEF IInv, StateOK
<1>5. /\ ReopenRam(fs, pid, data.ramFd) \in CountedFs /\ GrownRam(data) \in SafeDatas
      /\ WithoutRam(pid, data) \in CountedFs /\ LostRam(data) \in SafeDatas
  <2> HIDE DEF data
  <2> QED BY <1>1, <1>2, <1>3, ReopenRamType, WithoutRamType, SafeDataChanges, FdInvalidType DEF GrownRam, LostRam
<1>6. \/ Store(fs, data)
      \/ LosesRam
      \/ Store(ReopenRam(fs, pid, data.ramFd), GrownRam(data))
      \/ Store(WithoutRam(pid, data), LostRam(data))
  BY DEF SignalSyscall, SendSignal
<1> HIDE DEF data, Store
<1> QED BY <1>1, <1>2, <1>4, <1>5, <1>6, LosesRamPreserves
-----------------------------------------------------------------------------
LEMMA OpenEndsPreserves ==
    ASSUME IInv, loc \in SafeDatas, NEW i \in PipeIds, NEW mounted \in CountedFs, OpenEnds(i, mounted)
    PROVE  fs' \in CountedFs /\ loc' \in SafeDatas
<1> DEFINE reader == OpenLocal(mounted, loc.fds, PipeDev(i), "RO")
           writer == OpenLocal(reader.fs, reader.fds, PipeDev(i), "WO")
           ends == GlobalFds(writer.fds) \ GlobalFds(loc.fds)
<1>1. PipeDev(i) \in Paths /\ "RO" \in Modes /\ "WO" \in Modes
  BY PathTypes DEF Modes
<1>2. loc.fds \in LocalTables /\ loc.fds[MaxFds - 1] = FdInvalid
  BY SafeDataParts
<1>3. reader.fs \in CountedFs /\ reader.fds \in LocalTables /\ reader.fds[MaxFds - 1] = FdInvalid
  BY <1>1, <1>2, OpenLocalType
<1>4. writer.fs \in CountedFs /\ writer.fds \in LocalTables /\ writer.fds[MaxFds - 1] = FdInvalid
  <2> HIDE DEF reader
  <2> QED BY <1>1, <1>3, OpenLocalType
<1>5. \/ fs' = writer.fs /\ loc' = [loc EXCEPT !.r0 = "other", !.fds = writer.fds]
      \/ fs' = Unmount(CloseFiles(writer.fs, ends), {i}) /\ loc' = Consumed(loc)
  BY DEF OpenEnds
<1> HIDE DEF writer, ends
<1>6. Unmount(CloseFiles(writer.fs, ends), {i}) \in CountedFs
  BY <1>4, CloseFilesType, UnmountType
<1> QED BY <1>4, <1>5, <1>6, SafeDataChanges

LEMMA PipeOpenPreserves == ASSUME IInv, PipeOpen PROVE IInv'
<1>1. loc \in SafeDatas /\ fs \in CountedFs
  BY CallerFacts DEF PipeOpen
<1>2. fs' \in CountedFs /\ loc' \in SafeDatas
  <2>1. CASE loc' = Consumed(loc) /\ UNCHANGED fs
    BY <1>1, <2>1, SafeDataChanges
  <2>2. ASSUME NEW i \in FreePipes, NEW room,
               MountAndOpen(i, Mount([fs EXCEPT !.files = @ \cup {PipeBacking(i)}], i, room))
        PROVE  fs' \in CountedFs /\ loc' \in SafeDatas
    <3> DEFINE mounted == Mount([fs EXCEPT !.files = @ \cup {PipeBacking(i)}], i, room)
    <3>1. i \in PipeIds
      BY DEF FreePipes
    <3>2. fs.files \cup {PipeBacking(i)} \in SUBSET Paths
      BY <1>1, <3>1, FsParts, PathTypes
    <3>3. mounted \in CountedFs
      BY <1>1, <3>1, <3>2, FsWithFiles, MountType
    <3> HIDE DEF mounted
    <3>4. CASE PipeDev(i) \in mounted.files
      BY <1>1, <2>2, <3>1, <3>3, <3>4, OpenEndsPreserves DEF MountAndOpen, mounted
    <3>5. CASE PipeDev(i) \notin mounted.files
      <4>1. fs' = [mounted EXCEPT !.files = mounted.files \ {PipeBacking(i)}] /\ loc' = Consumed(loc)
        BY <2>2, <3>5 DEF MountAndOpen, mounted
      <4>2. mounted.files \ {PipeBacking(i)} \in SUBSET Paths
        BY <3>3, FsParts
      <4> QED BY <1>1, <3>3, <4>1, <4>2, FsWithFiles, SafeDataChanges
    <3> QED BY <3>4, <3>5
  <2> QED BY <2>1, <2>2 DEF PipeOpen
<1> QED BY <1>2, LocalCallPreserves DEF PipeOpen
-----------------------------------------------------------------------------
\* The files of a child and the descriptors procManProcessFork opens for it.
LEMMA ChildFilesType ==
    ASSUME IInv, NEW child \in Pids, Calls("fork")
    PROVE  /\ WithChildFiles(child) \in CountedFs
           /\ ChildProcFd \in Fds /\ ChildRamFd(child) \in Fds /\ ChildProgmemFd(child) \in Fds
<1> DEFINE proc == FileOpen(fs.fdt, ProcPath(child), "RW")
           ram == FileOpen(proc, RamPath(child), "RW")
           t == DupeOrOpenTable(ram, processes[run].progmemFd)
           f == fs.files \cup {ProcPath(child), RamPath(child)}
<1>1. processes[run].progmemFd \in Fds /\ fs \in CountedFs
  BY CallerFacts
<1>2. ProcPath(child) \in Paths /\ RamPath(child) \in Paths /\ "RW" \in Modes
  BY PathTypes DEF Modes
<1>3. proc \in CountedTables
  BY <1>1, <1>2, FsParts, FileOpenCounted
<1>4. ram \in CountedTables
  <2> HIDE DEF proc
  <2> QED BY <1>2, <1>3, FileOpenCounted
<1>5. t \in CountedTables /\ ChildProgmemFd(child) \in Fds
  BY <1>1, <1>4, DupeOrOpenType DEF ChildProgmemFd
<1>6. f \in SUBSET Paths
  BY <1>1, <1>2, FsParts
<1>7. WithChildFiles(child) = [fs EXCEPT !.fdt = t, !.files = f]
  BY DEF WithChildFiles
<1>8. ChildProcFd \in Fds /\ ChildRamFd(child) \in Fds
  BY <1>1, <1>3, FsParts, NewFdFacts DEF ChildProcFd, ChildRamFd
<1> HIDE DEF t, f
<1>9. [fs EXCEPT !.fdt = t, !.files = f] \in CountedFs
  BY <1>1, <1>5, <1>6, FsWithBoth
<1> QED BY <1>5, <1>7, <1>8, <1>9

LEMMA ForkChildPreserves ==
    ASSUME IInv, NEW child \in UnusedPids, Calls("fork"), MayFork(child), ForkChild(child),
           UNCHANGED <<run, turn, stale>>
    PROVE  IInv'
<1> DEFINE new == WithChildFiles(child)
           p == [state |-> "Active", progmemFd |-> ChildProgmemFd(child), procFd |-> ChildProcFd, wait |-> NoWait]
<1>1. child \in Pids
  BY DEF UnusedPids
<1>2. new \in CountedFs /\ ChildProcFd \in Fds /\ ChildRamFd(child) \in Fds /\ ChildProgmemFd(child) \in Fds
  BY <1>1, ChildFilesType
<1>3. loc \in SafeDatas /\ loc.fds \in LocalTables /\ loc.fds[MaxFds - 1] = FdInvalid /\ loc.handler \in BOOLEAN
  BY CallerFacts, SafeDataParts
<1>4. PICK fresh \in Reopenings(new, loc.fds) :
        /\ fs' = DupeAll(new, loc.fds, fresh)
        /\ procFile' = [procFile EXCEPT ![child] =
              [r0 |-> "other", handler |-> loc.handler, ramFd |-> ChildRamFd(child),
               fds |-> DupedFds(new, loc.fds, fresh)]]
  BY DEF ForkChild
<1>5. processes' = [processes EXCEPT ![child] = p] /\ loc' = Consumed(loc)
  BY DEF ForkChild
<1>6. p \in Processes
  BY <1>2, NoWaitType DEF Processes, States
<1>7. p.progmemFd # FdInvalid
  BY DEF MayFork
<1>8. processes' \in [Pids -> Processes] /\ WaitersHaveTargets'
  <2>1. p.state # "WaitingWaitpid"
    OBVIOUS
  <2> HIDE DEF p
  <2> QED BY <1>1, <1>5, <1>6, <1>7, <2>1, WaitersKept
<1> HIDE DEF new
<1>9. /\ fs' \in CountedFs
      /\ DupedFds(new, loc.fds, fresh) \in LocalTables
      /\ DupedFds(new, loc.fds, fresh)[MaxFds - 1] = FdInvalid
  BY <1>2, <1>3, <1>4, DupeAllType
<1>10. [r0 |-> "other", handler |-> loc.handler, ramFd |-> ChildRamFd(child),
        fds |-> DupedFds(new, loc.fds, fresh)] \in SafeDatas
  BY <1>2, <1>3, <1>9 DEF SafeDatas, ProcDatas, LocalTables, R0
<1>11. procFile' \in [Pids -> SafeDatas]
  BY <1>4, <1>10 DEF IInv, StateOK
<1>12. loc' \in SafeDatas
  BY <1>3, <1>5, SafeDataChanges
<1> QED BY <1>8, <1>9, <1>11, <1>12 DEF IInv, StateOK

LEMMA ForkPreserves == ASSUME IInv, Fork PROVE IInv'
<1>1. loc \in SafeDatas /\ fs \in CountedFs
  BY CallerFacts DEF Fork
<1>2. CASE loc' = Consumed(loc) /\ UNCHANGED <<fs, processes, procFile>>
  BY <1>1, <1>2, SafeDataChanges, LocalCallPreserves DEF Fork
<1>3. ASSUME NEW child \in UnusedPids, MayFork(child), ForkChild(child) PROVE IInv'
  BY <1>3, ForkChildPreserves DEF Fork
<1>4. ASSUME NEW child \in UnusedPids, ForkFails(child) PROVE IInv'
  <2>1. child \in Pids
    BY DEF UnusedPids
  <2> QED BY <1>1, <1>4, <2>1, UndoForkType, SafeDataChanges, LocalCallPreserves DEF Fork, ForkFails
<1> QED BY <1>2, <1>3, <1>4 DEF Fork
-----------------------------------------------------------------------------
LEMMA ExecPreserves == ASSUME IInv, NEW prog \in Programs, Exec(prog) PROVE IInv'
<1> DEFINE new == NewFd(fs.fdt)
           opened == FileOpen(fs.fdt, ProgPath(prog), "RO")
           noOld == [fs EXCEPT !.fdt = FileClose(opened, processes[run].progmemFd)]
           closed == [noOld EXCEPT !.fdt = FileClose(@, loc.ramFd)]
           data == [loc EXCEPT !.handler = FALSE, !.ramFd = ReopenedRamFd(noOld, loc.ramFd)]
<1>1. /\ run \in Pids /\ processes[run] \in Processes /\ processes[run].progmemFd \in Fds
      /\ processes[run].state = "Active"
      /\ loc \in SafeDatas /\ loc.ramFd \in Fds /\ fs \in CountedFs
  BY CallerFacts DEF Exec
<1>2. opened \in CountedTables /\ new \in Fds
  BY <1>1, FsParts, PathTypes, FileOpenCounted, NewFdFacts DEF Modes
<1>3. noOld \in CountedFs
  <2> HIDE DEF opened
  <2> QED BY <1>1, <1>2, FileCloseCounted, FsWithTable
<1>4. closed \in CountedFs
  <2>1. closed = [noOld EXCEPT !.fdt = FileClose(noOld.fdt, loc.ramFd)]
    OBVIOUS
  <2> HIDE DEF noOld, closed
  <2> QED BY <1>1, <1>3, <2>1, FsParts, FileCloseCounted, FsWithTable
<1>5. ReopenRam(noOld, run, loc.ramFd) \in CountedFs /\ data \in SafeDatas
  <2> HIDE DEF noOld
  <2> QED BY <1>1, <1>3, ReopenRamType, SafeDataChanges
<1>6. CASE fs' = [fs EXCEPT !.fdt = opened] /\ UNCHANGED <<processes, procFile, run, loc, turn, stale>>
  <2> HIDE DEF opened
  <2> QED BY <1>1, <1>2, <1>6, FsWithTable, LocalCallPreserves
<1>7. CASE /\ new # FdInvalid
           /\ fs' = ReopenRam(noOld, run, loc.ramFd)
           /\ processes' = [processes EXCEPT ![run].progmemFd = new]
           /\ loc' = data
           /\ procFile' = [procFile EXCEPT ![run] = data]
           /\ UNCHANGED <<run, turn, stale>>
  <2> DEFINE p == [processes[run] EXCEPT !.progmemFd = new]
  <2> HIDE DEF new, noOld, data
  <2>1. p \in Processes /\ p.progmemFd # FdInvalid /\ p.state # "WaitingWaitpid"
    BY <1>1, <1>2, <1>7 DEF Processes
  <2>2. processes' = [processes EXCEPT ![run] = p]
    BY <1>1, <1>7 DEF IInv, StateOK
  <2> HIDE DEF p
  <2>3. processes' \in [Pids -> Processes] /\ WaitersHaveTargets'
    BY <1>1, <2>1, <2>2, WaitersKept
  <2> QED BY <1>1, <1>5, <1>7, <2>3 DEF IInv, StateOK
<1>8. CASE Kill(run, "killed", closed, new, loc.fds, procFile[run].ramFd) /\ EndTurn
  <2>1. procFile[run].ramFd \in Fds /\ "killed" \in R0
    BY <1>1, SafeDataParts DEF IInv, StateOK, R0
  <2> HIDE DEF closed, new
  <2> QED BY <1>1, <1>2, <1>4, <1>8, <2>1, KillEndsTurn
<1>9. \/ fs' = [fs EXCEPT !.fdt = opened] /\ UNCHANGED <<processes, procFile, run, loc, turn, stale>>
      \/ /\ new # FdInvalid
         /\ fs' = ReopenRam(noOld, run, loc.ramFd)
         /\ processes' = [processes EXCEPT ![run].progmemFd = new]
         /\ loc' = data
         /\ procFile' = [procFile EXCEPT ![run] = data]
         /\ UNCHANGED <<run, turn, stale>>
      \/ Kill(run, "killed", closed, new, loc.fds, procFile[run].ramFd) /\ EndTurn
  BY DEF Exec
<1> QED BY <1>6, <1>7, <1>8, <1>9
-----------------------------------------------------------------------------
LEMMA SyscallPreserves == ASSUME IInv, ProgramPaths \subseteq Paths, Syscall PROVE IInv'
<1>1. ASSUME NEW status \in {"exit", "killed"}, Exit(status) PROVE IInv'
  BY <1>1, ExitPreserves
<1>2. ASSUME NEW pid \in Pids, KillSyscall(pid) \/ SignalSyscall(pid) PROVE IInv'
  BY <1>2, KillSyscallPreserves, SignalPreserves
<1>3. ASSUME NEW pid \in Pids, NEW timed \in BOOLEAN, WaitPid(pid, timed) PROVE IInv'
  BY <1>3, WaitPidPreserves
<1>4. ASSUME NEW path \in ProgramPaths, NEW mode \in Modes, Open(path, mode) PROVE IInv'
  BY <1>4, OpenPreserves
<1>5. ASSUME NEW l \in LocalFds, Close(l) \/ Read(l) \/ Write(l) PROVE IInv'
  BY <1>5, ClosePreserves, TransferPreserves
<1>6. ASSUME NEW f \in UserFiles, CreateFile(f) \/ DeleteFile(f) PROVE IInv'
  BY <1>6, FilesPreserve
<1>7. ASSUME NEW prog \in Programs, Exec(prog) PROVE IInv'
  BY <1>7, ExecPreserves
<1> QED BY <1>1, <1>2, <1>3, <1>4, <1>5, <1>6, <1>7,
           RegisterPreserves, GrowPreserves, PipeOpenPreserves, ForkPreserves DEF Syscall

LEMMA NextPreserves == IInv /\ [Next]_vars => IInv'
<1> SUFFICES ASSUME IInv, [Next]_vars PROVE IInv'
  OBVIOUS
<1>1. CASE Tick
  BY <1>1, TickPreserves
<1>2. CASE Syscall
  BY <1>2, SyscallPreserves, ProgramPathsAssumption
<1>3. CASE UNCHANGED vars
  BY <1>3, WaitersUnchanged DEF vars, IInv, StateOK
<1> QED BY <1>1, <1>2, <1>3 DEF Next, NotFollowed

\* The inductive invariant holds in every state of the process manager.
THEOREM Invariance == Spec => []IInv
<1> QED BY InitEstablishes, NextPreserves, PTL DEF Spec

\* Registers, descriptors, wait states, reference counts and pipe fill levels
\* stay in their ranges through every system call and tick.
THEOREM TypeCorrect == Spec => []TypeOK
<1>1. IInv => TypeOK
  BY SafeDataParts DEF IInv, StateOK, TypeOK, CountedFs, SafeDatas
<1> QED BY <1>1, Invariance, PTL

\* No process waits for a dead one: procManProcessKill wakes the waiters of its
\* target on every path that ends in it (exit, kill, a failed exec or growth).
THEOREM WaitersAreWoken == Spec => []WaitersHaveTargets
<1>1. IInv => WaitersHaveTargets
  BY DEF IInv
<1> QED BY <1>1, Invariance, PTL

\* No sequence of opens, pipes, forks and execs puts a descriptor in the last
\* entry of a local table, so the search for a free entry stays in the array.
THEOREM LastFdNeverUsed == Spec => []LastLocalFdUnused
<1>1. IInv => LastLocalFdUnused
  BY DataSafe, SafeDataParts DEF IInv, LastLocalFdUnused
<1> QED BY <1>1, Invariance, PTL
-----------------------------------------------------------------------------
(***************************************************************************)
(* Whose descriptors are whose.                                            *)
(*                                                                         *)
(* The books (above) say of each place that keeps a descriptor             *)
(* which one it is.  The counts of the table, the paths that are open and  *)
(* the files that exist agree with the books of the process manager in     *)
(* every state: they do so together or not at all, because a count is      *)
(* right only if no place is forgotten, and closing the ram fd of a        *)
(* process leaves other files alone only if it is the fd of its own file.  *)
(***************************************************************************)
BooksOf(held) ==
    /\ held \in Books
    /\ \A pid \in Pids : /\ held[Prog(pid)] = processes[pid].progmemFd
                         /\ held[Proc(pid)] = processes[pid].procFd
                         /\ held[Ram(pid)] = Data(pid).ramFd
                         /\ HasLocals(held, pid, Data(pid).fds)

BooksBalance == \E held : BooksOf(held) /\ Consistent(fs, held)

\* A process has its program and its proc file, or it has nothing at all.
LivesAgree ==
    \A pid \in Pids :
        /\ Alive(pid) <=> processes[pid].procFd # FdInvalid
        /\ Alive(pid) <=> processes[pid].state # "Unused"
        /\ ~Alive(pid) => procFile[pid].ramFd = FdInvalid /\ procFile[pid].fds = NoFds

\* The ram fd a kill reads from the file may differ from the one in the copy,
\* but it is not missing while the process has one.
RamRemembered == run # PidMax /\ Alive(run) /\ procFile[run].ramFd = FdInvalid => loc.ramFd = FdInvalid

Balanced == BooksBalance /\ PipesUsed(fs, {}) /\ LivesAgree /\ WaitedFdsAreHeld /\ RamRemembered

KInv == IInv /\ (~stale => Balanced)

\* What a step does to a process that neither runs nor is begun or ended.
LocalsKept ==
    \A pid \in Pids : Alive(pid) /\ Alive(pid)' /\ run # pid /\ run' # pid => procFile'[pid].fds = procFile[pid].fds

FdsStable ==
    \A pid \in Pids : Alive(pid) /\ Alive(pid)' /\ run # pid /\ run' # pid =>
        /\ procFile'[pid].fds = procFile[pid].fds
        /\ \A fd \in GlobalFds(procFile[pid].fds) : fs'.fdt[fd].path = fs.fdt[fd].path

\* A step that keeps the books right and every file in its place.
LEMMA StableFds ==
    ASSUME NEW held, BooksOf(held), NEW kept, BooksOf(kept)', SamePaths(fs.fdt, held, fs'.fdt, kept), LocalsKept
    PROVE  FdsStable
<1> SUFFICES ASSUME NEW pid \in Pids, Alive(pid), Alive(pid)', run # pid, run' # pid,
                    NEW fd \in GlobalFds(procFile[pid].fds)
             PROVE  fs'.fdt[fd].path = fs.fdt[fd].path
  BY DEF FdsStable, LocalsKept
<1>1. PICK l \in LocalFds : procFile[pid].fds[l] = fd /\ fd # FdInvalid
  BY DEF GlobalFds
<1>2. held[Local(pid, l)] = fd
  BY <1>1 DEF BooksOf, Data, HasLocals
<1>3. kept[Local(pid, l)] = fd
  <2>1. procFile'[pid].fds = procFile[pid].fds
    BY DEF LocalsKept
  <2>2. Data(pid)' = procFile'[pid]
    BY DEF Data
  <2> QED BY <1>1, <2>1, <2>2 DEF BooksOf, HasLocals
<1>4. Local(pid, l) \in Places \ PipePlaces
  BY NotPipes
<1> QED BY <1>1, <1>2, <1>3, <1>4 DEF SamePaths

LEMMA StepKeeps ==
    ASSUME NEW held, BooksOf(held), NEW kept, BooksOf(kept)', Consistent(fs', kept), PipesUsed(fs', {}),
           SamePaths(fs.fdt, held, fs'.fdt, kept), LocalsKept, LivesAgree', WaitedFdsAreHeld', RamRemembered'
    PROVE  Balanced' /\ FdsStable
<1>1. BooksBalance'
  BY DEF BooksBalance
<1> QED BY <1>1, StableFds DEF Balanced

\* The books are right about the process that runs.
LEMMA CallerBooks ==
    ASSUME IInv, Balanced, NEW op, Calls(op), NEW held, BooksOf(held)
    PROVE  /\ run \in Pids /\ run # PidMax /\ Alive(run) /\ ~stale
           /\ Data(run) = loc
           /\ held[Prog(run)] = processes[run].progmemFd /\ held[Prog(run)] # FdInvalid
           /\ held[Proc(run)] = processes[run].procFd /\ held[Proc(run)] # FdInvalid
           /\ held[Ram(run)] = loc.ramFd
           /\ HasLocals(held, run, loc.fds)
           /\ procFile[run].ramFd = FdInvalid => loc.ramFd = FdInvalid
<1>1. run \in Pids /\ processes[run].state = "Active"
  BY CallerFacts
<1>2. run # PidMax /\ ~stale
  BY DEF Calls
<1>3. Alive(run)
  BY <1>1 DEF Balanced, LivesAgree
<1>4. processes[run].procFd # FdInvalid /\ processes[run].progmemFd # FdInvalid
  BY <1>1, <1>3 DEF Balanced, LivesAgree, Alive
<1> QED BY <1>1, <1>2, <1>3, <1>4 DEF Data, BooksOf, Balanced, RamRemembered
-----------------------------------------------------------------------------
\* A system call that changes only the copy of the caller's ProcData.
LEMMA LocalCallKeeps ==
    ASSUME IInv, Balanced, NEW op, Calls(op), NEW held, BooksOf(held),
           UNCHANGED <<processes, procFile, run, turn, stale>>,
           NEW kept \in Books, Consistent(fs', kept), PipesUsed(fs', {}), SamePaths(fs.fdt, held, fs'.fdt, kept),
           HasLocals(kept, run, loc'.fds), kept[Ram(run)] = loc'.ramFd,
           loc.ramFd = FdInvalid => loc'.ramFd = FdInvalid,
           \A x \in Places \ PipePlaces : x # Ram(run) /\ (\A l \in LocalFds : x # Local(run, l)) => kept[x] = held[x]
    PROVE  Balanced' /\ FdsStable
<1>1. run \in Pids /\ Alive(run) /\ processes[run].state = "Active"
  BY CallerBooks, CallerFacts
<1>2. \A pid \in Pids : Alive(pid)' <=> Alive(pid)
  BY DEF Alive
<1>3. Data(run)' = loc' /\ \A pid \in Pids : pid # run => Data(pid)' = Data(pid)
  BY <1>1, <1>2 DEF Data
<1>4. BooksOf(kept)'
  <2> SUFFICES ASSUME NEW pid \in Pids
               PROVE  /\ kept[Prog(pid)] = processes'[pid].progmemFd
                      /\ kept[Proc(pid)] = processes'[pid].procFd
                      /\ kept[Ram(pid)] = Data(pid)'.ramFd
                      /\ HasLocals(kept, pid, Data(pid)'.fds)
    BY DEF BooksOf
  <2>1. kept[Prog(pid)] = held[Prog(pid)] /\ kept[Proc(pid)] = held[Proc(pid)]
    BY NotPipes, PlacesDiffer
  <2>2. CASE pid = run
    BY <1>3, <2>1, <2>2 DEF BooksOf
  <2>3. CASE pid # run
    <3>1. kept[Ram(pid)] = held[Ram(pid)] /\ \A l \in LocalFds : kept[Local(pid, l)] = held[Local(pid, l)]
      BY <2>3, NotPipes, PlacesDiffer
    <3> QED BY <1>3, <2>1, <2>3, <3>1 DEF BooksOf, HasLocals
  <2> QED BY <2>2, <2>3
<1>5. LivesAgree' /\ LocalsKept
  BY <1>2 DEF Balanced, LivesAgree, LocalsKept
<1>6. WaitedFdsAreHeld'
  <2> SUFFICES ASSUME NEW pid \in Pids, processes[pid].state \in {"WaitingRead", "WaitingWrite"}
               PROVE  processes[pid].wait.fd \in GlobalFds(Data(pid)'.fds)
    BY DEF WaitedFdsAreHeld
  <2>1. pid # run
    BY <1>1
  <2> QED BY <1>3, <2>1 DEF Balanced, WaitedFdsAreHeld, Calls
<1>7. RamRemembered'
  BY <1>1, <1>2 DEF Balanced, RamRemembered
<1> QED BY <1>4, <1>5, <1>6, <1>7, StepKeeps

\* The two ways in which it usually does: the books go on as they were, or with
\* another local table.
LEMMA LocalTableKeeps ==
    ASSUME IInv, Balanced, NEW op, Calls(op), NEW held, BooksOf(held),
           UNCHANGED <<processes, procFile, run, turn, stale>>,
           NEW kept, GoesOnWith(fs, held, run, loc'.fds, fs', kept), PipesUsed(fs', {}), loc'.ramFd = loc.ramFd
    PROVE  Balanced' /\ FdsStable
<1>1. run \in Pids /\ held[Ram(run)] = loc.ramFd
  BY CallerBooks
<1>2. kept[Ram(run)] = loc'.ramFd
  BY <1>1, NotPipes, PlacesDiffer DEF GoesOnWith
<1> QED BY <1>1, <1>2, LocalCallKeeps DEF GoesOnWith

LEMMA SameTablesKeep ==
    ASSUME IInv, Balanced, NEW op, Calls(op), NEW held, BooksOf(held),
           UNCHANGED <<processes, procFile, run, turn, stale>>,
           NEW kept, GoesOn(fs, held, {}, fs', kept), PipesUsed(fs', {}),
           loc'.ramFd = loc.ramFd, loc'.fds = loc.fds
    PROVE  Balanced' /\ FdsStable
<1>1. run \in Pids /\ HasLocals(held, run, loc.fds)
  BY CallerBooks
<1>2. \A x \in Places \ PipePlaces : kept[x] = held[x]
  BY DEF GoesOn
<1>3. HasLocals(kept, run, loc'.fds)
  BY <1>1, <1>2, NotPipes DEF HasLocals
<1>4. GoesOnWith(fs, held, run, loc'.fds, fs', kept)
  BY <1>2, <1>3 DEF GoesOn, GoesOnWith
<1> QED BY <1>4, LocalTableKeeps

LEMMA SameBooksKeep ==
    ASSUME IInv, Balanced, NEW op, Calls(op), NEW held, BooksOf(held),
           UNCHANGED <<processes, procFile, run, turn, stale>>,
           Sound(fs.fdt, held), Consistent(fs', held), PipesUsed(fs', {}), PathsKept(fs.fdt, fs'.fdt),
           loc'.ramFd = loc.ramFd, loc'.fds = loc.fds
    PROVE  Balanced' /\ FdsStable
<1>1. held \in Books
  BY DEF BooksOf
<1>2. SamePaths(fs.fdt, held, fs'.fdt, held)
  BY <1>1, SlotsGiveSamePaths DEF Consistent
<1>3. GoesOn(fs, held, {}, fs', held)
  BY <1>1, <1>2 DEF GoesOn
<1> QED BY <1>3, SameTablesKeep

\* What Consumed and the other changes of a ProcData leave alone.
LEMMA ConsumedFacts ==
    ASSUME NEW data \in SafeDatas
    PROVE  /\ Consumed(data).ramFd = data.ramFd /\ Consumed(data).fds = data.fds
           /\ \A r0 : [data EXCEPT !.r0 = r0].ramFd = data.ramFd /\ [data EXCEPT !.r0 = r0].fds = data.fds
           /\ \A h : [data EXCEPT !.handler = h].ramFd = data.ramFd /\ [data EXCEPT !.handler = h].fds = data.fds
           /\ \A fds : /\ [data EXCEPT !.r0 = "other", !.fds = fds].ramFd = data.ramFd
                       /\ [data EXCEPT !.r0 = "other", !.fds = fds].fds = fds
           /\ \A fd : [data EXCEPT !.ramFd = fd].ramFd = fd /\ [data EXCEPT !.ramFd = fd].fds = data.fds
           /\ \A fd : /\ [data EXCEPT !.handler = FALSE, !.ramFd = fd].ramFd = fd
                      /\ [data EXCEPT !.handler = FALSE, !.ramFd = fd].fds = data.fds
           /\ \A l \in LocalFds : /\ [data EXCEPT !.fds[l] = FdInvalid].ramFd = data.ramFd
                                  /\ [data EXCEPT !.fds[l] = FdInvalid].fds = [data.fds EXCEPT ![l] = FdInvalid]
BY DEF Consumed, SafeDatas, ProcDatas
-----------------------------------------------------------------------------
\* The system calls of this sort, one by one.
LEMMA NothingMoves ==
    ASSUME IInv, Balanced, NEW op, Calls(op), UNCHANGED <<fs, processes, procFile, run, turn, stale>>,
           loc'.ramFd = loc.ramFd, loc'.fds = loc.fds
    PROVE  Balanced' /\ FdsStable
<1>1. PICK held : BooksOf(held) /\ Consistent(fs, held)
  BY DEF Balanced, BooksBalance
<1>2. PathsKept(fs.fdt, fs'.fdt) /\ PipesUsed(fs', {}) /\ Sound(fs.fdt, held)
  BY <1>1 DEF PathsKept, Balanced, Consistent
<1> QED BY <1>1, <1>2, SameBooksKeep

LEMMA RegisterKeeps == ASSUME IInv, Balanced, RegisterSignalHandler PROVE Balanced' /\ FdsStable
<1>1. loc \in SafeDatas /\ Calls("signal")
  BY CallerFacts DEF RegisterSignalHandler
<1>2. loc'.ramFd = loc.ramFd /\ loc'.fds = loc.fds
  BY <1>1, ConsumedFacts DEF RegisterSignalHandler
<1> QED BY <1>1, <1>2, NothingMoves DEF RegisterSignalHandler, OnlyLoc

LEMMA OpenKeeps ==
    ASSUME IInv, Balanced, NEW path \in Paths, NEW mode \in Modes, Open(path, mode)
    PROVE  Balanced' /\ FdsStable
<1> DEFINE opened == OpenLocal(fs, loc.fds, path, mode)
<1>1. /\ loc \in SafeDatas /\ loc.fds \in LocalTables /\ loc.fds[MaxFds - 1] = FdInvalid /\ fs \in CountedFs
      /\ Calls("open")
  BY CallerFacts, SafeDataParts DEF Open
<1>2. PICK held : BooksOf(held) /\ Consistent(fs, held)
  BY DEF Balanced, BooksBalance
<1>3. held \in Books /\ HasLocals(held, run, loc.fds) /\ run \in Pids
  BY <1>1, <1>2, CallerBooks DEF BooksOf
<1>4. /\ fs' = opened.fs /\ loc' = [loc EXCEPT !.r0 = "other", !.fds = opened.fds]
      /\ UNCHANGED <<processes, procFile, run, turn, stale>>
  BY DEF Open
<1>5. PICK kept : GoesOnWith(fs, held, run, opened.fds, opened.fs, kept)
  <2> HIDE DEF opened
  <2> QED BY <1>1, <1>2, <1>3, OpenLocalGoesOn DEF opened
<1>6. PipesUsed(fs', {})
  BY <1>1, <1>2, <1>3, <1>4, OpenLocalIsConsistent DEF Balanced
<1> HIDE DEF opened
<1>7. loc'.ramFd = loc.ramFd /\ loc'.fds = opened.fds
  BY <1>1, <1>4, ConsumedFacts
<1> QED BY <1>1, <1>2, <1>4, <1>5, <1>6, <1>7, LocalTableKeeps

LEMMA CloseKeeps == ASSUME IInv, Balanced, NEW l \in LocalFds, Close(l) PROVE Balanced' /\ FdsStable
<1>1. /\ loc \in SafeDatas /\ fs \in CountedFs /\ loc.fds \in LocalTables /\ Calls("close")
      /\ UNCHANGED <<processes, procFile, run, turn, stale>>
  BY CallerFacts DEF Close
<1>2. PICK held : BooksOf(held) /\ Consistent(fs, held)
  BY DEF Balanced, BooksBalance
<1>3. held \in Books /\ HasLocals(held, run, loc.fds) /\ run \in Pids
  BY <1>1, <1>2, CallerBooks DEF BooksOf
<1>4. held[Local(run, l)] = loc.fds[l] /\ loc.fds[l] # FdInvalid /\ fs' = CloseFiles(fs, {loc.fds[l]})
  BY <1>3 DEF HasLocals, Close
<1>5. {loc.fds[l]} = {held[Local(run, m)] : m \in {l}}
  BY <1>4
<1>6. PICK kept : GoesOn(fs, held, {Local(run, m) : m \in {l}}, fs', kept)
  <2>1. {l} \in SUBSET LocalFds /\ \A m \in {l} : held[Local(run, m)] # FdInvalid
    BY <1>4
  <2> QED BY <1>1, <1>2, <1>3, <1>4, <1>5, <2>1, CloseFilesIsConsistent, ZenonT(30)
<1>7. PipesUsed(fs', {})
  <2>1. {l} \in SUBSET LocalFds /\ \A m \in {l} : held[Local(run, m)] # FdInvalid
    BY <1>4
  <2>2. PipesUsed(fs, {})
    BY DEF Balanced
  <2> QED BY <1>1, <1>2, <1>3, <1>4, <1>5, <2>1, <2>2, CloseFilesIsConsistent, ZenonT(30)
<1>8. loc'.ramFd = loc.ramFd /\ loc'.fds = [loc.fds EXCEPT ![l] = FdInvalid]
  BY <1>1, ConsumedFacts DEF Close
<1>9. \A x \in Places \ PipePlaces : kept[x] = IF x = Local(run, l) THEN FdInvalid ELSE held[x]
  <2>1. \A x : x \in {Local(run, m) : m \in {l}} <=> x = Local(run, l)
    OBVIOUS
  <2> QED BY <1>6, <2>1 DEF GoesOn
<1>10. HasLocals(kept, run, loc'.fds)
  <2> SUFFICES ASSUME NEW m \in LocalFds PROVE kept[Local(run, m)] = loc'.fds[m]
    BY DEF HasLocals
  <2>1. kept[Local(run, m)] = IF m = l THEN FdInvalid ELSE held[Local(run, m)]
    BY <1>3, <1>9, NotPipes, PlacesDiffer
  <2>2. loc'.fds[m] = IF m = l THEN FdInvalid ELSE loc.fds[m]
    BY <1>1, <1>8 DEF LocalTables
  <2> QED BY <1>3, <2>1, <2>2 DEF HasLocals
<1>11. GoesOnWith(fs, held, run, loc'.fds, fs', kept)
  BY <1>6, <1>9, <1>10 DEF GoesOn, GoesOnWith
<1> QED BY <1>1, <1>2, <1>7, <1>8, <1>11, LocalTableKeeps

\* The caller begins to wait.
LEMMA WaitKeeps ==
    ASSUME IInv, Balanced, NEW op, Calls(op), UNCHANGED <<fs, loc, procFile, run, turn, stale>>,
           NEW p, processes' = [processes EXCEPT ![run] = p], p.state # "Unused",
           p.progmemFd = processes[run].progmemFd, p.procFd = processes[run].procFd,
           p.state \in {"WaitingRead", "WaitingWrite"} => p.wait.fd \in GlobalFds(loc.fds)
    PROVE  Balanced' /\ FdsStable
<1>1. PICK held : BooksOf(held) /\ Consistent(fs, held)
  BY DEF Balanced, BooksBalance
<1>2. run \in Pids /\ Alive(run) /\ Data(run) = loc
  BY <1>1, CallerBooks
<1>3. /\ \A pid \in Pids : pid # run => processes'[pid] = processes[pid]
      /\ processes'[run] = p
  BY <1>2 DEF IInv, StateOK
<1>4. \A pid \in Pids : /\ processes'[pid].progmemFd = processes[pid].progmemFd
                        /\ processes'[pid].procFd = processes[pid].procFd
                        /\ Alive(pid)' <=> Alive(pid)
                        /\ Data(pid)' = Data(pid)
  <2> TAKE pid \in Pids
  <2>1. processes'[pid].progmemFd = processes[pid].progmemFd /\ processes'[pid].procFd = processes[pid].procFd
    BY <1>3
  <2>2. Alive(pid)' <=> Alive(pid)
    BY <2>1 DEF Alive
  <2> QED BY <2>1, <2>2 DEF Data
<1>5. BooksOf(held)' /\ Consistent(fs', held) /\ PipesUsed(fs', {})
  BY <1>1, <1>4 DEF BooksOf, Balanced
<1>6. SamePaths(fs.fdt, held, fs'.fdt, held)
  BY DEF SamePaths
<1>7. LivesAgree'
  <2> SUFFICES ASSUME NEW pid \in Pids PROVE Alive(pid) <=> processes'[pid].state # "Unused"
    BY <1>4 DEF Balanced, LivesAgree
  <2> QED BY <1>2, <1>3 DEF Balanced, LivesAgree
<1>8. WaitedFdsAreHeld'
  <2> SUFFICES ASSUME NEW pid \in Pids, processes'[pid].state \in {"WaitingRead", "WaitingWrite"}
               PROVE  processes'[pid].wait.fd \in GlobalFds(Data(pid).fds)
    BY <1>4 DEF WaitedFdsAreHeld
  <2> QED BY <1>2, <1>3 DEF Balanced, WaitedFdsAreHeld, Calls
<1>9. RamRemembered' /\ LocalsKept
  BY <1>2, <1>4 DEF Balanced, RamRemembered, LocalsKept
<1> QED BY <1>1, <1>5, <1>6, <1>7, <1>8, <1>9, StepKeeps

LEMMA WaitPidKeeps ==
    ASSUME IInv, Balanced, NEW pid \in Pids, NEW timed \in BOOLEAN, WaitPid(pid, timed)
    PROVE  Balanced' /\ FdsStable
<1>1. run \in Pids /\ processes[run] \in Processes /\ loc \in SafeDatas /\ Calls("waitpid")
  BY CallerFacts DEF WaitPid
<1>2. CASE Alive(pid)
  <2> DEFINE p == [processes[run] EXCEPT !.state = "WaitingWaitpid",
                                         !.wait = [pid |-> pid, timed |-> timed, fd |-> FdInvalid]]
  <2>1. /\ p.progmemFd = processes[run].progmemFd /\ p.procFd = processes[run].procFd
        /\ p.state = "WaitingWaitpid"
    BY <1>1 DEF Processes
  <2>2. processes' = [processes EXCEPT ![run] = p] /\ UNCHANGED <<loc, fs, procFile, run, turn, stale>>
    BY <1>1, <1>2 DEF WaitPid, IInv, StateOK
  <2> HIDE DEF p
  <2> QED BY <1>1, <2>1, <2>2, WaitKeeps
<1>3. CASE ~Alive(pid)
  <2>1. /\ loc' = [loc EXCEPT !.r0 = "noprocess"]
        /\ UNCHANGED <<fs, processes, procFile, run, turn, stale>>
    BY <1>3 DEF WaitPid
  <2>2. loc'.ramFd = loc.ramFd /\ loc'.fds = loc.fds
    BY <1>1, <2>1 DEF SafeDatas, ProcDatas
  <2> QED BY <1>1, <2>1, <2>2, NothingMoves
<1> QED BY <1>2, <1>3

LEMMA TransferKeeps ==
    ASSUME IInv, Balanced, NEW l \in LocalFds, NEW op, Calls(op), Read(l) \/ Write(l)
    PROVE  Balanced' /\ FdsStable
<1>1. /\ run \in Pids /\ processes[run] \in Processes /\ loc \in SafeDatas /\ loc.fds[l] \in Fds
      /\ fs \in CountedFs /\ UNCHANGED <<procFile, run, turn, stale>>
      /\ loc.fds[l] \in GlobalFds(loc.fds)
  BY CallerFacts DEF Read, Write, GlobalFds
<1>2. CASE UNCHANGED processes
  <2>1. PICK held : BooksOf(held) /\ Consistent(fs, held)
    BY DEF Balanced, BooksBalance
  <2>2. held \in Books /\ PipesUsed(fs, {}) /\ Sound(fs.fdt, held)
    BY <2>1 DEF BooksOf, Balanced, Consistent
  <2>3. loc' = loc \/ loc' = Consumed(loc)
    BY DEF Read, Write
  <2>4. loc'.ramFd = loc.ramFd /\ loc'.fds = loc.fds
    BY <1>1, <2>3, ConsumedFacts
  <2>5. fs' \in AfterRead(fs, loc.fds[l]) \cup AfterWrite(fs, loc.fds[l]) \/ UNCHANGED fs
    BY DEF Read, Write
  <2>6. CASE UNCHANGED fs
    BY <1>1, <1>2, <2>4, <2>6, NothingMoves
  <2>7. CASE fs' \in AfterRead(fs, loc.fds[l]) \cup AfterWrite(fs, loc.fds[l])
    <3>1. Consistent(fs', held) /\ PipesUsed(fs', {}) /\ PathsKept(fs.fdt, fs'.fdt)
      BY <1>1, <2>1, <2>2, <2>7, TransferIsConsistent
    <3> QED BY <1>1, <1>2, <2>1, <2>2, <2>4, <3>1, SameBooksKeep
  <2> QED BY <2>5, <2>6, <2>7
<1>3. CASE ~UNCHANGED processes
  <2>1. PICK state \in {"WaitingRead", "WaitingWrite"} :
          processes' = [processes EXCEPT ![run].state = state, ![run].wait.fd = loc.fds[l]]
    BY <1>3 DEF Read, Write
  <2>2. UNCHANGED <<fs, loc>>
    BY <1>3 DEF Read, Write
  <2> DEFINE p == [processes[run] EXCEPT !.state = state, !.wait.fd = loc.fds[l]]
  <2>3. /\ p.progmemFd = processes[run].progmemFd /\ p.procFd = processes[run].procFd
        /\ p.state # "Unused" /\ p.wait.fd = loc.fds[l]
    BY <1>1 DEF Processes, Waits
  <2>4. processes' = [processes EXCEPT ![run] = p]
    BY <1>1, <2>1 DEF IInv, StateOK
  <2> HIDE DEF p
  <2> QED BY <1>1, <2>2, <2>3, <2>4, WaitKeeps
<1> QED BY <1>2, <1>3

LEMMA FilesKeep ==
    ASSUME IInv, Balanced, NEW f \in UserFiles, CreateFile(f) \/ DeleteFile(f)
    PROVE  Balanced' /\ FdsStable
<1>1. /\ loc \in SafeDatas /\ fs \in CountedFs /\ loc' = Consumed(loc) /\ Calls("create")
      /\ UNCHANGED <<processes, procFile, run, turn, stale>>
  BY CallerFacts DEF CreateFile, DeleteFile
<1>2. PICK held : BooksOf(held) /\ Consistent(fs, held)
  BY DEF Balanced, BooksBalance
<1>3. held \in Books /\ PipesUsed(fs, {}) /\ Sound(fs.fdt, held)
  BY <1>2 DEF BooksOf, Balanced, Consistent
<1>4. \/ fs' = [fs EXCEPT !.files = @ \cup {UserPath(f)}]
      \/ fs' = [fs EXCEPT !.files = FileDelete(fs.fdt, @, UserPath(f))]
  BY DEF CreateFile, DeleteFile
<1>5. Consistent(fs', held) /\ PipesUsed(fs', {}) /\ PathsKept(fs.fdt, fs'.fdt)
  BY <1>1, <1>2, <1>3, <1>4, UserFileIsConsistent
<1>6. loc'.ramFd = loc.ramFd /\ loc'.fds = loc.fds
  BY <1>1, ConsumedFacts
<1> QED BY <1>1, <1>2, <1>3, <1>5, <1>6, SameBooksKeep
-----------------------------------------------------------------------------
LEMMA PipeOpenKeeps == ASSUME IInv, Balanced, PipeOpen PROVE Balanced' /\ FdsStable
<1>1. /\ loc \in SafeDatas /\ loc.fds \in LocalTables /\ loc.fds[MaxFds - 1] = FdInvalid /\ fs \in CountedFs
      /\ Calls("pipe") /\ UNCHANGED <<processes, procFile, run, turn, stale>>
  BY CallerFacts, SafeDataParts DEF PipeOpen
<1>2. PICK held : BooksOf(held) /\ Consistent(fs, held)
  BY DEF Balanced, BooksBalance
<1>3. /\ held \in Books /\ HasLocals(held, run, loc.fds) /\ run \in Pids /\ PipesUsed(fs, {})
      /\ Sound(fs.fdt, held)
  BY <1>1, <1>2, CallerBooks DEF BooksOf, Balanced, Consistent
<1>4. Consumed(loc).ramFd = loc.ramFd /\ Consumed(loc).fds = loc.fds
  BY <1>1, ConsumedFacts
<1>5. CASE loc' = Consumed(loc) /\ UNCHANGED fs
  BY <1>1, <1>4, <1>5, NothingMoves
<1>6. ASSUME NEW i \in FreePipes, NEW room,
             MountAndOpen(i, Mount([fs EXCEPT !.files = @ \cup {PipeBacking(i)}], i, room))
      PROVE  Balanced' /\ FdsStable
  <2> DEFINE mounted == Mount([fs EXCEPT !.files = @ \cup {PipeBacking(i)}], i, room)
  <2>1. i \in PipeIds /\ PipeBacking(i) \notin fs.files /\ PipeDev(i) \notin fs.files
    BY DEF FreePipes
  <2>2. /\ mounted \in CountedFs
        /\ PipeDev(i) \in mounted.files =>
             /\ \E between : GoesOn(fs, held, {}, mounted, between)
             /\ PipesUsed(mounted, {i})
        /\ PipeDev(i) \notin mounted.files =>
             /\ Consistent([mounted EXCEPT !.files = @ \ {PipeBacking(i)}], held)
             /\ PipesUsed([mounted EXCEPT !.files = @ \ {PipeBacking(i)}], {})
             /\ PathsKept(fs.fdt, [mounted EXCEPT !.files = @ \ {PipeBacking(i)}].fdt)
    BY <1>1, <1>2, <1>3, <2>1, MountIsConsistent
  <2>3. MountAndOpen(i, mounted)
    BY <1>6
  <2> HIDE DEF mounted
  <2>4. CASE PipeDev(i) \notin mounted.files
    <3>1. fs' = [mounted EXCEPT !.files = @ \ {PipeBacking(i)}] /\ loc' = Consumed(loc)
      BY <2>3, <2>4 DEF MountAndOpen
    <3> QED BY <1>1, <1>2, <1>3, <1>4, <2>2, <2>4, <3>1, SameBooksKeep
  <2>5. CASE PipeDev(i) \in mounted.files
    <3> DEFINE reader == OpenLocal(mounted, loc.fds, PipeDev(i), "RO")
               writer == OpenLocal(reader.fs, reader.fds, PipeDev(i), "WO")
               ends == GlobalFds(writer.fds) \ GlobalFds(loc.fds)
               undone == Unmount(CloseFiles(writer.fs, ends), {i})
    <3>1. IF FdInvalid \notin {reader.local, writer.local}
          THEN fs' = writer.fs /\ loc' = [loc EXCEPT !.r0 = "other", !.fds = writer.fds]
          ELSE fs' = undone /\ loc' = Consumed(loc)
      BY <2>3, <2>5 DEF MountAndOpen, OpenEnds
    <3>2. PICK between : GoesOn(fs, held, {}, mounted, between)
      BY <2>2, <2>5
    <3>3. PipesUsed(mounted, {i})
      BY <2>2, <2>5
    <3>4. /\ FdInvalid \notin {reader.local, writer.local} =>
               /\ \E kept : GoesOnWith(fs, held, run, writer.fds, writer.fs, kept)
               /\ PipesUsed(writer.fs, {})
          /\ \E kept : GoesOn(fs, held, {}, undone, kept)
          /\ PipesUsed(undone, {})
      BY <1>1, <1>2, <1>3, <2>1, <2>2, <3>2, <3>3, EndsAreConsistent
    <3> HIDE DEF reader, writer, undone
    <3>5. CASE FdInvalid \notin {reader.local, writer.local}
      <4>1. fs' = writer.fs /\ loc' = [loc EXCEPT !.r0 = "other", !.fds = writer.fds]
        BY <3>1, <3>5
      <4>2. PICK kept : GoesOnWith(fs, held, run, writer.fds, writer.fs, kept)
        BY <3>4, <3>5
      <4>3. loc'.ramFd = loc.ramFd /\ loc'.fds = writer.fds
        BY <1>1, <4>1, ConsumedFacts
      <4>4. PipesUsed(fs', {})
        BY <3>4, <3>5, <4>1
      <4>5. GoesOnWith(fs, held, run, loc'.fds, fs', kept)
        BY <4>1, <4>2, <4>3
      <4> QED BY <1>1, <1>2, <4>3, <4>4, <4>5, LocalTableKeeps
    <3>6. CASE ~(FdInvalid \notin {reader.local, writer.local})
      <4>1. fs' = undone /\ loc' = Consumed(loc)
        BY <3>1, <3>6
      <4>2. PICK kept : GoesOn(fs, held, {}, fs', kept)
        BY <3>4, <4>1
      <4>3. PipesUsed(fs', {})
        BY <3>4, <4>1
      <4> QED BY <1>1, <1>2, <1>4, <4>1, <4>2, <4>3, SameTablesKeep
    <3> QED BY <3>5, <3>6
  <2> QED BY <2>4, <2>5
<1> QED BY <1>5, <1>6 DEF PipeOpen

\* The ram file of a process is the one its ram fd is on.
LEMMA RamFdIsKept ==
    ASSUME NEW held \in Books, Sound(fs.fdt, held), NEW pid \in Pids, NEW data \in SafeDatas, OwnsRam(data, pid)
    PROVE  held[Ram(pid)] = data.ramFd /\ data.ramFd # FdInvalid
<1>1. data.ramFd \in ValidFds /\ fs.fdt[data.ramFd].path = RamPath(pid)
  BY SafeDataParts, FdFacts DEF OwnsRam
<1>2. Ram(pid) \in Places
  BY NotPipes
<1> QED BY <1>1, <1>2, Owners, OwnerKeeps, FdFacts

\* A change of place for the ram fd, in terms of the books.
LEMMA ReopenedBooks ==
    ASSUME NEW from \in CountedFs, NEW held \in Books, Consistent(from, held), PipesUsed(from, {}), NEW pid \in Pids, NEW ramFd,
           held[Ram(pid)] = ramFd, ramFd # FdInvalid, NEW new, new = ReopenRam(from, pid, ramFd)
    PROVE  LET fd == ReopenedRamFd(from, ramFd)
               kept == [held EXCEPT ![Ram(pid)] = fd]
           IN  /\ fd # FdInvalid
               /\ kept \in Books /\ Consistent(new, kept) /\ PipesUsed(new, {})
               /\ SamePaths(from.fdt, held, new.fdt, kept)
               /\ kept[Ram(pid)] = fd
               /\ \A x \in Places : x # Ram(pid) => kept[x] = held[x]
<1> DEFINE fd == ReopenedRamFd(from, ramFd)
           kept == [held EXCEPT ![Ram(pid)] = fd]
<1>1. fd # FdInvalid /\ kept \in Books /\ Consistent(new, kept) /\ PipesUsed(new, {})
  BY ReopenRamIsConsistent
<1>2. PathsKept(from.fdt, new.fdt)
  BY ReopenRamKeepsPaths
<1>3. kept[Ram(pid)] = fd /\ \A x \in Places : x # Ram(pid) => kept[x] = held[x]
  BY NotPipes DEF Books
<1> HIDE DEF kept, fd
<1>4. SamePaths(from.fdt, held, new.fdt, kept)
  BY <1>1, <1>2, SlotsGiveSamePaths DEF Consistent
<1> QED BY <1>1, <1>3, <1>4 DEF kept, fd

\* RAM grows.
LEMMA GrowthKeeps ==
    ASSUME IInv, Balanced, NEW op, Calls(op), OwnsRam(loc, run),
           fs' = ReopenRam(fs, run, loc.ramFd), loc' = GrownRam(loc),
           UNCHANGED <<processes, procFile, run, turn, stale>>
    PROVE  Balanced' /\ FdsStable
<1>1. PICK held : BooksOf(held) /\ Consistent(fs, held)
  BY DEF Balanced, BooksBalance
<1>2. /\ held \in Books /\ HasLocals(held, run, loc.fds) /\ run \in Pids /\ PipesUsed(fs, {})
      /\ loc \in SafeDatas /\ held[Ram(run)] = loc.ramFd /\ loc.ramFd # FdInvalid /\ fs \in CountedFs
  BY <1>1, CallerBooks, CallerFacts DEF BooksOf, Balanced, OwnsRam
<1> DEFINE fd == ReopenedRamFd(fs, loc.ramFd)
           kept == [held EXCEPT ![Ram(run)] = fd]
<1>3. /\ kept \in Books /\ Consistent(fs', kept) /\ PipesUsed(fs', {})
      /\ SamePaths(fs.fdt, held, fs'.fdt, kept)
      /\ kept[Ram(run)] = fd
      /\ \A x \in Places : x # Ram(run) => kept[x] = held[x]
  BY <1>1, <1>2, ReopenedBooks
<1>4. loc'.ramFd = fd /\ loc'.fds = loc.fds
  BY <1>2, ConsumedFacts DEF GrownRam
<1> HIDE DEF kept, fd
<1>5. HasLocals(kept, run, loc'.fds)
  BY <1>2, <1>3, <1>4, NotPipes, PlacesDiffer DEF HasLocals
<1> QED BY <1>1, <1>2, <1>3, <1>4, <1>5, LocalCallKeeps

\* A fork that fails, and an exec that finds no free slot.
LEMMA ForkFailsKeeps ==
    ASSUME IInv, Balanced, Calls("fork"), NEW child \in UnusedPids, ForkFails(child), UNCHANGED <<run, turn, stale>>
    PROVE  Balanced' /\ FdsStable
<1>1. PICK held : BooksOf(held) /\ Consistent(fs, held)
  BY DEF Balanced, BooksBalance
<1>2. child \in Pids /\ ~Alive(child) /\ processes[child].procFd = FdInvalid /\ Data(child).ramFd = FdInvalid
  <2>1. child \in Pids /\ ~Alive(child)
    BY DEF UnusedPids, Balanced, LivesAgree
  <2> QED BY <2>1 DEF Balanced, LivesAgree, Data
<1>3. /\ held \in Books /\ PipesUsed(fs, {}) /\ held[Proc(child)] = FdInvalid /\ held[Ram(child)] = FdInvalid
      /\ fs \in CountedFs /\ loc \in SafeDatas /\ Sound(fs.fdt, held)
  BY <1>1, <1>2, CallerFacts DEF BooksOf, Balanced, Consistent
<1>4. Consistent(fs', held) /\ PipesUsed(fs', {}) /\ PathsKept(fs.fdt, fs'.fdt)
  <2>1. fs' = UndoFork(fs, child)
    BY DEF ForkFails
  <2> QED BY <1>1, <1>2, <1>3, <2>1, UndoForkIsConsistent
<1>5. loc'.ramFd = loc.ramFd /\ loc'.fds = loc.fds
  BY <1>3, ConsumedFacts DEF ForkFails
<1> QED BY <1>1, <1>3, <1>4, <1>5, SameBooksKeep DEF ForkFails

LEMMA NoSlotKeeps ==
    ASSUME IInv, Balanced, NEW op, Calls(op), NEW path, NEW mode,
           NewFd(fs.fdt) = FdInvalid, fs' = [fs EXCEPT !.fdt = FileOpen(fs.fdt, path, mode)],
           UNCHANGED <<processes, procFile, run, loc, turn, stale>>
    PROVE  Balanced' /\ FdsStable
<1>1. PICK held : BooksOf(held) /\ Consistent(fs, held)
  BY DEF Balanced, BooksBalance
<1>2. held \in Books /\ PipesUsed(fs, {}) /\ fs \in CountedFs /\ Sound(fs.fdt, held)
  BY <1>1, CallerFacts DEF BooksOf, Balanced, Consistent
<1>3. /\ \A fd \in ValidFds : fs'.fdt[fd] = fs.fdt[fd]
      /\ fs'.files = fs.files /\ fs'.pipes = fs.pipes
  <2> DEFINE t == FileOpen(fs.fdt, path, mode)
  <2>1. \A fd \in ValidFds : t[fd] = fs.fdt[fd]
    BY <1>2, NewFdIsFree, FsParts
  <2> HIDE DEF t
  <2>2. fs'.fdt = t /\ fs'.files = fs.files /\ fs'.pipes = fs.pipes
    BY <1>2, FsFields DEF t
  <2> QED BY <2>1, <2>2
<1>4. Consistent(fs', held) /\ PipesUsed(fs', {}) /\ PathsKept(fs.fdt, fs'.fdt)
  BY <1>1, <1>2, <1>3, SameIsConsistent
<1> QED BY <1>1, <1>2, <1>4, SameBooksKeep
-----------------------------------------------------------------------------
\* What procManProcessKill does to the files of its target, when the ram fd it
\* reads from the ProcData file is the one of the ram file.
LEMMA KillEmpties ==
    ASSUME IInv, ~stale', NEW pid \in Pids, NEW status, NEW from \in CountedFs,
           NEW held \in Books, Consistent(from, held), PipesUsed(from, {}),
           NEW fds \in LocalTables, HasLocals(held, pid, fds), NEW ramFd \in Fds,
           NEW progmemFd, held[Prog(pid)] = progmemFd, progmemFd # FdInvalid,
           held[Proc(pid)] = processes[pid].procFd, processes[pid].procFd # FdInvalid,
           ramFd = FdInvalid => held[Ram(pid)] = FdInvalid,
           Kill(pid, status, from, progmemFd, fds, ramFd)
    PROVE  (\E kept : GoesOn(from, held, PlacesOf(pid), fs', kept)) /\ PipesUsed(fs', {})
<1> DEFINE closed == CloseFiles(from, GlobalFds(fds))
           noProg == FileClose(closed.fdt, held[Prog(pid)])
           noRam == IF ramFd = FdInvalid THEN noProg ELSE FileClose(noProg, ramFd)
           noProc == FileClose(noRam, held[Proc(pid)])
           path == IF ramFd = FdInvalid THEN NoPath ELSE RamPath(pid)
           new == [closed EXCEPT !.fdt = noProc,
                     !.files = FileDelete(noProc, FileDelete(noRam, @, path), noRam[held[Proc(pid)]].path)]
<1>1. ramFd # FdInvalid => noProg[ramFd].path = RamPath(pid)
  BY DEF Kill
<1>2. RamPath(pid) # NoPath
  BY Owners, OwnedAreExclusive
<1>3. fs' = new
  <2>1. PICK p \in (IF ramFd = FdInvalid THEN {NoPath}
                    ELSE IF InUse(noProg, ramFd) THEN {noProg[ramFd].path} ELSE closed.files \cup {NoPath}) :
          fs' = [closed EXCEPT !.fdt = noProc,
                   !.files = FileDelete(noProc, FileDelete(noRam, @, p), noRam[held[Proc(pid)]].path)]
    BY DEF Kill
  <2> HIDE DEF closed, noProg, noRam, noProc
  <2>2. p = path
    BY <1>1, <1>2, <2>1 DEF InUse
  <2> QED BY <2>1, <2>2
<1>4. held[Prog(pid)] # FdInvalid /\ held[Proc(pid)] # FdInvalid
  OBVIOUS
<1>5. /\ \E kept : GoesOn(from, held, PlacesOf(pid), new, kept)
      /\ \A J : PipesUsed(from, J) => PipesUsed(new, J)
  <2>1. new = AfterDeath(closed, held[Prog(pid)], held[Proc(pid)], ramFd, pid)
    BY DEF AfterDeath
  <2> HIDE DEF new
  <2> QED BY <1>1, <1>4, <2>1, DeathIsConsistent
<1> HIDE DEF new
<1> QED BY <1>3, <1>5

\* What it does to the tables of the process manager.
LEMMA KillTables ==
    ASSUME IInv, NEW pid \in Pids, NEW status, NEW from, NEW progmemFd, NEW fds, NEW ramFd,
           Kill(pid, status, from, progmemFd, fds, ramFd)
    PROVE  /\ processes'[pid] = UnusedProcess /\ procFile'[pid] = BlankData
           /\ \A q \in Pids : q # pid =>
                /\ processes'[q].progmemFd = processes[q].progmemFd /\ processes'[q].procFd = processes[q].procFd
                /\ processes'[q].state # "Unused" <=> processes[q].state # "Unused"
                /\ processes'[q].state \in {"WaitingRead", "WaitingWrite"} => processes'[q] = processes[q]
                /\ procFile'[q].ramFd = procFile[q].ramFd /\ procFile'[q].fds = procFile[q].fds
<1> DEFINE Waiter(q) == q # pid /\ WaitsFor(q, pid)
<1>1. processes' = [q \in Pids |->
         IF q = pid THEN UnusedProcess
         ELSE IF Waiter(q) THEN [processes[q] EXCEPT !.state = "Active", !.wait = NoWait]
         ELSE processes[q]]
  BY DEF Kill
<1>2. procFile' = [q \in Pids |->
         IF q = pid THEN BlankData
         ELSE IF Waiter(q) THEN [procFile[q] EXCEPT !.r0 = status]
         ELSE procFile[q]]
  BY DEF Kill
<1>3. processes'[pid] = UnusedProcess /\ procFile'[pid] = BlankData
  BY <1>1, <1>2
<1>4. ASSUME NEW q \in Pids, q # pid
      PROVE  /\ processes'[q].progmemFd = processes[q].progmemFd /\ processes'[q].procFd = processes[q].procFd
             /\ processes'[q].state # "Unused" <=> processes[q].state # "Unused"
             /\ processes'[q].state \in {"WaitingRead", "WaitingWrite"} => processes'[q] = processes[q]
             /\ procFile'[q].ramFd = procFile[q].ramFd /\ procFile'[q].fds = procFile[q].fds
  <2>1. processes[q] \in Processes /\ procFile[q] \in SafeDatas
    BY DEF IInv, StateOK
  <2>2. CASE Waiter(q)
    <3>1. /\ processes'[q] = [processes[q] EXCEPT !.state = "Active", !.wait = NoWait]
          /\ procFile'[q] = [procFile[q] EXCEPT !.r0 = status]
      BY <1>1, <1>2, <1>4, <2>2
    <3>2. processes[q].state = "WaitingWaitpid"
      BY <2>2 DEF WaitsFor
    <3> QED BY <2>1, <3>1, <3>2 DEF Processes, SafeDatas, ProcDatas
  <2>3. CASE ~Waiter(q)
    BY <1>1, <1>2, <1>4, <2>3
  <2> QED BY <2>2, <2>3
<1> QED BY <1>3, <1>4

\* A death leaves the books right, whether it ends the tick or not.
LEMMA DeathKeeps ==
    ASSUME IInv, Balanced, NEW pid \in Pids, NEW held, BooksOf(held),
           NEW kept \in Books, Consistent(fs', kept), SamePaths(fs.fdt, held, fs'.fdt, kept), PipesUsed(fs', {}),
           \A x \in Places \ PipePlaces : kept[x] = IF x \in PlacesOf(pid) THEN FdInvalid ELSE held[x],
           NEW status, NEW from, NEW progmemFd, NEW fds, NEW ramFd,
           Kill(pid, status, from, progmemFd, fds, ramFd),
           (run = pid /\ run' = PidMax) \/ UNCHANGED <<run, loc>>
    PROVE  Balanced' /\ FdsStable
<1>1. /\ processes'[pid] = UnusedProcess /\ procFile'[pid] = BlankData
      /\ \A q \in Pids : q # pid =>
           /\ processes'[q].progmemFd = processes[q].progmemFd /\ processes'[q].procFd = processes[q].procFd
           /\ processes'[q].state # "Unused" <=> processes[q].state # "Unused"
           /\ processes'[q].state \in {"WaitingRead", "WaitingWrite"} => processes'[q] = processes[q]
           /\ procFile'[q].ramFd = procFile[q].ramFd /\ procFile'[q].fds = procFile[q].fds
  BY KillTables
<1>2. PidMax \notin Pids
  BY SizesAssumption DEF Pids
<1>3. ~Alive(pid)' /\ \A q \in Pids : q # pid => (Alive(q)' <=> Alive(q))
  BY <1>1 DEF Alive, UnusedProcess
<1>4. Data(pid)' = BlankData
  BY <1>1, <1>3 DEF Data
<1>5. \A q \in Pids : q # pid => Data(q)'.ramFd = Data(q).ramFd /\ Data(q)'.fds = Data(q).fds
  BY <1>1, <1>2, <1>3 DEF Data
<1>6. BooksOf(kept)'
  <2> SUFFICES ASSUME NEW q \in Pids
               PROVE  /\ kept[Prog(q)] = processes'[q].progmemFd
                      /\ kept[Proc(q)] = processes'[q].procFd
                      /\ kept[Ram(q)] = Data(q)'.ramFd
                      /\ HasLocals(kept, q, Data(q)'.fds)
    BY DEF BooksOf
  <2>1. CASE q = pid
    <3>1. kept[Prog(q)] = FdInvalid /\ kept[Proc(q)] = FdInvalid /\ kept[Ram(q)] = FdInvalid
      BY <2>1, NotPipes DEF PlacesOf
    <3>2. \A l \in LocalFds : kept[Local(q, l)] = FdInvalid
      BY <2>1, NotPipes DEF PlacesOf
    <3> QED BY <1>1, <1>4, <2>1, <3>1, <3>2 DEF UnusedProcess, BlankData, NoFds, HasLocals
  <2>2. CASE q # pid
    <3>1. Prog(q) \notin PlacesOf(pid) /\ Proc(q) \notin PlacesOf(pid) /\ Ram(q) \notin PlacesOf(pid)
      BY <2>2, PlacesDiffer DEF PlacesOf
    <3>2. \A l \in LocalFds : Local(q, l) \notin PlacesOf(pid)
      BY <2>2, PlacesDiffer DEF PlacesOf
    <3>3. kept[Prog(q)] = held[Prog(q)] /\ kept[Proc(q)] = held[Proc(q)] /\ kept[Ram(q)] = held[Ram(q)]
      BY <3>1, NotPipes
    <3>4. \A l \in LocalFds : kept[Local(q, l)] = held[Local(q, l)]
      BY <3>2, NotPipes
    <3> QED BY <1>1, <1>5, <2>2, <3>3, <3>4 DEF BooksOf, HasLocals
  <2> QED BY <2>1, <2>2
<1>7. LivesAgree'
  <2> SUFFICES ASSUME NEW q \in Pids
               PROVE  /\ Alive(q)' <=> processes'[q].procFd # FdInvalid
                      /\ Alive(q)' <=> processes'[q].state # "Unused"
                      /\ ~Alive(q)' => procFile'[q].ramFd = FdInvalid /\ procFile'[q].fds = NoFds
    BY DEF LivesAgree
  <2>1. CASE q = pid
    BY <1>1, <1>3, <2>1 DEF UnusedProcess, BlankData
  <2>2. CASE q # pid
    BY <1>1, <1>3, <2>2 DEF Balanced, LivesAgree
  <2> QED BY <2>1, <2>2
<1>8. WaitedFdsAreHeld'
  <2> SUFFICES ASSUME ~stale', NEW q \in Pids, processes'[q].state \in {"WaitingRead", "WaitingWrite"}
               PROVE  processes'[q].wait.fd \in GlobalFds(Data(q)'.fds)
    BY DEF WaitedFdsAreHeld
  <2>1. q # pid
    BY <1>1 DEF UnusedProcess
  <2>2. processes'[q] = processes[q] /\ Data(q)'.fds = Data(q).fds
    BY <1>1, <1>5, <2>1
  <2>3. ~stale
    BY DEF Kill
  <2> QED BY <2>2, <2>3 DEF Balanced, WaitedFdsAreHeld
<1>9. RamRemembered'
  <2>1. CASE run' = PidMax
    BY <2>1 DEF RamRemembered
  <2>2. CASE run' # PidMax
    <3>1. UNCHANGED <<run, loc>> /\ run \in Pids
      BY <2>2 DEF IInv, StateOK
    <3>2. CASE run = pid
      BY <1>3, <3>1, <3>2 DEF RamRemembered
    <3>3. CASE run # pid
      BY <1>1, <1>3, <2>2, <3>1, <3>3 DEF RamRemembered, Balanced
    <3> QED BY <3>2, <3>3
  <2> QED BY <2>1, <2>2
<1>10. LocalsKept
  BY <1>1, <1>3 DEF LocalsKept
<1> QED BY <1>6, <1>7, <1>8, <1>9, <1>10, StepKeeps

\* A process dies of a system call: its own or, by kill, another's.
LEMMA KillKeeps ==
    ASSUME IInv, Balanced, ~stale', NEW pid \in Pids, Alive(pid), NEW status,
           Kill(pid, status, fs, processes[pid].progmemFd, Data(pid).fds, procFile[pid].ramFd),
           (run = pid /\ run' = PidMax) \/ UNCHANGED <<run, loc>>
    PROVE  Balanced' /\ FdsStable
<1>1. PICK held : BooksOf(held) /\ Consistent(fs, held)
  BY DEF Balanced, BooksBalance
<1>2. held \in Books /\ fs \in CountedFs /\ PipesUsed(fs, {}) /\ Data(pid) \in SafeDatas /\ procFile[pid] \in SafeDatas
  BY <1>1, DataSafe DEF BooksOf, Balanced, IInv, StateOK
<1>3. /\ held[Prog(pid)] = processes[pid].progmemFd /\ processes[pid].progmemFd # FdInvalid
      /\ held[Proc(pid)] = processes[pid].procFd /\ processes[pid].procFd # FdInvalid
      /\ HasLocals(held, pid, Data(pid).fds)
  BY <1>1 DEF BooksOf, Balanced, LivesAgree, Alive
<1>4. procFile[pid].ramFd \in Fds /\ Data(pid).fds \in LocalTables
  BY <1>2, SafeDataParts
<1>5. procFile[pid].ramFd = FdInvalid => held[Ram(pid)] = FdInvalid
  <2>1. held[Ram(pid)] = Data(pid).ramFd
    BY <1>1 DEF BooksOf
  <2>2. CASE run = pid
    BY <2>1, <2>2, SizesAssumption DEF Balanced, RamRemembered, Data, Pids
  <2>3. CASE run # pid
    BY <2>1, <2>3 DEF Data
  <2> QED BY <2>2, <2>3
<1>6. (\E kept : GoesOn(fs, held, PlacesOf(pid), fs', kept)) /\ PipesUsed(fs', {})
  BY <1>1, <1>2, <1>3, <1>4, <1>5, KillEmpties
<1>7. PICK kept : GoesOn(fs, held, PlacesOf(pid), fs', kept)
  BY <1>6
<1> QED BY <1>1, <1>6, <1>7, DeathKeeps DEF GoesOn

LEMMA ExitKeeps ==
    ASSUME IInv, Balanced, ~stale', NEW status \in {"exit", "killed"}, Exit(status)
    PROVE  Balanced' /\ FdsStable
<1>1. Calls(status)
  BY DEF Exit
<1>2. run \in Pids /\ Alive(run) /\ Data(run) = loc
  BY <1>1, CallerBooks DEF Balanced, BooksBalance
<1>3. Kill(run, status, fs, processes[run].progmemFd, Data(run).fds, procFile[run].ramFd) /\ run' = PidMax
  BY <1>2 DEF Exit, EndTurn
<1> QED BY <1>2, <1>3, KillKeeps

LEMMA KillSyscallKeeps ==
    ASSUME IInv, Balanced, ~stale', NEW pid \in Pids, KillSyscall(pid)
    PROVE  Balanced' /\ FdsStable
<1>1. CASE Alive(pid)
  BY <1>1, KillKeeps DEF KillSyscall
<1>2. CASE ~Alive(pid)
  BY <1>2, NothingMoves DEF KillSyscall
<1> QED BY <1>1, <1>2
-----------------------------------------------------------------------------
\* The ram file of a process is closed and deleted.
LEMMA WithoutRamBooks ==
    ASSUME IInv, NEW held \in Books, Consistent(fs, held), PipesUsed(fs, {}), NEW pid \in Pids,
           NEW data \in SafeDatas, OwnsRam(data, pid)
    PROVE  LET kept == [held EXCEPT ![Ram(pid)] = FdInvalid]
           IN  /\ WithoutRam(pid, data) \in CountedFs
               /\ kept \in Books /\ Consistent(WithoutRam(pid, data), kept) /\ PipesUsed(WithoutRam(pid, data), {})
               /\ PathsKept(fs.fdt, WithoutRam(pid, data).fdt)
               /\ kept[Ram(pid)] = FdInvalid
               /\ \A x \in Places : x # Ram(pid) => kept[x] = held[x]
<1> DEFINE kept == [held EXCEPT ![Ram(pid)] = FdInvalid]
           new == WithoutRam(pid, data)
           closed == FileClose(fs.fdt, data.ramFd)
           files == fs.files \ {RamPath(pid)}
           mid == [fdt |-> closed, files |-> files, pipes |-> fs.pipes]
<1>1. fs \in CountedFs /\ new \in CountedFs /\ Sound(fs.fdt, held)
  BY WithoutRamType DEF IInv, StateOK, Consistent
<1>2. held[Ram(pid)] = data.ramFd /\ data.ramFd # FdInvalid /\ data.ramFd \in Fds
  BY <1>1, RamFdIsKept, SafeDataParts
<1>3. /\ Ram(pid) \in Places \ PipePlaces /\ RamPath(pid) \in OwnedPaths /\ Rightful(Ram(pid)) = {RamPath(pid)}
  BY NotPipes, Owners
<1>4. mid \in CountedFs /\ mid.fdt = closed /\ mid.files = files /\ mid.pipes = fs.pipes
  <2>1. closed \in CountedTables /\ files \in SUBSET Paths
    BY <1>1, <1>2, FsParts, FileCloseCounted
  <2> HIDE DEF closed, files
  <2> QED BY <1>1, <2>1, FsParts, FsBuilt
<1>5. closed = FileClose(fs.fdt, held[Ram(pid)])
  BY <1>2
<1>6. kept[Ram(pid)] = FdInvalid /\ \A x \in Places : x # Ram(pid) => kept[x] = held[x]
  BY <1>3 DEF Books
<1> HIDE DEF mid
<1>7. /\ kept \in Books /\ Consistent(mid, kept) /\ PipesUsed(mid, {})
      /\ PathsKept(fs.fdt, mid.fdt) /\ ~FileIsOpen(mid.fdt, RamPath(pid))
  <2>1. mid.fdt = FileClose(fs.fdt, held[Ram(pid)]) /\ held[Ram(pid)] # FdInvalid
        /\ mid.files = fs.files \ {RamPath(pid)}
    BY <1>2, <1>4, <1>5
  <2> HIDE DEF closed, files
  <2> QED BY <1>1, <1>3, <1>4, <2>1, CloseOwned
<1>8. new = mid
  <2>1. new = [fs EXCEPT !.fdt = closed, !.files = FileDelete(closed, fs.files, RamPath(pid))]
    BY <1>1 DEF WithoutRam, CountedFs, FileSystems
  <2>2. FileDelete(closed, fs.files, RamPath(pid)) = files
    BY <1>4, <1>7 DEF FileDelete
  <2> HIDE DEF closed, files, new
  <2> QED BY <1>1, <2>1, <2>2 DEF mid, CountedFs, FileSystems
<1> QED BY <1>1, <1>6, <1>7, <1>8

LEMMA GrowKeeps == ASSUME IInv, Balanced, ~stale', WriteBeyondRam PROVE Balanced' /\ FdsStable
<1>1. Calls("grow") /\ OwnsRam(loc, run)
  BY DEF WriteBeyondRam, LosesRam
<1>2. CASE /\ fs' = ReopenRam(fs, run, loc.ramFd)
           /\ loc' = GrownRam(loc)
           /\ UNCHANGED <<processes, procFile, run, turn, stale>>
  BY <1>1, <1>2, GrowthKeeps
<1>3. CASE /\ Kill(run, "killed", WithoutRam(run, loc), processes[run].progmemFd, loc.fds, FdInvalid)
           /\ EndTurn
  <2> DEFINE from == WithoutRam(run, loc)
  <2>1. PICK held : BooksOf(held) /\ Consistent(fs, held)
    BY DEF Balanced, BooksBalance
  <2> DEFINE mid == [held EXCEPT ![Ram(run)] = FdInvalid]
  <2>2. /\ held \in Books /\ run \in Pids /\ PipesUsed(fs, {}) /\ loc \in SafeDatas /\ loc.fds \in LocalTables
        /\ held[Prog(run)] = processes[run].progmemFd /\ held[Prog(run)] # FdInvalid
        /\ held[Proc(run)] = processes[run].procFd /\ held[Proc(run)] # FdInvalid
        /\ HasLocals(held, run, loc.fds) /\ Sound(fs.fdt, held)
    BY <1>1, <2>1, CallerBooks, CallerFacts DEF BooksOf, Balanced, Consistent
  <2>3. /\ from \in CountedFs
        /\ mid \in Books /\ Consistent(from, mid) /\ PipesUsed(from, {})
        /\ PathsKept(fs.fdt, from.fdt)
        /\ mid[Ram(run)] = FdInvalid
        /\ \A x \in Places : x # Ram(run) => mid[x] = held[x]
    BY <1>1, <2>1, <2>2, WithoutRamBooks
  <2> HIDE DEF from, mid
  <2>4. /\ mid[Prog(run)] = processes[run].progmemFd /\ processes[run].progmemFd # FdInvalid
        /\ mid[Proc(run)] = processes[run].procFd /\ processes[run].procFd # FdInvalid
        /\ HasLocals(mid, run, loc.fds)
    BY <2>2, <2>3, NotPipes, PlacesDiffer DEF HasLocals
  <2>5. Kill(run, "killed", from, processes[run].progmemFd, loc.fds, FdInvalid)
    BY <1>3 DEF from
  <2>6. (\E kept : GoesOn(from, mid, PlacesOf(run), fs', kept)) /\ PipesUsed(fs', {})
    BY <2>2, <2>3, <2>4, <2>5, KillEmpties, FdInvalidType
  <2>7. PICK kept : GoesOn(from, mid, PlacesOf(run), fs', kept)
    BY <2>6
  <2>8. \A x \in Places \ PipePlaces : kept[x] = IF x \in PlacesOf(run) THEN FdInvalid ELSE held[x]
    <3>1. Ram(run) \in PlacesOf(run)
      BY DEF PlacesOf
    <3> QED BY <2>3, <2>7, <3>1 DEF GoesOn
  <2>9. SamePaths(fs.fdt, held, fs'.fdt, kept)
    <3>1. SamePaths(fs.fdt, held, from.fdt, mid)
      BY <2>2, <2>3, SlotsGiveSamePaths DEF Consistent
    <3> SUFFICES ASSUME NEW x \in Places \ PipePlaces, kept[x] # FdInvalid, kept[x] = held[x]
                 PROVE  fs'.fdt[kept[x]].path = fs.fdt[held[x]].path
      BY DEF SamePaths
    <3>2. kept[x] = mid[x]
      BY <2>7 DEF GoesOn
    <3> QED BY <2>7, <3>1, <3>2 DEF GoesOn, SamePaths
  <2>10. run' = PidMax
    BY <1>3 DEF EndTurn
  <2> QED BY <2>1, <2>2, <2>5, <2>6, <2>7, <2>8, <2>9, <2>10, DeathKeeps DEF GoesOn
<1> QED BY <1>1, <1>2, <1>3 DEF WriteBeyondRam
-----------------------------------------------------------------------------
\* What procManProcessSendSignal stores; when it is for the process that runs,
\* the ram fd it stores is the one in the copy, or it would be stale.
LEMMA StoreKeeps ==
    ASSUME IInv, Balanced, ~stale', NEW pid \in Pids, Alive(pid), NEW held, BooksOf(held), NEW newData,
           procFile' = [procFile EXCEPT ![pid] = newData], newData.fds = procFile[pid].fds,
           processes' = [processes EXCEPT ![pid].state = "Active", ![pid].wait = NoWait],
           pid = run => newData.ramFd = loc.ramFd,
           UNCHANGED <<run, loc, turn, stale>>,
           NEW kept \in Books, Consistent(fs', kept), PipesUsed(fs', {}), SamePaths(fs.fdt, held, fs'.fdt, kept),
           kept[Ram(pid)] = newData.ramFd, \A x \in Places \ PipePlaces : x # Ram(pid) => kept[x] = held[x]
    PROVE  Balanced' /\ FdsStable
<1>1. procFile[pid] \in SafeDatas /\ processes[pid] \in Processes
  BY DEF IInv, StateOK
<1>2. /\ \A q \in Pids : q # pid => processes'[q] = processes[q] /\ procFile'[q] = procFile[q]
      /\ processes'[pid] = [processes[pid] EXCEPT !.state = "Active", !.wait = NoWait]
      /\ procFile'[pid] = newData
  BY DEF IInv, StateOK
<1>3. /\ processes'[pid].progmemFd = processes[pid].progmemFd /\ processes'[pid].procFd = processes[pid].procFd
      /\ processes'[pid].state = "Active"
  <2>1. processes'[pid] = [processes[pid] EXCEPT !.state = "Active", !.wait = NoWait]
    BY <1>2
  <2> DEFINE p == [processes[pid] EXCEPT !.state = "Active", !.wait = NoWait]
  <2>2. p.progmemFd = processes[pid].progmemFd /\ p.procFd = processes[pid].procFd /\ p.state = "Active"
    BY <1>1 DEF Processes
  <2>3. processes'[pid] = p
    BY <2>1
  <2> HIDE DEF p
  <2> QED BY <2>2, <2>3
<1>4. \A q \in Pids : Alive(q)' <=> Alive(q)
  BY <1>2, <1>3 DEF Alive
<1>5. /\ \A q \in Pids : q # pid => Data(q)' = Data(q)
      /\ Data(pid)'.fds = Data(pid).fds
      /\ Data(pid)'.ramFd = newData.ramFd
  BY <1>2, <1>4 DEF Data
<1>6. BooksOf(kept)'
  <2> SUFFICES ASSUME NEW q \in Pids
               PROVE  /\ kept[Prog(q)] = processes'[q].progmemFd
                      /\ kept[Proc(q)] = processes'[q].procFd
                      /\ kept[Ram(q)] = Data(q)'.ramFd
                      /\ HasLocals(kept, q, Data(q)'.fds)
    BY DEF BooksOf
  <2>1. kept[Prog(q)] = held[Prog(q)] /\ kept[Proc(q)] = held[Proc(q)]
    BY NotPipes, PlacesDiffer
  <2>2. \A l \in LocalFds : kept[Local(q, l)] = held[Local(q, l)]
    BY NotPipes, PlacesDiffer
  <2>3. HasLocals(kept, q, Data(q)'.fds)
    BY <1>5, <2>2 DEF BooksOf, HasLocals
  <2>4. CASE q = pid
    BY <1>3, <1>5, <2>1, <2>3, <2>4 DEF BooksOf
  <2>5. CASE q # pid
    <3>1. kept[Ram(q)] = held[Ram(q)]
      BY <2>5, NotPipes, PlacesDiffer
    <3> QED BY <1>2, <1>5, <2>1, <2>3, <2>5, <3>1 DEF BooksOf
  <2> QED BY <2>4, <2>5
<1>7. LivesAgree'
  <2> SUFFICES ASSUME NEW q \in Pids
               PROVE  /\ Alive(q)' <=> processes'[q].procFd # FdInvalid
                      /\ Alive(q)' <=> processes'[q].state # "Unused"
                      /\ ~Alive(q)' => procFile'[q].ramFd = FdInvalid /\ procFile'[q].fds = NoFds
    BY DEF LivesAgree
  <2>1. CASE q = pid
    BY <1>3, <1>4, <2>1 DEF Balanced, LivesAgree
  <2>2. CASE q # pid
    BY <1>2, <1>4, <2>2 DEF Balanced, LivesAgree
  <2> QED BY <2>1, <2>2
<1>8. WaitedFdsAreHeld'
  <2> SUFFICES ASSUME NEW q \in Pids, processes'[q].state \in {"WaitingRead", "WaitingWrite"}
               PROVE  processes'[q].wait.fd \in GlobalFds(Data(q)'.fds)
    BY DEF WaitedFdsAreHeld
  <2>1. q # pid
    BY <1>3
  <2> QED BY <1>2, <1>5, <2>1 DEF Balanced, WaitedFdsAreHeld
<1>9. RamRemembered'
  <2> SUFFICES ASSUME run # PidMax, Alive(run)', procFile'[run].ramFd = FdInvalid PROVE loc.ramFd = FdInvalid
    BY DEF RamRemembered
  <2>1. run \in Pids
    BY DEF IInv, StateOK
  <2>2. CASE run = pid
    BY <1>2, <2>2
  <2>3. CASE run # pid
    BY <1>2, <1>4, <2>1, <2>3 DEF Balanced, RamRemembered
  <2> QED BY <2>2, <2>3
<1>10. LocalsKept
  BY <1>2 DEF LocalsKept
<1> QED BY <1>6, <1>7, <1>8, <1>9, <1>10, StepKeeps

LEMMA SignalKeeps ==
    ASSUME IInv, Balanced, ~stale', NEW pid \in Pids, SignalSyscall(pid)
    PROVE  Balanced' /\ FdsStable
<1> DEFINE data == Interrupted(procFile[pid], processes[pid].state)
           Store(newFs, newData) ==
              /\ fs' = newFs
              /\ procFile' = [procFile EXCEPT ![pid] = newData]
              /\ processes' = [processes EXCEPT ![pid].state = "Active", ![pid].wait = NoWait]
              /\ stale' = (stale \/ (pid = run /\ newData.ramFd # loc.ramFd))
              /\ UNCHANGED <<run, loc, turn>>
<1>1. /\ procFile[pid] \in SafeDatas /\ processes[pid] \in Processes /\ fs \in CountedFs /\ Alive(pid)
      /\ Calls("signal") /\ ~stale
  BY DEF IInv, StateOK, SignalSyscall, Calls
<1>2. data \in SafeDatas /\ data.ramFd = procFile[pid].ramFd /\ data.fds = procFile[pid].fds
  <2>1. data = procFile[pid] \/ (\E r0 \in {"interrupted", "other"} : data = [procFile[pid] EXCEPT !.r0 = r0])
    BY DEF Interrupted
  <2>2. data \in SafeDatas
    BY <1>1, SafeDataChanges DEF Interrupted, R0
  <2> QED BY <1>1, <2>1, <2>2 DEF SafeDatas, ProcDatas
<1>3. PICK held : BooksOf(held) /\ Consistent(fs, held)
  BY DEF Balanced, BooksBalance
<1>4. held \in Books /\ PipesUsed(fs, {}) /\ Sound(fs.fdt, held) /\ held[Ram(pid)] = Data(pid).ramFd
  BY <1>3 DEF BooksOf, Balanced, Consistent
<1>5. pid # run => Data(pid) = procFile[pid]
  BY DEF Data
<1>6. pid = run => Data(pid) = loc
  BY <1>1 DEF Data
<1>7. \/ Store(fs, data)
      \/ LosesRam
      \/ OwnsRam(data, pid) /\ Store(ReopenRam(fs, pid, data.ramFd), GrownRam(data))
      \/ OwnsRam(data, pid) /\ Store(WithoutRam(pid, data), LostRam(data))
  BY DEF SignalSyscall, SendSignal
<1>8. ASSUME NEW newFs, NEW newData, Store(newFs, newData)
      PROVE  /\ fs' = newFs
             /\ procFile' = [procFile EXCEPT ![pid] = newData]
             /\ processes' = [processes EXCEPT ![pid].state = "Active", ![pid].wait = NoWait]
             /\ pid = run => newData.ramFd = loc.ramFd
             /\ UNCHANGED <<run, loc, turn, stale>>
  <2>1. stale \in BOOLEAN
    BY DEF IInv, StateOK
  <2>2. pid = run => newData.ramFd = loc.ramFd
    BY <1>8
  <2>3. stale' = stale
    BY <1>1, <1>8, <2>1, <2>2
  <2> QED BY <1>8, <2>2, <2>3
<1> HIDE DEF data, Store
<1>9. CASE Store(fs, data)
  <2>1. SamePaths(fs.fdt, held, fs'.fdt, held) /\ Consistent(fs', held) /\ PipesUsed(fs', {})
    BY <1>3, <1>4, <1>8, <1>9 DEF SamePaths
  <2>2. held[Ram(pid)] = data.ramFd
    BY <1>2, <1>4, <1>5, <1>6, <1>8, <1>9
  <2> QED BY <1>1, <1>2, <1>3, <1>4, <1>8, <1>9, <2>1, <2>2, StoreKeeps
<1>10. CASE OwnsRam(data, pid) /\ Store(ReopenRam(fs, pid, data.ramFd), GrownRam(data))
  <2> DEFINE fd == ReopenedRamFd(fs, data.ramFd)
             kept == [held EXCEPT ![Ram(pid)] = fd]
  <2>1. held[Ram(pid)] = data.ramFd /\ data.ramFd # FdInvalid
    BY <1>2, <1>4, <1>10, RamFdIsKept
  <2>2. fs' = ReopenRam(fs, pid, data.ramFd)
    BY <1>8, <1>10
  <2>3. /\ kept \in Books /\ Consistent(fs', kept) /\ PipesUsed(fs', {})
        /\ SamePaths(fs.fdt, held, fs'.fdt, kept)
        /\ kept[Ram(pid)] = fd
        /\ \A x \in Places : x # Ram(pid) => kept[x] = held[x]
    BY <1>1, <1>3, <1>4, <2>1, <2>2, ReopenedBooks
  <2>4. GrownRam(data).ramFd = fd /\ GrownRam(data).fds = procFile[pid].fds
    BY <1>2, ConsumedFacts DEF GrownRam
  <2> HIDE DEF fd, kept
  <2> QED BY <1>1, <1>3, <1>8, <1>10, <2>3, <2>4, StoreKeeps
<1>11. CASE OwnsRam(data, pid) /\ Store(WithoutRam(pid, data), LostRam(data))
  <2> DEFINE kept == [held EXCEPT ![Ram(pid)] = FdInvalid]
  <2>1. fs' = WithoutRam(pid, data)
    BY <1>8, <1>11
  <2>2. /\ kept \in Books /\ Consistent(fs', kept) /\ PipesUsed(fs', {})
        /\ PathsKept(fs.fdt, fs'.fdt)
        /\ kept[Ram(pid)] = FdInvalid
        /\ \A x \in Places : x # Ram(pid) => kept[x] = held[x]
    BY <1>2, <1>3, <1>4, <1>11, <2>1, WithoutRamBooks
  <2> HIDE DEF kept
  <2>3. SamePaths(fs.fdt, held, fs'.fdt, kept)
    BY <1>4, <2>2, SlotsGiveSamePaths DEF Consistent
  <2>4. LostRam(data).ramFd = FdInvalid /\ LostRam(data).fds = procFile[pid].fds
    BY <1>2, ConsumedFacts DEF LostRam
  <2> QED BY <1>1, <1>3, <1>8, <1>11, <2>2, <2>3, <2>4, StoreKeeps
<1>12. ~LosesRam
  BY DEF LosesRam
<1> QED BY <1>7, <1>9, <1>10, <1>11, <1>12
-----------------------------------------------------------------------------
\* The files procManProcessFork opens for the child, before it comes to the
\* descriptors of the parent.
LEMMA ChildFilesBooks ==
    ASSUME IInv, Balanced, Calls("fork"), NEW child \in UnusedPids, MayFork(child),
           NEW held, BooksOf(held), Consistent(fs, held)
    PROVE  /\ WithChildFiles(child) \in CountedFs /\ PipesUsed(WithChildFiles(child), {})
           /\ \E mid \in Books : /\ Consistent(WithChildFiles(child), mid)
                                 /\ SamePaths(fs.fdt, held, WithChildFiles(child).fdt, mid)
                                 /\ mid[Prog(child)] = ChildProgmemFd(child) /\ mid[Proc(child)] = ChildProcFd
                                 /\ mid[Ram(child)] = ChildRamFd(child)
                                 /\ \A x \in Places : x \notin {Prog(child), Proc(child), Ram(child)} =>
                                       mid[x] = held[x]
<1>1. /\ child \in Pids /\ ~Alive(child) /\ processes[child].procFd = FdInvalid
      /\ procFile[child].ramFd = FdInvalid
  BY DEF UnusedPids, Balanced, LivesAgree
<1>2. Data(child) = procFile[child]
  BY <1>1 DEF Data
<1>3. /\ held \in Books /\ fs \in CountedFs /\ PipesUsed(fs, {}) /\ run \in Pids
      /\ held[Prog(run)] = processes[run].progmemFd /\ held[Prog(run)] # FdInvalid
      /\ held[Prog(child)] = FdInvalid /\ held[Proc(child)] = FdInvalid /\ held[Ram(child)] = FdInvalid
  BY <1>1, <1>2, CallerBooks, CallerFacts DEF BooksOf, Balanced, Alive
<1> DEFINE old == held[Prog(run)]
<1>4. /\ ChildProcFd # FdInvalid /\ ChildRamFd(child) # FdInvalid /\ ChildProgmemFd(child) # FdInvalid
      /\ ChildProcFd = NewFd(fs.fdt) /\ ChildRamFd(child) = NewFd(FileOpen(fs.fdt, ProcPath(child), "RW"))
      /\ ChildProgmemFd(child) = DupeOrOpenFd(ChildTable(fs.fdt, child), old)
      /\ WithChildFiles(child) = ChildFiles(fs, old, child)
  BY <1>3 DEF MayFork, ChildProcFd, ChildRamFd, ChildProgmemFd, WithChildFiles, ChildFiles, ChildTable
<1> HIDE DEF old
<1>5. old = held[Prog(run)] /\ old # FdInvalid
  BY <1>3 DEF old
<1> QED BY <1>1, <1>3, <1>4, <1>5, ChildFilesAreConsistent

LEMMA ForkChildKeeps ==
    ASSUME IInv, Balanced, Calls("fork"), NEW child \in UnusedPids, MayFork(child), ForkChild(child),
           UNCHANGED <<run, turn, stale>>
    PROVE  Balanced' /\ FdsStable
<1> DEFINE new == WithChildFiles(child)
           p == [state |-> "Active", progmemFd |-> ChildProgmemFd(child), procFd |-> ChildProcFd, wait |-> NoWait]
<1>1. PICK held : BooksOf(held) /\ Consistent(fs, held)
  BY DEF Balanced, BooksBalance
<1>2. /\ child \in Pids /\ ~Alive(child) /\ processes[child].procFd = FdInvalid
      /\ procFile[child].ramFd = FdInvalid /\ procFile[child].fds = NoFds
  BY DEF UnusedPids, Balanced, LivesAgree
<1>3. /\ run \in Pids /\ run # PidMax /\ Alive(run) /\ run # child /\ Data(run) = loc
      /\ HasLocals(held, run, loc.fds) /\ held[Ram(run)] = loc.ramFd /\ held \in Books
      /\ loc \in SafeDatas /\ loc.fds \in LocalTables
  BY <1>1, <1>2, CallerBooks, CallerFacts DEF BooksOf
<1>4. Data(child) = procFile[child] /\ HasLocals(held, child, NoFds)
  BY <1>1, <1>2, <1>3 DEF Data, BooksOf
<1>5. /\ held[Prog(child)] = FdInvalid /\ held[Proc(child)] = FdInvalid /\ held[Ram(child)] = FdInvalid
      /\ \A l \in LocalFds : held[Local(child, l)] = FdInvalid
  BY <1>1, <1>2, <1>4 DEF BooksOf, Alive, HasLocals, NoFds
<1>6. /\ new \in CountedFs /\ PipesUsed(new, {})
      /\ \E mid \in Books : /\ Consistent(new, mid) /\ SamePaths(fs.fdt, held, new.fdt, mid)
                            /\ mid[Prog(child)] = ChildProgmemFd(child) /\ mid[Proc(child)] = ChildProcFd
                            /\ mid[Ram(child)] = ChildRamFd(child)
                            /\ \A x \in Places : x \notin {Prog(child), Proc(child), Ram(child)} => mid[x] = held[x]
  BY <1>1, ChildFilesBooks
<1>7. PICK mid \in Books : /\ Consistent(new, mid) /\ SamePaths(fs.fdt, held, new.fdt, mid)
                           /\ mid[Prog(child)] = ChildProgmemFd(child) /\ mid[Proc(child)] = ChildProcFd
                           /\ mid[Ram(child)] = ChildRamFd(child)
                           /\ \A x \in Places : x \notin {Prog(child), Proc(child), Ram(child)} => mid[x] = held[x]
  BY <1>6
<1>8. PICK fresh \in Reopenings(new, loc.fds) :
        /\ fs' = DupeAll(new, loc.fds, fresh)
        /\ procFile' = [procFile EXCEPT ![child] =
              [r0 |-> "other", handler |-> loc.handler, ramFd |-> ChildRamFd(child),
               fds |-> DupedFds(new, loc.fds, fresh)]]
  BY DEF ForkChild
<1>9. processes' = [processes EXCEPT ![child] = p] /\ loc' = Consumed(loc)
  BY DEF ForkChild
<1> DEFINE more == DupedFds(new, loc.fds, fresh)
<1>10. /\ processes'[child] = p /\ procFile'[child].ramFd = ChildRamFd(child) /\ procFile'[child].fds = more
       /\ \A q \in Pids : q # child => processes'[q] = processes[q] /\ procFile'[q] = procFile[q]
  BY <1>2, <1>8, <1>9 DEF IInv, StateOK
<1>11. /\ p.state = "Active" /\ p.progmemFd = ChildProgmemFd(child) /\ p.procFd = ChildProcFd
       /\ p.progmemFd # FdInvalid /\ p.procFd # FdInvalid
  BY DEF MayFork
<1>12. MayReopen(new, loc.fds)
  BY DEF MayFork
<1> HIDE DEF new, p, more
<1>13. \A x \in {Prog(child), Proc(child), Ram(child)} : (\A l \in LocalFds : x # Local(run, l) /\ x # Local(child, l))
  BY PlacesDiffer
<1>14. HasLocals(mid, run, loc.fds) /\ HasLocals(mid, child, NoFds)
  BY <1>3, <1>4, <1>2, <1>7, <1>13, PlaceKinds DEF HasLocals
<1>15. (\E kept : GoesOnWith(new, mid, child, more, fs', kept)) /\ PipesUsed(fs', {})
  BY <1>2, <1>3, <1>6, <1>7, <1>8, <1>12, <1>14, DupeAllIsConsistent DEF more
<1>16. PICK kept : GoesOnWith(new, mid, child, more, fs', kept)
  BY <1>15
<1>17. /\ kept[Prog(child)] = ChildProgmemFd(child) /\ kept[Proc(child)] = ChildProcFd
       /\ kept[Ram(child)] = ChildRamFd(child) /\ HasLocals(kept, child, more)
  BY <1>2, <1>7, <1>13, <1>16, NotPipes DEF GoesOnWith
<1>18. \A x \in Places \ PipePlaces : x \notin PlacesOf(child) => mid[x] = held[x] /\ kept[x] = held[x]
  <2> TAKE x \in Places \ PipePlaces
  <2> HAVE x \notin PlacesOf(child)
  <2>1. x \notin {Prog(child), Proc(child), Ram(child)} /\ \A l \in LocalFds : x # Local(child, l)
    BY DEF PlacesOf
  <2> QED BY <1>7, <1>16, <2>1 DEF GoesOnWith
<1>19. \A q \in Pids : Alive(q)' <=> Alive(q) \/ q = child
  BY <1>10, <1>11 DEF Alive
<1>20. /\ Data(child)'.ramFd = ChildRamFd(child) /\ Data(child)'.fds = more
       /\ \A q \in Pids : q # child => Data(q)'.ramFd = Data(q).ramFd /\ Data(q)'.fds = Data(q).fds
  <2>1. loc'.ramFd = loc.ramFd /\ loc'.fds = loc.fds
    BY <1>3, <1>9, ConsumedFacts
  <2>2. Data(child)' = procFile'[child]
    BY <1>3 DEF Data
  <2> QED BY <1>3, <1>10, <1>19, <2>1, <2>2 DEF Data
<1>21. BooksOf(kept)'
  <2> SUFFICES ASSUME NEW q \in Pids
               PROVE  /\ kept[Prog(q)] = processes'[q].progmemFd
                      /\ kept[Proc(q)] = processes'[q].procFd
                      /\ kept[Ram(q)] = Data(q)'.ramFd
                      /\ HasLocals(kept, q, Data(q)'.fds)
    BY <1>16 DEF BooksOf, GoesOnWith
  <2>1. CASE q = child
    BY <1>10, <1>11, <1>17, <1>20, <2>1
  <2>2. CASE q # child
    <3>1. Prog(q) \notin PlacesOf(child) /\ Proc(q) \notin PlacesOf(child) /\ Ram(q) \notin PlacesOf(child)
      BY <2>2, PlacesDiffer DEF PlacesOf
    <3>2. \A l \in LocalFds : Local(q, l) \notin PlacesOf(child)
      BY <2>2, PlacesDiffer DEF PlacesOf
    <3>3. kept[Prog(q)] = held[Prog(q)] /\ kept[Proc(q)] = held[Proc(q)] /\ kept[Ram(q)] = held[Ram(q)]
      BY <1>18, <3>1, NotPipes
    <3>4. \A l \in LocalFds : kept[Local(q, l)] = held[Local(q, l)]
      BY <1>18, <3>2, NotPipes
    <3> QED BY <1>1, <1>10, <1>20, <2>2, <3>3, <3>4 DEF BooksOf, HasLocals
  <2> QED BY <2>1, <2>2
<1>22. SamePaths(fs.fdt, held, fs'.fdt, kept)
  <2> SUFFICES ASSUME NEW x \in Places \ PipePlaces, kept[x] # FdInvalid, kept[x] = held[x]
               PROVE  fs'.fdt[kept[x]].path = fs.fdt[held[x]].path
    BY DEF SamePaths
  <2>1. x \notin PlacesOf(child)
    BY <1>5 DEF PlacesOf
  <2>2. mid[x] = held[x]
    BY <1>18, <2>1
  <2> QED BY <1>7, <1>16, <2>2 DEF SamePaths, GoesOnWith
<1>23. LivesAgree'
  <2> SUFFICES ASSUME NEW q \in Pids
               PROVE  /\ Alive(q)' <=> processes'[q].procFd # FdInvalid
                      /\ Alive(q)' <=> processes'[q].state # "Unused"
                      /\ ~Alive(q)' => procFile'[q].ramFd = FdInvalid /\ procFile'[q].fds = NoFds
    BY DEF LivesAgree
  <2>1. CASE q = child
    BY <1>10, <1>11, <1>19, <2>1
  <2>2. CASE q # child
    BY <1>10, <1>19, <2>2 DEF Balanced, LivesAgree
  <2> QED BY <2>1, <2>2
<1>24. WaitedFdsAreHeld'
  <2> SUFFICES ASSUME NEW q \in Pids, processes'[q].state \in {"WaitingRead", "WaitingWrite"}
               PROVE  processes'[q].wait.fd \in GlobalFds(Data(q)'.fds)
    BY DEF WaitedFdsAreHeld
  <2>1. q # child
    BY <1>10, <1>11
  <2> QED BY <1>10, <1>20, <2>1 DEF Balanced, WaitedFdsAreHeld, Calls
<1>25. RamRemembered'
  <2>1. loc'.ramFd = loc.ramFd
    BY <1>3, <1>9, ConsumedFacts
  <2> QED BY <1>3, <1>10, <2>1 DEF Balanced, RamRemembered
<1>26. LocalsKept
  BY <1>2, <1>10 DEF LocalsKept
<1> QED BY <1>1, <1>15, <1>16, <1>21, <1>22, <1>23, <1>24, <1>25, <1>26, StepKeeps DEF GoesOnWith

LEMMA ForkKeeps == ASSUME IInv, Balanced, Fork PROVE Balanced' /\ FdsStable
<1>1. loc \in SafeDatas /\ Calls("fork") /\ UNCHANGED <<run, turn, stale>>
  BY CallerFacts DEF Fork
<1>2. CASE loc' = Consumed(loc) /\ UNCHANGED <<fs, processes, procFile>>
  BY <1>1, <1>2, ConsumedFacts, NothingMoves
<1>3. ASSUME NEW child \in UnusedPids, MayFork(child), ForkChild(child) PROVE Balanced' /\ FdsStable
  BY <1>1, <1>3, ForkChildKeeps
<1>4. ASSUME NEW child \in UnusedPids, ForkFails(child) PROVE Balanced' /\ FdsStable
  BY <1>1, <1>4, ForkFailsKeeps
<1> QED BY <1>2, <1>3, <1>4 DEF Fork
-----------------------------------------------------------------------------
\* procManProcessExecCommon with the new program in the place of the old one.
WithProgram(prog) == [fs EXCEPT !.fdt = FileClose(FileOpen(fs.fdt, ProgPath(prog), "RO"), processes[run].progmemFd)]

LEMMA SamePathsOn ==
    ASSUME NEW t, NEW held, NEW u, NEW mid, SamePaths(t, held, u, mid), NEW v, NEW kept, SamePaths(u, mid, v, kept),
           \A x \in Places \ PipePlaces : kept[x] # FdInvalid /\ kept[x] = held[x] => mid[x] = held[x]
    PROVE  SamePaths(t, held, v, kept)
BY DEF SamePaths

LEMMA WithProgramBooks ==
    ASSUME IInv, Balanced, NEW prog \in Programs, Calls("exec"), NewFd(fs.fdt) # FdInvalid,
           NEW held, BooksOf(held), Consistent(fs, held), NEW new, new = WithProgram(prog)
    PROVE  LET kept == [held EXCEPT ![Prog(run)] = NewFd(fs.fdt)]
           IN  /\ new \in CountedFs /\ new.files = fs.files
               /\ kept \in Books /\ Consistent(new, kept) /\ PipesUsed(new, {})
               /\ SamePaths(fs.fdt, held, new.fdt, kept)
               /\ kept[Prog(run)] = NewFd(fs.fdt)
               /\ \A x \in Places : x # Prog(run) => kept[x] = held[x]
<1> DEFINE fd == NewFd(fs.fdt)
           kept == [held EXCEPT ![Prog(run)] = fd]
           opened == FileOpen(fs.fdt, ProgPath(prog), "RO")
           old == processes[run].progmemFd
           t == FileClose(opened, old)
<1>1. /\ held \in Books /\ fs \in CountedFs /\ PipesUsed(fs, {}) /\ run \in Pids
      /\ held[Prog(run)] = old /\ held[Prog(run)] # FdInvalid /\ Sound(fs.fdt, held)
  BY CallerBooks, CallerFacts DEF BooksOf, Balanced, Consistent
<1>2. ProgPath(prog) \in Paths /\ "RO" \in Modes
  BY PathTypes DEF Modes
<1>3. fs.fdt \in CountedTables /\ old \in Fds
  BY <1>1, FsParts, NotPipes, BooksParts
<1>4. opened \in CountedTables
  BY <1>2, <1>3, FileOpenCounted
<1>5. t \in CountedTables
  <2> HIDE DEF opened, old
  <2> QED BY <1>3, <1>4, FileCloseCounted
<1>6. new = [fs EXCEPT !.fdt = t]
  BY DEF WithProgram
<1>7. PathsKept(fs.fdt, t)
  BY <1>2, <1>3, NewProgramKeepsPaths
<1>8. t = FileClose(FileOpen(fs.fdt, ProgPath(prog), "RO"), held[Prog(run)])
  BY <1>1
<1> HIDE DEF t, opened, old
<1>9. new \in CountedFs /\ new.fdt = t /\ new.files = fs.files /\ new.pipes = fs.pipes
  BY <1>1, <1>5, <1>6, FsWithTable, FsFields
<1>10. kept \in Books /\ Consistent(new, kept) /\ PipesUsed(new, {})
  BY <1>1, <1>8, <1>9, NewProgramIsConsistent
<1>11. kept[Prog(run)] = fd /\ \A x \in Places : x # Prog(run) => kept[x] = held[x]
  BY <1>1, NotPipes DEF Books
<1> HIDE DEF kept, fd
<1>12. SamePaths(fs.fdt, held, new.fdt, kept)
  BY <1>1, <1>7, <1>9, <1>10, SlotsGiveSamePaths DEF Consistent
<1> QED BY <1>9, <1>10, <1>11, <1>12 DEF kept, fd

\* A process that has lost its ram file cannot get this far.
LEMMA ExecHasRam ==
    ASSUME NEW new \in CountedFs, NEW held \in Books, Consistent(new, held), NEW pid \in Pids,
           NEW ramFd, held[Ram(pid)] = ramFd, RamPath(pid) \in new.files,
           ~FileIsOpen(FileClose(new.fdt, ramFd), RamPath(pid))
    PROVE  ramFd # FdInvalid
<1> SUFFICES ASSUME ramFd = FdInvalid PROVE FALSE
  OBVIOUS
<1>1. FileIsOpen(new.fdt, RamPath(pid))
  BY Owners DEF Consistent, OwnedAreOpen
<1>2. Ram(pid) \in Places /\ RamPath(pid) \in OwnedPaths /\ Rightful(Ram(pid)) = {RamPath(pid)}
  BY NotPipes, Owners
<1> QED BY <1>1, <1>2, OwnerKeeps DEF Consistent

LEMMA ExecSucceedsKeeps ==
    ASSUME IInv, Balanced, NEW prog \in Programs, Calls("exec"), NewFd(fs.fdt) # FdInvalid,
           NEW noOld, noOld = WithProgram(prog), RamPath(run) \in fs.files,
           ~FileIsOpen(FileClose(noOld.fdt, loc.ramFd), RamPath(run)),
           fs' = ReopenRam(noOld, run, loc.ramFd),
           processes' = [processes EXCEPT ![run].progmemFd = NewFd(fs.fdt)],
           loc' = [loc EXCEPT !.handler = FALSE, !.ramFd = ReopenedRamFd(noOld, loc.ramFd)],
           procFile' = [procFile EXCEPT ![run] = loc'], UNCHANGED <<run, turn, stale>>
    PROVE  Balanced' /\ FdsStable
<1>1. PICK held : BooksOf(held) /\ Consistent(fs, held)
  BY DEF Balanced, BooksBalance
<1> DEFINE fd == NewFd(fs.fdt)
           mid == [held EXCEPT ![Prog(run)] = fd]
           ram == ReopenedRamFd(noOld, loc.ramFd)
<1>2. /\ held \in Books /\ fs \in CountedFs /\ PipesUsed(fs, {}) /\ run \in Pids /\ run # PidMax /\ loc \in SafeDatas
      /\ held[Ram(run)] = loc.ramFd /\ HasLocals(held, run, loc.fds) /\ Data(run) = loc /\ Alive(run)
      /\ processes[run] \in Processes /\ processes[run].state = "Active"
  BY <1>1, CallerBooks, CallerFacts DEF BooksOf, Balanced
<1>3. /\ noOld \in CountedFs /\ noOld.files = fs.files
      /\ mid \in Books /\ Consistent(noOld, mid) /\ PipesUsed(noOld, {})
      /\ SamePaths(fs.fdt, held, noOld.fdt, mid)
      /\ mid[Prog(run)] = fd
      /\ \A x \in Places : x # Prog(run) => mid[x] = held[x]
  BY <1>1, WithProgramBooks
<1>4. fd # FdInvalid
  OBVIOUS
<1> HIDE DEF mid, fd
<1>5. mid[Ram(run)] = loc.ramFd
  BY <1>2, <1>3, NotPipes, PlacesDiffer
<1>6. loc.ramFd # FdInvalid
  BY <1>2, <1>3, <1>5, ExecHasRam
<1>7. /\ ram # FdInvalid /\ PipesUsed(fs', {})
      /\ \E kept \in Books : /\ Consistent(fs', kept) /\ SamePaths(noOld.fdt, mid, fs'.fdt, kept)
                             /\ kept[Ram(run)] = ram
                             /\ \A x \in Places : x # Ram(run) => kept[x] = mid[x]
  <2> DEFINE next == [mid EXCEPT ![Ram(run)] = ram]
  <2>1. /\ ram # FdInvalid /\ next \in Books /\ Consistent(fs', next) /\ PipesUsed(fs', {})
        /\ SamePaths(noOld.fdt, mid, fs'.fdt, next)
        /\ next[Ram(run)] = ram
        /\ \A x \in Places : x # Ram(run) => next[x] = mid[x]
    BY <1>2, <1>3, <1>5, <1>6, ReopenedBooks
  <2> HIDE DEF next, ram
  <2> QED BY <2>1
<1>8. loc'.ramFd = ram /\ loc'.fds = loc.fds
  BY <1>2, ConsumedFacts
<1> HIDE DEF ram
<1> PICK kept \in Books : /\ Consistent(fs', kept) /\ SamePaths(noOld.fdt, mid, fs'.fdt, kept)
                         /\ kept[Ram(run)] = ram
                         /\ \A x \in Places : x # Ram(run) => kept[x] = mid[x]
  BY <1>7
<1>9. SamePaths(fs.fdt, held, fs'.fdt, kept)
  <2>1. \A x \in Places \ PipePlaces : kept[x] # FdInvalid /\ kept[x] = held[x] => mid[x] = held[x]
    BY <1>2, <1>3, <1>7, PlacesDiffer
  <2> QED BY <1>3, <1>7, <2>1, SamePathsOn
<1> DEFINE p == [processes[run] EXCEPT !.progmemFd = fd]
<1>10. p.progmemFd = fd /\ p.procFd = processes[run].procFd /\ p.state = "Active" /\ p.wait = processes[run].wait
  BY <1>2 DEF Processes
<1>11. processes' = [processes EXCEPT ![run] = p]
  BY <1>2 DEF IInv, StateOK, fd
<1> HIDE DEF p
<1>12. /\ processes'[run] = p /\ procFile'[run] = loc'
       /\ \A q \in Pids : q # run => processes'[q] = processes[q] /\ procFile'[q] = procFile[q]
  BY <1>2, <1>11 DEF IInv, StateOK
<1>13. \A q \in Pids : Alive(q)' <=> Alive(q)
  BY <1>2, <1>4, <1>10, <1>12 DEF Alive
<1>14. Data(run)' = loc' /\ \A q \in Pids : q # run => Data(q)' = Data(q)
  BY <1>2, <1>12, <1>13 DEF Data
<1>15. BooksOf(kept)'
  <2> SUFFICES ASSUME NEW q \in Pids
               PROVE  /\ kept[Prog(q)] = processes'[q].progmemFd
                      /\ kept[Proc(q)] = processes'[q].procFd
                      /\ kept[Ram(q)] = Data(q)'.ramFd
                      /\ HasLocals(kept, q, Data(q)'.fds)
    BY DEF BooksOf
  <2>1. kept[Proc(q)] = held[Proc(q)] /\ \A l \in LocalFds : kept[Local(q, l)] = held[Local(q, l)]
    BY <1>2, <1>3, <1>7, NotPipes, PlacesDiffer
  <2>2. CASE q = run
    <3>1. kept[Prog(q)] = fd
      BY <1>2, <1>3, <1>7, <2>2, NotPipes, PlacesDiffer
    <3>2. held[Proc(q)] = processes[q].procFd
      BY <1>1 DEF BooksOf
    <3>3. kept[Ram(q)] = loc'.ramFd /\ Data(q)' = loc' /\ kept[Prog(q)] = processes'[q].progmemFd
          /\ processes'[q].procFd = processes[q].procFd
      BY <1>8, <1>10, <1>12, <1>14, <2>2, <3>1
    <3>4. HasLocals(kept, q, loc'.fds)
      BY <1>2, <1>8, <2>1, <2>2 DEF HasLocals
    <3> QED BY <2>1, <3>2, <3>3, <3>4
  <2>3. CASE q # run
    <3>1. kept[Prog(q)] = held[Prog(q)] /\ kept[Ram(q)] = held[Ram(q)]
      BY <1>2, <1>3, <1>7, <2>3, NotPipes, PlacesDiffer
    <3> QED BY <1>1, <1>12, <1>14, <2>1, <2>3, <3>1 DEF BooksOf, HasLocals
  <2> QED BY <2>2, <2>3
<1>16. LivesAgree'
  <2> SUFFICES ASSUME NEW q \in Pids
               PROVE  /\ Alive(q)' <=> processes'[q].procFd # FdInvalid
                      /\ Alive(q)' <=> processes'[q].state # "Unused"
                      /\ ~Alive(q)' => procFile'[q].ramFd = FdInvalid /\ procFile'[q].fds = NoFds
    BY DEF LivesAgree
  <2>1. CASE q = run
    BY <1>2, <1>10, <1>12, <1>13, <2>1 DEF Balanced, LivesAgree
  <2>2. CASE q # run
    BY <1>12, <1>13, <2>2 DEF Balanced, LivesAgree
  <2> QED BY <2>1, <2>2
<1>17. WaitedFdsAreHeld'
  <2> SUFFICES ASSUME NEW q \in Pids, processes'[q].state \in {"WaitingRead", "WaitingWrite"}
               PROVE  processes'[q].wait.fd \in GlobalFds(Data(q)'.fds)
    BY DEF WaitedFdsAreHeld
  <2>1. q # run
    BY <1>10, <1>12
  <2> QED BY <1>12, <1>14, <2>1 DEF Balanced, WaitedFdsAreHeld, Calls
<1>18. RamRemembered' /\ LocalsKept
  BY <1>7, <1>8, <1>12 DEF RamRemembered, LocalsKept
<1> QED BY <1>1, <1>7, <1>9, <1>15, <1>16, <1>17, <1>18, StepKeeps

\* Once the ram file is closed no descriptor is on it.
LEMMA RamIsClosed ==
    ASSUME NEW from \in CountedFs, NEW held \in Books, Consistent(from, held), NEW pid \in Pids,
           NEW t, t = FileClose(from.fdt, held[Ram(pid)]), NEW fd \in ValidFds
    PROVE  t[fd].path # RamPath(pid)
<1> DEFINE ramFd == held[Ram(pid)]
<1>1. /\ Ram(pid) \in Places /\ RamPath(pid) \in OwnedPaths /\ Rightful(Ram(pid)) = {RamPath(pid)}
      /\ from.fdt \in CountedTables /\ Sound(from.fdt, held) /\ fd \in Fds /\ ramFd \in Fds
      /\ RamPath(pid) # NoPath
  BY NotPipes, Owners, OwnedAreExclusive, FsParts, FdFacts, BooksParts DEF Consistent
<1>2. from.fdt[fd].path = RamPath(pid) <=> ramFd = fd
  BY <1>1, OwnerKeeps
<1>3. t[fd].path \in {from.fdt[fd].path, NoPath}
  BY <1>1, CloseTakesPaths
<1>4. CASE ramFd = fd
  <2>1. from.fdt[fd].ref = 1 /\ InUse(from.fdt, fd)
    BY <1>1, <1>2, <1>4, OwnerKeeps, FdFacts DEF InUse
  <2>2. t = [from.fdt EXCEPT ![fd] = UnusedSlot]
    BY <1>4, <2>1 DEF FileClose
  <2> QED BY <1>1, <2>2 DEF UnusedSlot, CountedTables, Tables
<1>5. CASE ramFd # fd
  BY <1>1, <1>2, <1>3, <1>5
<1> QED BY <1>4, <1>5

\* An exec that finds no room for the ram file kills the process. The kill
\* closes the ram fd of the ProcData file once more, so the books stay right
\* only if there was none.
LEMMA ExecFailsKeeps ==
    ASSUME IInv, Balanced, ~stale', NEW prog \in Programs, Calls("exec"), NewFd(fs.fdt) # FdInvalid,
           NEW noOld, noOld = WithProgram(prog),
           NEW closed \in CountedFs, closed.fdt = FileClose(noOld.fdt, loc.ramFd),
           closed.files = noOld.files, closed.pipes = noOld.pipes,
           Kill(run, "killed", closed, NewFd(fs.fdt), loc.fds, procFile[run].ramFd), EndTurn
    PROVE  Balanced' /\ FdsStable
<1>1. PICK held : BooksOf(held) /\ Consistent(fs, held)
  BY DEF Balanced, BooksBalance
<1> DEFINE fd == NewFd(fs.fdt)
           mid == [held EXCEPT ![Prog(run)] = fd]
           ramFd == procFile[run].ramFd
<1>2. /\ held \in Books /\ run \in Pids /\ loc \in SafeDatas /\ loc.fds \in LocalTables
      /\ held[Ram(run)] = loc.ramFd /\ HasLocals(held, run, loc.fds)
      /\ held[Proc(run)] = processes[run].procFd /\ held[Proc(run)] # FdInvalid
      /\ ramFd = FdInvalid => loc.ramFd = FdInvalid
  BY <1>1, CallerBooks, CallerFacts DEF BooksOf
<1>3. /\ noOld \in CountedFs
      /\ mid \in Books /\ Consistent(noOld, mid) /\ PipesUsed(noOld, {})
      /\ SamePaths(fs.fdt, held, noOld.fdt, mid)
      /\ mid[Prog(run)] = fd
      /\ \A x \in Places : x # Prog(run) => mid[x] = held[x]
  BY <1>1, WithProgramBooks
<1>4. fd # FdInvalid /\ fd = NewFd(fs.fdt) /\ ramFd \in Fds
  BY <1>2, SafeDataParts DEF IInv, StateOK
<1> HIDE DEF mid, fd, ramFd
<1>5. mid[Ram(run)] = loc.ramFd /\ mid[Proc(run)] = held[Proc(run)] /\ HasLocals(mid, run, loc.fds)
  BY <1>2, <1>3, NotPipes, PlacesDiffer DEF HasLocals
<1> DEFINE t == FileClose(noOld.fdt, loc.ramFd)
<1>6. noOld.fdt \in CountedTables /\ t \in CountedTables /\ closed.fdt = t
  BY <1>2, <1>3, FsParts, SafeDataParts, FileCloseCounted
<1>7. t = FileClose(noOld.fdt, mid[Ram(run)])
  BY <1>5
<1> HIDE DEF t
<1>8. ramFd = FdInvalid
  <2> SUFFICES ASSUME ramFd # FdInvalid PROVE FALSE
    OBVIOUS
  <2> DEFINE least == CloseFiles(closed, GlobalFds(loc.fds)).fdt
  <2>1. FileClose(least, fd)[ramFd].path = RamPath(run)
    BY <1>4 DEF Kill, ramFd
  <2>2. least \in CountedTables /\ fd \in Fds
    <3>1. CloseFiles(closed, GlobalFds(loc.fds)) \in CountedFs
      BY <1>6, CloseFilesType
    <3>2. Prog(run) \in Places
      BY <1>2, NotPipes
    <3> QED BY <1>3, <3>1, <3>2, FsParts, BooksParts
  <2>3. least[ramFd].path \in {closed.fdt[ramFd].path, NoPath}
    BY <1>4, <1>6, CloseFilesTakesPaths
  <2> HIDE DEF least
  <2>4. FileClose(least, fd)[ramFd].path \in {least[ramFd].path, NoPath}
    BY <1>4, <2>2, CloseTakesPaths
  <2>5. RamPath(run) # NoPath
    BY <1>2, Owners, OwnedAreExclusive
  <2>6. t[ramFd].path = RamPath(run) /\ ramFd \in ValidFds
    BY <1>4, <1>6, <2>1, <2>3, <2>4, <2>5, FdFacts
  <2> QED BY <1>2, <1>3, <1>7, <2>6, RamIsClosed
<1>9. loc.ramFd = FdInvalid
  BY <1>2, <1>8
<1>10. Consistent(closed, mid) /\ PipesUsed(closed, {}) /\ PathsKept(noOld.fdt, closed.fdt)
  <2>1. \A g \in ValidFds : closed.fdt[g] = noOld.fdt[g]
    BY <1>6, <1>9, FileCloseCounted, FdFacts DEF t
  <2> QED BY <1>3, <1>6, <2>1, SameIsConsistent
<1>11. SamePaths(fs.fdt, held, closed.fdt, mid)
  <2>1. SamePaths(noOld.fdt, mid, closed.fdt, mid)
    BY <1>3, <1>10, SlotsGiveSamePaths DEF Consistent
  <2> QED BY <1>3, <2>1, SamePathsOn
<1>12. Kill(run, "killed", closed, fd, loc.fds, ramFd)
  BY <1>4 DEF ramFd
<1>13. ramFd = FdInvalid => mid[Ram(run)] = FdInvalid
  BY <1>5, <1>9
<1>14. (\E kept : GoesOn(closed, mid, PlacesOf(run), fs', kept)) /\ PipesUsed(fs', {})
  BY <1>2, <1>3, <1>4, <1>5, <1>6, <1>10, <1>12, <1>13, KillEmpties
<1>15. PICK kept : GoesOn(closed, mid, PlacesOf(run), fs', kept)
  BY <1>14
<1>16. \A x \in Places \ PipePlaces : kept[x] = IF x \in PlacesOf(run) THEN FdInvalid ELSE held[x]
  <2>1. Prog(run) \in PlacesOf(run)
    BY DEF PlacesOf
  <2> QED BY <1>3, <1>15, <2>1 DEF GoesOn
<1>17. SamePaths(fs.fdt, held, fs'.fdt, kept)
  <2>1. \A x \in Places \ PipePlaces : kept[x] # FdInvalid /\ kept[x] = held[x] => mid[x] = held[x]
    BY <1>15 DEF GoesOn
  <2> QED BY <1>11, <1>15, <2>1, SamePathsOn DEF GoesOn
<1>18. run' = PidMax
  BY DEF EndTurn
<1> QED BY <1>1, <1>2, <1>12, <1>14, <1>15, <1>16, <1>17, <1>18, DeathKeeps DEF GoesOn

LEMMA ExecKeeps ==
    ASSUME IInv, Balanced, ~stale', NEW prog \in Programs, Exec(prog)
    PROVE  Balanced' /\ FdsStable
<1> DEFINE new == NewFd(fs.fdt)
           noOld == WithProgram(prog)
           closed == [noOld EXCEPT !.fdt = FileClose(@, loc.ramFd)]
<1>1. Calls("exec")
  BY DEF Exec
<1>2. CASE new = FdInvalid
  <2>1. /\ fs' = [fs EXCEPT !.fdt = FileOpen(fs.fdt, ProgPath(prog), "RO")]
        /\ UNCHANGED <<processes, procFile, run, loc, turn, stale>>
    BY <1>2 DEF Exec
  <2> QED BY <1>1, <1>2, <2>1, NoSlotKeeps
<1>3. CASE new # FdInvalid
  <2>1. fs \in CountedFs /\ noOld \in CountedFs /\ noOld.fdt \in CountedTables /\ loc \in SafeDatas
    BY <1>1, <1>3, CallerFacts, WithProgramBooks, FsParts DEF Balanced, BooksBalance
  <2>2. /\ closed \in CountedFs /\ closed.fdt = FileClose(noOld.fdt, loc.ramFd)
        /\ closed.files = noOld.files /\ closed.pipes = noOld.pipes
    <3> DEFINE t == FileClose(noOld.fdt, loc.ramFd)
    <3> HIDE DEF noOld
    <3>1. t \in CountedTables
      BY <2>1, SafeDataParts, FileCloseCounted
    <3> HIDE DEF t
    <3>2. closed = [noOld EXCEPT !.fdt = t]
      BY DEF t
    <3>3. [noOld EXCEPT !.fdt = t] \in CountedFs
      BY <2>1, <3>1, FsWithTable
    <3> HIDE DEF closed
    <3> QED BY <2>1, <3>2, <3>3, FsFields DEF t
  <2>3. \/ /\ RamPath(run) \in fs.files /\ ~FileIsOpen(closed.fdt, RamPath(run))
           /\ fs' = ReopenRam(noOld, run, loc.ramFd)
           /\ processes' = [processes EXCEPT ![run].progmemFd = new]
           /\ loc' = [loc EXCEPT !.handler = FALSE, !.ramFd = ReopenedRamFd(noOld, loc.ramFd)]
           /\ procFile' = [procFile EXCEPT ![run] = loc']
           /\ UNCHANGED <<run, turn, stale>>
        \/ Kill(run, "killed", closed, new, loc.fds, procFile[run].ramFd) /\ EndTurn
    BY <1>3, <2>1 DEF Exec, WithProgram, CountedFs, FileSystems
  <2>4. new = NewFd(fs.fdt) /\ noOld = WithProgram(prog)
    OBVIOUS
  <2> HIDE DEF noOld, closed, new
  <2>5. CASE Kill(run, "killed", closed, new, loc.fds, procFile[run].ramFd) /\ EndTurn
    BY <1>1, <1>3, <2>2, <2>4, <2>5, ExecFailsKeeps
  <2> QED BY <1>1, <1>3, <2>2, <2>3, <2>4, <2>5, ExecSucceedsKeeps
<1> QED BY <1>2, <1>3
-----------------------------------------------------------------------------
\* A step of the turn: which version of a ProcData counts may change, but not
\* what it keeps.
LEMMA TurnKeeps ==
    ASSUME IInv, Balanced, ~stale, NEW held, BooksOf(held), Consistent(fs, held),
           Consistent(fs', held), PipesUsed(fs', {}), PathsKept(fs.fdt, fs'.fdt),
           \A pid \in Pids :
               /\ processes'[pid].progmemFd = processes[pid].progmemFd
               /\ processes'[pid].procFd = processes[pid].procFd
               /\ processes'[pid].state # "Unused" <=> processes[pid].state # "Unused"
               /\ processes'[pid].state \in {"WaitingRead", "WaitingWrite"} => processes'[pid] = processes[pid]
               /\ Data(pid)'.ramFd = Data(pid).ramFd /\ Data(pid)'.fds = Data(pid).fds
               /\ ~Alive(pid) => procFile'[pid] = procFile[pid],
           LocalsKept, RamRemembered'
    PROVE  Balanced' /\ FdsStable
<1>1. held \in Books
  BY DEF BooksOf
<1>2. SamePaths(fs.fdt, held, fs'.fdt, held)
  BY <1>1, SlotsGiveSamePaths DEF Consistent
<1>3. BooksOf(held)'
  BY DEF BooksOf
<1>4. \A pid \in Pids : Alive(pid)' <=> Alive(pid)
  BY DEF Alive
<1>5. LivesAgree'
  BY <1>4 DEF Balanced, LivesAgree
<1>6. WaitedFdsAreHeld'
  <2> SUFFICES ASSUME NEW pid \in Pids, processes'[pid].state \in {"WaitingRead", "WaitingWrite"}
               PROVE  processes'[pid].wait.fd \in GlobalFds(Data(pid)'.fds)
    BY DEF WaitedFdsAreHeld
  <2> QED BY DEF Balanced, WaitedFdsAreHeld
<1> QED BY <1>2, <1>3, <1>5, <1>6, StepKeeps

LEMMA LoadKeeps ==
    ASSUME IInv, Balanced, Between, Alive(turn), NEW data, NEW process, NEW newFs, Load(data, process, newFs),
           data.ramFd = procFile[turn].ramFd, data.fds = procFile[turn].fds,
           process.progmemFd = processes[turn].progmemFd, process.procFd = processes[turn].procFd,
           process.state = "Active",
           NEW held, BooksOf(held), Consistent(fs, held),
           Consistent(newFs, held), PipesUsed(newFs, {}), PathsKept(fs.fdt, newFs.fdt)
    PROVE  Balanced' /\ FdsStable
<1>1. /\ turn \in Pids /\ run = PidMax /\ ~stale /\ PidMax \notin Pids
      /\ run' = turn /\ loc' = data /\ fs' = newFs /\ UNCHANGED <<procFile, turn, stale>>
  BY SizesAssumption DEF IInv, StateOK, Between, Load, Pids
<1>2. processes'[turn] = process /\ \A q \in Pids : q # turn => processes'[q] = processes[q]
  BY <1>1 DEF IInv, StateOK, Load
<1>3. processes[turn].state # "Unused"
  BY <1>1 DEF Balanced, LivesAgree
<1>4. Data(turn)' = data /\ Data(turn) = procFile[turn]
  BY <1>1, <1>2 DEF Data, Alive
<1>5. \A q \in Pids : q # turn => Data(q)' = Data(q)
  BY <1>1, <1>2 DEF Data
<1>6. RamRemembered' /\ LocalsKept
  BY <1>1 DEF RamRemembered, LocalsKept
<1>7. ASSUME NEW q \in Pids
      PROVE  /\ processes'[q].progmemFd = processes[q].progmemFd
             /\ processes'[q].procFd = processes[q].procFd
             /\ processes'[q].state # "Unused" <=> processes[q].state # "Unused"
             /\ processes'[q].state \in {"WaitingRead", "WaitingWrite"} => processes'[q] = processes[q]
             /\ Data(q)'.ramFd = Data(q).ramFd /\ Data(q)'.fds = Data(q).fds
             /\ ~Alive(q) => procFile'[q] = procFile[q]
  <2>1. CASE q = turn
    BY <1>1, <1>2, <1>3, <1>4, <2>1
  <2>2. CASE q # turn
    BY <1>1, <1>2, <1>5, <2>2
  <2> QED BY <2>1, <2>2
<1> QED BY <1>1, <1>6, <1>7, TurnKeeps

LEMMA TickEndKeeps ==
    ASSUME IInv, Balanced, TickNothing \/ TickEnd
    PROVE  Balanced' /\ FdsStable
<1>1. PICK held : BooksOf(held) /\ Consistent(fs, held)
  BY DEF Balanced, BooksBalance
<1>2. /\ UNCHANGED <<fs, processes, stale>> /\ ~stale /\ run' = PidMax /\ PidMax \notin Pids /\ loc \in SafeDatas
      /\ run \in Pids \cup {PidMax}
  BY SizesAssumption DEF TickNothing, TickEnd, Between, EndTurn, Pids, IInv, StateOK
<1>3. \/ UNCHANGED procFile /\ (run = PidMax \/ ~Alive(run))
      \/ run \in Pids /\ Alive(run) /\ procFile' = [procFile EXCEPT ![run] = Consumed(loc)]
  BY <1>2 DEF TickNothing, TickEnd, Between
<1>4. \A q \in Pids : Data(q)' = procFile'[q]
  BY <1>2 DEF Data
<1>5. \A q \in Pids : q # run \/ ~Alive(q) => procFile'[q] = procFile[q] /\ Data(q) = procFile[q]
  BY <1>3 DEF Data, IInv, StateOK
<1>6. \A q \in Pids : q = run /\ Alive(q) => procFile'[q] = Consumed(loc) /\ Data(q) = loc
  BY <1>2, <1>3 DEF Data, IInv, StateOK
<1>7. Consumed(loc).ramFd = loc.ramFd /\ Consumed(loc).fds = loc.fds
  BY <1>2, ConsumedFacts
<1>8. \A q \in Pids : /\ Data(q)'.ramFd = Data(q).ramFd /\ Data(q)'.fds = Data(q).fds
                      /\ ~Alive(q) => procFile'[q] = procFile[q]
  BY <1>4, <1>5, <1>6, <1>7
<1>9. RamRemembered' /\ LocalsKept
  BY <1>2, <1>5 DEF RamRemembered, LocalsKept
<1>10. Consistent(fs', held) /\ PipesUsed(fs', {}) /\ PathsKept(fs.fdt, fs'.fdt)
  BY <1>1, <1>2 DEF Balanced, PathsKept
<1> QED BY <1>1, <1>2, <1>8, <1>9, <1>10, TurnKeeps

LEMMA TickKeeps == ASSUME IInv, Balanced, Tick PROVE Balanced' /\ FdsStable
<1>1. PICK held : BooksOf(held) /\ Consistent(fs, held)
  BY DEF Balanced, BooksBalance
<1>2. /\ turn \in Pids /\ processes[turn] \in Processes /\ procFile[turn] \in SafeDatas /\ fs \in CountedFs
      /\ held \in Books /\ PipesUsed(fs, {})
  BY <1>1 DEF IInv, StateOK, BooksOf, Balanced
<1>3. Woken.progmemFd = processes[turn].progmemFd /\ Woken.procFd = processes[turn].procFd /\ Woken.state = "Active"
  BY <1>2 DEF Woken, Processes
<1>4. /\ Consumed(procFile[turn]).ramFd = procFile[turn].ramFd /\ Consumed(procFile[turn]).fds = procFile[turn].fds
      /\ [procFile[turn] EXCEPT !.r0 = "timeout"].ramFd = procFile[turn].ramFd
      /\ [procFile[turn] EXCEPT !.r0 = "timeout"].fds = procFile[turn].fds
  BY <1>2 DEF Consumed, SafeDatas, ProcDatas
<1>5. PathsKept(fs.fdt, fs.fdt)
  BY DEF PathsKept
<1>6. processes[turn].state # "Unused" => Alive(turn)
  BY <1>2 DEF Balanced, LivesAgree
<1>7. CASE TickActive
  BY <1>1, <1>2, <1>4, <1>5, <1>6, <1>7, LoadKeeps DEF TickActive
<1>8. CASE TickTimeout
  BY <1>1, <1>2, <1>3, <1>4, <1>5, <1>6, <1>8, LoadKeeps DEF TickTimeout
<1>9. CASE TickReadReady \/ TickWriteReady
  <2>1. PICK newFs \in AfterRead(fs, processes[turn].wait.fd) \cup AfterWrite(fs, processes[turn].wait.fd) :
          Load(Consumed(procFile[turn]), Woken, newFs)
    BY <1>9 DEF TickReadReady, TickWriteReady
  <2>2. Consistent(newFs, held) /\ PipesUsed(newFs, {}) /\ PathsKept(fs.fdt, newFs.fdt)
    BY <1>1, <1>2, TransferIsConsistent
  <2>3. Between /\ processes[turn].state # "Unused"
    BY <1>9 DEF TickReadReady, TickWriteReady
  <2> QED BY <1>1, <1>3, <1>4, <1>6, <2>1, <2>2, <2>3, LoadKeeps
<1>10. CASE TickNothing \/ TickEnd
  BY <1>10, TickEndKeeps
<1> QED BY <1>7, <1>8, <1>9, <1>10 DEF Tick
-----------------------------------------------------------------------------
\* Boot: nothing is open and no books are kept, then init gets its three files.
NothingHeld == [x \in Places |-> FdInvalid]

LEMMA NothingIsConsistent ==
    ASSUME NEW new, new.fdt = EmptyTable, new.files = ProgPaths, new.pipes = [i \in PipeIds |-> NoPipe]
    PROVE  NothingHeld \in Books /\ Consistent(new, NothingHeld) /\ PipesUsed(new, {})
<1>1. NothingHeld \in Books /\ \A x \in Places : NothingHeld[x] = FdInvalid
  BY FdFacts DEF NothingHeld, Books
<1> HIDE DEF NothingHeld
<1>2. \A fd \in ValidFds : ~InUse(EmptyTable, fd) /\ EmptyTable[fd].ref = 0
  BY FdFacts DEF EmptyTable, UnusedSlot, InUse
<1>3. \A fd \in ValidFds : KeptAt(NothingHeld, fd) = {}
  BY <1>1, FdFacts DEF KeptAt
<1>4. Booked(EmptyTable, NothingHeld)
  BY <1>2, <1>3, FS_EmptySet DEF Booked
<1>5. LocalsDiffer(NothingHeld)
  BY <1>1, NotPipes DEF LocalsDiffer
<1>6. Sound(EmptyTable, NothingHeld)
  BY <1>1, <1>2, <1>4, <1>5 DEF Sound, AllRightful, OpenOnce
<1>7. OpenExist(new) /\ OwnedAreOpen(new)
  BY <1>2, OwnedAreExclusive DEF OpenExist, OwnedAreOpen
<1>8. MountsKept(new, NothingHeld)
  BY <1>1, Owners, PlaceKinds DEF MountsKept, NoPipe
<1>9. PipesUsed(new, {})
  BY Owners DEF PipesUsed
<1> QED BY <1>1, <1>6, <1>7, <1>8, <1>9 DEF Consistent

LEMMA BootFds ==
    /\ NewFd(EmptyTable) \in FreeFds(EmptyTable) /\ NewFd(Boot0) \in FreeFds(Boot0) /\ NewFd(Boot1) \in FreeFds(Boot1)
    /\ Boot0 = OpenedAt(EmptyTable, NewFd(EmptyTable), ProgPath(CHOOSE prog \in Programs : TRUE), "RO")
    /\ Boot1 = OpenedAt(Boot0, NewFd(Boot0), ProcPath(0), "RW")
    /\ Boot2 = OpenedAt(Boot1, NewFd(Boot1), RamPath(0), "RW")
    /\ EmptyTable \in CountedTables /\ Boot0 \in CountedTables /\ Boot1 \in CountedTables /\ Boot2 \in CountedTables
<1> DEFINE prog == CHOOSE prog \in Programs : TRUE
<1>1. ProgPath(prog) \in Paths /\ ProcPath(0) \in Paths /\ RamPath(0) \in Paths /\ "RO" \in Modes /\ "RW" \in Modes
  BY SizesAssumption, PathTypes, PidZero DEF Modes
<1>2. 1 \in ValidFds /\ 2 \in ValidFds /\ 3 \in ValidFds
  BY BootAssumption, FdMaxAssumption DEF ValidFds
<1>3. EmptyTable \in CountedTables /\ FreeFds(EmptyTable) = ValidFds
  BY EmptyTableCounted, FdFacts DEF FreeFds, InUse, EmptyTable, UnusedSlot
<1>4. NewFd(EmptyTable) \in FreeFds(EmptyTable)
  BY <1>2, <1>3, NewFdIsFree
<1>5. Boot0 = OpenedAt(EmptyTable, NewFd(EmptyTable), ProgPath(prog), "RO")
  BY <1>3, NewFdIsFree DEF Boot0
<1> HIDE DEF prog
<1>6. Boot0 \in CountedTables /\ \A g \in Fds : g # NewFd(EmptyTable) => Boot0[g] = EmptyTable[g]
  BY <1>1, <1>3, <1>4, <1>5, OpenedFacts
<1>7. \A g \in ValidFds : g # NewFd(EmptyTable) => g \in FreeFds(Boot0)
  BY <1>3, <1>6, FdFacts DEF FreeFds, InUse
<1>8. NewFd(Boot0) \in FreeFds(Boot0)
  BY <1>2, <1>6, <1>7, NewFdIsFree
<1>9. Boot1 = OpenedAt(Boot0, NewFd(Boot0), ProcPath(0), "RW")
  BY <1>6, NewFdIsFree DEF Boot1
<1>10. Boot1 \in CountedTables /\ \A g \in Fds : g # NewFd(Boot0) => Boot1[g] = Boot0[g]
  BY <1>1, <1>6, <1>8, <1>9, OpenedFacts
<1>11. \A g \in ValidFds : g # NewFd(EmptyTable) /\ g # NewFd(Boot0) => g \in FreeFds(Boot1)
  BY <1>7, <1>10, FdFacts DEF FreeFds, InUse
<1>12. NewFd(Boot1) \in FreeFds(Boot1)
  BY <1>2, <1>10, <1>11, NewFdIsFree
<1>13. Boot2 = OpenedAt(Boot1, NewFd(Boot1), RamPath(0), "RW")
  BY <1>10, NewFdIsFree DEF Boot2
<1>14. Boot2 \in CountedTables
  BY <1>1, <1>10, <1>12, <1>13, OpenedFacts
<1> QED BY <1>3, <1>4, <1>5, <1>6, <1>8, <1>9, <1>10, <1>12, <1>13, <1>14 DEF prog

LEMMA InitBalances == Init => Balanced
<1> SUFFICES ASSUME Init PROVE Balanced
  OBVIOUS
<1> DEFINE prog == CHOOSE prog \in Programs : TRUE
           a == NewFd(EmptyTable)
           b == NewFd(Boot0)
           c == NewFd(Boot1)
           pipes == [i \in PipeIds |-> NoPipe]
           Fs(t, files) == [fdt |-> t, files |-> files, pipes |-> pipes]
           fs0 == Fs(EmptyTable, ProgPaths)
           fs1 == Fs(Boot0, ProgPaths)
           fs2 == Fs(Boot1, ProgPaths \cup {ProcPath(0)})
           fs3 == Fs(Boot2, ProgPaths \cup {ProcPath(0)} \cup {RamPath(0)})
           held1 == [NothingHeld EXCEPT ![Prog(0)] = a]
           held2 == [held1 EXCEPT ![Proc(0)] = b]
           held3 == [held2 EXCEPT ![Ram(0)] = c]
<1>1. /\ a \in FreeFds(EmptyTable) /\ b \in FreeFds(Boot0) /\ c \in FreeFds(Boot1)
      /\ a # FdInvalid /\ b # FdInvalid /\ c # FdInvalid
  BY BootFds, FdFacts DEF FreeFds
<1>2. /\ ProgPath(prog) \in ProgPaths /\ ProgPath(prog) \in Paths /\ "RO" \in Modes /\ "RW" \in Modes
      /\ ProcPath(0) \in Paths /\ RamPath(0) \in Paths /\ ProgPaths \subseteq Paths /\ 0 \in Pids
  BY SizesAssumption, PathTypes, PidZero DEF Modes, ProgPaths
<1>3. pipes \in Pipes
  BY NoPipeType DEF Pipes
<1>4. fs0 \in CountedFs /\ fs1 \in CountedFs /\ fs2 \in CountedFs /\ fs3 \in CountedFs
  <2>1. \A t \in CountedTables, files \in SUBSET Paths : Fs(t, files) \in CountedFs
    BY <1>3, FsBuilt
  <2> HIDE DEF Fs
  <2> QED BY <1>2, <2>1, BootFds
<1>5. /\ fs0.fdt = EmptyTable /\ fs0.files = ProgPaths /\ fs0.pipes = pipes
      /\ fs1.fdt = Boot0 /\ fs1.files = ProgPaths /\ fs1.pipes = pipes
      /\ fs2.fdt = Boot1 /\ fs2.files = ProgPaths \cup {ProcPath(0)} /\ fs2.pipes = pipes
      /\ fs3.fdt = Boot2 /\ fs3.files = ProgPaths \cup {ProcPath(0)} \cup {RamPath(0)} /\ fs3.pipes = pipes
  OBVIOUS
<1>6. fs = fs3
  BY DEF Init
<1> HIDE DEF Fs, fs0, fs1, fs2, fs3
<1>7. NothingHeld \in Books /\ Consistent(fs0, NothingHeld) /\ PipesUsed(fs0, {})
  BY <1>5, NothingIsConsistent
<1>8. \A x \in Places : NothingHeld[x] = FdInvalid
  BY DEF NothingHeld
<1> HIDE DEF NothingHeld, a, b, c, prog, pipes
<1>9. held1 \in Books /\ Consistent(fs1, held1) /\ PipesUsed(fs1, {})
  <2>1. Prog(0) \in Places \ PipePlaces /\ ProgPath(prog) \in Rightful(Prog(0)) /\ ProgPath(prog) \notin OwnedPaths
    BY <1>2, NotPipes, Owners, OwnedAreExclusive
  <2>2. MayOpen(fs0.fdt, fs0.files, ProgPath(prog))
    BY <1>2, <1>5, PathsAreThese DEF MayOpen
  <2>3. fs1.fdt = OpenedAt(fs0.fdt, a, ProgPath(prog), "RO")
    BY <1>5, BootFds DEF a, prog
  <2> QED BY <1>1, <1>2, <1>4, <1>5, <1>7, <1>8, <2>1, <2>2, <2>3, OpenExisting
<1>10. held2 \in Books /\ Consistent(fs2, held2) /\ PipesUsed(fs2, {})
  <2>1. Proc(0) \in Places \ PipePlaces /\ ProcPath(0) \in OwnedPaths /\ Rightful(Proc(0)) = {ProcPath(0)}
    BY <1>2, NotPipes, Owners
  <2>2. held1[Proc(0)] = FdInvalid
    BY <1>2, <1>7, <1>8, <2>1, PlacesDiffer DEF Books
  <2>3. fs2.fdt = OpenedAt(fs1.fdt, b, ProcPath(0), "RW")
    BY <1>5, BootFds DEF b
  <2> HIDE DEF held1
  <2> QED BY <1>1, <1>2, <1>4, <1>5, <1>9, <2>1, <2>2, <2>3, OpenOwned
<1>11. held3 \in Books /\ Consistent(fs3, held3) /\ PipesUsed(fs3, {})
  <2>1. Ram(0) \in Places \ PipePlaces /\ RamPath(0) \in OwnedPaths /\ Rightful(Ram(0)) = {RamPath(0)}
    BY <1>2, NotPipes, Owners
  <2>2. held2[Ram(0)] = FdInvalid
    BY <1>2, <1>7, <1>8, <2>1, PlacesDiffer DEF Books
  <2>3. fs3.fdt = OpenedAt(fs2.fdt, c, RamPath(0), "RW")
    BY <1>5, BootFds DEF c
  <2> HIDE DEF held2
  <2> QED BY <1>1, <1>2, <1>4, <1>5, <1>10, <2>1, <2>2, <2>3, OpenOwned
<1>12. /\ held3[Prog(0)] = a /\ held3[Proc(0)] = b /\ held3[Ram(0)] = c
       /\ \A x \in Places : x # Prog(0) /\ x # Proc(0) /\ x # Ram(0) => held3[x] = FdInvalid
  BY <1>2, <1>7, <1>8, NotPipes, PlacesDiffer DEF Books
<1> HIDE DEF held3
<1>13. /\ processes[0] = [state |-> "Active", progmemFd |-> a, procFd |-> b, wait |-> NoWait]
       /\ procFile[0].ramFd = c /\ procFile[0].fds = NoFds
       /\ \A q \in Pids : q # 0 => processes[q] = UnusedProcess /\ procFile[q] = BlankData
       /\ run = PidMax /\ PidMax \notin Pids
  BY <1>2, SizesAssumption DEF Init, InitProcess, BlankData, a, b, c, Pids
<1>14. \A q \in Pids : Data(q) = procFile[q]
  BY <1>13 DEF Data
<1>15. BooksOf(held3)
  <2> SUFFICES ASSUME NEW q \in Pids
               PROVE  /\ held3[Prog(q)] = processes[q].progmemFd
                      /\ held3[Proc(q)] = processes[q].procFd
                      /\ held3[Ram(q)] = procFile[q].ramFd
                      /\ HasLocals(held3, q, procFile[q].fds)
    BY <1>11, <1>14 DEF BooksOf
  <2>1. procFile[q].fds = NoFds
    BY <1>13 DEF BlankData
  <2>2. HasLocals(held3, q, NoFds)
    BY <1>2, <1>12, NotPipes, PlacesDiffer DEF HasLocals, NoFds
  <2>3. CASE q = 0
    BY <1>12, <1>13, <2>1, <2>2, <2>3
  <2>4. CASE q # 0
    <3>1. held3[Prog(q)] = FdInvalid /\ held3[Proc(q)] = FdInvalid /\ held3[Ram(q)] = FdInvalid
      BY <1>2, <1>12, <2>4, NotPipes, PlacesDiffer
    <3> QED BY <1>13, <2>1, <2>2, <2>4, <3>1 DEF UnusedProcess, BlankData
  <2> QED BY <2>3, <2>4
<1>16. LivesAgree /\ WaitedFdsAreHeld /\ RamRemembered
  <2>1. \A q \in Pids : /\ Alive(q) <=> q = 0
                        /\ Alive(q) <=> processes[q].procFd # FdInvalid
                        /\ Alive(q) <=> processes[q].state # "Unused"
                        /\ processes[q].state \in {"Active", "Unused"}
    BY <1>1, <1>13 DEF Alive, UnusedProcess
  <2> QED BY <1>13, <2>1 DEF LivesAgree, WaitedFdsAreHeld, RamRemembered, BlankData
<1> QED BY <1>6, <1>11, <1>15, <1>16 DEF Balanced, BooksBalance
-----------------------------------------------------------------------------
LEMMA SyscallKeeps == ASSUME IInv, Balanced, ~stale', Syscall PROVE Balanced' /\ FdsStable
<1>1. ASSUME NEW status \in {"exit", "killed"}, Exit(status) PROVE Balanced' /\ FdsStable
  BY <1>1, ExitKeeps
<1>2. ASSUME NEW pid \in Pids, KillSyscall(pid) \/ SignalSyscall(pid) PROVE Balanced' /\ FdsStable
  BY <1>2, KillSyscallKeeps, SignalKeeps
<1>3. ASSUME NEW pid \in Pids, NEW timed \in BOOLEAN, WaitPid(pid, timed) PROVE Balanced' /\ FdsStable
  BY <1>3, WaitPidKeeps
<1>4. ASSUME NEW path \in ProgramPaths, NEW mode \in Modes, Open(path, mode) PROVE Balanced' /\ FdsStable
  BY <1>4, OpenKeeps, ProgramPathsAssumption
<1>5. ASSUME NEW l \in LocalFds, Close(l) PROVE Balanced' /\ FdsStable
  BY <1>5, CloseKeeps
<1>6. ASSUME NEW l \in LocalFds, Read(l) \/ Write(l) PROVE Balanced' /\ FdsStable
  <2>1. Calls("read") \/ Calls("write")
    BY <1>6 DEF Read, Write
  <2> QED BY <1>6, <2>1, TransferKeeps
<1>7. ASSUME NEW f \in UserFiles, CreateFile(f) \/ DeleteFile(f) PROVE Balanced' /\ FdsStable
  BY <1>7, FilesKeep
<1>8. ASSUME NEW prog \in Programs, Exec(prog) PROVE Balanced' /\ FdsStable
  BY <1>8, ExecKeeps
<1> QED BY <1>1, <1>2, <1>3, <1>4, <1>5, <1>6, <1>7, <1>8,
           RegisterKeeps, GrowKeeps, PipeOpenKeeps, ForkKeeps DEF Syscall

\* Nothing is followed on after a stale descriptor was used.
LEMMA StaleIsLast == ASSUME [Next]_vars, stale PROVE UNCHANGED vars
<1>1. ~Tick
  BY DEF Tick, TickActive, TickTimeout, TickReadReady, TickWriteReady, TickNothing, TickEnd, Between
<1>2. ~Syscall
  BY DEF Syscall, Exit, KillSyscall, SignalSyscall, WaitPid, RegisterSignalHandler, Open, Close, Read, Write,
         CreateFile, DeleteFile, WriteBeyondRam, PipeOpen, Fork, Exec, Calls
<1> QED BY <1>1, <1>2 DEF Next, NotFollowed

LEMMA StutterKeeps == ASSUME IInv, Balanced, ~stale, UNCHANGED vars PROVE Balanced' /\ FdsStable
<1>1. PICK held : BooksOf(held) /\ Consistent(fs, held)
  BY DEF Balanced, BooksBalance
<1>2. UNCHANGED <<fs, processes, procFile, run, loc, turn, stale>>
  BY DEF vars
<1>3. Consistent(fs', held) /\ PipesUsed(fs', {}) /\ PathsKept(fs.fdt, fs'.fdt)
  BY <1>1, <1>2 DEF Balanced, PathsKept
<1>4. \A pid \in Pids : Data(pid)' = Data(pid)
  BY <1>2 DEF Data, Alive
<1>5. RamRemembered' /\ LocalsKept
  BY <1>2 DEF Balanced, RamRemembered, LocalsKept, Alive
<1> QED BY <1>1, <1>2, <1>3, <1>4, <1>5, TurnKeeps

LEMMA NextKeeps == ASSUME KInv, [Next]_vars PROVE KInv' /\ (~stale' => FdsStable)
<1>1. IInv /\ IInv'
  BY NextPreserves DEF KInv
<1>2. CASE stale
  <2>1. UNCHANGED vars
    BY <1>2, StaleIsLast
  <2> QED BY <1>1, <1>2, <2>1 DEF vars, KInv
<1>3. CASE ~stale /\ ~stale'
  <2>1. Balanced
    BY <1>3 DEF KInv
  <2>2. Balanced' /\ FdsStable
    BY <1>1, <1>3, <2>1, TickKeeps, SyscallKeeps, StutterKeeps DEF Next, NotFollowed
  <2> QED BY <1>1, <2>2 DEF KInv
<1>4. CASE ~stale /\ stale'
  BY <1>1, <1>4 DEF KInv
<1> QED BY <1>2, <1>3, <1>4

\* As long as no descriptor was used that its owner had replaced, the process
\* manager's descriptors, the table's counts and the files agree: through every
\* fork, exec, pipe, kill and signal, and every way one of them can fail.
THEOREM BooksStayBalanced == Spec => []KInv
<1>1. Init => KInv
  BY InitEstablishes, InitBalances DEF KInv
<1>2. KInv /\ [Next]_vars => KInv'
  BY NextKeeps
<1> QED BY <1>1, <1>2, PTL DEF Spec

\* Who holds a descriptor.
LEMMA HoldersAre ==
    ASSUME NEW fd, NEW x
    PROVE  x \in Holders(fd) <=> \/ \E pid \in Pids : x = Prog(pid) /\ processes[pid].progmemFd = fd
                                 \/ \E pid \in Pids : x = Proc(pid) /\ processes[pid].procFd = fd
                                 \/ \E pid \in Pids : x = Ram(pid) /\ Data(pid).ramFd = fd
                                 \/ \E pid \in Pids, l \in LocalFds : x = Local(pid, l) /\ Data(pid).fds[l] = fd
                                 \/ \E i \in PipeIds : x = Pipe(i) /\ fs.pipes[i].fd = fd
<1> DEFINE progs == {<<"progmem", pid>> : pid \in {p \in Pids : processes[p].progmemFd = fd}}
           procs == {<<"proc", pid>> : pid \in {p \in Pids : processes[p].procFd = fd}}
           rams == {<<"ram", pid>> : pid \in {p \in Pids : Data(p).ramFd = fd}}
           LocalsOf(pid) == {<<"local", pid, l>> : l \in {m \in LocalFds : Data(pid).fds[m] = fd}}
           locals == UNION {LocalsOf(pid) : pid \in Pids}
           pipes == {<<"pipe", i>> : i \in {j \in PipeIds : fs.pipes[j].fd = fd}}
<1>1. x \in progs <=> \E pid \in Pids : x = Prog(pid) /\ processes[pid].progmemFd = fd
  BY DEF Prog
<1>2. x \in procs <=> \E pid \in Pids : x = Proc(pid) /\ processes[pid].procFd = fd
  BY DEF Proc
<1>3. x \in rams <=> \E pid \in Pids : x = Ram(pid) /\ Data(pid).ramFd = fd
  BY DEF Ram
<1>4. x \in locals <=> \E pid \in Pids, l \in LocalFds : x = Local(pid, l) /\ Data(pid).fds[l] = fd
  <2>1. \A pid : x \in LocalsOf(pid) <=> \E l \in LocalFds : x = Local(pid, l) /\ Data(pid).fds[l] = fd
    BY DEF Local
  <2> HIDE DEF LocalsOf
  <2> QED BY <2>1
<1>5. x \in pipes <=> \E i \in PipeIds : x = Pipe(i) /\ fs.pipes[i].fd = fd
  BY DEF Pipe
<1>6. Holders(fd) = progs \cup procs \cup rams \cup locals \cup pipes
  BY DEF Holders
<1> HIDE DEF progs, procs, rams, locals, pipes
<1> QED BY <1>1, <1>2, <1>3, <1>4, <1>5, <1>6

\* What the books call a place is a holder, and the other way about.
LEMMA HoldersAreKept ==
    ASSUME NEW held, BooksOf(held), MountsKept(fs, held), NEW fd
    PROVE  Holders(fd) = KeptAt(held, fd)
<1> SUFFICES ASSUME NEW x PROVE x \in Holders(fd) <=> x \in Places /\ held[x] = fd
  BY DEF KeptAt
<1>1. \A pid \in Pids : /\ held[Prog(pid)] = processes[pid].progmemFd /\ held[Proc(pid)] = processes[pid].procFd
                        /\ held[Ram(pid)] = Data(pid).ramFd
                        /\ \A l \in LocalFds : held[Local(pid, l)] = Data(pid).fds[l]
  BY DEF BooksOf, HasLocals
<1>2. \A i \in PipeIds : held[Pipe(i)] = fs.pipes[i].fd
  BY DEF MountsKept
<1> QED BY <1>1, <1>2, PlaceKinds, HoldersAre

\* Fork, exec, pipes and kill together keep every reference count equal to the
\* number of places the descriptor is kept in, with every way one of them can
\* fail on its way and take back what it did.
THEOREM ReferencesAreCounted == Spec => []RefCountsExact
<1>1. ASSUME KInv PROVE RefCountsExact
  <2> SUFFICES ASSUME ~stale, NEW fd \in ValidFds PROVE fs.fdt[fd].ref = Cardinality(Holders(fd))
    BY DEF RefCountsExact
  <2>1. PICK held : BooksOf(held) /\ Consistent(fs, held)
    BY <1>1 DEF KInv, Balanced, BooksBalance
  <2>2. Holders(fd) = KeptAt(held, fd)
    BY <2>1, HoldersAreKept DEF Consistent
  <2> QED BY <2>1, <2>2 DEF Consistent, Sound, Booked
<1> QED BY <1>1, BooksStayBalanced, PTL

\* The files of a process, as its books have them.
LEMMA OwnFiles ==
    ASSUME NEW held, BooksOf(held), Consistent(fs, held), NEW pid \in Pids
    PROVE  /\ processes[pid].procFd # FdInvalid =>
                /\ fs.fdt[processes[pid].procFd].path = ProcPath(pid)
                /\ fs.fdt[processes[pid].procFd].ref = 1
           /\ Data(pid).ramFd # FdInvalid => OwnsRam(Data(pid), pid) /\ fs.fdt[Data(pid).ramFd].ref = 1
           /\ processes[pid].procFd = FdInvalid => ProcPath(pid) \notin fs.files
           /\ Data(pid).ramFd = FdInvalid => RamPath(pid) \notin fs.files
<1>1. /\ Proc(pid) \in Places /\ ProcPath(pid) \in OwnedPaths /\ Rightful(Proc(pid)) = {ProcPath(pid)}
      /\ Ram(pid) \in Places /\ RamPath(pid) \in OwnedPaths /\ Rightful(Ram(pid)) = {RamPath(pid)}
  BY NotPipes, Owners
<1>2. held \in Books /\ held[Proc(pid)] = processes[pid].procFd /\ held[Ram(pid)] = Data(pid).ramFd
  BY DEF BooksOf
<1>3. Sound(fs.fdt, held) /\ OwnedAreOpen(fs)
  BY DEF Consistent
<1>4. /\ processes[pid].procFd # FdInvalid =>
           /\ fs.fdt[processes[pid].procFd].path = ProcPath(pid)
           /\ fs.fdt[processes[pid].procFd].ref = 1
      /\ processes[pid].procFd = FdInvalid => ~FileIsOpen(fs.fdt, ProcPath(pid))
  BY <1>1, <1>2, <1>3, OwnerKeeps
<1>5. /\ Data(pid).ramFd # FdInvalid =>
           /\ fs.fdt[Data(pid).ramFd].path = RamPath(pid)
           /\ fs.fdt[Data(pid).ramFd].ref = 1
      /\ Data(pid).ramFd = FdInvalid => ~FileIsOpen(fs.fdt, RamPath(pid))
  BY <1>1, <1>2, <1>3, OwnerKeeps
<1> QED BY <1>1, <1>3, <1>4, <1>5 DEF OwnedAreOpen, OwnsRam

\* A living process has its own proc and ram files open and nobody shares them,
\* so a tick of procManProcessTick loads and stores its own registers only.
THEOREM FilesArePrivate == Spec => []PrivateFiles
<1>1. ASSUME KInv PROVE PrivateFiles
  <2> SUFFICES ASSUME ~stale, NEW pid \in Pids, Alive(pid)
               PROVE  /\ fs.fdt[processes[pid].procFd].path = ProcPath(pid)
                      /\ fs.fdt[processes[pid].procFd].ref = 1
                      /\ Data(pid).ramFd # FdInvalid =>
                            OwnsRam(Data(pid), pid) /\ fs.fdt[Data(pid).ramFd].ref = 1
    BY DEF PrivateFiles
  <2>1. PICK held : BooksOf(held) /\ Consistent(fs, held)
    BY <1>1 DEF KInv, Balanced, BooksBalance
  <2>2. processes[pid].procFd # FdInvalid
    BY <1>1 DEF KInv, Balanced, LivesAgree
  <2> QED BY <2>1, <2>2, OwnFiles
<1> QED BY <1>1, BooksStayBalanced, PTL

\* A dead process leaves neither of its files behind, so procManProcessFork can
\* give its pid to another.
THEOREM DeadLeaveNothing == Spec => []DeadLeaveNothingUnlessStale
<1>1. ASSUME KInv PROVE DeadLeaveNothingUnlessStale
  <2> SUFFICES ASSUME ~stale, NEW pid \in Pids, ~Alive(pid)
               PROVE  {ProcPath(pid), RamPath(pid)} \cap fs.files = {}
    BY DEF DeadLeaveNothingUnlessStale
  <2>1. PICK held : BooksOf(held) /\ Consistent(fs, held)
    BY <1>1 DEF KInv, Balanced, BooksBalance
  <2>2. processes[pid].procFd = FdInvalid /\ Data(pid).ramFd = FdInvalid
    BY <1>1 DEF KInv, Balanced, LivesAgree, Data
  <2>3. ProcPath(pid) \notin fs.files /\ RamPath(pid) \notin fs.files
    BY <2>1, <2>2, OwnFiles
  <2> QED BY <2>3
<1> QED BY <1>1, BooksStayBalanced, PTL

\* A pipe is mounted, on its own backing file, exactly as long as somebody has
\* an end of it open: procManProcessCloseFile unmounts it with the last
\* reference, whoever drops it, also in a kill or in a pipe taken back.
THEOREM PipesLiveAsLongAsUsed == Spec => []PipeLifetime
<1>1. ASSUME KInv PROVE PipeLifetime
  <2> SUFFICES ASSUME ~stale, NEW i \in PipeIds
               PROVE  /\ PipeDev(i) \in fs.files <=> FileIsOpen(fs.fdt, PipeDev(i))
                      /\ PipeDev(i) \in fs.files <=> PipeBacking(i) \in fs.files
                      /\ PipeDev(i) \in fs.files => fs.fdt[fs.pipes[i].fd].path = PipeBacking(i)
    BY DEF PipeLifetime
  <2>1. PICK held : BooksOf(held) /\ Consistent(fs, held)
    BY <1>1 DEF KInv, Balanced, BooksBalance
  <2>2. /\ held \in Books /\ Sound(fs.fdt, held) /\ Pipe(i) \in Places
        /\ PipeBacking(i) \in OwnedPaths /\ Rightful(Pipe(i)) = {PipeBacking(i)}
    BY <2>1, PlaceKinds, Owners DEF BooksOf, Consistent
  <2>3. held[Pipe(i)] = fs.pipes[i].fd /\ (PipeDev(i) \in fs.files <=> held[Pipe(i)] # FdInvalid)
    BY <2>1 DEF Consistent, MountsKept
  <2>4. \A path \in Paths : FileIsOpen(fs.fdt, path) => path \in fs.files
    BY <2>1, PathsAssumption DEF Consistent, OpenExist, FileIsOpen, InUse
  <2>5. PipeDev(i) \in fs.files <=> FileIsOpen(fs.fdt, PipeDev(i))
    BY <1>1, <2>4, PathTypes DEF KInv, Balanced, PipesUsed
  <2>6. PipeBacking(i) \in fs.files <=> FileIsOpen(fs.fdt, PipeBacking(i))
    BY <2>1, <2>2, <2>4, PathTypes DEF Consistent, OwnedAreOpen
  <2>7. /\ FileIsOpen(fs.fdt, PipeBacking(i)) <=> held[Pipe(i)] # FdInvalid
        /\ held[Pipe(i)] # FdInvalid => fs.fdt[held[Pipe(i)]].path = PipeBacking(i)
    BY <2>2, OwnerKeeps
  <2> QED BY <2>3, <2>5, <2>6, <2>7
<1> QED BY <1>1, BooksStayBalanced, PTL

\* A process that waits to read or write still holds the descriptor it waits on,
\* which procManProcessTick looks at without asking who holds it.
THEOREM WaitersHoldTheirFds == Spec => []WaitedFdsAreHeld
<1>1. KInv => WaitedFdsAreHeld
  BY DEF KInv, Balanced, WaitedFdsAreHeld
<1> QED BY <1>1, BooksStayBalanced, PTL

\* Nobody but the process itself changes the descriptors it holds: no fork,
\* kill, pipe or signal of another closes them or puts another file under them.
THEOREM DescriptorsAreStable == Spec => OthersFdsAreStable
<1> DEFINE Stable == ~stale' => FdsStable
<1>1. KInv /\ [Next]_vars => [Stable]_vars
  BY NextKeeps
<1>2. Spec => [][Stable]_vars
  <2> HIDE DEF Stable
  <2> QED BY <1>1, BooksStayBalanced, PTL DEF Spec
<1> QED BY <1>2, PTL DEF OthersFdsAreStable, FdsStable
-----------------------------------------------------------------------------
\* What one process is told when a step ends its waitpid.
ToldTruth(pid) ==
    LET target == processes[pid].wait.pid
        r0 == Data(pid)'.r0
    IN processes[pid].state = "WaitingWaitpid" /\ processes'[pid].state = "Active" =>
         /\ r0 \in {"exit", "killed"} <=> Alive(target) /\ processes'[target].progmemFd = FdInvalid
         /\ r0 = "timeout" => processes[pid].wait.timed
         /\ r0 \in {"exit", "killed", "timeout", "interrupted"}

AllTold == \A pid \in Pids : ToldTruth(pid)

\* Most steps end no waitpid.
LEMMA NobodyTold ==
    ASSUME \A q \in Pids : \/ processes'[q] = processes[q]
                           \/ processes[q].state # "WaitingWaitpid"
                           \/ processes'[q].state # "Active"
    PROVE  AllTold
BY DEF AllTold, ToldTruth

LEMMA CallerNotTold ==
    ASSUME IInv, NEW op, Calls(op), \A q \in Pids : q # run => processes'[q] = processes[q]
    PROVE  AllTold
BY CallerFacts, NobodyTold DEF Calls

\* A kill tells every waiter of its target how the target ended.
LEMMA KillTells ==
    ASSUME IInv, NEW op, Calls(op), NEW pid \in Pids, NEW status \in {"exit", "killed"},
           NEW from, NEW progmemFd, NEW fds, NEW ramFd, Kill(pid, status, from, progmemFd, fds, ramFd),
           run' = PidMax \/ run' = run
    PROVE  AllTold
<1> SUFFICES ASSUME NEW q \in Pids, processes[q].state = "WaitingWaitpid", processes'[q].state = "Active"
             PROVE  ToldTruth(q)
  BY DEF AllTold, ToldTruth
<1> DEFINE Waiter(r) == r # pid /\ WaitsFor(r, pid)
<1>1. /\ processes' = [r \in Pids |->
            IF r = pid THEN UnusedProcess
            ELSE IF Waiter(r) THEN [processes[r] EXCEPT !.state = "Active", !.wait = NoWait]
            ELSE processes[r]]
      /\ procFile' = [r \in Pids |->
            IF r = pid THEN BlankData
            ELSE IF Waiter(r) THEN [procFile[r] EXCEPT !.r0 = status]
            ELSE procFile[r]]
  BY DEF Kill
<1>2. q # pid /\ Waiter(q)
  BY <1>1 DEF UnusedProcess
<1>3. processes[q].wait.pid = pid /\ Alive(pid)
  BY <1>2 DEF WaitsFor, IInv, WaitersHaveTargets
<1>4. processes'[pid].progmemFd = FdInvalid
  BY <1>1 DEF UnusedProcess
<1>5. procFile'[q].r0 = status
  <2>1. procFile'[q] = [procFile[q] EXCEPT !.r0 = status] /\ procFile[q] \in SafeDatas
    BY <1>1, <1>2 DEF IInv, StateOK
  <2> QED BY <2>1 DEF SafeDatas, ProcDatas
<1>6. q # run'
  BY SizesAssumption DEF Calls, Pids
<1>7. Data(q)'.r0 = status
  BY <1>5, <1>6 DEF Data
<1> QED BY <1>3, <1>4, <1>7 DEF ToldTruth

\* A timeout or a signal tells one process, whose target goes on living.
LEMMA OneIsTold ==
    ASSUME IInv, NEW pid \in Pids, NEW p, processes' = [processes EXCEPT ![pid] = p],
           p.progmemFd = processes[pid].progmemFd,
           processes[pid].state = "WaitingWaitpid" =>
               \/ Data(pid)'.r0 = "timeout" /\ processes[pid].wait.timed
               \/ Data(pid)'.r0 = "interrupted"
    PROVE  AllTold
<1>1. processes'[pid] = p /\ \A q \in Pids : q # pid => processes'[q] = processes[q]
  BY DEF IInv, StateOK
<1> SUFFICES ASSUME NEW q \in Pids, processes[q].state = "WaitingWaitpid", processes'[q].state = "Active"
             PROVE  ToldTruth(q)
  BY DEF AllTold, ToldTruth
<1>2. q = pid
  BY <1>1
<1>3. Alive(processes[q].wait.pid) /\ processes[q].wait.pid \in Pids
  BY DEF IInv, StateOK, WaitersHaveTargets, Processes, Waits
<1>4. processes'[processes[q].wait.pid].progmemFd # FdInvalid
  BY <1>1, <1>3 DEF Alive
<1> QED BY <1>2, <1>4 DEF ToldTruth

LEMMA TimeoutTells == ASSUME IInv, Balanced, TickTimeout PROVE AllTold
<1> PICK pid \in Pids : pid = turn
  BY DEF IInv, StateOK
<1>1. /\ processes[pid] \in Processes /\ procFile[pid] \in SafeDatas
      /\ processes[pid].state = "WaitingWaitpid" /\ processes[pid].wait.timed
      /\ processes' = [processes EXCEPT ![pid] = Woken] /\ run' = pid
      /\ loc' = [procFile[pid] EXCEPT !.r0 = "timeout"]
  BY DEF TickTimeout, Load, IInv, StateOK
<1>2. Woken.progmemFd = processes[pid].progmemFd
  BY <1>1 DEF Woken, Processes
<1>3. processes'[pid].progmemFd = processes[pid].progmemFd
  BY <1>1, <1>2 DEF IInv, StateOK
<1>4. Alive(pid)
  BY <1>1 DEF Balanced, LivesAgree
<1>5. Data(pid)' = loc'
  BY <1>1, <1>3, <1>4 DEF Data, Alive
<1>6. Data(pid)'.r0 = "timeout"
  BY <1>1, <1>5 DEF SafeDatas, ProcDatas
<1> QED BY <1>1, <1>2, <1>6, OneIsTold

LEMMA SignalTells == ASSUME IInv, NEW pid \in Pids, SignalSyscall(pid) PROVE AllTold
<1> DEFINE data == Interrupted(procFile[pid], processes[pid].state)
           p == [processes[pid] EXCEPT !.state = "Active", !.wait = NoWait]
<1>1. /\ procFile[pid] \in SafeDatas /\ processes[pid] \in Processes /\ Calls("signal")
      /\ run' = run
  BY DEF SignalSyscall, SendSignal, LosesRam, IInv, StateOK
<1>2. CASE LosesRam
  BY <1>2, NobodyTold DEF LosesRam
<1>3. CASE ~LosesRam
  <2>1. /\ processes' = [processes EXCEPT ![pid].state = "Active", ![pid].wait = NoWait]
        /\ \E newData \in {data, GrownRam(data), LostRam(data)} : procFile' = [procFile EXCEPT ![pid] = newData]
    BY <1>3 DEF SignalSyscall, SendSignal
  <2>2. processes' = [processes EXCEPT ![pid] = p] /\ p.progmemFd = processes[pid].progmemFd
    BY <1>1, <2>1 DEF IInv, StateOK, Processes
  <2>3. ASSUME processes[pid].state = "WaitingWaitpid"
        PROVE  Data(pid)'.r0 = "interrupted"
    <3>1. data = [procFile[pid] EXCEPT !.r0 = "interrupted"]
      BY <2>3 DEF Interrupted
    <3>2. /\ data.r0 = "interrupted" /\ GrownRam(data).r0 = "interrupted" /\ LostRam(data).r0 = "interrupted"
      BY <1>1, <3>1 DEF SafeDatas, ProcDatas, GrownRam, LostRam
    <3> HIDE DEF data
    <3>3. procFile'[pid].r0 = "interrupted"
      BY <2>1, <3>2 DEF IInv, StateOK
    <3>4. pid # run'
      BY <1>1, <2>3 DEF Calls
    <3> QED BY <3>3, <3>4 DEF Data
  <2> HIDE DEF p
  <2> QED BY <2>2, <2>3, OneIsTold
<1> QED BY <1>2, <1>3

LEMMA TickTells == ASSUME IInv, Balanced, Tick PROVE AllTold
<1>1. CASE TickTimeout
  BY <1>1, TimeoutTells
<1>2. CASE TickActive \/ TickReadReady \/ TickWriteReady
  <2>1. processes[turn].state # "WaitingWaitpid" /\ \A q \in Pids : q # turn => processes'[q] = processes[q]
    BY <1>2 DEF TickActive, TickReadReady, TickWriteReady, Load, IInv, StateOK
  <2> QED BY <2>1, NobodyTold
<1>3. CASE TickNothing \/ TickEnd
  BY <1>3, NobodyTold DEF TickNothing, TickEnd
<1> QED BY <1>1, <1>2, <1>3 DEF Tick

LEMMA SyscallTells == ASSUME IInv, Syscall PROVE AllTold
<1> DEFINE Others == \A q \in Pids : q # run => processes'[q] = processes[q]
<1>1. ASSUME NEW status \in {"exit", "killed"}, Exit(status) PROVE AllTold
  <2>1. Calls(status) /\ run \in Pids
    BY <1>1, CallerFacts DEF Exit
  <2> QED BY <1>1, <2>1, KillTells DEF Exit, EndTurn
<1>2. ASSUME NEW pid \in Pids, KillSyscall(pid) PROVE AllTold
  BY <1>2, KillTells, NobodyTold DEF KillSyscall
<1>3. ASSUME NEW pid \in Pids, SignalSyscall(pid) PROVE AllTold
  BY <1>3, SignalTells
<1>4. ASSUME NEW pid \in Pids, NEW timed \in BOOLEAN, WaitPid(pid, timed) PROVE AllTold
  <2>1. Others
    BY <1>4 DEF WaitPid, IInv, StateOK
  <2> QED BY <1>4, <2>1, CallerNotTold DEF WaitPid
<1>5. ASSUME UNCHANGED processes PROVE AllTold
  BY <1>5, NobodyTold
<1>6. ASSUME NEW l \in LocalFds, Close(l) \/ Read(l) \/ Write(l) PROVE AllTold
  <2>1. Others
    BY <1>6 DEF Close, Read, Write, IInv, StateOK
  <2>2. Calls("close") \/ Calls("read") \/ Calls("write")
    BY <1>6 DEF Close, Read, Write
  <2> QED BY <2>1, <2>2, CallerNotTold
<1>7. ASSUME WriteBeyondRam PROVE AllTold
  <2>1. Calls("grow") /\ run \in Pids
    BY <1>7, CallerFacts DEF WriteBeyondRam
  <2>2. \/ UNCHANGED processes
        \/ Kill(run, "killed", WithoutRam(run, loc), processes[run].progmemFd, loc.fds, FdInvalid) /\ EndTurn
    BY <1>7 DEF WriteBeyondRam, LosesRam
  <2> QED BY <1>5, <2>1, <2>2, KillTells DEF EndTurn
<1>8. ASSUME Fork PROVE AllTold
  <2>1. UNCHANGED processes \/ \E child \in UnusedPids : ForkChild(child)
    BY <1>8 DEF Fork, ForkFails
  <2>2. ASSUME NEW child \in UnusedPids, ForkChild(child) PROVE AllTold
    <3>1. processes[child].state = "Unused" /\ \A q \in Pids : q # child => processes'[q] = processes[q]
      BY <2>2 DEF UnusedPids, ForkChild, IInv, StateOK
    <3> QED BY <3>1, NobodyTold
  <2> QED BY <1>5, <2>1, <2>2
<1>9. ASSUME NEW prog \in Programs, Exec(prog) PROVE AllTold
  <2>1. Calls("exec") /\ run \in Pids
    BY <1>9, CallerFacts DEF Exec
  <2>2. \/ Others
        \/ \E from, progmemFd, fds, ramFd : Kill(run, "killed", from, progmemFd, fds, ramFd) /\ EndTurn
    BY <1>9 DEF Exec, IInv, StateOK
  <2>3. CASE Others
    BY <2>1, <2>3, CallerNotTold
  <2>4. CASE \E from, progmemFd, fds, ramFd : Kill(run, "killed", from, progmemFd, fds, ramFd) /\ EndTurn
    BY <2>1, <2>4, KillTells DEF EndTurn
  <2> QED BY <2>2, <2>3, <2>4
<1>10. ASSUME RegisterSignalHandler \/ PipeOpen PROVE AllTold
  BY <1>5, <1>10 DEF RegisterSignalHandler, OnlyLoc, PipeOpen
<1>11. ASSUME NEW path, NEW mode, Open(path, mode) PROVE AllTold
  BY <1>5, <1>11 DEF Open
<1>12. ASSUME NEW f, CreateFile(f) \/ DeleteFile(f) PROVE AllTold
  BY <1>5, <1>12 DEF CreateFile, DeleteFile
<1> QED BY <1>1, <1>2, <1>3, <1>4, <1>6, <1>7, <1>8, <1>9, <1>10, <1>11, <1>12 DEF Syscall

\* What waitpid reports is true when it is reported: an exit status in the very
\* step in which procManProcessKill ends the target, a timeout to one who asked
\* for it, an interruption while the target lives.
THEOREM WaitpidTellsTheTruth == Spec => WaitpidTruthful
<1>1. ASSUME KInv, [Next]_vars PROVE [AllTold]_vars
  <2>1. CASE stale
    BY <1>1, <2>1, StaleIsLast
  <2>2. CASE ~stale /\ Tick
    BY <1>1, <2>2, TickTells DEF KInv
  <2>3. CASE Syscall
    BY <1>1, <2>3, SyscallTells DEF KInv
  <2> QED BY <1>1, <2>1, <2>2, <2>3 DEF Next, NotFollowed
<1>2. Spec => [][AllTold]_vars
  BY <1>1, BooksStayBalanced, PTL DEF Spec
<1> QED BY <1>2, PTL DEF WaitpidTruthful, AllTold, ToldTruth
=============================================================================

------------------------------- MODULE ProcFs -------------------------------
(***************************************************************************)
(* What the process manager does to the file system, as operators on a     *)
(* file system value fs = [fdt, files, pipes]: the descriptor table, the   *)
(* paths that exist and, per pipe, the descriptor of its backing file and  *)
(* the number of buffered units (src/kernel/procman.c, kernelmount.c).     *)
(*                                                                         *)
(* All calls made between two process ticks run to completion in one       *)
(* thread, so a sequence of calls is written as its combined effect.       *)
(***************************************************************************)
EXTENDS KernelFs

CONSTANTS
    PidMax,     \* ProcManPidMax
    MaxFds,     \* ProcManMaxFds: local fds are 1 .. MaxFds - 1
    PipeMax,    \* ProcManMaxPipes: pipe ids are 1 .. PipeMax - 1
    PipeSize,   \* units a pipe can hold (ProcManPipeSize less its two offsets and one)
    Programs,   \* programs on the read-only volume
    UserFiles   \* files programs may create, open and delete on a writable volume

ASSUME SizesAssumption ==
    /\ PidMax \in Nat \ {0} /\ MaxFds \in Nat /\ MaxFds >= 3
    /\ PipeMax \in Nat \ {0} /\ PipeSize \in Nat \ {0}
    /\ Programs # {}

Pids == 0 .. (PidMax - 1)
LocalFds == 1 .. (MaxFds - 1)
PipeIds == 1 .. (PipeMax - 1)

ProcPath(pid) == <<"/tmp/proc", pid>>
RamPath(pid) == <<"/tmp/ram", pid>>
PipeDev(i) == <<"/dev/pipe", i>>
PipeBacking(i) == <<"/tmp/pipe", i>>
ProgPath(prog) == <<"/bin", prog>>
UserPath(f) == <<"/home", f>>

ProgPaths == {ProgPath(prog) : prog \in Programs}
PipeDevs == {PipeDev(i) : i \in PipeIds}
AllPaths ==
    ProgPaths \cup PipeDevs \cup {PipeBacking(i) : i \in PipeIds}
      \cup {ProcPath(pid) : pid \in Pids} \cup {RamPath(pid) : pid \in Pids}
      \cup {UserPath(f) : f \in UserFiles}

\* kernelFsFileCanOpenMany: files of a read-only volume and circular buffers.
ASSUME PathsAreThese == Paths = AllPaths /\ SharedPaths = ProgPaths \cup PipeDevs

Pipes == [PipeIds -> [fd : Fds, len : 0 .. PipeSize]]
NoPipe == [fd |-> FdInvalid, len |-> 0]
FileSystems == [fdt : Tables, files : SUBSET Paths, pipes : Pipes]

NoFds == [l \in LocalFds |-> FdInvalid]
GlobalFds(fds) == {fds[l] : l \in LocalFds} \ {FdInvalid}

PipeOf(fs, fd) == {i \in PipeIds : fs.fdt[fd].path = PipeDev(i)}

\* Reads and writes look at the mode first; only a pipe can then block.
CanRead(fs, fd) ==
    /\ InUse(fs.fdt, fd)
    /\ Readable(fs.fdt[fd].mode)
    /\ \A i \in PipeOf(fs, fd) : fs.pipes[i].len > 0

CanWrite(fs, fd) ==
    /\ InUse(fs.fdt, fd)
    /\ Writable(fs.fdt[fd].mode)
    /\ \A i \in PipeOf(fs, fd) : fs.pipes[i].len < PipeSize

\* A transfer moves as much as was asked for, stopping before it would block.
AfterRead(fs, fd) ==
    IF PipeOf(fs, fd) = {} THEN {fs}
    ELSE UNION {{[fs EXCEPT !.pipes[i].len = n] : n \in 0 .. fs.pipes[i].len} : i \in PipeOf(fs, fd)}
AfterWrite(fs, fd) ==
    IF PipeOf(fs, fd) = {} THEN {fs}
    ELSE UNION {{[fs EXCEPT !.pipes[i].len = n] : n \in fs.pipes[i].len .. PipeSize} : i \in PipeOf(fs, fd)}

\* kernelUnmount and deletion of the backing file, for every pipe in ids that
\* is mounted. A pipe that is not mounted has no device to find its entry by.
Unmount(fs, ids) ==
    LET gone == {i \in ids : PipeDev(i) \in fs.files}
        backing == {fs.pipes[i].fd : i \in gone}
    IN [fdt   |-> [fd \in Fds |-> IF fd \in backing THEN FileClose(fs.fdt, fd)[fd] ELSE fs.fdt[fd]],
        files |-> fs.files \ ({PipeDev(i) : i \in gone} \cup {PipeBacking(i) : i \in gone}),
        pipes |-> [i \in PipeIds |-> IF i \in gone THEN NoPipe ELSE fs.pipes[i]]]

\* Mutant: the last reference to a pipe goes unnoticed.
CloseFilesOnly(fs, S) ==
    [fs EXCEPT !.fdt = [fd \in Fds |-> IF fd \in S THEN FileClose(fs.fdt, fd)[fd] ELSE fs.fdt[fd]]]

\* procManProcessCloseFile for each of the global fds in S: a pipe whose last
\* reference goes is unmounted.
CloseFiles(fs, S) ==
    LET closed == [fd \in Fds |-> IF fd \in S THEN FileClose(fs.fdt, fd)[fd] ELSE fs.fdt[fd]]
        ended == {i \in PipeIds : /\ \E fd \in S : fs.fdt[fd].path = PipeDev(i)
                                  /\ ~FileIsOpen(closed, PipeDev(i))}
    IN Unmount([fs EXCEPT !.fdt = closed], ended)

\* procManProcessOpenFile takes the first local fd that is free, except that it
\* takes the last one for a full table.
FirstLocal(fds) ==
    IF \E l \in LocalFds : fds[l] = FdInvalid
    THEN CHOOSE l \in LocalFds : fds[l] = FdInvalid /\ \A m \in 1 .. (l - 1) : fds[m] # FdInvalid
    ELSE MaxFds

MayOpenLocal(fds) == FirstLocal(fds) # MaxFds - 1

\* The result is the new file system, the new local table and the local fd.
OpenLocal(fs, fds, path, mode) ==
    IF ~MayOpenLocal(fds) \/ ~MayOpen(fs.fdt, fs.files, path)
    THEN [fs |-> fs, fds |-> fds, local |-> FdInvalid]
    ELSE LET l == FirstLocal(fds)
             new == NewFd(fs.fdt)
         IN [fs    |-> [fs EXCEPT !.fdt = FileOpen(@, path, mode)],
             fds   |-> [fds EXCEPT ![l] = new],
             local |-> IF new = FdInvalid THEN FdInvalid ELSE l]

\* kernelMount of a circular buffer. Opening the backing file in a full table
\* writes the slot of the invalid fd and reports failure; `room' says whether
\* the device and mount tables have room, and without it the file is closed.
Mount(fs, i, room) ==
    LET new == NewFd(fs.fdt)
        opened == FileOpen(fs.fdt, PipeBacking(i), "RW")
    IN IF new # FdInvalid /\ room
       THEN [fs EXCEPT !.fdt = opened, !.files = @ \cup {PipeDev(i)}, !.pipes[i] = [fd |-> new, len |-> 0]]
       ELSE [fs EXCEPT !.fdt = IF new # FdInvalid THEN fs.fdt ELSE opened]

\* The ram file of a process is closed, resized and opened again, in both
\* procManProcessMemoryWriteBlock and procManProcessExecCommon. The slot it
\* gets need not be the one it had.
ReopenRam(fs, pid, ramFd) ==
    LET closed == FileClose(fs.fdt, ramFd)
    IN [fs EXCEPT !.fdt = FileOpen(closed, RamPath(pid), "RW")]
ReopenedRamFd(fs, ramFd) == NewFd(FileClose(fs.fdt, ramFd))

\* procManProcessFork. Descriptors at the limit of their count are opened
\* again, in the order of the local table, each in the highest slot still free:
\* a choice of slots for them, of which there is none if too few are free.
AtLimit(fs, fds) == {l \in LocalFds : fds[l] # FdInvalid /\ ~MayDupe(fs.fdt, fds[l])}
Reopenings(fs, fds) ==
    {fresh \in [AtLimit(fs, fds) -> FreeFds(fs.fdt)] :
        /\ \A l, m \in AtLimit(fs, fds) : l < m => fresh[l] > fresh[m]
        /\ \A l \in AtLimit(fs, fds), fd \in FreeFds(fs.fdt) :
              fd > fresh[l] => \E m \in AtLimit(fs, fds) : fresh[m] = fd}

MayReopen(fs, fds) == \A l \in AtLimit(fs, fds) : fs.fdt[fds[l]].path \in SharedPaths

\* Mutants: the child shares the descriptors without a reference of its own;
\* the child's table is the parent's, also where a descriptor was opened again.
DupeAllUncounted(fs, fds, fresh) == fs
DupedFdsCopied(fs, fds, fresh) == fds

DupeAll(fs, fds, fresh) ==
    LET Reopened(fd) == {l \in AtLimit(fs, fds) : fresh[l] = fd}
        Slot(fd) ==
            IF Reopened(fd) # {}
            THEN [fs.fdt[fds[CHOOSE l \in Reopened(fd) : TRUE]] EXCEPT !.ref = 1]
            ELSE IF fd \in GlobalFds(fds) /\ MayDupe(fs.fdt, fd) THEN FileDupe(fs.fdt, fd)[fd]
            ELSE fs.fdt[fd]
    IN [fs EXCEPT !.fdt = [fd \in Fds |-> Slot(fd)]]
DupedFds(fs, fds, fresh) ==
    [l \in LocalFds |-> IF l \in AtLimit(fs, fds) THEN fresh[l] ELSE fds[l]]

\* kernelFsFileDupeOrOpen of the program file, which is always one that can be
\* opened again.
DupeOrOpenTable(t, fd) == IF MayDupe(t, fd) THEN FileDupe(t, fd) ELSE FileOpen(t, t[fd].path, t[fd].mode)
DupeOrOpenFd(t, fd) == IF MayDupe(t, fd) THEN fd ELSE NewFd(t)

\* Mutant: the child's proc file is left behind.
UndoForkLeaves(fs, child) ==
    [fs EXCEPT !.fdt = FileClose(@, FdInvalid), !.files = @ \cup {ProcPath(child)}]

\* Every way a fork fails after a pid was found comes to the same: what was
\* opened is closed again, the invalid fd among it, and whatever files have the
\* names of the child's are deleted unless they are open.
UndoFork(fs, child) ==
    [fs EXCEPT !.fdt = FileClose(@, FdInvalid),
               !.files = FileDelete(fs.fdt, FileDelete(fs.fdt, @, ProcPath(child)), RamPath(child))]
=============================================================================

------------------------------- MODULE ProcMan -------------------------------
(***************************************************************************)
(* The process manager (src/kernel/procman.c): one thread gives the        *)
(* processes ticks in turn; in its tick a process runs a number of         *)
(* instructions, among them system calls.  The registers and descriptors   *)
(* of a process (its ProcData) live in a file.  A tick loads them into a   *)
(* local copy, which is written back when the tick ends, so during a tick  *)
(* there are two versions, and each function uses one or the other.        *)
(*                                                                         *)
(* A tick is TickBegin, any number of system calls, and TickEnd or the     *)
(* death of the process.  Memory accesses that change nothing but data are *)
(* not steps; a write beyond the end of RAM, which replaces the ram file's *)
(* descriptor, is one (WriteBeyondRam).                                    *)
(***************************************************************************)
EXTENDS ProcFs, FiniteSets

CONSTANT ProgramPaths, \* the paths programs open
         Ops,     \* the system calls the programs of the instance make
         Success  \* outcomes of requests for space on /tmp or in a kernel table

ASSUME SuccessAssumption == Success \subseteq BOOLEAN
ASSUME ProgramPathsAssumption == ProgramPaths \subseteq Paths
\* init keeps three files open from the start; the code has 64 slots.
ASSUME BootAssumption == FdMax >= 4

VARIABLES
    fs,         \* kernelFsData.fdt, the files, kernelMountedDevices
    processes,  \* procManData.processes
    procFile,   \* the ProcData in /tmp/proc<pid>
    run,        \* the process whose tick it is, or PidMax between two ticks
    loc,        \* the copy of that process's ProcData in procManProcessTick
    turn,       \* the pid procManTickAll has come to
    stale       \* history: a descriptor was used that its owner had replaced

vars == <<fs, processes, procFile, run, loc, turn, stale>>

\* Only what waitpid leaves in r0 is told apart, until the process has run.
R0 == {"other", "exit", "killed", "timeout", "interrupted", "noprocess"}
ProcDatas == [r0 : R0, handler : BOOLEAN, ramFd : Fds, fds : [LocalFds -> Fds]]
Consumed(data) == [data EXCEPT !.r0 = "other"]
BlankData == [r0 |-> "other", handler |-> FALSE, ramFd |-> FdInvalid, fds |-> NoFds]

States == {"Unused", "Active", "WaitingWaitpid", "WaitingRead", "WaitingWrite"}
\* stateData is kept blank in states that do not look at it.
Waits == [pid : Pids, timed : BOOLEAN, fd : Fds]
NoWait == [pid |-> 0, timed |-> FALSE, fd |-> FdInvalid]
Processes == [state : States, progmemFd : Fds, procFd : Fds, wait : Waits]
UnusedProcess == [state |-> "Unused", progmemFd |-> FdInvalid, procFd |-> FdInvalid, wait |-> NoWait]

TypeOK ==
    /\ fs \in FileSystems
    /\ processes \in [Pids -> Processes]
    /\ procFile \in [Pids -> ProcDatas]
    /\ run \in Pids \cup {PidMax}
    /\ loc \in ProcDatas
    /\ turn \in Pids
    /\ stale \in BOOLEAN

\* After boot: procManProcessNew has opened the files of init, pid 0.
Boot0 == FileOpen(EmptyTable, ProgPath(CHOOSE prog \in Programs : TRUE), "RO")
Boot1 == FileOpen(Boot0, ProcPath(0), "RW")
Boot2 == FileOpen(Boot1, RamPath(0), "RW")
InitProcess == [state |-> "Active", progmemFd |-> NewFd(EmptyTable), procFd |-> NewFd(Boot0), wait |-> NoWait]

Init ==
    /\ fs = [fdt   |-> Boot2,
             files |-> ProgPaths \cup {ProcPath(0), RamPath(0)},
             pipes |-> [i \in PipeIds |-> NoPipe]]
    /\ processes = [pid \in Pids |-> IF pid = 0 THEN InitProcess ELSE UnusedProcess]
    /\ procFile = [pid \in Pids |-> IF pid = 0 THEN [BlankData EXCEPT !.ramFd = NewFd(Boot1)] ELSE BlankData]
    /\ run = PidMax
    /\ loc = BlankData
    /\ turn = 0
    /\ stale = FALSE

\* procManGetProcessByPid
Alive(pid) == processes[pid].progmemFd # FdInvalid

\* The ProcData that counts: the copy during a tick, the file otherwise.
Data(pid) == IF pid = run /\ Alive(pid) THEN loc ELSE procFile[pid]

OwnsRam(data, pid) == data.ramFd # FdInvalid /\ fs.fdt[data.ramFd].path = RamPath(pid)
-----------------------------------------------------------------------------
\* Mutant: the search for waiters stops at the first.
WaitsForFirst(q, pid) ==
    /\ processes[q].state = "WaitingWaitpid" /\ processes[q].wait.pid = pid
    /\ \A r \in 0 .. (q - 1) : processes[r].state # "WaitingWaitpid" \/ processes[r].wait.pid # pid

WaitsFor(q, pid) == processes[q].state = "WaitingWaitpid" /\ processes[q].wait.pid = pid

\* procManProcessKill, in file system `from'. The fds to close are those of the
\* given or loaded ProcData, but the ram fd is always read from the file. The
\* path under that fd is copied to a buffer that stays uninitialised if the slot
\* is not in use, and the file named in the buffer is deleted.
Kill(pid, status, from, progmemFd, fds, ramFd) ==
    LET closed == CloseFiles(from, GlobalFds(fds))
        noProg == FileClose(closed.fdt, progmemFd)
        noRam == IF ramFd = FdInvalid THEN noProg ELSE FileClose(noProg, ramFd)
        named == IF ramFd = FdInvalid THEN {NoPath}
                 ELSE IF InUse(noProg, ramFd) THEN {noProg[ramFd].path} ELSE closed.files \cup {NoPath}
        procPath == noRam[processes[pid].procFd].path
        noProc == FileClose(noRam, processes[pid].procFd)
        Waiter(q) == q # pid /\ WaitsFor(q, pid)
    IN /\ \E path \in named :
            fs' = [closed EXCEPT !.fdt = noProc,
                                 !.files = FileDelete(noProc, FileDelete(noRam, @, path), procPath)]
       /\ processes' = [q \in Pids |->
                IF q = pid THEN UnusedProcess
                ELSE IF Waiter(q) THEN [processes[q] EXCEPT !.state = "Active", !.wait = NoWait]
                ELSE processes[q]]
       /\ procFile' = [q \in Pids |->
                IF q = pid THEN BlankData
                ELSE IF Waiter(q) THEN [procFile[q] EXCEPT !.r0 = status]
                ELSE procFile[q]]
       /\ stale' = (stale \/ (ramFd # FdInvalid /\ noProg[ramFd].path # RamPath(pid)))

\* Mutants: the round does not start again; it passes over those who wait.
EndTurnNoWrap == run' = PidMax /\ loc' = BlankData /\ turn' = turn + 1
EndTurnSkipsWaiting ==
    /\ run' = PidMax
    /\ loc' = BlankData
    /\ turn' = LET next == (turn + 1) % PidMax IN IF processes[next].state = "Active" THEN next ELSE turn

\* The end of a tick, of whatever process: the next one's turn.
EndTurn ==
    /\ run' = PidMax
    /\ loc' = BlankData
    /\ turn' = (turn + 1) % PidMax
-----------------------------------------------------------------------------
\* procManProcessTick up to the first instruction, and its returns before it.
Load(data, process, newFs) ==
    /\ run' = turn
    /\ loc' = data
    /\ processes' = [processes EXCEPT ![turn] = process]
    /\ fs' = newFs
    /\ UNCHANGED <<procFile, turn, stale>>

Woken == [processes[turn] EXCEPT !.state = "Active", !.wait = NoWait]

Between == ~stale /\ run = PidMax

TickActive ==
    /\ Between
    /\ processes[turn].state = "Active"
    /\ Load(Consumed(procFile[turn]), processes[turn], fs)

\* Mutants: a wait without a timeout expires; an expired one is not ended.
TickTimeoutAlways ==
    /\ Between
    /\ processes[turn].state = "WaitingWaitpid"
    /\ Load([procFile[turn] EXCEPT !.r0 = "timeout"], Woken, fs)
TickTimeoutLost ==
    /\ Between
    /\ processes[turn].state = "WaitingWaitpid" /\ processes[turn].wait.timed
    /\ Load([procFile[turn] EXCEPT !.r0 = "timeout"], processes[turn], fs)

TickTimeout ==
    /\ Between
    /\ processes[turn].state = "WaitingWaitpid" /\ processes[turn].wait.timed
    /\ Load([procFile[turn] EXCEPT !.r0 = "timeout"], Woken, fs)

TickReadReady ==
    /\ Between
    /\ processes[turn].state = "WaitingRead" /\ CanRead(fs, processes[turn].wait.fd)
    /\ \E newFs \in AfterRead(fs, processes[turn].wait.fd) :
          Load(Consumed(procFile[turn]), Woken, newFs)

TickWriteReady ==
    /\ Between
    /\ processes[turn].state = "WaitingWrite" /\ CanWrite(fs, processes[turn].wait.fd)
    /\ \E newFs \in AfterWrite(fs, processes[turn].wait.fd) :
          Load(Consumed(procFile[turn]), Woken, newFs)

\* No process has this pid, or it goes on waiting.
TickNothing ==
    /\ Between
    /\ \/ ~Alive(turn)
       \/ processes[turn].state = "WaitingWaitpid"
       \/ processes[turn].state = "WaitingRead" /\ ~CanRead(fs, processes[turn].wait.fd)
       \/ processes[turn].state = "WaitingWrite" /\ ~CanWrite(fs, processes[turn].wait.fd)
    /\ EndTurn
    /\ UNCHANGED <<fs, processes, procFile, stale>>

\* The copy is written back. That fails for a process that killed itself, which
\* is then not found by the kill that follows.
TickEnd ==
    /\ ~stale
    /\ run # PidMax
    /\ procFile' = IF Alive(run) THEN [procFile EXCEPT ![run] = Consumed(loc)] ELSE procFile
    /\ EndTurn
    /\ UNCHANGED <<fs, processes, stale>>
-----------------------------------------------------------------------------
\* A system call is made by a process that is still active in its tick.
Calls(op) ==
    /\ ~stale
    /\ op \in Ops
    /\ run # PidMax
    /\ processes[run].state = "Active"

OnlyLoc == UNCHANGED <<fs, processes, procFile, run, turn, stale>>

\* procManProcessExecSyscall: exit, and the ways an instruction can fail.
Exit(status) ==
    /\ Calls(status)
    /\ Kill(run, status, fs, processes[run].progmemFd, loc.fds, procFile[run].ramFd)
    /\ EndTurn

KillSyscall(pid) ==
    /\ Calls("kill")
    /\ pid # 0
    /\ IF Alive(pid)
       THEN Kill(pid, "killed", fs, processes[pid].progmemFd, Data(pid).fds, procFile[pid].ramFd)
       ELSE UNCHANGED <<fs, processes, procFile, stale>>
    /\ UNCHANGED <<run, loc, turn>>

WaitPid(pid, timed) ==
    /\ Calls("waitpid")
    /\ IF Alive(pid)
       THEN /\ processes' = [processes EXCEPT ![run].state = "WaitingWaitpid",
                                              ![run].wait = [pid |-> pid, timed |-> timed, fd |-> FdInvalid]]
            /\ UNCHANGED loc
       ELSE /\ loc' = [loc EXCEPT !.r0 = "noprocess"]
            /\ UNCHANGED processes
    /\ UNCHANGED <<fs, procFile, run, turn, stale>>

RegisterSignalHandler ==
    /\ Calls("signal")
    /\ loc' = [loc EXCEPT !.handler = TRUE]
    /\ OnlyLoc

Open(path, mode) ==
    /\ Calls("open")
    /\ LET opened == OpenLocal(fs, loc.fds, path, mode)
       IN /\ fs' = opened.fs
          /\ loc' = [loc EXCEPT !.r0 = "other", !.fds = opened.fds]
    /\ UNCHANGED <<processes, procFile, run, turn, stale>>

Close(l) ==
    /\ Calls("close")
    /\ loc.fds[l] # FdInvalid
    /\ fs' = CloseFiles(fs, {loc.fds[l]})
    /\ loc' = [loc EXCEPT !.fds[l] = FdInvalid]
    /\ UNCHANGED <<processes, procFile, run, turn, stale>>

\* Mutant: the process waits on its local fd instead of the global one.
ReadWaitsOnLocal(l) ==
    /\ Calls("read")
    /\ loc.fds[l] # FdInvalid
    /\ ~CanRead(fs, loc.fds[l])
    /\ processes' = [processes EXCEPT ![run].state = "WaitingRead", ![run].wait.fd = l]
    /\ UNCHANGED <<fs, loc, procFile, run, turn, stale>>

Read(l) ==
    /\ Calls("read")
    /\ loc.fds[l] # FdInvalid
    /\ IF CanRead(fs, loc.fds[l])
       THEN /\ fs' \in AfterRead(fs, loc.fds[l])
            /\ loc' = Consumed(loc)
            /\ UNCHANGED processes
       ELSE /\ processes' = [processes EXCEPT ![run].state = "WaitingRead", ![run].wait.fd = loc.fds[l]]
            /\ UNCHANGED <<fs, loc>>
    /\ UNCHANGED <<procFile, run, turn, stale>>

Write(l) ==
    /\ Calls("write")
    /\ loc.fds[l] # FdInvalid
    /\ IF CanWrite(fs, loc.fds[l])
       THEN /\ fs' \in AfterWrite(fs, loc.fds[l])
            /\ loc' = Consumed(loc)
            /\ UNCHANGED processes
       ELSE /\ processes' = [processes EXCEPT ![run].state = "WaitingWrite", ![run].wait.fd = loc.fds[l]]
            /\ UNCHANGED <<fs, loc>>
    /\ UNCHANGED <<procFile, run, turn, stale>>

CreateFile(f) ==
    /\ Calls("create")
    /\ UserPath(f) \notin fs.files
    /\ fs' = [fs EXCEPT !.files = @ \cup {UserPath(f)}]
    /\ loc' = Consumed(loc)
    /\ UNCHANGED <<processes, procFile, run, turn, stale>>

DeleteFile(f) ==
    /\ Calls("create")
    /\ fs' = [fs EXCEPT !.files = FileDelete(fs.fdt, @, UserPath(f))]
    /\ loc' = Consumed(loc)
    /\ UNCHANGED <<processes, procFile, run, turn, stale>>
-----------------------------------------------------------------------------
\* Mutant: the fd of a ram file that was given up stays in the ProcData.
LostRamUnnoticed(data) == data

\* procManProcessMemoryWriteBlock beyond the end of RAM, on ProcData `data' of
\* process pid which owns its ram file. Without space the file is deleted and
\* the ProcData stored.
GrownRam(data) == [data EXCEPT !.ramFd = ReopenedRamFd(fs, data.ramFd)]
LostRam(data) == [data EXCEPT !.ramFd = FdInvalid]
WithoutRam(pid, data) ==
    LET closed == FileClose(fs.fdt, data.ramFd)
    IN [fs EXCEPT !.fdt = closed, !.files = FileDelete(closed, @, RamPath(pid))]

\* A process whose ram fd is not that of its ram file is not followed further:
\* the path to resize is then another file's, or was never initialised.
LosesRam ==
    /\ stale' = TRUE
    /\ UNCHANGED <<fs, processes, procFile, run, loc, turn>>

WriteBeyondRam ==
    /\ Calls("grow")
    /\ IF ~OwnsRam(loc, run) THEN LosesRam
       ELSE \/ /\ TRUE \in Success
               /\ fs' = ReopenRam(fs, run, loc.ramFd)
               /\ loc' = GrownRam(loc)
               /\ UNCHANGED <<processes, procFile, run, turn, stale>>
            \/ /\ FALSE \in Success
               /\ Kill(run, "killed", WithoutRam(run, loc), processes[run].progmemFd, loc.fds, FdInvalid)
               /\ EndTurn

\* procManProcessSendSignal works on the file, also for the process that runs.
\* It wakes a waiting process and pushes a return address, which may need more
\* RAM; that this can fail is not looked at.
Interrupted(data, state) ==
    IF state = "Active" THEN data
    ELSE [data EXCEPT !.r0 = IF state = "WaitingWaitpid" THEN "interrupted" ELSE "other"]

SendSignal(pid) ==
    LET data == Interrupted(procFile[pid], processes[pid].state)
        Store(newFs, newData) ==
            /\ fs' = newFs
            /\ procFile' = [procFile EXCEPT ![pid] = newData]
            /\ processes' = [processes EXCEPT ![pid].state = "Active", ![pid].wait = NoWait]
            /\ stale' = (stale \/ (pid = run /\ newData.ramFd # loc.ramFd))
            /\ UNCHANGED <<run, loc, turn>>
    IN \/ Store(fs, data)
       \/ /\ "grow" \in Ops
          /\ IF ~OwnsRam(data, pid) THEN LosesRam
             ELSE \/ TRUE \in Success /\ Store(ReopenRam(fs, pid, data.ramFd), GrownRam(data))
                  \/ FALSE \in Success /\ Store(WithoutRam(pid, data), LostRam(data))

\* Signals to a process that has no handler for them do nothing.
SignalSyscall(pid) ==
    /\ Calls("signal")
    /\ Alive(pid) /\ procFile[pid].handler
    /\ SendSignal(pid)
-----------------------------------------------------------------------------
\* The pipeopen system call: the first pipe id whose two files do not exist.
FreePipes == {i \in PipeIds : PipeBacking(i) \notin fs.files /\ PipeDev(i) \notin fs.files}

\* With the pipe mounted, both ends are opened. If one of them is not, or if
\* the pipe could not be mounted, everything is taken back.
OpenEnds(i, mounted) ==
    LET reader == OpenLocal(mounted, loc.fds, PipeDev(i), "RO")
        writer == OpenLocal(reader.fs, reader.fds, PipeDev(i), "WO")
        ends == GlobalFds(writer.fds) \ GlobalFds(loc.fds)
    IN IF FdInvalid \notin {reader.local, writer.local}
       THEN /\ fs' = writer.fs
            /\ loc' = [loc EXCEPT !.r0 = "other", !.fds = writer.fds]
       ELSE /\ fs' = Unmount(CloseFiles(writer.fs, ends), {i})
            /\ loc' = Consumed(loc)

MountAndOpen(i, mounted) ==
    IF PipeDev(i) \in mounted.files
    THEN OpenEnds(i, mounted)
    ELSE /\ fs' = [mounted EXCEPT !.files = @ \ {PipeBacking(i)}]
         /\ loc' = Consumed(loc)

PipeOpen ==
    /\ Calls("pipe")
    /\ \/ /\ FreePipes = {} \/ FALSE \in Success
          /\ loc' = Consumed(loc)
          /\ UNCHANGED fs
       \/ \E i \in FreePipes, room \in Success :
            /\ TRUE \in Success
            /\ \A j \in FreePipes : i <= j
            /\ MountAndOpen(i, Mount([fs EXCEPT !.files = @ \cup {PipeBacking(i)}], i, room))
    /\ UNCHANGED <<processes, procFile, run, turn, stale>>
-----------------------------------------------------------------------------
\* procManFindUnusedPid
UnusedPids == {pid \in Pids : processes[pid].state = "Unused"}

\* procManProcessFork opens the child's files, in this order, before it comes
\* to the parent's descriptors.
WithChildFiles(child) ==
    LET proc == FileOpen(fs.fdt, ProcPath(child), "RW")
        ram == FileOpen(proc, RamPath(child), "RW")
    IN [fs EXCEPT !.fdt = DupeOrOpenTable(ram, processes[run].progmemFd),
                  !.files = @ \cup {ProcPath(child), RamPath(child)}]
ChildProcFd == NewFd(fs.fdt)
ChildRamFd(child) == NewFd(FileOpen(fs.fdt, ProcPath(child), "RW"))
ChildProgmemFd(child) ==
    DupeOrOpenFd(FileOpen(FileOpen(fs.fdt, ProcPath(child), "RW"), RamPath(child), "RW"),
                 processes[run].progmemFd)

MayFork(child) ==
    /\ {ProcPath(child), RamPath(child)} \cap fs.files = {}
    /\ FdInvalid \notin {ChildProcFd, ChildRamFd(child), ChildProgmemFd(child)}
    /\ MayReopen(WithChildFiles(child), loc.fds)
    /\ Reopenings(WithChildFiles(child), loc.fds) # {}
    /\ loc.ramFd # FdInvalid

ForkChild(child) ==
    \E fresh \in Reopenings(WithChildFiles(child), loc.fds) :
       /\ fs' = DupeAll(WithChildFiles(child), loc.fds, fresh)
       /\ processes' = [processes EXCEPT ![child] =
              [state |-> "Active", progmemFd |-> ChildProgmemFd(child), procFd |-> ChildProcFd, wait |-> NoWait]]
       /\ procFile' = [procFile EXCEPT ![child] =
              [r0 |-> "other", handler |-> loc.handler, ramFd |-> ChildRamFd(child),
               fds |-> DupedFds(WithChildFiles(child), loc.fds, fresh)]]
       /\ loc' = Consumed(loc)

ForkFails(child) ==
    /\ fs' = UndoFork(fs, child)
    /\ loc' = Consumed(loc)
    /\ UNCHANGED <<processes, procFile>>

Fork ==
    /\ Calls("fork")
    /\ \/ /\ UnusedPids = {}
          /\ loc' = Consumed(loc)
          /\ UNCHANGED <<fs, processes, procFile>>
       \/ \E child \in UnusedPids :
            /\ \A pid \in UnusedPids : child <= pid
            /\ \/ TRUE \in Success /\ MayFork(child) /\ ForkChild(child)
               \/ (FALSE \in Success \/ ~MayFork(child)) /\ ForkFails(child)
    /\ UNCHANGED <<run, turn, stale>>

\* procManProcessExecCommon. If the program cannot be opened the call just
\* returns. After that there is no way back: if the ram file cannot be resized
\* the process is killed with its ram fd already closed.
Exec(prog) ==
    /\ Calls("exec")
    /\ LET new == NewFd(fs.fdt)
           opened == FileOpen(fs.fdt, ProgPath(prog), "RO")
           noOld == [fs EXCEPT !.fdt = FileClose(opened, processes[run].progmemFd)]
           closed == [noOld EXCEPT !.fdt = FileClose(@, loc.ramFd)]
           mayResize == RamPath(run) \in fs.files /\ ~FileIsOpen(closed.fdt, RamPath(run))
           data == [loc EXCEPT !.handler = FALSE, !.ramFd = ReopenedRamFd(noOld, loc.ramFd)]
       IN IF new = FdInvalid
          THEN /\ fs' = [fs EXCEPT !.fdt = opened]
               /\ UNCHANGED <<processes, procFile, run, loc, turn, stale>>
          ELSE \/ /\ TRUE \in Success /\ mayResize
                  /\ fs' = ReopenRam(noOld, run, loc.ramFd)
                  /\ processes' = [processes EXCEPT ![run].progmemFd = new]
                  /\ loc' = data
                  /\ procFile' = [procFile EXCEPT ![run] = data]
                  /\ UNCHANGED <<run, turn, stale>>
               \/ /\ FALSE \in Success \/ ~mayResize
                  /\ Kill(run, "killed", closed, new, loc.fds, procFile[run].ramFd)
                  /\ EndTurn
-----------------------------------------------------------------------------
Tick == TickActive \/ TickTimeout \/ TickReadReady \/ TickWriteReady \/ TickNothing \/ TickEnd

Syscall ==
    \/ \E status \in {"exit", "killed"} : Exit(status)
    \/ \E pid \in Pids : KillSyscall(pid) \/ SignalSyscall(pid)
    \/ \E pid \in Pids, timed \in BOOLEAN : WaitPid(pid, timed)
    \/ RegisterSignalHandler
    \/ \E path \in ProgramPaths, mode \in Modes : Open(path, mode)
    \/ \E l \in LocalFds : Close(l) \/ Read(l) \/ Write(l)
    \/ \E f \in UserFiles : CreateFile(f) \/ DeleteFile(f)
    \/ WriteBeyondRam
    \/ PipeOpen
    \/ Fork
    \/ \E prog \in Programs : Exec(prog)

\* A run in which a replaced descriptor was used is not followed further.
NotFollowed == stale /\ UNCHANGED vars

Next == Tick \/ Syscall \/ NotFollowed

\* Time passes, so a timeout that is looked at in every round is found expired;
\* procManTickAll always comes to the next pid and a tick is bounded.
Fairness ==
    /\ WF_vars(Tick)
    /\ \A pid \in Pids : SF_vars(turn = pid /\ TickTimeout)

Spec == Init /\ [][Next]_vars
FairSpec == Spec /\ Fairness
-----------------------------------------------------------------------------
\* Everybody who holds a reference to a global fd.
Holders(fd) ==
    {<<"progmem", pid>> : pid \in {p \in Pids : processes[p].progmemFd = fd}}
      \cup {<<"proc", pid>> : pid \in {p \in Pids : processes[p].procFd = fd}}
      \cup {<<"ram", pid>> : pid \in {p \in Pids : Data(p).ramFd = fd}}
      \cup (UNION {{<<"local", pid, l>> : l \in {m \in LocalFds : Data(pid).fds[m] = fd}} : pid \in Pids})
      \cup {<<"pipe", i>> : i \in {j \in PipeIds : fs.pipes[j].fd = fd}}

\* Fork, exec, pipes and kill together keep every reference count equal to the
\* number of places the descriptor is kept in: none leaks, none dangles. Held
\* with all error paths (undoing a fork or a pipe, a failed growth of RAM).
RefCountsExact == ~stale => \A fd \in ValidFds : fs.fdt[fd].ref = Cardinality(Holders(fd))

\* A living process has its own proc and ram files open and nobody shares them,
\* so a tick never loads or overwrites another process's registers; the ram file
\* may be missing only after a failed growth.
PrivateFiles ==
    ~stale => \A pid \in Pids : Alive(pid) =>
        /\ fs.fdt[processes[pid].procFd].path = ProcPath(pid)
        /\ fs.fdt[processes[pid].procFd].ref = 1
        /\ Data(pid).ramFd # FdInvalid => OwnsRam(Data(pid), pid) /\ fs.fdt[Data(pid).ramFd].ref = 1

\* A dead process leaves neither of its two files behind, so its pid can be used
\* again: procManProcessFork fails while either exists.
DeadLeaveNothingUnlessStale ==
    ~stale => \A pid \in Pids : ~Alive(pid) => {ProcPath(pid), RamPath(pid)} \cap fs.files = {}

\* A pipe is mounted, on its own backing file, exactly as long as some process
\* holds an end of it: procManProcessCloseFile unmounts with the last reference,
\* whichever process drops it, also in a kill or an undone fork.
PipeLifetime ==
    ~stale => \A i \in PipeIds :
        /\ PipeDev(i) \in fs.files <=> FileIsOpen(fs.fdt, PipeDev(i))
        /\ PipeDev(i) \in fs.files <=> PipeBacking(i) \in fs.files
        /\ PipeDev(i) \in fs.files => fs.fdt[fs.pipes[i].fd].path = PipeBacking(i)

\* Whoever waits for a process waits for one that lives: the target's death, by
\* any of the ways a process dies, has woken its waiters.
WaitersHaveTargets ==
    \A pid \in Pids : processes[pid].state = "WaitingWaitpid" => Alive(processes[pid].wait.pid)

\* A process that waits for data or for space still holds the descriptor it
\* waits on, though others close and reopen descriptors meanwhile.
WaitedFdsAreHeld ==
    ~stale => \A pid \in Pids : processes[pid].state \in {"WaitingRead", "WaitingWrite"} =>
        processes[pid].wait.fd \in GlobalFds(Data(pid).fds)

\* The last local fd is never given out. procManProcessOpenFile relies on it: in
\* a table without a free entry its search would end past the array.
LastLocalFdUnused == \A pid \in Pids : Data(pid).fds[MaxFds - 1] = FdInvalid

\* What waitpid reports is true when it is reported: an exit status in the very
\* step in which the target dies, a timeout to one who asked for it, an
\* interruption while the target lives.
WaitpidTruthful ==
    [][\A pid \in Pids :
         LET target == processes[pid].wait.pid
             r0 == Data(pid)'.r0
         IN processes[pid].state = "WaitingWaitpid" /\ processes'[pid].state = "Active" =>
              /\ r0 \in {"exit", "killed"} <=> Alive(target) /\ processes'[target].progmemFd = FdInvalid
              /\ r0 = "timeout" => processes[pid].wait.timed
              /\ r0 \in {"exit", "killed", "timeout", "interrupted"}]_vars

\* Nobody but the process itself changes the descriptors it holds: no fork,
\* kill, pipe or signal of another process closes or re-targets them.
OthersFdsAreStable ==
    [][~stale' => \A pid \in Pids :
         Alive(pid) /\ Alive(pid)' /\ run # pid /\ run' # pid =>
            /\ procFile'[pid].fds = procFile[pid].fds
            /\ \A fd \in GlobalFds(procFile[pid].fds) : fs'.fdt[fd].path = fs.fdt[fd].path]_vars

\* A waitpid with a timeout always returns.
TimedWaitsEnd ==
    \A pid \in Pids :
        processes[pid].state = "WaitingWaitpid" /\ processes[pid].wait.timed
          ~> processes[pid].state # "WaitingWaitpid" \/ stale

\* A reader is not left waiting while there is data in its pipe.
ReadersAreServed ==
    \A pid \in Pids :
        processes[pid].state = "WaitingRead" /\ CanRead(fs, processes[pid].wait.fd)
          ~> \/ processes[pid].state # "WaitingRead"
             \/ ~CanRead(fs, processes[pid].wait.fd)
             \/ stale
=============================================================================

------------------------------ MODULE KernelFs ------------------------------
(***************************************************************************)
(* The file descriptor table of the kernel's virtual file system, as pure  *)
(* operators on table values (src/kernel/kernelfs.c).                      *)
(*                                                                         *)
(* A table maps every global fd to a slot: the path that is open there,    *)
(* the mode it was opened with and a reference count (the code keeps mode  *)
(* and count in the spare bits of the path string).  Fd 0 is the invalid   *)
(* fd, but the array has a slot for it, and two functions reach that slot. *)
(* The set of paths that exist is a separate argument, `files'.            *)
(*                                                                         *)
(* Modules that own such a table (FdTable, ProcMan) extend this one.       *)
(***************************************************************************)
EXTENDS Naturals

CONSTANTS
    FdMax,        \* KernelFsFdMax: number of slots, the invalid one included
    RefCountMax,  \* KernelFsFdRefCountMax: 2^(bits left for the count)
    Paths,        \* every path a program or the kernel may name
    SharedPaths,  \* paths for which kernelFsFileCanOpenMany is true
    NoPath        \* the null string of a slot that is not in use

ASSUME FdMaxAssumption == FdMax \in Nat /\ FdMax >= 2
ASSUME RefCountMaxAssumption == RefCountMax \in Nat /\ RefCountMax >= 2
ASSUME PathsAssumption == SharedPaths \subseteq Paths /\ NoPath \notin Paths

Fds == 0 .. (FdMax - 1)
FdInvalid == 0
ValidFds == 1 .. (FdMax - 1)

\* KernelFsFdMode: RO and WO are bits, RW is both of them.
Modes == {"RO", "WO", "RW"}
Readable(mode) == mode \in {"RO", "RW"}
Writable(mode) == mode \in {"WO", "RW"}

Slots == [path : Paths \cup {NoPath}, mode : Modes, ref : 0 .. (RefCountMax - 1)]
Tables == [Fds -> Slots]

\* The mode of a slot not in use is never looked at; it is kept at "RO".
UnusedSlot == [path |-> NoPath, mode |-> "RO", ref |-> 0]
EmptyTable == [fd \in Fds |-> UnusedSlot]

InUse(t, fd) == t[fd].path # NoPath

\* kernelFsFileIsOpen skips the slot of the invalid fd.
FileIsOpen(t, path) == \E fd \in ValidFds : t[fd].path = path

FreeFds(t) == {fd \in ValidFds : ~InUse(t, fd)}

\* The search keeps the last free slot it meets; with none it stays at 0.
NewFd(t) ==
    IF FreeFds(t) = {} THEN FdInvalid
    ELSE CHOOSE fd \in FreeFds(t) : \A g \in FreeFds(t) : g <= fd

\* Mutant: a file already open is not refused.
MayOpenTwice(t, files, path) == path \in files

\* Whether kernelFsFileOpen gets as far as writing a slot.
MayOpen(t, files, path) ==
    /\ path \in files
    /\ FileIsOpen(t, path) => path \in SharedPaths

\* The table after kernelFsFileOpen has passed those tests. It returns
\* NewFd(t) and writes that slot, also when it is the slot of the invalid fd.
FileOpen(t, path, mode) ==
    [t EXCEPT ![NewFd(t)] = [path |-> path, mode |-> mode, ref |-> 1]]

MayDupe(t, fd) == InUse(t, fd) /\ t[fd].ref + 1 < RefCountMax

FileDupe(t, fd) == [t EXCEPT ![fd].ref = @ + 1]

\* Mutant: the first close frees the slot.
FileCloseAtOnce(t, fd) == IF InUse(t, fd) THEN [t EXCEPT ![fd] = UnusedSlot] ELSE t

FileClose(t, fd) ==
    IF ~InUse(t, fd) THEN t
    ELSE IF t[fd].ref = 1 THEN [t EXCEPT ![fd] = UnusedSlot]
    ELSE [t EXCEPT ![fd].ref = @ - 1]

\* Mutant: an open file is deleted.
FileDeleteOpen(t, files, path) == files \ {path}

\* kernelFsFileDelete refuses a path that is open (in a slot it looks at).
FileDelete(t, files, path) == IF FileIsOpen(t, path) THEN files ELSE files \ {path}
=============================================================================

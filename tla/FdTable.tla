------------------------------- MODULE FdTable -------------------------------
(***************************************************************************)
(* The file descriptor table as a component: any number of clients open,   *)
(* duplicate and close descriptors and create and delete files, in any     *)
(* order.  `held' counts, per descriptor, the references the clients were  *)
(* given and have not given back; the table itself only keeps the count in *)
(* the slot, so the two can drift apart if the code is wrong.              *)
(***************************************************************************)
EXTENDS KernelFs

VARIABLES
    fdt,    \* kernelFsData.fdt
    files,  \* the paths that exist
    held    \* history: references handed out and not yet closed, per fd

vars == <<fdt, files, held>>

TypeOK ==
    /\ fdt \in Tables
    /\ files \subseteq Paths
    /\ held \in [ValidFds -> Nat]

Init ==
    /\ fdt = EmptyTable
    /\ files \in SUBSET Paths
    /\ held = [fd \in ValidFds |-> 0]

\* The client is given the descriptor unless it is told "invalid".
Granted(fd) ==
    held' = IF fd = FdInvalid THEN held ELSE [held EXCEPT ![fd] = @ + 1]

Open(path, mode) ==
    /\ MayOpen(fdt, files, path)
    /\ fdt' = FileOpen(fdt, path, mode)
    /\ Granted(NewFd(fdt))
    /\ UNCHANGED files

Dupe(fd) ==
    /\ held[fd] > 0
    /\ MayDupe(fdt, fd)
    /\ fdt' = FileDupe(fdt, fd)
    /\ Granted(fd)
    /\ UNCHANGED files

\* kernelFsFileDupeOrOpen once Dupe has refused.
OpenAgain(fd) ==
    /\ held[fd] > 0
    /\ ~MayDupe(fdt, fd)
    /\ Open(fdt[fd].path, fdt[fd].mode)

DupeOrOpen(fd) == Dupe(fd) \/ OpenAgain(fd)

Close(fd) ==
    /\ held[fd] > 0
    /\ fdt' = FileClose(fdt, fd)
    /\ held' = [held EXCEPT ![fd] = @ - 1]
    /\ UNCHANGED files

\* Error paths close descriptors they never obtained.
CloseInvalid ==
    /\ fdt' = FileClose(fdt, FdInvalid)
    /\ UNCHANGED <<files, held>>

Create(path) ==
    /\ path \notin files
    /\ files' = files \cup {path}
    /\ UNCHANGED <<fdt, held>>

Delete(path) ==
    /\ files' = FileDelete(fdt, files, path)
    /\ UNCHANGED <<fdt, held>>

Next ==
    \/ \E path \in Paths, mode \in Modes : Open(path, mode)
    \/ \E fd \in ValidFds : DupeOrOpen(fd) \/ Close(fd)
    \/ CloseInvalid
    \/ \E path \in Paths : Create(path) \/ Delete(path)

Spec == Init /\ [][Next]_vars
-----------------------------------------------------------------------------
\* The count in a slot is exactly the number of references clients hold:
\* dupe, the fall-back open and close (kernelFsFileDupe, kernelFsFileDupeOrOpen,
\* kernelFsFileClose) never free a slot somebody uses and never leak one.
RefCountsAreHeld == \A fd \in ValidFds : fdt[fd].ref = held[fd] /\ (InUse(fdt, fd) <=> held[fd] > 0)

\* A file on a writable volume, or a device that cannot be shared, is open
\* under at most one descriptor, whichever way that descriptor was obtained.
ExclusiveFilesOpenOnce ==
    \A fd, g \in ValidFds :
        InUse(fdt, fd) /\ fdt[fd].path = fdt[g].path /\ fd # g => fdt[fd].path \in SharedPaths

\* kernelFsFileDelete never removes a file from under an open descriptor.
OpenFilesExist == \A fd \in ValidFds : InUse(fdt, fd) => fdt[fd].path \in files
=============================================================================

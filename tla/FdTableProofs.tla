---------------------------- MODULE FdTableProofs ----------------------------
(***************************************************************************)
(* The invariants of FdTable hold for every number of slots, every limit   *)
(* on reference counts and every set of paths.  The inductive invariant is *)
(* the conjunction of all of them with one addition about slot 0: its      *)
(* count is one while it is in use, since nobody is ever given fd 0 and so *)
(* nobody can duplicate it.                                                *)
(***************************************************************************)
EXTENDS FdTable, KernelFsProofs

InvalidSlotCount == InUse(fdt, FdInvalid) => fdt[FdInvalid].ref = 1

IInv ==
    /\ TypeOK
    /\ RefCountsAreHeld
    /\ ExclusiveFilesOpenOnce
    /\ OpenFilesExist
    /\ InvalidSlotCount

LEMMA InitIInv == Init => IInv
<1> USE FdMaxAssumption, PathsAssumption, EmptyTableType
      DEF Init, IInv, EmptyTable, UnusedSlot, InUse, Fds, ValidFds, FdInvalid
<1>1. Init => TypeOK
  BY DEF TypeOK
<1> QED
  BY <1>1 DEF RefCountsAreHeld, ExclusiveFilesOpenOnce, OpenFilesExist, InvalidSlotCount

\* One slot changes: what the four relational conjuncts need of its new value.
LEMMA OpenStep ==
    ASSUME IInv, NEW path \in Paths, NEW mode \in Modes, Open(path, mode)
    PROVE  IInv'
<1> DEFINE n == NewFd(fdt)
<1> USE FdMaxAssumption, PathsAssumption DEF Fds, ValidFds, FdInvalid
<1>0. TypeOK /\ fdt \in Tables /\ n \in Fds
  BY NewFdFacts DEF IInv, TypeOK
<1>1. fdt' \in Tables
  BY <1>0, FileOpenType DEF Open
<1>2. fdt' = [fdt EXCEPT ![n] = [path |-> path, mode |-> mode, ref |-> 1]]
  BY DEF Open, FileOpen
<1>3. /\ fdt'[n] = [path |-> path, mode |-> mode, ref |-> 1]
      /\ \A fd \in Fds : fd # n => fdt'[fd] = fdt[fd]
  BY <1>0, <1>2 DEF Tables
<1>4. n # 0 => n \in ValidFds /\ ~InUse(fdt, n)
  BY NewFdFacts
<1>5. path \in files /\ (FileIsOpen(fdt, path) => path \in SharedPaths) /\ files' = files
  BY DEF Open, MayOpen
<1>6. held' = IF n = 0 THEN held ELSE [held EXCEPT ![n] = @ + 1]
  BY DEF Open, Granted
<1>7. TypeOK'
  BY <1>0, <1>1, <1>4, <1>5, <1>6 DEF TypeOK
<1>8. RefCountsAreHeld'
  BY <1>0, <1>3, <1>4, <1>6 DEF IInv, RefCountsAreHeld, TypeOK, InUse
<1>9. ExclusiveFilesOpenOnce'
  <2> SUFFICES ASSUME NEW fd \in ValidFds, NEW g \in ValidFds,
                      InUse(fdt', fd), fdt'[fd].path = fdt'[g].path, fd # g
               PROVE  fdt'[fd].path \in SharedPaths
    BY DEF ExclusiveFilesOpenOnce
  <2>1. CASE fd = n
    BY <2>1, <1>3, <1>5 DEF FileIsOpen
  <2>2. CASE g = n
    BY <2>2, <1>3, <1>5 DEF FileIsOpen
  <2>3. CASE fd # n /\ g # n
    BY <2>3, <1>3 DEF IInv, ExclusiveFilesOpenOnce, InUse
  <2> QED BY <2>1, <2>2, <2>3
<1>10. OpenFilesExist'
  BY <1>3, <1>5 DEF IInv, OpenFilesExist, InUse
<1>11. InvalidSlotCount'
  BY <1>0, <1>3 DEF IInv, InvalidSlotCount, InUse
<1> QED BY <1>7, <1>8, <1>9, <1>10, <1>11 DEF IInv

LEMMA DupeStep ==
    ASSUME IInv, NEW fd \in ValidFds, Dupe(fd)
    PROVE  IInv'
<1> USE FdMaxAssumption DEF Fds, ValidFds, FdInvalid
<1>0. TypeOK /\ fdt \in Tables /\ fdt[fd] \in Slots /\ MayDupe(fdt, fd)
  BY DEF IInv, TypeOK, Dupe, Tables
<1>1. fdt' \in Tables
  BY <1>0, FileDupeType DEF Dupe
<1>2. /\ fdt'[fd].path = fdt[fd].path
      /\ fdt'[fd].ref = fdt[fd].ref + 1
      /\ \A g \in Fds : g # fd => fdt'[g] = fdt[g]
  BY <1>0 DEF Dupe, FileDupe, Tables, Slots
<1>3. \A g \in Fds : fdt'[g].path = fdt[g].path
  BY <1>2
<1>4. held' = [held EXCEPT ![fd] = @ + 1] /\ files' = files
  BY DEF Dupe, Granted
<1>5. TypeOK'
  BY <1>0, <1>1, <1>4 DEF TypeOK
<1>6. RefCountsAreHeld'
  <2>1. fdt[fd].ref = held[fd] /\ held[fd] \in Nat /\ InUse(fdt, fd)
    BY <1>0 DEF IInv, RefCountsAreHeld, TypeOK, MayDupe
  <2>2. fdt'[fd].ref = held'[fd] /\ held'[fd] > 0 /\ InUse(fdt', fd)
    BY <1>0, <1>2, <1>4, <2>1 DEF TypeOK, InUse
  <2>3. \A g \in ValidFds : g # fd => fdt'[g] = fdt[g] /\ held'[g] = held[g]
    BY <1>0, <1>2, <1>4 DEF TypeOK
  <2> QED BY <2>2, <2>3 DEF IInv, RefCountsAreHeld, InUse
<1>7. ExclusiveFilesOpenOnce'
  <2> SUFFICES ASSUME NEW h \in ValidFds, NEW g \in ValidFds,
                      InUse(fdt', h), fdt'[h].path = fdt'[g].path, h # g
               PROVE  fdt'[h].path \in SharedPaths
    BY DEF ExclusiveFilesOpenOnce
  <2>1. fdt'[h].path = fdt[h].path /\ fdt'[g].path = fdt[g].path
    BY <1>3
  <2> QED BY <2>1 DEF IInv, ExclusiveFilesOpenOnce, InUse
<1>8. OpenFilesExist'
  BY <1>3, <1>4 DEF IInv, OpenFilesExist, InUse
<1>9. InvalidSlotCount'
  BY <1>2 DEF IInv, InvalidSlotCount, InUse
<1> QED BY <1>5, <1>6, <1>7, <1>8, <1>9 DEF IInv

LEMMA CloseStep ==
    ASSUME IInv, NEW fd \in ValidFds, Close(fd)
    PROVE  IInv'
<1> USE FdMaxAssumption DEF Fds, ValidFds, FdInvalid
<1>0. TypeOK /\ fdt \in Tables /\ fdt[fd] \in Slots /\ held[fd] > 0
  BY DEF IInv, TypeOK, Close, Tables
<1>1. InUse(fdt, fd) /\ fdt[fd].ref = held[fd]
  BY <1>0 DEF IInv, RefCountsAreHeld
<1>2. fdt' \in Tables
  BY <1>0, <1>1, FileCloseType DEF Close
<1>3. held' = [held EXCEPT ![fd] = @ - 1] /\ files' = files /\ held[fd] \in Nat
  BY <1>0 DEF Close, TypeOK
<1>4. \A g \in Fds : g # fd => fdt'[g] = fdt[g]
  BY <1>0 DEF Close, FileClose, Tables
<1>5. \/ fdt[fd].ref = 1 /\ fdt'[fd] = UnusedSlot
      \/ fdt[fd].ref # 1 /\ fdt'[fd] = [fdt[fd] EXCEPT !.ref = @ - 1]
  BY <1>0, <1>1 DEF Close, FileClose, Tables
<1>6. fdt'[fd].ref = held[fd] - 1 /\ (InUse(fdt', fd) <=> held[fd] - 1 > 0)
  BY <1>0, <1>1, <1>3, <1>5 DEF UnusedSlot, InUse, Slots
<1>7. fdt'[fd].path \in {fdt[fd].path, NoPath}
  BY <1>0, <1>5 DEF UnusedSlot, Slots
<1>8. TypeOK'
  BY <1>0, <1>2, <1>3 DEF TypeOK
<1>9. RefCountsAreHeld'
  BY <1>0, <1>3, <1>4, <1>6 DEF IInv, RefCountsAreHeld, TypeOK, InUse
<1>10. ExclusiveFilesOpenOnce'
  <2> SUFFICES ASSUME NEW h \in ValidFds, NEW g \in ValidFds,
                      InUse(fdt', h), fdt'[h].path = fdt'[g].path, h # g
               PROVE  fdt'[h].path \in SharedPaths
    BY DEF ExclusiveFilesOpenOnce
  <2>1. fdt'[h].path = fdt[h].path /\ fdt'[g].path = fdt[g].path
    BY <1>4, <1>7 DEF InUse
  <2> QED BY <2>1 DEF IInv, ExclusiveFilesOpenOnce, InUse
<1>11. OpenFilesExist'
  BY <1>3, <1>4, <1>7 DEF IInv, OpenFilesExist, InUse
<1>12. InvalidSlotCount'
  BY <1>4 DEF IInv, InvalidSlotCount, InUse
<1> QED BY <1>8, <1>9, <1>10, <1>11, <1>12 DEF IInv

LEMMA CloseInvalidStep ==
    ASSUME IInv, CloseInvalid
    PROVE  IInv'
<1> USE FdMaxAssumption DEF Fds, ValidFds, FdInvalid
<1>0. TypeOK /\ fdt \in Tables /\ 0 \in Fds
  BY DEF IInv, TypeOK
<1>1. fdt' \in Tables
  BY <1>0, FileCloseType DEF CloseInvalid, IInv, InvalidSlotCount
<1>2. \A g \in ValidFds : fdt'[g] = fdt[g]
  BY <1>0 DEF CloseInvalid, FileClose, Tables
<1>3. ~InUse(fdt', 0)
  BY <1>0 DEF CloseInvalid, FileClose, Tables, IInv, InvalidSlotCount, InUse, UnusedSlot
<1> QED
  BY <1>0, <1>1, <1>2, <1>3
     DEF CloseInvalid, IInv, TypeOK, RefCountsAreHeld, ExclusiveFilesOpenOnce, OpenFilesExist,
         InvalidSlotCount, InUse

LEMMA NextIInv == IInv /\ [Next]_vars => IInv'
<1> SUFFICES ASSUME IInv, [Next]_vars PROVE IInv'
  OBVIOUS
<1>1. ASSUME NEW path \in Paths, NEW mode \in Modes, Open(path, mode) PROVE IInv'
  BY <1>1, OpenStep
<1>2. ASSUME NEW fd \in ValidFds, DupeOrOpen(fd) PROVE IInv'
  <2>1. CASE Dupe(fd)
    BY <2>1, DupeStep
  <2>2. CASE OpenAgain(fd)
    <3>1. fdt[fd] \in Slots /\ InUse(fdt, fd)
      BY <2>2 DEF OpenAgain, IInv, TypeOK, RefCountsAreHeld, Tables, Fds, ValidFds
    <3>2. fdt[fd].path \in Paths /\ fdt[fd].mode \in Modes
      BY <3>1 DEF Slots, InUse
    <3> QED BY <2>2, <3>2, OpenStep DEF OpenAgain
  <2> QED BY <1>2, <2>1, <2>2 DEF DupeOrOpen
<1>3. ASSUME NEW fd \in ValidFds, Close(fd) PROVE IInv'
  BY <1>3, CloseStep
<1>4. CASE CloseInvalid
  BY <1>4, CloseInvalidStep
<1>5. ASSUME NEW path \in Paths, Create(path) PROVE IInv'
  BY <1>5 DEF Create, IInv, TypeOK, RefCountsAreHeld, ExclusiveFilesOpenOnce, OpenFilesExist,
              InvalidSlotCount, InUse
<1>6. ASSUME NEW path \in Paths, Delete(path) PROVE IInv'
  BY <1>6 DEF Delete, FileDelete, FileIsOpen, IInv, TypeOK, RefCountsAreHeld, ExclusiveFilesOpenOnce,
              OpenFilesExist, InvalidSlotCount, InUse
<1>7. CASE UNCHANGED vars
  BY <1>7 DEF vars, IInv, TypeOK, RefCountsAreHeld, ExclusiveFilesOpenOnce, OpenFilesExist,
              InvalidSlotCount, InUse
<1> QED BY <1>1, <1>2, <1>3, <1>4, <1>5, <1>6, <1>7 DEF Next

\* The invariant holds throughout: no sequence of client calls breaks it.
THEOREM Invariance == Spec => []IInv
BY InitIInv, NextIInv, PTL DEF Spec

\* A reference count is exact for every client behaviour: no descriptor is
\* freed while somebody holds it and none is leaked.
THEOREM RefCountsExact == Spec => []RefCountsAreHeld
<1>1. IInv => RefCountsAreHeld
  BY DEF IInv
<1> QED BY <1>1, Invariance, PTL

\* A file that must not be opened twice never is.
THEOREM ExclusiveOpen == Spec => []ExclusiveFilesOpenOnce
<1>1. IInv => ExclusiveFilesOpenOnce
  BY DEF IInv
<1> QED BY <1>1, Invariance, PTL

\* No file disappears from under an open descriptor.
THEOREM NoDanglingOpenFile == Spec => []OpenFilesExist
<1>1. IInv => OpenFilesExist
  BY DEF IInv
<1> QED BY <1>1, Invariance, PTL

\* The table keeps its type, so no reference count ever reaches the limit
\* that its bits cannot represent, nor wraps below zero.
THEOREM TypeCorrect == Spec => []TypeOK
<1>1. IInv => TypeOK
  BY DEF IInv
<1> QED BY <1>1, Invariance, PTL
=============================================================================

---------------------------- MODULE KernelFsProofs ----------------------------
(***************************************************************************)
(* Lemmas about the operators of KernelFs, for every size of the table,    *)
(* every reference count limit and every set of paths.                     *)
(***************************************************************************)
EXTENDS KernelFs, TLAPS, NaturalsInduction, WellFoundedInduction

\* Every nonempty set of numbers below a bound has a greatest element.
LEMMA GreatestElement ==
    ASSUME NEW n \in Nat, NEW S, S \subseteq 0 .. n, S # {}
    PROVE  \E x \in S : \A y \in S : y <= x
<1> DEFINE T == {n - x : x \in S}
<1>1. T \subseteq Nat /\ T # {}
  <2>1. \A x \in S : x \in Nat /\ n - x \in Nat
    OBVIOUS
  <2>2. \A d \in T : d \in Nat
    BY <2>1
  <2>3. \E x \in S : n - x \in T
    OBVIOUS
  <2> QED BY <2>2, <2>3
<1>2. PICK d \in T : \A e \in T : ~(<<e, d>> \in OpToRel(<, Nat))
  BY <1>1, WFMin, NatLessThanWellFounded
<1>3. PICK x \in S : d = n - x
  OBVIOUS
<1>4. \A y \in S : y <= x
  <2> TAKE y \in S
  <2>1. n - y \in T /\ n - y \in Nat /\ d \in Nat /\ x \in Nat /\ y \in Nat
    BY <1>1
  <2>2. ~(n - y < d)
    BY <1>2, <2>1 DEF OpToRel
  <2> QED BY <2>1, <2>2, <1>3
<1> QED BY <1>3, <1>4

\* The search of kernelFsFileOpen returns a free valid slot, or 0 when there
\* is none.
LEMMA NewFdFacts ==
    ASSUME NEW t
    PROVE  /\ NewFd(t) \in Fds
           /\ FreeFds(t) = {} => NewFd(t) = FdInvalid
           /\ FreeFds(t) # {} => NewFd(t) \in ValidFds /\ ~InUse(t, NewFd(t))
<1> USE FdMaxAssumption DEF Fds, ValidFds, FdInvalid
<1>1. CASE FreeFds(t) = {}
  BY <1>1 DEF NewFd
<1>2. CASE FreeFds(t) # {}
  <2>1. FdMax - 1 \in Nat /\ FreeFds(t) \subseteq 0 .. (FdMax - 1)
    BY DEF FreeFds
  <2>2. \E fd \in FreeFds(t) : \A g \in FreeFds(t) : g <= fd
    BY <2>1, <1>2, GreatestElement
  <2>3. NewFd(t) \in FreeFds(t)
    BY <2>2, <1>2 DEF NewFd
  <2> QED BY <2>3, <1>2 DEF FreeFds
<1> QED BY <1>1, <1>2

\* The table operations keep a table a table.
LEMMA UnusedSlotType == UnusedSlot \in Slots
BY RefCountMaxAssumption DEF UnusedSlot, Slots, Modes

LEMMA EmptyTableType == EmptyTable \in Tables
BY UnusedSlotType DEF EmptyTable, Tables

LEMMA FileOpenType ==
    ASSUME NEW t \in Tables, NEW path \in Paths \cup {NoPath}, NEW mode \in Modes
    PROVE  FileOpen(t, path, mode) \in Tables
<1>1. [path |-> path, mode |-> mode, ref |-> 1] \in Slots
  BY RefCountMaxAssumption DEF Slots
<1> QED BY <1>1, NewFdFacts DEF FileOpen, Tables

LEMMA FileDupeType ==
    ASSUME NEW t \in Tables, NEW fd \in Fds, MayDupe(t, fd)
    PROVE  FileDupe(t, fd) \in Tables
<1>1. t[fd] \in Slots
  BY DEF Tables
<1>2. [t[fd] EXCEPT !.ref = @ + 1] \in Slots
  BY <1>1, RefCountMaxAssumption DEF Slots, MayDupe
<1>3. FileDupe(t, fd) = [t EXCEPT ![fd] = [t[fd] EXCEPT !.ref = @ + 1]]
  BY DEF FileDupe, Tables, Slots
<1> QED BY <1>2, <1>3 DEF Tables

\* Closing needs a count of at least one in the slots in use: at zero the
\* unsigned count of the code would wrap round.
LEMMA FileCloseType ==
    ASSUME NEW t \in Tables, NEW fd \in Fds, InUse(t, fd) => t[fd].ref > 0
    PROVE  FileClose(t, fd) \in Tables
<1>1. t[fd] \in Slots
  BY DEF Tables
<1>2. CASE ~InUse(t, fd)
  BY <1>2 DEF FileClose
<1>3. CASE InUse(t, fd) /\ t[fd].ref = 1
  BY <1>3, UnusedSlotType DEF FileClose, Tables
<1>4. CASE InUse(t, fd) /\ t[fd].ref # 1
  <2>1. [t[fd] EXCEPT !.ref = @ - 1] \in Slots
    BY <1>1, <1>4, RefCountMaxAssumption DEF Slots
  <2>2. FileClose(t, fd) = [t EXCEPT ![fd] = [t[fd] EXCEPT !.ref = @ - 1]]
    BY <1>4 DEF FileClose, Tables, Slots
  <2> QED BY <2>1, <2>2 DEF Tables
<1> QED BY <1>2, <1>3, <1>4

\* Every slot in use has a reference: what FileClose needs of a table, and what
\* the operations preserve.
Counted(t) == \A fd \in Fds : InUse(t, fd) => t[fd].ref > 0
CountedTables == {t \in Tables : Counted(t)}

LEMMA EmptyTableCounted == EmptyTable \in CountedTables
BY EmptyTableType DEF CountedTables, Counted, EmptyTable, UnusedSlot, InUse

LEMMA FileOpenCounted ==
    ASSUME NEW t \in CountedTables, NEW path \in Paths \cup {NoPath}, NEW mode \in Modes
    PROVE  FileOpen(t, path, mode) \in CountedTables
<1>1. FileOpen(t, path, mode) \in Tables
  BY FileOpenType DEF CountedTables
<1>2. NewFd(t) \in Fds
  BY NewFdFacts
<1>3. \A fd \in Fds : fd # NewFd(t) => FileOpen(t, path, mode)[fd] = t[fd]
  BY DEF FileOpen, CountedTables, Tables
<1>4. FileOpen(t, path, mode)[NewFd(t)].ref = 1
  BY <1>2 DEF FileOpen, CountedTables, Tables
<1> QED BY <1>1, <1>3, <1>4 DEF CountedTables, Counted, InUse

LEMMA FileDupeCounted ==
    ASSUME NEW t \in CountedTables, NEW fd \in Fds, MayDupe(t, fd)
    PROVE  FileDupe(t, fd) \in CountedTables
<1>1. FileDupe(t, fd) \in Tables
  BY FileDupeType DEF CountedTables
<1>2. \A g \in Fds : g # fd => FileDupe(t, fd)[g] = t[g]
  BY DEF FileDupe, CountedTables, Tables
<1>3. FileDupe(t, fd)[fd].ref = t[fd].ref + 1 /\ t[fd].ref \in Nat
  BY RefCountMaxAssumption DEF FileDupe, CountedTables, Tables, Slots
<1> QED BY <1>1, <1>2, <1>3 DEF CountedTables, Counted, InUse

\* Closing changes one slot only, and that one to a counted slot.
LEMMA FileCloseCounted ==
    ASSUME NEW t \in CountedTables, NEW fd \in Fds
    PROVE  /\ FileClose(t, fd) \in CountedTables
           /\ \A g \in Fds : g # fd => FileClose(t, fd)[g] = t[g]
<1>1. FileClose(t, fd) \in Tables
  BY FileCloseType DEF CountedTables, Counted
<1>2. \A g \in Fds : g # fd => FileClose(t, fd)[g] = t[g]
  BY DEF FileClose, CountedTables, Tables
<1>3. InUse(FileClose(t, fd), fd) => FileClose(t, fd)[fd].ref > 0
  <2>1. t[fd] \in Slots /\ (InUse(t, fd) => t[fd].ref > 0)
    BY DEF CountedTables, Counted, Tables
  <2>2. CASE ~InUse(t, fd)
    BY <2>2 DEF FileClose
  <2>3. CASE InUse(t, fd) /\ t[fd].ref = 1
    <3>1. FileClose(t, fd)[fd] = UnusedSlot
      BY <2>3 DEF FileClose, CountedTables, Tables
    <3> QED BY <3>1 DEF InUse, UnusedSlot
  <2>4. CASE InUse(t, fd) /\ t[fd].ref # 1
    <3>1. FileClose(t, fd)[fd] = [t[fd] EXCEPT !.ref = @ - 1]
      BY <2>4 DEF FileClose, CountedTables, Tables
    <3>2. FileClose(t, fd)[fd].ref = t[fd].ref - 1 /\ t[fd].ref \in Nat
      BY <3>1, <2>1, RefCountMaxAssumption DEF Slots
    <3> QED BY <3>2, <2>1, <2>4
  <2> QED BY <2>2, <2>3, <2>4
<1> QED BY <1>1, <1>2, <1>3 DEF CountedTables, Counted, InUse

\* The same for a set of descriptors, each closed once.
LEMMA CloseSetCounted ==
    ASSUME NEW t \in CountedTables, NEW S
    PROVE  [fd \in Fds |-> IF fd \in S THEN FileClose(t, fd)[fd] ELSE t[fd]] \in CountedTables
<1> DEFINE u == [fd \in Fds |-> IF fd \in S THEN FileClose(t, fd)[fd] ELSE t[fd]]
<1>1. \A fd \in Fds : t[fd] \in Slots /\ FileClose(t, fd)[fd] \in Slots
  BY FileCloseCounted DEF CountedTables, Tables
<1>2. u \in Tables
  BY <1>1 DEF Tables
<1>3. \A fd \in Fds : InUse(u, fd) => u[fd].ref > 0
  BY FileCloseCounted DEF CountedTables, Counted, InUse
<1> QED BY <1>2, <1>3 DEF CountedTables, Counted
=============================================================================

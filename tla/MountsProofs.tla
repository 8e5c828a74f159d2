----------------------------- MODULE MountsProofs -----------------------------
(***************************************************************************)
(* Theorems about devices and mounts, for any size of the device table,    *)
(* the table of mounts and the descriptor table, any boot devices, any     *)
(* requests and any files: type correctness, volumes that are not written  *)
(* over, remounts that keep files, orphans and their causes, files that    *)
(* stay served, and rings that hold what was sent.                         *)
(***************************************************************************)
EXTENDS Mounts, KernelFsProofs, FiniteSetTheorems, SequenceTheorems

(***************************************************************************)
(* Numbers and sequences.                                                  *)
(***************************************************************************)
LEMMA LeastElement == ASSUME NEW S, S \subseteq Nat, S # {} PROVE \E x \in S : \A y \in S : x <= y
<1>1. PICK x \in S : \A y \in S : ~(<<y, x>> \in OpToRel(<, Nat))
  BY WFMin, NatLessThanWellFounded
<1>2. \A y \in S : x <= y
  <2> TAKE y \in S
  <2>1. x \in Nat /\ y \in Nat
    OBVIOUS
  <2>2. ~(y < x)
    BY <1>1, <2>1 DEF OpToRel
  <2> QED BY <2>1, <2>2
<1> QED BY <1>2

\* The least and the greatest of some numbers are among them.
LEMMA MinIsIn == ASSUME NEW S, S \subseteq Nat, S # {} PROVE Min(S) \in S
BY LeastElement DEF Min

LEMMA MaxIsIn == ASSUME NEW n \in Nat, NEW S, S \subseteq 0 .. n, S # {} PROVE Max(S) \in S
<1>1. PICK x \in S : \A y \in S : y <= x
  BY GreatestElement
<1>2. \A y \in S : x >= y
  BY <1>1
<1> QED BY <1>2 DEF Max

\* Unmounting takes one entry out of the table of mounts and moves the last one there.
LEMMA WithoutFacts ==
    ASSUME NEW S, mounts \in Seq(S), NEW k \in DOMAIN mounts
    PROVE  /\ Without(k) \in Seq(S)
           /\ Len(Without(k)) = Len(mounts) - 1
           /\ \A j \in 1 .. (Len(mounts) - 1) :
                 Without(k)[j] = IF j = k THEN mounts[Len(mounts)] ELSE mounts[j]
<1> DEFINE m == [mounts EXCEPT ![k] = mounts[Len(mounts)]]
<1>1. Len(mounts) \in Nat /\ DOMAIN mounts = 1 .. Len(mounts) /\ Len(mounts) >= 1
  OBVIOUS
<1>2. \A j \in 1 .. Len(mounts) : mounts[j] \in S
  BY ElementOfSeq
<1>3. \A j \in 1 .. Len(mounts) : m[j] = IF j = k THEN mounts[Len(mounts)] ELSE mounts[j]
  BY <1>1
<1>4. \A j \in 1 .. (Len(mounts) - 1) : m[j] \in S
  BY <1>1, <1>2, <1>3
<1>5. Len(mounts) - 1 \in Int /\ 1 \in Int
  BY <1>1
<1> HIDE DEF m
<1>6. /\ SubSeq(m, 1, Len(mounts) - 1) \in Seq(S)
      /\ Len(SubSeq(m, 1, Len(mounts) - 1)) = IF 1 <= Len(mounts) - 1 THEN Len(mounts) - 1 - 1 + 1 ELSE 0
      /\ \A j \in 1 .. (Len(mounts) - 1 - 1 + 1) : SubSeq(m, 1, Len(mounts) - 1)[j] = m[1 + j - 1]
  BY <1>4, <1>5, SubSeqProperties
<1>7. \A j \in 1 .. (Len(mounts) - 1) : SubSeq(m, 1, Len(mounts) - 1)[j] = m[j]
  BY <1>1, <1>6
<1>8. Without(k) = SubSeq(m, 1, Len(mounts) - 1)
  BY DEF Without, m
<1> QED BY <1>1, <1>3, <1>6, <1>7, <1>8

(***************************************************************************)
(* The descriptor table: nothing is duplicated here, so that a close frees *)
(* the slot.                                                               *)
(***************************************************************************)
OneRef(t) == t \in Tables /\ \A fd \in ValidFds : InUse(t, fd) => t[fd].ref = 1

LEMMA OpenFacts ==
    ASSUME NEW t, OneRef(t), FreeFds(t) # {}, NEW p \in Paths
    PROVE  /\ NewFd(t) \in ValidFds /\ ~InUse(t, NewFd(t))
           /\ OneRef(FileOpen(t, p, "RW"))
           /\ FileOpen(t, p, "RW")[NewFd(t)].path = p
           /\ InUse(FileOpen(t, p, "RW"), NewFd(t))
           /\ \A fd \in Fds \ {NewFd(t)} : FileOpen(t, p, "RW")[fd] = t[fd]
<1>1. NewFd(t) \in ValidFds /\ NewFd(t) \in Fds /\ ~InUse(t, NewFd(t))
  BY NewFdFacts
<1>2. FileOpen(t, p, "RW") \in Tables
  BY FileOpenType DEF OneRef, Modes
<1>3. /\ FileOpen(t, p, "RW")[NewFd(t)] = [path |-> p, mode |-> "RW", ref |-> 1]
      /\ \A fd \in Fds \ {NewFd(t)} : FileOpen(t, p, "RW")[fd] = t[fd]
  BY <1>1 DEF FileOpen, OneRef, Tables
<1>4. ValidFds \subseteq Fds
  BY FdMaxAssumption DEF ValidFds, Fds
<1> QED BY <1>1, <1>2, <1>3, <1>4, PathsAssumption DEF OneRef, InUse

LEMMA CloseFacts ==
    ASSUME NEW t, OneRef(t), NEW fd \in ValidFds, InUse(t, fd)
    PROVE  /\ OneRef(FileClose(t, fd))
           /\ ~InUse(FileClose(t, fd), fd)
           /\ \A g \in Fds \ {fd} : FileClose(t, fd)[g] = t[g]
<1>1. ValidFds \subseteq Fds
  BY FdMaxAssumption DEF ValidFds, Fds
<1>2. FileClose(t, fd) = [t EXCEPT ![fd] = UnusedSlot]
  BY DEF FileClose, OneRef
<1>3. FileClose(t, fd) \in Tables
  BY <1>1, <1>2, UnusedSlotType DEF OneRef, Tables
<1>4. FileClose(t, fd)[fd] = UnusedSlot /\ \A g \in Fds \ {fd} : FileClose(t, fd)[g] = t[g]
  BY <1>1, <1>2 DEF OneRef, Tables
<1> QED BY <1>1, <1>3, <1>4 DEF OneRef, InUse, UnusedSlot

(***************************************************************************)
(* What flat devices hold.                                                 *)
(***************************************************************************)
FilesFit(files, p) == IsFiniteSet(Cells(files)) /\ Total(files) <= Room[p]
StoresFit(s) ==
    /\ s = [p \in StorePaths |-> [kind |-> s[p].kind, files |-> s[p].files]]
    /\ \A p \in StorePaths : FilesFit(s[p].files, p)

\* A device on which the files are exchanged for others that fit, or rewritten.
LEMMA StoreReplaced ==
    ASSUME NEW s, StoresFit(s), NEW p, NEW kind, NEW files, p \in StorePaths => FilesFit(files, p)
    PROVE  StoresFit([s EXCEPT ![p] = [kind |-> kind, files |-> files]])
<1> DEFINE u == [s EXCEPT ![p] = [kind |-> kind, files |-> files]]
<1>1. DOMAIN u = StorePaths
  BY DEF StoresFit
<1>2. \A q \in StorePaths :
         u[q] = IF q = p THEN [kind |-> kind, files |-> files] ELSE [kind |-> s[q].kind, files |-> s[q].files]
  BY DEF StoresFit
<1>3. \A q \in StorePaths : u[q] = [kind |-> u[q].kind, files |-> u[q].files] /\ FilesFit(u[q].files, q)
  BY <1>2 DEF StoresFit
<1>4. u = [q \in StorePaths |-> u[q]]
  BY <1>1
<1> QED BY <1>3, <1>4 DEF StoresFit

LEMMA FilesReplaced ==
    ASSUME NEW s, StoresFit(s), NEW p, NEW files, p \in StorePaths => FilesFit(files, p)
    PROVE  /\ StoresFit([s EXCEPT ![p].files = files])
           /\ \A q \in StorePaths : [s EXCEPT ![p].files = files][q].kind = s[q].kind
<1>1. CASE p \in StorePaths
  <2>1. s[p] = [kind |-> s[p].kind, files |-> s[p].files]
    BY <1>1 DEF StoresFit
  <2>2. [s[p] EXCEPT !.files = files] = [kind |-> s[p].kind, files |-> files]
    BY <2>1
  <2>3. [s EXCEPT ![p].files = files] = [s EXCEPT ![p] = [kind |-> s[p].kind, files |-> files]]
    BY <2>2
  <2>4. \A q \in StorePaths : [s EXCEPT ![p] = [kind |-> s[p].kind, files |-> files]][q].kind = s[q].kind
    BY DEF StoresFit
  <2> QED BY <2>3, <2>4, StoreReplaced, <1>1
<1>2. CASE p \notin StorePaths
  <2>1. [s EXCEPT ![p].files = files] = s
    BY <1>2 DEF StoresFit
  <2> QED BY <2>1
<1> QED BY <1>1, <1>2

\* Rewriting bytes of a file changes no other's and moves nothing.
LEMMA BytesReplaced ==
    ASSUME NEW s, StoresFit(s), NEW p, NEW name, NEW bytes,
           p \in StorePaths /\ name \in DOMAIN s[p].files => DOMAIN bytes = DOMAIN s[p].files[name]
    PROVE  /\ StoresFit([s EXCEPT ![p].files[name] = bytes])
           /\ \A q \in StorePaths : [s EXCEPT ![p].files[name] = bytes][q].kind = s[q].kind
<1> DEFINE files == [s[p].files EXCEPT ![name] = bytes]
<1>1. [s EXCEPT ![p].files[name] = bytes] = [s EXCEPT ![p].files = files]
  OBVIOUS
<1>2. ASSUME p \in StorePaths PROVE FilesFit(files, p)
  <2>1. DOMAIN files = DOMAIN s[p].files
    OBVIOUS
  <2>2. \A n \in DOMAIN files : DOMAIN files[n] = DOMAIN s[p].files[n]
    BY <1>2
  <2>3. Cells(files) = Cells(s[p].files)
    BY <2>1, <2>2 DEF Cells
  <2> QED BY <2>3, <1>2 DEF StoresFit, FilesFit, Total
<1>3. p \in StorePaths => FilesFit(files, p)
  BY <1>2
<1> HIDE DEF files
<1>4. /\ StoresFit([s EXCEPT ![p].files = files])
      /\ \A q \in StorePaths : [s EXCEPT ![p].files = files][q].kind = s[q].kind
  BY <1>3, FilesReplaced
<1> QED BY <1>1, <1>4

\* A new file takes as many bytes as it is created with; a file that is deleted
\* leaves no more than there were.
WithFile(files, name, n, v) ==
    [m \in DOMAIN files \cup {name} |-> IF m = name THEN [k \in 1 .. n |-> v] ELSE files[m]]

LEMMA FilesGrow ==
    ASSUME NEW p, NEW files, IsFiniteSet(Cells(files)), NEW name, name \notin DOMAIN files, NEW n \in Nat, NEW v,
           Total(files) + n <= Room[p], Room[p] \in Nat
    PROVE  FilesFit(WithFile(files, name, n, v), p)
<1> DEFINE g == WithFile(files, name, n, v)
           new == {name} \X (1 .. n)
<1>1. /\ DOMAIN g = {name} \cup DOMAIN files
      /\ g[name] = [k \in 1 .. n |-> v]
      /\ \A m \in DOMAIN files : g[m] = files[m]
  BY DEF WithFile
<1> HIDE DEF g
<1>2. Cells(g) = Cells(files) \cup new
  <2>1. \A m \in DOMAIN files : DOMAIN g[m] = DOMAIN files[m]
    BY <1>1
  <2>2. DOMAIN g[name] = 1 .. n
    BY <1>1
  <2>3. \A c : c \in Cells(g) <=> c \in Cells(files) \/ c \in new
    BY <1>1, <2>1, <2>2 DEF Cells
  <2> QED BY <2>3
<1>3. IsFiniteSet(new) /\ Cardinality(new) = n
  <2>1. IsFiniteSet(1 .. n) /\ Cardinality(1 .. n) = n
    BY FS_Interval
  <2>2. IsFiniteSet({name}) /\ Cardinality({name}) = 1
    BY FS_Singleton
  <2>3. IsFiniteSet(new) /\ Cardinality(new) = Cardinality({name}) * Cardinality(1 .. n)
    BY <2>1, <2>2, FS_Product, Zenon
  <2> QED BY <2>1, <2>2, <2>3
<1> HIDE DEF new
<1>4. /\ IsFiniteSet(Cells(files) \cup new)
      /\ Cardinality(Cells(files) \cup new)
            = Cardinality(Cells(files)) + Cardinality(new) - Cardinality(Cells(files) \cap new)
  BY <1>3, FS_Union
<1>5. Cardinality(Cells(files)) \in Nat /\ Cardinality(Cells(files) \cap new) \in Nat
  BY FS_CardinalityType, FS_Intersection
<1>6. Total(g) <= Room[p]
  BY <1>2, <1>3, <1>4, <1>5 DEF Total
<1>7. FilesFit(g, p)
  BY <1>2, <1>4, <1>6 DEF FilesFit
<1> QED BY <1>7 DEF g

LEMMA FilesShrink ==
    ASSUME NEW p, NEW files, FilesFit(files, p), NEW S, S \subseteq DOMAIN files, Room[p] \in Nat
    PROVE  FilesFit([n \in S |-> files[n]], p)
<1> DEFINE g == [n \in S |-> files[n]]
<1>1. Cells(g) \subseteq Cells(files)
  BY DEF Cells
<1>2. IsFiniteSet(Cells(g)) /\ Cardinality(Cells(g)) <= Cardinality(Cells(files))
  BY <1>1, FS_Subset DEF FilesFit
<1>3. Cardinality(Cells(g)) \in Nat /\ Cardinality(Cells(files)) \in Nat
  BY <1>2, FS_CardinalityType DEF FilesFit
<1> QED BY <1>2, <1>3 DEF FilesFit, Total

\* No files fit anywhere.
LEMMA NoFilesFit ==
    ASSUME NEW p, Room[p] \in Nat, NEW files, DOMAIN files = {}
    PROVE  FilesFit(files, p) /\ Cells(files) = {}
<1>1. Cells(files) = {}
  BY DEF Cells
<1>2. IsFiniteSet(Cells(files)) /\ Total(files) = 0
  BY <1>1, FS_EmptySet DEF Total
<1> QED BY <1>1, <1>2 DEF FilesFit

\* What a remount copies fits where it is copied.
LEMMA CopiedFits ==
    ASSUME NEW device, Room[device] \in Nat, NEW files, IsFiniteSet(Cells(files))
    PROVE  FilesFit(Copied(files, device), device)
<1>1. CASE Fits(files, device)
  BY <1>1 DEF Copied, Fits, FilesFit
<1>2. CASE ~Fits(files, device)
  <2> DEFINE part(S) == [n \in S |-> files[n]]
             names == CHOOSE S \in SUBSET DOMAIN files : Fits(part(S), device)
  <2>1. Fits(part({}), device)
    <3>1. DOMAIN part({}) = {}
      OBVIOUS
    <3> HIDE DEF part
    <3>2. FilesFit(part({}), device)
      BY <3>1, NoFilesFit
    <3> QED BY <3>2 DEF FilesFit, Fits
  <2>2. names \in SUBSET DOMAIN files /\ Fits(part(names), device)
    BY <2>1
  <2>3. Cells(part(names)) \subseteq Cells(files)
    BY <2>2 DEF Cells
  <2>4. IsFiniteSet(Cells(part(names)))
    BY <2>3, FS_Subset
  <2>5. Copied(files, device) = part(names)
    BY <1>2 DEF Copied
  <2> HIDE DEF part, names
  <2> QED BY <2>2, <2>4, <2>5 DEF FilesFit, Fits
<1> QED BY <1>1, <1>2

(***************************************************************************)
(* The table of mounts: each entry has a descriptor of its own that is in  *)
(* use; what is not a ring is backed by a flat device.                     *)
(***************************************************************************)
MountEntries == [format : Formats, fd : ValidFds]
MountsFit(ms, t) ==
    /\ ms \in Seq(MountEntries) /\ Len(ms) <= MountMax
    /\ \A k \in DOMAIN ms :
          /\ InUse(t, ms[k].fd)
          /\ ms[k].format # "CircBuf" => t[ms[k].fd].path \in FlatPaths
    /\ \A j, k \in DOMAIN ms : ms[j].fd = ms[k].fd => j = k

\* No entry cares for a slot that no entry holds.
LEMMA MountsKept ==
    ASSUME NEW ms, NEW t, MountsFit(ms, t), NEW u, NEW fd,
           \A k \in DOMAIN ms : ms[k].fd # fd, \A g \in Fds \ {fd} : u[g] = t[g]
    PROVE  MountsFit(ms, u)
<1>1. ASSUME NEW k \in DOMAIN ms PROVE u[ms[k].fd] = t[ms[k].fd]
  <2>1. ms[k] \in MountEntries
    BY ElementOfSeq DEF MountsFit
  <2>2. ms[k].fd \in Fds
    BY <2>1, FdMaxAssumption DEF MountEntries, ValidFds, Fds
  <2> QED BY <2>2
<1> QED BY <1>1 DEF MountsFit, InUse

\* A free slot is held by no entry.
LEMMA FreeIsNotHeld ==
    ASSUME NEW ms, NEW t, MountsFit(ms, t), NEW fd, ~InUse(t, fd)
    PROVE  \A k \in DOMAIN ms : ms[k].fd # fd
BY DEF MountsFit

LEMMA MountsGrow ==
    ASSUME NEW ms, NEW t, MountsFit(ms, t), Len(ms) < MountMax,
           NEW format \in Formats, NEW fd \in ValidFds, InUse(t, fd), \A k \in DOMAIN ms : ms[k].fd # fd,
           format # "CircBuf" => t[fd].path \in FlatPaths
    PROVE  MountsFit(Append(ms, [format |-> format, fd |-> fd]), t)
<1> DEFINE e == [format |-> format, fd |-> fd]
           u == Append(ms, e)
<1>1. e \in MountEntries /\ ms \in Seq(MountEntries) /\ MountMax \in Nat
  BY MountsAssumption DEF MountsFit, MountEntries
<1>2. /\ u \in Seq(MountEntries) /\ Len(u) = Len(ms) + 1
      /\ \A k \in 1 .. Len(ms) : u[k] = ms[k]
      /\ u[Len(ms) + 1] = e
  BY <1>1, AppendProperties
<1>3. DOMAIN ms = 1 .. Len(ms) /\ DOMAIN u = 1 .. (Len(ms) + 1) /\ Len(ms) \in Nat
  BY <1>1, <1>2
<1>4. \A k \in DOMAIN u : (k \in DOMAIN ms /\ u[k] = ms[k]) \/ (k = Len(ms) + 1 /\ u[k] = e)
  BY <1>2, <1>3
<1>5. Len(u) <= MountMax
  BY <1>1, <1>2, <1>3
<1>6. e.format = format /\ e.fd = fd
  OBVIOUS
<1> HIDE DEF e, u
<1>7. MountsFit(u, t)
  BY <1>2, <1>4, <1>5, <1>6 DEF MountsFit
<1> QED BY <1>7 DEF u, e

\* Taking an entry out leaves the others, and nothing holds its descriptor then.
LEMMA MountsShrink ==
    ASSUME NEW t, MountsFit(mounts, t), NEW k \in DOMAIN mounts
    PROVE  /\ MountsFit(Without(k), t)
           /\ \A j \in DOMAIN Without(k) : \E l \in DOMAIN mounts \ {k} : Without(k)[j] = mounts[l]
           /\ \A l \in DOMAIN mounts \ {k} : \E j \in DOMAIN Without(k) : Without(k)[j] = mounts[l]
           /\ \A j \in DOMAIN Without(k) : Without(k)[j].fd # mounts[k].fd
<1> DEFINE w == Without(k)
           n == Len(mounts)
           from(j) == IF j = k THEN n ELSE j
<1>1. mounts \in Seq(MountEntries) /\ n \in Nat /\ DOMAIN mounts = 1 .. n /\ n <= MountMax /\ MountMax \in Nat
  BY MountsAssumption DEF MountsFit
<1>2. /\ w \in Seq(MountEntries) /\ Len(w) = n - 1
      /\ \A j \in 1 .. (n - 1) : w[j] = IF j = k THEN mounts[n] ELSE mounts[j]
  BY <1>1, WithoutFacts
<1>3. DOMAIN w = 1 .. (n - 1) /\ k \in 1 .. n
  BY <1>1, <1>2
<1>4. \A j \in DOMAIN w : from(j) \in DOMAIN mounts \ {k} /\ w[j] = mounts[from(j)]
  BY <1>1, <1>2, <1>3
<1>5. \A i, j \in DOMAIN w : from(i) = from(j) => i = j
  BY <1>1, <1>3
<1>6. \A l \in DOMAIN mounts \ {k} : \E j \in DOMAIN w : w[j] = mounts[l]
  <2> TAKE l \in DOMAIN mounts \ {k}
  <2>1. CASE l = n
    <3>1. k \in DOMAIN w /\ w[k] = mounts[n]
      BY <1>1, <1>2, <1>3, <2>1
    <3> QED BY <3>1, <2>1
  <2>2. CASE l # n
    <3>1. l \in DOMAIN w /\ w[l] = mounts[l]
      BY <1>1, <1>2, <1>3, <2>2
    <3> QED BY <3>1
  <2> QED BY <2>1, <2>2
<1>7. Len(w) <= MountMax
  BY <1>1, <1>2
<1> HIDE DEF from, w
<1>8. MountsFit(w, t)
  BY <1>2, <1>4, <1>5, <1>7 DEF MountsFit
<1>9. \A j \in DOMAIN w : \E l \in DOMAIN mounts \ {k} : w[j] = mounts[l]
  BY <1>4
<1>10. \A j \in DOMAIN w : w[j].fd # mounts[k].fd
  BY <1>9 DEF MountsFit
<1> QED BY <1>6, <1>8, <1>9, <1>10 DEF w

\* Exchanging the descriptor of an entry.
LEMMA MountsExchange ==
    ASSUME NEW ms, NEW t, MountsFit(ms, t), NEW k \in DOMAIN ms,
           NEW fd \in ValidFds, InUse(t, fd), \A j \in DOMAIN ms : ms[j].fd # fd, t[fd].path \in FlatPaths
    PROVE  LET u == [ms EXCEPT ![k] = [format |-> "MiniFs", fd |-> fd]]
           IN  /\ MountsFit(u, t)
               /\ \A j \in DOMAIN u : u[j].fd # ms[k].fd
<1> DEFINE e == [format |-> "MiniFs", fd |-> fd]
           u == [ms EXCEPT ![k] = e]
<1>1. e \in MountEntries /\ ms \in Seq(MountEntries) /\ DOMAIN ms = 1 .. Len(ms)
  BY DEF MountsFit, MountEntries, Formats
<1>2. u \in Seq(MountEntries) /\ Len(u) = Len(ms)
  BY <1>1, ExceptSeq
<1>3. DOMAIN u = DOMAIN ms /\ \A j \in DOMAIN u : u[j] = IF j = k THEN e ELSE ms[j]
  OBVIOUS
<1>4. e.format = "MiniFs" /\ e.fd = fd
  OBVIOUS
<1> HIDE DEF e, u
<1>5. MountsFit(u, t)
  BY <1>2, <1>3, <1>4 DEF MountsFit
<1>6. \A j \in DOMAIN u : u[j].fd # ms[k].fd
  BY <1>3, <1>4 DEF MountsFit
<1> QED BY <1>5, <1>6 DEF u, e

(***************************************************************************)
(* Writing to a ring is a chain of single bytes; none changes the length   *)
(* of the file.                                                            *)
(***************************************************************************)
LEMMA Induction ==
    ASSUME NEW S, 0 \in S, \A k \in Nat : k \in S => k + 1 \in S
    PROVE  Nat \subseteq S
<1> SUFFICES ASSUME Nat \ S # {} PROVE FALSE
  OBVIOUS
<1> DEFINE R == Nat \ S
<1>1. R \subseteq Nat /\ R # {}
  OBVIOUS
<1> HIDE DEF R
<1>2. Min(R) \in R
  BY <1>1, MinIsIn
<1>3. PICK x \in R : \A y \in R : x <= y
  <2>1. PICK x \in R : \A y \in R : ~(<<y, x>> \in OpToRel(<, Nat))
    BY <1>1, WFMin, NatLessThanWellFounded
  <2>2. ASSUME NEW y \in R PROVE x <= y
    <3>1. x \in Nat /\ y \in Nat
      BY <1>1
    <3>2. ~(y < x)
      BY <2>1, <3>1 DEF OpToRel
    <3> QED BY <3>1, <3>2
  <2> QED BY <2>2
<1>4. x \in Nat /\ x # 0 /\ x \notin S
  BY <1>3 DEF R
<1>5. x - 1 \in Nat /\ (x - 1) + 1 = x /\ ~(x <= x - 1)
  BY <1>4
<1>6. x - 1 \in S
  BY <1>3, <1>5 DEF R
<1> QED BY <1>4, <1>5, <1>6

\* The function PushAll is defined with exists.
IsPush(f, start, s, n) == f = [k \in 0 .. n |-> IF k = 0 THEN start ELSE PushByte(f[k - 1], s[k])]

LEMMA PushExists ==
    ASSUME NEW start, NEW s, NEW n \in Nat
    PROVE  \E f : IsPush(f, start, s, n)
<1> DEFINE S == {m \in Nat : \E f : IsPush(f, start, s, m)}
<1>1. 0 \in S
  <2> DEFINE f == [k \in 0 .. 0 |-> start]
  <2>1. IsPush(f, start, s, 0)
    BY DEF IsPush
  <2> QED BY <2>1
<1>2. ASSUME NEW m \in Nat, m \in S PROVE m + 1 \in S
  <2>1. PICK f : IsPush(f, start, s, m)
    BY <1>2
  <2> DEFINE g == [k \in 0 .. (m + 1) |-> IF k = m + 1 THEN PushByte(f[m], s[m + 1]) ELSE f[k]]
  <2>2. \A k \in 0 .. m : g[k] = f[k]
    OBVIOUS
  <2>3. \A k \in 0 .. (m + 1) : g[k] = IF k = 0 THEN start ELSE PushByte(g[k - 1], s[k])
    <3> TAKE k \in 0 .. (m + 1)
    <3>1. CASE k = 0
      BY <2>1, <2>2, <3>1 DEF IsPush
    <3>2. CASE k \in 1 .. m
      <4>1. k \in 0 .. m /\ k - 1 \in 0 .. m /\ k # 0
        BY <3>2
      <4>2. f[k] = PushByte(f[k - 1], s[k])
        BY <2>1, <4>1 DEF IsPush
      <4> HIDE DEF g
      <4> QED BY <2>2, <4>1, <4>2
    <3>3. CASE k = m + 1
      <4>1. k - 1 = m /\ m \in 0 .. m /\ k # 0
        BY <3>3
      <4>2. g[k] = PushByte(f[m], s[m + 1])
        BY <3>3
      <4> HIDE DEF g
      <4> QED BY <2>2, <3>3, <4>1, <4>2
    <3> QED BY <3>1, <3>2, <3>3
  <2>4. g = [k \in 0 .. (m + 1) |-> g[k]]
    OBVIOUS
  <2> HIDE DEF g
  <2>5. IsPush(g, start, s, m + 1)
    BY <2>3, <2>4 DEF IsPush
  <2> QED BY <2>5
<1> HIDE DEF S
<1>3. n \in S
  BY <1>1, <1>2, Induction
<1> QED BY <1>3 DEF S

\* The fields the accumulator of a write has.
HasBytes(acc, D) == acc = [full |-> acc.full, tail |-> acc.tail, written |-> acc.written, bytes |-> acc.bytes] /\ DOMAIN acc.bytes = D

LEMMA PushAllKeepsLength ==
    ASSUME NEW bytes, NEW T, NEW s \in Seq(T)
    PROVE  DOMAIN PushAll(bytes, s).bytes = DOMAIN bytes
<1> DEFINE n == Len(s)
           start == [full |-> FALSE, tail |-> GetTail(bytes), written |-> 0, bytes |-> bytes]
           f == CHOOSE g : g = [k \in 0 .. n |-> IF k = 0 THEN start ELSE PushByte(g[k - 1], s[k])]
<1>1. n \in Nat
  OBVIOUS
<1>2. PushAll(bytes, s) = f[n]
  BY DEF PushAll
<1>3. f = [k \in 0 .. n |-> IF k = 0 THEN start ELSE PushByte(f[k - 1], s[k])]
  <2> HIDE DEF start
  <2>1. PICK h : IsPush(h, start, s, n)
    BY <1>1, PushExists
  <2>2. h = [k \in 0 .. n |-> IF k = 0 THEN start ELSE PushByte(h[k - 1], s[k])]
    BY <2>1 DEF IsPush
  <2> QED BY <2>2
<1> HIDE DEF f
<1> DEFINE D == DOMAIN bytes
           S == {k \in Nat : k <= n => HasBytes(f[k], D)}
<1>4. 0 \in S
  <2>1. f[0] = start
    BY <1>1, <1>3
  <2>2. HasBytes(start, D)
    BY DEF HasBytes
  <2> HIDE DEF start, D
  <2> QED BY <2>1, <2>2
<1>5. ASSUME NEW k \in Nat, k \in S PROVE k + 1 \in S
  <2> SUFFICES ASSUME k + 1 <= n PROVE HasBytes(f[k + 1], D)
    OBVIOUS
  <2> HIDE DEF D
  <2>1. k + 1 \in 0 .. n /\ k + 1 # 0 /\ (k + 1) - 1 = k
    BY <1>1
  <2>2. \A j \in 0 .. n : j # 0 => f[j] = PushByte(f[j - 1], s[j])
    BY <1>3
  <2>3. f[k + 1] = PushByte(f[k], s[k + 1])
    BY <2>1, <2>2
  <2>4. HasBytes(f[k], D)
    BY <1>1, <1>5
  <2>5. HasBytes(PushByte(f[k], s[k + 1]), D)
    BY <2>4 DEF HasBytes, PushByte
  <2> QED BY <2>3, <2>5
<1> HIDE DEF S
<1>6. n \in S
  BY <1>1, <1>4, <1>5, Induction
<1> QED BY <1>1, <1>2, <1>6 DEF S, HasBytes

\* Nor do the offsets that are written.
LEMMA SetOffsetKeepsLength ==
    ASSUME NEW bytes, NEW at, NEW o
    PROVE  DOMAIN SetOffset(bytes, at, o) = DOMAIN bytes
BY DEF SetOffset

(***************************************************************************)
(* Type correctness.                                                       *)
(***************************************************************************)
DevsFit(ds) ==
    /\ ds \in [DevIdx -> Devices \cup {NoDev}]
    /\ \A i \in DevIdx :
          /\ Used(ds[i]) /\ ~ds[i].mount /\ ds[i].type \in {"flat", "MiniFs"} => ds[i].path \in StorePaths
          /\ Used(ds[i]) /\ ds[i].mount => ds[i].userData \in ValidFds

TInv ==
    /\ DevsFit(devs)
    /\ OneRef(fdt) /\ cached \in [Fds -> DevIdx \cup {DevMax}]
    /\ MountsFit(mounts, fdt)
    /\ StoresFit(stores)

\* The device at a path, and the device that serves it.
LEMMA DeviceFacts ==
    ASSUME NEW ds, NEW p
    PROVE  /\ DeviceFromPath(ds, p) # DevMax =>
                 /\ DeviceFromPath(ds, p) \in DevIdx
                 /\ Used(ds[DeviceFromPath(ds, p)]) /\ ds[DeviceFromPath(ds, p)].path = p
           /\ DeviceFromPath(ds, p) = DevMax => \A i \in DevIdx : Used(ds[i]) => ds[i].path # p
<1>1. DevMax \notin DevIdx
  BY MountsAssumption DEF DevIdx
<1>2. CASE \E i \in DevIdx : Used(ds[i]) /\ ds[i].path = p
  BY <1>1, <1>2 DEF DeviceFromPath
<1>3. CASE ~\E i \in DevIdx : Used(ds[i]) /\ ds[i].path = p
  BY <1>3 DEF DeviceFromPath
<1> QED BY <1>2, <1>3

LEMMA TakenServes ==
    ASSUME NEW ds, NEW p, Taken(ds, p) # {}
    PROVE  DeviceFromPathRecursive(ds, p) \in DevIdx
<1> DEFINE stops == {i \in Taken(ds, p) : Len(ds[i].path) = Len(p)}
<1>1. DevMax - 1 \in Nat /\ Taken(ds, p) \subseteq 0 .. (DevMax - 1) /\ 0 .. (DevMax - 1) = DevIdx
  <2>1. Len(BootDevices) \in Nat
    BY BootAssumption
  <2>2. DevMax - 1 \in Nat
    BY <2>1, MountsAssumption
  <2> QED BY <2>2 DEF DevIdx, Taken
<1>2. CASE stops # {}
  <2>1. stops \subseteq Taken(ds, p) /\ stops \subseteq Nat
    BY <1>1
  <2> HIDE DEF stops
  <2>2. Min(stops) \in stops
    BY <1>2, <2>1, MinIsIn
  <2>3. DeviceFromPathRecursive(ds, p) = Min(stops)
    BY <1>2 DEF DeviceFromPathRecursive, stops
  <2> QED BY <1>1, <2>1, <2>2, <2>3
<1>3. CASE stops = {}
  <2>1. Max(Taken(ds, p)) \in Taken(ds, p)
    BY <1>1, MaxIsIn
  <2> QED BY <1>1, <1>3, <2>1 DEF DeviceFromPathRecursive
<1> QED BY <1>2, <1>3

\* The entries of the mounts and of the devices.
LEMMA EntryFacts ==
    ASSUME TInv
    PROVE  /\ DOMAIN mounts = 1 .. Len(mounts) /\ Len(mounts) \in Nat
           /\ \A k \in DOMAIN mounts : mounts[k] \in MountEntries /\ mounts[k].fd \in ValidFds /\ mounts[k].fd \in Fds
           /\ \A i \in DevIdx : Used(devs[i]) => devs[i] \in Devices
<1>1. mounts \in Seq(MountEntries)
  BY DEF TInv, MountsFit
<1>2. \A k \in DOMAIN mounts : mounts[k] \in MountEntries
  BY <1>1, ElementOfSeq
<1>3. ValidFds \subseteq Fds
  BY FdMaxAssumption DEF ValidFds, Fds
<1>4. \A i \in DevIdx : Used(devs[i]) => devs[i] \in Devices
  BY DEF TInv, DevsFit, Used, NoDev
<1> QED BY <1>1, <1>2, <1>3, <1>4 DEF MountEntries

\* The mount that a removal or a remount works on.
LEMMA MountOfFacts ==
    ASSUME TInv, NEW i, MountOf(i) # {}
    PROVE  /\ Min(MountOf(i)) \in DOMAIN mounts
           /\ mounts[Min(MountOf(i))].fd = devs[i].userData
<1>1. MountOf(i) \subseteq Nat
  BY EntryFacts DEF MountOf
<1>2. Min(MountOf(i)) \in MountOf(i)
  BY <1>1, MinIsIn
<1> QED BY <1>2 DEF MountOf

\* The files that a directory device shows are those of some flat device or of
\* a read-only volume, or none.
LEMMA VolumeFacts ==
    ASSUME TInv, NEW i \in DevIdx, IsVolume(devs[i])
    PROVE  /\ (devs[i].mount => Mounted(i)) => /\ StoreOf(i) \in StorePaths
                                               /\ VolumeOn(i) = stores[StoreOf(i)].files
           /\ ~(devs[i].mount => Mounted(i)) => VolumeOn(i) = << >>
<1>1. Used(devs[i]) /\ devs[i].type = "MiniFs"
  BY DEF IsVolume, Used
<1>2. FlatPaths \subseteq StorePaths
  BY DEF FlatPaths, StorePaths
<1>3. CASE ~devs[i].mount
  <2>1. devs[i].path \in StorePaths
    BY <1>1, <1>3 DEF TInv, DevsFit
  <2> QED BY <1>3, <2>1 DEF StoreOf, VolumeOn
<1>4. CASE devs[i].mount /\ Mounted(i)
  <2>1. PICK k \in DOMAIN mounts : mounts[k].fd = devs[i].userData /\ TypeOfFormat(mounts[k].format) = "MiniFs"
    BY <1>1, <1>4 DEF Mounted
  <2>2. mounts[k].format # "CircBuf"
    BY <2>1 DEF TypeOfFormat
  <2>3. fdt[devs[i].userData].path \in StorePaths
    BY <1>2, <2>1, <2>2 DEF TInv, MountsFit
  <2> QED BY <1>4, <2>3 DEF StoreOf, VolumeOn
<1>5. CASE devs[i].mount /\ ~Mounted(i)
  BY <1>5 DEF VolumeOn
<1>6. devs[i].mount \in BOOLEAN
  BY <1>1, EntryFacts DEF Devices
<1> QED BY <1>3, <1>4, <1>5, <1>6

LEMMA VolumeIsFinite ==
    ASSUME TInv, NEW i \in DevIdx, IsVolume(devs[i])
    PROVE  IsFiniteSet(Cells(VolumeOn(i)))
<1>1. CASE devs[i].mount => Mounted(i)
  BY <1>1, VolumeFacts DEF TInv, StoresFit, FilesFit
<1>2. CASE ~(devs[i].mount => Mounted(i))
  <2>1. Cells(VolumeOn(i)) = {}
    BY <1>2, VolumeFacts DEF Cells
  <2> QED BY <2>1, FS_EmptySet
<1> QED BY <1>1, <1>2

LEMMA DevAdded ==
    ASSUME NEW ds, DevsFit(ds), NEW i, NEW r \in Requests, NEW fd \in ValidFds, NEW many \in BOOLEAN
    PROVE  DevsFit([ds EXCEPT ![i] = MountDevice(r, fd, many)])
<1> DEFINE d == MountDevice(r, fd, many)
<1>1. r.dir \in Paths /\ fd \in Nat /\ r.format \in Formats
  <2>1. r \in [format : Formats, device : Paths, dir : Paths]
    BY MountsAssumption
  <2>2. fd \in Nat
    BY FdMaxAssumption DEF ValidFds
  <2> QED BY <2>1, <2>2
<1>2. TypeOfFormat(r.format) \in {"char", "flat", "MiniFs", "Fat"}
  BY <1>1 DEF TypeOfFormat, Formats
<1>3. d \in Devices /\ d.mount /\ d.userData = fd
  BY <1>1, <1>2 DEF Devices, MountDevice
<1> HIDE DEF d
<1>4. \A j \in DevIdx : [ds EXCEPT ![i] = d][j] = IF j = i THEN d ELSE ds[j]
  BY DEF DevsFit
<1> QED BY <1>3, <1>4 DEF DevsFit, d

LEMMA DevRemoved ==
    ASSUME NEW ds, DevsFit(ds), NEW i
    PROVE  DevsFit([ds EXCEPT ![i] = NoDev])
<1>1. \A j \in DevIdx : [ds EXCEPT ![i] = NoDev][j] = IF j = i THEN NoDev ELSE ds[j]
  BY DEF DevsFit
<1> QED BY <1>1 DEF DevsFit, Used, NoDev

\* The descriptor table when a path is opened, and when a file is closed.
LEMMA OpenFileFits ==
    ASSUME TInv, NEW p \in Paths, OpenFile(p)
    PROVE  /\ OneRef(fdt') /\ cached' \in [Fds -> DevIdx \cup {DevMax}]
           /\ MountsFit(mounts, fdt')
           /\ NewFd(fdt) \in ValidFds /\ InUse(fdt', NewFd(fdt)) /\ fdt'[NewFd(fdt)].path = p
           /\ \A k \in DOMAIN mounts : mounts[k].fd # NewFd(fdt)
           /\ \A fd \in Fds \ {NewFd(fdt)} : fdt'[fd] = fdt[fd]
<1>1. /\ FreeFds(fdt) # {} /\ Taken(devs, p) # {} /\ fdt' = FileOpen(fdt, p, "RW")
      /\ cached' = [cached EXCEPT ![NewFd(fdt)] = DeviceFromPathRecursive(devs, p)]
  BY DEF OpenFile, MayOpenPath
<1>2. /\ NewFd(fdt) \in ValidFds /\ ~InUse(fdt, NewFd(fdt)) /\ OneRef(fdt')
      /\ InUse(fdt', NewFd(fdt)) /\ fdt'[NewFd(fdt)].path = p
      /\ \A fd \in Fds \ {NewFd(fdt)} : fdt'[fd] = fdt[fd]
  BY <1>1, OpenFacts DEF TInv
<1>3. \A k \in DOMAIN mounts : mounts[k].fd # NewFd(fdt)
  BY <1>2, FreeIsNotHeld DEF TInv
<1>4. MountsFit(mounts, fdt')
  BY <1>2, <1>3, MountsKept DEF TInv
<1>5. cached' \in [Fds -> DevIdx \cup {DevMax}]
  <2>1. DeviceFromPathRecursive(devs, p) \in DevIdx
    BY <1>1, TakenServes
  <2> QED BY <1>1, <2>1 DEF TInv
<1> QED BY <1>2, <1>3, <1>4, <1>5

LEMMA CloseFileFits ==
    ASSUME TInv, NEW fd \in ValidFds, InUse(fdt, fd), CloseFile(fd)
    PROVE  /\ OneRef(fdt') /\ cached' \in [Fds -> DevIdx \cup {DevMax}]
           /\ ~InUse(fdt', fd)
           /\ \A g \in Fds \ {fd} : fdt'[g] = fdt[g]
<1>1. /\ fdt' = FileClose(fdt, fd)
      /\ cached' = [cached EXCEPT ![fd] = IF fdt[fd].ref = 1 THEN DevMax ELSE @]
  BY DEF CloseFile
<1>2. cached' \in [Fds -> DevIdx \cup {DevMax}]
  <2>1. fd \in Fds
    BY FdMaxAssumption DEF ValidFds, Fds
  <2>2. (IF fdt[fd].ref = 1 THEN DevMax ELSE cached[fd]) \in DevIdx \cup {DevMax}
    BY <2>1 DEF TInv
  <2> QED BY <1>1, <2>2 DEF TInv
<1> QED BY <1>1, <1>2, CloseFacts DEF TInv

-----------------------------------------------------------------------------
(* The initial state and each action. *)

LEMMA InitFits == ASSUME Init PROVE TInv
<1> USE DEF Init
<1>1. DevsFit(devs)
  <2>1. ASSUME NEW i \in DevIdx
        PROVE  /\ devs[i] \in Devices \cup {NoDev}
               /\ Used(devs[i]) /\ ~devs[i].mount /\ devs[i].type \in {"flat", "MiniFs"} => devs[i].path \in StorePaths
               /\ Used(devs[i]) => ~devs[i].mount
    <3>1. CASE i < Len(BootDevices)
      <4>1. i + 1 \in 1 .. Len(BootDevices) /\ DOMAIN BootDevices = 1 .. Len(BootDevices)
        BY <3>1, BootAssumption DEF DevIdx
      <4>2. devs[i] = BootDevice(BootDevices[i + 1])
        BY <3>1
      <4>3. BootDevices[i + 1] \in [type : {"dir", "char", "flat", "MiniFs"}, path : Paths, userData : Nat,
                                    writable : BOOLEAN, many : BOOLEAN]
        BY <4>1, ElementOfSeq, BootAssumption
      <4>4. devs[i] \in Devices
        <5>1. PICK b : b = BootDevices[i + 1]
          OBVIOUS
        <5>2. /\ b.type \in {"dir", "char", "flat", "MiniFs", "Fat"} /\ b.path \in Paths /\ b.userData \in Nat
              /\ b.writable \in BOOLEAN /\ b.many \in BOOLEAN
          BY <4>3, <5>1
        <5>3. BootDevice(b) \in Devices
          BY <5>2 DEF BootDevice, Devices
        <5> QED BY <4>2, <5>1, <5>3
      <4>5. devs[i].type = BootDevices[i + 1].type /\ devs[i].path = BootDevices[i + 1].path /\ ~devs[i].mount
        BY <4>2 DEF BootDevice
      <4>6. devs[i].type \in {"flat", "MiniFs"} => devs[i].path \in StorePaths
        BY <4>1, <4>5 DEF StorePaths
      <4> QED BY <4>4, <4>5, <4>6
    <3>2. CASE ~(i < Len(BootDevices))
      <4>1. devs[i] = NoDev
        BY <3>2
      <4> QED BY <4>1 DEF Used, NoDev
    <3> QED BY <3>1, <3>2
  <2>2. devs \in [DevIdx -> Devices \cup {NoDev}]
    BY <2>1
  <2> QED BY <2>1, <2>2 DEF DevsFit
<1>2. OneRef(fdt)
  <2>1. \A fd \in ValidFds : ~InUse(fdt, fd)
    BY FdMaxAssumption DEF EmptyTable, UnusedSlot, InUse, ValidFds, Fds
  <2> QED BY <2>1, EmptyTableType DEF OneRef
<1>3. cached \in [Fds -> DevIdx \cup {DevMax}]
  OBVIOUS
<1>4. MountsFit(mounts, fdt)
  <2>1. mounts \in Seq(MountEntries) /\ Len(mounts) = 0 /\ DOMAIN mounts = {}
    BY EmptySeq
  <2> QED BY <2>1, MountsAssumption DEF MountsFit
<1>5. StoresFit(stores)
  <2>1. /\ stores = [p \in StorePaths |-> [kind |-> stores[p].kind, files |-> stores[p].files]]
        /\ \A p \in StorePaths : IsFiniteSet(Cells(stores[p].files)) /\ Total(stores[p].files) <= Room[p]
    BY StoresAssumption
  <2> QED BY <2>1 DEF StoresFit, FilesFit
<1> QED BY <1>1, <1>2, <1>3, <1>4, <1>5 DEF TInv

LEMMA OpenFits == ASSUME TInv, NEW p \in Opened, Open(p) PROVE TInv'
<1>1. p \in Paths
  BY MountsAssumption
<1>2. OpenFile(p) /\ UNCHANGED <<devs, mounts, stores>>
  BY DEF Open
<1> QED BY <1>1, <1>2, OpenFileFits DEF TInv

LEMMA CloseFits == ASSUME TInv, NEW fd \in ValidFds, Close(fd) PROVE TInv'
<1>1. InUse(fdt, fd) /\ ~HeldByMount(fd) /\ CloseFile(fd) /\ UNCHANGED <<devs, mounts, stores>>
  BY DEF Close
<1>2. \A k \in DOMAIN mounts : mounts[k].fd # fd
  BY <1>1 DEF HeldByMount
<1>3. MountsFit(mounts, fdt')
  BY <1>1, <1>2, CloseFileFits, MountsKept DEF TInv
<1> QED BY <1>1, <1>3, CloseFileFits DEF TInv

LEMMA RequestFacts ==
    ASSUME NEW r \in Requests
    PROVE  /\ r.format \in Formats /\ r.device \in Paths /\ r.dir \in Paths
           /\ r.format # "CircBuf" <=> r.device \in FlatPaths
<1>1. r \in [format : Formats, device : Paths, dir : Paths]
  BY MountsAssumption
<1> QED BY <1>1, MountsAssumption

LEMMA AddMountFits ==
    ASSUME TInv, NEW r \in Requests, NEW fd \in ValidFds, AddMount(r, fd)
    PROVE  DevsFit(devs')
BY DevAdded DEF AddMount, TInv

LEMMA ResetRingFits ==
    ASSUME TInv, NEW r, ResetRing(r)
    PROVE  StoresFit(stores') /\ \A q \in StorePaths : stores'[q].kind = stores[q].kind
<1> DEFINE i == DeviceFromPath(devs, Dirname(r.device))
           p == StoreOf(i)
           name == Basename(r.device)
           bytes == SetTail(SetHead(stores[p].files[name], 0), 0)
<1>1. CASE r.format = "CircBuf"
  <2>1. stores' = [stores EXCEPT ![p].files[name] = bytes]
    BY <1>1 DEF ResetRing
  <2>2. DOMAIN bytes = DOMAIN stores[p].files[name]
    BY SetOffsetKeepsLength DEF SetTail, SetHead
  <2> HIDE DEF p, name, bytes
  <2>3. StoresFit(stores)
    BY DEF TInv
  <2>4. StoresFit([stores EXCEPT ![p].files[name] = bytes])
    BY <2>2, <2>3, BytesReplaced
  <2>5. \A q \in StorePaths : [stores EXCEPT ![p].files[name] = bytes][q].kind = stores[q].kind
    BY <2>2, <2>3, BytesReplaced
  <2> QED BY <2>1, <2>4, <2>5
<1>2. CASE r.format # "CircBuf"
  BY <1>2 DEF ResetRing, TInv
<1> QED BY <1>1, <1>2

LEMMA MountFits == ASSUME TInv, NEW r \in Requests, Mount(r) PROVE TInv'
<1>1. /\ Len(mounts) < MountMax /\ OpenFile(r.device) /\ AddMount(r, NewFd(fdt))
      /\ mounts' = Append(mounts, [format |-> r.format, fd |-> NewFd(fdt)]) /\ ResetRing(r)
  BY DEF Mount
<1>2. /\ OneRef(fdt') /\ cached' \in [Fds -> DevIdx \cup {DevMax}]
      /\ MountsFit(mounts, fdt')
      /\ NewFd(fdt) \in ValidFds /\ InUse(fdt', NewFd(fdt)) /\ fdt'[NewFd(fdt)].path = r.device
      /\ \A k \in DOMAIN mounts : mounts[k].fd # NewFd(fdt)
  BY <1>1, RequestFacts, OpenFileFits
<1>3. MountsFit(mounts', fdt')
  BY <1>1, <1>2, RequestFacts, MountsGrow
<1>4. DevsFit(devs')
  BY <1>1, <1>2, AddMountFits
<1>5. StoresFit(stores')
  BY <1>1, ResetRingFits
<1> QED BY <1>2, <1>3, <1>4, <1>5 DEF TInv

LEMMA MountHalfFits == ASSUME TInv, NEW r \in Requests, MountHalf(r) PROVE TInv'
<1>1. FreeFds(fdt) # {} /\ AddMount(r, NewFd(fdt)) /\ UNCHANGED <<fdt, cached, mounts, stores>>
  BY DEF MountHalf
<1>2. NewFd(fdt) \in ValidFds
  BY <1>1, NewFdFacts
<1>3. DevsFit(devs')
  BY <1>1, <1>2, AddMountFits
<1> QED BY <1>1, <1>3 DEF TInv

LEMMA UnmountFits == ASSUME TInv, NEW p, Unmount(p) PROVE TInv'
<1> DEFINE i == DeviceFromPath(devs, p)
           k == Min(MountOf(i))
<1>1. /\ i # DevMax /\ MountOf(i) # {} /\ devs' = [devs EXCEPT ![i] = NoDev]
      /\ CloseFile(devs[i].userData) /\ mounts' = Without(k) /\ stores' = stores
  BY DEF Unmount
<1> HIDE DEF i
<1>2. k \in DOMAIN mounts /\ mounts[k].fd = devs[i].userData
  BY <1>1, MountOfFacts
<1> HIDE DEF k
<1>3. devs[i].userData \in ValidFds /\ InUse(fdt, devs[i].userData)
  BY <1>2, EntryFacts DEF TInv, MountsFit
<1>4. /\ OneRef(fdt') /\ cached' \in [Fds -> DevIdx \cup {DevMax}]
      /\ \A g \in Fds \ {devs[i].userData} : fdt'[g] = fdt[g]
  BY <1>1, <1>3, CloseFileFits
<1>5. MountsFit(mounts', fdt) /\ \A j \in DOMAIN mounts' : mounts'[j].fd # devs[i].userData
  BY <1>1, <1>2, MountsShrink DEF TInv
<1>6. MountsFit(mounts', fdt')
  <2>1. PICK fd, ms, t, u : fd = devs[i].userData /\ ms = mounts' /\ t = fdt /\ u = fdt'
    OBVIOUS
  <2>2. MountsFit(ms, t)
    BY <1>5, <2>1
  <2>3. (\A j \in DOMAIN ms : ms[j].fd # fd) /\ (\A g \in Fds \ {fd} : u[g] = t[g])
    BY <1>4, <1>5, <2>1
  <2>4. MountsFit(ms, u)
    BY <2>2, <2>3, MountsKept
  <2> QED BY <2>1, <2>4
<1>7. DevsFit(devs')
  BY <1>1, DevRemoved DEF TInv
<1> QED BY <1>1, <1>4, <1>6, <1>7 DEF TInv

LEMMA DeleteDeviceFits == ASSUME TInv, NEW p, DeleteDevice(p) PROVE TInv'
<1>1. devs' = [devs EXCEPT ![DeviceFromPath(devs, p)] = NoDev] /\ UNCHANGED <<fdt, cached, mounts, stores>>
  BY DEF DeleteDevice
<1>2. DevsFit(devs')
  BY <1>1, DevRemoved DEF TInv
<1> QED BY <1>1, <1>2 DEF TInv

LEMMA CreateFileFits ==
    ASSUME TInv, NEW p, NEW n \in Sizes, NEW v, CreateFile(p, n, v)
    PROVE  TInv' /\ \A d \in StorePaths : stores'[d].kind = stores[d].kind
<1> DEFINE i == DeviceFromPath(devs, Dirname(p))
           q == StoreOf(i)
           name == Basename(p)
           files == [m \in DOMAIN stores[q].files \cup {name} |->
                        IF m = name THEN [k \in 1 .. n |-> v] ELSE stores[q].files[m]]
<1>1. /\ i # DevMax /\ IsVolume(devs[i]) /\ (devs[i].mount => Mounted(i))
      /\ name \notin DOMAIN VolumeOn(i) /\ Total(VolumeOn(i)) + n <= Room[q]
      /\ stores' = [stores EXCEPT ![q].files = files]
      /\ UNCHANGED <<devs, fdt, cached, mounts>>
  BY DEF CreateFile
<1> HIDE DEF name
<1>2. i \in DevIdx
  BY <1>1, DeviceFacts
<1> HIDE DEF i
<1>3. q \in StorePaths /\ VolumeOn(i) = stores[q].files
  BY <1>1, <1>2, VolumeFacts
<1> HIDE DEF q
<1>4. IsFiniteSet(Cells(stores[q].files)) /\ Room[q] \in Nat /\ n \in Nat
  <2>1. n \in Nat
    BY StoresAssumption, MountsAssumption DEF FileSizes
  <2>2. \A d \in StorePaths : Room[d] \in Nat
    BY StoresAssumption
  <2> QED BY <1>3, <2>1, <2>2 DEF TInv, StoresFit, FilesFit
<1>5. FilesFit(files, q)
  <2>1. PICK old : old = stores[q].files
    OBVIOUS
  <2>2. /\ IsFiniteSet(Cells(old)) /\ name \notin DOMAIN old /\ n \in Nat
        /\ Total(old) + n <= Room[q] /\ Room[q] \in Nat
    BY <1>1, <1>3, <1>4, <2>1
  <2>3. FilesFit(WithFile(old, name, n, v), q)
    BY <2>2, FilesGrow
  <2> QED BY <2>1, <2>3 DEF WithFile
<1> HIDE DEF files
<1>6. StoresFit(stores')
  <2>1. StoresFit(stores) /\ (q \in StorePaths => FilesFit(files, q))
    BY <1>5 DEF TInv
  <2>2. StoresFit([stores EXCEPT ![q].files = files])
    BY <2>1, FilesReplaced
  <2> QED BY <1>1, <2>2
<1>7. \A d \in StorePaths : stores'[d].kind = stores[d].kind
  BY <1>1, <1>5, FilesReplaced DEF TInv
<1> QED BY <1>1, <1>6, <1>7 DEF TInv

LEMMA DeleteFileFits ==
    ASSUME TInv, NEW p, DeleteFile(p)
    PROVE  TInv' /\ \A d \in StorePaths : stores'[d].kind = stores[d].kind
<1> DEFINE i == DeviceFromPath(devs, Dirname(p))
           q == StoreOf(i)
           S == DOMAIN stores[q].files \ {Basename(p)}
           files == [m \in S |-> stores[q].files[m]]
<1>1. stores' = [stores EXCEPT ![q].files = files] /\ UNCHANGED <<devs, fdt, cached, mounts>>
  BY DEF DeleteFile
<1> HIDE DEF q
<1>2. ASSUME q \in StorePaths PROVE FilesFit(files, q)
  <2>1. FilesFit(stores[q].files, q) /\ Room[q] \in Nat /\ S \subseteq DOMAIN stores[q].files
    BY <1>2, StoresAssumption DEF TInv, StoresFit
  <2> HIDE DEF S
  <2> QED BY <2>1, FilesShrink
<1> HIDE DEF files
<1>3. StoresFit(stores')
  BY <1>1, <1>2, FilesReplaced DEF TInv
<1>4. \A d \in StorePaths : stores'[d].kind = stores[d].kind
  BY <1>1, <1>2, FilesReplaced DEF TInv
<1> QED BY <1>1, <1>3, <1>4 DEF TInv

\* Bytes written through a descriptor are those of a file of some volume.
LEMMA SetBytesFits ==
    ASSUME TInv, NEW fd \in Fds, HasFile(fd), NEW bytes, DOMAIN bytes = DOMAIN BytesOf(fd), SetBytes(fd, bytes)
    PROVE  /\ StoresFit(stores')
           /\ \A p \in StorePaths : stores'[p].kind = stores[p].kind
<1> DEFINE i == cached[fd]
           p == StoreOf(i)
           name == Basename(fdt[fd].path)
<1>1. i \in DevIdx /\ IsVolume(devs[i]) /\ name \in DOMAIN VolumeOn(i)
  BY DEF HasFile, Served, TInv
<1>2. BytesOf(fd) = VolumeOn(i)[name] /\ stores' = [stores EXCEPT ![p].files[name] = bytes]
  BY DEF BytesOf, SetBytes
<1> HIDE DEF name, i
<1>3. VolumeOn(i) = stores[p].files
  <2>1. DOMAIN VolumeOn(i) # {}
    BY <1>1
  <2>2. VolumeOn(i) # << >>
    BY <2>1
  <2> QED BY <1>1, <2>2, VolumeFacts
<1> HIDE DEF p
<1>4. DOMAIN bytes = DOMAIN stores[p].files[name]
  BY <1>2, <1>3
<1>5. StoresFit(stores)
  BY DEF TInv
<1>6. StoresFit([stores EXCEPT ![p].files[name] = bytes])
  BY <1>4, <1>5, BytesReplaced
<1>7. \A q \in StorePaths : [stores EXCEPT ![p].files[name] = bytes][q].kind = stores[q].kind
  BY <1>4, <1>5, BytesReplaced
<1> QED BY <1>2, <1>6, <1>7

LEMMA WriteFileFits ==
    ASSUME TInv, NEW fd \in ValidFds, NEW v, WriteFile(fd, v)
    PROVE  TInv' /\ \A p \in StorePaths : stores'[p].kind = stores[p].kind
<1>1. HasFile(fd) /\ SetBytes(fd, [k \in DOMAIN BytesOf(fd) |-> v]) /\ UNCHANGED <<devs, fdt, cached, mounts>>
  BY DEF WriteFile
<1>2. fd \in Fds
  BY FdMaxAssumption DEF ValidFds, Fds
<1>3. DOMAIN [k \in DOMAIN BytesOf(fd) |-> v] = DOMAIN BytesOf(fd)
  OBVIOUS
<1>4. StoresFit(stores') /\ \A p \in StorePaths : stores'[p].kind = stores[p].kind
  BY <1>1, <1>2, <1>3, SetBytesFits
<1> QED BY <1>1, <1>4 DEF TInv

LEMMA WriteFlatFits == ASSUME TInv, NEW fd, WriteFlat(fd) PROVE TInv'
<1>1. /\ stores' = [stores EXCEPT ![StoreOf(cached[fd])] = [kind |-> "junk", files |-> << >>]]
      /\ UNCHANGED <<devs, fdt, cached, mounts>>
  BY DEF WriteFlat
<1>2. \A p \in StorePaths : FilesFit(<< >>, p)
  BY NoFilesFit, StoresAssumption
<1>3. StoresFit(stores')
  BY <1>1, <1>2, StoreReplaced DEF TInv
<1> QED BY <1>1, <1>3 DEF TInv

\* The descriptor behind a ring device.
LEMMA RingFacts ==
    ASSUME TInv, NEW fd \in ValidFds, IsRing(fd)
    PROVE  RingFd(fd) \in Fds /\ HasFile(RingFd(fd))
<1>1. fd \in Fds /\ ValidFds \subseteq Fds
  BY FdMaxAssumption DEF ValidFds, Fds
<1>2. cached[fd] \in DevIdx /\ Used(devs[cached[fd]]) /\ devs[cached[fd]].mount
  BY <1>1 DEF IsRing, Served, TInv
<1>3. RingFd(fd) \in ValidFds
  BY <1>2 DEF RingFd, TInv, DevsFit
<1> QED BY <1>1, <1>3 DEF IsRing

LEMMA RingReadFits ==
    ASSUME TInv, NEW fd \in ValidFds, RingRead(fd)
    PROVE  TInv' /\ \A p \in StorePaths : stores'[p].kind = stores[p].kind
<1> DEFINE g == RingFd(fd)
           bytes == SetHead(BytesOf(g), IncOffset(Len(BytesOf(g)), GetHead(BytesOf(g))))
<1>1. IsRing(fd) /\ SetBytes(g, bytes) /\ UNCHANGED <<devs, fdt, cached, mounts>>
  BY DEF RingRead
<1>2. DOMAIN bytes = DOMAIN BytesOf(g)
  BY SetOffsetKeepsLength DEF SetHead
<1>3. g \in Fds /\ HasFile(g)
  BY <1>1, RingFacts
<1> HIDE DEF g, bytes
<1>4. StoresFit(stores') /\ \A p \in StorePaths : stores'[p].kind = stores[p].kind
  BY <1>1, <1>2, <1>3, SetBytesFits
<1> QED BY <1>1, <1>4 DEF TInv

LEMMA RingWriteFits ==
    ASSUME TInv, NEW fd \in ValidFds, NEW s \in Pushes, RingWrite(fd, s)
    PROVE  TInv' /\ \A p \in StorePaths : stores'[p].kind = stores[p].kind
<1> DEFINE g == RingFd(fd)
           pushed == PushAll(BytesOf(g), s)
           bytes == SetTail(pushed.bytes, pushed.tail)
<1>1. IsRing(fd) /\ SetBytes(g, bytes) /\ UNCHANGED <<devs, fdt, cached, mounts>>
  BY DEF RingWrite
<1>2. DOMAIN bytes = DOMAIN BytesOf(g)
  <2>1. s \in Seq(Bytes)
    BY MountsAssumption
  <2>2. DOMAIN pushed.bytes = DOMAIN BytesOf(g)
    BY <2>1, PushAllKeepsLength
  <2> HIDE DEF pushed
  <2> QED BY <2>2, SetOffsetKeepsLength DEF SetTail
<1>3. g \in Fds /\ HasFile(g)
  BY <1>1, RingFacts
<1> HIDE DEF g, bytes
<1>4. StoresFit(stores') /\ \A p \in StorePaths : stores'[p].kind = stores[p].kind
  BY <1>1, <1>2, <1>3, SetBytesFits
<1> QED BY <1>1, <1>4 DEF TInv

LEMMA RemountFailsFits == ASSUME TInv, NEW r \in Requests, RemountFails(r) PROVE TInv'
<1>1. OpenFile(r.device) /\ UNCHANGED <<devs, mounts, stores>>
  BY DEF RemountFails
<1> QED BY <1>1, RequestFacts, OpenFileFits DEF TInv

\* What is known of a remount: of its device, its mount and its two descriptors.
LEMMA RemountFacts ==
    ASSUME TInv, NEW r \in Requests, RemountMiniFs(r)
    PROVE  \E i \in DevIdx, k \in DOMAIN mounts, old \in ValidFds, new \in ValidFds :
              /\ i = DeviceFromPath(devs, r.dir) /\ k = Min(MountOf(i)) /\ old = mounts[k].fd /\ new = NewFd(fdt)
              /\ Used(devs[i]) /\ devs[i].path = r.dir /\ devs[i].type = "MiniFs" /\ devs[i].userData = old
              /\ InUse(fdt, old) /\ ~InUse(fdt, new) /\ FreeFds(fdt) # {} /\ MayOpenPath(r.device)
              /\ r.format = "MiniFs" /\ r.device \in FlatPaths /\ r.device \in Paths
              /\ \A j \in DOMAIN mounts : mounts[j].fd # new
<1> DEFINE i == DeviceFromPath(devs, r.dir)
           k == Min(MountOf(i))
<1>1. /\ i # DevMax /\ MountOf(i) # {} /\ FreeFds(fdt) # {} /\ MayOpenPath(r.device)
      /\ r.format = "MiniFs" /\ devs[i].type = "MiniFs"
  BY DEF RemountMiniFs, MayRemount
<1>2. i \in DevIdx /\ Used(devs[i]) /\ devs[i].path = r.dir
  BY <1>1, DeviceFacts
<1>3. k \in DOMAIN mounts /\ mounts[k].fd = devs[i].userData
  BY <1>1, MountOfFacts
<1>4. mounts[k].fd \in ValidFds /\ InUse(fdt, mounts[k].fd)
  BY <1>3, EntryFacts DEF TInv, MountsFit
<1>5. NewFd(fdt) \in ValidFds /\ ~InUse(fdt, NewFd(fdt))
  BY <1>1, NewFdFacts
<1>6. \A j \in DOMAIN mounts : mounts[j].fd # NewFd(fdt)
  BY <1>5, FreeIsNotHeld DEF TInv
<1>7. r.device \in FlatPaths /\ r.device \in Paths
  BY <1>1, RequestFacts
<1> QED BY <1>1, <1>2, <1>3, <1>4, <1>5, <1>6, <1>7

\* The tables before and after a remount whose files fitted: device i, entry k of
\* the mounts, and the two descriptors.
RemountEffect(r, i, k, old, new) ==
    /\ i = DeviceFromPath(devs, r.dir) /\ old = mounts[k].fd /\ old # new /\ new = NewFd(fdt)
    /\ Used(devs[i]) /\ devs[i].path = r.dir /\ devs[i].type = "MiniFs" /\ devs[i].userData = old
    /\ r.format = "MiniFs" /\ r.device \in FlatPaths
    /\ ~InUse(fdt, new) /\ MayOpenPath(r.device)
    /\ devs' = [devs EXCEPT ![i] = MountDevice(r, new, devs[i].many)]
    /\ mounts' = [mounts EXCEPT ![k] = [format |-> "MiniFs", fd |-> new]]
    /\ OneRef(fdt') /\ MountsFit(mounts', fdt') /\ cached' \in [Fds -> DevIdx \cup {DevMax}]
    /\ fdt'[new].path = r.device /\ ~InUse(fdt', old) /\ \A g \in Fds \ {old, new} : fdt'[g] = fdt[g]

LEMMA RemountTables ==
    ASSUME TInv, NEW r \in Requests, RemountMiniFs(r), Fits(VolumeOn(DeviceFromPath(devs, r.dir)), r.device)
    PROVE  \E i \in DevIdx, k \in DOMAIN mounts, old \in ValidFds, new \in ValidFds :
              RemountEffect(r, i, k, old, new)
<1>0. PICK i \in DevIdx, k \in DOMAIN mounts, old \in ValidFds, new \in ValidFds :
         /\ i = DeviceFromPath(devs, r.dir) /\ k = Min(MountOf(i)) /\ old = mounts[k].fd /\ new = NewFd(fdt)
         /\ Used(devs[i]) /\ devs[i].path = r.dir /\ devs[i].type = "MiniFs" /\ devs[i].userData = old
         /\ InUse(fdt, old) /\ ~InUse(fdt, new) /\ FreeFds(fdt) # {} /\ MayOpenPath(r.device)
         /\ r.format = "MiniFs" /\ r.device \in FlatPaths /\ r.device \in Paths
         /\ \A j \in DOMAIN mounts : mounts[j].fd # new
  BY RemountFacts
<1> DEFINE o == FileOpen(fdt, r.device, "RW")
           ms == [mounts EXCEPT ![k] = [format |-> "MiniFs", fd |-> new]]
<1>1. /\ mounts' = ms
      /\ devs' = [devs EXCEPT ![i] = MountDevice(r, new, devs[i].many)]
      /\ fdt' = FileClose(o, old)
      /\ cached' = [cached EXCEPT ![new] = DeviceFromPathRecursive(devs, r.device), ![old] = DevMax]
  BY <1>0 DEF RemountMiniFs
<1>2. old \in Fds /\ new \in Fds
  BY FdMaxAssumption DEF ValidFds, Fds
<1>3. OneRef(o) /\ o[new].path = r.device /\ InUse(o, new) /\ \A fd \in Fds \ {new} : o[fd] = fdt[fd]
  BY <1>0, OpenFacts DEF TInv
<1>4. old # new /\ InUse(o, old)
  BY <1>0, <1>2, <1>3 DEF InUse
<1> HIDE DEF o
<1>5. OneRef(fdt') /\ ~InUse(fdt', old) /\ \A g \in Fds \ {old} : fdt'[g] = o[g]
  BY <1>1, <1>3, <1>4, CloseFacts
<1>6. fdt'[new].path = r.device /\ \A g \in Fds \ {old, new} : fdt'[g] = fdt[g]
  BY <1>2, <1>3, <1>4, <1>5
<1>7. MountsFit(mounts, o)
  BY <1>0, <1>3, MountsKept DEF TInv
<1>8. MountsFit(ms, o) /\ \A j \in DOMAIN ms : ms[j].fd # old
  BY <1>0, <1>3, <1>7, MountsExchange
<1>9. MountsFit(mounts', fdt')
  <2> HIDE DEF ms
  <2> QED BY <1>1, <1>5, <1>8, MountsKept
<1>10. cached' \in [Fds -> DevIdx \cup {DevMax}]
  <2>1. DeviceFromPathRecursive(devs, r.device) \in DevIdx
    BY <1>0, TakenServes DEF MayOpenPath
  <2> QED BY <1>1, <2>1 DEF TInv
<1>11. RemountEffect(r, i, k, old, new)
  BY <1>0, <1>1, <1>4, <1>5, <1>6, <1>9, <1>10 DEF RemountEffect
<1> QED BY <1>11

LEMMA RemountStores ==
    ASSUME TInv, NEW r \in Requests, RemountMiniFs(r)
    PROVE  /\ StoresFit(stores')
           /\ stores' = [stores EXCEPT ![r.device] = Formatted(Copied(VolumeOn(DeviceFromPath(devs, r.dir)), r.device))]
<1>1. PICK i \in DevIdx : /\ i = DeviceFromPath(devs, r.dir) /\ devs[i].type = "MiniFs" /\ r.device \in FlatPaths
  BY RemountFacts
<1>2. stores' = [stores EXCEPT ![r.device] = Formatted(Copied(VolumeOn(DeviceFromPath(devs, r.dir)), r.device))]
  BY DEF RemountMiniFs
<1>3. IsFiniteSet(Cells(VolumeOn(i)))
  BY <1>1, VolumeIsFinite DEF IsVolume
<1>4. Room[r.device] \in Nat
  <2>1. r.device \in StorePaths
    BY <1>1 DEF FlatPaths, StorePaths
  <2> QED BY <2>1, StoresAssumption
<1> DEFINE files == Copied(VolumeOn(i), r.device)
<1>5. FilesFit(files, r.device)
  BY <1>3, <1>4, CopiedFits
<1>6. stores' = [stores EXCEPT ![r.device] = [kind |-> "volume", files |-> files]]
  BY <1>1, <1>2 DEF Formatted
<1> HIDE DEF files
<1>7. StoresFit([stores EXCEPT ![r.device] = [kind |-> "volume", files |-> files]])
  BY <1>5, StoreReplaced DEF TInv
<1> QED BY <1>2, <1>6, <1>7

LEMMA RemountMiniFsFits == ASSUME TInv, NEW r \in Requests, RemountMiniFs(r) PROVE TInv'
<1>1. PICK i \in DevIdx : i = DeviceFromPath(devs, r.dir) /\ Used(devs[i])
  BY RemountFacts
<1>2. StoresFit(stores')
  BY RemountStores
<1>3. CASE Fits(VolumeOn(i), r.device)
  <2>1. PICK new \in ValidFds :
           /\ devs' = [devs EXCEPT ![i] = MountDevice(r, new, devs[i].many)]
           /\ OneRef(fdt') /\ MountsFit(mounts', fdt') /\ cached' \in [Fds -> DevIdx \cup {DevMax}]
    BY <1>1, <1>3, RemountTables DEF RemountEffect
  <2>2. devs[i].many \in BOOLEAN
    BY <1>1, EntryFacts DEF Devices
  <2>3. DevsFit(devs')
    BY <2>1, <2>2, DevAdded DEF TInv
  <2> QED BY <1>2, <2>1, <2>3 DEF TInv
<1>4. CASE ~Fits(VolumeOn(i), r.device)
  <2>1. UNCHANGED <<mounts, devs, fdt, cached>>
    BY <1>1, <1>4 DEF RemountMiniFs
  <2> QED BY <1>2, <2>1 DEF TInv
<1> QED BY <1>3, <1>4

LEMMA NextFits == ASSUME TInv, [Next]_vars PROVE TInv'
<1>1. CASE UNCHANGED vars
  BY <1>1 DEF vars, TInv
<1>2. ASSUME NEW r \in Requests, Mount(r) PROVE TInv'
  BY <1>2, MountFits
<1>3. ASSUME NEW r \in Requests, MountHalf(r) PROVE TInv'
  BY <1>3, MountHalfFits
<1>4. ASSUME NEW r \in Requests, RemountMiniFs(r) PROVE TInv'
  BY <1>4, RemountMiniFsFits
<1>5. ASSUME NEW r \in Requests, RemountFails(r) PROVE TInv'
  BY <1>5, RemountFailsFits
<1>6. ASSUME NEW p \in Unmounted, Unmount(p) PROVE TInv'
  BY <1>6, UnmountFits
<1>7. ASSUME NEW p \in Deleted, DeleteDevice(p) PROVE TInv'
  BY <1>7, DeleteDeviceFits
<1>8. ASSUME NEW p \in Opened, Open(p) PROVE TInv'
  BY <1>8, OpenFits
<1>9. ASSUME NEW p \in Created, DeleteFile(p) PROVE TInv'
  BY <1>9, DeleteFileFits
<1>10. ASSUME NEW p \in Created, NEW n \in Sizes, NEW v \in Data, CreateFile(p, n, v) PROVE TInv'
  BY <1>10, CreateFileFits
<1>11. ASSUME NEW fd \in ValidFds, Close(fd) PROVE TInv'
  BY <1>11, CloseFits
<1>12. ASSUME NEW fd \in ValidFds, WriteFlat(fd) PROVE TInv'
  BY <1>12, WriteFlatFits
<1>13. ASSUME NEW fd \in ValidFds, RingRead(fd) PROVE TInv'
  BY <1>13, RingReadFits
<1>14. ASSUME NEW fd \in ValidFds, NEW v \in Data, WriteFile(fd, v) PROVE TInv'
  BY <1>14, WriteFileFits
<1>15. ASSUME NEW fd \in ValidFds, NEW s \in Pushes, RingWrite(fd, s) PROVE TInv'
  BY <1>15, RingWriteFits
<1> QED BY <1>1, <1>2, <1>3, <1>4, <1>5, <1>6, <1>7, <1>8, <1>9, <1>10, <1>11, <1>12, <1>13, <1>14, <1>15 DEF Next

LEMMA Invariance == Spec => []TInv
<1>1. Init => TInv
  BY InitFits
<1>2. TInv /\ [Next]_vars => TInv'
  BY NextFits
<1> QED BY <1>1, <1>2, PTL DEF Spec

\* Devices, descriptors and mounts stay well formed; in particular the volumes
\* never hold more than they have room for (kernelmount.c:245), whatever is
\* created, written, copied or deleted.
THEOREM TypeCorrect == Spec => []TypeOK
<1>1. TInv => TypeOK
  <2> SUFFICES ASSUME TInv PROVE TypeOK
    OBVIOUS
  <2>1. Len(mounts) <= MountMax /\ \A k \in DOMAIN mounts : mounts[k].fd \in ValidFds
    BY EntryFacts DEF TInv, MountsFit
  <2>2. DOMAIN stores = StorePaths
    BY DEF TInv, StoresFit
  <2>3. \A p \in StorePaths : Total(stores[p].files) <= Room[p]
    BY DEF TInv, StoresFit, FilesFit
  <2> QED BY <2>1, <2>2, <2>3 DEF TInv, TypeOK, DevsFit, OneRef
<1> QED BY <1>1, Invariance, PTL

(***************************************************************************)
(* Mounted volumes are intact, provided nobody removes the flat devices:   *)
(* each is at its path and can be open once, so that no descriptor but the *)
(* one a mount holds reaches the bytes of its volume.                      *)
(***************************************************************************)
FlatDevicesStay == (Unmounted \cup Deleted) \cap FlatPaths = {}

FlatsFit(ds) ==
    /\ \A p \in FlatPaths : \E i \in DevIdx : Used(ds[i]) /\ ds[i].path = p
    /\ \A i \in DevIdx : Used(ds[i]) =>
          /\ Dirname(ds[i].path) \notin FlatPaths
          /\ ds[i].path \in FlatPaths => ds[i].type = "flat" /\ ds[i].writable /\ ~ds[i].mount
          /\ ds[i].type = "flat" /\ ~ds[i].mount => ds[i].path \in FlatPaths

OpensFit(t) ==
    \A fd \in ValidFds : InUse(t, fd) =>
        /\ Dirname(t[fd].path) \notin FlatPaths
        /\ t[fd].path \in FlatPaths => \A g \in ValidFds : t[g].path = t[fd].path => g = fd

VolumesFit(ms, t, s) == \A k \in DOMAIN ms : ms[k].format = "MiniFs" => s[t[ms[k].fd].path].kind = "volume"

VInv == FlatsFit(devs) /\ OpensFit(fdt) /\ VolumesFit(mounts, fdt, stores)

\* Boot gives flat devices a name, so that nothing that has none is below one.
LEMMA FlatPathFacts ==
    /\ FlatPaths \subseteq Paths /\ FlatPaths \subseteq StorePaths
    /\ << >> \notin FlatPaths /\ NoPath \notin FlatPaths
    /\ Dirname(Root) = << >>
<1>1. \A i \in DOMAIN BootDevices : BootDevices[i].path \in Paths /\ BootDevices[i].path # << >>
  <2>1. \A i \in DOMAIN BootDevices :
           BootDevices[i] \in [type : {"dir", "char", "flat", "MiniFs"}, path : Paths, userData : Nat,
                               writable : BOOLEAN, many : BOOLEAN]
    <3>1. DOMAIN BootDevices = 1 .. Len(BootDevices)
      BY BootAssumption
    <3> QED BY <3>1, BootAssumption, ElementOfSeq
  <2> QED BY <2>1, BootAssumption
<1>2. Dirname(Root) = << >>
  <2>1. Root = <<"/">> /\ DOMAIN Root = {1} /\ Root[1] = "/"
    BY DEF Root
  <2> HIDE DEF Root
  <2>2. LastSlash(Root) = 1
    BY <2>1 DEF LastSlash
  <2>3. Dirname(Root) = SubSeq(Root, 1, 0)
    BY <2>2 DEF Dirname
  <2>4. SubSeq(Root, 1, 0) = << >>
    BY SubSeqEmpty
  <2> QED BY <2>3, <2>4
<1> QED BY <1>1, <1>2, PathsAssumption DEF FlatPaths, StorePaths

\* A device is never added over or below a flat one.
LEMMA MayAddFacts ==
    ASSUME FlatsFit(devs), NEW dir, MayAdd(dir)
    PROVE  Dirname(dir) \notin FlatPaths /\ dir \notin FlatPaths
<1>1. \A i \in DevIdx : Used(devs[i]) => devs[i].path # dir
  BY DeviceFacts DEF MayAdd, FileExists
<1>2. dir \notin FlatPaths
  BY <1>1 DEF FlatsFit
<1>3. CASE Dirname(dir) = << >>
  BY <1>2, <1>3, FlatPathFacts
<1>4. CASE Dirname(dir) # << >>
  <2>1. dir # Root /\ Parent(dir) = Dirname(dir)
    BY <1>4, FlatPathFacts DEF Parent
  <2> DEFINE i == DeviceFromPath(devs, Dirname(dir))
  <2>2. i # DevMax /\ IsDirDev(devs[i])
    BY <2>1 DEF MayAdd
  <2>3. i \in DevIdx /\ Used(devs[i]) /\ devs[i].path = Dirname(dir) /\ devs[i].type # "flat"
    BY <2>2, DeviceFacts DEF IsDirDev
  <2> QED BY <1>2, <2>3 DEF FlatsFit
<1> QED BY <1>3, <1>4

LEMMA AddMountKeepsFlats ==
    ASSUME FlatsFit(devs), TInv, NEW r, NEW fd, AddMount(r, fd)
    PROVE  FlatsFit(devs')
<1> DEFINE m == Min(FreeDevs)
           d == MountDevice(r, fd, TRUE)
<1>1. devs' = [devs EXCEPT ![m] = d] /\ MayAdd(r.dir)
  BY DEF AddMount
<1>2. m \in FreeDevs
  <2>1. FreeDevs \subseteq Nat /\ FreeDevs # {}
    BY <1>1, MountsAssumption DEF FreeDevs, DevIdx, MayAdd
  <2> QED BY <2>1, MinIsIn
<1>3. ~Used(devs[m]) /\ m \in DevIdx
  BY <1>2 DEF FreeDevs
<1>4. d.path = r.dir /\ d.mount
  BY DEF MountDevice
<1>5. Dirname(d.path) \notin FlatPaths /\ d.path \notin FlatPaths
  BY <1>1, <1>4, MayAddFacts
<1> HIDE DEF d, m
<1>6. \A i \in DevIdx : devs'[i] = IF i = m THEN d ELSE devs[i]
  BY <1>1 DEF TInv, DevsFit
<1>7. \A p \in FlatPaths : \E i \in DevIdx : Used(devs'[i]) /\ devs'[i].path = p
  BY <1>3, <1>6 DEF FlatsFit
<1>8. \A i \in DevIdx : Used(devs'[i]) =>
          /\ Dirname(devs'[i].path) \notin FlatPaths
          /\ devs'[i].path \in FlatPaths => devs'[i].type = "flat" /\ devs'[i].writable /\ ~devs'[i].mount
          /\ devs'[i].type = "flat" /\ ~devs'[i].mount => devs'[i].path \in FlatPaths
  BY <1>4, <1>5, <1>6 DEF FlatsFit
<1> QED BY <1>7, <1>8 DEF FlatsFit

LEMMA RemovalKeepsFlats ==
    ASSUME FlatsFit(devs), TInv, NEW p, p \notin FlatPaths, DeviceFromPath(devs, p) # DevMax,
           devs' = [devs EXCEPT ![DeviceFromPath(devs, p)] = NoDev]
    PROVE  FlatsFit(devs')
<1>1. PICK i \in DevIdx : i = DeviceFromPath(devs, p) /\ devs[i].path = p
  BY DeviceFacts
<1>2. \A j \in DevIdx : devs'[j] = IF j = i THEN NoDev ELSE devs[j]
  BY <1>1 DEF TInv, DevsFit
<1>3. ~Used(NoDev)
  BY DEF Used, NoDev
<1>4. \A q \in FlatPaths : \E j \in DevIdx : Used(devs'[j]) /\ devs'[j].path = q
  BY <1>1, <1>2 DEF FlatsFit
<1> QED BY <1>2, <1>3, <1>4 DEF FlatsFit

\* A path that may be opened is not below a flat device, and a flat device is
\* opened once.
LEMMA MayOpenFacts ==
    ASSUME FlatsFit(devs), NEW p, MayOpenPath(p)
    PROVE  Dirname(p) \notin FlatPaths /\ (p \in FlatPaths => ~FileIsOpen(fdt, p))
<1>1. Dirname(p) \notin FlatPaths
  <2>1. CASE DeviceFromPath(devs, p) # DevMax
    BY <2>1, DeviceFacts DEF FlatsFit
  <2>2. CASE FileIn(p)
    <3> DEFINE j == DeviceFromPath(devs, Dirname(p))
    <3>1. j # DevMax /\ devs[j].type = "MiniFs"
      BY <2>2 DEF FileIn, IsVolume
    <3>2. j \in DevIdx /\ Used(devs[j]) /\ devs[j].path = Dirname(p) /\ devs[j].type # "flat"
      BY <3>1, DeviceFacts
    <3> QED BY <3>2 DEF FlatsFit
  <2> QED BY <2>1, <2>2 DEF MayOpenPath, FileExists
<1>2. ASSUME p \in FlatPaths PROVE ~FileIsOpen(fdt, p)
  <2> DEFINE i == DeviceFromPath(devs, p)
  <2>1. i # DevMax
    BY <1>2, DeviceFacts DEF FlatsFit
  <2>2. i \in DevIdx /\ Used(devs[i]) /\ devs[i].path = p
    BY <2>1, DeviceFacts
  <2>3. devs[i].type = "flat" /\ devs[i].writable
    BY <1>2, <2>2 DEF FlatsFit
  <2>4. ~CanOpenMany(p)
    BY <2>1, <2>3 DEF CanOpenMany
  <2> QED BY <2>4 DEF MayOpenPath
<1> QED BY <1>1, <1>2

\* One more path is opened; any may be closed.
LEMMA OpensGrow ==
    ASSUME NEW t, OpensFit(t), NEW new \in ValidFds, NEW u, NEW p, u[new].path = p,
           \A g \in ValidFds \ {new} : u[g] = t[g] \/ ~InUse(u, g),
           Dirname(p) \notin FlatPaths, p \in FlatPaths => ~FileIsOpen(t, p)
    PROVE  OpensFit(u)
<1> SUFFICES ASSUME NEW fd \in ValidFds, InUse(u, fd)
             PROVE  /\ Dirname(u[fd].path) \notin FlatPaths
                    /\ u[fd].path \in FlatPaths => \A g \in ValidFds : u[g].path = u[fd].path => g = fd
  BY DEF OpensFit
<1>1. \A g \in ValidFds : u[g].path \in FlatPaths => InUse(u, g)
  BY FlatPathFacts DEF InUse
<1>2. CASE fd = new
  BY <1>1, <1>2 DEF FileIsOpen
<1>3. CASE fd # new
  <2>1. u[fd] = t[fd] /\ InUse(t, fd)
    BY <1>3 DEF InUse
  <2>2. ASSUME u[fd].path \in FlatPaths, NEW g \in ValidFds, u[g].path = u[fd].path PROVE g = fd
    <3>1. CASE g = new
      BY <2>1, <2>2, <3>1 DEF FileIsOpen
    <3>2. CASE g # new
      <4>1. u[g] = t[g]
        BY <1>1, <2>2, <3>2
      <4> QED BY <2>1, <2>2, <4>1 DEF OpensFit
    <3> QED BY <3>1, <3>2
  <2> QED BY <2>1, <2>2 DEF OpensFit
<1> QED BY <1>2, <1>3

LEMMA OpensShrink ==
    ASSUME NEW t, OpensFit(t), NEW u, \A g \in ValidFds : u[g] = t[g] \/ ~InUse(u, g)
    PROVE  OpensFit(u)
<1>1. \A g \in ValidFds : u[g].path \in FlatPaths => InUse(u, g)
  BY FlatPathFacts DEF InUse
<1>2. \A g \in ValidFds : InUse(u, g) => u[g] = t[g] /\ InUse(t, g)
  BY DEF InUse
<1> QED BY <1>1, <1>2 DEF OpensFit

\* Volumes stay intact when the stores that change stay or become volumes and
\* the slots that change are held by no mount.
LEMMA VolumesKept ==
    ASSUME NEW ms, NEW t, MountsFit(ms, t), NEW s, VolumesFit(ms, t, s), NEW u, NEW fd, NEW v,
           \A k \in DOMAIN ms : ms[k].fd # fd, \A g \in Fds \ {fd} : u[g] = t[g],
           \A p \in StorePaths : v[p].kind \in {s[p].kind, "volume"}
    PROVE  VolumesFit(ms, u, v)
<1> SUFFICES ASSUME NEW k \in DOMAIN ms, ms[k].format = "MiniFs" PROVE v[u[ms[k].fd].path].kind = "volume"
  BY DEF VolumesFit
<1>1. ms[k] \in MountEntries
  BY ElementOfSeq DEF MountsFit
<1>2. ms[k].fd \in Fds
  BY <1>1, FdMaxAssumption DEF MountEntries, ValidFds, Fds
<1>3. u[ms[k].fd] = t[ms[k].fd]
  BY <1>2
<1>4. t[ms[k].fd].path \in StorePaths
  BY FlatPathFacts DEF MountsFit
<1> QED BY <1>3, <1>4 DEF VolumesFit

\* One more entry.
LEMMA VolumesGrow ==
    ASSUME NEW ms \in Seq(MountEntries), NEW t, NEW s, VolumesFit(ms, t, s), NEW format \in Formats, NEW fd \in ValidFds,
           format = "MiniFs" => s[t[fd].path].kind = "volume"
    PROVE  VolumesFit(Append(ms, [format |-> format, fd |-> fd]), t, s)
<1> DEFINE e == [format |-> format, fd |-> fd]
           u == Append(ms, e)
<1>1. e \in MountEntries /\ e.format = format /\ e.fd = fd
  BY DEF MountEntries
<1> HIDE DEF e
<1>2. /\ u \in Seq(MountEntries) /\ Len(u) = Len(ms) + 1
      /\ \A k \in 1 .. Len(ms) : u[k] = ms[k]
      /\ u[Len(ms) + 1] = e
  BY <1>1, AppendProperties
<1>3. DOMAIN ms = 1 .. Len(ms) /\ DOMAIN u = 1 .. (Len(ms) + 1) /\ Len(ms) \in Nat
  BY <1>2
<1> HIDE DEF u
<1>4. \A k \in DOMAIN u : (k \in DOMAIN ms /\ u[k] = ms[k]) \/ u[k] = e
  BY <1>2, <1>3
<1>5. VolumesFit(u, t, s)
  BY <1>1, <1>4 DEF VolumesFit
<1> QED BY <1>5 DEF u, e

-----------------------------------------------------------------------------
(* The initial state and each action. *)

LEMMA InitIntact == ASSUME Init PROVE VInv
<1>1. ASSUME NEW i \in DevIdx, Used(devs[i])
      PROVE  \E j \in DOMAIN BootDevices :
                /\ devs[i].type = BootDevices[j].type /\ devs[i].path = BootDevices[j].path
                /\ devs[i].writable = BootDevices[j].writable /\ devs[i].mount = FALSE
  <2>1. i < Len(BootDevices) /\ devs[i] = BootDevice(BootDevices[i + 1])
    BY <1>1 DEF Init, Used, NoDev
  <2>2. i + 1 \in DOMAIN BootDevices
    BY <2>1, BootAssumption DEF DevIdx
  <2> QED BY <2>1, <2>2 DEF BootDevice
<1>2. ASSUME NEW p \in FlatPaths PROVE \E i \in DevIdx : Used(devs[i]) /\ devs[i].path = p
  <2>1. PICK j \in DOMAIN BootDevices : BootDevices[j].type = "flat" /\ BootDevices[j].path = p
    BY DEF FlatPaths
  <2>2. /\ j \in 1 .. Len(BootDevices) /\ Len(BootDevices) \in Nat
        /\ j - 1 \in DevIdx /\ j - 1 < Len(BootDevices) /\ (j - 1) + 1 = j
    BY <2>1, BootAssumption, MountsAssumption DEF DevIdx
  <2>3. devs[j - 1] = BootDevice(BootDevices[j])
    BY <2>2 DEF Init
  <2> QED BY <2>1, <2>2, <2>3 DEF BootDevice, Used
<1>3. ASSUME NEW i \in DevIdx, Used(devs[i])
      PROVE  /\ Dirname(devs[i].path) \notin FlatPaths
             /\ devs[i].path \in FlatPaths => devs[i].type = "flat" /\ devs[i].writable /\ ~devs[i].mount
             /\ devs[i].type = "flat" /\ ~devs[i].mount => devs[i].path \in FlatPaths
  <2>1. PICK j \in DOMAIN BootDevices :
           /\ devs[i].type = BootDevices[j].type /\ devs[i].path = BootDevices[j].path
           /\ devs[i].writable = BootDevices[j].writable /\ devs[i].mount = FALSE
    BY <1>1, <1>3
  <2>2. \A k \in DOMAIN BootDevices : BootDevices[k].type = "flat" =>
           /\ BootDevices[k].writable
           /\ Dirname(BootDevices[j].path) # BootDevices[k].path
           /\ BootDevices[j].path = BootDevices[k].path => j = k
    BY BootAssumption
  <2> QED BY <2>1, <2>2 DEF FlatPaths
<1>4. OpensFit(fdt)
  BY FdMaxAssumption DEF Init, OpensFit, EmptyTable, UnusedSlot, InUse, ValidFds, Fds
<1>5. VolumesFit(mounts, fdt, stores)
  BY DEF Init, VolumesFit
<1> QED BY <1>2, <1>3, <1>4, <1>5 DEF VInv, FlatsFit

LEMMA OpenFileIntact ==
    ASSUME TInv, VInv, NEW p \in Paths, OpenFile(p)
    PROVE  OpensFit(fdt')
<1>1. NewFd(fdt) \in ValidFds /\ fdt'[NewFd(fdt)].path = p /\ \A fd \in Fds \ {NewFd(fdt)} : fdt'[fd] = fdt[fd]
  BY OpenFileFits
<1>2. ValidFds \subseteq Fds
  BY FdMaxAssumption DEF ValidFds, Fds
<1>3. Dirname(p) \notin FlatPaths /\ (p \in FlatPaths => ~FileIsOpen(fdt, p))
  BY MayOpenFacts DEF OpenFile, VInv
<1>4. \A g \in ValidFds \ {NewFd(fdt)} : fdt'[g] = fdt[g]
  BY <1>1, <1>2
<1> QED BY <1>1, <1>3, <1>4, OpensGrow DEF VInv

LEMMA OpenIntact ==
    ASSUME TInv, VInv, NEW p \in Paths, OpenFile(p), UNCHANGED <<devs, mounts, stores>>
    PROVE  VInv'
<1>1. OpensFit(fdt')
  BY OpenFileIntact
<1>2. VolumesFit(mounts, fdt', stores')
  <2>1. (\A k \in DOMAIN mounts : mounts[k].fd # NewFd(fdt)) /\ \A g \in Fds \ {NewFd(fdt)} : fdt'[g] = fdt[g]
    BY OpenFileFits
  <2>2. \A q \in StorePaths : stores'[q].kind \in {stores[q].kind, "volume"}
    OBVIOUS
  <2> QED BY <2>1, <2>2, VolumesKept DEF TInv, VInv
<1> QED BY <1>1, <1>2 DEF VInv

LEMMA CloseIntact == ASSUME TInv, VInv, NEW fd \in ValidFds, Close(fd) PROVE VInv'
<1>1. InUse(fdt, fd) /\ ~HeldByMount(fd) /\ CloseFile(fd) /\ UNCHANGED <<devs, mounts, stores>>
  BY DEF Close
<1>2. ~InUse(fdt', fd) /\ \A g \in Fds \ {fd} : fdt'[g] = fdt[g]
  BY <1>1, CloseFileFits
<1>3. ValidFds \subseteq Fds
  BY FdMaxAssumption DEF ValidFds, Fds
<1>4. OpensFit(fdt')
  BY <1>2, <1>3, OpensShrink DEF VInv
<1>5. \A k \in DOMAIN mounts : mounts[k].fd # fd
  BY <1>1 DEF HeldByMount
<1>6. \A q \in StorePaths : stores'[q].kind \in {stores[q].kind, "volume"}
  BY <1>1
<1>7. VolumesFit(mounts, fdt', stores')
  BY <1>2, <1>5, <1>6, VolumesKept DEF TInv, VInv
<1> QED BY <1>1, <1>4, <1>7 DEF VInv

LEMMA MountIntact == ASSUME TInv, VInv, NEW r \in Requests, Mount(r) PROVE VInv'
<1>1. /\ OpenFile(r.device) /\ AddMount(r, NewFd(fdt)) /\ ResetRing(r)
      /\ mounts' = Append(mounts, [format |-> r.format, fd |-> NewFd(fdt)])
  BY DEF Mount
<1>2. /\ NewFd(fdt) \in ValidFds /\ fdt'[NewFd(fdt)].path = r.device
      /\ \A k \in DOMAIN mounts : mounts[k].fd # NewFd(fdt)
      /\ \A fd \in Fds \ {NewFd(fdt)} : fdt'[fd] = fdt[fd]
  BY <1>1, RequestFacts, OpenFileFits
<1>3. OpensFit(fdt')
  BY <1>1, RequestFacts, OpenFileIntact
<1>4. FlatsFit(devs')
  BY <1>1, AddMountKeepsFlats DEF VInv
<1>5. \A q \in StorePaths : stores'[q].kind \in {stores[q].kind, "volume"}
  BY <1>1, ResetRingFits
<1>6. VolumesFit(mounts, fdt', stores')
  BY <1>2, <1>5, VolumesKept DEF TInv, VInv
<1>7. r.format = "MiniFs" => stores'[fdt'[NewFd(fdt)].path].kind = "volume"
  BY <1>1, <1>2 DEF AddMount, Accepted, ResetRing
<1>8. VolumesFit(mounts', fdt', stores')
  BY <1>1, <1>2, <1>6, <1>7, RequestFacts, VolumesGrow DEF TInv, MountsFit
<1> QED BY <1>3, <1>4, <1>8 DEF VInv

LEMMA MountHalfIntact == ASSUME TInv, VInv, NEW r \in Requests, MountHalf(r) PROVE VInv'
<1>1. AddMount(r, NewFd(fdt)) /\ UNCHANGED <<fdt, cached, mounts, stores>>
  BY DEF MountHalf
<1>2. FlatsFit(devs')
  BY <1>1, AddMountKeepsFlats DEF VInv
<1> QED BY <1>1, <1>2 DEF VInv

LEMMA UnmountIntact == ASSUME TInv, VInv, NEW p, p \notin FlatPaths, Unmount(p) PROVE VInv'
<1> DEFINE i == DeviceFromPath(devs, p)
           k == Min(MountOf(i))
<1>1. /\ i # DevMax /\ MountOf(i) # {} /\ devs' = [devs EXCEPT ![i] = NoDev]
      /\ CloseFile(devs[i].userData) /\ mounts' = Without(k) /\ stores' = stores
  BY DEF Unmount
<1>2. FlatsFit(devs')
  BY <1>1, RemovalKeepsFlats DEF VInv
<1> HIDE DEF i
<1>3. k \in DOMAIN mounts /\ mounts[k].fd = devs[i].userData
  BY <1>1, MountOfFacts
<1> HIDE DEF k
<1>4. PICK fd \in ValidFds : fd = devs[i].userData /\ InUse(fdt, fd)
  BY <1>3, EntryFacts DEF TInv, MountsFit
<1>5. ~InUse(fdt', fd) /\ \A g \in Fds \ {fd} : fdt'[g] = fdt[g]
  BY <1>1, <1>4, CloseFileFits
<1>6. ValidFds \subseteq Fds
  BY FdMaxAssumption DEF ValidFds, Fds
<1>7. OpensFit(fdt')
  BY <1>5, <1>6, OpensShrink DEF VInv
<1>8. /\ MountsFit(mounts', fdt) /\ \A j \in DOMAIN mounts' : mounts'[j].fd # fd
      /\ \A j \in DOMAIN mounts' : \E l \in DOMAIN mounts \ {k} : mounts'[j] = mounts[l]
  BY <1>1, <1>3, <1>4, MountsShrink DEF TInv
<1>9. VolumesFit(mounts', fdt, stores)
  BY <1>8 DEF VInv, VolumesFit
<1>10. \A q \in StorePaths : stores[q].kind \in {stores[q].kind, "volume"}
  OBVIOUS
<1>11. VolumesFit(mounts', fdt', stores)
  BY <1>5, <1>8, <1>9, <1>10, VolumesKept
<1> QED BY <1>1, <1>2, <1>7, <1>11 DEF VInv

LEMMA DeleteDeviceIntact == ASSUME TInv, VInv, NEW p, p \notin FlatPaths, DeleteDevice(p) PROVE VInv'
<1>1. /\ DeviceFromPath(devs, p) # DevMax /\ devs' = [devs EXCEPT ![DeviceFromPath(devs, p)] = NoDev]
      /\ UNCHANGED <<fdt, cached, mounts, stores>>
  BY DEF DeleteDevice
<1>2. FlatsFit(devs')
  BY <1>1, RemovalKeepsFlats DEF VInv
<1> QED BY <1>1, <1>2 DEF VInv

\* Writes below the files of volumes and to rings keep the kind of every store.
LEMMA KindsKept ==
    ASSUME TInv, VInv, UNCHANGED <<devs, fdt, mounts>>, \A p \in StorePaths : stores'[p].kind = stores[p].kind
    PROVE  VInv'
<1>1. ASSUME NEW k \in DOMAIN mounts, mounts[k].format = "MiniFs" PROVE stores'[fdt[mounts[k].fd].path].kind = "volume"
  <2>1. fdt[mounts[k].fd].path \in StorePaths
    BY <1>1, FlatPathFacts DEF TInv, MountsFit
  <2> QED BY <1>1, <2>1 DEF VInv, VolumesFit
<1> QED BY <1>1 DEF VInv, VolumesFit

\* A program that writes to a flat device has opened it, or a flat file mounted
\* on it, so that no volume is mounted from it.
LEMMA WriteFlatIntact == ASSUME TInv, VInv, NEW fd \in ValidFds, WriteFlat(fd) PROVE VInv'
<1> DEFINE c == cached[fd]
           d == devs[c]
           q == StoreOf(c)
<1>1. /\ InUse(fdt, fd) /\ ~HeldByMount(fd) /\ Served(fd) /\ d.type = "flat"
      /\ d.mount => \E k \in MountOf(c) : mounts[k].format = "FlatFile"
      /\ stores' = [stores EXCEPT ![q] = [kind |-> "junk", files |-> << >>]]
      /\ UNCHANGED <<devs, fdt, cached, mounts>>
  BY DEF WriteFlat
<1>2. c \in DevIdx /\ Used(d) /\ d.path \in {fdt[fd].path, Dirname(fdt[fd].path)}
  <2>1. fd \in Fds
    BY FdMaxAssumption DEF ValidFds, Fds
  <2> QED BY <1>1, <2>1 DEF Served, TInv
<1>3. ASSUME NEW k \in DOMAIN mounts, mounts[k].format = "MiniFs" PROVE fdt[mounts[k].fd].path # q
  <2> SUFFICES ASSUME fdt[mounts[k].fd].path = q PROVE FALSE
    OBVIOUS
  <2>1. mounts[k].fd \in ValidFds /\ InUse(fdt, mounts[k].fd) /\ q \in FlatPaths
    BY <1>3, EntryFacts DEF TInv, MountsFit
  <2>2. CASE ~d.mount
    <3>1. q = d.path
      BY <2>2 DEF StoreOf
    <3>2. q = fdt[fd].path
      BY <1>1, <1>2, <2>1, <3>1 DEF VInv, OpensFit
    <3>3. mounts[k].fd = fd
      BY <1>1, <2>1, <3>2 DEF VInv, OpensFit
    <3> QED BY <1>1, <3>3 DEF HeldByMount
  <2>3. CASE d.mount
    <3>1. PICK l \in DOMAIN mounts : mounts[l].fd = d.userData /\ mounts[l].format = "FlatFile"
      BY <1>1, <2>3 DEF MountOf
    <3>2. q = fdt[mounts[l].fd].path
      BY <2>3, <3>1 DEF StoreOf
    <3>3. mounts[l].fd \in ValidFds /\ InUse(fdt, mounts[l].fd)
      BY <3>1, EntryFacts DEF TInv, MountsFit
    <3>4. mounts[k].fd = mounts[l].fd
      BY <2>1, <3>2, <3>3 DEF VInv, OpensFit
    <3>5. k = l
      BY <3>1, <3>4 DEF TInv, MountsFit
    <3> QED BY <1>3, <3>1, <3>5
  <2>4. d.mount \in BOOLEAN
    BY <1>2, EntryFacts DEF Devices
  <2> QED BY <2>2, <2>3, <2>4
<1> HIDE DEF q, c
<1>4. ASSUME NEW k \in DOMAIN mounts, mounts[k].format = "MiniFs"
      PROVE  stores'[fdt[mounts[k].fd].path].kind = "volume"
  <2>1. PICK p : p = fdt[mounts[k].fd].path /\ p # q
    BY <1>3, <1>4
  <2>2. stores'[p] = stores[p]
    BY <1>1, <2>1
  <2> QED BY <1>4, <2>1, <2>2 DEF VInv, VolumesFit
<1> QED BY <1>1, <1>4 DEF VInv, VolumesFit

\* What a remount writes to is a volume when it ends, whether all files fitted
\* or not.
LEMMA RemountIntact == ASSUME TInv, VInv, NEW r \in Requests, RemountMiniFs(r) PROVE VInv'
<1>1. \A q \in StorePaths : stores'[q].kind \in {stores[q].kind, "volume"}
  <2>1. stores' = [stores EXCEPT ![r.device] = Formatted(Copied(VolumeOn(DeviceFromPath(devs, r.dir)), r.device))]
    BY RemountStores
  <2> DEFINE e == Formatted(Copied(VolumeOn(DeviceFromPath(devs, r.dir)), r.device))
  <2>2. e.kind = "volume"
    BY DEF Formatted
  <2> HIDE DEF e
  <2>3. \A q \in StorePaths : stores'[q] = IF q = r.device THEN e ELSE stores[q]
    BY <2>1 DEF TInv, StoresFit, e
  <2> QED BY <2>2, <2>3
<1>2. CASE Fits(VolumeOn(DeviceFromPath(devs, r.dir)), r.device)
  <2>1. PICK i \in DevIdx, k \in DOMAIN mounts, old \in ValidFds, new \in ValidFds : RemountEffect(r, i, k, old, new)
    BY <1>2, RemountTables
  <2>2. FlatsFit(devs')
    <3> DEFINE d == MountDevice(r, new, devs[i].many)
    <3>1. d.path = devs[i].path /\ d.mount /\ Used(devs[i]) /\ devs[i].type = "MiniFs"
      BY <2>1 DEF RemountEffect, MountDevice
    <3>2. Used(d)
      BY <2>1 DEF RemountEffect, MountDevice, TypeOfFormat, Used
    <3>3. Dirname(d.path) \notin FlatPaths /\ d.path \notin FlatPaths
      BY <3>1 DEF VInv, FlatsFit
    <3> HIDE DEF d
    <3>4. \A j \in DevIdx : devs'[j] = IF j = i THEN d ELSE devs[j]
      BY <2>1 DEF RemountEffect, TInv, DevsFit, d
    <3>5. \A p \in FlatPaths : \E j \in DevIdx : Used(devs'[j]) /\ devs'[j].path = p
      BY <3>1, <3>2, <3>4 DEF VInv, FlatsFit
    <3> QED BY <3>1, <3>3, <3>4, <3>5 DEF VInv, FlatsFit
  <2>3. OpensFit(fdt')
    <3>1. Dirname(r.device) \notin FlatPaths /\ ~FileIsOpen(fdt, r.device)
      BY <2>1, MayOpenFacts DEF RemountEffect, VInv
    <3>2. ValidFds \subseteq Fds
      BY FdMaxAssumption DEF ValidFds, Fds
    <3>3. fdt'[new].path = r.device /\ \A g \in ValidFds \ {new} : fdt'[g] = fdt[g] \/ ~InUse(fdt', g)
      BY <2>1, <3>2 DEF RemountEffect
    <3> QED BY <3>1, <3>3, OpensGrow DEF VInv
  <2>4. ASSUME NEW j \in DOMAIN mounts', mounts'[j].format = "MiniFs"
        PROVE  stores'[fdt'[mounts'[j].fd].path].kind = "volume"
    <3>1. DOMAIN mounts' = DOMAIN mounts /\ mounts'[j] = IF j = k THEN [format |-> "MiniFs", fd |-> new] ELSE mounts[j]
      BY <2>1 DEF RemountEffect
    <3>2. CASE j = k
      <4>1. fdt'[mounts'[j].fd].path = r.device /\ r.device \in FlatPaths
        BY <2>1, <3>1, <3>2 DEF RemountEffect
      <4>2. r.device \in StorePaths
        BY <4>1, FlatPathFacts
      <4>3. stores' = [stores EXCEPT ![r.device]
                         = Formatted(Copied(VolumeOn(DeviceFromPath(devs, r.dir)), r.device))]
        BY RemountStores
      <4>4. stores'[r.device].kind = "volume"
        BY <4>2, <4>3 DEF Formatted, TInv, StoresFit
      <4> QED BY <4>1, <4>4
    <3>3. CASE j # k
      <4>1. j \in DOMAIN mounts /\ mounts'[j] = mounts[j] /\ mounts[j].fd \in Fds /\ InUse(fdt, mounts[j].fd)
        BY <3>1, <3>3, EntryFacts DEF TInv, MountsFit
      <4>2. mounts[j].fd # old /\ mounts[j].fd # new
        BY <2>1, <3>3, <4>1 DEF RemountEffect, TInv, MountsFit
      <4>3. fdt'[mounts[j].fd] = fdt[mounts[j].fd]
        BY <2>1, <4>1, <4>2 DEF RemountEffect
      <4>4. fdt[mounts[j].fd].path \in StorePaths /\ stores[fdt[mounts[j].fd].path].kind = "volume"
        BY <2>4, <4>1, FlatPathFacts DEF TInv, MountsFit, VInv, VolumesFit
      <4> QED BY <1>1, <4>1, <4>3, <4>4
    <3> QED BY <3>2, <3>3
  <2> QED BY <2>2, <2>3, <2>4 DEF VInv, VolumesFit
<1>3. CASE ~Fits(VolumeOn(DeviceFromPath(devs, r.dir)), r.device)
  <2>1. UNCHANGED <<mounts, devs, fdt, cached>>
    BY <1>3 DEF RemountMiniFs
  <2>2. ASSUME NEW k \in DOMAIN mounts, mounts[k].format = "MiniFs" PROVE stores'[fdt[mounts[k].fd].path].kind = "volume"
    <3>1. fdt[mounts[k].fd].path \in StorePaths /\ stores[fdt[mounts[k].fd].path].kind = "volume"
      BY <2>2, FlatPathFacts DEF TInv, MountsFit, VInv, VolumesFit
    <3> QED BY <1>1, <3>1
  <2> QED BY <2>1, <2>2 DEF VInv, VolumesFit
<1> QED BY <1>2, <1>3

LEMMA NextIntact == ASSUME FlatDevicesStay, TInv, VInv, [Next]_vars PROVE VInv'
<1>1. CASE UNCHANGED vars
  BY <1>1 DEF vars, VInv
<1>2. ASSUME NEW r \in Requests, Mount(r) PROVE VInv'
  BY <1>2, MountIntact
<1>3. ASSUME NEW r \in Requests, MountHalf(r) PROVE VInv'
  BY <1>3, MountHalfIntact
<1>4. ASSUME NEW r \in Requests, RemountMiniFs(r) PROVE VInv'
  BY <1>4, RemountIntact
<1>5. ASSUME NEW r \in Requests, RemountFails(r) PROVE VInv'
  <2>1. OpenFile(r.device) /\ UNCHANGED <<devs, mounts, stores>>
    BY <1>5 DEF RemountFails
  <2> QED BY <2>1, RequestFacts, OpenIntact
<1>6. ASSUME NEW p \in Unmounted, Unmount(p) PROVE VInv'
  BY <1>6, UnmountIntact DEF FlatDevicesStay
<1>7. ASSUME NEW p \in Deleted, DeleteDevice(p) PROVE VInv'
  BY <1>7, DeleteDeviceIntact DEF FlatDevicesStay
<1>8. ASSUME NEW p \in Opened, Open(p) PROVE VInv'
  <2>1. p \in Paths /\ OpenFile(p) /\ UNCHANGED <<devs, mounts, stores>>
    BY <1>8, MountsAssumption DEF Open
  <2> QED BY <2>1, OpenIntact
<1>9. ASSUME NEW p \in Created, DeleteFile(p) PROVE VInv'
  <2>1. UNCHANGED <<devs, fdt, mounts>>
    BY <1>9 DEF DeleteFile
  <2> QED BY <1>9, <2>1, DeleteFileFits, KindsKept
<1>10. ASSUME NEW p \in Created, NEW n \in Sizes, NEW v \in Data, CreateFile(p, n, v) PROVE VInv'
  <2>1. UNCHANGED <<devs, fdt, mounts>>
    BY <1>10 DEF CreateFile
  <2> QED BY <1>10, <2>1, CreateFileFits, KindsKept
<1>11. ASSUME NEW fd \in ValidFds, Close(fd) PROVE VInv'
  BY <1>11, CloseIntact
<1>12. ASSUME NEW fd \in ValidFds, WriteFlat(fd) PROVE VInv'
  BY <1>12, WriteFlatIntact
<1>13. ASSUME NEW fd \in ValidFds, RingRead(fd) PROVE VInv'
  <2>1. UNCHANGED <<devs, fdt, mounts>>
    BY <1>13 DEF RingRead
  <2> QED BY <1>13, <2>1, RingReadFits, KindsKept
<1>14. ASSUME NEW fd \in ValidFds, NEW v \in Data, WriteFile(fd, v) PROVE VInv'
  <2>1. UNCHANGED <<devs, fdt, mounts>>
    BY <1>14 DEF WriteFile
  <2> QED BY <1>14, <2>1, WriteFileFits, KindsKept
<1>15. ASSUME NEW fd \in ValidFds, NEW s \in Pushes, RingWrite(fd, s) PROVE VInv'
  <2>1. UNCHANGED <<devs, fdt, mounts>>
    BY <1>15 DEF RingWrite
  <2> QED BY <1>15, <2>1, RingWriteFits, KindsKept
<1> QED BY <1>1, <1>2, <1>3, <1>4, <1>5, <1>6, <1>7, <1>8, <1>9, <1>10, <1>11, <1>12, <1>13, <1>14, <1>15 DEF Next

\* While the flat devices of the boot stay, no volume that is mounted is ever
\* written over through another descriptor, by another mount or by a remount
\* (the refusal of kernelFsFileCanOpenMany, kernelfs.c:1516).
THEOREM VolumesIntact ==
    ASSUME FlatDevicesStay
    PROVE  Spec => []MountedVolumesIntact
<1>1. Init => VInv
  BY InitIntact
<1>2. TInv /\ VInv /\ [Next]_vars => VInv'
  BY NextIntact
<1>3. TInv /\ VInv => MountedVolumesIntact
  <2> SUFFICES ASSUME TInv, VInv, NEW i \in DevIdx, devs[i].mount, IsVolume(devs[i]), Mounted(i)
               PROVE  stores[StoreOf(i)].kind = "volume"
    BY DEF MountedVolumesIntact
  <2>1. PICK k \in DOMAIN mounts : mounts[k].fd = devs[i].userData /\ TypeOfFormat(mounts[k].format) = "MiniFs"
    BY DEF Mounted, IsVolume
  <2>2. mounts[k] \in MountEntries
    BY EntryFacts
  <2>3. mounts[k].format = "MiniFs"
    BY <2>1, <2>2 DEF TypeOfFormat, MountEntries, Formats
  <2> QED BY <2>1, <2>3 DEF VInv, VolumesFit, StoreOf
<1> QED BY <1>1, <1>2, <1>3, Invariance, PTL DEF Spec

(***************************************************************************)
(* What a step does to the device table and to what is mounted.            *)
(***************************************************************************)

\* Only mounting, remounting, unmounting and deleting a device change either.
LEMMA DeviceSteps ==
    ASSUME [Next]_vars
    PROVE  \/ UNCHANGED <<devs, mounts>>
           \/ \E r \in Requests : Mount(r) \/ MountHalf(r) \/ RemountMiniFs(r)
           \/ \E p \in Unmounted : Unmount(p)
           \/ \E p \in Deleted : DeleteDevice(p)
<1>1. CASE UNCHANGED vars
  BY <1>1 DEF vars
<1>2. CASE \E r \in Requests : RemountFails(r)
  BY <1>2 DEF RemountFails
<1>3. CASE \E p \in Opened : Open(p)
  BY <1>3 DEF Open
<1>4. CASE \E p \in Created : DeleteFile(p) \/ \E n \in Sizes, v \in Data : CreateFile(p, n, v)
  BY <1>4 DEF DeleteFile, CreateFile
<1>5. CASE \E fd \in ValidFds : Close(fd) \/ WriteFlat(fd) \/ RingRead(fd) \/ \E v \in Data : WriteFile(fd, v)
  BY <1>5 DEF Close, WriteFlat, RingRead, WriteFile
<1>6. CASE \E fd \in ValidFds, s \in Pushes : RingWrite(fd, s)
  BY <1>6 DEF RingWrite
<1> QED BY <1>1, <1>2, <1>3, <1>4, <1>5, <1>6 DEF Next

\* A new device takes an entry that is free.
LEMMA AddMountTakesFree ==
    ASSUME TInv, NEW r, NEW fd, AddMount(r, fd)
    PROVE  \E j \in DevIdx : /\ ~Used(devs[j])
                             /\ devs' = [devs EXCEPT ![j] = MountDevice(r, fd, TRUE)]
<1>1. FreeDevs # {} /\ devs' = [devs EXCEPT ![Min(FreeDevs)] = MountDevice(r, fd, TRUE)]
  BY DEF AddMount, MayAdd
<1>2. FreeDevs \subseteq Nat
  BY DEF FreeDevs, DevIdx
<1>3. Min(FreeDevs) \in FreeDevs
  BY <1>1, <1>2, MinIsIn
<1> QED BY <1>1, <1>3 DEF FreeDevs

\* A remount that had room: the directory shows the files of the old one.
LEMMA RemountShowsTheSame ==
    ASSUME TInv, NEW r \in Requests, NEW d \in DevIdx, NEW k \in DOMAIN mounts, NEW old \in ValidFds, NEW new \in ValidFds,
           RemountMiniFs(r), RemountEffect(r, d, k, old, new), Fits(VolumeOn(d), r.device)
    PROVE  /\ devs'[d].mount /\ devs'[d].userData = new /\ Mounted(d)'
           /\ VolumeOn(d)' = VolumeOn(d)
<1>1. /\ d = DeviceFromPath(devs, r.dir) /\ r.format = "MiniFs" /\ r.device \in FlatPaths
      /\ devs' = [devs EXCEPT ![d] = MountDevice(r, new, devs[d].many)]
      /\ mounts' = [mounts EXCEPT ![k] = [format |-> "MiniFs", fd |-> new]]
      /\ fdt'[new].path = r.device
  BY DEF RemountEffect
<1>2. devs'[d] = MountDevice(r, new, devs[d].many)
  BY <1>1 DEF TInv, DevsFit
<1>3. TypeOfFormat("MiniFs") = "MiniFs"
  BY DEF TypeOfFormat
<1>4. devs'[d].mount = TRUE /\ devs'[d].userData = new /\ devs'[d].type = "MiniFs"
  BY <1>1, <1>2, <1>3 DEF MountDevice
<1>5. k \in DOMAIN mounts' /\ mounts'[k].fd = new /\ mounts'[k].format = "MiniFs"
  BY <1>1, EntryFacts
<1>6. Mounted(d)'
  BY <1>3, <1>4, <1>5 DEF Mounted
<1>7. StoreOf(d)' = r.device
  BY <1>1, <1>4 DEF StoreOf
<1>8. stores'[r.device].files = VolumeOn(d)
  <2>1. stores' = [stores EXCEPT ![r.device] = Formatted(Copied(VolumeOn(d), r.device))]
    BY <1>1, RemountStores
  <2>2. r.device \in DOMAIN stores
    BY <1>1, FlatPathFacts DEF TInv, StoresFit
  <2> QED BY <2>1, <2>2 DEF Formatted, Copied
<1> QED BY <1>4, <1>6, <1>7, <1>8 DEF VolumeOn

\* Any remount leaves the other devices alone; one without room leaves all alone.
LEMMA RemountTouchesOne ==
    ASSUME TInv, NEW r \in Requests, RemountMiniFs(r), NEW i \in DevIdx, devs'[i] # devs[i]
    PROVE  \E k \in DOMAIN mounts, old \in ValidFds, new \in ValidFds :
              RemountEffect(r, i, k, old, new) /\ Fits(VolumeOn(i), r.device)
<1> DEFINE e == DeviceFromPath(devs, r.dir)
<1>1. Fits(VolumeOn(e), r.device)
  BY DEF RemountMiniFs
<1>2. PICK d \in DevIdx, k \in DOMAIN mounts, old \in ValidFds, new \in ValidFds : RemountEffect(r, d, k, old, new)
  BY <1>1, RemountTables
<1>3. d = e /\ d = i
  BY <1>2 DEF RemountEffect, TInv, DevsFit
<1> QED BY <1>1, <1>2, <1>3

\* When the backing file of a mounted volume is exchanged (kernelmount.c:231-323),
\* the directory shows the same files with the same bytes as before, whatever else
\* is mounted, whatever the sizes and however the copy ends.
THEOREM RemountsKeepFiles == Spec => RemountKeepsFiles
<1>1. ASSUME TInv, [Next]_vars, NEW i \in DevIdx,
             Used(devs[i]), Used(devs'[i]), devs[i].userData # devs'[i].userData
      PROVE  VolumeOn(i)' = VolumeOn(i)
  <2>0. devs'[i] # devs[i]
    BY <1>1
  <2>1. ASSUME NEW r \in Requests, RemountMiniFs(r) PROVE VolumeOn(i)' = VolumeOn(i)
    <3>1. PICK k \in DOMAIN mounts, old \in ValidFds, new \in ValidFds :
             RemountEffect(r, i, k, old, new) /\ Fits(VolumeOn(i), r.device)
      BY <1>1, <2>0, <2>1, RemountTouchesOne
    <3> QED BY <1>1, <2>1, <3>1, RemountShowsTheSame
  <2>2. ASSUME NEW r \in Requests, NEW fd, AddMount(r, fd) PROVE FALSE
    <3>1. PICK j \in DevIdx : ~Used(devs[j]) /\ devs' = [devs EXCEPT ![j] = MountDevice(r, fd, TRUE)]
      BY <1>1, <2>2, AddMountTakesFree
    <3> QED BY <1>1, <2>0, <3>1 DEF TInv, DevsFit
  <2>3. ASSUME NEW e, devs' = [devs EXCEPT ![e] = NoDev] PROVE FALSE
    <3>1. devs'[i] = NoDev \/ devs'[i] = devs[i]
      BY <1>1, <2>3 DEF TInv, DevsFit
    <3> QED BY <1>1, <2>0, <3>1 DEF Used, NoDev
  <2> QED
    BY <1>1, <2>0, <2>1, <2>2, <2>3, DeviceSteps DEF Mount, MountHalf, Unmount, DeleteDevice
<1>2. TInv /\ [Next]_vars =>
        [\A i \in DevIdx :
            (/\ Used(devs[i]) /\ Used(devs'[i])
             /\ devs[i].mount /\ IsVolume(devs[i]) /\ devs[i].path = devs'[i].path
             /\ devs[i].userData # devs'[i].userData)
               => VolumeOn(i)' = VolumeOn(i)]_vars
  BY <1>1
<1> QED BY <1>2, Invariance, PTL DEF Spec, RemountKeepsFiles

\* The entry that served a device serves it still, unless it went.
LEMMA StillMounted ==
    ASSUME NEW i, NEW l \in DOMAIN mounts, NEW n \in DOMAIN mounts', mounts'[n] = mounts[l],
           devs'[i] = devs[i], mounts[l].fd = devs[i].userData, TypeOfFormat(mounts[l].format) = devs[i].type
    PROVE  Mounted(i)'
BY DEF Mounted

\* A mount serves its own device, and those that were served before.
LEMMA MountOrphansNone ==
    ASSUME TInv, Orphans = {}, NEW r \in Requests, Mount(r), NEW i \in DevIdx, devs'[i].mount, Used(devs'[i])
    PROVE  Mounted(i)'
<1> DEFINE new == NewFd(fdt)
<1>1. /\ FreeFds(fdt) # {} /\ AddMount(r, new)
      /\ mounts' = Append(mounts, [format |-> r.format, fd |-> new])
  BY DEF Mount, OpenFile
<1>2. new \in ValidFds
  BY <1>1, NewFdFacts
<1>3. PICK j \in DevIdx : ~Used(devs[j]) /\ devs' = [devs EXCEPT ![j] = MountDevice(r, new, TRUE)]
  BY <1>1, AddMountTakesFree
<1>4. r.format \in Formats
  BY RequestFacts
<1> HIDE DEF new
<1>5. /\ Len(mounts) + 1 \in DOMAIN mounts' /\ mounts'[Len(mounts) + 1] = [format |-> r.format, fd |-> new]
      /\ \A l \in DOMAIN mounts : l \in DOMAIN mounts' /\ mounts'[l] = mounts[l]
  <2>1. mounts \in Seq(MountEntries) /\ [format |-> r.format, fd |-> new] \in MountEntries
    BY <1>2, <1>4 DEF TInv, MountsFit, MountEntries
  <2> QED BY <1>1, <2>1
<1>6. CASE i = j
  <2>1. devs'[i] = MountDevice(r, new, TRUE)
    BY <1>3, <1>6 DEF TInv, DevsFit
  <2>2. devs'[i].type = TypeOfFormat(r.format) /\ devs'[i].userData = new
    BY <2>1 DEF MountDevice
  <2> QED BY <1>5, <2>2 DEF Mounted
<1>7. CASE i # j
  <2>1. devs'[i] = devs[i]
    BY <1>3, <1>7 DEF TInv, DevsFit
  <2>2. Mounted(i)
    BY <2>1 DEF Orphans
  <2>3. PICK l \in DOMAIN mounts : mounts[l].fd = devs[i].userData /\ TypeOfFormat(mounts[l].format) = devs[i].type
    BY <2>2 DEF Mounted
  <2> QED BY <1>5, <2>1, <2>3, StillMounted
<1> QED BY <1>6, <1>7

\* A ring whose offsets cannot be written gets no mount; nobody else loses his.
LEMMA MountHalfOrphans ==
    ASSUME TInv, Orphans = {}, NEW r \in Requests, MountHalf(r), NEW i \in DevIdx, devs'[i].mount, Used(devs'[i]), ~Mounted(i)'
    PROVE  ~Used(devs[i]) /\ devs'[i].type = "char"
<1>1. AddMount(r, NewFd(fdt)) /\ r.format = "CircBuf" /\ mounts' = mounts
  BY DEF MountHalf, BackingWritable
<1>2. PICK j \in DevIdx : ~Used(devs[j]) /\ devs' = [devs EXCEPT ![j] = MountDevice(r, NewFd(fdt), TRUE)]
  BY <1>1, AddMountTakesFree
<1>3. CASE i = j
  <2>1. devs'[i] = MountDevice(r, NewFd(fdt), TRUE)
    BY <1>2, <1>3 DEF TInv, DevsFit
  <2> QED BY <1>1, <1>2, <1>3, <2>1 DEF MountDevice, TypeOfFormat
<1>4. CASE i # j
  <2>1. devs'[i] = devs[i]
    BY <1>2, <1>4 DEF TInv, DevsFit
  <2>2. Mounted(i)
    BY <2>1 DEF Orphans
  <2> QED BY <1>1, <2>1, <2>2 DEF Mounted
<1> QED BY <1>3, <1>4

\* An unmount takes one entry away, that of the device it names.
LEMMA UnmountOrphans ==
    ASSUME TInv, Orphans = {}, NEW p, Unmount(p), NEW i \in DevIdx, devs'[i].mount, Used(devs'[i]), ~Mounted(i)'
    PROVE  \E j \in DevIdx \ {i} : Used(devs[j]) /\ devs[j].userData = devs[i].userData /\ devs'[j] # devs[j]
<1> DEFINE e == DeviceFromPath(devs, p)
           m == Min(MountOf(e))
<1>1. e # DevMax /\ MountOf(e) # {} /\ devs' = [devs EXCEPT ![e] = NoDev] /\ mounts' = Without(m)
  BY DEF Unmount
<1>2. e \in DevIdx /\ Used(devs[e])
  BY <1>1, DeviceFacts
<1>3. m \in DOMAIN mounts /\ mounts[m].fd = devs[e].userData
  BY <1>1, MountOfFacts
<1>4. PICK j \in DevIdx, k \in DOMAIN mounts :
         /\ Used(devs[j]) /\ devs' = [devs EXCEPT ![j] = NoDev]
         /\ mounts' = Without(k) /\ mounts[k].fd = devs[j].userData
  BY <1>1, <1>2, <1>3
<1> HIDE DEF e, m
<1>5. devs'[j] = NoDev /\ (i # j => devs'[i] = devs[i])
  BY <1>4 DEF TInv, DevsFit
<1>6. ~Used(NoDev)
  BY DEF Used, NoDev
<1>7. i # j /\ devs'[i] = devs[i] /\ devs'[j] # devs[j]
  BY <1>4, <1>5, <1>6
<1>8. Mounted(i)
  BY <1>7 DEF Orphans
<1>9. PICK l \in DOMAIN mounts : mounts[l].fd = devs[i].userData /\ TypeOfFormat(mounts[l].format) = devs[i].type
  BY <1>8 DEF Mounted
<1>10. CASE l = k
  BY <1>4, <1>7, <1>9, <1>10
<1>11. CASE l # k
  <2>1. MountsFit(mounts, fdt)
    BY DEF TInv
  <2>2. PICK n \in DOMAIN mounts' : mounts'[n] = mounts[l]
    BY <1>4, <1>9, <1>11, <2>1, MountsShrink
  <2> QED BY <1>7, <1>9, <2>2, StillMounted
<1> QED BY <1>10, <1>11

\* A remount exchanges one entry, that of the device it names.
LEMMA RemountOrphans ==
    ASSUME TInv, Orphans = {}, NEW r \in Requests, RemountMiniFs(r),
           NEW i \in DevIdx, devs'[i].mount, Used(devs'[i]), ~Mounted(i)'
    PROVE  \E j \in DevIdx \ {i} : Used(devs[j]) /\ devs[j].userData = devs[i].userData /\ devs'[j] # devs[j]
<1> DEFINE e == DeviceFromPath(devs, r.dir)
<1>1. CASE ~Fits(VolumeOn(e), r.device)
  <2>1. UNCHANGED <<mounts, devs>>
    BY <1>1 DEF RemountMiniFs
  <2> QED BY <2>1 DEF Orphans, Mounted
<1>2. CASE Fits(VolumeOn(e), r.device)
  <2>1. PICK d \in DevIdx, k \in DOMAIN mounts, old \in ValidFds, new \in ValidFds : RemountEffect(r, d, k, old, new)
    BY <1>2, RemountTables
  <2>2. /\ d = e /\ old = mounts[k].fd /\ old # new /\ Used(devs[d]) /\ devs[d].userData = old
        /\ devs' = [devs EXCEPT ![d] = MountDevice(r, new, devs[d].many)]
        /\ mounts' = [mounts EXCEPT ![k] = [format |-> "MiniFs", fd |-> new]]
    BY <2>1 DEF RemountEffect
  <2>3. Fits(VolumeOn(d), r.device)
    BY <1>2, <2>2
  <2>4. devs'[d].userData = new /\ Mounted(d)'
    BY <2>1, <2>3, RemountShowsTheSame
  <2>5. i # d /\ devs'[i] = devs[i] /\ devs'[d] # devs[d]
    BY <2>2, <2>4 DEF TInv, DevsFit
  <2>6. Mounted(i)
    BY <2>5 DEF Orphans
  <2>7. PICK l \in DOMAIN mounts : mounts[l].fd = devs[i].userData /\ TypeOfFormat(mounts[l].format) = devs[i].type
    BY <2>6 DEF Mounted
  <2>8. CASE l = k
    BY <2>2, <2>5, <2>7, <2>8
  <2>9. CASE l # k
    <3>1. l \in DOMAIN mounts' /\ mounts'[l] = mounts[l]
      BY <2>2, <2>9, EntryFacts
    <3> QED BY <2>5, <2>7, <3>1, StillMounted
  <2> QED BY <2>8, <2>9
<1> QED BY <1>1, <1>2

\* The functors of a mounted device find its mount (the assertions of
\* kernelmount.c), and no sequence of mounts, remounts, unmounts and deletions
\* brings a first exception but the three known causes.
THEOREM OrphansAlwaysHaveACause == Spec => OrphansHaveACause
<1>1. ASSUME TInv, [Next]_vars, Orphans = {}, NEW i \in Orphans'
      PROVE  \/ ~Used(devs[i]) /\ devs'[i].type = "char"
             \/ \E j \in DevIdx \ {i} :
                   Used(devs[j]) /\ devs[j].userData = devs[i].userData /\ devs'[j] # devs[j]
  <2>1. i \in DevIdx /\ devs'[i].mount /\ Used(devs'[i]) /\ ~Mounted(i)'
    BY <1>1 DEF Orphans
  <2>2. CASE UNCHANGED <<devs, mounts>>
    BY <1>1, <2>2 DEF Orphans, Mounted
  <2>3. CASE \E r \in Requests : Mount(r)
    BY <1>1, <2>1, <2>3, MountOrphansNone
  <2>4. CASE \E r \in Requests : MountHalf(r)
    BY <1>1, <2>1, <2>4, MountHalfOrphans
  <2>5. CASE \E r \in Requests : RemountMiniFs(r)
    BY <1>1, <2>1, <2>5, RemountOrphans
  <2>6. CASE \E p \in Unmounted : Unmount(p)
    BY <1>1, <2>1, <2>6, UnmountOrphans
  <2>7. ASSUME NEW p, DeleteDevice(p) PROVE FALSE
    <3>1. PICK e : devs' = [devs EXCEPT ![e] = NoDev] /\ mounts' = mounts
      BY <2>7 DEF DeleteDevice
    <3>2. devs'[i] = NoDev \/ devs'[i] = devs[i]
      BY <1>1, <2>1, <3>1 DEF TInv, DevsFit
    <3>3. devs'[i] = devs[i]
      BY <2>1, <3>2 DEF Used, NoDev
    <3> QED BY <1>1, <2>1, <3>1, <3>3 DEF Orphans, Mounted
  <2> QED BY <1>1, <2>2, <2>3, <2>4, <2>5, <2>6, <2>7, DeviceSteps
<1>2. TInv /\ [Next]_vars =>
        [Orphans = {} =>
           \A i \in Orphans' :
              \/ ~Used(devs[i]) /\ devs'[i].type = "char"
              \/ \E j \in DevIdx \ {i} :
                    Used(devs[j]) /\ devs[j].userData = devs[i].userData /\ devs'[j] # devs[j]]_vars
  BY <1>1
<1> QED BY <1>2, Invariance, PTL DEF Spec, OrphansHaveACause

(***************************************************************************)
(* Files are served by their device.                                       *)
(***************************************************************************)
Asked == Opened \cup {r.device : r \in Requests}
Names == {BootDevices[i].path : i \in DOMAIN BootDevices} \cup {r.dir : r \in Requests}
VolumeNames ==
    {BootDevices[i].path : i \in {j \in DOMAIN BootDevices : BootDevices[j].type = "MiniFs"}}
        \cup {r.dir : r \in {q \in Requests : q.format = "MiniFs"}}

\* The first devices of the boot, up to one that programs remove: their entries never change.
Staying ==
    {i \in DOMAIN BootDevices : \A j \in 1 .. i : BootDevices[j].path \notin Unmounted \cup Deleted}

\* A device that stays is met before d by the search for p, and agrees with p as far as d does.
Hidden(p, d) ==
    \E i \in Staying :
        /\ \A j \in DOMAIN BootDevices : BootDevices[j].path = d => i < j
        /\ Len(BootDevices[i].path) <= Len(p) /\ MatchLen[p][d] <= MatchLen[p][BootDevices[i].path]

\* No device has a name that the search confuses with that of a file programs open: one
\* of the same length, or one that starts like the volume the file is on, unless hidden.
NamesTellApart ==
    \A p \in Asked : \A d \in Names \ {p, Dirname(p)} :
        \/ Len(d) > Len(p) \/ Hidden(p, d)
        \/ Len(d) < Len(p) /\ (Dirname(p) \in VolumeNames => MatchLen[p][d] < Len(Dirname(p)))

SInv ==
    /\ \A i \in DevIdx :
          Used(devs[i]) => devs[i].path \in Names /\ (IsVolume(devs[i]) => devs[i].path \in VolumeNames)
    /\ \A i \in Staying : Used(devs[i - 1]) /\ devs[i - 1].path = BootDevices[i].path

\* How far two paths agree: not beyond the end of either, and to the end of a prefix.
LEMMA CommonPrefixFacts ==
    ASSUME NEW S, NEW p \in Seq(S), NEW q \in Seq(S)
    PROVE  LET n == Len(LongestCommonPrefix({p, q}))
           IN  n \in Nat /\ n <= Len(q) /\ (IsPrefix(q, p) => n = Len(q))
<1> DEFINE C == CommonPrefixes({p, q})
           lengths == {Len(c) : c \in C}
<1>1. \A c \in C : Len(c) \in Nat /\ Len(c) <= Len(q)
  <2> TAKE c \in C
  <2>1. IsPrefix(c, q) /\ \E s \in {p, q} : \E l \in 0 .. Len(s) : c = SubSeq(s, 1, l)
    BY DEF CommonPrefixes, Prefixes
  <2>2. Len(c) \in Nat
    BY <2>1
  <2> QED BY <2>1, <2>2 DEF IsPrefix
<1>2. << >> \in C
  <2>1. SubSeq(p, 1, 0) = << >> /\ SubSeq(q, 1, 0) = << >> /\ SubSeq(<< >>, 1, 0) = << >> /\ Len(<< >>) = 0
    OBVIOUS
  <2>2. << >> \in Prefixes(p)
    BY <2>1 DEF Prefixes
  <2> QED BY <2>1, <2>2 DEF CommonPrefixes, IsPrefix
<1>3. IsPrefix(q, p) => q \in C
  <2>1. SubSeq(q, 1, Len(q)) = q /\ Len(q) \in 0 .. Len(q)
    OBVIOUS
  <2>2. q \in Prefixes(q)
    BY <2>1 DEF Prefixes
  <2> QED BY <2>2 DEF CommonPrefixes, IsPrefix
<1> HIDE DEF C
<1>4. PICK longest \in C : \A c \in C : Len(c) <= Len(longest)
  <2>1. lengths \subseteq 0 .. Len(q) /\ Len(q) \in Nat
    BY <1>1
  <2>3. Len(<< >>) \in lengths
    BY <1>2
  <2>2. PICK n \in lengths : \A m \in lengths : m <= n
    <3> HIDE DEF lengths
    <3> QED BY <2>1, <2>3, GreatestElement
  <2> QED BY <2>2
<1>5. PICK l \in C : l = LongestCommonPrefix({p, q}) /\ \A c \in C : Len(c) <= Len(l)
  BY <1>4 DEF LongestCommonPrefix, C
<1>6. Len(l) \in Nat /\ Len(l) <= Len(q) /\ Len(q) \in Nat
  BY <1>1
<1>7. ASSUME IsPrefix(q, p) PROVE Len(l) = Len(q)
  <2>1. q \in C
    BY <1>3, <1>7
  <2>2. Len(q) <= Len(l)
    BY <1>5, <2>1
  <2> QED BY <1>6, <2>2
<1> QED BY <1>5, <1>6, <1>7

LEMMA MatchFacts ==
    ASSUME NEW p \in Paths, NEW q \in Paths
    PROVE  MatchLen[p][q] \in Nat /\ MatchLen[p][q] <= Len(q) /\ (IsPrefix(q, p) => MatchLen[p][q] = Len(q))
<1>1. p \in Seq(STRING) /\ q \in Seq(STRING)
  BY MountsAssumption
<1>2. MatchLen[p][q] = Len(LongestCommonPrefix({p, q}))
  BY DEF MatchLen
<1> QED BY <1>1, <1>2, CommonPrefixFacts

\* The directory of a file is a shorter path that the file starts with.
LEMMA DirnameFacts ==
    ASSUME NEW p \in Paths
    PROVE  /\ Len(p) \in Nat /\ Len(p) > 0
           /\ Len(Dirname(p)) \in Nat /\ Len(Dirname(p)) < Len(p) /\ IsPrefix(Dirname(p), p) /\ IsPrefix(p, p)
<1>1. p \in Seq(STRING) /\ p # << >> /\ p[1] = "/"
  BY MountsAssumption
<1> DEFINE slashes == {i \in DOMAIN p : p[i] = "/"}
<1>2. slashes \subseteq 0 .. Len(p) /\ 1 \in slashes /\ Len(p) \in Nat /\ Len(p) > 0
  BY <1>1
<1>3. PICK last \in slashes : \A j \in slashes : j <= last
  <2> HIDE DEF slashes
  <2> QED BY <1>2, GreatestElement
<1>4. LastSlash(p) \in slashes
  BY <1>3 DEF LastSlash
<1>5. LastSlash(p) - 1 \in 0 .. (Len(p) - 1)
  BY <1>1, <1>2, <1>4
<1>6. PICK n \in 0 .. (Len(p) - 1) : Dirname(p) = SubSeq(p, 1, n)
  BY <1>5 DEF Dirname
<1>7. Len(Dirname(p)) = n /\ SubSeq(Dirname(p), 1, n) = SubSeq(p, 1, n)
  BY <1>1, <1>2, <1>6
<1> QED BY <1>1, <1>2, <1>6, <1>7 DEF IsPrefix

LEMMA StayingFacts ==
    ASSUME NEW i \in Staying
    PROVE  /\ i \in DOMAIN BootDevices /\ i \in Nat /\ i > 0 /\ i - 1 \in DevIdx
           /\ BootDevices[i].path \in Paths /\ BootDevices[i].path \notin Unmounted \cup Deleted
           /\ \A j \in 1 .. i : j \in Staying
<1>1. i \in DOMAIN BootDevices /\ \A j \in 1 .. i : BootDevices[j].path \notin Unmounted \cup Deleted
  BY DEF Staying
<1>2. DOMAIN BootDevices = 1 .. Len(BootDevices) /\ Len(BootDevices) \in Nat /\ Len(BootDevices) < DevMax
  BY BootAssumption, MountsAssumption
<1>3. i \in 1 .. Len(BootDevices) /\ i - 1 \in DevIdx
  BY <1>1, <1>2, MountsAssumption DEF DevIdx
<1>4. BootDevices[i].path \in Paths
  <2>1. BootDevices[i] \in [type : {"dir", "char", "flat", "MiniFs"}, path : Paths, userData : Nat,
                            writable : BOOLEAN, many : BOOLEAN]
    BY <1>1, <1>2, BootAssumption, ElementOfSeq
  <2> QED BY <2>1
<1>5. ASSUME NEW j \in 1 .. i PROVE j \in Staying
  BY <1>1, <1>2, <1>3 DEF Staying
<1> QED BY <1>1, <1>2, <1>3, <1>4, <1>5

\* What the search takes is either right or agrees less with the path than a right one.
LEMMA TakenFacts ==
    ASSUME TInv, SInv, NamesTellApart, NEW p \in Asked, NEW i \in Taken(devs, p)
    PROVE  /\ i \in DevIdx /\ Used(devs[i]) /\ devs[i].path \in Paths
           /\ \/ devs[i].path \in {p, Dirname(p)}
              \/ /\ Len(devs[i].path) < Len(p)
                 /\ Dirname(p) \in VolumeNames => MatchLen[p][devs[i].path] < Len(Dirname(p))
<1> DEFINE d == devs[i].path
<1>1. p \in Paths
  BY MountsAssumption, RequestFacts DEF Asked
<1>2. /\ i \in DevIdx /\ Used(devs[i]) /\ Len(d) <= Len(p)
      /\ \A j \in 0 .. (i - 1) : Candidate(devs, p, j) => MatchLen[p][devs[j].path] < MatchLen[p][d]
  BY DEF Taken, Candidate
<1>3. d \in Paths /\ d \in Names
  BY <1>2, EntryFacts DEF Devices, SInv
<1>4. ~Hidden(p, d)
  <2> SUFFICES ASSUME Hidden(p, d) PROVE FALSE
    OBVIOUS
  <2>1. PICK h \in Staying :
           /\ \A j \in DOMAIN BootDevices : BootDevices[j].path = d => h < j
           /\ Len(BootDevices[h].path) <= Len(p) /\ MatchLen[p][d] <= MatchLen[p][BootDevices[h].path]
    BY DEF Hidden
  <2>2. h \in Nat /\ h > 0 /\ BootDevices[h].path \in Paths /\ \A j \in 1 .. h : j \in Staying
    BY StayingFacts
  <2>3. i \in Nat
    BY <1>2 DEF DevIdx
  <2>4. h - 1 < i
    <3> SUFFICES ASSUME i + 1 <= h PROVE FALSE
      BY <2>2, <2>3
    <3>1. i + 1 \in Staying /\ (i + 1) - 1 = i
      BY <2>2, <2>3
    <3>2. BootDevices[i + 1].path = d /\ i + 1 \in DOMAIN BootDevices
      BY <3>1, StayingFacts DEF SInv
    <3> QED BY <2>1, <2>2, <2>3, <3>2
  <2>5. Used(devs[h - 1]) /\ devs[h - 1].path = BootDevices[h].path
    BY DEF SInv
  <2>6. h - 1 \in 0 .. (i - 1) /\ Candidate(devs, p, h - 1)
    BY <2>1, <2>2, <2>3, <2>4, <2>5 DEF Candidate
  <2>7. MatchLen[p][d] \in Nat /\ MatchLen[p][BootDevices[h].path] \in Nat
    BY <1>1, <1>3, <2>2, MatchFacts
  <2> QED BY <1>2, <2>1, <2>5, <2>6, <2>7
<1>5. Len(d) \in Nat /\ Len(p) \in Nat
  BY <1>1, <1>3, DirnameFacts
<1>6. CASE d \in {p, Dirname(p)}
  BY <1>2, <1>3, <1>6
<1>7. CASE d \notin {p, Dirname(p)}
  <2>1. \/ Len(d) > Len(p) \/ Hidden(p, d)
        \/ Len(d) < Len(p) /\ (Dirname(p) \in VolumeNames => MatchLen[p][d] < Len(Dirname(p)))
    BY <1>3, <1>7 DEF NamesTellApart
  <2> QED BY <1>2, <1>3, <1>4, <1>5, <2>1
<1> QED BY <1>6, <1>7

\* When some device agrees with the path on n letters, one that is taken does.
LEMMA TakenReaches ==
    ASSUME TInv, NEW p \in Paths, NEW n \in Nat, n > 0,
           NEW b \in DevIdx, Candidate(devs, p, b), n <= MatchLen[p][devs[b].path]
    PROVE  \E i \in Taken(devs, p) : n <= MatchLen[p][devs[i].path]
<1> DEFINE reach == {i \in DevIdx : Candidate(devs, p, i) /\ n <= MatchLen[p][devs[i].path]}
<1>1. \A i \in DevIdx : Candidate(devs, p, i) => MatchLen[p][devs[i].path] \in Nat
  BY EntryFacts, MatchFacts DEF Candidate, Devices
<1>2. DevIdx \subseteq Nat /\ \A i \in DevIdx : \A j \in 0 .. (i - 1) : j \in DevIdx
  BY MountsAssumption DEF DevIdx
<1>3. PICK i \in reach : \A j \in reach : i <= j
  <2>1. reach \subseteq Nat /\ b \in reach
    BY <1>2
  <2> HIDE DEF reach
  <2> QED BY <2>1, LeastElement
<1>4. ASSUME NEW j \in 0 .. (i - 1), Candidate(devs, p, j)
      PROVE  MatchLen[p][devs[j].path] < MatchLen[p][devs[i].path]
  <2>1. j \in DevIdx /\ j \notin reach
    BY <1>2, <1>3, <1>4
  <2>2. MatchLen[p][devs[j].path] < n /\ MatchLen[p][devs[j].path] \in Nat
    BY <1>1, <1>4, <2>1
  <2> QED BY <1>1, <1>3, <2>2
<1>5. i \in Taken(devs, p)
  BY <1>1, <1>3, <1>4 DEF Taken
<1> QED BY <1>3, <1>5

\* The search finds the device of a file that exists, or of the volume the file is on.
LEMMA SearchFinds ==
    ASSUME TInv, SInv, NamesTellApart, NEW p \in Asked, MayOpenPath(p)
    PROVE  \E i \in DevIdx :
              /\ i = DeviceFromPathRecursive(devs, p)
              /\ Used(devs[i]) /\ devs[i].path \in {p, Dirname(p)}
<1> DEFINE taken == Taken(devs, p)
           stops == {i \in taken : Len(devs[i].path) = Len(p)}
           Right(i) == i \in DevIdx /\ Used(devs[i]) /\ devs[i].path \in {p, Dirname(p)}
<1>1. p \in Paths /\ Len(p) \in Nat /\ Len(p) > 0
  BY MountsAssumption, RequestFacts, DirnameFacts DEF Asked
<1>2. taken # {} /\ taken \subseteq Nat /\ \A i \in DevIdx : i \in Nat
  BY TakenFacts DEF MayOpenPath, DevIdx
<1>3. \A i \in taken : /\ Right(i) \/ Len(devs[i].path) < Len(p)
                       /\ Right(i) \/ (Dirname(p) \in VolumeNames => MatchLen[p][devs[i].path] < Len(Dirname(p)))
  BY TakenFacts
<1>4. \A i \in taken : devs[i].path \in Paths /\ Len(devs[i].path) \in Nat /\ Len(devs[i].path) <= Len(p)
  BY TakenFacts, DirnameFacts DEF Taken, Candidate
<1>5. \A i \in taken : MatchLen[p][devs[i].path] \in Nat /\ MatchLen[p][devs[i].path] <= Len(devs[i].path)
  BY <1>1, <1>4, MatchFacts
<1>6. CASE stops # {}
  <2>1. Min(stops) \in stops
    <3>1. stops \subseteq Nat
      BY <1>2
    <3> HIDE DEF stops
    <3> QED BY <1>6, <3>1, MinIsIn
  <2>2. DeviceFromPathRecursive(devs, p) = Min(stops)
    BY <1>6 DEF DeviceFromPathRecursive
  <2>3. PICK i \in stops : i = DeviceFromPathRecursive(devs, p)
    BY <2>1, <2>2
  <2>4. Right(i)
    BY <1>1, <1>3, <1>4, <2>3
  <2> QED BY <2>3, <2>4
<1>7. CASE stops = {}
  <2>1. PICK r \in taken : r = DeviceFromPathRecursive(devs, p) /\ \A j \in taken : j <= r
    <3>1. taken \subseteq 0 .. (DevMax - 1)
      BY TakenFacts DEF DevIdx
    <3>2. DevMax - 1 \in Nat
      BY BootAssumption, MountsAssumption
    <3>3. PICK r \in taken : \A j \in taken : j <= r
      BY <1>2, <3>1, <3>2, GreatestElement
    <3>4. Max(taken) \in taken /\ \A j \in taken : Max(taken) >= j
      <4>1. \A j \in taken : r >= j
        BY <3>3
      <4> HIDE DEF taken
      <4> QED BY <3>3, <4>1 DEF Max
    <3>5. DeviceFromPathRecursive(devs, p) = Max(taken)
      BY <1>7 DEF DeviceFromPathRecursive
    <3> QED BY <3>4, <3>5
  <2>2. ~\E a \in DevIdx : Used(devs[a]) /\ devs[a].path = p
    <3> SUFFICES ASSUME NEW a \in DevIdx, Used(devs[a]), devs[a].path = p PROVE FALSE
      OBVIOUS
    <3>1. Candidate(devs, p, a) /\ Len(p) <= MatchLen[p][devs[a].path]
      BY <1>1, DirnameFacts, MatchFacts DEF Candidate
    <3>2. PICK i \in taken : Len(p) <= MatchLen[p][devs[i].path]
      BY <1>1, <3>1, TakenReaches
    <3>3. i \in stops
      BY <1>1, <1>4, <1>5, <3>2
    <3> QED BY <1>7, <3>3
  <2>3. PICK v \in DevIdx : Used(devs[v]) /\ devs[v].path = Dirname(p) /\ IsVolume(devs[v])
    <3>1. DeviceFromPath(devs, p) = DevMax
      BY <2>2, DeviceFacts
    <3>2. FileIn(p)
      BY <3>1 DEF MayOpenPath, FileExists
    <3> QED BY <3>2, DeviceFacts DEF FileIn
  <2>4. Dirname(p) \in VolumeNames /\ Dirname(p) \in Paths
    BY <2>3, EntryFacts DEF SInv, Devices
  <2>5. Right(r)
    <3> SUFFICES ASSUME ~Right(r) PROVE FALSE
      OBVIOUS
    <3> DEFINE n == Len(Dirname(p))
    <3>1. MatchLen[p][devs[r].path] < n
      BY <1>3, <2>1, <2>4
    <3>2. n \in Nat /\ n > 0 /\ n <= Len(p)
      BY <1>1, <1>5, <2>1, <3>1, DirnameFacts
    <3>3. Candidate(devs, p, v) /\ n <= MatchLen[p][devs[v].path]
      BY <1>1, <2>3, <2>4, <3>2, DirnameFacts, MatchFacts DEF Candidate
    <3> HIDE DEF n
    <3>4. PICK i \in taken : n <= MatchLen[p][devs[i].path]
      BY <1>1, <3>2, <3>3, TakenReaches
    <3>5. i <= r /\ i \in Nat /\ r \in Nat
      BY <1>2, <2>1, <3>4
    <3>6. CASE i = r
      BY <1>5, <3>1, <3>2, <3>4, <3>6
    <3>7. CASE i < r
      <4>1. i \in 0 .. (r - 1) /\ Candidate(devs, p, i)
        BY <3>4, <3>5, <3>7 DEF Taken
      <4>2. MatchLen[p][devs[i].path] < MatchLen[p][devs[r].path]
        BY <2>1, <4>1 DEF Taken
      <4> QED BY <1>5, <2>1, <3>1, <3>2, <3>4, <4>2
    <3> QED BY <3>5, <3>6, <3>7
  <2> QED BY <2>1, <2>5
<1> QED BY <1>6, <1>7

LEMMA InitTold == ASSUME Init PROVE SInv
<1>1. DOMAIN BootDevices = 1 .. Len(BootDevices) /\ Len(BootDevices) \in Nat /\ Len(BootDevices) < DevMax
  BY BootAssumption, MountsAssumption
<1>2. ASSUME NEW i \in DevIdx, i + 1 \in DOMAIN BootDevices
      PROVE  /\ devs[i].path = BootDevices[i + 1].path /\ devs[i].type = BootDevices[i + 1].type
             /\ Used(devs[i])
  <2>1. devs[i] = BootDevice(BootDevices[i + 1])
    BY <1>1, <1>2 DEF Init, DevIdx
  <2>2. BootDevices[i + 1] \in [type : {"dir", "char", "flat", "MiniFs"}, path : Paths, userData : Nat,
                                writable : BOOLEAN, many : BOOLEAN]
    BY <1>1, <1>2, BootAssumption, ElementOfSeq
  <2>3. BootDevices[i + 1].type \in {"dir", "char", "flat", "MiniFs"}
    BY <2>2
  <2> QED BY <2>1, <2>3 DEF BootDevice, Used
<1>3. ASSUME NEW i \in DevIdx, Used(devs[i])
      PROVE  devs[i].path \in Names /\ (IsVolume(devs[i]) => devs[i].path \in VolumeNames)
  <2>1. i + 1 \in DOMAIN BootDevices
    BY <1>1, <1>3 DEF Init, DevIdx, NoDev, Used
  <2> QED BY <1>2, <2>1 DEF Names, VolumeNames, IsVolume
<1>4. ASSUME NEW i \in Staying PROVE Used(devs[i - 1]) /\ devs[i - 1].path = BootDevices[i].path
  <2>1. i - 1 \in DevIdx /\ (i - 1) + 1 = i /\ i \in DOMAIN BootDevices
    BY StayingFacts
  <2> QED BY <1>2, <2>1
<1> QED BY <1>3, <1>4 DEF SInv

\* An entry that is filled, or filled anew for the same path.
LEMMA EntryFilled ==
    ASSUME TInv, SInv, NEW j \in DevIdx, NEW r \in Requests, NEW fd, NEW many,
           devs' = [devs EXCEPT ![j] = MountDevice(r, fd, many)], Used(devs[j]) => devs[j].path = r.dir
    PROVE  SInv'
<1>1. /\ devs'[j].path = r.dir /\ devs'[j].type = TypeOfFormat(r.format)
      /\ \A i \in DevIdx \ {j} : devs'[i] = devs[i]
  BY DEF TInv, DevsFit, MountDevice
<1>2. TypeOfFormat(r.format) # "none" /\ (TypeOfFormat(r.format) = "MiniFs" => r.format = "MiniFs")
  BY RequestFacts DEF TypeOfFormat, Formats
<1>3. ASSUME NEW i \in DevIdx, Used(devs'[i])
      PROVE  devs'[i].path \in Names /\ (IsVolume(devs'[i]) => devs'[i].path \in VolumeNames)
  <2>1. CASE i = j
    BY <1>1, <1>2, <2>1 DEF Names, VolumeNames, IsVolume
  <2>2. CASE i # j
    BY <1>1, <1>3, <2>2 DEF SInv
  <2> QED BY <2>1, <2>2
<1>4. ASSUME NEW i \in Staying PROVE Used(devs'[i - 1]) /\ devs'[i - 1].path = BootDevices[i].path
  <2>1. i - 1 \in DevIdx /\ Used(devs[i - 1]) /\ devs[i - 1].path = BootDevices[i].path
    BY StayingFacts DEF SInv
  <2>2. CASE i - 1 = j
    BY <1>1, <1>2, <2>1, <2>2 DEF Used
  <2>3. CASE i - 1 # j
    BY <1>1, <2>1, <2>3
  <2> QED BY <2>2, <2>3
<1> QED BY <1>3, <1>4 DEF SInv

\* An entry that is emptied is that of a device that programs remove.
LEMMA EntryEmptied ==
    ASSUME TInv, SInv, NEW p \in Unmounted \cup Deleted, NEW j,
           j = DeviceFromPath(devs, p), j # DevMax, devs' = [devs EXCEPT ![j] = NoDev]
    PROVE  SInv'
<1>1. j \in DevIdx /\ Used(devs[j]) /\ devs[j].path = p
  BY DeviceFacts
<1>2. devs'[j] = NoDev /\ ~Used(NoDev) /\ \A i \in DevIdx \ {j} : devs'[i] = devs[i]
  BY <1>1 DEF TInv, DevsFit, NoDev, Used
<1>3. ASSUME NEW i \in DevIdx, Used(devs'[i])
      PROVE  devs'[i].path \in Names /\ (IsVolume(devs'[i]) => devs'[i].path \in VolumeNames)
  BY <1>2, <1>3 DEF SInv
<1>4. ASSUME NEW i \in Staying PROVE Used(devs'[i - 1]) /\ devs'[i - 1].path = BootDevices[i].path
  <2>1. /\ i - 1 \in DevIdx /\ Used(devs[i - 1]) /\ devs[i - 1].path = BootDevices[i].path
        /\ BootDevices[i].path \notin Unmounted \cup Deleted
    BY StayingFacts DEF SInv
  <2> QED BY <1>1, <1>2, <2>1
<1> QED BY <1>3, <1>4 DEF SInv

LEMMA NextTold == ASSUME TInv, SInv, [Next]_vars PROVE SInv'
<1>1. ASSUME UNCHANGED <<devs, mounts>> PROVE SInv'
  BY <1>1 DEF SInv
<1>2. ASSUME NEW r \in Requests, NEW fd, AddMount(r, fd) PROVE SInv'
  <2>1. PICK j \in DevIdx : ~Used(devs[j]) /\ devs' = [devs EXCEPT ![j] = MountDevice(r, fd, TRUE)]
    BY <1>2, AddMountTakesFree
  <2> QED BY <2>1, EntryFilled
<1>3. ASSUME NEW r \in Requests, RemountMiniFs(r) PROVE SInv'
  <2>1. CASE ~Fits(VolumeOn(DeviceFromPath(devs, r.dir)), r.device)
    <3>1. UNCHANGED devs
      BY <1>3, <2>1 DEF RemountMiniFs
    <3> QED BY <3>1 DEF SInv
  <2>2. CASE Fits(VolumeOn(DeviceFromPath(devs, r.dir)), r.device)
    <3>1. PICK i \in DevIdx, k \in DOMAIN mounts, old \in ValidFds, new \in ValidFds : RemountEffect(r, i, k, old, new)
      BY <1>3, <2>2, RemountTables
    <3>2. devs[i].path = r.dir /\ devs' = [devs EXCEPT ![i] = MountDevice(r, new, devs[i].many)]
      BY <3>1 DEF RemountEffect
    <3> QED BY <3>2, EntryFilled
  <2> QED BY <2>1, <2>2
<1>4. ASSUME NEW p \in Unmounted, Unmount(p) PROVE SInv'
  <2>1. DeviceFromPath(devs, p) # DevMax /\ devs' = [devs EXCEPT ![DeviceFromPath(devs, p)] = NoDev]
    BY <1>4 DEF Unmount
  <2> QED BY <2>1, EntryEmptied
<1>5. ASSUME NEW p \in Deleted, DeleteDevice(p) PROVE SInv'
  <2>1. DeviceFromPath(devs, p) # DevMax /\ devs' = [devs EXCEPT ![DeviceFromPath(devs, p)] = NoDev]
    BY <1>5 DEF DeleteDevice
  <2> QED BY <2>1, EntryEmptied
<1> QED BY <1>1, <1>2, <1>3, <1>4, <1>5, DeviceSteps DEF Mount, MountHalf

\* A step removes a device or leaves its path; it never gives its entry to another.
LEMMA PathsKept ==
    ASSUME TInv, [Next]_vars, NEW c \in DevIdx, Used(devs[c]), Used(devs'[c])
    PROVE  devs'[c].path = devs[c].path
<1>1. CASE devs'[c] = devs[c]
  BY <1>1
<1>2. CASE devs'[c] # devs[c]
  <2>1. ASSUME NEW r \in Requests, RemountMiniFs(r) PROVE devs'[c].path = devs[c].path
    <3>1. PICK k \in DOMAIN mounts, old \in ValidFds, new \in ValidFds : RemountEffect(r, c, k, old, new)
      BY <1>2, <2>1, RemountTouchesOne
    <3>2. devs[c].path = r.dir /\ devs' = [devs EXCEPT ![c] = MountDevice(r, new, devs[c].many)]
      BY <3>1 DEF RemountEffect
    <3> QED BY <3>2 DEF TInv, DevsFit, MountDevice
  <2>2. ASSUME NEW r \in Requests, NEW fd, AddMount(r, fd) PROVE FALSE
    <3>1. PICK j \in DevIdx : ~Used(devs[j]) /\ devs' = [devs EXCEPT ![j] = MountDevice(r, fd, TRUE)]
      BY <2>2, AddMountTakesFree
    <3> QED BY <1>2, <3>1 DEF TInv, DevsFit
  <2>3. ASSUME NEW e, devs' = [devs EXCEPT ![e] = NoDev] PROVE FALSE
    <3>1. devs'[c] = NoDev \/ devs'[c] = devs[c]
      BY <2>3 DEF TInv, DevsFit
    <3> QED BY <1>2, <3>1 DEF Used, NoDev
  <2> QED
    BY <1>2, <2>1, <2>2, <2>3, DeviceSteps DEF Mount, MountHalf, Unmount, DeleteDevice
<1> QED BY <1>1, <1>2

\* What a step does to an open file: nothing, or it has just been opened for
\* path p with all devices still there.
SameFile(fd) == fdt'[fd] = fdt[fd] /\ cached'[fd] = cached[fd]
JustOpened(fd, p) ==
    /\ MayOpenPath(p) /\ fdt'[fd].path = p /\ cached'[fd] = DeviceFromPathRecursive(devs, p)
    /\ \A c \in DevIdx : Used(devs[c]) => Used(devs'[c])

LEMMA OpenFileSteps ==
    ASSUME TInv, NEW p \in Paths, OpenFile(p), \A c \in DevIdx : Used(devs[c]) => Used(devs'[c]),
           NEW fd \in ValidFds
    PROVE  SameFile(fd) \/ JustOpened(fd, p)
<1>1. /\ FreeFds(fdt) # {} /\ MayOpenPath(p) /\ fdt' = FileOpen(fdt, p, "RW")
      /\ cached' = [cached EXCEPT ![NewFd(fdt)] = DeviceFromPathRecursive(devs, p)]
  BY DEF OpenFile
<1>2. ValidFds \subseteq Fds
  BY FdMaxAssumption DEF ValidFds, Fds
<1>3. fdt'[NewFd(fdt)].path = p /\ \A g \in Fds \ {NewFd(fdt)} : fdt'[g] = fdt[g]
  BY <1>1, OpenFacts DEF TInv
<1>4. CASE fd = NewFd(fdt)
  BY <1>1, <1>2, <1>3, <1>4 DEF TInv, JustOpened
<1>5. CASE fd # NewFd(fdt)
  BY <1>1, <1>2, <1>3, <1>5 DEF TInv, SameFile
<1> QED BY <1>4, <1>5

LEMMA CloseFileSteps ==
    ASSUME TInv, NEW g \in ValidFds, InUse(fdt, g), CloseFile(g), NEW fd \in ValidFds, InUse(fdt', fd)
    PROVE  SameFile(fd)
<1>1. ValidFds \subseteq Fds
  BY FdMaxAssumption DEF ValidFds, Fds
<1>2. ~InUse(fdt', g) /\ \A h \in Fds \ {g} : fdt'[h] = fdt[h]
  BY CloseFacts DEF CloseFile, TInv
<1>3. fd # g
  BY <1>2
<1>4. cached'[fd] = cached[fd]
  BY <1>1, <1>3 DEF CloseFile, TInv
<1> QED BY <1>1, <1>2, <1>3, <1>4 DEF SameFile

\* A new device takes no entry from another one.
LEMMA AddMountKeepsUsed ==
    ASSUME TInv, NEW r, NEW fd, AddMount(r, fd), NEW c \in DevIdx, Used(devs[c])
    PROVE  Used(devs'[c])
<1>1. PICK j \in DevIdx : ~Used(devs[j]) /\ devs' = [devs EXCEPT ![j] = MountDevice(r, fd, TRUE)]
  BY AddMountTakesFree
<1> QED BY <1>1 DEF TInv, DevsFit

LEMMA RemountSteps ==
    ASSUME TInv, NEW r \in Requests, RemountMiniFs(r), NEW fd \in ValidFds, InUse(fdt', fd)
    PROVE  SameFile(fd) \/ JustOpened(fd, r.device)
<1>1. CASE ~Fits(VolumeOn(DeviceFromPath(devs, r.dir)), r.device)
  <2>1. UNCHANGED <<fdt, cached>>
    BY <1>1 DEF RemountMiniFs
  <2> QED BY <2>1 DEF SameFile
<1>2. CASE Fits(VolumeOn(DeviceFromPath(devs, r.dir)), r.device)
  <2>1. PICK i \in DevIdx, k \in DOMAIN mounts, old \in ValidFds, new \in ValidFds :
           /\ i = DeviceFromPath(devs, r.dir) /\ k = Min(MountOf(i)) /\ old = mounts[k].fd /\ new = NewFd(fdt)
           /\ InUse(fdt, old) /\ ~InUse(fdt, new) /\ FreeFds(fdt) # {} /\ MayOpenPath(r.device)
           /\ r.device \in Paths
    BY RemountFacts
  <2> DEFINE o == FileOpen(fdt, r.device, "RW")
  <2>2. /\ devs' = [devs EXCEPT ![i] = MountDevice(r, new, devs[i].many)]
        /\ fdt' = FileClose(o, old)
        /\ cached' = [cached EXCEPT ![new] = DeviceFromPathRecursive(devs, r.device), ![old] = DevMax]
    BY <1>2, <2>1 DEF RemountMiniFs
  <2>3. old \in Fds /\ new \in Fds /\ fd \in Fds /\ old # new
    BY <2>1, FdMaxAssumption DEF ValidFds, Fds
  <2>4. OneRef(o) /\ o[new].path = r.device /\ \A g \in Fds \ {new} : o[g] = fdt[g]
    BY <2>1, OpenFacts DEF TInv
  <2>5. InUse(o, old)
    BY <2>1, <2>3, <2>4 DEF InUse
  <2> HIDE DEF o
  <2>6. ~InUse(fdt', old) /\ \A g \in Fds \ {old} : fdt'[g] = o[g]
    BY <2>2, <2>4, <2>5, CloseFacts
  <2>7. fd # old /\ fdt'[fd] = o[fd]
    BY <2>3, <2>6
  <2>8. \A c \in DevIdx : Used(devs[c]) => Used(devs'[c])
    <3>1. TypeOfFormat(r.format) # "none"
      BY RequestFacts DEF TypeOfFormat, Formats
    <3>2. Used(MountDevice(r, new, devs[i].many))
      BY <3>1 DEF MountDevice, Used
    <3> QED BY <2>2, <3>2 DEF TInv, DevsFit
  <2>9. CASE fd = new
    <3>1. cached'[fd] = DeviceFromPathRecursive(devs, r.device)
      BY <2>2, <2>3, <2>9 DEF TInv
    <3> QED BY <2>1, <2>4, <2>7, <2>8, <2>9, <3>1 DEF JustOpened
  <2>10. CASE fd # new
    <3>1. cached'[fd] = cached[fd]
      BY <2>2, <2>3, <2>7, <2>10 DEF TInv
    <3> QED BY <2>3, <2>4, <2>7, <2>10, <3>1 DEF SameFile
  <2> QED BY <2>9, <2>10
<1> QED BY <1>1, <1>2

LEMMA FileSteps ==
    ASSUME TInv, [Next]_vars, NEW fd \in ValidFds, InUse(fdt', fd)
    PROVE  SameFile(fd) \/ \E p \in Asked : JustOpened(fd, p)
<1>1. CASE UNCHANGED <<fdt, cached>>
  BY <1>1 DEF SameFile
<1>2. ASSUME NEW p \in Asked, OpenFile(p), \A c \in DevIdx : Used(devs[c]) => Used(devs'[c])
      PROVE  SameFile(fd) \/ JustOpened(fd, p)
  <2>1. p \in Paths
    BY MountsAssumption, RequestFacts DEF Asked
  <2> QED BY <1>2, <2>1, OpenFileSteps
<1>3. ASSUME NEW r \in Requests, Mount(r) PROVE SameFile(fd) \/ JustOpened(fd, r.device)
  <2>1. OpenFile(r.device) /\ AddMount(r, NewFd(fdt)) /\ r.device \in Asked
    BY <1>3 DEF Mount, Asked
  <2> QED BY <1>2, <2>1, AddMountKeepsUsed
<1>4. ASSUME NEW r \in Requests, RemountFails(r) PROVE SameFile(fd) \/ JustOpened(fd, r.device)
  <2>1. OpenFile(r.device) /\ UNCHANGED devs /\ r.device \in Asked
    BY <1>4 DEF RemountFails, Asked
  <2> QED BY <1>2, <2>1
<1>5. ASSUME NEW p \in Opened, Open(p) PROVE SameFile(fd) \/ JustOpened(fd, p)
  <2>1. OpenFile(p) /\ UNCHANGED devs /\ p \in Asked
    BY <1>5 DEF Open, Asked
  <2> QED BY <1>2, <2>1
<1>6. ASSUME NEW g \in ValidFds, Close(g) PROVE SameFile(fd)
  BY <1>6, CloseFileSteps DEF Close
<1>7. ASSUME NEW p, Unmount(p) PROVE SameFile(fd)
  <2>1. PICK i : MountOf(i) # {} /\ CloseFile(devs[i].userData)
    BY <1>7 DEF Unmount
  <2>2. devs[i].userData \in ValidFds /\ InUse(fdt, devs[i].userData)
    BY <2>1, MountOfFacts, EntryFacts DEF TInv, MountsFit
  <2> QED BY <2>1, <2>2, CloseFileSteps
<1>8. ASSUME NEW r \in Requests, RemountMiniFs(r) PROVE SameFile(fd) \/ JustOpened(fd, r.device)
  BY <1>8, RemountSteps
<1>9. \A r \in Requests : r.device \in Asked
  BY DEF Asked
<1>10. Opened \subseteq Asked
  BY DEF Asked
<1>11. CASE \E r \in Requests : MountHalf(r)
  BY <1>1, <1>11 DEF MountHalf
<1>12. CASE \E p \in Deleted : DeleteDevice(p)
  BY <1>1, <1>12 DEF DeleteDevice
<1>13. CASE \E p \in Created : DeleteFile(p) \/ \E n \in Sizes, v \in Data : CreateFile(p, n, v)
  BY <1>1, <1>13 DEF DeleteFile, CreateFile
<1>14. CASE \E g \in ValidFds : WriteFlat(g) \/ RingRead(g) \/ \E v \in Data : WriteFile(g, v)
  BY <1>1, <1>14 DEF WriteFlat, RingRead, WriteFile
<1>15. CASE \E g \in ValidFds, s \in Pushes : RingWrite(g, s)
  BY <1>1, <1>15 DEF RingWrite
<1>16. CASE UNCHANGED vars
  BY <1>1, <1>16 DEF vars
<1> QED
  BY <1>3, <1>4, <1>5, <1>6, <1>7, <1>8, <1>9, <1>10, <1>11, <1>12, <1>13, <1>14, <1>15, <1>16 DEF Next

\* The device that an open file remembers is its own or its directory's when it
\* is opened (kernelFsGetDeviceFromPathRecursive) and, whatever is mounted,
\* remounted, unmounted or deleted meanwhile, until that device itself is removed:
\* provided no device has a name that the search confuses with the file's.
THEOREM FilesStayServed == ASSUME NamesTellApart PROVE Spec => ServedUntilRemoved
<1>1. Init => SInv
  BY InitTold
<1>2. TInv /\ SInv /\ [Next]_vars => SInv'
  BY NextTold
<1>3. ASSUME TInv, SInv, [Next]_vars, NEW fd \in ValidFds, InUse(fdt, fd)', InUse(fdt, fd) => Served(fd)
      PROVE  Served(fd)' \/ (cached[fd] # DevMax /\ Used(devs[cached[fd]]) /\ ~Used(devs'[cached[fd]]))
  <2>1. CASE SameFile(fd)
    <3>1. fdt'[fd] = fdt[fd] /\ cached'[fd] = cached[fd] /\ InUse(fdt, fd)
      BY <1>3, <2>1 DEF SameFile, InUse
    <3>2. cached[fd] # DevMax /\ Used(devs[cached[fd]]) /\ devs[cached[fd]].path \in {fdt[fd].path, Dirname(fdt[fd].path)}
      BY <1>3, <3>1 DEF Served
    <3>3. cached[fd] \in DevIdx
      <4>1. fd \in Fds
        BY FdMaxAssumption DEF ValidFds, Fds
      <4> QED BY <1>3, <3>2, <4>1 DEF TInv
    <3>4. ASSUME Used(devs'[cached[fd]]) PROVE Served(fd)'
      <4>1. devs'[cached[fd]].path = devs[cached[fd]].path
        BY <1>3, <3>2, <3>3, <3>4, PathsKept
      <4> QED BY <3>1, <3>2, <3>4, <4>1 DEF Served
    <3> QED BY <3>2, <3>4
  <2>2. CASE \E p \in Asked : JustOpened(fd, p)
    <3>1. PICK p \in Asked : JustOpened(fd, p)
      BY <2>2
    <3>2. PICK i \in DevIdx :
             /\ i = DeviceFromPathRecursive(devs, p)
             /\ Used(devs[i]) /\ devs[i].path \in {p, Dirname(p)}
      BY <1>3, <3>1, SearchFinds DEF JustOpened
    <3>3. Used(devs'[i]) /\ cached'[fd] = i /\ fdt'[fd].path = p
      BY <3>1, <3>2 DEF JustOpened
    <3>4. devs'[i].path = devs[i].path
      BY <1>3, <3>2, <3>3, PathsKept
    <3>5. i # DevMax
      BY MountsAssumption DEF DevIdx
    <3> QED BY <3>2, <3>3, <3>4, <3>5 DEF Served
  <2> QED BY <1>3, <2>1, <2>2, FileSteps
<1>4. TInv /\ SInv /\ [Next]_vars =>
        [\A fd \in ValidFds :
            InUse(fdt, fd)' /\ (InUse(fdt, fd) => Served(fd))
               => Served(fd)' \/ (cached[fd] # DevMax /\ Used(devs[cached[fd]]) /\ ~Used(devs'[cached[fd]]))]_vars
  BY <1>3
<1> QED BY <1>1, <1>2, <1>4, Invariance, PTL DEF Spec, ServedUntilRemoved

(***************************************************************************)
(* What a ring holds, as a sequence, and what reading and writing does to it.*)
(***************************************************************************)

IsFile(b) == b \in Seq(Bytes) /\ Len(b) \in FileSizes
IsRingFile(b) == IsFile(b) /\ Len(b) >= 4
Offsets(b) == 0 .. (BufferSize(Len(b)) - 1)

\* What a ring in file b holds from offset h up to offset t, and where that is.
Held(b, h, t) ==
    [k \in 1 .. ((t - h) % BufferSize(Len(b))) |-> b[Place(b, (h + k - 1) % BufferSize(Len(b)))]]
Count(size, h, t) == IF h <= t THEN t - h ELSE t - h + size
At(size, h, k) == IF h + k - 1 < size THEN h + k - 1 ELSE h + k - 1 - size

LEMMA RingContentIsHeld == ASSUME NEW b PROVE RingContent(b) = Held(b, GetHead(b), GetTail(b))
BY DEF RingContent, Held

\* An index is its own remainder; a sum of two that is beyond the end wraps
\* around once, and so does a difference below zero.
LEMMA RemainderInside == ASSUME NEW n \in Nat, NEW x \in 0 .. (n - 1) PROVE x % n = x
OBVIOUS

LEMMA RemainderAbove == ASSUME NEW n \in Nat, NEW x \in n .. (2 * n - 1) PROVE x % n = x - n
OBVIOUS

LEMMA RemainderBelow == ASSUME NEW n \in Nat, NEW x \in (-n) .. (-1) PROVE x % n = x + n
OBVIOUS

\* A file that is long enough has room for its two offsets and more.
LEMMA SizeFacts ==
    ASSUME NEW n \in Nat, n >= 4
    PROVE  /\ OffsetSize(n) \in {1, 2, 4} /\ BufferSize(n) \in Nat \ {0}
           /\ n = 2 * OffsetSize(n) + BufferSize(n)
<1>1. ByteValues \in Nat /\ ByteValues >= 5
  BY MountsAssumption
<1>2. ByteValues * ByteValues \in Nat /\ ByteValues * ByteValues >= 25
  BY <1>1
<1>3. CASE OffsetSize(n) = 1
  BY <1>3 DEF BufferSize
<1>4. CASE n >= ByteValues /\ OffsetSize(n) = 2
  BY <1>1, <1>4 DEF BufferSize
<1>5. CASE n >= ByteValues * ByteValues /\ OffsetSize(n) = 4
  BY <1>2, <1>5 DEF BufferSize
<1> QED BY <1>1, <1>2, <1>3, <1>4, <1>5 DEF OffsetSize

\* What a file with a ring in it looks like.
LEMMA RingFileFacts ==
    ASSUME NEW b, IsRingFile(b)
    PROVE  /\ b \in Seq(Bytes) /\ Len(b) \in Nat /\ Len(b) >= 4 /\ DOMAIN b = 1 .. Len(b)
           /\ OffsetSize(Len(b)) \in {1, 2, 4} /\ BufferSize(Len(b)) \in Nat \ {0}
           /\ Len(b) = 2 * OffsetSize(Len(b)) + BufferSize(Len(b))
           /\ \A k \in DOMAIN b : b[k] \in Bytes
           /\ \A o \in Offsets(b) : Place(b, o) \in DOMAIN b /\ Place(b, o) > 2 * OffsetSize(Len(b))
<1>1. b \in Seq(Bytes) /\ Len(b) \in Nat /\ Len(b) >= 4 /\ DOMAIN b = 1 .. Len(b)
  BY DEF IsRingFile, IsFile
<1>2. \A k \in DOMAIN b : b[k] \in Bytes
  BY <1>1, ElementOfSeq
<1>3. /\ OffsetSize(Len(b)) \in {1, 2, 4} /\ BufferSize(Len(b)) \in Nat \ {0}
      /\ Len(b) = 2 * OffsetSize(Len(b)) + BufferSize(Len(b))
  BY <1>1, SizeFacts
<1>4. ASSUME NEW o \in Offsets(b) PROVE Place(b, o) \in DOMAIN b /\ Place(b, o) > 2 * OffsetSize(Len(b))
  BY <1>1, <1>3 DEF Offsets, Place
<1> QED BY <1>1, <1>2, <1>3, <1>4

\* What a ring holds, without remainders.
LEMMA HeldIs ==
    ASSUME NEW b, IsRingFile(b), NEW h \in Offsets(b), NEW t \in Offsets(b)
    PROVE  LET size == BufferSize(Len(b))
           IN  /\ Count(size, h, t) \in 0 .. (size - 1)
               /\ Held(b, h, t) \in Seq(Bytes) /\ Len(Held(b, h, t)) = Count(size, h, t)
               /\ \A k \in 1 .. Count(size, h, t) :
                     At(size, h, k) \in Offsets(b) /\ Held(b, h, t)[k] = b[Place(b, At(size, h, k))]
<1>0. PICK size \in Nat \ {0} : size = BufferSize(Len(b)) /\ Offsets(b) = 0 .. (size - 1)
  BY RingFileFacts DEF Offsets
<1>0a. h \in 0 .. (size - 1) /\ t \in 0 .. (size - 1)
  BY <1>0
<1>1. (t - h) % size = Count(size, h, t) /\ Count(size, h, t) \in 0 .. (size - 1)
  <2>1. CASE h <= t
    <3>1. t - h \in 0 .. (size - 1)
      BY <1>0, <2>1
    <3> QED BY <2>1, <3>1, RemainderInside DEF Count
  <2>2. CASE ~(h <= t)
    <3>1. t - h \in (-size) .. (-1) /\ t - h + size \in 0 .. (size - 1)
      BY <1>0, <2>2
    <3> QED BY <2>2, <3>1, RemainderBelow DEF Count
  <2> QED BY <2>1, <2>2
<1>2. ASSUME NEW k \in 1 .. Count(size, h, t)
      PROVE  At(size, h, k) \in 0 .. (size - 1) /\ (h + k - 1) % size = At(size, h, k)
  <2>1. PICK x \in 0 .. (2 * size - 1) : x = h + k - 1
    BY <1>0, <1>1
  <2>2. CASE x < size
    <3>1. x \in 0 .. (size - 1) /\ At(size, h, k) = x
      BY <1>0, <1>1, <2>1, <2>2 DEF At
    <3> QED BY <2>1, <3>1, RemainderInside
  <2>3. CASE ~(x < size)
    <3>1. x \in size .. (2 * size - 1) /\ x - size \in 0 .. (size - 1)
      BY <1>0, <2>1, <2>3
    <3>2. h + k - 1 - size = x - size
      BY <1>0, <1>0a, <1>1, <2>1
    <3>3. At(size, h, k) = x - size
      BY <2>1, <2>3, <3>2 DEF At
    <3> QED BY <2>1, <3>1, <3>3, RemainderAbove
  <2> QED BY <2>2, <2>3
<1>3. Held(b, h, t) = [k \in 1 .. Count(size, h, t) |-> b[Place(b, (h + k - 1) % size)]]
  BY <1>0, <1>1 DEF Held
<1>4. \A k \in 1 .. Count(size, h, t) : Held(b, h, t)[k] = b[Place(b, At(size, h, k))]
  BY <1>2, <1>3
<1>5. \A k \in 1 .. Count(size, h, t) : Held(b, h, t)[k] \in Bytes
  BY <1>0, <1>2, <1>4, RingFileFacts
<1>6. Held(b, h, t) \in Seq(Bytes) /\ Len(Held(b, h, t)) = Count(size, h, t)
  BY <1>1, <1>3, <1>5
<1> QED BY <1>0, <1>1, <1>2, <1>4, <1>6

\* It depends on the bytes of the buffer only.
LEMMA HeldSame ==
    ASSUME NEW b, NEW c, IsRingFile(b), IsRingFile(c), Len(c) = Len(b),
           \A o \in Offsets(b) : c[Place(b, o)] = b[Place(b, o)],
           NEW h \in Offsets(b), NEW t \in Offsets(b)
    PROVE  Held(c, h, t) = Held(b, h, t)
<1> DEFINE size == BufferSize(Len(b))
           n == Count(size, h, t)
<1>1. Offsets(c) = Offsets(b) /\ \A o : Place(c, o) = Place(b, o)
  BY DEF Offsets, Place
<1>2. /\ n \in 0 .. (size - 1) /\ Held(b, h, t) \in Seq(Bytes) /\ Len(Held(b, h, t)) = n
      /\ \A k \in 1 .. n : At(size, h, k) \in Offsets(b) /\ Held(b, h, t)[k] = b[Place(b, At(size, h, k))]
  BY HeldIs
<1>3. /\ Held(c, h, t) \in Seq(Bytes) /\ Len(Held(c, h, t)) = n
      /\ \A k \in 1 .. n : Held(c, h, t)[k] = c[Place(c, At(size, h, k))]
  BY <1>1, HeldIs
<1>4. \A k \in 1 .. n : Held(c, h, t)[k] = Held(b, h, t)[k]
  BY <1>1, <1>2, <1>3
<1> HIDE DEF n
<1> QED BY <1>2, <1>3, <1>4

\* The byte that is read is the first.
LEMMA HeldPop ==
    ASSUME NEW b, IsRingFile(b), NEW h \in Offsets(b), NEW t \in Offsets(b), h # t
    PROVE  /\ IncOffset(Len(b), h) \in Offsets(b)
           /\ Held(b, h, t) # << >>
           /\ Held(b, IncOffset(Len(b), h), t) = Tail(Held(b, h, t))
<1>0. PICK size \in Nat \ {0} : size = BufferSize(Len(b)) /\ Offsets(b) = 0 .. (size - 1)
  BY RingFileFacts DEF Offsets
<1>0a. h \in 0 .. (size - 1) /\ t \in 0 .. (size - 1)
  BY <1>0
<1>1. PICK g \in 0 .. (size - 1) : g = IncOffset(Len(b), h) /\ g = IF h < size - 1 THEN h + 1 ELSE 0
  BY <1>0 DEF IncOffset
<1>2. PICK n \in 1 .. (size - 1) : n = Count(size, h, t) /\ n - 1 = Count(size, g, t)
  <2>1. Count(size, h, t) \in 1 .. (size - 1) /\ Count(size, h, t) - 1 = Count(size, g, t)
    BY <1>0, <1>1, <1>0a DEF Count
  <2> QED BY <2>1
<1>3. /\ Held(b, h, t) \in Seq(Bytes) /\ Len(Held(b, h, t)) = n
      /\ \A k \in 1 .. n : Held(b, h, t)[k] = b[Place(b, At(size, h, k))]
  BY <1>0, <1>2, HeldIs
<1>4. /\ Held(b, g, t) \in Seq(Bytes) /\ Len(Held(b, g, t)) = n - 1
      /\ \A k \in 1 .. (n - 1) : Held(b, g, t)[k] = b[Place(b, At(size, g, k))]
  <2>1. g \in Offsets(b)
    BY <1>0, <1>1
  <2>2. PICK m : m = Count(BufferSize(Len(b)), g, t)
    OBVIOUS
  <2>3. /\ Held(b, g, t) \in Seq(Bytes) /\ Len(Held(b, g, t)) = m
        /\ \A k \in 1 .. m : Held(b, g, t)[k] = b[Place(b, At(BufferSize(Len(b)), g, k))]
    BY <2>1, <2>2, HeldIs
  <2>4. m = n - 1 /\ BufferSize(Len(b)) = size
    BY <1>0, <1>2, <2>2
  <2> QED BY <2>3, <2>4
<1>5. ASSUME NEW k \in 1 .. (n - 1) PROVE At(size, g, k) = At(size, h, k + 1)
  <2>0. size \in Int /\ h \in Int /\ h < size /\ k \in Int /\ 1 <= k /\ k < size /\ h + (k + 1) - 1 = h + k
    BY <1>0, <1>0a, <1>2, <1>5
  <2>1. CASE h < size - 1
    <3>1. g = h + 1 /\ g + k - 1 = h + k
      BY <1>1, <2>0, <2>1
    <3> QED BY <2>0, <3>1 DEF At
  <2>2. CASE ~ (h < size - 1)
    <3>1. g = 0 /\ g + k - 1 < size /\ ~ (h + k < size) /\ h + k - size = g + k - 1
      BY <1>1, <2>0, <2>2
    <3> QED BY <2>0, <3>1 DEF At
  <2> QED BY <2>1, <2>2
<1>6. \A k \in 1 .. (n - 1) : Held(b, g, t)[k] = Held(b, h, t)[k + 1]
  BY <1>3, <1>4, <1>5
<1>7. PICK q \in Seq(Bytes) : q = Held(b, h, t)
  BY <1>3
<1>8. q # << >> /\ Tail(q) \in Seq(Bytes) /\ Len(Tail(q)) = n - 1 /\ \A k \in 1 .. (n - 1) : Tail(q)[k] = q[k + 1]
  BY <1>3, <1>7
<1>9. Held(b, g, t) = Tail(q)
  BY <1>4, <1>6, <1>7, <1>8
<1> QED BY <1>0, <1>1, <1>7, <1>8, <1>9

\* The byte after the last one in the buffer is the tail, and none before it is.
LEMMA TailIsPastTheEnd ==
    ASSUME NEW size \in Nat \ {0}, NEW h \in 0 .. (size - 1), NEW t \in 0 .. (size - 1)
    PROVE  /\ At(size, h, Count(size, h, t) + 1) = t
           /\ \A k \in 1 .. Count(size, h, t) : At(size, h, k) # t
<1>0. size \in Int /\ h \in Int /\ t \in Int /\ 0 <= h /\ h < size /\ 0 <= t /\ t < size
  OBVIOUS
<1>1. CASE h <= t
  <2>1. PICK n \in Int : n = Count(size, h, t) /\ n = t - h
    BY <1>0, <1>1 DEF Count
  <2>2. At(size, h, n + 1) = t
    <3>1. h + (n + 1) - 1 = t
      BY <1>0, <2>1
    <3> QED BY <1>0, <3>1 DEF At
  <2>3. ASSUME NEW k \in 1 .. n PROVE At(size, h, k) # t
    <3>1. PICK p \in Int : p = h + k - 1 /\ p < t /\ p < size
      BY <1>0, <2>1
    <3>2. At(size, h, k) = p
      BY <3>1 DEF At
    <3> QED BY <1>0, <3>1, <3>2
  <2> QED BY <2>1, <2>2, <2>3
<1>2. CASE t < h
  <2>1. PICK n \in Int : n = Count(size, h, t) /\ n = t - h + size
    <3>1. ~ (h <= t)
      BY <1>0, <1>2
    <3> QED BY <1>0, <3>1 DEF Count
  <2>2. At(size, h, n + 1) = t
    <3>1. h + (n + 1) - 1 = t + size /\ ~ (t + size < size) /\ t + size - size = t
      BY <1>0, <2>1
    <3> QED BY <3>1 DEF At
  <2>3. ASSUME NEW k \in 1 .. n PROVE At(size, h, k) # t
    <3>1. PICK p \in Int : p = h + k - 1 /\ h <= p /\ p < t + size
      BY <1>0, <2>1
    <3>2. CASE p < size
      <4>1. At(size, h, k) = p
        BY <3>1, <3>2 DEF At
      <4> QED BY <1>0, <1>2, <3>1, <4>1
    <3>3. CASE ~ (p < size)
      <4>1. At(size, h, k) = p - size
        BY <3>1, <3>3 DEF At
      <4>2. p - size # t
        BY <1>0, <3>1
      <4> QED BY <4>1, <4>2
    <3> QED BY <3>2, <3>3
  <2> QED BY <2>1, <2>2, <2>3
<1> QED BY <1>0, <1>1, <1>2

\* The byte that is written is the last.
LEMMA HeldGrows ==
    ASSUME NEW b, IsRingFile(b), NEW h \in Offsets(b), NEW t \in Offsets(b), IncOffset(Len(b), t) # h, NEW v \in Bytes,
           NEW c, IsRingFile(c), Len(c) = Len(b),
           \A o \in Offsets(b) : c[Place(b, o)] = IF o = t THEN v ELSE b[Place(b, o)]
    PROVE  /\ IncOffset(Len(b), t) \in Offsets(b)
           /\ Held(c, h, IncOffset(Len(b), t)) = Append(Held(b, h, t), v)
<1>0. PICK size \in Nat \ {0} : size = BufferSize(Len(b)) /\ Offsets(b) = 0 .. (size - 1)
  BY RingFileFacts DEF Offsets
<1>0a. h \in 0 .. (size - 1) /\ t \in 0 .. (size - 1)
  BY <1>0
<1>1. PICK g \in 0 .. (size - 1) : g = IncOffset(Len(b), t) /\ g = IF t < size - 1 THEN t + 1 ELSE 0
  BY <1>0 DEF IncOffset
<1>2. PICK n \in 0 .. (size - 2) : n = Count(size, h, t) /\ n + 1 = Count(size, h, g)
  <2>1. Count(size, h, t) \in 0 .. (size - 2) /\ Count(size, h, t) + 1 = Count(size, h, g)
    BY <1>0, <1>1, <1>0a DEF Count
  <2> QED BY <2>1
<1>4. Offsets(c) = Offsets(b) /\ \A o : Place(c, o) = Place(b, o)
  BY DEF Offsets, Place
<1>6. /\ Held(b, h, t) \in Seq(Bytes) /\ Len(Held(b, h, t)) = n
      /\ \A k \in 1 .. n : At(size, h, k) \in Offsets(b) /\ Held(b, h, t)[k] = b[Place(b, At(size, h, k))]
  BY <1>0, <1>2, HeldIs
<1>7. /\ Held(c, h, g) \in Seq(Bytes) /\ Len(Held(c, h, g)) = n + 1
      /\ \A k \in 1 .. (n + 1) : At(size, h, k) \in Offsets(b) /\ Held(c, h, g)[k] = c[Place(b, At(size, h, k))]
  <2>1. g \in Offsets(c) /\ h \in Offsets(c) /\ size = BufferSize(Len(c))
    BY <1>0, <1>1, <1>4
  <2>2. /\ Held(c, h, g) \in Seq(Bytes) /\ Len(Held(c, h, g)) = Count(size, h, g)
        /\ \A k \in 1 .. Count(size, h, g) :
              At(size, h, k) \in Offsets(c) /\ Held(c, h, g)[k] = c[Place(c, At(size, h, k))]
    BY <2>1, HeldIs
  <2> QED BY <1>2, <1>4, <2>2
<1>3. /\ At(size, h, Count(size, h, t) + 1) = t
      /\ \A k \in 1 .. Count(size, h, t) : At(size, h, k) # t
  BY <1>0a, TailIsPastTheEnd
<1>8. ASSUME NEW k \in 1 .. n PROVE At(size, h, k) # t
  BY <1>2, <1>3
<1>9. At(size, h, n + 1) = t
  BY <1>2, <1>3
<1>10. \A k \in 1 .. n : Held(c, h, g)[k] = Held(b, h, t)[k]
  BY <1>6, <1>7, <1>8
<1>11. Held(c, h, g)[n + 1] = v
  BY <1>0, <1>2, <1>7, <1>9
<1>12. PICK q \in Seq(Bytes) : q = Held(b, h, t)
  BY <1>6
<1>13. /\ Append(q, v) \in Seq(Bytes) /\ Len(Append(q, v)) = n + 1
       /\ (\A k \in 1 .. n : Append(q, v)[k] = q[k]) /\ Append(q, v)[n + 1] = v
  BY <1>6, <1>12, AppendProperties
<1>14. \A k \in 1 .. (n + 1) : Held(c, h, g)[k] = Append(q, v)[k]
  <2> TAKE k \in 1 .. (n + 1)
  <2>0. n \in Nat
    BY <1>2
  <2>1. CASE k \in 1 .. n
    BY <1>10, <1>12, <1>13, <2>1
  <2>2. CASE k = n + 1
    BY <1>11, <1>13, <2>2
  <2>3. k \in 1 .. n \/ k = n + 1
    BY <2>0
  <2> QED BY <2>1, <2>2, <2>3
<1>15. Held(c, h, g) = Append(q, v)
  BY <1>7, <1>13, <1>14
<1> QED BY <1>0, <1>1, <1>12, <1>15

\* A byte in the buffer is replaced.
Stored(b, t, v) == [b EXCEPT ![Place(b, t)] = v]

\* The file it gives differs in that byte only.
LEMMA ByteStored ==
    ASSUME NEW b, IsRingFile(b), NEW t \in Offsets(b), NEW v \in Bytes, NEW c, c = Stored(b, t, v)
    PROVE  /\ IsRingFile(c) /\ Len(c) = Len(b)
           /\ \A o \in Offsets(b) : c[Place(b, o)] = IF o = t THEN v ELSE b[Place(b, o)]
           /\ \A k \in 1 .. 2 * OffsetSize(Len(b)) : c[k] = b[k]
<1>1. Place(b, t) \in DOMAIN b /\ b \in Seq(Bytes)
  BY RingFileFacts
<1>0. c = [b EXCEPT ![Place(b, t)] = v]
  BY DEF Stored
<1>2. c \in Seq(Bytes) /\ Len(c) = Len(b)
  BY <1>0, <1>1, ExceptSeq
<1>3. IsRingFile(c)
  BY <1>2 DEF IsRingFile, IsFile
<1>4. PICK w \in {1, 2, 4} : /\ w = OffsetSize(Len(b)) /\ DOMAIN b = 1 .. Len(b) /\ Len(b) \in Nat /\ 2 * w < Len(b)
  BY RingFileFacts
<1>5. \A o : Place(b, o) = 2 * w + o + 1
  BY <1>4 DEF Place
<1>6. t \in Int /\ \A o \in Offsets(b) : o \in Int /\ Place(b, o) \in DOMAIN b
  BY RingFileFacts DEF Offsets
<1>7. \A o \in Offsets(b) : c[Place(b, o)] = IF o = t THEN v ELSE b[Place(b, o)]
  <2> TAKE o \in Offsets(b)
  <2>1. o # t => Place(b, o) # Place(b, t)
    BY <1>5, <1>6
  <2> QED BY <2>1, <1>0, <1>6
<1>8. \A k \in 1 .. 2 * w : k \in DOMAIN b /\ k # Place(b, t)
  <2>1. Place(b, t) > 2 * w
    BY <1>4, RingFileFacts
  <2> QED BY <1>4, <1>6, <2>1
<1>9. \A k \in 1 .. 2 * w : c[k] = b[k]
  BY <1>0, <1>8
<1> QED BY <1>2, <1>3, <1>4, <1>7, <1>9

(***************************************************************************)
(* Offsets are written and read back, for every width.                     *)
(***************************************************************************)

\* The digits of a number.
LEMMA ShiftedFacts ==
    ASSUME NEW o \in Nat
    PROVE  /\ Shifted(o) \in Nat /\ o % ByteValues \in Bytes
           /\ o = Shifted(o) * ByteValues + (o % ByteValues)
           /\ \A m \in Nat : o < ByteValues * m => Shifted(o) < m
<1>1. ByteValues \in Nat /\ ByteValues > 0
  BY MountsAssumption
<1>2. Shifted(o) \in Nat /\ o % ByteValues \in 0 .. (ByteValues - 1) /\ o = Shifted(o) * ByteValues + (o % ByteValues)
  <2>1. PICK q \in Nat, r \in 0 .. (ByteValues - 1) : q = o \div ByteValues /\ r = o % ByteValues
    <3>1. o \div ByteValues \in Nat /\ o % ByteValues \in 0 .. (ByteValues - 1)
      BY <1>1
    <3> QED BY <3>1
  <2>2. o = ByteValues * q + r
    BY <1>1, <2>1
  <2> QED BY <1>1, <2>1, <2>2 DEF Shifted
<1>3. ASSUME NEW m \in Nat, o < ByteValues * m PROVE Shifted(o) < m
  <2> SUFFICES ASSUME Shifted(o) >= m PROVE FALSE
    BY <1>2
  <2>1. PICK d \in Nat : Shifted(o) = m + d
    <3>1. Shifted(o) - m \in Nat /\ Shifted(o) = m + (Shifted(o) - m)
      BY <1>2
    <3> QED BY <3>1
  <2>2. o = (m + d) * ByteValues + (o % ByteValues)
    BY <1>2, <2>1
  <2>3. (m + d) * ByteValues = ByteValues * m + d * ByteValues /\ d * ByteValues \in Nat /\ ByteValues * m \in Nat
    BY <1>1
  <2> QED BY <1>1, <1>2, <1>3, <2>2, <2>3
<1> QED BY <1>2, <1>3 DEF Bytes

\* They make up the number again, if they are enough.
Number(d, w) ==
    CASE w = 1 -> d[1]
      [] w = 2 -> d[1] * ByteValues + d[2]
      [] w = 4 -> ((d[1] * ByteValues + d[2]) * ByteValues + d[3]) * ByteValues + d[4]
Limit(w) ==
    CASE w = 1 -> ByteValues
      [] w = 2 -> ByteValues * ByteValues
      [] w = 4 -> ByteValues * ByteValues * ByteValues * ByteValues

\* A number that fits is put together from its digits again.
LEMMA DigitsFacts ==
    ASSUME NEW w \in {1, 2, 4}, NEW o \in Nat, o < Limit(w)
    PROVE  /\ DOMAIN OffsetBytes(o, w) = 1 .. w
           /\ \A k \in 1 .. w : OffsetBytes(o, w)[k] \in Bytes
           /\ Number(OffsetBytes(o, w), w) = o
<1> DEFINE B == ByteValues
           o1 == Shifted(o)
           o2 == Shifted(o1)
           o3 == Shifted(o2)
<1>1. B \in Nat /\ B > 0
  BY MountsAssumption
<1>2. /\ o1 \in Nat /\ o % B \in Bytes /\ o = o1 * B + (o % B)
      /\ \A m \in Nat : o < B * m => o1 < m
  BY ShiftedFacts
<1>3. /\ o2 \in Nat /\ o1 % B \in Bytes /\ o1 = o2 * B + (o1 % B)
      /\ \A m \in Nat : o1 < B * m => o2 < m
  <2> HIDE DEF o1
  <2> QED BY <1>2, ShiftedFacts
<1>4. /\ o3 \in Nat /\ o2 % B \in Bytes /\ o2 = o3 * B + (o2 % B)
      /\ \A m \in Nat : o2 < B * m => o3 < m
  <2> HIDE DEF o2
  <2> QED BY <1>3, ShiftedFacts
<1>5. \A x \in Nat : x < B => x % B = x
  BY <1>1
<1> HIDE DEF o1, o2, o3
<1>6. CASE w = 1
  <2>1. OffsetBytes(o, w) = << o % B >> /\ Limit(w) = B
    BY <1>6 DEF OffsetBytes, Limit
  <2>2. o % B = o
    BY <1>5, <2>1
  <2> QED BY <1>2, <1>6, <2>1, <2>2 DEF Number
<1>7. CASE w = 2
  <2>1. OffsetBytes(o, w) = << o1 % B, o % B >> /\ Limit(w) = B * B
    BY <1>7 DEF OffsetBytes, Limit, o1
  <2>2. o1 % B = o1
    BY <1>1, <1>2, <1>5, <2>1
  <2>3. Number(OffsetBytes(o, w), w) = o1 * B + (o % B)
    <3>1. PICK d : d = OffsetBytes(o, w) /\ d[1] = o1 /\ d[2] = o % B
      BY <2>1, <2>2
    <3>2. Number(d, w) = d[1] * B + d[2]
      BY <1>7 DEF Number
    <3> QED BY <3>1, <3>2
  <2> QED BY <1>2, <1>3, <1>7, <2>1, <2>3
<1>8. CASE w = 4
  <2>1. OffsetBytes(o, w) = << o3 % B, o2 % B, o1 % B, o % B >> /\ Limit(w) = B * B * B * B
    BY <1>8 DEF OffsetBytes, Limit, o1, o2, o3
  <2>2. B * B \in Nat /\ B * B * B \in Nat /\ B * B * B * B = B * (B * B * B) /\ B * B * B = B * (B * B)
    BY <1>1
  <2>3. o1 < B * B * B
    BY <1>2, <2>1, <2>2
  <2>4. o2 < B * B
    BY <1>3, <2>2, <2>3
  <2>5. o3 < B
    BY <1>1, <1>4, <2>4
  <2>6. o3 % B = o3 /\ o3 % B \in Bytes
    BY <1>1, <1>4, <1>5, <2>5 DEF Bytes
  <2>7. Number(OffsetBytes(o, w), w) = ((o3 * B + (o2 % B)) * B + (o1 % B)) * B + (o % B)
    <3>1. PICK d : d = OffsetBytes(o, w) /\ d[1] = o3 /\ d[2] = o2 % B /\ d[3] = o1 % B /\ d[4] = o % B
      BY <2>1, <2>6
    <3>2. Number(d, w) = ((d[1] * B + d[2]) * B + d[3]) * B + d[4]
      BY <1>8 DEF Number
    <3> QED BY <3>1, <3>2
  <2>8. Number(OffsetBytes(o, w), w) = o
    BY <1>2, <1>3, <1>4, <2>7
  <2> QED BY <1>2, <1>3, <1>4, <1>8, <2>1, <2>6, <2>8
<1> QED BY <1>6, <1>7, <1>8

\* An offset is read back from where its digits are stored.
LEMMA GetOffsetIs ==
    ASSUME NEW b, NEW at \in Nat, NEW d, NEW w \in {1, 2, 4}, w = OffsetSize(Len(b)),
           \A k \in 1 .. w : b[at + k] = d[k]
    PROVE  GetOffset(b, at) = Number(d, w)
<1>1. CASE w = 1
  BY <1>1 DEF GetOffset, Number
<1>2. CASE w = 2
  BY <1>2 DEF GetOffset, Number
<1>3. CASE w = 4
  BY <1>3 DEF GetOffset, Number
<1> QED BY <1>1, <1>2, <1>3

\* Every offset of a ring has as many digits as there is room for.
LEMMA OffsetFits ==
    ASSUME NEW b, IsRingFile(b), NEW o \in Offsets(b)
    PROVE  o \in Nat /\ o < Limit(OffsetSize(Len(b)))
<1>1. /\ Len(b) \in Nat /\ OffsetSize(Len(b)) \in {1, 2, 4} /\ BufferSize(Len(b)) \in Nat
      /\ Len(b) = 2 * OffsetSize(Len(b)) + BufferSize(Len(b))
  BY RingFileFacts
<1>2. o \in Nat /\ o < Len(b)
  BY <1>1 DEF Offsets
<1>3. ByteValues \in Nat /\ ByteValues * ByteValues \in Nat
  BY MountsAssumption
<1>4. Len(b) < ByteValues * ByteValues * ByteValues * ByteValues
  <2>1. ByteValues * ByteValues * ByteValues * ByteValues \in Nat
    BY <1>3
  <2> QED BY <2>1 DEF IsRingFile, IsFile, FileSizes
<1>5. CASE Len(b) < ByteValues
  BY <1>1, <1>2, <1>3, <1>5 DEF OffsetSize, Limit
<1>6. CASE Len(b) >= ByteValues /\ Len(b) < ByteValues * ByteValues
  BY <1>1, <1>2, <1>3, <1>6 DEF OffsetSize, Limit
<1>7. CASE Len(b) >= ByteValues /\ Len(b) >= ByteValues * ByteValues
  BY <1>1, <1>2, <1>3, <1>4, <1>7 DEF OffsetSize, Limit
<1> QED BY <1>1, <1>3, <1>5, <1>6, <1>7

\* An offset is written: nothing else changes.
LEMMA SetOffsetFacts ==
    ASSUME NEW b, IsRingFile(b), NEW at \in {0, OffsetSize(Len(b))}, NEW o \in Offsets(b)
    PROVE  LET w == OffsetSize(Len(b))
               c == SetOffset(b, at, o)
           IN  /\ IsRingFile(c) /\ Len(c) = Len(b)
               /\ GetOffset(c, at) = o
               /\ \A k \in DOMAIN b : k \notin (at + 1) .. (at + w) => c[k] = b[k]
<1> DEFINE c == SetOffset(b, at, o)
<1>1. PICK w \in {1, 2, 4}, n \in Nat :
         /\ w = OffsetSize(Len(b)) /\ n = Len(b) /\ b \in Seq(Bytes) /\ DOMAIN b = 1 .. n /\ 2 * w < n
         /\ at \in {0, w} /\ \A k \in 1 .. n : b[k] \in Bytes
  BY RingFileFacts
<1>2. o \in Nat /\ o < Limit(w)
  BY <1>1, OffsetFits
<1>3. PICK d : /\ d = OffsetBytes(o, w) /\ DOMAIN d = 1 .. w /\ (\A k \in 1 .. w : d[k] \in Bytes) /\ Number(d, w) = o
  BY <1>2, DigitsFacts
<1>4. c = [k \in 1 .. n |-> IF k - at \in DOMAIN d THEN d[k - at] ELSE b[k]]
  BY <1>1, <1>3 DEF SetOffset
<1>5. \A k \in 1 .. n : c[k] = IF k - at \in 1 .. w THEN d[k - at] ELSE b[k]
  BY <1>3, <1>4
<1>6. \A k \in 1 .. n : c[k] \in Bytes
  BY <1>1, <1>3, <1>5
<1>7. DOMAIN c = 1 .. n /\ c = [k \in 1 .. n |-> c[k]]
  BY <1>4
<1> HIDE DEF c
<1>8. c \in Seq(Bytes) /\ Len(c) = n
  BY <1>6, <1>7
<1>9. IsRingFile(c) /\ Len(c) = Len(b)
  BY <1>1, <1>8 DEF IsRingFile, IsFile
<1>10. \A k \in 1 .. w : at + k \in 1 .. n /\ c[at + k] = d[k]
  <2> TAKE k \in 1 .. w
  <2>1. at + k \in 1 .. n /\ (at + k) - at = k
    BY <1>1
  <2> QED BY <1>5, <2>1
<1>11. GetOffset(c, at) = o
  <2>1. at \in Nat /\ w = OffsetSize(Len(c))
    BY <1>1, <1>9
  <2> QED BY <1>3, <1>10, <2>1, GetOffsetIs
<1>12. \A k \in 1 .. n : k \notin (at + 1) .. (at + w) => c[k] = b[k]
  <2> SUFFICES ASSUME NEW k \in 1 .. n, k \notin (at + 1) .. (at + w) PROVE c[k] = b[k]
    OBVIOUS
  <2>1. k - at \notin 1 .. w
    BY <1>1
  <2> QED BY <1>5, <2>1
<1> QED BY <1>1, <1>9, <1>11, <1>12 DEF c

\* Two files that agree on the place of an offset have the same one there.
LEMMA GetOffsetSame ==
    ASSUME NEW b, IsRingFile(b), NEW c, Len(c) = Len(b), NEW at \in {0, OffsetSize(Len(b))},
           \A k \in (at + 1) .. (at + OffsetSize(Len(b))) : c[k] = b[k]
    PROVE  GetOffset(c, at) = GetOffset(b, at)
<1>1. PICK w \in {1, 2, 4} : w = OffsetSize(Len(b)) /\ w = OffsetSize(Len(c)) /\ at \in {0, w} /\ at \in Nat
  BY RingFileFacts
<1> DEFINE d == [k \in 1 .. w |-> b[at + k]]
<1>2. \A k \in 1 .. w : b[at + k] = d[k]
  OBVIOUS
<1>3. \A k \in 1 .. w : c[at + k] = b[at + k]
  <2> TAKE k \in 1 .. w
  <2>1. at + k \in (at + 1) .. (at + w)
    BY <1>1
  <2> QED BY <1>1, <2>1
<1>4. \A k \in 1 .. w : c[at + k] = d[k]
  BY <1>2, <1>3
<1> HIDE DEF d
<1>5. GetOffset(b, at) = Number(d, w)
  BY <1>1, <1>2, GetOffsetIs
<1>6. GetOffset(c, at) = Number(d, w)
  BY <1>1, <1>4, GetOffsetIs
<1> QED BY <1>5, <1>6

\* A ring: a file that is long enough, with offsets into its buffer.
IsRingOf(b, q) ==
    /\ IsRingFile(b) /\ GetHead(b) \in Offsets(b) /\ GetTail(b) \in Offsets(b)
    /\ Held(b, GetHead(b), GetTail(b)) = q

\* Writing one offset leaves the other and the buffer alone.
LEMMA SetHeadFacts ==
    ASSUME NEW b, IsRingFile(b), NEW o \in Offsets(b), NEW c, c = SetHead(b, o)
    PROVE  /\ IsRingFile(c) /\ Len(c) = Len(b) /\ GetHead(c) = o /\ GetTail(c) = GetTail(b)
           /\ \A p \in Offsets(b) : c[Place(b, p)] = b[Place(b, p)]
<1>1. PICK w \in {1, 2, 4} : /\ w = OffsetSize(Len(b)) /\ DOMAIN b = 1 .. Len(b) /\ Len(b) \in Nat /\ 2 * w < Len(b)
  BY RingFileFacts
<1>2. /\ IsRingFile(c) /\ Len(c) = Len(b) /\ GetOffset(c, 0) = o
      /\ \A k \in DOMAIN b : k \notin (0 + 1) .. (0 + w) => c[k] = b[k]
  BY <1>1, SetOffsetFacts DEF SetHead
<1>3. GetOffset(c, w) = GetOffset(b, w)
  <2>1. \A k \in (w + 1) .. (w + w) : k \in DOMAIN b /\ k \notin (0 + 1) .. (0 + w)
    BY <1>1
  <2>2. \A k \in (w + 1) .. (w + w) : c[k] = b[k]
    BY <1>2, <2>1
  <2> QED BY <1>1, <1>2, <2>2, GetOffsetSame
<1>4. \A p \in Offsets(b) : Place(b, p) \in DOMAIN b /\ Place(b, p) \notin (0 + 1) .. (0 + w)
  <2> TAKE p \in Offsets(b)
  <2>1. Place(b, p) \in DOMAIN b /\ Place(b, p) > 2 * w
    BY <1>1, RingFileFacts
  <2> QED BY <1>1, <2>1
<1> QED BY <1>1, <1>2, <1>3, <1>4 DEF GetHead, GetTail

LEMMA SetTailFacts ==
    ASSUME NEW b, IsRingFile(b), NEW o \in Offsets(b), NEW c, c = SetTail(b, o)
    PROVE  /\ IsRingFile(c) /\ Len(c) = Len(b) /\ GetTail(c) = o /\ GetHead(c) = GetHead(b)
           /\ \A p \in Offsets(b) : c[Place(b, p)] = b[Place(b, p)]
<1>1. PICK w \in {1, 2, 4} : /\ w = OffsetSize(Len(b)) /\ DOMAIN b = 1 .. Len(b) /\ Len(b) \in Nat /\ 2 * w < Len(b)
  BY RingFileFacts
<1>2. /\ IsRingFile(c) /\ Len(c) = Len(b) /\ GetOffset(c, w) = o
      /\ \A k \in DOMAIN b : k \notin (w + 1) .. (w + w) => c[k] = b[k]
  BY <1>1, SetOffsetFacts DEF SetTail
<1>3. GetOffset(c, 0) = GetOffset(b, 0)
  <2>1. \A k \in (0 + 1) .. (0 + w) : k \in DOMAIN b /\ k \notin (w + 1) .. (w + w)
    BY <1>1
  <2>2. \A k \in (0 + 1) .. (0 + w) : c[k] = b[k]
    BY <1>2, <2>1
  <2> QED BY <1>1, <1>2, <2>2, GetOffsetSame
<1>4. \A p \in Offsets(b) : Place(b, p) \in DOMAIN b /\ Place(b, p) \notin (w + 1) .. (w + w)
  <2> TAKE p \in Offsets(b)
  <2>1. Place(b, p) \in DOMAIN b /\ Place(b, p) > 2 * w
    BY <1>1, RingFileFacts
  <2> QED BY <1>1, <2>1
<1> QED BY <1>1, <1>2, <1>3, <1>4 DEF GetHead, GetTail

\* A ring that has just been mounted is empty.
LEMMA RingEmptied ==
    ASSUME NEW b, IsRingFile(b)
    PROVE  IsRingOf(SetTail(SetHead(b, 0), 0), << >>)
<1>1. 0 \in Offsets(b)
  BY RingFileFacts DEF Offsets
<1>2. PICK c : c = SetHead(b, 0) /\ IsRingFile(c) /\ Len(c) = Len(b) /\ GetHead(c) = 0 /\ 0 \in Offsets(c)
  BY <1>1, SetHeadFacts DEF Offsets
<1>3. PICK e : e = SetTail(c, 0) /\ IsRingFile(e) /\ GetTail(e) = 0 /\ GetHead(e) = 0 /\ 0 \in Offsets(e)
  BY <1>2, SetTailFacts DEF Offsets
<1>4. Held(e, 0, 0) = << >>
  <2>1. Held(e, 0, 0) \in Seq(Bytes) /\ Len(Held(e, 0, 0)) = 0
    BY <1>3, HeldIs DEF Count
  <2> QED BY <2>1
<1> QED BY <1>2, <1>3, <1>4 DEF IsRingOf

\* A reader takes the first byte.
LEMMA RingPopped ==
    ASSUME NEW b, NEW q, IsRingOf(b, q), GetHead(b) # GetTail(b)
    PROVE  /\ q # << >>
           /\ IsRingOf(SetHead(b, IncOffset(Len(b), GetHead(b))), Tail(q))
<1>1. IsRingFile(b) /\ GetHead(b) \in Offsets(b) /\ GetTail(b) \in Offsets(b) /\ Held(b, GetHead(b), GetTail(b)) = q
  BY DEF IsRingOf
<1>2. PICK g \in Offsets(b) : g = IncOffset(Len(b), GetHead(b)) /\ q # << >> /\ Held(b, g, GetTail(b)) = Tail(q)
  BY <1>1, HeldPop
<1>3. PICK c : /\ c = SetHead(b, g) /\ IsRingFile(c) /\ Len(c) = Len(b) /\ GetHead(c) = g /\ GetTail(c) = GetTail(b)
               /\ \A p \in Offsets(b) : c[Place(b, p)] = b[Place(b, p)]
  BY <1>1, SetHeadFacts
<1>4. Held(c, g, GetTail(b)) = Held(b, g, GetTail(b))
  BY <1>1, <1>3, HeldSame
<1>5. Offsets(c) = Offsets(b)
  BY <1>3 DEF Offsets
<1> QED BY <1>1, <1>2, <1>3, <1>4, <1>5 DEF IsRingOf

\* An index is in the first part of a sequence, in the second, or the one after both.
LEMMA ThreeParts ==
    ASSUME NEW a \in Int, NEW n \in Int, NEW j \in Int, j <= n + 1
    PROVE  j <= a \/ (j > a /\ j <= n) \/ j = n + 1
OBVIOUS

\* One more byte of a sequence behind another one.
LEMMA OneMore ==
    ASSUME NEW q \in Seq(Bytes), NEW s \in Seq(Bytes), NEW k \in Nat, k < Len(s)
    PROVE  Append(q \o SubSeq(s, 1, k), s[k + 1]) = q \o SubSeq(s, 1, k + 1)
<1>1. Len(s) \in Nat /\ k + 1 \in 1 .. Len(s)
  OBVIOUS
<1>2. PICK x \in Seq(Bytes) : x = SubSeq(s, 1, k) /\ Len(x) = k /\ \A j \in 1 .. k : x[j] = s[j]
  <2>1. SubSeq(s, 1, k) \in Seq(Bytes) /\ Len(SubSeq(s, 1, k)) = k /\ \A j \in 1 .. k : SubSeq(s, 1, k)[j] = s[j]
    BY <1>1
  <2> QED BY <2>1
<1>3. PICK y \in Seq(Bytes) : y = SubSeq(s, 1, k + 1) /\ Len(y) = k + 1 /\ \A j \in 1 .. (k + 1) : y[j] = s[j]
  <2>1. /\ SubSeq(s, 1, k + 1) \in Seq(Bytes) /\ Len(SubSeq(s, 1, k + 1)) = k + 1
        /\ \A j \in 1 .. (k + 1) : SubSeq(s, 1, k + 1)[j] = s[j]
    BY <1>1
  <2> QED BY <2>1
<1>4. y = Append(x, s[k + 1])
  BY <1>1, <1>2, <1>3
<1>5. s[k + 1] \in Bytes
  BY <1>1, ElementOfSeq
<1>6. Append(q \o x, s[k + 1]) = q \o Append(x, s[k + 1])
  <2>1. PICK v \in Bytes : v = s[k + 1]
    BY <1>5
  <2>2. Append(q \o x, v) = q \o Append(x, v)
    <3>1. PICK z \in Seq(Bytes) : /\ z = q \o x /\ Len(z) = Len(q) + Len(x)
                                 /\ \A j \in 1 .. Len(q) + Len(x) : z[j] = IF j <= Len(q) THEN q[j] ELSE x[j - Len(q)]
      <4>1. /\ q \o x \in Seq(Bytes) /\ Len(q \o x) = Len(q) + Len(x)
            /\ \A j \in 1 .. Len(q) + Len(x) : (q \o x)[j] = IF j <= Len(q) THEN q[j] ELSE x[j - Len(q)]
        BY ConcatProperties
      <4> QED BY <4>1
    <3>2. PICK y1 \in Seq(Bytes) : /\ y1 = Append(x, v) /\ Len(y1) = Len(x) + 1
                                  /\ (\A j \in 1 .. Len(x) : y1[j] = x[j]) /\ y1[Len(x) + 1] = v
      BY AppendProperties
    <3>3. PICK l \in Seq(Bytes) : /\ l = Append(z, v) /\ Len(l) = Len(z) + 1
                                 /\ (\A j \in 1 .. Len(z) : l[j] = z[j]) /\ l[Len(z) + 1] = v
      BY AppendProperties
    <3>4. PICK r \in Seq(Bytes) : /\ r = q \o y1 /\ Len(r) = Len(q) + Len(y1)
                                 /\ \A j \in 1 .. Len(q) + Len(y1) : r[j] = IF j <= Len(q) THEN q[j] ELSE y1[j - Len(q)]
      <4>1. /\ q \o y1 \in Seq(Bytes) /\ Len(q \o y1) = Len(q) + Len(y1)
            /\ \A j \in 1 .. Len(q) + Len(y1) : (q \o y1)[j] = IF j <= Len(q) THEN q[j] ELSE y1[j - Len(q)]
        BY ConcatProperties
      <4> QED BY <4>1
    <3>5. Len(q) \in Nat /\ Len(x) \in Nat
      OBVIOUS
    <3>6. Len(l) = Len(r) /\ Len(l) = Len(q) + Len(x) + 1
      BY <3>1, <3>2, <3>3, <3>4, <3>5
    <3>6a. Len(l) \in Nat /\ DOMAIN l = 1 .. Len(l) /\ DOMAIN r = 1 .. Len(r) /\ l = [j \in DOMAIN l |-> l[j]] /\ r = [j \in DOMAIN r |-> r[j]]
      OBVIOUS
    <3>7. ASSUME NEW j \in 1 .. Len(l) PROVE l[j] = r[j]
      <4>1. CASE j <= Len(q)
        BY <3>1, <3>3, <3>4, <3>5, <3>6, <4>1
      <4>2. CASE j > Len(q) /\ j <= Len(q) + Len(x)
        <5>1. j - Len(q) \in 1 .. Len(x) /\ j \in 1 .. Len(z)
          BY <3>1, <3>5, <4>2
        <5> QED BY <3>1, <3>2, <3>3, <3>4, <3>5, <3>6, <4>2, <5>1
      <4>3. CASE j = Len(q) + Len(x) + 1
        <5>1. j - Len(q) = Len(x) + 1 /\ j = Len(z) + 1
          BY <3>1, <3>5, <4>3
        <5> QED BY <3>1, <3>2, <3>3, <3>4, <3>5, <3>6, <4>3, <5>1
      <4>4. PICK a \in Nat, b \in Nat : a = Len(q) /\ b = Len(x) /\ j \in 1 .. (a + b + 1)
        BY <3>5, <3>6
      <4>5. j <= a \/ (j > a /\ j <= a + b) \/ j = a + b + 1
        <5>1. j \in Int /\ a \in Int /\ a + b \in Int /\ j <= a + b + 1
          BY <4>4
        <5> QED BY <4>4, <5>1, ThreeParts
      <4> QED BY <4>1, <4>2, <4>3, <4>4, <4>5
    <3>8. l = r
      BY <3>6, <3>6a, <3>7
    <3> QED BY <3>1, <3>2, <3>3, <3>4, <3>8
  <2> QED BY <2>1, <2>2
<1> QED BY <1>2, <1>3, <1>4, <1>6

\* After k bytes of s some have been taken, all of them unless the ring was full.
Pushed(a, b, q, s, k) ==
    /\ a = [full |-> a.full, tail |-> a.tail, written |-> a.written, bytes |-> a.bytes]
    /\ a.written \in 0 .. k /\ (a.full \/ a.written = k)
    /\ IsRingFile(a.bytes) /\ Len(a.bytes) = Len(b) /\ GetHead(a.bytes) = GetHead(b)
    /\ a.tail \in Offsets(b)
    /\ Held(a.bytes, GetHead(b), a.tail) = q \o SubSeq(s, 1, a.written)

\* One round of the writing loop: the byte is appended, or there is no room.
LEMMA PushByteFacts ==
    ASSUME NEW b, NEW q \in Seq(Bytes), IsRingOf(b, q), NEW s \in Seq(Bytes), NEW k \in Nat, k < Len(s),
           NEW a, Pushed(a, b, q, s, k)
    PROVE  Pushed(PushByte(a, s[k + 1]), b, q, s, k + 1)
<1> DEFINE next == IncOffset(Len(a.bytes), a.tail)
           v == s[k + 1]
           p == PushByte(a, v)
<1>1. /\ a = [full |-> a.full, tail |-> a.tail, written |-> a.written, bytes |-> a.bytes]
      /\ a.written \in 0 .. k /\ (a.full \/ a.written = k)
      /\ IsRingFile(a.bytes) /\ Len(a.bytes) = Len(b) /\ GetHead(a.bytes) = GetHead(b)
      /\ a.tail \in Offsets(b)
      /\ Held(a.bytes, GetHead(b), a.tail) = q \o SubSeq(s, 1, a.written)
  BY DEF Pushed
<1>2. CASE a.full \/ next = GetHead(a.bytes)
  <2>1. p = [a EXCEPT !.full = TRUE]
    BY <1>2 DEF PushByte
  <2>2. p = [full |-> TRUE, tail |-> a.tail, written |-> a.written, bytes |-> a.bytes]
    BY <1>1, <2>1
  <2>3. p.full = TRUE /\ p.tail = a.tail /\ p.written = a.written /\ p.bytes = a.bytes
    BY <2>2
  <2>4. a.written \in 0 .. (k + 1)
    BY <1>1
  <2> HIDE DEF p
  <2> QED BY <1>1, <2>2, <2>3, <2>4 DEF Pushed, p
<1>3. CASE ~(a.full \/ next = GetHead(a.bytes))
  <2> DEFINE c == [a.bytes EXCEPT ![Place(a.bytes, a.tail)] = v]
  <2>1. p = [full |-> FALSE, tail |-> next, written |-> a.written + 1, bytes |-> c]
    BY <1>3 DEF PushByte
  <2>2. p.full = FALSE /\ p.tail = next /\ p.written = k + 1 /\ p.bytes = c
    BY <1>1, <1>3, <2>1
  <2>3. PICK d : d = a.bytes /\ IsRingFile(d) /\ Len(d) = Len(b) /\ Offsets(d) = Offsets(b) /\ GetHead(d) = GetHead(b)
    BY <1>1 DEF Offsets
  <2>4. PICK h \in Offsets(d) : h = GetHead(b)
    BY <2>3 DEF IsRingOf
  <2>5. PICK u \in Bytes : u = v
    BY ElementOfSeq
  <2>6. PICK t \in Offsets(d) : t = a.tail /\ next = IncOffset(Len(d), t) /\ next # h
    BY <1>1, <1>3, <2>3, <2>4
  <2>7. PICK e : e = c /\ e = Stored(d, t, u)
    BY <2>3, <2>5, <2>6 DEF Stored
  <2> HIDE DEF c, v, next, p
  <2>8. /\ IsRingFile(e) /\ Len(e) = Len(d)
        /\ \A o \in Offsets(d) : e[Place(d, o)] = IF o = t THEN u ELSE d[Place(d, o)]
        /\ \A j \in 1 .. 2 * OffsetSize(Len(d)) : e[j] = d[j]
    <3>1. IsRingFile(d)
      BY <2>3
    <3>2. e = Stored(d, t, u)
      BY <2>7
    <3>3. u \in Bytes /\ t \in Offsets(d)
      OBVIOUS
    <3> QED BY <3>1, <3>2, <3>3, ByteStored
  <2>9. next \in Offsets(d) /\ Held(e, h, next) = Append(Held(d, h, t), u)
    <3>1. IsRingFile(d) /\ IncOffset(Len(d), t) # h
      BY <2>3, <2>6
    <3>2. IncOffset(Len(d), t) \in Offsets(d) /\ Held(e, h, IncOffset(Len(d), t)) = Append(Held(d, h, t), u)
      BY <2>8, <3>1, HeldGrows
    <3> QED BY <2>6, <3>2
  <2>10. GetHead(e) = GetHead(d)
    <3>1. OffsetSize(Len(d)) \in {1, 2, 4}
      BY <2>3, RingFileFacts
    <3>2. \A j \in (0 + 1) .. (0 + OffsetSize(Len(d))) : j \in 1 .. 2 * OffsetSize(Len(d))
      BY <3>1
    <3>3. \A j \in (0 + 1) .. (0 + OffsetSize(Len(d))) : e[j] = d[j]
      BY <2>8, <3>2
    <3> QED BY <2>3, <2>8, <3>3, GetOffsetSame DEF GetHead
  <2>11. Held(e, h, next) = q \o SubSeq(s, 1, k + 1)
    <3>1. a.written = k
      BY <1>1, <1>3
    <3>2. Held(d, h, t) = q \o SubSeq(s, 1, k)
      BY <1>1, <2>3, <2>4, <2>6, <3>1
    <3> QED BY <2>5, <2>9, <3>2, OneMore DEF v
  <2>12. p = [full |-> p.full, tail |-> p.tail, written |-> p.written, bytes |-> p.bytes]
    BY <2>1, <2>2
  <2>13. p.written \in 0 .. (k + 1)
    BY <2>2
  <2>14. IsRingFile(p.bytes) /\ Len(p.bytes) = Len(b) /\ GetHead(p.bytes) = GetHead(b) /\ p.tail \in Offsets(b)
    BY <2>2, <2>3, <2>7, <2>8, <2>9, <2>10
  <2>15. Held(p.bytes, GetHead(b), p.tail) = q \o SubSeq(s, 1, p.written)
    BY <2>2, <2>4, <2>7, <2>11
  <2> QED BY <2>2, <2>12, <2>13, <2>14, <2>15 DEF Pushed, p, v
<1> QED BY <1>2, <1>3

\* A writer's bytes are the last, as many as he is told were written.
LEMMA RingPushed ==
    ASSUME NEW b, NEW q, IsRingOf(b, q), NEW s \in Seq(Bytes)
    PROVE  LET a == PushAll(b, s)
           IN  IsRingOf(SetTail(a.bytes, a.tail), q \o SubSeq(s, 1, a.written))
<1> DEFINE n == Len(s)
           start == [full |-> FALSE, tail |-> GetTail(b), written |-> 0, bytes |-> b]
           f == CHOOSE g : g = [k \in 0 .. n |-> IF k = 0 THEN start ELSE PushByte(g[k - 1], s[k])]
<1>1. n \in Nat
  OBVIOUS
<1>2. PushAll(b, s) = f[n]
  BY DEF PushAll
<1>3. f = [k \in 0 .. n |-> IF k = 0 THEN start ELSE PushByte(f[k - 1], s[k])]
  <2> HIDE DEF start
  <2>1. PICK h : IsPush(h, start, s, n)
    BY <1>1, PushExists
  <2>2. h = [k \in 0 .. n |-> IF k = 0 THEN start ELSE PushByte(h[k - 1], s[k])]
    BY <2>1 DEF IsPush
  <2> QED BY <2>2
<1> HIDE DEF f
<1>4. /\ IsRingFile(b) /\ GetHead(b) \in Offsets(b) /\ GetTail(b) \in Offsets(b)
      /\ Held(b, GetHead(b), GetTail(b)) = q /\ q \in Seq(Bytes)
  BY HeldIs DEF IsRingOf
<1> DEFINE S == {k \in Nat : k <= n => Pushed(f[k], b, q, s, k)}
<1>5. 0 \in S
  <2>1. f[0] = start
    BY <1>1, <1>3
  <2>2. q \o SubSeq(s, 1, 0) = q
    BY <1>4
  <2>3. Pushed(start, b, q, s, 0)
    BY <1>4, <2>2 DEF Pushed
  <2> QED BY <2>1, <2>3
<1>6. ASSUME NEW k \in Nat, k \in S PROVE k + 1 \in S
  <2> SUFFICES ASSUME k + 1 <= n PROVE Pushed(f[k + 1], b, q, s, k + 1)
    OBVIOUS
  <2>1. k + 1 \in 0 .. n /\ k + 1 # 0 /\ (k + 1) - 1 = k /\ k < n
    BY <1>1
  <2> HIDE DEF start
  <2>2. \A j \in 0 .. n : j # 0 => f[j] = PushByte(f[j - 1], s[j])
    BY <1>3
  <2>3. f[k + 1] = PushByte(f[k], s[k + 1])
    BY <2>1, <2>2
  <2>4. Pushed(f[k], b, q, s, k)
    BY <1>1, <1>6
  <2> QED BY <1>4, <2>1, <2>3, <2>4, PushByteFacts
<1> HIDE DEF S
<1>7. n \in S
  BY <1>1, <1>5, <1>6, Induction
<1>8. PICK a : a = PushAll(b, s) /\ Pushed(a, b, q, s, n)
  BY <1>1, <1>2, <1>7 DEF S
<1>9. /\ IsRingFile(a.bytes) /\ Len(a.bytes) = Len(b) /\ GetHead(a.bytes) = GetHead(b) /\ a.tail \in Offsets(b)
      /\ Held(a.bytes, GetHead(b), a.tail) = q \o SubSeq(s, 1, a.written)
  BY <1>8 DEF Pushed
<1>10. PICK d : d = a.bytes /\ IsRingFile(d) /\ Offsets(d) = Offsets(b) /\ GetHead(d) = GetHead(b) /\ a.tail \in Offsets(d)
  BY <1>9 DEF Offsets
<1>11. PICK c : /\ c = SetTail(d, a.tail) /\ IsRingFile(c) /\ Len(c) = Len(d) /\ GetTail(c) = a.tail /\ GetHead(c) = GetHead(d)
                /\ \A p \in Offsets(d) : c[Place(d, p)] = d[Place(d, p)]
  BY <1>10, SetTailFacts
<1>12. Offsets(c) = Offsets(d)
  BY <1>11 DEF Offsets
<1>13. Held(c, GetHead(b), a.tail) = Held(d, GetHead(b), a.tail)
  <2>1. GetHead(b) \in Offsets(d)
    BY <1>4, <1>10
  <2> QED BY <1>10, <1>11, <2>1, HeldSame
<1>14. IsRingOf(c, q \o SubSeq(s, 1, a.written))
  BY <1>4, <1>9, <1>10, <1>11, <1>12, <1>13 DEF IsRingOf
<1> QED BY <1>8, <1>10, <1>11, <1>14

(***************************************************************************)
(* The rings that are followed.  A history says something about a file only*)
(* while the tables lead from the ring's device to it: a device, its mount,*)
(* the descriptor the mount holds, the volume that serves it, the store of *)
(* the volume.  The invariant says that for every ring that is followed    *)
(* this way is there (RingTables), that nobody else has the descriptor's   *)
(* file open, so that all others write elsewhere (Alone), and that the file*)
(* at its end holds the history (RingData).                                *)
(***************************************************************************)

\* No two volumes name the same mount, if the second is mounted too or may be remounted.
VolumesTellApart ==
    \A i, j \in DevIdx :
        (/\ IsVolume(devs[i]) /\ devs[i].mount
         /\ IsVolume(devs[j]) /\ (devs[j].mount \/ devs[j].path \in {r.dir : r \in Requests})
         /\ devs[i].userData = devs[j].userData)
            => i = j

\* No two devices have one path, files are of bytes and not too long, and a mounted
\* character device is a ring.
RingFiles == {r.device : r \in {q \in Requests : q.format = "CircBuf"}}
PathsApart(ds) == \A i, j \in DevIdx : Used(ds[i]) /\ Used(ds[j]) /\ ds[i].path = ds[j].path => i = j
FilesFine(s) == \A p \in StorePaths : \A n \in DOMAIN s[p].files : IsFile(s[p].files[n])
RingDevsFit(ds) == \A i \in DevIdx : Used(ds[i]) /\ ds[i].mount /\ ds[i].type = "char" => ds[i].path \in RingDirs
\* A volume whose mount, if it has one, is there.
Shown(v) == IsVolume(devs[v]) /\ (devs[v].mount => Mounted(v))

\* Device i at dir is a ring behind descriptor f, in a file of the volume at device v.
RingDevice(dir, i, f) ==
    /\ Used(devs[i]) /\ devs[i].path = dir /\ devs[i].mount /\ devs[i].type = "char" /\ devs[i].userData = f
    /\ \E k \in DOMAIN mounts : mounts[k].fd = f /\ mounts[k].format = "CircBuf"
\* Volume v, which can be written, serves descriptor f, whose file no other descriptor has.
RingVolume(v, f) ==
    /\ cached[f] = v /\ Shown(v) /\ devs[v].writable
    /\ fdt[f].path \in RingFiles /\ devs[v].path = Dirname(fdt[f].path)
Alone(f) == \A g \in ValidFds : fdt[g].path = fdt[f].path => g = f
RingTables(dir, i, v, f) == RingDevice(dir, i, f) /\ RingVolume(v, f) /\ Alone(f)

\* The file holds what the history of the ring says.
RingData(dir, v, f) ==
    /\ Basename(fdt[f].path) \in DOMAIN VolumeOn(v)
    /\ IsRingOf(VolumeOn(v)[Basename(fdt[f].path)], sent[dir])

\* The inductive invariant: every ring that is followed is found, and no two in one file.
RingsFit ==
    \A dir \in RingDirs : sent[dir] # Lost =>
        \E i, v \in DevIdx, f \in ValidFds : RingTables(dir, i, v, f) /\ RingData(dir, v, f)
RingsApart ==
    \A c, d \in RingDirs, i, j, v, w \in DevIdx, f \in ValidFds :
        sent[c] # Lost /\ sent[d] # Lost /\ RingTables(c, i, v, f) /\ RingTables(d, j, w, f) => c = d
RInv ==
    /\ DOMAIN sent = RingDirs
    /\ PathsApart(devs) /\ RingDevsFit(devs) /\ FilesFine(stores)
    /\ RingsFit /\ RingsApart

\* A path is its directory, a slash and its name.
LEMMA PathSplit ==
    ASSUME NEW p \in Paths, NEW q \in Paths, Dirname(p) = Dirname(q), Basename(p) = Basename(q)
    PROVE  p = q
<1>1. ASSUME NEW x \in Paths
      PROVE  /\ x \in Seq(STRING) /\ Len(x) \in Nat /\ LastSlash(x) \in 1 .. Len(x) /\ x[LastSlash(x)] = "/"
             /\ Len(Dirname(x)) = LastSlash(x) - 1 /\ Len(Basename(x)) = Len(x) - LastSlash(x)
             /\ \A j \in 1 .. (LastSlash(x) - 1) : Dirname(x)[j] = x[j]
             /\ \A j \in 1 .. (Len(x) - LastSlash(x)) : Basename(x)[j] = x[LastSlash(x) + j]
  <2>1. x \in Seq(STRING) /\ x # << >> /\ x[1] = "/"
    BY MountsAssumption
  <2> DEFINE slashes == {i \in DOMAIN x : x[i] = "/"}
  <2>2. slashes \subseteq 0 .. Len(x) /\ 1 \in slashes /\ Len(x) \in Nat /\ DOMAIN x = 1 .. Len(x)
    BY <2>1
  <2>3. PICK last \in slashes : \A j \in slashes : j <= last
    <3> HIDE DEF slashes
    <3> QED BY <2>2, GreatestElement
  <2>4. LastSlash(x) \in slashes
    BY <2>3 DEF LastSlash
  <2>5. PICK n \in 1 .. Len(x) : n = LastSlash(x) /\ x[n] = "/"
    BY <2>2, <2>4
  <2>6. Dirname(x) = SubSeq(x, 1, n - 1) /\ Basename(x) = SubSeq(x, n + 1, Len(x))
    BY <2>5 DEF Dirname, Basename
  <2>7. Len(SubSeq(x, 1, n - 1)) = n - 1 /\ \A j \in 1 .. (n - 1) : SubSeq(x, 1, n - 1)[j] = x[j]
    BY <2>1, <2>2
  <2>8. /\ Len(SubSeq(x, n + 1, Len(x))) = Len(x) - n
        /\ \A j \in 1 .. (Len(x) - n) : SubSeq(x, n + 1, Len(x))[j] = x[n + j]
    <3>1. PICK l \in Nat : l = Len(x) /\ n <= l
      <4>1. Len(x) \in Nat
        BY <2>2
      <4>2. n <= Len(x)
        BY <2>5, <4>1
      <4> QED BY <4>1, <4>2
    <3>2. \A j \in (n + 1) .. l : j \in 1 .. l
      OBVIOUS
    <3>3. /\ Len(SubSeq(x, n + 1, l)) = IF n + 1 <= l THEN l - (n + 1) + 1 ELSE 0
          /\ \A j \in 1 .. (l - (n + 1) + 1) : SubSeq(x, n + 1, l)[j] = x[(n + 1) + j - 1]
      BY <2>1, <3>1, <3>2, SubSeqProperties
    <3>4. l - n = l - (n + 1) + 1
      BY <3>1
    <3>5. (IF n + 1 <= l THEN l - (n + 1) + 1 ELSE 0) = l - n
      BY <3>1
    <3>6. \A j \in 1 .. (l - n) : x[(n + 1) + j - 1] = x[n + j]
      BY <3>1
    <3> QED BY <3>1, <3>3, <3>4, <3>5, <3>6
  <2> QED BY <2>1, <2>2, <2>5, <2>6, <2>7, <2>8
<1>2. PICK n \in Nat \ {0}, m \in Nat :
         /\ p \in Seq(STRING) /\ q \in Seq(STRING) /\ Len(p) = n + m /\ Len(q) = n + m
         /\ n = LastSlash(p) /\ n = LastSlash(q) /\ m = Len(p) - n
  <2>1. LastSlash(p) = LastSlash(q) /\ Len(p) = Len(q)
    <3>1. /\ Len(p) \in Nat /\ Len(q) \in Nat /\ LastSlash(p) \in 1 .. Len(p) /\ LastSlash(q) \in 1 .. Len(q)
          /\ LastSlash(p) - 1 = LastSlash(q) - 1 /\ Len(p) - LastSlash(p) = Len(q) - LastSlash(q)
      BY <1>1
    <3> QED BY <3>1
  <2>2. PICK n \in Nat \ {0}, m \in Nat : n = LastSlash(p) /\ m = Len(p) - n /\ Len(p) = n + m
    <3>1. LastSlash(p) \in Nat \ {0} /\ Len(p) - LastSlash(p) \in Nat /\ Len(p) = LastSlash(p) + (Len(p) - LastSlash(p))
      BY <1>1
    <3> QED BY <3>1
  <2>3. p \in Seq(STRING) /\ q \in Seq(STRING)
    BY <1>1
  <2> QED BY <2>1, <2>2, <2>3
<1>3. ASSUME NEW j \in 1 .. (n + m) PROVE p[j] = q[j]
  <2>1. CASE j \in 1 .. (n - 1)
    <3>1. Dirname(p)[j] = p[j] /\ Dirname(q)[j] = q[j]
      BY <1>1, <1>2, <2>1
    <3> QED BY <3>1
  <2>2. CASE j = n
    BY <1>1, <1>2, <2>2
  <2>3. CASE j - n \in 1 .. m
    <3>1. PICK l \in 1 .. m : l = j - n /\ j = n + l
      BY <2>3
    <3>2. Basename(p)[l] = p[n + l] /\ Basename(q)[l] = q[n + l]
      BY <1>1, <1>2, <3>1
    <3> QED BY <3>1, <3>2
  <2> QED BY <2>1, <2>2, <2>3
<1>4. p = [j \in 1 .. (n + m) |-> p[j]] /\ q = [j \in 1 .. (n + m) |-> q[j]]
  BY <1>2
<1> QED BY <1>3, <1>4

\* What a volume that is shown shows; how it is mounted, if it is.
LEMMA ShownFacts ==
    ASSUME TInv, NEW v \in DevIdx, Shown(v)
    PROVE  /\ Used(devs[v]) /\ devs[v].type = "MiniFs" /\ devs[v].mount \in BOOLEAN
           /\ StoreOf(v) \in StorePaths /\ VolumeOn(v) = stores[StoreOf(v)].files
           /\ ~devs[v].mount => StoreOf(v) = devs[v].path
           /\ devs[v].mount =>
                 \E k \in DOMAIN mounts :
                    /\ mounts[k].fd = devs[v].userData /\ mounts[k].fd \in ValidFds /\ InUse(fdt, mounts[k].fd)
                    /\ mounts[k].format = "MiniFs"
                    /\ StoreOf(v) = fdt[mounts[k].fd].path /\ StoreOf(v) \in FlatPaths
<1>1. IsVolume(devs[v]) /\ (devs[v].mount => Mounted(v)) /\ Used(devs[v]) /\ devs[v].type = "MiniFs"
  BY DEF Shown, IsVolume, Used
<1>2. StoreOf(v) \in StorePaths /\ VolumeOn(v) = stores[StoreOf(v)].files
  BY <1>1, VolumeFacts
<1>3. devs[v].mount \in BOOLEAN
  BY <1>1, EntryFacts DEF Devices
<1>4. ASSUME devs[v].mount
      PROVE  \E k \in DOMAIN mounts :
                    /\ mounts[k].fd = devs[v].userData /\ mounts[k].fd \in ValidFds /\ InUse(fdt, mounts[k].fd)
                    /\ mounts[k].format = "MiniFs"
                    /\ StoreOf(v) = fdt[mounts[k].fd].path /\ StoreOf(v) \in FlatPaths
  <2>1. PICK k \in DOMAIN mounts : mounts[k].fd = devs[v].userData /\ TypeOfFormat(mounts[k].format) = "MiniFs"
    BY <1>1, <1>4 DEF Mounted
  <2>2. mounts[k].format = "MiniFs"
    <3>1. mounts[k].format \in Formats
      BY EntryFacts DEF MountEntries
    <3> QED BY <2>1, <3>1 DEF TypeOfFormat, Formats
  <2>3. mounts[k].fd \in ValidFds /\ InUse(fdt, mounts[k].fd) /\ fdt[mounts[k].fd].path \in FlatPaths
    BY <2>2, EntryFacts DEF TInv, MountsFit
  <2>4. StoreOf(v) = fdt[mounts[k].fd].path
    BY <1>4, <2>1 DEF StoreOf
  <2> QED BY <2>1, <2>2, <2>3, <2>4
<1>5. ~devs[v].mount => StoreOf(v) = devs[v].path
  BY DEF StoreOf
<1> QED BY <1>1, <1>2, <1>3, <1>4, <1>5

\* A volume is shown by one device only.
LEMMA StoresApart ==
    ASSUME TInv, VInv, PathsApart(devs), VolumesTellApart,
           NEW v \in DevIdx, NEW w \in DevIdx, Shown(v), Shown(w), StoreOf(v) = StoreOf(w)
    PROVE  v = w
<1>1. ASSUME NEW x \in DevIdx, NEW y \in DevIdx, Shown(x), Shown(y), StoreOf(x) = StoreOf(y),
             devs[x].mount, ~devs[y].mount
      PROVE  FALSE
  <2>1. devs[y].path \in FlatPaths /\ Used(devs[y]) /\ devs[y].type = "MiniFs"
    BY <1>1, ShownFacts
  <2> QED BY <2>1 DEF VInv, FlatsFit
<1>2. CASE devs[v].mount /\ devs[w].mount
  <2>1. PICK k \in DOMAIN mounts :
           /\ mounts[k].fd = devs[v].userData /\ mounts[k].fd \in ValidFds /\ InUse(fdt, mounts[k].fd)
           /\ StoreOf(v) = fdt[mounts[k].fd].path /\ StoreOf(v) \in FlatPaths
    BY <1>2, ShownFacts
  <2>2. PICK l \in DOMAIN mounts :
           /\ mounts[l].fd = devs[w].userData /\ mounts[l].fd \in ValidFds /\ InUse(fdt, mounts[l].fd)
           /\ StoreOf(w) = fdt[mounts[l].fd].path
    BY <1>2, ShownFacts
  <2>3. mounts[k].fd = mounts[l].fd
    BY <2>1, <2>2 DEF VInv, OpensFit
  <2> QED BY <1>2, <2>1, <2>2, <2>3 DEF VolumesTellApart, Shown
<1>3. CASE ~devs[v].mount /\ ~devs[w].mount
  <2>1. devs[v].path = devs[w].path /\ Used(devs[v]) /\ Used(devs[w])
    BY <1>3, ShownFacts
  <2> QED BY <2>1 DEF PathsApart
<1>4. devs[v].mount \in BOOLEAN /\ devs[w].mount \in BOOLEAN
  BY ShownFacts
<1> QED BY <1>1, <1>2, <1>3, <1>4

\* The device that has a path is the one that is found for it.
LEMMA FoundAt ==
    ASSUME PathsApart(devs), NEW i \in DevIdx, Used(devs[i])
    PROVE  DeviceFromPath(devs, devs[i].path) = i
<1> DEFINE p == devs[i].path
           j == DeviceFromPath(devs, p)
<1>1. j # DevMax
  BY DeviceFacts
<1>2. j \in DevIdx /\ Used(devs[j]) /\ devs[j].path = p
  BY <1>1, DeviceFacts
<1> QED BY <1>2 DEF PathsApart

\* The file of a ring is no device.
LEMMA RingFileIsNoDevice ==
    ASSUME SInv, NEW p \in RingFiles
    PROVE  p \in Paths /\ Dirname(p) # p /\ (\A i \in DevIdx : Used(devs[i]) => devs[i].path # p) /\ DeviceFromPath(devs, p) = DevMax
<1>1. PICK r \in Requests : r.format = "CircBuf" /\ p = r.device
  BY DEF RingFiles
<1>2. p \in Paths
  BY <1>1, RequestFacts
<1>3. Dirname(p) # p
  BY <1>2, DirnameFacts
<1>4. p \notin Names
  BY <1>1, MountsAssumption DEF Names
<1>5. \A i \in DevIdx : Used(devs[i]) => devs[i].path # p
  BY <1>4 DEF SInv
<1> QED BY <1>2, <1>3, <1>5, DeviceFacts

\* What is known of a ring that is followed.
LEMMA RingTablesFacts ==
    ASSUME TInv, SInv, NEW dir, NEW i \in DevIdx, NEW v \in DevIdx, NEW f \in ValidFds, RingTables(dir, i, v, f)
    PROVE  /\ f \in Fds /\ InUse(fdt, f) /\ HeldByMount(f) /\ i # v
           /\ fdt[f].path \in Paths /\ fdt[f].path \in RingFiles
           /\ Shown(v) /\ Used(devs[v]) /\ devs[v].path = Dirname(fdt[f].path)
           /\ RingData(dir, v, f) =>
                 HasFile(f) /\ BytesOf(f) = VolumeOn(v)[Basename(fdt[f].path)] /\ IsRingOf(BytesOf(f), sent[dir])
<1>1. /\ Used(devs[i]) /\ devs[i].path = dir /\ devs[i].mount /\ devs[i].type = "char" /\ devs[i].userData = f
      /\ cached[f] = v /\ Shown(v) /\ devs[v].writable
      /\ fdt[f].path \in RingFiles /\ devs[v].path = Dirname(fdt[f].path)
  BY DEF RingTables, RingDevice, RingVolume
<1>2. PICK k \in DOMAIN mounts : mounts[k].fd = f /\ mounts[k].format = "CircBuf"
  BY DEF RingTables, RingDevice
<1>3. InUse(fdt, f) /\ HeldByMount(f) /\ f \in Fds
  BY <1>2, EntryFacts DEF TInv, MountsFit, HeldByMount
<1>4. Used(devs[v]) /\ devs[v].type = "MiniFs" /\ IsVolume(devs[v])
  BY <1>1, ShownFacts DEF IsVolume
<1>5. fdt[f].path \in Paths /\ Dirname(fdt[f].path) # fdt[f].path
  BY <1>1, RingFileIsNoDevice
<1>6. v # DevMax
  BY MountsAssumption DEF DevIdx
<1>7. Served(f) /\ IsChild(f)
  BY <1>1, <1>4, <1>5, <1>6 DEF Served, IsChild
<1>8. ASSUME RingData(dir, v, f)
      PROVE  HasFile(f) /\ BytesOf(f) = VolumeOn(v)[Basename(fdt[f].path)] /\ IsRingOf(BytesOf(f), sent[dir])
  BY <1>1, <1>4, <1>7, <1>8 DEF HasFile, BytesOf, RingData
<1> QED BY <1>1, <1>3, <1>4, <1>5, <1>8

\* A file that a ring is in is not opened by anybody else: its volume can be written.
LEMMA RingFileClosed ==
    ASSUME TInv, SInv, PathsApart(devs), NEW p \in RingFiles, FileIsOpen(fdt, p),
           NEW v \in DevIdx, Used(devs[v]), devs[v].path = Dirname(p), devs[v].writable
    PROVE  ~MayOpenPath(p)
<1>1. DeviceFromPath(devs, p) = DevMax
  BY RingFileIsNoDevice
<1>2. DeviceFromPath(devs, Dirname(p)) = v
  BY FoundAt
<1> QED BY <1>1, <1>2 DEF MayOpenPath, CanOpenMany

\* Nobody opens the file of a ring while the descriptor is there.
LEMMA StaysAlone ==
    ASSUME TInv, SInv, PathsApart(devs), [Next]_vars,
           NEW dir, NEW i \in DevIdx, NEW v \in DevIdx, NEW f \in ValidFds, RingTables(dir, i, v, f),
           fdt'[f] = fdt[f]
    PROVE  Alone(f)'
<1> SUFFICES ASSUME NEW g \in ValidFds, fdt'[g].path = fdt'[f].path PROVE g = f
  BY DEF Alone
<1>1. /\ InUse(fdt, f) /\ fdt[f].path \in RingFiles
      /\ Used(devs[v]) /\ devs[v].path = Dirname(fdt[f].path) /\ devs[v].writable /\ Alone(f)
  BY RingTablesFacts DEF RingTables, RingVolume
<1>2. InUse(fdt', g)
  BY <1>1 DEF InUse
<1>3. CASE SameFile(g)
  BY <1>1, <1>3 DEF SameFile, Alone
<1>4. CASE \E p \in Asked : JustOpened(g, p)
  <2>1. MayOpenPath(fdt[f].path)
    BY <1>4 DEF JustOpened
  <2>2. FileIsOpen(fdt, fdt[f].path)
    BY DEF FileIsOpen
  <2> QED BY <1>1, <2>1, <2>2, RingFileClosed
<1> QED BY <1>2, <1>3, <1>4, FileSteps

\* A ring stays when its device, its mount, its descriptor, its volume and its
\* bytes do.
LEMMA RingStays ==
    ASSUME TInv, SInv, PathsApart(devs), [Next]_vars,
           NEW dir, NEW i \in DevIdx, NEW v \in DevIdx, NEW f \in ValidFds, RingTables(dir, i, v, f),
           devs'[i] = devs[i], \E k \in DOMAIN mounts' : mounts'[k].fd = f /\ mounts'[k].format = "CircBuf",
           fdt'[f] = fdt[f], cached'[f] = cached[f],
           Shown(v)', devs'[v].writable = devs[v].writable, devs'[v].path = devs[v].path
    PROVE  RingTables(dir, i, v, f)'
<1>1. RingDevice(dir, i, f)'
  BY DEF RingTables, RingDevice
<1>2. RingVolume(v, f)'
  BY DEF RingTables, RingVolume
<1>3. Alone(f)'
  BY StaysAlone
<1> QED BY <1>1, <1>2, <1>3 DEF RingTables

\* A volume that stays shows the same store.
LEMMA VolumeStays ==
    ASSUME TInv, NEW v \in DevIdx, Shown(v), devs'[v] = devs[v],
           devs[v].mount =>
              /\ \A k \in DOMAIN mounts : mounts[k].fd = devs[v].userData => \E n \in DOMAIN mounts' : mounts'[n] = mounts[k]
              /\ fdt'[devs[v].userData].path = fdt[devs[v].userData].path
    PROVE  Shown(v)' /\ StoreOf(v)' = StoreOf(v) /\ VolumeOn(v)' = stores'[StoreOf(v)].files
<1>1. IsVolume(devs[v])
  BY DEF Shown
<1>2. ASSUME devs[v].mount PROVE Mounted(v)'
  <2>1. PICK k \in DOMAIN mounts : mounts[k].fd = devs[v].userData /\ TypeOfFormat(mounts[k].format) = devs[v].type
    BY <1>2 DEF Shown, Mounted
  <2>2. PICK n \in DOMAIN mounts' : mounts'[n] = mounts[k]
    BY <1>2, <2>1
  <2> QED BY <2>1, <2>2 DEF Mounted
<1>3. Shown(v)'
  BY <1>1, <1>2 DEF Shown
<1>4. StoreOf(v)' = StoreOf(v)
  BY DEF StoreOf
<1>5. VolumeOn(v)' = stores'[StoreOf(v)].files
  BY <1>3, <1>4 DEF VolumeOn, Shown
<1> QED BY <1>3, <1>4, <1>5

\* A ring that was followed is followed still.
Kept(dir) ==
    /\ sent[dir] # Lost
    /\ \E i, v \in DevIdx, f \in ValidFds :
          RingTables(dir, i, v, f) /\ RingTables(dir, i, v, f)' /\ RingData(dir, v, f)'

LEMMA KeptIsFit ==
    ASSUME \A dir \in RingDirs : sent'[dir] # Lost => Kept(dir)
    PROVE  RingsFit'
<1> SUFFICES ASSUME NEW dir \in RingDirs, sent'[dir] # Lost
             PROVE  \E i, v \in DevIdx, f \in ValidFds : RingTables(dir, i, v, f)' /\ RingData(dir, v, f)'
  BY DEF RingsFit
<1> QED BY DEF Kept

\* The tables name one ring only for a path.
LEMMA RingIsOne ==
    ASSUME PathsApart(devs), NEW dir, NEW i \in DevIdx, NEW v \in DevIdx, NEW f \in ValidFds, RingTables(dir, i, v, f),
           NEW j \in DevIdx, NEW w \in DevIdx, NEW g \in ValidFds, RingTables(dir, j, w, g)
    PROVE  i = j /\ v = w /\ f = g
<1>1. i = j
  BY DEF RingTables, RingDevice, PathsApart
<1>2. f = g
  BY <1>1 DEF RingTables, RingDevice
<1>3. v = w
  BY <1>2 DEF RingTables, RingVolume
<1> QED BY <1>1, <1>2, <1>3

\* Rings that are kept stay in files of their own.
LEMMA KeptIsApart ==
    ASSUME RInv, PathsApart(devs'),
           NEW c \in RingDirs, NEW d \in RingDirs, Kept(c), Kept(d),
           NEW i \in DevIdx, NEW j \in DevIdx, NEW v \in DevIdx, NEW w \in DevIdx, NEW f \in ValidFds,
           RingTables(c, i, v, f)', RingTables(d, j, w, f)'
    PROVE  c = d
<1>1. PICK i1 \in DevIdx, v1 \in DevIdx, f1 \in ValidFds : RingTables(c, i1, v1, f1) /\ RingTables(c, i1, v1, f1)'
  BY DEF Kept
<1>2. PICK j1 \in DevIdx, w1 \in DevIdx, g1 \in ValidFds : RingTables(d, j1, w1, g1) /\ RingTables(d, j1, w1, g1)'
  BY DEF Kept
<1>3. i1 = i /\ f1 = f
  <2>1. i1 = i
    BY <1>1 DEF RingTables, RingDevice, PathsApart
  <2> QED BY <1>1, <2>1 DEF RingTables, RingDevice
<1>4. j1 = j /\ g1 = f
  <2>1. j1 = j
    BY <1>2 DEF RingTables, RingDevice, PathsApart
  <2> QED BY <1>2, <2>1 DEF RingTables, RingDevice
<1>5. sent[c] # Lost /\ sent[d] # Lost
  BY DEF Kept
<1> QED BY <1>1, <1>2, <1>3, <1>4, <1>5 DEF RInv, RingsApart

\* When every ring that is still followed is kept, the invariant is.
LEMMA RingsKept ==
    ASSUME RInv, PathsApart(devs'), \A dir \in RingDirs : sent'[dir] # Lost => Kept(dir)
    PROVE  RingsFit' /\ RingsApart'
<1>1. RingsFit'
  BY KeptIsFit
<1>2. RingsApart'
  <2> SUFFICES ASSUME NEW c \in RingDirs, NEW d \in RingDirs, NEW i \in DevIdx, NEW j \in DevIdx,
                      NEW v \in DevIdx, NEW w \in DevIdx, NEW f \in ValidFds, sent'[c] # Lost, sent'[d] # Lost,
                      RingTables(c, i, v, f)', RingTables(d, j, w, f)'
               PROVE  c = d
    BY DEF RingsApart
  <2> QED BY KeptIsApart
<1> QED BY <1>1, <1>2

\* The bytes of a ring when only stores change.
KeepsBytes(v, f) ==
    /\ Basename(fdt[f].path) \in DOMAIN stores'[StoreOf(v)].files
    /\ stores'[StoreOf(v)].files[Basename(fdt[f].path)] = stores[StoreOf(v)].files[Basename(fdt[f].path)]

LEMMA TablesSame ==
    ASSUME UNCHANGED <<devs, fdt, cached, mounts>>, NEW dir, NEW i, NEW v, NEW f, RingTables(dir, i, v, f)
    PROVE  RingTables(dir, i, v, f)'
BY DEF RingTables, RingDevice, RingVolume, Alone, Shown, Mounted, IsVolume, Used

\* What a ring holds depends on the bytes of its file only.
LEMMA DataStays ==
    ASSUME TInv, NEW v \in DevIdx, Shown(v), NEW dir, NEW f, RingData(dir, v, f), KeepsBytes(v, f),
           fdt'[f] = fdt[f], sent'[dir] = sent[dir], VolumeOn(v)' = stores'[StoreOf(v)].files
    PROVE  RingData(dir, v, f)'
<1>1. VolumeOn(v) = stores[StoreOf(v)].files
  BY ShownFacts
<1> QED BY <1>1 DEF RingData, KeepsBytes

\* A step that changes stores only keeps a ring if it keeps the bytes of its file.
LEMMA KeptByStores ==
    ASSUME TInv, SInv, UNCHANGED <<devs, fdt, cached, mounts>>,
           NEW dir \in RingDirs, sent[dir] # Lost, sent'[dir] = sent[dir],
           NEW i \in DevIdx, NEW v \in DevIdx, NEW f \in ValidFds, RingTables(dir, i, v, f), RingData(dir, v, f),
           KeepsBytes(v, f)
    PROVE  Kept(dir)
<1>1. RingTables(dir, i, v, f)'
  BY TablesSame
<1>2. Shown(v)
  BY RingTablesFacts
<1>3. VolumeOn(v)' = stores'[StoreOf(v)].files
  BY <1>2, VolumeStays
<1>4. RingData(dir, v, f)'
  BY <1>2, <1>3, DataStays
<1> QED BY <1>1, <1>4 DEF Kept

\* One file is rewritten.
Edited(s, q, n, b) == [s EXCEPT ![q].files[n] = b]

\* One file of one store gets new bytes; the others keep theirs.
LEMMA EditFacts ==
    ASSUME NEW s, StoresFit(s), NEW q \in StorePaths, NEW n, NEW b, NEW t, t = Edited(s, q, n, b)
    PROVE  \A p \in StorePaths :
              /\ DOMAIN t[p].files = DOMAIN s[p].files
              /\ \A m \in DOMAIN s[p].files : t[p].files[m] = IF p = q /\ m = n THEN b ELSE s[p].files[m]
<1>1. DOMAIN s = StorePaths /\ \A p \in StorePaths : s[p] = [kind |-> s[p].kind, files |-> s[p].files]
  BY DEF StoresFit
<1>2. \A p \in StorePaths : p # q => t[p] = s[p]
  BY <1>1 DEF Edited
<1>3. t[q].files = [s[q].files EXCEPT ![n] = b]
  BY <1>1 DEF Edited
<1> QED BY <1>2, <1>3

LEMMA EditKeepsFine ==
    ASSUME NEW s, StoresFit(s), FilesFine(s), NEW q \in StorePaths, NEW n, NEW b, IsFile(b), NEW t, t = Edited(s, q, n, b)
    PROVE  FilesFine(t)
<1> SUFFICES ASSUME NEW p \in StorePaths, NEW m \in DOMAIN t[p].files PROVE IsFile(t[p].files[m])
  BY DEF FilesFine
<1>1. /\ DOMAIN t[p].files = DOMAIN s[p].files
      /\ \A l \in DOMAIN s[p].files : t[p].files[l] = IF p = q /\ l = n THEN b ELSE s[p].files[l]
  BY EditFacts
<1>2. m \in DOMAIN s[p].files /\ IsFile(s[p].files[m])
  BY <1>1 DEF FilesFine
<1> QED BY <1>1, <1>2

\* It is another file than that of a ring when its path is another.
LEMMA OtherFile ==
    ASSUME TInv, VInv, SInv, PathsApart(devs), VolumesTellApart,
           NEW dir, NEW i \in DevIdx, NEW v \in DevIdx, NEW f \in ValidFds, RingTables(dir, i, v, f),
           NEW w \in DevIdx, Shown(w), NEW p \in Paths, devs[w].path = Dirname(p), p # fdt[f].path
    PROVE  StoreOf(v) # StoreOf(w) \/ Basename(fdt[f].path) # Basename(p)
<1> SUFFICES ASSUME StoreOf(v) = StoreOf(w), Basename(fdt[f].path) = Basename(p) PROVE FALSE
  OBVIOUS
<1>1. Shown(v) /\ devs[v].path = Dirname(fdt[f].path) /\ fdt[f].path \in Paths
  BY RingTablesFacts
<1>2. v = w
  BY <1>1, StoresApart
<1> QED BY <1>1, <1>2, PathSplit

\* A file of a volume has a volume that is shown.
LEMMA FileIsShown ==
    ASSUME TInv, NEW w \in DevIdx, IsVolume(devs[w]), NEW n, n \in DOMAIN VolumeOn(w)
    PROVE  Shown(w)
<1>1. VolumeOn(w) # << >>
  OBVIOUS
<1> QED BY <1>1, VolumeFacts DEF Shown

\* The file a descriptor reaches.
LEMMA HasFileFacts ==
    ASSUME TInv, NEW g \in ValidFds, InUse(fdt, g), HasFile(g)
    PROVE  /\ g \in Fds /\ cached[g] \in DevIdx /\ Shown(cached[g])
           /\ fdt[g].path \in Paths /\ devs[cached[g]].path = Dirname(fdt[g].path)
           /\ Basename(fdt[g].path) \in DOMAIN VolumeOn(cached[g])
           /\ VolumeOn(cached[g]) = stores[StoreOf(cached[g])].files /\ StoreOf(cached[g]) \in StorePaths
<1>1. g \in Fds
  BY FdMaxAssumption DEF ValidFds, Fds
<1>2. /\ cached[g] \in DevIdx /\ devs[cached[g]].path = Dirname(fdt[g].path) /\ IsVolume(devs[cached[g]])
      /\ Basename(fdt[g].path) \in DOMAIN VolumeOn(cached[g])
  BY <1>1 DEF HasFile, Served, IsChild, TInv
<1>3. Shown(cached[g])
  BY <1>2, FileIsShown
<1>4. fdt[g].path \in Paths
  BY <1>1 DEF TInv, OneRef, Tables, Slots, InUse
<1> QED BY <1>1, <1>2, <1>3, <1>4, ShownFacts

\* The invariant after a step that changes no table.
LEMMA StoresOnly ==
    ASSUME RInv, UNCHANGED <<devs, fdt, cached, mounts>>, DOMAIN sent' = RingDirs, FilesFine(stores'),
           \A dir \in RingDirs : sent'[dir] # Lost => Kept(dir)
    PROVE  RInv'
<1>1. PathsApart(devs') /\ RingDevsFit(devs')
  BY DEF RInv
<1>2. RingsFit' /\ RingsApart'
  BY <1>1, RingsKept
<1> QED BY <1>1, <1>2 DEF RInv

\* All that is known of a ring that is followed.
LEMMA Followed ==
    ASSUME TInv, SInv, RInv, NEW dir \in RingDirs, sent[dir] # Lost
    PROVE  \E i, v \in DevIdx, f \in ValidFds : RingTables(dir, i, v, f) /\ RingData(dir, v, f)
BY DEF RInv, RingsFit

\* A file that is written through another path.
LEMMA WrittenElsewhere ==
    ASSUME TInv, VInv, SInv, PathsApart(devs), VolumesTellApart,
           NEW dir, NEW i \in DevIdx, NEW v \in DevIdx, NEW f \in ValidFds, RingTables(dir, i, v, f), RingData(dir, v, f),
           NEW w \in DevIdx, Shown(w), NEW p \in Paths, devs[w].path = Dirname(p), p # fdt[f].path,
           NEW b, stores' = Edited(stores, StoreOf(w), Basename(p), b)
    PROVE  KeepsBytes(v, f)
<1>1. StoreOf(v) # StoreOf(w) \/ Basename(fdt[f].path) # Basename(p)
  BY OtherFile
<1>2. StoreOf(v) \in StorePaths /\ StoreOf(w) \in StorePaths /\ VolumeOn(v) = stores[StoreOf(v)].files
  BY RingTablesFacts, ShownFacts
<1>3. Basename(fdt[f].path) \in DOMAIN stores[StoreOf(v)].files
  BY <1>2 DEF RingData
<1>4. PICK s, q, n, t : s = stores /\ q = StoreOf(w) /\ n = Basename(p) /\ t = stores' /\ t = Edited(s, q, n, b) /\ StoresFit(s)
  BY DEF TInv
<1>5. \A x \in StorePaths :
              /\ DOMAIN t[x].files = DOMAIN s[x].files
              /\ \A m \in DOMAIN s[x].files : t[x].files[m] = IF x = q /\ m = n THEN b ELSE s[x].files[m]
  BY <1>2, <1>4, EditFacts
<1> QED BY <1>1, <1>2, <1>3, <1>4, <1>5 DEF KeepsBytes

LEMMA EditedFine ==
    ASSUME TInv, FilesFine(stores), NEW q \in StorePaths, NEW n, NEW b, IsFile(b), stores' = Edited(stores, q, n, b)
    PROVE  FilesFine(stores')
<1>1. PICK s, t : s = stores /\ t = stores' /\ t = Edited(s, q, n, b) /\ StoresFit(s) /\ FilesFine(s)
  BY DEF TInv
<1> QED BY <1>1, EditKeepsFine

\* All files are long enough for what is in them.
LEMMA FileIsFine ==
    ASSUME TInv, RInv, NEW w \in DevIdx, Shown(w), NEW n, n \in DOMAIN VolumeOn(w)
    PROVE  IsFile(VolumeOn(w)[n])
<1>1. StoreOf(w) \in StorePaths /\ VolumeOn(w) = stores[StoreOf(w)].files
  BY ShownFacts
<1> QED BY <1>1 DEF RInv, FilesFine

\* A program that writes a file writes none that has a ring in it: that one is open already.
LEMMA WriteFileRings ==
    ASSUME TInv, VInv, SInv, RInv, VolumesTellApart, NEW fd \in ValidFds, NEW u \in Data, WriteFile(fd, u)
    PROVE  RInv'
<1>1. /\ InUse(fdt, fd) /\ ~HeldByMount(fd) /\ HasFile(fd)
      /\ UNCHANGED <<devs, fdt, cached, mounts, sent>> /\ PathsApart(devs) /\ FilesFine(stores)
  BY DEF WriteFile, RInv
<1>2. PICK b : b = [k \in DOMAIN BytesOf(fd) |-> u] /\ SetBytes(fd, b)
  BY DEF WriteFile
<1>3. PICK w \in DevIdx, p \in Paths :
         /\ w = cached[fd] /\ p = fdt[fd].path /\ Shown(w) /\ devs[w].path = Dirname(p) /\ StoreOf(w) \in StorePaths
         /\ Basename(p) \in DOMAIN VolumeOn(w)
  BY <1>1, HasFileFacts
<1>4. stores' = Edited(stores, StoreOf(w), Basename(p), b)
  BY <1>2, <1>3 DEF SetBytes, Edited
<1>5. IsFile(b)
  <2>1. IsFile(VolumeOn(w)[Basename(p)])
    BY <1>3, FileIsFine
  <2>2. PICK a : a = BytesOf(fd) /\ a \in Seq(Bytes) /\ Len(a) \in FileSizes
    BY <1>3, <2>1 DEF BytesOf, IsFile
  <2>3. u \in Bytes
    BY MountsAssumption
  <2>4. DOMAIN a = 1 .. Len(a) /\ Len(a) \in Nat
    BY <2>2
  <2>5. b = [k \in 1 .. Len(a) |-> u]
    BY <1>2, <2>2, <2>4
  <2>6. b \in Seq(Bytes) /\ Len(b) = Len(a)
    BY <2>3, <2>4, <2>5
  <2> QED BY <2>2, <2>6 DEF IsFile
<1>6. FilesFine(stores')
  BY <1>1, <1>3, <1>4, <1>5, EditedFine
<1>7. ASSUME NEW dir \in RingDirs, sent'[dir] # Lost PROVE Kept(dir)
  <2>1. sent[dir] # Lost /\ sent'[dir] = sent[dir]
    BY <1>1, <1>7
  <2>2. PICK i \in DevIdx, v \in DevIdx, f \in ValidFds : RingTables(dir, i, v, f) /\ RingData(dir, v, f)
    BY <2>1, Followed
  <2>3. p # fdt[f].path
    <3>1. HeldByMount(f)
      BY <2>2, RingTablesFacts
    <3> QED BY <1>1, <1>3, <2>2, <3>1 DEF RingTables, Alone
  <2>4. KeepsBytes(v, f)
    BY <1>1, <1>3, <1>4, <2>2, <2>3, WrittenElsewhere
  <2> QED BY <1>1, <2>1, <2>2, <2>4, KeptByStores
<1>8. DOMAIN sent' = RingDirs
  BY <1>1 DEF RInv
<1> QED BY <1>1, <1>6, <1>7, <1>8, StoresOnly

\* The ring that a program reads from or writes to is one that is followed.
LEMMA RingReached ==
    ASSUME TInv, SInv, RInv, NEW fd \in ValidFds, IsRing(fd)
    PROVE  \E dir \in RingDirs, i \in DevIdx, v \in DevIdx, f \in ValidFds :
              /\ dir = fdt[fd].path /\ f = RingFd(fd) /\ sent[dir] # Lost
              /\ RingTables(dir, i, v, f) /\ RingData(dir, v, f)
<1>1. fd \in Fds
  BY FdMaxAssumption DEF ValidFds, Fds
<1>2. PICK c \in DevIdx : c = cached[fd] /\ Used(devs[c]) /\ devs[c].path = fdt[fd].path
  BY <1>1 DEF IsRing, Served, IsChild, TInv
<1>3. devs[c].type = "char" /\ devs[c].mount /\ sent[fdt[fd].path] # Lost
  BY <1>2 DEF IsRing
<1>4. PICK dir \in RingDirs : dir = fdt[fd].path
  BY <1>2, <1>3 DEF RInv, RingDevsFit
<1>5. PICK i \in DevIdx, v \in DevIdx, f \in ValidFds : RingTables(dir, i, v, f) /\ RingData(dir, v, f)
  BY <1>3, <1>4, Followed
<1>6. i = c
  BY <1>2, <1>4, <1>5 DEF RInv, PathsApart, RingTables, RingDevice
<1>7. f = RingFd(fd)
  BY <1>2, <1>5, <1>6 DEF RingFd, RingTables, RingDevice
<1> QED BY <1>3, <1>4, <1>5, <1>7

\* A ring is rewritten in one go: its bytes and what is known of them.
LEMMA RingRewritten ==
    ASSUME TInv, VInv, SInv, RInv, VolumesTellApart, UNCHANGED <<devs, fdt, cached, mounts>>,
           NEW e \in RingDirs, NEW j \in DevIdx, NEW w \in DevIdx, NEW g \in ValidFds,
           RingTables(e, j, w, g), RingData(e, w, g), sent[e] # Lost,
           NEW b, NEW q, IsRingOf(b, q), SetBytes(g, b), sent' = [sent EXCEPT ![e] = q]
    PROVE  RInv'
<1>1. /\ InUse(fdt, g) /\ HasFile(g) /\ Shown(w) /\ g \in Fds /\ PathsApart(devs) /\ FilesFine(stores)
      /\ cached[g] = w /\ DOMAIN sent = RingDirs
  BY RingTablesFacts DEF RInv, RingTables, RingVolume
<1>2. PICK p \in Paths :
         /\ p = fdt[g].path /\ devs[w].path = Dirname(p) /\ StoreOf(w) \in StorePaths
         /\ Basename(p) \in DOMAIN stores[StoreOf(w)].files
  BY <1>1, HasFileFacts
<1>3. stores' = Edited(stores, StoreOf(w), Basename(p), b)
  BY <1>1, <1>2 DEF SetBytes, Edited
<1>4. FilesFine(stores')
  <2>1. IsFile(b)
    BY DEF IsRingOf, IsRingFile
  <2> QED BY <1>1, <1>2, <1>3, <2>1, EditedFine
<1>5. ASSUME NEW dir \in RingDirs, sent'[dir] # Lost, dir # e PROVE Kept(dir)
  <2>1. sent[dir] # Lost /\ sent'[dir] = sent[dir]
    BY <1>1, <1>5
  <2>2. PICK i \in DevIdx, v \in DevIdx, f \in ValidFds : RingTables(dir, i, v, f) /\ RingData(dir, v, f)
    BY <2>1, Followed
  <2>3. p # fdt[f].path
    <3> SUFFICES ASSUME p = fdt[f].path PROVE FALSE
      OBVIOUS
    <3>1. f = g
      BY <1>2, <2>2 DEF RingTables, Alone
    <3> QED BY <1>5, <2>1, <2>2, <3>1 DEF RInv, RingsApart
  <2>4. KeepsBytes(v, f)
    BY <1>1, <1>2, <1>3, <2>2, <2>3, WrittenElsewhere
  <2> QED BY <2>1, <2>2, <2>4, KeptByStores
<1>6. Kept(e)
  <2>1. RingTables(e, j, w, g)'
    BY TablesSame
  <2>2. VolumeOn(w)' = stores'[StoreOf(w)].files
    BY <1>1, VolumeStays
  <2>3. /\ DOMAIN stores'[StoreOf(w)].files = DOMAIN stores[StoreOf(w)].files
        /\ stores'[StoreOf(w)].files[Basename(p)] = b
    <3>1. PICK s, x, n, t : s = stores /\ x = StoreOf(w) /\ n = Basename(p) /\ t = stores' /\ t = Edited(s, x, n, b) /\ StoresFit(s)
      BY <1>3 DEF TInv
    <3>2. \A y \in StorePaths :
              /\ DOMAIN t[y].files = DOMAIN s[y].files
              /\ \A m \in DOMAIN s[y].files : t[y].files[m] = IF y = x /\ m = n THEN b ELSE s[y].files[m]
      BY <1>2, <3>1, EditFacts
    <3> QED BY <1>2, <3>1, <3>2
  <2>4. sent'[e] = q
    BY <1>1
  <2>5. RingData(e, w, g)'
    BY <1>2, <2>2, <2>3, <2>4 DEF RingData
  <2> QED BY <2>1, <2>5 DEF Kept
<1>7. DOMAIN sent' = RingDirs
  BY <1>1
<1> QED BY <1>4, <1>5, <1>6, <1>7, StoresOnly

\* Reading takes the first byte of the history, writing appends what there was room for.
LEMMA RingReadRings ==
    ASSUME TInv, VInv, SInv, RInv, VolumesTellApart, NEW fd \in ValidFds, RingRead(fd)
    PROVE  RInv'
<1>1. PICK e \in RingDirs, j \in DevIdx, w \in DevIdx, g \in ValidFds :
         /\ e = fdt[fd].path /\ g = RingFd(fd) /\ sent[e] # Lost
         /\ RingTables(e, j, w, g) /\ RingData(e, w, g)
  BY RingReached DEF RingRead
<1>2. PICK b : b = BytesOf(g) /\ IsRingOf(b, sent[e])
  BY <1>1, RingTablesFacts
<1>3. /\ GetHead(b) # GetTail(b) /\ SetBytes(g, SetHead(b, IncOffset(Len(b), GetHead(b))))
      /\ sent' = [sent EXCEPT ![e] = Tail(sent[e])] /\ UNCHANGED <<devs, fdt, cached, mounts>>
  BY <1>1, <1>2 DEF RingRead
<1>4. PICK q : q = Tail(sent[e])
  OBVIOUS
<1>5. PICK c : c = SetHead(b, IncOffset(Len(b), GetHead(b))) /\ IsRingOf(c, q)
  BY <1>2, <1>3, <1>4, RingPopped
<1> QED BY <1>1, <1>3, <1>4, <1>5, RingRewritten

LEMMA RingWriteRings ==
    ASSUME TInv, VInv, SInv, RInv, VolumesTellApart, NEW fd \in ValidFds, NEW s \in Pushes, RingWrite(fd, s)
    PROVE  RInv'
<1>1. PICK e \in RingDirs, j \in DevIdx, w \in DevIdx, g \in ValidFds :
         /\ e = fdt[fd].path /\ g = RingFd(fd) /\ sent[e] # Lost
         /\ RingTables(e, j, w, g) /\ RingData(e, w, g)
  BY RingReached DEF RingWrite
<1>2. PICK b : b = BytesOf(g) /\ IsRingOf(b, sent[e])
  BY <1>1, RingTablesFacts
<1>3. PICK a : a = PushAll(b, s)
  OBVIOUS
<1>4. /\ SetBytes(g, SetTail(a.bytes, a.tail))
      /\ sent' = [sent EXCEPT ![e] = sent[e] \o SubSeq(s, 1, a.written)] /\ UNCHANGED <<devs, fdt, cached, mounts>>
  BY <1>1, <1>2, <1>3 DEF RingWrite
<1>5. PICK q : q = sent[e] \o SubSeq(s, 1, a.written)
  OBVIOUS
<1>6. s \in Seq(Bytes)
  BY MountsAssumption
<1>7. PICK c : c = SetTail(a.bytes, a.tail) /\ IsRingOf(c, q)
  BY <1>2, <1>3, <1>5, <1>6, RingPushed
<1> QED BY <1>1, <1>4, <1>5, <1>7, RingRewritten

\* The files of one device are exchanged for others.
Exchanged(s, q, files) == [s EXCEPT ![q].files = files]

\* One store gets other files; the other stores keep theirs.
LEMMA ExchangedFacts ==
    ASSUME NEW s, StoresFit(s), NEW q \in StorePaths, NEW files, NEW t, t = Exchanged(s, q, files)
    PROVE  t[q].files = files /\ \A p \in StorePaths : p # q => t[p] = s[p]
<1>1. DOMAIN s = StorePaths /\ s[q] = [kind |-> s[q].kind, files |-> s[q].files]
  BY DEF StoresFit
<1> QED BY <1>1 DEF Exchanged

\* It leaves the bytes of a ring alone when the ring's file is still there.
LEMMA KeptByExchange ==
    ASSUME TInv, SInv, NEW dir, NEW i \in DevIdx, NEW v \in DevIdx, NEW f \in ValidFds,
           RingTables(dir, i, v, f), RingData(dir, v, f),
           NEW q \in StorePaths, NEW files, stores' = Exchanged(stores, q, files),
           StoreOf(v) = q =>
              /\ Basename(fdt[f].path) \in DOMAIN files
              /\ files[Basename(fdt[f].path)] = stores[q].files[Basename(fdt[f].path)]
    PROVE  KeepsBytes(v, f)
<1>1. StoreOf(v) \in StorePaths /\ VolumeOn(v) = stores[StoreOf(v)].files
  BY RingTablesFacts, ShownFacts
<1>2. Basename(fdt[f].path) \in DOMAIN stores[StoreOf(v)].files
  BY <1>1 DEF RingData
<1>3. PICK s, t : s = stores /\ t = stores' /\ t = Exchanged(s, q, files) /\ StoresFit(s)
  BY DEF TInv
<1>4. t[q].files = files /\ \A p \in StorePaths : p # q => t[p] = s[p]
  BY <1>3, ExchangedFacts
<1> QED BY <1>1, <1>2, <1>3, <1>4 DEF KeepsBytes

LEMMA ExchangedFine ==
    ASSUME TInv, FilesFine(stores), NEW q \in StorePaths, NEW files, stores' = Exchanged(stores, q, files),
           \A n \in DOMAIN files : IsFile(files[n])
    PROVE  FilesFine(stores')
<1>1. PICK s, t : s = stores /\ t = stores' /\ t = Exchanged(s, q, files) /\ StoresFit(s) /\ FilesFine(s)
  BY DEF TInv
<1>2. t[q].files = files /\ \A p \in StorePaths : p # q => t[p] = s[p]
  BY <1>1, ExchangedFacts
<1> SUFFICES ASSUME NEW p \in StorePaths, NEW n \in DOMAIN t[p].files PROVE IsFile(t[p].files[n])
  BY <1>1 DEF FilesFine
<1> QED BY <1>1, <1>2 DEF FilesFine

\* A new file is none of those there were, and one that is deleted is not open.
LEMMA CreateFileRings ==
    ASSUME TInv, SInv, RInv, NEW p, NEW n \in Sizes, NEW u \in Data, CreateFile(p, n, u)
    PROVE  RInv'
<1>1. PICK w : w = DeviceFromPath(devs, Dirname(p))
  OBVIOUS
<1>2. PICK name : name = Basename(p)
  OBVIOUS
<1>3. /\ w # DevMax /\ IsVolume(devs[w]) /\ (devs[w].mount => Mounted(w)) /\ name \notin DOMAIN VolumeOn(w)
      /\ stores' = [stores EXCEPT ![StoreOf(w)].files =
                       [m \in (DOMAIN @) \cup {name} |-> IF m = name THEN [k \in 1 .. n |-> u] ELSE @[m]]]
      /\ UNCHANGED <<devs, fdt, cached, mounts, sent>>
  BY <1>1, <1>2 DEF CreateFile
<1>4. w \in DevIdx /\ Shown(w)
  BY <1>1, <1>3, DeviceFacts DEF Shown
<1>5. PICK q \in StorePaths : q = StoreOf(w) /\ VolumeOn(w) = stores[q].files
  BY <1>4, ShownFacts
<1>6. PICK old : old = stores[q].files
  OBVIOUS
<1>7. PICK files : /\ files = [m \in (DOMAIN old) \cup {name} |-> IF m = name THEN [k \in 1 .. n |-> u] ELSE old[m]]
                   /\ stores' = Exchanged(stores, q, files)
  BY <1>3, <1>5, <1>6 DEF Exchanged
<1>8. FilesFine(stores) /\ DOMAIN sent' = RingDirs
  BY <1>3 DEF RInv
<1>9. \A m \in DOMAIN files : IsFile(files[m])
  <2>1. IsFile([k \in 1 .. n |-> u])
    <3>1. n \in Nat /\ n \in FileSizes /\ u \in Bytes
      BY StoresAssumption, MountsAssumption DEF FileSizes
    <3>2. [k \in 1 .. n |-> u] \in Seq(Bytes) /\ Len([k \in 1 .. n |-> u]) = n
      BY <3>1
    <3> QED BY <3>1, <3>2 DEF IsFile
  <2>2. \A m \in DOMAIN old : IsFile(old[m])
    BY <1>6, <1>8 DEF FilesFine
  <2> QED BY <1>7, <2>1, <2>2
<1>10. FilesFine(stores')
  BY <1>7, <1>8, <1>9, ExchangedFine
<1>11. ASSUME NEW dir \in RingDirs, sent'[dir] # Lost PROVE Kept(dir)
  <2>1. sent[dir] # Lost /\ sent'[dir] = sent[dir]
    BY <1>3, <1>11
  <2>2. PICK i \in DevIdx, v \in DevIdx, f \in ValidFds : RingTables(dir, i, v, f) /\ RingData(dir, v, f)
    BY <2>1, Followed
  <2>3. ASSUME StoreOf(v) = q
        PROVE  /\ Basename(fdt[f].path) \in DOMAIN files
               /\ files[Basename(fdt[f].path)] = stores[q].files[Basename(fdt[f].path)]
    <3>1. Basename(fdt[f].path) \in DOMAIN old
      BY <1>6, <2>2, <2>3, RingTablesFacts, ShownFacts DEF RingData
    <3>2. Basename(fdt[f].path) # name
      BY <1>3, <1>5, <1>6, <3>1
    <3> QED BY <1>6, <1>7, <3>1, <3>2
  <2>4. KeepsBytes(v, f)
    BY <1>7, <2>2, <2>3, KeptByExchange
  <2> QED BY <1>3, <2>1, <2>2, <2>4, KeptByStores
<1> QED BY <1>3, <1>8, <1>10, <1>11, StoresOnly

LEMMA DeleteFileRings ==
    ASSUME TInv, VInv, SInv, RInv, VolumesTellApart, NEW p \in Paths, DeleteFile(p)
    PROVE  RInv'
<1>1. PICK w : w = DeviceFromPath(devs, Dirname(p))
  OBVIOUS
<1>2. PICK name : name = Basename(p)
  OBVIOUS
<1>3. /\ w # DevMax /\ IsVolume(devs[w]) /\ name \in DOMAIN VolumeOn(w) /\ ~FileIsOpen(fdt, p)
      /\ stores' = [stores EXCEPT ![StoreOf(w)].files = [m \in (DOMAIN @) \ {name} |-> @[m]]]
      /\ UNCHANGED <<devs, fdt, cached, mounts, sent>>
  BY <1>1, <1>2 DEF DeleteFile, FileIn
<1>4. w \in DevIdx /\ Shown(w) /\ devs[w].path = Dirname(p)
  BY <1>1, <1>3, DeviceFacts, FileIsShown
<1>5. PICK q \in StorePaths : q = StoreOf(w) /\ VolumeOn(w) = stores[q].files
  BY <1>4, ShownFacts
<1>6. PICK old : old = stores[q].files
  OBVIOUS
<1>7. PICK files : files = [m \in (DOMAIN old) \ {name} |-> old[m]] /\ stores' = Exchanged(stores, q, files)
  BY <1>3, <1>5, <1>6 DEF Exchanged
<1>8. FilesFine(stores) /\ DOMAIN sent' = RingDirs /\ PathsApart(devs)
  BY <1>3 DEF RInv
<1>9. \A m \in DOMAIN files : IsFile(files[m])
  BY <1>6, <1>7, <1>8 DEF FilesFine
<1>10. FilesFine(stores')
  BY <1>7, <1>8, <1>9, ExchangedFine
<1>11. ASSUME NEW dir \in RingDirs, sent'[dir] # Lost PROVE Kept(dir)
  <2>1. sent[dir] # Lost /\ sent'[dir] = sent[dir]
    BY <1>3, <1>11
  <2>2. PICK i \in DevIdx, v \in DevIdx, f \in ValidFds : RingTables(dir, i, v, f) /\ RingData(dir, v, f)
    BY <2>1, Followed
  <2>3. p # fdt[f].path
    BY <1>3 DEF FileIsOpen
  <2>4. StoreOf(v) # q \/ Basename(fdt[f].path) # name
    BY <1>2, <1>4, <1>5, <1>8, <2>2, <2>3, OtherFile
  <2>5. ASSUME StoreOf(v) = q
        PROVE  /\ Basename(fdt[f].path) \in DOMAIN files
               /\ files[Basename(fdt[f].path)] = stores[q].files[Basename(fdt[f].path)]
    <3>1. Basename(fdt[f].path) \in DOMAIN old
      BY <1>6, <2>2, <2>5, RingTablesFacts, ShownFacts DEF RingData
    <3> QED BY <1>6, <1>7, <2>4, <2>5, <3>1
  <2>6. KeepsBytes(v, f)
    BY <1>7, <2>2, <2>5, KeptByExchange
  <2> QED BY <1>3, <2>1, <2>2, <2>6, KeptByStores
<1> QED BY <1>3, <1>8, <1>10, <1>11, StoresOnly

\* A whole device is written over, by a program or by a remount without room for
\* all files: no volume that is shown is on it.
LEMMA OtherStoreWritten ==
    ASSUME TInv, SInv, RInv, UNCHANGED <<devs, fdt, cached, mounts, sent>>, NEW q, NEW e, stores' = [stores EXCEPT ![q] = e],
           \A v \in DevIdx : Shown(v) => StoreOf(v) # q,
           \A n \in DOMAIN e.files : IsFile(e.files[n])
    PROVE  RInv'
<1>1. DOMAIN stores = StorePaths /\ FilesFine(stores) /\ DOMAIN sent = RingDirs
  BY DEF TInv, StoresFit, RInv
<1>2. \A p \in StorePaths : p # q => stores'[p] = stores[p]
  BY <1>1
<1>3. q \in StorePaths => stores'[q] = e
  BY <1>1
<1>4. FilesFine(stores')
  BY <1>1, <1>2, <1>3 DEF FilesFine
<1>5. ASSUME NEW dir \in RingDirs, sent'[dir] # Lost PROVE Kept(dir)
  <2>1. sent[dir] # Lost /\ sent'[dir] = sent[dir]
    BY <1>5
  <2>2. PICK i \in DevIdx, v \in DevIdx, f \in ValidFds : RingTables(dir, i, v, f) /\ RingData(dir, v, f)
    BY <2>1, Followed
  <2>3. StoreOf(v) \in StorePaths /\ VolumeOn(v) = stores[StoreOf(v)].files /\ StoreOf(v) # q
    BY <2>2, RingTablesFacts, ShownFacts
  <2>4. KeepsBytes(v, f)
    BY <1>2, <2>2, <2>3 DEF KeepsBytes, RingData
  <2> QED BY <2>1, <2>2, <2>4, KeptByStores
<1> QED BY <1>1, <1>4, <1>5, StoresOnly

\* A flat device a program has open is not one that a volume is on.
LEMMA WriteFlatRings ==
    ASSUME TInv, VInv, SInv, RInv, NEW fd \in ValidFds, WriteFlat(fd)
    PROVE  RInv'
<1>0. PICK c : c = cached[fd]
  OBVIOUS
<1>1. /\ InUse(fdt, fd) /\ ~HeldByMount(fd) /\ Served(fd) /\ devs[c].type = "flat"
      /\ devs[c].mount => \E k \in MountOf(c) : mounts[k].format = "FlatFile"
      /\ stores' = [stores EXCEPT ![StoreOf(c)] = [kind |-> "junk", files |-> << >>]]
      /\ UNCHANGED <<devs, fdt, cached, mounts, sent>>
  BY <1>0 DEF WriteFlat
<1>2. c \in DevIdx /\ Used(devs[c]) /\ devs[c].path \in {fdt[fd].path, Dirname(fdt[fd].path)}
  <2>1. fd \in Fds
    BY FdMaxAssumption DEF ValidFds, Fds
  <2> QED BY <1>0, <1>1, <2>1 DEF Served, TInv
<1>3. ASSUME NEW v \in DevIdx, Shown(v), StoreOf(v) = StoreOf(c) PROVE FALSE
  <2>0. devs[v].mount \in BOOLEAN /\ devs[c].mount \in BOOLEAN
    BY <1>2, <1>3, EntryFacts, ShownFacts DEF Devices
  <2>1. CASE devs[c].mount /\ devs[v].mount
    <3>1. PICK l \in DOMAIN mounts : mounts[l].fd = devs[c].userData /\ mounts[l].format = "FlatFile"
      BY <1>1, <2>1 DEF MountOf
    <3>2. PICK k \in DOMAIN mounts :
             /\ mounts[k].fd \in ValidFds /\ InUse(fdt, mounts[k].fd) /\ mounts[k].format = "MiniFs"
             /\ StoreOf(v) = fdt[mounts[k].fd].path /\ StoreOf(v) \in FlatPaths
      BY <1>3, <2>1, ShownFacts
    <3>3. StoreOf(c) = fdt[mounts[l].fd].path /\ mounts[l].fd \in ValidFds /\ InUse(fdt, mounts[l].fd)
      BY <2>1, <3>1, EntryFacts DEF StoreOf, TInv, MountsFit
    <3>4. mounts[k].fd = mounts[l].fd
      BY <1>3, <3>2, <3>3 DEF VInv, OpensFit
    <3>5. k = l
      BY <3>4 DEF TInv, MountsFit
    <3> QED BY <3>1, <3>2, <3>5
  <2>2. CASE devs[c].mount /\ ~devs[v].mount
    <3>1. PICK l \in DOMAIN mounts : mounts[l].fd = devs[c].userData /\ mounts[l].format = "FlatFile"
      BY <1>1, <2>2 DEF MountOf
    <3>2. StoreOf(c) = fdt[mounts[l].fd].path /\ fdt[mounts[l].fd].path \in FlatPaths
      BY <2>2, <3>1 DEF StoreOf, TInv, MountsFit
    <3>3. StoreOf(v) = devs[v].path /\ Used(devs[v]) /\ devs[v].type = "MiniFs"
      BY <1>3, <2>2, ShownFacts
    <3> QED BY <1>3, <3>2, <3>3 DEF VInv, FlatsFit
  <2>3. CASE ~devs[c].mount
    <3>1. StoreOf(c) = devs[c].path /\ devs[c].path \in FlatPaths
      BY <1>1, <1>2, <2>3 DEF StoreOf, VInv, FlatsFit
    <3>2. devs[c].path = fdt[fd].path
      BY <1>1, <1>2, <3>1 DEF VInv, OpensFit
    <3>3. CASE devs[v].mount
      <4>1. PICK k \in DOMAIN mounts :
               /\ mounts[k].fd \in ValidFds /\ InUse(fdt, mounts[k].fd)
               /\ StoreOf(v) = fdt[mounts[k].fd].path /\ StoreOf(v) \in FlatPaths
        BY <1>3, <3>3, ShownFacts
      <4>2. mounts[k].fd = fd
        BY <1>1, <1>3, <3>1, <3>2, <4>1 DEF VInv, OpensFit
      <4> QED BY <1>1, <4>2 DEF HeldByMount
    <3>4. CASE ~devs[v].mount
      <4>1. StoreOf(v) = devs[v].path /\ Used(devs[v]) /\ devs[v].type = "MiniFs"
        BY <1>3, <3>4, ShownFacts
      <4> QED BY <1>3, <3>1, <4>1 DEF VInv, FlatsFit
    <3> QED BY <2>0, <3>3, <3>4
  <2> QED BY <2>0, <2>1, <2>2, <2>3
<1>4. PICK q, e : q = StoreOf(c) /\ e = [kind |-> "junk", files |-> << >>]
  OBVIOUS
<1>5. \A n \in DOMAIN e.files : IsFile(e.files[n])
  BY <1>4
<1>6. \A v \in DevIdx : Shown(v) => StoreOf(v) # q
  BY <1>3, <1>4
<1> QED BY <1>1, <1>4, <1>5, <1>6, OtherStoreWritten

\* The invariant after a step that may change tables too.
LEMMA AllKept ==
    ASSUME RInv, PathsApart(devs'), RingDevsFit(devs'), FilesFine(stores'), DOMAIN sent' = RingDirs,
           \A dir \in RingDirs : sent'[dir] # Lost => Kept(dir)
    PROVE  RInv'
<1>1. RingsFit' /\ RingsApart'
  BY RingsKept
<1> QED BY <1>1 DEF RInv

LEMMA BytesSame ==
    ASSUME TInv, SInv, NEW dir, NEW i \in DevIdx, NEW v \in DevIdx, NEW f \in ValidFds,
           RingTables(dir, i, v, f), RingData(dir, v, f), UNCHANGED stores
    PROVE  KeepsBytes(v, f)
<1>1. VolumeOn(v) = stores[StoreOf(v)].files
  BY RingTablesFacts, ShownFacts
<1> QED BY <1>1 DEF RingData, KeepsBytes

\* A ring stays when no mount and no descriptor of one changes, nor its two devices.
MountsStay ==
    \A k \in DOMAIN mounts :
        /\ \E n \in DOMAIN mounts' : mounts'[n] = mounts[k]
        /\ fdt'[mounts[k].fd] = fdt[mounts[k].fd] /\ cached'[mounts[k].fd] = cached[mounts[k].fd]

\* A ring is kept when the two devices, the mount, the descriptor and the bytes are.
LEMMA KeptByTables ==
    ASSUME TInv, SInv, PathsApart(devs), [Next]_vars, MountsStay,
           NEW dir \in RingDirs, sent[dir] # Lost, sent'[dir] = sent[dir],
           NEW i \in DevIdx, NEW v \in DevIdx, NEW f \in ValidFds, RingTables(dir, i, v, f), RingData(dir, v, f),
           devs'[i] = devs[i], devs'[v] = devs[v], KeepsBytes(v, f)
    PROVE  Kept(dir)
<1>1. PICK k \in DOMAIN mounts : mounts[k].fd = f /\ mounts[k].format = "CircBuf"
  BY DEF RingTables, RingDevice
<1>2. PICK n \in DOMAIN mounts' : mounts'[n] = mounts[k]
  BY <1>1 DEF MountsStay
<1>3. fdt'[f] = fdt[f] /\ cached'[f] = cached[f]
  BY <1>1 DEF MountsStay
<1>4. Shown(v)
  BY RingTablesFacts
<1>5. ASSUME devs[v].mount
      PROVE  /\ \A l \in DOMAIN mounts : mounts[l].fd = devs[v].userData => \E m \in DOMAIN mounts' : mounts'[m] = mounts[l]
             /\ fdt'[devs[v].userData].path = fdt[devs[v].userData].path
  <2>1. PICK l \in DOMAIN mounts : mounts[l].fd = devs[v].userData
    BY <1>4, <1>5, ShownFacts
  <2> QED BY <2>1 DEF MountsStay
<1>6. Shown(v)' /\ VolumeOn(v)' = stores'[StoreOf(v)].files
  BY <1>4, <1>5, VolumeStays
<1>7. RingTables(dir, i, v, f)'
  BY <1>1, <1>2, <1>3, <1>6, RingStays
<1>8. RingData(dir, v, f)'
  BY <1>3, <1>4, <1>6, DataStays
<1> QED BY <1>7, <1>8 DEF Kept

\* Opening and closing files changes nothing that a ring depends on.
LEMMA TablesOnly ==
    ASSUME TInv, SInv, RInv, [Next]_vars, MountsStay, UNCHANGED <<devs, stores, sent>>
    PROVE  RInv'
<1>1. PathsApart(devs) /\ RingDevsFit(devs) /\ FilesFine(stores) /\ DOMAIN sent = RingDirs
  BY DEF RInv
<1>2. ASSUME NEW dir \in RingDirs, sent'[dir] # Lost PROVE Kept(dir)
  <2>1. sent[dir] # Lost /\ sent'[dir] = sent[dir]
    BY <1>2
  <2>2. PICK i \in DevIdx, v \in DevIdx, f \in ValidFds : RingTables(dir, i, v, f) /\ RingData(dir, v, f)
    BY <2>1, Followed
  <2>3. KeepsBytes(v, f)
    BY <2>2, BytesSame
  <2> QED BY <1>1, <2>1, <2>2, <2>3, KeptByTables
<1> QED BY <1>1, <1>2, AllKept

\* A new descriptor is not one that a mount holds.
LEMMA OpenKeepsMounts ==
    ASSUME TInv, NEW p \in Paths, OpenFile(p), UNCHANGED mounts
    PROVE  MountsStay
<1>1. /\ \A k \in DOMAIN mounts : mounts[k].fd # NewFd(fdt)
      /\ \A fd \in Fds \ {NewFd(fdt)} : fdt'[fd] = fdt[fd]
  BY OpenFileFits
<1>2. \A k \in DOMAIN mounts : mounts[k].fd \in Fds
  BY EntryFacts
<1>3. \A fd \in Fds \ {NewFd(fdt)} : cached'[fd] = cached[fd]
  BY DEF OpenFile, TInv
<1> QED BY <1>1, <1>2, <1>3 DEF MountsStay

LEMMA OpenRings ==
    ASSUME TInv, SInv, RInv, [Next]_vars, NEW p \in Paths, OpenFile(p), UNCHANGED <<devs, mounts, stores, sent>>
    PROVE  RInv'
BY OpenKeepsMounts, TablesOnly

LEMMA CloseRings ==
    ASSUME TInv, SInv, RInv, [Next]_vars, NEW fd \in ValidFds, Close(fd)
    PROVE  RInv'
<1>1. InUse(fdt, fd) /\ ~HeldByMount(fd) /\ CloseFile(fd) /\ UNCHANGED <<devs, mounts, stores, sent>>
  BY DEF Close
<1>2. \A g \in Fds \ {fd} : fdt'[g] = fdt[g]
  BY <1>1, CloseFileFits
<1>3. \A g \in Fds \ {fd} : cached'[g] = cached[g]
  BY <1>1 DEF CloseFile, TInv
<1>4. \A k \in DOMAIN mounts : mounts[k].fd \in Fds \ {fd}
  BY <1>1, EntryFacts DEF HeldByMount
<1>5. MountsStay
  BY <1>1, <1>2, <1>3, <1>4 DEF MountsStay
<1> QED BY <1>1, <1>5, TablesOnly

\* A device is added where none is.
LEMMA AddMountRings ==
    ASSUME TInv, PathsApart(devs), RingDevsFit(devs), NEW r \in Requests, NEW fd, AddMount(r, fd)
    PROVE  /\ PathsApart(devs') /\ RingDevsFit(devs')
           /\ \A i \in DevIdx : Used(devs[i]) => devs'[i] = devs[i] /\ devs[i].path # r.dir
<1>1. PICK j \in DevIdx : ~Used(devs[j]) /\ devs' = [devs EXCEPT ![j] = MountDevice(r, fd, TRUE)]
  BY AddMountTakesFree
<1>2. \A i \in DevIdx : Used(devs[i]) => devs[i].path # r.dir
  <2>1. DeviceFromPath(devs, r.dir) = DevMax
    BY DEF AddMount, MayAdd, FileExists
  <2> QED BY <2>1, DeviceFacts
<1>3. \A i \in DevIdx : devs'[i] = IF i = j THEN MountDevice(r, fd, TRUE) ELSE devs[i]
  BY <1>1 DEF TInv, DevsFit
<1>4. PICK d : /\ d = MountDevice(r, fd, TRUE) /\ d.path = r.dir /\ d.type = TypeOfFormat(r.format)
  <2>1. MountDevice(r, fd, TRUE).path = r.dir /\ MountDevice(r, fd, TRUE).type = TypeOfFormat(r.format)
    BY DEF MountDevice
  <2> QED BY <2>1
<1>5. d.type = "char" => r.dir \in RingDirs
  <2>1. r.format \in Formats
    BY RequestFacts
  <2>2. TypeOfFormat(r.format) = "char" => r.format = "CircBuf"
    BY <2>1 DEF TypeOfFormat, Formats
  <2> QED BY <1>4, <2>2 DEF RingDirs
<1>6. PathsApart(devs')
  BY <1>2, <1>3, <1>4 DEF PathsApart
<1>7. RingDevsFit(devs')
  BY <1>3, <1>4, <1>5 DEF RingDevsFit
<1> QED BY <1>1, <1>2, <1>3, <1>6, <1>7

\* A ring that cannot be written is not followed; the rings there are stay.
LEMMA MountHalfRings ==
    ASSUME TInv, SInv, RInv, [Next]_vars, NEW r \in Requests, MountHalf(r)
    PROVE  RInv'
<1>1. /\ AddMount(r, NewFd(fdt)) /\ sent' = [sent EXCEPT ![r.dir] = Lost]
      /\ UNCHANGED <<fdt, cached, mounts, stores>>
  BY DEF MountHalf
<1>2. PathsApart(devs) /\ RingDevsFit(devs) /\ FilesFine(stores) /\ DOMAIN sent = RingDirs
  BY DEF RInv
<1>3. /\ PathsApart(devs') /\ RingDevsFit(devs')
      /\ \A i \in DevIdx : Used(devs[i]) => devs'[i] = devs[i] /\ devs[i].path # r.dir
  BY <1>1, <1>2, AddMountRings
<1>4. MountsStay
  BY <1>1 DEF MountsStay
<1>5. ASSUME NEW dir \in RingDirs, sent'[dir] # Lost PROVE Kept(dir)
  <2>1. sent[dir] # Lost /\ sent'[dir] = sent[dir]
    BY <1>1, <1>2, <1>5
  <2>2. PICK i \in DevIdx, v \in DevIdx, f \in ValidFds : RingTables(dir, i, v, f) /\ RingData(dir, v, f)
    BY <2>1, Followed
  <2>3. KeepsBytes(v, f)
    BY <1>1, <2>2, BytesSame
  <2>4. Used(devs[i]) /\ Used(devs[v])
    BY <2>2, RingTablesFacts DEF RingTables, RingDevice
  <2> QED BY <1>2, <1>3, <1>4, <2>1, <2>2, <2>3, <2>4, KeptByTables
<1>6. FilesFine(stores') /\ DOMAIN sent' = RingDirs
  BY <1>1, <1>2
<1> QED BY <1>3, <1>5, <1>6, AllKept

\* A device is removed: its ring and those on its volume are not followed then.
LEMMA RemovalRings ==
    ASSUME TInv, TInv', SInv, RInv, [Next]_vars, NEW j \in DevIdx, devs' = [devs EXCEPT ![j] = NoDev],
           \A g \in ValidFds : InUse(fdt', g) => SameFile(g), UNCHANGED stores, FollowRings
    PROVE  RInv'
<1>1. PathsApart(devs) /\ RingDevsFit(devs) /\ FilesFine(stores) /\ DOMAIN sent = RingDirs
  BY DEF RInv
<1>2. \A i \in DevIdx : devs'[i] = IF i = j THEN NoDev ELSE devs[i]
  BY DEF TInv, DevsFit
<1>3. \A i \in DevIdx : Used(devs'[i]) => devs'[i] = devs[i]
  BY <1>2 DEF Used, NoDev
<1>4. PathsApart(devs') /\ RingDevsFit(devs')
  BY <1>1, <1>3 DEF PathsApart, RingDevsFit
<1>5. sent' = [dir \in RingDirs |-> IF RingAlive(dir)' THEN sent[dir] ELSE Lost]
  BY DEF FollowRings
<1>6. \A k \in DOMAIN mounts' : mounts'[k].format \in Formats /\ mounts'[k].fd \in ValidFds /\ InUse(fdt', mounts'[k].fd)
  <2>1. PICK ms, t : ms = mounts' /\ t = fdt' /\ MountsFit(ms, t)
    BY DEF TInv
  <2>2. \A k \in DOMAIN ms : ms[k] \in MountEntries
    BY <2>1, ElementOfSeq DEF MountsFit
  <2> QED BY <2>1, <2>2 DEF MountsFit, MountEntries
<1>7. ASSUME NEW dir \in RingDirs, sent'[dir] # Lost PROVE Kept(dir)
  <2>1. sent[dir] # Lost /\ sent'[dir] = sent[dir] /\ RingAlive(dir)'
    BY <1>5, <1>7
  <2>2. PICK i \in DevIdx, v \in DevIdx, f \in ValidFds : RingTables(dir, i, v, f) /\ RingData(dir, v, f)
    BY <2>1, Followed
  <2>3. PICK c, g : /\ c = DeviceFromPath(devs', dir) /\ c # DevMax /\ devs'[c].type = "char" /\ g = devs'[c].userData
                    /\ Mounted(c)' /\ HasFile(g)'
    <3>1. PICK c : c = DeviceFromPath(devs', dir)
      OBVIOUS
    <3>2. c # DevMax /\ devs'[c].type = "char"
      BY <2>1, <3>1 DEF RingAlive
    <3>3. Mounted(c)'
      BY <2>1, <3>1 DEF RingAlive, Mounted
    <3>4. PICK g : g = devs'[c].userData
      OBVIOUS
    <3>5. HasFile(g)'
      BY <2>1, <3>1, <3>4 DEF RingAlive, HasFile, Served, IsChild, VolumeOn, StoreOf, Mounted
    <3> QED BY <3>1, <3>2, <3>3, <3>4, <3>5
  <2>4. c \in DevIdx /\ Used(devs'[c]) /\ devs'[c].path = dir
    BY <2>3, DeviceFacts
  <2>5. c = i /\ devs'[i] = devs[i] /\ devs[i].userData = f
    BY <1>1, <1>3, <2>2, <2>4 DEF PathsApart, RingTables, RingDevice
  <2>6. PICK k \in DOMAIN mounts' : mounts'[k].fd = f /\ TypeOfFormat(mounts'[k].format) = "char"
    BY <2>3, <2>5 DEF Mounted
  <2>7. InUse(fdt', f) /\ mounts'[k].format = "CircBuf"
    <3>1. mounts'[k].format \in Formats
      BY <1>6, <2>6
    <3>2. InUse(fdt', f)
      BY <2>6 DEF TInv, MountsFit
    <3> QED BY <2>6, <3>1, <3>2 DEF TypeOfFormat, Formats
  <2>8. fdt'[f] = fdt[f] /\ cached'[f] = cached[f] /\ cached[f] = v
    BY <2>2, <2>7 DEF SameFile, RingTables, RingVolume
  <2>9. HasFile(f)'
    <3>1. g = f
      BY <2>3, <2>5
    <3> QED BY <2>3, <3>1
  <2>10. Used(devs'[v]) /\ IsVolume(devs'[v]) /\ Basename(fdt'[f].path) \in DOMAIN VolumeOn(v)'
    BY <2>8, <2>9 DEF HasFile, Served
  <2>11. devs'[v] = devs[v]
    BY <1>3, <2>10
  <2>12. Shown(v)'
    <3>1. VolumeOn(v)' # << >>
      BY <2>10
    <3>2. (devs[v].mount => Mounted(v))'
      BY <3>1 DEF VolumeOn
    <3> QED BY <2>10, <3>2 DEF Shown
  <2>13. Shown(v) /\ devs[v].mount \in BOOLEAN
    BY <2>2, RingTablesFacts, ShownFacts
  <2>14. StoreOf(v)' = StoreOf(v)
    <3>1. CASE ~devs[v].mount
      BY <2>11, <3>1 DEF StoreOf
    <3>2. CASE devs[v].mount
      <4>1. PICK l \in DOMAIN mounts' : mounts'[l].fd = devs'[v].userData
        BY <2>11, <2>12, <3>2 DEF Shown, Mounted
      <4>2. mounts'[l].fd \in ValidFds /\ InUse(fdt', mounts'[l].fd)
        BY <1>6, <4>1
      <4>3. fdt'[devs'[v].userData] = fdt[devs[v].userData]
        BY <2>11, <4>1, <4>2 DEF SameFile
      <4> QED BY <2>11, <3>2, <4>3 DEF StoreOf
    <3> QED BY <2>13, <3>1, <3>2
  <2>15. VolumeOn(v)' = stores'[StoreOf(v)].files
    BY <2>12, <2>14 DEF VolumeOn, Shown
  <2>16. KeepsBytes(v, f)
    BY <2>2, BytesSame
  <2>17. RingTables(dir, i, v, f)'
    BY <1>1, <2>2, <2>5, <2>6, <2>7, <2>8, <2>11, <2>12, RingStays
  <2>18. RingData(dir, v, f)'
    BY <2>1, <2>2, <2>8, <2>13, <2>15, <2>16, DataStays
  <2> QED BY <2>1, <2>2, <2>17, <2>18 DEF Kept
<1>8. FilesFine(stores') /\ DOMAIN sent' = RingDirs
  BY <1>1, <1>5
<1> QED BY <1>4, <1>7, <1>8, AllKept

\* A ring whose device or volume is removed is not followed any more; the others are kept.
LEMMA UnmountRings ==
    ASSUME TInv, TInv', SInv, RInv, [Next]_vars, NEW p, Unmount(p)
    PROVE  RInv'
<1>1. PICK j : j = DeviceFromPath(devs, p)
  OBVIOUS
<1>2. /\ j # DevMax /\ MountOf(j) # {} /\ devs' = [devs EXCEPT ![j] = NoDev] /\ CloseFile(devs[j].userData)
      /\ UNCHANGED stores /\ FollowRings
  BY <1>1 DEF Unmount
<1>3. j \in DevIdx
  BY <1>1, <1>2, DeviceFacts
<1>4. PICK g \in ValidFds : g = devs[j].userData /\ InUse(fdt, g)
  BY <1>2, MountOfFacts, EntryFacts DEF TInv, MountsFit
<1>5. \A fd \in ValidFds : InUse(fdt', fd) => SameFile(fd)
  BY <1>2, <1>4, CloseFileSteps
<1> QED BY <1>2, <1>3, <1>5, RemovalRings

LEMMA DeleteDeviceRings ==
    ASSUME TInv, TInv', SInv, RInv, [Next]_vars, NEW p, DeleteDevice(p)
    PROVE  RInv'
<1>1. PICK j : j = DeviceFromPath(devs, p)
  OBVIOUS
<1>2. /\ j # DevMax /\ devs' = [devs EXCEPT ![j] = NoDev] /\ UNCHANGED <<fdt, cached, stores>> /\ FollowRings
  BY <1>1 DEF DeleteDevice
<1>3. j \in DevIdx
  BY <1>1, <1>2, DeviceFacts
<1>4. \A fd \in ValidFds : InUse(fdt', fd) => SameFile(fd)
  BY <1>2 DEF SameFile
<1> QED BY <1>2, <1>3, <1>4, RemovalRings

\* One more ring, behind a descriptor that was not in use.
LEMMA NewRing ==
    ASSUME TInv, SInv, RInv, PathsApart(devs'),
           NEW e \in RingDirs, NEW j \in DevIdx, NEW w \in DevIdx, NEW g \in ValidFds,
           RingTables(e, j, w, g)', RingData(e, w, g)', ~InUse(fdt, g),
           \A dir \in RingDirs : dir # e /\ sent'[dir] # Lost => Kept(dir)
    PROVE  RingsFit' /\ RingsApart'
<1>1. RingsFit'
  <2> SUFFICES ASSUME NEW dir \in RingDirs, sent'[dir] # Lost
               PROVE  \E i, v \in DevIdx, f \in ValidFds : RingTables(dir, i, v, f)' /\ RingData(dir, v, f)'
    BY DEF RingsFit
  <2>1. CASE dir = e
    BY <2>1
  <2>2. CASE dir # e
    BY <2>2 DEF Kept
  <2> QED BY <2>1, <2>2
<1>2. ASSUME NEW c \in RingDirs, c # e, sent'[c] # Lost,
             NEW i \in DevIdx, NEW k \in DevIdx, NEW u \in DevIdx, NEW v \in DevIdx, NEW f \in ValidFds,
             RingTables(c, i, v, f)', RingTables(e, k, u, f)'
      PROVE  FALSE
  <2>1. k = j
    BY <1>2 DEF RingTables, RingDevice, PathsApart
  <2>2. f = g
    BY <1>2, <2>1 DEF RingTables, RingDevice
  <2>3. Kept(c)
    BY <1>2
  <2>4. PICK i1 \in DevIdx, v1 \in DevIdx, f1 \in ValidFds : RingTables(c, i1, v1, f1) /\ RingTables(c, i1, v1, f1)'
    BY <2>3 DEF Kept
  <2>5. i1 = i
    BY <1>2, <2>4 DEF RingTables, RingDevice, PathsApart
  <2>6. f1 = f
    BY <1>2, <2>4, <2>5 DEF RingTables, RingDevice
  <2>7. InUse(fdt, f)
    BY <2>4, <2>6, RingTablesFacts
  <2> QED BY <2>2, <2>7
<1>3. RingsApart'
  <2> SUFFICES ASSUME NEW c \in RingDirs, NEW d \in RingDirs, NEW i \in DevIdx, NEW k \in DevIdx,
                      NEW v \in DevIdx, NEW u \in DevIdx, NEW f \in ValidFds, sent'[c] # Lost, sent'[d] # Lost,
                      RingTables(c, i, v, f)', RingTables(d, k, u, f)'
               PROVE  c = d
    BY DEF RingsApart
  <2>1. CASE c = e \/ d = e
    BY <1>2, <2>1
  <2>2. CASE c # e /\ d # e
    <3>1. Kept(c) /\ Kept(d)
      BY <2>2
    <3> QED BY <3>1, KeptIsApart
  <2> QED BY <2>1, <2>2
<1> QED BY <1>1, <1>3

\* A mount adds a device, an entry and a descriptor.
LEMMA MountKeeps ==
    ASSUME TInv, NEW r \in Requests, Mount(r)
    PROVE  MountsStay
<1>1. /\ \A k \in DOMAIN mounts : mounts[k].fd # NewFd(fdt)
      /\ \A fd \in Fds \ {NewFd(fdt)} : fdt'[fd] = fdt[fd]
  BY OpenFileFits, RequestFacts DEF Mount
<1>2. \A k \in DOMAIN mounts : mounts[k].fd \in Fds
  BY EntryFacts
<1>3. \A fd \in Fds \ {NewFd(fdt)} : cached'[fd] = cached[fd]
  BY DEF Mount, OpenFile, TInv
<1>4. mounts' = Append(mounts, [format |-> r.format, fd |-> NewFd(fdt)])
  BY DEF Mount
<1>5. \A k \in DOMAIN mounts : k \in DOMAIN mounts' /\ mounts'[k] = mounts[k]
  <2>1. PICK x \in MountEntries : x = [format |-> r.format, fd |-> NewFd(fdt)]
    <3>1. NewFd(fdt) \in ValidFds
      BY OpenFileFits, RequestFacts DEF Mount
    <3> QED BY <3>1, RequestFacts DEF MountEntries
  <2>2. mounts \in Seq(MountEntries) /\ mounts' = Append(mounts, x)
    BY <1>4, <2>1 DEF TInv, MountsFit
  <2> QED BY <2>2
<1> QED BY <1>1, <1>2, <1>3, <1>5 DEF MountsStay

\* A mounted volume or flat file touches no ring.
LEMMA MountOtherRings ==
    ASSUME TInv, SInv, RInv, [Next]_vars, NEW r \in Requests, r.format # "CircBuf", Mount(r)
    PROVE  RInv'
<1>1. AddMount(r, NewFd(fdt)) /\ UNCHANGED <<stores, sent>>
  BY DEF Mount, ResetRing
<1>2. PathsApart(devs) /\ RingDevsFit(devs) /\ FilesFine(stores) /\ DOMAIN sent = RingDirs
  BY DEF RInv
<1>3. /\ PathsApart(devs') /\ RingDevsFit(devs')
      /\ \A i \in DevIdx : Used(devs[i]) => devs'[i] = devs[i]
  BY <1>1, <1>2, AddMountRings
<1>4. ASSUME NEW dir \in RingDirs, sent'[dir] # Lost PROVE Kept(dir)
  <2>1. sent[dir] # Lost /\ sent'[dir] = sent[dir]
    BY <1>1, <1>4
  <2>2. PICK i \in DevIdx, v \in DevIdx, f \in ValidFds : RingTables(dir, i, v, f) /\ RingData(dir, v, f)
    BY <2>1, Followed
  <2>3. KeepsBytes(v, f)
    BY <1>1, <2>2, BytesSame
  <2>4. Used(devs[i]) /\ Used(devs[v])
    BY <2>2, RingTablesFacts DEF RingTables, RingDevice
  <2> QED BY <1>2, <1>3, <2>1, <2>2, <2>3, <2>4, KeptByTables, MountKeeps
<1> QED BY <1>1, <1>2, <1>3, <1>4, AllKept

\* The file a ring is mounted from, and the volume it is on.
LEMMA BackingFacts ==
    ASSUME TInv, SInv, RInv, NamesTellApart, NEW r \in Requests, r.format = "CircBuf", MayOpenPath(r.device)
    PROVE  \E w \in DevIdx :
              /\ w = DeviceFromPath(devs, Dirname(r.device)) /\ w = DeviceFromPathRecursive(devs, r.device)
              /\ Shown(w) /\ Used(devs[w]) /\ devs[w].path = Dirname(r.device)
              /\ Basename(r.device) \in DOMAIN VolumeOn(w)
<1>1. r.device \in RingFiles /\ r.device \in Asked
  BY DEF RingFiles, Asked
<1>2. DeviceFromPath(devs, r.device) = DevMax /\ \A i \in DevIdx : Used(devs[i]) => devs[i].path # r.device
  BY <1>1, RingFileIsNoDevice
<1>3. PICK w : w = DeviceFromPath(devs, Dirname(r.device)) /\ w # DevMax /\ IsVolume(devs[w]) /\ Basename(r.device) \in DOMAIN VolumeOn(w)
  BY <1>2 DEF MayOpenPath, FileExists, FileIn
<1>4. w \in DevIdx /\ Used(devs[w]) /\ devs[w].path = Dirname(r.device) /\ Shown(w)
  BY <1>3, DeviceFacts, FileIsShown
<1>5. PICK i \in DevIdx : i = DeviceFromPathRecursive(devs, r.device) /\ Used(devs[i]) /\ devs[i].path \in {r.device, Dirname(r.device)}
  BY <1>1, SearchFinds
<1>6. i = w
  BY <1>2, <1>4, <1>5 DEF RInv, PathsApart
<1> QED BY <1>3, <1>4, <1>5, <1>6

\* A ring that is mounted starts empty, in a file that nobody has open.
LEMMA MountRingRings ==
    ASSUME TInv, VInv, SInv, RInv, [Next]_vars, NamesTellApart, VolumesTellApart,
           NEW r \in Requests, r.format = "CircBuf", Mount(r)
    PROVE  RInv'
<1>1. PICK new : new = NewFd(fdt)
  OBVIOUS
<1>2. /\ OpenFile(r.device) /\ MayOpenPath(r.device) /\ AddMount(r, new) /\ BackingWritable(r)
      /\ mounts' = Append(mounts, [format |-> r.format, fd |-> new])
      /\ ResetRing(r) /\ sent' = [sent EXCEPT ![r.dir] = << >>]
  BY <1>1 DEF Mount, OpenFile
<1>3. r.device \in Paths /\ r.device \in RingFiles /\ r.dir \in RingDirs
  BY RequestFacts DEF RingFiles, RingDirs
<1>4. /\ new \in ValidFds /\ InUse(fdt', new) /\ fdt'[new].path = r.device
      /\ \A fd \in Fds \ {new} : fdt'[fd] = fdt[fd]
  BY <1>1, <1>2, <1>3, OpenFileFits
<1>5. PathsApart(devs) /\ RingDevsFit(devs) /\ FilesFine(stores) /\ DOMAIN sent = RingDirs
  BY DEF RInv
<1>6. /\ PathsApart(devs') /\ RingDevsFit(devs')
      /\ \A i \in DevIdx : Used(devs[i]) => devs'[i] = devs[i] /\ devs[i].path # r.dir
  BY <1>2, <1>5, AddMountRings
<1>7. PICK w \in DevIdx :
              /\ w = DeviceFromPath(devs, Dirname(r.device)) /\ w = DeviceFromPathRecursive(devs, r.device)
              /\ Shown(w) /\ Used(devs[w]) /\ devs[w].path = Dirname(r.device)
              /\ Basename(r.device) \in DOMAIN VolumeOn(w)
  BY <1>2, BackingFacts
<1>8. PICK q \in StorePaths : q = StoreOf(w) /\ VolumeOn(w) = stores[q].files
  BY <1>7, ShownFacts
<1>9. PICK b : b = stores[q].files[Basename(r.device)] /\ IsRingFile(b)
  <2>1. IsFile(stores[q].files[Basename(r.device)])
    BY <1>7, <1>8, FileIsFine
  <2>2. Len(stores[q].files[Basename(r.device)]) >= 4
    BY <1>2, <1>7, <1>8 DEF AddMount, Accepted
  <2> QED BY <2>1, <2>2 DEF IsRingFile
<1>10. PICK c : c = SetTail(SetHead(b, 0), 0) /\ IsRingOf(c, << >>)
  BY <1>9, RingEmptied
<1>11. stores' = Edited(stores, q, Basename(r.device), c)
  <2>1. stores' = [stores EXCEPT ![q].files[Basename(r.device)] = SetTail(SetHead(@, 0), 0)]
    BY <1>2, <1>7, <1>8 DEF ResetRing
  <2> QED BY <1>9, <1>10, <2>1 DEF Edited
<1>12. FilesFine(stores')
  <2>1. IsFile(c)
    BY <1>10 DEF IsRingOf, IsRingFile
  <2> QED BY <1>5, <1>11, <2>1, EditedFine
<1>13. devs[w].writable
  BY <1>2, <1>7 DEF BackingWritable
<1>14. ~FileIsOpen(fdt, r.device)
  BY <1>2, <1>3, <1>5, <1>7, <1>13, RingFileClosed
<1>15. MountsStay
  BY MountKeeps
<1>16. ASSUME NEW dir \in RingDirs, dir # r.dir, sent'[dir] # Lost PROVE Kept(dir)
  <2>1. sent[dir] # Lost /\ sent'[dir] = sent[dir]
    BY <1>2, <1>5, <1>16
  <2>2. PICK i \in DevIdx, v \in DevIdx, f \in ValidFds : RingTables(dir, i, v, f) /\ RingData(dir, v, f)
    BY <2>1, Followed
  <2>3. r.device # fdt[f].path
    BY <1>14 DEF FileIsOpen
  <2>4. KeepsBytes(v, f)
    BY <1>3, <1>5, <1>7, <1>8, <1>11, <2>2, <2>3, WrittenElsewhere
  <2>5. Used(devs[i]) /\ Used(devs[v])
    BY <2>2, RingTablesFacts DEF RingTables, RingDevice
  <2> QED BY <1>5, <1>6, <1>15, <2>1, <2>2, <2>4, <2>5, KeptByTables
<1>17. PICK j \in DevIdx : devs' = [devs EXCEPT ![j] = MountDevice(r, new, TRUE)]
  BY <1>2, AddMountTakesFree
<1>18. RingDevice(r.dir, j, new)'
  <2>1. devs'[j] = MountDevice(r, new, TRUE)
    BY <1>17 DEF TInv, DevsFit
  <2>2. TypeOfFormat(r.format) = "char"
    BY DEF TypeOfFormat
  <2>3. PICK d : d = MountDevice(r, new, TRUE) /\ d.path = r.dir /\ d.mount = TRUE /\ d.type = "char" /\ d.userData = new
    <3>1. /\ MountDevice(r, new, TRUE).path = r.dir /\ MountDevice(r, new, TRUE).mount = TRUE
          /\ MountDevice(r, new, TRUE).type = "char" /\ MountDevice(r, new, TRUE).userData = new
      BY <2>2 DEF MountDevice
    <3> QED BY <3>1
  <2>4. \E k \in DOMAIN mounts' : mounts'[k].fd = new /\ mounts'[k].format = "CircBuf"
    <3>1. PICK x \in MountEntries : x = [format |-> r.format, fd |-> new] /\ x.fd = new /\ x.format = "CircBuf"
      <4>1. "CircBuf" \in Formats
        BY DEF Formats
      <4>2. [format |-> r.format, fd |-> new] \in MountEntries
        BY <1>4, <4>1 DEF MountEntries
      <4> QED BY <4>2
    <3>2. mounts \in Seq(MountEntries) /\ mounts' = Append(mounts, x)
      BY <1>2, <3>1 DEF TInv, MountsFit
    <3>3. Len(mounts) + 1 \in DOMAIN mounts' /\ mounts'[Len(mounts) + 1] = x
      BY <3>2
    <3> QED BY <3>1, <3>3
  <2> QED BY <2>1, <2>3, <2>4 DEF RingDevice, Used
<1>19. Shown(w)' /\ VolumeOn(w)' = stores'[q].files /\ devs'[w] = devs[w]
  <2>1. ASSUME devs[w].mount
        PROVE  /\ \A l \in DOMAIN mounts : mounts[l].fd = devs[w].userData => \E m \in DOMAIN mounts' : mounts'[m] = mounts[l]
               /\ fdt'[devs[w].userData].path = fdt[devs[w].userData].path
    <3>1. PICK l \in DOMAIN mounts : mounts[l].fd = devs[w].userData
      BY <1>7, <2>1, ShownFacts
    <3> QED BY <1>15, <3>1 DEF MountsStay
  <2>2. devs'[w] = devs[w]
    BY <1>6, <1>7
  <2> QED BY <1>7, <1>8, <2>1, <2>2, VolumeStays
<1>20. RingVolume(w, new)'
  <2>1. cached'[new] = w
    <3>1. cached' = [cached EXCEPT ![new] = DeviceFromPathRecursive(devs, r.device)]
      BY <1>1, <1>2 DEF OpenFile
    <3>2. new \in Fds
      BY <1>4, FdMaxAssumption DEF ValidFds, Fds
    <3> QED BY <1>7, <3>1, <3>2 DEF TInv
  <2> QED BY <1>3, <1>4, <1>7, <1>13, <1>19, <2>1 DEF RingVolume
<1>21. Alone(new)'
  <2> SUFFICES ASSUME NEW g \in ValidFds, g # new, fdt'[g].path = fdt'[new].path PROVE FALSE
    BY DEF Alone
  <2>1. g \in Fds
    BY FdMaxAssumption DEF ValidFds, Fds
  <2>2. fdt[g].path = r.device
    BY <1>4, <2>1
  <2> QED BY <1>14, <2>2 DEF FileIsOpen
<1>22. RingTables(r.dir, j, w, new)'
  BY <1>18, <1>20, <1>21 DEF RingTables
<1>23. RingData(r.dir, w, new)'
  <2>1. /\ DOMAIN stores'[q].files = DOMAIN stores[q].files
        /\ stores'[q].files[Basename(r.device)] = c
    <3>1. PICK s, t : s = stores /\ t = stores' /\ t = Edited(s, q, Basename(r.device), c) /\ StoresFit(s)
      BY <1>11 DEF TInv
    <3>2. \A y \in StorePaths :
              /\ DOMAIN t[y].files = DOMAIN s[y].files
              /\ \A m \in DOMAIN s[y].files : t[y].files[m] = IF y = q /\ m = Basename(r.device) THEN c ELSE s[y].files[m]
      BY <3>1, EditFacts
    <3> QED BY <1>7, <1>8, <3>1, <3>2
  <2>2. sent'[r.dir] = << >>
    BY <1>2, <1>3, <1>5
  <2> QED BY <1>4, <1>7, <1>8, <1>10, <1>19, <2>1, <2>2 DEF RingData
<1>24. ~InUse(fdt, new)
  <2>1. FreeFds(fdt) # {}
    BY <1>2 DEF OpenFile
  <2> QED BY <1>1, <2>1, OpenFacts, <1>3 DEF TInv
<1>25. RingsFit' /\ RingsApart'
  BY <1>3, <1>4, <1>6, <1>16, <1>22, <1>23, <1>24, NewRing
<1>26. DOMAIN sent' = RingDirs
  BY <1>2, <1>5
<1> QED BY <1>6, <1>12, <1>25, <1>26 DEF RInv

\* What a remount copies is a part of the old volume.
LEMMA CopiedIsPart ==
    ASSUME NEW device, Room[device] \in Nat, NEW files, NEW n, n \in DOMAIN Copied(files, device)
    PROVE  n \in DOMAIN files /\ Copied(files, device)[n] = files[n]
<1>1. CASE Fits(files, device)
  BY <1>1 DEF Copied
<1>2. CASE ~Fits(files, device)
  <2> DEFINE part(S) == [m \in S |-> files[m]]
             names == CHOOSE S \in SUBSET DOMAIN files : Fits(part(S), device)
  <2>1. Fits(part({}), device)
    <3>1. DOMAIN part({}) = {}
      OBVIOUS
    <3> HIDE DEF part
    <3>2. FilesFit(part({}), device)
      BY <3>1, NoFilesFit
    <3> QED BY <3>2 DEF FilesFit, Fits
  <2>2. names \in SUBSET DOMAIN files
    BY <2>1
  <2>3. Copied(files, device) = part(names)
    BY <1>2 DEF Copied
  <2> HIDE DEF names
  <2> QED BY <2>2, <2>3
<1> QED BY <1>1, <1>2

\* A flat device that may be opened is not the one a volume is on.
LEMMA StoreNotOpened ==
    ASSUME TInv, VInv, NEW v \in DevIdx, Shown(v), NEW p \in FlatPaths, MayOpenPath(p)
    PROVE  StoreOf(v) # p
<1>1. CASE devs[v].mount
  <2>1. PICK k \in DOMAIN mounts : mounts[k].fd \in ValidFds /\ InUse(fdt, mounts[k].fd) /\ StoreOf(v) = fdt[mounts[k].fd].path
    BY <1>1, ShownFacts
  <2>2. ~FileIsOpen(fdt, p)
    BY MayOpenFacts DEF VInv
  <2> QED BY <2>1, <2>2 DEF FileIsOpen
<1>2. CASE ~devs[v].mount
  <2>1. StoreOf(v) = devs[v].path /\ Used(devs[v]) /\ devs[v].type = "MiniFs"
    BY <1>2, ShownFacts
  <2> QED BY <2>1 DEF VInv, FlatsFit
<1> QED BY <1>1, <1>2

\* The table of mounts and the descriptors after a remount.
LEMMA RemountRingTables ==
    ASSUME TInv, SInv, NEW r \in Requests, RemountMiniFs(r), Fits(VolumeOn(DeviceFromPath(devs, r.dir)), r.device),
           NEW d \in DevIdx, NEW k \in DOMAIN mounts, NEW old \in ValidFds, NEW new \in ValidFds,
           RemountEffect(r, d, k, old, new),
           NEW dir, NEW i \in DevIdx, NEW v \in DevIdx, NEW f \in ValidFds, RingTables(dir, i, v, f)
    PROVE  /\ f # old /\ f # new /\ i # d
           /\ fdt'[f] = fdt[f] /\ cached'[f] = cached[f] /\ devs'[i] = devs[i]
           /\ \E l \in DOMAIN mounts' : mounts'[l].fd = f /\ mounts'[l].format = "CircBuf"
<1>1. PICK l \in DOMAIN mounts : mounts[l].fd = f /\ mounts[l].format = "CircBuf"
  BY DEF RingTables, RingDevice
<1>2. l # k
  <2>1. PICK k0 : k0 = Min(MountOf(d))
    OBVIOUS
  <2>2. MountOf(d) # {} /\ IsDirFormat(r.format) = IsDirFormat(mounts[k0].format) /\ r.format = "MiniFs"
    BY <2>1 DEF RemountMiniFs, MayRemount, RemountEffect
  <2>3. k0 \in DOMAIN mounts /\ mounts[k0].fd = devs[d].userData
    BY <2>1, <2>2, MountOfFacts
  <2>4. k0 = k
    BY <2>3 DEF RemountEffect, TInv, MountsFit
  <2> QED BY <1>1, <2>2, <2>4 DEF IsDirFormat
<1>3. f # old
  BY <1>1, <1>2 DEF RemountEffect, TInv, MountsFit
<1>4. f \in Fds /\ InUse(fdt, f)
  BY RingTablesFacts
<1>5. f # new
  BY <1>4 DEF RemountEffect
<1>6. fdt'[f] = fdt[f]
  BY <1>3, <1>4, <1>5 DEF RemountEffect
<1>7. cached'[f] = cached[f]
  <2>1. PICK c0 : cached' = [cached EXCEPT ![NewFd(fdt)] = c0, ![mounts[Min(MountOf(DeviceFromPath(devs, r.dir)))].fd] = DevMax]
    BY DEF RemountMiniFs
  <2>2. mounts[Min(MountOf(DeviceFromPath(devs, r.dir)))].fd = old /\ NewFd(fdt) = new
    <3>1. MountOf(d) # {}
      BY DEF RemountMiniFs, MayRemount, RemountEffect
    <3> QED BY <3>1, MountOfFacts DEF RemountEffect
  <2>3. cached' = [cached EXCEPT ![new] = c0, ![old] = DevMax]
    BY <2>1, <2>2
  <2> QED BY <1>3, <1>4, <1>5, <2>3 DEF TInv
<1>8. i # d
  BY DEF RingTables, RingDevice, RemountEffect
<1>9. devs'[i] = devs[i]
  BY <1>8 DEF RemountEffect, TInv, DevsFit
<1>10. l \in DOMAIN mounts' /\ mounts'[l] = mounts[l]
  BY <1>2 DEF RemountEffect, TInv, MountsFit
<1> QED BY <1>1, <1>3, <1>5, <1>6, <1>7, <1>8, <1>9, <1>10

\* What remounting gives: the new flat device only is written, with files that were there.
LEMMA RemountFine ==
    ASSUME TInv, RInv, NEW r \in Requests, RemountMiniFs(r)
    PROVE  \E e : /\ stores' = [stores EXCEPT ![r.device] = e] /\ \A n \in DOMAIN e.files : IsFile(e.files[n])
<1>1. PICK d \in DevIdx : d = DeviceFromPath(devs, r.dir) /\ devs[d].type = "MiniFs" /\ r.device \in FlatPaths
  BY RemountFacts
<1>2. PICK files : files = Copied(VolumeOn(d), r.device)
  OBVIOUS
<1>3. stores' = [stores EXCEPT ![r.device] = Formatted(files)]
  BY <1>1, <1>2, RemountStores
<1>4. Room[r.device] \in Nat
  BY <1>1, FlatPathFacts, StoresAssumption
<1>5. ASSUME NEW n \in DOMAIN files PROVE IsFile(files[n])
  <2>1. n \in DOMAIN VolumeOn(d) /\ files[n] = VolumeOn(d)[n]
    BY <1>2, <1>4, CopiedIsPart
  <2>2. Shown(d)
    BY <1>1, <2>1, FileIsShown DEF IsVolume
  <2>3. IsFile(VolumeOn(d)[n])
    BY <2>1, <2>2, FileIsFine
  <2> QED BY <2>1, <2>3
<1>6. Formatted(files).files = files
  BY DEF Formatted
<1> QED BY <1>3, <1>5, <1>6

\* Files that are all right stay so when a store is written.
LEMMA StoreFine ==
    ASSUME TInv, FilesFine(stores), NEW q, NEW e, stores' = [stores EXCEPT ![q] = e], \A n \in DOMAIN e.files : IsFile(e.files[n])
    PROVE  FilesFine(stores')
<1>1. DOMAIN stores = StorePaths
  BY DEF TInv, StoresFit
<1>2. \A p \in StorePaths : stores'[p] = IF p = q THEN e ELSE stores[p]
  BY <1>1
<1> QED BY <1>2 DEF FilesFine

\* The volume that shows a ring's file does so after the remount: it is the one that
\* got a new store with the same files, or another one.
LEMMA RemountKeepsRing ==
    ASSUME TInv, VInv, SInv, RInv, [Next]_vars, VolumesTellApart,
           NEW r \in Requests, RemountMiniFs(r), Fits(VolumeOn(DeviceFromPath(devs, r.dir)), r.device),
           NEW d \in DevIdx, NEW k \in DOMAIN mounts, NEW old \in ValidFds, NEW new \in ValidFds,
           RemountEffect(r, d, k, old, new),
           NEW dir \in RingDirs, sent[dir] # Lost
    PROVE  Kept(dir)
<1>1. PICK i \in DevIdx, v \in DevIdx, f \in ValidFds : RingTables(dir, i, v, f) /\ RingData(dir, v, f)
  BY Followed
<1>2. /\ fdt'[f] = fdt[f] /\ cached'[f] = cached[f] /\ devs'[i] = devs[i]
      /\ \E l \in DOMAIN mounts' : mounts'[l].fd = f /\ mounts'[l].format = "CircBuf"
  BY <1>1, RemountRingTables
<1>3. Shown(v) /\ devs[v].writable /\ PathsApart(devs)
  BY <1>1 DEF RingTables, RingVolume, RInv
<1>4. sent' = sent
  BY DEF RemountMiniFs
<1>5. CASE v = d
  <2>1. Fits(VolumeOn(d), r.device)
    BY DEF RemountEffect
  <2>2. devs'[d].mount /\ Mounted(d)' /\ VolumeOn(d)' = VolumeOn(d)
    BY <2>1, RemountShowsTheSame
  <2>3. devs'[d] = MountDevice(r, new, devs[d].many)
    BY DEF RemountEffect, TInv, DevsFit
  <2>4. devs'[d].type = "MiniFs" /\ devs'[d].path = r.dir /\ devs'[d].writable = TRUE
    BY <2>3 DEF MountDevice, TypeOfFormat, RemountEffect
  <2>5. devs[d].path = r.dir /\ devs[d].writable = TRUE
    <3>1. devs[d] \in Devices
      BY EntryFacts DEF RemountEffect
    <3>2. devs[d].writable \in BOOLEAN
      BY <3>1 DEF Devices
    <3> QED BY <1>3, <1>5, <3>2 DEF RemountEffect
  <2>6. Shown(v)'
    BY <1>5, <2>2, <2>4 DEF Shown, IsVolume
  <2>7. RingTables(dir, i, v, f)'
    BY <1>1, <1>2, <1>3, <1>5, <2>4, <2>5, <2>6, RingStays
  <2>8. RingData(dir, v, f)'
    BY <1>1, <1>2, <1>4, <1>5, <2>2 DEF RingData
  <2> QED BY <1>1, <2>7, <2>8 DEF Kept
<1>6. CASE v # d
  <2>1. devs'[v] = devs[v]
    BY <1>6 DEF RemountEffect, TInv, DevsFit
  <2>2. ASSUME devs[v].mount
        PROVE  /\ \A l \in DOMAIN mounts : mounts[l].fd = devs[v].userData => \E m \in DOMAIN mounts' : mounts'[m] = mounts[l]
               /\ fdt'[devs[v].userData].path = fdt[devs[v].userData].path
    <3>1. devs[v].userData # old
      BY <1>3, <1>6, <2>2 DEF VolumesTellApart, RemountEffect, Shown, IsVolume
    <3>2. \A l \in DOMAIN mounts : l # k => l \in DOMAIN mounts' /\ mounts'[l] = mounts[l]
      BY DEF RemountEffect, TInv, MountsFit
    <3>3. PICK l \in DOMAIN mounts : mounts[l].fd = devs[v].userData /\ InUse(fdt, mounts[l].fd)
      BY <1>3, <2>2, ShownFacts
    <3>4. mounts[l].fd \in Fds
      BY EntryFacts
    <3>5. mounts[l].fd # new
      BY <3>3 DEF RemountEffect
    <3>6. fdt'[devs[v].userData] = fdt[devs[v].userData]
      BY <3>1, <3>3, <3>4, <3>5 DEF RemountEffect
    <3>7. mounts[k].fd = old
      BY DEF RemountEffect
    <3> QED BY <3>1, <3>2, <3>6, <3>7
  <2>3. Shown(v)' /\ VolumeOn(v)' = stores'[StoreOf(v)].files
    BY <1>3, <2>1, <2>2, VolumeStays
  <2>4. KeepsBytes(v, f)
    <3>1. StoreOf(v) # r.device
      BY <1>3, StoreNotOpened DEF RemountEffect
    <3>2. PICK e : stores' = [stores EXCEPT ![r.device] = e]
      BY RemountFine
    <3>3. stores'[StoreOf(v)] = stores[StoreOf(v)]
      BY <3>1, <3>2
    <3>4. VolumeOn(v) = stores[StoreOf(v)].files
      BY <1>3, ShownFacts
    <3> QED BY <1>1, <3>3, <3>4 DEF KeepsBytes, RingData
  <2>5. RingTables(dir, i, v, f)'
    BY <1>1, <1>2, <1>3, <2>1, <2>3, RingStays
  <2>6. RingData(dir, v, f)'
    BY <1>1, <1>2, <1>3, <1>4, <2>3, <2>4, DataStays
  <2> QED BY <1>1, <2>5, <2>6 DEF Kept
<1> QED BY <1>5, <1>6

\* A remount keeps the rings on the volume it moves, and all others.
LEMMA RemountRings ==
    ASSUME TInv, VInv, SInv, RInv, [Next]_vars, VolumesTellApart, NEW r \in Requests, RemountMiniFs(r)
    PROVE  RInv'
<1>1. PICK e : stores' = [stores EXCEPT ![r.device] = e] /\ \A n \in DOMAIN e.files : IsFile(e.files[n])
  BY RemountFine
<1>2. MayOpenPath(r.device) /\ r.device \in FlatPaths
  BY RemountFacts
<1>3. CASE ~Fits(VolumeOn(DeviceFromPath(devs, r.dir)), r.device)
  <2>1. UNCHANGED <<devs, fdt, cached, mounts, sent>>
    BY <1>3 DEF RemountMiniFs
  <2>2. \A v \in DevIdx : Shown(v) => StoreOf(v) # r.device
    BY <1>2, StoreNotOpened
  <2> QED BY <1>1, <2>1, <2>2, OtherStoreWritten
<1>4. CASE Fits(VolumeOn(DeviceFromPath(devs, r.dir)), r.device)
  <2>1. PICK d \in DevIdx, k \in DOMAIN mounts, old \in ValidFds, new \in ValidFds : RemountEffect(r, d, k, old, new)
    BY <1>4, RemountTables
  <2>2. PathsApart(devs) /\ RingDevsFit(devs) /\ FilesFine(stores) /\ DOMAIN sent = RingDirs
    BY DEF RInv
  <2>3. sent' = sent
    BY DEF RemountMiniFs
  <2>4. \A dir \in RingDirs : sent'[dir] # Lost => Kept(dir)
    BY <1>4, <2>1, <2>3, RemountKeepsRing
  <2>5. FilesFine(stores')
    BY <1>1, <2>2, StoreFine
  <2>6. \A i \in DevIdx : i # d => devs'[i] = devs[i]
    BY <2>1 DEF RemountEffect, TInv, DevsFit
  <2>7. devs'[d].path = devs[d].path /\ devs'[d].type = "MiniFs" /\ Used(devs[d])
    <3>1. devs'[d] = MountDevice(r, new, devs[d].many)
      BY <2>1 DEF RemountEffect, TInv, DevsFit
    <3> QED BY <2>1, <3>1 DEF MountDevice, TypeOfFormat, RemountEffect
  <2>8. PathsApart(devs')
    BY <2>2, <2>6, <2>7 DEF PathsApart
  <2>9. RingDevsFit(devs')
    BY <2>2, <2>6, <2>7 DEF RingDevsFit
  <2> QED BY <2>2, <2>3, <2>4, <2>5, <2>8, <2>9, AllKept
<1> QED BY <1>3, <1>4

\* Nothing is mounted at the start.
LEMMA InitRings == ASSUME Init PROVE RInv
<1>1. DOMAIN BootDevices = 1 .. Len(BootDevices) /\ Len(BootDevices) \in Nat /\ Len(BootDevices) < DevMax
  BY BootAssumption, MountsAssumption
<1>2. ASSUME NEW i \in DevIdx, Used(devs[i])
      PROVE  i + 1 \in DOMAIN BootDevices /\ devs[i].path = BootDevices[i + 1].path /\ devs[i].mount = FALSE
  <2>1. i + 1 \in DOMAIN BootDevices
    BY <1>1, <1>2 DEF Init, DevIdx, NoDev, Used
  <2>2. devs[i] = BootDevice(BootDevices[i + 1])
    BY <1>1, <2>1 DEF Init, DevIdx
  <2> QED BY <2>1, <2>2 DEF BootDevice
<1>3. PathsApart(devs)
  <2> SUFFICES ASSUME NEW i \in DevIdx, NEW j \in DevIdx, Used(devs[i]), Used(devs[j]), devs[i].path = devs[j].path
               PROVE  i = j
    BY DEF PathsApart
  <2>1. i + 1 = j + 1
    <3>1. i + 1 \in DOMAIN BootDevices /\ j + 1 \in DOMAIN BootDevices
      BY <1>2
    <3>2. BootDevices[i + 1].path = BootDevices[j + 1].path
      BY <1>2
    <3> QED BY <3>1, <3>2, BootAssumption
  <2> QED BY <2>1, MountsAssumption DEF DevIdx
<1>4. RingDevsFit(devs)
  BY <1>2 DEF RingDevsFit
<1>5. FilesFine(stores)
  BY StoresAssumption DEF Init, FilesFine, IsFile
<1>6. DOMAIN sent = RingDirs /\ \A dir \in RingDirs : sent[dir] = Lost
  BY DEF Init
<1>7. RingsFit /\ RingsApart
  BY <1>6 DEF RingsFit, RingsApart
<1> QED BY <1>3, <1>4, <1>5, <1>6, <1>7 DEF RInv

\* Every step keeps the invariant.
LEMMA NextRings ==
    ASSUME NamesTellApart, VolumesTellApart, TInv, TInv', VInv, SInv, RInv, [Next]_vars
    PROVE  RInv'
<1>1. CASE UNCHANGED vars
  <2>1. MountsStay /\ UNCHANGED <<devs, stores, sent>>
    BY <1>1 DEF vars, MountsStay
  <2> QED BY <2>1, TablesOnly
<1>2. ASSUME NEW r \in Requests, Mount(r) PROVE RInv'
  <2>1. CASE r.format = "CircBuf"
    BY <1>2, <2>1, MountRingRings
  <2>2. CASE r.format # "CircBuf"
    BY <1>2, <2>2, MountOtherRings
  <2> QED BY <2>1, <2>2
<1>3. ASSUME NEW r \in Requests, MountHalf(r) PROVE RInv'
  BY <1>3, MountHalfRings
<1>4. ASSUME NEW r \in Requests, RemountMiniFs(r) PROVE RInv'
  BY <1>4, RemountRings
<1>5. ASSUME NEW r \in Requests, RemountFails(r) PROVE RInv'
  <2>1. OpenFile(r.device) /\ UNCHANGED <<devs, mounts, stores, sent>>
    BY <1>5 DEF RemountFails
  <2> QED BY <2>1, RequestFacts, OpenRings
<1>6. ASSUME NEW p \in Unmounted, Unmount(p) PROVE RInv'
  BY <1>6, UnmountRings
<1>7. ASSUME NEW p \in Deleted, DeleteDevice(p) PROVE RInv'
  BY <1>7, DeleteDeviceRings
<1>8. ASSUME NEW p \in Opened, Open(p) PROVE RInv'
  <2>1. p \in Paths /\ OpenFile(p) /\ UNCHANGED <<devs, mounts, stores, sent>>
    BY <1>8, MountsAssumption DEF Open
  <2> QED BY <2>1, OpenRings
<1>9. ASSUME NEW p \in Created, DeleteFile(p) PROVE RInv'
  <2>1. p \in Paths
    BY MountsAssumption
  <2> QED BY <1>9, <2>1, DeleteFileRings
<1>10. ASSUME NEW p \in Created, NEW n \in Sizes, NEW v \in Data, CreateFile(p, n, v) PROVE RInv'
  BY <1>10, CreateFileRings
<1>11. ASSUME NEW fd \in ValidFds, Close(fd) PROVE RInv'
  BY <1>11, CloseRings
<1>12. ASSUME NEW fd \in ValidFds, WriteFlat(fd) PROVE RInv'
  BY <1>12, WriteFlatRings
<1>13. ASSUME NEW fd \in ValidFds, RingRead(fd) PROVE RInv'
  BY <1>13, RingReadRings
<1>14. ASSUME NEW fd \in ValidFds, NEW v \in Data, WriteFile(fd, v) PROVE RInv'
  BY <1>14, WriteFileRings
<1>15. ASSUME NEW fd \in ValidFds, NEW s \in Pushes, RingWrite(fd, s) PROVE RInv'
  BY <1>15, RingWriteRings
<1> QED BY <1>1, <1>2, <1>3, <1>4, <1>5, <1>6, <1>7, <1>8, <1>9, <1>10, <1>11, <1>12, <1>13, <1>14, <1>15 DEF Next

\* What a reader of a ring gets is what writers were told is written, in order and
\* nothing else (kernelMountCharacterReadFunctor and kernelMountCharacterWriteFunctor,
\* kernelmount.c:511, 598, and the offsets in the file, 700-809), whatever is opened,
\* written, mounted, remounted, created and deleted around its file: provided flat
\* devices are not removed, no names confuse the search, and no two volumes name one mount.
THEOREM RingsHoldWhatWasSent ==
    ASSUME FlatDevicesStay, NamesTellApart
    PROVE  Spec /\ []VolumesTellApart => []RingHoldsWhatWasSent
<1>1. Init => VInv /\ SInv /\ RInv
  BY InitIntact, InitTold, InitRings
<1>2. TInv /\ TInv' /\ VInv /\ SInv /\ RInv /\ VolumesTellApart /\ [Next]_vars => VInv' /\ SInv' /\ RInv'
  BY NextIntact, NextTold, NextRings
<1>3. TInv /\ SInv /\ RInv => RingHoldsWhatWasSent
  <2> SUFFICES ASSUME TInv, SInv, RInv, NEW i \in DevIdx, Used(devs[i]), devs[i].path \in RingDirs, sent[devs[i].path] # Lost
               PROVE  RingContent(BytesOf(devs[i].userData)) = sent[devs[i].path]
    BY DEF RingHoldsWhatWasSent
  <2>1. PICK j \in DevIdx, v \in DevIdx, f \in ValidFds : RingTables(devs[i].path, j, v, f) /\ RingData(devs[i].path, v, f)
    BY Followed
  <2>2. i = j /\ f = devs[i].userData
    BY <2>1 DEF RingTables, RingDevice, RInv, PathsApart
  <2>3. IsRingOf(BytesOf(f), sent[devs[i].path])
    BY <2>1, RingTablesFacts
  <2> QED BY <2>2, <2>3, RingContentIsHeld DEF IsRingOf
<1> QED BY <1>1, <1>2, <1>3, Invariance, PTL DEF Spec

(***************************************************************************)
(* Two volumes name one mount only after a device has lost its own.        *)
(***************************************************************************)
\* A volume of the boot that is remounted has no descriptor's number for its user data.
BootVolumesTellApart ==
    \A b \in DOMAIN BootDevices :
        BootDevices[b].type = "MiniFs" /\ BootDevices[b].path \in {r.dir : r \in Requests}
            => BootDevices[b].userData \notin ValidFds

\* No two devices name one mount.
MountsApart ==
    \A i, j \in DevIdx :
        Used(devs[i]) /\ devs[i].mount /\ Used(devs[j]) /\ devs[j].mount /\ devs[i].userData = devs[j].userData => i = j
BootVolumesFit ==
    \A j \in DevIdx :
        IsVolume(devs[j]) /\ ~devs[j].mount /\ devs[j].path \in {r.dir : r \in Requests} => devs[j].userData \notin ValidFds

\* A device that is mounted with a descriptor no mount has.
LEMMA FreshMountApart ==
    ASSUME TInv, Orphans = {}, MountsApart, BootVolumesFit,
           NEW j \in DevIdx, NEW r \in Requests, NEW fd, NEW many, devs' = [devs EXCEPT ![j] = MountDevice(r, fd, many)],
           \A k \in DOMAIN mounts : mounts[k].fd # fd
    PROVE  MountsApart' /\ BootVolumesFit'
<1>1. devs'[j].mount = TRUE /\ devs'[j].userData = fd /\ \A i \in DevIdx \ {j} : devs'[i] = devs[i]
  BY DEF TInv, DevsFit, MountDevice
<1>2. ASSUME NEW i \in DevIdx, i # j, Used(devs[i]), devs[i].mount PROVE devs[i].userData # fd
  <2>1. Mounted(i)
    BY <1>2 DEF Orphans
  <2> QED BY <2>1 DEF Mounted
<1>3. MountsApart'
  BY <1>1, <1>2 DEF MountsApart
<1>4. BootVolumesFit'
  BY <1>1 DEF BootVolumesFit
<1> QED BY <1>3, <1>4

LEMMA RemovalApart ==
    ASSUME TInv, MountsApart, BootVolumesFit, NEW j \in DevIdx, devs' = [devs EXCEPT ![j] = NoDev]
    PROVE  MountsApart' /\ BootVolumesFit'
<1>1. devs'[j] = NoDev /\ ~Used(NoDev) /\ ~IsVolume(NoDev) /\ \A i \in DevIdx \ {j} : devs'[i] = devs[i]
  BY DEF TInv, DevsFit, NoDev, Used, IsVolume
<1> QED BY <1>1 DEF MountsApart, BootVolumesFit

LEMMA InitApart == ASSUME BootVolumesTellApart, Init PROVE MountsApart /\ BootVolumesFit
<1>1. DOMAIN BootDevices = 1 .. Len(BootDevices) /\ Len(BootDevices) \in Nat /\ Len(BootDevices) < DevMax
  BY BootAssumption, MountsAssumption
<1>2. ASSUME NEW i \in DevIdx, Used(devs[i])
      PROVE  \E b \in DOMAIN BootDevices :
                /\ devs[i].mount = FALSE /\ devs[i].type = BootDevices[b].type
                /\ devs[i].path = BootDevices[b].path /\ devs[i].userData = BootDevices[b].userData
  <2>1. i + 1 \in DOMAIN BootDevices
    BY <1>1, <1>2 DEF Init, DevIdx, NoDev, Used
  <2>2. devs[i] = BootDevice(BootDevices[i + 1])
    BY <1>1, <2>1 DEF Init, DevIdx
  <2> QED BY <2>1, <2>2 DEF BootDevice
<1>3. MountsApart
  BY <1>2 DEF MountsApart
<1>4. BootVolumesFit
  BY <1>2 DEF BootVolumesFit, BootVolumesTellApart, IsVolume, Used
<1> QED BY <1>3, <1>4

LEMMA NextApart ==
    ASSUME TInv, Orphans = {}, MountsApart, BootVolumesFit, [Next]_vars
    PROVE  MountsApart' /\ BootVolumesFit'
<1>1. ASSUME UNCHANGED devs PROVE MountsApart' /\ BootVolumesFit'
  BY <1>1 DEF MountsApart, BootVolumesFit
<1>2. ASSUME NEW r \in Requests, FreeFds(fdt) # {}, AddMount(r, NewFd(fdt)) PROVE MountsApart' /\ BootVolumesFit'
  <2>1. PICK j \in DevIdx : devs' = [devs EXCEPT ![j] = MountDevice(r, NewFd(fdt), TRUE)]
    BY <1>2, AddMountTakesFree
  <2>2. ~InUse(fdt, NewFd(fdt))
    BY <1>2, OpenFacts, RequestFacts DEF TInv
  <2>3. \A k \in DOMAIN mounts : mounts[k].fd # NewFd(fdt)
    BY <2>2, FreeIsNotHeld DEF TInv
  <2> QED BY <2>1, <2>3, FreshMountApart
<1>3. ASSUME NEW r \in Requests, RemountMiniFs(r) PROVE MountsApart' /\ BootVolumesFit'
  <2>1. CASE ~Fits(VolumeOn(DeviceFromPath(devs, r.dir)), r.device)
    <3>1. UNCHANGED devs
      BY <1>3, <2>1 DEF RemountMiniFs
    <3> QED BY <1>1, <3>1
  <2>2. CASE Fits(VolumeOn(DeviceFromPath(devs, r.dir)), r.device)
    <3>1. PICK i \in DevIdx, k \in DOMAIN mounts, old \in ValidFds, new \in ValidFds : RemountEffect(r, i, k, old, new)
      BY <1>3, <2>2, RemountTables
    <3>2. devs' = [devs EXCEPT ![i] = MountDevice(r, new, devs[i].many)] /\ ~InUse(fdt, new)
      BY <3>1 DEF RemountEffect
    <3>3. \A l \in DOMAIN mounts : mounts[l].fd # new
      BY <3>2, FreeIsNotHeld DEF TInv
    <3> QED BY <3>2, <3>3, FreshMountApart
  <2> QED BY <2>1, <2>2
<1>4. ASSUME NEW p, Unmount(p) \/ DeleteDevice(p) PROVE MountsApart' /\ BootVolumesFit'
  <2>1. PICK j : j = DeviceFromPath(devs, p) /\ j # DevMax /\ devs' = [devs EXCEPT ![j] = NoDev]
    BY <1>4 DEF Unmount, DeleteDevice
  <2>2. j \in DevIdx
    BY <2>1, DeviceFacts
  <2> QED BY <2>1, <2>2, RemovalApart
<1>5. ASSUME NEW r \in Requests, Mount(r) \/ MountHalf(r) PROVE FreeFds(fdt) # {} /\ AddMount(r, NewFd(fdt))
  BY <1>5 DEF Mount, MountHalf, OpenFile
<1> QED BY <1>1, <1>2, <1>3, <1>4, <1>5, DeviceSteps

LEMMA ApartMeansVolumes ==
    ASSUME TInv, MountsApart, BootVolumesFit
    PROVE  VolumesTellApart
<1> SUFFICES ASSUME NEW i \in DevIdx, NEW j \in DevIdx,
                    IsVolume(devs[i]), devs[i].mount, IsVolume(devs[j]),
                    devs[j].mount \/ devs[j].path \in {r.dir : r \in Requests}, devs[i].userData = devs[j].userData
             PROVE  i = j
  BY DEF VolumesTellApart
<1>1. Used(devs[i]) /\ Used(devs[j]) /\ devs[i].userData \in ValidFds
  BY DEF IsVolume, Used, TInv, DevsFit
<1>2. CASE devs[j].mount
  BY <1>1, <1>2 DEF MountsApart
<1>3. CASE ~devs[j].mount
  BY <1>1, <1>3 DEF BootVolumesFit
<1> QED BY <1>2, <1>3

\* As long as no device has lost its mount (OrphansHaveACause tells how it might), no
\* two volumes name one mount, and rings hold what was sent (kernelMount,
\* kernelUnmount and kernelRemount, kernelmount.c:39, 144, 178).
THEOREM RingsHoldWithoutOrphans ==
    ASSUME FlatDevicesStay, NamesTellApart, BootVolumesTellApart
    PROVE  Spec /\ [](Orphans = {}) => []RingHoldsWhatWasSent
<1>1. Init => MountsApart /\ BootVolumesFit
  BY InitApart
<1>2. TInv /\ Orphans = {} /\ MountsApart /\ BootVolumesFit /\ [Next]_vars => MountsApart' /\ BootVolumesFit'
  BY NextApart
<1>3. TInv /\ MountsApart /\ BootVolumesFit => VolumesTellApart
  BY ApartMeansVolumes
<1>4. Spec /\ [](Orphans = {}) => []VolumesTellApart
  BY <1>1, <1>2, <1>3, Invariance, PTL DEF Spec
<1>5. Spec /\ []VolumesTellApart => []RingHoldsWhatWasSent
  BY RingsHoldWhatWasSent
<1> QED BY <1>4, <1>5, PTL
=============================================================================

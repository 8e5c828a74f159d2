------------------------------- MODULE MiniFs -------------------------------
(***************************************************************************)
(* A MiniFs volume (minifs.c). Space is handed out in units of Factor      *)
(* bytes. Unit 0 holds the header: the volume's size and a table with the  *)
(* first unit of each file. A file starts with its length, its size in     *)
(* units and its name; the contents follow.                                *)
(*                                                                         *)
(* The table is kept sorted with the unused entries last, so it is the set *)
(* of its entries that says everything, here the domain of `files'; that   *)
(* miniFsResortFileOffsets does sort is ResortSorts below. Addresses of    *)
(* the start of a file in `bytes' are not used, as the fields stored there *)
(* are in `files'. Lengths and sizes have the widths of their fields.      *)
(***************************************************************************)
EXTENDS Integers, FiniteSets

CONSTANTS
    Names, Values,
    HeaderLen,     \* bytes before the contents: length, size, name, terminator
    Factor,        \* MINIFSFACTOR, bytes per unit
    TotalUnits,    \* units of the volume, the header's included
    MaxFiles,      \* MINIFSMAXFILES
    SizeWidth,     \* a size in units is below this: 256
    LenWidth,      \* a length in bytes is below this: 65536
    MaxRequest,    \* bound: the largest length anybody asks for
    Erased         \* what is in memory at first

ASSUME MiniFsAssumption ==
    /\ HeaderLen \in [Names -> Nat \ {0}]
    /\ Factor \in Nat \ {0} /\ TotalUnits \in Nat \ {0} /\ MaxFiles \in Nat \ {0}
    /\ SizeWidth \in Nat \ {0} /\ LenWidth \in Nat \ {0} /\ MaxRequest \in Nat
    /\ TotalUnits <= SizeWidth
    /\ Erased \in Values

VARIABLES files,   \* first unit of a file -> the fields at its start
          bytes    \* address -> contents

vars == <<files, bytes>>

Units == 1 .. (TotalUnits - 1)
Addresses == 0 .. (TotalUnits * Factor - 1)
Headers == [name : Names, len : 0 .. (LenWidth - 1), size : 0 .. (SizeWidth - 1)]

\* miniFsFormat
Init == files = << >> /\ bytes = [a \in Addresses |-> Erased]
-----------------------------------------------------------------------------
Offsets == DOMAIN files
Exists(name) == \E o \in Offsets : files[o].name = name
At(name) == CHOOSE o \in Offsets : files[o].name = name

ContentLen(o) == files[o].len - HeaderLen[files[o].name]
ContentAddress(o, name) == o * Factor + HeaderLen[name]

TotalLength(name, n) == (HeaderLen[name] + n) % LenWidth

\* Mutant: rounded down.
SizeFactorDown(total) == (total \div Factor) % SizeWidth

SizeFactor(total) == ((total + Factor - 1) \div Factor) % SizeWidth

\* The units from u on are free for n of them, up to the next file and the end
\* of the volume.
Fits(n, u) ==
    /\ u + n <= TotalUnits
    /\ \A o \in Offsets : o >= u => u + n <= o

\* Mutant: the gap before the first file is not looked at.
GapStartsBehind == IF files = << >> THEN {1} ELSE {o + files[o].size : o \in Offsets}

\* Where miniFsFindFreeRegionFactor looks: before the first file and then behind
\* each one.
GapStarts == {1} \cup {o + files[o].size : o \in Offsets}

\* The first gap of n units, or 0.
FindFreeRegion(n) ==
    LET fitting == {u \in GapStarts : Fits(n, u)}
    IN IF fitting = {} THEN 0 ELSE CHOOSE u \in fitting : \A v \in fitting : u <= v

\* miniFsResortFileOffsets on a table of entries of which 0 is an unused one:
\* neighbours are swapped in passes, each one entry shorter than the one before,
\* until a pass changes nothing.
SwapAt(t, i) ==
    IF t[i] # 0 /\ (t[i - 1] = 0 \/ t[i - 1] > t[i])
    THEN [t EXCEPT ![i - 1] = t[i], ![i] = t[i - 1]] ELSE t

\* Mutant: the last entry of a pass is left out.
PassShort(t, max) ==
    LET upTo[i \in 1 .. max] == IF i = 1 THEN t ELSE IF i = max THEN upTo[i - 1] ELSE SwapAt(upTo[i - 1], i)
    IN upTo[max]

Pass(t, max) ==
    LET upTo[i \in 1 .. max] == IF i = 1 THEN t ELSE SwapAt(upTo[i - 1], i)
    IN upTo[max]

Resort(t, max) ==
    LET after[k \in 0 .. max] ==
          IF k = 0 THEN [table |-> t, change |-> TRUE]
          ELSE IF ~after[k - 1].change THEN after[k - 1]
          ELSE LET next == Pass(after[k - 1].table, max - k + 1)
               IN [table |-> next, change |-> next # after[k - 1].table]
    IN after[max].table

\* The files with a header at unit o, which may be new, and none at `gone'.
Placed(o, header, gone) ==
    [u \in (Offsets \ gone) \cup {o} |-> IF u = o THEN header ELSE files[u]]
-----------------------------------------------------------------------------
\* Mutant: not looked whether there was a region.
CreateAnyway(name, n) ==
    LET total == TotalLength(name, n)
        o == FindFreeRegion(SizeFactor(total))
    IN /\ ~Exists(name)
       /\ Cardinality(Offsets) < MaxFiles
       /\ files' = Placed(o, [name |-> name, len |-> total, size |-> SizeFactor(total)], {})
       /\ UNCHANGED bytes

Create(name, n) ==
    LET total == TotalLength(name, n)
        o == FindFreeRegion(SizeFactor(total))
    IN /\ ~Exists(name)
       /\ Cardinality(Offsets) < MaxFiles
       /\ o # 0
       /\ files' = Placed(o, [name |-> name, len |-> total, size |-> SizeFactor(total)], {})
       /\ UNCHANGED bytes

Delete(name) ==
    /\ Exists(name)
    /\ files' = [u \in Offsets \ {At(name)} |-> files[u]]
    /\ UNCHANGED bytes

\* A file that does not grow gives back the units it no longer needs.
Shrink(name, n) ==
    LET o == At(name)
        total == files[o].len - (ContentLen(o) - n)
    IN /\ Exists(name) /\ n <= ContentLen(o)
       /\ files' = [files EXCEPT ![o].len = total, ![o].size = SizeFactor(total)]
       /\ UNCHANGED bytes

\* Mutant: only the end of the volume is in the way.
GrowInPlaceOver(name, n) ==
    LET o == At(name)
        total == TotalLength(name, n)
    IN /\ Exists(name) /\ n > ContentLen(o)
       /\ o + SizeFactor(total) <= TotalUnits
       /\ files' = [files EXCEPT ![o].len = total, ![o].size = SizeFactor(total)]
       /\ UNCHANGED bytes

\* It grows within its units, or into free ones behind it.
GrowInPlace(name, n) ==
    LET o == At(name)
        total == TotalLength(name, n)
    IN /\ Exists(name) /\ n > ContentLen(o)
       /\ \/ /\ total <= files[o].size * Factor
             /\ files' = [files EXCEPT ![o].len = total]
          \/ /\ total > files[o].size * Factor
             /\ Fits(SizeFactor(total) - 1, o + 1)
             /\ files' = [files EXCEPT ![o].len = total, ![o].size = SizeFactor(total)]
       /\ UNCHANGED bytes

\* Mutant: the copy begins with the header of the old place.
CopiedFromStart(o, to) ==
    LET new == ContentAddress(to, files[o].name)
    IN [a \in Addresses |-> IF a \in new .. (new + ContentLen(o) - 1) THEN bytes[a - new + o * Factor] ELSE bytes[a]]

\* The bytes of the file at o, copied to where its new place `to' has them.
Copied(o, to) ==
    LET name == files[o].name
        new == ContentAddress(to, name)
    IN [a \in Addresses |->
          IF a \in new .. (new + ContentLen(o) - 1)
          THEN bytes[a - new + ContentAddress(o, name)] ELSE bytes[a]]

\* It moves to a gap that is large enough, if there is one.
GrowByMoving(name, n) ==
    LET o == At(name)
        total == TotalLength(name, n)
        size == SizeFactor(total)
        to == FindFreeRegion(size)
    IN /\ Exists(name) /\ n > ContentLen(o)
       /\ total > files[o].size * Factor /\ ~Fits(size - 1, o + 1)
       /\ to # 0
       /\ files' = Placed(to, [name |-> name, len |-> total, size |-> size], {o})
       /\ bytes' = Copied(o, to)

\* kernelFsFileResize refuses the largest length, then miniFsFileResize.
Resize(name, n) ==
    /\ n < LenWidth - 1
    /\ Shrink(name, n) \/ GrowInPlace(name, n) \/ GrowByMoving(name, n)

\* miniFsFileWrite of len bytes, all of them v, cut off at the end of the file.
Write(name, offset, len, v) ==
    LET o == At(name)
        from == ContentAddress(o, name) + offset
        count == IF len > ContentLen(o) - offset THEN ContentLen(o) - offset ELSE len
    IN /\ Exists(name) /\ offset < ContentLen(o)
       /\ bytes' = [a \in Addresses |-> IF a \in from .. (from + count - 1) THEN v ELSE bytes[a]]
       /\ UNCHANGED files

Next ==
    \E name \in Names :
        \/ Delete(name)
        \/ \E n \in 0 .. MaxRequest : Create(name, n) \/ Resize(name, n)
        \/ \E offset \in 0 .. MaxRequest, len \in 1 .. MaxRequest, v \in Values : Write(name, offset, len, v)

Spec == Init /\ [][Next]_vars
-----------------------------------------------------------------------------
TypeOK ==
    /\ Offsets \subseteq Units
    /\ files \in [Offsets -> Headers]
    /\ bytes \in [Addresses -> Values]

\* No two files share a unit and none reaches beyond the volume, through any
\* sequence of creating, deleting, shrinking, growing and moving.
RegionsDisjoint ==
    \A o \in Offsets :
        /\ o + files[o].size <= TotalUnits
        /\ \A p \in Offsets : p > o => o + files[o].size <= p

\* A file's contents lie in its own units and a name is used once.
ContentsFit ==
    \A o \in Offsets :
        /\ HeaderLen[files[o].name] <= files[o].len
        /\ files[o].len <= files[o].size * Factor
        /\ \A p \in Offsets : files[o].name = files[p].name => o = p

\* Enough contiguous free units anywhere are found, also between two files and
\* when the first unit or the last is free.
FreeRunIsFound ==
    \A n, u \in Units :
        u + n <= TotalUnits
          /\ (\A o \in Offsets : o + files[o].size <= u \/ u + n <= o)
          => FindFreeRegion(n) # 0

\* After the sort the table holds the entries it held, the used ones first and
\* in ascending order; every operation relies on that to find the last file and
\* the next one. Stated for tables with the files of the volume in any order,
\* and with any of them missing or in the table twice.
ResortSorts ==
    \A t \in [1 .. MaxFiles -> Offsets \cup {0}] :
        LET sorted == Resort(t, MaxFiles)
        IN /\ \A i, j \in 1 .. MaxFiles : i < j /\ sorted[j] # 0 => sorted[i] # 0 /\ sorted[i] <= sorted[j]
           /\ \A e \in Offsets \cup {0} :
                 Cardinality({i \in 1 .. MaxFiles : sorted[i] = e}) = Cardinality({i \in 1 .. MaxFiles : t[i] = e})

\* The bytes of a file are changed by writes to this file only: creating,
\* resizing and moving others, or itself, keeps them.
Store == INSTANCE FileStore WITH
    MaxLen <- MaxRequest,
    contents <- [name \in {files[o].name : o \in Offsets} |->
                   [i \in 1 .. ContentLen(At(name)) |-> bytes[ContentAddress(At(name), name) + i - 1]]]
StoreSpec == Store!Spec
=============================================================================

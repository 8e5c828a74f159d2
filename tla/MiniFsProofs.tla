---------------------------- MODULE MiniFsProofs ----------------------------
(***************************************************************************)
(* Theorems about MiniFs volumes of any size, with any number of files.    *)
(* They hold as long as nobody asks for more than the fields can hold,     *)
(* RequestsFit; without it a file can be larger than its region.           *)
(*                                                                         *)
(* The invariant is TypeOK, RegionsDisjoint and ContentsFit together: a    *)
(* gap is free because the files before it end before it, and a file has   *)
(* at least one unit because its header has to fit. That no gap is missed  *)
(* and that the volume is a store follow from it; the sort is right by     *)
(* itself, for every table of entries that have the right type.            *)
(***************************************************************************)
EXTENDS MiniFs, TLAPS, NaturalsInduction, WellFoundedInduction, FiniteSetTheorems

RequestsFit ==
    \A name \in Names :
        /\ HeaderLen[name] + MaxRequest < LenWidth
        /\ HeaderLen[name] + MaxRequest <= (SizeWidth - 1) * Factor

IInv == TypeOK /\ RegionsDisjoint /\ ContentsFit
-----------------------------------------------------------------------------
\* Every nonempty set of natural numbers has a least element.
LEMMA LeastElement ==
    ASSUME NEW S, S \subseteq Nat, S # {}
    PROVE  \E x \in S : \A y \in S : x <= y
<1>1. PICK x \in S : \A y \in S : ~(<<y, x>> \in OpToRel(<, Nat))
  BY WFMin, NatLessThanWellFounded
<1>2. \A y \in S : x <= y
  <2> TAKE y \in S
  <2>1. x \in Nat /\ y \in Nat
    OBVIOUS
  <2>2. ~(y < x)
    BY <1>1, <2>1 DEF OpToRel
  <2> QED BY <2>1, <2>2
<1> QED BY <1>2

\* Rounding up: the least number of units that hold so many bytes.
LEMMA SizeFactorFits ==
    ASSUME NEW total \in Nat, total > 0, total <= (SizeWidth - 1) * Factor
    PROVE  /\ SizeFactor(total) \in 1 .. (SizeWidth - 1)
           /\ total <= SizeFactor(total) * Factor
<1> DEFINE q == (total + Factor - 1) \div Factor
<1>1. Factor \in Nat \ {0} /\ SizeWidth \in Nat \ {0}
  BY MiniFsAssumption
<1>2. q \in Nat /\ Factor * q <= total + Factor - 1 /\ total + Factor - 1 < Factor * q + Factor
  BY <1>1
<1> HIDE DEF q
<1>3. total <= q * Factor
  BY <1>1, <1>2
<1>4. q >= 1
  <2> SUFFICES ASSUME q = 0 PROVE FALSE
    BY <1>2
  <2> QED BY <1>1, <1>3
<1>5. q <= SizeWidth - 1
  <2> SUFFICES ASSUME q >= SizeWidth PROVE FALSE
    BY <1>1, <1>2
  <2>1. Factor * q >= Factor * SizeWidth
    BY <1>1, <1>2
  <2>2. Factor * SizeWidth = (SizeWidth - 1) * Factor + Factor
    BY <1>1
  <2>3. Factor * q \in Nat /\ (SizeWidth - 1) * Factor \in Int
    BY <1>1, <1>2
  <2> QED BY <1>1, <1>2, <2>1, <2>2, <2>3
<1>6. q % SizeWidth = q
  BY <1>1, <1>2, <1>4, <1>5
<1> QED BY <1>1, <1>2, <1>3, <1>4, <1>5, <1>6 DEF SizeFactor, q

\* No fewer units do.
LEMMA SizeFactorLeast ==
    ASSUME NEW total \in Nat, NEW k \in Nat, total <= k * Factor
    PROVE  SizeFactor(total) <= k
<1> DEFINE q == (total + Factor - 1) \div Factor
<1>1. Factor \in Nat \ {0} /\ SizeWidth \in Nat \ {0}
  BY MiniFsAssumption
<1>2. q \in Nat /\ Factor * q <= total + Factor - 1
  BY <1>1
<1> HIDE DEF q
<1>3. q <= k
  <2> SUFFICES ASSUME q >= k + 1 PROVE FALSE
    BY <1>2
  <2>1. Factor * q >= Factor * (k + 1)
    BY <1>1, <1>2
  <2>2. Factor * (k + 1) = k * Factor + Factor
    BY <1>1
  <2>3. Factor * q \in Nat /\ k * Factor \in Nat
    BY <1>1, <1>2
  <2> QED BY <1>1, <1>2, <2>1, <2>2, <2>3
<1>4. q % SizeWidth <= q /\ q % SizeWidth \in Nat
  BY <1>1, <1>2
<1> QED BY <1>2, <1>3, <1>4 DEF SizeFactor, q

\* The length of a request is not cut off and has its size.
LEMMA TotalLengthFits ==
    ASSUME RequestsFit, NEW name \in Names, NEW n \in 0 .. MaxRequest
    PROVE  /\ TotalLength(name, n) = HeaderLen[name] + n
           /\ TotalLength(name, n) \in 0 .. (LenWidth - 1)
           /\ HeaderLen[name] <= TotalLength(name, n)
           /\ SizeFactor(TotalLength(name, n)) \in 1 .. (SizeWidth - 1)
           /\ TotalLength(name, n) <= SizeFactor(TotalLength(name, n)) * Factor
<1> DEFINE t == HeaderLen[name] + n
<1>1. /\ HeaderLen[name] \in Nat \ {0} /\ MaxRequest \in Nat /\ LenWidth \in Nat \ {0}
      /\ SizeWidth \in Nat \ {0} /\ Factor \in Nat \ {0}
  BY MiniFsAssumption
<1>2. HeaderLen[name] + MaxRequest < LenWidth /\ HeaderLen[name] + MaxRequest <= (SizeWidth - 1) * Factor
  BY DEF RequestsFit
<1>3. t \in Nat /\ t > 0 /\ t < LenWidth
  BY <1>1, <1>2
<1>4. t <= (SizeWidth - 1) * Factor
  <2>1. (SizeWidth - 1) * Factor \in Int /\ t <= HeaderLen[name] + MaxRequest
    BY <1>1
  <2> QED BY <1>1, <1>2, <1>3, <2>1
<1>5. t % LenWidth = t
  BY <1>1, <1>3
<1>6. TotalLength(name, n) = t
  BY <1>5 DEF TotalLength
<1> HIDE DEF t
<1>7. SizeFactor(t) \in 1 .. (SizeWidth - 1) /\ t <= SizeFactor(t) * Factor
  BY <1>3, <1>4, SizeFactorFits
<1>8. HeaderLen[name] <= t
  BY <1>1 DEF t
<1> QED BY <1>1, <1>3, <1>6, <1>7, <1>8 DEF t

\* What the invariant says of one file.
LEMMA FileFacts ==
    ASSUME IInv, NEW o \in Offsets
    PROVE  /\ o \in Units /\ o \in Nat /\ o >= 1
           /\ files[o] \in Headers /\ files[o].name \in Names /\ files[o].len \in Nat /\ files[o].size \in Nat
           /\ files[o].size >= 1
<1>1. o \in Units /\ files[o] \in Headers
  BY DEF IInv, TypeOK
<1>2. files[o].name \in Names /\ files[o].len \in Nat /\ files[o].size \in Nat
  BY <1>1 DEF Headers
<1>3. HeaderLen[files[o].name] <= files[o].len /\ files[o].len <= files[o].size * Factor
  BY DEF IInv, ContentsFit
<1>4. files[o].size # 0
  <2> SUFFICES ASSUME files[o].size = 0 PROVE FALSE
    OBVIOUS
  <2>1. files[o].len <= 0
    BY <1>3, MiniFsAssumption
  <2>2. HeaderLen[files[o].name] \in Nat \ {0}
    BY <1>2, MiniFsAssumption
  <2> QED BY <1>2, <1>3, <2>1, <2>2
<1> QED BY <1>1, <1>2, <1>4, MiniFsAssumption DEF Units

\* A found gap lies in the volume, and all files lie before it or behind it.
LEMMA FoundIsFree ==
    ASSUME IInv, NEW n \in Nat, n >= 1, FindFreeRegion(n) # 0
    PROVE  /\ FindFreeRegion(n) \in Units
           /\ FindFreeRegion(n) + n <= TotalUnits
           /\ \A o \in Offsets : \/ o + files[o].size <= FindFreeRegion(n)
                                 \/ FindFreeRegion(n) + n <= o
<1> DEFINE fitting == {u \in GapStarts : Fits(n, u)}
           f == FindFreeRegion(n)
<1>1. GapStarts \subseteq Nat \ {0}
  BY FileFacts DEF GapStarts
<1>2. fitting # {} /\ f = CHOOSE u \in fitting : \A v \in fitting : u <= v
  BY DEF FindFreeRegion
<1>3. f \in fitting
  <2> HIDE DEF fitting, f
  <2>1. fitting \subseteq Nat
    BY <1>1 DEF fitting
  <2>2. \E u \in fitting : \A v \in fitting : u <= v
    BY <1>2, <2>1, LeastElement
  <2> QED BY <1>2, <2>2
<1> HIDE DEF f
<1>4. f \in GapStarts /\ Fits(n, f) /\ f \in Nat \ {0}
  BY <1>1, <1>3
<1>5. f \in Units /\ f + n <= TotalUnits
  BY <1>4, MiniFsAssumption DEF Units, Fits
<1>6. ASSUME NEW o \in Offsets PROVE o + files[o].size <= f \/ f + n <= o
  <2>1. CASE o >= f
    BY <1>4, <2>1 DEF Fits
  <2>2. CASE f = 1
    BY <2>1, <2>2, FileFacts
  <2>3. CASE o < f /\ f # 1
    <3>1. PICK p \in Offsets : f = p + files[p].size
      BY <1>4, <2>3 DEF GapStarts
    <3>2. /\ o \in Nat /\ p \in Nat /\ files[o].size \in Nat /\ files[p].size \in Nat
      BY FileFacts
    <3>3. o <= p
      <4> SUFFICES ASSUME o > p PROVE FALSE
        BY <3>2
      <4>1. p + files[p].size <= o
        BY DEF IInv, RegionsDisjoint
      <4> QED BY <2>3, <3>1, <3>2, <4>1
    <3>4. CASE o = p
      BY <3>1, <3>2, <3>4
    <3>5. CASE o < p
      <4>1. o + files[o].size <= p
        BY <3>5 DEF IInv, RegionsDisjoint
      <4> QED BY <3>1, <3>2, <4>1
    <3> QED BY <3>2, <3>3, <3>4, <3>5
  <2> QED BY <2>1, <2>2, <2>3, <1>4, FileFacts
<1> QED BY <1>5, <1>6 DEF f
-----------------------------------------------------------------------------
\* Every change of a header puts one at unit u in place of `gone', in a region
\* that no remaining file reaches into.
LEMMA PlacedPreserves ==
    ASSUME IInv, NEW u \in Units, NEW h \in Headers, NEW gone \in SUBSET Offsets,
           HeaderLen[h.name] <= h.len, h.len <= h.size * Factor, u + h.size <= TotalUnits,
           u \notin Offsets \ gone,
           \A o \in Offsets \ gone : o + files[o].size <= u \/ u + h.size <= o,
           \A o \in Offsets \ gone : files[o].name # h.name,
           files' = Placed(u, h, gone),
           bytes' \in [Addresses -> Values]
    PROVE  IInv'
<1> DEFINE rest == Offsets \ gone
<1>1. Offsets' = rest \cup {u} /\ files'[u] = h /\ \A o \in rest : files'[o] = files[o]
  BY DEF Placed, Offsets
<1>2. \A o \in rest : o \in Units /\ o \in Nat /\ files[o] \in Headers /\ files[o].size \in Nat /\ files[o].size >= 1
  BY FileFacts
<1>3. u \in Nat /\ h.size \in Nat /\ h.name \in Names /\ h.len \in Nat
  BY DEF Units, Headers
<1>4. TypeOK'
  <2>1. files' = [o \in rest \cup {u} |-> IF o = u THEN h ELSE files[o]]
    BY DEF Placed
  <2> QED BY <1>1, <1>2, <2>1 DEF TypeOK, Offsets
<1>5. RegionsDisjoint'
  <2> SUFFICES ASSUME NEW o \in rest \cup {u}
               PROVE  /\ o + files'[o].size <= TotalUnits
                      /\ \A p \in rest \cup {u} : p > o => o + files'[o].size <= p
    BY <1>1 DEF RegionsDisjoint
  <2>1. CASE o = u
    <3>1. \A p \in rest : p > u => u + h.size <= p
      BY <1>2, <1>3
    <3>2. ~(u > u)
      BY <1>3
    <3>3. \A p \in rest \cup {u} : p > u => u + h.size <= p
      BY <3>1, <3>2
    <3>4. files'[o].size = h.size
      BY <1>1, <2>1
    <3> QED BY <2>1, <3>3, <3>4
  <2>2. CASE o \in rest
    <3>1. o + files[o].size <= TotalUnits /\ \A p \in rest : p > o => o + files[o].size <= p
      BY <2>2 DEF IInv, RegionsDisjoint
    <3>2. u > o => o + files[o].size <= u
      BY <1>2, <1>3, <2>2
    <3> QED BY <1>1, <2>2, <3>1, <3>2
  <2> QED BY <2>1, <2>2
<1>6. ContentsFit'
  <2> SUFFICES ASSUME NEW o \in rest \cup {u}
               PROVE  /\ HeaderLen[files'[o].name] <= files'[o].len
                      /\ files'[o].len <= files'[o].size * Factor
                      /\ \A p \in rest \cup {u} : files'[o].name = files'[p].name => o = p
    BY <1>1 DEF ContentsFit
  <2>1. CASE o = u
    BY <1>1, <2>1
  <2>2. CASE o \in rest
    BY <1>1, <2>2 DEF IInv, ContentsFit
  <2> QED BY <2>1, <2>2
<1> QED BY <1>4, <1>5, <1>6 DEF IInv

\* The same for a file that stays where it is.
LEMMA ChangedPreserves ==
    ASSUME IInv, NEW u \in Offsets, NEW len \in 0 .. (LenWidth - 1), NEW size \in 0 .. (SizeWidth - 1),
           HeaderLen[files[u].name] <= len, len <= size * Factor, u + size <= TotalUnits,
           \A o \in Offsets : o > u => u + size <= o,
           files' = [files EXCEPT ![u] = [files[u] EXCEPT !.len = len, !.size = size]],
           bytes' \in [Addresses -> Values]
    PROVE  IInv'
<1> DEFINE h == [files[u] EXCEPT !.len = len, !.size = size]
<1>1. u \in Units /\ files[u] \in Headers
  BY FileFacts
<1>2. h \in Headers /\ h.name = files[u].name /\ h.len = len /\ h.size = size
  BY <1>1 DEF Headers
<1> HIDE DEF h
<1>3. files' = Placed(u, h, {u})
  <2>1. files \in [Offsets -> Headers]
    BY DEF IInv, TypeOK
  <2>2. files' = [files EXCEPT ![u] = h]
    BY DEF h
  <2>3. (Offsets \ {u}) \cup {u} = Offsets
    OBVIOUS
  <2> QED BY <2>1, <2>2, <2>3 DEF Placed
<1>4. \A o \in Offsets \ {u} : o + files[o].size <= u \/ u + h.size <= o
  <2> TAKE o \in Offsets \ {u}
  <2>1. o \in Nat /\ u \in Nat
    BY FileFacts
  <2>2. CASE o > u
    BY <1>2, <2>2
  <2>3. CASE u > o
    BY <2>3 DEF IInv, RegionsDisjoint
  <2> QED BY <2>1, <2>2, <2>3
<1>5. \A o \in Offsets \ {u} : files[o].name # h.name
  BY <1>2 DEF IInv, ContentsFit
<1>6. /\ HeaderLen[h.name] <= h.len /\ h.len <= h.size * Factor /\ u + h.size <= TotalUnits
      /\ {u} \in SUBSET Offsets /\ u \notin Offsets \ {u}
  BY <1>2
<1> QED BY <1>1, <1>2, <1>3, <1>4, <1>5, <1>6, PlacedPreserves

LEMMA AtFacts ==
    ASSUME NEW name, Exists(name)
    PROVE  At(name) \in Offsets /\ files[At(name)].name = name
BY DEF Exists, At

LEMMA CreatePreserves ==
    ASSUME RequestsFit, IInv, NEW name \in Names, NEW n \in 0 .. MaxRequest, Create(name, n)
    PROVE  IInv'
<1> DEFINE total == TotalLength(name, n)
           size == SizeFactor(total)
           u == FindFreeRegion(size)
           h == [name |-> name, len |-> total, size |-> size]
<1>1. /\ ~Exists(name) /\ u # 0 /\ files' = Placed(u, h, {}) /\ bytes' = bytes
  BY DEF Create
<1>2. /\ total \in 0 .. (LenWidth - 1) /\ HeaderLen[name] <= total
      /\ size \in 1 .. (SizeWidth - 1) /\ total <= size * Factor
  BY TotalLengthFits
<1>3. size \in Nat /\ size >= 1 /\ size \in 0 .. (SizeWidth - 1)
  BY <1>2, MiniFsAssumption
<1> HIDE DEF total, size, u
<1>4. /\ u \in Units /\ u + size <= TotalUnits
      /\ \A o \in Offsets : o + files[o].size <= u \/ u + size <= o
  BY <1>1, <1>3, FoundIsFree DEF u
<1>5. u \notin Offsets
  <2> SUFFICES ASSUME u \in Offsets PROVE FALSE
    OBVIOUS
  <2>1. u \in Nat /\ files[u].size \in Nat /\ files[u].size >= 1
    BY FileFacts
  <2> QED BY <1>3, <1>4, <2>1
<1>6. \A o \in Offsets : files[o].name # name
  BY <1>1 DEF Exists
<1>7. h \in Headers
  BY <1>2, <1>3 DEF Headers
<1>8. bytes' \in [Addresses -> Values]
  BY <1>1 DEF IInv, TypeOK
<1> QED BY <1>1, <1>2, <1>4, <1>5, <1>6, <1>7, <1>8, PlacedPreserves

LEMMA DeletePreserves == ASSUME IInv, NEW name \in Names, Delete(name) PROVE IInv'
<1>1. /\ Offsets' \subseteq Offsets
      /\ \A o \in Offsets' : files'[o] = files[o]
      /\ files' = [o \in Offsets' |-> files[o]]
      /\ bytes' = bytes
  BY DEF Delete, Offsets
<1>2. TypeOK'
  BY <1>1 DEF IInv, TypeOK, Offsets
<1>3. RegionsDisjoint'
  BY <1>1 DEF IInv, RegionsDisjoint
<1>4. ContentsFit'
  BY <1>1 DEF IInv, ContentsFit
<1> QED BY <1>2, <1>3, <1>4 DEF IInv

LEMMA WritePreserves ==
    ASSUME IInv, NEW name \in Names, NEW offset, NEW len, NEW v \in Values, Write(name, offset, len, v)
    PROVE  IInv'
<1>1. files' = files
  BY DEF Write
<1>2. bytes' \in [Addresses -> Values]
  BY DEF Write, IInv, TypeOK
<1> QED BY <1>1, <1>2 DEF IInv, TypeOK, RegionsDisjoint, ContentsFit, Offsets

LEMMA BytesKept == ASSUME IInv, bytes' = bytes PROVE bytes' \in [Addresses -> Values]
BY DEF IInv, TypeOK

\* A file that gets smaller needs no more units than before, and one of at least
\* its header.
LEMMA ShrinkPreserves ==
    ASSUME RequestsFit, IInv, NEW name \in Names, NEW n \in 0 .. MaxRequest, Shrink(name, n)
    PROVE  IInv'
<1> DEFINE u == At(name)
           total == HeaderLen[name] + n
           size == SizeFactor(total)
<1>1. u \in Offsets /\ files[u].name = name
  BY AtFacts DEF Shrink
<1>2. /\ u \in Nat /\ files[u].len \in Nat /\ files[u].size \in Nat /\ HeaderLen[name] \in Nat
      /\ n \in Nat /\ Factor \in Nat \ {0} /\ LenWidth \in Nat \ {0} /\ SizeWidth \in Nat \ {0}
  BY <1>1, FileFacts, MiniFsAssumption
<1> HIDE DEF u
<1>3. n <= files[u].len - HeaderLen[name] /\ bytes' = bytes
  BY <1>1 DEF Shrink, ContentLen, u
<1>4. files[u].len - (ContentLen(u) - n) = total
  BY <1>1, <1>2 DEF ContentLen
<1>5. files' = [files EXCEPT ![u] = [files[u] EXCEPT !.len = total, !.size = size]]
  <2>1. files' = [files EXCEPT ![u].len = total, ![u].size = size]
    BY <1>4 DEF Shrink, u
  <2>2. files \in [Offsets -> Headers]
    BY DEF IInv, TypeOK
  <2> QED BY <1>1, <2>1, <2>2
<1>6. /\ total \in 0 .. (LenWidth - 1) /\ HeaderLen[name] <= total
      /\ size \in 1 .. (SizeWidth - 1) /\ total <= size * Factor
  BY TotalLengthFits
<1>7. size <= files[u].size
  <2>1. total <= files[u].size * Factor
    <3>1. files[u].len <= files[u].size * Factor
      BY <1>1 DEF IInv, ContentsFit
    <3>2. total <= files[u].len /\ files[u].size * Factor \in Nat
      BY <1>2, <1>3
    <3> QED BY <1>2, <3>1, <3>2
  <2> QED BY <1>2, <1>6, <2>1, SizeFactorLeast
<1>8. u + files[u].size <= TotalUnits /\ \A o \in Offsets : o > u => u + files[u].size <= o
  BY <1>1 DEF IInv, RegionsDisjoint
<1>9. u + size <= TotalUnits /\ \A o \in Offsets : o > u => u + size <= o
  <2>1. size \in Nat /\ TotalUnits \in Nat /\ \A o \in Offsets : o \in Nat
    BY <1>2, <1>6, FileFacts, MiniFsAssumption
  <2> HIDE DEF size
  <2> QED BY <1>2, <1>7, <1>8, <2>1
<1>10. size \in 0 .. (SizeWidth - 1) /\ bytes' \in [Addresses -> Values]
  BY <1>2, <1>3, <1>6, BytesKept
<1> HIDE DEF size, total
<1> QED BY <1>1, <1>5, <1>6, <1>9, <1>10, ChangedPreserves

LEMMA GrowInPlacePreserves ==
    ASSUME RequestsFit, IInv, NEW name \in Names, NEW n \in 0 .. MaxRequest, GrowInPlace(name, n)
    PROVE  IInv'
<1> DEFINE u == At(name)
           total == TotalLength(name, n)
           size == SizeFactor(total)
<1>1. u \in Offsets /\ files[u].name = name
  BY AtFacts DEF GrowInPlace
<1>2. /\ total \in 0 .. (LenWidth - 1) /\ HeaderLen[name] <= total
      /\ size \in 1 .. (SizeWidth - 1) /\ total <= size * Factor
  BY TotalLengthFits
<1>3. /\ u \in Nat /\ files[u] \in Headers /\ SizeWidth \in Nat \ {0} /\ TotalUnits \in Nat
      /\ files \in [Offsets -> Headers]
  BY <1>1, FileFacts, MiniFsAssumption DEF IInv, TypeOK
<1>4. bytes' \in [Addresses -> Values]
  BY BytesKept DEF GrowInPlace
<1>5. CASE total <= files[u].size * Factor /\ files' = [files EXCEPT ![u].len = total]
  <2>1. files' = [files EXCEPT ![u] = [files[u] EXCEPT !.len = total, !.size = files[u].size]]
    <3> HIDE DEF u, total
    <3> QED BY <1>1, <1>3, <1>5 DEF Headers
  <2>2. files[u].size \in 0 .. (SizeWidth - 1)
    BY <1>3 DEF Headers
  <2>3. u + files[u].size <= TotalUnits /\ \A o \in Offsets : o > u => u + files[u].size <= o
    BY <1>1 DEF IInv, RegionsDisjoint
  <2> HIDE DEF u, total
  <2> QED BY <1>1, <1>2, <1>4, <1>5, <2>1, <2>2, <2>3, ChangedPreserves
<1>6. CASE /\ Fits(size - 1, u + 1)
           /\ files' = [files EXCEPT ![u].len = total, ![u].size = size]
  <2>1. files' = [files EXCEPT ![u] = [files[u] EXCEPT !.len = total, !.size = size]]
    <3> HIDE DEF u, total, size
    <3> QED BY <1>1, <1>3, <1>6
  <2>2. size \in Nat /\ size \in 0 .. (SizeWidth - 1) /\ \A o \in Offsets : o \in Nat
    BY <1>2, <1>3, FileFacts
  <2>3. u + size <= TotalUnits /\ \A o \in Offsets : o > u => u + size <= o
    <3> HIDE DEF u, size
    <3> QED BY <1>3, <1>6, <2>2 DEF Fits
  <2> HIDE DEF u, total, size
  <2> QED BY <1>1, <1>2, <1>4, <2>1, <2>2, <2>3, ChangedPreserves
<1> QED BY <1>5, <1>6 DEF GrowInPlace

\* The copy reads inside the volume, from the file's own units.
LEMMA CopiedType ==
    ASSUME IInv, NEW o \in Offsets, NEW to \in Nat
    PROVE  Copied(o, to) \in [Addresses -> Values]
<1> DEFINE name == files[o].name
           new == ContentAddress(to, name)
           old == ContentAddress(o, name)
<1>1. /\ o \in Nat /\ files[o].len \in Nat /\ files[o].size \in Nat /\ HeaderLen[name] \in Nat
      /\ Factor \in Nat \ {0} /\ TotalUnits \in Nat
  BY FileFacts, MiniFsAssumption
<1>2. bytes \in [Addresses -> Values]
  BY DEF IInv, TypeOK
<1>3. ASSUME NEW a \in Addresses, a \in new .. (new + ContentLen(o) - 1)
      PROVE  a - new + old \in Addresses
  <2> DEFINE i == a - new
  <2>1. old = o * Factor + HeaderLen[name] /\ o * Factor \in Nat /\ to * Factor \in Nat /\ new \in Nat
    BY <1>1 DEF ContentAddress
  <2>2. i \in Nat /\ i + HeaderLen[name] + 1 <= files[o].len
    <3>1. ContentLen(o) = files[o].len - HeaderLen[name]
      BY DEF ContentLen
    <3> HIDE DEF new, name
    <3> QED BY <1>1, <1>3, <2>1, <3>1 DEF Addresses
  <2>3. files[o].len <= files[o].size * Factor /\ o + files[o].size <= TotalUnits
    BY DEF IInv, ContentsFit, RegionsDisjoint
  <2>4. (o + files[o].size) * Factor <= TotalUnits * Factor
    BY <1>1, <2>3
  <2>5. (o + files[o].size) * Factor = o * Factor + files[o].size * Factor
    BY <1>1
  <2>6. TotalUnits * Factor \in Nat /\ files[o].size * Factor \in Nat
    BY <1>1
  <2> HIDE DEF old, name, i
  <2>7. i + old <= TotalUnits * Factor - 1 /\ i + old \in Nat
    BY <1>1, <2>1, <2>2, <2>3, <2>4, <2>5, <2>6
  <2> QED BY <2>6, <2>7 DEF i, Addresses
<1> HIDE DEF new, old, name
<1>4. \A a \in Addresses : a \in new .. (new + ContentLen(o) - 1) => bytes[a - new + old] \in Values
  BY <1>2, <1>3
<1> QED BY <1>2, <1>4 DEF Copied, new, old, name

LEMMA GrowByMovingPreserves ==
    ASSUME RequestsFit, IInv, NEW name \in Names, NEW n \in 0 .. MaxRequest, GrowByMoving(name, n)
    PROVE  IInv'
<1> DEFINE o == At(name)
           total == TotalLength(name, n)
           size == SizeFactor(total)
           u == FindFreeRegion(size)
           h == [name |-> name, len |-> total, size |-> size]
<1>1. /\ u # 0 /\ files' = Placed(u, h, {o}) /\ bytes' = Copied(o, u) /\ Exists(name)
  BY DEF GrowByMoving
<1>2. o \in Offsets /\ files[o].name = name
  BY <1>1, AtFacts
<1>3. /\ total \in 0 .. (LenWidth - 1) /\ HeaderLen[name] <= total
      /\ size \in 1 .. (SizeWidth - 1) /\ total <= size * Factor
  BY TotalLengthFits
<1>4. size \in Nat /\ size >= 1 /\ size \in 0 .. (SizeWidth - 1)
  BY <1>3, MiniFsAssumption
<1> HIDE DEF o, total, size, u
<1>5. /\ u \in Units /\ u + size <= TotalUnits
      /\ \A p \in Offsets : p + files[p].size <= u \/ u + size <= p
  BY <1>1, <1>4, FoundIsFree DEF u
<1>6. u \notin Offsets /\ u \in Nat
  <2>1. u \in Nat
    BY <1>5 DEF Units
  <2> SUFFICES ASSUME u \in Offsets PROVE FALSE
    BY <2>1
  <2>2. files[u].size \in Nat /\ files[u].size >= 1
    BY FileFacts
  <2> QED BY <1>4, <1>5, <2>1, <2>2
<1>7. \A p \in Offsets \ {o} : files[p].name # name
  BY <1>2 DEF IInv, ContentsFit
<1>8. h \in Headers
  BY <1>3, <1>4 DEF Headers
<1>9. bytes' \in [Addresses -> Values]
  BY <1>1, <1>2, <1>6, CopiedType
<1> QED BY <1>1, <1>2, <1>3, <1>5, <1>6, <1>7, <1>8, <1>9, PlacedPreserves
-----------------------------------------------------------------------------
LEMMA InitIInv == Init => IInv
<1> SUFFICES ASSUME Init PROVE IInv
  OBVIOUS
<1>1. Offsets = {}
  BY DEF Init, Offsets
<1>2. bytes \in [Addresses -> Values]
  BY MiniFsAssumption DEF Init
<1>3. files \in [Offsets -> Headers]
  BY <1>1 DEF Init
<1> QED BY <1>1, <1>2, <1>3 DEF IInv, TypeOK, RegionsDisjoint, ContentsFit

LEMMA NextIInv == ASSUME RequestsFit, IInv, [Next]_vars PROVE IInv'
<1>1. CASE UNCHANGED vars
  BY <1>1 DEF vars, IInv, TypeOK, RegionsDisjoint, ContentsFit, Offsets
<1>2. CASE Next
  <2>1. PICK name \in Names :
          \/ Delete(name)
          \/ \E n \in 0 .. MaxRequest : Create(name, n) \/ Resize(name, n)
          \/ \E offset \in 0 .. MaxRequest, len \in 1 .. MaxRequest, v \in Values : Write(name, offset, len, v)
    BY <1>2 DEF Next
  <2>2. CASE Delete(name)
    BY <2>2, DeletePreserves
  <2>3. CASE \E n \in 0 .. MaxRequest : Create(name, n)
    BY <2>3, CreatePreserves
  <2>4. CASE \E n \in 0 .. MaxRequest : Resize(name, n)
    <3>1. PICK n \in 0 .. MaxRequest : Shrink(name, n) \/ GrowInPlace(name, n) \/ GrowByMoving(name, n)
      BY <2>4 DEF Resize
    <3> QED BY <3>1, ShrinkPreserves, GrowInPlacePreserves, GrowByMovingPreserves
  <2>5. CASE \E offset \in 0 .. MaxRequest, len \in 1 .. MaxRequest, v \in Values : Write(name, offset, len, v)
    BY <2>5, WritePreserves
  <2> QED BY <2>1, <2>2, <2>3, <2>4, <2>5
<1> QED BY <1>1, <1>2

\* The invariant holds throughout, as long as no request is too large for its field.
THEOREM Invariance == ASSUME RequestsFit PROVE Spec => []IInv
<1>1. IInv /\ [Next]_vars => IInv'
  BY NextIInv
<1> QED BY <1>1, InitIInv, PTL DEF Spec

\* The state of a volume stays in the ranges of its fields and its memory.
THEOREM TypeCorrect == ASSUME RequestsFit PROVE Spec => []TypeOK
BY Invariance, PTL DEF IInv

\* Files never overlap each other, the header or the end of the volume, however
\* they are created, deleted, shrunk, grown and moved (miniFsFindFreeRegionFactor,
\* miniFsFileResize).
THEOREM NoOverlap == ASSUME RequestsFit PROVE Spec => []RegionsDisjoint
BY Invariance, PTL DEF IInv

\* The units of a file hold its header and contents, and no name is used twice.
THEOREM FilesAreWhole == ASSUME RequestsFit PROVE Spec => []ContentsFit
BY Invariance, PTL DEF IInv
-----------------------------------------------------------------------------
\* A gap that a file ends at the front of, or that begins the volume, is found
\* when enough of what follows is free: take the last file before the free run.
LEMMA FreeRunFound == IInv => FreeRunIsFound
<1> SUFFICES ASSUME IInv, NEW n \in Units, NEW u \in Units, u + n <= TotalUnits,
                    \A o \in Offsets : o + files[o].size <= u \/ u + n <= o
             PROVE  FindFreeRegion(n) # 0
  BY DEF FreeRunIsFound
<1> DEFINE below == {o \in Offsets : o < u}
           fitting == {g \in GapStarts : Fits(n, g)}
<1>1. n \in Nat /\ n >= 1 /\ u \in Nat /\ u >= 1 /\ TotalUnits \in Nat
  BY MiniFsAssumption DEF Units
<1>2. \A o \in Offsets : o \in Nat /\ o >= 1 /\ files[o].size \in Nat /\ files[o].size >= 1
  BY FileFacts
<1>3. \A o \in Offsets : o >= u => u + n <= o
  BY <1>1, <1>2
<1>4. \E g \in GapStarts : Fits(n, g)
  <2>1. CASE below = {}
    <3>1. \A o \in Offsets : o \in Nat /\ u + n <= o
      BY <1>1, <1>2, <1>3, <2>1
    <3>2. 1 + n <= TotalUnits /\ \A o \in Offsets : 1 + n <= o
      BY <1>1, <3>1
    <3> QED BY <3>2 DEF Fits, GapStarts
  <2>2. CASE below # {}
    <3> DEFINE dists == {u - o : o \in below}
    <3>1. dists \subseteq Nat /\ dists # {}
      BY <1>1, <1>2, <2>2
    <3>2. PICK d \in dists : \A e \in dists : d <= e
      <4> HIDE DEF dists
      <4> QED BY <3>1, LeastElement
    <3>3. PICK o \in below : d = u - o
      BY <3>2
    <3>4. \A p \in below : p <= o
      <4> TAKE p \in below
      <4>1. d <= u - p
        BY <3>2
      <4> QED BY <1>1, <1>2, <3>3, <4>1
    <3>5. o \in Offsets /\ o < u /\ o + files[o].size <= u
      BY <1>1, <1>2, <3>3
    <3> DEFINE g == o + files[o].size
    <3>6. \A p \in Offsets : p >= g => g + n <= p
      <4> TAKE p \in Offsets
      <4> SUFFICES ASSUME p >= g PROVE g + n <= p
        OBVIOUS
      <4>1. p > o
        BY <1>2, <3>5
      <4>2. p >= u
        BY <1>1, <1>2, <3>4, <3>5, <4>1
      <4> QED BY <1>1, <1>2, <1>3, <3>5, <4>2
    <3>7. g + n <= TotalUnits
      BY <1>1, <1>2, <3>5
    <3>8. g \in GapStarts
      BY <3>5 DEF GapStarts
    <3> QED BY <3>6, <3>7, <3>8 DEF Fits
  <2> QED BY <2>1, <2>2
<1>5. fitting # {} /\ fitting \subseteq Nat \ {0}
  BY <1>2, <1>4 DEF GapStarts
<1>6. FindFreeRegion(n) = CHOOSE g \in fitting : \A h \in fitting : g <= h
  BY <1>5 DEF FindFreeRegion
<1> HIDE DEF fitting
<1>7. \E g \in fitting : \A h \in fitting : g <= h
  BY <1>5, LeastElement
<1>8. FindFreeRegion(n) \in fitting
  BY <1>6, <1>7
<1> QED BY <1>5, <1>8

\* Space that is free in one piece is never reported as missing, wherever it
\* lies (miniFsFindFreeRegionFactor).
THEOREM FreeRunsAreFound == ASSUME RequestsFit PROVE Spec => []FreeRunIsFound
<1>1. IInv => FreeRunIsFound
  BY FreeRunFound
<1> QED BY <1>1, Invariance, PTL
-----------------------------------------------------------------------------
(***************************************************************************)
(* The volume implements a store of named contents. The step that counts   *)
(* is that the contents of two files share no address, in the state before *)
(* a step or after it.                                                     *)
(***************************************************************************)
Stored == [name \in {files[o].name : o \in Offsets} |->
             [i \in 1 .. ContentLen(At(name)) |-> bytes[ContentAddress(At(name), name) + i - 1]]]

\* The address of position i of the file at o, counted from 1.
Cell(o, i) == ContentAddress(o, files[o].name) + i - 1

ContentsAt(o) == [i \in 1 .. ContentLen(o) |-> bytes[Cell(o, i)]]

\* No file is longer than what has been asked for.
LengthsAsked == \A o \in Offsets : ContentLen(o) <= MaxRequest

SInv == IInv /\ LengthsAsked

\* A name leads to the file that bears it.
LEMMA StoredAt ==
    IInv => /\ DOMAIN Stored = {files[o].name : o \in Offsets}
            /\ \A o \in Offsets : At(files[o].name) = o /\ Stored[files[o].name] = ContentsAt(o)
<1> SUFFICES ASSUME IInv
             PROVE  /\ DOMAIN Stored = {files[o].name : o \in Offsets}
                    /\ \A o \in Offsets : At(files[o].name) = o /\ Stored[files[o].name] = ContentsAt(o)
  OBVIOUS
<1>1. ASSUME NEW o \in Offsets PROVE At(files[o].name) = o
  <2>1. At(files[o].name) \in Offsets /\ files[At(files[o].name)].name = files[o].name
    BY DEF At
  <2> QED BY <2>1 DEF IInv, ContentsFit
<1>2. DOMAIN Stored = {files[o].name : o \in Offsets}
  BY DEF Stored
<1>3. ASSUME NEW o \in Offsets PROVE Stored[files[o].name] = ContentsAt(o)
  <2>1. Stored[files[o].name] =
          [i \in 1 .. ContentLen(At(files[o].name)) |-> bytes[ContentAddress(At(files[o].name), files[o].name) + i - 1]]
    BY DEF Stored
  <2> QED BY <1>1, <2>1 DEF ContentsAt, Cell
<1> QED BY <1>1, <1>2, <1>3

\* The contents lie in the file's own units, so no two files share a cell.
LEMMA CellsApart ==
    IInv => \A o \in Offsets :
              /\ ContentLen(o) \in Nat
              /\ \A i \in 1 .. ContentLen(o) :
                    /\ Cell(o, i) \in Addresses
                    /\ \A p \in Offsets \ {o} : \A j \in 1 .. ContentLen(p) : Cell(p, j) # Cell(o, i)
<1> SUFFICES ASSUME IInv, NEW o \in Offsets
             PROVE  /\ ContentLen(o) \in Nat
                    /\ \A i \in 1 .. ContentLen(o) :
                          /\ Cell(o, i) \in Addresses
                          /\ \A p \in Offsets \ {o} : \A j \in 1 .. ContentLen(p) : Cell(p, j) # Cell(o, i)
  OBVIOUS
<1>1. Factor \in Nat \ {0} /\ TotalUnits \in Nat
  BY MiniFsAssumption
<1>2. ASSUME NEW p \in Offsets
      PROVE  /\ ContentLen(p) \in Nat /\ p \in Nat /\ files[p].size \in Nat
             /\ p * Factor \in Nat /\ (p + files[p].size) * Factor \in Nat
             /\ \A i \in 1 .. ContentLen(p) :
                   Cell(p, i) \in Nat /\ p * Factor <= Cell(p, i) /\ Cell(p, i) < (p + files[p].size) * Factor
  <2>1. /\ p \in Nat /\ files[p].len \in Nat /\ files[p].size \in Nat /\ HeaderLen[files[p].name] \in Nat
    BY FileFacts, MiniFsAssumption
  <2>2. HeaderLen[files[p].name] <= files[p].len /\ files[p].len <= files[p].size * Factor
    BY DEF IInv, ContentsFit
  <2>3. /\ p * Factor \in Nat /\ files[p].size * Factor \in Nat
        /\ (p + files[p].size) * Factor = p * Factor + files[p].size * Factor
    BY <1>1, <2>1
  <2>4. ContentLen(p) = files[p].len - HeaderLen[files[p].name] /\ ContentLen(p) \in Nat
    BY <2>1, <2>2 DEF ContentLen
  <2>5. \A i \in 1 .. ContentLen(p) : Cell(p, i) = p * Factor + HeaderLen[files[p].name] + i - 1
    BY DEF Cell, ContentAddress
  <2> QED BY <2>1, <2>2, <2>3, <2>4, <2>5
<1>3. ASSUME NEW p \in Offsets, NEW q \in Offsets, p < q
      PROVE  (p + files[p].size) * Factor <= q * Factor
  <2>1. p + files[p].size <= q
    BY <1>3 DEF IInv, RegionsDisjoint
  <2> QED BY <1>1, <1>2, <2>1
<1>4. ASSUME NEW p \in Offsets, NEW q \in Offsets, p < q,
             NEW i \in 1 .. ContentLen(p), NEW j \in 1 .. ContentLen(q)
      PROVE  Cell(p, i) < Cell(q, j)
  BY <1>2, <1>3, <1>4
<1>5. ASSUME NEW i \in 1 .. ContentLen(o), NEW p \in Offsets \ {o}, NEW j \in 1 .. ContentLen(p)
      PROVE  Cell(p, j) # Cell(o, i)
  <2>1. p < o \/ o < p
    BY <1>2
  <2>2. Cell(p, j) \in Nat /\ Cell(o, i) \in Nat
    BY <1>2
  <2> QED BY <1>4, <2>1, <2>2
<1>6. ASSUME NEW i \in 1 .. ContentLen(o) PROVE Cell(o, i) \in Addresses
  <2>1. o + files[o].size <= TotalUnits
    BY DEF IInv, RegionsDisjoint
  <2>2. (o + files[o].size) * Factor <= TotalUnits * Factor /\ TotalUnits * Factor \in Nat
    BY <1>1, <1>2, <2>1
  <2> QED BY <1>2, <2>2 DEF Addresses
<1> QED BY <1>2, <1>5, <1>6

\* The contents of a file are values.
LEMMA ContentsType == IInv => \A o \in Offsets : ContentsAt(o) \in [1 .. ContentLen(o) -> Values]
<1> SUFFICES ASSUME IInv, NEW o \in Offsets PROVE ContentsAt(o) \in [1 .. ContentLen(o) -> Values]
  OBVIOUS
<1>1. \A i \in 1 .. ContentLen(o) : bytes[Cell(o, i)] \in Values
  BY CellsApart DEF IInv, TypeOK
<1> QED BY <1>1 DEF ContentsAt

LEMMA StoredAtNext ==
    ASSUME IInv'
    PROVE  /\ (DOMAIN Stored)' = {files'[o].name : o \in Offsets'}
           /\ \A o \in Offsets' : Stored'[files'[o].name] = ContentsAt(o)'
<1>1. (IInv => /\ DOMAIN Stored = {files[o].name : o \in Offsets}
               /\ \A o \in Offsets : At(files[o].name) = o /\ Stored[files[o].name] = ContentsAt(o))'
  BY StoredAt, PTL
<1> QED BY <1>1

LEMMA CellsApartNext ==
    ASSUME IInv'
    PROVE  \A o \in Offsets' :
              /\ ContentLen(o)' \in Nat
              /\ \A i \in 1 .. ContentLen(o)' :
                    /\ Cell(o, i)' \in Addresses
                    /\ \A p \in Offsets' \ {o} : \A j \in 1 .. ContentLen(p)' : Cell(p, j)' # Cell(o, i)'
<1>1. (IInv => \A o \in Offsets :
              /\ ContentLen(o) \in Nat
              /\ \A i \in 1 .. ContentLen(o) :
                    /\ Cell(o, i) \in Addresses
                    /\ \A p \in Offsets \ {o} : \A j \in 1 .. ContentLen(p) : Cell(p, j) # Cell(o, i))'
  BY CellsApart, PTL
<1> QED BY <1>1 DEF Addresses

LEMMA ContentsTypeNext ==
    ASSUME IInv' PROVE \A o \in Offsets' : ContentsAt(o)' \in [1 .. ContentLen(o)' -> Values]
<1>1. (IInv => \A o \in Offsets : ContentsAt(o) \in [1 .. ContentLen(o) -> Values])'
  BY ContentsType, PTL
<1> QED BY <1>1

\* Only the file `name' is made, changed or gone when all others are where they
\* were with the bytes they had.
LEMMA OthersStay ==
    ASSUME IInv, IInv', NEW name,
           \A o \in Offsets : files[o].name # name =>
               /\ o \in Offsets' /\ files'[o] = files[o]
               /\ \A i \in 1 .. ContentLen(o) : bytes'[Cell(o, i)] = bytes[Cell(o, i)],
           \A o \in Offsets' : files'[o].name # name => o \in Offsets /\ files[o].name # name
    PROVE  Store!Only(name)
<1>1. ASSUME NEW o \in Offsets, files[o].name # name
      PROVE  Stored'[files[o].name] = Stored[files[o].name]
  <2>1. o \in Offsets' /\ files'[o] = files[o]
    BY <1>1
  <2>2. ContentsAt(o)' = ContentsAt(o)
    <3>1. ContentLen(o)' = ContentLen(o) /\ \A i \in 1 .. ContentLen(o) : Cell(o, i)' = Cell(o, i)
      BY <2>1 DEF ContentLen, Cell, ContentAddress
    <3> QED BY <1>1, <3>1 DEF ContentsAt
  <2>3. Stored'[files'[o].name] = ContentsAt(o)'
    BY <2>1, StoredAtNext
  <2>4. Stored[files[o].name] = ContentsAt(o)
    BY StoredAt
  <2> QED BY <2>1, <2>2, <2>3, <2>4
<1>2. DOMAIN Stored = {files[o].name : o \in Offsets} /\ (DOMAIN Stored)' = {files'[o].name : o \in Offsets'}
  BY StoredAt, StoredAtNext
<1>3. ASSUME NEW m \in (DOMAIN Stored \cup (DOMAIN Stored)') \ {name}
      PROVE  m \in DOMAIN Stored /\ m \in (DOMAIN Stored)' /\ Stored'[m] = Stored[m]
  <2>1. PICK o \in Offsets : files[o].name = m
    <3>1. CASE m \in DOMAIN Stored
      BY <1>2, <3>1
    <3>2. CASE m \in (DOMAIN Stored)'
      BY <1>2, <3>2
    <3> QED BY <3>1, <3>2
  <2>2. files[o].name # name
    BY <2>1
  <2>3. o \in Offsets' /\ files'[o].name = m
    BY <2>1, <2>2
  <2> QED BY <1>1, <1>2, <2>1, <2>2, <2>3
<1> QED BY <1>3 DEF Store!Only, Stored

\* A new place is not the place of a file.
LEMMA PlaceIsNew ==
    ASSUME IInv, NEW n \in Nat, n >= 1, FindFreeRegion(n) # 0
    PROVE  FindFreeRegion(n) \in Nat /\ FindFreeRegion(n) \notin Offsets
<1> DEFINE u == FindFreeRegion(n)
<1>1. u \in Nat
  BY FoundIsFree DEF Units
<1>2. ASSUME u \in Offsets PROVE FALSE
  <2>1. u + files[u].size <= u \/ u + n <= u
    BY <1>2, FoundIsFree
  <2>2. files[u].size \in Nat /\ files[u].size >= 1
    BY <1>2, FileFacts
  <2> HIDE DEF u
  <2> QED BY <1>1, <2>1, <2>2
<1> QED BY <1>1, <1>2

LEMMA CreateStores ==
    ASSUME RequestsFit, SInv, IInv', NEW name \in Names, NEW n \in 0 .. MaxRequest, Create(name, n)
    PROVE  LengthsAsked' /\ Store!Only(name) /\ Store!Create(name)
<1> DEFINE total == TotalLength(name, n)
           size == SizeFactor(total)
           h == [name |-> name, len |-> total, size |-> size]
<1>0. PICK u : u = FindFreeRegion(size)
  OBVIOUS
<1>1. /\ ~Exists(name) /\ u # 0 /\ files' = Placed(u, h, {}) /\ bytes' = bytes
  BY <1>0 DEF Create
<1>2. size \in 1 .. (SizeWidth - 1) /\ total = HeaderLen[name] + n /\ HeaderLen[name] \in Nat
  BY TotalLengthFits, MiniFsAssumption
<1>3. size \in Nat /\ size >= 1
  BY <1>2, MiniFsAssumption
<1> HIDE DEF total, size
<1>4. u \notin Offsets
  BY <1>0, <1>1, <1>3, PlaceIsNew DEF SInv
<1>5. Offsets' = Offsets \cup {u} /\ files'[u] = h /\ \A o \in Offsets : files'[o] = files[o]
  BY <1>1, <1>4 DEF Placed, Offsets
<1>6. ContentLen(u)' = n
  BY <1>2, <1>5 DEF ContentLen
<1>7. LengthsAsked'
  <2>1. \A o \in Offsets : ContentLen(o)' = ContentLen(o)
    BY <1>5 DEF ContentLen
  <2> QED BY <1>5, <1>6, <2>1 DEF LengthsAsked, SInv
<1>8. \A o \in Offsets : files[o].name # name
  BY <1>1 DEF Exists
<1>9. Store!Only(name)
  <2>1. \A o \in Offsets : files[o].name # name =>
               /\ o \in Offsets' /\ files'[o] = files[o]
               /\ \A i \in 1 .. ContentLen(o) : bytes'[Cell(o, i)] = bytes[Cell(o, i)]
    BY <1>1, <1>5
  <2>2. \A o \in Offsets' : files'[o].name # name => o \in Offsets /\ files[o].name # name
    BY <1>5, <1>8
  <2> QED BY <2>1, <2>2, OthersStay DEF SInv
<1>10. name \in (DOMAIN Stored)' /\ name \notin DOMAIN Stored
  BY <1>5, <1>8, StoredAt, StoredAtNext DEF SInv
<1>11. Stored'[name] \in [1 .. n -> Values]
  <2>1. Stored'[name] = ContentsAt(u)'
    BY <1>5, StoredAtNext
  <2>2. ContentsAt(u)' \in [1 .. ContentLen(u)' -> Values]
    BY <1>5, ContentsTypeNext
  <2> QED BY <1>6, <2>1, <2>2
<1> QED BY <1>7, <1>9, <1>10, <1>11 DEF Store!Create, Stored

LEMMA DeleteStores ==
    ASSUME SInv, IInv', NEW name \in Names, Delete(name)
    PROVE  LengthsAsked' /\ Store!Only(name) /\ Store!Delete(name)
<1>0. PICK u : u = At(name)
  OBVIOUS
<1>1. u \in Offsets /\ files[u].name = name
  BY <1>0, AtFacts DEF Delete
<1>2. Offsets' = Offsets \ {u} /\ (\A o \in Offsets' : files'[o] = files[o]) /\ bytes' = bytes
  BY <1>0 DEF Delete, Offsets
<1>3. \A o \in Offsets : files[o].name = name => o = u
  BY <1>1 DEF SInv, IInv, ContentsFit
<1>4. LengthsAsked'
  <2>1. \A o \in Offsets' : ContentLen(o)' = ContentLen(o)
    BY <1>2 DEF ContentLen
  <2> QED BY <1>2, <2>1 DEF LengthsAsked, SInv
<1>5. Store!Only(name)
  <2>1. \A o \in Offsets : files[o].name # name =>
               /\ o \in Offsets' /\ files'[o] = files[o]
               /\ \A i \in 1 .. ContentLen(o) : bytes'[Cell(o, i)] = bytes[Cell(o, i)]
    BY <1>1, <1>2
  <2>2. \A o \in Offsets' : files'[o].name # name => o \in Offsets /\ files[o].name # name
    BY <1>2
  <2> QED BY <2>1, <2>2, OthersStay DEF SInv
<1>6. name \in DOMAIN Stored /\ name \notin (DOMAIN Stored)'
  BY <1>1, <1>2, <1>3, StoredAt, StoredAtNext DEF SInv
<1> QED BY <1>4, <1>5, <1>6 DEF Store!Delete, Stored

\* A file that stays where it is begins as before when its length changes.
LEMMA ChangedStores ==
    ASSUME SInv, IInv', NEW name \in Names, NEW n \in 0 .. MaxRequest, NEW u \in Offsets, files[u].name = name,
           Offsets' = Offsets, bytes' = bytes, files'[u].name = name, files'[u].len = HeaderLen[name] + n,
           \A o \in Offsets \ {u} : files'[o] = files[o]
    PROVE  LengthsAsked' /\ Store!Only(name) /\ Store!Resize(name)
<1>1. files[u].name = name
  OBVIOUS
<1>2. HeaderLen[name] \in Nat
  BY MiniFsAssumption
<1>3. ContentLen(u)' = n
  BY <1>1, <1>2 DEF ContentLen
<1>4. LengthsAsked'
  <2>1. \A o \in Offsets \ {u} : ContentLen(o)' = ContentLen(o)
    BY DEF ContentLen
  <2> QED BY <1>3, <2>1 DEF LengthsAsked, SInv
<1>5. \A o \in Offsets : files[o].name = name => o = u
  BY <1>1 DEF SInv, IInv, ContentsFit
<1>6. Store!Only(name)
  <2>1. \A o \in Offsets : files[o].name # name =>
               /\ o \in Offsets' /\ files'[o] = files[o]
               /\ \A i \in 1 .. ContentLen(o) : bytes'[Cell(o, i)] = bytes[Cell(o, i)]
    BY <1>1
  <2>2. \A o \in Offsets' : files'[o].name # name => o \in Offsets /\ files[o].name # name
    BY <1>1, <1>5
  <2> QED BY <2>1, <2>2, OthersStay DEF SInv
<1>7. name \in DOMAIN Stored /\ name \in (DOMAIN Stored)'
  BY <1>1, StoredAt, StoredAtNext DEF SInv
<1>8. Stored[name] = ContentsAt(u) /\ Stored'[name] = ContentsAt(u)'
  BY <1>1, StoredAt, StoredAtNext DEF SInv
<1>9. Stored'[name] \in [1 .. n -> Values]
  BY <1>3, <1>8, ContentsTypeNext
<1>10. \A i \in DOMAIN Stored[name] \cap DOMAIN Stored'[name] : Stored'[name][i] = Stored[name][i]
  <2>1. \A i : Cell(u, i)' = Cell(u, i)
    BY DEF Cell, ContentAddress
  <2> QED BY <1>8, <2>1 DEF ContentsAt
<1>11. Store!Resize(name)
  BY <1>7, <1>9, <1>10 DEF Store!Resize, Stored
<1> QED BY <1>4, <1>6, <1>11

LEMMA ShrinkStores ==
    ASSUME SInv, IInv', NEW name \in Names, NEW n \in 0 .. MaxRequest, Shrink(name, n)
    PROVE  LengthsAsked' /\ Store!Only(name) /\ Store!Resize(name)
<1>0. PICK u : u = At(name)
  OBVIOUS
<1>1. u \in Offsets /\ files[u].name = name
  BY <1>0, AtFacts DEF Shrink
<1>2. files \in [Offsets -> Headers] /\ files[u] \in Headers /\ files[u].len \in Nat /\ HeaderLen[name] \in Nat
  BY <1>1, FileFacts, MiniFsAssumption DEF SInv, IInv, TypeOK
<1>3. PICK size : files' = [files EXCEPT ![u].len = files[u].len - (ContentLen(u) - n), ![u].size = size]
  BY <1>0 DEF Shrink
<1>4. files[u].len - (ContentLen(u) - n) = HeaderLen[name] + n
  BY <1>1, <1>2 DEF ContentLen
<1>5. /\ Offsets' = Offsets /\ files'[u].name = name /\ files'[u].len = HeaderLen[name] + n
      /\ \A o \in Offsets \ {u} : files'[o] = files[o]
  BY <1>1, <1>2, <1>3, <1>4 DEF Offsets, Headers
<1>6. bytes' = bytes
  BY DEF Shrink
<1> QED BY <1>1, <1>5, <1>6, ChangedStores

LEMMA GrowInPlaceStores ==
    ASSUME RequestsFit, SInv, IInv', NEW name \in Names, NEW n \in 0 .. MaxRequest, GrowInPlace(name, n)
    PROVE  LengthsAsked' /\ Store!Only(name) /\ Store!Resize(name)
<1>0. PICK u : u = At(name)
  OBVIOUS
<1>1. u \in Offsets /\ files[u].name = name
  BY <1>0, AtFacts DEF GrowInPlace
<1>2. files \in [Offsets -> Headers] /\ files[u] \in Headers
  BY <1>1, FileFacts DEF SInv, IInv, TypeOK
<1>3. TotalLength(name, n) = HeaderLen[name] + n
  BY TotalLengthFits
<1>4. \/ files' = [files EXCEPT ![u].len = HeaderLen[name] + n]
      \/ \E size : files' = [files EXCEPT ![u].len = HeaderLen[name] + n, ![u].size = size]
  BY <1>0, <1>3 DEF GrowInPlace
<1>5. /\ Offsets' = Offsets /\ files'[u].name = name /\ files'[u].len = HeaderLen[name] + n
      /\ \A o \in Offsets \ {u} : files'[o] = files[o]
  <2>1. CASE files' = [files EXCEPT ![u].len = HeaderLen[name] + n]
    BY <1>1, <1>2, <2>1 DEF Offsets, Headers
  <2>2. CASE \E size : files' = [files EXCEPT ![u].len = HeaderLen[name] + n, ![u].size = size]
    <3>1. PICK size : files' = [files EXCEPT ![u].len = HeaderLen[name] + n, ![u].size = size]
      BY <2>2
    <3> QED BY <1>1, <1>2, <3>1 DEF Offsets, Headers
  <2> QED BY <1>4, <2>1, <2>2
<1>6. bytes' = bytes
  BY DEF GrowInPlace
<1> QED BY <1>1, <1>5, <1>6, ChangedStores

\* The copy takes the contents along and touches no other file, as its cells are
\* in the gap.
LEMMA GrowByMovingStores ==
    ASSUME RequestsFit, SInv, IInv', NEW name \in Names, NEW n \in 0 .. MaxRequest, GrowByMoving(name, n)
    PROVE  LengthsAsked' /\ Store!Only(name) /\ Store!Resize(name)
<1> DEFINE total == TotalLength(name, n)
           size == SizeFactor(total)
           h == [name |-> name, len |-> total, size |-> size]
<1>0. PICK o, u : o = At(name) /\ u = FindFreeRegion(size)
  OBVIOUS
<1>1. /\ u # 0 /\ files' = Placed(u, h, {o}) /\ bytes' = Copied(o, u) /\ Exists(name) /\ n > ContentLen(o)
  BY <1>0 DEF GrowByMoving
<1>2. o \in Offsets /\ files[o].name = name
  BY <1>0, <1>1, AtFacts
<1>3. size \in 1 .. (SizeWidth - 1) /\ total = HeaderLen[name] + n /\ HeaderLen[name] \in Nat
  BY TotalLengthFits, MiniFsAssumption
<1>4. size \in Nat /\ size >= 1
  BY <1>3, MiniFsAssumption
<1> HIDE DEF total, size
<1>5. u \in Nat /\ u \notin Offsets
  BY <1>0, <1>1, <1>4, PlaceIsNew DEF SInv
<1>6. Offsets' = (Offsets \ {o}) \cup {u} /\ files'[u] = h /\ \A p \in Offsets \ {o} : files'[p] = files[p]
  BY <1>1, <1>5 DEF Placed, Offsets
<1>7. ContentLen(u)' = n
  BY <1>3, <1>6 DEF ContentLen
<1>8. LengthsAsked'
  <2>1. \A p \in Offsets \ {o} : ContentLen(p)' = ContentLen(p)
    BY <1>6 DEF ContentLen
  <2> QED BY <1>6, <1>7, <2>1 DEF LengthsAsked, SInv
<1>9. \A p \in Offsets : files[p].name = name => p = o
  BY <1>2 DEF SInv, IInv, ContentsFit
<1>10. ContentLen(o) \in Nat /\ \A i \in 1 .. n : Cell(u, i)' \in Addresses
  BY <1>2, <1>6, <1>7, CellsApart, CellsApartNext DEF SInv
<1> DEFINE new == ContentAddress(u, name)
           old == ContentAddress(o, name)
<1>11. /\ bytes' = [a \in Addresses |->
             IF a \in new .. (new + ContentLen(o) - 1) THEN bytes[a - new + old] ELSE bytes[a]]
       /\ \A i : Cell(u, i)' = new + i - 1 /\ Cell(o, i) = old + i - 1
  BY <1>1, <1>2, <1>6 DEF Copied, Cell, ContentAddress
<1>12. new \in Nat /\ old \in Nat
  <2>1. o \in Nat /\ Factor \in Nat /\ HeaderLen[name] \in Nat
    BY <1>2, FileFacts, MiniFsAssumption DEF SInv
  <2>2. o * Factor \in Nat /\ u * Factor \in Nat
    BY <1>5, <2>1
  <2> QED BY <2>1, <2>2 DEF ContentAddress
<1> HIDE DEF new, old
<1>13. \A i \in 1 .. ContentLen(o) : bytes'[Cell(u, i)'] = bytes[Cell(o, i)]
  <2> TAKE i \in 1 .. ContentLen(o)
  <2>1. i \in 1 .. n /\ i \in Int
    BY <1>1, <1>10
  <2>2. PICK a \in Addresses : a = new + i - 1 /\ Cell(u, i)' = a
    BY <1>10, <1>11, <2>1
  <2>3. a \in new .. (new + ContentLen(o) - 1) /\ a - new + old = old + i - 1
    BY <1>10, <1>12, <2>1, <2>2
  <2> QED BY <1>11, <2>2, <2>3
<1>14. ASSUME NEW p \in Offsets \ {o}, NEW i \in 1 .. ContentLen(p)
       PROVE  bytes'[Cell(p, i)] = bytes[Cell(p, i)]
  <2>1. p \in Offsets' \ {u} /\ Cell(p, i)' = Cell(p, i) /\ ContentLen(p)' = ContentLen(p)
    BY <1>5, <1>6 DEF Cell, ContentAddress, ContentLen
  <2>2. \A j \in 1 .. n : Cell(p, i)' # Cell(u, j)'
    BY <1>6, <1>7, <2>1, CellsApartNext
  <2>3. PICK a \in Addresses : a = Cell(p, i)
    BY CellsApart DEF SInv
  <2>4. a \in Int
    BY MiniFsAssumption, <2>3 DEF Addresses
  <2>5. a \notin new .. (new + ContentLen(o) - 1)
    <3> SUFFICES ASSUME a \in new .. (new + ContentLen(o) - 1) PROVE FALSE
      OBVIOUS
    <3>1. a - new + 1 \in 1 .. n /\ a = new + (a - new + 1) - 1
      BY <1>1, <1>10, <1>12, <2>4
    <3> QED BY <1>11, <2>1, <2>2, <2>3, <3>1
  <2> QED BY <1>11, <2>3, <2>5
<1>15. Store!Only(name)
  <2>1. \A p \in Offsets : files[p].name # name =>
               /\ p \in Offsets' /\ files'[p] = files[p]
               /\ \A i \in 1 .. ContentLen(p) : bytes'[Cell(p, i)] = bytes[Cell(p, i)]
    BY <1>2, <1>6, <1>14
  <2>2. \A p \in Offsets' : files'[p].name # name => p \in Offsets /\ files[p].name # name
    BY <1>6, <1>9
  <2> QED BY <2>1, <2>2, OthersStay DEF SInv
<1>16. name \in DOMAIN Stored /\ name \in (DOMAIN Stored)'
  BY <1>2, <1>6, StoredAt, StoredAtNext DEF SInv
<1>17. Stored[name] = ContentsAt(o) /\ Stored'[name] = ContentsAt(u)'
  BY <1>2, <1>6, StoredAt, StoredAtNext DEF SInv
<1>18. Stored'[name] \in [1 .. n -> Values]
  BY <1>6, <1>7, <1>17, ContentsTypeNext
<1>19. \A i \in DOMAIN Stored[name] \cap DOMAIN Stored'[name] : Stored'[name][i] = Stored[name][i]
  BY <1>7, <1>13, <1>17 DEF ContentsAt
<1> QED BY <1>8, <1>15, <1>16, <1>18, <1>19 DEF Store!Resize, Stored

\* A write that is cut off at the end of its file reaches no other file.
LEMMA WriteStores ==
    ASSUME SInv, IInv', NEW name \in Names, NEW offset \in 0 .. MaxRequest, NEW len \in 1 .. MaxRequest,
           NEW v \in Values, Write(name, offset, len, v)
    PROVE  LengthsAsked' /\ Store!Only(name) /\ Store!Writes(name)
<1>0. PICK u : u = At(name)
  OBVIOUS
<1>1. u \in Offsets /\ files[u].name = name
  BY <1>0, AtFacts DEF Write
<1>2. ContentLen(u) \in Nat /\ ContentLen(u) <= MaxRequest /\ MaxRequest \in Nat
  BY <1>1, CellsApart, MiniFsAssumption DEF SInv, LengthsAsked
<1> DEFINE base == ContentAddress(u, name)
<1>3. PICK count : count = IF len > ContentLen(u) - offset THEN ContentLen(u) - offset ELSE len
  OBVIOUS
<1>4. /\ offset < ContentLen(u) /\ files' = files
      /\ bytes' = [a \in Addresses |->
            IF a \in (base + offset) .. (base + offset + count - 1) THEN v ELSE bytes[a]]
  BY <1>0, <1>3 DEF Write
<1>5. count \in Nat /\ count >= 1 /\ offset + count <= ContentLen(u)
  BY <1>2, <1>3, <1>4
<1>6. base \in Nat
  <2>1. u \in Nat /\ Factor \in Nat /\ HeaderLen[name] \in Nat
    BY <1>1, FileFacts, MiniFsAssumption DEF SInv
  <2>2. u * Factor \in Nat
    BY <2>1
  <2> QED BY <2>1, <2>2 DEF ContentAddress
<1>7. \A i : Cell(u, i) = base + i - 1
  BY <1>1 DEF Cell
<1> HIDE DEF base
<1>8. Offsets' = Offsets /\ \A o : /\ files'[o] = files[o] /\ ContentLen(o)' = ContentLen(o)
                                   /\ \A i : Cell(o, i)' = Cell(o, i)
  BY <1>4 DEF Offsets, ContentLen, Cell, ContentAddress
<1>9. LengthsAsked'
  BY <1>8 DEF LengthsAsked, SInv
<1>10. \A o \in Offsets : files[o].name = name => o = u
  BY <1>1 DEF SInv, IInv, ContentsFit
<1>11. ASSUME NEW o \in Offsets \ {u}, NEW i \in 1 .. ContentLen(o)
       PROVE  bytes'[Cell(o, i)] = bytes[Cell(o, i)]
  <2>1. PICK a \in Addresses : a = Cell(o, i)
    BY CellsApart DEF SInv
  <2>2. a \in Int
    BY MiniFsAssumption DEF Addresses
  <2>3. \A j \in 1 .. ContentLen(u) : Cell(u, j) # a
    BY <1>1, <2>1, CellsApart DEF SInv
  <2>4. a \notin (base + offset) .. (base + offset + count - 1)
    <3> SUFFICES ASSUME a \in (base + offset) .. (base + offset + count - 1) PROVE FALSE
      OBVIOUS
    <3>1. a - base + 1 \in 1 .. ContentLen(u) /\ a = base + (a - base + 1) - 1
      BY <1>2, <1>5, <1>6, <2>2
    <3> QED BY <1>7, <2>3, <3>1
  <2> QED BY <1>4, <2>1, <2>4
<1>12. Store!Only(name)
  <2>1. \A o \in Offsets : files[o].name # name =>
               /\ o \in Offsets' /\ files'[o] = files[o]
               /\ \A i \in 1 .. ContentLen(o) : bytes'[Cell(o, i)] = bytes[Cell(o, i)]
    BY <1>1, <1>8, <1>11
  <2>2. \A o \in Offsets' : files'[o].name # name => o \in Offsets /\ files[o].name # name
    BY <1>8
  <2> QED BY <2>1, <2>2, OthersStay DEF SInv
<1>13. name \in DOMAIN Stored /\ name \in (DOMAIN Stored)'
  BY <1>1, <1>8, StoredAt, StoredAtNext DEF SInv
<1>14. Stored[name] = ContentsAt(u) /\ Stored'[name] = ContentsAt(u)'
  BY <1>1, <1>8, StoredAt, StoredAtNext DEF SInv
<1>15. ASSUME NEW i \in 1 .. ContentLen(u)
       PROVE  bytes'[Cell(u, i)] = IF i \in (offset + 1) .. (offset + count) THEN v ELSE bytes[Cell(u, i)]
  <2>1. PICK a \in Addresses : a = Cell(u, i)
    BY <1>1, CellsApart DEF SInv
  <2>2. a \in (base + offset) .. (base + offset + count - 1) <=> i \in (offset + 1) .. (offset + count)
    BY <1>2, <1>5, <1>6, <1>7, <2>1
  <2> QED BY <1>4, <2>1, <2>2
<1>16. Stored'[name] = [i \in DOMAIN Stored[name] |->
                          IF i \in (offset + 1) .. (offset + count) THEN v ELSE Stored[name][i]]
  BY <1>8, <1>14, <1>15 DEF ContentsAt
<1>17. offset + 1 \in 1 .. MaxRequest /\ offset + count \in 1 .. MaxRequest
  BY <1>2, <1>5
<1>18. Store!Write(name, offset + 1, offset + count, v)
  BY <1>13, <1>16 DEF Store!Write, Stored
<1> QED BY <1>9, <1>12, <1>17, <1>18 DEF Store!Writes

LEMMA NextStores ==
    ASSUME RequestsFit, SInv, [Next]_vars PROVE SInv' /\ [Store!Next]_(Stored)
<1>1. IInv'
  BY NextIInv DEF SInv
<1>2. CASE UNCHANGED vars
  <2>1. LengthsAsked'
    BY <1>2 DEF SInv, LengthsAsked, vars, Offsets, ContentLen
  <2>2. Stored' = Stored
    BY <1>2 DEF Stored, vars, Offsets, ContentLen, At, ContentAddress
  <2> QED BY <1>1, <2>1, <2>2 DEF SInv
<1>3. CASE Next
  <2>1. PICK name \in Names :
          \/ Delete(name)
          \/ \E n \in 0 .. MaxRequest : Create(name, n) \/ Resize(name, n)
          \/ \E offset \in 0 .. MaxRequest, len \in 1 .. MaxRequest, v \in Values : Write(name, offset, len, v)
    BY <1>3 DEF Next
  <2>2. CASE Delete(name)
    BY <1>1, <2>2, DeleteStores DEF Store!Next, SInv
  <2>3. CASE \E n \in 0 .. MaxRequest : Create(name, n)
    BY <1>1, <2>3, CreateStores DEF Store!Next, SInv
  <2>4. CASE \E n \in 0 .. MaxRequest : Resize(name, n)
    <3>1. PICK n \in 0 .. MaxRequest : Shrink(name, n) \/ GrowInPlace(name, n) \/ GrowByMoving(name, n)
      BY <2>4 DEF Resize
    <3>2. LengthsAsked' /\ Store!Only(name) /\ Store!Resize(name)
      BY <1>1, <3>1, ShrinkStores, GrowInPlaceStores, GrowByMovingStores
    <3> QED BY <1>1, <3>2 DEF Store!Next, SInv
  <2>5. CASE \E offset \in 0 .. MaxRequest, len \in 1 .. MaxRequest, v \in Values : Write(name, offset, len, v)
    BY <1>1, <2>5, WriteStores DEF Store!Next, SInv
  <2> QED BY <2>1, <2>2, <2>3, <2>4, <2>5
<1> QED BY <1>2, <1>3

\* A volume keeps every file's bytes apart: whatever is created, deleted, resized
\* in place or moved (miniFsFileResize copies), the contents of the others stay
\* and a resized file begins as before; a write changes the bytes it names and
\* nothing else.
THEOREM VolumeIsAStore == ASSUME RequestsFit PROVE Spec => StoreSpec
<1>1. Init => SInv /\ Store!Init
  <2> SUFFICES ASSUME Init PROVE SInv /\ Store!Init
    OBVIOUS
  <2>1. Offsets = {} /\ IInv
    BY InitIInv DEF Init, Offsets
  <2>2. Stored = << >>
    BY <2>1 DEF Stored
  <2> QED BY <2>1, <2>2 DEF SInv, LengthsAsked, Store!Init, Stored
<1>2. SInv /\ [Next]_vars => SInv' /\ [Store!Next]_(Stored)
  BY NextStores
<1> QED BY <1>1, <1>2, PTL DEF Spec, StoreSpec, Store!Spec, Stored
-----------------------------------------------------------------------------
(* The sort of the table of files. *)

\* Induction over the natural numbers from 1, for a set.
LEMMA InductionFromOne ==
    ASSUME NEW S, 1 \in S, \A k \in Nat \ {0} : k \in S => k + 1 \in S
    PROVE  Nat \ {0} \subseteq S
<1> DEFINE R == (Nat \ {0}) \ S
<1> SUFFICES ASSUME R # {} PROVE FALSE
  OBVIOUS
<1>1. R \subseteq Nat
  OBVIOUS
<1> HIDE DEF R
<1>2. PICK x \in R : \A y \in R : x <= y
  BY <1>1, LeastElement
<1>3. x \in Nat \ {0} /\ x \notin S /\ x # 1
  BY <1>2 DEF R
<1>4. x - 1 \in Nat \ {0} /\ (x - 1) + 1 = x /\ ~(x <= x - 1)
  BY <1>3
<1>5. x - 1 \in S
  BY <1>2, <1>4 DEF R
<1> QED BY <1>3, <1>4, <1>5

\* What an entry may stand before: a larger one, and one that is not used.
Le(x, y) == y # 0 => x # 0 /\ x <= y

Entries == Offsets \cup {0}
Tables == [1 .. MaxFiles -> Entries]
Where(t, e) == {i \in 1 .. MaxFiles : t[i] = e}
SameEntries(s, t) == \A e \in Entries : Cardinality(Where(s, e)) = Cardinality(Where(t, e))

LEMMA LeFacts ==
    ASSUME TypeOK
    PROVE  /\ Entries \subseteq Nat
           /\ \A x \in Entries : Le(x, x)
           /\ \A x, y \in Entries : Le(x, y) \/ Le(y, x)
           /\ \A x, y \in Entries : Le(x, y) /\ Le(y, x) => x = y
           /\ \A x, y, z \in Entries : Le(x, y) /\ Le(y, z) => Le(x, z)
<1>1. Entries \subseteq Nat
  BY MiniFsAssumption DEF TypeOK, MiniFsAssumption, Entries, Offsets, Units
<1> HIDE DEF Entries
<1>2. \A x \in Nat : Le(x, x)
  BY DEF Le
<1>3. \A x, y \in Nat : (Le(x, y) \/ Le(y, x)) /\ (Le(x, y) /\ Le(y, x) => x = y)
  BY DEF Le
<1>4. \A x, y, z \in Nat : Le(x, y) /\ Le(y, z) => Le(x, z)
  BY DEF Le
<1> QED BY <1>1, <1>2, <1>3, <1>4

\* Two neighbours in order, exchanged if they were not.
LEMMA SwapFacts ==
    ASSUME TypeOK, NEW t \in Tables, NEW i \in 2 .. MaxFiles
    PROVE  LET s == SwapAt(t, i) IN
           /\ s \in Tables
           /\ Le(s[i - 1], s[i])
           /\ \A j \in 1 .. MaxFiles : j # i - 1 /\ j # i => s[j] = t[j]
           /\ IF Le(t[i - 1], t[i]) THEN s = t ELSE s[i - 1] = t[i] /\ s[i] = t[i - 1]
           /\ SameEntries(s, t)
<1> DEFINE s == SwapAt(t, i)
<1>1. MaxFiles \in Nat /\ i \in 1 .. MaxFiles /\ i - 1 \in 1 .. MaxFiles /\ i - 1 # i
  BY MiniFsAssumption DEF MiniFsAssumption
<1>2. t[i] \in Entries /\ t[i - 1] \in Entries /\ t[i] \in Nat /\ t[i - 1] \in Nat
  BY <1>1, LeFacts DEF Tables
<1>3. Le(t[i - 1], t[i]) <=> ~(t[i] # 0 /\ (t[i - 1] = 0 \/ t[i - 1] > t[i]))
  BY <1>2 DEF Le
<1>4. CASE Le(t[i - 1], t[i])
  <2>1. s = t
    BY <1>3, <1>4 DEF SwapAt
  <2> HIDE DEF s
  <2> QED BY <1>4, <2>1 DEF SameEntries, s
<1>5. CASE ~Le(t[i - 1], t[i])
  <2>1. s = [t EXCEPT ![i - 1] = t[i], ![i] = t[i - 1]]
    BY <1>3, <1>5 DEF SwapAt
  <2> HIDE DEF s
  <2>2. s \in Tables
    BY <1>1, <1>2, <2>1 DEF Tables
  <2>3. s[i - 1] = t[i] /\ s[i] = t[i - 1] /\ \A j \in 1 .. MaxFiles : j # i - 1 /\ j # i => s[j] = t[j]
    BY <1>1, <2>1 DEF Tables
  <2>4. Le(s[i - 1], s[i])
    BY <1>2, <1>5, <2>3, LeFacts
  <2>5. ASSUME NEW e \in Entries PROVE Cardinality(Where(s, e)) = Cardinality(Where(t, e))
    <3> DEFINE other(j) == IF j = i THEN i - 1 ELSE IF j = i - 1 THEN i ELSE j
               f == [j \in Where(s, e) |-> other(j)]
    <3>1. \A j \in 1 .. MaxFiles : other(j) \in 1 .. MaxFiles /\ other(other(j)) = j /\ t[other(j)] = s[j] /\ s[other(j)] = t[j]
      BY <1>1, <2>3
    <3> HIDE DEF other
    <3>2. f \in [Where(s, e) -> Where(t, e)]
      BY <3>1 DEF Where
    <3>3. \A j \in Where(t, e) : other(j) \in Where(s, e) /\ f[other(j)] = j
      BY <3>1 DEF Where
    <3>4. \A j, k \in Where(s, e) : f[j] = f[k] => j = k
      <4> TAKE j, k \in Where(s, e)
      <4>1. other(other(j)) = j /\ other(other(k)) = k /\ f[j] = other(j) /\ f[k] = other(k)
        BY <3>1 DEF Where
      <4> HIDE DEF f
      <4> QED BY <4>1
    <3> HIDE DEF f
    <3>5. f \in Bijection(Where(s, e), Where(t, e))
      BY <3>2, <3>3, <3>4 DEF Bijection, Injection, Surjection, IsInjective
    <3>6. IsFiniteSet(Where(s, e))
      <4>1. IsFiniteSet(1 .. MaxFiles)
        BY <1>1, FS_Interval
      <4>2. Where(s, e) \in SUBSET (1 .. MaxFiles)
        BY DEF Where
      <4> QED BY <4>1, <4>2, FS_Subset
    <3> QED BY <3>5, <3>6, FS_Bijection DEF ExistsBijection
  <2> QED BY <1>5, <2>2, <2>3, <2>4, <2>5 DEF SameEntries, s
<1> QED BY <1>4, <1>5

\* The tables of a pass, one after the other, and those of a whole sort.
IsPass(f, t, m) == f = [i \in 1 .. m |-> IF i = 1 THEN t ELSE SwapAt(f[i - 1], i)]

Sorted(acc, m) ==
    IF ~acc.change THEN acc
    ELSE [table |-> Pass(acc.table, m), change |-> Pass(acc.table, m) # acc.table]
IsSort(f, t, n, max) ==
    f = [k \in 0 .. n |-> IF k = 0 THEN [table |-> t, change |-> TRUE] ELSE Sorted(f[k - 1], max - k + 1)]

LEMMA PassExists ==
    ASSUME NEW t, NEW m \in Nat \ {0}
    PROVE  \E f : IsPass(f, t, m)
<1> DEFINE S == {n \in Nat \ {0} : \E f : IsPass(f, t, n)}
<1>1. 1 \in S
  <2>1. IsPass([i \in 1 .. 1 |-> t], t, 1)
    BY DEF IsPass
  <2> QED BY <2>1
<1>2. ASSUME NEW n \in Nat \ {0}, n \in S PROVE n + 1 \in S
  <2>1. PICK f : IsPass(f, t, n)
    BY <1>2
  <2>2. f = [i \in 1 .. n |-> IF i = 1 THEN t ELSE SwapAt(f[i - 1], i)]
    BY <2>1 DEF IsPass
  <2> DEFINE g == [i \in 1 .. (n + 1) |-> IF i = n + 1 THEN SwapAt(f[n], n + 1) ELSE f[i]]
  <2>3. \A i \in 1 .. n : g[i] = f[i]
    OBVIOUS
  <2>4. \A i \in 1 .. (n + 1) : g[i] = IF i = 1 THEN t ELSE SwapAt(g[i - 1], i)
    <3> TAKE i \in 1 .. (n + 1)
    <3>1. CASE i = 1
      BY <2>2, <2>3, <3>1
    <3>2. CASE i \in 2 .. n
      <4>1. i \in 1 .. n /\ i - 1 \in 1 .. n /\ i # 1
        BY <3>2
      <4>2. f[i] = SwapAt(f[i - 1], i)
        BY <2>2, <4>1
      <4> HIDE DEF g
      <4> QED BY <2>3, <4>1, <4>2
    <3>3. CASE i = n + 1
      <4>1. i - 1 = n /\ n \in 1 .. n /\ i # 1
        BY <3>3
      <4>2. g[i] = SwapAt(f[n], n + 1)
        BY <3>3
      <4> HIDE DEF g
      <4> QED BY <2>3, <3>3, <4>1, <4>2
    <3> QED BY <3>1, <3>2, <3>3
  <2>5. g = [i \in 1 .. (n + 1) |-> g[i]]
    OBVIOUS
  <2> HIDE DEF g
  <2>6. IsPass(g, t, n + 1)
    BY <2>4, <2>5 DEF IsPass
  <2> QED BY <2>6
<1> HIDE DEF S
<1>3. m \in S
  BY <1>1, <1>2, InductionFromOne
<1> QED BY <1>3 DEF S

LEMMA SortExists ==
    ASSUME NEW t, NEW max, NEW n \in Nat
    PROVE  \E f : IsSort(f, t, n, max)
<1> DEFINE S == {m \in Nat \ {0} : \E f : IsSort(f, t, m - 1, max)}
           first == [table |-> t, change |-> TRUE]
<1> HIDE DEF first
<1>1. 1 \in S
  <2>1. IsSort([k \in 0 .. 0 |-> first], t, 0, max)
    BY DEF IsSort, first
  <2>2. 1 - 1 = 0
    OBVIOUS
  <2> QED BY <2>1, <2>2
<1>2. ASSUME NEW j \in Nat \ {0}, j \in S PROVE j + 1 \in S
  <2>1. PICK m \in Nat : m = j - 1 /\ (j + 1) - 1 = m + 1
    OBVIOUS
  <2>2. PICK f : IsSort(f, t, m, max)
    BY <1>2, <2>1
  <2>3. f = [k \in 0 .. m |-> IF k = 0 THEN first ELSE Sorted(f[k - 1], max - k + 1)]
    BY <2>2 DEF IsSort, first
  <2> DEFINE g == [k \in 0 .. (m + 1) |-> IF k = m + 1 THEN Sorted(f[m], max - (m + 1) + 1) ELSE f[k]]
  <2>4. \A k \in 0 .. m : g[k] = f[k]
    OBVIOUS
  <2>5. \A k \in 0 .. (m + 1) : g[k] = IF k = 0 THEN first ELSE Sorted(g[k - 1], max - k + 1)
    <3> TAKE k \in 0 .. (m + 1)
    <3>1. CASE k = 0
      BY <2>3, <2>4, <3>1
    <3>2. CASE k \in 1 .. m
      <4>1. k \in 0 .. m /\ k - 1 \in 0 .. m /\ k # 0
        BY <3>2
      <4>2. f[k] = Sorted(f[k - 1], max - k + 1)
        BY <2>3, <4>1
      <4> HIDE DEF g
      <4> QED BY <2>4, <4>1, <4>2
    <3>3. CASE k = m + 1
      <4>1. k - 1 = m /\ m \in 0 .. m /\ k # 0
        BY <3>3
      <4>2. g[k] = Sorted(f[m], max - (m + 1) + 1)
        BY <3>3
      <4> HIDE DEF g
      <4> QED BY <2>4, <3>3, <4>1, <4>2
    <3> QED BY <3>1, <3>2, <3>3
  <2>6. g = [k \in 0 .. (m + 1) |-> g[k]]
    OBVIOUS
  <2> HIDE DEF g
  <2>7. IsSort(g, t, m + 1, max)
    BY <2>5, <2>6 DEF IsSort, first
  <2> QED BY <2>1, <2>7
<1>3. n + 1 \in S
  <2> HIDE DEF S
  <2>1. n + 1 \in Nat \ {0}
    OBVIOUS
  <2> QED BY <1>1, <1>2, <2>1, InductionFromOne
<1>4. (n + 1) - 1 = n
  OBVIOUS
<1> QED BY <1>3, <1>4

\* Every entry up to m may stand before x.
AllBefore(t, m, x) == \A j \in 1 .. MaxFiles : j <= m => Le(t[j], x)

\* What a pass over m entries of t has achieved when it is at k: the last of the
\* entries up to k is there, and nothing was exchanged only if they were in order.
PassInv(s, t, k, m) ==
    /\ s \in Tables
    /\ SameEntries(s, t)
    /\ \A j \in 1 .. MaxFiles : j > k => s[j] = t[j]
    /\ AllBefore(s, k, s[k])
    /\ s = t => \A j \in 2 .. MaxFiles : j <= k => Le(t[j - 1], t[j])
    /\ \A x \in Entries : AllBefore(t, m, x) => AllBefore(s, m, x)

LEMMA PassStart ==
    ASSUME TypeOK, NEW t \in Tables, NEW m \in 1 .. MaxFiles
    PROVE  PassInv(t, t, 1, m)
<1>1. MaxFiles \in Nat /\ 1 \in 1 .. MaxFiles
  BY MiniFsAssumption DEF MiniFsAssumption
<1>2. Le(t[1], t[1])
  BY <1>1, LeFacts DEF Tables
<1>3. AllBefore(t, 1, t[1])
  <2> SUFFICES ASSUME NEW j \in 1 .. MaxFiles, j <= 1 PROVE Le(t[j], t[1])
    BY DEF AllBefore
  <2>1. j = 1
    BY <1>1
  <2> QED BY <1>2, <2>1
<1>4. \A j \in 2 .. MaxFiles : ~(j <= 1)
  BY <1>1
<1> QED BY <1>3, <1>4 DEF PassInv, SameEntries

LEMMA PassStep ==
    ASSUME TypeOK, NEW t \in Tables, NEW m \in 1 .. MaxFiles, NEW k \in 2 .. m, NEW s, PassInv(s, t, k - 1, m)
    PROVE  PassInv(SwapAt(s, k), t, k, m)
<1>1. MaxFiles \in Nat /\ m \in Nat /\ k \in Nat /\ k \in 2 .. MaxFiles /\ k \in 1 .. MaxFiles /\ k - 1 \in 1 .. MaxFiles
      /\ k - 1 < k /\ k <= m /\ k - 1 <= m
  BY MiniFsAssumption DEF MiniFsAssumption
<1>2. /\ s \in Tables /\ SameEntries(s, t)
      /\ \A j \in 1 .. MaxFiles : j > k - 1 => s[j] = t[j]
      /\ AllBefore(s, k - 1, s[k - 1])
      /\ s = t => \A j \in 2 .. MaxFiles : j <= k - 1 => Le(t[j - 1], t[j])
      /\ \A x \in Entries : AllBefore(t, m, x) => AllBefore(s, m, x)
  BY DEF PassInv
<1> DEFINE u == SwapAt(s, k)
<1>3. /\ u \in Tables
      /\ Le(u[k - 1], u[k])
      /\ \A j \in 1 .. MaxFiles : j # k - 1 /\ j # k => u[j] = s[j]
      /\ IF Le(s[k - 1], s[k]) THEN u = s ELSE u[k - 1] = s[k] /\ u[k] = s[k - 1]
      /\ SameEntries(u, s)
  BY <1>1, <1>2, SwapFacts
<1> HIDE DEF u
<1>4. /\ \A j \in 1 .. MaxFiles : s[j] \in Entries /\ u[j] \in Entries /\ t[j] \in Entries
      /\ \A x \in Entries : Le(x, x)
      /\ \A x, y, z \in Entries : Le(x, y) /\ Le(y, z) => Le(x, z)
  BY <1>2, <1>3, LeFacts DEF Tables
<1>5. SameEntries(u, t)
  BY <1>2, <1>3 DEF SameEntries
<1>6. \A j \in 1 .. MaxFiles : j > k => u[j] = t[j]
  BY <1>1, <1>2, <1>3
<1>7. Le(s[k - 1], u[k])
  BY <1>1, <1>3, <1>4
<1>8. AllBefore(u, k, u[k])
  <2> SUFFICES ASSUME NEW j \in 1 .. MaxFiles, j <= k PROVE Le(u[j], u[k])
    BY DEF AllBefore
  <2>1. CASE j = k
    BY <1>4, <2>1
  <2>2. CASE j = k - 1
    BY <1>3, <2>2
  <2>3. CASE j < k - 1
    <3>1. j # k - 1 /\ j # k /\ j <= k - 1
      BY <1>1, <2>3
    <3>2. u[j] = s[j] /\ Le(s[j], s[k - 1])
      BY <1>2, <1>3, <3>1 DEF AllBefore
    <3> QED BY <1>1, <1>4, <1>7, <3>2
  <2> QED BY <1>1, <2>1, <2>2, <2>3
<1>9. ASSUME u = t, NEW j \in 2 .. MaxFiles, j <= k PROVE Le(t[j - 1], t[j])
  <2>1. s[k] = t[k]
    BY <1>1, <1>2
  <2>2. Le(s[k - 1], s[k])
    <3> SUFFICES ASSUME ~Le(s[k - 1], s[k]) PROVE FALSE
      OBVIOUS
    <3>1. u[k] = s[k - 1] /\ u[k] = s[k]
      BY <1>3, <1>9, <2>1
    <3> QED BY <1>1, <1>4, <3>1
  <2>3. s = t
    BY <1>3, <1>9, <2>2
  <2>4. CASE j = k
    BY <2>2, <2>3, <2>4
  <2>5. CASE j <= k - 1
    BY <1>2, <2>3, <2>5
  <2> QED BY <1>1, <1>9, <2>4, <2>5
<1>10. ASSUME NEW x \in Entries, AllBefore(t, m, x) PROVE AllBefore(u, m, x)
  <2>1. \A j \in 1 .. MaxFiles : j <= m => Le(s[j], x)
    BY <1>2, <1>10 DEF AllBefore
  <2>2. Le(s[k], x) /\ Le(s[k - 1], x)
    BY <1>1, <2>1
  <2> SUFFICES ASSUME NEW j \in 1 .. MaxFiles, j <= m PROVE Le(u[j], x)
    BY DEF AllBefore
  <2> QED BY <1>3, <2>1, <2>2
<1> QED BY <1>3, <1>5, <1>6, <1>8, <1>9, <1>10 DEF PassInv, u

LEMMA PassFacts ==
    ASSUME TypeOK, NEW t \in Tables, NEW m \in 1 .. MaxFiles
    PROVE  PassInv(Pass(t, m), t, m, m)
<1>1. m \in Nat \ {0} /\ 1 \in 1 .. m
  BY MiniFsAssumption DEF MiniFsAssumption
<1> DEFINE f == CHOOSE g : g = [i \in 1 .. m |-> IF i = 1 THEN t ELSE SwapAt(g[i - 1], i)]
<1>2. Pass(t, m) = f[m]
  BY DEF Pass
<1>3. f = [i \in 1 .. m |-> IF i = 1 THEN t ELSE SwapAt(f[i - 1], i)]
  BY <1>1, PassExists DEF IsPass
<1> HIDE DEF f
<1> DEFINE S == {k \in Nat \ {0} : k <= m => PassInv(f[k], t, k, m)}
<1>4. 1 \in S
  BY <1>1, <1>3, PassStart
<1>5. ASSUME NEW k \in Nat \ {0}, k \in S PROVE k + 1 \in S
  <2> SUFFICES ASSUME k + 1 <= m PROVE PassInv(f[k + 1], t, k + 1, m)
    OBVIOUS
  <2>1. k + 1 \in 1 .. m /\ k + 1 \in 2 .. m /\ k + 1 # 1 /\ (k + 1) - 1 = k /\ k <= m
    BY <1>1
  <2>2. f[k + 1] = SwapAt(f[k], k + 1)
    BY <1>3, <2>1
  <2>3. PassInv(f[k], t, (k + 1) - 1, m)
    BY <1>5, <2>1
  <2> HIDE DEF S
  <2> QED BY <2>1, <2>2, <2>3, PassStep
<1>6. m \in S
  <2> HIDE DEF S
  <2> QED BY <1>1, <1>4, <1>5, InductionFromOne
<1> QED BY <1>1, <1>2, <1>6

\* Neighbours in order, so any two in order.
LEMMA NeighboursInOrder ==
    ASSUME TypeOK, NEW t \in Tables, NEW m \in 1 .. MaxFiles,
           \A j \in 2 .. MaxFiles : j <= m => Le(t[j - 1], t[j])
    PROVE  \A i, j \in 1 .. MaxFiles : i < j /\ j <= m => Le(t[i], t[j])
<1>1. MaxFiles \in Nat /\ m \in Nat
  BY MiniFsAssumption DEF MiniFsAssumption
<1>2. /\ \A j \in 1 .. MaxFiles : t[j] \in Entries
      /\ \A x \in Entries : Le(x, x)
      /\ \A x, y, z \in Entries : Le(x, y) /\ Le(y, z) => Le(x, z)
  BY LeFacts DEF Tables
<1> DEFINE S == {k \in Nat \ {0} : k <= m => AllBefore(t, k, t[k])}
<1>3. 1 \in S
  <2> SUFFICES ASSUME NEW j \in 1 .. MaxFiles, j <= 1 PROVE Le(t[j], t[1])
    BY DEF AllBefore
  <2>1. j = 1
    BY <1>1
  <2> QED BY <1>2, <2>1
<1>4. ASSUME NEW k \in Nat \ {0}, k \in S PROVE k + 1 \in S
  <2> SUFFICES ASSUME k + 1 <= m, NEW j \in 1 .. MaxFiles, j <= k + 1 PROVE Le(t[j], t[k + 1])
    BY DEF AllBefore
  <2>1. k \in 1 .. MaxFiles /\ k + 1 \in 1 .. MaxFiles /\ k + 1 \in 2 .. MaxFiles /\ (k + 1) - 1 = k /\ k <= m
    BY <1>1
  <2>2. Le(t[k], t[k + 1])
    BY <2>1
  <2>3. CASE j = k + 1
    BY <1>2, <2>3
  <2>4. CASE j <= k
    <3>1. Le(t[j], t[k])
      BY <1>4, <2>1, <2>4 DEF AllBefore
    <3> QED BY <1>2, <2>1, <2>2, <3>1
  <2> QED BY <2>1, <2>3, <2>4
<1>5. Nat \ {0} \subseteq S
  <2> HIDE DEF S
  <2> QED BY <1>3, <1>4, InductionFromOne
<1> TAKE i, j \in 1 .. MaxFiles
<1>6. j \in Nat \ {0} /\ (i < j => i <= j)
  BY <1>1
<1>7. j \in S
  BY <1>5, <1>6
<1> QED BY <1>6, <1>7 DEF AllBefore

\* What the sort of t has achieved after k passes: the last k entries are in
\* place, and all of them are when a pass changed nothing.
SortInv(s, t, k) ==
    /\ s.table \in Tables
    /\ SameEntries(s.table, t)
    /\ \A i, j \in 1 .. MaxFiles :
          i < j /\ (j > MaxFiles - k \/ ~s.change) => Le(s.table[i], s.table[j])

LEMMA SortStep ==
    ASSUME TypeOK, NEW t \in Tables, NEW k \in 1 .. MaxFiles, NEW s, SortInv(s, t, k - 1)
    PROVE  SortInv(Sorted(s, MaxFiles - k + 1), t, k)
<1> DEFINE m == MaxFiles - k + 1
           u == Pass(s.table, m)
<1>1. MaxFiles \in Nat /\ k \in Nat /\ m \in 1 .. MaxFiles /\ m \in Nat
      /\ \A j \in 1 .. MaxFiles : (j > MaxFiles - k <=> j >= m) /\ (j > MaxFiles - (k - 1) <=> j > m)
  BY MiniFsAssumption DEF MiniFsAssumption
<1>2. /\ s.table \in Tables /\ SameEntries(s.table, t)
      /\ \A i, j \in 1 .. MaxFiles : i < j /\ (j > m \/ ~s.change) => Le(s.table[i], s.table[j])
  BY <1>1 DEF SortInv
<1> HIDE DEF m
<1>3. CASE ~s.change
  <2>1. Sorted(s, m) = s
    BY <1>3 DEF Sorted
  <2>2. SortInv(s, t, k)
    BY <1>2, <1>3 DEF SortInv
  <2> QED BY <2>1, <2>2 DEF m
<1>4. CASE s.change
  <2> DEFINE r == Sorted(s, m)
  <2>1. r = [table |-> u, change |-> u # s.table]
    BY <1>4 DEF Sorted
  <2> HIDE DEF r, u
  <2>0. r.table = u /\ r.change = (u # s.table)
    BY <2>1, Zenon
  <2>2. r.table = u /\ (~r.change => u = s.table)
    BY <2>0, Zenon
  <2>3. PassInv(u, s.table, m, m)
    BY <1>1, <1>2, PassFacts DEF u
  <2>4. /\ u \in Tables /\ SameEntries(u, s.table)
        /\ \A j \in 1 .. MaxFiles : j > m => u[j] = s.table[j]
        /\ AllBefore(u, m, u[m])
        /\ u = s.table => \A j \in 2 .. MaxFiles : j <= m => Le(s.table[j - 1], s.table[j])
        /\ \A x \in Entries : AllBefore(s.table, m, x) => AllBefore(u, m, x)
    BY <2>3 DEF PassInv
  <2>5. SameEntries(u, t)
    BY <1>2, <2>4 DEF SameEntries
  <2>6. ASSUME NEW i \in 1 .. MaxFiles, NEW j \in 1 .. MaxFiles, i < j, j > m PROVE Le(u[i], u[j])
    <3>1. u[j] = s.table[j] /\ s.table[j] \in Entries
      BY <1>2, <2>4, <2>6 DEF Tables
    <3>2. CASE i > m
      BY <1>2, <2>4, <2>6, <3>1, <3>2
    <3>3. CASE i <= m
      <4>1. AllBefore(s.table, m, s.table[j])
        <5> SUFFICES ASSUME NEW l \in 1 .. MaxFiles, l <= m PROVE Le(s.table[l], s.table[j])
          BY DEF AllBefore
        <5>1. l < j
          BY <1>1, <2>6
        <5> QED BY <1>2, <2>6, <5>1
      <4>2. AllBefore(u, m, s.table[j])
        BY <2>4, <3>1, <4>1
      <4> QED BY <3>1, <3>3, <4>2 DEF AllBefore
    <3> QED BY <1>1, <3>2, <3>3
  <2>7. ASSUME NEW i \in 1 .. MaxFiles, NEW j \in 1 .. MaxFiles, i < j, j = m PROVE Le(u[i], u[j])
    <3>1. i <= m
      BY <1>1, <2>7
    <3> QED BY <2>4, <2>7, <3>1 DEF AllBefore
  <2>8. ASSUME NEW i \in 1 .. MaxFiles, NEW j \in 1 .. MaxFiles, i < j, j <= m, u = s.table PROVE Le(u[i], u[j])
    <3>1. \A p \in 2 .. MaxFiles : p <= m => Le(u[p - 1], u[p])
      BY <2>4, <2>8
    <3> QED BY <1>1, <2>4, <2>8, <3>1, NeighboursInOrder
  <2>9. ASSUME NEW i \in 1 .. MaxFiles, NEW j \in 1 .. MaxFiles, i < j, j > MaxFiles - k \/ ~r.change
        PROVE  Le(r.table[i], r.table[j])
    <3>1. j > m \/ j = m \/ (j <= m /\ u = s.table)
      BY <1>1, <2>2, <2>9
    <3> QED BY <2>2, <2>6, <2>7, <2>8, <2>9, <3>1
  <2>10. SortInv(r, t, k)
    BY <2>2, <2>4, <2>5, <2>9 DEF SortInv
  <2> QED BY <2>10 DEF r, m
<1> QED BY <1>3, <1>4

LEMMA ResortFacts ==
    ASSUME TypeOK, NEW t \in Tables
    PROVE  LET s == Resort(t, MaxFiles) IN
           /\ SameEntries(s, t)
           /\ \A i, j \in 1 .. MaxFiles : i < j => Le(s[i], s[j])
<1> DEFINE n == MaxFiles
           first == [table |-> t, change |-> TRUE]
<1>1. n \in Nat /\ 0 \in 0 .. n
  BY MiniFsAssumption DEF MiniFsAssumption
<1> DEFINE f == CHOOSE g : g = [k \in 0 .. n |->
                  IF k = 0 THEN [table |-> t, change |-> TRUE]
                  ELSE IF ~g[k - 1].change THEN g[k - 1]
                  ELSE LET next == Pass(g[k - 1].table, n - k + 1)
                       IN [table |-> next, change |-> next # g[k - 1].table]]
           h == CHOOSE g : IsSort(g, t, n, n)
<1>2. Resort(t, n) = f[n].table
  BY DEF Resort
<1>3. f = h
  BY DEF IsSort, Sorted
<1>4. IsSort(h, t, n, n)
  BY <1>1, SortExists
<1> HIDE DEF h
<1>5. h = [k \in 0 .. n |-> IF k = 0 THEN first ELSE Sorted(h[k - 1], n - k + 1)]
  BY <1>4 DEF IsSort
<1> HIDE DEF f
<1> DEFINE S == {k \in Nat : k <= n => SortInv(h[k], t, k)}
<1>6. 0 \in S
  <2>1. h[0] = first
    BY <1>1, <1>5
  <2>2. first.table = t /\ first.change
    OBVIOUS
  <2>3. \A j \in 1 .. MaxFiles : ~(j > MaxFiles - 0)
    BY <1>1
  <2> HIDE DEF first
  <2>4. SortInv(first, t, 0)
    BY <2>2, <2>3 DEF SortInv, SameEntries
  <2> QED BY <2>1, <2>4
<1>7. ASSUME NEW k \in Nat, k \in S PROVE k + 1 \in S
  <2> SUFFICES ASSUME k + 1 <= n PROVE SortInv(h[k + 1], t, k + 1)
    OBVIOUS
  <2>1. k + 1 \in 0 .. n /\ k + 1 \in 1 .. n /\ k + 1 # 0 /\ (k + 1) - 1 = k /\ k <= n
    BY <1>1
  <2>2. h[k + 1] = Sorted(h[k], n - (k + 1) + 1)
    BY <1>5, <2>1
  <2>3. SortInv(h[k], t, (k + 1) - 1)
    BY <1>7, <2>1
  <2> HIDE DEF S
  <2> QED BY <2>1, <2>2, <2>3, SortStep
<1>8. SortInv(h[n], t, n)
  <2>1. n + 1 \in Nat \ {0}
    BY <1>1
  <2> DEFINE R == {k \in Nat \ {0} : k - 1 \in S}
  <2>2. 1 \in R
    BY <1>6
  <2>3. \A k \in Nat \ {0} : k \in R => k + 1 \in R
    <3> TAKE k \in Nat \ {0}
    <3> HAVE k \in R
    <3>1. k - 1 \in Nat /\ (k - 1) + 1 = k /\ (k + 1) - 1 = k /\ k + 1 \in Nat \ {0}
      OBVIOUS
    <3> HIDE DEF S
    <3>2. k \in S
      BY <1>7, <3>1
    <3> QED BY <3>1, <3>2
  <2> HIDE DEF S
  <2>4. (n + 1) \in R
    <3> HIDE DEF R
    <3> QED BY <2>1, <2>2, <2>3, InductionFromOne
  <2>5. (n + 1) - 1 = n
    BY <1>1
  <2>6. n \in S
    BY <2>4, <2>5
  <2> QED BY <1>1, <2>6 DEF S
<1>9. \A j \in 1 .. MaxFiles : j > MaxFiles - n
  BY <1>1
<1> QED BY <1>2, <1>3, <1>8, <1>9 DEF SortInv

LEMMA SortsTables == IInv => ResortSorts
<1> SUFFICES ASSUME IInv PROVE ResortSorts
  OBVIOUS
<1>1. TypeOK
  BY DEF IInv
<1> SUFFICES ASSUME NEW t \in Tables
             PROVE  LET sorted == Resort(t, MaxFiles)
                    IN /\ \A i, j \in 1 .. MaxFiles :
                             i < j /\ sorted[j] # 0 => sorted[i] # 0 /\ sorted[i] <= sorted[j]
                       /\ \A e \in Offsets \cup {0} :
                             Cardinality({i \in 1 .. MaxFiles : sorted[i] = e})
                                 = Cardinality({i \in 1 .. MaxFiles : t[i] = e})
  BY DEF ResortSorts, Tables, Entries
<1> DEFINE s == Resort(t, MaxFiles)
<1>2. SameEntries(s, t) /\ \A i, j \in 1 .. MaxFiles : i < j => Le(s[i], s[j])
  BY <1>1, ResortFacts
<1> HIDE DEF s
<1> QED BY <1>2 DEF SameEntries, Where, Entries, Le, s

\* Passes that get one entry shorter each, and stop when one changes nothing, are
\* enough for any number of files: after miniFsResortFileOffsets the table has
\* the entries it had, in ascending order and the unused ones last.
THEOREM SortAlwaysSorts == ASSUME RequestsFit PROVE Spec => []ResortSorts
BY Invariance, SortsTables, PTL
=============================================================================

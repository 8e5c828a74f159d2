--------------------------- MODULE HwDeviceProofs ---------------------------
(***************************************************************************)
(* Pins, power and the contents of cards for any number of slots, pins and *)
(* requests, any keypad and any size of card: pins have one owner, no card *)
(* stays on without being used and no byte reported as written is lost.    *)
(*                                                                         *)
(* A read or a write of many bytes and the scan of a keypad are chains of  *)
(* single steps.  What holds of a chain is shown with sets: ReadChain,     *)
(* WriteChain and ScanChain say that the last state is in the last of a    *)
(* family of sets when every single step leads from each to the next.      *)
(***************************************************************************)
EXTENDS HwDevice, TLAPS, NaturalsInduction, WellFoundedInduction

-----------------------------------------------------------------------------
(* Chains of steps. *)

\* Induction over the natural numbers, for a set.
LEMMA Induction ==
    ASSUME NEW S, 0 \in S, \A k \in Nat : k \in S => k + 1 \in S
    PROVE  Nat \subseteq S
<1> SUFFICES ASSUME Nat \ S # {} PROVE FALSE
  OBVIOUS
<1>1. PICK x \in Nat \ S : \A y \in Nat \ S : ~(<<y, x>> \in OpToRel(<, Nat))
  <2> DEFINE R == Nat \ S
  <2>1. R \subseteq Nat /\ R # {}
    OBVIOUS
  <2> HIDE DEF R
  <2>2. \E x \in R : \A y \in R : ~(<<y, x>> \in OpToRel(<, Nat))
    BY <2>1, WFMin, NatLessThanWellFounded
  <2> QED BY <2>2 DEF R
<1>2. x \in Nat /\ x # 0 /\ x \notin S
  OBVIOUS
<1>3. x - 1 \in Nat /\ x - 1 < x /\ (x - 1) + 1 = x
  BY <1>2
<1>4. x - 1 \in S
  <2> SUFFICES ASSUME x - 1 \notin S PROVE FALSE
    OBVIOUS
  <2>1. ~(<<x - 1, x>> \in OpToRel(<, Nat))
    BY <1>1, <1>3
  <2> QED BY <1>2, <1>3, <2>1 DEF OpToRel
<1>5. (x - 1) + 1 \in S
  BY <1>3, <1>4
<1> QED BY <1>2, <1>3, <1>5

\* The function a recursive definition stands for exists.
LEMMA ScanExists ==
    ASSUME NEW dev, NEW n \in Nat
    PROVE  \E f : f = [k \in 0 .. n |-> IF k = 0 THEN dev ELSE ScanKey(f[k - 1], Keys[k])]
<1> DEFINE Chain(m, f) == f = [k \in 0 .. m |-> IF k = 0 THEN dev ELSE ScanKey(f[k - 1], Keys[k])]
           S == {m \in Nat : \E f : Chain(m, f)}
<1>1. 0 \in S
  <2>1. Chain(0, [k \in 0 .. 0 |-> dev])
    OBVIOUS
  <2> QED BY <2>1
<1>2. ASSUME NEW m \in Nat, m \in S PROVE m + 1 \in S
  <2>1. PICK f : Chain(m, f)
    BY <1>2
  <2> DEFINE g == [k \in 0 .. (m + 1) |-> IF k = m + 1 THEN ScanKey(f[m], Keys[m + 1]) ELSE f[k]]
  <2>2. \A k \in 0 .. m : g[k] = f[k]
    OBVIOUS
  <2>3. \A k \in 0 .. (m + 1) : g[k] = IF k = 0 THEN dev ELSE ScanKey(g[k - 1], Keys[k])
    <3> TAKE k \in 0 .. (m + 1)
    <3>1. CASE k = 0
      BY <2>1, <2>2, <3>1
    <3>2. CASE k \in 1 .. m
      <4>1. k \in 0 .. m /\ k - 1 \in 0 .. m /\ k # 0 /\ k # m + 1
        BY <3>2
      <4>2. f[k] = ScanKey(f[k - 1], Keys[k])
        BY <2>1, <4>1
      <4> HIDE DEF g
      <4> QED BY <2>2, <4>1, <4>2
    <3>3. CASE k = m + 1
      <4>1. k - 1 = m /\ m \in 0 .. m /\ k # 0
        BY <3>3
      <4>2. g[k] = ScanKey(f[m], Keys[m + 1])
        BY <3>3
      <4> HIDE DEF g
      <4> QED BY <2>2, <3>3, <4>1, <4>2
    <3> QED BY <3>1, <3>2, <3>3
  <2>4. g = [k \in 0 .. (m + 1) |-> g[k]]
    OBVIOUS
  <2> HIDE DEF g
  <2>5. Chain(m + 1, g)
    BY <2>3, <2>4
  <2> QED BY <2>5
<1> HIDE DEF S
<1>3. n \in S
  BY <1>1, <1>2, Induction
<1> QED BY <1>3 DEF S

\* A scan stays in a set that no key leaves.
LEMMA ScanChain ==
    ASSUME NEW D, NEW dev \in D, \A d \in D : \A key \in ToSet(Keys) : ScanKey(d, key) \in D
    PROVE  Scan(dev) \in D
<1> DEFINE n == Len(Keys)
<1>1. n \in Nat /\ \A k \in 1 .. n : Keys[k] \in ToSet(Keys)
  BY HwAssumption DEF HwAssumption, ToSet
<1> DEFINE f == CHOOSE g : g = [k \in 0 .. n |-> IF k = 0 THEN dev ELSE ScanKey(g[k - 1], Keys[k])]
<1>2. Scan(dev) = f[n]
  BY DEF Scan
<1>3. f = [k \in 0 .. n |-> IF k = 0 THEN dev ELSE ScanKey(f[k - 1], Keys[k])]
  BY <1>1, ScanExists
<1> HIDE DEF f, n
<1> DEFINE S == {k \in Nat : k <= n => f[k] \in D}
<1>4. 0 \in S
  BY <1>1, <1>3
<1>5. ASSUME NEW k \in Nat, k \in S PROVE k + 1 \in S
  <2> SUFFICES ASSUME k + 1 <= n PROVE f[k + 1] \in D
    OBVIOUS
  <2>1. f[k + 1] = ScanKey(f[k], Keys[k + 1])
    BY <1>1, <1>3
  <2>2. f[k] \in D /\ k + 1 \in 1 .. n
    BY <1>1, <1>5
  <2> QED BY <1>1, <2>1, <2>2
<1> HIDE DEF S
<1>6. n \in S
  BY <1>1, <1>4, <1>5, Induction
<1> QED BY <1>1, <1>2, <1>6 DEF S
\* A byte of a read from addr on, and one of a write.
ReadAt(acc, addr, k) == ReadByte(acc, addr + k - 1)
WriteAt(acc, addr, data, k) == WriteByte(acc, addr + k - 1, data[k])

IsRead(f, acc, addr, n) == f = [k \in 0 .. n |-> IF k = 0 THEN acc ELSE ReadAt(f[k - 1], addr, k)]
IsWrite(f, acc, addr, data, n) ==
    f = [k \in 0 .. n |-> IF k = 0 THEN acc ELSE WriteAt(f[k - 1], addr, data, k)]

LEMMA ReadExists ==
    ASSUME NEW acc, NEW addr \in Int, NEW n \in Nat
    PROVE  \E f : IsRead(f, acc, addr, n)
<1> DEFINE Chain(m, f) == f = [k \in 0 .. m |-> IF k = 0 THEN acc ELSE ReadAt(f[k - 1], addr, k)]
           S == {m \in Nat : \E f : Chain(m, f)}
<1>1. 0 \in S
  <2>1. Chain(0, [k \in 0 .. 0 |-> acc])
    OBVIOUS
  <2> QED BY <2>1
<1>2. ASSUME NEW m \in Nat, m \in S PROVE m + 1 \in S
  <2>1. PICK f : Chain(m, f)
    BY <1>2
  <2> DEFINE g == [k \in 0 .. (m + 1) |-> IF k = m + 1 THEN ReadAt(f[m], addr, (m + 1)) ELSE f[k]]
  <2>2. \A k \in 0 .. m : g[k] = f[k]
    OBVIOUS
  <2>3. \A k \in 0 .. (m + 1) : g[k] = IF k = 0 THEN acc ELSE ReadAt(g[k - 1], addr, k)
    <3> TAKE k \in 0 .. (m + 1)
    <3>1. CASE k = 0
      BY <2>1, <2>2, <3>1
    <3>2. CASE k \in 1 .. m
      <4>1. k \in 0 .. m /\ k - 1 \in 0 .. m /\ k # 0 /\ k # m + 1
        BY <3>2
      <4>2. f[k] = ReadAt(f[k - 1], addr, k)
        BY <2>1, <4>1
      <4> HIDE DEF g
      <4> QED BY <2>2, <4>1, <4>2
    <3>3. CASE k = m + 1
      <4>1. k - 1 = m /\ m \in 0 .. m /\ k # 0
        BY <3>3
      <4>2. g[k] = ReadAt(f[m], addr, (m + 1))
        BY <3>3
      <4> HIDE DEF g
      <4> QED BY <2>2, <3>3, <4>1, <4>2
    <3> QED BY <3>1, <3>2, <3>3
  <2>4. g = [k \in 0 .. (m + 1) |-> g[k]]
    OBVIOUS
  <2> HIDE DEF g
  <2>5. Chain(m + 1, g)
    BY <2>3, <2>4
  <2> QED BY <2>5
<1> HIDE DEF S
<1>3. n \in S
  BY <1>1, <1>2, Induction
<1>4. PICK f : Chain(n, f)
  BY <1>3 DEF S
<1> QED BY <1>4 DEF IsRead

\* A read stays in a set that no byte read leaves.
LEMMA ReadChain ==
    ASSUME NEW D, NEW acc \in D, NEW addr \in Int, NEW len \in Nat,
           \A k \in 1 .. len : \A d \in D : ReadAt(d, addr, k) \in D
    PROVE  ReadBytes(acc, addr, len) \in D
<1> DEFINE f == CHOOSE g : g = [k \in 0 .. len |-> IF k = 0 THEN acc ELSE ReadAt(g[k - 1], addr, k)]
<1>1. ReadBytes(acc, addr, len) = f[len]
  BY DEF ReadBytes, ReadAt
<1>2. f = [k \in 0 .. len |-> IF k = 0 THEN acc ELSE ReadAt(f[k - 1], addr, k)]
  <2>1. PICK h : IsRead(h, acc, addr, len)
    BY ReadExists
  <2>2. h = [k \in 0 .. len |-> IF k = 0 THEN acc ELSE ReadAt(h[k - 1], addr, k)]
    BY <2>1 DEF IsRead
  <2> QED BY <2>2
<1> HIDE DEF f
<1> DEFINE S == {k \in Nat : k <= len => f[k] \in D}
<1>3. 0 \in S
  BY <1>2
<1>4. ASSUME NEW k \in Nat, k \in S PROVE k + 1 \in S
  <2> SUFFICES ASSUME k + 1 <= len PROVE f[k + 1] \in D
    OBVIOUS
  <2>0. k + 1 \in 0 .. len /\ k + 1 # 0 /\ (k + 1) - 1 = k
    OBVIOUS
  <2>1. \A j \in 0 .. len : j # 0 => f[j] = ReadAt(f[j - 1], addr, j)
    BY <1>2
  <2>3. f[k + 1] = ReadAt(f[(k + 1) - 1], addr, (k + 1))
    BY <2>0, <2>1
  <2>2. f[k] \in D /\ k + 1 \in 1 .. len
    BY <1>4
  <2> QED BY <2>0, <2>2, <2>3
<1> HIDE DEF S
<1>5. len \in S
  BY <1>3, <1>4, Induction
<1> QED BY <1>1, <1>5 DEF S

LEMMA WriteExists ==
    ASSUME NEW acc, NEW addr \in Int, NEW data, NEW n \in Nat
    PROVE  \E f : IsWrite(f, acc, addr, data, n)
<1> DEFINE Chain(m, f) == f = [k \in 0 .. m |-> IF k = 0 THEN acc ELSE WriteAt(f[k - 1], addr, data, k)]
           S == {m \in Nat : \E f : Chain(m, f)}
<1>1. 0 \in S
  <2>1. Chain(0, [k \in 0 .. 0 |-> acc])
    OBVIOUS
  <2> QED BY <2>1
<1>2. ASSUME NEW m \in Nat, m \in S PROVE m + 1 \in S
  <2>1. PICK f : Chain(m, f)
    BY <1>2
  <2> DEFINE g == [k \in 0 .. (m + 1) |-> IF k = m + 1 THEN WriteAt(f[m], addr, data, (m + 1)) ELSE f[k]]
  <2>2. \A k \in 0 .. m : g[k] = f[k]
    OBVIOUS
  <2>3. \A k \in 0 .. (m + 1) : g[k] = IF k = 0 THEN acc ELSE WriteAt(g[k - 1], addr, data, k)
    <3> TAKE k \in 0 .. (m + 1)
    <3>1. CASE k = 0
      BY <2>1, <2>2, <3>1
    <3>2. CASE k \in 1 .. m
      <4>1. k \in 0 .. m /\ k - 1 \in 0 .. m /\ k # 0 /\ k # m + 1
        BY <3>2
      <4>2. f[k] = WriteAt(f[k - 1], addr, data, k)
        BY <2>1, <4>1
      <4> HIDE DEF g
      <4> QED BY <2>2, <4>1, <4>2
    <3>3. CASE k = m + 1
      <4>1. k - 1 = m /\ m \in 0 .. m /\ k # 0
        BY <3>3
      <4>2. g[k] = WriteAt(f[m], addr, data, (m + 1))
        BY <3>3
      <4> HIDE DEF g
      <4> QED BY <2>2, <3>3, <4>1, <4>2
    <3> QED BY <3>1, <3>2, <3>3
  <2>4. g = [k \in 0 .. (m + 1) |-> g[k]]
    OBVIOUS
  <2> HIDE DEF g
  <2>5. Chain(m + 1, g)
    BY <2>3, <2>4
  <2> QED BY <2>5
<1> HIDE DEF S
<1>3. n \in S
  BY <1>1, <1>2, Induction
<1>4. PICK f : Chain(n, f)
  BY <1>3 DEF S
<1> QED BY <1>4 DEF IsWrite

\* A write is in the last of a family of sets of which each byte written leads
\* from one to the next.
LEMMA WriteChain ==
    ASSUME NEW D, NEW acc \in D[0], NEW addr \in Int, NEW data \in Seq(Values),
           \A k \in 1 .. Len(data) : \A d \in D[k - 1] : WriteAt(d, addr, data, k) \in D[k]
    PROVE  WriteBytes(acc, addr, data) \in D[Len(data)]
<1> DEFINE n == Len(data)
<1>1. n \in Nat
  OBVIOUS
<1> DEFINE f == CHOOSE g : g = [k \in 0 .. n |-> IF k = 0 THEN acc ELSE WriteAt(g[k - 1], addr, data, k)]
<1>2. WriteBytes(acc, addr, data) = f[n]
  BY DEF WriteBytes, WriteAt
<1>3. f = [k \in 0 .. n |-> IF k = 0 THEN acc ELSE WriteAt(f[k - 1], addr, data, k)]
  <2>1. PICK h : IsWrite(h, acc, addr, data, n)
    BY <1>1, WriteExists
  <2>2. h = [k \in 0 .. n |-> IF k = 0 THEN acc ELSE WriteAt(h[k - 1], addr, data, k)]
    BY <2>1 DEF IsWrite
  <2> QED BY <2>2
<1> HIDE DEF f
<1> DEFINE S == {k \in Nat : k <= n => f[k] \in D[k]}
<1>4. 0 \in S
  BY <1>1, <1>3
<1>5. ASSUME NEW k \in Nat, k \in S PROVE k + 1 \in S
  <2> SUFFICES ASSUME k + 1 <= n PROVE f[k + 1] \in D[k + 1]
    OBVIOUS
  <2>0. k + 1 \in 0 .. n /\ k + 1 # 0 /\ (k + 1) - 1 = k
    BY <1>1
  <2>1. \A j \in 0 .. n : j # 0 => f[j] = WriteAt(f[j - 1], addr, data, j)
    BY <1>3
  <2>3. f[k + 1] = WriteAt(f[(k + 1) - 1], addr, data, (k + 1))
    BY <2>0, <2>1
  <2>2. f[k] \in D[k] /\ k + 1 \in 1 .. n
    BY <1>1, <1>5
  <2> QED BY <2>0, <2>2, <2>3
<1> HIDE DEF S
<1>6. n \in S
  BY <1>1, <1>4, <1>5, Induction
<1> QED BY <1>1, <1>2, <1>6 DEF S
-----------------------------------------------------------------------------
(* What is in a slot, by its type, and what a transaction with a card works on. *)

PinLists == {s \in Seq(Pins) : Len(s) >= 2}
Paths == Mounts \cup {NoPath}
Rings == SeqOf(ToSet(Keys), RingSize - 1)

SdSlots == [type : {"sd"}, pins : PinLists, mount : Paths, card : {"Bad", "Ver2"}, blocks : 0 .. NumBlocks, cache : Caches]
KeypadSlots == [type : {"keypad"}, pins : PinLists, mount : Paths, states : SUBSET ToSet(Keys), ring : Rings]
SensorSlots == [type : {"dht22"}, pins : PinLists, mount : Paths, value : {0, 1}]

Accs == [ok : BOOLEAN, io : Nat, n : Nat, blocks : 0 .. NumBlocks, cache : Caches, card : [Blocks -> Contents]]

\* TypeOK and the fields that are in a slot only for its type.
TInv ==
    /\ hw \in [Ids -> {Unused} \cup SdSlots \cup KeypadSlots \cup SensorSlots]
    /\ open \subseteq Mounts
    /\ files \in [Mounts -> {NoFile} \cup [kind : {"sd", "keypad"}, id : Ids]]
    /\ spi \in {"free", "process"}
    /\ cards \in [Pins -> [Blocks -> Contents]]
    /\ written \in [Pins -> [Addrs -> Values]]

\* A cache that is valid and not dirty is what the card holds.
Clean(card, c) == c.valid /\ ~c.dirty => c.bytes = card[c.block]

LEMMA BlankType == BlankBlock \in Contents /\ Cache \in Caches
<1>1. BlankBlock \in Contents
  BY HwAssumption DEF HwAssumption, BlankBlock, Contents
<1> QED BY <1>1, HwAssumption DEF HwAssumption, Cache, Caches, Blocks

\* The block and the place in it of an address, and back.
LEMMA Placing ==
    ASSUME NEW a \in Addrs
    PROVE  /\ a \div BlockSize \in Blocks /\ a % BlockSize \in Offsets
           /\ \A b \in Addrs : a \div BlockSize = b \div BlockSize /\ a % BlockSize = b % BlockSize => a = b
<1>1. NumBlocks \in Nat \ {0} /\ BlockSize \in Nat \ {0}
  BY HwAssumption DEF HwAssumption
<1>2. \A b \in Addrs : b \in Nat /\ b < NumBlocks * BlockSize
  BY <1>1 DEF Addrs
<1>3. a \div BlockSize \in Nat /\ a % BlockSize \in Offsets
  BY <1>1, <1>2 DEF Offsets
<1>4. a \div BlockSize < NumBlocks
  <2> DEFINE q == a \div BlockSize
  <2>1. q \in Nat /\ BlockSize * q <= a /\ a < NumBlocks * BlockSize
    BY <1>1, <1>2
  <2> HIDE DEF q
  <2> SUFFICES ASSUME q >= NumBlocks PROVE FALSE
    BY <1>1, <2>1 DEF q
  <2>2. BlockSize * q >= BlockSize * NumBlocks
    BY <1>1, <2>1
  <2>3. BlockSize * NumBlocks = NumBlocks * BlockSize /\ NumBlocks * BlockSize \in Nat /\ BlockSize * q \in Nat
    BY <1>1, <2>1
  <2> QED BY <1>2, <2>1, <2>2, <2>3
<1>5. \A b \in Addrs : a \div BlockSize = b \div BlockSize /\ a % BlockSize = b % BlockSize => a = b
  <2> TAKE b \in Addrs
  <2> SUFFICES ASSUME a \div BlockSize = b \div BlockSize, a % BlockSize = b % BlockSize PROVE a = b
    OBVIOUS
  <2> QED BY <1>1, <1>2
<1> QED BY <1>1, <1>2, <1>3, <1>4, <1>5 DEF Blocks

\* Saving the cached block keeps what the card will hold.
LEMMA WriteBackFacts ==
    ASSUME NEW acc \in Accs
    PROVE  LET e == WriteBack(acc) IN
           /\ e \in Accs /\ e.n = acc.n /\ e.blocks = acc.blocks /\ (e.ok => acc.ok)
           /\ e.cache = [acc.cache EXCEPT !.dirty = e.cache.dirty]
           /\ ~e.ok \/ ~e.cache.dirty
           /\ acc.cache.valid /\ acc.cache.dirty =>
                /\ WithCache(e.card, e.cache) = WithCache(acc.card, acc.cache)
                /\ Clean(e.card, e.cache)
                /\ e.cache.dirty \/ e.card = WithCache(acc.card, acc.cache)
           /\ acc.blocks = 0 => e.card = acc.card /\ e.cache = acc.cache /\ ~e.ok
<1> DEFINE e == WriteBack(acc)
<1>1. /\ acc.ok \in BOOLEAN /\ acc.io \in Nat /\ acc.n \in Nat /\ acc.blocks \in 0 .. NumBlocks
      /\ acc.cache \in Caches /\ acc.card \in [Blocks -> Contents]
      /\ acc.cache.block \in Blocks /\ acc.cache.bytes \in Contents /\ acc.cache.block \in Nat
      /\ acc.cache.valid \in BOOLEAN /\ acc.cache.dirty \in BOOLEAN
  BY DEF Accs, Caches, Blocks
<1>2. CASE acc.io = 0 \/ acc.cache.block >= acc.blocks
  <2>1. e = [acc EXCEPT !.ok = FALSE]
    BY <1>2 DEF WriteBack
  <2>2. e \in Accs /\ e.n = acc.n /\ e.blocks = acc.blocks /\ e.ok = FALSE /\ e.cache = acc.cache /\ e.card = acc.card
    BY <2>1 DEF Accs
  <2>3. e.cache = [acc.cache EXCEPT !.dirty = e.cache.dirty]
    BY <1>1, <2>2 DEF Caches
  <2> HIDE DEF e
  <2>4. acc.cache.valid /\ acc.cache.dirty => Clean(e.card, e.cache)
    BY <2>2 DEF Clean
  <2> QED BY <1>1, <2>2, <2>3, <2>4 DEF e
<1>3. CASE ~(acc.io = 0 \/ acc.cache.block >= acc.blocks)
  <2> DEFINE card == [acc.card EXCEPT ![acc.cache.block] = acc.cache.bytes]
             c == [acc.cache EXCEPT !.dirty = FALSE]
  <2>1. e = [acc EXCEPT !.io = acc.io - 1, !.card = card, !.cache = c]
    BY <1>3 DEF WriteBack, Accs, Caches
  <2>2. card \in [Blocks -> Contents] /\ c \in Caches /\ acc.io - 1 \in Nat
    <3>1. card \in [Blocks -> Contents]
      BY <1>1
    <3>2. c \in Caches
      BY <1>1 DEF Caches
    <3>3. acc.io - 1 \in Nat
      BY <1>1, <1>3
    <3> QED BY <3>1, <3>2, <3>3
  <2>3. /\ c.valid = acc.cache.valid /\ ~c.dirty /\ c.block = acc.cache.block /\ c.bytes = acc.cache.bytes
        /\ card[c.block] = c.bytes
    BY <1>1 DEF Caches
  <2>4. acc.cache.valid /\ acc.cache.dirty => card = WithCache(acc.card, acc.cache)
    BY DEF WithCache
  <2> HIDE DEF card
  <2>5. c = [acc.cache EXCEPT !.dirty = c.dirty]
    BY <2>3
  <2> HIDE DEF c
  <2>6. /\ e \in Accs /\ e.n = acc.n /\ e.blocks = acc.blocks /\ e.ok = acc.ok /\ e.cache = c /\ e.card = card
    BY <1>1, <2>1, <2>2 DEF Accs
  <2>7. WithCache(card, c) = card /\ Clean(card, c)
    BY <2>3 DEF WithCache, Clean
  <2>8. acc.blocks # 0
    BY <1>1, <1>3
  <2> HIDE DEF e
  <2> QED BY <2>3, <2>4, <2>5, <2>6, <2>7, <2>8 DEF e
<1> QED BY <1>2, <1>3

\* A block in the place of one that is not dirty: what the card will hold stays.
LEMMA LoadFacts ==
    ASSUME NEW acc \in Accs, NEW b \in Blocks, ~(acc.cache.valid /\ acc.cache.dirty)
    PROVE  LET e == Load(acc, b) IN
           /\ e \in Accs /\ e.n = acc.n /\ e.blocks = acc.blocks /\ e.card = acc.card
           /\ e.ok => acc.ok /\ e.cache.valid /\ e.cache.block = b
           /\ WithCache(e.card, e.cache) = WithCache(acc.card, acc.cache)
           /\ Clean(e.card, e.cache)
           /\ ~(e.cache.valid /\ e.cache.dirty)
           /\ acc.blocks = 0 => ~e.ok
<1> DEFINE e == Load(acc, b)
<1>1. /\ acc.ok \in BOOLEAN /\ acc.io \in Nat /\ acc.n \in Nat /\ acc.blocks \in 0 .. NumBlocks
      /\ acc.cache \in Caches /\ acc.card \in [Blocks -> Contents] /\ b \in Nat
  BY DEF Accs, Blocks
<1>2. CASE acc.io = 0 \/ b >= acc.blocks
  <2> DEFINE c == [acc.cache EXCEPT !.valid = FALSE]
  <2>1. e = [acc EXCEPT !.ok = FALSE, !.cache = c]
    BY <1>2 DEF Load, Accs
  <2>2. c \in Caches /\ c.valid = FALSE
    BY <1>1 DEF Caches
  <2> HIDE DEF c
  <2>3. /\ e \in Accs /\ e.n = acc.n /\ e.blocks = acc.blocks /\ e.ok = FALSE /\ e.cache = c /\ e.card = acc.card
    BY <2>1, <2>2 DEF Accs
  <2> HIDE DEF e
  <2> QED BY <2>2, <2>3 DEF WithCache, Clean, e
<1>3. CASE ~(acc.io = 0 \/ b >= acc.blocks)
  <2> DEFINE c == [valid |-> TRUE, dirty |-> FALSE, block |-> b, bytes |-> acc.card[b]]
  <2>1. e = [acc EXCEPT !.io = acc.io - 1, !.cache = c]
    BY <1>3 DEF Load, Accs
  <2>2. c \in Caches /\ c.valid = TRUE /\ c.dirty = FALSE /\ c.block = b /\ c.bytes = acc.card[b]
    BY <1>1 DEF Caches
  <2>3. acc.io - 1 \in Nat /\ acc.blocks # 0
    BY <1>1, <1>3
  <2> HIDE DEF c
  <2>4. /\ e \in Accs /\ e.n = acc.n /\ e.blocks = acc.blocks /\ e.ok = acc.ok /\ e.cache = c /\ e.card = acc.card
    BY <1>1, <2>1, <2>2, <2>3 DEF Accs
  <2> HIDE DEF e
  <2> QED BY <2>2, <2>3, <2>4 DEF WithCache, Clean, e
<1> QED BY <1>2, <1>3

\* The cache gets block b, or the operation fails; a dirty block is saved first.
LEMMA EnsureFacts ==
    ASSUME NEW acc \in Accs, NEW b \in Blocks
    PROVE  LET e == Ensure(acc, b) IN
           /\ e \in Accs /\ e.n = acc.n /\ e.blocks = acc.blocks
           /\ e.ok => acc.ok /\ e.cache.valid /\ e.cache.block = b
           /\ WithCache(e.card, e.cache) = WithCache(acc.card, acc.cache)
           /\ Clean(acc.card, acc.cache) => Clean(e.card, e.cache)
           /\ acc.blocks = 0 => /\ e.card = acc.card
                                /\ acc.cache.valid /\ acc.cache.dirty <=> e.cache.valid /\ e.cache.dirty
<1> DEFINE e == Ensure(acc, b)
           c == acc.cache
           s == IF c.valid /\ c.dirty /\ c.block # b THEN WriteBack(acc) ELSE acc
<1>1. c \in Caches /\ c.valid \in BOOLEAN /\ c.dirty \in BOOLEAN /\ acc.ok \in BOOLEAN
  BY DEF Accs, Caches
<1>2. e = IF ~s.ok \/ (c.valid /\ c.block = b) THEN s ELSE Load(s, b)
  BY DEF Ensure
<1> HIDE DEF e
<1>3. CASE c.valid /\ c.dirty /\ c.block # b
  <2>1. s = WriteBack(acc)
    BY <1>3
  <2> HIDE DEF s
  <2>2. /\ s \in Accs /\ s.n = acc.n /\ s.blocks = acc.blocks /\ (s.ok => acc.ok)
        /\ s.cache = [c EXCEPT !.dirty = s.cache.dirty]
        /\ ~s.ok \/ ~s.cache.dirty
        /\ WithCache(s.card, s.cache) = WithCache(acc.card, c) /\ Clean(s.card, s.cache)
        /\ acc.blocks = 0 => s.card = acc.card /\ s.cache = c /\ ~s.ok
    BY <1>3, <2>1, WriteBackFacts
  <2>3. CASE ~s.ok
    <3>1. e = s
      BY <1>2, <2>3
    <3> QED BY <2>2, <2>3, <3>1 DEF e
  <2>4. CASE s.ok
    <3>1. e = Load(s, b) /\ ~(s.cache.valid /\ s.cache.dirty) /\ acc.blocks # 0
      BY <1>2, <1>3, <2>2, <2>4
    <3>2. /\ e \in Accs /\ e.n = s.n /\ e.blocks = s.blocks
          /\ e.ok => s.ok /\ e.cache.valid /\ e.cache.block = b
          /\ WithCache(e.card, e.cache) = WithCache(s.card, s.cache)
          /\ Clean(e.card, e.cache)
      BY <2>2, <3>1, LoadFacts
    <3> QED BY <2>2, <3>1, <3>2 DEF e
  <2> QED BY <2>3, <2>4
<1>4. CASE ~(c.valid /\ c.dirty /\ c.block # b)
  <2>1. s = acc
    BY <1>4
  <2> HIDE DEF s
  <2>2. CASE ~acc.ok \/ (c.valid /\ c.block = b)
    <3>1. e = acc
      BY <1>2, <2>1, <2>2
    <3> QED BY <2>2, <3>1 DEF e
  <2>3. CASE ~(~acc.ok \/ (c.valid /\ c.block = b))
    <3>1. e = Load(acc, b) /\ ~(c.valid /\ c.dirty)
      BY <1>2, <1>4, <2>1, <2>3
    <3>2. /\ e \in Accs /\ e.n = acc.n /\ e.blocks = acc.blocks /\ e.card = acc.card
          /\ e.ok => acc.ok /\ e.cache.valid /\ e.cache.block = b
          /\ WithCache(e.card, e.cache) = WithCache(acc.card, acc.cache)
          /\ Clean(e.card, e.cache)
          /\ ~(e.cache.valid /\ e.cache.dirty)
      BY <3>1, LoadFacts
    <3> QED BY <3>1, <3>2 DEF e
  <2> QED BY <2>2, <2>3
<1> QED BY <1>3, <1>4

\* A byte that is read changes neither what the card will hold nor what it holds
\* while it cannot be used.
LEMMA ReadByteFacts ==
    ASSUME NEW acc \in Accs, NEW a \in Addrs
    PROVE  LET e == ReadByte(acc, a) IN
           /\ e \in Accs /\ e.blocks = acc.blocks
           /\ WithCache(e.card, e.cache) = WithCache(acc.card, acc.cache)
           /\ Clean(acc.card, acc.cache) => Clean(e.card, e.cache)
           /\ acc.blocks = 0 => /\ e.card = acc.card
                                /\ acc.cache.valid /\ acc.cache.dirty <=> e.cache.valid /\ e.cache.dirty
<1> DEFINE r == ReadByte(acc, a)
<1>1. CASE ~acc.ok
  <2>1. r = acc
    BY <1>1 DEF ReadByte
  <2> HIDE DEF r
  <2> QED BY <2>1 DEF r
<1>2. CASE acc.ok
  <2> DEFINE e == Ensure(acc, a \div BlockSize)
  <2>1. r = IF e.ok THEN [e EXCEPT !.n = e.n + 1] ELSE e
    BY <1>2 DEF ReadByte
  <2>2. /\ e \in Accs /\ e.blocks = acc.blocks
        /\ WithCache(e.card, e.cache) = WithCache(acc.card, acc.cache)
        /\ Clean(acc.card, acc.cache) => Clean(e.card, e.cache)
        /\ acc.blocks = 0 => /\ e.card = acc.card
                             /\ acc.cache.valid /\ acc.cache.dirty <=> e.cache.valid /\ e.cache.dirty
    BY Placing, EnsureFacts
  <2> HIDE DEF e, r
  <2>3. r \in Accs /\ r.blocks = e.blocks /\ r.cache = e.cache /\ r.card = e.card
    BY <2>1, <2>2 DEF Accs
  <2> QED BY <2>2, <2>3 DEF r
<1> QED BY <1>1, <1>2

\* A byte that is written is in the dirty cache, and so in what the card will
\* hold; without that nothing changed.
LEMMA WriteByteFacts ==
    ASSUME NEW acc \in Accs, NEW a \in Addrs, NEW v \in Values
    PROVE  LET e == WriteByte(acc, a, v) IN
           /\ e \in Accs /\ e.blocks = acc.blocks /\ (e.ok => acc.ok)
           /\ e.n = IF e.ok THEN acc.n + 1 ELSE acc.n
           /\ Clean(acc.card, acc.cache) =>
                /\ Clean(e.card, e.cache)
                /\ WithCache(e.card, e.cache) =
                     IF e.ok THEN [WithCache(acc.card, acc.cache) EXCEPT ![a \div BlockSize][a % BlockSize] = v]
                     ELSE WithCache(acc.card, acc.cache)
           /\ acc.blocks = 0 =>
                /\ e.card = acc.card
                /\ acc.cache.valid /\ acc.cache.dirty => e.cache.valid /\ e.cache.dirty
                /\ e.ok => e.cache.valid /\ e.cache.dirty
<1> DEFINE r == WriteByte(acc, a, v)
           b == a \div BlockSize
           o == a % BlockSize
<1>0. b \in Blocks /\ o \in Offsets
  BY Placing
<1>1. CASE ~acc.ok
  <2>1. r = acc
    BY <1>1 DEF WriteByte
  <2> HIDE DEF r
  <2> QED BY <1>1, <2>1 DEF r
<1>2. CASE acc.ok
  <2> DEFINE e == Ensure(acc, b)
  <2>1. /\ e \in Accs /\ e.n = acc.n /\ e.blocks = acc.blocks
        /\ e.ok => e.cache.valid /\ e.cache.block = b
        /\ WithCache(e.card, e.cache) = WithCache(acc.card, acc.cache)
        /\ Clean(acc.card, acc.cache) => Clean(e.card, e.cache)
        /\ acc.blocks = 0 => /\ e.card = acc.card
                             /\ acc.cache.valid /\ acc.cache.dirty <=> e.cache.valid /\ e.cache.dirty
    BY <1>0, EnsureFacts
  <2>2. CASE ~e.ok
    <3>1. r = e
      BY <1>2, <2>2 DEF WriteByte
    <3> HIDE DEF r, e
    <3> QED BY <1>2, <2>1, <2>2, <3>1 DEF r
  <2>3. CASE e.ok
    <3> DEFINE c == [e.cache EXCEPT !.dirty = TRUE, !.bytes = [e.cache.bytes EXCEPT ![o] = v]]
    <3>1. e.cache \in Caches /\ e.cache.bytes \in Contents /\ e.card \in [Blocks -> Contents] /\ e.n \in Nat
      BY <2>1 DEF Accs, Caches
    <3>2. r = [e EXCEPT !.n = e.n + 1, !.cache = c]
      BY <1>2, <2>1, <2>3, <3>1 DEF WriteByte, Accs, Caches
    <3>3. [e.cache.bytes EXCEPT ![o] = v] \in Contents
      BY <1>0, <3>1 DEF Contents
    <3>4. /\ c \in Caches /\ c.valid /\ c.dirty /\ c.block = b /\ c.bytes = [e.cache.bytes EXCEPT ![o] = v]
      BY <2>1, <2>3, <3>1, <3>3 DEF Caches
    <3> HIDE DEF c, e, r
    <3>5. r \in Accs /\ r.n = e.n + 1 /\ r.blocks = e.blocks /\ r.cache = c /\ r.card = e.card /\ r.ok = e.ok
      <4>1. e \in Accs /\ e.n + 1 \in Nat
        BY <2>1, <3>1
      <4> QED BY <3>2, <3>4, <4>1 DEF Accs
    <3>6. Clean(r.card, r.cache)
      BY <3>4, <3>5 DEF Clean
    <3>7. ASSUME Clean(acc.card, acc.cache)
          PROVE  WithCache(r.card, r.cache) = [WithCache(acc.card, acc.cache) EXCEPT ![b][o] = v]
      <4>1. Clean(e.card, e.cache)
        BY <2>1, <3>7
      <4>2. WithCache(e.card, e.cache)[b] = e.cache.bytes
        BY <1>0, <2>1, <2>3, <3>1, <4>1 DEF WithCache, Clean
      <4>3. WithCache(r.card, r.cache) = [e.card EXCEPT ![b] = c.bytes]
        BY <3>4, <3>5 DEF WithCache
      <4>4. WithCache(e.card, e.cache) \in [Blocks -> Contents]
        BY <1>0, <2>1, <2>3, <3>1 DEF WithCache
      <4>5. \A x \in Blocks \ {b} : WithCache(e.card, e.cache)[x] = e.card[x]
        BY <1>0, <2>1, <2>3, <3>1 DEF WithCache
      <4> DEFINE W == WithCache(e.card, e.cache)
      <4>6. [W EXCEPT ![b][o] = v] = [e.card EXCEPT ![b] = c.bytes]
        <5> HIDE DEF W
        <5>1. W \in [Blocks -> Contents] /\ W[b] = e.cache.bytes /\ \A x \in Blocks \ {b} : W[x] = e.card[x]
          BY <4>2, <4>4, <4>5 DEF W
        <5>2. [W EXCEPT ![b][o] = v] = [W EXCEPT ![b] = c.bytes]
          BY <3>4, <5>1
        <5> QED BY <1>0, <3>1, <5>1, <5>2
      <4> QED BY <2>1, <4>3, <4>6
    <3> QED BY <1>2, <2>1, <2>3, <3>1, <3>4, <3>5, <3>6, <3>7 DEF r
  <2> QED BY <2>2, <2>3
<1> QED BY <1>1, <1>2

\* The bytes from addr on replaced by the first n of data.
Overlaid(w, addr, data, n) ==
    [a \in Addrs |-> IF a \in addr .. (addr + n - 1) THEN data[a - addr + 1] ELSE w[a]]

\* Reading any number of bytes is as harmless as reading one.
LEMMA ReadBytesFacts ==
    ASSUME NEW acc \in Accs, NEW addr \in Int, NEW len \in Nat, \A k \in 1 .. len : addr + k - 1 \in Addrs
    PROVE  LET e == ReadBytes(acc, addr, len) IN
           /\ e \in Accs /\ e.blocks = acc.blocks
           /\ WithCache(e.card, e.cache) = WithCache(acc.card, acc.cache)
           /\ Clean(acc.card, acc.cache) => Clean(e.card, e.cache)
           /\ acc.blocks = 0 => /\ e.card = acc.card
                                /\ acc.cache.valid /\ acc.cache.dirty <=> e.cache.valid /\ e.cache.dirty
<1> DEFINE Good(e) == /\ e.blocks = acc.blocks
                      /\ WithCache(e.card, e.cache) = WithCache(acc.card, acc.cache)
                      /\ Clean(acc.card, acc.cache) => Clean(e.card, e.cache)
                      /\ acc.blocks = 0 => /\ e.card = acc.card
                                           /\ acc.cache.valid /\ acc.cache.dirty <=> e.cache.valid /\ e.cache.dirty
           D == {e \in Accs : Good(e)}
<1>1. acc \in D
  OBVIOUS
<1>2. ASSUME NEW k \in 1 .. len, NEW d \in D PROVE ReadAt(d, addr, k) \in D
  <2>1. PICK a \in Addrs : a = addr + k - 1
    OBVIOUS
  <2>2. ReadAt(d, addr, k) = ReadByte(d, a)
    BY <2>1 DEF ReadAt
  <2> DEFINE e == ReadByte(d, a)
  <2>3. d \in Accs /\ Good(d)
    OBVIOUS
  <2>4. /\ e \in Accs /\ e.blocks = d.blocks
        /\ WithCache(e.card, e.cache) = WithCache(d.card, d.cache)
        /\ Clean(d.card, d.cache) => Clean(e.card, e.cache)
        /\ d.blocks = 0 => /\ e.card = d.card
                           /\ d.cache.valid /\ d.cache.dirty <=> e.cache.valid /\ e.cache.dirty
    BY <2>3, ReadByteFacts
  <2> HIDE DEF e
  <2>5. Good(e)
    BY <2>3, <2>4
  <2> HIDE DEF Good
  <2> QED BY <2>2, <2>4, <2>5 DEF e
<1> HIDE DEF D
<1>3. ReadBytes(acc, addr, len) \in D
  BY <1>1, <1>2, ReadChain
<1> QED BY <1>3 DEF D

\* A byte changed in the blocks of a card is the byte at its address.
LEMMA ByteChanged ==
    ASSUME NEW card \in [Blocks -> Contents], NEW a \in Addrs, NEW v
    PROVE  AsWritten([card EXCEPT ![a \div BlockSize][a % BlockSize] = v]) = [AsWritten(card) EXCEPT ![a] = v]
<1> DEFINE changed == [card EXCEPT ![a \div BlockSize][a % BlockSize] = v]
<1>1. a \div BlockSize \in Blocks /\ a % BlockSize \in Offsets
  BY Placing
<1>2. ASSUME NEW x \in Addrs
      PROVE  changed[x \div BlockSize][x % BlockSize] = IF x = a THEN v ELSE card[x \div BlockSize][x % BlockSize]
  <2>1. PICK b \in Blocks, o \in Offsets : b = a \div BlockSize /\ o = a % BlockSize
    BY <1>1
  <2>2. PICK xb \in Blocks, xo \in Offsets : xb = x \div BlockSize /\ xo = x % BlockSize
    BY Placing
  <2>3. xb = b /\ xo = o <=> x = a
    BY <2>1, <2>2, Placing
  <2>4. card[b] \in Contents /\ card[xb] \in Contents
    OBVIOUS
  <2>5. changed = [card EXCEPT ![b] = [card[b] EXCEPT ![o] = v]]
    BY <2>1
  <2> HIDE DEF changed
  <2>6. changed[xb][xo] = IF xb = b /\ xo = o THEN v ELSE card[xb][xo]
    BY <2>4, <2>5 DEF Contents
  <2> QED BY <2>2, <2>3, <2>6
<1> HIDE DEF changed
<1>3. AsWritten(changed) = [AsWritten(card) EXCEPT ![a] = v]
  BY <1>2 DEF AsWritten
<1> QED BY <1>3 DEF changed

LEMMA WithCacheType ==
    ASSUME NEW acc \in Accs PROVE WithCache(acc.card, acc.cache) \in [Blocks -> Contents]
<1>1. acc.card \in [Blocks -> Contents] /\ acc.cache.bytes \in Contents
  BY DEF Accs, Caches
<1> QED BY <1>1 DEF WithCache

\* A write that stops after e.n bytes has put these in what the card will hold,
\* and no others.
LEMMA WriteBytesFacts ==
    ASSUME NEW acc \in Accs, acc.n = 0, NEW addr \in Int, NEW data \in Seq(Values),
           \A k \in 1 .. Len(data) : addr + k - 1 \in Addrs
    PROVE  LET e == WriteBytes(acc, addr, data) IN
           /\ e \in Accs /\ e.blocks = acc.blocks /\ e.n <= Len(data)
           /\ Clean(acc.card, acc.cache) =>
                /\ Clean(e.card, e.cache)
                /\ AsWritten(WithCache(e.card, e.cache)) =
                     Overlaid(AsWritten(WithCache(acc.card, acc.cache)), addr, data, e.n)
           /\ acc.blocks = 0 =>
                /\ e.card = acc.card
                /\ acc.cache.valid /\ acc.cache.dirty => e.cache.valid /\ e.cache.dirty
                /\ e.n > 0 => e.cache.valid /\ e.cache.dirty
<1> DEFINE W == AsWritten(WithCache(acc.card, acc.cache))
           n == Len(data)
           Good(e) == /\ e.blocks = acc.blocks
                      /\ Clean(acc.card, acc.cache) =>
                           /\ Clean(e.card, e.cache)
                           /\ AsWritten(WithCache(e.card, e.cache)) = Overlaid(W, addr, data, e.n)
                      /\ acc.blocks = 0 =>
                           /\ e.card = acc.card
                           /\ acc.cache.valid /\ acc.cache.dirty => e.cache.valid /\ e.cache.dirty
                           /\ e.n > 0 => e.cache.valid /\ e.cache.dirty
           D == [k \in 0 .. n |-> {e \in Accs : e.n <= k /\ (e.ok => e.n = k) /\ Good(e)}]
<1>1. n \in Nat
  OBVIOUS
<1>2. acc \in D[0]
  <2>1. W \in [Addrs -> Values]
    BY WithCacheType, Placing DEF AsWritten, Contents
  <2>2. Overlaid(W, addr, data, 0) = W
    <3> HIDE DEF W
    <3> QED BY <2>1 DEF Overlaid
  <2>3. Good(acc)
    BY <2>2
  <2> HIDE DEF Good
  <2> QED BY <1>1, <2>3
<1>3. ASSUME NEW k \in 1 .. n, NEW d \in D[k - 1] PROVE WriteAt(d, addr, data, k) \in D[k]
  <2>1. PICK a \in Addrs, v \in Values : a = addr + k - 1 /\ v = data[k]
    OBVIOUS
  <2>2. WriteAt(d, addr, data, k) = WriteByte(d, a, v)
    BY <2>1 DEF WriteAt
  <2> DEFINE e == WriteByte(d, a, v)
  <2>3. d \in Accs /\ d.n \in Nat /\ d.n <= k - 1 /\ (d.ok => d.n = k - 1) /\ Good(d)
    <3>1. D[k - 1] = {x \in Accs : x.n <= k - 1 /\ (x.ok => x.n = k - 1) /\ Good(x)}
      BY <1>1
    <3> HIDE DEF D, Good
    <3> QED BY <3>1 DEF Accs
  <2>4. /\ e \in Accs /\ e.blocks = d.blocks /\ (e.ok => d.ok)
        /\ e.n = IF e.ok THEN d.n + 1 ELSE d.n
        /\ Clean(d.card, d.cache) =>
             /\ Clean(e.card, e.cache)
             /\ WithCache(e.card, e.cache) =
                  IF e.ok THEN [WithCache(d.card, d.cache) EXCEPT ![a \div BlockSize][a % BlockSize] = v]
                  ELSE WithCache(d.card, d.cache)
        /\ d.blocks = 0 =>
             /\ e.card = d.card
             /\ d.cache.valid /\ d.cache.dirty => e.cache.valid /\ e.cache.dirty
             /\ e.ok => e.cache.valid /\ e.cache.dirty
    BY <2>3, WriteByteFacts
  <2> HIDE DEF e
  <2>5. e.n <= k /\ (e.ok => e.n = k)
    BY <2>3, <2>4
  <2>6. ASSUME Clean(acc.card, acc.cache)
        PROVE  Clean(e.card, e.cache) /\ AsWritten(WithCache(e.card, e.cache)) = Overlaid(W, addr, data, e.n)
    <3>1. Clean(d.card, d.cache) /\ AsWritten(WithCache(d.card, d.cache)) = Overlaid(W, addr, data, d.n)
      BY <2>3, <2>6
    <3>2. CASE ~e.ok
      BY <2>4, <3>1, <3>2
    <3>3. CASE e.ok
      <4>1. d.n = k - 1 /\ e.n = k
        BY <2>3, <2>4, <3>3
      <4>2. AsWritten(WithCache(e.card, e.cache)) = [AsWritten(WithCache(d.card, d.cache)) EXCEPT ![a] = v]
        <5>1. PICK M \in [Blocks -> Contents] : M = WithCache(d.card, d.cache)
          BY <2>3, WithCacheType
        <5>2. WithCache(e.card, e.cache) = [M EXCEPT ![a \div BlockSize][a % BlockSize] = v]
          BY <2>4, <3>1, <3>3, <5>1
        <5>3. AsWritten([M EXCEPT ![a \div BlockSize][a % BlockSize] = v]) = [AsWritten(M) EXCEPT ![a] = v]
          BY ByteChanged
        <5> QED BY <5>1, <5>2, <5>3
      <4>3. Overlaid(W, addr, data, k) = [Overlaid(W, addr, data, k - 1) EXCEPT ![a] = v]
        <5> HIDE DEF W
        <5>1. \A x \in Addrs : x \in Int
          BY HwAssumption DEF HwAssumption, Addrs
        <5>2. \A x \in Addrs : x \in addr .. (addr + k - 1) <=> x \in addr .. (addr + (k - 1) - 1) \/ x = a
          BY <2>1, <5>1
        <5>3. a - addr + 1 = k /\ a \notin addr .. (addr + (k - 1) - 1)
          BY <2>1, <5>1
        <5>4. \A x \in Addrs : Overlaid(W, addr, data, k)[x] = IF x = a THEN v ELSE Overlaid(W, addr, data, k - 1)[x]
          BY <2>1, <5>2, <5>3 DEF Overlaid
        <5>5. /\ Overlaid(W, addr, data, k) = [x \in Addrs |-> Overlaid(W, addr, data, k)[x]]
              /\ Overlaid(W, addr, data, k - 1) = [x \in Addrs |-> Overlaid(W, addr, data, k - 1)[x]]
          BY DEF Overlaid
        <5> QED BY <5>4, <5>5
      <4> QED BY <2>4, <3>1, <4>1, <4>2, <4>3
    <3> QED BY <3>2, <3>3
  <2>7. ASSUME acc.blocks = 0
        PROVE  /\ e.card = acc.card
               /\ acc.cache.valid /\ acc.cache.dirty => e.cache.valid /\ e.cache.dirty
               /\ e.n > 0 => e.cache.valid /\ e.cache.dirty
    <3> HIDE DEF W
    <3> QED BY <2>3, <2>4, <2>7
  <2>8. e.blocks = acc.blocks
    BY <2>3, <2>4
  <2>9. Good(e)
    BY <2>6, <2>7, <2>8
  <2>10. D[k] = {x \in Accs : x.n <= k /\ (x.ok => x.n = k) /\ Good(x)}
    BY <1>1
  <2> HIDE DEF D, Good
  <2> QED BY <2>2, <2>4, <2>5, <2>9, <2>10 DEF e
<1>4. D[n] = {e \in Accs : e.n <= n /\ (e.ok => e.n = n) /\ Good(e)}
  BY <1>1
<1> HIDE DEF D
<1>5. WriteBytes(acc, addr, data) \in D[Len(data)]
  BY <1>2, <1>3, WriteChain
<1> HIDE DEF Good
<1>6. WriteBytes(acc, addr, data) \in Accs /\ WriteBytes(acc, addr, data).n <= Len(data) /\ Good(WriteBytes(acc, addr, data))
  BY <1>4, <1>5
<1> QED BY <1>6 DEF Good
-----------------------------------------------------------------------------
(* Types. *)

LEMMA SlotTypes ==
    ASSUME TInv, NEW id \in Ids
    PROVE  /\ Is(id, "unused") => hw[id] = Unused
           /\ Is(id, "sd") => hw[id] \in SdSlots
           /\ Is(id, "keypad") => hw[id] \in KeypadSlots
           /\ Is(id, "dht22") => hw[id] \in SensorSlots
           /\ hw[id].type \in Types \cup {"unused"}
           /\ ~Is(id, "unused") => hw[id].pins \in PinLists /\ PowerPin(id) \in Pins /\ SelectPin(id) \in Pins
<1>1. hw[id] = Unused \/ hw[id] \in SdSlots \/ hw[id] \in KeypadSlots \/ hw[id] \in SensorSlots
  BY DEF TInv
<1>2. /\ hw[id] = Unused => hw[id].type = "unused"
      /\ hw[id] \in SdSlots => hw[id].type = "sd" /\ hw[id].pins \in PinLists
      /\ hw[id] \in KeypadSlots => hw[id].type = "keypad" /\ hw[id].pins \in PinLists
      /\ hw[id] \in SensorSlots => hw[id].type = "dht22" /\ hw[id].pins \in PinLists
  BY DEF Unused, SdSlots, KeypadSlots, SensorSlots
<1>3. hw[id].pins \in PinLists => PowerPin(id) \in Pins /\ SelectPin(id) \in Pins
  BY DEF PinLists, PowerPin, SelectPin
<1> QED BY <1>1, <1>2, <1>3 DEF Is, Types

\* What a transaction begins with.
LEMMA StartFacts ==
    ASSUME TInv, NEW id \in Ids, Is(id, "sd"), NEW io \in Nat
    PROVE  LET acc == Start(id, io) IN
           /\ acc \in Accs /\ acc.ok /\ acc.n = 0 /\ acc.blocks = hw[id].blocks
           /\ acc.cache = hw[id].cache /\ acc.card = cards[SelectPin(id)]
<1>1. hw[id] \in SdSlots /\ SelectPin(id) \in Pins
  BY SlotTypes DEF Is
<1>2. hw[id].blocks \in 0 .. NumBlocks /\ hw[id].cache \in Caches /\ cards[SelectPin(id)] \in [Blocks -> Contents]
  BY <1>1 DEF SdSlots, TInv
<1> QED BY <1>2 DEF Start, Accs

\* The dirty block is written, or the flush fails.
LEMMA FlushedFacts ==
    ASSUME TInv, NEW id \in Ids, Is(id, "sd"), NEW io \in Nat
    PROVE  LET e == Flushed(id, io)
               card == cards[SelectPin(id)]
               c == hw[id].cache
           IN  /\ e \in Accs
               /\ WithCache(e.card, e.cache) = WithCache(card, c)
               /\ Clean(card, c) => Clean(e.card, e.cache)
               /\ e.ok => e.card = WithCache(card, c)
               /\ hw[id].blocks = 0 => /\ e.card = card /\ e.cache = c
                                       /\ e.ok => ~(c.valid /\ c.dirty)
<1> DEFINE acc == Start(id, io)
           e == Flushed(id, io)
           c == hw[id].cache
           card == cards[SelectPin(id)]
<1>1. /\ acc \in Accs /\ acc.ok /\ acc.n = 0 /\ acc.blocks = hw[id].blocks
      /\ acc.cache = c /\ acc.card = card
  BY StartFacts
<1>2. e = IF c.valid /\ c.dirty THEN WriteBack(acc) ELSE acc
  BY <1>1 DEF Flushed
<1> HIDE DEF acc, e
<1>3. CASE c.valid /\ c.dirty
  <2>1. e = WriteBack(acc)
    BY <1>2, <1>3
  <2>2. /\ e \in Accs
        /\ e.cache = [c EXCEPT !.dirty = e.cache.dirty]
        /\ ~e.ok \/ ~e.cache.dirty
        /\ WithCache(e.card, e.cache) = WithCache(card, c) /\ Clean(e.card, e.cache)
        /\ e.cache.dirty \/ e.card = WithCache(card, c)
        /\ hw[id].blocks = 0 => e.card = card /\ e.cache = c /\ ~e.ok
    BY <1>1, <1>3, <2>1, WriteBackFacts
  <2> QED BY <2>2 DEF e
<1>4. CASE ~(c.valid /\ c.dirty)
  <2>1. e = acc
    BY <1>2, <1>4
  <2>2. WithCache(card, c) = card
    BY <1>4 DEF WithCache
  <2> QED BY <1>1, <1>4, <2>1, <2>2 DEF e
<1> QED BY <1>3, <1>4

LEMMA RingTypes ==
    /\ << >> \in Rings
    /\ \A s \in Rings : /\ Len(s) \in Nat /\ s \in Seq(ToSet(Keys))
                        /\ s # << >> => Tail(s) \in Rings
                        /\ \A key \in ToSet(Keys) : Len(s) < RingSize - 1 => Append(s, key) \in Rings
<1> DEFINE K == ToSet(Keys)
<1>1. RingSize - 1 \in Nat
  BY HwAssumption DEF HwAssumption
<1>2. \A s \in Rings : s \in Seq(K) /\ Len(s) <= RingSize - 1
  <2> TAKE s \in Rings
  <2>1. PICK m \in 0 .. (RingSize - 1) : s \in [1 .. m -> K]
    BY DEF Rings, SeqOf
  <2> QED BY <1>1, <2>1
<1>3. ASSUME NEW s \in Seq(K), Len(s) <= RingSize - 1 PROVE s \in Rings
  <2>1. Len(s) \in 0 .. (RingSize - 1) /\ s \in [1 .. Len(s) -> K]
    BY <1>1, <1>3
  <2> QED BY <2>1 DEF Rings, SeqOf
<1> HIDE DEF K
<1>4. \A s \in Seq(K) : /\ Len(s) \in Nat
                        /\ s # << >> => Tail(s) \in Seq(K) /\ Len(Tail(s)) = Len(s) - 1
                        /\ \A key \in K : Append(s, key) \in Seq(K) /\ Len(Append(s, key)) = Len(s) + 1
  OBVIOUS
<1>5. << >> \in Seq(K) /\ Len(<< >>) = 0
  OBVIOUS
<1>6. << >> \in Rings
  <2>1. PICK e \in Seq(K) : e = << >> /\ Len(e) = 0
    BY <1>5
  <2>2. Len(e) <= RingSize - 1
    BY <1>1, <2>1
  <2>3. e \in Rings
    BY <1>3, <2>2
  <2> QED BY <2>1, <2>3
<1>7. ASSUME NEW s \in Rings
      PROVE  /\ Len(s) \in Nat /\ s \in Seq(K)
             /\ s # << >> => Tail(s) \in Rings
             /\ \A key \in K : Len(s) < RingSize - 1 => Append(s, key) \in Rings
  <2>1. s \in Seq(K) /\ Len(s) <= RingSize - 1 /\ Len(s) \in Nat
    BY <1>2, <1>4
  <2>2. ASSUME s # << >> PROVE Tail(s) \in Rings
    <3>1. PICK t \in Seq(K) : t = Tail(s) /\ Len(t) = Len(s) - 1
      BY <1>4, <2>1, <2>2
    <3>2. Len(t) <= RingSize - 1
      BY <1>1, <2>1, <3>1
    <3>3. t \in Rings
      BY <1>3, <3>2
    <3> QED BY <3>1, <3>3
  <2>3. ASSUME NEW key \in K, Len(s) < RingSize - 1 PROVE Append(s, key) \in Rings
    <3>1. PICK t \in Seq(K) : t = Append(s, key) /\ Len(t) = Len(s) + 1
      BY <1>4, <2>1
    <3>2. Len(t) <= RingSize - 1
      BY <1>1, <2>1, <2>3, <3>1
    <3>3. t \in Rings
      BY <1>3, <3>2
    <3> QED BY <3>1, <3>3
  <2> QED BY <2>1, <2>2, <2>3
<1> QED BY <1>6, <1>7 DEF K

\* The scan changes which keys of the keypad are down and its ring, within their
\* types.
LEMMA ScanType == ASSUME NEW dev \in KeypadSlots PROVE Scan(dev) \in {d \in KeypadSlots : d.pins = dev.pins /\ d.mount = dev.mount}
<1> DEFINE D == {d \in KeypadSlots : d.pins = dev.pins /\ d.mount = dev.mount}
<1>1. ASSUME NEW d \in D, NEW key \in ToSet(Keys) PROVE ScanKey(d, key) \in D
  <2>1. d \in KeypadSlots /\ d.states \in SUBSET ToSet(Keys) /\ d.ring \in Rings
    BY DEF KeypadSlots
  <2>2. CASE (key \in down) = (key \in d.states)
    BY <2>2 DEF ScanKey
  <2>3. CASE ~((key \in down) = (key \in d.states)) /\ key \in down
    <3> DEFINE ring == IF Len(d.ring) < RingSize - 1 THEN Append(d.ring, key) ELSE d.ring
               states == d.states \cup {key}
    <3>1. ring \in Rings /\ states \in SUBSET ToSet(Keys)
      BY <2>1, RingTypes
    <3>2. ScanKey(d, key) = [d EXCEPT !.states = states, !.ring = ring]
      BY <2>1, <2>3 DEF ScanKey, KeypadSlots
    <3> HIDE DEF ring, states
    <3> QED BY <3>1, <3>2 DEF KeypadSlots
  <2>4. CASE ~((key \in down) = (key \in d.states)) /\ key \notin down
    <3> DEFINE states == d.states \ {key}
    <3>1. states \in SUBSET ToSet(Keys)
      BY <2>1
    <3>2. ScanKey(d, key) = [d EXCEPT !.states = states]
      BY <2>1, <2>4 DEF ScanKey, KeypadSlots
    <3> HIDE DEF states
    <3> QED BY <3>1, <3>2 DEF KeypadSlots
  <2> QED BY <2>2, <2>3, <2>4
<1>2. dev \in D
  OBVIOUS
<1> HIDE DEF D
<1>3. Scan(dev) \in D
  BY <1>1, <1>2, ScanChain
<1> QED BY <1>3 DEF D

\* A slot that keeps its type, and files, cards and their history that may change.
LEMMA SlotStep ==
    ASSUME TInv, NEW id \in Ids,
           NEW dev \in {Unused} \cup SdSlots \cup KeypadSlots \cup SensorSlots,
           hw' = [hw EXCEPT ![id] = dev],
           files' \in [Mounts -> {NoFile} \cup [kind : {"sd", "keypad"}, id : Ids]],
           cards' \in [Pins -> [Blocks -> Contents]],
           written' \in [Pins -> [Addrs -> Values]],
           open' = open, spi' = spi
    PROVE  TInv'
BY DEF TInv

LEMMA FilesTypes ==
    ASSUME TInv
    PROVE  /\ \A p \in Mounts : \A kind \in {"sd", "keypad"} : \A id \in Ids :
                [files EXCEPT ![p] = [kind |-> kind, id |-> id]] \in [Mounts -> {NoFile} \cup [kind : {"sd", "keypad"}, id : Ids]]
           /\ \A p : FilesWithout(p) \in [Mounts -> {NoFile} \cup [kind : {"sd", "keypad"}, id : Ids]]
           /\ \A p \in Mounts : files[p].kind \in {"sd", "keypad"} => files[p].id \in Ids
<1> DEFINE F == {NoFile} \cup [kind : {"sd", "keypad"}, id : Ids]
<1>1. files \in [Mounts -> F]
  BY DEF TInv
<1>2. ASSUME NEW p \in Mounts, NEW kind \in {"sd", "keypad"}, NEW id \in Ids
      PROVE  [files EXCEPT ![p] = [kind |-> kind, id |-> id]] \in [Mounts -> F]
  BY <1>1
<1>3. ASSUME NEW p PROVE FilesWithout(p) \in [Mounts -> F]
  BY <1>1 DEF FilesWithout
<1>4. ASSUME NEW p \in Mounts, files[p].kind \in {"sd", "keypad"} PROVE files[p].id \in Ids
  <2>1. files[p] = NoFile \/ files[p] \in [kind : {"sd", "keypad"}, id : Ids]
    BY <1>1
  <2>2. files[p] # NoFile
    BY <1>4 DEF NoFile
  <2> QED BY <2>1, <2>2
<1> QED BY <1>2, <1>3, <1>4

LEMMA AsWrittenType == ASSUME NEW card \in [Blocks -> Contents] PROVE AsWritten(card) \in [Addrs -> Values]
BY Placing DEF AsWritten, Contents

LEMMA RegisterTypes ==
    ASSUME TInv, NEW id \in Ids, NEW type \in Types, NEW pins \in Seq(Int), Len(pins) >= 2,
           NEW garbage \in BOOLEAN, Register(id, type, pins, garbage)
    PROVE  TInv'
<1> DEFINE dev == Registered(type, pins, garbage)
<1>1. pins \in PinLists
  <2>1. \A k \in 1 .. Len(pins) : pins[k] \in Pins
    BY DEF Register, GrabsUpTo
  <2> QED BY <2>1 DEF PinLists
<1>2. dev \in SdSlots \cup KeypadSlots \cup SensorSlots
  <2>1. CASE type = "keypad"
    <3>1. dev = [type |-> "keypad", pins |-> pins, mount |-> NoPath, states |-> {}, ring |-> << >>]
      BY <2>1 DEF Registered
    <3> QED BY <1>1, <3>1, RingTypes DEF KeypadSlots, Paths
  <2>2. CASE type = "sd"
    <3> DEFINE c == [Cache EXCEPT !.valid = garbage, !.dirty = garbage]
    <3>1. dev = [type |-> "sd", pins |-> pins, mount |-> NoPath, card |-> "Bad", blocks |-> 0, cache |-> c]
      BY <2>2 DEF Registered
    <3>2. c \in Caches
      BY BlankType DEF Caches
    <3>3. 0 \in 0 .. NumBlocks
      BY HwAssumption DEF HwAssumption
    <3> HIDE DEF c
    <3> QED BY <1>1, <3>1, <3>2, <3>3 DEF SdSlots, Paths
  <2>3. CASE type = "dht22"
    <3>1. dev = [type |-> "dht22", pins |-> pins, mount |-> NoPath, value |-> 0]
      BY <2>3 DEF Registered
    <3> QED BY <1>1, <3>1 DEF SensorSlots, Paths
  <2> QED BY <2>1, <2>2, <2>3 DEF Types
<1> HIDE DEF dev
<1>3. hw' = [hw EXCEPT ![id] = dev] /\ files' = files /\ cards' = cards /\ written' = written /\ open' = open /\ spi' = spi
  BY DEF Register, dev
<1> QED BY <1>2, <1>3, SlotStep DEF TInv

\* The cache and the card after a transaction.
LEMMA FinishTypes ==
    ASSUME TInv, NEW id \in Ids, Is(id, "sd"), NEW acc \in Accs, Finish(id, acc),
           written' \in [Pins -> [Addrs -> Values]], files' = files, open' = open, spi' = spi
    PROVE  TInv'
<1>1. hw[id] \in SdSlots /\ acc.cache \in Caches /\ acc.card \in [Blocks -> Contents]
  BY SlotTypes DEF Accs
<1> DEFINE dev == [hw[id] EXCEPT !.cache = acc.cache]
<1>2. dev \in SdSlots
  BY <1>1 DEF SdSlots
<1>3. hw' = [hw EXCEPT ![id] = dev]
  BY DEF Finish
<1> HIDE DEF dev
<1>4. cards' \in [Pins -> [Blocks -> Contents]]
  BY <1>1 DEF Finish, TInv
<1> QED BY <1>2, <1>3, <1>4, SlotStep DEF TInv

\* The addresses of a read or a write exist, and what is written are bytes.
LEMMA Requested ==
    ASSUME NEW addr \in Touched, NEW len \in Nat, addr + len - 1 \in Touched
    PROVE  addr \in Int /\ \A k \in 1 .. len : addr + k - 1 \in Addrs
<1>1. NumBlocks * BlockSize \in Nat /\ Touched \subseteq 0 .. (NumBlocks * BlockSize - 1)
  BY HwAssumption DEF HwAssumption
<1> DEFINE top == NumBlocks * BlockSize
<1> HIDE DEF top
<1>2. addr \in 0 .. (top - 1) /\ addr + len - 1 \in 0 .. (top - 1) /\ top \in Nat
  BY <1>1 DEF top
<1>3. \A k \in 1 .. len : addr + k - 1 \in 0 .. (top - 1)
  BY <1>2
<1> QED BY <1>2, <1>3 DEF Addrs, top

LEMMA DataTypes ==
    ASSUME NEW data \in SeqOf(Values, MaxLen)
    PROVE  data \in Seq(Values) /\ Len(data) \in Nat
<1>1. PICK m \in 0 .. MaxLen : data \in [1 .. m -> Values]
  BY DEF SeqOf
<1>2. m \in Nat
  BY HwAssumption DEF HwAssumption
<1>3. data \in Seq(Values)
  BY <1>1, <1>2
<1> QED BY <1>3

LEMMA ServedType ==
    ASSUME TInv, NEW p \in Mounts, files[p].kind = "sd" /\ HasCard(files[p].id)
    PROVE  files[p].id \in Ids /\ Is(files[p].id, "sd")
BY FilesTypes DEF HasCard

LEMMA SdReadTypes ==
    ASSUME TInv, NEW p \in Mounts, NEW addr \in Touched, NEW len \in Nat, addr + len - 1 \in Touched,
           NEW io \in Nat, SdRead(p, addr, len, io)
    PROVE  TInv'
<1>1. PICK id \in Ids : id = files[p].id /\ Is(id, "sd")
  BY ServedType DEF SdRead, ServesCard
<1>2. Start(id, io) \in Accs
  BY <1>1, StartFacts
<1>3. ReadBytes(Start(id, io), addr, len) \in Accs
  BY <1>2, Requested, ReadBytesFacts
<1>4. Finish(id, ReadBytes(Start(id, io), addr, len))
  BY <1>1 DEF SdRead
<1>5. written' \in [Pins -> [Addrs -> Values]] /\ files' = files /\ open' = open /\ spi' = spi
  BY DEF SdRead, TInv
<1>6. PICK acc \in Accs : Finish(id, acc)
  BY <1>3, <1>4
<1> QED BY <1>1, <1>5, <1>6, FinishTypes

\* The history as a write that stopped after acc.n bytes leaves it.
LEMMA WriteOverlays ==
    ASSUME TInv, NEW p \in Mounts, NEW addr, NEW data, NEW io, SdWrite(p, addr, data, io),
           NEW id \in Ids, id = files[p].id
    PROVE  LET acc == WriteBytes(Start(id, io), addr, data) IN
           /\ Finish(id, acc)
           /\ written' = [written EXCEPT ![SelectPin(id)] = Overlaid(written[SelectPin(id)], addr, data, acc.n)]
BY DEF SdWrite, Overlaid

LEMMA SdWriteTypes ==
    ASSUME TInv, NEW p \in Mounts, NEW addr \in Touched, NEW data \in SeqOf(Values, MaxLen),
           addr + Len(data) - 1 \in Touched, NEW io \in Nat, SdWrite(p, addr, data, io)
    PROVE  TInv'
<1>1. PICK id \in Ids : id = files[p].id /\ Is(id, "sd")
  BY ServedType DEF SdWrite, ServesCard
<1>2. data \in Seq(Values) /\ Len(data) \in Nat /\ addr \in Int /\ \A k \in 1 .. Len(data) : addr + k - 1 \in Addrs
  BY DataTypes, Requested
<1>3. PICK s \in Accs : s = Start(id, io) /\ s.n = 0
  BY <1>1, StartFacts
<1>4. WriteBytes(s, addr, data) \in Accs /\ WriteBytes(s, addr, data).n <= Len(data)
  BY <1>2, <1>3, WriteBytesFacts
<1>5. PICK acc \in Accs : acc = WriteBytes(s, addr, data) /\ acc.n <= Len(data) /\ acc.n \in Nat
  BY <1>4 DEF Accs
<1>6. /\ Finish(id, acc)
      /\ written' = [written EXCEPT ![SelectPin(id)] = Overlaid(written[SelectPin(id)], addr, data, acc.n)]
  BY <1>1, <1>3, <1>5, WriteOverlays
<1>7. SelectPin(id) \in Pins /\ written \in [Pins -> [Addrs -> Values]]
  BY <1>1, SlotTypes DEF TInv, Is
<1>8. Overlaid(written[SelectPin(id)], addr, data, acc.n) \in [Addrs -> Values]
  <2>1. ASSUME NEW a \in Addrs, a \in addr .. (addr + acc.n - 1) PROVE data[a - addr + 1] \in Values
    <3>1. a \in Int
      BY HwAssumption DEF HwAssumption, Addrs
    <3>2. a - addr + 1 \in 1 .. Len(data)
      BY <1>2, <1>5, <2>1, <3>1
    <3> QED BY <1>2, <3>2
  <2> QED BY <1>7, <2>1 DEF Overlaid
<1>9. written' \in [Pins -> [Addrs -> Values]] /\ files' = files /\ open' = open /\ spi' = spi
  BY <1>6, <1>7, <1>8 DEF SdWrite
<1> QED BY <1>1, <1>6, <1>9, FinishTypes

LEMMA SdFlushTypes == ASSUME TInv, NEW p \in Mounts, NEW io \in Nat, SdFlush(p, io) PROVE TInv'
<1>1. PICK id \in Ids : id = files[p].id /\ Is(id, "sd")
  BY ServedType DEF SdFlush
<1>2. PICK acc \in Accs : acc = Flushed(id, io)
  BY <1>1, FlushedFacts
<1>3. Finish(id, acc) /\ written' \in [Pins -> [Addrs -> Values]] /\ files' = files /\ open' = open /\ spi' = spi
  BY <1>1, <1>2 DEF SdFlush, TInv
<1> QED BY <1>1, <1>3, FinishTypes

LEMMA SdMountTypes ==
    ASSUME TInv, NEW id \in Ids,
           (\E p \in Mounts : SdMount(id, p)) \/ (\E step \in DOMAIN InitSteps : SdMountFails(id, step))
    PROVE  TInv'
<1>1. Is(id, "sd") /\ hw[id] \in SdSlots /\ hw[id].cache \in Caches
  BY SlotTypes DEF SdMount, SdMountFails, SdSlots
<1>2. 0 \in 0 .. NumBlocks /\ NumBlocks \in 0 .. NumBlocks
  BY HwAssumption DEF HwAssumption
<1>3. ASSUME NEW p \in Mounts, SdMount(id, p) PROVE TInv'
  <2> DEFINE c == [hw[id].cache EXCEPT !.valid = FALSE]
             mounted == [hw[id] EXCEPT !.card = "Ver2", !.blocks = NumBlocks, !.cache = c, !.mount = p]
             failed == [hw[id] EXCEPT !.blocks = NumBlocks, !.cache = c]
  <2>1. c \in Caches
    BY <1>1 DEF Caches
  <2>2. CASE files[p] = NoFile
    <3>1. hw' = [hw EXCEPT ![id] = mounted]
      BY <1>1, <1>3, <2>2 DEF SdMount, SdSlots
    <3> HIDE DEF c
    <3>2. mounted \in SdSlots
      BY <1>1, <1>2, <2>1 DEF SdSlots, Paths
    <3>3. files' \in [Mounts -> {NoFile} \cup [kind : {"sd", "keypad"}, id : Ids]]
      BY <1>3, <2>2, FilesTypes DEF SdMount
    <3> HIDE DEF mounted
    <3> QED BY <1>3, <3>1, <3>2, <3>3, SlotStep DEF SdMount, TInv
  <2>3. CASE files[p] # NoFile
    <3>1. hw' = [hw EXCEPT ![id] = failed] /\ files' = files
      BY <1>1, <1>3, <2>3 DEF SdMount, SdSlots
    <3> HIDE DEF c
    <3>2. failed \in SdSlots
      BY <1>1, <1>2, <2>1 DEF SdSlots
    <3> HIDE DEF failed
    <3> QED BY <1>3, <3>1, <3>2, SlotStep DEF SdMount, TInv
  <2> QED BY <2>2, <2>3
<1>4. ASSUME NEW step \in DOMAIN InitSteps, SdMountFails(id, step) PROVE TInv'
  <2> DEFINE failed == [hw[id] EXCEPT !.card = TypeAfter(step), !.blocks = 0]
  <2>1. hw' = [hw EXCEPT ![id] = failed]
    BY <1>1, <1>4 DEF SdMountFails, SdSlots
  <2>2. TypeAfter(step) \in {"Bad", "Ver2"}
    BY DEF TypeAfter
  <2>3. failed \in SdSlots
    BY <1>1, <1>2, <2>2 DEF SdSlots
  <2> HIDE DEF failed
  <2> QED BY <1>4, <2>1, <2>3, SlotStep DEF SdMountFails, TInv
<1> QED BY <1>3, <1>4

\* The card and its history after it is unmounted.
LEMMA UnmountedTypes ==
    ASSUME TInv, NEW id \in Ids, HasCard(id), NEW io \in Nat, Unmounted(id, io)
    PROVE  /\ files' \in [Mounts -> {NoFile} \cup [kind : {"sd", "keypad"}, id : Ids]]
           /\ cards' \in [Pins -> [Blocks -> Contents]]
           /\ written' \in [Pins -> [Addrs -> Values]]
<1>1. Is(id, "sd") /\ SelectPin(id) \in Pins
  BY SlotTypes DEF HasCard, Is
<1>2. PICK acc \in Accs : acc = Flushed(id, io)
  BY <1>1, FlushedFacts
<1>3. acc.card \in [Blocks -> Contents]
  BY DEF Accs
<1>4. AsWritten(acc.card) \in [Addrs -> Values]
  BY <1>3, AsWrittenType
<1>5. files' \in [Mounts -> {NoFile} \cup [kind : {"sd", "keypad"}, id : Ids]]
  BY FilesTypes DEF Unmounted
<1> QED BY <1>1, <1>2, <1>3, <1>4, <1>5 DEF Unmounted, TInv

LEMMA SdUnmountTypes == ASSUME TInv, NEW id \in Ids, NEW io \in Nat, SdUnmount(id, io) PROVE TInv'
<1>1. HasCard(id) /\ Is(id, "sd") /\ hw[id] \in SdSlots
  BY SlotTypes DEF SdUnmount, HasCard
<1>2. PICK c \in Caches : c = Flushed(id, io).cache
  BY <1>1, FlushedFacts DEF Accs
<1> DEFINE dev == [hw[id] EXCEPT !.card = "Bad", !.mount = NoPath, !.cache = c]
<1>3. dev \in SdSlots
  BY <1>1 DEF SdSlots, Paths
<1>4. hw' = [hw EXCEPT ![id] = dev]
  BY <1>1, <1>2 DEF SdUnmount, SdSlots
<1> HIDE DEF dev
<1> QED BY <1>1, <1>3, <1>4, UnmountedTypes, SlotStep DEF SdUnmount

LEMMA DeregisterTypes == ASSUME TInv, NEW id \in Ids, NEW io \in Nat, Deregister(id, io) PROVE TInv'
<1>1. hw' = [hw EXCEPT ![id] = Unused] /\ open' = open /\ spi' = spi
  BY DEF Deregister
<1>2. CASE HasCard(id)
  BY <1>1, <1>2, UnmountedTypes, SlotStep DEF Deregister
<1>3. CASE ~HasCard(id)
  BY <1>1, <1>3, FilesTypes, SlotStep DEF Deregister, TInv
<1> QED BY <1>2, <1>3

LEMMA KeypadTypes ==
    ASSUME TInv,
           \/ \E id \in Ids, p \in Mounts : KeypadMount(id, p)
           \/ \E id \in Ids : KeypadUnmount(id)
           \/ \E p \in Mounts : KeypadRead(p)
    PROVE  TInv'
<1>1. ASSUME NEW id \in Ids, NEW p \in Mounts, KeypadMount(id, p) PROVE TInv'
  <2>1. hw[id] \in KeypadSlots
    BY <1>1, SlotTypes DEF KeypadMount
  <2> DEFINE dev == [hw[id] EXCEPT !.mount = p]
  <2>2. dev \in KeypadSlots
    BY <2>1 DEF KeypadSlots, Paths
  <2>3. hw' = [hw EXCEPT ![id] = dev]
    BY <1>1, <2>1 DEF KeypadMount, KeypadSlots
  <2> HIDE DEF dev
  <2> QED BY <1>1, <2>2, <2>3, FilesTypes, SlotStep DEF KeypadMount, TInv
<1>2. ASSUME NEW id \in Ids, KeypadUnmount(id) PROVE TInv'
  <2>1. hw[id] \in KeypadSlots
    BY <1>2, SlotTypes DEF KeypadUnmount, HasKeypad
  <2> DEFINE dev == [hw[id] EXCEPT !.mount = NoPath]
  <2>2. dev \in KeypadSlots
    BY <2>1 DEF KeypadSlots, Paths
  <2>3. hw' = [hw EXCEPT ![id] = dev]
    BY <1>2, <2>1 DEF KeypadUnmount, KeypadSlots
  <2> HIDE DEF dev
  <2> QED BY <1>2, <2>2, <2>3, FilesTypes, SlotStep DEF KeypadUnmount, TInv
<1>3. ASSUME NEW p \in Mounts, KeypadRead(p) PROVE TInv'
  <2>1. PICK id \in Ids : id = files[p].id /\ Is(id, "keypad") /\ hw[id].ring # << >>
    BY <1>3, FilesTypes DEF KeypadRead, HasKeypad
  <2>2. hw[id] \in KeypadSlots
    BY <2>1, SlotTypes
  <2>3. PICK ring \in Rings : ring = Tail(hw[id].ring)
    BY <2>1, <2>2, RingTypes DEF KeypadSlots
  <2> DEFINE dev == [hw[id] EXCEPT !.ring = ring]
  <2>4. dev \in KeypadSlots
    BY <2>2 DEF KeypadSlots
  <2>5. hw' = [hw EXCEPT ![id] = dev]
    BY <1>3, <2>1, <2>2, <2>3 DEF KeypadRead, KeypadSlots
  <2> HIDE DEF dev
  <2> QED BY <1>3, <2>4, <2>5, SlotStep DEF KeypadRead, TInv
<1> QED BY <1>1, <1>2, <1>3

\* The scan of the keypads and the answers of the sensors leave every slot to
\* its device.
LEMMA TickedType ==
    ASSUME TInv, NEW id \in Ids, NEW answers
    PROVE  /\ Is(id, "keypad") => Ticked(id, answers) \in {d \in KeypadSlots : d.pins = hw[id].pins}
           /\ Is(id, "dht22") => Ticked(id, answers) \in {d \in SensorSlots : d.pins = hw[id].pins}
           /\ ~Is(id, "keypad") /\ ~Is(id, "dht22") => Ticked(id, answers) = hw[id]
<1>1. CASE Is(id, "keypad")
  <2>1. hw[id] \in KeypadSlots /\ ~Is(id, "dht22")
    BY <1>1, SlotTypes DEF Is
  <2>2. Ticked(id, answers) = Scan(hw[id])
    BY <1>1, <2>1 DEF Ticked
  <2>3. PICK d \in KeypadSlots : d = Scan(hw[id]) /\ d.pins = hw[id].pins
    BY <2>1, ScanType
  <2> QED BY <1>1, <2>1, <2>2, <2>3
<1>2. CASE Is(id, "dht22")
  <2>1. hw[id] \in SensorSlots /\ ~Is(id, "keypad")
    BY <1>2, SlotTypes DEF Is
  <2>2. Ticked(id, answers) = IF id \in answers THEN [hw[id] EXCEPT !.value = 1] ELSE hw[id]
    BY <1>2, <2>1 DEF Ticked
  <2>3. [hw[id] EXCEPT !.value = 1] \in SensorSlots /\ [hw[id] EXCEPT !.value = 1].pins = hw[id].pins
    BY <2>1 DEF SensorSlots
  <2> QED BY <1>2, <2>1, <2>2, <2>3
<1>3. CASE ~Is(id, "keypad") /\ ~Is(id, "dht22")
  BY <1>3 DEF Ticked
<1> QED BY <1>1, <1>2, <1>3

LEMMA TickTypes == ASSUME TInv, NEW answers, Tick(answers) PROVE TInv'
<1> DEFINE H == {Unused} \cup SdSlots \cup KeypadSlots \cup SensorSlots
<1>1. ASSUME NEW id \in Ids PROVE Ticked(id, answers) \in H
  <2>1. hw[id] \in H
    BY DEF TInv
  <2> QED BY <2>1, TickedType
<1> HIDE DEF H
<1>2. hw' \in [Ids -> H]
  BY <1>1 DEF Tick
<1> QED BY <1>2 DEF Tick, TInv, H

LEMMA NextTypes == ASSUME TInv, [Next]_vars PROVE TInv'
<1>0. \A io \in 0 .. MaxIo : io \in Nat
  BY HwAssumption DEF HwAssumption
<1>1. ASSUME NEW id \in Ids, NEW r \in Requests,
             RegisterFails(id, r.type, r.pins) \/ \E garbage \in BOOLEAN : Register(id, r.type, r.pins, garbage)
      PROVE  TInv'
  <2>1. r.type \in Types /\ r.pins \in Seq(Int) /\ Len(r.pins) >= 2
    BY HwAssumption DEF HwAssumption
  <2>2. CASE RegisterFails(id, r.type, r.pins)
    BY <2>2 DEF RegisterFails, TInv
  <2>3. CASE \E garbage \in BOOLEAN : Register(id, r.type, r.pins, garbage)
    BY <2>1, <2>3, RegisterTypes
  <2> QED BY <1>1, <2>2, <2>3
<1>2. ASSUME NEW p \in Mounts, NEW io \in 0 .. MaxIo,
             \/ SdFlush(p, io)
             \/ \E addr \in Touched, len \in 1 .. MaxLen : addr + len - 1 \in Touched /\ SdRead(p, addr, len, io)
             \/ \E addr \in Touched, data \in SeqOf(Values, MaxLen) \ {<< >>} :
                   addr + Len(data) - 1 \in Touched /\ SdWrite(p, addr, data, io)
      PROVE  TInv'
  <2>1. io \in Nat /\ \A len \in 1 .. MaxLen : len \in Nat
    BY HwAssumption DEF HwAssumption
  <2> QED BY <1>2, <2>1, SdFlushTypes, SdReadTypes, SdWriteTypes
<1>3. CASE UNCHANGED vars
  BY <1>3 DEF vars, TInv
<1>4. ASSUME NEW p \in Mounts, OpenFile(p) \/ CloseFile(p) PROVE TInv'
  BY <1>4 DEF OpenFile, CloseFile, TInv
<1>5. ASSUME NEW p \in Mounts, DeleteFile(p) PROVE TInv'
  BY <1>5, FilesTypes DEF DeleteFile, TInv
<1>6. CASE (\E key \in ToSet(Keys) : KeyMoves(key)) \/ ProcessSpi
  BY <1>6 DEF KeyMoves, ProcessSpi, TInv
<1> QED
  BY <1>0, <1>1, <1>2, <1>3, <1>4, <1>5, <1>6, DeregisterTypes, SdUnmountTypes, SdMountTypes, KeypadTypes, TickTypes
     DEF Next

\* Nothing is registered, no file exists and the cards are blank when the kernel
\* starts.
LEMMA InitTypes == Init => TInv
<1>1. [b \in Blocks |-> BlankBlock] \in [Blocks -> Contents]
  BY BlankType
<1>2. AsWritten([b \in Blocks |-> BlankBlock]) \in [Addrs -> Values]
  BY <1>1, AsWrittenType
<1> QED BY <1>1, <1>2 DEF Init, TInv

THEOREM TypesKept == Spec => []TInv
BY InitTypes, NextTypes, PTL DEF Spec

\* Whatever programs register, mount and write, every slot and every cache is of
\* its type: a keypad's ring is never full, and a cached block is one of the card.
THEOREM TypeCorrect == Spec => []TypeOK
<1>1. TInv => TypeOK
  <2> SUFFICES ASSUME TInv PROVE TypeOK
    OBVIOUS
  <2>1. ASSUME NEW id \in Ids, hw[id] # Unused
        PROVE  /\ hw[id].type \in Types /\ ToSet(hw[id].pins) \subseteq Pins
               /\ hw[id].mount \in Mounts \cup {NoPath}
               /\ Is(id, "sd") => /\ hw[id].card \in {"Bad", "Ver2"} /\ hw[id].blocks \in 0 .. NumBlocks
                                  /\ hw[id].cache \in Caches
               /\ Is(id, "keypad") => hw[id].ring \in SeqOf(ToSet(Keys), RingSize - 1)
    <3>1. hw[id].type \in Types /\ hw[id].pins \in PinLists
      BY <2>1, SlotTypes DEF Is
    <3>2. ToSet(hw[id].pins) \subseteq Pins
      BY <3>1 DEF PinLists, ToSet
    <3>3. hw[id].mount \in Paths
      BY <2>1 DEF TInv, SdSlots, KeypadSlots, SensorSlots
    <3> QED BY <3>1, <3>2, <3>3, SlotTypes DEF Paths, Rings, SdSlots, KeypadSlots
  <2> QED BY <2>1 DEF TypeOK, TInv
<1> QED BY <1>1, TypesKept, PTL
-----------------------------------------------------------------------------
(* Pins and power. *)

\* Which devices need power: PoweredWhileUsed says it is on for these.
On(id) == Is(id, "dht22") \/ (HasCard(id) /\ hw[id].blocks > 0)

\* What the steps rely on of a slot.
Slot(id) ==
    /\ {"type", "pins"} \subseteq DOMAIN hw[id]
    /\ hw[id].type \in Types \cup {"unused"}
    /\ hw[id].pins \in Seq(Int)
    /\ IF Is(id, "unused") THEN hw[id].pins = << >> ELSE Len(hw[id].pins) >= 2
    /\ Is(id, "sd") => {"card", "blocks"} \subseteq DOMAIN hw[id]

Slots == DOMAIN hw = Ids /\ \A id \in Ids : Slot(id)

IInv == Slots /\ PinsHeldByDevices /\ PoweredWhileUsed

\* A slot of which at most the rest changes.
Kept(id) ==
    /\ DOMAIN hw'[id] = DOMAIN hw[id]
    /\ hw'[id].type = hw[id].type /\ hw'[id].pins = hw[id].pins
    /\ Is(id, "sd") => hw'[id].card = hw[id].card /\ hw'[id].blocks = hw[id].blocks
-----------------------------------------------------------------------------
\* The pins of a device in use include the one that powers it.
LEMMA PowerPinIsHeld ==
    ASSUME IInv, NEW id \in Ids, ~Is(id, "unused")
    PROVE  PowerPin(id) \in ToSet(hw[id].pins)
BY DEF IInv, Slots, Slot, PowerPin, ToSet

\* Power pins are pins in use.
LEMMA HighIsUsed == ASSUME IInv PROVE high \subseteq used
<1> SUFFICES ASSUME NEW pin \in high PROVE pin \in used
  OBVIOUS
<1>1. PICK id \in Ids : On(id) /\ pin = PowerPin(id)
  BY DEF IInv, PoweredWhileUsed, On
<1>2. ~Is(id, "unused")
  BY <1>1 DEF On, HasCard, Is
<1> QED
  BY <1>1, <1>2, PowerPinIsHeld DEF IInv, PinsHeldByDevices

\* Devices do not share a power pin.
LEMMA PowerPinsDiffer ==
    ASSUME IInv, NEW id \in Ids, NEW other \in Ids, id # other, ~Is(id, "unused"), ~Is(other, "unused")
    PROVE  PowerPin(id) # PowerPin(other) /\ PowerPin(other) \notin ToSet(hw[id].pins)
BY PowerPinIsHeld DEF IInv, PinsHeldByDevices

\* A step that keeps all slots, the pins and the power keeps the invariant.
LEMMA QuietStep ==
    ASSUME IInv, DOMAIN hw' = Ids, \A id \in Ids : Kept(id), used' = used, high' = high
    PROVE  IInv'
<1>1. Slots'
  BY DEF IInv, Slots, Slot, Kept, Is
<1>2. PinsHeldByDevices'
  BY DEF IInv, PinsHeldByDevices, Kept
<1>3. \A id \in Ids : On(id)' = On(id) /\ PowerPin(id)' = PowerPin(id)
  BY DEF Kept, On, HasCard, PowerPin, Is
<1>4. PoweredWhileUsed'
  BY <1>3 DEF IInv, PoweredWhileUsed, On
<1> QED
  BY <1>1, <1>2, <1>4 DEF IInv
-----------------------------------------------------------------------------
\* A device that is registered gets pins nobody has.
LEMMA RegisterStep ==
    ASSUME IInv, NEW id \in Ids, NEW type \in Types, NEW pins \in Seq(Int), Len(pins) >= 2,
           NEW garbage, Register(id, type, pins, garbage)
    PROVE  IInv'
<1> DEFINE new == Registered(type, pins, garbage)
<1>1. /\ {"type", "pins"} \subseteq DOMAIN new /\ new.type = type /\ new.pins = pins
      /\ type = "sd" => {"card", "blocks"} \subseteq DOMAIN new /\ new.card = "Bad"
  BY DEF Registered, Types
<1>2. DOMAIN hw' = Ids /\ hw'[id] = new /\ \A other \in Ids \ {id} : hw'[other] = hw[other]
  BY DEF Register, IInv, Slots
<1>3. hw[id].pins = << >> /\ Is(id, "unused")
  BY DEF Register, IInv, Slots, Slot
<1>4. /\ ToSet(pins) \subseteq Pins \ used
      /\ IsInjective(pins)
  <2>1. \A k \in 1 .. Len(pins) : pins[k] \in Pins \ used /\ \A j \in 1 .. (k - 1) : pins[j] # pins[k]
    BY DEF Register, GrabsUpTo, Range1
  <2>2. ToSet(pins) \subseteq Pins \ used
    BY <2>1 DEF ToSet
  <2>3. IsInjective(pins)
    BY <2>1 DEF IsInjective
  <2> QED
    BY <2>2, <2>3
<1> HIDE DEF new
<1>5. Slots'
  <2>1. Slot(id)'
    BY <1>1, <1>2 DEF Slot, Is, Types
  <2>2. \A other \in Ids \ {id} : Slot(other)'
    BY <1>2 DEF IInv, Slots, Slot, Is
  <2> QED
    BY <1>2, <2>1, <2>2 DEF Slots
<1>6. PinsHeldByDevices'
  <2>1. used' = used \cup ToSet(pins)
    BY DEF Register
  <2>2. used' = ReservedPins \cup UNION {ToSet(hw'[other].pins) : other \in Ids}
    <3>1. ToSet(hw[id].pins) = {}
      BY <1>3 DEF ToSet
    <3> QED
      BY <1>1, <1>2, <2>1, <3>1 DEF IInv, PinsHeldByDevices
  <2>3. \A other \in Ids : ToSet(hw'[other].pins) \cap ReservedPins = {} /\ IsInjective(hw'[other].pins)
    BY <1>1, <1>2, <1>4 DEF IInv, PinsHeldByDevices
  <2>4. \A a, b \in Ids : a # b => ToSet(hw'[a].pins) \cap ToSet(hw'[b].pins) = {}
    <3>1. \A other \in Ids : ToSet(hw[other].pins) \cap ToSet(pins) = {}
      BY <1>4 DEF IInv, PinsHeldByDevices
    <3> QED
      BY <1>1, <1>2, <3>1 DEF IInv, PinsHeldByDevices
  <2> QED
    BY <2>2, <2>3, <2>4 DEF PinsHeldByDevices
<1>7. PoweredWhileUsed'
  <2>1. \A other \in Ids \ {id} : On(other)' = On(other) /\ PowerPin(other)' = PowerPin(other)
    BY <1>2 DEF On, HasCard, PowerPin, Is
  <2>2. ~On(id) /\ (On(id)' <=> type = "dht22") /\ PowerPin(id)' = pins[1]
    BY <1>1, <1>2, <1>3 DEF On, HasCard, PowerPin, Is, Types
  <2>3. high' = IF type = "dht22" THEN high \cup {pins[1]} ELSE high
    BY DEF Register
  <2> QED
    BY <2>1, <2>2, <2>3 DEF IInv, PoweredWhileUsed, On
<1> QED
  BY <1>5, <1>6, <1>7 DEF IInv

\* A registration that fails gives back what it took, and nothing else.
LEMMA RegisterFailsStep ==
    ASSUME IInv, NEW id \in Ids, NEW type, NEW pins \in Seq(Int), RegisterFails(id, type, pins)
    PROVE  IInv'
<1>1. PICK n \in 0 .. Len(pins) :
        /\ GrabsUpTo(pins, n)
        /\ used' = (used \cup Range1(pins, n)) \ Range1(pins, n)
        /\ high' = high \ Range1(pins, n)
  BY DEF RegisterFails, Grabbed
<1>2. Range1(pins, n) \cap used = {}
  BY <1>1 DEF GrabsUpTo, Range1
<1>3. used' = used /\ high' = high
  BY <1>1, <1>2, HighIsUsed
<1>4. DOMAIN hw' = Ids /\ \A other \in Ids : Kept(other)
  BY DEF RegisterFails, IInv, Slots, Kept
<1> QED
  BY <1>3, <1>4, QuietStep

\* Deregistering turns the device off and gives its pins back.
LEMMA DeregisterStep == ASSUME IInv, NEW id \in Ids, NEW io, Deregister(id, io) PROVE IInv'
<1>1. /\ DOMAIN hw' = Ids /\ hw'[id] = Unused /\ \A other \in Ids \ {id} : hw'[other] = hw[other]
      /\ used' = used \ ToSet(hw[id].pins) /\ high' = high \ ToSet(hw[id].pins) /\ ~Is(id, "unused")
  BY DEF Deregister, IInv, Slots
<1>2. Slots'
  <2>1. Slot(id)'
    BY <1>1 DEF Slot, Is, Unused
  <2>2. \A other \in Ids \ {id} : Slot(other)'
    BY <1>1 DEF IInv, Slots, Slot, Is
  <2> QED
    BY <1>1, <2>1, <2>2 DEF Slots
<1>3. PinsHeldByDevices'
  <2>1. hw'[id].pins = << >> /\ ToSet(hw'[id].pins) = {} /\ IsInjective(hw'[id].pins)
    BY <1>1 DEF Unused, ToSet, IsInjective
  <2>2. used' = ReservedPins \cup UNION {ToSet(hw'[other].pins) : other \in Ids}
    BY <1>1, <2>1 DEF IInv, PinsHeldByDevices
  <2>3. \A other \in Ids : ToSet(hw'[other].pins) \cap ReservedPins = {} /\ IsInjective(hw'[other].pins)
    BY <1>1, <2>1 DEF IInv, PinsHeldByDevices
  <2>4. \A a, b \in Ids : a # b => ToSet(hw'[a].pins) \cap ToSet(hw'[b].pins) = {}
    BY <1>1, <2>1 DEF IInv, PinsHeldByDevices
  <2> QED
    BY <2>2, <2>3, <2>4 DEF PinsHeldByDevices
<1>4. PoweredWhileUsed'
  <2>1. \A other \in Ids \ {id} : On(other)' = On(other) /\ PowerPin(other)' = PowerPin(other)
    BY <1>1 DEF On, HasCard, PowerPin, Is
  <2>2. ~On(id)'
    BY <1>1 DEF On, HasCard, Is, Unused
  <2>3. \A other \in Ids \ {id} : On(other) => PowerPin(other) \notin ToSet(hw[id].pins)
    BY <1>1, PowerPinsDiffer DEF On, HasCard, Is
  <2>4. On(id) => PowerPin(id) \in ToSet(hw[id].pins)
    BY <1>1, PowerPinIsHeld
  <2> QED
    BY <1>1, <2>1, <2>2, <2>3, <2>4 DEF IInv, PoweredWhileUsed, On
<1> QED
  BY <1>2, <1>3, <1>4 DEF IInv
-----------------------------------------------------------------------------
\* One card is turned on or off, and nothing else changes in the slots but its
\* own state.
LEMMA PowerStep ==
    ASSUME IInv, NEW id \in Ids, ~Is(id, "unused"),
           DOMAIN hw' = Ids,
           DOMAIN hw'[id] = DOMAIN hw[id], hw'[id].type = hw[id].type, hw'[id].pins = hw[id].pins,
           \A other \in Ids \ {id} : hw'[other] = hw[other],
           used' = used,
           high' = IF On(id)' THEN high \cup {PowerPin(id)} ELSE high \ {PowerPin(id)}
    PROVE  IInv'
<1>1. Slots'
  <2>1. Slot(id)'
    BY DEF IInv, Slots, Slot, Is
  <2>2. \A other \in Ids \ {id} : Slot(other)'
    BY DEF IInv, Slots, Slot, Is
  <2> QED
    BY <2>1, <2>2 DEF Slots
<1>2. \A other \in Ids : hw'[other].pins = hw[other].pins
  OBVIOUS
<1>3. PinsHeldByDevices'
  BY <1>2 DEF IInv, PinsHeldByDevices
<1>4. PoweredWhileUsed'
  <2>1. \A other \in Ids \ {id} : On(other)' = On(other) /\ PowerPin(other)' = PowerPin(other)
    BY DEF On, HasCard, PowerPin, Is
  <2>2. PowerPin(id)' = PowerPin(id)
    BY DEF PowerPin
  <2>3. \A other \in Ids \ {id} : On(other) => PowerPin(other) # PowerPin(id)
    BY PowerPinsDiffer DEF On, HasCard, Is
  <2> QED
    BY <2>1, <2>2, <2>3 DEF IInv, PoweredWhileUsed, On
<1> QED
  BY <1>1, <1>3, <1>4 DEF IInv

\* A device that is off has its power pin low.
LEMMA OffIsLow == ASSUME IInv, NEW id \in Ids, ~Is(id, "unused"), ~On(id) PROVE PowerPin(id) \notin high
<1> SUFFICES ASSUME PowerPin(id) \in high PROVE FALSE
  OBVIOUS
<1>1. PICK other \in Ids : On(other) /\ PowerPin(id) = PowerPin(other)
  BY DEF IInv, PoweredWhileUsed, On
<1> QED
  BY <1>1, PowerPinsDiffer DEF On, HasCard, Is

\* Mounting a card turns it on, unless that or adding its file fails.
LEMMA MountStep ==
    ASSUME IInv, NEW id \in Ids,
           (\E p \in Mounts : SdMount(id, p)) \/ (\E step \in DOMAIN InitSteps : SdMountFails(id, step))
    PROVE  IInv'
<1> USE HwAssumption DEF HwAssumption
<1>1. ~Is(id, "unused") /\ Is(id, "sd") /\ hw[id].card = "Bad" /\ ~On(id)
  BY DEF SdMount, SdMountFails, Is, On, HasCard
<1>2. DOMAIN hw = Ids /\ {"type", "pins", "card", "blocks"} \subseteq DOMAIN hw[id]
  BY <1>1 DEF IInv, Slots, Slot
<1>3. high \ {PowerPin(id)} = high
  BY <1>1, OffIsLow
<1>4. ASSUME NEW p \in Mounts, SdMount(id, p) PROVE IInv'
  <2>1. CASE files[p] = NoFile
    <3>1. On(id)'
      BY <1>1, <1>2, <1>4, <2>1 DEF SdMount, On, HasCard, Is
    <3> QED
      BY <1>1, <1>2, <1>4, <2>1, <3>1, PowerStep DEF SdMount
  <2>2. CASE files[p] # NoFile
    <3>1. ~On(id)'
      BY <1>1, <1>2, <1>4, <2>2 DEF SdMount, On, HasCard, Is
    <3> QED
      BY <1>1, <1>2, <1>3, <1>4, <2>2, <3>1, PowerStep DEF SdMount
  <2> QED
    BY <2>1, <2>2
<1>5. ASSUME NEW step \in DOMAIN InitSteps, SdMountFails(id, step) PROVE IInv'
  <2>1. hw'[id].type = "sd" /\ hw'[id].blocks = 0
    BY <1>1, <1>2, <1>5 DEF SdMountFails, Is
  <2>3. ~On(id)'
    BY <2>1 DEF On, HasCard, Is
  <2>2. high' = high \ {PowerPin(id)}
    BY <1>3, <1>5 DEF SdMountFails, PowerOff
  <2> QED
    BY <1>1, <1>2, <1>5, <2>2, <2>3, PowerStep DEF SdMountFails
<1> QED
  BY <1>4, <1>5

\* Unmounting a card turns it off, whether or not its cache could be written.
LEMMA UnmountStep == ASSUME IInv, NEW id \in Ids, NEW io, SdUnmount(id, io) PROVE IInv'
<1>1. ~Is(id, "unused") /\ Is(id, "sd")
  BY DEF SdUnmount, HasCard, Is
<1>2. DOMAIN hw = Ids /\ {"type", "pins", "card", "blocks"} \subseteq DOMAIN hw[id]
  BY <1>1 DEF IInv, Slots, Slot
<1>3. ~On(id)'
  BY <1>1, <1>2 DEF SdUnmount, On, HasCard, Is
<1> QED
  BY <1>1, <1>2, <1>3, PowerStep DEF SdUnmount, PowerOff
-----------------------------------------------------------------------------
\* Steps that leave all slots to their devices.
LEMMA FieldStep ==
    ASSUME IInv, NEW id, NEW field, field \notin {"type", "pins", "card", "blocks"}, NEW value,
           hw' = [hw EXCEPT ![id] = [hw[id] EXCEPT ![field] = value]], used' = used, high' = high
    PROVE  IInv'
<1>1. DOMAIN hw' = Ids /\ \A other \in Ids : Kept(other)
  BY DEF IInv, Slots, Slot, Kept, Is
<1> QED
  BY <1>1, QuietStep

\* Reading, writing, flushing, mounting and reading a keypad.
LEMMA UseStep ==
    ASSUME IInv,
           \/ \E p \in Mounts : \E addr, len, io : SdRead(p, addr, len, io)
           \/ \E p \in Mounts : \E addr, data, io : SdWrite(p, addr, data, io)
           \/ \E p \in Mounts : \E io : SdFlush(p, io)
           \/ \E id \in Ids, p \in Mounts : KeypadMount(id, p)
           \/ \E id \in Ids : KeypadUnmount(id)
           \/ \E p \in Mounts : KeypadRead(p)
    PROVE  IInv'
<1>1. ASSUME NEW p \in Mounts, NEW addr, NEW len, NEW io, SdRead(p, addr, len, io) PROVE IInv'
  BY <1>1, FieldStep DEF SdRead, Finish
<1>2. ASSUME NEW p \in Mounts, NEW addr, NEW data, NEW io, SdWrite(p, addr, data, io) PROVE IInv'
  BY <1>2, FieldStep DEF SdWrite, Finish
<1>3. ASSUME NEW p \in Mounts, NEW io, SdFlush(p, io) PROVE IInv'
  BY <1>3, FieldStep DEF SdFlush, Finish
<1>4. ASSUME NEW id \in Ids, NEW p \in Mounts, KeypadMount(id, p) PROVE IInv'
  BY <1>4, FieldStep DEF KeypadMount
<1>5. ASSUME NEW id \in Ids, KeypadUnmount(id) PROVE IInv'
  BY <1>5, FieldStep DEF KeypadUnmount
<1>6. ASSUME NEW p \in Mounts, KeypadRead(p) PROVE IInv'
  BY <1>6, FieldStep DEF KeypadRead
<1> QED
  BY <1>1, <1>2, <1>3, <1>4, <1>5, <1>6

\* The scan of the keypads and the answers of the sensors.
LEMMA TickStep == ASSUME TInv, IInv, NEW answers, Tick(answers) PROVE IInv'
<1>1. \A id \in Ids : Kept(id)
  <2> TAKE id \in Ids
  <2>1. hw'[id] = Ticked(id, answers)
    BY DEF Tick
  <2>2. CASE Is(id, "keypad") \/ Is(id, "dht22")
    <3>1. DOMAIN hw'[id] = DOMAIN hw[id]
      BY <2>1, <2>2, TickedType, SlotTypes DEF KeypadSlots, SensorSlots
    <3>2. hw'[id].type = hw[id].type /\ hw'[id].pins = hw[id].pins
      BY <2>1, <2>2, TickedType, SlotTypes DEF KeypadSlots, SensorSlots
    <3> QED BY <2>2, <3>1, <3>2 DEF Kept, Is
  <2>3. CASE ~Is(id, "keypad") /\ ~Is(id, "dht22")
    BY <2>1, <2>3, TickedType DEF Kept
  <2> QED BY <2>2, <2>3
<1>2. DOMAIN hw' = Ids
  BY DEF Tick
<1> QED
  BY <1>1, <1>2, QuietStep DEF Tick

\* Every step preserves the invariant.
LEMMA NextIInv == ASSUME TInv, IInv, [Next]_vars PROVE IInv'
<1> USE HwAssumption DEF HwAssumption
<1>1. ASSUME NEW id \in Ids, NEW r \in Requests,
             RegisterFails(id, r.type, r.pins) \/ \E garbage \in BOOLEAN : Register(id, r.type, r.pins, garbage)
      PROVE  IInv'
  BY <1>1, RegisterStep, RegisterFailsStep
<1>2. ASSUME hw' = hw, used' = used, high' = high PROVE IInv'
  BY <1>2, QuietStep DEF Kept, IInv, Slots
<1>3. CASE UNCHANGED vars
  BY <1>2, <1>3 DEF vars
<1>4. CASE \/ \E p \in Mounts : OpenFile(p) \/ CloseFile(p) \/ DeleteFile(p)
           \/ \E key \in ToSet(Keys) : KeyMoves(key)
           \/ ProcessSpi
  BY <1>2, <1>4 DEF OpenFile, CloseFile, DeleteFile, KeyMoves, ProcessSpi
<1> QED
  BY <1>1, <1>3, <1>4, DeregisterStep, UnmountStep, MountStep, UseStep, TickStep DEF Next

\* Nothing is registered and nothing is on when the kernel starts.
LEMMA InitIInv == Init => IInv
<1> SUFFICES ASSUME Init PROVE IInv
  OBVIOUS
<1>1. ASSUME NEW id \in Ids
      PROVE  hw[id] = Unused /\ ToSet(hw[id].pins) = {} /\ IsInjective(hw[id].pins) /\ ~On(id)
  <2>1. hw[id] = Unused
    BY DEF Init
  <2>2. hw[id].pins = << >> /\ hw[id].type = "unused"
    BY <2>1 DEF Unused
  <2>3. ToSet(hw[id].pins) = {} /\ IsInjective(hw[id].pins)
    BY <2>2 DEF ToSet, IsInjective
  <2>4. ~On(id)
    BY <2>2 DEF On, Is, HasCard
  <2> QED
    BY <2>1, <2>3, <2>4
<1>2. Slots
  <2>1. DOMAIN hw = Ids
    BY DEF Init
  <2>2. ASSUME NEW id \in Ids PROVE Slot(id)
    <3>1. {"type", "pins"} \subseteq DOMAIN hw[id] /\ hw[id].type = "unused" /\ hw[id].pins = << >>
      BY <1>1 DEF Unused
    <3> QED
      BY <3>1 DEF Slot, Is
  <2> QED
    BY <2>1, <2>2 DEF Slots
<1>3. PinsHeldByDevices
  BY <1>1 DEF Init, PinsHeldByDevices
<1>4. PoweredWhileUsed
  BY <1>1 DEF Init, PoweredWhileUsed, On
<1> QED
  BY <1>2, <1>3, <1>4 DEF IInv

\* The invariant holds throughout.
THEOREM Invariance == Spec => []IInv
<1>1. Init => IInv
  BY InitIInv
<1>2. TInv /\ IInv /\ [Next]_vars => IInv'
  BY NextIInv
<1> QED
  BY <1>1, <1>2, TypesKept, PTL DEF Spec

\* For any number of slots and pins and any requests, pins have one owner, and
\* registrations that fail half way give back exactly what they took.
THEOREM PinsHaveOneOwner == Spec => []PinsHeldByDevices
<1>1. IInv => PinsHeldByDevices
  BY DEF IInv
<1> QED
  BY <1>1, Invariance, PTL

\* Whatever fails, exactly the sensors and the cards in use are powered.
THEOREM PowerIsUsed == Spec => []PoweredWhileUsed
<1>1. IInv => PoweredWhileUsed
  BY DEF IInv
<1> QED
  BY <1>1, Invariance, PTL
-----------------------------------------------------------------------------
(* The contents of cards. *)

\* What holds of the card in a mounted reader: what it will hold once the cache
\* is written back is what writers were told.  A reader that did not get the
\* size of its card has no block to write back to: what is lost then is only
\* what is in its dirty cache.
Sound(dev, card, w) ==
    IF dev.blocks > 0
    THEN AsWritten(WithCache(card, dev.cache)) = w /\ Clean(card, dev.cache)
    ELSE (dev.cache.valid /\ dev.cache.dirty) \/ AsWritten(card) = w

CardInv ==
    /\ \A id \in Ids : HasCard(id) => Sound(hw[id], cards[SelectPin(id)], written[SelectPin(id)])
    /\ \A pin \in Pins :
          (\A id \in Ids : HasCard(id) => SelectPin(id) # pin) => AsWritten(cards[pin]) = written[pin]

\* No two readers have the same card.
LEMMA SelectPinsDiffer ==
    ASSUME TInv, IInv, NEW id \in Ids, NEW other \in Ids, id # other, Is(id, "sd"), Is(other, "sd")
    PROVE  SelectPin(id) # SelectPin(other)
<1>1. \A i \in Ids : Is(i, "sd") => SelectPin(i) \in ToSet(hw[i].pins)
  <2> TAKE i \in Ids
  <2> SUFFICES ASSUME Is(i, "sd") PROVE SelectPin(i) \in ToSet(hw[i].pins)
    OBVIOUS
  <2>1. hw[i].pins \in PinLists
    BY SlotTypes DEF Is
  <2> QED BY <2>1 DEF PinLists, ToSet, SelectPin
<1> QED BY <1>1 DEF IInv, PinsHeldByDevices

\* The card of a reader in which it is not mounted holds what was written.
LEMMA NotMountedIsKept ==
    ASSUME TInv, IInv, CardInv, NEW id \in Ids, Is(id, "sd"), ~HasCard(id)
    PROVE  AsWritten(cards[SelectPin(id)]) = written[SelectPin(id)]
<1>1. SelectPin(id) \in Pins
  BY SlotTypes DEF Is
<1>2. \A other \in Ids : HasCard(other) => SelectPin(other) # SelectPin(id)
  BY SelectPinsDiffer DEF HasCard
<1> QED BY <1>1, <1>2 DEF CardInv

\* One reader, its card and the history of that card change.
LEMMA CardStep ==
    ASSUME TInv, IInv, CardInv, NEW id \in Ids, Is(id, "sd"), NEW dev,
           dev = Unused \/ (dev.type = "sd" /\ dev.pins = hw[id].pins),
           NEW card, NEW w,
           IF dev.type = "sd" /\ dev.card = "Ver2" THEN Sound(dev, card, w) ELSE AsWritten(card) = w,
           hw' = [hw EXCEPT ![id] = dev],
           cards' = [cards EXCEPT ![SelectPin(id)] = card],
           written' = [written EXCEPT ![SelectPin(id)] = w]
    PROVE  CardInv'
<1>1. PICK pin0 \in Pins : pin0 = SelectPin(id)
  BY SlotTypes DEF Is
<1>2. /\ hw'[id] = dev /\ \A other \in Ids \ {id} : hw'[other] = hw[other]
      /\ cards'[pin0] = card /\ \A pin \in Pins \ {pin0} : cards'[pin] = cards[pin]
      /\ written'[pin0] = w /\ \A pin \in Pins \ {pin0} : written'[pin] = written[pin]
  BY <1>1 DEF TInv
<1>3. HasCard(id)' => SelectPin(id)' = pin0 /\ Sound(dev, card, w)
  BY <1>1, <1>2 DEF HasCard, SelectPin, Is, Unused
<1>4. ~HasCard(id)' => AsWritten(card) = w
  BY <1>2 DEF HasCard, Is
<1>5. \A other \in Ids \ {id} : /\ HasCard(other)' <=> HasCard(other)
                                /\ SelectPin(other)' = SelectPin(other)
  BY <1>2 DEF HasCard, SelectPin, Is
<1>6. \A other \in Ids \ {id} : HasCard(other) => SelectPin(other) \in Pins \ {pin0}
  <2> TAKE other \in Ids \ {id}
  <2> SUFFICES ASSUME HasCard(other) PROVE SelectPin(other) \in Pins \ {pin0}
    OBVIOUS
  <2>1. Is(other, "sd")
    BY DEF HasCard
  <2>2. SelectPin(other) \in Pins
    BY <2>1, SlotTypes DEF Is
  <2>3. SelectPin(other) # SelectPin(id)
    BY <2>1, SelectPinsDiffer
  <2> QED BY <1>1, <2>2, <2>3
<1>7. ASSUME NEW i \in Ids, HasCard(i)' PROVE Sound(hw'[i], cards'[SelectPin(i)'], written'[SelectPin(i)'])
  <2>1. CASE i = id
    BY <1>2, <1>3, <1>7, <2>1
  <2>2. CASE i # id
    <3>1. HasCard(i) /\ SelectPin(i)' = SelectPin(i) /\ SelectPin(i) \in Pins \ {pin0} /\ hw'[i] = hw[i]
      BY <1>2, <1>5, <1>6, <1>7, <2>2
    <3>2. Sound(hw[i], cards[SelectPin(i)], written[SelectPin(i)])
      BY <3>1 DEF CardInv
    <3>3. cards'[SelectPin(i)] = cards[SelectPin(i)] /\ written'[SelectPin(i)] = written[SelectPin(i)]
      BY <1>2, <3>1
    <3> QED BY <3>1, <3>2, <3>3
  <2> QED BY <2>1, <2>2
<1>8. ASSUME NEW pin \in Pins, \A i \in Ids : HasCard(i)' => SelectPin(i)' # pin
      PROVE  AsWritten(cards'[pin]) = written'[pin]
  <2>1. CASE pin = pin0
    <3>1. ~HasCard(id)'
      BY <1>3, <1>8, <2>1
    <3> QED BY <1>2, <1>4, <2>1, <3>1
  <2>2. CASE pin # pin0
    <3>1. \A i \in Ids : HasCard(i) => SelectPin(i) # pin
      BY <1>1, <1>5, <1>8, <2>2
    <3>2. AsWritten(cards[pin]) = written[pin]
      BY <3>1 DEF CardInv
    <3> QED BY <1>2, <2>2, <3>2
  <2> QED BY <2>1, <2>2
<1> QED BY <1>7, <1>8 DEF CardInv

\* The cards stay, and so do the readers that have one.
LEMMA CardsStay ==
    ASSUME CardInv, cards' = cards, written' = written,
           \A id \in Ids : IF HasCard(id) THEN hw'[id] = hw[id] ELSE ~HasCard(id)'
    PROVE  CardInv'
<1>1. \A id \in Ids : HasCard(id) => HasCard(id)' /\ SelectPin(id)' = SelectPin(id)
  BY DEF HasCard, SelectPin, Is
<1>2. \A id \in Ids : HasCard(id)' => HasCard(id) /\ hw'[id] = hw[id]
  OBVIOUS
<1>3. ASSUME NEW id \in Ids, HasCard(id)' PROVE Sound(hw'[id], cards'[SelectPin(id)'], written'[SelectPin(id)'])
  BY <1>1, <1>2, <1>3 DEF CardInv
<1>4. ASSUME NEW pin \in Pins, \A i \in Ids : HasCard(i)' => SelectPin(i)' # pin
      PROVE  AsWritten(cards'[pin]) = written'[pin]
  <2>1. \A i \in Ids : HasCard(i) => SelectPin(i) # pin
    BY <1>1, <1>4
  <2> QED BY <2>1 DEF CardInv
<1> QED BY <1>3, <1>4 DEF CardInv

\* A transaction with the card in a reader.
LEMMA FinishCard ==
    ASSUME TInv, IInv, CardInv, NEW id \in Ids, HasCard(id), NEW acc \in Accs, Finish(id, acc), NEW w,
           written' = [written EXCEPT ![SelectPin(id)] = w],
           hw[id].blocks > 0 => AsWritten(WithCache(acc.card, acc.cache)) = w /\ Clean(acc.card, acc.cache),
           hw[id].blocks = 0 => (acc.cache.valid /\ acc.cache.dirty) \/ AsWritten(acc.card) = w
    PROVE  CardInv'
<1>1. Is(id, "sd") /\ hw[id] \in SdSlots /\ hw[id].card = "Ver2"
  BY SlotTypes DEF HasCard
<1> DEFINE dev == [hw[id] EXCEPT !.cache = acc.cache]
<1>2. /\ dev.type = "sd" /\ dev.pins = hw[id].pins /\ dev.card = "Ver2" /\ dev.blocks = hw[id].blocks
      /\ dev.cache = acc.cache
  BY <1>1 DEF SdSlots
<1>3. hw' = [hw EXCEPT ![id] = dev] /\ cards' = [cards EXCEPT ![SelectPin(id)] = acc.card]
  BY DEF Finish
<1> HIDE DEF dev
<1>4. hw[id].blocks > 0 \/ hw[id].blocks = 0
  BY <1>1, HwAssumption DEF SdSlots, HwAssumption
<1>5. Sound(dev, acc.card, w)
  BY <1>2, <1>4 DEF Sound
<1> QED BY <1>1, <1>2, <1>3, <1>5, CardStep

\* What the invariant says of a mounted card.
LEMMA MountedIsKept ==
    ASSUME TInv, CardInv, NEW id \in Ids, HasCard(id)
    PROVE  /\ Is(id, "sd") /\ SelectPin(id) \in Pins
           /\ cards[SelectPin(id)] \in [Blocks -> Contents] /\ written[SelectPin(id)] \in [Addrs -> Values]
           /\ hw[id].blocks > 0 => /\ AsWritten(WithCache(cards[SelectPin(id)], hw[id].cache)) = written[SelectPin(id)]
                                   /\ Clean(cards[SelectPin(id)], hw[id].cache)
           /\ hw[id].blocks = 0 => \/ hw[id].cache.valid /\ hw[id].cache.dirty
                                   \/ AsWritten(cards[SelectPin(id)]) = written[SelectPin(id)]
           /\ written = [written EXCEPT ![SelectPin(id)] = written[SelectPin(id)]]
<1>1. Is(id, "sd")
  BY DEF HasCard
<1>2. SelectPin(id) \in Pins
  BY <1>1, SlotTypes DEF Is
<1>3. Sound(hw[id], cards[SelectPin(id)], written[SelectPin(id)])
  BY DEF CardInv
<1> QED BY <1>1, <1>2, <1>3 DEF Sound, TInv

\* Reading and flushing write back no more than what is in the cache already.
LEMMA SdReadCards ==
    ASSUME TInv, IInv, CardInv, NEW p \in Mounts, NEW addr \in Touched, NEW len \in Nat,
           addr + len - 1 \in Touched, NEW io \in Nat, SdRead(p, addr, len, io)
    PROVE  CardInv'
<1>1. PICK id \in Ids : id = files[p].id /\ HasCard(id)
  BY ServedType DEF SdRead, ServesCard
<1>2. Is(id, "sd")
  BY <1>1 DEF HasCard
<1>3. PICK s \in Accs : /\ s = Start(id, io) /\ s.blocks = hw[id].blocks
                        /\ s.cache = hw[id].cache /\ s.card = cards[SelectPin(id)]
  BY <1>2, StartFacts
<1>4. PICK acc : acc = ReadBytes(s, addr, len)
  OBVIOUS
<1>5. /\ acc \in Accs
      /\ WithCache(acc.card, acc.cache) = WithCache(s.card, s.cache)
      /\ Clean(s.card, s.cache) => Clean(acc.card, acc.cache)
      /\ s.blocks = 0 => /\ acc.card = s.card
                         /\ s.cache.valid /\ s.cache.dirty <=> acc.cache.valid /\ acc.cache.dirty
  BY <1>4, Requested, ReadBytesFacts
<1>6. Finish(id, acc) /\ written' = written
  BY <1>1, <1>3, <1>4 DEF SdRead
<1>7. /\ hw[id].blocks > 0 => AsWritten(WithCache(acc.card, acc.cache)) = written[SelectPin(id)] /\ Clean(acc.card, acc.cache)
      /\ hw[id].blocks = 0 => (acc.cache.valid /\ acc.cache.dirty) \/ AsWritten(acc.card) = written[SelectPin(id)]
      /\ written' = [written EXCEPT ![SelectPin(id)] = written[SelectPin(id)]]
  BY <1>1, <1>3, <1>5, <1>6, MountedIsKept
<1> QED BY <1>1, <1>5, <1>6, <1>7, FinishCard

LEMMA SdFlushCards ==
    ASSUME TInv, IInv, CardInv, NEW p \in Mounts, NEW io \in Nat, SdFlush(p, io)
    PROVE  CardInv'
<1>1. PICK id \in Ids : id = files[p].id /\ HasCard(id)
  BY ServedType DEF SdFlush
<1>2. Is(id, "sd")
  BY <1>1 DEF HasCard
<1>3. PICK acc : acc = Flushed(id, io)
  OBVIOUS
<1>4. /\ acc \in Accs
      /\ WithCache(acc.card, acc.cache) = WithCache(cards[SelectPin(id)], hw[id].cache)
      /\ Clean(cards[SelectPin(id)], hw[id].cache) => Clean(acc.card, acc.cache)
      /\ hw[id].blocks = 0 => acc.card = cards[SelectPin(id)] /\ acc.cache = hw[id].cache
  BY <1>2, <1>3, FlushedFacts
<1>5. Finish(id, acc) /\ written' = written
  BY <1>1, <1>3 DEF SdFlush
<1>6. /\ hw[id].blocks > 0 => AsWritten(WithCache(acc.card, acc.cache)) = written[SelectPin(id)] /\ Clean(acc.card, acc.cache)
      /\ hw[id].blocks = 0 => (acc.cache.valid /\ acc.cache.dirty) \/ AsWritten(acc.card) = written[SelectPin(id)]
      /\ written' = [written EXCEPT ![SelectPin(id)] = written[SelectPin(id)]]
  BY <1>1, <1>4, <1>5, MountedIsKept
<1> QED BY <1>1, <1>4, <1>5, <1>6, FinishCard

\* A write that stops half way has put in the cache exactly the bytes it reports.
LEMMA SdWriteCards ==
    ASSUME TInv, IInv, CardInv, NEW p \in Mounts, NEW addr \in Touched, NEW data \in SeqOf(Values, MaxLen),
           addr + Len(data) - 1 \in Touched, NEW io \in Nat, SdWrite(p, addr, data, io)
    PROVE  CardInv'
<1>1. PICK id \in Ids : id = files[p].id /\ HasCard(id)
  BY ServedType DEF SdWrite, ServesCard
<1>2. Is(id, "sd")
  BY <1>1 DEF HasCard
<1>3. PICK s \in Accs : /\ s = Start(id, io) /\ s.n = 0 /\ s.blocks = hw[id].blocks
                        /\ s.cache = hw[id].cache /\ s.card = cards[SelectPin(id)]
  BY <1>2, StartFacts
<1>4. PICK acc : acc = WriteBytes(s, addr, data)
  OBVIOUS
<1>5. data \in Seq(Values) /\ Len(data) \in Nat /\ addr \in Int /\ \A k \in 1 .. Len(data) : addr + k - 1 \in Addrs
  BY DataTypes, Requested
<1>6. /\ acc \in Accs
      /\ Clean(s.card, s.cache) =>
           /\ Clean(acc.card, acc.cache)
           /\ AsWritten(WithCache(acc.card, acc.cache)) =
                Overlaid(AsWritten(WithCache(s.card, s.cache)), addr, data, acc.n)
      /\ s.blocks = 0 =>
           /\ acc.card = s.card
           /\ s.cache.valid /\ s.cache.dirty => acc.cache.valid /\ acc.cache.dirty
           /\ acc.n > 0 => acc.cache.valid /\ acc.cache.dirty
  BY <1>3, <1>4, <1>5, WriteBytesFacts
<1> DEFINE w == Overlaid(written[SelectPin(id)], addr, data, acc.n)
<1>7. Finish(id, acc) /\ written' = [written EXCEPT ![SelectPin(id)] = w]
  BY <1>1, <1>3, <1>4, WriteOverlays
<1>8. acc.n = 0 => w = written[SelectPin(id)]
  <2>1. written[SelectPin(id)] \in [Addrs -> Values]
    BY <1>1, MountedIsKept
  <2> QED BY <1>5, <2>1 DEF Overlaid
<1>9. acc.n = 0 \/ acc.n > 0
  BY <1>6 DEF Accs
<1> HIDE DEF w
<1>10. hw[id].blocks > 0 => AsWritten(WithCache(acc.card, acc.cache)) = w /\ Clean(acc.card, acc.cache)
  BY <1>1, <1>3, <1>6, MountedIsKept DEF w
<1>11. hw[id].blocks = 0 => (acc.cache.valid /\ acc.cache.dirty) \/ AsWritten(acc.card) = w
  BY <1>1, <1>3, <1>6, <1>8, <1>9, MountedIsKept
<1> QED BY <1>1, <1>6, <1>7, <1>10, <1>11, FinishCard

\* A mounted card begins without anything in the cache.
LEMMA SdMountCards ==
    ASSUME TInv, IInv, CardInv, NEW id \in Ids,
           (\E p \in Mounts : SdMount(id, p)) \/ (\E step \in DOMAIN InitSteps : SdMountFails(id, step))
    PROVE  CardInv'
<1>1. Is(id, "sd") /\ ~HasCard(id) /\ hw[id] \in SdSlots /\ hw[id].cache \in Caches /\ hw[id].card = "Bad"
  BY SlotTypes DEF SdMount, SdMountFails, SdSlots, HasCard
<1>2. SelectPin(id) \in Pins /\ NumBlocks > 0
  BY <1>1, SlotTypes, HwAssumption DEF Is, HwAssumption
<1>3. PICK card, w : card = cards[SelectPin(id)] /\ w = written[SelectPin(id)]
  OBVIOUS
<1>4. AsWritten(card) = w
  BY <1>1, <1>3, NotMountedIsKept
<1>5. cards = [cards EXCEPT ![SelectPin(id)] = card] /\ written = [written EXCEPT ![SelectPin(id)] = w]
  BY <1>2, <1>3 DEF TInv
<1>6. ASSUME NEW p \in Mounts, SdMount(id, p) PROVE CardInv'
  <2> DEFINE c == [hw[id].cache EXCEPT !.valid = FALSE]
             mounted == [hw[id] EXCEPT !.card = "Ver2", !.blocks = NumBlocks, !.cache = c, !.mount = p]
             failed == [hw[id] EXCEPT !.blocks = NumBlocks, !.cache = c]
  <2>1. c.valid = FALSE
    BY <1>1 DEF Caches
  <2>2. CASE files[p] = NoFile
    <3>1. hw' = [hw EXCEPT ![id] = mounted]
      BY <1>1, <1>6, <2>2 DEF SdMount, SdSlots
    <3> HIDE DEF c
    <3>2. mounted.type = "sd" /\ mounted.pins = hw[id].pins /\ mounted.blocks = NumBlocks /\ mounted.cache = c
      BY <1>1 DEF SdSlots, Is
    <3> HIDE DEF mounted
    <3>3. Sound(mounted, card, w)
      BY <1>2, <1>4, <2>1, <3>2 DEF Sound, WithCache, Clean
    <3>4. cards' = cards /\ written' = written
      BY <1>6 DEF SdMount
    <3> QED BY <1>1, <1>4, <1>5, <3>1, <3>2, <3>3, <3>4, CardStep
  <2>3. CASE files[p] # NoFile
    <3>1. hw' = [hw EXCEPT ![id] = failed] /\ cards' = cards /\ written' = written
      BY <1>1, <1>6, <2>3 DEF SdMount, SdSlots
    <3> HIDE DEF c
    <3>2. failed.type = "sd" /\ failed.pins = hw[id].pins /\ failed.card = "Bad"
      BY <1>1 DEF SdSlots, Is
    <3> HIDE DEF failed
    <3> QED BY <1>1, <1>4, <1>5, <3>1, <3>2, CardStep
  <2> QED BY <2>2, <2>3
<1>7. ASSUME NEW step \in DOMAIN InitSteps, SdMountFails(id, step) PROVE CardInv'
  <2> DEFINE failed == [hw[id] EXCEPT !.card = TypeAfter(step), !.blocks = 0]
  <2>1. hw' = [hw EXCEPT ![id] = failed] /\ cards' = cards /\ written' = written
    BY <1>1, <1>7 DEF SdMountFails, SdSlots
  <2>2. failed.type = "sd" /\ failed.pins = hw[id].pins /\ failed.blocks = 0
    BY <1>1 DEF SdSlots, Is
  <2> HIDE DEF failed
  <2>3. Sound(failed, card, w)
    BY <1>4, <2>2 DEF Sound
  <2> QED BY <1>1, <1>4, <1>5, <2>1, <2>2, <2>3, CardStep
<1> QED BY <1>6, <1>7

\* Unmounting writes the dirty block, or its bytes are given up and the history
\* with them.
LEMMA UnmountedCards ==
    ASSUME TInv, IInv, CardInv, NEW id \in Ids, HasCard(id), NEW io \in Nat, Unmounted(id, io),
           NEW dev, dev = Unused \/ (dev.type = "sd" /\ dev.pins = hw[id].pins /\ dev.card = "Bad"),
           hw' = [hw EXCEPT ![id] = dev]
    PROVE  CardInv'
<1>1. Is(id, "sd")
  BY DEF HasCard
<1>2. PICK acc : acc = Flushed(id, io)
  OBVIOUS
<1>3. /\ acc \in Accs
      /\ acc.ok => acc.card = WithCache(cards[SelectPin(id)], hw[id].cache)
      /\ hw[id].blocks = 0 => /\ acc.card = cards[SelectPin(id)]
                              /\ acc.ok => ~(hw[id].cache.valid /\ hw[id].cache.dirty)
  BY <1>1, <1>2, FlushedFacts
<1>4. hw[id].blocks > 0 \/ hw[id].blocks = 0
  BY <1>1, SlotTypes, HwAssumption DEF SdSlots, HwAssumption
<1> DEFINE w == IF acc.ok THEN written[SelectPin(id)] ELSE AsWritten(acc.card)
<1>5. AsWritten(acc.card) = w
  BY <1>3, <1>4, MountedIsKept
<1>6. written' = [written EXCEPT ![SelectPin(id)] = w] /\ cards' = [cards EXCEPT ![SelectPin(id)] = acc.card]
  BY <1>2, MountedIsKept DEF Unmounted
<1> HIDE DEF w
<1>7. ~(dev.type = "sd" /\ dev.card = "Ver2")
  BY DEF Unused
<1> QED BY <1>1, <1>5, <1>6, <1>7, CardStep

LEMMA SdUnmountCards ==
    ASSUME TInv, IInv, CardInv, NEW id \in Ids, NEW io \in Nat, SdUnmount(id, io)
    PROVE  CardInv'
<1>1. HasCard(id) /\ Is(id, "sd") /\ hw[id] \in SdSlots
  BY SlotTypes DEF SdUnmount, HasCard
<1> DEFINE dev == [hw[id] EXCEPT !.card = "Bad", !.mount = NoPath, !.cache = Flushed(id, io).cache]
<1>2. dev.type = "sd" /\ dev.pins = hw[id].pins /\ dev.card = "Bad"
  BY <1>1 DEF SdSlots
<1>3. hw' = [hw EXCEPT ![id] = dev]
  BY <1>1 DEF SdUnmount, SdSlots
<1> HIDE DEF dev
<1> QED BY <1>1, <1>2, <1>3, UnmountedCards DEF SdUnmount

LEMMA DeregisterCards ==
    ASSUME TInv, IInv, CardInv, NEW id \in Ids, NEW io \in Nat, Deregister(id, io)
    PROVE  CardInv'
<1>1. hw' = [hw EXCEPT ![id] = Unused]
  BY DEF Deregister
<1>2. CASE HasCard(id)
  BY <1>1, <1>2, UnmountedCards DEF Deregister
<1>3. CASE ~HasCard(id)
  <2>1. cards' = cards /\ written' = written
    BY <1>3 DEF Deregister
  <2>2. \A other \in Ids : IF HasCard(other) THEN hw'[other] = hw[other] ELSE ~HasCard(other)'
    BY <1>1, <1>3 DEF TInv, HasCard, Is, Unused
  <2> QED BY <2>1, <2>2, CardsStay
<1> QED BY <1>2, <1>3

\* A device that is registered has no card mounted, and a keypad or a sensor
\* never has.
LEMMA OtherCards ==
    ASSUME TInv, CardInv,
           \/ \E id \in Ids, type \in Types, pins \in Seq(Int) :
                 \/ RegisterFails(id, type, pins)
                 \/ \E garbage \in BOOLEAN : Register(id, type, pins, garbage)
           \/ \E id \in Ids, p \in Mounts : KeypadMount(id, p)
           \/ \E id \in Ids : KeypadUnmount(id)
           \/ \E p \in Mounts : KeypadRead(p)
           \/ \E answers \in SUBSET Ids : Tick(answers)
    PROVE  CardInv'
<1>1. ASSUME NEW id \in Ids, ~HasCard(id), NEW dev, hw' = [hw EXCEPT ![id] = dev],
             ~(dev.type = "sd" /\ dev.card = "Ver2"), cards' = cards, written' = written
      PROVE  CardInv'
  <2>1. \A other \in Ids : IF HasCard(other) THEN hw'[other] = hw[other] ELSE ~HasCard(other)'
    BY <1>1 DEF TInv, HasCard, Is
  <2> QED BY <1>1, <2>1, CardsStay
<1>2. ASSUME NEW id \in Ids, NEW type, NEW pins, RegisterFails(id, type, pins) PROVE CardInv'
  <2>1. hw' = hw /\ cards' = cards /\ written' = written
    BY <1>2 DEF RegisterFails
  <2>2. \A other \in Ids : IF HasCard(other) THEN hw'[other] = hw[other] ELSE ~HasCard(other)'
    BY <2>1 DEF HasCard, Is
  <2> QED BY <2>1, <2>2, CardsStay
<1>3. ASSUME NEW id \in Ids, NEW type \in Types, NEW pins, NEW garbage, Register(id, type, pins, garbage)
      PROVE  CardInv'
  <2>1. ~HasCard(id)
    BY <1>3 DEF Register, HasCard, Is
  <2> DEFINE dev == Registered(type, pins, garbage)
  <2>2. ~(dev.type = "sd" /\ dev.card = "Ver2")
    BY DEF Registered, Types
  <2>3. hw' = [hw EXCEPT ![id] = dev] /\ cards' = cards /\ written' = written
    BY <1>3 DEF Register
  <2> HIDE DEF dev
  <2> QED BY <1>1, <2>1, <2>2, <2>3
<1>4. ASSUME NEW id \in Ids, Is(id, "keypad"), NEW field, field # "type", NEW value,
             hw' = [hw EXCEPT ![id] = [hw[id] EXCEPT ![field] = value]], cards' = cards, written' = written
      PROVE  CardInv'
  <2>1. ~HasCard(id) /\ hw[id].type = "keypad"
    BY <1>4 DEF HasCard, Is
  <2>2. hw[id] \in KeypadSlots
    BY <1>4, SlotTypes
  <2> DEFINE dev == [hw[id] EXCEPT ![field] = value]
  <2>3. dev.type = "keypad"
    BY <1>4, <2>1, <2>2 DEF KeypadSlots
  <2> HIDE DEF dev
  <2> QED BY <1>1, <1>4, <2>1, <2>3 DEF dev
<1>5. ASSUME NEW id \in Ids, NEW p \in Mounts, KeypadMount(id, p) PROVE CardInv'
  BY <1>4, <1>5 DEF KeypadMount
<1>6. ASSUME NEW id \in Ids, KeypadUnmount(id) PROVE CardInv'
  BY <1>4, <1>6 DEF KeypadUnmount, HasKeypad
<1>7. ASSUME NEW p \in Mounts, KeypadRead(p) PROVE CardInv'
  <2>1. PICK id \in Ids : id = files[p].id /\ Is(id, "keypad")
    BY <1>7, FilesTypes DEF KeypadRead, HasKeypad
  <2> QED BY <1>4, <1>7, <2>1 DEF KeypadRead
<1>8. ASSUME NEW answers, Tick(answers) PROVE CardInv'
  <2>1. ASSUME NEW id \in Ids PROVE IF HasCard(id) THEN hw'[id] = hw[id] ELSE ~HasCard(id)'
    <3>1. hw'[id] = Ticked(id, answers)
      BY <1>8 DEF Tick
    <3>2. CASE Is(id, "keypad") \/ Is(id, "dht22")
      <4>1. hw'[id].type = hw[id].type
        BY <3>1, <3>2, TickedType DEF KeypadSlots, SensorSlots, Is
      <4> QED BY <3>2, <4>1 DEF HasCard, Is
    <3>3. CASE ~Is(id, "keypad") /\ ~Is(id, "dht22")
      <4>1. hw'[id] = hw[id]
        BY <3>1, <3>3, TickedType
      <4> QED BY <4>1 DEF HasCard, Is
    <3> QED BY <3>2, <3>3
  <2>2. cards' = cards /\ written' = written
    BY <1>8 DEF Tick
  <2> QED BY <2>1, <2>2, CardsStay
<1> QED BY <1>2, <1>3, <1>5, <1>6, <1>7, <1>8

LEMMA NextCards == ASSUME TInv, IInv, CardInv, [Next]_vars PROVE CardInv'
<1>0. \A io \in 0 .. MaxIo : io \in Nat
  BY HwAssumption DEF HwAssumption
<1>1. ASSUME NEW id \in Ids, NEW r \in Requests,
             RegisterFails(id, r.type, r.pins) \/ \E garbage \in BOOLEAN : Register(id, r.type, r.pins, garbage)
      PROVE  CardInv'
  <2>1. r.type \in Types /\ r.pins \in Seq(Int)
    BY HwAssumption DEF HwAssumption
  <2>2. PICK type \in Types, pins \in Seq(Int) : type = r.type /\ pins = r.pins
    BY <2>1
  <2> QED BY <1>1, <2>2, OtherCards
<1>2. ASSUME NEW p \in Mounts, NEW io \in 0 .. MaxIo,
             \/ SdFlush(p, io)
             \/ \E addr \in Touched, len \in 1 .. MaxLen : addr + len - 1 \in Touched /\ SdRead(p, addr, len, io)
             \/ \E addr \in Touched, data \in SeqOf(Values, MaxLen) \ {<< >>} :
                   addr + Len(data) - 1 \in Touched /\ SdWrite(p, addr, data, io)
      PROVE  CardInv'
  <2>1. io \in Nat /\ \A len \in 1 .. MaxLen : len \in Nat
    BY HwAssumption DEF HwAssumption
  <2> QED BY <1>2, <2>1, SdFlushCards, SdReadCards, SdWriteCards
<1>3. ASSUME hw' = hw, cards' = cards, written' = written PROVE CardInv'
  BY <1>3, CardsStay DEF HasCard, Is
<1>4. CASE UNCHANGED vars
  BY <1>3, <1>4 DEF vars
<1>5. CASE \/ \E p \in Mounts : OpenFile(p) \/ CloseFile(p) \/ DeleteFile(p)
           \/ \E key \in ToSet(Keys) : KeyMoves(key)
           \/ ProcessSpi
  BY <1>3, <1>5 DEF OpenFile, CloseFile, DeleteFile, KeyMoves, ProcessSpi
<1>6. ASSUME NEW id \in Ids, NEW io \in 0 .. MaxIo, Deregister(id, io) \/ SdUnmount(id, io) PROVE CardInv'
  BY <1>0, <1>6, DeregisterCards, SdUnmountCards
<1>7. ASSUME NEW id \in Ids,
             (\E p \in Mounts : SdMount(id, p)) \/ (\E step \in DOMAIN InitSteps : SdMountFails(id, step))
      PROVE  CardInv'
  BY <1>7, SdMountCards
<1>8. CASE \/ \E id \in Ids, p \in Mounts : KeypadMount(id, p)
           \/ \E id \in Ids : KeypadUnmount(id)
           \/ \E p \in Mounts : KeypadRead(p)
           \/ \E answers \in SUBSET Ids : Tick(answers)
  BY <1>8, OtherCards
<1> QED BY <1>1, <1>2, <1>4, <1>5, <1>6, <1>7, <1>8 DEF Next

LEMMA InitCards == Init => CardInv
<1> SUFFICES ASSUME Init PROVE CardInv
  OBVIOUS
<1>1. \A id \in Ids : ~HasCard(id)
  BY DEF Init, HasCard, Is, Unused
<1>2. \A pin \in Pins : AsWritten(cards[pin]) = written[pin]
  BY DEF Init
<1> QED BY <1>1, <1>2 DEF CardInv

\* For cards of any size, any requests and any failures: no byte that a writer
\* was told is written is lost while the card is mounted, however much of a read,
\* a write or a flush fails and whichever blocks take each other's place in the
\* cache; and an unmounted card has all of them.
THEOREM WritesAreKept == Spec => []WrittenIsKept
<1>1. TInv /\ IInv /\ CardInv /\ [Next]_vars => CardInv'
  BY NextCards
<1>2. Spec => []CardInv
  BY <1>1, InitCards, TypesKept, Invariance, PTL DEF Spec
<1>3. CardInv => WrittenIsKept
  <2> SUFFICES ASSUME CardInv PROVE WrittenIsKept
    OBVIOUS
  <2>1. ASSUME NEW id \in Ids, HasCard(id), hw[id].blocks > 0
        PROVE  /\ AsWritten(WithCache(cards[SelectPin(id)], hw[id].cache)) = written[SelectPin(id)]
               /\ (hw[id].cache.valid /\ ~hw[id].cache.dirty) => hw[id].cache.bytes = cards[SelectPin(id)][hw[id].cache.block]
    <3>1. Sound(hw[id], cards[SelectPin(id)], written[SelectPin(id)])
      BY <2>1 DEF CardInv
    <3> QED BY <2>1, <3>1 DEF Sound, Clean
  <2> QED BY <2>1 DEF CardInv, WrittenIsKept
<1> QED BY <1>2, <1>3, PTL
=============================================================================

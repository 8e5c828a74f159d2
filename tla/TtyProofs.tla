----------------------------- MODULE TtyProofs -----------------------------
(***************************************************************************)
(* The terminal's ring is a queue, for every size of it, and the count of  *)
(* lines never falls behind.                                               *)
(***************************************************************************)
EXTENDS Tty, FiniteSetTheorems, SequenceTheorems, TLAPS

\* The number of bytes in a ring and where they are, without remainders.
Count(r) == IF r.head <= r.tail THEN r.tail - r.head ELSE r.tail - r.head + Size
At(r, i) == IF r.head + i - 1 < Size THEN r.head + i - 1 ELSE r.head + i - 1 - Size

\* An index is its own remainder.
LEMMA RemainderInside == ASSUME NEW x \in 0 .. (Size - 1) PROVE x % Size = x
BY CircBufAssumption DEF CircBufAssumption

\* The sum of two indices that is beyond the end wraps around once.
LEMMA RemainderAbove == ASSUME NEW x \in Size .. (2 * Size - 1) PROVE x % Size = x - Size
BY CircBufAssumption DEF CircBufAssumption

\* So does a difference below zero.
LEMMA RemainderBelow == ASSUME NEW x \in (-Size) .. (-1) PROVE x % Size = x + Size
BY CircBufAssumption DEF CircBufAssumption

\* What a ring holds, in terms of these.
LEMMA ContentIs ==
    ASSUME NEW r \in Rings
    PROVE  /\ Count(r) \in 0 .. (Size - 1)
           /\ \A i \in 1 .. Count(r) : At(r, i) \in Indices
           /\ Content(r) = [i \in 1 .. Count(r) |-> r.buffer[At(r, i)]]
<1> USE CircBufAssumption DEF CircBufAssumption
<1>1. r.head \in 0 .. (Size - 1) /\ r.tail \in 0 .. (Size - 1)
  BY DEF Rings, Indices
<1>2. (r.tail - r.head) % Size = Count(r)
  <2>1. CASE r.head <= r.tail
    <3>1. r.tail - r.head \in 0 .. (Size - 1)
      BY <1>1, <2>1
    <3> QED
      BY <2>1, <3>1, RemainderInside DEF Count
  <2>2. CASE ~(r.head <= r.tail)
    <3>1. r.tail - r.head \in (-Size) .. (-1)
      BY <1>1, <2>2
    <3> QED
      BY <2>2, <3>1, RemainderBelow DEF Count
  <2> QED
    BY <2>1, <2>2
<1>3. Count(r) \in 0 .. (Size - 1)
  BY <1>1 DEF Count
<1>4. ASSUME NEW i \in 1 .. Count(r) PROVE At(r, i) \in Indices /\ (r.head + i - 1) % Size = At(r, i)
  <2>1. PICK x \in 0 .. (2 * Size - 1) : x = r.head + i - 1
    BY <1>1, <1>3
  <2>2. CASE x < Size
    <3>1. x \in 0 .. (Size - 1)
      BY <2>2
    <3>2. x % Size = x
      BY <3>1, RemainderInside
    <3>3. At(r, i) = x
      BY <2>1, <2>2 DEF At
    <3> QED
      BY <2>1, <3>1, <3>2, <3>3 DEF Indices
  <2>3. CASE ~(x < Size)
    <3>1. x \in Size .. (2 * Size - 1)
      BY <2>3
    <3>2. x % Size = x - Size
      BY <3>1, RemainderAbove
    <3>3. At(r, i) = x - Size
      <4>1. ~(r.head + i - 1 < Size)
        BY <2>1, <2>3
      <4>2. At(r, i) = r.head + i - 1 - Size
        BY <4>1 DEF At
      <4> QED
        BY <1>1, <1>3, <2>1, <4>2
    <3>4. x - Size \in Indices
      BY <3>1 DEF Indices
    <3> QED
      BY <2>1, <3>2, <3>3, <3>4
  <2> QED
    BY <2>2, <2>3
<1>5. Content(r) = [i \in 1 .. Count(r) |-> r.buffer[At(r, i)]]
  BY <1>2, <1>4 DEF Content
<1> QED
  BY <1>3, <1>4, <1>5

\* It is a sequence of bytes.
LEMMA ContentType ==
    ASSUME NEW r \in Rings PROVE Content(r) \in Seq(Bytes) /\ Len(Content(r)) = Count(r)
<1>1. \A i \in 1 .. Count(r) : r.buffer[At(r, i)] \in Bytes
  BY ContentIs DEF Rings
<1> QED
  BY <1>1, ContentIs

\* A byte that is pushed is the last of the queue.
LEMMA PushAppends ==
    ASSUME NEW r \in Rings, NEW v \in Bytes, ~IsFull(r)
    PROVE  /\ Push(r, v) \in Rings
           /\ Len(Content(r)) < Size - 1
           /\ Content(Push(r, v)) = Append(Content(r), v)
<1> USE CircBufAssumption DEF CircBufAssumption
<1> DEFINE p == Push(r, v)
<1>1. p \in Rings
  <2>1. r.tail \in Indices /\ IndexNext(r.tail) \in Indices
    BY DEF Rings, Indices, IndexNext
  <2>2. [r.buffer EXCEPT ![r.tail] = v] \in [Indices -> Bytes]
    BY <2>1 DEF Rings
  <2> QED
    BY <2>1, <2>2 DEF Push, Rings
<1>2. /\ r.head \in Indices /\ r.tail \in Indices /\ p.head = r.head /\ p.tail = IndexNext(r.tail)
      /\ p.buffer = [r.buffer EXCEPT ![r.tail] = v] /\ DOMAIN r.buffer = Indices
  BY DEF Push, Rings
<1> HIDE DEF p
<1>3. Count(r) < Size - 1 /\ Count(p) = Count(r) + 1
  <2>1. IndexNext(r.tail) # r.head
    BY DEF IsFull
  <2>2. CASE r.tail = Size - 1
    BY <1>2, <2>1, <2>2 DEF IndexNext, Count, Indices
  <2>3. CASE r.tail # Size - 1
    BY <1>2, <2>1, <2>3 DEF IndexNext, Count, Indices
  <2> QED
    BY <2>2, <2>3
<1>4. \A i \in 1 .. Count(r) : At(p, i) = At(r, i) /\ At(r, i) # r.tail /\ At(r, i) \in Indices
  <2> TAKE i \in 1 .. Count(r)
  <2>1. At(p, i) = At(r, i) /\ At(r, i) \in Indices
    BY <1>2, ContentIs DEF At
  <2>2. At(r, i) # r.tail
    BY <1>2, <1>3 DEF At, Count, Indices
  <2> QED
    BY <2>1, <2>2
<1>5. At(p, Count(r) + 1) = r.tail
  BY <1>2, <1>3 DEF At, Count, Indices
<1>6. \A i \in 1 .. Count(p) : p.buffer[At(p, i)] = IF i <= Count(r) THEN r.buffer[At(r, i)] ELSE v
  <2> TAKE i \in 1 .. Count(p)
  <2>1. Count(r) \in Nat
    BY ContentIs
  <2>2. CASE i <= Count(r)
    BY <1>2, <1>4, <2>1, <2>2
  <2>3. CASE ~(i <= Count(r))
    <3>1. i = Count(r) + 1
      BY <1>3, <2>1, <2>3
    <3> QED
      BY <1>2, <1>5, <2>3, <3>1
  <2> QED
    BY <2>2, <2>3
<1>7. Content(p) = Append(Content(r), v)
  <2>1. /\ Content(p) \in Seq(Bytes) /\ Len(Content(p)) = Count(r) + 1
        /\ Content(r) \in Seq(Bytes) /\ Len(Content(r)) = Count(r)
    BY <1>1, <1>3, ContentType
  <2>2. \A i \in 1 .. (Count(r) + 1) : Content(p)[i] = IF i <= Count(r) THEN Content(r)[i] ELSE v
    BY <1>1, <1>3, <1>6, ContentIs
  <2>3. /\ Append(Content(r), v) \in Seq(Bytes) /\ Len(Append(Content(r), v)) = Count(r) + 1
        /\ \A i \in 1 .. Count(r) : Append(Content(r), v)[i] = Content(r)[i]
        /\ Append(Content(r), v)[Count(r) + 1] = v
    BY <2>1, AppendProperties
  <2>4. \A i \in 1 .. (Count(r) + 1) : Content(p)[i] = Append(Content(r), v)[i]
    BY <2>2, <2>3, ContentIs
  <2> QED
    BY <2>1, <2>3, <2>4, SeqEqual
<1> QED
  BY <1>1, <1>3, <1>7, ContentType DEF p

\* The byte that is popped is the first of the queue.
LEMMA PopTakesFirst ==
    ASSUME NEW r \in Rings, ~IsEmpty(r)
    PROVE  /\ Pop(r) \in Rings
           /\ Content(r) # << >> /\ HeadPeek(r) = Content(r)[1]
           /\ Content(Pop(r)) = Tail(Content(r))
<1> USE CircBufAssumption DEF CircBufAssumption
<1> DEFINE p == Pop(r)
<1>1. p \in Rings
  BY DEF Pop, Rings, Indices, IndexNext
<1>2. /\ r.head \in Indices /\ r.tail \in Indices /\ p.head = IndexNext(r.head) /\ p.tail = r.tail
      /\ p.buffer = r.buffer
  BY DEF Pop, Rings
<1> HIDE DEF p
<1>3. Count(r) >= 1 /\ Count(p) = Count(r) - 1 /\ Count(r) \in Nat
  BY <1>2 DEF IsEmpty, IndexNext, Count, Indices
<1>4. \A i \in 1 .. Count(p) : At(p, i) = At(r, i + 1)
  BY <1>2, <1>3 DEF At, Count, Indices, IndexNext
<1>5. At(r, 1) = r.head
  BY <1>2 DEF At, Indices
<1>6. /\ Content(p) \in Seq(Bytes) /\ Len(Content(p)) = Count(r) - 1
      /\ \A i \in 1 .. (Count(r) - 1) : Content(p)[i] = r.buffer[At(r, i + 1)]
  BY <1>1, <1>2, <1>3, <1>4, ContentIs, ContentType
<1>7. Content(r) \in Seq(Bytes) /\ Len(Content(r)) = Count(r) /\ Content(r) # << >>
  BY <1>3, ContentType
<1>8. Content(p) = Tail(Content(r))
  <2>1. /\ Tail(Content(r)) \in Seq(Bytes) /\ Len(Tail(Content(r))) = Count(r) - 1
        /\ \A i \in 1 .. (Count(r) - 1) : Tail(Content(r))[i] = Content(r)[i + 1]
    BY <1>7, HeadTailProperties
  <2>2. \A i \in 1 .. (Count(r) - 1) : Content(r)[i + 1] = r.buffer[At(r, i + 1)]
    BY <1>3, ContentIs
  <2> QED
    BY <1>6, <2>1, <2>2, SeqEqual
<1>9. Content(r) # << >> /\ Content(r)[1] = r.buffer[r.head]
  BY <1>3, <1>5, ContentIs, ContentType
<1> QED
  BY <1>1, <1>8, <1>9 DEF p, HeadPeek

\* The byte that is taken back is the last of the queue.
LEMMA UnpushTakesLast ==
    ASSUME NEW r \in Rings, ~IsEmpty(r)
    PROVE  /\ Unpush(r) \in Rings
           /\ Content(r) # << >>
           /\ Content(Unpush(r)) = SubSeq(Content(r), 1, Len(Content(r)) - 1)
<1> USE CircBufAssumption DEF CircBufAssumption
<1> DEFINE p == Unpush(r)
<1>1. p \in Rings
  BY DEF Unpush, Rings, Indices, IndexPrev
<1>2. /\ r.head \in Indices /\ r.tail \in Indices /\ p.head = r.head /\ p.tail = IndexPrev(r.tail)
      /\ p.buffer = r.buffer
  BY DEF Unpush, Rings
<1> HIDE DEF p
<1>3. Count(r) >= 1 /\ Count(p) = Count(r) - 1 /\ Count(r) \in Nat
  BY <1>2 DEF IsEmpty, IndexPrev, Count, Indices
<1>4. \A i \in 1 .. Count(p) : At(p, i) = At(r, i)
  BY <1>2 DEF At
<1>5. Content(p) = [i \in 1 .. (Count(r) - 1) |-> r.buffer[At(r, i)]]
  BY <1>1, <1>2, <1>3, <1>4, ContentIs
<1>6. SubSeq(Content(r), 1, Len(Content(r)) - 1) = [i \in 1 .. (Count(r) - 1) |-> Content(r)[i]]
  BY <1>3, ContentType
<1>7. \A i \in 1 .. (Count(r) - 1) : Content(r)[i] = r.buffer[At(r, i)]
  BY <1>3, ContentIs
<1> QED
  BY <1>1, <1>3, <1>5, <1>6, <1>7, ContentType DEF p
-----------------------------------------------------------------------------
\* The bytes that arrive can be stored.
LEMMA ReceivedAreBytes ==
    ASSUME NEW value \in Received \ {CtrlC, Backspace}
    PROVE  (IF value = Return THEN Newline ELSE value) \in Bytes
BY TtyAssumption DEF TtyAssumption

\* The terminal starts with an empty queue.
LEMMA InitQueue == Init => ring \in Rings /\ Queue!Init
<1> SUFFICES ASSUME Init PROVE ring \in Rings /\ Content(ring) = << >>
  BY DEF Queue!Init
<1>1. ring \in Rings /\ ring.head = 0 /\ ring.tail = 0
  <2>1. 0 \in Indices
    BY CircBufAssumption DEF CircBufAssumption, Indices
  <2>2. [i \in Indices |-> CHOOSE b \in Bytes : TRUE] \in [Indices -> Bytes]
    BY CircBufAssumption DEF CircBufAssumption
  <2>3. EmptyRing \in Rings /\ EmptyRing.head = 0 /\ EmptyRing.tail = 0
    BY <2>1, <2>2 DEF EmptyRing, Rings
  <2> QED
    BY <2>3 DEF Init
<1>2. Len(Content(ring)) = 0 /\ Content(ring) \in Seq(Bytes)
  BY <1>1, ContentType DEF Count
<1> QED
  BY <1>1, <1>2

\* A step of the queue, with what it does to the count of lines.
Queued(v) == ~IsFull(ring) /\ v \in Bytes /\ ring' = Push(ring, v)
Taken == ~IsEmpty(ring) /\ ring' = Pop(ring)
Undone == ~IsEmpty(ring) /\ ring' = Unpush(ring)

\* These are the steps of the queue.
LEMMA QueueSteps ==
    ASSUME ring \in Rings, (\E v : Queued(v)) \/ Taken \/ Undone
    PROVE  ring' \in Rings /\ Queue!Next
<1>1. ASSUME NEW v, Queued(v) PROVE ring' \in Rings /\ Queue!Next
  BY <1>1, PushAppends DEF Queued, Queue!Next, Queue!Push
<1>2. CASE Taken
  BY <1>2, PopTakesFirst DEF Taken, Queue!Next, Queue!Pop
<1>3. CASE Undone
  BY <1>3, UnpushTakesLast DEF Undone, Queue!Next, Queue!Unpush
<1> QED
  BY <1>1, <1>2, <1>3

\* Every step of the terminal is one of these or leaves the ring alone.
LEMMA RingSteps ==
    ASSUME [Next]_vars PROVE (\E v : Queued(v)) \/ Taken \/ Undone \/ ring' = ring
<1>1. CASE HandleByte
  <2>1. CASE HandleCtrlC
    BY <2>1 DEF HandleCtrlC
  <2>2. CASE HandleBackspace
    BY <2>2 DEF HandleBackspace, Undone
  <2>3. ASSUME NEW value \in Received \ {CtrlC, Backspace}, HandleCharacter(value)
        PROVE  \E v : Queued(v)
    BY <2>3, ReceivedAreBytes DEF HandleCharacter, Queued
  <2> QED
    BY <1>1, <2>1, <2>2, <2>3 DEF HandleByte
<1>2. CASE Read \/ TryReadByteEnd
  BY <1>2 DEF Read, TryReadByteEnd, ReadByte, Taken
<1>3. CASE TryReadByte \/ \E echo \in BOOLEAN : SetEcho(echo)
  BY <1>3 DEF TryReadByte, SetEcho
<1>4. CASE TickBegin \/ TickSignal \/ TickClear \/ Store
  BY <1>4 DEF TickBegin, TickSignal, TickClear, Store
<1>5. CASE \E pid \in Pids : Open(pid) \/ Close(pid) \/ Handle(pid)
  BY <1>5 DEF Open, Close, Handle
<1>6. CASE UNCHANGED vars
  BY <1>6 DEF vars
<1> QED
  BY <1>1, <1>2, <1>3, <1>4, <1>5, <1>6 DEF Next, Tick

\* A ring stays a ring, and each step is one of the queue or none.
LEMMA NextQueue ==
    ASSUME ring \in Rings, [Next]_vars PROVE ring' \in Rings /\ [Queue!Next]_(Content(ring))
BY RingSteps, QueueSteps

-----------------------------------------------------------------------------
(* The count of lines. *)

\* Where the line ends are.
Ends(s) == {i \in DOMAIN s : s[i] \in LineEnds}

\* There are finitely many.
LEMMA EndsFinite ==
    ASSUME NEW s \in Seq(Bytes) PROVE IsFiniteSet(Ends(s)) /\ Cardinality(Ends(s)) \in Nat
<1>1. Ends(s) \in SUBSET (1 .. Len(s)) /\ IsFiniteSet(1 .. Len(s))
  BY FS_Interval DEF Ends
<1> QED
  BY <1>1, FS_Subset, FS_CardinalityType

\* A byte at the end of the queue adds a line end if it is one.
LEMMA EndsOfAppend ==
    ASSUME NEW s \in Seq(Bytes), NEW v \in Bytes
    PROVE  Cardinality(Ends(Append(s, v))) = Cardinality(Ends(s)) + (IF v \in LineEnds THEN 1 ELSE 0)
<1> DEFINE t == Append(s, v)
<1>1. Len(t) = Len(s) + 1 /\ t[Len(s) + 1] = v /\ \A i \in 1 .. Len(s) : t[i] = s[i]
  BY AppendProperties
<1>2. DOMAIN t = 1 .. Len(t) /\ DOMAIN s = 1 .. Len(s) /\ Len(s) \in Nat
  BY AppendProperties
<1> HIDE DEF t
<1>3. Ends(t) = IF v \in LineEnds THEN Ends(s) \cup {Len(s) + 1} ELSE Ends(s)
  BY <1>1, <1>2 DEF Ends
<1>4. Len(s) + 1 \notin Ends(s)
  BY <1>2 DEF Ends
<1>5. Cardinality(Ends(t)) = Cardinality(Ends(s)) + (IF v \in LineEnds THEN 1 ELSE 0)
  <2>1. CASE v \in LineEnds
    BY <1>3, <1>4, <2>1, EndsFinite, FS_AddElement
  <2>2. CASE v \notin LineEnds
    BY <1>3, <2>2, EndsFinite
  <2> QED
    BY <2>1, <2>2
<1> QED
  BY <1>5 DEF t

\* Taking the last byte away adds none.
LEMMA EndsOfFront ==
    ASSUME NEW s \in Seq(Bytes), s # << >>
    PROVE  Cardinality(Ends(SubSeq(s, 1, Len(s) - 1))) <= Cardinality(Ends(s))
<1> DEFINE t == SubSeq(s, 1, Len(s) - 1)
<1>1. Len(s) \in Nat \ {0} /\ DOMAIN s = 1 .. Len(s)
  BY EmptySeq
<1>2. \A i \in 1 .. (Len(s) - 1) : s[i] \in Bytes
  BY <1>1, ElementOfSeq
<1>3. t \in Seq(Bytes) /\ Len(t) = Len(s) - 1 /\ \A i \in 1 .. (Len(s) - 1) : t[i] = s[i]
  BY <1>1, <1>2, SubSeqProperties
<1> HIDE DEF t
<1>4. Ends(t) \in SUBSET Ends(s)
  BY <1>1, <1>3 DEF Ends
<1>5. Cardinality(Ends(t)) <= Cardinality(Ends(s))
  BY <1>4, EndsFinite, FS_Subset
<1> QED
  BY <1>5 DEF t

\* Taking the first away takes a line end away if it is one.
LEMMA EndsOfTail ==
    ASSUME NEW s \in Seq(Bytes), s # << >>
    PROVE  Cardinality(Ends(Tail(s))) = Cardinality(Ends(s)) - (IF s[1] \in LineEnds THEN 1 ELSE 0)
<1> DEFINE t == Tail(s)
<1> DEFINE f == [i \in Ends(s) \ {1} |-> i - 1]
<1>1. Len(s) \in Nat \ {0} /\ DOMAIN s = 1 .. Len(s)
  BY EmptySeq
<1>2. t \in Seq(Bytes) /\ Len(t) = Len(s) - 1 /\ DOMAIN t = 1 .. Len(t) /\ \A i \in 1 .. Len(t) : t[i] = s[i + 1]
  BY HeadTailProperties
<1> HIDE DEF t
<1>3. \A i \in Ends(s) \ {1} : i - 1 \in Ends(t)
  BY <1>1, <1>2 DEF Ends
<1>4. \A j \in Ends(t) : j + 1 \in Ends(s) \ {1} /\ f[j + 1] = j
  BY <1>1, <1>2 DEF Ends
<1>5. \A a, b \in Ends(s) \ {1} : f[a] = f[b] => a = b
  BY <1>1 DEF Ends
<1>6. f \in Bijection(Ends(s) \ {1}, Ends(t))
  <2>1. f \in [Ends(s) \ {1} -> Ends(t)]
    BY <1>3
  <2> HIDE DEF f
  <2>2. \A j \in Ends(t) : \E i \in Ends(s) \ {1} : f[i] = j
    BY <1>4
  <2> QED
    BY <1>5, <2>1, <2>2 DEF Bijection, Injection, Surjection, IsInjective
<1>7. IsFiniteSet(Ends(s)) /\ IsFiniteSet(Ends(s) \ {1})
  BY EndsFinite, FS_RemoveElement
<1>8. Cardinality(Ends(t)) = Cardinality(Ends(s) \ {1})
  BY <1>6, <1>7, FS_Bijection DEF ExistsBijection
<1>9. 1 \in Ends(s) <=> s[1] \in LineEnds
  BY <1>1 DEF Ends
<1>10. Cardinality(Ends(t)) = Cardinality(Ends(s)) - (IF s[1] \in LineEnds THEN 1 ELSE 0)
  <2>1. Cardinality(Ends(s)) \in Nat
    BY EndsFinite
  <2> QED
    BY <1>7, <1>8, <1>9, <2>1, FS_RemoveElement
<1> QED
  BY <1>10 DEF t

\* The ring is a ring and has at most as many line ends as are counted.
IInv == ring \in Rings /\ activity \in Nat /\ LinesAreReadable

\* Every step keeps the count with the line ends.
LEMMA NextIInv == ASSUME IInv, [Next]_vars PROVE IInv'
<1> DEFINE s == Content(ring)
<1>1. /\ s \in Seq(Bytes) /\ Cardinality(Ends(s)) \in Nat /\ Cardinality(Ends(s)) <= activity
      /\ activity \in Nat /\ ring \in Rings
  BY ContentType, EndsFinite DEF IInv, LinesAreReadable, Ends
<1>2. ring' \in Rings
  BY NextQueue DEF IInv
<1>3. SUFFICES activity' \in Nat /\ Cardinality(Ends(s')) <= activity'
  BY <1>2 DEF IInv, LinesAreReadable, Ends
<1>4. ASSUME activity' = activity, ring' = ring PROVE activity' \in Nat /\ Cardinality(Ends(s')) <= activity'
  BY <1>1, <1>4
<1>5. CASE HandleByte
  <2>1. CASE HandleCtrlC
    BY <1>4, <2>1 DEF HandleCtrlC
  <2>2. CASE HandleBackspace
    <3>1. s # << >> /\ s' = SubSeq(s, 1, Len(s) - 1)
      BY <1>1, <2>2, UnpushTakesLast DEF HandleBackspace
    <3>2. Cardinality(Ends(s')) <= Cardinality(Ends(s)) /\ Cardinality(Ends(s')) \in Nat
      BY <1>1, <1>2, <3>1, EndsOfFront, EndsFinite, ContentType
    <3> QED
      BY <1>1, <2>2, <3>2 DEF HandleBackspace
  <2>3. ASSUME NEW value \in Received \ {CtrlC, Backspace}, HandleCharacter(value)
        PROVE  activity' \in Nat /\ Cardinality(Ends(s')) <= activity'
    <3> DEFINE byte == IF value = Return THEN Newline ELSE value
    <3>1. byte \in Bytes
      BY ReceivedAreBytes
    <3>2. /\ ~IsFull(ring) /\ ring' = Push(ring, byte)
          /\ activity' = activity + (IF byte \in LineEnds THEN 1 ELSE 0)
      BY <2>3 DEF HandleCharacter
    <3> HIDE DEF byte
    <3>3. s' = Append(s, byte)
      BY <1>1, <3>1, <3>2, PushAppends
    <3>4. Cardinality(Ends(s')) = Cardinality(Ends(s)) + (IF byte \in LineEnds THEN 1 ELSE 0)
      BY <1>1, <3>1, <3>3, EndsOfAppend
    <3> QED
      BY <1>1, <3>2, <3>4
  <2> QED
    BY <1>5, <2>1, <2>2, <2>3 DEF HandleByte
<1>6. ASSUME ReadByte PROVE activity' \in Nat /\ Cardinality(Ends(s')) <= activity'
  <2>1. CASE ~IsEmpty(ring) /\ ring' = Pop(ring) /\ activity' = activity - (IF HeadPeek(ring) \in LineEnds THEN 1 ELSE 0)
    <3>1. s # << >> /\ s[1] = HeadPeek(ring) /\ s' = Tail(s)
      BY <1>1, <2>1, PopTakesFirst
    <3>2. Cardinality(Ends(s')) = Cardinality(Ends(s)) - (IF s[1] \in LineEnds THEN 1 ELSE 0)
      BY <1>1, <3>1, EndsOfTail
    <3>3. Cardinality(Ends(s')) \in Nat
      BY <1>2, EndsFinite, ContentType
    <3> QED
      BY <1>1, <2>1, <3>1, <3>2, <3>3
  <2> QED
    BY <1>4, <1>6, <2>1 DEF ReadByte
<1>7. CASE Read \/ TryReadByteEnd
  BY <1>6, <1>7 DEF Read, TryReadByteEnd
<1>8. CASE TryReadByte \/ \E echo \in BOOLEAN : SetEcho(echo)
  BY <1>4, <1>8 DEF TryReadByte, SetEcho
<1>9. CASE TickBegin \/ TickSignal \/ TickClear \/ Store
  BY <1>4, <1>9 DEF TickBegin, TickSignal, TickClear, Store
<1>10. CASE \E pid \in Pids : Open(pid) \/ Close(pid) \/ Handle(pid)
  BY <1>4, <1>10 DEF Open, Close, Handle
<1>11. CASE UNCHANGED vars
  BY <1>4, <1>11 DEF vars
<1> QED
  BY <1>5, <1>7, <1>8, <1>9, <1>10, <1>11 DEF Next, Tick

\* Nothing is in the ring and nothing is counted at the start.
LEMMA InitIInv == Init => IInv
<1> SUFFICES ASSUME Init PROVE IInv
  OBVIOUS
<1>1. ring \in Rings /\ Content(ring) = << >> /\ activity = 0
  BY InitQueue DEF Init, Queue!Init
<1>2. {i \in DOMAIN Content(ring) : Content(ring)[i] \in LineEnds} = {}
  BY <1>1
<1>3. Cardinality({}) = 0
  BY FS_EmptySet
<1> QED
  BY <1>1, <1>2, <1>3 DEF IInv, LinesAreReadable

\* The invariant holds throughout.
THEOREM Invariance == Spec => []IInv
<1>1. Init => IInv
  BY InitIInv
<1>2. IInv /\ [Next]_vars => IInv'
  BY NextIInv
<1> QED
  BY <1>1, <1>2, PTL DEF Spec

\* The count never falls behind the line ends in the ring, however long it is:
\* a line that is complete can be read.
THEOREM LinesStayReadable == Spec => []LinesAreReadable
<1>1. IInv => LinesAreReadable
  BY DEF IInv
<1> QED
  BY <1>1, Invariance, PTL

\* For every size, whatever the interrupt and the readers do in turn, the ring is
\* a bounded queue: no byte in it is lost, made up or read out of order.
THEOREM RingIsAQueue == Spec => QueueSpec
<1>1. Init => Queue!Init
  BY InitQueue
<1>2. IInv /\ [Next]_vars => [Queue!Next]_(Content(ring))
  BY NextQueue DEF IInv
<1> QED
  BY <1>1, <1>2, Invariance, PTL DEF Spec, QueueSpec, Queue!Spec
=============================================================================

------------------------------ MODULE CircBuf ------------------------------
(***************************************************************************)
(* The byte ring of circbuf.c as operators on a ring value. One entry is   *)
(* never used, so that a full ring differs from an empty one.              *)
(***************************************************************************)
EXTENDS Integers

CONSTANTS Bytes, Size

ASSUME CircBufAssumption == Size \in Nat /\ Size >= 2 /\ Bytes # {}

Indices == 0 .. (Size - 1)
Rings == [buffer : [Indices -> Bytes], head : Indices, tail : Indices]

\* circBufInit; the memory is zeroed, and no byte of it is read before it is written.
EmptyRing == [buffer |-> [i \in Indices |-> CHOOSE b \in Bytes : TRUE], head |-> 0, tail |-> 0]

IndexNext(i) == IF i = Size - 1 THEN 0 ELSE i + 1
IndexPrev(i) == IF i = 0 THEN Size - 1 ELSE i - 1

IsEmpty(r) == r.head = r.tail

\* Mutant: the unused entry is used.
IsFullNever(r) == FALSE

IsFull(r) == IndexNext(r.tail) = r.head

Push(r, v) == [r EXCEPT !.buffer[r.tail] = v, !.tail = IndexNext(r.tail)]
Pop(r) == [r EXCEPT !.head = IndexNext(r.head)]
Unpush(r) == [r EXCEPT !.tail = IndexPrev(r.tail)]

HeadPeek(r) == r.buffer[r.head]
TailPeek(r) == r.buffer[IndexPrev(r.tail)]

\* What is in the ring, oldest byte first.
Content(r) == [i \in 1 .. ((r.tail - r.head) % Size) |-> r.buffer[(r.head + i - 1) % Size]]
=============================================================================

----------------------------- MODULE ByteQueue -----------------------------
(***************************************************************************)
(* What a ring of bytes promises its users: a bounded queue from whose end *)
(* the youngest byte can be taken back.                                    *)
(***************************************************************************)
EXTENDS Naturals, Sequences

CONSTANTS Bytes, Capacity

VARIABLE queue

Init == queue = << >>

Push(v) == Len(queue) < Capacity /\ queue' = Append(queue, v)

Pop == queue # << >> /\ queue' = Tail(queue)

Unpush == queue # << >> /\ queue' = SubSeq(queue, 1, Len(queue) - 1)

Next == Pop \/ Unpush \/ \E v \in Bytes : Push(v)

Spec == Init /\ [][Next]_queue
=============================================================================

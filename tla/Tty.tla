-------------------------------- MODULE Tty --------------------------------
(***************************************************************************)
(* The terminal (tty.c): bytes arrive by an interrupt which may come       *)
(* between any two steps of the main thread, and are read, a line at a     *)
(* time or byte by byte, by processes of the main thread.                  *)
(*                                                                         *)
(* An update of the flags by the main thread (ttyFlags|=..., &=~...) is a  *)
(* load and a store with room for an interrupt between them; the           *)
(* interrupt's own updates, and what is inside an ATOMIC_BLOCK, is one     *)
(* step. Reading n bytes is n times ReadByte. What is echoed is output and *)
(* left out. In the PC build bytes come from ttyTick, between two steps of *)
(* the main thread, and ctrl+c comes as a signal, at any time.             *)
(***************************************************************************)
EXTENDS CircBuf, Sequences, FiniteSets

CONSTANTS PidMax,        \* ProcManPidMax
          CtrlC, Backspace, Return, Newline, EndOfText,   \* 3, 127, 13, 10, 4
          Received,      \* bytes that may arrive
          MaxActivity    \* bound on the count of line ends, of 255

ASSUME TtyAssumption ==
    /\ PidMax \in Nat
    /\ MaxActivity \in Nat
    /\ {Newline, EndOfText} \subseteq Bytes
    /\ Received \ {CtrlC, Backspace, Return} \subseteq Bytes

VARIABLES ring, activity, flags,   \* ttyCircBuf, ttyCircBufActivityCount, ttyFlags
          main,                    \* where the main thread is
          opened,                  \* processes with /dev/ttyS0 open
          interrupted,             \* of them, the ones with an interrupt to handle
          dropped                  \* history: a store has overwritten a ctrl+c

vars == <<ring, activity, flags, main, opened, interrupted, dropped>>

Pids == 0 .. (PidMax - 1)
AllFlags == {"echo", "blocking", "break"}

\* reg: what the main thread will store; next: where it goes on then; prev: the
\* saved blocking flag of tryreadbyte; pid: progress of ttyTick, PidMax at its end.
Mains == [at : {"loop", "signal", "store", "tryread"}, reg : SUBSET AllFlags,
          next : {"loop", "tryread"}, prev : BOOLEAN, pid : 0 .. PidMax]

TypeOK ==
    /\ ring \in Rings
    /\ activity \in 0 .. MaxActivity
    /\ flags \in SUBSET AllFlags
    /\ main \in Mains
    /\ interrupted \in SUBSET Pids /\ opened \in SUBSET Pids
    /\ dropped \in BOOLEAN

\* ttyInit
Init ==
    /\ ring = EmptyRing /\ activity = 0
    /\ flags = {"echo", "blocking"}
    /\ main = [at |-> "loop", reg |-> {}, next |-> "loop", prev |-> FALSE, pid |-> 0]
    /\ opened = {} /\ interrupted = {} /\ dropped = FALSE
-----------------------------------------------------------------------------
LineEnds == {Newline, EndOfText}

\* ttyHandleByte, in the interrupt or in ttyTick.
HandleCtrlC ==
    /\ flags' = flags \cup {"break"}
    /\ UNCHANGED <<ring, activity, main, opened, interrupted, dropped>>

HandleBackspace ==
    /\ ~IsEmpty(ring) /\ TailPeek(ring) # Newline
    /\ ring' = Unpush(ring)
    /\ UNCHANGED <<activity, flags, main, opened, interrupted, dropped>>

\* Mutant: only a newline ends a line.
HandleCharacterNoEnd(value) ==
    LET byte == IF value = Return THEN Newline ELSE value
    IN /\ ~IsFull(ring)
       /\ ring' = Push(ring, byte)
       /\ activity' = activity + (IF byte = Newline THEN 1 ELSE 0)
       /\ activity' <= MaxActivity
       /\ UNCHANGED <<flags, main, opened, interrupted, dropped>>

\* A byte that finds the ring full is lost, a line end as well.
HandleCharacter(value) ==
    LET byte == IF value = Return THEN Newline ELSE value
    IN /\ ~IsFull(ring)
       /\ ring' = Push(ring, byte)
       /\ activity' = activity + (IF byte \in LineEnds THEN 1 ELSE 0)
       /\ activity' <= MaxActivity
       /\ UNCHANGED <<flags, main, opened, interrupted, dropped>>

HandleByte ==
    \/ CtrlC \in Received /\ HandleCtrlC
    \/ Backspace \in Received /\ HandleBackspace
    \/ \E value \in Received \ {CtrlC, Backspace} : HandleCharacter(value)
-----------------------------------------------------------------------------
\* ttyCanReadFunctor
CanRead(f) == activity > 0 \/ ("blocking" \notin f /\ ~IsEmpty(ring))

\* One turn of the loop of kernelFsFileReadOffset, ttyReadFunctor included. An
\* end of text makes the caller stop and is not given to it.
ReadByte ==
    IF CanRead(flags) /\ ~IsEmpty(ring)
    THEN /\ ring' = Pop(ring)
         /\ activity' = activity - (IF HeadPeek(ring) \in LineEnds THEN 1 ELSE 0)
    ELSE UNCHANGED <<ring, activity>>

\* The read system call and its continuation after waiting.
Read ==
    /\ main.at = "loop" /\ CanRead(flags)
    /\ ReadByte
    /\ UNCHANGED <<flags, main, opened, interrupted, dropped>>

\* The first half of ttyFlags=(ttyFlags\clear)|set; the second is Store.
Load(clear, set, next) ==
    main' = [main EXCEPT !.at = "store", !.reg = (flags \ clear) \cup set, !.next = next]

Store ==
    /\ main.at = "store"
    /\ flags' = main.reg
    /\ dropped' = (dropped \/ (main.pid < PidMax /\ "break" \in flags \ main.reg))
    /\ main' = [main EXCEPT !.at = main.next, !.pid = 0]
    /\ UNCHANGED <<ring, activity, opened, interrupted>>

\* The ioctl system call on the terminal, ttySetEcho.
SetEcho(echo) ==
    /\ main.at = "loop"
    /\ Load(IF echo THEN {} ELSE {"echo"}, IF echo THEN {"echo"} ELSE {}, "loop")
    /\ UNCHANGED <<ring, activity, flags, opened, interrupted, dropped>>

\* The tryreadbyte system call: blocking is off while it reads.
TryReadByte ==
    /\ main.at = "loop"
    /\ main' = [main EXCEPT !.at = "store", !.reg = flags \ {"blocking"}, !.next = "tryread",
                            !.prev = "blocking" \in flags]
    /\ UNCHANGED <<ring, activity, flags, opened, interrupted, dropped>>

TryReadByteEnd ==
    /\ main.at = "tryread"
    /\ ReadByte
    /\ Load(IF main.prev THEN {} ELSE {"blocking"}, IF main.prev THEN {"blocking"} ELSE {}, "loop")
    /\ UNCHANGED <<flags, opened, interrupted, dropped>>
-----------------------------------------------------------------------------
\* ttyTick: every process that has the terminal open gets an interrupt.
TickBegin ==
    /\ main.at = "loop" /\ "break" \in flags
    /\ main' = [main EXCEPT !.at = "signal", !.pid = 0]
    /\ UNCHANGED <<ring, activity, flags, opened, interrupted, dropped>>

\* Mutant: stops behind the first process that has it open.
TickSignalFirst ==
    /\ main.at = "signal" /\ main.pid < PidMax
    /\ interrupted' = interrupted \cup ({main.pid} \cap opened)
    /\ main' = [main EXCEPT !.pid = IF main.pid \in opened THEN PidMax ELSE main.pid + 1]
    /\ UNCHANGED <<ring, activity, flags, opened, dropped>>

TickSignal ==
    /\ main.at = "signal" /\ main.pid < PidMax
    /\ interrupted' = interrupted \cup ({main.pid} \cap opened)
    /\ main' = [main EXCEPT !.pid = main.pid + 1]
    /\ UNCHANGED <<ring, activity, flags, opened, dropped>>

TickClear ==
    /\ main.at = "signal" /\ main.pid = PidMax
    /\ Load({"break"}, {}, "loop")
    /\ UNCHANGED <<ring, activity, flags, opened, interrupted, dropped>>

\* What processes do in their ticks: open and close the terminal, and run the
\* handler of the interrupt.
Open(pid) ==
    /\ main.at = "loop" /\ pid \notin opened
    /\ opened' = opened \cup {pid}
    /\ UNCHANGED <<ring, activity, flags, main, interrupted, dropped>>

Close(pid) ==
    /\ main.at = "loop" /\ pid \in opened
    /\ opened' = opened \ {pid} /\ interrupted' = interrupted \ {pid}
    /\ UNCHANGED <<ring, activity, flags, main, dropped>>

Handle(pid) ==
    /\ main.at = "loop" /\ pid \in interrupted
    /\ interrupted' = interrupted \ {pid}
    /\ UNCHANGED <<ring, activity, flags, main, opened, dropped>>

Tick == TickBegin \/ TickSignal \/ TickClear \/ Store \/ TryReadByteEnd

Next ==
    \/ HandleByte
    \/ Read \/ TryReadByte \/ \E echo \in BOOLEAN : SetEcho(echo)
    \/ Tick
    \/ \E pid \in Pids : Open(pid) \/ Close(pid) \/ Handle(pid)

\* The main loop comes round to ttyTick again and again, whatever else runs.
Fairness == WF_vars(TickSignal \/ TickClear \/ Store \/ TryReadByteEnd) /\ SF_vars(TickBegin)

Spec == Init /\ [][Next]_vars
FairSpec == Spec /\ Fairness
-----------------------------------------------------------------------------
\* The ring is a queue of Size - 1 bytes: whatever the interrupt and the readers
\* do in turn, no byte in it is lost, made up or read out of order.
Queue == INSTANCE ByteQueue WITH Capacity <- Size - 1, queue <- Content(ring)
QueueSpec == Queue!Spec

\* The count never falls behind the line ends in the ring, so that a complete
\* line can be read and the count never goes below zero.
LinesAreReadable == Cardinality({i \in DOMAIN Content(ring) : Content(ring)[i] \in LineEnds}) <= activity

\* Unless its flag was overwritten by the store of another update, a ctrl+c
\* interrupts every process that keeps the terminal open.
BreaksAreDelivered ==
    \A pid \in Pids :
        "break" \in flags /\ pid \in opened ~> pid \in interrupted \/ pid \notin opened \/ dropped
=============================================================================

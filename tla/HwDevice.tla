------------------------------ MODULE HwDevice ------------------------------
(***************************************************************************)
(* Hardware devices that programs register on pins (src/kernel/            *)
(* hwdevice.c, pins.c), the SD card driver (sd.c) and the lock on the SPI  *)
(* bus (kernel.c: kernelSpiGrabLock...).                                   *)
(*                                                                         *)
(* A slot of the device table is a keypad, an SD card reader or a          *)
(* temperature sensor.  Keypads and cards are mounted: a device file is    *)
(* added to the file system, and deleted again when they are unmounted,    *)
(* if no process has it open.  A card reader has a cache of one block that *)
(* is written back late.  The bus is locked by opening /dev/spi, which     *)
(* processes may do as well.  Every transaction with a card may fail: `io' *)
(* is how many succeed before one does not.                                *)
(***************************************************************************)
EXTENDS Integers, Sequences, SequencesExt

CONSTANTS
    Ids,          \* slots of the device table: 0 .. HwDeviceIdMax - 1
    Pins,         \* pins that exist
    ReservedPins, \* pins the kernel grabbed for the bus
    Requests,     \* what programs register: a type and pins, some of which do not exist
    Mounts,       \* paths devices are mounted at
    NoPath,
    NumBlocks,    \* blocks of a card
    BlockSize,    \* SdBlockSize
    Values,       \* bytes
    Keys,         \* keys of a keypad, in the order in which they are scanned
    RingSize,     \* HwDeviceKeypadCircBufSize
    Touched,      \* bound: the addresses programs read and write
    MaxLen,       \* bound: the longest read or write
    MaxIo         \* bound: enough transactions for any operation

Types == {"keypad", "sd", "dht22"}

ASSUME HwAssumption ==
    /\ ReservedPins \subseteq Pins
    /\ \A r \in Requests : r.type \in Types /\ r.pins \in Seq(Int) /\ Len(r.pins) >= 2
    /\ NumBlocks \in Nat \ {0} /\ BlockSize \in Nat \ {0} /\ Values # {}
    /\ RingSize \in Nat \ {0} /\ Keys \in Seq(ToSet(Keys))
    /\ MaxLen \in Nat /\ MaxIo \in Nat
    /\ NoPath \notin Mounts
    /\ Touched \subseteq 0 .. (NumBlocks * BlockSize - 1)

VARIABLES
    hw,      \* hwDevices
    used,    \* pinsUsedArray
    high,    \* power pins that are high
    files,   \* device files: the slot each serves and the functor
    open,    \* device files a process has open
    spi,     \* who has /dev/spi open: kernelSpiLockFd, a process or nobody
    cards,   \* per slave select pin, the blocks of the card in that reader
    written, \* history: per card, the bytes as writers were told
    down     \* keys that are held down

vars == <<hw, used, high, files, open, spi, cards, written, down>>

Blocks == 0 .. (NumBlocks - 1)
Offsets == 0 .. (BlockSize - 1)
Addrs == 0 .. (NumBlocks * BlockSize - 1)
BlankBlock == [o \in Offsets |-> CHOOSE v \in Values : TRUE]

Unused == [type |-> "unused", pins |-> << >>, mount |-> NoPath]
Cache == [valid |-> FALSE, dirty |-> FALSE, block |-> 0, bytes |-> BlankBlock]
NoFile == [kind |-> "none"]

Is(id, type) == hw[id].type = type
PowerPin(id) == hw[id].pins[1]
SelectPin(id) == hw[id].pins[2]

\* Slots the functors and the unmount functions accept.
HasCard(id) == Is(id, "sd") /\ hw[id].card = "Ver2"
HasKeypad(id) == Is(id, "keypad") /\ hw[id].mount # NoPath
-----------------------------------------------------------------------------
(* Pins and slots. *)

Range1(s, n) == {s[k] : k \in 1 .. n}

\* The pins are grabbed one after the other: n of them can be, and then no more.
GrabsUpTo(pins, n) ==
    /\ \A k \in 1 .. n : pins[k] \in Pins \ (used \cup Range1(pins, k - 1))
    /\ n < Len(pins) => pins[n + 1] \notin Pins \ (used \cup Range1(pins, n))

\* The cache bits of a card reader are what the slot held before: they are set
\* when a card is mounted. Its mount point is not set either: no path says that
\* no mount has set it, and UnmountPaths what the code may then find there.
Registered(type, pins, garbage) ==
    CASE type = "keypad" -> [type |-> type, pins |-> pins, mount |-> NoPath, states |-> {}, ring |-> << >>]
      [] type = "sd" -> [type |-> type, pins |-> pins, mount |-> NoPath, card |-> "Bad", blocks |-> 0,
                         cache |-> [Cache EXCEPT !.valid = garbage, !.dirty = garbage]]
      [] type = "dht22" -> [type |-> type, pins |-> pins, mount |-> NoPath, value |-> 0]

Register(id, type, pins, garbage) ==
    /\ Is(id, "unused")
    /\ GrabsUpTo(pins, Len(pins))
    /\ hw' = [hw EXCEPT ![id] = Registered(type, pins, garbage)]
    /\ used' = used \cup ToSet(pins)
    /\ high' = IF type = "dht22" THEN high \cup {pins[1]} ELSE high
    /\ UNCHANGED <<files, open, spi, cards, written, down>>

\* Mutant: every pin that was asked for is released, also one of another device.
GrabbedAll(pins, n) == ToSet(pins)

Grabbed(pins, n) == Range1(pins, n)

\* A pin cannot be grabbed, or there is no memory for the cache of a card
\* reader: the pins that were grabbed are released.
RegisterFails(id, type, pins) ==
    /\ Is(id, "unused")
    /\ \E n \in 0 .. Len(pins) :
          /\ GrabsUpTo(pins, n)
          /\ n = Len(pins) => type = "sd"
          /\ used' = (used \cup Range1(pins, n)) \ Grabbed(pins, n)
          /\ high' = high \ Grabbed(pins, n)
    /\ UNCHANGED <<hw, files, open, spi, cards, written, down>>
-----------------------------------------------------------------------------
(* The SD card: transactions, and the cache. *)

\* Whether the kernel gets the lock.
Lockable == spi = "free"

\* Mutant: a dirty block is not written back before the next one is read.
WriteBackNever(acc) == [acc EXCEPT !.cache.dirty = FALSE]

\* sdWriteBlock of the cached block; the lock, a bad block or the card may fail it.
WriteBack(acc) ==
    IF acc.io = 0 \/ acc.cache.block >= acc.blocks THEN [acc EXCEPT !.ok = FALSE]
    ELSE [acc EXCEPT !.io = @ - 1,
                     !.card[acc.cache.block] = acc.cache.bytes,
                     !.cache.dirty = FALSE]

\* sdReadBlock into the cache; a failure leaves the cache invalid.
Load(acc, b) ==
    IF acc.io = 0 \/ b >= acc.blocks THEN [acc EXCEPT !.ok = FALSE, !.cache.valid = FALSE]
    ELSE [acc EXCEPT !.io = @ - 1,
                     !.cache = [valid |-> TRUE, dirty |-> FALSE, block |-> b, bytes |-> acc.card[b]]]

\* What the reading and the writing loop do before they use a byte of block b.
Ensure(acc, b) ==
    LET c == acc.cache
        saved == IF c.valid /\ c.dirty /\ c.block # b THEN WriteBack(acc) ELSE acc
    IN  IF ~saved.ok \/ (c.valid /\ c.block = b) THEN saved ELSE Load(saved, b)

Start(id, io) ==
    [ok |-> TRUE, io |-> IF Lockable THEN io ELSE 0, n |-> 0, blocks |-> hw[id].blocks,
     cache |-> hw[id].cache, card |-> cards[SelectPin(id)]]

ReadByte(acc, addr) ==
    IF ~acc.ok THEN acc
    ELSE LET e == Ensure(acc, addr \div BlockSize)
         IN  IF e.ok THEN [e EXCEPT !.n = @ + 1] ELSE e

ReadBytes(acc, addr, len) ==
    LET after[k \in 0 .. len] == IF k = 0 THEN acc ELSE ReadByte(after[k - 1], addr + k - 1)
    IN  after[len]

WriteByte(acc, addr, value) ==
    IF ~acc.ok THEN acc
    ELSE LET e == Ensure(acc, addr \div BlockSize)
         IN  IF e.ok
             THEN [e EXCEPT !.n = @ + 1, !.cache.dirty = TRUE,
                            !.cache.bytes[addr % BlockSize] = value]
             ELSE e

WriteBytes(acc, addr, data) ==
    LET after[k \in 0 .. Len(data)] ==
          IF k = 0 THEN acc ELSE WriteByte(after[k - 1], addr + k - 1, data[k])
    IN  after[Len(data)]

Finish(id, acc) ==
    /\ hw' = [hw EXCEPT ![id].cache = acc.cache]
    /\ cards' = [cards EXCEPT ![SelectPin(id)] = acc.card]

\* The file a process has open serves a card.
ServesCard(p) == p \in open /\ files[p].kind = "sd" /\ HasCard(files[p].id)

SdRead(p, addr, len, io) ==
    /\ ServesCard(p)
    /\ LET id == files[p].id IN
       Finish(id, ReadBytes(Start(id, io), addr, len))
    /\ UNCHANGED <<used, high, files, open, spi, written, down>>

SdWrite(p, addr, data, io) ==
    /\ ServesCard(p)
    /\ LET id == files[p].id
           acc == WriteBytes(Start(id, io), addr, data)
       IN  /\ Finish(id, acc)
           /\ written' = [written EXCEPT ![SelectPin(id)] =
                            [a \in Addrs |-> IF a \in addr .. (addr + acc.n - 1) THEN data[a - addr + 1] ELSE @[a]]]
    /\ UNCHANGED <<used, high, files, open, spi, down>>

\* kernelFsFileFlush; also the first step of unmounting.
Flushed(id, io) ==
    LET acc == Start(id, io)
    IN  IF acc.cache.valid /\ acc.cache.dirty THEN WriteBack(acc) ELSE acc

SdFlush(p, io) ==
    /\ files[p].kind = "sd" /\ HasCard(files[p].id)
    /\ Finish(files[p].id, Flushed(files[p].id, io))
    /\ UNCHANGED <<used, high, files, open, spi, written, down>>

\* Other transactions than reading and writing: initialisation, step by step.
InitSteps == << "lock", "CMD0", "CMD8", "CMD8 echo", "CMD55+ACMD41", "CMD58", "CMD16", "CMD9", "CSD" >>

\* The type is known after the fifth step and is not taken back by an error.
TypeAfter(step) == IF step > 5 THEN "Ver2" ELSE "Bad"

\* Mutant: the card stays on when its initialisation fails.
PowerOffNever(pins, pin) == pins

PowerOff(pins, pin) == pins \ {pin}

\* Initialisation fails at a step: power is off, the lock is released.
SdMountFails(id, step) ==
    /\ Is(id, "sd") /\ hw[id].card = "Bad"
    /\ (step = 1) = ~Lockable
    /\ hw' = [hw EXCEPT ![id].card = TypeAfter(step), ![id].blocks = 0]
    /\ high' = IF step = 1 THEN high ELSE PowerOff(high \cup {PowerPin(id)}, PowerPin(id))
    /\ UNCHANGED <<used, files, open, spi, cards, written, down>>

\* The card answers. If the file cannot be added it is turned off again.
SdMount(id, p) ==
    /\ Is(id, "sd") /\ hw[id].card = "Bad"
    /\ Lockable
    /\ IF files[p] = NoFile
       THEN /\ hw' = [hw EXCEPT ![id].card = "Ver2", ![id].blocks = NumBlocks,
                                ![id].cache.valid = FALSE, ![id].mount = p]
            /\ files' = [files EXCEPT ![p] = [kind |-> "sd", id |-> id]]
            /\ high' = high \cup {PowerPin(id)}
       ELSE /\ hw' = [hw EXCEPT ![id].blocks = NumBlocks, ![id].cache.valid = FALSE]
            /\ UNCHANGED <<files, high>>
    /\ UNCHANGED <<used, open, spi, cards, written, down>>

\* kernelFsFileDelete of the mount point: whatever is there, if it is not open.
FilesWithout(p) ==
    [q \in Mounts |-> IF q = p /\ q \notin open THEN NoFile ELSE files[q]]

AsWritten(card) == [a \in Addrs |-> card[a \div BlockSize][a % BlockSize]]

\* The path the file of a card is deleted by. Where no mount has set it, it is
\* whatever the slot or the buffer it is copied to held: any path, or none.
UnmountPaths(id) == IF hw[id].mount = NoPath THEN Mounts \cup {NoPath} ELSE {hw[id].mount}

\* A card is unmounted. When the last block cannot be written it is lost, and
\* the history with it.
Unmounted(id, io) ==
    LET acc == Flushed(id, io) IN
    /\ cards' = [cards EXCEPT ![SelectPin(id)] = acc.card]
    /\ written' = IF acc.ok THEN written ELSE [written EXCEPT ![SelectPin(id)] = AsWritten(acc.card)]
    /\ \E p \in UnmountPaths(id) : files' = FilesWithout(p)

SdUnmount(id, io) ==
    /\ HasCard(id)
    /\ Unmounted(id, io)
    /\ hw' = [hw EXCEPT ![id].card = "Bad", ![id].mount = NoPath, ![id].cache = Flushed(id, io).cache]
    /\ high' = PowerOff(high, PowerPin(id))
    /\ UNCHANGED <<used, open, spi, down>>
-----------------------------------------------------------------------------
(* Keypads and sensors. *)

KeypadMount(id, p) ==
    /\ Is(id, "keypad") /\ hw[id].mount = NoPath
    /\ files[p] = NoFile
    /\ files' = [files EXCEPT ![p] = [kind |-> "keypad", id |-> id]]
    /\ hw' = [hw EXCEPT ![id].mount = p]
    /\ UNCHANGED <<used, high, open, spi, cards, written, down>>

KeypadUnmount(id) ==
    /\ HasKeypad(id)
    /\ files' = FilesWithout(hw[id].mount)
    /\ hw' = [hw EXCEPT ![id].mount = NoPath]
    /\ UNCHANGED <<used, high, open, spi, cards, written, down>>

\* Mutant: the entry that must stay unused is used.
ScanKeyOverrun(dev, key) ==
    IF (key \in down) = (key \in dev.states) THEN dev
    ELSE IF key \in down
         THEN [dev EXCEPT !.states = @ \cup {key}, !.ring = IF Len(@) < RingSize THEN Append(@, key) ELSE @]
         ELSE [dev EXCEPT !.states = @ \ {key}]

\* One cell of the matrix: a key that went down is put in the ring, if it fits.
ScanKey(dev, key) ==
    IF (key \in down) = (key \in dev.states) THEN dev
    ELSE IF key \in down
         THEN [dev EXCEPT !.states = @ \cup {key},
                          !.ring = IF Len(@) < RingSize - 1 THEN Append(@, key) ELSE @]
         ELSE [dev EXCEPT !.states = @ \ {key}]

\* All cells, column by column.
Scan(dev) ==
    LET after[k \in 0 .. Len(Keys)] == IF k = 0 THEN dev ELSE ScanKey(after[k - 1], Keys[k])
    IN  after[Len(Keys)]

\* hwDeviceTick: keypads are scanned; sensors are asked when they are due, and
\* those in `answers' give a value with a good checksum.
Ticked(id, answers) ==
    CASE Is(id, "keypad") -> Scan(hw[id])
      [] Is(id, "dht22") /\ id \in answers -> [hw[id] EXCEPT !.value = 1]
      [] OTHER -> hw[id]

Tick(answers) ==
    /\ hw' = [id \in Ids |-> Ticked(id, answers)]
    /\ UNCHANGED <<used, high, files, open, spi, cards, written, down>>

\* A finger.
KeyMoves(key) ==
    /\ down' = IF key \in down THEN down \ {key} ELSE down \cup {key}
    /\ UNCHANGED <<hw, used, high, files, open, spi, cards, written>>

KeypadRead(p) ==
    /\ p \in open /\ files[p].kind = "keypad" /\ HasKeypad(files[p].id)
    /\ hw[files[p].id].ring # << >>
    /\ hw' = [hw EXCEPT ![files[p].id].ring = Tail(@)]
    /\ UNCHANGED <<used, high, files, open, spi, cards, written, down>>

Deregister(id, io) ==
    /\ ~Is(id, "unused")
    /\ IF HasCard(id) THEN Unmounted(id, io)
       ELSE /\ files' = IF HasKeypad(id) THEN FilesWithout(hw[id].mount) ELSE files
            /\ UNCHANGED <<cards, written>>
    /\ hw' = [hw EXCEPT ![id] = Unused]
    /\ used' = used \ ToSet(hw[id].pins)
    /\ high' = high \ ToSet(hw[id].pins)
    /\ UNCHANGED <<open, spi, down>>
-----------------------------------------------------------------------------
(* Processes at the file system. *)

OpenFile(p) ==
    /\ files[p] # NoFile /\ p \notin open
    /\ open' = open \cup {p}
    /\ UNCHANGED <<hw, used, high, files, spi, cards, written, down>>

CloseFile(p) ==
    /\ p \in open
    /\ open' = open \ {p}
    /\ UNCHANGED <<hw, used, high, files, spi, cards, written, down>>

DeleteFile(p) ==
    /\ files[p] # NoFile /\ p \notin open
    /\ files' = FilesWithout(p)
    /\ UNCHANGED <<hw, used, high, open, spi, cards, written, down>>

ProcessSpi ==
    /\ spi' = IF spi = "free" THEN "process" ELSE "free"
    /\ UNCHANGED <<hw, used, high, files, open, cards, written, down>>
-----------------------------------------------------------------------------
Init ==
    /\ hw = [id \in Ids |-> Unused]
    /\ used = ReservedPins
    /\ high = {}
    /\ files = [p \in Mounts |-> NoFile]
    /\ open = {}
    /\ spi = "free"
    /\ cards = [pin \in Pins |-> [b \in Blocks |-> BlankBlock]]
    /\ written = [pin \in Pins |-> AsWritten([b \in Blocks |-> BlankBlock])]
    /\ down = {}

Next ==
    \/ \E id \in Ids, r \in Requests :
          \/ RegisterFails(id, r.type, r.pins)
          \/ \E garbage \in BOOLEAN : Register(id, r.type, r.pins, garbage)
    \/ \E id \in Ids, io \in 0 .. MaxIo : Deregister(id, io) \/ SdUnmount(id, io)
    \/ \E id \in Ids, p \in Mounts : SdMount(id, p) \/ KeypadMount(id, p)
    \/ \E id \in Ids, step \in DOMAIN InitSteps : SdMountFails(id, step)
    \/ \E id \in Ids : KeypadUnmount(id)
    \/ \E p \in Mounts, io \in 0 .. MaxIo :
          \/ SdFlush(p, io)
          \/ \E addr \in Touched, len \in 1 .. MaxLen : addr + len - 1 \in Touched /\ SdRead(p, addr, len, io)
          \/ \E addr \in Touched, data \in SeqOf(Values, MaxLen) \ {<< >>} :
                addr + Len(data) - 1 \in Touched /\ SdWrite(p, addr, data, io)
    \/ \E p \in Mounts : OpenFile(p) \/ CloseFile(p) \/ DeleteFile(p) \/ KeypadRead(p)
    \/ \E key \in ToSet(Keys) : KeyMoves(key)
    \/ \E answers \in SUBSET Ids : Tick(answers)
    \/ ProcessSpi

Spec == Init /\ [][Next]_vars
-----------------------------------------------------------------------------
Contents == [Offsets -> Values]
Caches == [valid : BOOLEAN, dirty : BOOLEAN, block : Blocks, bytes : Contents]

TypeOK ==
    /\ \A id \in Ids :
          \/ hw[id] = Unused
          \/ /\ hw[id].type \in Types /\ ToSet(hw[id].pins) \subseteq Pins
             /\ hw[id].mount \in Mounts \cup {NoPath}
             /\ Is(id, "sd") => /\ hw[id].card \in {"Bad", "Ver2"} /\ hw[id].blocks \in 0 .. NumBlocks
                                /\ hw[id].cache \in Caches
             /\ Is(id, "keypad") => hw[id].ring \in SeqOf(ToSet(Keys), RingSize - 1)
    /\ open \subseteq Mounts
    /\ \A p \in Mounts : files[p] = NoFile \/ files[p] \in [kind : {"sd", "keypad"}, id : Ids]
    /\ spi \in {"free", "process"}
    /\ cards \in [Pins -> [Blocks -> Contents]]

\* A pin is in use exactly while the kernel or a registered device has it, and
\* no two devices share one: also after registrations that failed half way.
PinsHeldByDevices ==
    /\ used = ReservedPins \cup UNION {ToSet(hw[id].pins) : id \in Ids}
    /\ \A id \in Ids : ToSet(hw[id].pins) \cap ReservedPins = {} /\ IsInjective(hw[id].pins)
    /\ \A id, other \in Ids :
          id # other => ToSet(hw[id].pins) \cap ToSet(hw[other].pins) = {}

\* The power pins that are high are those of sensors and of cards that could be
\* initialised: no failed mount, unmount or deregistration leaves one on.
PoweredWhileUsed ==
    high = {PowerPin(id) : id \in {i \in Ids : Is(i, "dht22") \/ (HasCard(i) /\ hw[i].blocks > 0)}}

\* What the card will hold once the cache is written back.
WithCache(card, c) == IF c.valid /\ c.dirty THEN [card EXCEPT ![c.block] = c.bytes] ELSE card

\* Every byte a writer was told is written is on the card or in the dirty
\* cache, whatever transactions failed in between; and a cache that is not
\* dirty is what the card holds. A card that is not mounted holds it all.
WrittenIsKept ==
    /\ \A id \in Ids :
          (HasCard(id) /\ hw[id].blocks > 0) =>
            LET c == hw[id].cache
                card == cards[SelectPin(id)]
            IN  /\ AsWritten(WithCache(card, c)) = written[SelectPin(id)]
                /\ (c.valid /\ ~c.dirty) => c.bytes = card[c.block]
    /\ \A pin \in Pins :
          (\A id \in Ids : HasCard(id) => SelectPin(id) # pin) => AsWritten(cards[pin]) = written[pin]

=============================================================================

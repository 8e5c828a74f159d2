------------------------------- MODULE Mounts -------------------------------
(***************************************************************************)
(* The device table of the virtual file system and what is mounted over    *)
(* it (src/kernel/kernelfs.c, kernelmount.c): devices are added, opened,   *)
(* mounted, remounted, unmounted and deleted while files below them are    *)
(* open.                                                                   *)
(*                                                                         *)
(* A device is an entry of a fixed table; an open file remembers the index *)
(* of the entry that serves it.  A mount opens its backing file, keeps the *)
(* descriptor in a table of mounts and in the user data of the device it   *)
(* adds.  Paths are sequences of letters, because the code finds the       *)
(* device of a file by comparing prefixes and lengths.  What flat devices  *)
(* hold is kept per device in `stores': a MiniFs volume (from names to the *)
(* bytes of its files), or something else.  A circular buffer lives in the *)
(* bytes of a file, its two offsets included.                              *)
(***************************************************************************)
EXTENDS KernelFs, Sequences, SequencesExt

CONSTANTS
    DevMax,      \* KernelFsDevicesMax
    MountMax,    \* kernelMountedDevicesMax
    BootDevices, \* sequence of the devices kernelBoot adds, in that order; user data as a KernelFsFd
    InitStores,  \* what the flat devices and the read-only volume may hold at the start
    Requests,    \* the mounts programs ask for: format, device file, mount point
    Opened,      \* the paths programs open
    Unmounted,   \* the paths programs unmount the device at
    Deleted,     \* the paths programs delete the device at
    Created,     \* the files programs create and delete on volumes
    Room,        \* per flat device, the bytes a volume on it has for files
    Sizes,       \* sizes files are created with
    ByteValues,  \* 256: what an offset byte can hold
    Data,        \* bytes that are written to files
    Pushes,      \* sequences of bytes that are written to rings
    Lost,        \* the history of a ring that is not there or not followed
    MaxRemovals  \* bound: how many devices are unmounted or deleted

NoDev == [type |-> "none"]
DevIdx == 0 .. (DevMax - 1)
Root == <<"/">>

FlatPaths == {BootDevices[i].path : i \in {j \in DOMAIN BootDevices : BootDevices[j].type = "flat"}}
StorePaths == {BootDevices[i].path : i \in {j \in DOMAIN BootDevices : BootDevices[j].type \in {"flat", "MiniFs"}}}
Formats == {"MiniFs", "Fat", "FlatFile", "Partition", "CircBuf"}

LastSlash(p) == CHOOSE i \in DOMAIN p : p[i] = "/" /\ \A j \in DOMAIN p : p[j] = "/" => j <= i
Dirname(p) == SubSeq(p, 1, LastSlash(p) - 1)
Basename(p) == SubSeq(p, LastSlash(p) + 1, Len(p))

Bytes == 0 .. (ByteValues - 1)
FileSizes == 0 .. (ByteValues * ByteValues * ByteValues * ByteValues - 1) \* KernelFsFileOffset

\* The bytes of the files of a volume, and how many there are.
Cells(files) == UNION {{name} \X DOMAIN files[name] : name \in DOMAIN files}
Total(files) == Cardinality(Cells(files))

ASSUME MountsAssumption ==
    /\ \A p \in Paths : p \in Seq(STRING) /\ p # << >> /\ p[1] = "/" \* kernelFsPathIsValid
    /\ DevMax \in Nat /\ Len(BootDevices) < DevMax
    /\ MountMax \in Nat \ {0}
    /\ ByteValues \in Nat /\ ByteValues > 4
    /\ Data \subseteq Bytes /\ Pushes \subseteq Seq(Bytes)
    /\ Requests \subseteq [format : Formats, device : Paths, dir : Paths]
    /\ Opened \subseteq Paths /\ Created \subseteq Paths
    \* Volumes are mounted from flat devices and rings from files of volumes.
    /\ \A r \in Requests : r.format # "CircBuf" <=> r.device \in FlatPaths
    /\ \A r, q \in Requests : r.format = "CircBuf" => r.device # q.dir
    /\ \A r \in Requests, i \in DOMAIN BootDevices : r.format = "CircBuf" => r.device # BootDevices[i].path

\* kernelBoot adds no path twice and none below a flat device, which can be written.
ASSUME BootAssumption ==
    /\ BootDevices \in Seq([type : {"dir", "char", "flat", "MiniFs"}, path : Paths, userData : Nat,
                            writable : BOOLEAN, many : BOOLEAN])
    /\ \A i, j \in DOMAIN BootDevices :
          /\ BootDevices[i].path # << >>
          /\ BootDevices[i].path = BootDevices[j].path => i = j
          /\ BootDevices[i].type = "flat" => BootDevices[i].writable /\ Dirname(BootDevices[j].path) # BootDevices[i].path

\* What flat devices and read-only volumes hold at the start fits on them.
ASSUME StoresAssumption ==
    /\ Sizes \subseteq FileSizes
    /\ \A p \in StorePaths : Room[p] \in Nat
    /\ \A s \in InitStores :
          /\ s = [p \in StorePaths |-> [kind |-> s[p].kind, files |-> s[p].files]]
          /\ \A p \in StorePaths :
                /\ IsFiniteSet(Cells(s[p].files)) /\ Total(s[p].files) <= Room[p]
                /\ \A f \in DOMAIN s[p].files : s[p].files[f] \in Seq(Bytes) /\ Len(s[p].files[f]) \in FileSizes

VARIABLES
    devs,    \* kernelFsData.devices
    fdt,     \* kernelFsData.fdt: path, mode and count
    cached,  \* kernelFsData.fdt: deviceIndex
    mounts,  \* kernelMountedDevices
    stores,  \* what the flat devices hold
    sent,    \* history: per ring, the bytes accepted from writers and not yet read
    removals \* history: how many devices were removed

vars == <<devs, fdt, cached, mounts, stores, sent, removals>>

RingDirs == {r.dir : r \in {q \in Requests : q.format = "CircBuf"}}
-----------------------------------------------------------------------------
(* Paths. *)

\* The directory a path is in; what kernelFsPathSplit finds is empty for the root.
Parent(p) == IF Dirname(p) = << >> THEN Root ELSE Dirname(p)

\* kstrMatchLen: how many letters at the start are the same.
MatchLen == [p \in Paths |-> [q \in Paths |-> Len(LongestCommonPrefix({p, q}))]]

Used(d) == d.type # "none"
DeviceFromPath(ds, p) ==
    IF \E i \in DevIdx : Used(ds[i]) /\ ds[i].path = p
    THEN CHOOSE i \in DevIdx : Used(ds[i]) /\ ds[i].path = p
    ELSE DevMax

\* The scan of kernelFsGetDeviceFromPathRecursive: an entry is taken when more
\* of it matches than of all before it, and the scan stops at an entry taken
\* that is as long as the path.
Candidate(ds, p, i) == Used(ds[i]) /\ Len(ds[i].path) <= Len(p)
Taken(ds, p) ==
    {i \in DevIdx : /\ Candidate(ds, p, i)
                    /\ MatchLen[p][ds[i].path] > 0
                    /\ \A j \in 0 .. (i - 1) :
                          Candidate(ds, p, j) => MatchLen[p][ds[j].path] < MatchLen[p][ds[i].path]}

\* Mutant: a match is not compared with the best one so far.
DeviceFromPathRecursiveFirst(ds, p) == Min(Taken(ds, p))

DeviceFromPathRecursive(ds, p) ==
    LET stops == {i \in Taken(ds, p) : Len(ds[i].path) = Len(p)}
    IN  IF stops # {} THEN Min(stops) ELSE Max(Taken(ds, p))
-----------------------------------------------------------------------------
(* What devices hold. *)

TypeOfFormat(format) ==
    CASE format = "CircBuf" -> "char"
      [] format \in {"FlatFile", "Partition"} -> "flat"
      [] OTHER -> format

\* kernelMountGetDeviceFromFd finds the mount, and it is of a format that the
\* functor called for this type of device serves.
Mounted(i) ==
    \E k \in DOMAIN mounts :
        mounts[k].fd = devs[i].userData /\ TypeOfFormat(mounts[k].format) = devs[i].type

\* The flat device whose contents device i shows: its own, or that of the file
\* its mount holds open.
StoreOf(i) == IF devs[i].mount THEN fdt[devs[i].userData].path ELSE devs[i].path

\* A device whose mount is gone shows nothing: the code asserts that it is found.
VolumeOn(i) ==
    IF devs[i].mount => Mounted(i) THEN stores[StoreOf(i)].files ELSE << >>

IsVolume(d) == d.type = "MiniFs"
IsDirDev(d) == d.type \in {"dir", "MiniFs", "Fat"}

FileIn(p) ==
    LET i == DeviceFromPath(devs, Dirname(p))
    IN  i # DevMax /\ IsVolume(devs[i]) /\ Basename(p) \in DOMAIN VolumeOn(i)

FileExists(p) == DeviceFromPath(devs, p) # DevMax \/ FileIn(p)

\* Mutant: a volume that can be written to is no exception.
CanOpenManyAlways(p) == TRUE

CanOpenMany(p) ==
    LET i == DeviceFromPath(devs, p)
        j == DeviceFromPath(devs, Dirname(p))
    IN  IF i # DevMax
        THEN IF devs[i].type = "char" THEN devs[i].many
             ELSE devs[i].type = "dir" \/ ~devs[i].writable
        ELSE j # DevMax /\ IsVolume(devs[j]) /\ ~devs[j].writable

\* The assertions of kernelFsFileReadOffset and kernelFsFileWriteOffset: the
\* remembered device is the file itself or the directory it is in.
Served(fd) ==
    /\ cached[fd] # DevMax
    /\ Used(devs[cached[fd]])
    /\ devs[cached[fd]].path \in {fdt[fd].path, Dirname(fdt[fd].path)}

IsChild(fd) == devs[cached[fd]].path # fdt[fd].path

\* The file of a volume that a descriptor reaches.
HasFile(fd) ==
    /\ Served(fd) /\ IsChild(fd) /\ IsVolume(devs[cached[fd]])
    /\ Basename(fdt[fd].path) \in DOMAIN VolumeOn(cached[fd])
BytesOf(fd) == VolumeOn(cached[fd])[Basename(fdt[fd].path)]
SetBytes(fd, bytes) ==
    stores' = [stores EXCEPT ![StoreOf(cached[fd])].files[Basename(fdt[fd].path)] = bytes]
-----------------------------------------------------------------------------
(* Circular buffers in a file: head offset, tail offset, buffer. Files are  *)
(* sequences; offset o of the buffer of a file of length n is at Place.     *)

OffsetSize(n) == IF n < ByteValues THEN 1 ELSE IF n < ByteValues * ByteValues THEN 2 ELSE 4
BufferSize(n) == n - 2 * OffsetSize(n)

IncOffset(n, o) == IF o < BufferSize(n) - 1 THEN o + 1 ELSE 0

\* Offsets are stored most significant byte first, in as many bytes as there are
\* (kernelFsFileReadByte, ReadWord, ReadDoubleWord and the same for writing).
GetOffset(bytes, at) ==
    LET B == ByteValues
    IN  CASE OffsetSize(Len(bytes)) = 1 -> bytes[at + 1]
          [] OffsetSize(Len(bytes)) = 2 -> bytes[at + 1] * B + bytes[at + 2]
          [] OffsetSize(Len(bytes)) = 4 -> ((bytes[at + 1] * B + bytes[at + 2]) * B + bytes[at + 3]) * B + bytes[at + 4]

Shifted(o) == o \div ByteValues
OffsetBytes(o, w) ==
    LET low(n) == n % ByteValues
    IN  CASE w = 1 -> << low(o) >>
          [] w = 2 -> << low(Shifted(o)), low(o) >>
          [] w = 4 -> << low(Shifted(Shifted(Shifted(o)))), low(Shifted(Shifted(o))), low(Shifted(o)), low(o) >>
SetOffset(bytes, at, o) ==
    LET data == OffsetBytes(o, OffsetSize(Len(bytes)))
    IN  [k \in DOMAIN bytes |-> IF k - at \in DOMAIN data THEN data[k - at] ELSE bytes[k]]

GetHead(bytes) == GetOffset(bytes, 0)
GetTail(bytes) == GetOffset(bytes, OffsetSize(Len(bytes)))
SetHead(bytes, o) == SetOffset(bytes, 0, o)
SetTail(bytes, o) == SetOffset(bytes, OffsetSize(Len(bytes)), o)
Place(bytes, o) == 2 * OffsetSize(Len(bytes)) + o + 1

\* One round of the writing loop; `tail' is written back after the last.
PushByte(acc, v) ==
    LET next == IncOffset(Len(acc.bytes), acc.tail)
    IN  IF acc.full \/ next = GetHead(acc.bytes) THEN [acc EXCEPT !.full = TRUE]
        ELSE [full |-> FALSE, tail |-> next, written |-> acc.written + 1,
              bytes |-> [acc.bytes EXCEPT ![Place(acc.bytes, acc.tail)] = v]]
PushAll(bytes, s) ==
    LET after[k \in 0 .. Len(s)] ==
          IF k = 0 THEN [full |-> FALSE, tail |-> GetTail(bytes), written |-> 0, bytes |-> bytes]
          ELSE PushByte(after[k - 1], s[k])
    IN  after[Len(s)]

RingContent(bytes) ==
    LET size == BufferSize(Len(bytes))
    IN  [k \in 1 .. ((GetTail(bytes) - GetHead(bytes)) % size) |->
            bytes[Place(bytes, (GetHead(bytes) + k - 1) % size)]]
-----------------------------------------------------------------------------
(* Opening and closing. *)

\* A path that no device serves is given up again.
MayOpenPath(p) ==
    /\ FileExists(p) /\ Taken(devs, p) # {}
    /\ FileIsOpen(fdt, p) => CanOpenMany(p)

\* The bound FdMax is in the first conjunct: what happens when no descriptor is
\* free is the subject of module FdTable.
OpenFile(p) ==
    /\ FreeFds(fdt) # {}
    /\ MayOpenPath(p)
    /\ fdt' = FileOpen(fdt, p, "RW")
    /\ cached' = [cached EXCEPT ![NewFd(fdt)] = DeviceFromPathRecursive(devs, p)]

Open(p) == OpenFile(p) /\ UNCHANGED <<devs, mounts, stores, sent, removals>>

CloseFile(fd) ==
    /\ fdt' = FileClose(fdt, fd)
    /\ cached' = [cached EXCEPT ![fd] = IF fdt[fd].ref = 1 THEN DevMax ELSE @]

HeldByMount(fd) == \E k \in DOMAIN mounts : mounts[k].fd = fd

\* A program closes a file it opened.
Close(fd) ==
    /\ InUse(fdt, fd) /\ ~HeldByMount(fd)
    /\ CloseFile(fd)
    /\ UNCHANGED <<devs, mounts, stores, sent, removals>>
-----------------------------------------------------------------------------
(* Adding and removing devices. *)

FreeDevs == {i \in DevIdx : ~Used(devs[i])}

MayAdd(dir) ==
    LET i == DeviceFromPath(devs, Parent(dir))
    IN  /\ ~FileExists(dir)
        /\ dir # Root => i # DevMax /\ IsDirDev(devs[i])
        /\ FreeDevs # {}

\* A ring can be followed while its device, its mount and its file are there.
RingAlive(dir) ==
    LET i == DeviceFromPath(devs, dir)
    IN  i # DevMax /\ devs[i].mount /\ devs[i].type = "char" /\ Mounted(i) /\ HasFile(devs[i].userData)
FollowRings == sent' = [dir \in RingDirs |-> IF RingAlive(dir)' THEN sent[dir] ELSE Lost]

MountDevice(r, fd, many) ==
    [type |-> TypeOfFormat(r.format), path |-> r.dir, mount |-> TRUE, userData |-> fd,
     writable |-> TRUE, many |-> many]

\* Whether what the backing file holds is accepted: miniFsMountSafe,
\* pTableParseEntryFd, fatMountSafe, and the least size of a ring.
Accepted(r) ==
    CASE r.format = "MiniFs" -> stores[r.device].kind = "volume"
      [] r.format = "Partition" -> stores[r.device].kind = "parted"
      [] r.format = "Fat" -> stores[r.device].kind = "fat"
      [] r.format = "FlatFile" -> TRUE
      [] r.format = "CircBuf" ->
            Len(VolumeOn(DeviceFromPath(devs, Dirname(r.device)))[Basename(r.device)]) >= 4

\* The backing file can be written through the descriptor the mount opens.
BackingWritable(r) ==
    r.format = "CircBuf" => devs[DeviceFromPath(devs, Dirname(r.device))].writable

AddMount(r, fd) ==
    /\ MayAdd(r.dir)
    /\ Accepted(r)
    /\ devs' = [devs EXCEPT ![Min(FreeDevs)] = MountDevice(r, fd, TRUE)]

\* Mutant: the offsets left in the file by an earlier use are kept.
ResetRingNever(r) == UNCHANGED stores

ResetRing(r) ==
    IF r.format = "CircBuf"
    THEN LET i == DeviceFromPath(devs, Dirname(r.device))
         IN  stores' = [stores EXCEPT ![StoreOf(i)].files[Basename(r.device)] = SetTail(SetHead(@, 0), 0)]
    ELSE UNCHANGED stores

Mount(r) ==
    /\ Len(mounts) < MountMax
    /\ OpenFile(r.device)
    /\ AddMount(r, NewFd(fdt))
    /\ BackingWritable(r)
    /\ mounts' = Append(mounts, [format |-> r.format, fd |-> NewFd(fdt)])
    /\ ResetRing(r)
    /\ sent' = IF r.format = "CircBuf" THEN [sent EXCEPT ![r.dir] = << >>] ELSE sent
    /\ UNCHANGED removals

\* The offsets cannot be written: the descriptor is closed and the table of
\* mounts shortened again, but the device stays. Every other failure undoes
\* all it did.
MountHalf(r) ==
    /\ Len(mounts) < MountMax
    /\ FreeFds(fdt) # {}
    /\ MayOpenPath(r.device)
    /\ AddMount(r, NewFd(fdt))
    /\ ~BackingWritable(r)
    /\ sent' = [sent EXCEPT ![r.dir] = Lost]
    /\ UNCHANGED <<fdt, cached, mounts, stores, removals>>

\* The mount that the user data of a device stands for; of any device.
MountOf(i) == {k \in DOMAIN mounts : mounts[k].fd = devs[i].userData}

\* Mutant: the last entry is dropped and not moved.
WithoutNoMove(k) == SubSeq(mounts, 1, Len(mounts) - 1)

Without(k) == SubSeq([mounts EXCEPT ![k] = mounts[Len(mounts)]], 1, Len(mounts) - 1)

Unmount(p) ==
    LET i == DeviceFromPath(devs, p) IN
    /\ removals < MaxRemovals
    /\ i # DevMax
    /\ MountOf(i) # {}
    /\ devs' = [devs EXCEPT ![i] = NoDev]
    /\ CloseFile(devs[i].userData)
    /\ mounts' = Without(Min(MountOf(i)))
    /\ UNCHANGED stores
    /\ FollowRings
    /\ removals' = removals + 1

DirIsEmpty(i) ==
    CASE devs[i].type = "MiniFs" -> DOMAIN VolumeOn(i) = {}
      [] devs[i].type = "Fat" -> TRUE \* a FAT volume without files
      [] OTHER -> \A j \in DevIdx : Used(devs[j]) /\ devs[j].path # Root => Parent(devs[j].path) # devs[i].path

\* kernelFsFileDelete of a device: the mount behind it, if any, stays.
DeleteDevice(p) ==
    LET i == DeviceFromPath(devs, p) IN
    /\ removals < MaxRemovals
    /\ i # DevMax
    /\ ~FileIsOpen(fdt, p)
    /\ IsDirDev(devs[i]) => DirIsEmpty(i)
    /\ devs' = [devs EXCEPT ![i] = NoDev]
    /\ UNCHANGED <<fdt, cached, mounts, stores>>
    /\ FollowRings
    /\ removals' = removals + 1
-----------------------------------------------------------------------------
(* Files of volumes. *)

CreateFile(p, n, v) ==
    LET i == DeviceFromPath(devs, Dirname(p)) IN
    /\ i # DevMax /\ IsVolume(devs[i]) /\ devs[i].writable
    /\ devs[i].mount => Mounted(i)
    /\ Basename(p) \notin DOMAIN VolumeOn(i)
    /\ Total(VolumeOn(i)) + n <= Room[StoreOf(i)]
    /\ stores' = [stores EXCEPT ![StoreOf(i)].files =
                    [name \in (DOMAIN @) \cup {Basename(p)} |->
                        IF name = Basename(p) THEN [k \in 1 .. n |-> v] ELSE @[name]]]
    /\ UNCHANGED <<devs, fdt, cached, mounts, sent, removals>>

DeleteFile(p) ==
    LET i == DeviceFromPath(devs, Dirname(p)) IN
    /\ DeviceFromPath(devs, p) = DevMax
    /\ ~FileIsOpen(fdt, p)
    /\ FileIn(p) /\ devs[i].writable
    /\ stores' = [stores EXCEPT ![StoreOf(i)].files =
                    [name \in (DOMAIN @) \ {Basename(p)} |-> @[name]]]
    /\ UNCHANGED <<devs, fdt, cached, mounts, sent, removals>>

\* A program writes a file from end to end.
WriteFile(fd, v) ==
    /\ InUse(fdt, fd) /\ ~HeldByMount(fd)
    /\ HasFile(fd) /\ devs[cached[fd]].writable
    /\ SetBytes(fd, [k \in DOMAIN BytesOf(fd) |-> v])
    /\ UNCHANGED <<devs, fdt, cached, mounts, sent, removals>>

\* A program writes over a flat device; a partition does not reach the table
\* that describes it.
WriteFlat(fd) ==
    LET d == devs[cached[fd]] IN
    /\ InUse(fdt, fd) /\ ~HeldByMount(fd)
    /\ Served(fd) /\ d.type = "flat"
    /\ d.mount => Mounted(cached[fd]) /\ \E k \in MountOf(cached[fd]) : mounts[k].format = "FlatFile"
    /\ stores' = [stores EXCEPT ![StoreOf(cached[fd])] = [kind |-> "junk", files |-> << >>]]
    /\ UNCHANGED <<devs, fdt, cached, mounts, sent, removals>>

\* The descriptor of the file that the ring device of another one keeps its bytes
\* in. A ring whose volume has gone is not followed any further.
RingFd(fd) == devs[cached[fd]].userData
IsRing(fd) ==
    /\ InUse(fdt, fd) /\ ~HeldByMount(fd)
    /\ Served(fd) /\ ~IsChild(fd)
    /\ devs[cached[fd]].type = "char" /\ devs[cached[fd]].mount
    /\ sent[fdt[fd].path] # Lost /\ HasFile(RingFd(fd))

RingRead(fd) ==
    /\ IsRing(fd)
    /\ LET bytes == BytesOf(RingFd(fd)) IN
       /\ GetHead(bytes) # GetTail(bytes)
       /\ SetBytes(RingFd(fd), SetHead(bytes, IncOffset(Len(bytes), GetHead(bytes))))
    /\ sent' = [sent EXCEPT ![fdt[fd].path] = Tail(@)]
    /\ UNCHANGED <<devs, fdt, cached, mounts, removals>>

RingWrite(fd, s) ==
    /\ IsRing(fd)
    /\ LET pushed == PushAll(BytesOf(RingFd(fd)), s) IN
       /\ pushed.written > 0
       /\ SetBytes(RingFd(fd), SetTail(pushed.bytes, pushed.tail))
       /\ sent' = [sent EXCEPT ![fdt[fd].path] = @ \o SubSeq(s, 1, pushed.written)]
    /\ UNCHANGED <<devs, fdt, cached, mounts, removals>>
-----------------------------------------------------------------------------
(* Remounting: the files of the old volume are copied to a new one. *)

IsDirFormat(format) == format \in {"MiniFs", "Fat"}

\* The tests before the new device file is opened, and the opening.
MayRemount(r) ==
    LET i == DeviceFromPath(devs, r.dir) IN
    /\ i # DevMax
    /\ MountOf(i) # {}
    /\ IsDirFormat(r.format) = IsDirFormat(mounts[Min(MountOf(i))].format)
    /\ FreeFds(fdt) # {}
    /\ MayOpenPath(r.device)

\* Mutant: room is looked for after the copy, not before.
FitsAlways(files, device) == TRUE

Fits(files, device) == Total(files) <= Room[device]

\* Mutant: the loop over the files ends one too early.
CopiedAllButLast(files, device) ==
    [n \in {m \in DOMAIN files : \E l \in DOMAIN files : l # m} |-> files[n]]

\* The files copied when the copy ends: all of them, or those that fitted.
Copied(files, device) ==
    IF Fits(files, device) THEN files
    ELSE LET names == CHOOSE S \in SUBSET DOMAIN files : Fits([n \in S |-> files[n]], device)
         IN  [n \in names |-> files[n]]
Formatted(files) == [kind |-> "volume", files |-> files]

\* The old volume is one that MiniFs made; a FAT volume would be read as if it were.
RemountMiniFs(r) ==
    LET i == DeviceFromPath(devs, r.dir)
        k == Min(MountOf(i))
        old == mounts[k].fd
        new == NewFd(fdt)
    IN
    /\ MayRemount(r)
    /\ r.format = "MiniFs" /\ devs[i].type = "MiniFs"
    /\ stores' = [stores EXCEPT ![r.device] = Formatted(Copied(VolumeOn(i), r.device))]
    /\ IF Fits(VolumeOn(i), r.device)
       THEN /\ mounts' = [mounts EXCEPT ![k] = [format |-> "MiniFs", fd |-> new]]
            /\ devs' = [devs EXCEPT ![i] = MountDevice(r, new, devs[i].many)]
            /\ fdt' = FileClose(FileOpen(fdt, r.device, "RW"), old)
            /\ cached' = [cached EXCEPT ![new] = DeviceFromPathRecursive(devs, r.device), ![old] = DevMax]
       ELSE UNCHANGED <<mounts, devs, fdt, cached>>
    /\ UNCHANGED <<sent, removals>>

\* A FAT volume cannot be made: the new device file stays open.
RemountFails(r) ==
    /\ MayRemount(r)
    /\ r.format = "Fat"
    /\ OpenFile(r.device)
    /\ UNCHANGED <<devs, mounts, stores, sent, removals>>
-----------------------------------------------------------------------------
BootDevice(b) ==
    [type |-> b.type, path |-> b.path, mount |-> FALSE, userData |-> b.userData,
     writable |-> b.writable, many |-> b.many]

Init ==
    /\ devs = [i \in DevIdx |-> IF i < Len(BootDevices) THEN BootDevice(BootDevices[i + 1]) ELSE NoDev]
    /\ fdt = EmptyTable
    /\ cached = [fd \in Fds |-> DevMax]
    /\ mounts = << >>
    /\ stores \in InitStores
    /\ sent = [dir \in RingDirs |-> Lost]
    /\ removals = 0

Next ==
    \/ \E r \in Requests : Mount(r) \/ MountHalf(r) \/ RemountMiniFs(r) \/ RemountFails(r)
    \/ \E p \in Unmounted : Unmount(p)
    \/ \E p \in Deleted : DeleteDevice(p)
    \/ \E p \in Opened : Open(p)
    \/ \E p \in Created : DeleteFile(p) \/ \E n \in Sizes, v \in Data : CreateFile(p, n, v)
    \/ \E fd \in ValidFds : Close(fd) \/ WriteFlat(fd) \/ RingRead(fd) \/ \E v \in Data : WriteFile(fd, v)
    \/ \E fd \in ValidFds, s \in Pushes : RingWrite(fd, s)

Spec == Init /\ [][Next]_vars
-----------------------------------------------------------------------------
Devices ==
    [type : {"dir", "char", "flat", "MiniFs", "Fat"}, path : Paths, mount : BOOLEAN, userData : Nat,
     writable : BOOLEAN, many : BOOLEAN]

TypeOK ==
    /\ devs \in [DevIdx -> Devices \cup {NoDev}]
    /\ fdt \in Tables
    /\ cached \in [Fds -> DevIdx \cup {DevMax}]
    /\ Len(mounts) <= MountMax
    /\ \A k \in DOMAIN mounts : mounts[k].fd \in ValidFds
    /\ DOMAIN stores = StorePaths
    /\ \A p \in StorePaths : Total(stores[p].files) <= Room[p]

\* The assertions at kernelfs.c:909, 946, 1024, 1090 and 1131: the device that
\* an open file remembers is its own or its directory's.
OpenFilesAreServed == \A fd \in ValidFds : InUse(fdt, fd) => Served(fd)

\* The same over time: a file is served when it is opened, and stays so while
\* others mount, unmount, remount and delete, unless its own device is removed.
ServedUntilRemoved ==
    [][\A fd \in ValidFds :
          InUse(fdt, fd)' /\ (InUse(fdt, fd) => Served(fd))
             => Served(fd)' \/ (cached[fd] # DevMax /\ Used(devs[cached[fd]]) /\ ~Used(devs'[cached[fd]]))]_vars

\* While a ring is mounted and its volume is, its file holds exactly the bytes
\* that writers were told are written and no reader has been given, in order.
RingHoldsWhatWasSent ==
    \A i \in DevIdx :
        Used(devs[i]) /\ devs[i].path \in RingDirs /\ devs[i].type = "char" /\ sent[devs[i].path] # Lost
            => RingContent(BytesOf(devs[i].userData)) = sent[devs[i].path]

\* A mounted volume is never written over as a flat device, formatted or lost.
MountedVolumesIntact ==
    \A i \in DevIdx :
        Used(devs[i]) /\ devs[i].mount /\ IsVolume(devs[i]) /\ Mounted(i) => stores[StoreOf(i)].kind = "volume"

\* When the backing file of a mounted volume is exchanged, the directory shows
\* the same files with the same bytes as before.
RemountKeepsFiles ==
    [][\A i \in DevIdx :
          (/\ Used(devs[i]) /\ Used(devs'[i])
           /\ devs[i].mount /\ IsVolume(devs[i]) /\ devs[i].path = devs'[i].path
           /\ devs[i].userData # devs'[i].userData)
             => VolumeOn(i)' = VolumeOn(i)]_vars

\* Devices that were mounted and whose functors fail the assertion that there
\* is a mount of their format.
Orphans == {i \in DevIdx : Used(devs[i]) /\ devs[i].mount /\ ~Mounted(i)}

\* It starts in three ways only: with a ring on a file that cannot be written;
\* with unmounting a device that nobody mounted but whose user data is the number
\* of a mount's descriptor; and, once a mount has got the descriptor that such an
\* orphan still names, with unmounting or remounting either of the two. In the last
\* two another device with the same user data is removed or changed.
OrphansHaveACause ==
    [][Orphans = {} =>
         \A i \in Orphans' :
            \/ ~Used(devs[i]) /\ devs'[i].type = "char"
            \/ \E j \in DevIdx \ {i} :
                  Used(devs[j]) /\ devs[j].userData = devs[i].userData /\ devs'[j] # devs[j]]_vars
=============================================================================

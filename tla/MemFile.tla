------------------------------- MODULE MemFile -------------------------------
(***************************************************************************)
(* The files of the VFS that are not the shared main.db: private buffers   *)
(* of one connection (export databases, journals) and anonymous temporary  *)
(* files, which live in one of the few OPFS scratch files a worker opens   *)
(* when it starts and reuses from then on, or in a private buffer when the *)
(* pool is exhausted.                                                      *)
(*                                                                         *)
(* Everything one worker does: open, read, write, truncate and close of    *)
(* sqlite3_vfs_mem.c, the pool of replay-worker.js behind it, and the      *)
(* worker going away with files open and another starting on the same OPFS *)
(* names.  An offset counts units of FirstBuffer = 4096 bytes; a write     *)
(* stores one value throughout.  Bytes past a buffer's end do not exist,   *)
(* an OPFS file zero-fills a gap (external).                               *)
(***************************************************************************)
EXTENDS Naturals

CONSTANTS
    Files,      \* the MemFile structs a connection may have open
    Slots,      \* the scratch files of the pool are 1..Slots
    Byte, Zero, \* values of a byte, one of them zero
    Capacities, \* the lengths of a private buffer: none, FirstBuffer, its doubles
    MaxSize,    \* bound: no file grows past this many units
    NotOpen

VARIABLES
    memFiles, \* the MemFile of each open file
    pool,     \* opfsTempPool: whether a slot is in use, and its file's bytes
    up        \* the worker runs, its pool is open

filesVars == <<memFiles, pool, up>>

FileContent == UNION {[0 .. n - 1 -> Byte] : n \in 0 .. MaxSize}

Private == [kind : {"private"}, size : 0 .. MaxSize,
            data : UNION {[0 .. n - 1 -> Byte] : n \in Capacities}]
Temp == [kind : {"temp"}, size : 0 .. MaxSize, handle : 1 .. Slots]

Empty == [i \in 0 .. 0 - 1 |-> Zero]
NewPrivate == [kind |-> "private", size |-> 0, data |-> Empty]

ASSUME MemFileAssumption ==
    /\ Slots \in Nat /\ MaxSize \in Nat /\ Zero \in Byte
    /\ 0 \in Capacities /\ Capacities \subseteq Nat
    /\ \A n \in 1 .. MaxSize : \E c \in Capacities : c >= n
    /\ NotOpen \notin FileContent \cup Private \cup Temp

IsOpen(f) == memFiles[f] # NotOpen
Larger(a, b) == IF a > b THEN a ELSE b
LengthOf(c) == CHOOSE n \in (0 .. MaxSize) \cup Capacities : DOMAIN c = 0 .. n - 1
-----------------------------------------------------------------------------
(* The scratch pool of replay-worker.js *)

\* FileSystemSyncAccessHandle.write: a gap before o becomes zeroes.
HandleWrite(c, o, n, b) ==
    [i \in 0 .. Larger(o + n, LengthOf(c)) - 1 |->
        IF i \in o .. o + n - 1 THEN b ELSE IF i \in DOMAIN c THEN c[i] ELSE Zero]

\* FileSystemSyncAccessHandle.truncate, downwards.
HandleTruncate(c, n) == [i \in 0 .. n - 1 |-> c[i]]

FreeSlots == {s \in 1 .. Slots : ~pool[s].inUse}

\* js_opfs_temp_open: the first slot not in use, 0 (-1 in the code) if none.
TempOpen == IF FreeSlots = {} THEN 0
            ELSE CHOOSE s \in FreeSlots : \A t \in FreeSlots : s <= t

\* js_opfs_temp_close: the file is emptied, not removed.
TempClosed(slot) == [inUse |-> FALSE, bytes |-> HandleTruncate(slot.bytes, 0)]

\* openOpfsTempPool: what an earlier worker left in the file is cut off.
PoolSlot(slot) == [inUse |-> FALSE, bytes |-> HandleTruncate(slot.bytes, 0)]
-----------------------------------------------------------------------------
(* The private buffer *)

\* memGrow: doubles from the first page on, and zeroes what it adds.
GrownTo(needed) ==
    CHOOSE n \in Capacities : n >= needed /\ \A m \in Capacities : m >= needed => n <= m

\* Mutated form of Grow: a new buffer, without the bytes of the old.
GrowFresh(data, needed) ==
    IF needed <= LengthOf(data) THEN data ELSE [i \in 0 .. GrownTo(needed) - 1 |-> Zero]
Grow(data, needed) ==
    IF needed <= LengthOf(data) THEN data
    ELSE [i \in 0 .. GrownTo(needed) - 1 |-> IF i \in DOMAIN data THEN data[i] ELSE Zero]

\* The memcpy of memWrite.
Store(data, o, n, b) == [i \in DOMAIN data |-> IF i \in o .. o + n - 1 THEN b ELSE data[i]]

\* The memset of memTruncate.
Cleared(data, from, to) == [i \in DOMAIN data |-> IF i \in from .. to - 1 THEN Zero ELSE data[i]]
-----------------------------------------------------------------------------
FilesInit ==
    /\ memFiles = [f \in Files |-> NotOpen]
    /\ pool = [s \in 1 .. Slots |-> [inUse |-> FALSE, bytes |-> Empty]]
    /\ up = TRUE

\* memOpen with a name that is not main.db.
OpenNamed(f) ==
    /\ up /\ ~IsOpen(f)
    /\ memFiles' = [memFiles EXCEPT ![f] = NewPrivate]
    /\ UNCHANGED <<pool, up>>

\* memOpen without a name.
OpenAnonymous(f) ==
    /\ up /\ ~IsOpen(f)
    /\ \/ /\ TempOpen = 0
          /\ memFiles' = [memFiles EXCEPT ![f] = NewPrivate]
          /\ UNCHANGED pool
       \/ /\ TempOpen # 0
          /\ memFiles' = [memFiles EXCEPT ![f] = [kind |-> "temp", size |-> 0, handle |-> TempOpen]]
          /\ pool' = [pool EXCEPT ![TempOpen].inUse = TRUE]
    /\ UNCHANGED up

\* memWrite; a buffer that cannot grow answers SQLITE_NOMEM and stays.
MemWrite(f, o, n, b) ==
    /\ up /\ IsOpen(f)
    /\ o + n <= MaxSize
    /\ \/ /\ memFiles[f].kind = "temp"
          /\ pool' = [pool EXCEPT ![memFiles[f].handle].bytes = HandleWrite(@, o, n, b)]
          /\ memFiles' = [memFiles EXCEPT ![f].size = Larger(@, o + n)]
       \/ /\ memFiles[f].kind = "private"
          /\ memFiles' = [memFiles EXCEPT ![f].data = Store(Grow(@, o + n), o, n, b),
                                          ![f].size = Larger(@, o + n)]
          /\ UNCHANGED pool
       \/ /\ memFiles[f].kind = "private" /\ o + n > LengthOf(memFiles[f].data)
          /\ UNCHANGED <<memFiles, pool>>
    /\ UNCHANGED up

\* memTruncate; SQLite only ever shrinks a file with it.
MemTruncate(f, n) ==
    /\ up /\ IsOpen(f)
    /\ n <= memFiles[f].size
    /\ \/ /\ memFiles[f].kind = "temp"
          /\ pool' = [pool EXCEPT ![memFiles[f].handle].bytes = HandleTruncate(@, n)]
          /\ memFiles' = [memFiles EXCEPT ![f].size = n]
       \/ /\ memFiles[f].kind = "private"
          /\ memFiles' = [memFiles EXCEPT ![f].data = Cleared(@, n, memFiles[f].size), ![f].size = n]
          /\ UNCHANGED pool
    /\ UNCHANGED up

\* memClose: the buffer is freed, or the slot given back.
MemClose(f) ==
    /\ up /\ IsOpen(f)
    /\ memFiles' = [memFiles EXCEPT ![f] = NotOpen]
    /\ IF memFiles[f].kind = "temp"
       THEN pool' = [pool EXCEPT ![memFiles[f].handle] = TempClosed(@)]
       ELSE UNCHANGED pool
    /\ UNCHANGED up

\* The shutdown handler of the worker, or the end of its page: the handles
\* are closed and the instance is gone, what the scratch files hold stays.
Shutdown ==
    /\ up
    /\ up' = FALSE
    /\ memFiles' = [f \in Files |-> NotOpen]
    /\ UNCHANGED pool

\* bootstrap of the worker that takes the same thread number.
Bootstrap ==
    /\ ~up
    /\ up' = TRUE
    /\ pool' = [s \in 1 .. Slots |-> PoolSlot(pool[s])]
    /\ UNCHANGED memFiles

FilesNext ==
    \/ \E f \in Files :
          \/ OpenNamed(f) \/ OpenAnonymous(f) \/ MemClose(f)
          \/ \E o \in 0 .. MaxSize - 1, n \in 1 .. MaxSize, b \in Byte : MemWrite(f, o, n, b)
          \/ \E n \in 0 .. MaxSize : MemTruncate(f, n)
    \/ Shutdown
    \/ Bootstrap

FilesSpec == FilesInit /\ [][FilesNext]_filesVars
-----------------------------------------------------------------------------
(* memRead of one unit: what is at or past the file's size reads as zero *)
MemRead(f, o) ==
    IF o >= memFiles[f].size THEN Zero
    ELSE IF memFiles[f].kind = "temp" THEN pool[memFiles[f].handle].bytes[o]
    ELSE memFiles[f].data[o]

FilesTypeOK ==
    /\ memFiles \in [Files -> {NotOpen} \cup Private \cup Temp]
    /\ pool \in [1 .. Slots -> [inUse : BOOLEAN, bytes : FileContent]]
    /\ up \in BOOLEAN

\* A scratch file in use belongs to exactly one open file, whatever the order
\* files are opened and closed in, and is as long as that file is; one that
\* is free is empty (js_opfs_temp_open hands it out without looking).
SlotsHaveOneOwner ==
    \A s \in 1 .. Slots : up =>
        LET owners == {f \in Files : IsOpen(f) /\ memFiles[f].kind = "temp" /\ memFiles[f].handle = s}
        IN IF pool[s].inUse
           THEN \E f \in Files : owners = {f} /\ DOMAIN pool[s].bytes = 0 .. memFiles[f].size - 1
           ELSE owners = {} /\ pool[s].bytes = Empty

\* What a buffer holds past the file's size is zero: a later write beyond the
\* end exposes it (memGrow's and memTruncate's memset, memWrite's hole), and
\* wasm_vfs_get_private_buffer hands size bytes of it to the exporter.
TailsAreClean ==
    \A f \in Files : IsOpen(f) /\ memFiles[f].kind = "private" =>
        /\ memFiles[f].size <= LengthOf(memFiles[f].data)
        /\ \A i \in DOMAIN memFiles[f].data : i >= memFiles[f].size => memFiles[f].data[i] = Zero

\* What the VFS keeps of its private and temporary files is in order.
FilesAreKept == FilesTypeOK /\ SlotsHaveOneOwner /\ TailsAreClean

\* The content of a file is what reads of it return.
Contents == [f \in Files |-> IF IsOpen(f) THEN [o \in 0 .. memFiles[f].size - 1 |-> MemRead(f, o)]
                             ELSE NotOpen]

Store0 == INSTANCE FileStore WITH file <- Contents

\* Private and temporary files are files in the sense of FileStore.tla, open,
\* write, failed write, truncate, close and the worker's end included, although
\* a buffer may refuse to grow and a scratch slot outlives its file and its
\* worker (memOpen to memClose of sqlite3_vfs_mem.c, js_opfs_temp_open).
FilesAreFiles == []FilesAreKept /\ Store0!FsSpec
=============================================================================

----------------------------- MODULE SharedFile -----------------------------
(***************************************************************************)
(* The shared main.db file as the VFS serves it: the OPFS file, its size   *)
(* (g_region_a_size), and in front of it one small write-through page      *)
(* cache per thread (src/sqlite3/sqlite3_vfs_mem.c), under the lock of     *)
(* VfsLock.  A thread has one connection on main.db at a time, so its      *)
(* cache belongs to its handle.                                            *)
(*                                                                         *)
(* The content of a page is abstracted to the number of the write that put *)
(* it there, 0 for bytes never written.  SQLite's pager calls xRead only   *)
(* at SHARED or above, and xWrite and xTruncate only at EXCLUSIVE.         *)
(***************************************************************************)
EXTENDS VfsLock

CONSTANTS PageCount,    \* pages 0..PageCount-1 exist
          CachePages,   \* OPFS_CACHE_PAGES
          MaxWrites     \* bound of the model: how many xWrite calls happen

ASSUME BoundsOK == /\ PageCount \in Nat \ {0}
                   /\ CachePages \in Nat \ {0}
                   /\ MaxWrites \in Nat

Page == 0 .. PageCount - 1
Slot == 0 .. CachePages - 1
Content == 0 .. MaxWrites
EmptySlot == [page_no |-> -1, data |-> 0]

VARIABLES file,        \* content of each page of the OPFS file
          size,        \* g_region_a_size, in pages
          cache,       \* g_opfs_cache of each thread
          clock,       \* g_opfs_clock of each thread, modulo CachePages
          writes,      \* number of xWrite calls so far
          overlapped   \* ghost: did a writer at EXCLUSIVE coexist with this
                       \* holder at any time since it acquired SHARED?

fileVars == <<file, size, cache, clock, writes>>
vars == <<lockVars, fileVars, overlapped>>

FileInit == /\ Init
            /\ file = [p \in Page |-> 0]
            /\ size = 0
            /\ cache = [c \in Conn |-> [s \in Slot |-> EmptySlot]]
            /\ clock = [c \in Conn |-> 0]
            /\ writes = 0
            /\ overlapped = [c \in Conn |-> FALSE]

-----------------------------------------------------------------------------
\* opfs_cache_invalidate_all of thread c.
Invalidated(c) == [cache EXCEPT ![c] = [s \in Slot |-> EmptySlot]]

\* Is page p in a slot of thread c (opfs_cache_find_only)?
Cached(c, p) == \E s \in Slot : cache[c][s].page_no = p

\* The SHARED request: its second half drops the thread's whole cache.
LockShared(c) == /\ SharedAdd(c)
                 /\ cache' = Invalidated(c)
                 /\ UNCHANGED <<file, size, clock, writes>>

\* Every other step of the lock leaves the file and the caches alone.
OtherLockStep(c) ==
    /\ \/ SharedTest(c) \/ Reserve(c) \/ ExclusiveTest(c) \/ ExclusiveStore(c)
       \/ Downgrade(c)  \/ UnlockStore(c) \/ UnlockSub(c)
    /\ UNCHANGED fileVars

\* memRead of page p below the size: a miss fills the slot under the clock
\* hand.  (A hit, and a read at or above the size, change nothing.)
Read(c, p) ==
    /\ pc[c] = "idle"
    /\ lock_level[c] >= SHARED
    /\ p < size
    /\ ~Cached(c, p)
    /\ cache' = [cache EXCEPT ![c][clock[c]] = [page_no |-> p, data |-> file[p]]]
    /\ clock' = [clock EXCEPT ![c] = (@ + 1) % CachePages]
    /\ UNCHANGED <<lockVars, file, size, writes>>

\* Mutated form of Refreshed: write-through that forgets the cached copy.
RefreshedNever(c, p, v) == cache

\* opfs_write_bytes after js_opfs_write: a slot that already holds the page is
\* given the new content too.
Refreshed(c, p, v) ==
    [cache EXCEPT ![c] = [s \in Slot |->
        IF cache[c][s].page_no = p THEN [page_no |-> p, data |-> v] ELSE cache[c][s]]]

\* memWrite of page p: through to the file, then the cached copy, then the
\* size grows to the end of the write if it was smaller.
Write(c, p) ==
    /\ pc[c] = "idle"
    /\ lock_level[c] = EXCLUSIVE
    /\ writes < MaxWrites
    /\ writes' = writes + 1
    /\ file' = [file EXCEPT ![p] = writes + 1]
    /\ cache' = Refreshed(c, p, writes + 1)
    /\ size' = IF p + 1 > size THEN p + 1 ELSE size
    /\ UNCHANGED <<lockVars, clock>>

\* memTruncate to n pages: the tail is gone from the file, and this thread's
\* whole cache with it.
Truncate(c, n) ==
    /\ pc[c] = "idle"
    /\ lock_level[c] = EXCLUSIVE
    /\ n < size
    /\ file' = [p \in Page |-> IF p < n THEN file[p] ELSE 0]
    /\ size' = n
    /\ cache' = Invalidated(c)
    /\ UNCHANGED <<lockVars, clock, writes>>

FileStep == \E c \in Conn :
    \/ LockShared(c)
    \/ OtherLockStep(c)
    \/ \E p \in Page : Read(c, p) \/ Write(c, p)
    \/ \E n \in Page : Truncate(c, n)

\* Does a writer at EXCLUSIVE coexist with holder c?
Overlap(c) == /\ lock_level[c] >= SHARED
              /\ \E w \in Conn \ {c} : lock_level[w] = EXCLUSIVE /\ Owns(w)

FileNext == /\ FileStep
            /\ overlapped' = [c \in Conn |->
                   lock_level'[c] >= SHARED /\ (overlapped[c] \/ Overlap(c)')]

FileSpec == FileInit /\ [][FileNext]_vars

-----------------------------------------------------------------------------
TypeOK ==
    /\ LockTypeOK
    /\ file \in [Page -> Content]
    /\ size \in 0 .. PageCount
    /\ cache \in [Conn -> [Slot -> [page_no : Page \cup {-1}, data : Content]]]
    /\ clock \in [Conn -> Slot]
    /\ writes \in Content
    /\ overlapped \in [Conn -> BOOLEAN]

\* A thread that may read never has a stale copy of a page of the file: what
\* xRead returns from the cache is what the file holds.  The cache relies on
\* the lock alone, and the promise is conditional on what the lock gives: it
\* can fail only for a holder that coexisted with a writer at EXCLUSIVE.
CoherentUnlessOverlapped ==
    \A c \in Conn : lock_level[c] >= SHARED /\ ~overlapped[c] =>
        \A s \in Slot : LET slot == cache[c][s] IN
            slot.page_no \in 0 .. size - 1 => slot.data = file[slot.page_no]
=============================================================================

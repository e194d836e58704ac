------------------------------ MODULE VfsLock ------------------------------
(***************************************************************************)
(* The lock of the one shared main.db file (src/sqlite3/sqlite3_vfs_mem.c).*)
(*                                                                         *)
(* Every connection is one MemFile handle with a private lock_level; all   *)
(* handles share two atomics, shared_count and exclusive_kind.  There is   *)
(* no mutex around the pair: an operation is a few separate atomic         *)
(* accesses, and other threads run between them.  Each action below is the *)
(* code from one access of an atomic up to the next one, so an operation   *)
(* that tests one atomic and then writes another is two actions, with pc   *)
(* recording that a handle stands between them.                            *)
(*                                                                         *)
(* The requests are those of SQLite's pager (sqlite3.c:60796, asserted at  *)
(* 60799): SHARED, RESERVED and EXCLUSIVE.  It never asks for PENDING, so  *)
(* that case of memLockShared is unreachable and exclusive_kind is never   *)
(* PENDING.  A request at or below the level held, SQLITE_BUSY and         *)
(* SQLITE_MISUSE change nothing: they are stuttering steps.                *)
(***************************************************************************)
EXTENDS Integers, FiniteSets

CONSTANTS Conn,    \* the handles open on main.db, one per connection
          Writer   \* those opened SQLITE_OPEN_READWRITE

ASSUME ConnFinite == IsFiniteSet(Conn)
ASSUME WriterIsConn == Writer \subseteq Conn

\* SQLite's lock levels, SQLITE_LOCK_NONE .. SQLITE_LOCK_EXCLUSIVE.
NONE      == 0
SHARED    == 1
RESERVED  == 2
PENDING   == 3
EXCLUSIVE == 4

Level == {NONE, SHARED, RESERVED, EXCLUSIVE}

VARIABLES shared_count,    \* g_region_a_lock.shared_count
          exclusive_kind,  \* g_region_a_lock.exclusive_kind
          lock_level,      \* MemFile.lock_level of each handle
          pc               \* where the handle stands inside an operation

lockVars == <<shared_count, exclusive_kind, lock_level, pc>>

Init == /\ shared_count = 0
        /\ exclusive_kind = NONE
        /\ lock_level = [c \in Conn |-> NONE]
        /\ pc = [c \in Conn |-> "idle"]

-----------------------------------------------------------------------------
(* memLockShared                                                           *)

\* case SQLITE_LOCK_SHARED, up to the test of exclusive_kind.
SharedTest(c) ==
    /\ pc[c] = "idle"
    /\ lock_level[c] < SHARED
    /\ exclusive_kind \notin {PENDING, EXCLUSIVE}
    /\ pc' = [pc EXCEPT ![c] = "shared"]
    /\ UNCHANGED <<shared_count, exclusive_kind, lock_level>>

\* ... and from atomic_fetch_add to the return of SQLITE_OK.
SharedAdd(c) ==
    /\ pc[c] = "shared"
    /\ shared_count' = shared_count + 1
    /\ lock_level' = [lock_level EXCEPT ![c] = SHARED]
    /\ pc' = [pc EXCEPT ![c] = "idle"]
    /\ UNCHANGED exclusive_kind

\* case SQLITE_LOCK_RESERVED: one compare-and-swap from 0.
Reserve(c) ==
    /\ c \in Writer
    /\ pc[c] = "idle"
    /\ lock_level[c] = SHARED
    /\ exclusive_kind = NONE
    /\ exclusive_kind' = RESERVED
    /\ lock_level' = [lock_level EXCEPT ![c] = RESERVED]
    /\ UNCHANGED <<shared_count, pc>>

\* case SQLITE_LOCK_EXCLUSIVE, up to the test of shared_count.
ExclusiveTest(c) ==
    /\ pc[c] = "idle"
    /\ lock_level[c] = RESERVED
    /\ shared_count <= 1
    /\ pc' = [pc EXCEPT ![c] = "exclusive"]
    /\ UNCHANGED <<shared_count, exclusive_kind, lock_level>>

\* Mutated form of ExclusiveStore: only the handle learns of the new level.
ExclusiveStorePrivately(c) ==
    /\ pc[c] = "exclusive"
    /\ lock_level' = [lock_level EXCEPT ![c] = EXCLUSIVE]
    /\ pc' = [pc EXCEPT ![c] = "idle"]
    /\ UNCHANGED <<shared_count, exclusive_kind>>

\* ... and from the store of EXCLUSIVE to the return of SQLITE_OK.
ExclusiveStore(c) ==
    /\ pc[c] = "exclusive"
    /\ exclusive_kind' = EXCLUSIVE
    /\ lock_level' = [lock_level EXCEPT ![c] = EXCLUSIVE]
    /\ pc' = [pc EXCEPT ![c] = "idle"]
    /\ UNCHANGED shared_count

-----------------------------------------------------------------------------
(* memUnlockShared, which memClose also calls (with SQLITE_LOCK_NONE).     *)

\* Down to SHARED: only the exclusive half is released.
Downgrade(c) ==
    /\ pc[c] = "idle"
    /\ lock_level[c] >= RESERVED
    /\ exclusive_kind' = NONE
    /\ lock_level' = [lock_level EXCEPT ![c] = SHARED]
    /\ UNCHANGED <<shared_count, pc>>

\* Mutated form of UnlockStore: the two halves in the other order.
UnlockStoreLate(c) ==
    /\ pc[c] = "idle"
    /\ lock_level[c] >= RESERVED
    /\ shared_count' = shared_count - 1
    /\ lock_level' = [lock_level EXCEPT ![c] = NONE]
    /\ UNCHANGED <<exclusive_kind, pc>>

\* Down to NONE from RESERVED or above, first half: the store of 0.
UnlockStore(c) ==
    /\ pc[c] = "idle"
    /\ lock_level[c] >= RESERVED
    /\ exclusive_kind' = NONE
    /\ pc' = [pc EXCEPT ![c] = "release"]
    /\ UNCHANGED <<shared_count, lock_level>>

\* Mutated form of UnlockSub: without the early return of a handle that holds
\* nothing, which memClose would reach on every close.
UnlockSubAlways(c) ==
    /\ pc[c] \in {"release", "idle"}
    /\ shared_count' = shared_count - 1
    /\ lock_level' = [lock_level EXCEPT ![c] = NONE]
    /\ pc' = [pc EXCEPT ![c] = "idle"]
    /\ UNCHANGED exclusive_kind

\* Down to NONE, from atomic_fetch_sub on: the second half of the case above,
\* and all of the case of a plain SHARED holder.
UnlockSub(c) ==
    /\ \/ pc[c] = "release"
       \/ pc[c] = "idle" /\ lock_level[c] = SHARED
    /\ shared_count' = shared_count - 1
    /\ lock_level' = [lock_level EXCEPT ![c] = NONE]
    /\ pc' = [pc EXCEPT ![c] = "idle"]
    /\ UNCHANGED exclusive_kind

-----------------------------------------------------------------------------
\* memCheckReservedLock: does some other connection hold RESERVED or more?
CheckReservedLock(c) == lock_level[c] < RESERVED /\ exclusive_kind # NONE

Next == \E c \in Conn :
            \/ SharedTest(c)    \/ SharedAdd(c)   \/ Reserve(c)
            \/ ExclusiveTest(c) \/ ExclusiveStore(c)
            \/ Downgrade(c)     \/ UnlockStore(c) \/ UnlockSub(c)

Spec == Init /\ [][Next]_lockVars

-----------------------------------------------------------------------------
LockTypeOK ==
    /\ shared_count \in Nat
    /\ exclusive_kind \in Level
    /\ lock_level \in [Conn -> Level]
    /\ pc \in [Conn -> {"idle", "shared", "exclusive", "release"}]

Holders == {c \in Conn : lock_level[c] >= SHARED}

\* A handle that owns exclusive_kind: RESERVED or above, and not yet past the
\* store of 0 in memUnlockShared.
Owns(c) == lock_level[c] >= RESERVED /\ pc[c] # "release"

\* shared_count is the number of handles at SHARED or above, whatever the
\* interleaving: no operation leaks or double-counts a holder (the leak that
\* the comment in memClose tells of breaks it).
SharedCountExact == shared_count = Cardinality(Holders)

\* At most one handle is the writer, although RESERVED is taken by one
\* compare-and-swap and given back by a plain store.
OneWriter == \A c, d \in Conn : Owns(c) /\ Owns(d) => c = d

\* exclusive_kind neither outlives its owner nor lags behind its level; hence
\* xCheckReservedLock answers for the other handles alone: true exactly when
\* one of them is the writer, at any point of that writer's operations.
KindIsOwnersLevel ==
    /\ \A c \in Conn : Owns(c) => exclusive_kind = lock_level[c]
    /\ \A c \in Conn : lock_level[c] < RESERVED =>
          (CheckReservedLock(c) <=> \E d \in Conn \ {c} : Owns(d))

\* The atomics say what the levels of the handles say, in every interleaving of
\* memLock, memUnlock and memClose: nobody leaks, and nobody is locked out.
LockIsExact == SharedCountExact /\ OneWriter /\ KindIsOwnersLevel

\* What exclusion the two separate atomics do give.  A writer at EXCLUSIVE
\* with no other holder and nobody between the two halves of a SHARED request
Alone(w) == /\ lock_level[w] = EXCLUSIVE
            /\ pc[w] = "idle"
            /\ \A c \in Conn \ {w} : lock_level[c] < SHARED /\ pc[c] # "shared"

\* stays alone until it unlocks itself: no later request of another handle, in
\* any interleaving, ends its exclusion.
StaysAlone ==
    [][\A w \in Conn : Alone(w) =>
          Alone(w)' \/ lock_level'[w] < EXCLUSIVE \/ pc'[w] # "idle"]_lockVars

\* What the comment at sqlite3_vfs_mem.c:459-467 says of the lock: SQLite's
\* standard protocol "enforced for real".  In that protocol the holder of
\* EXCLUSIVE is the only holder.  The code does not meet it.
ExclusiveIsExclusive ==
    \A c, d \in Conn : c # d =>
        ~(lock_level[c] = EXCLUSIVE /\ Owns(c) /\ lock_level[d] >= SHARED)
=============================================================================

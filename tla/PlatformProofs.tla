---------------------------- MODULE PlatformProofs ----------------------------
(***************************************************************************)
(* Proofs about what the program has for an operating system: the lock of  *)
(* the shared main.db file with its page caches (VfsLock, SharedFile), the *)
(* mutexes of the worker threads (Mutex), the heap (Heap), and the files   *)
(* that are not main.db (MemFile).                                         *)
(*                                                                         *)
(* The lock, for any finite set of connections and any subset of writers:  *)
(* LockInv is the inductive invariant, and every theorem about the lock    *)
(* follows from it.  Then SharedFile: its lock steps are those of VfsLock, *)
(* so the theorems hold of it, and the page caches are coherent wherever   *)
(* the lock gave exclusion, for any number of pages, cache slots and       *)
(* writes.                                                                 *)
(*                                                                         *)
(* The mutexes, for any threads, any pool and any number of static ones.   *)
(* Exclusion is not inductive by itself: a thread occupies a mutex from    *)
(* its exchange to its unlocking, also while the owner written in the      *)
(* mutex is not, or no longer, that thread.  MutexInv relates lock, owner, *)
(* depth and calls in each of these states.  It says nothing of a static   *)
(* mutex that has misled the loader, and does not need to: no other mutex  *)
(* is affected.                                                            *)
(*                                                                         *)
(* The heap, for any memory, page size and set of requests, in both        *)
(* builds.  HeapIsExact follows the tags from chunk to chunk, by a         *)
(* recursive function, and is not a form to reason about: HeapSound says   *)
(* the same of some set C of chunks that tile the regions, and is          *)
(* inductive.  The lemmas on the walk then show that it visits C and       *)
(* nothing else.  Each operation is a lemma that keeps HeapSound and that  *)
(* says what it does to the blocks: an allotment, a release or a resizing, *)
(* which are the steps of Allocator.                                       *)
(*                                                                         *)
(* The files, for any number of them, of scratch files and of sizes a      *)
(* buffer may grow to.  FilesInv is inductive, and each operation has a    *)
(* lemma that keeps it and that says what becomes of the bytes reads       *)
(* return: a step of FileStore.                                            *)
(***************************************************************************)
EXTENDS SharedFile, Mutex, Heap, MemFile, FiniteSetTheorems, SequenceTheorems,
        WellFoundedInduction, TLAPS

\* What a handle between two halves of an operation holds.
PcFits == \A c \in Conn : /\ pc[c] = "shared"    => lock_level[c] = NONE
                          /\ pc[c] = "exclusive" => lock_level[c] = RESERVED
                          /\ pc[c] = "release"   => lock_level[c] >= RESERVED

KindOwned == /\ \A c \in Conn : Owns(c) => exclusive_kind = lock_level[c]
             /\ exclusive_kind # NONE => \E c \in Conn : Owns(c)

LockInv == LockTypeOK /\ PcFits /\ SharedCountExact /\ OneWriter /\ KindOwned

-----------------------------------------------------------------------------
\* The set of holders is finite, so its cardinality is a number and moves by
\* one when a handle joins or leaves.
LEMMA HoldersFinite ==
  ASSUME lock_level \in [Conn -> Level]
  PROVE  IsFiniteSet(Holders)
  BY ConnFinite, FS_Subset DEF Holders

LEMMA HolderJoins ==
  ASSUME lock_level \in [Conn -> Level], NEW c \in Conn,
         lock_level[c] = NONE,
         lock_level' = [lock_level EXCEPT ![c] = SHARED]
  PROVE  Cardinality(Holders') = Cardinality(Holders) + 1
<1>1. Holders' = Holders \cup {c} /\ c \notin Holders
  BY DEF Holders, NONE, SHARED, RESERVED, EXCLUSIVE, Level
<1>2. QED
  BY <1>1, HoldersFinite, FS_AddElement

LEMMA HolderLeaves ==
  ASSUME lock_level \in [Conn -> Level], NEW c \in Conn,
         lock_level[c] >= SHARED,
         lock_level' = [lock_level EXCEPT ![c] = NONE]
  PROVE  Cardinality(Holders') = Cardinality(Holders) - 1
<1>1. Holders' = Holders \ {c} /\ c \in Holders
  BY DEF Holders, NONE, SHARED, RESERVED, EXCLUSIVE, Level
<1>2. QED
  BY <1>1, HoldersFinite, FS_RemoveElement

-----------------------------------------------------------------------------
LEMMA InitLockInv == Init => LockInv
<1> SUFFICES ASSUME Init PROVE LockInv
  OBVIOUS
<1>1. Holders = {}
  BY DEF Init, Holders, NONE, SHARED
<1>2. LockTypeOK
  BY DEF Init, LockTypeOK, Level, NONE
<1>3. SharedCountExact
  BY <1>1, FS_EmptySet DEF Init, SharedCountExact
<1>4. PcFits /\ OneWriter /\ KindOwned
  BY DEF Init, PcFits, OneWriter, KindOwned, Owns, NONE, RESERVED
<1>5. QED
  BY <1>2, <1>3, <1>4 DEF LockInv

\* One step per action; under it the conjuncts of LockInv that the action can
\* disturb.
LEMMA NextLockInv == LockInv /\ [Next]_lockVars => LockInv'
<1> SUFFICES ASSUME LockInv, [Next]_lockVars PROVE LockInv'
  OBVIOUS
<1> USE DEF NONE, SHARED, RESERVED, PENDING, EXCLUSIVE
<1>0. /\ LockTypeOK /\ PcFits /\ SharedCountExact /\ OneWriter /\ KindOwned
      /\ lock_level \in [Conn -> Level]
  BY DEF LockInv, LockTypeOK
<1>1. ASSUME NEW c \in Conn, SharedTest(c) PROVE LockInv'
  <2>1. LockTypeOK' /\ PcFits'
    BY <1>0, <1>1 DEF SharedTest, LockTypeOK, PcFits, Level
  <2>2. SharedCountExact'
    BY <1>0, <1>1 DEF SharedTest, SharedCountExact, Holders
  <2>3. \A d \in Conn : Owns(d)' = Owns(d)
    BY <1>0, <1>1 DEF SharedTest, Owns, LockTypeOK, Level
  <2>4. OneWriter' /\ KindOwned'
    BY <1>0, <1>1, <2>3 DEF SharedTest, OneWriter, KindOwned
  <2>5. QED
    BY <2>1, <2>2, <2>4 DEF LockInv
<1>2. ASSUME NEW c \in Conn, SharedAdd(c) PROVE LockInv'
  <2>1. lock_level[c] = NONE
    BY <1>0, <1>2 DEF SharedAdd, PcFits
  <2>2. LockTypeOK' /\ PcFits'
    BY <1>0, <1>2 DEF SharedAdd, LockTypeOK, PcFits, Level
  <2>3. SharedCountExact'
    BY <1>0, <1>2, <2>1, HolderJoins DEF SharedAdd, SharedCountExact
  <2>4. \A d \in Conn : Owns(d)' = Owns(d)
    BY <1>0, <1>2, <2>1 DEF SharedAdd, Owns, LockTypeOK, Level
  <2>5. OneWriter' /\ KindOwned'
    BY <1>0, <1>2, <2>1, <2>4 DEF SharedAdd, OneWriter, KindOwned, Owns, LockTypeOK, Level
  <2>6. QED
    BY <2>2, <2>3, <2>5 DEF LockInv
<1>3. ASSUME NEW c \in Conn, Reserve(c) PROVE LockInv'
  <2>1. LockTypeOK' /\ PcFits'
    BY <1>0, <1>3 DEF Reserve, LockTypeOK, PcFits, Level
  <2>2. SharedCountExact'
    <3>1. Holders' = Holders
      BY <1>0, <1>3 DEF Reserve, Holders, Level
    <3>2. QED
      BY <1>0, <1>3, <3>1 DEF Reserve, SharedCountExact
  <2>3. \A d \in Conn : ~Owns(d)
    BY <1>0, <1>3 DEF Reserve, KindOwned, Owns, LockTypeOK, Level
  <2>4. \A d \in Conn : Owns(d)' <=> d = c
    BY <1>0, <1>3, <2>3 DEF Reserve, Owns, LockTypeOK, Level
  <2>5. OneWriter' /\ KindOwned'
    BY <1>0, <1>3, <2>4 DEF Reserve, OneWriter, KindOwned, LockTypeOK, Level
  <2>6. QED
    BY <2>1, <2>2, <2>5 DEF LockInv
<1>4. ASSUME NEW c \in Conn, ExclusiveTest(c) PROVE LockInv'
  <2>1. LockTypeOK' /\ PcFits'
    BY <1>0, <1>4 DEF ExclusiveTest, LockTypeOK, PcFits, Level
  <2>2. SharedCountExact'
    BY <1>0, <1>4 DEF ExclusiveTest, SharedCountExact, Holders
  <2>3. \A d \in Conn : Owns(d)' = Owns(d)
    BY <1>0, <1>4 DEF ExclusiveTest, Owns, LockTypeOK, Level
  <2>4. OneWriter' /\ KindOwned'
    BY <1>0, <1>4, <2>3 DEF ExclusiveTest, OneWriter, KindOwned
  <2>5. QED
    BY <2>1, <2>2, <2>4 DEF LockInv
<1>5. ASSUME NEW c \in Conn, ExclusiveStore(c) PROVE LockInv'
  <2>1. lock_level[c] = RESERVED /\ Owns(c)
    BY <1>0, <1>5 DEF ExclusiveStore, PcFits, Owns
  <2>2. LockTypeOK' /\ PcFits'
    BY <1>0, <1>5 DEF ExclusiveStore, LockTypeOK, PcFits, Level
  <2>3. SharedCountExact'
    <3>1. Holders' = Holders
      BY <1>0, <1>5, <2>1 DEF ExclusiveStore, Holders, Level
    <3>2. QED
      BY <1>0, <1>5, <3>1 DEF ExclusiveStore, SharedCountExact
  <2>4. \A d \in Conn : Owns(d)' <=> d = c
    BY <1>0, <1>5, <2>1 DEF ExclusiveStore, Owns, OneWriter, LockTypeOK, Level
  <2>5. OneWriter' /\ KindOwned'
    BY <1>0, <1>5, <2>4 DEF ExclusiveStore, OneWriter, KindOwned, LockTypeOK, Level
  <2>6. QED
    BY <2>2, <2>3, <2>5 DEF LockInv
<1>6. ASSUME NEW c \in Conn, Downgrade(c) PROVE LockInv'
  <2>1. Owns(c)
    BY <1>6 DEF Downgrade, Owns
  <2>2. LockTypeOK' /\ PcFits'
    BY <1>0, <1>6 DEF Downgrade, LockTypeOK, PcFits, Level
  <2>3. SharedCountExact'
    <3>1. Holders' = Holders
      BY <1>0, <1>6 DEF Downgrade, Holders, Level
    <3>2. QED
      BY <1>0, <1>6, <3>1 DEF Downgrade, SharedCountExact
  <2>4. \A d \in Conn : ~Owns(d)'
    BY <1>0, <1>6, <2>1 DEF Downgrade, Owns, OneWriter, LockTypeOK, Level
  <2>5. OneWriter' /\ KindOwned'
    BY <1>6, <2>4 DEF Downgrade, OneWriter, KindOwned
  <2>6. QED
    BY <2>2, <2>3, <2>5 DEF LockInv
<1>7. ASSUME NEW c \in Conn, UnlockStore(c) PROVE LockInv'
  <2>1. Owns(c)
    BY <1>7 DEF UnlockStore, Owns
  <2>2. LockTypeOK' /\ PcFits'
    BY <1>0, <1>7 DEF UnlockStore, LockTypeOK, PcFits, Level
  <2>3. SharedCountExact'
    BY <1>0, <1>7 DEF UnlockStore, SharedCountExact, Holders
  <2>4. \A d \in Conn : ~Owns(d)'
    BY <1>0, <1>7, <2>1 DEF UnlockStore, Owns, OneWriter, LockTypeOK, Level
  <2>5. OneWriter' /\ KindOwned'
    BY <1>7, <2>4 DEF UnlockStore, OneWriter, KindOwned
  <2>6. QED
    BY <2>2, <2>3, <2>5 DEF LockInv
<1>8. ASSUME NEW c \in Conn, UnlockSub(c) PROVE LockInv'
  <2>1. lock_level[c] >= SHARED /\ ~Owns(c)
    BY <1>0, <1>8 DEF UnlockSub, PcFits, Owns, LockTypeOK, Level
  <2>2. c \in Holders /\ Cardinality(Holders) \in Nat
    BY <1>0, <2>1, HoldersFinite, FS_CardinalityType DEF Holders
  <2>3. Cardinality(Holders') = Cardinality(Holders) - 1
    BY <1>0, <1>8, <2>1, HolderLeaves DEF UnlockSub
  <2>4. shared_count - 1 \in Nat
    BY <1>0, <2>2, HoldersFinite, FS_EmptySet DEF SharedCountExact
  <2>5. LockTypeOK' /\ PcFits'
    BY <1>0, <1>8, <2>4 DEF UnlockSub, LockTypeOK, PcFits, Level
  <2>6. SharedCountExact'
    BY <1>0, <1>8, <2>3 DEF UnlockSub, SharedCountExact
  <2>7. \A d \in Conn : Owns(d)' = Owns(d)
    BY <1>0, <1>8, <2>1 DEF UnlockSub, Owns, LockTypeOK, Level
  <2>8. OneWriter' /\ KindOwned'
    BY <1>0, <1>8, <2>1, <2>7 DEF UnlockSub, OneWriter, KindOwned, LockTypeOK, Level, Owns
  <2>9. QED
    BY <2>5, <2>6, <2>8 DEF LockInv
<1>9. CASE UNCHANGED lockVars
  BY <1>0, <1>9 DEF lockVars, LockInv, LockTypeOK, PcFits, SharedCountExact, Holders,
                    OneWriter, KindOwned, Owns
<1>10. QED
  BY <1>1, <1>2, <1>3, <1>4, <1>5, <1>6, <1>7, <1>8, <1>9 DEF Next

LEMMA Invariance == Spec => []LockInv
  BY InitLockInv, NextLockInv, PTL DEF Spec

-----------------------------------------------------------------------------
\* The lock's variables keep their types for any number of connections.
THEOREM LockTypeCorrect == Spec => []LockTypeOK
<1>1. LockInv => LockTypeOK
  BY DEF LockInv
<1>2. QED
  BY <1>1, Invariance, PTL

\* No interleaving of any number of connections leaks or double-counts a
\* SHARED holder.
THEOREM CountIsExact == Spec => []SharedCountExact
<1>1. LockInv => SharedCountExact
  BY DEF LockInv
<1>2. QED
  BY <1>1, Invariance, PTL

\* There is one writer at most.
THEOREM SingleWriter == Spec => []OneWriter
<1>1. LockInv => OneWriter
  BY DEF LockInv
<1>2. QED
  BY <1>1, Invariance, PTL

\* exclusive_kind is the level of its owner, and xCheckReservedLock is exact.
THEOREM KindIsExact == Spec => []KindIsOwnersLevel
<1>1. LockInv => KindIsOwnersLevel
  BY DEF LockInv, KindOwned, KindIsOwnersLevel, CheckReservedLock, Owns, LockTypeOK,
         Level, NONE, SHARED, RESERVED, EXCLUSIVE
<1>2. QED
  BY <1>1, Invariance, PTL

\* The three together: what the atomics say of the levels is right.
THEOREM LockExactness == Spec => []LockIsExact
  BY CountIsExact, SingleWriter, KindIsExact, PTL DEF LockIsExact

\* A writer that has exclusion keeps it until it gives it up.
THEOREM ExclusionIsKept == Spec => StaysAlone
<1>1. LockInv /\ [Next]_lockVars =>
        [\A w \in Conn : Alone(w) =>
            Alone(w)' \/ lock_level'[w] < EXCLUSIVE \/ pc'[w] # "idle"]_lockVars
  <2> SUFFICES ASSUME LockInv, Next, NEW w \in Conn, Alone(w)
               PROVE  Alone(w)' \/ lock_level'[w] < EXCLUSIVE \/ pc'[w] # "idle"
    OBVIOUS
  <2> USE DEF NONE, SHARED, RESERVED, PENDING, EXCLUSIVE
  <2>1. /\ LockTypeOK /\ PcFits
        /\ exclusive_kind = EXCLUSIVE
    BY DEF LockInv, KindOwned, Owns, Alone
  <2>2. \A d \in Conn \ {w} : lock_level[d] = NONE /\ pc[d] = "idle"
    BY <2>1 DEF Alone, LockTypeOK, PcFits, Level
  <2>3. PICK c \in Conn : \/ SharedTest(c)    \/ SharedAdd(c)   \/ Reserve(c)
                          \/ ExclusiveTest(c) \/ ExclusiveStore(c)
                          \/ Downgrade(c)     \/ UnlockStore(c) \/ UnlockSub(c)
    BY DEF Next
  <2>4. c = w
    BY <2>1, <2>2, <2>3 DEF SharedTest, SharedAdd, Reserve, ExclusiveTest, ExclusiveStore,
                            Downgrade, UnlockStore, UnlockSub
  <2>5. QED
    BY <2>1, <2>3, <2>4 DEF Alone, LockTypeOK, SharedTest, SharedAdd, Reserve, ExclusiveTest,
                            ExclusiveStore, Downgrade, UnlockStore, UnlockSub
<1>2. QED
  BY <1>1, Invariance, PTL DEF Spec, StaysAlone

-----------------------------------------------------------------------------
(* The file and its caches.                                                *)

\* CoherentUnlessOverlapped, strengthened: such a thread caches no page at or
\* above the size either, where a later write could make it stale.
CoherentSlot(c, s) ==
    cache[c][s].page_no # -1 => /\ cache[c][s].page_no < size
                                /\ cache[c][s].data = file[cache[c][s].page_no]
Coherent == \A c \in Conn : lock_level[c] >= SHARED /\ ~overlapped[c] =>
                \A s \in Slot : CoherentSlot(c, s)

\* The ghost never misses an overlap.
OverlapNoted == \A c \in Conn : Overlap(c) => overlapped[c]

FileInv == TypeOK /\ LockInv /\ Coherent /\ OverlapNoted

-----------------------------------------------------------------------------
\* Every step of the file is a step of the lock or leaves the lock alone.
LEMMA FileStepIsLockStep == FileStep => [Next]_lockVars
  BY DEF FileStep, LockShared, OtherLockStep, Read, Write, Truncate, Next, lockVars

\* SharedFile implements VfsLock: the theorems about the lock hold of it.
THEOREM ImplementsVfsLock == FileSpec => Spec
<1>1. FileInit => Init
  BY DEF FileInit
<1>2. [FileNext]_vars => [Next]_lockVars
  BY FileStepIsLockStep DEF FileNext, vars, lockVars
<1>3. QED
  BY <1>1, <1>2, PTL DEF FileSpec, Spec

-----------------------------------------------------------------------------
LEMMA InitFileInv == FileInit => FileInv
<1> SUFFICES ASSUME FileInit PROVE FileInv
  OBVIOUS
<1>1. LockInv
  BY InitLockInv DEF FileInit
<1>2. TypeOK
  BY <1>1, BoundsOK DEF FileInit, TypeOK, LockInv, Page, Slot, Content, EmptySlot
<1>3. Coherent /\ OverlapNoted
  BY DEF FileInit, Init, Coherent, OverlapNoted, Overlap, NONE, SHARED
<1>4. QED
  BY <1>1, <1>2, <1>3 DEF FileInv

\* The type invariant, one step per action.
LEMMA NextFileType == FileInv /\ FileNext => TypeOK'
<1> SUFFICES ASSUME FileInv, FileNext PROVE TypeOK'
  OBVIOUS
<1>1. TypeOK
  BY DEF FileInv
<1>2. LockTypeOK'
  BY FileStepIsLockStep, NextLockInv DEF FileInv, FileNext, LockInv
<1>3. overlapped' \in [Conn -> BOOLEAN]
  <2>1. \A c \in Conn : (lock_level'[c] >= SHARED /\ (overlapped[c] \/ Overlap(c)')) \in BOOLEAN
    BY <1>1 DEF TypeOK, Overlap
  <2>2. QED
    BY <2>1 DEF FileNext
<1>4. ASSUME NEW c \in Conn, LockShared(c) PROVE TypeOK'
  BY <1>1, <1>2, <1>3, <1>4, BoundsOK
     DEF LockShared, Invalidated, EmptySlot, TypeOK, Page, Slot, Content
<1>5. ASSUME NEW c \in Conn, OtherLockStep(c) PROVE TypeOK'
  BY <1>1, <1>2, <1>3, <1>5 DEF OtherLockStep, fileVars, TypeOK
<1>6. ASSUME NEW c \in Conn, NEW p \in Page, Read(c, p) PROVE TypeOK'
  <2>1. clock[c] \in Slot /\ (clock[c] + 1) % CachePages \in Slot
    BY <1>1, BoundsOK DEF TypeOK, Slot
  <2>2. [page_no |-> p, data |-> file[p]] \in [page_no : Page \cup {-1}, data : Content]
    BY <1>1 DEF TypeOK
  <2>3. cache' \in [Conn -> [Slot -> [page_no : Page \cup {-1}, data : Content]]]
    BY <1>1, <1>6, <2>1, <2>2 DEF Read, TypeOK
  <2>4. clock' \in [Conn -> Slot]
    BY <1>1, <1>6, <2>1 DEF Read, TypeOK
  <2>5. QED
    BY <1>1, <1>2, <1>3, <1>6, <2>3, <2>4 DEF Read, TypeOK
<1>7. ASSUME NEW c \in Conn, NEW p \in Page, Write(c, p) PROVE TypeOK'
  <2>1. writes + 1 \in Content /\ size' \in 0 .. PageCount
    BY <1>1, <1>7, BoundsOK DEF Write, TypeOK, Content, Page
  <2>2. cache' \in [Conn -> [Slot -> [page_no : Page \cup {-1}, data : Content]]]
    BY <1>1, <1>7, <2>1 DEF Write, Refreshed, TypeOK
  <2>3. file' \in [Page -> Content]
    BY <1>1, <1>7, <2>1 DEF Write, TypeOK
  <2>4. QED
    BY <1>1, <1>2, <1>3, <1>7, <2>1, <2>2, <2>3 DEF Write, TypeOK
<1>8. ASSUME NEW c \in Conn, NEW n \in Page, Truncate(c, n) PROVE TypeOK'
  <2>1. file' \in [Page -> Content] /\ size' \in 0 .. PageCount
    BY <1>1, <1>8, BoundsOK DEF Truncate, TypeOK, Content, Page
  <2>2. cache' \in [Conn -> [Slot -> [page_no : Page \cup {-1}, data : Content]]]
    BY <1>1, <1>8, BoundsOK DEF Truncate, Invalidated, EmptySlot, TypeOK, Page, Content
  <2>3. QED
    BY <1>1, <1>2, <1>3, <1>8, <2>1, <2>2 DEF Truncate, TypeOK
<1>9. QED
  BY <1>4, <1>5, <1>6, <1>7, <1>8 DEF FileNext, FileStep

\* The ghost is exact after every step.
LEMMA NextOverlapNoted == FileNext => OverlapNoted'
  BY DEF FileNext, OverlapNoted, Overlap

\* The ghost is sticky while the thread holds SHARED.
LEMMA StaysClean ==
  ASSUME FileNext, NEW d \in Conn, ~overlapped'[d], lock_level'[d] >= SHARED
  PROVE  ~overlapped[d]
  BY DEF FileNext

\* While a writer at EXCLUSIVE runs, every other holder is flagged.
LEMMA OthersFlagged ==
  ASSUME OverlapNoted, NEW w \in Conn, lock_level[w] = EXCLUSIVE, pc[w] = "idle",
         NEW d \in Conn, d # w, lock_level[d] >= SHARED
  PROVE  overlapped[d]
<1>1. Overlap(d)
  BY DEF Overlap, Owns, EXCLUSIVE, RESERVED
<1>2. QED
  BY <1>1 DEF OverlapNoted

LEMMA NextCoherent == FileInv /\ FileNext => Coherent'
<1> SUFFICES ASSUME FileInv, FileNext,
                    NEW d \in Conn, lock_level'[d] >= SHARED, ~overlapped'[d],
                    NEW s \in Slot
             PROVE  CoherentSlot(d, s)'
  BY DEF Coherent
<1> USE DEF NONE, SHARED, RESERVED, EXCLUSIVE
<1>1. /\ TypeOK /\ LockTypeOK /\ PcFits /\ Coherent /\ OverlapNoted
      /\ ~overlapped[d]
  BY StaysClean DEF FileInv, LockInv, TypeOK
<1>2. ASSUME NEW c \in Conn, LockShared(c) PROVE CoherentSlot(d, s)'
  <2>1. CASE d = c
    BY <1>1, <1>2, <2>1 DEF LockShared, Invalidated, EmptySlot, CoherentSlot, TypeOK
  <2>2. CASE d # c
    <3>1. cache'[d] = cache[d] /\ lock_level'[d] = lock_level[d]
      BY <1>1, <1>2, <2>2 DEF LockShared, SharedAdd, Invalidated, TypeOK, LockTypeOK
    <3>2. CoherentSlot(d, s)
      BY <1>1, <3>1 DEF Coherent
    <3>3. QED
      BY <1>2, <3>1, <3>2 DEF LockShared, CoherentSlot
  <2>3. QED
    BY <2>1, <2>2
<1>3. ASSUME NEW c \in Conn, OtherLockStep(c) PROVE CoherentSlot(d, s)'
  <2>1. lock_level[d] >= SHARED
    BY <1>1, <1>3 DEF OtherLockStep, SharedTest, Reserve, ExclusiveTest, ExclusiveStore,
                      Downgrade, UnlockStore, UnlockSub, PcFits, LockTypeOK, Level
  <2>2. CoherentSlot(d, s)
    BY <1>1, <2>1 DEF Coherent
  <2>3. QED
    BY <1>3, <2>2 DEF OtherLockStep, fileVars, CoherentSlot
<1>4. ASSUME NEW c \in Conn, NEW p \in Page, Read(c, p) PROVE CoherentSlot(d, s)'
  <2>1. CoherentSlot(d, s)
    BY <1>1, <1>4 DEF Read, lockVars, Coherent
  <2>2. CASE d = c /\ s = clock[c]
    BY <1>1, <1>4, <2>2 DEF Read, TypeOK, CoherentSlot, Slot
  <2>3. CASE ~(d = c /\ s = clock[c])
    <3>1. cache'[d][s] = cache[d][s]
      BY <1>1, <1>4, <2>3 DEF Read, TypeOK
    <3>2. QED
      BY <1>4, <2>1, <3>1 DEF Read, CoherentSlot
  <2>4. QED
    BY <2>2, <2>3
<1>5. ASSUME NEW c \in Conn, NEW p \in Page, Write(c, p) PROVE CoherentSlot(d, s)'
  <2>1. d = c
    BY <1>1, <1>5, OthersFlagged DEF Write, lockVars
  <2>2. CoherentSlot(d, s)
    BY <1>1, <1>5 DEF Write, lockVars, Coherent
  <2>3. cache'[d][s] = IF cache[d][s].page_no = p THEN [page_no |-> p, data |-> writes + 1]
                                                  ELSE cache[d][s]
    BY <1>1, <1>5, <2>1 DEF Write, Refreshed, TypeOK
  <2>4. cache[d][s].page_no \in Page \cup {-1} /\ size \in Nat /\ p \in Nat
    BY <1>1, BoundsOK DEF TypeOK, Page
  <2>5. CASE cache[d][s].page_no = p
    BY <1>1, <1>5, <2>3, <2>4, <2>5 DEF Write, TypeOK, CoherentSlot
  <2>6. CASE cache[d][s].page_no # p
    <3>1. cache[d][s].page_no # -1 => file'[cache[d][s].page_no] = file[cache[d][s].page_no]
      BY <1>1, <1>5, <2>4, <2>6 DEF Write, TypeOK
    <3>2. size' >= size /\ size' \in Nat
      BY <1>5, <2>4 DEF Write
    <3>3. QED
      BY <2>2, <2>3, <2>4, <2>6, <3>1, <3>2 DEF CoherentSlot, Page
  <2>7. QED
    BY <2>5, <2>6
<1>6. ASSUME NEW c \in Conn, NEW n \in Page, Truncate(c, n) PROVE CoherentSlot(d, s)'
  <2>1. d = c
    BY <1>1, <1>6, OthersFlagged DEF Truncate, lockVars
  <2>2. QED
    BY <1>1, <1>6, <2>1 DEF Truncate, Invalidated, EmptySlot, TypeOK, CoherentSlot
<1>7. QED
  BY <1>2, <1>3, <1>4, <1>5, <1>6 DEF FileNext, FileStep

LEMMA FileInvariance == FileSpec => []FileInv
<1>1. FileInv /\ [FileNext]_vars => FileInv'
  <2> SUFFICES ASSUME FileInv, [FileNext]_vars PROVE FileInv'
    OBVIOUS
  <2>1. CASE FileNext
    <3>1. LockInv'
      BY <2>1, FileStepIsLockStep, NextLockInv DEF FileInv, FileNext
    <3>2. QED
      BY <2>1, <3>1, NextFileType, NextOverlapNoted, NextCoherent DEF FileInv
  <2>2. CASE UNCHANGED vars
    BY <2>2 DEF vars, lockVars, fileVars, FileInv, TypeOK, LockInv, LockTypeOK, PcFits,
                SharedCountExact, Holders, OneWriter, KindOwned, Owns, Coherent,
                CoherentSlot, OverlapNoted, Overlap
  <2>3. QED
    BY <2>1, <2>2
<1>2. QED
  BY <1>1, InitFileInv, PTL DEF FileSpec

-----------------------------------------------------------------------------
\* The file, its size and the caches keep their types.
THEOREM FileTypeCorrect == FileSpec => []TypeOK
<1>1. FileInv => TypeOK
  BY DEF FileInv
<1>2. QED
  BY <1>1, FileInvariance, PTL

\* What a thread reads from its cache is what the file holds, for a holder of
\* SHARED that never coexisted with a writer at EXCLUSIVE.
THEOREM CacheCoherence == FileSpec => []CoherentUnlessOverlapped
<1>1. FileInv => CoherentUnlessOverlapped
  BY DEF FileInv, Coherent, CoherentSlot, CoherentUnlessOverlapped
<1>2. QED
  BY <1>1, FileInvariance, PTL

-----------------------------------------------------------------------------
(* The mutexes.                                                            *)

Owning == {"own", "first", "disown", "unlock"}

Occupies(t, m) == entered[t][m] > 0 \/ (call[t].m = m /\ call[t].at \in Owning)

InCall(t) == call[t].at \notin {"idle", "scan"}

LockOwned == /\ \A m \in Mutexes \ misled, t \in Thread : Occupies(t, m) => locked[m]
             /\ \A m \in Mutexes \ misled : locked[m] => \E t \in Thread : Occupies(t, m)

OneOwner == \A m \in Mutexes \ misled, t, u \in Thread : Occupies(t, m) /\ Occupies(u, m) => t = u

\* The owner written in a mutex has it, and was written before the first enter returned:
\* except the one that zero bytes name.
OwnerOwns == \A m \in Mutexes \ misled, t \in Thread :
                 owner[m] = t => \/ entered[t][m] > 0
                                 \/ call[t].m = m /\ call[t].at \in {"first", "disown"}
                                 \/ t = Loader /\ m \in fresh \cup (Pool \ lent)

Counted == \A m \in Mutexes \ misled, t \in Thread :
               entered[t][m] > 0 => owner[m] = t /\ depth[m] = entered[t][m]

\* What a call of t on a mutex that has not misled anybody knows.
Knows(t) ==
    /\ call[t].at = "locked?" => entered[t][call[t].m] > 0 \/ (t = Loader /\ call[t].m \in zero)
    /\ call[t].at = "deepen" => entered[t][call[t].m] > 0
    /\ call[t].at \in Owning => entered[t][call[t].m] = 0
    /\ call[t].at = "first" => owner[call[t].m] = t

CallFits == \A t \in Thread : /\ call[t].m \notin misled => Knows(t)
                              /\ call[t].at = "scan" => call[t].m \in Pool

\* The loader has read a zeroed owner, of a static mutex, and not yet its lock.
ZeroFits == zero # {} => call[Loader].at = "locked?"

LentFits == /\ \A m \in Mutexes, t \in Thread :
                   entered[t][m] > 0 \/ (InCall(t) /\ call[t].m = m) => m \in lent
            /\ \A m \in lent : in_use[m]

MutexInv == /\ MutexTypeOK /\ LockOwned /\ OneOwner /\ OwnerOwns /\ Counted /\ CallFits /\ ZeroFits
            /\ LentFits

-----------------------------------------------------------------------------
LEMMA InitMutexInv == MutexInit => MutexInv
<1> SUFFICES ASSUME MutexInit PROVE MutexInv
  OBVIOUS
<1> USE DEF MutexInit, Idle, Mutexes, Pool, Static
<1>1. MutexTypeOK
  BY MutexConstants DEF MutexTypeOK, Steps
<1>2. LockOwned /\ OneOwner /\ CallFits /\ LentFits
  BY MutexConstants DEF LockOwned, OneOwner, CallFits, Knows, LentFits, Occupies, Owning, InCall
<1>3. OwnerOwns /\ Counted /\ ZeroFits
  BY MutexConstants DEF OwnerOwns, Counted, ZeroFits
<1>4. QED
  BY <1>1, <1>2, <1>3 DEF MutexInv

\* Idle calls are about no mutex in particular.
LEMMA IdleTyped == Idle \in [at : Steps, m : Mutexes, recursive : BOOLEAN, try : BOOLEAN]
  BY MutexConstants DEF Idle, Steps, Mutexes, Pool, Static

LEMMA CallKnows ==
    ASSUME MutexInv, NEW t \in Thread, call[t].m \notin misled
    PROVE  Knows(t)
  BY DEF MutexInv, CallFits

\* What the loader has read is for its own next step.
LEMMA ZeroStays ==
    ASSUME MutexInv, NEW t \in Thread, call[t].at # "locked?", zero' = zero,
           \A u \in Thread \ {t} : call'[u] = call[u]
    PROVE  ZeroFits'
  BY MutexConstants DEF MutexInv, ZeroFits

-----------------------------------------------------------------------------
LEMMA AllocKeeps == ASSUME MutexInv, NEW t \in Thread, NEW r \in BOOLEAN, Alloc(t, r)
                    PROVE  MutexInv'
<1> USE DEF Alloc, Calls, MutexInv, fields, history
<1>1. MutexTypeOK'
  BY MutexConstants DEF MutexTypeOK, Steps, Mutexes, Pool, Static
<1>2. \A u \in Thread, m \in Mutexes : Occupies(u, m)' = Occupies(u, m)
  BY DEF MutexTypeOK, Occupies, Owning
<1>3. LockOwned' /\ OneOwner'
  BY <1>2 DEF LockOwned, OneOwner
<1>4. OwnerOwns' /\ Counted'
  BY DEF MutexTypeOK, OwnerOwns, Counted
<1>5. CallFits' /\ LentFits'
  BY MutexConstants DEF MutexTypeOK, CallFits, Knows, LentFits, InCall, Owning, Pool
<1>6. ZeroFits'
  BY ZeroStays DEF MutexTypeOK
<1>7. QED
  BY <1>1, <1>3, <1>4, <1>5, <1>6

LEMMA ScanKeeps == ASSUME MutexInv, NEW t \in Thread, Scan(t)
                   PROVE  MutexInv'
<1> DEFINE m == call[t].m
<1> USE DEF MutexInv
<1>0. /\ m \in Pool /\ m \in Mutexes /\ call[t].at = "scan"
      /\ UNCHANGED <<fresh, zero, misled>>
  <2>1. call[t].at = "scan" /\ UNCHANGED history
    BY DEF Scan
  <2>2. m \in Pool
    BY <2>1 DEF CallFits
  <2> QED
    BY <2>1, <2>2 DEF Mutexes, history
<1>a. m \notin misled /\ m \notin fresh
  BY <1>0, MutexConstants DEF Pool, Static, MutexTypeOK
<1>1. CASE Claimed(m)
  <2>1. /\ in_use' = [in_use EXCEPT ![m] = TRUE] /\ locked' = [locked EXCEPT ![m] = FALSE]
        /\ owner' = [owner EXCEPT ![m] = None] /\ depth' = [depth EXCEPT ![m] = 0]
        /\ is_recursive' = [is_recursive EXCEPT ![m] = call[t].recursive]
        /\ lent' = lent \cup {m} /\ call' = [call EXCEPT ![t] = Idle] /\ entered' = entered
    BY <1>1 DEF Scan, Returns
  <2>2. m \notin lent
    BY <1>0, <1>1 DEF Claimed, LentFits
  <2>3. \A u \in Thread : entered[u][m] = 0 /\ ~(InCall(u) /\ call[u].m = m)
    BY <1>0, <2>2 DEF LentFits, MutexTypeOK
  <2>4. \A u \in Thread : ~Occupies(u, m)
    BY <2>3 DEF Occupies, Owning, InCall
  <2>5. MutexTypeOK'
    BY <1>0, <2>1, IdleTyped DEF MutexTypeOK
  <2>6. \A u \in Thread, k \in Mutexes : Occupies(u, k)' = Occupies(u, k)
    BY <1>0, <2>1 DEF MutexTypeOK, Occupies, Owning, Idle
  <2>7. LockOwned' /\ OneOwner'
    BY <1>0, <2>1, <2>4, <2>6 DEF LockOwned, OneOwner, MutexTypeOK
  <2>13. ZeroFits'
    BY <1>0, <2>1, ZeroStays DEF MutexTypeOK
  <2>8. OwnerOwns'
    BY <1>0, <2>1, MutexConstants DEF OwnerOwns, MutexTypeOK, Idle
  <2>9. Counted'
    BY <1>0, <2>1, <2>3 DEF Counted, MutexTypeOK
  <2>10. CallFits'
    <3> SUFFICES ASSUME NEW u \in Thread PROVE
          /\ call'[u].m \notin misled' => Knows(u)'
          /\ call'[u].at = "scan" => call'[u].m \in Pool
      BY DEF CallFits
    <3>1. CASE u = t
      BY <1>0, <2>1, <3>1 DEF MutexTypeOK, Idle, Owning, Knows
    <3>2. CASE u # t
      <4>1. call'[u] = call[u] /\ call[u].m \in Mutexes
        BY <2>1, <3>2 DEF MutexTypeOK
      <4>2. call[u].at = "first" => owner'[call[u].m] = owner[call[u].m]
        BY <1>0, <2>1, <2>3, <4>1 DEF InCall, MutexTypeOK
      <4>3. call[u].m \notin misled => Knows(u)
        BY CallKnows
      <4>4. call'[u].m \notin misled' => Knows(u)'
        BY <1>0, <2>1, <4>1, <4>2, <4>3 DEF Knows
      <4>5. QED
        BY <4>1, <4>4 DEF CallFits
    <3>3. QED
      BY <3>1, <3>2
  <2>11. LentFits'
    BY <1>0, <2>1 DEF LentFits, InCall, MutexTypeOK, Idle
  <2>12. QED
    BY <2>5, <2>7, <2>8, <2>9, <2>10, <2>11, <2>13
<1>2. CASE ~Claimed(m)
  <2>1. /\ UNCHANGED <<fields, lent, entered>>
        /\ \/ m < PoolSize /\ call' = [call EXCEPT ![t].m = m + 1]
           \/ call' = [call EXCEPT ![t] = Idle]
    BY <1>2 DEF Scan, Returns
  <2>2. MutexTypeOK'
    <3>1. m < PoolSize => m + 1 \in Mutexes
      BY <1>0, MutexConstants DEF Mutexes, Pool, Static
    <3>2. call' \in [Thread -> [at : Steps, m : Mutexes, recursive : BOOLEAN, try : BOOLEAN]]
      <4>1. CASE m < PoolSize /\ call' = [call EXCEPT ![t].m = m + 1]
        <5>1. call[t] \in [at : Steps, m : Mutexes, recursive : BOOLEAN, try : BOOLEAN]
          BY DEF MutexTypeOK
        <5>2. [call[t] EXCEPT !.m = m + 1] \in [at : Steps, m : Mutexes, recursive : BOOLEAN, try : BOOLEAN]
          BY <3>1, <4>1, <5>1
        <5>3. call' = [call EXCEPT ![t] = [call[t] EXCEPT !.m = m + 1]]
          BY <4>1
        <5>4. QED
          BY <5>2, <5>3 DEF MutexTypeOK
      <4>2. CASE call' = [call EXCEPT ![t] = Idle]
        BY <4>2, IdleTyped DEF MutexTypeOK
      <4>3. QED
        BY <2>1, <4>1, <4>2
    <3>3. QED
      BY <1>0, <2>1, <3>2 DEF MutexTypeOK, fields
  <2>3. \A u \in Thread \ {t} : call'[u] = call[u]
    BY <2>1 DEF MutexTypeOK
  <2>4. \/ call'[t].at = "scan" /\ call'[t].m \in Pool
        \/ call'[t].at = "idle"
    BY <1>0, <2>1, MutexConstants DEF MutexTypeOK, Idle, Pool
  <2>5. \A u \in Thread, k \in Mutexes : Occupies(u, k)' = Occupies(u, k)
    BY <1>0, <2>1, <2>3, <2>4 DEF Occupies, Owning
  <2>6. LockOwned' /\ OneOwner'
    BY <1>0, <2>1, <2>5 DEF LockOwned, OneOwner, fields
  <2>7. OwnerOwns' /\ Counted'
    BY <1>0, <2>1, <2>3, <2>4 DEF OwnerOwns, Counted, fields
  <2>8. CallFits' /\ LentFits'
    BY <1>0, <2>1, <2>3, <2>4 DEF CallFits, Knows, LentFits, InCall, Owning, fields
  <2>9. ZeroFits'
    BY <1>0, <2>3, ZeroStays
  <2>10. QED
    BY <2>2, <2>6, <2>7, <2>8, <2>9
<1>3. QED
  BY <1>1, <1>2

LEMMA AllocStaticKeeps == ASSUME MutexInv, NEW t \in Thread, NEW m \in Static, AllocStatic(t, m)
                          PROVE  MutexInv'
<1> USE DEF AllocStatic, Calls, MutexInv, history
<1>0. m \in Mutexes
  BY DEF Mutexes
<1>1. MutexTypeOK'
  BY <1>0 DEF MutexTypeOK
<1>2. LockOwned' /\ OneOwner'
  BY DEF LockOwned, OneOwner, Occupies
<1>3. Counted' /\ CallFits' /\ ZeroFits'
  BY DEF Counted, CallFits, Knows, ZeroFits
<1>4. OwnerOwns'
  <2>1. Pool \ lent' = Pool \ lent
    BY MutexConstants DEF Pool, Static
  <2> QED
    BY <2>1 DEF OwnerOwns
<1>5. LentFits'
  BY <1>0 DEF LentFits, InCall, MutexTypeOK
<1>6. QED
  BY <1>1, <1>2, <1>3, <1>5, <1>4

LEMMA FreeKeeps == ASSUME MutexInv, NEW t \in Thread, NEW m \in Mutexes, FreeMutex(t, m)
                   PROVE  MutexInv'
<1> USE DEF FreeMutex, MutexInv, history
<1>1. MutexTypeOK'
  BY DEF MutexTypeOK
<1>2. LockOwned' /\ OneOwner'
  BY DEF LockOwned, OneOwner, Occupies
<1>3. OwnerOwns' /\ Counted' /\ CallFits' /\ ZeroFits'
  BY DEF OwnerOwns, Counted, CallFits, Knows, ZeroFits
<1>4. LentFits'
  BY DEF LentFits, InCall, MutexTypeOK
<1>5. QED
  BY <1>1, <1>2, <1>3, <1>4

LEMMA EnterKeeps == ASSUME MutexInv, NEW t \in Thread, NEW m \in Mutexes, NEW try \in BOOLEAN,
                           Enter(t, m, try)
                    PROVE  MutexInv'
<1> USE DEF Enter, Calls, MutexInv, fields, history
<1>1. MutexTypeOK'
  BY DEF MutexTypeOK, Steps
<1>2. \A u \in Thread, k \in Mutexes : Occupies(u, k)' = Occupies(u, k)
  BY DEF MutexTypeOK, Occupies, Owning
<1>3. LockOwned' /\ OneOwner'
  BY <1>2 DEF LockOwned, OneOwner
<1>4. OwnerOwns' /\ Counted'
  BY DEF MutexTypeOK, OwnerOwns, Counted
<1>5. CallFits' /\ LentFits'
  BY DEF MutexTypeOK, CallFits, Knows, LentFits, InCall, Owning
<1>6. ZeroFits'
  BY ZeroStays DEF MutexTypeOK
<1>7. QED
  BY <1>1, <1>3, <1>4, <1>5, <1>6

-----------------------------------------------------------------------------
\* The steps that only move a call.
LEMMA TestOwnerKeeps == ASSUME MutexInv, NEW t \in Thread, TestOwner(t)
                        PROVE  MutexInv'
<1> DEFINE m == call[t].m
<1> USE DEF TestOwner, Goes, MutexInv, fields
<1>0. m \in Mutexes /\ m \in lent
  BY DEF MutexTypeOK, LentFits, InCall
<1>1. MutexTypeOK'
  <2>1. zero' \subseteq Static
    BY DEF MutexTypeOK
  <2> QED
    BY <2>1 DEF MutexTypeOK, Steps
<1>2. \A u \in Thread, k \in Mutexes : Occupies(u, k)' = Occupies(u, k)
  BY DEF MutexTypeOK, Occupies, Owning
<1>3. LockOwned' /\ OneOwner'
  BY <1>2 DEF LockOwned, OneOwner
<1>4. OwnerOwns' /\ Counted'
  BY DEF MutexTypeOK, OwnerOwns, Counted
<1>5. Mine(t, m) /\ m \notin misled => entered[t][m] > 0 \/ (t = Loader /\ m \in zero')
  BY <1>0 DEF Mine, OwnerOwns
<1>6. CallFits'
  <2> SUFFICES ASSUME NEW u \in Thread
               PROVE  /\ call'[u].m \notin misled' => Knows(u)'
                      /\ call'[u].at = "scan" => call'[u].m \in Pool
    BY DEF CallFits
  <2>1. CASE u = t
    BY <1>5, <2>1 DEF MutexTypeOK, Knows, Owning
  <2>2. CASE u # t
    <3>1. call'[u] = call[u] /\ (u = Loader => zero' = zero)
      BY <2>2 DEF MutexTypeOK
    <3>2. call[u].m \notin misled => Knows(u)
      BY CallKnows
    <3>3. call'[u].m \notin misled' => Knows(u)'
      <4>1. UNCHANGED <<entered, owner, misled>>
        OBVIOUS
      <4> QED
        BY <3>1, <3>2, <4>1, Zenon DEF Knows
    <3> QED
      BY <3>1, <3>3 DEF CallFits
  <2> QED
    BY <2>1, <2>2
<1>7. LentFits'
  BY DEF MutexTypeOK, LentFits, InCall
<1>8. ZeroFits'
  <2>1. CASE t = Loader
    BY <2>1 DEF MutexTypeOK, ZeroFits, Mine
  <2>2. CASE t # Loader
    BY <2>2, ZeroStays DEF MutexTypeOK
  <2> QED
    BY <2>1, <2>2
<1>9. QED
  BY <1>1, <1>3, <1>4, <1>6, <1>7, <1>8

LEMMA TestLockedKeeps == ASSUME MutexInv, NEW t \in Thread, TestLocked(t)
                         PROVE  MutexInv'
<1> DEFINE m == call[t].m
<1> USE DEF TestLocked, Goes, MutexInv, fields
<1>0. m \in Mutexes /\ call[t].at = "locked?" /\ misled \subseteq misled'
  BY DEF MutexTypeOK
<1>1. MutexTypeOK'
  <2>1. misled' \subseteq Static /\ zero' \subseteq Static
    BY DEF MutexTypeOK
  <2>2. call' \in [Thread -> [at : Steps, m : Mutexes, recursive : BOOLEAN, try : BOOLEAN]]
    <3> DEFINE step == IF locked[m] THEN "deepen" ELSE "exchange"
    <3>1. call' = [call EXCEPT ![t].at = step] /\ step \in Steps
      BY DEF Steps
    <3> HIDE DEF step
    <3> QED
      BY <3>1 DEF MutexTypeOK
  <2>3. UNCHANGED <<locked, owner, in_use, depth, is_recursive, entered, lent, fresh>>
    OBVIOUS
  <2> QED
    BY <2>1, <2>2, <2>3 DEF MutexTypeOK
<1>2. \A u \in Thread, k \in Mutexes : Occupies(u, k)' = Occupies(u, k)
  BY DEF MutexTypeOK, Occupies, Owning
<1>3. LockOwned' /\ OneOwner'
  BY <1>0, <1>2 DEF LockOwned, OneOwner
<1>4. OwnerOwns' /\ Counted'
  BY <1>0 DEF MutexTypeOK, OwnerOwns, Counted
<1>5. m \notin misled' /\ locked[m] => entered[t][m] > 0
  <2>1. m \notin misled => Knows(t)
    BY CallKnows
  <2> QED
    BY <1>0, <2>1 DEF Knows
<1>6. CallFits'
  <2> SUFFICES ASSUME NEW u \in Thread
               PROVE  /\ call'[u].m \notin misled' => Knows(u)'
                      /\ call'[u].at = "scan" => call'[u].m \in Pool
    BY DEF CallFits
  <2>1. CASE u = t
    BY <1>0, <1>5, <2>1 DEF MutexTypeOK, Knows, Owning
  <2>2. CASE u # t
    <3>1. call'[u] = call[u] /\ (u = Loader => zero' = zero)
      BY <2>2 DEF MutexTypeOK
    <3>2. call[u].m \notin misled => Knows(u)
      BY CallKnows
    <3>3. call'[u].m \notin misled' => Knows(u)'
      BY <1>0, <3>1, <3>2 DEF Knows
    <3> QED
      BY <3>1, <3>3 DEF CallFits
  <2> QED
    BY <2>1, <2>2
<1>7. LentFits'
  BY DEF MutexTypeOK, LentFits, InCall
<1>8. ZeroFits'
  BY MutexConstants DEF MutexTypeOK, ZeroFits
<1>9. QED
  BY <1>1, <1>3, <1>4, <1>6, <1>7, <1>8

LEMMA DeepenKeeps == ASSUME MutexInv, NEW t \in Thread, Deepen(t)
                     PROVE  MutexInv'
<1> DEFINE m == call[t].m
<1> USE DEF Deepen, Returns, MutexInv, history
<1>0. m \in Mutexes /\ call[t].at = "deepen" /\ (m \notin misled => entered[t][m] > 0)
  BY CallKnows DEF MutexTypeOK, Knows
<1>1. MutexTypeOK'
  BY <1>0, IdleTyped DEF MutexTypeOK
<1>2. \A u \in Thread, k \in Mutexes \ misled : Occupies(u, k)' = Occupies(u, k)
  BY <1>0 DEF MutexTypeOK, Occupies, Owning, Idle
<1>3. LockOwned' /\ OneOwner'
  BY <1>2 DEF LockOwned, OneOwner
<1>4. OwnerOwns'
  BY <1>0 DEF MutexTypeOK, OwnerOwns, Idle
<1>5. Counted'
  <2> SUFFICES ASSUME NEW k \in Mutexes \ misled, NEW u \in Thread, entered'[u][k] > 0
               PROVE  owner[k] = u /\ depth'[k] = entered'[u][k]
    BY DEF Counted
  <2>1. entered[u][k] > 0
    BY <1>0 DEF MutexTypeOK
  <2>2. owner[k] = u /\ depth[k] = entered[u][k]
    BY <2>1 DEF Counted
  <2>3. CASE k = m
    <3>1. u = t
      BY <1>0, <2>2, <2>3 DEF Counted
    <3> QED
      BY <1>0, <2>2, <2>3, <3>1 DEF MutexTypeOK
  <2>4. CASE k # m
    BY <1>0, <2>2, <2>4 DEF MutexTypeOK
  <2> QED
    BY <2>2, <2>3, <2>4
<1>6. CallFits'
  <2>1. \A u \in Thread \ {t} : call'[u] = call[u] /\ entered'[u] = entered[u]
    BY <1>0 DEF MutexTypeOK
  <2>2. call'[t].at = "idle"
    BY DEF MutexTypeOK, Idle
  <2>3. QED
    BY <2>1, <2>2 DEF CallFits, Knows, Owning
<1>7. LentFits'
  <2>1. m \in lent
    BY <1>0 DEF LentFits, InCall
  <2> QED
    BY <1>0, <2>1 DEF MutexTypeOK, LentFits, InCall, Idle
<1>8. ZeroFits'
  BY <1>0, ZeroStays DEF MutexTypeOK
<1>9. QED
  BY <1>1, <1>3, <1>4, <1>5, <1>6, <1>7, <1>8

-----------------------------------------------------------------------------
\* The steps that take a mutex and give it back.
LEMMA ExchangeKeeps == ASSUME MutexInv, NEW t \in Thread, Exchange(t)
                       PROVE  MutexInv'
<1> DEFINE m == call[t].m
<1> USE DEF MutexInv
<1>0. m \in Mutexes /\ call[t].at = "exchange" /\ UNCHANGED <<fresh, zero, misled>>
  BY DEF MutexTypeOK, Exchange, history
<1>1. CASE ~locked[m] /\ locked' = [locked EXCEPT ![m] = TRUE] /\ call' = [call EXCEPT ![t].at = "own"]
  <2>1. UNCHANGED <<owner, in_use, depth, is_recursive, entered, lent>>
    BY DEF Exchange
  <2>2. m \notin misled => \A u \in Thread : ~Occupies(u, m)
    BY <1>0, <1>1 DEF LockOwned
  <2>3. MutexTypeOK'
    BY <1>0, <1>1, <2>1 DEF MutexTypeOK, Steps
  <2>4. \A u \in Thread, k \in Mutexes : Occupies(u, k)' <=> Occupies(u, k) \/ (u = t /\ k = m)
    BY <1>0, <1>1, <2>1 DEF MutexTypeOK, Occupies, Owning
  <2>5. LockOwned' /\ OneOwner'
    <3>1. \A k \in Mutexes : locked'[k] <=> locked[k] \/ k = m
      BY <1>0, <1>1 DEF MutexTypeOK
    <3>2. LockOwned'
      BY <1>0, <2>4, <3>1 DEF LockOwned
    <3> QED
      BY <1>0, <2>2, <2>4, <3>2 DEF OneOwner
  <2>6. OwnerOwns' /\ Counted'
    BY <1>0, <1>1, <2>1 DEF OwnerOwns, Counted, MutexTypeOK
  <2>7. m \notin misled => entered[t][m] = 0
    BY <1>0, <2>2 DEF Occupies, MutexTypeOK
  <2>8. CallFits'
    BY <1>0, <1>1, <2>1, <2>7 DEF CallFits, Knows, Owning, MutexTypeOK
  <2>9. LentFits'
    BY <1>0, <1>1, <2>1 DEF LentFits, InCall, MutexTypeOK
  <2>10. ZeroFits'
    BY <1>0, <1>1, ZeroStays DEF MutexTypeOK
  <2>11. QED
    BY <2>3, <2>5, <2>6, <2>8, <2>9, <2>10
<1>2. CASE UNCHANGED locked /\ call' = [call EXCEPT ![t] = Idle]
  <2>1. UNCHANGED <<owner, in_use, depth, is_recursive, entered, lent>>
    BY DEF Exchange
  <2>2. MutexTypeOK'
    BY <1>0, <1>2, <2>1, IdleTyped DEF MutexTypeOK
  <2>3. \A u \in Thread, k \in Mutexes : Occupies(u, k)' = Occupies(u, k)
    BY <1>0, <1>2, <2>1 DEF MutexTypeOK, Occupies, Owning, Idle
  <2>4. LockOwned' /\ OneOwner'
    BY <1>0, <1>2, <2>3 DEF LockOwned, OneOwner
  <2>5. OwnerOwns' /\ Counted'
    BY <1>0, <1>2, <2>1 DEF OwnerOwns, Counted, MutexTypeOK
  <2>6. CallFits' /\ LentFits'
    BY <1>0, <1>2, <2>1 DEF CallFits, Knows, LentFits, InCall, Owning, MutexTypeOK, Idle
  <2>7. ZeroFits'
    BY <1>0, <1>2, ZeroStays DEF MutexTypeOK
  <2>8. QED
    BY <2>2, <2>4, <2>5, <2>6, <2>7
<1>3. CASE UNCHANGED <<locked, call>>
  <2>1. UNCHANGED mutexVars
    BY <1>3 DEF Exchange, mutexVars, fields
  <2>2. QED
    BY <2>1 DEF mutexVars, fields, history, MutexTypeOK, LockOwned, OneOwner, OwnerOwns, Counted, CallFits,
                Knows, ZeroFits, LentFits, Occupies, InCall
<1>4. QED
  BY <1>1, <1>2, <1>3 DEF Exchange, Goes, Returns

LEMMA StoreOwnerKeeps == ASSUME MutexInv, NEW t \in Thread, StoreOwner(t)
                         PROVE  MutexInv'
<1> DEFINE m == call[t].m
<1> USE DEF StoreOwner, Goes, MutexInv
<1>0. /\ m \in Mutexes /\ call[t].at = "own" /\ Occupies(t, m)
      /\ m \notin misled => entered[t][m] = 0
  BY CallKnows DEF MutexTypeOK, Occupies, Owning, Knows
<1>1. m \notin misled => \A u \in Thread : entered[u][m] = 0 /\ (u # t => ~Occupies(u, m))
  BY <1>0 DEF OneOwner, Occupies, MutexTypeOK
<1>2. MutexTypeOK'
  BY <1>0 DEF MutexTypeOK, Steps
<1>3. \A u \in Thread, k \in Mutexes : Occupies(u, k)' = Occupies(u, k)
  BY <1>0 DEF MutexTypeOK, Occupies, Owning
<1>4. LockOwned' /\ OneOwner'
  BY <1>3 DEF LockOwned, OneOwner
<1>5. OwnerOwns'
  BY <1>0, MutexConstants DEF OwnerOwns, MutexTypeOK
<1>6. Counted'
  BY <1>0, <1>1 DEF Counted, MutexTypeOK
<1>7. CallFits'
  BY <1>0, <1>1 DEF CallFits, Knows, Owning, Occupies, MutexTypeOK
<1>8. LentFits'
  BY <1>0 DEF LentFits, InCall, MutexTypeOK
<1>9. ZeroFits'
  BY <1>0, ZeroStays DEF MutexTypeOK
<1>10. QED
  BY <1>2, <1>4, <1>5, <1>6, <1>7, <1>8, <1>9

LEMMA StoreDepthKeeps == ASSUME MutexInv, NEW t \in Thread, StoreDepth(t)
                         PROVE  MutexInv'
<1> DEFINE m == call[t].m
<1> USE DEF StoreDepth, Returns, MutexInv, history
<1>0. /\ m \in Mutexes /\ call[t].at = "first" /\ Occupies(t, m)
      /\ m \notin misled => owner[m] = t
  BY CallKnows DEF MutexTypeOK, Occupies, Owning, Knows
<1>1. m \notin misled => \A u \in Thread : u # t => entered[u][m] = 0
  BY <1>0 DEF OneOwner, Occupies, MutexTypeOK
<1>2. MutexTypeOK'
  BY <1>0, IdleTyped DEF MutexTypeOK
<1>3. \A u \in Thread, k \in Mutexes : Occupies(u, k)' = Occupies(u, k)
  BY <1>0 DEF MutexTypeOK, Occupies, Owning, Idle
<1>4. LockOwned' /\ OneOwner'
  BY <1>3 DEF LockOwned, OneOwner
<1>5. OwnerOwns'
  BY <1>0 DEF OwnerOwns, MutexTypeOK, Idle
<1>6. Counted'
  BY <1>0, <1>1 DEF Counted, MutexTypeOK
<1>7. CallFits'
  <2>1. \A u \in Thread \ {t} : call'[u] = call[u] /\ entered'[u] = entered[u]
    BY <1>0 DEF MutexTypeOK
  <2>2. call'[t].at = "idle"
    BY DEF MutexTypeOK, Idle
  <2>3. QED
    BY <2>1, <2>2 DEF CallFits, Knows, Owning
<1>8. LentFits'
  <2>1. m \in lent
    BY <1>0 DEF LentFits, InCall
  <2> QED
    BY <1>0, <2>1 DEF LentFits, InCall, MutexTypeOK, Idle
<1>9. ZeroFits'
  BY <1>0, ZeroStays DEF MutexTypeOK
<1>10. QED
  BY <1>2, <1>4, <1>5, <1>6, <1>7, <1>8, <1>9

LEMMA LeaveKeeps == ASSUME MutexInv, NEW t \in Thread, NEW m \in Mutexes, Leave(t, m)
                    PROVE  MutexInv'
<1> USE DEF Leave, Calls, MutexInv, history
<1>0. /\ entered[t][m] \in Nat /\ entered[t][m] > 0 /\ depth[m] \in Int /\ call[t].at = "idle"
      /\ m \notin misled => depth[m] = entered[t][m] /\ owner[m] = t /\ Occupies(t, m)
  BY DEF MutexTypeOK, Counted, Occupies
<1>1. m \notin misled => \A u \in Thread : u # t => entered[u][m] = 0
  BY <1>0 DEF OneOwner, Occupies, MutexTypeOK
<1>2. m \in lent
  BY <1>0 DEF LentFits
<1>3. CASE LastEnter(m)
  <2>1. /\ call' = [call EXCEPT ![t] = [at |-> "disown", m |-> m, recursive |-> FALSE, try |-> FALSE]]
        /\ m \notin misled => entered[t][m] = 1
    BY <1>0, <1>3 DEF LastEnter
  <2>2. MutexTypeOK'
    BY <1>0, <2>1 DEF MutexTypeOK, Steps
  <2>3. \A u \in Thread, k \in Mutexes \ misled : Occupies(u, k)' = Occupies(u, k)
    BY <1>0, <2>1 DEF MutexTypeOK, Occupies, Owning
  <2>4. LockOwned' /\ OneOwner'
    BY <2>3 DEF LockOwned, OneOwner
  <2>5. OwnerOwns'
    BY <1>0, <2>1 DEF OwnerOwns, MutexTypeOK
  <2>6. Counted'
    BY <1>0, <1>1, <2>1 DEF Counted, MutexTypeOK
  <2>7. CallFits'
    BY <1>0, <2>1 DEF CallFits, Knows, Owning, MutexTypeOK
  <2>8. LentFits'
    BY <1>0, <1>2, <2>1 DEF LentFits, InCall, MutexTypeOK
  <2>9. ZeroFits'
    BY <1>0, <2>1, ZeroStays DEF MutexTypeOK
  <2>10. QED
    BY <2>2, <2>4, <2>5, <2>6, <2>7, <2>8, <2>9
<1>4. CASE ~LastEnter(m)
  <2>1. call' = call /\ (m \notin misled => entered[t][m] > 1)
    BY <1>0, <1>4 DEF LastEnter
  <2>2. MutexTypeOK'
    BY <1>0, <2>1 DEF MutexTypeOK
  <2>3. \A u \in Thread, k \in Mutexes \ misled : Occupies(u, k)' = Occupies(u, k)
    BY <1>0, <2>1 DEF MutexTypeOK, Occupies, Owning
  <2>4. LockOwned' /\ OneOwner'
    BY <2>3 DEF LockOwned, OneOwner
  <2>5. OwnerOwns'
    BY <1>0, <2>1 DEF OwnerOwns, MutexTypeOK
  <2>6. Counted'
    BY <1>0, <1>1, <2>1 DEF Counted, MutexTypeOK
  <2>7. CallFits' /\ LentFits'
    BY <1>0, <1>2, <2>1 DEF CallFits, Knows, LentFits, InCall, Owning, MutexTypeOK
  <2>8. ZeroFits'
    BY <2>1 DEF ZeroFits
  <2>9. QED
    BY <2>2, <2>4, <2>5, <2>6, <2>7, <2>8
<1>5. QED
  BY <1>3, <1>4

LEMMA DisownKeeps == ASSUME MutexInv, NEW t \in Thread, Disown(t)
                     PROVE  MutexInv'
<1> DEFINE m == call[t].m
<1> USE DEF Disown, Goes, MutexInv
<1>0. /\ m \in Mutexes /\ call[t].at = "disown" /\ Occupies(t, m)
      /\ m \notin misled => entered[t][m] = 0
  BY CallKnows DEF MutexTypeOK, Occupies, Owning, Knows
<1>1. m \notin misled => \A u \in Thread : entered[u][m] = 0 /\ (u # t => ~Occupies(u, m))
  BY <1>0 DEF OneOwner, Occupies, MutexTypeOK
<1>2. MutexTypeOK'
  BY <1>0 DEF MutexTypeOK, Steps
<1>3. \A u \in Thread, k \in Mutexes : Occupies(u, k)' = Occupies(u, k)
  BY <1>0 DEF MutexTypeOK, Occupies, Owning
<1>4. LockOwned' /\ OneOwner'
  BY <1>3 DEF LockOwned, OneOwner
<1>5. OwnerOwns'
  BY <1>0, MutexConstants DEF OwnerOwns, MutexTypeOK
<1>6. Counted'
  BY <1>0, <1>1 DEF Counted, MutexTypeOK
<1>7. CallFits'
  BY <1>0, <1>1 DEF CallFits, Knows, Owning, Occupies, MutexTypeOK
<1>8. LentFits'
  BY <1>0 DEF LentFits, InCall, MutexTypeOK
<1>9. ZeroFits'
  BY <1>0, ZeroStays DEF MutexTypeOK
<1>10. QED
  BY <1>2, <1>4, <1>5, <1>6, <1>7, <1>8, <1>9

LEMMA UnlockKeeps == ASSUME MutexInv, NEW t \in Thread, Unlock(t)
                     PROVE  MutexInv'
<1> DEFINE m == call[t].m
<1> USE DEF Unlock, Unlocked, Returns, MutexInv, history
<1>0. /\ m \in Mutexes /\ call[t].at = "unlock" /\ Occupies(t, m)
      /\ m \notin misled => entered[t][m] = 0
  BY CallKnows DEF MutexTypeOK, Occupies, Owning, Knows
<1>1. m \notin misled => \A u \in Thread : entered[u][m] = 0 /\ (u # t => ~Occupies(u, m))
  BY <1>0 DEF OneOwner, Occupies, MutexTypeOK
<1>2. MutexTypeOK'
  BY <1>0, IdleTyped DEF MutexTypeOK
<1>3. \A u \in Thread, k \in Mutexes \ misled :
          Occupies(u, k)' <=> Occupies(u, k) /\ ~(u = t /\ k = m)
  BY <1>0 DEF MutexTypeOK, Occupies, Owning, Idle
<1>4. LockOwned' /\ OneOwner'
  BY <1>0, <1>1, <1>3 DEF LockOwned, OneOwner, MutexTypeOK
<1>5. OwnerOwns' /\ Counted'
  BY <1>0 DEF OwnerOwns, Counted, MutexTypeOK
<1>6. CallFits'
  BY <1>0 DEF CallFits, Knows, Owning, MutexTypeOK, Idle
<1>7. LentFits'
  BY <1>0 DEF LentFits, InCall, MutexTypeOK, Idle
<1>8. ZeroFits'
  BY <1>0, ZeroStays DEF MutexTypeOK
<1>9. QED
  BY <1>2, <1>4, <1>5, <1>6, <1>7, <1>8

-----------------------------------------------------------------------------
LEMMA MutexStep == MutexInv /\ [MutexNext]_mutexVars => MutexInv'
<1> SUFFICES ASSUME MutexInv, [MutexNext]_mutexVars PROVE MutexInv'
  OBVIOUS
<1>1. CASE UNCHANGED mutexVars
  BY <1>1 DEF mutexVars, fields, history, MutexInv, MutexTypeOK, LockOwned, OneOwner, OwnerOwns, Counted,
              CallFits, Knows, ZeroFits, LentFits, Occupies, InCall
<1>2. CASE MutexNext
  <2>1. PICK t \in Thread :
            \/ \E recursive \in BOOLEAN : Alloc(t, recursive)
            \/ \E m \in Static : AllocStatic(t, m)
            \/ \E m \in Mutexes : FreeMutex(t, m) \/ Leave(t, m)
            \/ \E m \in Mutexes, try \in BOOLEAN : Enter(t, m, try)
            \/ Step(t)
    BY <1>2 DEF MutexNext
  <2>2. CASE Step(t)
    BY <2>2, ScanKeeps, TestOwnerKeeps, TestLockedKeeps, DeepenKeeps, ExchangeKeeps,
       StoreOwnerKeeps, StoreDepthKeeps, DisownKeeps, UnlockKeeps DEF Step
  <2>3. QED
    BY <2>1, <2>2, AllocKeeps, AllocStaticKeeps, FreeKeeps, LeaveKeeps, EnterKeeps
<1>3. QED
  BY <1>1, <1>2

THEOREM MutexInvariance == MutexSpec => []MutexInv
  BY InitMutexInv, MutexStep, PTL DEF MutexSpec

\* Types of the mutexes, the calls and what callers hold.
THEOREM MutexTypeCorrect == MutexSpec => []MutexTypeOK
<1>1. MutexInv => MutexTypeOK
  BY DEF MutexInv
<1>2. QED
  BY <1>1, MutexInvariance, PTL

\* No two threads are ever inside the same mutex (wasmMutexEnter, wasmMutexTry), unless
\* the loader met a static one while another thread took it for the first time ever.
THEOREM MutualExclusion == MutexSpec => []Exclusion
<1>1. MutexInv => Exclusion
  BY DEF MutexInv, Exclusion, OneOwner, Occupies
<1>2. QED
  BY <1>1, MutexInvariance, PTL

\* xMutexHeld is right between calls, and the depth is the number of enters, with the
\* same exception; the loader is also told that it holds a static mutex in that moment.
THEOREM HeldIsExact == MutexSpec => []HeldIsTrue
<1>1. ASSUME MutexInv, NEW t \in Thread, NEW m \in Mutexes \ misled, Calls(t)
      PROVE  /\ entered[t][m] > 0 => Held(t, m) /\ depth[m] = entered[t][m]
             /\ Held(t, m) => entered[t][m] > 0 \/ (t = Loader /\ m \in fresh)
  <2>1. locked[m] => m \in lent
    BY <1>1 DEF MutexInv, LockOwned, LentFits, Occupies, Owning, InCall
  <2>2. Held(t, m) => entered[t][m] > 0 \/ (t = Loader /\ m \in fresh)
    BY <1>1, <2>1 DEF MutexInv, OwnerOwns, Calls, Held
  <2>3. entered[t][m] > 0 => Held(t, m) /\ depth[m] = entered[t][m]
    BY <1>1 DEF MutexInv, Counted, LockOwned, Occupies, Held
  <2>4. QED
    BY <2>2, <2>3
<1>2. MutexInv => HeldIsTrue
  BY <1>1 DEF HeldIsTrue
<1>3. QED
  BY <1>2, MutexInvariance, PTL

\* The three together: what SQLite takes for granted of a mutex, but for the named case.
THEOREM MutexExactness == MutexSpec => []MutexIsExact
  BY MutexTypeCorrect, MutualExclusion, HeldIsExact, PTL DEF MutexIsExact

\* A pool mutex loses its lock only to its owner: no allocation resets it.
THEOREM AllocationResetsNothing == MutexSpec => LentOnce
<1> DEFINE Kept == \A m \in Pool : locked[m] /\ ~locked'[m] =>
                       \E t \in Thread : call[t].at = "unlock" /\ call[t].m = m
<1>1. ASSUME MutexInv, [MutexNext]_mutexVars PROVE Kept
  <2> SUFFICES ASSUME NEW m \in Pool, locked[m], ~locked'[m]
               PROVE  \E t \in Thread : call[t].at = "unlock" /\ call[t].m = m
    OBVIOUS
  <2>1. m \in Mutexes \ misled /\ locked' # locked
    BY <1>1, MutexConstants DEF Mutexes, Pool, Static, MutexInv, MutexTypeOK
  <2>2. PICK t \in Thread : Scan(t) \/ Exchange(t) \/ Unlock(t)
    BY <1>1, <2>1 DEF MutexNext, mutexVars, fields, Alloc, AllocStatic, FreeMutex, Leave, Enter, Step, TestOwner,
                      TestLocked, Deepen, StoreOwner, StoreDepth, Disown
  <2>3. m \in lent /\ in_use[m]
    <3>1. PICK u \in Thread : Occupies(u, m)
      BY <1>1, <2>1 DEF MutexInv, LockOwned
    <3>2. QED
      BY <1>1, <2>1, <3>1 DEF MutexInv, LentFits, Occupies, Owning, InCall
  <2>4. ~Scan(t)
    BY <1>1, <2>1, <2>3 DEF Scan, Claimed, MutexInv, MutexTypeOK, fields
  <2>5. ~Exchange(t)
    BY <1>1, <2>1 DEF Exchange, MutexInv, MutexTypeOK
  <2>6. Unlock(t) => call[t].at = "unlock" /\ call[t].m = m
    BY <1>1, <2>1 DEF Unlock, MutexInv, MutexTypeOK
  <2>7. QED
    BY <2>2, <2>4, <2>5, <2>6
<1>2. QED
  BY <1>1, MutexInvariance, PTL DEF MutexSpec, LentOnce
-----------------------------------------------------------------------------

\* What the heap's operators map.
Heaps == [mem : [Words -> Tag], brk : 0 .. MaxWords, regions : Seq(Region), free : Seq(Words),
          inuse : Int]

InRegion(r, w) == r.base <= w /\ w < r.limit
Regions(h) == ToSet(h.regions)

\* Regions lie apart from each other, in the memory, and at even words.
RegionsApart(h) ==
    /\ \A r \in Regions(h) : /\ r \in Region /\ r.base < r.limit /\ r.limit <= h.brk
                             /\ r.base % 2 = 0 /\ r.limit % 2 = 0
    /\ \A r, s \in Regions(h) : r = s \/ r.limit <= s.base \/ s.limit <= r.base

\* The words of the chunk at c are those from c on and before After(h, c).
InChunk(h, c, w) == c <= w /\ w < After(h, c)

\* A chunk lies in a region, and its footer says what its header says.
ChunkOk(h, c) ==
    /\ c \in Words /\ Size(h, c) % 2 = 0 /\ Size(h, c) >= 2
    /\ \E r \in Regions(h) : r.base <= c /\ After(h, c) <= r.limit
    /\ h.mem[After(h, c) - 1] = h.mem[c]

\* The chunks at C are those of the heap: every word of a region is in one.
Tiles(h, C) ==
    /\ \A c \in C : ChunkOk(h, c)
    /\ \A c, d \in C : c = d \/ After(h, c) <= d \/ After(h, d) <= c
    /\ \A r \in Regions(h), w \in Words : InRegion(r, w) => \E c \in C : InChunk(h, c, w)

\* The free list has the chunks at F, each once.
Lists(h, F) == ToSet(h.free) = F /\ IsInjective(h.free)

FreeOf(h, C) == {c \in C : ~h.mem[c].inuse}

\* d follows c in a region.
Follows(h, c, d) == d = After(h, c) /\ \E r \in Regions(h) : InRegion(r, c) /\ InRegion(r, d)

\* No two of the free chunks at F are neighbours.
Apart(h, F) == \A c, d \in F : ~ Follows(h, c, d)

\* The blocks that are handed out.
Blocks(h, C) == {[at |-> c, size |-> Size(h, c)] : c \in C \ FreeOf(h, C)}

-----------------------------------------------------------------------------
(* Regions and chunks.                                                     *)

\* What is known of a word.
LEMMA WordParts ==
    ASSUME NEW h \in Heaps, NEW w \in Words
    PROVE  /\ w \in Nat /\ w < MaxWords /\ MaxWords \in Nat
           /\ h.mem[w] \in Tag /\ Size(h, w) \in 0 .. MaxWords
           /\ h.mem[w].size = Size(h, w) /\ h.mem[w].inuse \in BOOLEAN
           /\ After(h, w) \in Nat /\ After(h, w) = w + 2 + Size(h, w)
<1>1. MaxWords \in Nat
  BY HeapConstants
<1>2. h.mem[w] \in Tag
  BY DEF Heaps
<1>3. w \in Nat /\ w < MaxWords
  BY <1>1 DEF Words
<1>4. Size(h, w) \in 0 .. MaxWords /\ h.mem[w].inuse \in BOOLEAN /\ h.mem[w].size = Size(h, w)
  BY <1>2 DEF Tag, Size
<1> QED
  BY <1>1, <1>2, <1>3, <1>4 DEF After, Overhead

\* What RegionsApart says of one region.
LEMMA RegionParts ==
    ASSUME NEW h \in Heaps, RegionsApart(h), NEW r \in Regions(h)
    PROVE  /\ r.base \in Nat /\ r.limit \in Nat /\ h.brk \in Nat /\ MaxWords \in Nat
           /\ r.base < r.limit /\ r.limit <= h.brk /\ h.brk <= MaxWords
           /\ r.base % 2 = 0 /\ r.limit % 2 = 0
<1>1. MaxWords \in Nat
  BY HeapConstants
<1> QED
  BY <1>1 DEF Heaps, RegionsApart, Region

\* A chunk and its words.
LEMMA ChunkParts ==
    ASSUME NEW h \in Heaps, RegionsApart(h), NEW C, Tiles(h, C), NEW c \in C
    PROVE  /\ c \in Words /\ c \in Nat /\ After(h, c) = c + 2 + Size(h, c)
           /\ Size(h, c) \in Nat /\ Size(h, c) >= 2 /\ Size(h, c) % 2 = 0
           /\ After(h, c) \in Nat /\ After(h, c) <= h.brk /\ h.brk <= MaxWords /\ h.brk \in Nat
           /\ h.mem[After(h, c) - 1] = h.mem[c]
           /\ \E r \in Regions(h) : r.base <= c /\ After(h, c) <= r.limit
<1>1. ChunkOk(h, c)
  BY DEF Tiles
<1>2. PICK r \in Regions(h) : r.base <= c /\ After(h, c) <= r.limit
  BY <1>1 DEF ChunkOk
<1>3. After(h, c) <= h.brk /\ h.brk <= MaxWords /\ h.brk \in Nat
  BY <1>1, <1>2, WordParts, RegionParts DEF ChunkOk
<1> QED
  BY <1>1, <1>3, WordParts DEF ChunkOk

\* heap_region_containing of a chunk is the region that it lies in.
LEMMA OneRegion ==
    ASSUME NEW h \in Heaps, RegionsApart(h), NEW r \in Regions(h), NEW s \in Regions(h),
           NEW w \in Nat, InRegion(r, w), InRegion(s, w)
    PROVE  r = s
  BY RegionParts DEF RegionsApart, InRegion

\* heap_region_containing finds the region that has the word.
LEMMA InRegionOf ==
    ASSUME NEW h \in Heaps, RegionsApart(h), NEW w \in Nat, NEW r
    PROVE  r \in RegionOf(h, w) <=> r \in Regions(h) /\ InRegion(r, w)
<1>1. ASSUME r \in Regions(h) PROVE w \in r.base .. r.limit - 1 <=> InRegion(r, w)
  BY <1>1, RegionParts DEF InRegion
<1> QED
  BY <1>1 DEF RegionOf, Regions

\* The chunk that begins where another ends.
LEMMA NextIsChunk ==
    ASSUME NEW h \in Heaps, RegionsApart(h), NEW C, Tiles(h, C), NEW c \in C
    PROVE  NextPhys(h, c) = {d \in C : Follows(h, c, d)}
<1> DEFINE n == After(h, c)
<1>1. /\ c \in Words /\ c \in Nat /\ n = c + 2 + Size(h, c) /\ Size(h, c) \in Nat
      /\ n \in Nat /\ n <= MaxWords /\ MaxWords \in Nat
  BY ChunkParts, HeapConstants
<1>2. PICK r \in Regions(h) : r.base <= c /\ n <= r.limit
  BY ChunkParts
<1>3. InRegion(r, c) /\ r.limit \in Nat /\ r.base \in Nat /\ r.limit <= MaxWords
  BY <1>1, <1>2, RegionParts DEF InRegion
<1>4. \A s : s \in RegionOf(h, c) <=> s = r
  BY <1>1, <1>3, InRegionOf, OneRegion
<1>5. NextPhys(h, c) = {m \in {n} : n < r.limit}
  BY <1>4 DEF NextPhys
<1>6. ASSUME n < r.limit PROVE n \in C /\ Follows(h, c, n)
  <2>1. n \in Words /\ InRegion(r, n)
    BY <1>1, <1>2, <1>3, <1>6 DEF Words, InRegion
  <2>2. PICK d \in C : InChunk(h, d, n)
    BY <2>1 DEF Tiles
  <2>3. d \in Nat /\ After(h, d) \in Nat
    BY ChunkParts
  <2>4. d = n
    <3>1. c = d \/ n <= d \/ After(h, d) <= c
      BY DEF Tiles
    <3> QED
      BY <1>1, <2>2, <2>3, <3>1 DEF InChunk
  <2> QED
    BY <1>3, <2>1, <2>4 DEF Follows
<1>7. ASSUME NEW d \in C, Follows(h, c, d) PROVE d = n /\ n < r.limit
  <2>1. PICK s \in Regions(h) : InRegion(s, c) /\ InRegion(s, d)
    BY <1>7 DEF Follows
  <2>2. s = r
    BY <1>1, <1>3, <2>1, OneRegion
  <2> QED
    BY <1>7, <2>1, <2>2 DEF Follows, InRegion
<1> QED
  BY <1>5, <1>6, <1>7

\* The chunk that ends where another begins, found through its footer.
LEMMA PrevIsChunk ==
    ASSUME NEW h \in Heaps, RegionsApart(h), NEW C, Tiles(h, C), NEW c \in C
    PROVE  PrevPhys(h, c) = {d \in C : Follows(h, d, c)}
<1>1. /\ c \in Words /\ c \in Nat /\ After(h, c) = c + 2 + Size(h, c) /\ Size(h, c) \in Nat
      /\ MaxWords \in Nat
  BY ChunkParts, HeapConstants
<1>2. PICK r \in Regions(h) : r.base <= c /\ After(h, c) <= r.limit
  BY ChunkParts
<1>3. InRegion(r, c) /\ r.limit \in Nat /\ r.base \in Nat /\ r.limit <= MaxWords
  BY <1>1, <1>2, RegionParts DEF InRegion
<1>4. \A s : s \in RegionOf(h, c) <=> s = r
  BY <1>1, <1>3, InRegionOf, OneRegion
<1>5. PrevPhys(h, c) = IF c > r.base THEN {c - Overhead - Size(h, c - 1)} ELSE {}
  BY <1>4 DEF PrevPhys
<1>6. ASSUME c > r.base
      PROVE  \E d \in C : d = c - Overhead - Size(h, c - 1) /\ Follows(h, d, c)
  <2>1. c - 1 \in Words /\ InRegion(r, c - 1) /\ c - 1 \in Nat
    BY <1>1, <1>3, <1>6 DEF Words, InRegion
  <2>2. PICK d \in C : InChunk(h, d, c - 1)
    BY <2>1 DEF Tiles
  <2>3. /\ d \in Words /\ d \in Nat /\ After(h, d) = d + 2 + Size(h, d) /\ Size(h, d) \in Nat
        /\ h.mem[After(h, d) - 1] = h.mem[d]
    BY ChunkParts
  <2>4. After(h, d) = c
    <3>1. c = d \/ After(h, c) <= d \/ After(h, d) <= c
      BY DEF Tiles
    <3> QED
      BY <1>1, <2>1, <2>2, <2>3, <3>1 DEF InChunk
  <2>5. Size(h, c - 1) = Size(h, d)
    BY <2>3, <2>4 DEF Size
  <2>6. d = c - Overhead - Size(h, c - 1)
    BY <1>1, <2>3, <2>4, <2>5 DEF Overhead
  <2>7. PICK s \in Regions(h) : s.base <= d /\ After(h, d) <= s.limit
    BY ChunkParts
  <2>8. InRegion(s, c - 1) /\ InRegion(s, d)
    BY <1>1, <2>1, <2>3, <2>4, <2>7, RegionParts DEF InRegion
  <2>9. s = r
    BY <2>1, <2>8, OneRegion
  <2> QED
    BY <1>3, <2>4, <2>6, <2>8, <2>9 DEF Follows
<1>7. ASSUME NEW d \in C, Follows(h, d, c) PROVE c > r.base /\ d = c - Overhead - Size(h, c - 1)
  <2>1. PICK s \in Regions(h) : InRegion(s, d) /\ InRegion(s, c)
    BY <1>7 DEF Follows
  <2>2. s = r
    BY <1>1, <1>3, <2>1, OneRegion
  <2>3. /\ d \in Words /\ d \in Nat /\ After(h, d) = d + 2 + Size(h, d) /\ Size(h, d) \in Nat
        /\ h.mem[After(h, d) - 1] = h.mem[d] /\ After(h, d) = c
    BY <1>7, ChunkParts DEF Follows
  <2>4. Size(h, c - 1) = Size(h, d)
    BY <2>3 DEF Size
  <2> QED
    BY <1>1, <1>3, <2>1, <2>2, <2>3, <2>4 DEF InRegion, Overhead
<1> QED
  BY <1>5, <1>6, <1>7

-----------------------------------------------------------------------------
(* Words change hands.                                                     *)

\* k is h with other chunks between lo and hi: those at E for those at D.
Recut(h, k, C, D, E, lo, hi) ==
    /\ k \in Heaps /\ k.regions = h.regions /\ k.brk = h.brk
    /\ D \subseteq C /\ lo \in Nat /\ hi \in Nat
    /\ \A w \in Words : ~(lo <= w /\ w < hi) => k.mem[w] = h.mem[w]
    /\ \A w \in Words : lo <= w /\ w < hi => /\ \E d \in D : InChunk(h, d, w)
                                             /\ \E e \in E : InChunk(k, e, w)
    /\ \A d \in D : lo <= d /\ After(h, d) <= hi
    /\ \A e \in E : ChunkOk(k, e) /\ lo <= e /\ After(k, e) <= hi
    /\ \A e, f \in E : e = f \/ After(k, e) <= f \/ After(k, f) <= e

\* The tags of the chunks at D stay what they were.
Kept(h, k, D) == \A d \in D : k.mem[d] = h.mem[d]

\* Chunks D between lo and hi are recut into the chunks E: the regions stay tiled,
\* and the chunks beside them are as they were.
LEMMA RecutTiles ==
    ASSUME NEW h \in Heaps, RegionsApart(h), NEW C, Tiles(h, C), NEW k, NEW D, NEW E,
           NEW lo, NEW hi, Recut(h, k, C, D, E, lo, hi)
    PROVE  /\ RegionsApart(k) /\ Tiles(k, (C \ D) \cup E)
           /\ Kept(h, k, C \ D)
<1> DEFINE N == (C \ D) \cup E
<1>1. /\ k \in Heaps /\ k.regions = h.regions /\ k.brk = h.brk /\ Regions(k) = Regions(h)
      /\ D \subseteq C /\ lo \in Nat /\ hi \in Nat
  BY DEF Recut, Regions
<1>2. RegionsApart(k)
  BY <1>1 DEF RegionsApart
<1>3. \A w \in Words : ~(lo <= w /\ w < hi) => k.mem[w] = h.mem[w]
  BY DEF Recut
<1>4. \A w \in Words : lo <= w /\ w < hi => \E d \in D : InChunk(h, d, w)
  BY DEF Recut
<1>5. \A w \in Words : lo <= w /\ w < hi => \E e \in E : InChunk(k, e, w)
  BY DEF Recut
<1>6. \A d \in D : lo <= d /\ After(h, d) <= hi
  BY DEF Recut
<1>7. \A e \in E : ChunkOk(k, e) /\ lo <= e /\ After(k, e) <= hi
  BY DEF Recut
<1>8. \A e, f \in E : e = f \/ After(k, e) <= f \/ After(k, f) <= e
  BY DEF Recut
<1>9. \A c \in C : /\ c \in Words /\ c \in Nat /\ After(h, c) = c + 2 + Size(h, c)
                   /\ Size(h, c) \in Nat /\ Size(h, c) >= 2 /\ After(h, c) \in Nat
                   /\ After(h, c) <= MaxWords /\ ChunkOk(h, c)
  <2> SUFFICES ASSUME NEW c \in C
               PROVE  /\ c \in Words /\ c \in Nat /\ After(h, c) = c + 2 + Size(h, c)
                      /\ Size(h, c) \in Nat /\ Size(h, c) >= 2 /\ After(h, c) \in Nat
                      /\ After(h, c) <= MaxWords /\ ChunkOk(h, c)
    OBVIOUS
  <2>1. MaxWords \in Nat
    BY HeapConstants
  <2>2. ChunkOk(h, c)
    BY DEF Tiles
  <2>3. /\ c \in Words /\ c \in Nat /\ After(h, c) = c + 2 + Size(h, c)
        /\ Size(h, c) \in Nat /\ Size(h, c) >= 2 /\ After(h, c) \in Nat
        /\ After(h, c) <= h.brk /\ h.brk <= MaxWords /\ h.brk \in Nat
    BY ChunkParts
  <2> QED
    BY <2>1, <2>2, <2>3
<1>10. MaxWords \in Nat
  BY HeapConstants
<1>11. ASSUME NEW c \in C \ D, NEW w \in Words, InChunk(h, c, w) PROVE ~(lo <= w /\ w < hi)
  <2> SUFFICES ASSUME lo <= w /\ w < hi PROVE FALSE
    OBVIOUS
  <2>1. PICK d \in D : InChunk(h, d, w)
    BY <1>4
  <2>2. d \in C /\ c # d
    BY <1>1
  <2>3. After(h, c) <= d \/ After(h, d) <= c
    BY <2>2 DEF Tiles
  <2>4. w \in Nat
    BY <1>10 DEF Words
  <2> QED
    BY <1>9, <1>11, <2>1, <2>2, <2>3, <2>4 DEF InChunk
<1>12. ASSUME NEW c \in C \ D PROVE k.mem[c] = h.mem[c] /\ Size(k, c) = Size(h, c) /\ ChunkOk(k, c)
  <2>1. c \in Words /\ InChunk(h, c, c)
    BY <1>9 DEF InChunk
  <2>2. k.mem[c] = h.mem[c]
    BY <1>3, <1>11, <2>1
  <2>3. Size(k, c) = Size(h, c) /\ After(k, c) = After(h, c)
    BY <2>2 DEF Size, After
  <2>4. After(h, c) - 1 \in Words /\ InChunk(h, c, After(h, c) - 1)
    BY <1>9, <1>10 DEF InChunk, Words
  <2>5. k.mem[After(h, c) - 1] = h.mem[After(h, c) - 1]
    BY <1>3, <1>11, <2>4
  <2>6. ChunkOk(h, c)
    BY <1>9
  <2> QED
    BY <1>1, <2>2, <2>3, <2>5, <2>6 DEF ChunkOk
<1>13. \A c \in C \ D : After(k, c) = After(h, c)
  BY <1>12 DEF After
<1>14. \A e \in E : /\ e \in Words /\ e \in Nat /\ Size(k, e) \in Nat /\ Size(k, e) >= 2
                    /\ After(k, e) = e + 2 + Size(k, e)
  BY <1>1, <1>7, WordParts DEF ChunkOk
<1>15. ASSUME NEW c \in C \ D, NEW e \in E PROVE After(k, c) <= e \/ After(k, e) <= c
  <2> SUFFICES ASSUME ~(After(k, c) <= e), ~(After(k, e) <= c) PROVE FALSE
    OBVIOUS
  <2>1. After(k, c) = After(h, c) /\ c \in Words /\ c \in Nat /\ After(h, c) = c + 2 + Size(h, c)
        /\ Size(h, c) \in Nat
    BY <1>9, <1>13
  <2>2. CASE c <= e
    <3>1. InChunk(h, c, e)
      BY <1>14, <2>1, <2>2 DEF InChunk
    <3> QED
      BY <1>7, <1>1, <1>11, <1>14, <3>1
  <2>3. CASE e < c
    <3>1. InChunk(h, c, c)
      BY <2>1 DEF InChunk
    <3>2. lo <= c /\ c < hi
      BY <1>1, <1>7, <1>14, <2>1, <2>3
    <3> QED
      BY <1>11, <2>1, <3>1, <3>2
  <2> QED
    BY <1>14, <2>1, <2>2, <2>3
<1>16. \A c \in N : ChunkOk(k, c)
  BY <1>7, <1>12
<1>17. ASSUME NEW c \in N, NEW d \in N PROVE c = d \/ After(k, c) <= d \/ After(k, d) <= c
  <2>1. CASE c \in E /\ d \in E
    BY <1>8, <2>1
  <2>2. CASE c \in C \ D /\ d \in C \ D
    BY <1>13, <2>2 DEF Tiles
  <2>3. CASE c \in C \ D /\ d \in E
    BY <1>15, <2>3
  <2>4. CASE c \in E /\ d \in C \ D
    BY <1>15, <2>4
  <2> QED
    BY <2>1, <2>2, <2>3, <2>4
<1>18. ASSUME NEW r \in Regions(k), NEW w \in Words, InRegion(r, w)
       PROVE  \E c \in N : InChunk(k, c, w)
  <2>1. CASE lo <= w /\ w < hi
    BY <1>5, <2>1
  <2>2. CASE ~(lo <= w /\ w < hi)
    <3>1. PICK c \in C : InChunk(h, c, w)
      BY <1>1, <1>18 DEF Tiles
    <3>2. c \notin D
      <4> SUFFICES ASSUME c \in D PROVE FALSE
        OBVIOUS
      <4>1. lo <= c /\ After(h, c) <= hi
        BY <1>6
      <4>2. w \in Nat
        BY <1>10 DEF Words
      <4> QED
        BY <1>1, <1>9, <2>2, <3>1, <4>1, <4>2 DEF InChunk
    <3> QED
      BY <1>13, <3>1, <3>2 DEF InChunk
  <2> QED
    BY <2>1, <2>2
<1>19. Tiles(k, N)
  BY <1>16, <1>17, <1>18 DEF Tiles
<1> QED
  BY <1>2, <1>12, <1>19 DEF Kept

\* k is h with the tags of a chunk at c written, and other words of it.
Marked(h, k, c, span, used) ==
    /\ k \in Heaps /\ k.brk = h.brk /\ k.regions = h.regions /\ k.inuse = h.inuse
    /\ k.mem[c] = [size |-> span, inuse |-> used]
    /\ k.mem[c + 1 + span] = [size |-> span, inuse |-> used]
    /\ \A w \in Words : ~(c <= w /\ w < c + 2 + span) => k.mem[w] = h.mem[w]

\* chunk_set writes the words of the chunk, and no others.
LEMMA ChunkSetParts ==
    ASSUME NEW h \in Heaps, NEW c \in Words, NEW span \in Nat, NEW used \in BOOLEAN,
           c + 2 + span <= MaxWords
    PROVE  /\ Marked(h, ChunkSet(h, c, span, used), c, span, used)
           /\ ChunkSet(h, c, span, used).free = h.free
<1> DEFINE m == [w \in Words |->
                    IF w \in {c, c + 1 + span} THEN [size |-> span, inuse |-> used]
                    ELSE IF w \in c .. c + span THEN Data ELSE h.mem[w]]
           k == [h EXCEPT !.mem = m]
<1>1. MaxWords \in Nat /\ c \in Nat
  BY HeapConstants DEF Words
<1>2. [size |-> span, inuse |-> used] \in Tag /\ Data \in Tag
  BY <1>1 DEF Tag, Data
<1>3. m \in [Words -> Tag]
  BY <1>2 DEF Heaps
<1>4. m[c] = [size |-> span, inuse |-> used]
  OBVIOUS
<1>5. c + 1 + span \in Words
  BY <1>1 DEF Words
<1>6. m[c + 1 + span] = [size |-> span, inuse |-> used]
  BY <1>5
<1>7. \A w \in Words : ~(c <= w /\ w < c + 2 + span) => m[w] = h.mem[w]
  BY <1>1 DEF Words
<1> HIDE DEF m
<1>8. /\ k \in Heaps /\ k.brk = h.brk /\ k.regions = h.regions /\ k.free = h.free
      /\ k.inuse = h.inuse /\ k.mem = m
  BY <1>3 DEF Heaps
<1>9. ChunkSet(h, c, span, used) = k
  BY DEF ChunkSet, m
<1> HIDE DEF k
<1> QED
  BY <1>4, <1>6, <1>7, <1>8, <1>9 DEF Marked

\* free_chunk_push: one more in the list.
LEMMA PutFreeParts ==
    ASSUME NEW h \in Heaps, NEW c \in Words, NEW span \in Nat, c + 2 + span <= MaxWords,
           NEW F, Lists(h, F), c \notin F
    PROVE  /\ Marked(h, PutFree(h, c, span), c, span, FALSE)
           /\ Lists(PutFree(h, c, span), F \cup {c})
<1> DEFINE g == ChunkSet(h, c, span, FALSE)
           s == <<c>> \o h.free
           k == [g EXCEPT !.free = s]
<1>1. Marked(h, g, c, span, FALSE) /\ g.free = h.free
  BY ChunkSetParts
<1>2. PutFree(h, c, span) = k
  BY DEF PutFree
<1> HIDE DEF g
<1>3. h.free \in Seq(Words) /\ Len(h.free) \in Nat /\ DOMAIN h.free = 1 .. Len(h.free)
  BY DEF Heaps
<1>4. /\ s \in Seq(Words) /\ Len(s) = Len(h.free) + 1 /\ DOMAIN s = 1 .. Len(s)
      /\ s[1] = c /\ \A i \in 1 .. Len(h.free) : s[i + 1] = h.free[i]
  BY <1>3
<1> HIDE DEF s
<1>5. \A i \in DOMAIN s : i # 1 => i - 1 \in DOMAIN h.free /\ s[i] = h.free[i - 1]
  <2> SUFFICES ASSUME NEW i \in DOMAIN s, i # 1
               PROVE  i - 1 \in DOMAIN h.free /\ s[i] = h.free[i - 1]
    OBVIOUS
  <2>1. i - 1 \in 1 .. Len(h.free) /\ (i - 1) + 1 = i
    BY <1>3, <1>4
  <2> QED
    BY <1>3, <1>4, <2>1
<1>6. k.free = s /\ k \in Heaps /\ k.brk = g.brk /\ k.regions = g.regions /\ k.inuse = g.inuse
      /\ k.mem = g.mem
  BY <1>1, <1>4 DEF Heaps, Marked
<1>7. ToSet(s) = F \cup {c}
  <2>1. ASSUME NEW i \in DOMAIN s PROVE s[i] \in F \cup {c}
    BY <1>4, <1>5 DEF Lists, ToSet
  <2>2. ASSUME NEW f \in F PROVE \E i \in DOMAIN s : s[i] = f
    <3>1. PICK j \in DOMAIN h.free : h.free[j] = f
      BY DEF Lists, ToSet
    <3>2. j + 1 \in DOMAIN s /\ s[j + 1] = f
      BY <1>3, <1>4, <3>1
    <3> QED
      BY <3>2
  <2>3. \E i \in DOMAIN s : s[i] = c
    BY <1>3, <1>4
  <2> QED
    BY <2>1, <2>2, <2>3 DEF ToSet
<1>8. IsInjective(s)
  <2> SUFFICES ASSUME NEW i \in DOMAIN s, NEW j \in DOMAIN s, s[i] = s[j] PROVE i = j
    BY DEF IsInjective
  <2>1. \A m \in DOMAIN h.free : h.free[m] # c
    BY DEF Lists, ToSet
  <2>2. CASE i = 1 \/ j = 1
    BY <1>4, <1>5, <2>1, <2>2
  <2>3. CASE i # 1 /\ j # 1
    <3>1. i - 1 = j - 1
      BY <1>5, <2>3 DEF Lists, IsInjective
    <3> QED
      BY <1>3, <1>4, <3>1
  <2> QED
    BY <2>2, <2>3
<1> HIDE DEF k
<1> QED
  BY <1>1, <1>2, <1>6, <1>7, <1>8 DEF Lists, Marked

\* k is h with F for its free list.
Taken(h, k, F) ==
    /\ k \in Heaps /\ k.brk = h.brk /\ k.regions = h.regions /\ k.inuse = h.inuse
    /\ k.mem = h.mem /\ Lists(k, F)

\* free_chunk_remove: one less.
LEMMA TakeFreeParts ==
    ASSUME NEW h \in Heaps, NEW F, Lists(h, F), NEW c \in F
    PROVE  Taken(h, TakeFree(h, c), F \ {c})
<1> DEFINE i == CHOOSE j \in DOMAIN h.free : h.free[j] = c
           a == SubSeq(h.free, 1, i - 1)
           b == SubSeq(h.free, i + 1, Len(h.free))
           s == a \o b
           k == [h EXCEPT !.free = s]
<1>1. h.free \in Seq(Words) /\ Len(h.free) \in Nat /\ DOMAIN h.free = 1 .. Len(h.free)
  BY DEF Heaps
<1>2. i \in 1 .. Len(h.free) /\ h.free[i] = c
  <2>1. \E j \in DOMAIN h.free : h.free[j] = c
    BY DEF Lists, ToSet
  <2> QED
    BY <1>1, <2>1
<1>3. TakeFree(h, c) = k
  BY DEF TakeFree, RemoveAt
<1> HIDE DEF i
<1>4. a \in Seq(Words) /\ Len(a) = i - 1 /\ \A j \in 1 .. i - 1 : a[j] = h.free[j]
  BY <1>1, <1>2, SubSeqProperties
<1>5. b \in Seq(Words) /\ Len(b) = Len(h.free) - i
      /\ \A j \in 1 .. Len(h.free) - i : b[j] = h.free[i + j]
  BY <1>1, <1>2, SubSeqProperties
<1> HIDE DEF a, b
<1>6. /\ s \in Seq(Words) /\ Len(s) = Len(h.free) - 1 /\ DOMAIN s = 1 .. Len(s)
      /\ \A j \in 1 .. Len(s) : s[j] = h.free[IF j < i THEN j ELSE j + 1]
  <2>1. s \in Seq(Words) /\ Len(s) = Len(a) + Len(b)
        /\ \A j \in 1 .. Len(a) + Len(b) : s[j] = IF j <= Len(a) THEN a[j] ELSE b[j - Len(a)]
    BY <1>4, <1>5, ConcatProperties
  <2>2. Len(s) = Len(h.free) - 1
    BY <1>1, <1>2, <1>4, <1>5, <2>1
  <2>3. ASSUME NEW j \in 1 .. Len(s) PROVE s[j] = h.free[IF j < i THEN j ELSE j + 1]
    <3>1. s[j] = IF j <= i - 1 THEN a[j] ELSE b[j - (i - 1)]
      BY <1>4, <1>5, <2>1, <2>3
    <3>2. CASE j < i
      BY <1>1, <1>2, <1>4, <3>1, <3>2
    <3>3. CASE ~(j < i)
      <4>1. j - (i - 1) \in 1 .. Len(h.free) - i /\ i + (j - (i - 1)) = j + 1
        BY <1>1, <1>2, <2>2, <3>3
      <4> QED
        BY <1>1, <1>2, <1>5, <3>1, <3>3, <4>1
    <3> QED
      BY <3>2, <3>3
  <2> QED
    BY <1>1, <2>1, <2>2, <2>3
<1> HIDE DEF s
<1>7. k \in Heaps /\ k.brk = h.brk /\ k.regions = h.regions /\ k.inuse = h.inuse
      /\ k.mem = h.mem /\ k.free = s
  BY <1>6 DEF Heaps
<1>8. \A j \in DOMAIN s : (IF j < i THEN j ELSE j + 1) \in DOMAIN h.free \ {i}
  BY <1>1, <1>2, <1>6
<1>9. ToSet(s) = F \ {c}
  <2>1. ASSUME NEW j \in DOMAIN s PROVE s[j] \in F \ {c}
    <3> DEFINE n == IF j < i THEN j ELSE j + 1
    <3>1. n \in DOMAIN h.free /\ n # i /\ s[j] = h.free[n]
      BY <1>6, <1>8
    <3> HIDE DEF n
    <3> QED
      BY <1>1, <1>2, <3>1 DEF Lists, ToSet, IsInjective
  <2>2. ASSUME NEW f \in F \ {c} PROVE \E j \in DOMAIN s : s[j] = f
    <3>1. PICK n \in DOMAIN h.free : h.free[n] = f
      BY DEF Lists, ToSet
    <3>2. CASE n < i
      BY <1>1, <1>2, <1>6, <3>1, <3>2
    <3>3. CASE i < n
      <4>1. n - 1 \in DOMAIN s /\ ~(n - 1 < i) /\ (n - 1) + 1 = n
        BY <1>1, <1>2, <1>6, <3>3
      <4> QED
        BY <1>6, <3>1, <4>1
    <3> QED
      BY <1>1, <1>2, <3>1, <3>2, <3>3
  <2> QED
    BY <2>1, <2>2 DEF ToSet
<1>10. IsInjective(s)
  <2> SUFFICES ASSUME NEW j \in DOMAIN s, NEW m \in DOMAIN s, s[j] = s[m] PROVE j = m
    BY DEF IsInjective
  <2> DEFINE p == IF j < i THEN j ELSE j + 1
             q == IF m < i THEN m ELSE m + 1
  <2>1. p \in DOMAIN h.free /\ q \in DOMAIN h.free /\ h.free[p] = h.free[q]
    BY <1>6, <1>8
  <2>2. p = q
    <3> HIDE DEF p, q
    <3> QED
      BY <2>1 DEF Lists, IsInjective
  <2> QED
    BY <1>1, <1>2, <1>6, <2>2
<1> HIDE DEF k
<1> QED
  BY <1>3, <1>7, <1>9, <1>10 DEF Lists, Taken

-----------------------------------------------------------------------------
(* A chunk becomes free.                                                   *)

UsedOf(h, C) == C \ FreeOf(h, C)

\* Nothing is wrong with the chunks at C, the regions and the free list.
Exact(h, C) == /\ h \in Heaps /\ RegionsApart(h) /\ Tiles(h, C)
               /\ Lists(h, FreeOf(h, C)) /\ Apart(h, FreeOf(h, C))

\* ... but that the chunk at c is in nobody's hands.
Loose(h, C, c) == /\ h \in Heaps /\ RegionsApart(h) /\ Tiles(h, C) /\ c \in C
                  /\ Lists(h, FreeOf(h, C) \ {c}) /\ Apart(h, FreeOf(h, C) \ {c})

\* k has the same memory as h, and the same chunks in use but those of U.
Drops(h, C, k, N, U) ==
    /\ Exact(k, N) /\ k.brk = h.brk /\ k.regions = h.regions /\ k.inuse = h.inuse
    /\ UsedOf(k, N) = UsedOf(h, C) \ U
    /\ \A u \in UsedOf(k, N) : k.mem[u] = h.mem[u]

\* The chunks from first to last, around c, which become one.
Around(h, C, c, first, last) ==
    /\ first \in C /\ last \in C
    /\ first = c \/ (first \in FreeOf(h, C) \ {c} /\ Follows(h, first, c))
    /\ last = c \/ (last \in FreeOf(h, C) \ {c} /\ Follows(h, c, last))
    /\ \A d \in FreeOf(h, C) \ {c} : ~Follows(h, d, first) /\ ~Follows(h, last, d)

\* A chunk is of the free ones or of the used ones, as its tag says.
LEMMA FreeParts ==
    ASSUME NEW h \in Heaps, RegionsApart(h), NEW C, Tiles(h, C)
    PROVE  /\ \A c \in C : h.mem[c].inuse \in BOOLEAN
           /\ \A c \in C : c \in FreeOf(h, C) <=> h.mem[c].inuse = FALSE
           /\ \A c \in C : c \in UsedOf(h, C) <=> h.mem[c].inuse = TRUE
<1>1. \A c \in C : h.mem[c].inuse \in BOOLEAN
  BY ChunkParts, WordParts
<1> QED
  BY <1>1 DEF FreeOf, UsedOf

\* What free looks at on both sides.
LEMMA SidesOf ==
    ASSUME NEW h, NEW C, NEW c, Loose(h, C, c)
    PROVE  LET next == FreeIn(h, NextPhys(h, c))
               prev == FreeIn(h, PrevPhys(h, c))
           IN  \E first, last :
                   /\ Around(h, C, c, first, last)
                   /\ IF first = c THEN prev = {} ELSE prev = {first}
                   /\ IF last = c THEN next = {} ELSE next = {last}
<1> DEFINE F == FreeOf(h, C) \ {c}
           next == FreeIn(h, NextPhys(h, c))
           prev == FreeIn(h, PrevPhys(h, c))
<1>1. /\ h \in Heaps /\ RegionsApart(h) /\ Tiles(h, C) /\ c \in C /\ Apart(h, F)
  BY DEF Loose
<1>2. \A d \in C : /\ d \in Nat /\ After(h, d) \in Nat /\ d < After(h, d)
  <2> SUFFICES ASSUME NEW d \in C PROVE d \in Nat /\ After(h, d) \in Nat /\ d < After(h, d)
    OBVIOUS
  <2>1. d \in Nat /\ After(h, d) = d + 2 + Size(h, d) /\ Size(h, d) \in Nat /\ After(h, d) \in Nat
    BY <1>1, ChunkParts
  <2> QED
    BY <2>1
<1>3. ~Follows(h, c, c)
  BY <1>1, <1>2 DEF Follows
<1>4. next = {d \in F : Follows(h, c, d)}
  <2>1. NextPhys(h, c) = {d \in C : Follows(h, c, d)}
    BY <1>1, NextIsChunk
  <2> QED
    BY <1>3, <2>1 DEF FreeIn, FreeOf
<1>5. prev = {d \in F : Follows(h, d, c)}
  <2>1. PrevPhys(h, c) = {d \in C : Follows(h, d, c)}
    BY <1>1, PrevIsChunk
  <2> QED
    BY <1>3, <2>1 DEF FreeIn, FreeOf
<1>6. F \subseteq C /\ c \notin F
  BY DEF FreeOf
<1> HIDE DEF F, next, prev
<1>7. \A d, e \in F : Follows(h, c, d) /\ Follows(h, c, e) => d = e
  BY DEF Follows
<1>8. \A d, e \in F : Follows(h, d, c) /\ Follows(h, e, c) => d = e
  <2> SUFFICES ASSUME NEW d \in F, NEW e \in F, Follows(h, d, c), Follows(h, e, c) PROVE d = e
    OBVIOUS
  <2>1. d = e \/ After(h, d) <= e \/ After(h, e) <= d
    BY <1>1, <1>6 DEF Tiles
  <2>2. c = After(h, d) /\ c = After(h, e)
    BY DEF Follows
  <2>3. d \in Nat /\ e \in Nat /\ d < c /\ e < c /\ c \in Nat
    BY <1>1, <1>2, <1>6, <2>2
  <2> QED
    BY <2>1, <2>2, <2>3
<1>9. PICK first : /\ IF first = c THEN prev = {} ELSE prev = {first}
                   /\ first \in C
                   /\ first = c \/ (first \in F /\ Follows(h, first, c))
                   /\ \A d \in F : ~Follows(h, d, first)
  <2>1. CASE prev = {}
    BY <1>1, <1>5, <2>1
  <2>2. CASE prev # {}
    <3>1. PICK d \in F : Follows(h, d, c)
      BY <1>5, <2>2
    <3>2. prev = {d} /\ d # c /\ d \in C
      BY <1>5, <1>6, <1>8, <3>1
    <3>3. \A e \in F : ~Follows(h, e, d)
      BY <1>1, <3>1 DEF Apart
    <3> QED
      BY <3>1, <3>2, <3>3
  <2> QED
    BY <2>1, <2>2
<1>10. PICK last : /\ IF last = c THEN next = {} ELSE next = {last}
                   /\ last \in C
                   /\ last = c \/ (last \in F /\ Follows(h, c, last))
                   /\ \A d \in F : ~Follows(h, last, d)
  <2>1. CASE next = {}
    BY <1>1, <1>4, <2>1
  <2>2. CASE next # {}
    <3>1. PICK d \in F : Follows(h, c, d)
      BY <1>4, <2>2
    <3>2. next = {d} /\ d # c /\ d \in C
      BY <1>4, <1>6, <1>7, <3>1
    <3>3. \A e \in F : ~Follows(h, d, e)
      BY <1>1, <3>1 DEF Apart
    <3> QED
      BY <3>1, <3>2, <3>3
  <2> QED
    BY <2>1, <2>2
<1>11. Around(h, C, c, first, last)
  BY <1>9, <1>10 DEF Around, F
<1> QED
  BY <1>9, <1>10, <1>11 DEF next, prev

\* They lie end to end in one region.
LEMMA AroundParts ==
    ASSUME NEW h, NEW C, NEW c, Loose(h, C, c), NEW first, NEW last, Around(h, C, c, first, last)
    PROVE  /\ first \in Words /\ first \in Nat /\ last \in Nat /\ c \in Nat
           /\ first <= c /\ c <= last
           /\ After(h, first) \in Nat /\ After(h, last) \in Nat /\ After(h, c) \in Nat
           /\ first # c => After(h, first) = c
           /\ last # c => last = After(h, c)
           /\ first + 4 <= After(h, last) /\ (After(h, last) - first) % 2 = 0
           /\ After(h, last) <= MaxWords /\ MaxWords \in Nat
           /\ \E r \in Regions(h) : r.base <= first /\ After(h, last) <= r.limit
           /\ first # last \/ first = c
<1>1. /\ h \in Heaps /\ RegionsApart(h) /\ Tiles(h, C) /\ c \in C /\ first \in C /\ last \in C
  BY DEF Loose, Around
<1>2. /\ c \in Nat /\ After(h, c) = c + 2 + Size(h, c) /\ Size(h, c) \in Nat /\ Size(h, c) >= 2
      /\ Size(h, c) % 2 = 0 /\ c \in Words /\ After(h, c) \in Nat
  BY <1>1, ChunkParts
<1>3. /\ first \in Nat /\ After(h, first) = first + 2 + Size(h, first) /\ Size(h, first) \in Nat
      /\ Size(h, first) % 2 = 0 /\ first \in Words /\ After(h, first) \in Nat
  BY <1>1, ChunkParts
<1>4. /\ last \in Nat /\ After(h, last) = last + 2 + Size(h, last) /\ Size(h, last) \in Nat
      /\ Size(h, last) % 2 = 0 /\ last \in Words /\ After(h, last) \in Nat
  BY <1>1, ChunkParts
<1>5. first = c \/ After(h, first) = c
  BY DEF Around, Follows
<1>6. last = c \/ last = After(h, c)
  BY DEF Around, Follows
<1>7. After(h, last) <= h.brk /\ h.brk <= MaxWords /\ h.brk \in Nat /\ MaxWords \in Nat
  BY <1>1, ChunkParts, HeapConstants
<1>8. PICK r \in Regions(h) : r.base <= c /\ After(h, c) <= r.limit
  BY <1>1, ChunkParts
<1>9. r.base \in Nat /\ r.limit \in Nat /\ InRegion(r, c)
  BY <1>1, <1>2, <1>8, RegionParts DEF InRegion
<1>10. r.base <= first
  <2>1. CASE first = c
    BY <1>8, <2>1
  <2>2. CASE first # c
    <3>1. PICK s \in Regions(h) : InRegion(s, first) /\ InRegion(s, c)
      BY <2>2 DEF Around, Follows
    <3>2. s = r
      BY <1>1, <1>2, <1>9, <3>1, OneRegion
    <3> QED
      BY <3>1, <3>2 DEF InRegion
  <2> QED
    BY <2>1, <2>2
<1>11. After(h, last) <= r.limit
  <2>1. CASE last = c
    BY <1>8, <2>1
  <2>2. CASE last # c
    <3>1. PICK s \in Regions(h) : InRegion(s, c) /\ InRegion(s, last)
      BY <2>2 DEF Around, Follows
    <3>2. s = r
      BY <1>1, <1>2, <1>9, <3>1, OneRegion
    <3>3. PICK q \in Regions(h) : q.base <= last /\ After(h, last) <= q.limit
      BY <1>1, ChunkParts
    <3>4. InRegion(q, last)
      BY <1>1, <1>4, <3>3, RegionParts DEF InRegion
    <3>5. q = r
      BY <1>1, <1>4, <3>1, <3>2, <3>4, OneRegion
    <3> QED
      BY <3>3, <3>5
  <2> QED
    BY <2>1, <2>2
<1>12. (After(h, last) - first) % 2 = 0 /\ first + 4 <= After(h, last)
  BY <1>2, <1>3, <1>4, <1>5, <1>6
<1> QED
  BY <1>2, <1>3, <1>4, <1>5, <1>6, <1>7, <1>10, <1>11, <1>12

\* Left and Brings, of a set of one chunk or none.
LEMMA LeftParts ==
    ASSUME NEW h \in Heaps, NEW F, Lists(h, F), NEW s, NEW d, s = {} \/ (s = {d} /\ d \in F)
    PROVE  /\ Taken(h, Left(h, s), F \ s)
           /\ s # {} => Joining(s) = d
<1>1. CASE s = {}
  BY <1>1 DEF Left, Taken
<1>2. CASE s = {d} /\ d \in F
  <2>1. Joining(s) = d /\ s # {}
    BY <1>2 DEF Joining
  <2>2. Left(h, s) = TakeFree(h, d)
    BY <2>1 DEF Left
  <2> QED
    BY <1>2, <2>1, <2>2, TakeFreeParts
<1> QED
  BY <1>1, <1>2

\* k is h with one free chunk from first to the end of last, those at D before.
Joined(h, C, F, k, D, first, last) ==
    /\ Marked(h, k, first, After(h, last) - first - 2, FALSE)
    /\ Lists(k, (F \ D) \cup {first})

\* What Coalesce writes.
LEMMA CoalesceParts ==
    ASSUME NEW h, NEW C, NEW c, Loose(h, C, c), NEW first, NEW last, Around(h, C, c, first, last),
           NEW next, NEW prev,
           IF first = c THEN prev = {} ELSE prev = {first},
           IF last = c THEN next = {} ELSE next = {last}
    PROVE  Joined(h, C, FreeOf(h, C) \ {c}, Merged(h, c, next, prev), {first, c, last}, first, last)
<1> DEFINE F == FreeOf(h, C) \ {c}
           a == Left(h, next)
           b == Left(a, prev)
           span == Size(h, c) + Brings(h, next) + Brings(h, prev)
           k == PutFree(b, first, span)
<1>1. h \in Heaps /\ RegionsApart(h) /\ Tiles(h, C) /\ c \in C /\ Lists(h, F)
  BY DEF Loose
<1>2. /\ first \in Words /\ first \in Nat /\ last \in Nat /\ c \in Nat /\ first <= c /\ c <= last
      /\ first # c => After(h, first) = c
      /\ last # c => last = After(h, c)
      /\ After(h, last) \in Nat /\ first + 4 <= After(h, last)
      /\ After(h, last) <= MaxWords /\ MaxWords \in Nat
  BY AroundParts
<1>3. /\ first = c \/ first \in F
      /\ last = c \/ last \in F
      /\ first \in C /\ last \in C
  BY DEF Around
<1>4. first # last \/ first = c
  BY AroundParts
<1> HIDE DEF F
<1>5. Taken(h, a, F \ next) /\ (next # {} => Joining(next) = last)
  BY <1>1, <1>3, LeftParts
<1> HIDE DEF a
<1>6. Taken(a, b, (F \ next) \ prev) /\ (prev # {} => Joining(prev) = first)
  <2>1. a \in Heaps /\ Lists(a, F \ next)
    BY <1>5 DEF Taken
  <2>2. prev = {} \/ (prev = {first} /\ first \in F \ next)
    BY <1>3, <1>4
  <2> QED
    BY <2>1, <2>2, LeftParts
<1> HIDE DEF b
<1>7. /\ b \in Heaps /\ b.brk = h.brk /\ b.regions = h.regions /\ b.inuse = h.inuse
      /\ b.mem = h.mem /\ Lists(b, (F \ next) \ prev)
  BY <1>5, <1>6 DEF Taken
<1>8. span = After(h, last) - first - 2
  <2>1. /\ After(h, c) = c + 2 + Size(h, c) /\ Size(h, c) \in Nat
        /\ After(h, first) = first + 2 + Size(h, first) /\ Size(h, first) \in Nat
        /\ After(h, last) = last + 2 + Size(h, last) /\ Size(h, last) \in Nat
    BY <1>1, <1>3, ChunkParts
  <2>2. Brings(h, next) = IF last = c THEN 0 ELSE 2 + Size(h, last)
    BY <1>5 DEF Brings, Overhead
  <2>3. Brings(h, prev) = IF first = c THEN 0 ELSE 2 + Size(h, first)
    BY <1>6 DEF Brings, Overhead
  <2> QED
    BY <1>2, <2>1, <2>2, <2>3
<1>9. Merged(h, c, next, prev) = k
  <2>1. (IF prev = {} THEN c ELSE Joining(prev)) = first
    BY <1>6
  <2> QED
    BY <2>1 DEF Merged, a, b
<1> HIDE DEF span
<1>10. Marked(b, k, first, span, FALSE) /\ Lists(k, ((F \ next) \ prev) \cup {first})
  <2>1. span \in Nat /\ first + 2 + span <= MaxWords
    BY <1>2, <1>8
  <2>2. first \notin (F \ next) \ prev
    BY DEF F
  <2> QED
    BY <1>2, <1>7, <2>1, <2>2, PutFreeParts
<1> HIDE DEF k
<1>11. ((F \ next) \ prev) \cup {first} = (F \ {first, c, last}) \cup {first}
  BY DEF F
<1>12. Marked(h, k, first, span, FALSE)
  BY <1>7, <1>10 DEF Marked
<1> QED
  BY <1>8, <1>9, <1>10, <1>11, <1>12 DEF Joined, F

\* The chunks from first to last are one free chunk, with no free neighbour.
LEMMA JoinedExact ==
    ASSUME NEW h, NEW C, NEW c, Loose(h, C, c), NEW first, NEW last, Around(h, C, c, first, last),
           NEW k, Joined(h, C, FreeOf(h, C) \ {c}, k, {first, c, last}, first, last)
    PROVE  Drops(h, C, k, (C \ {first, c, last}) \cup {first}, {c})
<1> DEFINE F == FreeOf(h, C) \ {c}
           D == {first, c, last}
           N == (C \ D) \cup {first}
           span == After(h, last) - first - 2
<1>1. h \in Heaps /\ RegionsApart(h) /\ Tiles(h, C) /\ c \in C /\ Apart(h, F)
  BY DEF Loose
<1>2. /\ first \in Words /\ first \in Nat /\ last \in Nat /\ c \in Nat /\ first <= c /\ c <= last
      /\ first # c => After(h, first) = c
      /\ last # c => last = After(h, c)
      /\ After(h, first) \in Nat /\ After(h, last) \in Nat /\ After(h, c) \in Nat
      /\ first + 4 <= After(h, last) /\ (After(h, last) - first) % 2 = 0
      /\ After(h, last) <= MaxWords /\ MaxWords \in Nat
  BY AroundParts
<1>3. PICK r \in Regions(h) : r.base <= first /\ After(h, last) <= r.limit
  BY AroundParts
<1>4. /\ first = c \/ first \in F
      /\ last = c \/ last \in F
      /\ first \in C /\ last \in C
      /\ \A d \in F : ~Follows(h, d, first) /\ ~Follows(h, last, d)
  BY DEF Around
<1>5. /\ k \in Heaps /\ k.brk = h.brk /\ k.regions = h.regions /\ k.inuse = h.inuse
      /\ k.mem[first] = [size |-> span, inuse |-> FALSE]
      /\ k.mem[first + 1 + span] = [size |-> span, inuse |-> FALSE]
      /\ \A w \in Words : ~(first <= w /\ w < first + 2 + span) => k.mem[w] = h.mem[w]
      /\ Lists(k, (F \ D) \cup {first})
  BY DEF Joined, Marked
<1>6. span \in Nat /\ span >= 2 /\ span % 2 = 0 /\ first + 2 + span = After(h, last)
  BY <1>2
<1>7. Regions(k) = Regions(h)
  BY <1>5 DEF Regions
<1>8. Size(k, first) = span /\ After(k, first) = After(h, last)
  <2>1. Size(k, first) = span
    BY <1>5 DEF Size
  <2> QED
    BY <1>2, <1>6, <2>1 DEF After, Overhead
<1> HIDE DEF span
<1>9. ChunkOk(k, first)
  <2>1. k.mem[After(k, first) - 1] = k.mem[first]
    BY <1>2, <1>5, <1>6, <1>8
  <2> QED
    BY <1>2, <1>3, <1>6, <1>7, <1>8, <2>1 DEF ChunkOk
<1>10. \A d \in D : first <= d /\ After(h, d) <= After(h, last)
  <2>1. /\ After(h, c) = c + 2 + Size(h, c) /\ Size(h, c) \in Nat
        /\ After(h, first) = first + 2 + Size(h, first) /\ Size(h, first) \in Nat
        /\ After(h, last) = last + 2 + Size(h, last) /\ Size(h, last) \in Nat
    BY <1>1, <1>4, ChunkParts
  <2> QED
    BY <1>2, <2>1
<1>11. ASSUME NEW w \in Words, first <= w, w < After(h, last)
       PROVE  /\ \E d \in D : InChunk(h, d, w)
              /\ InChunk(k, first, w)
  <2>1. w \in Nat
    BY <1>2 DEF Words
  <2>2. InChunk(h, first, w) \/ InChunk(h, c, w) \/ InChunk(h, last, w)
    BY <1>2, <1>11, <2>1 DEF InChunk
  <2> QED
    BY <1>8, <1>11, <2>2 DEF InChunk
<1>12. D \subseteq C
  BY <1>1, <1>4
<1>13. Recut(h, k, C, D, {first}, first, After(h, last))
  <2>1. \A w \in Words : ~(first <= w /\ w < After(h, last)) => k.mem[w] = h.mem[w]
    BY <1>5, <1>6
  <2>2. \A e \in {first} : ChunkOk(k, e) /\ first <= e /\ After(k, e) <= After(h, last)
    BY <1>2, <1>8, <1>9
  <2>3. \A w \in Words : first <= w /\ w < After(h, last) =>
           /\ \E d \in D : InChunk(h, d, w)
           /\ \E e \in {first} : InChunk(k, e, w)
    BY <1>11
  <2> HIDE DEF D
  <2> QED
    BY <1>2, <1>5, <1>10, <1>12, <2>1, <2>2, <2>3 DEF Recut
<1>14. RegionsApart(k) /\ Tiles(k, N) /\ \A d \in C \ D : k.mem[d] = h.mem[d]
  <2> HIDE DEF D
  <2> QED
    BY <1>1, <1>13, RecutTiles DEF Kept
<1>15. FreeOf(k, N) = (F \ D) \cup {first}
  <2>1. ~k.mem[first].inuse
    BY <1>5
  <2>2. \A d \in C \ D : d \in FreeOf(k, N) <=> d \in F
    BY <1>14 DEF FreeOf
  <2>3. F \subseteq C
    BY DEF FreeOf
  <2>4. FreeOf(k, N) \subseteq N /\ first \in FreeOf(k, N)
    BY <2>1 DEF FreeOf
  <2> HIDE DEF F
  <2> QED
    BY <2>2, <2>3, <2>4
<1>16. UsedOf(k, N) = UsedOf(h, C) \ {c}
  <2>1. first \in FreeOf(k, N)
    BY <1>15
  <2>2. \A d \in C \ D : d \in FreeOf(k, N) <=> d \in FreeOf(h, C)
    BY <1>14 DEF FreeOf
  <2>3. \A d \in D \ {c} : d \in FreeOf(h, C)
    BY <1>4
  <2> HIDE DEF F
  <2> QED
    BY <1>12, <2>1, <2>2, <2>3 DEF UsedOf
<1>17. \A u \in UsedOf(k, N) : k.mem[u] = h.mem[u]
  <2>1. first \notin UsedOf(k, N)
    BY <1>15 DEF UsedOf
  <2> QED
    BY <1>14, <2>1 DEF UsedOf
<1>18. \A d \in C \ D : After(k, d) = After(h, d)
  BY <1>14 DEF After, Size
<1>20. Apart(k, FreeOf(k, N))
  <2> SUFFICES ASSUME NEW d \in (F \ D) \cup {first}, NEW e \in (F \ D) \cup {first},
                      Follows(k, d, e)
               PROVE  FALSE
    BY <1>15 DEF Apart
  <2>1. F \subseteq C
    BY DEF FreeOf
  <2>2. PICK s \in Regions(h) : InRegion(s, d) /\ InRegion(s, e)
    BY <1>7 DEF Follows
  <2>3. e = After(k, d)
    BY DEF Follows
  <2>4. \A q \in F : q \in Nat
    BY <1>1, <2>1, ChunkParts
  <2>5. s.base \in Nat /\ s.limit \in Nat
    BY <1>1, RegionParts
  <2>6. CASE d # first /\ e # first
    <3>1. d \in F /\ e \in F /\ d \in C \ D
      BY <2>1, <2>6
    <3>2. Follows(h, d, e)
      BY <1>18, <2>2, <2>3, <3>1 DEF Follows
    <3> QED
      BY <1>1, <3>1, <3>2 DEF Apart
  <2>7. CASE d = first /\ e # first
    <3>1. e \in F /\ e = After(h, last)
      BY <1>8, <2>3, <2>7
    <3>2. InRegion(s, last)
      BY <1>2, <1>10, <2>2, <2>4, <2>5, <2>7, <3>1 DEF InRegion
    <3>3. Follows(h, last, e)
      BY <2>2, <3>1, <3>2 DEF Follows
    <3> QED
      BY <1>4, <3>1, <3>3
  <2>8. CASE d # first /\ e = first
    <3>1. d \in F /\ d \in C \ D /\ first = After(h, d)
      BY <1>18, <2>1, <2>3, <2>8
    <3>2. Follows(h, d, first)
      BY <2>2, <2>8, <3>1 DEF Follows
    <3> QED
      BY <1>4, <3>1, <3>2
  <2>9. CASE d = first /\ e = first
    BY <1>2, <1>8, <2>3, <2>9
  <2> QED
    BY <2>6, <2>7, <2>8, <2>9
<1> HIDE DEF N, F, D
<1>21. Exact(k, N)
  BY <1>5, <1>14, <1>15, <1>20 DEF Exact
<1>22. Drops(h, C, k, N, {c})
  BY <1>5, <1>16, <1>17, <1>21 DEF Drops
<1> QED
  BY <1>22 DEF N, D

\* A chunk in nobody's hands becomes free, and one with its free neighbours.
LEMMA CoalesceDrops ==
    ASSUME NEW h, NEW C, NEW c, Loose(h, C, c)
    PROVE  \E N : Drops(h, C, Coalesce(h, c), N, {c})
<1> DEFINE next == FreeIn(h, NextPhys(h, c))
           prev == FreeIn(h, PrevPhys(h, c))
           k == Merged(h, c, next, prev)
<1>1. Coalesce(h, c) = k
  BY DEF Coalesce
<1>2. PICK first, last : /\ Around(h, C, c, first, last)
                         /\ IF first = c THEN prev = {} ELSE prev = {first}
                         /\ IF last = c THEN next = {} ELSE next = {last}
  BY SidesOf
<1> HIDE DEF next, prev
<1>3. Joined(h, C, FreeOf(h, C) \ {c}, k, {first, c, last}, first, last)
  BY <1>2, CoalesceParts
<1> HIDE DEF k
<1>4. Drops(h, C, k, (C \ {first, c, last}) \cup {first}, {c})
  BY <1>2, <1>3, JoinedExact
<1> QED
  BY <1>1, <1>4

-----------------------------------------------------------------------------
(* A chunk is handed out.                                                  *)

\* k is g with the words from c on as a chunk in use, and what is left as a free one.
Placed(g, F, k, c, avail, need) ==
    /\ k \in Heaps /\ k.brk = g.brk /\ k.regions = g.regions /\ k.inuse = g.inuse
    /\ \A w \in Words : ~(c <= w /\ w < c + 2 + avail) => k.mem[w] = g.mem[w]
    /\ IF avail - need >= 4
       THEN LET rest == [size |-> avail - need - 2, inuse |-> FALSE]
            IN  /\ k.mem[c] = [size |-> need, inuse |-> TRUE]
                /\ k.mem[c + 1 + need] = [size |-> need, inuse |-> TRUE]
                /\ k.mem[c + 2 + need] = rest /\ k.mem[c + 1 + avail] = rest
                /\ Lists(k, F \cup {c + 2 + need})
       ELSE /\ k.mem[c] = [size |-> avail, inuse |-> TRUE]
            /\ k.mem[c + 1 + avail] = [size |-> avail, inuse |-> TRUE]
            /\ Lists(k, F)

\* Placing a block in a run of avail words writes its tags and, where a chunk fits
\* behind it, those of the rest, and lists the rest.
LEMMA PlaceParts ==
    ASSUME NEW g \in Heaps, NEW F, Lists(g, F), NEW c \in Words, NEW avail \in Nat, NEW need \in Nat,
           need <= avail, c + 2 + avail <= MaxWords,
           avail - need >= 4 => c + 2 + need \notin F
    PROVE  Placed(g, F, Place(g, c, avail, need), c, avail, need)
<1>1. MaxWords \in Nat /\ c \in Nat
  BY HeapConstants DEF Words
<1>2. CASE avail - need >= 4
  <2> DEFINE a == ChunkSet(g, c, need, TRUE)
             n == c + 2 + need
             left == avail - need - 2
             k == PutFree(a, n, left)
  <2>1. c + 2 + need <= MaxWords /\ n \in Words /\ n \in Nat /\ left \in Nat /\ n + 2 + left <= MaxWords
        /\ n + 2 + left = c + 2 + avail /\ n + 1 + left = c + 1 + avail
    BY <1>1, <1>2 DEF Words
  <2>2. Place(g, c, avail, need) = k
    <3>1. c + Overhead + need = n /\ avail - need - Overhead = left /\ avail - need >= Overhead + 2
      BY <1>1, <1>2 DEF Overhead
    <3> HIDE DEF n, left
    <3> QED
      BY <3>1 DEF Place
  <2>3. Marked(g, a, c, need, TRUE) /\ a.free = g.free
    BY <2>1, ChunkSetParts
  <2> HIDE DEF a
  <2>4. a \in Heaps /\ Lists(a, F)
    BY <2>3 DEF Marked, Lists
  <2>5. n \notin F
    BY <1>2
  <2> HIDE DEF n, left
  <2>6. Marked(a, k, n, left, FALSE) /\ Lists(k, F \cup {n})
    BY <2>1, <2>4, <2>5, PutFreeParts
  <2> HIDE DEF k
  <2>7. n = c + 2 + need /\ left = avail - need - 2
    BY DEF n, left
  <2>8. k \in Heaps /\ k.brk = g.brk /\ k.regions = g.regions /\ k.inuse = g.inuse
    BY <2>3, <2>6 DEF Marked
  <2>9. ASSUME NEW w \in Words, ~(c <= w /\ w < c + 2 + avail) PROVE k.mem[w] = g.mem[w]
    <3>1. w \in Nat
      BY <1>1 DEF Words
    <3>2. ~(n <= w /\ w < n + 2 + left) /\ ~(c <= w /\ w < c + 2 + need)
      BY <1>1, <1>2, <2>1, <2>7, <2>9, <3>1
    <3> QED
      BY <2>3, <2>6, <3>2 DEF Marked
  <2>10. ASSUME NEW w \in {c, c + 1 + need} PROVE k.mem[w] = [size |-> need, inuse |-> TRUE]
    <3>1. w \in Words /\ ~(n <= w /\ w < n + 2 + left)
      BY <1>1, <1>2, <2>1, <2>7 DEF Words
    <3>2. k.mem[w] = a.mem[w]
      BY <2>6, <3>1 DEF Marked
    <3> QED
      BY <2>3, <3>2 DEF Marked
  <2>11. k.mem[n] = [size |-> left, inuse |-> FALSE] /\ k.mem[c + 1 + avail] = [size |-> left, inuse |-> FALSE]
    BY <2>1, <2>6 DEF Marked
  <2>12. Placed(g, F, k, c, avail, need)
    BY <1>2, <2>6, <2>7, <2>8, <2>9, <2>10, <2>11 DEF Placed
  <2> QED
    BY <2>2, <2>12
<1>3. CASE ~(avail - need >= 4)
  <2> DEFINE k == ChunkSet(g, c, avail, TRUE)
  <2>1. Place(g, c, avail, need) = k
    BY <1>3 DEF Place, Overhead
  <2>2. Marked(g, k, c, avail, TRUE) /\ k.free = g.free
    BY ChunkSetParts
  <2> HIDE DEF k
  <2>3. Placed(g, F, k, c, avail, need)
    BY <1>3, <2>2 DEF Placed, Marked, Lists
  <2> QED
    BY <2>1, <2>3
<1> QED
  BY <1>2, <1>3

\* The chunks at D, of which last is free, are taken from h to be one chunk at c:
\* what is left is g.
GrowsTo(h, C, g, D, c, last, avail) ==
    /\ Exact(h, C) /\ D \subseteq C /\ c \in D /\ last \in D /\ last \in FreeOf(h, C)
    /\ avail \in Nat /\ avail % 2 = 0 /\ After(h, last) = c + 2 + avail
    /\ \A d \in D : c <= d /\ After(h, d) <= c + 2 + avail
    /\ \A w \in Words : c <= w /\ w < c + 2 + avail => \E d \in D : InChunk(h, d, w)
    /\ \E r \in Regions(h) : r.base <= c /\ c + 2 + avail <= r.limit
    /\ Taken(h, g, FreeOf(h, C) \ D)

\* k has the chunk at c in use beside those of h that are not of D.
Hands(h, C, k, N, D, c, need) ==
    /\ Exact(k, N) /\ k.brk = h.brk /\ k.regions = h.regions
    /\ UsedOf(k, N) = (UsedOf(h, C) \ D) \cup {c} /\ c \notin UsedOf(h, C) \ D
    /\ \A u \in UsedOf(h, C) \ D : k.mem[u] = h.mem[u]
    /\ need <= Size(k, c)

\* A run taken from the free chunks, with a block placed in it, has that block
\* handed out.
LEMMA PlaceHands ==
    ASSUME NEW h, NEW C, NEW g, NEW D, NEW c, NEW last, NEW avail, GrowsTo(h, C, g, D, c, last, avail),
           NEW need \in Nat, need % 2 = 0, 2 <= need, need <= avail
    PROVE  /\ \E N : Hands(h, C, Place(g, c, avail, need), N, D, c, need)
           /\ Place(g, c, avail, need).inuse = h.inuse
<1> DEFINE F == FreeOf(h, C) \ D
           k == Place(g, c, avail, need)
           split == avail - need >= 4
           rest == c + 2 + need
           hi == c + 2 + avail
           E == IF split THEN {c, rest} ELSE {c}
           N == (C \ D) \cup E
<1>1. /\ h \in Heaps /\ RegionsApart(h) /\ Tiles(h, C) /\ Lists(h, FreeOf(h, C)) /\ Apart(h, FreeOf(h, C))
      /\ D \subseteq C /\ c \in D /\ last \in D /\ last \in FreeOf(h, C) /\ avail \in Nat
      /\ After(h, last) = hi /\ avail % 2 = 0
  BY DEF GrowsTo, Exact
<1>2. PICK r \in Regions(h) : r.base <= c /\ hi <= r.limit
  BY DEF GrowsTo
<1>3. /\ g \in Heaps /\ g.brk = h.brk /\ g.regions = h.regions /\ g.inuse = h.inuse
      /\ g.mem = h.mem /\ Lists(g, F)
  BY DEF GrowsTo, Taken
<1>4. \A d \in C : /\ d \in Words /\ d \in Nat /\ After(h, d) \in Nat /\ d + 2 < After(h, d)
  <2> SUFFICES ASSUME NEW d \in C
               PROVE  d \in Words /\ d \in Nat /\ After(h, d) \in Nat /\ d + 2 < After(h, d)
    OBVIOUS
  <2>1. /\ d \in Words /\ d \in Nat /\ After(h, d) = d + 2 + Size(h, d) /\ Size(h, d) \in Nat
        /\ Size(h, d) >= 2 /\ After(h, d) \in Nat
    BY <1>1, ChunkParts
  <2> QED
    BY <2>1
<1>5. /\ r.base \in Nat /\ r.limit \in Nat /\ hi \in Nat /\ c \in Nat /\ c \in Words
      /\ r.limit <= MaxWords /\ MaxWords \in Nat /\ hi <= MaxWords
  <2>1. c \in Words /\ c \in Nat
    BY <1>1, <1>4
  <2>2. r.base \in Nat /\ r.limit \in Nat /\ r.limit <= h.brk /\ h.brk <= MaxWords /\ h.brk \in Nat
    BY <1>1, RegionParts
  <2>3. MaxWords \in Nat
    BY HeapConstants
  <2> QED
    BY <1>1, <1>2, <2>1, <2>2, <2>3
<1>6. \A d \in D : c <= d /\ After(h, d) <= hi
  BY DEF GrowsTo
<1>7. \A w \in Words : c <= w /\ w < hi => \E d \in D : InChunk(h, d, w)
  BY DEF GrowsTo
<1>8. split => rest \notin F
  <2> SUFFICES ASSUME split, rest \in C \ D PROVE FALSE
    BY DEF FreeOf
  <2>1. c <= rest /\ rest < hi /\ rest \in Words
    BY <1>1, <1>4, <1>5
  <2>2. PICK d \in D : InChunk(h, d, rest)
    BY <1>7, <2>1
  <2>3. rest = d \/ After(h, rest) <= d \/ After(h, d) <= rest
    BY <1>1 DEF Tiles
  <2> QED
    BY <1>1, <1>4, <2>2, <2>3 DEF InChunk
<1>9. Placed(g, F, k, c, avail, need)
  <2> HIDE DEF F
  <2> QED
    BY <1>1, <1>3, <1>5, <1>8, PlaceParts
<1> HIDE DEF k
<1>10. /\ k \in Heaps /\ k.brk = h.brk /\ k.regions = h.regions /\ k.inuse = h.inuse
       /\ \A w \in Words : ~(c <= w /\ w < hi) => k.mem[w] = h.mem[w]
  BY <1>3, <1>9 DEF Placed
<1>11. Regions(k) = Regions(h)
  BY <1>10 DEF Regions
<1>12. CASE split
  <2>1. /\ k.mem[c] = [size |-> need, inuse |-> TRUE]
        /\ k.mem[c + 1 + need] = [size |-> need, inuse |-> TRUE]
        /\ k.mem[rest] = [size |-> avail - need - 2, inuse |-> FALSE]
        /\ k.mem[c + 1 + avail] = [size |-> avail - need - 2, inuse |-> FALSE]
        /\ Lists(k, F \cup {rest})
    BY <1>9, <1>12 DEF Placed
  <2>2. /\ Size(k, c) = need /\ After(k, c) = rest
        /\ Size(k, rest) = avail - need - 2 /\ After(k, rest) = hi
    BY <1>1, <1>5, <1>12, <2>1 DEF Size, After, Overhead
  <2>3. /\ rest \in Words /\ rest \in Nat /\ c < rest /\ rest < hi
        /\ rest - 1 = c + 1 + need /\ hi - 1 = c + 1 + avail
    BY <1>1, <1>5, <1>12 DEF Words
  <2>4. ChunkOk(k, c)
    BY <1>2, <1>5, <1>11, <2>1, <2>2, <2>3 DEF ChunkOk
  <2>5. ChunkOk(k, rest)
    <3>1. Size(k, rest) % 2 = 0 /\ Size(k, rest) >= 2
      BY <1>1, <1>12, <2>2
    <3> QED
      BY <1>2, <1>5, <1>11, <2>1, <2>2, <2>3, <3>1 DEF ChunkOk
  <2>6. ASSUME NEW w \in Words, c <= w, w < hi PROVE \E e \in {c, rest} : InChunk(k, e, w)
    <3>1. w \in Nat
      BY <1>5 DEF Words
    <3> QED
      BY <2>2, <2>3, <2>6, <3>1 DEF InChunk
  <2>7. E = {c, rest}
    BY <1>12
  <2> HIDE DEF split, rest, hi, E, F, N
  <2>8. Recut(h, k, C, D, E, c, hi)
    BY <1>1, <1>5, <1>6, <1>7, <1>10, <2>2, <2>3, <2>4, <2>5, <2>6, <2>7 DEF Recut
  <2>9. RegionsApart(k) /\ Tiles(k, N) /\ \A d \in C \ D : k.mem[d] = h.mem[d]
    <3>1. h \in Heaps /\ RegionsApart(h) /\ Tiles(h, C)
      BY <1>1
    <3>2. RegionsApart(k)
      BY <2>8, <3>1, RecutTiles
    <3>3. Tiles(k, (C \ D) \cup E)
      BY <2>8, <3>1, RecutTiles
    <3>4. Kept(h, k, C \ D)
      BY <2>8, <3>1, RecutTiles
    <3> QED
      BY <3>2, <3>3, <3>4 DEF N, Kept
  <2>10. ~k.mem[rest].inuse /\ k.mem[c].inuse /\ c # rest
    BY <1>5, <2>1, <2>3
  <2>11. FreeOf(k, N) = F \cup {rest}
    <3>1. \A d \in C \ D : d \in FreeOf(k, N) <=> d \in F
      BY <2>9 DEF FreeOf, F, N
    <3>2. FreeOf(k, N) \subseteq N /\ c \notin FreeOf(k, N) /\ F \subseteq C \ D /\ rest \in FreeOf(k, N)
      BY <2>7, <2>10 DEF FreeOf, F, N
    <3> QED
      BY <2>7, <3>1, <3>2 DEF N
  <2>12. Apart(k, FreeOf(k, N))
    <3> SUFFICES ASSUME NEW d \in F \cup {rest}, NEW e \in F \cup {rest}, Follows(k, d, e)
                 PROVE  FALSE
      BY <2>11 DEF Apart
    <3>1. PICK s \in Regions(h) : InRegion(s, d) /\ InRegion(s, e)
      BY <1>11 DEF Follows
    <3>2. e = After(k, d)
      BY DEF Follows
    <3>3. s.base \in Nat /\ s.limit \in Nat
      BY <1>1, RegionParts
    <3>4. ASSUME NEW q \in F PROVE q \in C \ D /\ q \in FreeOf(h, C) /\ After(k, q) = After(h, q) /\ q \in Nat
      <4>1. q \in C \ D /\ q \in FreeOf(h, C)
        BY DEF F, FreeOf
      <4> QED
        BY <1>4, <2>9, <4>1 DEF After, Size
    <3>5. CASE d \in F /\ e \in F
      BY <1>1, <3>1, <3>2, <3>4, <3>5 DEF Apart, Follows
    <3>6. CASE d = rest /\ e \in F
      <4>1. last \in Nat /\ After(h, last) = hi /\ last < hi /\ c <= last /\ After(h, last) \in Nat
            /\ After(h, last) = c + 2 + avail
        BY <1>1, <1>4, <1>6 DEF hi
      <4>2. e = After(h, last)
        BY <2>2, <3>2, <3>6, <4>1
      <4>3. InRegion(s, e) /\ InRegion(s, rest)
        BY <3>1, <3>6
      <4>4. last < e /\ (InRegion(s, last) \/ last < s.base)
        BY <3>3, <4>1, <4>2, <4>3 DEF InRegion
      <4>5. InRegion(r, c)
        BY <1>2, <1>5, <2>3 DEF InRegion
      <4>6. InRegion(r, rest)
        BY <1>2, <1>5, <2>3 DEF InRegion
      <4>7. s = r
        BY <1>1, <2>3, <4>3, <4>6, OneRegion
      <4>8. InRegion(s, last)
        BY <1>2, <1>5, <4>1, <4>4, <4>7
      <4>9. Follows(h, last, e)
        BY <3>1, <4>2, <4>8 DEF Follows
      <4> QED
        BY <1>1, <3>4, <3>6, <4>9 DEF Apart
    <3>7. CASE d \in F /\ e = rest
      <4>1. d \in N /\ c \in N /\ d # c
        BY <1>1, <2>7, <3>4, <3>7 DEF N
      <4>2. After(k, d) = rest /\ After(k, c) = rest
        BY <2>2, <3>2, <3>7
      <4>3. After(k, d) <= c \/ After(k, c) <= d
        BY <2>9, <4>1 DEF Tiles
      <4>4. d \in Nat /\ d < After(h, d) /\ After(k, d) = After(h, d) /\ After(h, d) \in Nat
        BY <1>4, <3>4, <3>7
      <4> QED
        BY <1>5, <2>3, <4>2, <4>3, <4>4
    <3>8. CASE d = rest /\ e = rest
      BY <1>5, <2>2, <2>3, <3>2, <3>8
    <3> QED
      BY <3>5, <3>6, <3>7, <3>8
  <2>13. Exact(k, N)
    BY <1>10, <2>1, <2>9, <2>11, <2>12 DEF Exact
  <2>14. UsedOf(k, N) = (UsedOf(h, C) \ D) \cup {c}
    <3>1. N = (C \ D) \cup {c, rest} /\ rest \notin UsedOf(k, N) /\ c \notin F
      BY <1>1, <2>7, <2>11 DEF UsedOf, F, N
    <3>2. rest \notin C \ D
      <4> SUFFICES ASSUME rest \in C \ D PROVE FALSE
        OBVIOUS
      <4>1. PICK d \in D : InChunk(h, d, rest)
        BY <1>5, <1>7, <2>3
      <4>2. rest = d \/ After(h, rest) <= d \/ After(h, d) <= rest
        BY <1>1 DEF Tiles
      <4> QED
        BY <1>1, <1>4, <4>1, <4>2 DEF InChunk
    <3>3. c \in UsedOf(k, N)
      BY <2>10, <2>11, <3>1 DEF UsedOf
    <3>4. \A d \in C \ D : d \in UsedOf(k, N) <=> d \in UsedOf(h, C)
      BY <2>9 DEF UsedOf, FreeOf, N
    <3> QED
      BY <3>1, <3>2, <3>3, <3>4 DEF UsedOf
  <2>15. Hands(h, C, k, N, D, c, need)
    BY <1>1, <1>10, <2>2, <2>9, <2>13, <2>14 DEF Hands, UsedOf
  <2> QED
    BY <1>10, <2>15 DEF k
<1>13. CASE ~split
  <2>1. /\ k.mem[c] = [size |-> avail, inuse |-> TRUE]
        /\ k.mem[c + 1 + avail] = [size |-> avail, inuse |-> TRUE]
        /\ Lists(k, F)
    BY <1>9, <1>13 DEF Placed
  <2>2. Size(k, c) = avail /\ After(k, c) = hi
    BY <1>1, <1>5, <2>1 DEF Size, After, Overhead
  <2>3. c < hi /\ hi - 1 = c + 1 + avail
    BY <1>1, <1>5
  <2>4. ChunkOk(k, c)
    BY <1>1, <1>2, <1>5, <1>11, <2>1, <2>2, <2>3 DEF ChunkOk
  <2>5. E = {c}
    BY <1>13
  <2> HIDE DEF split, rest, hi, E, F, N
  <2>6. \A w \in Words : c <= w /\ w < hi => \E e \in {c} : InChunk(k, e, w)
    BY <2>2 DEF InChunk
  <2>7. Recut(h, k, C, D, E, c, hi)
    BY <1>1, <1>5, <1>6, <1>7, <1>10, <2>2, <2>3, <2>4, <2>5, <2>6 DEF Recut
  <2>8. RegionsApart(k) /\ Tiles(k, N) /\ \A d \in C \ D : k.mem[d] = h.mem[d]
    <3>1. h \in Heaps /\ RegionsApart(h) /\ Tiles(h, C)
      BY <1>1
    <3>2. RegionsApart(k)
      BY <2>7, <3>1, RecutTiles
    <3>3. Tiles(k, (C \ D) \cup E)
      BY <2>7, <3>1, RecutTiles
    <3>4. Kept(h, k, C \ D)
      BY <2>7, <3>1, RecutTiles
    <3> QED
      BY <3>2, <3>3, <3>4 DEF N, Kept
  <2>9. FreeOf(k, N) = F
    <3>1. \A d \in C \ D : d \in FreeOf(k, N) <=> d \in F
      BY <2>8 DEF FreeOf, F, N
    <3>2. FreeOf(k, N) \subseteq N /\ c \notin FreeOf(k, N) /\ F \subseteq C \ D
      BY <2>1 DEF FreeOf, F
    <3> QED
      BY <2>5, <3>1, <3>2 DEF N
  <2>10. Apart(k, FreeOf(k, N))
    <3> SUFFICES ASSUME NEW d \in F, NEW e \in F, Follows(k, d, e) PROVE FALSE
      BY <2>9 DEF Apart
    <3>1. d \in C \ D /\ d \in FreeOf(h, C) /\ e \in FreeOf(h, C)
      BY DEF F, FreeOf
    <3>2. After(k, d) = After(h, d)
      BY <2>8, <3>1 DEF After, Size
    <3> QED
      BY <1>1, <1>11, <3>1, <3>2 DEF Apart, Follows
  <2>11. Exact(k, N)
    BY <1>10, <2>1, <2>8, <2>9, <2>10 DEF Exact
  <2>12. UsedOf(k, N) = (UsedOf(h, C) \ D) \cup {c}
    <3>1. \A d \in C \ D : d \in UsedOf(k, N) <=> d \in UsedOf(h, C)
      BY <2>8 DEF UsedOf, FreeOf, N
    <3>2. c \in UsedOf(k, N)
      BY <1>1, <2>5, <2>9 DEF UsedOf, F, N
    <3> QED
      BY <2>5, <3>1, <3>2 DEF UsedOf, N
  <2>13. Hands(h, C, k, N, D, c, need)
    BY <1>1, <1>10, <2>2, <2>8, <2>11, <2>12 DEF Hands, UsedOf
  <2> QED
    BY <1>10, <2>13 DEF k
<1> QED
  BY <1>12, <1>13

\* kk is k with another count of the words in use.
Recounted(k, kk) == /\ kk \in Heaps /\ kk.mem = k.mem /\ kk.brk = k.brk
                    /\ kk.regions = k.regions /\ kk.free = k.free

\* The counter is of no matter to the chunks.
LEMMA RecountedExact ==
    ASSUME NEW k, NEW kk, Recounted(k, kk), NEW N, Exact(k, N)
    PROVE  Exact(kk, N) /\ UsedOf(kk, N) = UsedOf(k, N)
<1>1. /\ kk \in Heaps /\ kk.mem = k.mem /\ kk.brk = k.brk
      /\ kk.regions = k.regions /\ kk.free = k.free /\ Regions(kk) = Regions(k)
  BY DEF Recounted, Regions
<1>2. FreeOf(kk, N) = FreeOf(k, N) /\ \A c : Size(kk, c) = Size(k, c) /\ After(kk, c) = After(k, c)
  BY <1>1 DEF FreeOf, Size, After
<1>3. \A c : ChunkOk(kk, c) <=> ChunkOk(k, c)
  BY <1>1, <1>2 DEF ChunkOk
<1>4. Tiles(kk, N)
  BY <1>1, <1>2, <1>3 DEF Exact, Tiles, InChunk
<1>5. Apart(kk, FreeOf(kk, N))
  BY <1>1, <1>2 DEF Exact, Apart, Follows
<1>6. RegionsApart(kk) /\ Lists(kk, FreeOf(kk, N))
  BY <1>1, <1>2 DEF Exact, RegionsApart, Lists
<1> QED
  BY <1>1, <1>2, <1>4, <1>5, <1>6 DEF Exact, UsedOf

\* Counting a block changes the counter alone.
LEMMA AccountedParts ==
    ASSUME NEW k \in Heaps, NEW c \in Words, NEW before \in Nat
    PROVE  /\ Recounted(k, Accounted(k, c, before))
           /\ Accounted(k, c, before).inuse = k.inuse + Size(k, c) - before
<1>1. Size(k, c) \in Int /\ k.inuse \in Int
  BY WordParts DEF Heaps
<1>2. k.inuse + Size(k, c) - before \in Int
  BY <1>1
<1> QED
  BY <1>2 DEF Accounted, Recounted, Heaps

\* Counting a block does not take it back.
LEMMA AccountedHands ==
    ASSUME NEW h, NEW C, NEW k, NEW N, NEW D, NEW c, NEW need, Hands(h, C, k, N, D, c, need),
           k.inuse = h.inuse, NEW before \in Nat
    PROVE  /\ Hands(h, C, Accounted(k, c, before), N, D, c, need)
           /\ Accounted(k, c, before).inuse
                = h.inuse + Size(Accounted(k, c, before), c) - before
<1> DEFINE kk == Accounted(k, c, before)
<1>1. Exact(k, N) /\ k \in Heaps /\ c \in N
  BY DEF Hands, Exact, UsedOf
<1>2. c \in Words
  BY <1>1, ChunkParts DEF Exact
<1>3. Recounted(k, kk) /\ kk.inuse = k.inuse + Size(k, c) - before
  BY <1>1, <1>2, AccountedParts
<1> HIDE DEF kk
<1>4. Exact(kk, N) /\ UsedOf(kk, N) = UsedOf(k, N)
  BY <1>1, <1>3, RecountedExact
<1>5. kk.mem = k.mem /\ kk.brk = k.brk /\ kk.regions = k.regions
  BY <1>3 DEF Recounted
<1>6. Size(kk, c) = Size(k, c)
  BY <1>5 DEF Size
<1>7. Hands(h, C, kk, N, D, c, need)
  BY <1>4, <1>5, <1>6 DEF Hands
<1> QED
  BY <1>3, <1>6, <1>7 DEF kk

\* What a call of malloc or of realloc in place leaves behind.
Serves(h, C, k, N, D, c, need, before) ==
    Hands(h, C, k, N, D, c, need) /\ k.inuse = h.inuse + Size(k, c) - before

\* malloc hands out a chunk of the free list.
LEMMA HandOutServes ==
    ASSUME NEW h, NEW C, Exact(h, C), NEW c \in FreeOf(h, C),
           NEW need \in Nat, need % 2 = 0, 2 <= need, need <= Size(h, c)
    PROVE  \E N : Serves(h, C, HandOut(h, c, need), N, {c}, c, need, 0)
<1> DEFINE g == TakeFree(h, c)
           avail == Size(h, c)
           k == Place(g, c, avail, need)
<1>1. h \in Heaps /\ RegionsApart(h) /\ Tiles(h, C) /\ Lists(h, FreeOf(h, C)) /\ c \in C
  BY DEF Exact, FreeOf
<1>2. /\ c \in Words /\ c \in Nat /\ After(h, c) = c + 2 + avail
      /\ avail \in Nat /\ avail % 2 = 0 /\ After(h, c) \in Nat
      /\ \E r \in Regions(h) : r.base <= c /\ After(h, c) <= r.limit
  BY <1>1, ChunkParts
<1>3. Taken(h, g, FreeOf(h, C) \ {c})
  BY <1>1, TakeFreeParts
<1> HIDE DEF avail, g
<1>4. GrowsTo(h, C, g, {c}, c, c, avail)
  <2>1. \A w \in Words : c <= w /\ w < c + 2 + avail => InChunk(h, c, w)
    BY <1>2 DEF InChunk
  <2>2. \A d \in {c} : c <= d /\ After(h, d) <= c + 2 + avail
    BY <1>2
  <2> QED
    BY <1>1, <1>2, <1>3, <2>1, <2>2 DEF GrowsTo
<1>5. need <= avail
  BY DEF avail
<1>6. (\E N : Hands(h, C, k, N, {c}, c, need)) /\ k.inuse = h.inuse
  BY <1>4, <1>5, PlaceHands
<1>7. HandOut(h, c, need) = Accounted(k, c, 0)
  BY DEF HandOut, g, avail
<1> HIDE DEF k
<1>8. PICK N : Hands(h, C, k, N, {c}, c, need)
  BY <1>6
<1>9. Serves(h, C, Accounted(k, c, 0), N, {c}, c, need, 0)
  BY <1>6, <1>8, AccountedHands DEF Serves
<1> QED
  BY <1>7, <1>9

\* realloc takes the free chunk behind the block.
LEMMA GrownServes ==
    ASSUME NEW h, NEW C, Exact(h, C), NEW c \in UsedOf(h, C), NEW n \in FreeOf(h, C),
           Follows(h, c, n), NEW need \in Nat, need % 2 = 0, 2 <= need,
           need <= Size(h, c) + 2 + Size(h, n)
    PROVE  \E N : Serves(h, C, Grown(h, c, n, need), N, {c, n}, c, need, Size(h, c))
<1> DEFINE g == TakeFree(h, n)
           avail == Size(h, c) + 2 + Size(h, n)
           k == Place(g, c, avail, need)
<1>1. /\ h \in Heaps /\ RegionsApart(h) /\ Tiles(h, C) /\ Lists(h, FreeOf(h, C)) /\ c \in C /\ n \in C
      /\ c \notin FreeOf(h, C)
  BY DEF Exact, FreeOf, UsedOf
<1>2. /\ c \in Words /\ c \in Nat /\ After(h, c) = c + 2 + Size(h, c) /\ Size(h, c) \in Nat
      /\ Size(h, c) % 2 = 0 /\ After(h, c) \in Nat
      /\ \E r \in Regions(h) : r.base <= c /\ After(h, c) <= r.limit
  BY <1>1, ChunkParts
<1>3. /\ n \in Words /\ n \in Nat /\ After(h, n) = n + 2 + Size(h, n) /\ Size(h, n) \in Nat
      /\ Size(h, n) % 2 = 0 /\ After(h, n) \in Nat
      /\ \E r \in Regions(h) : r.base <= n /\ After(h, n) <= r.limit
  BY <1>1, ChunkParts
<1>4. n = After(h, c)
  BY DEF Follows
<1>5. /\ avail \in Nat /\ avail % 2 = 0 /\ After(h, n) = c + 2 + avail
      /\ c < n /\ After(h, c) <= c + 2 + avail
  BY <1>2, <1>3, <1>4
<1>6. \E r \in Regions(h) : r.base <= c /\ c + 2 + avail <= r.limit
  <2>1. PICK s \in Regions(h) : InRegion(s, c) /\ InRegion(s, n)
    BY DEF Follows
  <2>2. PICK q \in Regions(h) : q.base <= n /\ After(h, n) <= q.limit
    BY <1>3
  <2>3. InRegion(q, n)
    BY <1>1, <1>3, <2>2, RegionParts DEF InRegion
  <2>4. q = s
    BY <1>1, <1>3, <2>1, <2>3, OneRegion
  <2> QED
    BY <1>5, <2>1, <2>2, <2>4 DEF InRegion
<1>7. Taken(h, g, FreeOf(h, C) \ {n})
  BY <1>1, TakeFreeParts
<1>8. FreeOf(h, C) \ {n} = FreeOf(h, C) \ {c, n}
  BY <1>1
<1> HIDE DEF avail, g
<1>9. GrowsTo(h, C, g, {c, n}, c, n, avail)
  <2>1. ASSUME NEW w \in Words, c <= w, w < c + 2 + avail
        PROVE  InChunk(h, c, w) \/ InChunk(h, n, w)
    <3>1. w \in Nat
      BY WordParts, <1>1
    <3> QED
      BY <1>2, <1>3, <1>4, <1>5, <2>1, <3>1 DEF InChunk
  <2>2. \A d \in {c, n} : c <= d /\ After(h, d) <= c + 2 + avail
    BY <1>2, <1>3, <1>5
  <2>3. Taken(h, g, FreeOf(h, C) \ {c, n})
    BY <1>7, <1>8
  <2>4. {c, n} \subseteq C
    BY <1>1
  <2> QED
    BY <1>5, <1>6, <2>1, <2>2, <2>3, <2>4 DEF GrowsTo
<1>10. need <= avail
  BY DEF avail
<1>11. (\E N : Hands(h, C, k, N, {c, n}, c, need)) /\ k.inuse = h.inuse
  BY <1>9, <1>10, PlaceHands
<1>12. Grown(h, c, n, need) = Accounted(k, c, Size(h, c))
  BY DEF Grown, g, avail, Overhead
<1> HIDE DEF k
<1>13. PICK N : Hands(h, C, k, N, {c, n}, c, need)
  BY <1>11
<1>14. Serves(h, C, Accounted(k, c, Size(h, c)), N, {c, n}, c, need, Size(h, c))
  BY <1>2, <1>11, <1>13, AccountedHands DEF Serves
<1> QED
  BY <1>12, <1>14

-----------------------------------------------------------------------------
(* The memory grows.                                                       *)

\* In the build without threads the one region reaches to the end of the memory.
Ended(h) == /\ h.brk % 2 = 0
            /\ build \in {"threads", "single"}
            /\ build = "single" => Len(h.regions) = 1 /\ h.regions[1].limit = h.brk

\* Old regions are still there, whole.
Keeps(h, k) ==
    \A r \in Regions(h) : \E s \in Regions(k) : s.base = r.base /\ r.limit <= s.limit

\* k is h with words more of memory, one chunk in no list, in a region that
\* begins there or is longer now.
Adds(h, k, words) ==
    /\ k \in Heaps /\ RegionsApart(k) /\ k.brk = h.brk + words /\ k.inuse = h.inuse
    /\ \A w \in Words : w < h.brk => k.mem[w] = h.mem[w]
    /\ k.mem[h.brk] = [size |-> words - 2, inuse |-> FALSE]
    /\ k.mem[h.brk + words - 1] = [size |-> words - 2, inuse |-> FALSE]
    /\ \A s \in Regions(k), w \in Words : InRegion(s, w) /\ w < h.brk =>
          \E r \in Regions(h) : r.base = s.base /\ InRegion(r, w)
    /\ \E s \in Regions(k) : s.base <= h.brk /\ s.limit = h.brk + words
    /\ Keeps(h, k)

\* A chunk added at the end of the memory has all of the new words.
LEMMA AddsParts ==
    ASSUME NEW h, NEW C, Exact(h, C), NEW words \in Nat, words >= 4, words % 2 = 0,
           NEW k, Adds(h, k, words)
    PROVE  /\ Tiles(k, C \cup {h.brk}) /\ h.brk \notin C /\ Kept(h, k, C)
           /\ FreeOf(k, C \cup {h.brk}) = FreeOf(h, C) \cup {h.brk}
           /\ Apart(k, FreeOf(h, C))
           /\ After(k, h.brk) = k.brk
           /\ h.brk \in Words
<1> DEFINE n == h.brk
           N == C \cup {n}
           F == FreeOf(h, C)
<1>1. h \in Heaps /\ RegionsApart(h) /\ Tiles(h, C) /\ Apart(h, F)
  BY DEF Exact
<1>2. /\ k \in Heaps /\ RegionsApart(k) /\ k.brk = n + words
      /\ k.mem[n] = [size |-> words - 2, inuse |-> FALSE]
      /\ k.mem[n + words - 1] = [size |-> words - 2, inuse |-> FALSE]
  BY DEF Adds
<1>3. \A w \in Words : w < n => k.mem[w] = h.mem[w]
  BY DEF Adds
<1>4. \A s \in Regions(k), w \in Words : InRegion(s, w) /\ w < n =>
          \E r \in Regions(h) : r.base = s.base /\ InRegion(r, w)
  BY DEF Adds
<1>5. PICK s0 \in Regions(k) : s0.base <= n /\ s0.limit = n + words
  BY DEF Adds
<1>6. \A r \in Regions(h) : \E s \in Regions(k) : s.base = r.base /\ r.limit <= s.limit
  BY DEF Adds, Keeps
<1>7. n \in Nat /\ MaxWords \in Nat /\ n + words <= MaxWords /\ n \in Words
  <2>1. n \in 0 .. MaxWords /\ k.brk \in 0 .. MaxWords /\ MaxWords \in Nat
    BY <1>1, <1>2, HeapConstants DEF Heaps
  <2> QED
    BY <1>2, <2>1 DEF Words
<1>8. \A c \in C : /\ c \in Words /\ c \in Nat /\ After(h, c) = c + 2 + Size(h, c)
                   /\ Size(h, c) \in Nat /\ Size(h, c) >= 2 /\ Size(h, c) % 2 = 0
                   /\ After(h, c) <= n /\ After(h, c) \in Nat /\ c < n /\ After(h, c) - 1 \in Words
                   /\ h.mem[After(h, c) - 1] = h.mem[c]
  <2> SUFFICES ASSUME NEW c \in C
               PROVE  /\ c \in Words /\ c \in Nat /\ After(h, c) = c + 2 + Size(h, c)
                      /\ Size(h, c) \in Nat /\ Size(h, c) >= 2 /\ Size(h, c) % 2 = 0
                      /\ After(h, c) <= n /\ After(h, c) \in Nat /\ c < n /\ After(h, c) - 1 \in Words
                      /\ h.mem[After(h, c) - 1] = h.mem[c]
    OBVIOUS
  <2>1. /\ c \in Words /\ c \in Nat /\ After(h, c) = c + 2 + Size(h, c)
        /\ Size(h, c) \in Nat /\ Size(h, c) >= 2 /\ Size(h, c) % 2 = 0
        /\ After(h, c) <= n /\ After(h, c) \in Nat
        /\ h.mem[After(h, c) - 1] = h.mem[c]
    BY <1>1, ChunkParts
  <2>2. c < n /\ After(h, c) - 1 \in Words
    BY <1>7, <2>1 DEF Words
  <2> QED
    BY <2>1, <2>2
<1> HIDE DEF n
<1>9. /\ Size(k, n) = words - 2 /\ After(k, n) = n + words
  <2>1. Size(k, n) = words - 2
    BY <1>2 DEF Size
  <2> QED
    BY <1>7, <2>1 DEF After, Overhead
<1>10. ChunkOk(k, n)
  <2>1. (words - 2) % 2 = 0
    OBVIOUS
  <2>2. k.mem[After(k, n) - 1] = k.mem[n]
    BY <1>2, <1>7, <1>9
  <2>3. s0.base <= n /\ After(k, n) <= s0.limit
    BY <1>5, <1>7, <1>9
  <2> QED
    BY <1>5, <1>7, <1>9, <2>1, <2>2, <2>3 DEF ChunkOk
<1>11. \A c \in C : k.mem[c] = h.mem[c]
  BY <1>3, <1>8
<1>12. \A c \in C : Size(k, c) = Size(h, c) /\ After(k, c) = After(h, c)
  BY <1>11 DEF Size, After
<1>13. \A c \in C : ChunkOk(k, c)
  <2> SUFFICES ASSUME NEW c \in C PROVE ChunkOk(k, c)
    OBVIOUS
  <2>1. PICK r \in Regions(h) : r.base <= c /\ After(h, c) <= r.limit
    BY <1>1, ChunkParts
  <2>2. PICK s \in Regions(k) : s.base = r.base /\ r.limit <= s.limit
    BY <1>6
  <2>3. /\ r.base \in Nat /\ r.limit \in Nat /\ s.base \in Nat /\ s.limit \in Nat
    BY <1>1, <1>2, RegionParts
  <2>4. s.base <= c /\ After(h, c) <= s.limit
    BY <1>8, <2>1, <2>2, <2>3
  <2>5. After(h, c) - 1 < n
    BY <1>7, <1>8
  <2>6. k.mem[After(h, c) - 1] = k.mem[c]
    BY <1>3, <1>8, <1>11, <2>5
  <2> QED
    BY <1>8, <1>12, <2>4, <2>6 DEF ChunkOk
<1>14. n \notin C
  BY <1>7, <1>8
<1>15. Tiles(k, N)
  <2>1. \A c \in N : ChunkOk(k, c)
    BY <1>10, <1>13
  <2>2. ASSUME NEW c \in N, NEW d \in N PROVE c = d \/ After(k, c) <= d \/ After(k, d) <= c
    <3>1. CASE c \in C /\ d \in C
      BY <1>1, <1>12, <3>1 DEF Tiles
    <3>2. CASE c = n \/ d = n
      BY <1>8, <1>12, <3>2
    <3> QED
      BY <3>1, <3>2
  <2>3. ASSUME NEW s \in Regions(k), NEW w \in Words, InRegion(s, w)
        PROVE  \E c \in N : InChunk(k, c, w)
    <3>1. CASE w < n
      <4>1. PICK r \in Regions(h) : InRegion(r, w)
        BY <1>4, <2>3, <3>1
      <4>2. PICK c \in C : InChunk(h, c, w)
        BY <1>1, <4>1 DEF Tiles
      <4> QED
        BY <1>12, <4>2 DEF InChunk
    <3>2. CASE ~(w < n)
      <4>1. /\ s.base \in Nat /\ s.limit \in Nat /\ s.limit <= k.brk /\ k.brk \in Nat
        BY <1>2, RegionParts
      <4>2. w \in Nat
        BY <1>2, WordParts
      <4>3. InChunk(k, n, w)
        BY <1>2, <1>7, <1>9, <2>3, <3>2, <4>1, <4>2 DEF InChunk, InRegion
      <4> QED
        BY <4>3
    <3> QED
      BY <3>1, <3>2
  <2> HIDE DEF N
  <2> QED
    BY <2>1, <2>2, <2>3 DEF Tiles
<1>16. FreeOf(k, N) = F \cup {n}
  <2>1. \A c \in C : c \in FreeOf(k, N) <=> c \in F
    BY <1>11 DEF FreeOf
  <2>2. n \in FreeOf(k, N) /\ FreeOf(k, N) \subseteq N /\ F \subseteq C
    BY <1>2 DEF FreeOf
  <2> HIDE DEF F
  <2> QED
    BY <2>1, <2>2
<1>17. Apart(k, F)
  <2> SUFFICES ASSUME NEW c \in F, NEW d \in F, Follows(k, c, d) PROVE FALSE
    BY DEF Apart
  <2>1. c \in C /\ d \in C
    BY DEF FreeOf
  <2>2. PICK s \in Regions(k) : InRegion(s, c) /\ InRegion(s, d)
    BY DEF Follows
  <2>3. PICK r \in Regions(h) : r.base = s.base /\ InRegion(r, c)
    BY <1>4, <1>8, <2>1, <2>2
  <2>4. PICK q \in Regions(h) : q.base = s.base /\ InRegion(q, d)
    BY <1>4, <1>8, <2>1, <2>2
  <2>5. r.base \in Nat /\ InRegion(r, r.base) /\ InRegion(q, r.base)
    BY <1>1, <2>3, <2>4, RegionParts DEF InRegion
  <2>6. r = q
    BY <1>1, <2>5, OneRegion
  <2>7. d = After(h, c)
    BY <1>12, <2>1 DEF Follows
  <2>8. Follows(h, c, d)
    BY <2>3, <2>4, <2>6, <2>7 DEF Follows
  <2> QED
    BY <1>1, <2>8 DEF Apart
<1> QED
  BY <1>2, <1>7, <1>9, <1>11, <1>14, <1>15, <1>16, <1>17 DEF Kept, n

\* What the heap grows by is an even number of words that holds a chunk.
LEMMA PagesParts ==
    ASSUME NEW need \in Nat
    PROVE  /\ Pages(need) * PageWords \in Nat
           /\ Pages(need) * PageWords >= 4 /\ (Pages(need) * PageWords) % 2 = 0
<1> DEFINE n == Pages(need)
           q == PageWords \div 2
<1>1. PageWords \in Nat /\ PageWords % 2 = 0 /\ PageWords > 2 /\ MinPages \in Nat /\ MinPages >= 1
  BY HeapConstants DEF Overhead
<1>2. n \in Nat /\ n >= 1
  <2> DEFINE m == (need + Overhead + PageWords - 1) \div PageWords
  <2>1. m \in Int
    BY <1>1 DEF Overhead
  <2> HIDE DEF m
  <2>2. n = IF m < MinPages THEN MinPages ELSE m
    BY DEF Pages, m
  <2> QED
    BY <1>1, <2>1, <2>2
<1>3. q \in Nat /\ PageWords = 2 * q /\ q >= 2
  BY <1>1
<1> HIDE DEF n, q
<1>4. n * q \in Nat /\ n * PageWords = 2 * (n * q) /\ n * q >= q
  BY <1>2, <1>3
<1> DEFINE z == n * q
<1>5. n * PageWords = 2 * z /\ z \in Nat /\ z >= 2
  BY <1>3, <1>4
<1> HIDE DEF z
<1>6. 2 * z \in Nat /\ 2 * z >= 4 /\ (2 * z) % 2 = 0
  BY <1>5
<1> QED
  BY <1>5, <1>6 DEF n

\* What a grow leaves behind: more regions or longer ones, and no block moved.
Grows(h, C, k, N) ==
    /\ Exact(k, N) /\ UsedOf(k, N) = UsedOf(h, C) /\ Kept(h, k, UsedOf(h, C))
    /\ k.inuse = h.inuse /\ Ended(k) /\ Keeps(h, k)

\* In the build with threads what is grown is one free chunk, a region of its own.
LEMMA ExtendThreadedGrows ==
    ASSUME NEW h, NEW C, Exact(h, C), Ended(h), build = "threads",
           NEW words \in Nat, words >= 4, words % 2 = 0, h.brk + words <= MaxWords
    PROVE  \E N : Grows(h, C, ExtendThreaded(h, words), N)
<1> DEFINE n == h.brk
           new == [base |-> n, limit |-> n + words]
           s == Append(h.regions, new)
           g == [h EXCEPT !.brk = n + words, !.regions = s]
           k == PutFree(g, n, words - 2)
           F == FreeOf(h, C)
           N == C \cup {n}
<1>1. h \in Heaps /\ RegionsApart(h) /\ Tiles(h, C) /\ Apart(h, F) /\ Lists(h, F)
  BY DEF Exact
<1>2. /\ n \in Nat /\ n + words \in 0 .. MaxWords /\ MaxWords \in Nat /\ n \in Words
      /\ n \in 0 .. MaxWords /\ n < n + words
  <2>1. n \in 0 .. MaxWords /\ MaxWords \in Nat
    BY <1>1, HeapConstants DEF Heaps
  <2> QED
    BY <2>1 DEF Words
<1>3. n \notin C
  <2> SUFFICES ASSUME n \in C PROVE FALSE
    OBVIOUS
  <2>1. After(h, n) = n + 2 + Size(h, n) /\ Size(h, n) \in Nat /\ After(h, n) <= n
    BY <1>1, ChunkParts
  <2> QED
    BY <1>2, <2>1
<1>4. h.regions \in Seq(Region) /\ new \in Region
  BY <1>1, <1>2 DEF Heaps, Region
<1>5. ExtendThreaded(h, words) = k
  BY DEF ExtendThreaded, Overhead
<1>6. s \in Seq(Region) /\ ToSet(s) = Regions(h) \cup {new}
  <2>1. /\ s \in Seq(Region) /\ DOMAIN s = 1 .. Len(h.regions) + 1
        /\ DOMAIN h.regions = 1 .. Len(h.regions) /\ Len(h.regions) \in Nat
        /\ \A i \in 1 .. Len(h.regions) : s[i] = h.regions[i]
        /\ s[Len(h.regions) + 1] = new
    BY <1>4
  <2> HIDE DEF s, new
  <2> QED
    BY <2>1 DEF ToSet, Regions
<1> HIDE DEF s
<1>7. /\ g \in Heaps /\ g.brk = n + words /\ g.regions = s /\ g.mem = h.mem
      /\ g.free = h.free /\ g.inuse = h.inuse
  BY <1>1, <1>2, <1>6 DEF Heaps
<1> HIDE DEF g
<1>8. Lists(g, F) /\ n \notin F
  BY <1>1, <1>3, <1>7 DEF Lists, FreeOf
<1>9. Marked(g, k, n, words - 2, FALSE) /\ Lists(k, F \cup {n})
  <2>1. words - 2 \in Nat /\ n + 2 + (words - 2) <= MaxWords
    BY <1>2
  <2> HIDE DEF F, n
  <2> QED
    BY <1>2, <1>7, <1>8, <2>1, PutFreeParts
<1> HIDE DEF k, F
<1>10. /\ k \in Heaps /\ k.brk = n + words /\ k.regions = s /\ k.inuse = h.inuse
       /\ k.mem[n] = [size |-> words - 2, inuse |-> FALSE]
       /\ k.mem[n + words - 1] = [size |-> words - 2, inuse |-> FALSE]
       /\ \A w \in Words : w < n => k.mem[w] = h.mem[w]
  <2>1. n + 1 + (words - 2) = n + words - 1
    BY <1>2
  <2>2. ASSUME NEW w \in Words, w < n PROVE k.mem[w] = h.mem[w]
    <3>1. w \in Nat
      BY <1>2 DEF Words
    <3>2. ~(n <= w /\ w < n + 2 + (words - 2))
      BY <1>2, <2>2, <3>1
    <3> QED
      BY <1>7, <1>9, <3>2 DEF Marked
  <2> HIDE DEF n
  <2> QED
    BY <1>7, <1>9, <2>1, <2>2 DEF Marked
<1>11. Regions(k) = Regions(h) \cup {new}
  BY <1>6, <1>10 DEF Regions
<1>12. new.base = n /\ new.limit = n + words
  OBVIOUS
<1> HIDE DEF new
<1>13. RegionsApart(k)
  <2>1. \A r \in Regions(h) : /\ r \in Region /\ r.base < r.limit /\ r.limit <= n
                             /\ r.base % 2 = 0 /\ r.limit % 2 = 0
                             /\ r.base \in Nat /\ r.limit \in Nat
    BY <1>1, RegionParts DEF RegionsApart
  <2>2. n % 2 = 0 /\ (n + words) % 2 = 0
    <3>1. n % 2 = 0
      BY DEF Ended
    <3> QED
      BY <1>2, <3>1
  <2>3. \A r, q \in Regions(h) : r = q \/ r.limit <= q.base \/ q.limit <= r.base
    BY <1>1 DEF RegionsApart
  <2> HIDE DEF n
  <2>4. \A r \in Regions(k) : /\ r \in Region /\ r.base < r.limit /\ r.limit <= k.brk
                             /\ r.base % 2 = 0 /\ r.limit % 2 = 0
    <3> SUFFICES ASSUME NEW r \in Regions(k)
                 PROVE  /\ r \in Region /\ r.base < r.limit /\ r.limit <= k.brk
                        /\ r.base % 2 = 0 /\ r.limit % 2 = 0
      OBVIOUS
    <3>1. CASE r = new
      BY <1>2, <1>4, <1>10, <1>12, <2>2, <3>1
    <3>2. CASE r \in Regions(h)
      BY <1>2, <1>10, <2>1, <3>2
    <3> QED
      BY <1>11, <3>1, <3>2
  <2>5. \A r, q \in Regions(k) : r = q \/ r.limit <= q.base \/ q.limit <= r.base
    BY <1>11, <1>12, <2>1, <2>3
  <2> QED
    BY <2>4, <2>5 DEF RegionsApart
<1>14. Keeps(h, k)
  <2>1. \A r \in Regions(h) : r.limit <= r.limit
    BY <1>1, RegionParts
  <2> QED
    BY <1>11, <2>1 DEF Keeps
<1>15. \A r \in Regions(k), w \in Words : InRegion(r, w) /\ w < n =>
          \E q \in Regions(h) : q.base = r.base /\ InRegion(q, w)
  <2>1. \A w \in Words : ~(InRegion(new, w) /\ w < n)
    BY <1>2, <1>12 DEF InRegion, Words
  <2> QED
    BY <1>11, <2>1
<1>16. Adds(h, k, words)
  BY <1>2, <1>10, <1>11, <1>12, <1>13, <1>14, <1>15 DEF Adds
<1>17. /\ Tiles(k, N) /\ Kept(h, k, C) /\ FreeOf(k, N) = F \cup {n} /\ Apart(k, F)
       /\ After(k, n) = k.brk
  <2>1. Tiles(k, N) /\ Kept(h, k, C)
    BY <1>16, AddsParts
  <2>2. FreeOf(k, N) = F \cup {n} /\ Apart(k, F)
    BY <1>16, AddsParts DEF F
  <2>3. After(k, n) = k.brk
    BY <1>16, AddsParts
  <2> QED
    BY <2>1, <2>2, <2>3
<1>18. Apart(k, FreeOf(k, N))
  <2> SUFFICES ASSUME NEW c \in F \cup {n}, NEW d \in F \cup {n}, Follows(k, c, d) PROVE FALSE
    BY <1>17 DEF Apart
  <2>1. PICK r \in Regions(k) : InRegion(r, c) /\ InRegion(r, d)
    BY DEF Follows
  <2>2. /\ r.base \in Nat /\ r.limit \in Nat /\ r.limit <= k.brk /\ k.brk \in Nat
    BY <1>10, <1>13, RegionParts
  <2>3. CASE c = n
    BY <1>2, <1>10, <1>17, <2>1, <2>2, <2>3 DEF Follows, InRegion
  <2>4. CASE c \in F /\ d = n
    <3>1. InRegion(new, n)
      BY <1>2, <1>12 DEF InRegion
    <3>2. r = new
      BY <1>2, <1>10, <1>11, <1>13, <2>1, <2>4, <3>1, OneRegion
    <3>3. c \in Nat /\ After(h, c) = c + 2 + Size(h, c) /\ Size(h, c) \in Nat /\ After(h, c) <= n
      BY <1>1, <2>4, ChunkParts DEF F, FreeOf
    <3> QED
      BY <1>2, <1>12, <2>1, <3>2, <3>3 DEF InRegion
  <2>5. CASE c \in F /\ d \in F
    BY <1>17, <2>5 DEF Apart
  <2> QED
    BY <2>3, <2>4, <2>5
<1>19. Exact(k, N)
  BY <1>9, <1>10, <1>13, <1>17, <1>18 DEF Exact
<1>20. UsedOf(k, N) = UsedOf(h, C) /\ Kept(h, k, UsedOf(h, C))
  BY <1>3, <1>17 DEF UsedOf, Kept, F
<1>21. Ended(k)
  <2>1. n % 2 = 0
    BY DEF Ended
  <2>2. (n + words) % 2 = 0
    BY <1>2, <2>1
  <2> QED
    BY <1>10, <2>2 DEF Ended
<1> HIDE DEF N
<1>22. Grows(h, C, k, N)
  BY <1>10, <1>14, <1>19, <1>20, <1>21 DEF Grows
<1> QED
  BY <1>5, <1>22

\* In the build without threads the one region grows, its last chunk with it if free.
LEMMA ExtendSingleGrows ==
    ASSUME NEW h, NEW C, Exact(h, C), Ended(h), build = "single",
           NEW words \in Nat, words >= 4, words % 2 = 0, h.brk + words <= MaxWords
    PROVE  \E N : Grows(h, C, ExtendSingle(h, words), N)
<1> DEFINE n == h.brk
           old == h.regions[1]
           new == [base |-> old.base, limit |-> n + words]
           g == [h EXCEPT !.brk = n + words, !.regions = <<new>>]
           k == ChunkSet(g, n, words - 2, FALSE)
           F == FreeOf(h, C)
           N == C \cup {n}
<1>1. h \in Heaps /\ RegionsApart(h) /\ Tiles(h, C) /\ Apart(h, F) /\ Lists(h, F)
  BY DEF Exact
<1>2. /\ n \in Nat /\ n + words \in 0 .. MaxWords /\ MaxWords \in Nat /\ n \in Words
      /\ n \in 0 .. MaxWords /\ n < n + words
  <2>1. n \in 0 .. MaxWords /\ MaxWords \in Nat
    BY <1>1, HeapConstants DEF Heaps
  <2> QED
    BY <2>1 DEF Words
<1>3. Len(h.regions) = 1 /\ old.limit = n
  BY DEF Ended
<1>4. Regions(h) = {old}
  <2>1. h.regions \in Seq(Region)
    BY <1>1 DEF Heaps
  <2>2. DOMAIN h.regions = {1}
    BY <1>3, <2>1
  <2> QED
    BY <2>2 DEF Regions, ToSet
<1>5. /\ old \in Region /\ old.base \in Nat /\ old.base < n /\ old.base % 2 = 0
  <2>1. old \in Regions(h)
    BY <1>4
  <2> HIDE DEF old, n
  <2> QED
    BY <1>1, <1>3, <2>1, RegionParts DEF RegionsApart
<1>6. ExtendSingle(h, words) = Coalesce(k, n)
  BY <1>3 DEF ExtendSingle, Overhead
<1>7. new \in Region /\ new.base = old.base /\ new.limit = n + words
  BY <1>2, <1>5 DEF Region
<1> HIDE DEF old, new
<1>8. /\ <<new>> \in Seq(Region) /\ ToSet(<<new>>) = {new}
      /\ Len(<<new>>) = 1 /\ <<new>>[1] = new
  BY <1>7 DEF ToSet
<1>9. /\ g \in Heaps /\ g.brk = n + words /\ g.regions = <<new>> /\ g.mem = h.mem
      /\ g.free = h.free /\ g.inuse = h.inuse
  BY <1>1, <1>2, <1>8 DEF Heaps
<1> HIDE DEF g
<1>10. Marked(g, k, n, words - 2, FALSE) /\ k.free = g.free
  <2>1. words - 2 \in Nat /\ n + 2 + (words - 2) <= MaxWords
    BY <1>2
  <2> HIDE DEF n
  <2> QED
    BY <1>2, <1>9, <2>1, ChunkSetParts
<1> HIDE DEF k
<1>11. /\ k \in Heaps /\ k.brk = n + words /\ k.regions = <<new>> /\ k.inuse = h.inuse
       /\ k.mem[n] = [size |-> words - 2, inuse |-> FALSE]
       /\ k.mem[n + words - 1] = [size |-> words - 2, inuse |-> FALSE]
       /\ \A w \in Words : w < n => k.mem[w] = h.mem[w]
  <2>1. n + 1 + (words - 2) = n + words - 1
    BY <1>2
  <2>2. ASSUME NEW w \in Words, w < n PROVE k.mem[w] = h.mem[w]
    <3>1. w \in Nat
      BY <1>2 DEF Words
    <3>2. ~(n <= w /\ w < n + 2 + (words - 2))
      BY <1>2, <2>2, <3>1
    <3> QED
      BY <1>9, <1>10, <3>2 DEF Marked
  <2> HIDE DEF n
  <2> QED
    BY <1>9, <1>10, <2>1, <2>2 DEF Marked
<1>12. Regions(k) = {new}
  BY <1>8, <1>11 DEF Regions
<1>13. n % 2 = 0 /\ (n + words) % 2 = 0
  <2>1. n % 2 = 0
    BY DEF Ended
  <2> QED
    BY <1>2, <2>1
<1>14. RegionsApart(k)
  BY <1>2, <1>5, <1>7, <1>11, <1>12, <1>13 DEF RegionsApart
<1>15. Keeps(h, k)
  BY <1>2, <1>3, <1>4, <1>7, <1>12 DEF Keeps
<1>16. \A r \in Regions(k), w \in Words : InRegion(r, w) /\ w < n =>
          \E q \in Regions(h) : q.base = r.base /\ InRegion(q, w)
  BY <1>3, <1>4, <1>7, <1>12 DEF InRegion
<1>17. Adds(h, k, words)
  BY <1>2, <1>5, <1>7, <1>11, <1>12, <1>14, <1>15, <1>16 DEF Adds
<1>18. /\ Tiles(k, N) /\ Kept(h, k, C) /\ FreeOf(k, N) = F \cup {n} /\ Apart(k, F) /\ n \notin C
  <2>1. Tiles(k, N) /\ Kept(h, k, C) /\ n \notin C
    BY <1>17, AddsParts
  <2>2. FreeOf(k, N) = F \cup {n} /\ Apart(k, F)
    BY <1>17, AddsParts DEF F
  <2> QED
    BY <2>1, <2>2
<1>19. F \subseteq C /\ FreeOf(k, N) \ {n} = F
  BY <1>18 DEF FreeOf
<1>20. Loose(k, N, n)
  <2>1. Lists(k, F)
    BY <1>1, <1>9, <1>10 DEF Lists
  <2> QED
    BY <1>11, <1>14, <1>18, <1>19, <2>1 DEF Loose
<1> HIDE DEF N, F
<1>21. PICK M : Drops(k, N, Coalesce(k, n), M, {n})
  BY <1>20, CoalesceDrops
<1> DEFINE m == Coalesce(k, n)
<1> HIDE DEF m
<1>22. /\ Exact(m, M) /\ m.brk = k.brk /\ m.regions = k.regions /\ m.inuse = k.inuse
       /\ UsedOf(m, M) = UsedOf(k, N) \ {n}
       /\ \A u \in UsedOf(m, M) : m.mem[u] = k.mem[u]
  BY <1>21 DEF Drops, m
<1>23. UsedOf(m, M) = UsedOf(h, C)
  BY <1>18, <1>22 DEF UsedOf, F, N
<1>24. Kept(h, m, UsedOf(h, C))
  BY <1>18, <1>22, <1>23 DEF Kept, UsedOf
<1>25. Ended(m)
  BY <1>7, <1>8, <1>11, <1>13, <1>22 DEF Ended
<1>26. Keeps(h, m)
  BY <1>15, <1>22 DEF Keeps, Regions
<1>27. Grows(h, C, m, M)
  BY <1>11, <1>22, <1>23, <1>24, <1>25, <1>26 DEF Grows
<1> QED
  BY <1>6, <1>27 DEF m

\* Growing adds free words and leaves the used chunks alone, in either build.
LEMMA ExtendedGrows ==
    ASSUME NEW h, NEW C, Exact(h, C), Ended(h), NEW need \in Nat, CanExtend(h, need)
    PROVE  \E N : Grows(h, C, Extended(h, need), N)
<1> DEFINE words == Pages(need) * PageWords
<1>1. words \in Nat /\ words >= 4 /\ words % 2 = 0
  BY PagesParts
<1>2. h.brk + words <= MaxWords
  BY DEF CanExtend
<1>3. Extended(h, need) = IF build = "threads" THEN ExtendThreaded(h, words) ELSE ExtendSingle(h, words)
  BY DEF Extended
<1> HIDE DEF words
<1>4. CASE build = "threads"
  BY <1>1, <1>2, <1>3, <1>4, ExtendThreadedGrows
<1>5. CASE build = "single"
  BY <1>1, <1>2, <1>3, <1>5, ExtendSingleGrows
<1> QED
  BY <1>4, <1>5 DEF Ended

-----------------------------------------------------------------------------
(* malloc and free.                                                        *)

\* The first fit is a free chunk of the span needed.
LEMMA FirstFitParts ==
    ASSUME NEW h, NEW C, Exact(h, C), NEW need \in Nat, NEW c \in FirstFit(h, need)
    PROVE  c \in FreeOf(h, C) /\ need <= Size(h, c)
<1>1. PICK i \in DOMAIN h.free : c = h.free[i] /\ Size(h, c) >= need
  BY DEF FirstFit
<1>2. c \in FreeOf(h, C) /\ h \in Heaps
  BY <1>1 DEF Exact, Lists, ToSet
<1>3. Size(h, c) \in Nat
  BY <1>2, ChunkParts DEF Exact, FreeOf
<1> QED
  BY <1>1, <1>2, <1>3

\* k is h with one more block, at c.
Allocates(h, C, k, N, c, need) ==
    /\ Exact(k, N) /\ Ended(k) /\ Keeps(h, k)
    /\ UsedOf(k, N) = UsedOf(h, C) \cup {c} /\ c \notin UsedOf(h, C)
    /\ Kept(h, k, UsedOf(h, C))
    /\ need <= Size(k, c) /\ k.inuse = h.inuse + Size(k, c)

\* malloc hands out one chunk that was not in use, and leaves the others.
LEMMA MallocsAllocates ==
    ASSUME NEW h, NEW C, Exact(h, C), Ended(h), NEW need \in Nat, need % 2 = 0, 2 <= need,
           NEW m \in Mallocs(h, need)
    PROVE  \E N, c : Allocates(h, C, m.heap, N, c, need) /\ m.at = Payload(c)
<1> DEFINE room == IF FirstFit(h, need) = {} /\ CanExtend(h, need) THEN Extended(h, need) ELSE h
<1>1. PICK M : Grows(h, C, room, M)
  <2>1. CASE FirstFit(h, need) = {} /\ CanExtend(h, need)
    BY <2>1, ExtendedGrows
  <2>2. CASE ~(FirstFit(h, need) = {} /\ CanExtend(h, need))
    <3>1. Keeps(h, h)
      <4>1. \A r \in Regions(h) : r.limit <= r.limit
        BY RegionParts DEF Exact
      <4> QED
        BY <4>1 DEF Keeps
    <3>2. Kept(h, h, UsedOf(h, C))
      BY DEF Kept
    <3>3. Grows(h, C, h, C)
      BY <3>1, <3>2 DEF Grows
    <3> QED
      BY <2>2, <3>3
  <2> QED
    BY <2>1, <2>2
<1>2. PICK c \in FirstFit(room, need) : m = [heap |-> HandOut(room, c, need), at |-> Payload(c)]
  BY DEF Mallocs
<1> HIDE DEF room
<1>3. /\ Exact(room, M) /\ UsedOf(room, M) = UsedOf(h, C) /\ Kept(h, room, UsedOf(h, C))
      /\ room.inuse = h.inuse /\ Ended(room) /\ Keeps(h, room)
  BY <1>1 DEF Grows
<1>4. c \in FreeOf(room, M) /\ need <= Size(room, c)
  BY <1>2, <1>3, FirstFitParts
<1> DEFINE k == HandOut(room, c, need)
<1>5. PICK N : Serves(room, M, k, N, {c}, c, need, 0)
  BY <1>3, <1>4, HandOutServes
<1> HIDE DEF k
<1>6. /\ Exact(k, N) /\ k.brk = room.brk /\ k.regions = room.regions
      /\ UsedOf(k, N) = (UsedOf(room, M) \ {c}) \cup {c} /\ c \notin UsedOf(room, M) \ {c}
      /\ \A u \in UsedOf(room, M) \ {c} : k.mem[u] = room.mem[u]
      /\ need <= Size(k, c) /\ k.inuse = room.inuse + Size(k, c) - 0
  BY <1>5 DEF Serves, Hands
<1>7. c \notin UsedOf(room, M)
  BY <1>4 DEF UsedOf
<1>8. UsedOf(k, N) = UsedOf(h, C) \cup {c} /\ c \notin UsedOf(h, C)
  BY <1>3, <1>6, <1>7
<1>9. Kept(h, k, UsedOf(h, C))
  BY <1>3, <1>6, <1>7 DEF Kept
<1>10. Ended(k) /\ Keeps(h, k)
  BY <1>3, <1>6 DEF Ended, Keeps, Regions
<1>11. k.inuse = h.inuse + Size(k, c)
  <2>1. Size(k, c) \in Nat /\ room.inuse \in Int
    <3>1. k \in Heaps /\ room \in Heaps /\ c \in N
      BY <1>3, <1>6 DEF Exact, UsedOf
    <3>2. Size(k, c) \in Nat
      BY <1>6, <3>1, ChunkParts DEF Exact
    <3> QED
      BY <3>1, <3>2 DEF Heaps
  <2> QED
    BY <1>3, <1>6, <2>1
<1>12. Allocates(h, C, k, N, c, need)
  BY <1>6, <1>8, <1>9, <1>10, <1>11 DEF Allocates
<1> QED
  BY <1>2, <1>12 DEF k

\* k is h without the block at c.
Frees(h, C, k, N, c) ==
    /\ Exact(k, N) /\ Ended(k) /\ k.regions = h.regions
    /\ UsedOf(k, N) = UsedOf(h, C) \ {c}
    /\ Kept(h, k, UsedOf(k, N)) /\ k.inuse = h.inuse - Size(h, c)

\* free takes one chunk back, and leaves the other used ones.
LEMMA FreedFrees ==
    ASSUME NEW h, NEW C, Exact(h, C), Ended(h), NEW c \in UsedOf(h, C)
    PROVE  \E N : Frees(h, C, Freed(h, Payload(c)), N, c)
<1> DEFINE g == [h EXCEPT !.inuse = h.inuse - Size(h, c)]
           k == Coalesce(g, c)
<1>1. h \in Heaps /\ c \in C /\ c \notin FreeOf(h, C) /\ h.inuse \in Int
  BY DEF Exact, UsedOf, Heaps
<1>2. c \in Nat /\ Size(h, c) \in Nat
  BY <1>1, ChunkParts DEF Exact
<1>3. Chunk(Payload(c)) = c
  BY <1>2 DEF Chunk, Payload
<1>4. Freed(h, Payload(c)) = k
  BY <1>3 DEF Freed
<1>5. Recounted(h, g) /\ g.inuse = h.inuse - Size(h, c)
  BY <1>1, <1>2 DEF Recounted, Heaps
<1> HIDE DEF g
<1>6. Exact(g, C) /\ UsedOf(g, C) = UsedOf(h, C)
  BY <1>5, RecountedExact
<1>7. FreeOf(g, C) \ {c} = FreeOf(g, C)
  BY <1>6 DEF UsedOf
<1>8. Loose(g, C, c)
  BY <1>1, <1>6, <1>7 DEF Loose, Exact
<1>9. PICK N : Drops(g, C, k, N, {c})
  BY <1>8, CoalesceDrops
<1> HIDE DEF k
<1>10. /\ Exact(k, N) /\ k.brk = g.brk /\ k.regions = g.regions /\ k.inuse = g.inuse
       /\ UsedOf(k, N) = UsedOf(g, C) \ {c}
       /\ \A u \in UsedOf(k, N) : k.mem[u] = g.mem[u]
  BY <1>9 DEF Drops
<1>11. Ended(k)
  BY <1>5, <1>10 DEF Ended, Recounted
<1>12. Kept(h, k, UsedOf(k, N))
  BY <1>5, <1>10 DEF Kept, Recounted
<1>13. Frees(h, C, k, N, c)
  BY <1>5, <1>6, <1>10, <1>11, <1>12 DEF Frees, Recounted
<1> QED
  BY <1>4, <1>13

-----------------------------------------------------------------------------
(* The count of the words in use.                                          *)

\* The payloads of the chunks at U.
Filled(h, U) == UNION {Payload(c) .. c + Size(h, c) : c \in U}

\* The memory is finite.
LEMMA WordsFinite == /\ IsFiniteSet(Words) /\ MaxWords \in Nat
                     /\ Cardinality(Words) <= MaxWords
<1>1. MaxWords \in Nat /\ MaxWords - 1 \in Int
  BY HeapConstants
<1>2. IsFiniteSet(Words) /\ Cardinality(Words) = IF 0 > MaxWords - 1 THEN 0 ELSE (MaxWords - 1) - 0 + 1
  BY <1>1, FS_Interval DEF Words
<1> QED
  BY <1>1, <1>2

\* The words between the tags of the used chunks are finitely many.
LEMMA FilledParts ==
    ASSUME NEW h, NEW C, Exact(h, C), NEW U \in SUBSET C
    PROVE  /\ Filled(h, U) \subseteq Words /\ IsFiniteSet(Filled(h, U))
           /\ Cardinality(Filled(h, U)) \in 0 .. MaxWords
<1>1. h \in Heaps /\ RegionsApart(h) /\ Tiles(h, C) /\ MaxWords \in Nat
  BY HeapConstants DEF Exact
<1>2. ASSUME NEW c \in U PROVE Payload(c) .. c + Size(h, c) \subseteq Words
  <2>1. /\ c \in Nat /\ After(h, c) = c + 2 + Size(h, c) /\ Size(h, c) \in Nat
        /\ After(h, c) <= h.brk /\ h.brk <= MaxWords /\ h.brk \in Nat
    BY <1>1, ChunkParts
  <2> QED
    BY <1>1, <2>1 DEF Payload, Words
<1>3. Filled(h, U) \subseteq Words
  BY <1>2 DEF Filled
<1>4. /\ IsFiniteSet(Filled(h, U)) /\ Cardinality(Filled(h, U)) <= Cardinality(Words)
      /\ Cardinality(Words) \in Nat /\ Cardinality(Words) <= MaxWords
  <2>1. Filled(h, U) \in SUBSET Words
    BY <1>3
  <2> QED
    BY <2>1, WordsFinite, FS_Subset, FS_CardinalityType
<1>5. Cardinality(Filled(h, U)) \in Nat
  BY <1>4, FS_CardinalityType
<1> QED
  BY <1>1, <1>3, <1>4, <1>5

\* One more chunk is one more payload: chunks do not overlap.
LEMMA FilledAdds ==
    ASSUME NEW h, NEW C, Exact(h, C), NEW U \in SUBSET C, NEW c \in C, c \notin U
    PROVE  Cardinality(Filled(h, U \cup {c})) = Cardinality(Filled(h, U)) + Size(h, c)
<1> DEFINE S == Filled(h, U)
           T == Payload(c) .. c + Size(h, c)
<1>1. h \in Heaps /\ RegionsApart(h) /\ Tiles(h, C)
  BY DEF Exact
<1>2. c \in Nat /\ After(h, c) = c + 2 + Size(h, c) /\ Size(h, c) \in Nat
  BY <1>1, ChunkParts
<1>3. Filled(h, U \cup {c}) = S \cup T
  BY DEF Filled
<1>4. S \cap T = {}
  <2> SUFFICES ASSUME NEW w \in S, w \in T PROVE FALSE
    OBVIOUS
  <2>1. PICK d \in U : w \in Payload(d) .. d + Size(h, d)
    BY DEF Filled
  <2>2. d \in Nat /\ After(h, d) = d + 2 + Size(h, d) /\ Size(h, d) \in Nat
    BY <1>1, ChunkParts
  <2>3. After(h, c) <= d \/ After(h, d) <= c
    BY <1>1 DEF Tiles
  <2> QED
    BY <1>2, <2>1, <2>2, <2>3 DEF Payload
<1>5. IsFiniteSet(S) /\ Cardinality(S) \in Nat
  BY FilledParts
<1>6. IsFiniteSet(T) /\ Cardinality(T) = Size(h, c)
  <2>1. c + 1 \in Int /\ c + Size(h, c) \in Int
    BY <1>2
  <2>2. /\ IsFiniteSet((c + 1) .. (c + Size(h, c)))
        /\ Cardinality((c + 1) .. (c + Size(h, c)))
             = IF c + 1 > c + Size(h, c) THEN 0 ELSE (c + Size(h, c)) - (c + 1) + 1
    BY <2>1, FS_Interval
  <2>3. (IF c + 1 > c + Size(h, c) THEN 0 ELSE (c + Size(h, c)) - (c + 1) + 1) = Size(h, c)
    BY <1>2
  <2> QED
    BY <2>2, <2>3 DEF Payload
<1> HIDE DEF S, T
<1>7. Cardinality(S \cap T) = 0
  BY <1>4, FS_EmptySet
<1>8. Cardinality(S \cup T) = Cardinality(S) + Cardinality(T) - Cardinality(S \cap T)
  BY <1>5, <1>6, FS_Union
<1> QED
  <2>1. Cardinality(S \cup T) = Cardinality(S) + Size(h, c)
    BY <1>2, <1>5, <1>6, <1>7, <1>8
  <2> QED
    BY <1>3, <2>1 DEF S

\* They change only where a used chunk does.
LEMMA FilledKept ==
    ASSUME NEW h, NEW k, NEW U, Kept(h, k, U)
    PROVE  Filled(k, U) = Filled(h, U)
<1>1. \A c \in U : Size(k, c) = Size(h, c)
  BY DEF Kept, Size
<1> QED
  BY <1>1 DEF Filled

-----------------------------------------------------------------------------
(* The heap and its caller's blocks.                                       *)

\* The blocks a are the chunks in use of the heap h with the chunks at C, each
\* as long as asked for, and counted.
Sound(h, a, C) ==
    /\ Exact(h, C) /\ Ended(h) /\ a = [p \in DOMAIN a |-> a[p]]
    /\ DOMAIN a = {Payload(c) : c \in UsedOf(h, C)}
    /\ \A c \in UsedOf(h, C) : a[Payload(c)] \in 1 .. Wrap /\ a[Payload(c)] <= Size(h, c)
    /\ h.inuse = Cardinality(Filled(h, UsedOf(h, C)))

\* Another block, of n words at p.
With(a, p, n) == [q \in DOMAIN a \cup {p} |-> IF q = p THEN n ELSE a[q]]

\* What is known of a used chunk.
LEMMA UsedParts ==
    ASSUME NEW h, NEW C, Exact(h, C), NEW c \in UsedOf(h, C)
    PROVE  c \in C /\ c \in Nat /\ c \in Words /\ Size(h, c) \in Nat
  BY ChunkParts DEF Exact, UsedOf

\* Different chunks are different blocks.
LEMMA PayloadsApart ==
    ASSUME NEW c \in Nat, NEW d \in Nat, Payload(c) = Payload(d)
    PROVE  c = d
  BY DEF Payload

\* A chunk handed out with its caller noted keeps the heap sound.
LEMMA SoundAllocates ==
    ASSUME NEW h, NEW a, NEW C, Sound(h, a, C), NEW k, NEW N, NEW c, NEW need,
           Allocates(h, C, k, N, c, need), NEW n \in 1 .. Wrap, n <= need, need \in Nat
    PROVE  Sound(k, With(a, Payload(c), n), N)
<1> DEFINE U == UsedOf(h, C)
           b == With(a, Payload(c), n)
<1>1. /\ Exact(h, C) /\ DOMAIN a = {Payload(d) : d \in U}
      /\ \A d \in U : a[Payload(d)] \in 1 .. Wrap /\ a[Payload(d)] <= Size(h, d)
      /\ h.inuse = Cardinality(Filled(h, U))
  BY DEF Sound
<1>2. /\ Exact(k, N) /\ Ended(k) /\ UsedOf(k, N) = U \cup {c} /\ c \notin U /\ Kept(h, k, U)
      /\ need <= Size(k, c) /\ k.inuse = h.inuse + Size(k, c)
  BY DEF Allocates
<1>3. c \in N /\ U \subseteq N
  BY <1>2 DEF UsedOf
<1>4. \A d \in U \cup {c} : d \in Nat /\ Size(k, d) \in Nat
  BY <1>2, UsedParts
<1> HIDE DEF U
<1>5. DOMAIN b = {Payload(d) : d \in U \cup {c}}
  BY <1>1 DEF With
<1>6. ASSUME NEW d \in U \cup {c} PROVE b[Payload(d)] \in 1 .. Wrap /\ b[Payload(d)] <= Size(k, d)
  <2>1. CASE d = c
    <3>1. b[Payload(d)] = n
      BY <2>1 DEF With
    <3>2. Wrap \in Nat
      BY HeapConstants
    <3> HIDE DEF b
    <3> QED
      BY <1>2, <1>4, <2>1, <3>1, <3>2
  <2>2. CASE d # c
    <3>1. d \in U /\ Payload(d) # Payload(c) /\ Payload(d) \in DOMAIN a
      BY <1>1, <1>4, <2>2, PayloadsApart
    <3>2. b[Payload(d)] = a[Payload(d)]
      BY <3>1 DEF With
    <3>3. Size(k, d) = Size(h, d)
      BY <1>2, <3>1 DEF Kept, Size
    <3> HIDE DEF b
    <3> QED
      BY <1>1, <3>1, <3>2, <3>3
  <2> QED
    BY <2>1, <2>2
<1>7. k.inuse = Cardinality(Filled(k, U \cup {c}))
  <2>1. Cardinality(Filled(k, U \cup {c})) = Cardinality(Filled(k, U)) + Size(k, c)
    BY <1>2, <1>3, FilledAdds
  <2>2. Filled(k, U) = Filled(h, U)
    BY <1>2, FilledKept
  <2> QED
    BY <1>1, <1>2, <2>1, <2>2
<1>8. b = [p \in DOMAIN b |-> b[p]]
  BY DEF With
<1> HIDE DEF b
<1>9. Sound(k, b, N)
  BY <1>2, <1>5, <1>6, <1>7, <1>8 DEF Sound
<1> QED
  BY <1>9 DEF b

\* A chunk taken back with its caller forgotten keeps the heap sound.
LEMMA SoundFrees ==
    ASSUME NEW h, NEW a, NEW C, Sound(h, a, C), NEW k, NEW N, NEW c \in UsedOf(h, C),
           Frees(h, C, k, N, c)
    PROVE  Sound(k, Restrict(a, DOMAIN a \ {Payload(c)}), N)
<1> DEFINE U == UsedOf(h, C)
           b == Restrict(a, DOMAIN a \ {Payload(c)})
<1>1. /\ Exact(h, C) /\ DOMAIN a = {Payload(d) : d \in U}
      /\ \A d \in U : a[Payload(d)] \in 1 .. Wrap /\ a[Payload(d)] <= Size(h, d)
      /\ h.inuse = Cardinality(Filled(h, U))
  BY DEF Sound
<1>2. /\ Exact(k, N) /\ Ended(k) /\ UsedOf(k, N) = U \ {c} /\ Kept(h, k, U \ {c})
      /\ k.inuse = h.inuse - Size(h, c)
  BY DEF Frees
<1>3. U \subseteq C /\ c \in C /\ c \in U
  BY DEF UsedOf
<1>4. \A d \in U : d \in Nat /\ Size(h, d) \in Nat
  BY <1>1, UsedParts
<1> HIDE DEF U
<1>5. /\ DOMAIN b = DOMAIN a \ {Payload(c)} /\ \A q \in DOMAIN b : b[q] = a[q]
      /\ b = [q \in DOMAIN b |-> b[q]]
  BY DEF Restrict
<1>6. DOMAIN b = {Payload(d) : d \in U \ {c}}
  <2>1. \A d \in U : Payload(d) = Payload(c) => d = c
    BY <1>3, <1>4, PayloadsApart
  <2> QED
    BY <1>1, <1>5, <2>1
<1> HIDE DEF b
<1>7. ASSUME NEW d \in U \ {c} PROVE b[Payload(d)] \in 1 .. Wrap /\ b[Payload(d)] <= Size(k, d)
  <2>1. b[Payload(d)] = a[Payload(d)]
    BY <1>5, <1>6
  <2>2. Size(k, d) = Size(h, d)
    BY <1>2 DEF Kept, Size
  <2> QED
    BY <1>1, <2>1, <2>2
<1>8. k.inuse = Cardinality(Filled(k, U \ {c}))
  <2>1. Cardinality(Filled(h, (U \ {c}) \cup {c})) = Cardinality(Filled(h, U \ {c})) + Size(h, c)
    BY <1>1, <1>3, FilledAdds
  <2>2. (U \ {c}) \cup {c} = U
    BY <1>3
  <2>3. Filled(k, U \ {c}) = Filled(h, U \ {c})
    BY <1>2, FilledKept
  <2>4. Cardinality(Filled(h, U \ {c})) \in 0 .. MaxWords /\ MaxWords \in Nat
    BY <1>1, <1>3, FilledParts, HeapConstants
  <2> QED
    <3>1. Size(h, c) \in Nat /\ Cardinality(Filled(h, U \ {c})) \in Nat
      BY <1>3, <1>4, <2>4
    <3>2. Cardinality(Filled(h, U)) = Cardinality(Filled(h, U \ {c})) + Size(h, c)
      BY <2>1, <2>2
    <3>3. /\ h.inuse = Cardinality(Filled(h, U \ {c})) + Size(h, c)
          /\ k.inuse = h.inuse - Size(h, c)
      BY <1>1, <1>2, <3>2
    <3>4. k.inuse = Cardinality(Filled(h, U \ {c}))
      BY <3>1, <3>3
    <3> QED
      BY <2>3, <3>4
<1>9. Sound(k, b, N)
  BY <1>2, <1>5, <1>6, <1>7, <1>8 DEF Sound
<1> QED
  BY <1>9 DEF b

\* A block of another length, where it is.
LEMMA SoundGrown ==
    ASSUME NEW h, NEW a, NEW C, Sound(h, a, C), NEW k, NEW N, NEW c \in UsedOf(h, C),
           NEW e \in FreeOf(h, C), NEW need \in Nat,
           Serves(h, C, k, N, {c, e}, c, need, Size(h, c)), NEW n \in 1 .. Wrap, n <= need
    PROVE  Sound(k, [a EXCEPT ![Payload(c)] = n], N)
<1> DEFINE U == UsedOf(h, C)
           p == Payload(c)
           b == [a EXCEPT ![p] = n]
<1>1. /\ Exact(h, C) /\ DOMAIN a = {Payload(d) : d \in U} /\ Ended(h)
      /\ \A d \in U : a[Payload(d)] \in 1 .. Wrap /\ a[Payload(d)] <= Size(h, d)
      /\ h.inuse = Cardinality(Filled(h, U))
  BY DEF Sound
<1>2. e \notin U /\ c \in U /\ U \subseteq C /\ c \in C
  BY DEF UsedOf, FreeOf
<1>3. /\ Exact(k, N) /\ k.brk = h.brk /\ k.regions = h.regions /\ UsedOf(k, N) = (U \ {c, e}) \cup {c}
      /\ \A u \in U \ {c, e} : k.mem[u] = h.mem[u]
      /\ need <= Size(k, c) /\ k.inuse = h.inuse + Size(k, c) - Size(h, c)
  BY DEF Serves, Hands
<1>4. UsedOf(k, N) = U /\ Kept(h, k, U \ {c})
  BY <1>2, <1>3 DEF Kept
<1>5. \A d \in U : d \in Nat /\ Size(h, d) \in Nat /\ Size(k, d) \in Nat
  BY <1>1, <1>3, <1>4, UsedParts
<1>6. U \subseteq N /\ c \in N
  BY <1>2, <1>4 DEF UsedOf
<1> HIDE DEF U
<1>7. DOMAIN b = {Payload(d) : d \in U} /\ b = [q \in DOMAIN b |-> b[q]]
  BY <1>1
<1>8. ASSUME NEW d \in U PROVE b[Payload(d)] \in 1 .. Wrap /\ b[Payload(d)] <= Size(k, d)
  <2>1. Wrap \in Nat /\ Payload(d) \in DOMAIN a
    BY <1>1, HeapConstants
  <2>2. CASE d = c
    <3>1. b[Payload(d)] = n
      BY <2>1, <2>2
    <3> HIDE DEF b
    <3> QED
      BY <1>3, <1>5, <2>1, <2>2, <3>1
  <2>3. CASE d # c
    <3>1. Payload(d) # p
      BY <1>2, <1>5, <2>3, PayloadsApart
    <3>2. b[Payload(d)] = a[Payload(d)]
      BY <2>1, <3>1
    <3>3. Size(k, d) = Size(h, d)
      BY <1>4, <2>3 DEF Kept, Size
    <3> HIDE DEF b
    <3> QED
      BY <1>1, <3>2, <3>3
  <2> QED
    BY <2>2, <2>3
<1>9. k.inuse = Cardinality(Filled(k, U))
  <2>1. (U \ {c}) \cup {c} = U
    BY <1>2
  <2>2. Cardinality(Filled(h, U)) = Cardinality(Filled(h, U \ {c})) + Size(h, c)
    <3>1. U \ {c} \in SUBSET C /\ c \notin U \ {c}
      BY <1>2
    <3>2. Cardinality(Filled(h, (U \ {c}) \cup {c})) = Cardinality(Filled(h, U \ {c})) + Size(h, c)
      BY <1>1, <1>2, <3>1, FilledAdds
    <3> QED
      BY <2>1, <3>2
  <2>3. Cardinality(Filled(k, U)) = Cardinality(Filled(k, U \ {c})) + Size(k, c)
    <3>1. U \ {c} \in SUBSET N /\ c \notin U \ {c}
      BY <1>6
    <3>2. Cardinality(Filled(k, (U \ {c}) \cup {c})) = Cardinality(Filled(k, U \ {c})) + Size(k, c)
      BY <1>3, <1>6, <3>1, FilledAdds
    <3> QED
      BY <2>1, <3>2
  <2>4. Filled(k, U \ {c}) = Filled(h, U \ {c})
    BY <1>4, FilledKept
  <2>5. Cardinality(Filled(h, U \ {c})) \in 0 .. MaxWords /\ MaxWords \in Nat
    BY <1>1, <1>2, FilledParts, HeapConstants
  <2>6. Size(h, c) \in Nat /\ Size(k, c) \in Nat
    BY <1>2, <1>5
  <2> QED
    BY <1>1, <1>3, <2>2, <2>3, <2>4, <2>5, <2>6
<1>10. Ended(k)
  BY <1>1, <1>3 DEF Ended
<1> HIDE DEF b
<1>11. Sound(k, b, N)
  BY <1>3, <1>4, <1>7, <1>8, <1>9, <1>10 DEF Sound
<1> QED
  BY <1>11 DEF b

-----------------------------------------------------------------------------
(* The program's calls keep the heap sound.                                *)

HeapSound == \E C : Sound(State, asked, C)

\* ALIGN8 gives a span that a chunk can have.
LEMMA AlignParts ==
    ASSUME NEW n \in Nat, n >= 1
    PROVE  Align(n) \in Nat /\ Align(n) % 2 = 0 /\ 2 <= Align(n) /\ n <= Align(n)
  BY DEF Align

\* A total that calloc does not refuse is the product.
LEMMA CallocParts ==
    ASSUME NEW arr \in Arrays, CallocTotal(arr[1], arr[2]) # 0
    PROVE  /\ arr[1] * arr[2] = CallocTotal(arr[1], arr[2])
           /\ arr[1] * arr[2] \in 1 .. Wrap - 1
<1> DEFINE n == arr[1]
           span == arr[2]
           z == n * span
           total == z % Wrap
<1>1. Wrap \in Nat /\ Wrap > 0 /\ n \in Nat /\ span \in Nat
  BY HeapConstants
<1>2. z \in Nat
  BY <1>1
<1>3. CallocTotal(n, span) = IF n # 0 /\ total \div n # span THEN 0 ELSE total
  BY DEF CallocTotal
<1>4. n = 0 => z = 0
  BY <1>1
<1> HIDE DEF n, span
<1>5. total \in Nat /\ total < Wrap /\ total <= z
  <2> HIDE DEF z
  <2> QED
    BY <1>1, <1>2
<1> HIDE DEF total
<1>6. n # 0 /\ total \div n = span
  <2>1. z = 0 => total = 0
    BY <1>5, <1>2
  <2> QED
    BY <1>3, <1>4, <2>1 DEF n, span
<1>7. n * span <= total
  BY <1>1, <1>5, <1>6
<1>8. total = z
  BY <1>2, <1>5, <1>7
<1>9. CallocTotal(n, span) = total /\ total # 0
  BY <1>3, <1>6 DEF n, span
<1> QED
  BY <1>1, <1>5, <1>8, <1>9 DEF n, span

\* The heap's record is what was written to it.
LEMMA BecomesParts ==
    ASSUME NEW k \in Heaps, Becomes(k)
    PROVE  State' = k
  BY DEF Becomes, State, Heaps

\* A sound heap in the next state makes HeapSound hold there.
LEMMA SoundNext ==
    ASSUME UNCHANGED build, NEW N, Sound(State', asked', N)
    PROVE  HeapSound'
<1>1. Sound(State, asked, N)'
  BY DEF Sound, Ended
<1> QED
  BY <1>1 DEF HeapSound

\* The steps: a new block,
Allots == \E C, N, c, need, n :
    /\ Sound(State, asked, C) /\ Sound(State', asked', N)
    /\ Allocates(State, C, State', N, c, need)
    /\ asked' = With(asked, Payload(c), n)

\* one block less,
Releases == \E C, N : \E c \in UsedOf(State, C) :
    /\ Sound(State, asked, C) /\ Sound(State', asked', N)
    /\ Frees(State, C, State', N, c)
    /\ asked' = Restrict(asked, DOMAIN asked \ {Payload(c)})

\* a new block for an old one that is shorter,
Moves == \E C, N, k, M, d, need, n : \E c \in UsedOf(State, C) :
    /\ Sound(State, asked, C) /\ Sound(State', asked', N)
    /\ Allocates(State, C, k, M, d, need) /\ Sound(k, With(asked, Payload(d), n), M)
    /\ Frees(k, M, State', N, c)
    /\ asked' = Restrict(With(asked, Payload(d), n),
                         DOMAIN With(asked, Payload(d), n) \ {Payload(c)})
    /\ Size(State, c) <= need /\ need \in Nat

\* or a block that is longer, or as long.
Resizes == \E C, N, n : \E c \in UsedOf(State, C) :
    /\ Sound(State, asked, C) /\ Sound(State', asked', N)
    /\ regions' = regions /\ UsedOf(State', N) = UsedOf(State, C)
    /\ Kept(State, State', UsedOf(State, C) \ {c})
    /\ Size(State, c) <= Size(State', c)
    /\ asked' = [asked EXCEPT ![Payload(c)] = n]

\* The heap of one free chunk, which heap_lazy_init makes, is sound.
LEMMA InitSound == HeapInit => HeapSound
<1> SUFFICES ASSUME HeapInit PROVE HeapSound
  OBVIOUS
<1> DEFINE none == [mem |-> [w \in Words |-> Data], free |-> <<>>]
           g == [mem |-> [w \in Words |-> Data], brk |-> brk, regions |-> regions,
                 free |-> << >>, inuse |-> 0]
           k == PutFree(g, Base, Slab - 2)
           r == [base |-> Base, limit |-> brk]
<1>1. /\ Base \in Nat /\ Slab \in Nat /\ Slab > 2 /\ Base % 2 = 0 /\ Slab % 2 = 0
      /\ MaxWords \in Nat /\ Base + Slab <= MaxWords
  BY HeapConstants DEF Overhead
<1>2. /\ build \in {"threads", "single"} /\ brk = Base + Slab /\ regions = <<r>>
      /\ inuse = 0 /\ asked = << >>
      /\ mem = PutFree(none, Base, Slab - 2).mem /\ free = PutFree(none, Base, Slab - 2).free
  BY DEF HeapInit, Overhead
<1>3. r \in Region /\ r.base = Base /\ r.limit = Base + Slab
  BY <1>1, <1>2 DEF Region
<1> HIDE DEF r
<1>4. regions \in Seq(Region) /\ ToSet(regions) = {r} /\ Len(regions) = 1 /\ regions[1] = r
  BY <1>2, <1>3 DEF ToSet
<1>5. [w \in Words |-> Data] \in [Words -> Tag]
  BY <1>1 DEF Tag, Data
<1>6. g \in Heaps /\ Lists(g, {})
  <2>1. brk \in 0 .. MaxWords
    BY <1>1, <1>2
  <2>2. << >> \in Seq(Words) /\ ToSet(<< >>) = {} /\ IsInjective(<< >>)
    BY DEF ToSet, IsInjective
  <2> QED
    BY <1>4, <1>5, <2>1, <2>2 DEF Heaps, Lists
<1>7. PutFree(none, Base, Slab - 2).mem = k.mem /\ PutFree(none, Base, Slab - 2).free = k.free
  BY DEF PutFree, ChunkSet
<1> HIDE DEF none
<1>8. Marked(g, k, Base, Slab - 2, FALSE) /\ Lists(k, {Base})
  <2>1. Base \in Words /\ Slab - 2 \in Nat /\ Base + 2 + (Slab - 2) <= MaxWords
    BY <1>1 DEF Words
  <2>2. Marked(g, k, Base, Slab - 2, FALSE) /\ Lists(k, {} \cup {Base})
    <3> HIDE DEF g
    <3> QED
      BY <1>6, <2>1, PutFreeParts
  <2> QED
    BY <2>2
<1>9. g.brk = brk /\ g.regions = regions /\ g.inuse = 0
  OBVIOUS
<1> HIDE DEF k, g
<1>10. /\ k \in Heaps /\ k.brk = brk /\ k.regions = regions /\ k.inuse = 0
       /\ k.mem[Base] = [size |-> Slab - 2, inuse |-> FALSE]
       /\ k.mem[Base + 1 + (Slab - 2)] = [size |-> Slab - 2, inuse |-> FALSE]
  BY <1>8, <1>9 DEF Marked
<1>11. State = k
  BY <1>2, <1>7, <1>10 DEF State, Heaps
<1>12. Regions(k) = {r}
  BY <1>4, <1>10 DEF Regions
<1>13. RegionsApart(k)
  <2>1. (Base + Slab) % 2 = 0
    BY <1>1
  <2> QED
    BY <1>1, <1>2, <1>3, <1>10, <1>12, <2>1 DEF RegionsApart
<1>14. Size(k, Base) = Slab - 2 /\ After(k, Base) = Base + Slab
  <2>1. Size(k, Base) = Slab - 2
    BY <1>10 DEF Size
  <2> QED
    BY <1>1, <2>1 DEF After, Overhead
<1>15. Tiles(k, {Base})
  <2>1. ChunkOk(k, Base)
    <3>1. Base \in Words /\ (Slab - 2) % 2 = 0 /\ Slab - 2 >= 2 /\ Base + 1 + (Slab - 2) = Base + Slab - 1
      BY <1>1 DEF Words
    <3>2. k.mem[After(k, Base) - 1] = k.mem[Base]
      <4>1. After(k, Base) - 1 = Base + 1 + (Slab - 2)
        BY <1>1, <1>14
      <4> QED
        BY <1>10, <4>1
    <3>3. r.base <= Base /\ After(k, Base) <= r.limit
      BY <1>1, <1>3, <1>14
    <3> QED
      BY <1>12, <1>14, <3>1, <3>2, <3>3 DEF ChunkOk
  <2>2. \A w \in Words : InRegion(r, w) => InChunk(k, Base, w)
    BY <1>3, <1>14 DEF InRegion, InChunk
  <2> QED
    BY <1>12, <2>1, <2>2 DEF Tiles
<1>16. FreeOf(k, {Base}) = {Base} /\ UsedOf(k, {Base}) = {}
  <2>1. FreeOf(k, {Base}) = {Base}
    BY <1>10 DEF FreeOf
  <2> QED
    BY <2>1 DEF UsedOf
<1>17. Apart(k, {Base})
  BY <1>1, <1>14 DEF Apart, Follows
<1>18. Exact(k, {Base})
  BY <1>8, <1>10, <1>13, <1>15, <1>16, <1>17 DEF Exact
<1>19. Ended(k)
  <2>1. (Base + Slab) % 2 = 0
    BY <1>1
  <2> QED
    BY <1>2, <1>3, <1>4, <1>10, <2>1 DEF Ended
<1>20. Filled(k, {}) = {} /\ Cardinality({}) = 0
  BY FS_EmptySet DEF Filled
<1>21. DOMAIN asked = {} /\ asked = [p \in DOMAIN asked |-> asked[p]]
  BY <1>2
<1>22. Sound(k, asked, {Base})
  BY <1>10, <1>16, <1>18, <1>19, <1>20, <1>21 DEF Sound
<1> QED
  BY <1>11, <1>22 DEF HeapSound

\* A call of malloc for n words, rounded up to need.
LEMMA MallocSound ==
    ASSUME NEW C, Sound(State, asked, C), NEW n \in 1 .. Wrap, NEW need \in Nat,
           need % 2 = 0, 2 <= need, n <= need, NEW m \in Mallocs(State, need)
    PROVE  \E N, c : /\ Allocates(State, C, m.heap, N, c, need) /\ m.at = Payload(c)
                     /\ Sound(m.heap, With(asked, m.at, n), N) /\ m.heap \in Heaps
                     /\ m.at \notin Live
<1>1. Exact(State, C) /\ Ended(State) /\ DOMAIN asked = {Payload(d) : d \in UsedOf(State, C)}
  BY DEF Sound
<1>2. PICK N, c : Allocates(State, C, m.heap, N, c, need) /\ m.at = Payload(c)
  BY <1>1, MallocsAllocates
<1>3. Sound(m.heap, With(asked, m.at, n), N)
  BY <1>2, SoundAllocates
<1>4. Exact(m.heap, N) /\ UsedOf(m.heap, N) = UsedOf(State, C) \cup {c} /\ c \notin UsedOf(State, C)
  BY <1>2 DEF Allocates
<1>5. m.at \notin Live
  <2>1. \A d \in UsedOf(State, C) \cup {c} : d \in Nat
    BY <1>4, UsedParts
  <2>2. \A d \in UsedOf(State, C) : Payload(d) # Payload(c)
    BY <1>4, <2>1, PayloadsApart
  <2> QED
    BY <1>1, <1>2, <2>2 DEF Live
<1> QED
  BY <1>2, <1>3, <1>4, <1>5 DEF Exact

\* A call of free.
LEMMA FreeSound ==
    ASSUME NEW h, NEW a, NEW C, Sound(h, a, C), NEW p \in DOMAIN a
    PROVE  \E N : \E c \in UsedOf(h, C) :
               /\ Frees(h, C, Freed(h, p), N, c) /\ p = Payload(c)
               /\ Sound(Freed(h, p), Restrict(a, DOMAIN a \ {p}), N) /\ Freed(h, p) \in Heaps
<1>1. Exact(h, C) /\ Ended(h) /\ DOMAIN a = {Payload(d) : d \in UsedOf(h, C)}
  BY DEF Sound
<1>2. PICK c \in UsedOf(h, C) : p = Payload(c)
  BY <1>1
<1>3. PICK N : Frees(h, C, Freed(h, Payload(c)), N, c)
  BY <1>1, FreedFrees
<1>4. Sound(Freed(h, Payload(c)), Restrict(a, DOMAIN a \ {Payload(c)}), N)
  BY <1>3, SoundFrees
<1>5. Freed(h, Payload(c)) \in Heaps
  BY <1>3 DEF Frees, Exact
<1> QED
  BY <1>2, <1>3, <1>4, <1>5

\* malloc keeps the heap sound and allots a block.
LEMMA MallocKeeps ==
    ASSUME HeapSound, NEW n \in Sizes, Malloc(n)
    PROVE  HeapSound' /\ Allots
<1>1. PICK C : Sound(State, asked, C)
  BY DEF HeapSound
<1>2. n \in Nat /\ n >= 1 /\ n \in 1 .. Wrap /\ Wrap \in Nat
  BY HeapConstants
<1>3. Align(n) \in Nat /\ Align(n) % 2 = 0 /\ 2 <= Align(n) /\ n <= Align(n)
  BY <1>2, AlignParts
<1>4. PICK m \in Mallocs(State, Align(n)) :
          /\ Becomes(m.heap)
          /\ asked' = [q \in Live \cup {m.at} |-> IF q = m.at THEN n ELSE asked[q]]
  BY DEF Malloc
<1>5. asked' = With(asked, m.at, n)
  BY <1>4 DEF With, Live
<1>6. PICK N, c : /\ Allocates(State, C, m.heap, N, c, Align(n)) /\ m.at = Payload(c)
                  /\ Sound(m.heap, With(asked, m.at, n), N) /\ m.heap \in Heaps
  BY <1>1, <1>2, <1>3, MallocSound
<1>7. State' = m.heap
  BY <1>4, <1>6, BecomesParts
<1>8. UNCHANGED build
  BY DEF Malloc
<1>9. Sound(State', asked', N)
  BY <1>5, <1>6, <1>7
<1>10. Allots
  BY <1>1, <1>5, <1>6, <1>7, <1>9 DEF Allots
<1> QED
  BY <1>8, <1>9, <1>10, SoundNext

\* calloc keeps the heap sound and allots a block, of the whole product.
LEMMA CallocKeeps ==
    ASSUME HeapSound, NEW arr \in Arrays, Calloc(arr[1], arr[2])
    PROVE  HeapSound' /\ Allots
<1> DEFINE n == arr[1] * arr[2]
           need == Align(CallocTotal(arr[1], arr[2]))
<1>1. PICK C : Sound(State, asked, C)
  BY DEF HeapSound
<1>2. n = CallocTotal(arr[1], arr[2]) /\ n \in 1 .. Wrap - 1
  BY CallocParts DEF Calloc
<1>3. PICK m \in Mallocs(State, need) :
          /\ Becomes(m.heap)
          /\ asked' = [q \in Live \cup {m.at} |-> IF q = m.at THEN n ELSE asked[q]]
  BY DEF Calloc
<1>4. need = Align(n)
  BY <1>2
<1> HIDE DEF n, need
<1>5. n \in Nat /\ n >= 1 /\ n \in 1 .. Wrap /\ Wrap \in Nat
  BY <1>2, HeapConstants
<1>6. need \in Nat /\ need % 2 = 0 /\ 2 <= need /\ n <= need
  BY <1>4, <1>5, AlignParts
<1>7. asked' = With(asked, m.at, n)
  BY <1>3 DEF With, Live
<1>8. PICK N, c : /\ Allocates(State, C, m.heap, N, c, need) /\ m.at = Payload(c)
                  /\ Sound(m.heap, With(asked, m.at, n), N) /\ m.heap \in Heaps
  BY <1>1, <1>5, <1>6, MallocSound
<1>9. State' = m.heap
  BY <1>3, <1>8, BecomesParts
<1>10. UNCHANGED build
  BY DEF Calloc
<1>11. Sound(State', asked', N)
  BY <1>7, <1>8, <1>9
<1>12. Allots
  BY <1>1, <1>7, <1>8, <1>9, <1>11 DEF Allots
<1> QED
  BY <1>10, <1>11, <1>12, SoundNext

\* free keeps the heap sound and releases the block.
LEMMA HeapFreeKeeps ==
    ASSUME HeapSound, NEW p \in Live, Free(p)
    PROVE  HeapSound' /\ Releases
<1>1. PICK C : Sound(State, asked, C)
  BY DEF HeapSound
<1>2. PICK N, c : /\ c \in UsedOf(State, C) /\ p = Payload(c)
                  /\ Frees(State, C, Freed(State, p), N, c)
                  /\ Sound(Freed(State, p), Restrict(asked, DOMAIN asked \ {p}), N)
                  /\ Freed(State, p) \in Heaps
  BY <1>1, FreeSound DEF Live
<1>3. UNCHANGED build /\ Becomes(Freed(State, p)) /\ asked' = Restrict(asked, DOMAIN asked \ {p})
  BY DEF Free, Live
<1>4. State' = Freed(State, p)
  BY <1>2, <1>3, BecomesParts
<1>5. Sound(State', asked', N)
  BY <1>2, <1>3, <1>4
<1>6. Releases
  BY <1>1, <1>2, <1>3, <1>4, <1>5 DEF Releases
<1> QED
  BY <1>3, <1>5, <1>6, SoundNext

\* realloc that moves keeps the heap sound: a block allotted, another released.
LEMMA ReallocMovesKeeps ==
    ASSUME HeapSound, NEW p \in Live, NEW n \in Sizes, ReallocMoves(p, n)
    PROVE  HeapSound' /\ Moves
<1>1. PICK C : Sound(State, asked, C)
  BY DEF HeapSound
<1>2. n \in Nat /\ n >= 1 /\ n \in 1 .. Wrap /\ Wrap \in Nat
  BY HeapConstants
<1>3. Align(n) \in Nat /\ Align(n) % 2 = 0 /\ 2 <= Align(n) /\ n <= Align(n)
  BY <1>2, AlignParts
<1>4. PICK m \in Mallocs(State, Align(n)) :
          /\ Becomes(Freed(m.heap, p))
          /\ asked' = [q \in (Live \ {p}) \cup {m.at} |-> IF q = m.at THEN n ELSE asked[q]]
  BY DEF ReallocMoves
<1> DEFINE b == With(asked, m.at, n)
<1>5. PICK M, d : /\ Allocates(State, C, m.heap, M, d, Align(n)) /\ m.at = Payload(d)
                  /\ Sound(m.heap, b, M) /\ m.at \notin Live
  BY <1>1, <1>2, <1>3, MallocSound
<1>6. DOMAIN b = Live \cup {m.at} /\ p \in DOMAIN b /\ p # m.at
  BY <1>5 DEF With, Live
<1>7. asked' = Restrict(b, DOMAIN b \ {p})
  <2>1. DOMAIN b \ {p} = (Live \ {p}) \cup {m.at}
    BY <1>5, <1>6
  <2>2. \A q \in DOMAIN b : b[q] = IF q = m.at THEN n ELSE asked[q]
    BY DEF With
  <2> HIDE DEF b
  <2> QED
    BY <1>4, <1>6, <2>1, <2>2 DEF Restrict
<1> HIDE DEF b
<1>8. PICK N, c : /\ c \in UsedOf(m.heap, M) /\ p = Payload(c)
                  /\ Frees(m.heap, M, Freed(m.heap, p), N, c)
                  /\ Sound(Freed(m.heap, p), Restrict(b, DOMAIN b \ {p}), N)
                  /\ Freed(m.heap, p) \in Heaps
  BY <1>5, <1>6, FreeSound
<1>9. State' = Freed(m.heap, p)
  BY <1>4, <1>8, BecomesParts
<1>10. Sound(State', asked', N)
  BY <1>7, <1>8, <1>9
<1>11. UNCHANGED build /\ Align(n) > Size(State, Chunk(p))
  BY DEF ReallocMoves
<1>12. c \in UsedOf(State, C)
  BY <1>5, <1>6, <1>8 DEF Allocates
<1>13. Size(State, c) <= Align(n)
  <2>1. c \in Nat /\ Size(State, c) \in Nat
    BY <1>1, <1>12, UsedParts DEF Sound
  <2>2. Chunk(p) = c
    BY <1>8, <2>1 DEF Chunk, Payload
  <2> QED
    BY <1>3, <1>11, <2>1, <2>2
<1>14. Moves
  <2>1. asked' = Restrict(b, DOMAIN b \ {Payload(c)})
    BY <1>7, <1>8
  <2>2. Frees(m.heap, M, State', N, c)
    BY <1>8, <1>9
  <2>3. b = With(asked, Payload(d), n)
    BY <1>5 DEF b
  <2> QED
    BY <1>1, <1>3, <1>5, <1>10, <1>12, <1>13, <2>1, <2>2, <2>3 DEF Moves
<1> QED
  BY <1>10, <1>11, <1>14, SoundNext

\* realloc that stays keeps the heap sound and resizes the block where it is.
LEMMA ReallocStaysKeeps ==
    ASSUME HeapSound, NEW p \in Live, NEW n \in Sizes, ReallocStays(p, n)
    PROVE  HeapSound' /\ Resizes
<1>1. PICK C : Sound(State, asked, C)
  BY DEF HeapSound
<1>2. n \in Nat /\ n >= 1 /\ n \in 1 .. Wrap /\ Wrap \in Nat
  BY HeapConstants
<1>3. Align(n) \in Nat /\ Align(n) % 2 = 0 /\ 2 <= Align(n) /\ n <= Align(n)
  BY <1>2, AlignParts
<1>4. /\ Exact(State, C) /\ DOMAIN asked = {Payload(d) : d \in UsedOf(State, C)} /\ Ended(State)
      /\ \A d \in UsedOf(State, C) : asked[Payload(d)] \in 1 .. Wrap /\ asked[Payload(d)] <= Size(State, d)
      /\ State.inuse = Cardinality(Filled(State, UsedOf(State, C)))
  BY <1>1 DEF Sound
<1>5. PICK c \in UsedOf(State, C) : p = Payload(c)
  BY <1>4 DEF Live
<1>6. c \in C /\ c \in Nat /\ Size(State, c) \in Nat
  BY <1>4, UsedParts
<1>7. Chunk(p) = c
  BY <1>5, <1>6 DEF Chunk, Payload
<1>8. asked' = [asked EXCEPT ![Payload(c)] = n] /\ UNCHANGED build
  BY <1>5 DEF ReallocStays
<1>9. CASE Align(n) <= Size(State, c)
  <2>1. State' = State
    BY <1>7, <1>9 DEF ReallocStays, State
  <2> DEFINE b == [asked EXCEPT ![Payload(c)] = n]
             U == UsedOf(State, C)
  <2>2. DOMAIN b = {Payload(d) : d \in U} /\ b = [q \in DOMAIN b |-> b[q]]
    BY <1>4
  <2>3. ASSUME NEW d \in U PROVE b[Payload(d)] \in 1 .. Wrap /\ b[Payload(d)] <= Size(State, d)
    <3>1. d \in Nat /\ Payload(d) \in DOMAIN asked
      BY <1>4, UsedParts
    <3>2. CASE d = c
      BY <1>2, <1>3, <1>6, <1>9, <3>1, <3>2
    <3>3. CASE d # c
      <4>1. Payload(d) # Payload(c)
        BY <1>6, <3>1, <3>3, PayloadsApart
      <4> QED
        BY <1>4, <3>1, <4>1
    <3> QED
      BY <3>2, <3>3
  <2>4. Sound(State, b, C)
    <3> HIDE DEF b
    <3> QED
      BY <1>4, <2>2, <2>3 DEF Sound
  <2>5. Sound(State', asked', C)
    BY <1>8, <2>1, <2>4
  <2>6. regions' = regions
    BY <2>1 DEF State
  <2>7. Kept(State, State', U \ {c}) /\ UsedOf(State', C) = U /\ Size(State, c) <= Size(State', c)
    BY <1>6, <2>1 DEF Kept
  <2>8. Resizes
    BY <1>1, <1>8, <2>5, <2>6, <2>7 DEF Resizes
  <2> QED
    BY <1>8, <2>5, <2>8, SoundNext
<1>10. CASE ~(Align(n) <= Size(State, c))
  <2>1. PICK e \in Neighbour(State, c, Align(n)) : Becomes(Grown(State, c, e, Align(n)))
    BY <1>7, <1>10 DEF ReallocStays
  <2>2. /\ e \in FreeIn(State, NextPhys(State, c))
        /\ Size(State, c) + 2 + Size(State, e) >= Align(n)
    BY <2>1 DEF Neighbour, Overhead
  <2>3. e \in FreeOf(State, C) /\ Follows(State, c, e)
    <3>1. NextPhys(State, c) = {d \in C : Follows(State, c, d)}
      BY <1>4, <1>6, NextIsChunk DEF Exact
    <3> QED
      BY <2>2, <3>1 DEF FreeIn, FreeOf
  <2>4. Size(State, e) \in Nat
    BY <1>4, <2>3, ChunkParts DEF Exact, FreeOf
  <2>5. Align(n) <= Size(State, c) + 2 + Size(State, e)
    BY <1>3, <1>6, <2>2, <2>4
  <2> DEFINE k == Grown(State, c, e, Align(n))
  <2>6. PICK N : Serves(State, C, k, N, {c, e}, c, Align(n), Size(State, c))
    BY <1>3, <1>4, <2>3, <2>5, GrownServes
  <2> HIDE DEF k
  <2>7. k \in Heaps
    BY <2>6 DEF Serves, Hands, Exact
  <2>8. Sound(k, [asked EXCEPT ![Payload(c)] = n], N)
    BY <1>1, <1>2, <1>3, <2>3, <2>6, SoundGrown
  <2>9. State' = k
    BY <2>1, <2>7, BecomesParts DEF k
  <2>10. Sound(State', asked', N)
    BY <1>8, <2>8, <2>9
  <2>11. /\ Exact(k, N) /\ k.regions = State.regions
         /\ UsedOf(k, N) = (UsedOf(State, C) \ {c, e}) \cup {c}
         /\ \A u \in UsedOf(State, C) \ {c, e} : k.mem[u] = State.mem[u]
         /\ Align(n) <= Size(k, c)
    BY <2>6 DEF Serves, Hands
  <2>12. e \notin UsedOf(State, C)
    BY <2>3 DEF UsedOf
  <2>13. regions' = regions
    BY <2>9, <2>11 DEF State
  <2>14. UsedOf(State', N) = UsedOf(State, C) /\ Kept(State, State', UsedOf(State, C) \ {c})
    BY <2>9, <2>11, <2>12 DEF Kept
  <2>15. Size(State, c) <= Size(State', c)
    <3>1. Size(k, c) \in Nat
      BY <2>9, <2>11, <2>14, UsedParts
    <3> QED
      BY <1>3, <1>6, <1>10, <2>9, <2>11, <3>1
  <2>16. Resizes
    BY <1>1, <1>8, <2>10, <2>13, <2>14, <2>15 DEF Resizes
  <2> QED
    BY <1>8, <2>10, <2>16, SoundNext
<1> QED
  BY <1>9, <1>10

\* Another thread that grows the memory leaves this heap sound.
LEMMA OthersGrowKeeps ==
    ASSUME HeapSound, OthersGrow
    PROVE  HeapSound'
<1>1. PICK C : Sound(State, asked, C)
  BY DEF HeapSound
<1> DEFINE h == State
           k == [h EXCEPT !.brk = h.brk + PageWords]
<1>2. /\ Exact(h, C) /\ Ended(h) /\ h \in Heaps /\ RegionsApart(h)
  BY <1>1 DEF Sound, Exact
<1>3. /\ build = "threads" /\ h.brk + PageWords <= MaxWords /\ Becomes(k) /\ UNCHANGED <<build, asked>>
  BY DEF OthersGrow, Becomes, State
<1>4. h.brk \in 0 .. MaxWords /\ PageWords \in Nat /\ PageWords % 2 = 0 /\ MaxWords \in Nat
  BY <1>2, HeapConstants DEF Heaps
<1> HIDE DEF h
<1>5. h.brk + PageWords \in 0 .. MaxWords
  BY <1>3, <1>4
<1>6. /\ k \in Heaps /\ k.brk = h.brk + PageWords /\ k.mem = h.mem /\ k.regions = h.regions
      /\ k.free = h.free /\ k.inuse = h.inuse
  BY <1>2, <1>5 DEF Heaps
<1> HIDE DEF k
<1>7. Regions(k) = Regions(h)
  BY <1>6 DEF Regions
<1>8. RegionsApart(k)
  <2>1. \A r \in Regions(h) : r.limit \in Nat /\ r.limit <= h.brk
    BY <1>2, RegionParts
  <2>2. \A r \in Regions(h) : r.limit <= k.brk
    BY <1>4, <1>6, <2>1
  <2> QED
    BY <1>2, <1>7, <2>2 DEF RegionsApart
<1>9. FreeOf(k, C) = FreeOf(h, C) /\ \A c : Size(k, c) = Size(h, c) /\ After(k, c) = After(h, c)
  BY <1>6 DEF FreeOf, Size, After
<1>10. Tiles(k, C)
  <2>1. \A c : ChunkOk(k, c) <=> ChunkOk(h, c)
    BY <1>6, <1>7, <1>9 DEF ChunkOk
  <2> QED
    BY <1>2, <1>7, <1>9, <2>1 DEF Exact, Tiles, InChunk
<1>11. Apart(k, FreeOf(k, C)) /\ Lists(k, FreeOf(k, C))
  BY <1>2, <1>6, <1>7, <1>9 DEF Exact, Apart, Follows, Lists
<1>12. Exact(k, C) /\ UsedOf(k, C) = UsedOf(h, C)
  BY <1>6, <1>8, <1>9, <1>10, <1>11 DEF Exact, UsedOf
<1>13. Ended(k)
  <2>1. h.brk % 2 = 0
    BY <1>2 DEF Ended
  <2>2. k.brk % 2 = 0
    BY <1>4, <1>6, <2>1
  <2> QED
    BY <1>3, <2>2 DEF Ended
<1>14. \A U : Filled(k, U) = Filled(h, U)
  BY <1>9 DEF Filled
<1>15. Sound(k, asked, C)
  BY <1>1, <1>6, <1>9, <1>12, <1>13, <1>14 DEF Sound, h
<1> QED
  BY <1>3, <1>6, <1>15, BecomesParts, SoundNext

\* The heap is sound, whatever is asked of it: the chunks tile the regions, the
\* free ones are listed once and have no free neighbour, the used ones are the
\* caller's blocks, and counted (heap.c).
THEOREM HeapSoundAlways == HeapSpec => []HeapSound
<1>1. HeapInit => HeapSound
  BY InitSound
<1>2. HeapSound /\ [HeapNext]_heapVars => HeapSound'
  <2> SUFFICES ASSUME HeapSound, [HeapNext]_heapVars PROVE HeapSound'
    OBVIOUS
  <2>1. CASE \E n \in Sizes : Malloc(n)
    BY <2>1, MallocKeeps
  <2>2. CASE \E arr \in Arrays : Calloc(arr[1], arr[2])
    BY <2>2, CallocKeeps
  <2>3. CASE \E p \in Live : Free(p)
    BY <2>3, HeapFreeKeeps
  <2>4. CASE \E p \in Live, n \in Sizes : ReallocStays(p, n)
    BY <2>4, ReallocStaysKeeps
  <2>5. CASE \E p \in Live, n \in Sizes : ReallocMoves(p, n)
    BY <2>5, ReallocMovesKeeps
  <2>6. CASE OthersGrow
    BY <2>6, OthersGrowKeeps
  <2>7. CASE UNCHANGED heapVars
    <3>1. State' = State /\ asked' = asked /\ build' = build
      BY <2>7 DEF heapVars, State
    <3>2. PICK C : Sound(State, asked, C)
      BY DEF HeapSound
    <3>3. Sound(State, asked, C)'
      BY <3>1, <3>2 DEF Sound, Ended
    <3> QED
      BY <3>3 DEF HeapSound
  <2> QED
    BY <2>1, <2>2, <2>3, <2>4, <2>5, <2>6, <2>7 DEF HeapNext
<1> QED
  BY <1>1, <1>2, PTL DEF HeapSpec

-----------------------------------------------------------------------------
(* Walking the chunks finds them all.                                      *)

\* A set of natural numbers that is not empty has a least one.
LEMMA LeastElement ==
    ASSUME NEW S \in SUBSET Nat, S # {}
    PROVE  \E m \in S : \A n \in S : m <= n
<1> DEFINE T == {0 .. n : n \in S}
<1>1. T \subseteq FiniteSubsetsOf(Nat) /\ T # {}
  <2>1. ASSUME NEW n \in S PROVE 0 .. n \in SUBSET Nat /\ IsFiniteSet(0 .. n)
    BY FS_Interval
  <2> QED BY <2>1 DEF FiniteSubsetsOf
<1>2. PICK x \in T : \A y \in T : ~ (<<y, x>> \in StrictSubsetOrdering(Nat))
  <2>1. IsWellFoundedOn(StrictSubsetOrdering(Nat), FiniteSubsetsOf(Nat))
    BY FS_StrictSubsetOrderingWellFounded
  <2> HIDE DEF T
  <2> QED BY <1>1, <2>1, WFMin
<1>3. PICK m \in S : x = 0 .. m
  OBVIOUS
<1>4. ASSUME NEW n \in S, n < m PROVE FALSE
  <2>1. 0 .. n \in T  OBVIOUS
  <2>2. 0 .. n \subseteq 0 .. m /\ m \in 0 .. m /\ m \notin 0 .. n
    BY <1>4
  <2>3. 0 .. n \in SUBSET Nat /\ 0 .. m \in SUBSET Nat
    OBVIOUS
  <2>4. <<0 .. n, 0 .. m>> \in StrictSubsetOrdering(Nat)
    BY <2>2, <2>3 DEF StrictSubsetOrdering
  <2> QED BY <2>1, <2>4, <1>2, <1>3
<1> QED BY <1>4


\* The walk from w to the end of a region, by way of next.
Walks(f, next, limit) ==
    f = [w \in Nat |-> IF w >= limit THEN {} ELSE {w} \cup f[next[w]]]

\* It exists: what every closed set with w holds is a walk from w.
LEMMA WalkExists ==
    ASSUME NEW limit \in Nat, NEW next, \A w \in Nat : w < limit => next[w] \in Nat
    PROVE  \E f : Walks(f, next, limit)
<1> DEFINE Closed(S) == \A v \in S : next[v] < limit => next[v] \in S
           From(w, S) == w < limit => w \in S
           f == [w \in Nat |-> {x \in Nat : \A S \in SUBSET Nat :
                    Closed(S) /\ From(w, S) => x \in S}]
<1>1. ASSUME NEW w \in Nat, w >= limit PROVE f[w] = {}
  <2>1. {} \in SUBSET Nat /\ Closed({}) /\ From(w, {})
    BY <1>1
  <2> QED
    BY <2>1
<1>2. ASSUME NEW w \in Nat, w < limit PROVE f[w] = {w} \cup f[next[w]]
  <2> DEFINE n == next[w]
  <2>1. n \in Nat
    BY <1>2
  <2>2. \A v \in Nat : f[v] = {x \in Nat : \A S \in SUBSET Nat : Closed(S) /\ From(v, S) => x \in S}
    OBVIOUS
  <2> HIDE DEF n, f
  <2>3. w \in f[w]
    BY <1>2, <2>2
  <2>4. f[n] \subseteq f[w]
    <3> SUFFICES ASSUME NEW x \in f[n], NEW S \in SUBSET Nat, Closed(S), From(w, S) PROVE x \in S
      BY <2>1, <2>2
    <3>1. From(n, S)
      BY <1>2 DEF n
    <3> QED
      BY <2>1, <2>2, <3>1
  <2>5. f[w] \subseteq {w} \cup f[n]
    <3> DEFINE T == {w} \cup f[n]
    <3>1. T \in SUBSET Nat
      BY <2>1, <2>2
    <3>2. n < limit => n \in f[n]
      BY <2>1, <2>2
    <3>3. ASSUME NEW v \in f[n], next[v] < limit PROVE next[v] \in f[n]
      <4>1. v \in Nat
        BY <2>1, <2>2
      <4>2. next[v] \in Nat
        <5>1. CASE v < limit
          BY <4>1, <5>1
        <5>2. CASE ~(v < limit)
          <6> DEFINE Below == {u \in Nat : u < limit}
          <6>1. Below \in SUBSET Nat /\ Closed(Below) /\ From(n, Below)
            BY <2>1
          <6>2. v \in Below
            BY <2>1, <2>2, <6>1
          <6> QED
            BY <5>2, <6>2
        <5> QED
          BY <5>1, <5>2
      <4> QED
        BY <2>1, <2>2, <3>3, <4>2
    <3>4. Closed(T) /\ From(w, T)
      BY <3>2, <3>3 DEF n
    <3> HIDE DEF Closed, From, T
    <3>5. \A x \in f[w] : x \in T
      BY <2>2, <3>1, <3>4
    <3> QED
      BY <3>5 DEF T
  <2> QED
    BY <2>3, <2>4, <2>5 DEF n
<1>3. f = [w \in Nat |-> f[w]]
  OBVIOUS
<1>4. Walks(f, next, limit)
  <2> HIDE DEF f
  <2> QED
    BY <1>1, <1>2, <1>3 DEF Walks
<1> QED
  BY <1>4

\* Whatever it is, it visits the chunks of the region from c on.
LEMMA WalkVisits ==
    ASSUME NEW h, NEW C, Exact(h, C), NEW r \in Regions(h), NEW f, NEW next,
           Walks(f, next, r.limit), \A w \in Nat : next[w] = After(h, w),
           NEW c \in C, InRegion(r, c)
    PROVE  f[c] = {d \in C : InRegion(r, d) /\ c <= d}
<1> DEFINE V(e) == {d \in C : InRegion(r, d) /\ e <= d}
           Wrong == {e \in C : InRegion(r, e) /\ f[e] # V(e)}
           S == {r.limit - e : e \in Wrong}
<1>1. h \in Heaps /\ RegionsApart(h) /\ Tiles(h, C) /\ r.limit \in Nat /\ r.base \in Nat
  BY RegionParts DEF Exact
<1>2. \A e \in C : e \in Nat /\ After(h, e) \in Nat /\ e < After(h, e)
  <2> SUFFICES ASSUME NEW e \in C PROVE e \in Nat /\ After(h, e) \in Nat /\ e < After(h, e)
    OBVIOUS
  <2>1. e \in Nat /\ After(h, e) = e + 2 + Size(h, e) /\ Size(h, e) \in Nat /\ After(h, e) \in Nat
    BY <1>1, ChunkParts
  <2> QED
    BY <2>1
<1>3. \A w \in Nat : f[w] = IF w >= r.limit THEN {} ELSE {w} \cup f[After(h, w)]
  BY DEF Walks
<1>4. Wrong = {}
  <2> SUFFICES ASSUME Wrong # {} PROVE FALSE
    OBVIOUS
  <2>1. S \in SUBSET Nat /\ S # {}
    BY <1>1, <1>2 DEF InRegion
  <2>2. PICK m \in S : \A n \in S : m <= n
    <3> HIDE DEF S
    <3> QED
      BY <2>1, LeastElement
  <2>3. PICK e \in Wrong : m = r.limit - e
    OBVIOUS
  <2>4. \A d \in Wrong : d <= e
    <3> SUFFICES ASSUME NEW d \in Wrong PROVE d <= e
      OBVIOUS
    <3>1. r.limit - e <= r.limit - d
      BY <2>2, <2>3
    <3>2. d \in Nat /\ e \in Nat
      BY <1>2
    <3> QED
      BY <1>1, <3>1, <3>2
  <2>5. e \in C /\ e \in Nat /\ InRegion(r, e) /\ f[e] # V(e)
    BY <1>2
  <2> HIDE DEF Wrong, S
  <2> DEFINE n == After(h, e)
  <2>6. n \in Nat /\ e < n
    BY <1>2, <2>5
  <2>7. f[e] = {e} \cup f[n]
    <3>1. ~(e >= r.limit)
      BY <1>1, <2>5 DEF InRegion
    <3> HIDE DEF V
    <3> QED
      BY <1>3, <2>5, <3>1
  <2>8. n <= r.limit
    <3>1. PICK s \in Regions(h) : s.base <= e /\ n <= s.limit
      BY <1>1, <2>5, ChunkParts
    <3>2. InRegion(s, e)
      BY <1>1, <2>5, <2>6, <3>1, RegionParts DEF InRegion
    <3>3. s = r
      BY <1>1, <2>5, <3>2, OneRegion
    <3> QED
      BY <3>1, <3>3
  <2>9. V(e) = {e} \cup {d \in C : InRegion(r, d) /\ n <= d}
    <3>1. ASSUME NEW d \in C, e <= d, d # e PROVE n <= d
      <4>1. After(h, e) <= d \/ After(h, d) <= e
        BY <1>1, <2>5, <3>1 DEF Tiles
      <4> QED
        BY <1>2, <2>5, <3>1, <4>1
    <3>2. ASSUME NEW d \in C, n <= d PROVE e <= d
      BY <1>2, <2>5, <2>6, <3>2
    <3>3. e <= e
      BY <2>5
    <3>4. \A d \in C : e <= d <=> d = e \/ n <= d
      BY <3>1, <3>2, <3>3
    <3> HIDE DEF n
    <3> QED
      BY <2>5, <3>4
  <2> HIDE DEF n
  <2>10. CASE n = r.limit
    <3>1. f[n] = {}
      <4>1. n >= r.limit
        BY <1>1, <2>10
      <4> QED
        BY <1>3, <2>6, <4>1
    <3>2. {d \in C : InRegion(r, d) /\ n <= d} = {}
      BY <1>1, <1>2, <2>10 DEF InRegion
    <3> QED
      BY <2>5, <2>7, <2>9, <3>1, <3>2
  <2>11. CASE n < r.limit
    <3>1. InRegion(r, n)
      BY <1>1, <2>5, <2>6, <2>11 DEF InRegion
    <3>2. NextPhys(h, e) = {n}
      <4>1. r \in RegionOf(h, e)
        BY <1>1, <2>5, InRegionOf
      <4> QED
        BY <2>11, <4>1 DEF NextPhys, n
    <3>3. n \in C
      BY <1>1, <2>5, <3>2, NextIsChunk
    <3>4. n \notin Wrong
      BY <2>4, <2>5, <2>6
    <3>5. f[n] = V(n)
      BY <3>1, <3>3, <3>4 DEF Wrong
    <3> QED
      BY <2>5, <2>7, <2>9, <3>5
  <2> QED
    BY <1>1, <2>6, <2>8, <2>10, <2>11
<1> QED
  BY <1>4

\* The chunks of a region.
LEMMA ChunksOfParts ==
    ASSUME NEW C, Exact(State, C), NEW r \in Regions(State)
    PROVE  ChunksOf(r) = {c \in C : InRegion(r, c)}
<1> DEFINE next == [w \in Nat |-> After(State, w)]
           from == CHOOSE f : f = [w \in Nat |->
                       IF w >= r.limit THEN {} ELSE {w} \cup f[After(State, w)]]
<1>1. /\ State \in Heaps /\ RegionsApart(State) /\ Tiles(State, C)
  BY DEF Exact
<1>2. /\ r.base \in Nat /\ r.limit \in Nat /\ r.base < r.limit /\ r.limit <= MaxWords
      /\ MaxWords \in Nat
  BY <1>1, RegionParts
<1>3. \A w \in Nat : w < r.limit => next[w] \in Nat
  <2> SUFFICES ASSUME NEW w \in Nat, w < r.limit PROVE next[w] \in Nat
    OBVIOUS
  <2>1. w \in Words
    BY <1>2 DEF Words
  <2> QED
    BY <1>1, <2>1, WordParts
<1>4. \A w \in Nat : next[w] = After(State, w)
  OBVIOUS
<1> HIDE DEF next
<1>5. \E f : Walks(f, next, r.limit)
  BY <1>2, <1>3, WalkExists
<1>6. \A f : Walks(f, next, r.limit) <=> f = [w \in Nat |->
          IF w >= r.limit THEN {} ELSE {w} \cup f[After(State, w)]]
  BY <1>4 DEF Walks
<1>7. Walks(from, next, r.limit)
  BY <1>5, <1>6
<1>8. ChunksOf(r) = from[r.base]
  BY DEF ChunksOf
<1> HIDE DEF from
<1>9. r.base \in C
  <2>1. r.base \in Words /\ InRegion(r, r.base)
    BY <1>2 DEF Words, InRegion
  <2>2. PICK c \in C : InChunk(State, c, r.base)
    BY <1>1, <2>1 DEF Tiles
  <2>3. c \in Nat /\ After(State, c) \in Nat
    BY <1>1, ChunkParts
  <2>4. PICK s \in Regions(State) : s.base <= c /\ After(State, c) <= s.limit
    BY <1>1, ChunkParts
  <2>5. s.base \in Nat /\ s.limit \in Nat
    BY <1>1, RegionParts
  <2>6. InRegion(s, r.base)
    BY <1>2, <2>2, <2>3, <2>4, <2>5 DEF InRegion, InChunk
  <2>7. s = r
    BY <1>1, <1>2, <2>1, <2>6, OneRegion
  <2>8. c = r.base
    BY <1>2, <2>2, <2>3, <2>4, <2>7 DEF InChunk
  <2> QED
    BY <2>8
<1>10. from[r.base] = {c \in C : InRegion(r, c) /\ r.base <= c}
  <2>1. InRegion(r, r.base)
    BY <1>2 DEF InRegion
  <2> QED
    BY <1>4, <1>7, <1>9, <2>1, WalkVisits
<1> QED
  BY <1>8, <1>10 DEF InRegion

\* Walking all regions finds all chunks.
LEMMA ChunksParts ==
    ASSUME NEW C, Exact(State, C)
    PROVE  Chunks = C /\ Used = UsedOf(State, C) /\ Chunks \ Used = FreeOf(State, C)
<1>1. State \in Heaps /\ RegionsApart(State) /\ Tiles(State, C) /\ Regions(State) = ToSet(regions)
  BY DEF Exact, Regions, State
<1>2. Chunks = UNION {{c \in C : InRegion(r, c)} : r \in Regions(State)}
  BY <1>1, ChunksOfParts DEF Chunks
<1>3. ASSUME NEW c \in C PROVE \E r \in Regions(State) : InRegion(r, c)
  <2>1. PICK r \in Regions(State) : r.base <= c /\ After(State, c) <= r.limit
    BY <1>1, ChunkParts
  <2>2. c \in Nat /\ After(State, c) = c + 2 + Size(State, c) /\ Size(State, c) \in Nat
    BY <1>1, ChunkParts
  <2>3. InRegion(r, c)
    BY <1>1, <2>1, <2>2, RegionParts DEF InRegion
  <2> QED
    BY <2>3
<1>4. Chunks = C
  BY <1>2, <1>3
<1>5. \A c \in C : c \in UsedOf(State, C) <=> mem[c].inuse = TRUE
  BY <1>1, FreeParts DEF State
<1>6. \A c \in C : mem[c].inuse \in BOOLEAN
  BY <1>1, FreeParts DEF State
<1>7. Used = UsedOf(State, C)
  BY <1>4, <1>5, <1>6 DEF Used, UsedOf
<1> QED
  BY <1>4, <1>7 DEF UsedOf, FreeOf

\* The walk from tag to tag through a sound heap visits the chunks it is sound for:
\* what HeapIsExact says of the walk holds.
LEMMA SoundIsExact == HeapSound => HeapIsExact
<1> SUFFICES ASSUME HeapSound PROVE HeapIsExact
  OBVIOUS
<1>1. PICK C : Sound(State, asked, C)
  BY DEF HeapSound
<1>2. /\ Exact(State, C) /\ Ended(State)
      /\ DOMAIN asked = {Payload(c) : c \in UsedOf(State, C)}
      /\ \A c \in UsedOf(State, C) : asked[Payload(c)] \in 1 .. Wrap
                                     /\ asked[Payload(c)] <= Size(State, c)
      /\ State.inuse = Cardinality(Filled(State, UsedOf(State, C)))
  BY <1>1 DEF Sound
<1>3. /\ State \in Heaps /\ RegionsApart(State) /\ Tiles(State, C)
      /\ Lists(State, FreeOf(State, C)) /\ Apart(State, FreeOf(State, C))
  BY <1>2 DEF Exact
<1>4. Chunks = C /\ Used = UsedOf(State, C) /\ Chunks \ Used = FreeOf(State, C)
  BY <1>2, ChunksParts
<1>5. State.inuse = inuse /\ State.mem = mem /\ State.brk = brk /\ State.regions = regions /\ State.free = free
  BY DEF State
<1>6. HeapTypeOK
  <2>1. build \in {"threads", "single"}
    BY <1>2 DEF Ended
  <2>2. mem \in [Words -> Tag] /\ brk \in 0 .. MaxWords /\ regions \in Seq(Region) /\ free \in Seq(Words)
    BY <1>3, <1>5 DEF Heaps
  <2>3. inuse \in 0 .. MaxWords
    <3>1. UsedOf(State, C) \in SUBSET C
      BY DEF UsedOf
    <3> QED
      BY <1>2, <1>5, <3>1, FilledParts
  <2>4. ASSUME NEW c \in UsedOf(State, C) PROVE Payload(c) \in Words
    <3>1. /\ c \in Nat /\ After(State, c) = c + 2 + Size(State, c) /\ Size(State, c) \in Nat
          /\ After(State, c) <= State.brk /\ State.brk <= MaxWords /\ State.brk \in Nat
      BY <1>3, ChunkParts DEF UsedOf
    <3> QED
      BY HeapConstants, <3>1 DEF Payload, Words
  <2>5. Live \subseteq Words /\ \A p \in Live : asked[p] \in 1 .. Wrap
    BY <1>2, <2>4 DEF Live
  <2> QED
    BY <2>1, <2>2, <2>3, <2>5 DEF HeapTypeOK
<1>7. Tiled
  <2> SUFFICES ASSUME NEW r \in ToSet(regions), NEW c \in ChunksOf(r)
               PROVE  /\ After(State, c) <= r.limit
                      /\ Size(State, c) % 2 = 0 /\ Size(State, c) >= 2
                      /\ mem[After(State, c) - 1] = mem[c]
    BY DEF Tiled
  <2>1. r \in Regions(State)
    BY <1>5 DEF Regions
  <2>2. c \in C /\ InRegion(r, c)
    BY <1>2, <2>1, ChunksOfParts
  <2>3. /\ c \in Nat /\ After(State, c) = c + 2 + Size(State, c) /\ Size(State, c) \in Nat
        /\ Size(State, c) >= 2 /\ Size(State, c) % 2 = 0
        /\ State.mem[After(State, c) - 1] = State.mem[c]
    BY <1>3, <2>2, ChunkParts
  <2>4. PICK s \in Regions(State) : s.base <= c /\ After(State, c) <= s.limit
    BY <1>3, <2>2, ChunkParts
  <2>5. InRegion(s, c)
    BY <1>3, <2>3, <2>4, RegionParts DEF InRegion
  <2>6. s = r
    BY <1>3, <2>1, <2>2, <2>3, <2>5, OneRegion
  <2> QED
    BY <1>5, <2>3, <2>4, <2>6
<1>8. NoFreeNeighbours
  <2> SUFFICES ASSUME NEW c \in FreeOf(State, C), NEW d \in FreeIn(State, NextPhys(State, c))
               PROVE  FALSE
    BY <1>4 DEF NoFreeNeighbours
  <2>1. c \in C
    BY DEF FreeOf
  <2>2. NextPhys(State, c) = {e \in C : Follows(State, c, e)}
    BY <1>3, <2>1, NextIsChunk
  <2>3. d \in FreeOf(State, C) /\ Follows(State, c, d)
    BY <2>2 DEF FreeIn, FreeOf
  <2> QED
    BY <1>3, <2>3 DEF Apart
<1>9. FreeListExact
  BY <1>3, <1>4, <1>5 DEF FreeListExact, Lists
<1>10. InUseExact
  <2>1. \A c \in UsedOf(State, C) : Chunk(Payload(c)) = c
    <3>1. \A c \in UsedOf(State, C) : c \in Nat
      BY <1>2, UsedParts
    <3> QED
      BY <3>1 DEF Chunk, Payload
  <2>2. Used = {Chunk(p) : p \in Live}
    BY <1>2, <1>4, <2>1 DEF Live
  <2>3. UNION {Payload(c) .. c + Size(State, c) : c \in Used} = Filled(State, UsedOf(State, C))
    BY <1>4 DEF Filled
  <2> QED
    BY <1>2, <1>5, <2>2, <2>3 DEF InUseExact
<1> QED
  BY <1>6, <1>7, <1>8, <1>9, <1>10 DEF HeapIsExact

\* Boundary tags, free list and counter always tell of the same heap, in both
\* builds and for every order of malloc, calloc, realloc, free and of other
\* threads' grows (heap.c).
THEOREM HeapStaysExact == HeapSpec => []HeapIsExact
  BY HeapSoundAlways, SoundIsExact, PTL

-----------------------------------------------------------------------------
(* The heap is an allocator.                                               *)

\* What the refinement mapping makes of a heap and its blocks.
Owned(h)   == UNION {r.base .. r.limit - 1 : r \in Regions(h)}
Room(h, a) == [p \in DOMAIN a |-> Size(h, Chunk(p))]

\* The words of a block.
Block(h, c) == Payload(c) .. c + Size(h, c)

\* A used chunk is a block of the promise, in memory the heap owns, and apart from
\* the others.
LEMMA BlockParts ==
    ASSUME NEW h, NEW a, NEW C, Sound(h, a, C), NEW c \in UsedOf(h, C)
    PROVE  /\ Payload(c) \in DOMAIN a /\ Room(h, a)[Payload(c)] = Size(h, c)
           /\ Promise!Span(Payload(c), Size(h, c)) = Block(h, c)
           /\ Block(h, c) \subseteq Owned(h)
           /\ a[Payload(c)] <= Size(h, c)
           /\ \A d \in UsedOf(h, C) : d # c => Block(h, c) \cap Block(h, d) = {}
<1>1. Exact(h, C) /\ DOMAIN a = {Payload(d) : d \in UsedOf(h, C)} /\ a[Payload(c)] <= Size(h, c)
  BY DEF Sound
<1>2. h \in Heaps /\ RegionsApart(h) /\ Tiles(h, C)
  BY <1>1 DEF Exact
<1>3. \A d \in UsedOf(h, C) : /\ d \in C /\ d \in Nat /\ Size(h, d) \in Nat
                              /\ After(h, d) = d + 2 + Size(h, d)
  BY <1>2, ChunkParts DEF UsedOf
<1>4. Chunk(Payload(c)) = c
  BY <1>3 DEF Chunk, Payload
<1>5. Room(h, a)[Payload(c)] = Size(h, c)
  BY <1>1, <1>4 DEF Room
<1>6. Promise!Span(Payload(c), Size(h, c)) = Block(h, c)
  BY <1>3 DEF Promise!Span, Block, Payload
<1>7. Block(h, c) \subseteq Owned(h)
  <2>1. PICK r \in Regions(h) : r.base <= c /\ After(h, c) <= r.limit
    BY <1>2, <1>3, ChunkParts
  <2>2. r.base \in Nat /\ r.limit \in Nat
    BY <1>2, RegionParts
  <2>3. Block(h, c) \subseteq r.base .. r.limit - 1
    BY <1>3, <2>1, <2>2 DEF Block, Payload
  <2> QED
    BY <2>3 DEF Owned
<1>8. ASSUME NEW d \in UsedOf(h, C), d # c PROVE Block(h, c) \cap Block(h, d) = {}
  <2>1. After(h, c) <= d \/ After(h, d) <= c
    BY <1>2, <1>3, <1>8 DEF Tiles
  <2> QED
    BY <1>3, <2>1 DEF Block, Payload
<1> QED
  BY <1>1, <1>5, <1>6, <1>7, <1>8

\* A chunk that is kept is the same block.
LEMMA KeptBlocks ==
    ASSUME NEW h, NEW k, NEW U, Kept(h, k, U), NEW c \in U
    PROVE  Size(k, c) = Size(h, c) /\ Block(k, c) = Block(h, c)
  BY DEF Kept, Size, Block

\* Regions that only grow keep what the heap owns.
LEMMA KeepsOwned ==
    ASSUME NEW h \in Heaps, NEW k \in Heaps, RegionsApart(h), RegionsApart(k), Keeps(h, k)
    PROVE  Owned(h) \subseteq Owned(k)
<1> SUFFICES ASSUME NEW r \in Regions(h), NEW w \in r.base .. r.limit - 1 PROVE w \in Owned(k)
  BY DEF Owned
<1>1. PICK s \in Regions(k) : s.base = r.base /\ r.limit <= s.limit
  BY DEF Keeps
<1>2. r.base \in Nat /\ r.limit \in Nat /\ s.limit \in Nat
  BY <1>1, RegionParts
<1>3. w \in s.base .. s.limit - 1
  BY <1>1, <1>2
<1> QED
  BY <1>3 DEF Owned

\* The mapping, before and after a step.
LEMMA Mapping ==
    /\ UNION {r.base .. r.limit - 1 : r \in ToSet(regions)} = Owned(State)
    /\ [p \in Live |-> mem[Chunk(p)].size] = Room(State, asked)
    /\ UNION {r.base .. r.limit - 1 : r \in ToSet(regions')} = Owned(State')
    /\ [p \in Live' |-> mem'[Chunk(p)].size] = Room(State', asked')
  BY DEF Owned, Room, State, Regions, Size, Live

\* A new block.
LEMMA AllocImplements ==
    ASSUME NEW C, Sound(State, asked, C), NEW N, NEW c, NEW need, Allocates(State, C, State', N, c, need),
           NEW n, asked' = With(asked, Payload(c), n), Sound(State', asked', N)
    PROVE  Promise!Next
<1> DEFINE U == UsedOf(State, C)
           p == Payload(c)
           len == Size(State', c)
           room == Room(State, asked)
           room2 == Room(State', asked')
<1>1. /\ Exact(State, C) /\ Live = {Payload(d) : d \in U}
  BY DEF Sound, Live
<1>2. /\ Exact(State', N) /\ UsedOf(State', N) = U \cup {c} /\ c \notin U /\ Kept(State, State', U)
      /\ Keeps(State, State')
  BY DEF Allocates
<1>3. \A d \in U \cup {c} : d \in Nat
  BY <1>2, UsedParts
<1>4. p \notin Live
  BY <1>1, <1>2, <1>3, PayloadsApart
<1>5. /\ p \in DOMAIN asked' /\ room2[p] = len /\ Promise!Span(p, len) = Block(State', c)
      /\ Block(State', c) \subseteq Owned(State') /\ asked'[p] <= len
      /\ \A d \in U : Block(State', c) \cap Block(State', d) = {}
  BY <1>2, BlockParts
<1>6. Owned(State) \subseteq Owned(State')
  BY <1>1, <1>2, KeepsOwned DEF Exact
<1>7. ASSUME NEW q \in Live PROVE Promise!Span(p, len) \cap Promise!Span(q, room[q]) = {}
  <2>1. PICK d \in U : q = Payload(d)
    BY <1>1
  <2>2. room[q] = Size(State, d) /\ Promise!Span(q, Size(State, d)) = Block(State, d)
    BY <2>1, BlockParts
  <2>3. Block(State', d) = Block(State, d)
    BY <1>2, KeptBlocks
  <2> QED
    BY <1>5, <2>2, <2>3
<1>8. DOMAIN asked' = Live \cup {p} /\ asked' = [q \in Live \cup {p} |-> IF q = p THEN asked'[p] ELSE asked[q]]
  BY DEF With, Live
<1>9. room2 = [q \in Live \cup {p} |-> IF q = p THEN room2[p] ELSE room[q]]
  <2>1. \A q \in Live : room2[q] = room[q]
    <3> SUFFICES ASSUME NEW q \in Live PROVE room2[q] = room[q]
      OBVIOUS
    <3>1. PICK d \in U : q = Payload(d)
      BY <1>1
    <3>2. room[q] = Size(State, d)
      BY <3>1, BlockParts
    <3>3. room2[q] = Size(State', d)
      BY <1>2, <3>1, BlockParts
    <3> QED
      BY <1>2, <3>2, <3>3, KeptBlocks
  <2>2. DOMAIN room2 = Live \cup {p} /\ room2 = [q \in Live \cup {p} |-> room2[q]]
    BY <1>8 DEF Room
  <2> HIDE DEF room2, room
  <2> QED
    BY <2>1, <2>2
<1> HIDE DEF room, room2, p, len
<1>10. Live = DOMAIN asked
  BY DEF Live
<1> QED
  <2>1. UNION {r.base .. r.limit - 1 : r \in ToSet(regions)} = Owned(State)
    BY Mapping
  <2>2. [q \in Live |-> mem[Chunk(q)].size] = room
    BY Mapping DEF room
  <2>3. UNION {r.base .. r.limit - 1 : r \in ToSet(regions')} = Owned(State')
    BY Mapping
  <2>4. [q \in Live' |-> mem'[Chunk(q)].size] = room2
    BY Mapping DEF room2
  <2>5. Promise!Alloc(p, asked'[p], room2[p])
    BY <1>4, <1>5, <1>7, <1>8, <1>9, <1>10, <2>1, <2>2, <2>3, <2>4
       DEF Promise!Alloc, Promise!Vacant, Promise!Become, Promise!Live
  <2>6. p \in Promise!New
    BY <1>4, <1>5, <1>10 DEF Promise!New, Promise!Live
  <2> QED
    BY <1>6, <2>1, <2>3, <2>4, <2>5, <2>6 DEF Promise!Next

\* A block is given back.
LEMMA ReleaseImplements ==
    ASSUME Releases
    PROVE  Promise!Next
<1>1. PICK C, N, c : /\ c \in UsedOf(State, C)
                     /\ Sound(State, asked, C) /\ Sound(State', asked', N)
                     /\ Frees(State, C, State', N, c)
                     /\ asked' = Restrict(asked, DOMAIN asked \ {Payload(c)})
  BY DEF Releases
<1> DEFINE U == UsedOf(State, C)
           p == Payload(c)
           room == Room(State, asked)
           room2 == Room(State', asked')
<1>2. Live = {Payload(d) : d \in U} /\ Live = DOMAIN asked /\ p \in Live
  BY <1>1 DEF Sound, Live
<1>3. /\ UsedOf(State', N) = U \ {c} /\ Kept(State, State', U \ {c}) /\ State'.regions = State.regions
  BY <1>1 DEF Frees
<1>4. Owned(State) = Owned(State')
  BY <1>3 DEF Owned, Regions
<1>5. DOMAIN asked' = Live \ {p} /\ asked' = [q \in Live \ {p} |-> asked[q]]
  BY <1>1, <1>2 DEF Restrict
<1>6. room2 = [q \in Live \ {p} |-> room[q]]
  <2>1. \A q \in Live \ {p} : room2[q] = room[q]
    <3> SUFFICES ASSUME NEW q \in Live \ {p} PROVE room2[q] = room[q]
      OBVIOUS
    <3>1. PICK d \in U : q = Payload(d)
      BY <1>2
    <3>2. d \in U \ {c}
      BY <3>1
    <3>3. room[q] = Size(State, d)
      BY <1>1, <3>1, BlockParts
    <3>4. room2[q] = Size(State', d)
      BY <1>1, <1>3, <3>1, <3>2, BlockParts
    <3> QED
      BY <1>3, <3>2, <3>3, <3>4, KeptBlocks
  <2>2. DOMAIN room2 = Live \ {p} /\ room2 = [q \in Live \ {p} |-> room2[q]]
    BY <1>5 DEF Room
  <2> HIDE DEF room2, room
  <2> QED
    BY <2>1, <2>2
<1> HIDE DEF room, room2, p
<1> QED
  <2>1. UNION {r.base .. r.limit - 1 : r \in ToSet(regions)} = Owned(State)
    BY Mapping
  <2>2. [q \in Live |-> mem[Chunk(q)].size] = room
    BY Mapping DEF room
  <2>3. UNION {r.base .. r.limit - 1 : r \in ToSet(regions')} = Owned(State')
    BY Mapping
  <2>4. [q \in Live' |-> mem'[Chunk(q)].size] = room2
    BY Mapping DEF room2
  <2>5. Promise!Release(p)
    BY <1>2, <1>5, <1>6, <2>2, <2>4 DEF Promise!Release, Promise!Live
  <2>6. p \in Promise!Live
    BY <1>2 DEF Promise!Live
  <2> QED
    BY <1>4, <2>1, <2>3, <2>5, <2>6 DEF Promise!Next

\* A block is longer, or as long.
LEMMA ResizeImplements ==
    ASSUME Resizes
    PROVE  Promise!Next
<1>1. PICK C, N, n, c : /\ c \in UsedOf(State, C)
                        /\ Sound(State, asked, C) /\ Sound(State', asked', N)
                        /\ regions' = regions /\ UsedOf(State', N) = UsedOf(State, C)
                        /\ Kept(State, State', UsedOf(State, C) \ {c})
                        /\ Size(State, c) <= Size(State', c)
                        /\ asked' = [asked EXCEPT ![Payload(c)] = n]
  BY DEF Resizes
<1> DEFINE U == UsedOf(State, C)
           p == Payload(c)
           room == Room(State, asked)
           room2 == Room(State', asked')
<1>2. Live = {Payload(d) : d \in U} /\ Live = DOMAIN asked /\ p \in Live /\ c \in U
  BY <1>1 DEF Sound, Live
<1>3. Owned(State) = Owned(State')
  BY <1>1 DEF Owned, Regions, State
<1>4. /\ room2[p] = Size(State', c) /\ room[p] = Size(State, c)
      /\ Promise!Span(p, room2[p]) = Block(State', c) /\ Block(State', c) \subseteq Owned(State')
      /\ asked'[p] <= room2[p]
      /\ \A d \in U : d # c => Block(State', c) \cap Block(State', d) = {}
  BY <1>1, BlockParts
<1>5. /\ DOMAIN asked' = Live
      /\ asked' = [q \in (Live \ {p}) \cup {p} |-> IF q = p THEN asked'[p] ELSE asked[q]]
  BY <1>1, <1>2
<1>6. ASSUME NEW q \in Live \ {p}
      PROVE  room2[q] = room[q] /\ Promise!Span(p, room2[p]) \cap Promise!Span(q, room[q]) = {}
  <2>1. PICK d \in U : q = Payload(d)
    BY <1>2
  <2>2. d \in U \ {c} /\ d # c
    BY <2>1
  <2>3. room[q] = Size(State, d) /\ Promise!Span(q, Size(State, d)) = Block(State, d)
    BY <1>1, <2>1, BlockParts
  <2>4. room2[q] = Size(State', d)
    BY <1>1, <2>1, BlockParts
  <2>5. Block(State', d) = Block(State, d) /\ Size(State', d) = Size(State, d)
    BY <1>1, <2>2, KeptBlocks
  <2> QED
    BY <1>4, <2>2, <2>3, <2>4, <2>5
<1>7. room2 = [q \in (Live \ {p}) \cup {p} |-> IF q = p THEN room2[p] ELSE room[q]]
  <2>1. DOMAIN room2 = (Live \ {p}) \cup {p} /\ room2 = [q \in (Live \ {p}) \cup {p} |-> room2[q]]
    BY <1>2, <1>5 DEF Room
  <2> HIDE DEF room2, room
  <2> QED
    BY <1>6, <2>1
<1>8. room[p] <= room2[p]
  BY <1>1, <1>4
<1>9. asked'[p] \in Int /\ room2[p] \in Int /\ room[p] \in Int
  <2>1. Size(State, c) \in Nat /\ Size(State', c) \in Nat
    BY <1>1, <1>2, UsedParts DEF Sound
  <2>2. asked'[p] \in 1 .. Wrap /\ Wrap \in Nat
    BY <1>1, <1>2, HeapConstants DEF Sound
  <2> QED
    BY <1>4, <2>1, <2>2
<1> HIDE DEF room, room2, p
<1>10. asked'[p] <= room2[p] /\ room2[p] >= asked'[p] /\ room2[p] >= room[p]
  BY <1>4, <1>8, <1>9
<1> QED
  <2>1. UNION {r.base .. r.limit - 1 : r \in ToSet(regions)} = Owned(State)
    BY Mapping
  <2>2. [q \in Live |-> mem[Chunk(q)].size] = room
    BY Mapping DEF room
  <2>3. UNION {r.base .. r.limit - 1 : r \in ToSet(regions')} = Owned(State')
    BY Mapping
  <2>4. [q \in Live' |-> mem'[Chunk(q)].size] = room2
    BY Mapping DEF room2
  <2>5. Promise!Resize(p, asked'[p], room2[p])
    BY <1>2, <1>4, <1>5, <1>6, <1>7, <1>10, <2>1, <2>2, <2>3, <2>4
       DEF Promise!Resize, Promise!Vacant, Promise!Become, Promise!Live
  <2>6. CASE p \in Promise!New
    BY <1>2, <1>3, <2>1, <2>3, <2>4, <2>5, <2>6 DEF Promise!Next, Promise!Live
  <2>7. CASE p \notin Promise!New
    <3>1. asked'[p] = asked[p] /\ room2[p] = room[p]
      BY <1>2, <1>5, <2>2, <2>4, <2>7 DEF Promise!New, Promise!Live
    <3>2. asked' = asked
      <4>1. \A q \in Live : asked'[q] = asked[q]
        BY <1>2, <1>5, <3>1
      <4>2. asked = [q \in Live |-> asked[q]] /\ asked' = [q \in Live |-> asked'[q]]
        <5>1. /\ asked = [q \in DOMAIN asked |-> asked[q]]
              /\ asked' = [q \in DOMAIN asked' |-> asked'[q]]
          BY <1>1 DEF Sound
        <5> QED
          BY <1>2, <1>5, <5>1
      <4> QED
        BY <4>1, <4>2
    <3>3. room2 = room
      <4>1. \A q \in Live : room2[q] = room[q]
        BY <1>2, <1>6, <3>1
      <4>2. room = [q \in Live |-> room[q]] /\ room2 = [q \in Live |-> room2[q]]
        BY <1>2, <1>5 DEF room, room2, Room
      <4> QED
        BY <4>1, <4>2
    <3> QED
      BY <1>3, <2>1, <2>2, <2>3, <2>4, <3>2, <3>3 DEF Promise!Next
  <2> QED
    BY <2>6, <2>7

\* A block is copied to a new one, and given back.
LEMMA MoveImplements ==
    ASSUME Moves
    PROVE  Promise!Next
<1>1. PICK C, N, k, M, e, need, n, c :
          /\ c \in UsedOf(State, C)
          /\ Sound(State, asked, C) /\ Sound(State', asked', N)
          /\ Allocates(State, C, k, M, e, need) /\ Sound(k, With(asked, Payload(e), n), M)
          /\ Frees(k, M, State', N, c)
          /\ asked' = Restrict(With(asked, Payload(e), n),
                               DOMAIN With(asked, Payload(e), n) \ {Payload(c)})
          /\ Size(State, c) <= need /\ need \in Nat
  BY DEF Moves
<1> DEFINE U == UsedOf(State, C)
           V == (U \ {c}) \cup {e}
           p == Payload(c)
           s == Payload(e)
           room == Room(State, asked)
           room2 == Room(State', asked')
<1>2. Live = {Payload(d) : d \in U} /\ Live = DOMAIN asked /\ p \in Live /\ c \in U /\ Exact(State, C)
  BY <1>1 DEF Sound, Live
<1>3. /\ Exact(k, M) /\ UsedOf(k, M) = U \cup {e} /\ e \notin U /\ Kept(State, k, U)
      /\ Keeps(State, k) /\ need <= Size(k, e)
  BY <1>1 DEF Allocates
<1>4. /\ UsedOf(State', N) = V /\ Kept(k, State', V) /\ State'.regions = k.regions
      /\ Exact(State', N)
  <2>1. UsedOf(State', N) = UsedOf(k, M) \ {c} /\ Kept(k, State', UsedOf(State', N))
        /\ State'.regions = k.regions /\ Exact(State', N)
    BY <1>1 DEF Frees
  <2>2. UsedOf(k, M) \ {c} = V
    BY <1>2, <1>3
  <2> QED
    BY <2>1, <2>2
<1>5. \A d \in U \cup {e} : d \in Nat
  BY <1>3, UsedParts
<1>6. s \notin Live /\ s # p
  BY <1>2, <1>3, <1>5, PayloadsApart
<1>7. Owned(State) \subseteq Owned(State')
  <2>1. Owned(State) \subseteq Owned(k)
    BY <1>2, <1>3, KeepsOwned DEF Exact
  <2>2. Owned(k) = Owned(State')
    BY <1>4 DEF Owned, Regions
  <2> QED
    BY <2>1, <2>2
<1> HIDE DEF U
<1>8. /\ room2[s] = Size(State', e) /\ Promise!Span(s, Size(State', e)) = Block(State', e)
      /\ Block(State', e) \subseteq Owned(State') /\ asked'[s] <= Size(State', e)
  <2>1. e \in UsedOf(State', N)
    BY <1>4
  <2> HIDE DEF V
  <2> QED
    BY <1>1, <2>1, BlockParts
<1>9. Size(State', e) = Size(k, e) /\ Block(State', e) = Block(k, e)
  BY <1>4, KeptBlocks
<1>10. ASSUME NEW q \in Live PROVE Promise!Span(s, room2[s]) \cap Promise!Span(q, room[q]) = {}
  <2>1. PICK d \in U : q = Payload(d)
    BY <1>2
  <2>2. room[q] = Size(State, d) /\ Promise!Span(q, Size(State, d)) = Block(State, d)
    BY <1>1, <2>1, BlockParts DEF U
  <2>3. Block(k, d) = Block(State, d)
    BY <1>3, KeptBlocks
  <2>4. Block(k, e) \cap Block(k, d) = {}
    <3>1. e \in UsedOf(k, M) /\ d \in UsedOf(k, M) /\ d # e
      BY <1>3
    <3> QED
      BY <1>1, <3>1, BlockParts
  <2> QED
    BY <1>8, <1>9, <2>2, <2>3, <2>4
<1>11. /\ DOMAIN asked' = (Live \ {p}) \cup {s}
       /\ asked' = [q \in (Live \ {p}) \cup {s} |-> IF q = s THEN asked'[s] ELSE asked[q]]
  <2> DEFINE b == With(asked, s, n)
  <2>1. DOMAIN b = Live \cup {s} /\ \A q \in DOMAIN b : b[q] = IF q = s THEN n ELSE asked[q]
    BY <1>2 DEF With
  <2> HIDE DEF b
  <2>2. DOMAIN b \ {p} = (Live \ {p}) \cup {s}
    BY <1>6, <2>1
  <2>3. asked' = [q \in (Live \ {p}) \cup {s} |-> b[q]]
    BY <1>1, <2>2 DEF Restrict, b
  <2> HIDE DEF p, s
  <2> QED
    BY <2>1, <2>3
<1>12. room2 = [q \in (Live \ {p}) \cup {s} |-> IF q = s THEN room2[s] ELSE room[q]]
  <2>1. \A q \in Live \ {p} : room2[q] = room[q]
    <3> SUFFICES ASSUME NEW q \in Live \ {p} PROVE room2[q] = room[q]
      OBVIOUS
    <3>1. PICK d \in U : q = Payload(d)
      BY <1>2
    <3>2. d \in U \ {c} /\ d \in V
      BY <3>1
    <3>3. room[q] = Size(State, d)
      BY <1>1, <3>1, BlockParts DEF U
    <3>4. room2[q] = Size(State', d)
      <4> HIDE DEF V
      <4> QED
        BY <1>1, <1>4, <3>1, <3>2, BlockParts
    <3>5. Size(State', d) = Size(k, d)
      <4> HIDE DEF V
      <4> QED
        BY <1>4, <3>2, KeptBlocks
    <3>6. Size(k, d) = Size(State, d)
      BY <1>3, KeptBlocks
    <3> QED
      BY <3>3, <3>4, <3>5, <3>6
  <2>2. /\ DOMAIN room2 = (Live \ {p}) \cup {s}
        /\ room2 = [q \in (Live \ {p}) \cup {s} |-> room2[q]]
    BY <1>11 DEF Room
  <2> HIDE DEF room2, room
  <2> QED
    BY <2>1, <2>2
<1>13. room2[s] >= asked'[s] /\ room2[s] >= room[p]
  <2>1. Size(State, c) \in Nat /\ Size(k, e) \in Nat
    BY <1>2, <1>3, UsedParts DEF U
  <2>2. asked'[s] \in 1 .. Wrap /\ Wrap \in Nat
    <3>1. e \in UsedOf(State', N)
      BY <1>4
    <3> HIDE DEF V
    <3> QED
      BY <1>1, <3>1, HeapConstants DEF Sound
  <2>3. room[p] = Size(State, c)
    BY <1>1, BlockParts
  <2> HIDE DEF room, room2, V, s, p
  <2> QED
    BY <1>1, <1>3, <1>8, <1>9, <2>1, <2>2, <2>3
<1> HIDE DEF room, room2, p, s
<1> QED
  <2>1. UNION {r.base .. r.limit - 1 : r \in ToSet(regions)} = Owned(State)
    BY Mapping
  <2>2. [q \in Live |-> mem[Chunk(q)].size] = room
    BY Mapping DEF room
  <2>3. UNION {r.base .. r.limit - 1 : r \in ToSet(regions')} = Owned(State')
    BY Mapping
  <2>4. [q \in Live' |-> mem'[Chunk(q)].size] = room2
    BY Mapping DEF room2
  <2>5. Promise!Span(s, room2[s]) \subseteq Owned(State')
    BY <1>8
  <2>6. Promise!Move(p, s, asked'[s], room2[s])
    BY <1>2, <1>6, <1>10, <1>11, <1>12, <1>13, <2>1, <2>2, <2>3, <2>4, <2>5
       DEF Promise!Move, Promise!Vacant, Promise!Become, Promise!Live
  <2>7. s \in Promise!New
    BY <1>2, <1>6, <1>11 DEF Promise!New, Promise!Live
  <2> QED
    BY <1>2, <1>7, <2>1, <2>3, <2>4, <2>6, <2>7 DEF Promise!Next, Promise!Live

\* The first state of the heap is one of the promise.
LEMMA InitImplements == HeapInit => Promise!Init
<1> SUFFICES ASSUME HeapInit PROVE Promise!Init
  OBVIOUS
<1>1. HeapSound /\ asked = << >>
  BY InitSound DEF HeapInit
<1>2. UNION {r.base .. r.limit - 1 : r \in ToSet(regions)} \subseteq Nat
  <2>1. PICK C : Exact(State, C)
    BY <1>1 DEF HeapSound, Sound
  <2>2. \A r \in ToSet(regions) : r.base \in Nat /\ r.limit \in Nat
    BY <2>1, RegionParts DEF Exact, Regions, State
  <2> QED
    BY <2>2
<1>3. Live = {}
  BY <1>1 DEF Live
<1>4. [p \in Live |-> mem[Chunk(p)].size] = << >>
  BY <1>3
<1> QED
  BY <1>1, <1>2, <1>4 DEF Promise!Init

\* The heap does what its callers are promised: blocks lie in the thread's own
\* memory, apart from each other, as long as asked for, and stay where they are.
THEOREM HeapIsAnAllocator == HeapSpec => ImplementsAllocator
<1>1. HeapSound /\ [HeapNext]_heapVars => [Promise!Next]_(Promise!vars)
  <2> SUFFICES ASSUME HeapSound, [HeapNext]_heapVars PROVE [Promise!Next]_(Promise!vars)
    OBVIOUS
  <2>1. CASE \E n \in Sizes : Malloc(n)
    BY <2>1, MallocKeeps, AllocImplements DEF Allots
  <2>2. CASE \E arr \in Arrays : Calloc(arr[1], arr[2])
    BY <2>2, CallocKeeps, AllocImplements DEF Allots
  <2>3. CASE \E p \in Live : Free(p)
    BY <2>3, HeapFreeKeeps, ReleaseImplements
  <2>4. CASE \E p \in Live, n \in Sizes : ReallocStays(p, n)
    BY <2>4, ReallocStaysKeeps, ResizeImplements
  <2>5. CASE \E p \in Live, n \in Sizes : ReallocMoves(p, n)
    BY <2>5, ReallocMovesKeeps, MoveImplements
  <2>6. CASE OthersGrow \/ UNCHANGED heapVars
    <3>1. mem' = mem /\ regions' = regions /\ asked' = asked
      BY <2>6 DEF OthersGrow, heapVars
    <3>2. Live' = Live
      BY <3>1 DEF Live
    <3> QED
      BY <3>1, <3>2 DEF Promise!vars
  <2> QED
    BY <2>1, <2>2, <2>3, <2>4, <2>5, <2>6 DEF HeapNext
<1> QED
  BY <1>1, InitImplements, HeapSoundAlways, PTL DEF HeapSpec, ImplementsAllocator, Promise!Spec

-----------------------------------------------------------------------------
(* Private and temporary files.                                            *)

IsTemp(m, f)    == m[f] # NotOpen /\ m[f].kind = "temp"
IsPrivate(m, f) == m[f] # NotOpen /\ m[f].kind = "private"

\* What a private file's buffer has past its size is zero.
BufferOk(r) == \E n \in Capacities : /\ r.data \in [0 .. n - 1 -> Byte]
                                     /\ r.size <= n
                                     /\ \A i \in 0 .. n - 1 : i >= r.size => r.data[i] = Zero

\* An open temporary file has a slot of its own, as long as it is; a slot that
\* is not in use is empty; a worker that is gone has no files.
Slotted(m, p, u) ==
    /\ \A f \in Files : IsTemp(m, f) =>
            p[m[f].handle].inUse /\ DOMAIN p[m[f].handle].bytes = 0 .. m[f].size - 1
    /\ \A f, g \in Files : IsTemp(m, f) /\ IsTemp(m, g) /\ m[f].handle = m[g].handle => f = g
    /\ u => \A s \in 1 .. Slots : p[s].inUse => \E f \in Files : IsTemp(m, f) /\ m[f].handle = s
    /\ u => \A s \in 1 .. Slots : ~p[s].inUse => p[s].bytes = Empty
    /\ ~u => \A f \in Files : m[f] = NotOpen

FilesTyped(m, p, u) ==
    /\ m \in [Files -> {NotOpen} \cup Private \cup Temp]
    /\ p \in [1 .. Slots -> [inUse : BOOLEAN, bytes : FileContent]]
    /\ u \in BOOLEAN

FilesSound(m, p, u) ==
    /\ FilesTyped(m, p, u) /\ Slotted(m, p, u)
    /\ \A f \in Files : IsPrivate(m, f) => BufferOk(m[f])

FilesInv == FilesSound(memFiles, pool, up)

\* The bytes of a file, and of all files.
BytesOf(r, p) == IF r.kind = "temp" THEN p[r.handle].bytes ELSE [o \in 0 .. r.size - 1 |-> r.data[o]]
ContentsOf(m, p) == [f \in Files |-> IF m[f] # NotOpen THEN BytesOf(m[f], p) ELSE NotOpen]

-----------------------------------------------------------------------------
\* An interval from 0 has one length.
LEMMA SameLength ==
    ASSUME NEW n \in Nat, NEW k \in Nat, 0 .. n - 1 = 0 .. k - 1
    PROVE  n = k
<1>1. CASE n < k
  <2>1. n \in 0 .. k - 1 /\ n \notin 0 .. n - 1
    BY <1>1
  <2> QED
    BY <2>1
<1>2. CASE k < n
  <2>1. k \in 0 .. n - 1 /\ k \notin 0 .. k - 1
    BY <1>2
  <2> QED
    BY <2>1
<1> QED
  BY <1>1, <1>2

\* LengthOf is the length of a buffer or of a file.
LEMMA LengthIs ==
    ASSUME NEW c, NEW n \in (0 .. MaxSize) \cup Capacities, DOMAIN c = 0 .. n - 1
    PROVE  LengthOf(c) = n /\ n \in Nat
<1>1. (0 .. MaxSize) \cup Capacities \subseteq Nat
  BY MemFileAssumption
<1>2. \A k \in (0 .. MaxSize) \cup Capacities : DOMAIN c = 0 .. k - 1 => k = n
  BY <1>1, SameLength
<1> QED
  BY <1>1, <1>2 DEF LengthOf

\* SizeOf of the store is the length of a file.
LEMMA SizeIs ==
    ASSUME NEW c, NEW n \in 0 .. MaxSize, DOMAIN c = 0 .. n - 1
    PROVE  Store0!SizeOf(c) = n
<1>1. 0 .. MaxSize \subseteq Nat
  BY MemFileAssumption
<1>2. \A k \in 0 .. MaxSize : DOMAIN c = 0 .. k - 1 => k = n
  BY <1>1, SameLength
<1> QED
  BY <1>1, <1>2 DEF Store0!SizeOf

\* memGrow finds a buffer that is long enough.
LEMMA GrowsEnough ==
    ASSUME NEW needed \in 1 .. MaxSize
    PROVE  GrownTo(needed) \in Capacities /\ GrownTo(needed) >= needed
<1> DEFINE S == {c \in Capacities : c >= needed}
<1>1. S \in SUBSET Nat /\ S # {}
  BY MemFileAssumption
<1>2. PICK m \in S : \A k \in S : m <= k
  BY <1>1, LeastElement
<1>3. m \in Capacities /\ m >= needed /\ \A k \in Capacities : k >= needed => m <= k
  BY <1>2
<1> QED
  BY <1>3 DEF GrownTo

\* What is known of an open file.
LEMMA OpenParts ==
    ASSUME NEW m, NEW p, NEW u, FilesTyped(m, p, u), NEW f \in Files, m[f] # NotOpen
    PROVE  /\ m[f].kind \in {"private", "temp"}
           /\ m[f].size \in 0 .. MaxSize /\ m[f].size \in Nat
           /\ IsTemp(m, f) => m[f] \in Temp /\ m[f].handle \in 1 .. Slots
           /\ IsPrivate(m, f) => m[f] \in Private
<1>1. m[f] \in Private \cup Temp
  BY DEF FilesTyped
<1> QED
  BY <1>1, MemFileAssumption DEF Private, Temp, IsTemp, IsPrivate

\* The content of an open file, as reads see it, is its bytes.
LEMMA ContentIs ==
    ASSUME NEW m, NEW p, NEW u, FilesSound(m, p, u)
    PROVE  ContentsOf(m, p) =
            [f \in Files |-> IF m[f] # NotOpen
                             THEN [o \in 0 .. m[f].size - 1 |->
                                    IF o >= m[f].size THEN Zero
                                    ELSE IF m[f].kind = "temp" THEN p[m[f].handle].bytes[o]
                                    ELSE m[f].data[o]]
                             ELSE NotOpen]
<1> SUFFICES ASSUME NEW f \in Files, m[f] # NotOpen
             PROVE  BytesOf(m[f], p) = [o \in 0 .. m[f].size - 1 |->
                                        IF o >= m[f].size THEN Zero
                                        ELSE IF m[f].kind = "temp" THEN p[m[f].handle].bytes[o]
                                        ELSE m[f].data[o]]
  BY DEF ContentsOf
<1>1. m[f].size \in Nat /\ (IsTemp(m, f) => m[f].handle \in 1 .. Slots) /\ m[f].kind \in {"private", "temp"}
  BY OpenParts DEF FilesSound
<1>2. \A o \in 0 .. m[f].size - 1 : ~(o >= m[f].size)
  BY <1>1
<1>3. CASE m[f].kind = "temp"
  <2> DEFINE b == p[m[f].handle].bytes
  <2>1. IsTemp(m, f) /\ m[f].handle \in 1 .. Slots
    BY <1>1, <1>3 DEF IsTemp
  <2>2. DOMAIN b = 0 .. m[f].size - 1
    BY <2>1 DEF FilesSound, Slotted
  <2>3. b \in FileContent
    BY <2>1 DEF FilesSound, FilesTyped
  <2>4. b = [o \in 0 .. m[f].size - 1 |-> b[o]]
    BY <2>2, <2>3 DEF FileContent
  <2>5. BytesOf(m[f], p) = b
    BY <1>3 DEF BytesOf
  <2>6. [o \in 0 .. m[f].size - 1 |-> IF o >= m[f].size THEN Zero
                                     ELSE IF m[f].kind = "temp" THEN p[m[f].handle].bytes[o]
                                     ELSE m[f].data[o]] = [o \in 0 .. m[f].size - 1 |-> b[o]]
    BY <1>2, <1>3
  <2> QED
    BY <2>4, <2>5, <2>6
<1>4. CASE m[f].kind = "private"
  <2>1. BytesOf(m[f], p) = [o \in 0 .. m[f].size - 1 |-> m[f].data[o]]
    BY <1>4 DEF BytesOf
  <2> QED
    BY <1>2, <1>4, <2>1
<1> QED
  BY <1>1, <1>3, <1>4

\* The bytes of an open file are as many as its size says.
LEMMA BytesParts ==
    ASSUME NEW m, NEW p, NEW u, FilesSound(m, p, u), NEW f \in Files, m[f] # NotOpen
    PROVE  BytesOf(m[f], p) \in [0 .. m[f].size - 1 -> Byte]
<1>1. m[f].kind \in {"private", "temp"} /\ m[f].size \in Nat
  BY OpenParts DEF FilesSound
<1>2. CASE m[f].kind = "temp"
  <2> DEFINE b == p[m[f].handle].bytes
  <2>1. IsTemp(m, f) /\ m[f].handle \in 1 .. Slots
    BY <1>2, OpenParts DEF IsTemp, FilesSound
  <2>2. DOMAIN b = 0 .. m[f].size - 1
    BY <2>1 DEF FilesSound, Slotted
  <2>3. b \in FileContent
    BY <2>1 DEF FilesSound, FilesTyped
  <2>4. b \in [0 .. m[f].size - 1 -> Byte]
    BY <2>2, <2>3 DEF FileContent
  <2> QED
    BY <1>2, <2>4 DEF BytesOf
<1>3. CASE m[f].kind = "private"
  <2>1. PICK n \in Capacities : m[f].data \in [0 .. n - 1 -> Byte] /\ m[f].size <= n
    BY <1>3 DEF FilesSound, IsPrivate, BufferOk
  <2>2. n \in Nat
    BY MemFileAssumption
  <2>3. \A o \in 0 .. m[f].size - 1 : o \in 0 .. n - 1
    BY <1>1, <2>1, <2>2
  <2> QED
    BY <1>3, <2>1, <2>3 DEF BytesOf
<1> QED
  BY <1>1, <1>2, <1>3

\* File f alone is another, and the pool has the bytes of the others still.
Replaces(m, k, f, r) == k[f] = r /\ \A g \in Files : g # f => k[g] = m[g]
Spares(m, f, p, q) == \A g \in Files : g # f /\ IsTemp(m, g) => q[m[g].handle].bytes = p[m[g].handle].bytes
Puts(C, D, f, x) == D = [C EXCEPT ![f] = x]

LEMMA OneFile ==
    ASSUME NEW m, NEW p, NEW u, FilesSound(m, p, u), NEW f \in Files, NEW r, NEW q, NEW k,
           Replaces(m, k, f, r), Spares(m, f, p, q)
    PROVE  Puts(ContentsOf(m, p), ContentsOf(k, q), f,
                    IF r # NotOpen THEN BytesOf(r, q) ELSE NotOpen)
<1> DEFINE C == ContentsOf(m, p)
           x == IF r # NotOpen THEN BytesOf(r, q) ELSE NotOpen
           D == [g \in Files |-> IF g = f THEN x ELSE C[g]]
<1>1. k[f] = r /\ \A g \in Files : g # f => k[g] = m[g]
  BY DEF Replaces
<1>2. \A g \in Files : g # f /\ m[g] # NotOpen => BytesOf(m[g], q) = BytesOf(m[g], p)
  BY DEF BytesOf, IsTemp, Spares
<1>3. ASSUME NEW g \in Files
      PROVE  (IF k[g] # NotOpen THEN BytesOf(k[g], q) ELSE NotOpen) = IF g = f THEN x ELSE C[g]
  <2>1. CASE g = f
    BY <1>1, <2>1
  <2>2. CASE g # f
    <3>1. k[g] = m[g]
      BY <1>1, <2>2
    <3>2. C[g] = IF m[g] # NotOpen THEN BytesOf(m[g], p) ELSE NotOpen
      BY DEF ContentsOf
    <3> HIDE DEF C
    <3> QED
      BY <1>2, <2>2, <3>1, <3>2
  <2> QED
    BY <2>1, <2>2
<1>4. ContentsOf(k, q) = D
  BY <1>3 DEF ContentsOf
<1>5. [C EXCEPT ![f] = x] = D
  BY DEF ContentsOf
<1> HIDE DEF C, D, x
<1>6. Puts(C, ContentsOf(k, q), f, x)
  BY <1>4, <1>5 DEF Puts
<1> QED
  BY <1>6 DEF C, x

\* A private file takes the place of one that was not open, or of a private one.
LEMMA PrivateKeeps ==
    ASSUME NEW m, NEW p, NEW u, FilesSound(m, p, u), u = TRUE, NEW f \in Files, ~IsTemp(m, f),
           NEW r \in Private, BufferOk(r), NEW k, Puts(m, k, f, r)
    PROVE  FilesSound(k, p, u) /\ Puts(ContentsOf(m, p), ContentsOf(k, p), f, BytesOf(r, p))
<1>1. k[f] = r /\ \A g \in Files : g # f => k[g] = m[g]
  BY DEF FilesSound, FilesTyped, Puts
<1>2. r # NotOpen /\ r.kind = "private"
  BY MemFileAssumption DEF Private
<1>3. k \in [Files -> {NotOpen} \cup Private \cup Temp]
  BY DEF FilesSound, FilesTyped, Puts
<1>4. \A g \in Files : IsTemp(k, g) <=> IsTemp(m, g) /\ g # f
  BY <1>1, <1>2 DEF IsTemp
<1>5. \A g \in Files : IsTemp(m, g) => k[g] = m[g] /\ IsTemp(k, g)
  BY <1>1, <1>4
<1>6. Slotted(k, p, u)
  BY <1>4, <1>5 DEF Slotted, FilesSound
<1>7. \A g \in Files : IsPrivate(k, g) => BufferOk(k[g])
  BY <1>1 DEF FilesSound, IsPrivate
<1>8. FilesSound(k, p, u)
  BY <1>3, <1>6, <1>7 DEF FilesSound, FilesTyped
<1>9. Puts(ContentsOf(m, p), ContentsOf(k, p), f, IF r # NotOpen THEN BytesOf(r, p) ELSE NotOpen)
  <2>1. Replaces(m, k, f, r) /\ Spares(m, f, p, p)
    BY <1>1 DEF Replaces, Spares
  <2> QED
    BY <2>1, OneFile
<1> QED
  BY <1>2, <1>8, <1>9

\* A temporary file takes a free slot.
NewTemp(s) == [kind |-> "temp", size |-> 0, handle |-> s]
Takes(p, q, s) == q = [p EXCEPT ![s].inUse = TRUE]

LEMMA TempOpens ==
    ASSUME NEW m, NEW p, NEW u, FilesSound(m, p, u), u = TRUE, NEW f \in Files, m[f] = NotOpen,
           NEW s \in 1 .. Slots, ~p[s].inUse,
           NEW k, Puts(m, k, f, NewTemp(s)), NEW q, Takes(p, q, s)
    PROVE  FilesSound(k, q, u) /\ Puts(ContentsOf(m, p), ContentsOf(k, q), f, Empty)
<1> DEFINE r == NewTemp(s)
<1>1. k[f] = r /\ \A g \in Files : g # f => k[g] = m[g]
  BY DEF FilesSound, FilesTyped, Puts
<1>2. r \in Temp /\ r # NotOpen /\ r.kind = "temp" /\ r.handle = s /\ r.size = 0
  BY MemFileAssumption DEF Temp, NewTemp
<1>3. k \in [Files -> {NotOpen} \cup Private \cup Temp]
  BY <1>2 DEF FilesSound, FilesTyped, Puts
<1>4. /\ p \in [1 .. Slots -> [inUse : BOOLEAN, bytes : FileContent]]
      /\ q \in [1 .. Slots -> [inUse : BOOLEAN, bytes : FileContent]]
      /\ q[s].inUse /\ q[s].bytes = p[s].bytes /\ \A t \in 1 .. Slots : t # s => q[t] = p[t]
  BY DEF FilesSound, FilesTyped, Takes
<1>5. \A t \in 1 .. Slots : q[t].bytes = p[t].bytes
  BY <1>4
<1>6. p[s].bytes = Empty /\ DOMAIN Empty = 0 .. 0 - 1
  BY DEF FilesSound, Slotted, Empty
<1> HIDE DEF r
<1>7. \A g \in Files : IsTemp(m, g) => /\ m[g].handle \in 1 .. Slots /\ p[m[g].handle].inUse
                                       /\ m[g].handle # s /\ g # f /\ k[g] = m[g] /\ IsTemp(k, g)
  BY <1>1, OpenParts DEF FilesSound, Slotted, IsTemp
<1>8. IsTemp(k, f) /\ \A g \in Files : IsTemp(k, g) => g = f \/ IsTemp(m, g)
  BY <1>1, <1>2 DEF IsTemp
<1>9. Slotted(k, q, u)
  <2>1. \A g \in Files : IsTemp(k, g) =>
            q[k[g].handle].inUse /\ DOMAIN q[k[g].handle].bytes = 0 .. k[g].size - 1
    BY <1>1, <1>2, <1>4, <1>5, <1>6, <1>7, <1>8 DEF FilesSound, Slotted
  <2>2. \A g, h \in Files : IsTemp(k, g) /\ IsTemp(k, h) /\ k[g].handle = k[h].handle => g = h
    BY <1>1, <1>2, <1>7, <1>8 DEF FilesSound, Slotted
  <2>3. \A t \in 1 .. Slots : q[t].inUse => \E g \in Files : IsTemp(k, g) /\ k[g].handle = t
    <3> SUFFICES ASSUME NEW t \in 1 .. Slots, q[t].inUse
                 PROVE  \E g \in Files : IsTemp(k, g) /\ k[g].handle = t
      OBVIOUS
    <3>1. CASE t = s
      BY <1>1, <1>2, <1>8, <3>1
    <3>2. CASE t # s
      BY <1>4, <1>7, <3>2 DEF FilesSound, Slotted
    <3> QED
      BY <3>1, <3>2
  <2>4. \A t \in 1 .. Slots : ~q[t].inUse => q[t].bytes = Empty
    BY <1>4, <1>5 DEF FilesSound, Slotted
  <2> QED
    BY <2>1, <2>2, <2>3, <2>4 DEF Slotted
<1>10. \A g \in Files : IsPrivate(k, g) => BufferOk(k[g])
  BY <1>1, <1>2 DEF FilesSound, IsPrivate
<1>11. FilesSound(k, q, u)
  BY <1>3, <1>4, <1>9, <1>10 DEF FilesSound, FilesTyped
<1>12. Puts(ContentsOf(m, p), ContentsOf(k, q), f, IF r # NotOpen THEN BytesOf(r, q) ELSE NotOpen)
  <2>1. Replaces(m, k, f, r) /\ Spares(m, f, p, q)
    BY <1>1, <1>5, <1>7 DEF Replaces, Spares
  <2> QED
    BY <2>1, OneFile
<1>13. BytesOf(r, q) = Empty
  BY <1>2, <1>4, <1>6 DEF BytesOf
<1> QED
  BY <1>2, <1>11, <1>12, <1>13

\* A temporary file has its bytes changed, in its slot and nowhere else.
Rewrites(m, p, k, q, f, n, c) == /\ q = [p EXCEPT ![m[f].handle].bytes = c]
                                 /\ k = [m EXCEPT ![f].size = n]

LEMMA TempKeeps ==
    ASSUME NEW m, NEW p, NEW u, FilesSound(m, p, u), NEW f \in Files, IsTemp(m, f),
           NEW n \in 0 .. MaxSize, NEW c \in [0 .. n - 1 -> Byte],
           NEW q, NEW k, Rewrites(m, p, k, q, f, n, c)
    PROVE  FilesSound(k, q, u) /\ Puts(ContentsOf(m, p), ContentsOf(k, q), f, c)
<1> DEFINE s == m[f].handle
           r == [m[f] EXCEPT !.size = n]
<1>1. m[f] \in Temp /\ s \in 1 .. Slots /\ m[f] # NotOpen
  BY OpenParts DEF FilesSound, IsTemp
<1>2. r \in Temp /\ r # NotOpen /\ r.kind = "temp" /\ r.handle = s /\ r.size = n
  BY <1>1, MemFileAssumption DEF Temp
<1>3. k = [m EXCEPT ![f] = r] /\ k[f] = r /\ \A g \in Files : g # f => k[g] = m[g]
  BY DEF FilesSound, FilesTyped, Rewrites
<1>4. k \in [Files -> {NotOpen} \cup Private \cup Temp]
  BY <1>2, <1>3 DEF FilesSound, FilesTyped
<1>5. /\ p \in [1 .. Slots -> [inUse : BOOLEAN, bytes : FileContent]]
      /\ c \in FileContent
  BY DEF FilesSound, FilesTyped, FileContent
<1>6. /\ q \in [1 .. Slots -> [inUse : BOOLEAN, bytes : FileContent]]
      /\ q[s].bytes = c /\ q[s].inUse = p[s].inUse /\ \A t \in 1 .. Slots : t # s => q[t] = p[t]
  BY <1>1, <1>5 DEF Rewrites
<1> HIDE DEF r
<1>7. \A g \in Files : IsTemp(m, g) => /\ m[g].handle \in 1 .. Slots /\ p[m[g].handle].inUse
                                       /\ IsTemp(k, g) /\ k[g].handle = m[g].handle
                                       /\ g # f => m[g].handle # s /\ k[g] = m[g]
  BY <1>2, <1>3, OpenParts DEF FilesSound, Slotted, IsTemp
<1>8. \A g \in Files : IsTemp(k, g) => IsTemp(m, g)
  BY <1>2, <1>3 DEF IsTemp
<1>9. Slotted(k, q, u)
  <2>1. ASSUME NEW g \in Files, IsTemp(k, g)
        PROVE  q[k[g].handle].inUse /\ DOMAIN q[k[g].handle].bytes = 0 .. k[g].size - 1
    <3>1. CASE g = f
      BY <1>2, <1>3, <1>6, <1>7, <3>1
    <3>2. CASE g # f
      BY <1>6, <1>7, <1>8, <2>1, <3>2 DEF FilesSound, Slotted
    <3> QED
      BY <3>1, <3>2
  <2>2. \A g, h \in Files : IsTemp(k, g) /\ IsTemp(k, h) /\ k[g].handle = k[h].handle => g = h
    BY <1>7, <1>8 DEF FilesSound, Slotted
  <2>3. ASSUME u, NEW t \in 1 .. Slots, q[t].inUse
        PROVE  \E g \in Files : IsTemp(k, g) /\ k[g].handle = t
    <3>1. p[t].inUse
      BY <1>6, <2>3
    <3>2. PICK g \in Files : IsTemp(m, g) /\ m[g].handle = t
      BY <2>3, <3>1 DEF FilesSound, Slotted
    <3> QED
      BY <1>7, <3>2
  <2>4. u => \A t \in 1 .. Slots : ~q[t].inUse => q[t].bytes = Empty
    <3>1. p[s].inUse
      BY <1>7
    <3> QED
      BY <1>6, <3>1 DEF FilesSound, Slotted
  <2>5. ~u => \A g \in Files : k[g] = NotOpen
    BY <1>1 DEF FilesSound, Slotted
  <2> QED
    BY <2>1, <2>2, <2>3, <2>4, <2>5 DEF Slotted
<1>10. \A g \in Files : IsPrivate(k, g) => BufferOk(k[g])
  BY <1>2, <1>3 DEF FilesSound, IsPrivate
<1>11. FilesSound(k, q, u)
  BY <1>4, <1>6, <1>9, <1>10 DEF FilesSound, FilesTyped
<1>12. Puts(ContentsOf(m, p), ContentsOf(k, q), f, IF r # NotOpen THEN BytesOf(r, q) ELSE NotOpen)
  <2>1. Replaces(m, k, f, r) /\ Spares(m, f, p, q)
    BY <1>3, <1>6, <1>7 DEF Replaces, Spares
  <2> QED
    BY <2>1, OneFile
<1>13. BytesOf(r, q) = c
  BY <1>2, <1>6 DEF BytesOf
<1> QED
  BY <1>2, <1>11, <1>12, <1>13

\* A file is closed: its slot, if it has one, is empty again.
Closes(m, p, q, f) == q = IF m[f].kind = "temp" THEN [p EXCEPT ![m[f].handle] = TempClosed(@)] ELSE p

LEMMA CloseKeeps ==
    ASSUME NEW m, NEW p, NEW u, FilesSound(m, p, u), u = TRUE, NEW f \in Files, m[f] # NotOpen,
           NEW q, Closes(m, p, q, f), NEW k, Puts(m, k, f, NotOpen)
    PROVE  FilesSound(k, q, u) /\ Puts(ContentsOf(m, p), ContentsOf(k, q), f, NotOpen)
<1>1. k[f] = NotOpen /\ \A g \in Files : g # f => k[g] = m[g]
  BY DEF FilesSound, FilesTyped, Puts
<1>2. k \in [Files -> {NotOpen} \cup Private \cup Temp]
  BY DEF FilesSound, FilesTyped, Puts
<1>3. \A g \in Files : IsTemp(k, g) <=> IsTemp(m, g) /\ g # f
  BY <1>1 DEF IsTemp
<1>4. \A g \in Files : IsTemp(m, g) => m[g].handle \in 1 .. Slots
  BY OpenParts DEF FilesSound, IsTemp
<1>5. p \in [1 .. Slots -> [inUse : BOOLEAN, bytes : FileContent]]
  BY DEF FilesSound, FilesTyped
<1>6. \A x : TempClosed(x) = [inUse |-> FALSE, bytes |-> Empty]
  BY DEF TempClosed, HandleTruncate, Empty
<1>7. Empty \in FileContent
  <2>1. Empty \in [0 .. 0 - 1 -> Byte] /\ 0 \in 0 .. MaxSize
    BY MemFileAssumption DEF Empty
  <2> QED
    BY <2>1 DEF FileContent
<1>8. /\ q \in [1 .. Slots -> [inUse : BOOLEAN, bytes : FileContent]]
      /\ \A t \in 1 .. Slots : ~(IsTemp(m, f) /\ t = m[f].handle) => q[t] = p[t]
      /\ IsTemp(m, f) => ~q[m[f].handle].inUse /\ q[m[f].handle].bytes = Empty
  <2>1. CASE m[f].kind = "temp"
    BY <1>4, <1>5, <1>6, <1>7, <2>1 DEF IsTemp, Closes
  <2>2. CASE m[f].kind # "temp"
    BY <1>5, <2>2 DEF IsTemp, Closes
  <2> QED
    BY <2>1, <2>2
<1>9. \A g \in Files : g # f /\ IsTemp(m, g) => q[m[g].handle] = p[m[g].handle]
  BY <1>4, <1>8 DEF FilesSound, Slotted
<1>10. Slotted(k, q, u)
  <2>1. \A g \in Files : IsTemp(k, g) =>
            q[k[g].handle].inUse /\ DOMAIN q[k[g].handle].bytes = 0 .. k[g].size - 1
    BY <1>1, <1>3, <1>9 DEF FilesSound, Slotted
  <2>2. \A g, h \in Files : IsTemp(k, g) /\ IsTemp(k, h) /\ k[g].handle = k[h].handle => g = h
    BY <1>1, <1>3 DEF FilesSound, Slotted
  <2>3. ASSUME NEW t \in 1 .. Slots, q[t].inUse
        PROVE  \E g \in Files : IsTemp(k, g) /\ k[g].handle = t
    <3>1. ~(IsTemp(m, f) /\ t = m[f].handle) /\ p[t].inUse
      BY <1>8, <2>3
    <3>2. PICK g \in Files : IsTemp(m, g) /\ m[g].handle = t
      BY <3>1 DEF FilesSound, Slotted
    <3> QED
      BY <1>1, <1>3, <3>1, <3>2
  <2>4. \A t \in 1 .. Slots : ~q[t].inUse => q[t].bytes = Empty
    BY <1>8 DEF FilesSound, Slotted
  <2> QED
    BY <2>1, <2>2, <2>3, <2>4 DEF Slotted
<1>11. \A g \in Files : IsPrivate(k, g) => BufferOk(k[g])
  BY <1>1 DEF FilesSound, IsPrivate
<1>12. FilesSound(k, q, u)
  BY <1>2, <1>8, <1>10, <1>11 DEF FilesSound, FilesTyped
<1>13. Puts(ContentsOf(m, p), ContentsOf(k, q), f,
                IF NotOpen # NotOpen THEN BytesOf(NotOpen, q) ELSE NotOpen)
  <2>1. Replaces(m, k, f, NotOpen) /\ Spares(m, f, p, q)
    BY <1>1, <1>9 DEF Replaces, Spares
  <2> QED
    BY <2>1, OneFile
<1> QED
  BY <1>12, <1>13

-----------------------------------------------------------------------------
\* What is written in an OPFS file is what the store has.
WritesAlike(c, o, n, b) == HandleWrite(c, o, n, b) = Store0!Written(c, o, n, b)

LEMMA HandleWrites ==
    ASSUME NEW k \in 0 .. MaxSize, NEW c \in [0 .. k - 1 -> Byte], NEW o \in Nat, NEW n \in Nat,
           NEW b \in Byte, o + n <= MaxSize
    PROVE  /\ HandleWrite(c, o, n, b) \in [0 .. Larger(k, o + n) - 1 -> Byte]
           /\ WritesAlike(c, o, n, b)
           /\ Larger(k, o + n) \in 0 .. MaxSize
<1>1. MaxSize \in Nat /\ Zero \in Byte /\ k \in Nat /\ o + n \in Nat
  BY MemFileAssumption
<1>2. LengthOf(c) = k /\ Store0!SizeOf(c) = k /\ DOMAIN c = 0 .. k - 1
  BY LengthIs, SizeIs
<1>3. Larger(k, o + n) = Larger(o + n, k) /\ Larger(k, o + n) \in 0 .. MaxSize
  BY <1>1 DEF Larger
<1>4. Larger(o + n, k) = IF o + n > k THEN o + n ELSE k
  BY DEF Larger
<1> DEFINE d == [i \in 0 .. Larger(k, o + n) - 1 |->
                    IF i \in o .. o + n - 1 THEN b ELSE IF i \in 0 .. k - 1 THEN c[i] ELSE Zero]
<1>5. d \in [0 .. Larger(k, o + n) - 1 -> Byte]
  BY <1>1
<1>6. HandleWrite(c, o, n, b) = d
  BY <1>2, <1>3 DEF HandleWrite
<1>7. Store0!Written(c, o, n, b) = d
  BY <1>2, <1>3, <1>4 DEF Store0!Written
<1> QED
  BY <1>3, <1>5, <1>6, <1>7 DEF WritesAlike

\* memGrow keeps what a buffer has, and adds zeroes.
Lengthens(data, len, grown, k) ==
    grown = [i \in 0 .. k - 1 |-> IF i \in 0 .. len - 1 THEN data[i] ELSE Zero]

LEMMA BufferGrows ==
    ASSUME NEW len \in Capacities, NEW data \in [0 .. len - 1 -> Byte], NEW needed \in 1 .. MaxSize
    PROVE  \E k \in Capacities : /\ k >= len /\ k >= needed
                                 /\ Lengthens(data, len, Grow(data, needed), k)
<1>1. LengthOf(data) = len /\ len \in Nat /\ DOMAIN data = 0 .. len - 1 /\ Capacities \subseteq Nat
  BY LengthIs, MemFileAssumption
<1>2. CASE needed <= len
  <2>1. Grow(data, needed) = data
    BY <1>1, <1>2 DEF Grow
  <2>2. data = [i \in 0 .. len - 1 |-> data[i]]
    OBVIOUS
  <2>3. data = [i \in 0 .. len - 1 |-> IF i \in 0 .. len - 1 THEN data[i] ELSE Zero]
    BY <2>2
  <2>4. Lengthens(data, len, Grow(data, needed), len) /\ len >= len /\ len >= needed
    BY <1>1, <1>2, <2>1, <2>3 DEF Lengthens
  <2> QED
    BY <2>4
<1>3. CASE ~(needed <= len)
  <2>1. GrownTo(needed) \in Capacities /\ GrownTo(needed) >= needed
    BY GrowsEnough
  <2>2. Grow(data, needed)
         = [i \in 0 .. GrownTo(needed) - 1 |-> IF i \in 0 .. len - 1 THEN data[i] ELSE Zero]
    BY <1>1, <1>3 DEF Grow
  <2>3. GrownTo(needed) \in Nat /\ needed \in Nat
    <3>1. MaxSize \in Nat /\ \A k \in Capacities : k \in Nat
      BY MemFileAssumption
    <3> QED
      BY <2>1, <3>1
  <2>4. GrownTo(needed) >= len
    BY <1>1, <1>3, <2>1, <2>3
  <2>5. Lengthens(data, len, Grow(data, needed), GrownTo(needed))
    BY <2>2 DEF Lengthens
  <2> QED
    BY <2>1, <2>4, <2>5
<1> QED
  BY <1>2, <1>3

\* The private file r after a write, and what it holds.
Writes(r, s, o, n, b) == s = [r EXCEPT !.data = Store(Grow(r.data, o + n), o, n, b),
                                       !.size = Larger(r.size, o + n)]

LEMMA PrivateWrites ==
    ASSUME NEW r \in Private, BufferOk(r), NEW o \in Nat, NEW n \in Nat, n >= 1, NEW b \in Byte,
           o + n <= MaxSize, NEW p,
           NEW s, Writes(r, s, o, n, b)
    PROVE  s \in Private /\ BufferOk(s) /\ BytesOf(s, p) = Store0!Written(BytesOf(r, p), o, n, b)
<1>1. PICK len \in Capacities : /\ r.data \in [0 .. len - 1 -> Byte]
                                /\ r.size <= len
                                /\ \A i \in 0 .. len - 1 : i >= r.size => r.data[i] = Zero
  BY DEF BufferOk
<1>2. /\ r.kind = "private" /\ r.size \in 0 .. MaxSize
      /\ r = [kind |-> r.kind, size |-> r.size, data |-> r.data]
  BY DEF Private
<1>3. /\ MaxSize \in Nat /\ Capacities \subseteq Nat /\ Zero \in Byte
      /\ len \in Nat /\ r.size \in Nat /\ o + n \in 1 .. MaxSize /\ o + n \in Nat
  BY <1>1, <1>2, MemFileAssumption
<1>4. PICK k \in Capacities : /\ k >= len /\ k >= o + n
                             /\ Lengthens(r.data, len, Grow(r.data, o + n), k)
  BY <1>1, <1>3, BufferGrows
<1> DEFINE longer == Larger(r.size, o + n)
           data == [i \in 0 .. k - 1 |-> IF i \in o .. o + n - 1 THEN b
                                         ELSE IF i \in 0 .. len - 1 THEN r.data[i] ELSE Zero]
<1>5. Store(Grow(r.data, o + n), o, n, b) = data
  BY <1>4 DEF Store, Lengthens
<1>6. s = [kind |-> "private", size |-> longer, data |-> data]
  BY <1>2, <1>5 DEF Writes
<1>7. k \in Nat /\ longer \in 0 .. MaxSize /\ longer \in Nat /\ longer <= k
  <2>1. k \in Nat
    BY <1>3
  <2>2. longer = IF r.size > o + n THEN r.size ELSE o + n
    BY DEF Larger
  <2>3. r.size <= k /\ o + n <= k /\ r.size \in 0 .. MaxSize
    BY <1>1, <1>2, <1>3, <1>4, <2>1
  <2> HIDE DEF longer
  <2>4. longer = r.size \/ longer = o + n
    BY <2>2
  <2> QED
    BY <1>3, <2>1, <2>3, <2>4
<1>8. data \in [0 .. k - 1 -> Byte]
  BY <1>1, <1>3
<1>9. \A i \in 0 .. k - 1 : i >= longer => data[i] = Zero
  <2> SUFFICES ASSUME NEW i \in 0 .. k - 1, i >= longer PROVE data[i] = Zero
    OBVIOUS
  <2>1. i \notin o .. o + n - 1 /\ i >= r.size
    BY <1>3, <1>7 DEF Larger
  <2> QED
    BY <1>1, <2>1
<1> DEFINE c == [i \in 0 .. r.size - 1 |-> r.data[i]]
           d == [i \in 0 .. longer - 1 |->
                    IF i \in o .. o + n - 1 THEN b ELSE IF i \in 0 .. r.size - 1 THEN c[i] ELSE Zero]
<1>10. BytesOf(r, p) = c
  BY <1>2 DEF BytesOf
<1>11. Store0!SizeOf(c) = r.size /\ DOMAIN c = 0 .. r.size - 1
  BY <1>2, SizeIs
<1>12. Store0!Written(c, o, n, b) = d
  <2>1. longer = IF o + n > r.size THEN o + n ELSE r.size
    BY <1>3 DEF Larger
  <2> HIDE DEF longer, c
  <2> QED
    BY <1>11, <2>1 DEF Store0!Written
<1>13. BytesOf(s, p) = [i \in 0 .. longer - 1 |-> data[i]]
  <2> HIDE DEF data, longer
  <2>1. s.kind = "private" /\ s.size = longer /\ s.data = data
    BY <1>6
  <2> QED
    BY <2>1 DEF BytesOf
<1>14. \A i \in 0 .. longer - 1 : data[i] = d[i]
  <2> SUFFICES ASSUME NEW i \in 0 .. longer - 1 PROVE data[i] = d[i]
    OBVIOUS
  <2>1. i \in 0 .. k - 1
    BY <1>7
  <2>2. CASE i \in o .. o + n - 1
    BY <2>1, <2>2
  <2>3. CASE i \notin o .. o + n - 1 /\ i \in 0 .. r.size - 1
    <3>1. i \in 0 .. len - 1
      BY <1>1, <1>3, <2>3
    <3> QED
      BY <2>1, <2>3, <3>1
  <2>4. CASE i \notin o .. o + n - 1 /\ i \notin 0 .. r.size - 1
    <3>1. i >= r.size
      BY <1>3, <1>7, <2>4
    <3>2. d[i] = Zero
      BY <2>4
    <3>3. data[i] = Zero
      BY <1>1, <2>1, <2>4, <3>1
    <3> QED
      BY <3>2, <3>3
  <2> QED
    BY <2>2, <2>3, <2>4
<1>15. [i \in 0 .. longer - 1 |-> data[i]] = d
  BY <1>14
<1>16. s \in Private
  BY <1>6, <1>7, <1>8 DEF Private
<1>17. BufferOk(s)
  <2> HIDE DEF data, longer
  <2>1. s.data = data /\ s.size = longer
    BY <1>6
  <2> QED
    BY <1>7, <1>8, <1>9, <2>1 DEF BufferOk
<1> HIDE DEF c, d, data, longer
<1> QED
  BY <1>10, <1>12, <1>13, <1>15, <1>16, <1>17

\* The private file r after a truncation, and what it holds.
Truncates(r, s, n) == s = [r EXCEPT !.data = Cleared(r.data, n, r.size), !.size = n]

LEMMA PrivateTruncates ==
    ASSUME NEW r \in Private, BufferOk(r), NEW n \in Nat, n <= r.size, NEW p,
           NEW s, Truncates(r, s, n)
    PROVE  s \in Private /\ BufferOk(s) /\ BytesOf(s, p) = [i \in 0 .. n - 1 |-> BytesOf(r, p)[i]]
<1>1. PICK len \in Capacities : /\ r.data \in [0 .. len - 1 -> Byte]
                                /\ r.size <= len
                                /\ \A i \in 0 .. len - 1 : i >= r.size => r.data[i] = Zero
  BY DEF BufferOk
<1>2. /\ r.kind = "private" /\ r.size \in 0 .. MaxSize
      /\ r = [kind |-> r.kind, size |-> r.size, data |-> r.data]
  BY DEF Private
<1>3. /\ MaxSize \in Nat /\ Zero \in Byte /\ len \in Nat /\ r.size \in Nat /\ n \in 0 .. MaxSize
  BY <1>1, <1>2, MemFileAssumption
<1> DEFINE data == [i \in 0 .. len - 1 |-> IF i \in n .. r.size - 1 THEN Zero ELSE r.data[i]]
<1>4. Cleared(r.data, n, r.size) = data
  BY <1>1 DEF Cleared
<1>5. s = [kind |-> "private", size |-> n, data |-> data]
  BY <1>2, <1>4 DEF Truncates
<1>6. data \in [0 .. len - 1 -> Byte]
  BY <1>1, <1>3
<1>7. \A i \in 0 .. len - 1 : i >= n => data[i] = Zero
  <2> SUFFICES ASSUME NEW i \in 0 .. len - 1, i >= n PROVE data[i] = Zero
    OBVIOUS
  <2>1. i \in n .. r.size - 1 \/ i >= r.size
    BY <1>3
  <2> QED
    BY <1>1, <2>1
<1>8. s \in Private
  BY <1>3, <1>5, <1>6 DEF Private
<1>9. BytesOf(s, p) = [i \in 0 .. n - 1 |-> data[i]]
  <2> HIDE DEF data
  <2>1. s.kind = "private" /\ s.size = n /\ s.data = data
    BY <1>5
  <2> QED
    BY <2>1 DEF BytesOf
<1>10. BytesOf(r, p) = [i \in 0 .. r.size - 1 |-> r.data[i]]
  BY <1>2 DEF BytesOf
<1>11. \A i \in 0 .. n - 1 : data[i] = BytesOf(r, p)[i]
  <2> SUFFICES ASSUME NEW i \in 0 .. n - 1 PROVE data[i] = BytesOf(r, p)[i]
    OBVIOUS
  <2>1. i \in 0 .. len - 1 /\ i \in 0 .. r.size - 1 /\ i \notin n .. r.size - 1
    BY <1>1, <1>3
  <2> QED
    BY <1>10, <2>1
<1>12. BufferOk(s)
  <2> HIDE DEF data
  <2>1. s.data = data /\ s.size = n
    BY <1>5
  <2>2. n <= len
    BY <1>1, <1>3
  <2> QED
    BY <1>6, <1>7, <2>1, <2>2 DEF BufferOk
<1> HIDE DEF data
<1> QED
  BY <1>8, <1>9, <1>11, <1>12

-----------------------------------------------------------------------------
\* A step of the store, from contents C to contents D.
StoreSteps(C, D) ==
    \/ \E f \in Files : /\ C[f] = NotOpen
                        /\ D = [C EXCEPT ![f] = Empty]
    \/ \E f \in Files : /\ C[f] # NotOpen
                        /\ \E o \in 0 .. MaxSize - 1, b \in Byte : \E n \in 1 .. MaxSize - o :
                              D = [C EXCEPT ![f] = Store0!Written(C[f], o, n, b)]
    \/ \E f \in Files : /\ C[f] # NotOpen
                        /\ \E n \in 0 .. Store0!SizeOf(C[f]) :
                              D = [C EXCEPT ![f] = [i \in 0 .. n - 1 |-> C[f][i]]]
    \/ \E f \in Files : /\ C[f] # NotOpen
                        /\ D = [C EXCEPT ![f] = NotOpen]
    \/ D = [f \in Files |-> NotOpen]
    \/ D = C

Does == /\ FilesSound(memFiles', pool', up')
        /\ StoreSteps(ContentsOf(memFiles, pool), ContentsOf(memFiles', pool'))

\* What is known of a file in the contents.
LEMMA ContentParts ==
    ASSUME NEW m, NEW p, NEW u, FilesSound(m, p, u), NEW f \in Files
    PROVE  /\ m[f] = NotOpen => ContentsOf(m, p)[f] = NotOpen
           /\ m[f] # NotOpen => ContentsOf(m, p)[f] = BytesOf(m[f], p)
           /\ m[f] # NotOpen => ContentsOf(m, p)[f] # NotOpen
           /\ m[f] # NotOpen => Store0!SizeOf(ContentsOf(m, p)[f]) = m[f].size
<1>1. m[f] = NotOpen => ContentsOf(m, p)[f] = NotOpen
  BY DEF ContentsOf
<1>2. ASSUME m[f] # NotOpen
      PROVE  /\ ContentsOf(m, p)[f] = BytesOf(m[f], p)
             /\ ContentsOf(m, p)[f] # NotOpen
             /\ Store0!SizeOf(ContentsOf(m, p)[f]) = m[f].size
  <2>1. ContentsOf(m, p)[f] = BytesOf(m[f], p)
    BY <1>2 DEF ContentsOf
  <2>2. m[f].size \in 0 .. MaxSize
    BY <1>2, OpenParts DEF FilesSound
  <2> DEFINE c == BytesOf(m[f], p)
  <2>3. c \in [0 .. m[f].size - 1 -> Byte]
    BY <1>2, BytesParts
  <2>4. c \in FileContent
    BY <2>2, <2>3 DEF FileContent
  <2>5. c # NotOpen
    BY <2>4, MemFileAssumption
  <2>6. DOMAIN c = 0 .. m[f].size - 1
    BY <2>3
  <2> HIDE DEF c
  <2>7. Store0!SizeOf(c) = m[f].size
    BY <2>2, <2>6, SizeIs
  <2> QED
    BY <2>1, <2>5, <2>7 DEF c
<1> QED
  BY <1>1, <1>2

\* A new private file is empty.
LEMMA NewPrivateParts ==
    ASSUME NEW p
    PROVE  NewPrivate \in Private /\ BufferOk(NewPrivate) /\ BytesOf(NewPrivate, p) = Empty
<1>1. 0 \in Capacities /\ 0 \in 0 .. MaxSize
  BY MemFileAssumption
<1>2. Empty \in [0 .. 0 - 1 -> Byte]
  BY MemFileAssumption DEF Empty
<1>3. NewPrivate \in Private
  BY <1>1, <1>2 DEF NewPrivate, Private
<1>4. BufferOk(NewPrivate)
  BY <1>1, <1>2 DEF NewPrivate, BufferOk
<1>5. BytesOf(NewPrivate, p) = Empty
  BY DEF NewPrivate, BytesOf, Empty
<1> QED
  BY <1>3, <1>4, <1>5

\* memOpen with a name keeps the files in order and opens an empty one.
LEMMA OpenNamedDoes ==
    ASSUME FilesInv, NEW f \in Files, OpenNamed(f)
    PROVE  Does
<1>1. /\ FilesSound(memFiles, pool, up) /\ up = TRUE /\ memFiles[f] = NotOpen /\ ~IsTemp(memFiles, f)
      /\ Puts(memFiles, memFiles', f, NewPrivate) /\ pool' = pool /\ up' = up
  BY DEF FilesInv, OpenNamed, IsOpen, IsTemp, FilesSound, FilesTyped, Puts
<1>2. /\ FilesSound(memFiles', pool, up)
      /\ Puts(ContentsOf(memFiles, pool), ContentsOf(memFiles', pool), f, BytesOf(NewPrivate, pool))
  BY <1>1, NewPrivateParts, PrivateKeeps
<1>3. ContentsOf(memFiles, pool)[f] = NotOpen
  BY <1>1, ContentParts
<1>4. FilesSound(memFiles', pool', up')
  BY <1>1, <1>2
<1>5. Puts(ContentsOf(memFiles, pool), ContentsOf(memFiles', pool'), f, Empty)
  BY <1>1, <1>2, NewPrivateParts
<1> QED
  BY <1>3, <1>4, <1>5 DEF Does, StoreSteps, Puts

\* memOpen without a name does so too, in a slot or in a buffer.
LEMMA OpenAnonymousDoes ==
    ASSUME FilesInv, NEW f \in Files, OpenAnonymous(f)
    PROVE  Does
<1>1. CASE TempOpen = 0 /\ memFiles' = [memFiles EXCEPT ![f] = NewPrivate] /\ UNCHANGED pool
  <2>1. OpenNamed(f)
    BY <1>1 DEF OpenAnonymous, OpenNamed
  <2> QED
    BY <2>1, OpenNamedDoes
<1>2. CASE /\ TempOpen # 0
           /\ memFiles' = [memFiles EXCEPT ![f] = [kind |-> "temp", size |-> 0, handle |-> TempOpen]]
           /\ pool' = [pool EXCEPT ![TempOpen].inUse = TRUE]
  <2>1. FilesSound(memFiles, pool, up) /\ up = TRUE /\ memFiles[f] = NotOpen /\ up' = up
    BY DEF FilesInv, OpenAnonymous, IsOpen, FilesSound, FilesTyped
  <2>2. TempOpen \in 1 .. Slots /\ ~pool[TempOpen].inUse
    <3>1. FreeSlots \in SUBSET Nat /\ FreeSlots # {}
      BY <1>2 DEF TempOpen, FreeSlots
    <3>2. PICK s \in FreeSlots : \A t \in FreeSlots : s <= t
      BY <3>1, LeastElement
    <3>3. TempOpen \in FreeSlots
      BY <3>1, <3>2 DEF TempOpen
    <3> QED
      BY <3>3 DEF FreeSlots
  <2>3. Puts(memFiles, memFiles', f, NewTemp(TempOpen)) /\ Takes(pool, pool', TempOpen)
    BY <1>2 DEF Puts, Takes, NewTemp
  <2>4. /\ FilesSound(memFiles', pool', up)
        /\ Puts(ContentsOf(memFiles, pool), ContentsOf(memFiles', pool'), f, Empty)
    BY <2>1, <2>2, <2>3, TempOpens
  <2>5. ContentsOf(memFiles, pool)[f] = NotOpen
    BY <2>1, ContentParts
  <2>6. FilesSound(memFiles', pool', up')
    BY <2>1, <2>4
  <2> QED
    BY <2>4, <2>5, <2>6 DEF Does, StoreSteps, Puts
<1> QED
  BY <1>1, <1>2 DEF OpenAnonymous

\* memWrite writes, or leaves everything as it was.
LEMMA WriteDoes ==
    ASSUME FilesInv, NEW f \in Files, NEW o \in 0 .. MaxSize - 1, NEW n \in 1 .. MaxSize, NEW b \in Byte,
           MemWrite(f, o, n, b)
    PROVE  Does
<1>1. /\ FilesSound(memFiles, pool, up) /\ up = TRUE /\ memFiles[f] # NotOpen /\ up' = up
      /\ o \in Nat /\ n \in Nat /\ n >= 1 /\ o + n <= MaxSize /\ n \in 1 .. MaxSize - o
  BY MemFileAssumption DEF FilesInv, MemWrite, IsOpen, FilesSound, FilesTyped
<1> DEFINE C == ContentsOf(memFiles, pool)
           D == ContentsOf(memFiles', pool')
           c == BytesOf(memFiles[f], pool)
<1>2. C[f] = c /\ C[f] # NotOpen
  <2>1. C[f] = c
    BY <1>1, ContentParts
  <2>2. C[f] # NotOpen
    BY <1>1, ContentParts
  <2> QED
    BY <2>1, <2>2
<1>3. ASSUME FilesSound(memFiles', pool', up), Puts(C, D, f, Store0!Written(c, o, n, b))
      PROVE  Does
  <2> HIDE DEF C, D, c
  <2>1. D = [C EXCEPT ![f] = Store0!Written(C[f], o, n, b)]
    BY <1>2, <1>3 DEF Puts
  <2>2. StoreSteps(C, D)
    BY <1>1, <1>2, <2>1 DEF StoreSteps
  <2>3. FilesSound(memFiles', pool', up')
    BY <1>1, <1>3
  <2> QED
    BY <2>2, <2>3 DEF Does, C, D
<1>4. CASE /\ memFiles[f].kind = "temp"
           /\ pool' = [pool EXCEPT ![memFiles[f].handle].bytes = HandleWrite(@, o, n, b)]
           /\ memFiles' = [memFiles EXCEPT ![f].size = Larger(@, o + n)]
  <2> DEFINE k == memFiles[f].size
             s == memFiles[f].handle
  <2>1. IsTemp(memFiles, f) /\ k \in 0 .. MaxSize /\ s \in 1 .. Slots
    BY <1>1, <1>4, OpenParts DEF IsTemp, FilesSound
  <2>2. c \in [0 .. k - 1 -> Byte] /\ c = pool[s].bytes
    BY <1>1, <1>4, BytesParts DEF BytesOf
  <2>3. /\ HandleWrite(c, o, n, b) \in [0 .. Larger(k, o + n) - 1 -> Byte]
        /\ HandleWrite(c, o, n, b) = Store0!Written(c, o, n, b)
        /\ Larger(k, o + n) \in 0 .. MaxSize
    <3>1. c \in [0 .. k - 1 -> Byte]
      BY <2>2
    <3> HIDE DEF c, k
    <3>2. HandleWrite(c, o, n, b) \in [0 .. Larger(k, o + n) - 1 -> Byte]
      BY <1>1, <2>1, <3>1, HandleWrites
    <3>3. WritesAlike(c, o, n, b)
      BY <1>1, <2>1, <3>1, HandleWrites
    <3>4. Larger(k, o + n) \in 0 .. MaxSize
      BY <1>1, <2>1, <3>1, HandleWrites
    <3> QED
      BY <3>2, <3>3, <3>4 DEF WritesAlike
  <2>4. Rewrites(memFiles, pool, memFiles', pool', f, Larger(k, o + n), HandleWrite(c, o, n, b))
    <3>1. pool' = [pool EXCEPT ![s].bytes = HandleWrite(pool[s].bytes, o, n, b)]
      BY <1>4
    <3>2. memFiles' = [memFiles EXCEPT ![f].size = Larger(k, o + n)]
      BY <1>4
    <3> QED
      BY <2>2, <3>1, <3>2 DEF Rewrites
  <2>5. FilesSound(memFiles', pool', up) /\ Puts(C, D, f, HandleWrite(c, o, n, b))
    <3> HIDE DEF k, c
    <3> QED
      BY <1>1, <2>1, <2>3, <2>4, TempKeeps
  <2> QED
    BY <1>3, <2>3, <2>5
<1>5. CASE /\ memFiles[f].kind = "private"
           /\ memFiles' = [memFiles EXCEPT ![f].data = Store(Grow(@, o + n), o, n, b),
                                           ![f].size = Larger(@, o + n)]
           /\ UNCHANGED pool
  <2> DEFINE r == memFiles[f]
             w == [r EXCEPT !.data = Store(Grow(r.data, o + n), o, n, b), !.size = Larger(r.size, o + n)]
  <2>1. r \in Private /\ BufferOk(r) /\ ~IsTemp(memFiles, f)
    BY <1>1, <1>5, OpenParts DEF IsTemp, IsPrivate, FilesSound
  <2>2. Puts(memFiles, memFiles', f, w) /\ pool' = pool
    <3>1. memFiles \in [Files -> {NotOpen} \cup Private \cup Temp]
      BY <1>1 DEF FilesSound, FilesTyped
    <3>2. r = [kind |-> r.kind, size |-> r.size, data |-> r.data]
      BY <2>1 DEF Private
    <3> QED
      BY <1>5, <3>1, <3>2 DEF Puts
  <2>3. Writes(r, w, o, n, b)
    BY DEF Writes
  <2> HIDE DEF w, r
  <2>4. w \in Private /\ BufferOk(w) /\ BytesOf(w, pool) = Store0!Written(BytesOf(r, pool), o, n, b)
    BY <1>1, <2>1, <2>3, PrivateWrites
  <2>5. /\ FilesSound(memFiles', pool, up)
        /\ Puts(ContentsOf(memFiles, pool), ContentsOf(memFiles', pool), f, BytesOf(w, pool))
    BY <1>1, <2>1, <2>2, <2>4, PrivateKeeps
  <2> QED
    BY <1>3, <2>2, <2>4, <2>5 DEF r
<1>6. CASE UNCHANGED <<memFiles, pool>>
  BY <1>1, <1>6 DEF Does, StoreSteps
<1> QED
  BY <1>4, <1>5, <1>6 DEF MemWrite

\* memTruncate cuts the file off.
LEMMA TruncateDoes ==
    ASSUME FilesInv, NEW f \in Files, NEW n \in 0 .. MaxSize, MemTruncate(f, n)
    PROVE  Does
<1>1. /\ FilesSound(memFiles, pool, up) /\ up = TRUE /\ memFiles[f] # NotOpen /\ up' = up
      /\ n \in Nat /\ n <= memFiles[f].size
  BY MemFileAssumption DEF FilesInv, MemTruncate, IsOpen, FilesSound, FilesTyped
<1> DEFINE C == ContentsOf(memFiles, pool)
           D == ContentsOf(memFiles', pool')
           c == BytesOf(memFiles[f], pool)
           k == memFiles[f].size
           s == memFiles[f].handle
<1>2. k \in 0 .. MaxSize /\ k \in Nat /\ n \in 0 .. k
  <2>1. k \in 0 .. MaxSize /\ k \in Nat
    BY <1>1, OpenParts DEF FilesSound
  <2> HIDE DEF k
  <2> QED
    BY <1>1, <2>1 DEF k
<1>3. C[f] = c
  BY <1>1, ContentParts
<1>4. C[f] # NotOpen
  BY <1>1, ContentParts
<1>5. Store0!SizeOf(C[f]) = k
  BY <1>1, ContentParts
<1>6. ASSUME FilesSound(memFiles', pool', up), Puts(C, D, f, [i \in 0 .. n - 1 |-> c[i]])
      PROVE  Does
  <2> HIDE DEF C, D, c, k
  <2>1. D = [C EXCEPT ![f] = [i \in 0 .. n - 1 |-> C[f][i]]]
    BY <1>3, <1>6 DEF Puts
  <2>2. StoreSteps(C, D)
    BY <1>2, <1>4, <1>5, <2>1 DEF StoreSteps
  <2>3. FilesSound(memFiles', pool', up')
    BY <1>1, <1>6
  <2> QED
    BY <2>2, <2>3 DEF Does, C, D
<1>7. CASE /\ memFiles[f].kind = "temp"
           /\ pool' = [pool EXCEPT ![memFiles[f].handle].bytes = HandleTruncate(@, n)]
           /\ memFiles' = [memFiles EXCEPT ![f].size = n]
  <2>1. IsTemp(memFiles, f)
    BY <1>1, <1>7 DEF IsTemp
  <2>2. c \in [0 .. k - 1 -> Byte] /\ c = pool[s].bytes
    BY <1>1, <1>7, BytesParts DEF BytesOf
  <2>3. HandleTruncate(c, n) = [i \in 0 .. n - 1 |-> c[i]]
    BY DEF HandleTruncate
  <2>4. HandleTruncate(c, n) \in [0 .. n - 1 -> Byte]
    <3>1. \A i \in 0 .. n - 1 : i \in 0 .. k - 1
      BY <1>2
    <3> QED
      BY <2>2, <2>3, <3>1
  <2>5. Rewrites(memFiles, pool, memFiles', pool', f, n, HandleTruncate(c, n))
    <3>1. pool' = [pool EXCEPT ![s].bytes = HandleTruncate(pool[s].bytes, n)]
      BY <1>7
    <3> QED
      BY <1>7, <2>2, <3>1 DEF Rewrites
  <2>6. FilesSound(memFiles', pool', up) /\ Puts(C, D, f, HandleTruncate(c, n))
    <3> HIDE DEF k, c
    <3> QED
      BY <1>1, <2>1, <2>4, <2>5, TempKeeps
  <2> QED
    BY <1>6, <2>3, <2>6
<1>8. CASE /\ memFiles[f].kind = "private"
           /\ memFiles' = [memFiles EXCEPT ![f].data = Cleared(@, n, memFiles[f].size), ![f].size = n]
           /\ UNCHANGED pool
  <2> DEFINE r == memFiles[f]
             w == [r EXCEPT !.data = Cleared(r.data, n, r.size), !.size = n]
  <2>1. r \in Private /\ BufferOk(r) /\ ~IsTemp(memFiles, f)
    BY <1>1, <1>8, OpenParts DEF IsTemp, IsPrivate, FilesSound
  <2>2. Puts(memFiles, memFiles', f, w) /\ pool' = pool
    <3>1. memFiles \in [Files -> {NotOpen} \cup Private \cup Temp]
      BY <1>1 DEF FilesSound, FilesTyped
    <3>2. r = [kind |-> r.kind, size |-> r.size, data |-> r.data]
      BY <2>1 DEF Private
    <3> QED
      BY <1>8, <3>1, <3>2 DEF Puts
  <2>3. Truncates(r, w, n)
    BY DEF Truncates
  <2> HIDE DEF w
  <2>4. w \in Private /\ BufferOk(w)
    BY <1>1, <2>1, <2>3, PrivateTruncates
  <2>5. BytesOf(w, pool) = [i \in 0 .. n - 1 |-> c[i]]
    <3>1. r \in Private /\ BufferOk(r) /\ n <= r.size
      BY <1>1, <2>1
    <3> HIDE DEF r
    <3>2. BytesOf(w, pool) = [i \in 0 .. n - 1 |-> BytesOf(r, pool)[i]]
      BY <1>1, <2>3, <3>1, PrivateTruncates
    <3> QED
      BY <3>2 DEF r
  <2>6. /\ FilesSound(memFiles', pool, up)
        /\ Puts(ContentsOf(memFiles, pool), ContentsOf(memFiles', pool), f, BytesOf(w, pool))
    BY <1>1, <2>1, <2>2, <2>4, PrivateKeeps
  <2> QED
    BY <1>6, <2>2, <2>5, <2>6
<1> QED
  BY <1>7, <1>8 DEF MemTruncate

\* memClose closes the file and no other.
LEMMA CloseDoes ==
    ASSUME FilesInv, NEW f \in Files, MemClose(f)
    PROVE  Does
<1>1. /\ FilesSound(memFiles, pool, up) /\ up = TRUE /\ memFiles[f] # NotOpen /\ up' = up
      /\ Puts(memFiles, memFiles', f, NotOpen) /\ Closes(memFiles, pool, pool', f)
  BY DEF FilesInv, MemClose, IsOpen, FilesSound, FilesTyped, Puts, Closes
<1>2. /\ FilesSound(memFiles', pool', up)
      /\ Puts(ContentsOf(memFiles, pool), ContentsOf(memFiles', pool'), f, NotOpen)
  BY <1>1, CloseKeeps
<1>3. ContentsOf(memFiles, pool)[f] # NotOpen
  BY <1>1, ContentParts
<1>4. FilesSound(memFiles', pool', up')
  BY <1>1, <1>2
<1> QED
  BY <1>2, <1>3, <1>4 DEF Does, StoreSteps, Puts

\* The files of a worker go with it.
LEMMA ShutdownDoes ==
    ASSUME FilesInv, Shutdown
    PROVE  Does
<1>1. memFiles' = [f \in Files |-> NotOpen] /\ pool' = pool /\ up' = FALSE
  BY DEF Shutdown
<1>2. FilesTyped(memFiles', pool', up')
  BY <1>1 DEF FilesInv, FilesSound, FilesTyped
<1>3. \A f \in Files : ~IsTemp(memFiles', f) /\ ~IsPrivate(memFiles', f)
  BY <1>1 DEF IsTemp, IsPrivate
<1>4. Slotted(memFiles', pool', up')
  BY <1>1, <1>3 DEF Slotted
<1>5. ContentsOf(memFiles', pool') = [f \in Files |-> NotOpen]
  BY <1>1 DEF ContentsOf
<1> QED
  BY <1>2, <1>3, <1>4, <1>5 DEF Does, StoreSteps, FilesSound

\* A worker that starts on the scratch files of another finds them empty.
LEMMA BootstrapDoes ==
    ASSUME FilesInv, Bootstrap
    PROVE  Does
<1>1. memFiles' = memFiles /\ pool' = [s \in 1 .. Slots |-> PoolSlot(pool[s])] /\ up = FALSE /\ up' = TRUE
  BY DEF Bootstrap, FilesInv, FilesSound, FilesTyped
<1>2. \A f \in Files : memFiles[f] = NotOpen
  BY <1>1 DEF FilesInv, FilesSound, Slotted
<1>3. \A x : PoolSlot(x) = [inUse |-> FALSE, bytes |-> Empty]
  BY DEF PoolSlot, HandleTruncate, Empty
<1>4. Empty \in FileContent
  <2>1. Empty \in [0 .. 0 - 1 -> Byte] /\ 0 \in 0 .. MaxSize
    BY MemFileAssumption DEF Empty
  <2> QED
    BY <2>1 DEF FileContent
<1>5. FilesTyped(memFiles', pool', up')
  BY <1>1, <1>3, <1>4 DEF FilesInv, FilesSound, FilesTyped
<1>6. \A f \in Files : ~IsTemp(memFiles', f) /\ ~IsPrivate(memFiles', f)
  BY <1>1, <1>2 DEF IsTemp, IsPrivate
<1>7. \A s \in 1 .. Slots : ~pool'[s].inUse /\ pool'[s].bytes = Empty
  BY <1>1, <1>3
<1>8. Slotted(memFiles', pool', up')
  BY <1>1, <1>6, <1>7 DEF Slotted
<1>9. ContentsOf(memFiles', pool') = ContentsOf(memFiles, pool)
  BY <1>1, <1>2 DEF ContentsOf
<1> QED
  BY <1>5, <1>6, <1>8, <1>9 DEF Does, StoreSteps, FilesSound

\* Every step keeps the files in order and is a step of the store.
LEMMA FilesStep ==
    ASSUME FilesInv, [FilesNext]_filesVars
    PROVE  Does
<1>1. CASE UNCHANGED filesVars
  BY <1>1 DEF filesVars, Does, StoreSteps, FilesInv
<1>2. CASE FilesNext
  BY <1>2, OpenNamedDoes, OpenAnonymousDoes, WriteDoes, TruncateDoes, CloseDoes, ShutdownDoes, BootstrapDoes
     DEF FilesNext
<1> QED
  BY <1>1, <1>2

\* A worker starts without files.
LEMMA FilesStart == FilesInit => FilesInv
<1> SUFFICES ASSUME FilesInit PROVE FilesInv
  OBVIOUS
<1>1. Empty \in FileContent
  <2>1. Empty \in [0 .. 0 - 1 -> Byte] /\ 0 \in 0 .. MaxSize
    BY MemFileAssumption DEF Empty
  <2> QED
    BY <2>1 DEF FileContent
<1>2. FilesTyped(memFiles, pool, up)
  BY <1>1 DEF FilesInit, FilesTyped
<1>3. \A f \in Files : ~IsTemp(memFiles, f) /\ ~IsPrivate(memFiles, f)
  BY DEF FilesInit, IsTemp, IsPrivate
<1>4. Slotted(memFiles, pool, up)
  BY <1>3 DEF FilesInit, Slotted
<1> QED
  BY <1>2, <1>3, <1>4 DEF FilesInv, FilesSound

\* What reads return is what the invariant speaks of.
LEMMA ContentsAre == FilesInv => Contents = ContentsOf(memFiles, pool)
  BY ContentIs DEF FilesInv, Contents, MemRead, IsOpen

\* The invariant implies what is checked of it.
LEMMA InvIsKept == FilesInv => FilesAreKept
<1> SUFFICES ASSUME FilesInv PROVE FilesAreKept
  OBVIOUS
<1>1. FilesSound(memFiles, pool, up)
  BY DEF FilesInv
<1>2. FilesTypeOK
  BY <1>1 DEF FilesSound, FilesTyped, FilesTypeOK
<1>3. ASSUME NEW s \in 1 .. Slots, up,
             NEW owners, owners = {f \in Files : IsOpen(f) /\ memFiles[f].kind = "temp" /\ memFiles[f].handle = s}
      PROVE  IF pool[s].inUse
             THEN \E f \in Files : owners = {f} /\ DOMAIN pool[s].bytes = 0 .. memFiles[f].size - 1
             ELSE owners = {} /\ pool[s].bytes = Empty
  <2>1. owners = {f \in Files : IsTemp(memFiles, f) /\ memFiles[f].handle = s}
    BY <1>3 DEF IsOpen, IsTemp
  <2>2. CASE pool[s].inUse
    <3>1. PICK f \in Files : IsTemp(memFiles, f) /\ memFiles[f].handle = s
      BY <1>1, <1>3, <2>2 DEF FilesSound, Slotted
    <3>2. owners = {f}
      BY <1>1, <2>1, <3>1 DEF FilesSound, Slotted
    <3>3. DOMAIN pool[s].bytes = 0 .. memFiles[f].size - 1
      BY <1>1, <3>1 DEF FilesSound, Slotted
    <3> QED
      BY <2>2, <3>2, <3>3
  <2>3. CASE ~pool[s].inUse
    <3>1. \A f \in Files : IsTemp(memFiles, f) => memFiles[f].handle # s
      BY <1>1, <2>3 DEF FilesSound, Slotted
    <3>2. pool[s].bytes = Empty
      BY <1>1, <1>3, <2>3 DEF FilesSound, Slotted
    <3> QED
      BY <2>1, <2>3, <3>1, <3>2
  <2> QED
    BY <2>2, <2>3
<1>4. SlotsHaveOneOwner
  BY <1>3 DEF SlotsHaveOneOwner
<1>5. ASSUME NEW f \in Files, IsOpen(f), memFiles[f].kind = "private"
      PROVE  /\ memFiles[f].size <= LengthOf(memFiles[f].data)
             /\ \A i \in DOMAIN memFiles[f].data : i >= memFiles[f].size => memFiles[f].data[i] = Zero
  <2> DEFINE r == memFiles[f]
  <2>1. PICK n \in Capacities : /\ r.data \in [0 .. n - 1 -> Byte] /\ r.size <= n
                                /\ \A i \in 0 .. n - 1 : i >= r.size => r.data[i] = Zero
    BY <1>1, <1>5 DEF FilesSound, IsPrivate, IsOpen, BufferOk
  <2>2. DOMAIN r.data = 0 .. n - 1
    BY <2>1
  <2> HIDE DEF r
  <2>3. LengthOf(r.data) = n
    BY <2>2, LengthIs
  <2> QED
    BY <2>1, <2>2, <2>3 DEF r
<1>6. TailsAreClean
  BY <1>5 DEF TailsAreClean
<1> QED
  BY <1>2, <1>4, <1>6 DEF FilesAreKept

\* A private or temporary file is what FileStore promises: whatever is opened,
\* written, truncated and closed, whether or not a buffer can grow, and across
\* the end of a worker, which leaves its scratch files behind (memOpen to
\* memClose of sqlite3_vfs_mem.c, the pool of replay-worker.js).
THEOREM EveryFileIsAFile == FilesSpec => FilesAreFiles
<1>1. FilesInit => FilesInv
  BY FilesStart
<1>2. FilesInv /\ [FilesNext]_filesVars => FilesInv'
  BY FilesStep DEF Does, FilesInv
<1>3. FilesInv => FilesAreKept
  BY InvIsKept
<1>4. FilesInit => Store0!FsInit
  BY DEF FilesInit, Store0!FsInit, Contents, IsOpen
<1>5. FilesInv /\ FilesInv' /\ [FilesNext]_filesVars => [Store0!FsNext]_Contents
  <2> SUFFICES ASSUME FilesInv, FilesInv', [FilesNext]_filesVars
               PROVE  Store0!FsNext \/ Contents' = Contents
    OBVIOUS
  <2> DEFINE C == ContentsOf(memFiles, pool)
             D == ContentsOf(memFiles', pool')
  <2>1. Contents = C
    BY ContentsAre
  <2>2. Contents' = D
    <3>1. FilesSound(memFiles', pool', up')
      BY DEF FilesInv
    <3> QED
      BY <3>1, ContentIs DEF Contents, MemRead, IsOpen
  <2>3. StoreSteps(C, D)
    BY FilesStep DEF Does
  <2> HIDE DEF C, D
  <2>4. CASE \E f \in Files : C[f] = NotOpen /\ D = [C EXCEPT ![f] = Empty]
    BY <2>1, <2>2, <2>4 DEF Store0!FsNext, Store0!FsOpen, Empty
  <2>5. CASE \E f \in Files : /\ C[f] # NotOpen
                              /\ \E o \in 0 .. MaxSize - 1, b \in Byte : \E n \in 1 .. MaxSize - o :
                                    D = [C EXCEPT ![f] = Store0!Written(C[f], o, n, b)]
    BY <2>1, <2>2, <2>5 DEF Store0!FsNext, Store0!FsWrite
  <2>6. CASE \E f \in Files : /\ C[f] # NotOpen
                              /\ \E n \in 0 .. Store0!SizeOf(C[f]) :
                                    D = [C EXCEPT ![f] = [i \in 0 .. n - 1 |-> C[f][i]]]
    <3>1. PICK f \in Files : /\ C[f] # NotOpen
                             /\ \E n \in 0 .. Store0!SizeOf(C[f]) :
                                   D = [C EXCEPT ![f] = [i \in 0 .. n - 1 |-> C[f][i]]]
      BY <2>6
    <3>2. PICK n \in 0 .. Store0!SizeOf(C[f]) : D = [C EXCEPT ![f] = [i \in 0 .. n - 1 |-> C[f][i]]]
      BY <3>1
    <3>3. Contents' = [Contents EXCEPT ![f] = [i \in 0 .. n - 1 |-> Contents[f][i]]]
      BY <2>1, <2>2, <3>2
    <3>4. Store0!FsTruncate(f)
      BY <2>1, <3>1, <3>3 DEF Store0!FsTruncate
    <3> QED
      BY <3>4 DEF Store0!FsNext
  <2>7. CASE \E f \in Files : C[f] # NotOpen /\ D = [C EXCEPT ![f] = NotOpen]
    BY <2>1, <2>2, <2>7 DEF Store0!FsNext, Store0!FsClose
  <2>8. CASE D = [f \in Files |-> NotOpen]
    BY <2>1, <2>2, <2>8 DEF Store0!FsNext, Store0!FsVanish
  <2>9. CASE D = C
    BY <2>1, <2>2, <2>9
  <2> QED
    BY <2>3, <2>4, <2>5, <2>6, <2>7, <2>8, <2>9 DEF StoreSteps
<1> QED
  BY <1>1, <1>2, <1>3, <1>4, <1>5, PTL DEF FilesSpec, FilesAreFiles, Store0!FsSpec
=============================================================================

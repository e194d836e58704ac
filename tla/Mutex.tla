------------------------------- MODULE Mutex -------------------------------
(***************************************************************************)
(* The mutexes written for SQLite on WebAssembly threads                   *)
(* (sqlite3/sqlite3_mutex_wasm.c), one atomic access a step.  No file of   *)
(* the build hands them to SQLite, whose own mutexes then do nothing: this *)
(* is what the file promises, not what the threads run.                    *)
(*                                                                         *)
(* The callers are SQLite's code in any number of threads, which keep its  *)
(* contract: a mutex is left by who entered it, only a recursive one is    *)
(* entered again, none is freed in use, and all are taken in one order.    *)
(* A plain store by the only thread that can reach the mutex is one step   *)
(* with the access before it.  Bound of the model: MaxDepth enters of one  *)
(* thread.                                                                 *)
(*                                                                         *)
(* Both arrays are zeroed and zero is the id of the loader's thread: until *)
(* somebody stores an owner in a static mutex, the loader owns it.         *)
(***************************************************************************)
EXTENDS Integers, FiniteSets

CONSTANTS Thread,       \* the ids thread_main gives out
          Loader,       \* 0, the id of the loader's thread, and what a zeroed owner says
          PoolSize,     \* WASM_MUTEX_POOL_SIZE
          StaticCount,  \* WASM_MUTEX_STATIC_COUNT
          None,         \* -1, the id of no thread
          MaxDepth

ASSUME MutexConstants == /\ None \notin Thread /\ Loader \in Thread
                         /\ PoolSize \in Nat \ {0} /\ StaticCount \in Nat
                         /\ MaxDepth \in Nat \ {0}

Pool   == 1 .. PoolSize                                \* g_pool
Static == PoolSize + 1 .. PoolSize + StaticCount       \* g_static
Mutexes == Pool \cup Static

VARIABLES locked, owner, in_use, depth, is_recursive,  \* struct sqlite3_mutex
          call,     \* each thread's call: where it is, and for which mutex
          entered,  \* callers: how often a thread has entered a mutex
          lent,     \* callers: the mutexes they were given and have not freed
          fresh,    \* history: the static mutexes whose owner nobody has stored
          zero,     \* history: those of them that the loader just read as its own
          misled    \* history: those it then found locked, and went into

fields == <<locked, owner, in_use, depth, is_recursive>>
history == <<fresh, zero, misled>>
mutexVars == <<fields, call, entered, lent, history>>

Idle == [at |-> "idle", m |-> 1, recursive |-> FALSE, try |-> FALSE]

MutexInit ==
    /\ locked = [m \in Mutexes |-> FALSE] /\ owner = [m \in Mutexes |-> Loader]
    /\ in_use = [m \in Mutexes |-> FALSE] /\ depth = [m \in Mutexes |-> 0]
    /\ is_recursive = [m \in Mutexes |-> FALSE]
    /\ call = [t \in Thread |-> Idle]
    /\ entered = [t \in Thread |-> [m \in Mutexes |-> 0]]
    /\ lent = {} /\ fresh = Static /\ zero = {} /\ misled = {}

Calls(t)      == call[t].at = "idle"
Goes(t, step) == call' = [call EXCEPT ![t].at = step]
Returns(t)    == call' = [call EXCEPT ![t] = Idle]

-----------------------------------------------------------------------------
(* wasmMutexAlloc and wasmMutexFree.                                       *)

Alloc(t, recursive) ==
    /\ Calls(t)
    /\ call' = [call EXCEPT ![t] = [at |-> "scan", m |-> 1, recursive |-> recursive, try |-> FALSE]]
    /\ UNCHANGED <<fields, entered, lent, history>>

\* Mutated form of Claimed: the flag is tested and set without a compare-exchange.
ClaimedAnyway(m) == TRUE

\* Does the compare-exchange on in_use succeed?
Claimed(m) == ~in_use[m]

\* The loop over the pool; its last turn returns NULL.
Scan(t) ==
    LET m == call[t].m
    IN  /\ call[t].at = "scan"
        /\ \/ /\ Claimed(m)
              /\ in_use' = [in_use EXCEPT ![m] = TRUE]
              /\ locked' = [locked EXCEPT ![m] = FALSE]
              /\ owner' = [owner EXCEPT ![m] = None]
              /\ depth' = [depth EXCEPT ![m] = 0]
              /\ is_recursive' = [is_recursive EXCEPT ![m] = call[t].recursive]
              /\ lent' = lent \cup {m}
              /\ Returns(t)
           \/ /\ ~Claimed(m)
              /\ IF m < PoolSize THEN call' = [call EXCEPT ![t].m = m + 1] ELSE Returns(t)
              /\ UNCHANGED <<fields, lent>>
        /\ UNCHANGED <<entered, history>>

AllocStatic(t, m) ==
    /\ Calls(t)
    /\ is_recursive' = [is_recursive EXCEPT ![m] = TRUE]
    /\ in_use' = [in_use EXCEPT ![m] = TRUE]
    /\ lent' = lent \cup {m}
    /\ UNCHANGED <<locked, owner, depth, call, entered, history>>

\* A static mutex is never freed.
FreeMutex(t, m) ==
    /\ Calls(t) /\ m \in lent \cap Pool
    /\ \A u \in Thread : entered[u][m] = 0 /\ (call[u].at \notin {"idle", "scan"} => call[u].m # m)
    /\ in_use' = [in_use EXCEPT ![m] = FALSE]
    /\ lent' = lent \ {m}
    /\ UNCHANGED <<locked, owner, depth, is_recursive, call, entered, history>>

-----------------------------------------------------------------------------
(* wasmMutexEnter, wasmMutexTry and wasmMutexLeave.                        *)

Enter(t, m, try) ==
    /\ Calls(t) /\ m \in lent
    /\ entered[t][m] = 0 \/ (is_recursive[m] /\ entered[t][m] < MaxDepth)
    /\ \A k \in Mutexes : entered[t][k] > 0 => k <= m
    /\ call' = [call EXCEPT ![t] = [at |-> "owner?", m |-> m, recursive |-> FALSE, try |-> try]]
    /\ UNCHANGED <<fields, entered, lent, history>>

\* Mutated form of Mine: a thread without an id has the owner of a free mutex.
MineOrNobodys(t, m) == is_recursive[m] /\ owner[m] \in {t, None}

\* is_recursive && atomic_load(&m->owner) == me
Mine(t, m) == is_recursive[m] /\ owner[m] = t

TestOwner(t) ==
    /\ call[t].at = "owner?"
    /\ Goes(t, IF Mine(t, call[t].m) THEN "locked?" ELSE "exchange")
    /\ zero' = IF t = Loader /\ Mine(t, call[t].m) THEN fresh \cap {call[t].m} ELSE zero
    /\ UNCHANGED <<fields, entered, lent, fresh, misled>>

TestLocked(t) ==
    /\ call[t].at = "locked?"
    /\ Goes(t, IF locked[call[t].m] THEN "deepen" ELSE "exchange")
    /\ misled' = IF t = Loader /\ locked[call[t].m] THEN misled \cup zero ELSE misled
    /\ zero' = IF t = Loader THEN {} ELSE zero
    /\ UNCHANGED <<fields, entered, lent, fresh>>

Deepen(t) ==
    LET m == call[t].m
    IN  /\ call[t].at = "deepen"
        /\ depth' = [depth EXCEPT ![m] = @ + 1]
        /\ entered' = [entered EXCEPT ![t][m] = @ + 1]
        /\ Returns(t)
        /\ UNCHANGED <<locked, owner, in_use, is_recursive, lent, history>>

\* The exchange on locked; without it enter tries again and try answers SQLITE_BUSY.
Exchange(t) ==
    LET m == call[t].m
    IN  /\ call[t].at = "exchange"
        /\ \/ ~locked[m] /\ locked' = [locked EXCEPT ![m] = TRUE] /\ Goes(t, "own")
           \/ locked[m] /\ call[t].try /\ Returns(t) /\ UNCHANGED locked
           \/ locked[m] /\ ~call[t].try /\ UNCHANGED <<locked, call>>
        /\ UNCHANGED <<owner, in_use, depth, is_recursive, entered, lent, history>>

StoreOwner(t) ==
    /\ call[t].at = "own"
    /\ owner' = [owner EXCEPT ![call[t].m] = t] /\ fresh' = fresh \ {call[t].m}
    /\ Goes(t, "first")
    /\ UNCHANGED <<locked, in_use, depth, is_recursive, entered, lent, zero, misled>>

StoreDepth(t) ==
    LET m == call[t].m
    IN  /\ call[t].at = "first"
        /\ depth' = [depth EXCEPT ![m] = 1]
        /\ entered' = [entered EXCEPT ![t][m] = 1]
        /\ Returns(t)
        /\ UNCHANGED <<locked, owner, in_use, is_recursive, lent, history>>

\* m->depth--; if (m->depth > 0) return;
LastEnter(m) == depth[m] <= 1

Leave(t, m) ==
    /\ Calls(t) /\ entered[t][m] > 0
    /\ depth' = [depth EXCEPT ![m] = @ - 1]
    /\ entered' = [entered EXCEPT ![t][m] = @ - 1]
    /\ IF LastEnter(m)
       THEN call' = [call EXCEPT ![t] = [at |-> "disown", m |-> m, recursive |-> FALSE, try |-> FALSE]]
       ELSE UNCHANGED call
    /\ UNCHANGED <<locked, owner, in_use, is_recursive, lent, history>>

Disown(t) ==
    /\ call[t].at = "disown"
    /\ owner' = [owner EXCEPT ![call[t].m] = None] /\ fresh' = fresh \ {call[t].m}
    /\ Goes(t, "unlock")
    /\ UNCHANGED <<locked, in_use, depth, is_recursive, entered, lent, zero, misled>>

Unlocked(m) == FALSE

Unlock(t) ==
    /\ call[t].at = "unlock"
    /\ locked' = [locked EXCEPT ![call[t].m] = Unlocked(call[t].m)]
    /\ Returns(t)
    /\ UNCHANGED <<owner, in_use, depth, is_recursive, entered, lent, history>>

\* wasmMutexHeld
Held(t, m) == locked[m] /\ owner[m] = t

-----------------------------------------------------------------------------
Step(t) == \/ Scan(t) \/ TestOwner(t) \/ TestLocked(t) \/ Deepen(t) \/ Exchange(t)
           \/ StoreOwner(t) \/ StoreDepth(t) \/ Disown(t) \/ Unlock(t)

MutexNext == \E t \in Thread :
            \/ \E recursive \in BOOLEAN : Alloc(t, recursive)
            \/ \E m \in Static : AllocStatic(t, m)
            \/ \E m \in Mutexes : FreeMutex(t, m) \/ Leave(t, m)
            \/ \E m \in Mutexes, try \in BOOLEAN : Enter(t, m, try)
            \/ Step(t)

MutexSpec == MutexInit /\ [][MutexNext]_mutexVars

-----------------------------------------------------------------------------
Steps == {"idle", "scan", "owner?", "locked?", "deepen", "exchange", "own", "first",
          "disown", "unlock"}

MutexTypeOK ==
    /\ locked \in [Mutexes -> BOOLEAN] /\ in_use \in [Mutexes -> BOOLEAN]
    /\ is_recursive \in [Mutexes -> BOOLEAN]
    /\ owner \in [Mutexes -> Thread \cup {None}]
    /\ depth \in [Mutexes -> Int]
    /\ entered \in [Thread -> [Mutexes -> Nat]]
    /\ lent \subseteq Mutexes /\ fresh \cup zero \cup misled \subseteq Static
    /\ call \in [Thread -> [at : Steps, m : Mutexes, recursive : BOOLEAN, try : BOOLEAN]]

\* Two threads are never inside the same mutex, although the owner is written after
\* the lock is taken and erased before it is given back; but for a static mutex that
\* the loader met while another thread was taking it as the first one ever to do so.
Exclusion == \A m \in Mutexes, t, u \in Thread :
                 m \notin misled /\ entered[t][m] > 0 /\ entered[u][m] > 0 => t = u

\* xMutexHeld, asked between calls, is right while other threads are anywhere in
\* theirs, but for the loader before an owner was ever stored; recursion is counted
\* exactly.
HeldIsTrue ==
    \A t \in Thread, m \in Mutexes \ misled :
        Calls(t) => /\ entered[t][m] > 0 => Held(t, m) /\ depth[m] = entered[t][m]
                    /\ Held(t, m) => entered[t][m] > 0 \/ (t = Loader /\ m \in fresh)

\* What SQLite may take for granted of a mutex, at any time and of any thread.
MutexIsExact == MutexTypeOK /\ Exclusion /\ HeldIsTrue

\* A mutex of the pool goes to one caller at a time, and is free when it does: an
\* allocation never resets one that somebody has.
LentOnce == [][\A m \in Pool : locked[m] /\ ~locked'[m] =>
                   \E t \in Thread : call[t].at = "unlock" /\ call[t].m = m]_mutexVars
=============================================================================

---------------------------- MODULE BattleCache ----------------------------
(***************************************************************************)
(* What the playback worker keeps warm per battle, under one memory budget:*)
(* the partial index with its prepared statement that fetch_positions      *)
(* needs (src/replay_worker.c, "ready"), and the derived roster and corpse *)
(* summary (src/replay_export.c, the bc<N> schemas).  A frame builds what  *)
(* it needs whatever the budget says; the two proactive requests may       *)
(* decline, and any of the three may evict other battles.                  *)
(*                                                                         *)
(* Heap use is the sum of what the kept items cost; a build fails when     *)
(* SQLite refuses it (SQLITE_BUSY against another connection's lock), at   *)
(* most once per battle and MaxFailures times in all.  No row is edited    *)
(* meanwhile: a summary that is present is current.                        *)
(***************************************************************************)
EXTENDS Integers, FiniteSets, FiniteSetsExt

CONSTANTS MatchCount,   \* g_match_count
          StartTime,    \* MatchInfo.start_time of each battle
          IndexCost,    \* heap bytes of one battle's index and statement
          SummaryCost,  \* heap bytes of one battle's summary
          Budgets,      \* values setPrimingBudget may carry, 0 for no limit
          MaxFailures   \* bound of the model: how many builds fail

Battle == 0 .. MatchCount - 1
None == -1

ASSUME CacheConstants ==
    /\ MatchCount \in Nat \ {0}
    /\ StartTime \in [Battle -> Nat]
    /\ IndexCost \in [Battle -> Nat]
    /\ SummaryCost \in [Battle -> Nat]
    /\ Budgets \subseteq Nat
    /\ MaxFailures \in Nat

VARIABLES ready,    \* g_battle_ready, as a set
          summary,  \* g_bc_valid, as a set
          active,   \* g_active_match_index
          budget,   \* g_priming_budget_bytes
          failed    \* ghost: the battles whose build failed once

cacheVars == <<ready, summary, active, budget, failed>>

CacheInit == /\ ready = {}
             /\ summary = {}
             /\ active = None
             /\ budget \in Budgets
             /\ failed = {}

-----------------------------------------------------------------------------
\* heap_debug_bytes_inuse of the playback thread with these indexes built.
HeapInUse(built) == MapThenSumSet(LAMBDA b : IndexCost[b], built)
                      + MapThenSumSet(LAMBDA b : SummaryCost[b], summary)

\* replay_is_over_priming_budget
OverBudget(built) == budget > 0 /\ HeapInUse(built) >= budget

\* Elapsed time between the starts of two battles.
Distance(b, c) == LET d == StartTime[b] - StartTime[c] IN IF d < 0 THEN -d ELSE d

\* Mutated form of Farthest: the caller's snapshot of the cursor is trusted to
\* be the battle on screen.
FarthestFromSnapshot(kept, onScreen, from) ==
    LET candidates == kept \ {from}
    IN  {v \in candidates : \A u \in candidates :
            \/ Distance(u, from) < Distance(v, from)
            \/ Distance(u, from) = Distance(v, from) /\ v <= u}

\* pick_farthest_primed_battle and bc_pick_victim: the battle to sacrifice, in
\* a set of at most one, never the battle on screen nor the one asked for.
Farthest(kept, onScreen, from) ==
    LET candidates == kept \ {from, onScreen}
    IN  {v \in candidates : \A u \in candidates :
            \/ Distance(u, from) < Distance(v, from)
            \/ Distance(u, from) = Distance(v, from) /\ v <= u}

\* replay_ensure_battle_ready: the ready set after it.
EnsureReady(built, onScreen, b, ok) ==
    IF b = None \/ b \in built THEN built
    ELSE LET room == IF OverBudget(built)
                     THEN built \ Farthest(built, onScreen, b) ELSE built
         IN  IF ok THEN room \cup {b} ELSE room

\* A build of b that is attempted on top of built and refused by SQLite.
Refused(built, b, ok) == IF b = None \/ b \in built \/ ok THEN {} ELSE {b}
MayFail(refused) == /\ refused \cap failed = {}
                    /\ Cardinality(failed \cup refused) <= MaxFailures
                    /\ failed' = failed \cup refused

-----------------------------------------------------------------------------
\* build_frame_at_time for a tick in battle a and the next tick in battle b
\* (None between battles).  When the tick is new, replay_ensure_db_view(2)
\* derives the summary of the battle then active if it is missing.
Frame(a, b, okA, okB) ==
    LET readyA == EnsureReady(ready, a, a, okA)
        readyB == EnsureReady(readyA, b, b, okB)
    IN  /\ MayFail(Refused(ready, a, okA) \cup Refused(readyA, b, okB))
        /\ active' = b
        /\ ready' = readyB
        /\ summary' \in {summary, summary \cup ({b} \ {None})}
        /\ UNCHANGED budget

\* Both proactive requests decline when what they would have to sacrifice is no
\* farther from the cursor than b, or when there is nothing to sacrifice.
NotWorth(kept, b, current) ==
    \A v \in Farthest(kept, active, current) :
        Distance(v, current) <= Distance(b, current)

\* replay_try_prime_battle returns 1.
PrimeDeclined(b, current) ==
    b \notin ready /\ OverBudget(ready) /\ NotWorth(ready, b, current)

\* replay_try_prime_battle, with the cursor's battle as the page sent it.
TryPrime(b, current, ok) ==
    LET room == IF b \notin ready /\ OverBudget(ready)
                THEN ready \ Farthest(ready, active, current) ELSE ready
    IN  /\ IF PrimeDeclined(b, current)
           THEN UNCHANGED <<ready, failed>>
           ELSE /\ ready' = EnsureReady(room, active, b, ok)
                /\ MayFail(Refused(room, b, ok))
        /\ UNCHANGED <<summary, active, budget>>

\* replay_prewarm_battle_summary returns 0.
PrewarmDeclined(b, current) ==
    b \notin summary /\ OverBudget(ready) /\ NotWorth(summary, b, current)

\* The summary replay_prewarm_battle_summary evicts, in a set of at most one
\* (g_last_prewarm_evicted_match).
PrewarmEvicted(b, current) ==
    IF b \notin summary /\ OverBudget(ready) /\ ~NotWorth(summary, b, current)
    THEN Farthest(summary, active, current) ELSE {}

\* replay_prewarm_battle_summary
Prewarm(b, current, ok) ==
    LET kept == summary \ PrewarmEvicted(b, current)
    IN  /\ IF PrewarmDeclined(b, current)
           THEN UNCHANGED <<summary, failed>>
           ELSE /\ summary' = IF ok THEN kept \cup {b} ELSE kept
                /\ MayFail(Refused(summary, b, ok))
        /\ UNCHANGED <<ready, active, budget>>

\* replay_invalidate_caches_after_revert: everything derived is torn down.
Revert == /\ ready' = {}
          /\ summary' = {}
          /\ active' = None
          /\ UNCHANGED <<budget, failed>>

CacheNext ==
    \/ \E a, b \in Battle \cup {None}, okA, okB \in BOOLEAN : Frame(a, b, okA, okB)
    \/ \E b, current \in Battle, ok \in BOOLEAN :
           TryPrime(b, current, ok) \/ Prewarm(b, current, ok)
    \/ Revert

CacheSpec == CacheInit /\ [][CacheNext]_cacheVars

-----------------------------------------------------------------------------
CacheTypeOK == /\ ready \subseteq Battle
               /\ summary \subseteq Battle
               /\ active \in Battle \cup {None}
               /\ budget \in Budgets
               /\ failed \subseteq Battle

\* The battle on screen has its index, whatever the page asks for meanwhile and
\* with whatever stale cursor, unless SQLite refused to build it
\* (ui_behavior_tests.js, "active battle is always ready under eviction
\* pressure").
ActiveIsReady == active # None => active \in ready \cup failed
=============================================================================

---------------------------- MODULE BattleBounds ----------------------------
(***************************************************************************)
(* The rowid slice of each battle in agent_states (src/replay_worker.c):   *)
(* found by bisection over the rowids, either by the playback thread when  *)
(* it needs it or by the prefetch worker ahead of the cursor, and kept in  *)
(* plain shared memory behind the plain flag g_bounds_known.               *)
(*                                                                         *)
(* A table is a function from its rowids to tick ids.  The playback        *)
(* connection is inside a transaction from checkpoint 0 on, so the         *)
(* prefetch worker's connection reads the file as loaded whatever the      *)
(* terminal wrote since; and once the playback connection has had to spill *)
(* its cache it holds EXCLUSIVE for the rest of the session and every read *)
(* of the prefetch worker is refused (VfsLock).  The prefetch worker's     *)
(* steps are single probes and single stores; the playback thread's are    *)
(* its stores.                                                             *)
(***************************************************************************)
EXTENDS Integers, FiniteSets

CONSTANTS MatchCount,    \* g_match_count
          FirstTick,     \* MatchInfo.start_tick_id of each battle
          LastTick,      \* MatchInfo.end_tick_id
          Loaded,        \* agent_states as the load left it
          Edited,        \* tables a statement of the SQL terminal may leave
          MaxEdits,      \* bound of the model: such statements
          MaxReverts,    \* bound of the model: reverts to checkpoint 0
          MaxEvictions   \* bound of the model: battles put out of the cache

Battle == 0 .. MatchCount - 1
IsTable(t) == IsFiniteSet(DOMAIN t) /\ DOMAIN t \subseteq Nat \ {0}
                /\ \A r \in DOMAIN t : t[r] \in Nat

ASSUME BoundsConstants ==
    /\ MatchCount \in Nat \ {0}
    /\ FirstTick \in [Battle -> Nat] /\ LastTick \in [Battle -> Nat]
    /\ \A t \in {Loaded} \cup Edited : IsTable(t)
    /\ MaxEdits \in Nat /\ MaxReverts \in Nat /\ MaxEvictions \in Nat

\* The recorder appends rows in tick order, "a precondition this bisection relies
\* on" (replay_worker.c:255-256); what the terminal does to them is another matter.
ASSUME TicksAscend == \A r, s \in DOMAIN Loaded : r <= s => Loaded[r] <= Loaded[s]

VARIABLES table,      \* agent_states as the playback connection sees it
          exclusive,  \* the playback connection has spilled and holds EXCLUSIVE
          bounds,     \* rowid_lo and rowid_hi of each MatchInfo
          known,      \* g_bounds_known, as a set
          span,       \* g_as_rowid_min and g_as_rowid_max
          used,       \* the slice in each ready battle's prepared statement
          own,        \* where the playback thread is in ensure_bounds_known
          pre,        \* the request to the prefetch worker and its progress
          prefetched, \* the page's prefetchedBattles
          budget,     \* what is left of the model's bounds
          past        \* what went past the code's assumptions, see BoundsInit

boundsVars == <<table, exclusive, bounds, known, span, used, own, pre, prefetched, budget, past>>

-----------------------------------------------------------------------------
(* Bisection over the rowids                                               *)

\* tick_id_at_or_after_rowid_on: the tick of the first row from the probe on.
TickFrom(t, probe) ==
    LET rows == {r \in DOMAIN t : r >= probe}
    IN  IF rows = {} THEN -1 ELSE t[CHOOSE r \in rows : \A s \in rows : r <= s]

\* agent_states_rowid_span_on, and the initial values where it finds no row.
SpanOf(t) == IF DOMAIN t = {} THEN [lo |-> -1, hi |-> -1]
             ELSE [lo |-> CHOOSE r \in DOMAIN t : \A s \in DOMAIN t : r <= s,
                   hi |-> CHOOSE r \in DOMAIN t : \A s \in DOMAIN t : s <= r]
NoSpan == [lo |-> -1, hi |-> -1]

\* The interval a search begins with.
Whole(s) == [lo |-> s.lo, hi |-> s.hi + 1]
Middle(iv) == iv.lo + (iv.hi - iv.lo) \div 2

\* One turn of the loops of lower_bound_rowid_on (least is the battle's first
\* tick) and upper_bound_rowid_on (least is the tick after its last).
Narrowed(iv, tick, least) ==
    IF tick # -1 /\ tick >= least THEN [iv EXCEPT !.hi = Middle(iv)]
    ELSE [iv EXCEPT !.lo = Middle(iv) + 1]

\* The whole loop, on the connection that is never refused.
Found(t, from, least) ==
    LET found[iv \in [lo : Int, hi : Int]] ==
            IF iv.lo >= iv.hi THEN iv.lo
            ELSE found[Narrowed(iv, TickFrom(t, Middle(iv)), least)]
    IN  found[Whole(from)]

\* The empty slice guard.
Guarded(lo, hi) == IF hi >= lo THEN hi ELSE lo - 1

\* Reference definition: the slice holds exactly the battle's rows.
Covers(slice, t, b) ==
    {r \in DOMAIN t : slice.lo <= r /\ r <= slice.hi}
        = {r \in DOMAIN t : FirstTick[b] <= t[r] /\ t[r] <= LastTick[b]}

-----------------------------------------------------------------------------
Idle == [at |-> "idle"]

BoundsInit ==
    /\ table = Loaded
    /\ exclusive = FALSE
    /\ bounds = [b \in Battle |-> [lo |-> 0, hi |-> 0]]
    /\ known = {}
    /\ span = NoSpan
    /\ used = [b \in {} |-> NoSpan]
    /\ own = Idle
    /\ pre = [at |-> "booting"]
    /\ prefetched = {}
    /\ budget = [edits |-> MaxEdits, reverts |-> MaxReverts, evictions |-> MaxEvictions]
    \* refused: a probe was answered SQLITE_BUSY.  edited: the terminal
    \* wrote since the last revert.  overtaken: a revert cleared the flags
    \* while the prefetch worker was between its stores.
    /\ past = [refused |-> FALSE, edited |-> FALSE, overtaken |-> FALSE]

-----------------------------------------------------------------------------
(* Playback thread                                                         *)

\* A write to main.db may spill SQLite's page cache, which takes EXCLUSIVE
\* until the transaction ends; it never does.
MaySpill == exclusive' \in {exclusive, TRUE}

\* ensure_bounds_known up to the store of rowid_lo, for a frame or a prime
\* (build) or for CURRENT_BATTLE_ROWID_LO and _HI.
Resolve(b, build) ==
    /\ own = Idle /\ b \notin known
    /\ span' = IF span.lo < 0 THEN SpanOf(table) ELSE span
    /\ bounds' = [bounds EXCEPT ![b].lo = Found(table, span', FirstTick[b])]
    /\ own' = [at |-> "hi", battle |-> b, build |-> build]
    /\ UNCHANGED <<table, exclusive, known, used, pre, prefetched, budget, past>>

\* The store of rowid_hi, which reads rowid_lo back.
ResolveHi ==
    /\ own.at = "hi"
    /\ LET b == own.battle
       IN  bounds' = [bounds EXCEPT ![b].hi =
                Guarded(bounds[b].lo, Found(table, span, LastTick[b] + 1) - 1)]
    /\ own' = [own EXCEPT !.at = "known"]
    /\ UNCHANGED <<table, exclusive, known, span, used, pre, prefetched, budget, past>>

ResolveKnown ==
    /\ own.at = "known"
    /\ known' = known \cup {own.battle}
    /\ own' = IF own.build THEN [own EXCEPT !.at = "build"] ELSE Idle
    /\ UNCHANGED <<table, exclusive, bounds, span, used, pre, prefetched, budget, past>>

\* replay_ensure_battle_ready after the bounds, which other calls resolved or
\* this one did: index and statement take the slice as a literal, or SQLite
\* refuses the index.
Build(b) ==
    /\ b \notin DOMAIN used
    /\ \/ own = Idle /\ b \in known
       \/ own.at = "build" /\ own.battle = b
    /\ own' = Idle
    /\ used' \in {used, [c \in DOMAIN used \cup {b} |-> IF c = b THEN bounds[b] ELSE used[c]]}
    /\ MaySpill
    /\ UNCHANGED <<table, bounds, known, span, pre, prefetched, budget, past>>

\* replay_evict_battle: the bounds stay known.
Evict(b) ==
    /\ own = Idle /\ b \in DOMAIN used /\ budget.evictions > 0
    /\ used' = [c \in DOMAIN used \ {b} |-> used[c]]
    /\ budget' = [budget EXCEPT !.evictions = @ - 1]
    /\ MaySpill
    /\ UNCHANGED <<table, bounds, known, span, own, pre, prefetched, past>>

\* A statement of the SQL terminal that changes agent_states.
Edit ==
    /\ own = Idle /\ budget.edits > 0
    /\ table' \in Edited \ {table}
    /\ budget' = [budget EXCEPT !.edits = @ - 1]
    /\ past' = [past EXCEPT !.edited = TRUE]
    /\ MaySpill
    /\ UNCHANGED <<bounds, known, span, used, own, pre, prefetched>>

\* Mutated form of Forgotten: the slices are taken to be right for ever.
ForgottenNothing == known

\* g_bounds_known after replay_invalidate_caches_after_revert.
Forgotten == {}

\* A revert to checkpoint 0; the cached span of the table survives it.
Revert ==
    /\ own = Idle /\ budget.reverts > 0
    /\ table' = Loaded
    /\ known' = Forgotten
    /\ used' = [b \in {} |-> NoSpan]
    /\ budget' = [budget EXCEPT !.reverts = @ - 1]
    /\ past' = [past EXCEPT !.edited = FALSE,
                              !.overtaken = @ \/ pre.at \in {"hi", "publish"}]
    /\ UNCHANGED <<exclusive, bounds, span, own, pre, prefetched>>

Playback == \/ \E b \in Battle : \E build \in BOOLEAN : Resolve(b, build)
            \/ ResolveHi \/ ResolveKnown
            \/ \E b \in Battle : Build(b) \/ Evict(b)
            \/ Edit \/ Revert

-----------------------------------------------------------------------------
(* Page                                                                    *)

\* pickPrefetchTarget: the order fans out from the cursor, forward first.
Rank(base, b) == IF b > base THEN 2 * (b - base) - 1 ELSE 2 * (base - b)

\* The battles still to ask for; the cursor's own is playback's affair.
Left(base, done) == Battle \ (done \cup {base})

\* schedulePrefetch, once the request before it is answered.
Scheduled(base, done) ==
    LET left == Left(base, done)
    IN  IF left = {} THEN Idle
        ELSE [at |-> "asked",
              battle |-> CHOOSE b \in left : \A c \in left : Rank(base, b) <= Rank(base, c)]

\* 'ready': the worker is up.
OnReady(base) ==
    /\ pre.at = "booting"
    /\ pre' = Scheduled(base, prefetched)
    /\ UNCHANGED <<table, exclusive, bounds, known, span, used, own, prefetched, budget, past>>

\* Mutated form of AfterPrefetched: only a new slice counts as done.
AfterPrefetchedIfKnown(b) == IF b \in known THEN prefetched \cup {b} ELSE prefetched

\* prefetchedBattles after the answer for b, whatever became of its slice.
AfterPrefetched(b) == prefetched \cup {b}

\* 'prefetched', whatever became of the slice.
OnPrefetched(base) ==
    /\ pre.at = "answered"
    /\ prefetched' = AfterPrefetched(pre.battle)
    /\ pre' = Scheduled(base, prefetched')
    /\ UNCHANGED <<table, exclusive, bounds, known, span, used, own, budget, past>>

\* 'error': nothing is marked, so the same battle is the next target again.
OnError(base) ==
    /\ pre.at = "threw"
    /\ pre' = Scheduled(base, prefetched)
    /\ UNCHANGED <<table, exclusive, bounds, known, span, used, own, prefetched, budget, past>>

\* resyncLoadState: a battle that is ready needs no prefetch.
Resynced == prefetched \cup DOMAIN used

\* 'frame': a worker with nothing to do is asked again, for the cursor may have moved.
Retarget(base) ==
    /\ prefetched' = Resynced
    /\ pre' = IF pre.at = "idle" THEN Scheduled(base, Resynced) ELSE pre
    /\ UNCHANGED <<table, exclusive, bounds, known, span, used, own, budget, past>>

\* 'battlePrimed' and 'primingDeclined', which leave the prefetch worker alone.
OnPrimed ==
    /\ prefetched' = Resynced
    /\ UNCHANGED <<table, exclusive, bounds, known, span, used, own, pre, budget, past>>

PageTurn == \E base \in Battle : OnReady(base) \/ OnPrefetched(base) \/ OnError(base)

Resync == OnPrimed \/ \E base \in Battle : Retarget(base)

-----------------------------------------------------------------------------
(* Prefetch worker: replay_prefetch_battle                                 *)

PrefetchStep == UNCHANGED <<table, exclusive, span, used, own, prefetched>>

\* Everything before the first probe.  A battle already known, or a
\* connection that is refused before it knows the span, ends the request.
Begin ==
    /\ pre.at = "asked"
    /\ pre' = IF pre.battle \in known \/ exclusive \/ DOMAIN Loaded = {}
              THEN [pre EXCEPT !.at = "answered"]
              ELSE [at |-> "lower", battle |-> pre.battle, low |-> 0,
                    iv |-> Whole(SpanOf(Loaded))]
    /\ UNCHANGED <<bounds, known, budget, past>>
    /\ PrefetchStep

\* One probe; a refused one reads as "past the last row".
Probe ==
    /\ pre.at \in {"lower", "upper"} /\ pre.iv.lo < pre.iv.hi
    /\ LET tick  == IF exclusive THEN -1 ELSE TickFrom(Loaded, Middle(pre.iv))
           least == IF pre.at = "lower" THEN FirstTick[pre.battle] ELSE LastTick[pre.battle] + 1
       IN  pre' = [pre EXCEPT !.iv = Narrowed(pre.iv, tick, least)]
    /\ past' = [past EXCEPT !.refused = @ \/ exclusive]
    /\ UNCHANGED <<bounds, known, budget>>
    /\ PrefetchStep

\* The lower bound is found; the search for the upper one begins.
Turn ==
    /\ pre.at = "lower" /\ pre.iv.lo >= pre.iv.hi
    /\ pre' = [pre EXCEPT !.at = "upper", !.low = pre.iv.lo, !.iv = Whole(SpanOf(Loaded))]
    /\ UNCHANGED <<bounds, known, budget, past>>
    /\ PrefetchStep

StoreLo ==
    /\ pre.at = "upper" /\ pre.iv.lo >= pre.iv.hi
    /\ bounds' = [bounds EXCEPT ![pre.battle].lo = pre.low]
    /\ pre' = [pre EXCEPT !.at = "hi"]
    /\ UNCHANGED <<known, budget, past>>
    /\ PrefetchStep

StoreHi ==
    /\ pre.at = "hi"
    /\ bounds' = [bounds EXCEPT ![pre.battle].hi = Guarded(pre.low, pre.iv.lo - 1)]
    /\ pre' = [pre EXCEPT !.at = "publish"]
    /\ UNCHANGED <<known, budget, past>>
    /\ PrefetchStep

Publish ==
    /\ pre.at = "publish"
    /\ known' = known \cup {pre.battle}
    /\ pre' = [at |-> "answered", battle |-> pre.battle]
    /\ UNCHANGED <<bounds, budget, past>>
    /\ PrefetchStep

\* The worker's catch: a read of its handle threw, as often as it likes.
Throw ==
    /\ pre.at \in {"asked", "lower", "upper"}
    /\ pre' = [at |-> "threw", battle |-> pre.battle]
    /\ UNCHANGED <<bounds, known, budget, past>>
    /\ PrefetchStep

PrefetchTurn == Begin \/ Probe \/ Turn \/ StoreLo \/ StoreHi \/ Publish

BoundsNext == Playback \/ PageTurn \/ Resync \/ PrefetchTurn \/ Throw

\* The prefetch worker's loops end and the page's event loop delivers what it
\* posts; nothing is assumed of the user, of playback or of failures.
BoundsSpec == BoundsInit /\ [][BoundsNext]_boundsVars
                /\ WF_boundsVars(PrefetchTurn) /\ WF_boundsVars(PageTurn)

-----------------------------------------------------------------------------
(* Properties                                                              *)

Interval == [lo : Int, hi : Int]

\* Types: slices are intervals of rowids, and every request in any stage is
\* for a battle of this replay.
BoundsTypeOK ==
    /\ exclusive \in BOOLEAN
    /\ table \in {Loaded} \cup Edited
    /\ bounds \in [Battle -> Interval] /\ span \in Interval
    /\ known \subseteq Battle /\ prefetched \subseteq Battle
    /\ DOMAIN used \subseteq known /\ \A b \in DOMAIN used : used[b] \in Interval
    /\ own.at \in {"idle", "hi", "known", "build"}
    /\ own.at # "idle" => own.battle \in Battle
    /\ pre.at \in {"booting", "idle", "asked", "lower", "upper", "hi", "publish", "answered", "threw"}
    /\ pre.at \notin {"booting", "idle"} => pre.battle \in Battle

\* The code's assumptions held: no probe was refused, the
\* table is the loaded one and the cached span is its span, and no revert fell
\* between the prefetch worker's stores.
AsAssumed == /\ ~ past.refused /\ ~ past.edited /\ ~ past.overtaken
             /\ span \in {NoSpan, SpanOf(Loaded)}

\* A slice that is known, and the slice in a ready battle's statement, hold
\* exactly that battle's rows, whichever thread found it, however the stores
\* of both fell between each other, and also after edits that a revert undid
\* (ensure_bounds_known, replay_prefetch_battle and the memset in
\* replay_invalidate_caches_after_revert).
BoundsAreCurrent ==
    AsAssumed => /\ \A b \in known : Covers(bounds[b], Loaded, b)
                 /\ \A b \in DOMAIN used : Covers(used[b], Loaded, b)

\* Both threads' stores leave only slices that can be used.
SlicesAreSound == BoundsTypeOK /\ BoundsAreCurrent

\* Prefetching comes to an end whether its reads are refused or not: every
\* battle is asked for until it is answered, in the order of a cursor that moves,
\* and none again - unless requests go on throwing for ever, for a request that
\* throws is asked again without limit (schedulePrefetch and its callers).
PrefetchEnds == []<><<Throw>>_boundsVars \/ <>[](pre.at = "idle")

\* What the page says of a request that throws, main.js:2558-2559: "drop this
\* attempt and move on rather than getting stuck retrying".  So the next request is
\* for another battle, when one besides the cursor's is still to be asked for.
MovesOn ==
    [][pre.at = "threw" /\ pre'.at = "asked"
           /\ Cardinality(Battle \ (prefetched \cup {pre.battle})) > 1
       => pre'.battle # pre.battle]_boundsVars
=============================================================================

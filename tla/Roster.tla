------------------------------- MODULE Roster -------------------------------
(***************************************************************************)
(* What the playback worker does for one frame (src/replay_worker.c): find *)
(* the two ticks around a time, and bring the roster, the corpses and the  *)
(* active battle to them by replaying spawns and kills.                    *)
(*                                                                         *)
(* Ticks, battles and events are numbered from 1; battle 0 is the code's   *)
(* -1.  A version of the data is what the tables hold between two reverts. *)
(* Roster and corpses together are the sequence of events applied to them  *)
(* since they were cleared: the entry of an agent is its last spawn there, *)
(* and a corpse's team that of the last spawn before the kill.             *)
(***************************************************************************)
EXTENDS Integers, Sequences, FiniteSets

CONSTANTS Versions,   \* versions of the data
          Times,      \* Times[d]: g_ticks, the time of each tick
          Battles,    \* Battles[d]: g_matches, their first and last ticks
          Events      \* Events[d]: the ticks of spawns and kills, in the order
                      \* of their ids; those of slots out of range left out

Newest == 1000000   \* 0x7FFFFFFFFFFFFFFF: later than every tick
None   == 0
NoTick == -1

Ascends(s) == \A i, j \in DOMAIN s : i <= j => s[i] <= s[j]

\* The game's clock runs forwards, and its events are written as they happen
\* (Recorder): what is replayed a tick at a time is replayed in order.
ASSUME RosterConstants == \A d \in Versions :
    /\ Times[d] \in Seq(Int) /\ Len(Times[d]) \in 1 .. Newest - 1 /\ Ascends(Times[d])
    /\ Battles[d] \in Seq([first : Nat \ {0}, last : Nat])
    /\ Events[d] \in Seq(DOMAIN Times[d]) /\ Ascends(Events[d])

VARIABLES version,  \* of the tables
          engine    \* the state behind a frame, see Engine

\* active and synced are g_active_match_index and g_roster_synced_tick_id, tick
\* and tickB are CURRENT_TICK and CURRENT_TICK_B.
Engine == [active |-> None, synced |-> -1, roster |-> <<>>,
           tick |-> NoTick, tickB |-> NoTick]

-----------------------------------------------------------------------------
(* The tick at a time.                                                     *)

\* find_tick_index_for_time
TickAt(d, t) ==
    LET n == Len(Times[d])
        search[iv \in [lo : 1 .. n, hi : 1 .. n]] ==
            LET mid == (iv.lo + iv.hi + 1) \div 2
            IN  IF iv.lo >= iv.hi THEN iv.lo
                ELSE IF Times[d][mid] <= t THEN search[[iv EXCEPT !.lo = mid]]
                     ELSE search[[iv EXCEPT !.hi = mid - 1]]
    IN  IF t <= Times[d][1] THEN 1 ELSE IF t >= Times[d][n] THEN n
        ELSE search[[lo |-> 1, hi |-> n]]

\* find_match_for_tick
BattleOf(d, tick) ==
    LET has == {b \in DOMAIN Battles[d] : tick \in Battles[d][b].first .. Battles[d][b].last}
    IN  IF has = {} THEN None ELSE CHOOSE b \in has : \A c \in has : b <= c

-----------------------------------------------------------------------------
(* The roster.                                                             *)

\* The events es by their ids ("ORDER BY e.id").
InOrder[es \in SUBSET Nat] ==
    [i \in 1 .. Cardinality(es) |-> CHOOSE e \in es : Cardinality({f \in es : f < e}) = i - 1]

\* The events of ticks (from, to].
Window(d, from, to) == {e \in DOMAIN Events[d] : from < Events[d][e] /\ Events[d][e] <= to}

\* apply_roster_delta
Applied(d, s, from, to) ==
    [s EXCEPT !.roster = @ \o InOrder[Window(d, from, to)], !.synced = to]

\* Mutated form of Start: the boundary tick's spawns are left out.
StartAfterBoundary(d, b) == IF b = None THEN -1 ELSE Battles[d][b].first - 1
\* A battle's own spawns fire on the tick before it, its boundary.
Start(d, b) == IF b = None THEN -1 ELSE Battles[d][b].first - 2

\* resync_roster_to
Resynced(d, s, target) ==
    LET b == BattleOf(d, target)
    IN  IF b # s.active \/ target < s.synced
        THEN Applied(d, [s EXCEPT !.roster = <<>>, !.active = b], Start(d, b), target)
        ELSE Applied(d, s, s.synced, target)

\* The second half of a frame, s being in step with its first tick.
Framed(d, s, a) ==
    LET b == IF a < Len(Times[d]) THEN a + 1 ELSE a
    IN  [Resynced(d, s, b) EXCEPT !.tick = a, !.tickB = b]

\* build_frame_at_time, as far as it decides what is on screen: what it reads at
\* the two ticks is the caches' (BattleCache, DbViews) and the queries' part.
Build(t) == \E a \in {TickAt(version, t)} :
    \E s \in {Resynced(version, engine, a)} :
        engine' = Framed(version, s, a)

\* replay_invalidate_caches_after_revert; the ticks shown stay as they are.
Invalidated(s) == [s EXCEPT !.active = None, !.synced = Newest]

-----------------------------------------------------------------------------
Synced == engine.synced \notin {-1, Newest}

\* Whatever frames, steps back, battles crossed and reverts led to it, the
\* roster is the active battle's own: its events from the boundary tick before
\* it up to the second tick of the frame, each once and in order.
RosterIsReplayed == Synced =>
    /\ {engine.roster[i] : i \in DOMAIN engine.roster} =
           {e \in DOMAIN Events[version] :
                /\ Events[version][e] <= engine.tickB
                /\ engine.active # None
                       => Events[version][e] >= Battles[version][engine.active].first - 1}
    /\ \A i, j \in DOMAIN engine.roster : i < j => engine.roster[i] < engine.roster[j]

\* The tick on screen is the last one not after the time asked for: the search
\* agrees with its definition at every time of the replay, between ticks, at
\* ticks of one time, before the first and after the last.
SearchFinds == \A t \in Times[version][1] - 1 .. Times[version][Len(Times[version])] + 1 :
    TickAt(version, t) \in
        IF t <= Times[version][1] THEN {1}
        ELSE {k \in DOMAIN Times[version] :
                  \A i \in DOMAIN Times[version] : Times[version][i] <= t <=> i <= k}

EngineTypeOK ==
    /\ version \in Versions
    /\ engine.active \in 0 .. Len(Battles[version])
    /\ engine.synced \in {-1, Newest} \cup DOMAIN Times[version]
    /\ Synced => engine.roster \in Seq(DOMAIN Events[version])
=============================================================================

------------------------------ MODULE Priming ------------------------------
(***************************************************************************)
(* The page's scheduler of proactive work (src/main.js) driving the        *)
(* playback worker (src/replay-worker.js), whose caches are BattleCache.   *)
(* The two talk through two FIFO message queues; every page handler and    *)
(* every worker handler is one action.  Of the prefetch worker only the    *)
(* moments of its answers matter here, and they may never come.            *)
(*                                                                         *)
(* The cursor moves at most MaxMoves times.  At most MaxMishaps times in   *)
(* all a request throws in the worker or the user reverts to a checkpoint. *)
(***************************************************************************)
EXTENDS BattleCache, Sequences, SequencesExt

CONSTANTS Cursors,     \* <<battle of the tick, battle of the next tick>> pairs
          MaxMoves,    \* bounds of the model
          MaxMishaps

ASSUME PrimingConstants ==
    /\ Cursors \subseteq (Battle \cup {None}) \X (Battle \cup {None})
    /\ MaxMoves \in Nat
    /\ MaxMishaps \in Nat

VARIABLES page,      \* the scheduler's globals in main.js
          cursor,    \* where replayTime stands, one of Cursors
          toWorker,  \* messages posted to playbackWorker
          toPage,    \* messages posted by it
          moves, reverts, errors

counters == <<moves, reverts, errors>>
vars == <<cacheVars, page, cursor, toWorker, toPage, counters>>

NoFrame == -2   \* latestFrame before the first one

Page == [primed     : SUBSET Battle,   \* primedBattles
         declined   : SUBSET Battle,   \* declinedPrimingBattles
         cached     : SUBSET Battle,   \* cachedSummaryBattles
         skipped    : SUBSET Battle,   \* declinedSummaryPrewarmBattles
         shown      : Battle \cup {None, NoFrame},  \* latestFrame.activeMatchIndex
         pending    : BOOLEAN,         \* pendingFrameRequest
         priming    : BOOLEAN,         \* primingInFlight
         prewarming : BOOLEAN]         \* summaryPrewarmInFlight

\* What the page posts to the worker,
Requests == [type : {"frame"}, at : Cursors]
              \cup [type : {"prime", "prewarm"}, matchIdx : Battle, currentMatchIdx : Battle]

\* and what it answers.
Replies ==
    [type : {"frame"}, active : Battle \cup {None}, mask : SUBSET Battle]
      \cup [type : {"battlePrimed", "primingDeclined"}, matchIdx : Battle, mask : SUBSET Battle]
      \cup [type : {"summaryPrewarmed"}, matchIdx : Battle, evicted : SUBSET Battle]
      \cup [type : {"summaryPrewarmDeclined"}, matchIdx : Battle]
      \cup [type : {"error", "checkpointReverted"}]

Init == /\ CacheInit
        /\ page = [primed |-> {}, declined |-> {},
                   cached |-> {}, skipped |-> {}, shown |-> NoFrame,
                   pending |-> FALSE, priming |-> FALSE,
                   prewarming |-> FALSE]
        /\ cursor \in Cursors
        /\ toWorker = <<>>
        /\ toPage = <<>>
        /\ moves = 0 /\ reverts = 0 /\ errors = 0

-----------------------------------------------------------------------------
(* Targets: the walk outward from the cursor, forward first.               *)

\* The battle the page takes for the cursor's.
Current(p) == IF p.shown # NoFrame THEN p.shown ELSE cursor[1]

\* Mutated form of Base: a gap is not told from a battle.
BaseUnclipped(p) == Current(p)

\* Where the walk starts, and what the worker is told of the cursor.
Base(p) == IF Current(p) >= 0 THEN Current(p) ELSE 0

\* Place of battle b in the walk base, base+1, base-1, base+2, ...
Rank(b, base) == IF b > base THEN 2 * (b - base) ELSE 2 * (base - b) + 1

\* The first battle of the walk in todo, in a set of at most one.
First(todo, base) ==
    {b \in todo : \A c \in todo : Rank(b, base) <= Rank(c, base)}

\* Mutated form of PrimeTarget: the walk goes forward only.
PrimeTargetForward(p) ==
    First({b \in Battle : b > Base(p)} \ (p.primed \cup p.declined), Base(p))

\* pickPrimeTarget
PrimeTarget(p) ==
    First(Battle \ (p.primed \cup p.declined \cup {Base(p)}), Base(p))

\* pickSummaryPrewarmTarget, which starts at the cursor itself.
SummaryTarget(p) == First(Battle \ (p.cached \cup p.skipped), Base(p))

-----------------------------------------------------------------------------
(* What the end of a page handler does.                                    *)

Request(type, b, p) == [type |-> type, matchIdx |-> b, currentMatchIdx |-> Base(p)]

\* Nothing of the page's is outstanding at the playback worker.
Idle(p) == ~p.priming /\ ~p.prewarming /\ ~p.pending

\* schedulePriming and scheduleSummaryPrewarm, those of the two named in
\* kinds, in this order; the first that posts shuts the other out.
Schedule(p, kinds) ==
    LET prime   == IF Idle(p) /\ "prime" \in kinds THEN PrimeTarget(p) ELSE {}
        prewarm == IF Idle(p) /\ "prewarm" \in kinds THEN SummaryTarget(p) ELSE {}
    IN  \/ \E b \in prime :
               /\ page' = [p EXCEPT !.priming = TRUE]
               /\ toWorker' = Append(toWorker, Request("prime", b, p))
        \/ \E b \in prewarm :
               /\ prime = {}
               /\ page' = [p EXCEPT !.prewarming = TRUE]
               /\ toWorker' = Append(toWorker, Request("prewarm", b, p))
        \/ /\ prime = {} /\ prewarm = {}
           /\ page' = p
           /\ UNCHANGED toWorker

Both == {"prime", "prewarm"}

\* resyncLoadState
Resynced(p, mask) ==
    IF p.primed = mask THEN p
    ELSE [p EXCEPT !.primed = mask, !.declined = {}]

-----------------------------------------------------------------------------
(* The page.                                                               *)

FrameRequest == [type |-> "frame", at |-> cursor]

\* The render loop, or seekTo: one frame outstanding at a time.
RequestFrame ==
    /\ ~page.pending
    /\ page' = [page EXCEPT !.pending = TRUE]
    /\ toWorker' = Append(toWorker, FrameRequest)
    /\ UNCHANGED <<cacheVars, cursor, toPage, counters>>

\* Playback, or the user, moves replayTime.
MoveCursor ==
    /\ moves < MaxMoves
    /\ moves' = moves + 1
    /\ cursor' \in Cursors \ {cursor}
    /\ UNCHANGED <<cacheVars, page, toWorker, toPage, reverts, errors>>

\* The prefetch worker answered: another moment to look for work.
OnPrefetched == /\ Schedule(page, {"prime"})
                /\ UNCHANGED <<cacheVars, cursor, toPage, counters>>

\* onLoaderMessage takes the next message of the playback worker.
Receive(type) == /\ toPage # <<>>
                 /\ Head(toPage).type = type
                 /\ toPage' = Tail(toPage)
                 /\ UNCHANGED <<cacheVars, cursor, counters>>

OnFrame ==
    /\ Receive("frame")
    /\ LET m == Head(toPage)
           p == Resynced([page EXCEPT !.pending = FALSE, !.shown = m.active], m.mask)
       IN  Schedule(p, Both)

OnBattlePrimed ==
    /\ Receive("battlePrimed")
    /\ LET m == Head(toPage)
       IN  Schedule(Resynced([page EXCEPT !.priming = FALSE], m.mask), Both)

\* The page's state once primingDeclined is noted: after the resync, so that a
\* mask that changed does not drop it again.
AfterDecline(m) ==
    [Resynced([page EXCEPT !.priming = FALSE], m.mask)
        EXCEPT !.declined = @ \cup {m.matchIdx}]

OnPrimingDeclined ==
    /\ Receive("primingDeclined")
    /\ Schedule(AfterDecline(Head(toPage)), {"prewarm"})

\* The page's state after summaryPrewarmed: its own victim is the one eviction a
\* prewarm tells of.
AfterPrewarm(m) ==
    [page EXCEPT !.prewarming = FALSE,
                 !.cached = (@ \cup {m.matchIdx}) \ m.evicted]

OnSummaryPrewarmed ==
    /\ Receive("summaryPrewarmed")
    /\ Schedule(AfterPrewarm(Head(toPage)), Both)

OnSummaryDeclined ==
    /\ Receive("summaryPrewarmDeclined")
    /\ Schedule([page EXCEPT !.prewarming = FALSE,
                             !.skipped = @ \cup {Head(toPage).matchIdx}], {"prime"})

\* Mutated form of AfterError: only the frame's own flag.
AfterErrorOfFrame == [page EXCEPT !.pending = FALSE]

\* The page's state after an error whose request is unknown: all three flags.
AfterError == [page EXCEPT !.pending = FALSE, !.priming = FALSE, !.prewarming = FALSE]

OnError == Receive("error") /\ page' = AfterError /\ UNCHANGED toWorker

\* checkpointReverted ends with seekTo(replayTime).
OnReverted ==
    /\ Receive("checkpointReverted")
    /\ page' = [page EXCEPT !.pending = TRUE]
    /\ toWorker' = IF page.pending THEN toWorker ELSE Append(toWorker, FrameRequest)

-----------------------------------------------------------------------------
(* The worker: onmessage takes one request at a time.                      *)

Handle(type) == /\ toWorker # <<>>
                /\ Head(toWorker).type = type
                /\ toWorker' = Tail(toWorker)
                /\ UNCHANGED <<page, cursor, counters>>

Reply(m) == toPage' = Append(toPage, m)

\* What a request does to the caches.
Effect(m) == \E okA, okB \in BOOLEAN :
    \/ m.type = "frame" /\ Frame(m.at[1], m.at[2], okA, okB)
    \/ m.type = "prime" /\ TryPrime(m.matchIdx, m.currentMatchIdx, okA)
    \/ m.type = "prewarm" /\ Prewarm(m.matchIdx, m.currentMatchIdx, okA)

RunFrame ==
    /\ Handle("frame")
    /\ Effect(Head(toWorker))
    /\ Reply([type |-> "frame", active |-> active', mask |-> ready'])

RunPrime ==
    /\ Handle("prime")
    /\ Effect(Head(toWorker))
    /\ LET m == Head(toWorker)
       IN  Reply([type |-> IF PrimeDeclined(m.matchIdx, m.currentMatchIdx)
                           THEN "primingDeclined" ELSE "battlePrimed",
                  matchIdx |-> m.matchIdx, mask |-> ready'])

\* A failed build is reported as a decline, without the victim it evicted.
RunPrewarm ==
    /\ Handle("prewarm")
    /\ Effect(Head(toWorker))
    /\ LET m == Head(toWorker)
       IN  Reply(IF m.matchIdx \in summary'
                 THEN [type |-> "summaryPrewarmed", matchIdx |-> m.matchIdx,
                       evicted |-> PrewarmEvicted(m.matchIdx, m.currentMatchIdx)]
                 ELSE [type |-> "summaryPrewarmDeclined", matchIdx |-> m.matchIdx])

\* A handler throws, before its work or after it: onmessage reports an error
\* that does not name the request.
Throw ==
    /\ toWorker # <<>>
    /\ errors + reverts < MaxMishaps
    /\ errors' = errors + 1
    /\ toWorker' = Tail(toWorker)
    /\ UNCHANGED cacheVars \/ Effect(Head(toWorker))
    /\ Reply([type |-> "error"])
    /\ UNCHANGED <<page, cursor, moves, reverts>>

\* runCheckpointRevert; its own request may come at any time.
RunRevert ==
    /\ errors + reverts < MaxMishaps
    /\ reverts' = reverts + 1
    /\ Revert
    /\ Reply([type |-> "checkpointReverted"])
    /\ UNCHANGED <<page, cursor, toWorker, moves, errors>>

-----------------------------------------------------------------------------
Worker == RunFrame \/ RunPrime \/ RunPrewarm
OnMessage == OnFrame \/ OnBattlePrimed \/ OnPrimingDeclined \/ OnSummaryPrewarmed
               \/ OnSummaryDeclined \/ OnError \/ OnReverted

Next == RequestFrame \/ MoveCursor \/ OnPrefetched \/ OnMessage
          \/ Worker \/ Throw \/ RunRevert

\* The render loop, the page's and the worker's event loops go on.  Nothing is
\* assumed of the prefetch worker: on some browsers it never gets its handle.
Spec == Init /\ [][Next]_vars
          /\ WF_vars(RequestFrame) /\ WF_vars(OnMessage) /\ WF_vars(Worker)

-----------------------------------------------------------------------------
Posted(types) == \E m \in ToSet(toWorker) : m.type \in types
Answered(types) == \E m \in ToSet(toPage) : m.type \in types

TypeOK == /\ CacheTypeOK
          /\ page \in Page
          /\ cursor \in Cursors
          /\ toWorker \in Seq(Requests)
          /\ toPage \in Seq(Replies)
          /\ moves \in Nat /\ reverts \in Nat /\ errors \in Nat

\* No request is waited for in vain: a flag that is up has its request, the
\* answer to it, or an error that lowers every flag, still on the way.
FlagsAreHonest ==
    /\ page.pending => Posted({"frame"}) \/ Answered({"frame", "error"})
    /\ page.priming => Posted({"prime"})
                        \/ Answered({"battlePrimed", "primingDeclined", "error"})
    /\ page.prewarming => Posted({"prewarm"})
                           \/ Answered({"summaryPrewarmed", "summaryPrewarmDeclined", "error"})

\* The load bars: once every answer is in, the page's idea of what is ready is
\* the worker's, evictions included.  (The answer to a request that threw
\* never comes, and a revert is followed by a frame.)
BarsAreTruthful ==
    errors = 0 /\ toPage = <<>> /\ ~page.pending => page.primed = ready

\* What the page tells itself and the user of the worker is so.
PageIsHonest == FlagsAreHonest /\ BarsAreTruthful

\* "It should stop" (replay_worker.c:589-592): under a cursor that has come to
\* rest, proactive work ends instead of evicting and rebuilding for ever.
ComesToRest == <>[](~page.priming /\ ~page.prewarming)

\* It fails where a battle ends: a frame there builds the battle of its first
\* tick and then shows the battle, or the gap, of its second, so that what the
\* frame built first is what a prime may evict, for the next frame to rebuild.
AtBattleEnd == cursor[1] # None /\ cursor[1] # cursor[2]

\* Everywhere else it holds, whatever the budget,
RestsInsideBattle == <>[]~AtBattleEnd => ComesToRest

\* and work ends with every battle either kept warm or turned down: no kind of
\* work starves the other, and no lost answer stops the scheduler.
NothingLeftOut ==
    <>[]~AtBattleEnd => <>[](PrimeTarget(page) = {} /\ SummaryTarget(page) = {})

\* Without a memory limit every battle but the cursor's own is primed in the
\* end, also on a browser where the prefetch worker never starts.
AllPrimedWithoutLimit == budget = 0 => <>[](Battle \ ready \subseteq {Base(page)})

\* Work that nobody asked for ends, leaves nothing out, and without a limit
\* leaves nothing unprimed.
ProactiveWorkEnds == RestsInsideBattle /\ NothingLeftOut /\ AllPrimedWithoutLimit
=============================================================================

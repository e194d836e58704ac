---------------------------- MODULE PrimingProofs ----------------------------
(***************************************************************************)
(* Theorems about what the playback worker keeps warm and about the page   *)
(* that asks for it, for every number of battles, every layout in time,    *)
(* every cost and every budget.  First the worker's caches on their own    *)
(* (BattleCache).  Then Priming: page and worker together use the caches   *)
(* only as BattleCache allows, whatever is queued, lost to an exception or *)
(* reverted, and the page is right about what it waits for and shows.      *)
(***************************************************************************)
EXTENDS Priming, TLAPS

CacheInv == CacheTypeOK /\ ActiveIsReady

\* No battle is the gap between battles.
LEMMA NoneIsNoBattle == None \notin Battle
BY DEF None, Battle

\* An eviction takes from what is kept, and spares the battle on screen and
\* the one asked for.
LEMMA VictimSpares ==
    ASSUME NEW kept, NEW onScreen, NEW from
    PROVE  /\ Farthest(kept, onScreen, from) \subseteq kept
           /\ onScreen \notin Farthest(kept, onScreen, from)
           /\ from \notin Farthest(kept, onScreen, from)
BY DEF Farthest

\* replay_ensure_battle_ready adds nothing but the battle asked for,
LEMMA EnsureReadyAdds ==
    ASSUME NEW built, NEW onScreen, NEW b, NEW ok
    PROVE  EnsureReady(built, onScreen, b, ok) \subseteq built \cup ({b} \ {None})
BY VictimSpares DEF EnsureReady

\* it keeps the battle on screen,
LEMMA EnsureReadySpares ==
    ASSUME NEW built, NEW onScreen \in built, NEW b, NEW ok
    PROVE  onScreen \in EnsureReady(built, onScreen, b, ok)
BY VictimSpares DEF EnsureReady

\* and the battle asked for is there after it, unless its build was refused.
LEMMA EnsureReadyDelivers ==
    ASSUME NEW built, NEW onScreen, NEW b, b # None, NEW ok \in BOOLEAN
    PROVE  b \in EnsureReady(built, onScreen, b, ok) \cup Refused(built, b, ok)
BY DEF EnsureReady, Refused

\* Only battles are refused.
LEMMA RefusedType ==
    ASSUME NEW built, NEW b \in Battle \cup {None}, NEW ok
    PROVE  Refused(built, b, ok) \subseteq Battle
BY NoneIsNoBattle DEF Refused

-----------------------------------------------------------------------------
LEMMA CacheInitInv == CacheInit => CacheInv
BY DEF CacheInit, CacheInv, CacheTypeOK, ActiveIsReady

LEMMA FrameInv ==
    ASSUME CacheInv, NEW a \in Battle \cup {None}, NEW b \in Battle \cup {None},
           NEW okA \in BOOLEAN, NEW okB \in BOOLEAN, Frame(a, b, okA, okB)
    PROVE  CacheInv'
<1> DEFINE readyA == EnsureReady(ready, a, a, okA)
           readyB == EnsureReady(readyA, b, b, okB)
           refused == Refused(ready, a, okA) \cup Refused(readyA, b, okB)
<1>1. /\ active' = b
      /\ ready' = readyB
      /\ summary' \in {summary, summary \cup ({b} \ {None})}
      /\ budget' = budget
      /\ failed' = failed \cup refused
  BY DEF Frame, MayFail
<1>2. readyA \subseteq ready \cup ({a} \ {None})
  BY EnsureReadyAdds
<1>3. readyB \subseteq readyA \cup ({b} \ {None})
  BY EnsureReadyAdds
<1>4. refused \subseteq Battle
  BY RefusedType
<1>5. b # None => b \in readyB \cup refused
  BY EnsureReadyDelivers
<1> HIDE DEF readyA, readyB, refused
<1>6. CacheTypeOK'
  BY <1>1, <1>2, <1>3, <1>4 DEF CacheInv, CacheTypeOK
<1>7. ActiveIsReady'
  BY <1>1, <1>5 DEF ActiveIsReady
<1> QED
  BY <1>6, <1>7 DEF CacheInv

LEMMA TryPrimeInv ==
    ASSUME CacheInv, NEW b \in Battle, NEW current \in Battle,
           NEW ok \in BOOLEAN, TryPrime(b, current, ok)
    PROVE  CacheInv'
<1> DEFINE room == IF b \notin ready /\ OverBudget(ready)
                   THEN ready \ Farthest(ready, active, current) ELSE ready
<1>1. UNCHANGED <<summary, active, budget>>
  BY DEF TryPrime
<1>2. CASE PrimeDeclined(b, current)
  <2>1. UNCHANGED <<ready, failed>>
    BY <1>2 DEF TryPrime
  <2> QED
    BY <1>1, <2>1 DEF CacheInv, CacheTypeOK, ActiveIsReady
<1>3. CASE ~PrimeDeclined(b, current)
  <2>1. /\ ready' = EnsureReady(room, active, b, ok)
        /\ failed' = failed \cup Refused(room, b, ok)
    BY <1>3 DEF TryPrime, MayFail
  <2>2. room \subseteq ready /\ (active \in ready => active \in room)
    BY VictimSpares
  <2> HIDE DEF room
  <2>3. ready' \subseteq room \cup {b}
    BY <2>1, EnsureReadyAdds
  <2>4. active \in room => active \in ready'
    BY <2>1, EnsureReadySpares
  <2>5. Refused(room, b, ok) \subseteq Battle
    BY RefusedType
  <2>6. CacheTypeOK'
    BY <1>1, <2>1, <2>2, <2>3, <2>5 DEF CacheInv, CacheTypeOK
  <2>7. ActiveIsReady'
    BY <1>1, <2>1, <2>2, <2>4 DEF CacheInv, ActiveIsReady
  <2> QED
    BY <2>6, <2>7 DEF CacheInv
<1> QED
  BY <1>2, <1>3

LEMMA PrewarmInv ==
    ASSUME CacheInv, NEW b \in Battle, NEW current \in Battle,
           NEW ok \in BOOLEAN, Prewarm(b, current, ok)
    PROVE  CacheInv'
<1>1. UNCHANGED <<ready, active, budget>>
  BY DEF Prewarm
<1>2. summary' \subseteq summary \cup {b}
  BY DEF Prewarm
<1>3. failed' = failed \/ failed' = failed \cup Refused(summary, b, ok)
  BY DEF Prewarm, MayFail
<1>4. Refused(summary, b, ok) \subseteq Battle
  BY RefusedType
<1> QED
  BY <1>1, <1>2, <1>3, <1>4 DEF CacheInv, CacheTypeOK, ActiveIsReady

LEMMA RevertInv == CacheInv /\ Revert => CacheInv'
BY DEF CacheInv, CacheTypeOK, ActiveIsReady, Revert

\* Every operation keeps the invariant.
LEMMA CacheNextInv == CacheInv /\ [CacheNext]_cacheVars => CacheInv'
<1> SUFFICES ASSUME CacheInv, [CacheNext]_cacheVars PROVE CacheInv'
  OBVIOUS
<1>1. CASE UNCHANGED cacheVars
  BY <1>1 DEF CacheInv, CacheTypeOK, ActiveIsReady, cacheVars
<1>2. CASE \E a, b \in Battle \cup {None}, okA, okB \in BOOLEAN : Frame(a, b, okA, okB)
  BY <1>2, FrameInv
<1>3. CASE \E b, current \in Battle, ok \in BOOLEAN : TryPrime(b, current, ok)
  BY <1>3, TryPrimeInv
<1>4. CASE \E b, current \in Battle, ok \in BOOLEAN : Prewarm(b, current, ok)
  BY <1>4, PrewarmInv
<1>5. CASE Revert
  BY <1>5, RevertInv
<1> QED
  BY <1>1, <1>2, <1>3, <1>4, <1>5 DEF CacheNext

LEMMA CacheInvariant == CacheSpec => []CacheInv
BY CacheInitInv, CacheNextInv, PTL DEF CacheSpec

\* What the caches hold is always battles of this replay.
THEOREM CacheTypeCorrect == CacheSpec => []CacheTypeOK
<1>1. CacheInv => CacheTypeOK
  BY DEF CacheInv
<1> QED
  BY <1>1, CacheInvariant, PTL

\* The battle on screen keeps its index through every frame, proactive request
\* and revert, whatever the costs, the budget and the stale cursors the page
\* sends (replay_ensure_battle_ready, replay_try_prime_battle).
THEOREM ActiveAlwaysReady == CacheSpec => []ActiveIsReady
<1>1. CacheInv => ActiveIsReady
  BY DEF CacheInv
<1> QED
  BY <1>1, CacheInvariant, PTL

-----------------------------------------------------------------------------
(* Page and worker.                                                        *)

\* A pair of cursors is made of battles and gaps.
LEMMA CursorParts ==
    ASSUME NEW c \in Cursors
    PROVE  c[1] \in Battle \cup {None} /\ c[2] \in Battle \cup {None}
BY PrimingConstants

\* What the worker is told of the cursor is always a battle.
LEMMA BaseIsBattle ==
    ASSUME NEW p \in Page, cursor \in Cursors
    PROVE  Base(p) \in Battle
<1>1. 0 \in Battle
  BY CacheConstants DEF Battle
<1>2. Current(p) \in Battle \cup {None}
  BY CursorParts DEF Current, Page
<1> QED
  BY <1>1, <1>2 DEF Base, None

\* The end of a page handler posts at most one request, well formed.
LEMMA ScheduleType ==
    ASSUME NEW p \in Page, NEW kinds, cursor \in Cursors,
           toWorker \in Seq(Requests), Schedule(p, kinds)
    PROVE  page' \in Page /\ toWorker' \in Seq(Requests)
<1>1. \A b \in Battle, type \in {"prime", "prewarm"} : Request(type, b, p) \in Requests
  BY BaseIsBattle DEF Request, Requests
<1>2. PrimeTarget(p) \subseteq Battle /\ SummaryTarget(p) \subseteq Battle
  BY DEF PrimeTarget, SummaryTarget, First
<1>3. [p EXCEPT !.priming = TRUE] \in Page /\ [p EXCEPT !.prewarming = TRUE] \in Page
  BY DEF Page
<1>4. CASE page' = p /\ UNCHANGED toWorker
  BY <1>4
<1>5. CASE \E b \in Battle :
             /\ page' = [p EXCEPT !.priming = TRUE]
             /\ toWorker' = Append(toWorker, Request("prime", b, p))
  BY <1>1, <1>3, <1>5
<1>6. CASE \E b \in Battle :
             /\ page' = [p EXCEPT !.prewarming = TRUE]
             /\ toWorker' = Append(toWorker, Request("prewarm", b, p))
  BY <1>1, <1>3, <1>6
<1> QED
  BY <1>2, <1>4, <1>5, <1>6, Zenon DEF Schedule

\* Reading a message leaves a shorter queue of the same kind.
LEMMA ReceiveType ==
    ASSUME NEW type, Receive(type), toPage \in Seq(Replies)
    PROVE  Head(toPage) \in Replies /\ toPage' \in Seq(Replies)
BY DEF Receive

LEMMA HandleType ==
    ASSUME NEW type, Handle(type), toWorker \in Seq(Requests)
    PROVE  Head(toWorker) \in Requests /\ toWorker' \in Seq(Requests)
BY DEF Handle

\* What a request does to the caches is one of their operations.
LEMMA EffectIsCacheStep ==
    ASSUME NEW m \in Requests, Effect(m)
    PROVE  CacheNext
<1>1. CASE m \in [type : {"frame"}, at : Cursors]
  <2>1. m.type = "frame" /\ m.at \in Cursors
    BY <1>1
  <2>2. PICK okA, okB \in BOOLEAN : Frame(m.at[1], m.at[2], okA, okB)
    BY <2>1 DEF Effect
  <2> QED
    BY <2>1, <2>2, CursorParts DEF CacheNext
<1>2. CASE m \in [type : {"prime", "prewarm"}, matchIdx : Battle, currentMatchIdx : Battle]
  <2>1. m.type # "frame" /\ m.matchIdx \in Battle /\ m.currentMatchIdx \in Battle
    BY <1>2
  <2>2. PICK okA \in BOOLEAN : \/ TryPrime(m.matchIdx, m.currentMatchIdx, okA)
                               \/ Prewarm(m.matchIdx, m.currentMatchIdx, okA)
    BY <2>1 DEF Effect
  <2> QED
    BY <2>1, <2>2 DEF CacheNext
<1> QED
  BY <1>1, <1>2 DEF Requests

-----------------------------------------------------------------------------
\* Every step of the whole is a step of the caches, or leaves them alone.
LEMMA StepIsCacheStep ==
    ASSUME TypeOK, [Next]_vars
    PROVE  [CacheNext]_cacheVars
<1>1. CASE UNCHANGED vars
  BY <1>1 DEF vars, cacheVars
<1>2. CASE RequestFrame \/ MoveCursor \/ OnPrefetched
  BY <1>2 DEF RequestFrame, MoveCursor, OnPrefetched
<1>3. CASE OnMessage
  BY <1>3 DEF OnMessage, Receive, OnFrame, OnBattlePrimed, OnPrimingDeclined,
              OnSummaryPrewarmed, OnSummaryDeclined, OnError, OnReverted
<1>4. CASE Worker
  <2>1. Effect(Head(toWorker)) /\ toWorker # <<>>
    BY <1>4 DEF Worker, RunFrame, RunPrime, RunPrewarm, Handle
  <2>2. Head(toWorker) \in Requests
    BY <2>1 DEF TypeOK
  <2> QED
    BY <2>1, <2>2, EffectIsCacheStep
<1>5. CASE Throw
  <2>1. toWorker # <<>> /\ (UNCHANGED cacheVars \/ Effect(Head(toWorker)))
    BY <1>5 DEF Throw
  <2>2. Head(toWorker) \in Requests
    BY <2>1 DEF TypeOK
  <2> QED
    BY <2>1, <2>2, EffectIsCacheStep
<1>6. CASE RunRevert
  BY <1>6 DEF RunRevert, CacheNext
<1> QED
  BY <1>1, <1>2, <1>3, <1>4, <1>5, <1>6 DEF Next

\* Each handler of the page keeps the types, once the caches' are known.
LEMMA PageStepType ==
    ASSUME TypeOK, CacheTypeOK',
           RequestFrame \/ MoveCursor \/ OnPrefetched \/ OnMessage
    PROVE  TypeOK'
<1> USE DEF TypeOK
<1>1. CASE RequestFrame
  <2>1. FrameRequest \in Requests
    BY DEF FrameRequest, Requests
  <2>2. [page EXCEPT !.pending = TRUE] \in Page
    BY DEF Page
  <2> QED
    BY <1>1, <2>1, <2>2 DEF RequestFrame, counters
<1>2. CASE MoveCursor
  BY <1>2 DEF MoveCursor
<1>3. CASE OnPrefetched
  BY <1>3, ScheduleType DEF OnPrefetched, counters
<1>4. CASE OnMessage
  <2> DEFINE m == Head(toPage)
  <2>1. /\ m \in Replies /\ toPage' \in Seq(Replies)
        /\ cursor' = cursor /\ UNCHANGED counters
    BY <1>4, ReceiveType DEF OnMessage, OnFrame, OnBattlePrimed, OnPrimingDeclined,
         OnSummaryPrewarmed, OnSummaryDeclined, OnError, OnReverted, Receive
  <2>2. page' \in Page /\ toWorker' \in Seq(Requests)
    <3>1. CASE OnFrame
      <4>1. m.type = "frame" /\ m.active \in Battle \cup {None} /\ m.mask \in SUBSET Battle
        BY <2>1, <3>1 DEF OnFrame, Receive, Replies
      <4>2. Resynced([page EXCEPT !.pending = FALSE, !.shown = m.active], m.mask) \in Page
        BY <4>1 DEF Resynced, Page
      <4> QED
        BY <3>1, <4>2, ScheduleType DEF OnFrame
    <3>2. CASE OnBattlePrimed
      <4>1. m.mask \in SUBSET Battle
        BY <2>1, <3>2 DEF OnBattlePrimed, Receive, Replies
      <4>2. Resynced([page EXCEPT !.priming = FALSE], m.mask) \in Page
        BY <4>1 DEF Resynced, Page
      <4> QED
        BY <3>2, <4>2, ScheduleType DEF OnBattlePrimed
    <3>3. CASE OnPrimingDeclined
      <4>1. m.mask \in SUBSET Battle /\ m.matchIdx \in Battle
        BY <2>1, <3>3 DEF OnPrimingDeclined, Receive, Replies
      <4>2. AfterDecline(m) \in Page
        BY <4>1 DEF AfterDecline, Resynced, Page
      <4> QED
        BY <3>3, <4>2, ScheduleType DEF OnPrimingDeclined
    <3>4. CASE OnSummaryPrewarmed
      <4>1. m.evicted \in SUBSET Battle /\ m.matchIdx \in Battle
        BY <2>1, <3>4 DEF OnSummaryPrewarmed, Receive, Replies
      <4>2. AfterPrewarm(m) \in Page
        BY <4>1 DEF AfterPrewarm, Page
      <4> QED
        BY <3>4, <4>2, ScheduleType DEF OnSummaryPrewarmed
    <3>5. CASE OnSummaryDeclined
      <4>1. m.matchIdx \in Battle
        BY <2>1, <3>5 DEF OnSummaryDeclined, Receive, Replies
      <4>2. [page EXCEPT !.prewarming = FALSE, !.skipped = @ \cup {m.matchIdx}] \in Page
        BY <4>1 DEF Page
      <4> QED
        BY <3>5, <4>2, ScheduleType DEF OnSummaryDeclined
    <3>6. CASE OnError
      BY <3>6 DEF OnError, AfterError, Page
    <3>7. CASE OnReverted
      <4>1. FrameRequest \in Requests
        BY DEF FrameRequest, Requests
      <4>2. [page EXCEPT !.pending = TRUE] \in Page
        BY DEF Page
      <4> QED
        BY <3>7, <4>1, <4>2 DEF OnReverted
    <3> QED
      BY <1>4, <3>1, <3>2, <3>3, <3>4, <3>5, <3>6, <3>7 DEF OnMessage
  <2> QED
    BY <2>1, <2>2 DEF counters
<1> QED
  BY <1>1, <1>2, <1>3, <1>4

\* And each handler of the worker.
LEMMA WorkerStepType ==
    ASSUME TypeOK, CacheTypeOK', Worker \/ Throw \/ RunRevert
    PROVE  TypeOK'
<1> USE DEF TypeOK
<1>1. CASE RunFrame
  <2>1. [type |-> "frame", active |-> active', mask |-> ready'] \in Replies
    BY DEF Replies, CacheTypeOK
  <2> QED
    BY <1>1, <2>1, HandleType DEF RunFrame, Reply, Handle, counters
<1>2. CASE RunPrime
  <2> DEFINE m == Head(toWorker)
  <2>1. m.matchIdx \in Battle
    BY <1>2, HandleType DEF RunPrime, Handle, Requests
  <2>2. \A t \in {"primingDeclined", "battlePrimed"} :
          [type |-> t, matchIdx |-> m.matchIdx, mask |-> ready'] \in Replies
    BY <2>1 DEF Replies, CacheTypeOK
  <2> QED
    BY <1>2, <2>2, HandleType DEF RunPrime, Reply, Handle, counters
<1>3. CASE RunPrewarm
  <2> DEFINE m == Head(toWorker)
  <2>1. m.matchIdx \in Battle
    BY <1>3, HandleType DEF RunPrewarm, Handle, Requests
  <2>2. PrewarmEvicted(m.matchIdx, m.currentMatchIdx) \in SUBSET Battle
    BY VictimSpares DEF PrewarmEvicted, CacheTypeOK
  <2>3. /\ [type |-> "summaryPrewarmed", matchIdx |-> m.matchIdx,
            evicted |-> PrewarmEvicted(m.matchIdx, m.currentMatchIdx)] \in Replies
        /\ [type |-> "summaryPrewarmDeclined", matchIdx |-> m.matchIdx] \in Replies
    BY <2>1, <2>2 DEF Replies
  <2> QED
    BY <1>3, <2>3, HandleType DEF RunPrewarm, Reply, Handle, counters
<1>4. CASE Throw
  <2>1. [type |-> "error"] \in Replies
    BY DEF Replies
  <2> QED
    BY <1>4, <2>1 DEF Throw, Reply
<1>5. CASE RunRevert
  <2>1. [type |-> "checkpointReverted"] \in Replies
    BY DEF Replies
  <2> QED
    BY <1>5, <2>1 DEF RunRevert, Reply
<1> QED
  BY <1>1, <1>2, <1>3, <1>4, <1>5 DEF Worker

PrimingInv == TypeOK /\ CacheInv

LEMMA InitInv == Init => PrimingInv
<1> SUFFICES ASSUME Init PROVE PrimingInv
  OBVIOUS
<1>1. CacheInv
  BY CacheInitInv DEF Init
<1>2. TypeOK
  BY <1>1 DEF Init, TypeOK, Page, CacheInv
<1> QED
  BY <1>1, <1>2 DEF PrimingInv

LEMMA NextInv == PrimingInv /\ [Next]_vars => PrimingInv'
<1> SUFFICES ASSUME PrimingInv, [Next]_vars PROVE PrimingInv'
  OBVIOUS
<1>1. CacheInv'
  BY StepIsCacheStep, CacheNextInv DEF PrimingInv
<1>2. TypeOK'
  <2>1. CASE UNCHANGED vars
    BY <1>1, <2>1 DEF PrimingInv, CacheInv, TypeOK, vars, counters
  <2>2. CASE Next
    BY <1>1, <2>2, PageStepType, WorkerStepType DEF PrimingInv, CacheInv, Next
  <2> QED
    BY <2>1, <2>2
<1> QED
  BY <1>1, <1>2 DEF PrimingInv

LEMMA PrimingInvariant == Spec => []PrimingInv
BY InitInv, NextInv, PTL DEF Spec

\* Both queues only ever hold what their reader expects, and the cursor the
\* worker is told of is a battle even when replayTime stands in a gap.
THEOREM PrimingTypeCorrect == Spec => []TypeOK
<1>1. PrimingInv => TypeOK
  BY DEF PrimingInv
<1> QED
  BY <1>1, PrimingInvariant, PTL

\* The scheduler and the worker's handlers implement the caches' specification.
THEOREM PrimingImplementsCache == Spec => CacheSpec
<1>1. Init => CacheInit
  BY DEF Init
<1>2. PrimingInv /\ [Next]_vars => [CacheNext]_cacheVars
  BY StepIsCacheStep DEF PrimingInv
<1> QED
  BY <1>1, <1>2, PrimingInvariant, PTL DEF Spec, CacheSpec

\* So under any schedule of page and worker the battle on screen has its index.
THEOREM ActiveReadyUnderPriming == Spec => []ActiveIsReady
BY PrimingImplementsCache, ActiveAlwaysReady, PTL

-----------------------------------------------------------------------------
(* What the page believes.  Every change of what is ready is told in the    *)
(* queue to the page, and the last word there is the one that counts: a     *)
(* revert's is followed by a frame, whose answer tells it anew.             *)

News == {"frame", "battlePrimed", "primingDeclined", "checkpointReverted"}

LastWord(q, i) == /\ q[i].type \in News
                  /\ \A j \in 1 .. Len(q) : j > i => q[j].type \notin News

\* Of the queue q to page p, with the battles in built ready.
WordsAreTrue(q, p, built) ==
    /\ \A i \in 1 .. Len(q) : q[i].type # "error"
    /\ \A i \in 1 .. Len(q) :
          LastWord(q, i) => q[i].type = "checkpointReverted" \/ q[i].mask = built
    /\ (\A i \in 1 .. Len(q) : q[i].type \notin News) => p.primed = built \/ p.pending

\* Once a request has thrown, masks may be lost with its answer.
NewsIsTrue == errors = 0 => WordsAreTrue(toPage, page, ready)

\* What is on its way after one more message, or one fewer.
LEMMA SetOfAppend ==
    ASSUME NEW S, NEW q \in Seq(S), NEW m \in S
    PROVE  ToSet(Append(q, m)) = ToSet(q) \cup {m}
<1>1. Len(Append(q, m)) = Len(q) + 1 /\ Len(q) \in Nat
  OBVIOUS
<1>2. /\ \A i \in 1 .. Len(q) : Append(q, m)[i] = q[i]
      /\ Append(q, m)[Len(q) + 1] = m
  OBVIOUS
<1>3. DOMAIN Append(q, m) = 1 .. Len(q) + 1 /\ DOMAIN q = 1 .. Len(q)
  OBVIOUS
<1>4. 1 .. Len(q) + 1 = (1 .. Len(q)) \cup {Len(q) + 1}
  BY <1>1
<1> QED
  BY <1>2, <1>3, <1>4, Zenon DEF ToSet

LEMMA SetOfTail ==
    ASSUME NEW S, NEW q \in Seq(S), q # <<>>
    PROVE  ToSet(q) = {Head(q)} \cup ToSet(Tail(q))
<1>1. Len(q) \in Nat \ {0} /\ Len(Tail(q)) = Len(q) - 1
  OBVIOUS
<1>2. /\ \A i \in 1 .. Len(q) - 1 : Tail(q)[i] = q[i + 1]
      /\ Head(q) = q[1]
  OBVIOUS
<1>3. DOMAIN q = 1 .. Len(q) /\ DOMAIN Tail(q) = 1 .. Len(q) - 1
  BY <1>1
<1>4. ASSUME NEW i \in 1 .. Len(q) PROVE q[i] \in {Head(q)} \cup ToSet(Tail(q))
  <2>1. CASE i = 1
    BY <1>2, <2>1
  <2>2. CASE i # 1
    <3>1. i - 1 \in 1 .. Len(q) - 1 /\ q[i] = Tail(q)[i - 1]
      BY <1>1, <1>2, <2>2
    <3> QED
      BY <1>3, <3>1 DEF ToSet
  <2> QED
    BY <2>1, <2>2
<1>5. ASSUME NEW i \in 1 .. Len(q) - 1 PROVE Tail(q)[i] \in ToSet(q)
  BY <1>1, <1>2, <1>3 DEF ToSet
<1>6. Head(q) \in ToSet(q)
  BY <1>1, <1>2, <1>3 DEF ToSet
<1> QED
  BY <1>3, <1>4, <1>5, <1>6 DEF ToSet

\* One more message in a true queue: either it tells of what is ready now, or
\* it is no news and nothing changed, or it is of a revert.
LEMMA WordAdded ==
    ASSUME NEW q \in Seq(Replies), NEW p, NEW built, NEW now, NEW m \in Replies,
           WordsAreTrue(q, p, built), m.type # "error",
           \/ m.type = "checkpointReverted"
           \/ m.type \in News /\ m.mask = now
           \/ m.type \notin News /\ now = built
    PROVE  WordsAreTrue(Append(q, m), p, now)
<1> DEFINE r == Append(q, m)
           n == Len(q)
<1>1. n \in Nat /\ Len(r) = n + 1 /\ r[n + 1] = m /\ \A i \in 1 .. n : r[i] = q[i]
  OBVIOUS
<1> HIDE DEF r, n
<1>2. \A i \in 1 .. n : q[i].type # "error"
  BY DEF WordsAreTrue, n
<1>3. \A i \in 1 .. n : LastWord(q, i) => q[i].type = "checkpointReverted" \/ q[i].mask = built
  BY DEF WordsAreTrue, n
<1>4. \A i \in 1 .. Len(r) : r[i].type # "error"
  BY <1>1, <1>2
<1>5. ASSUME NEW i \in 1 .. Len(r), LastWord(r, i)
      PROVE  r[i].type = "checkpointReverted" \/ r[i].mask = now
  <2>1. r[i].type \in News
    BY <1>5 DEF LastWord
  <2>2. CASE i = n + 1
    BY <1>1, <2>1, <2>2
  <2>3. CASE i # n + 1
    <3>1. i \in 1 .. n /\ r[i] = q[i]
      BY <1>1, <2>3
    <3>2. n + 1 \in 1 .. Len(r) /\ n + 1 > i
      BY <1>1, <3>1
    <3>3. m.type \notin News
      BY <1>1, <1>5, <3>2 DEF LastWord
    <3>4. ASSUME NEW j \in 1 .. n, j > i PROVE q[j].type \notin News
      <4>1. j \in 1 .. Len(r) /\ r[j] = q[j]
        BY <1>1
      <4> QED
        BY <1>5, <3>4, <4>1 DEF LastWord
    <3>5. LastWord(q, i)
      BY <2>1, <3>1, <3>4 DEF LastWord, n
    <3> QED
      BY <1>3, <3>1, <3>3, <3>5 DEF News
  <2> QED
    BY <2>2, <2>3
<1>6. ASSUME \A i \in 1 .. Len(r) : r[i].type \notin News
      PROVE  p.primed = now \/ p.pending
  <2>1. n + 1 \in 1 .. Len(r)
    BY <1>1
  <2>2. m.type \notin News
    BY <1>1, <1>6, <2>1
  <2>3. \A i \in 1 .. n : q[i].type \notin News
    BY <1>1, <1>6
  <2> QED
    BY <2>2, <2>3 DEF WordsAreTrue, News, n
<1> QED
  BY <1>4, <1>5, <1>6 DEF WordsAreTrue, r

\* One message fewer: if it was the last word, the page has to have heeded it;
\* if it was no news, the page believes what it did.
LEMMA WordHeard ==
    ASSUME NEW q \in Seq(Replies), NEW p, NEW o, NEW built, q # <<>>,
           WordsAreTrue(q, p, built),
           \/ Head(q).type = "checkpointReverted" /\ o.pending
           \/ Head(q).type \in News \ {"checkpointReverted"} /\ o.primed = Head(q).mask
           \/ Head(q).type \notin News /\ o.primed = p.primed /\ o.pending = p.pending
    PROVE  WordsAreTrue(Tail(q), o, built)
<1> DEFINE r == Tail(q)
           n == Len(q)
<1>1. /\ n \in Nat \ {0} /\ Len(r) = n - 1 /\ Head(q) = q[1]
      /\ \A i \in 1 .. n - 1 : r[i] = q[i + 1]
  OBVIOUS
<1> HIDE DEF r, n
<1>2. /\ \A i \in 1 .. n : q[i].type # "error"
      /\ \A i \in 1 .. n : LastWord(q, i) => q[i].type = "checkpointReverted" \/ q[i].mask = built
      /\ (\A i \in 1 .. n : q[i].type \notin News) => p.primed = built \/ p.pending
  BY DEF WordsAreTrue, n
<1>3. \A i \in 1 .. Len(r) : i + 1 \in 1 .. n /\ r[i] = q[i + 1]
  BY <1>1
<1>4. \A i \in 1 .. Len(r) : r[i].type # "error"
  BY <1>2, <1>3
<1>5. ASSUME NEW i \in 1 .. Len(r), LastWord(r, i)
      PROVE  r[i].type = "checkpointReverted" \/ r[i].mask = built
  <2>1. ASSUME NEW j \in 1 .. n, j > i + 1 PROVE q[j].type \notin News
    <3>1. j - 1 \in 1 .. Len(r) /\ j - 1 > i /\ r[j - 1] = q[j]
      BY <1>1, <2>1
    <3> QED
      BY <1>5, <3>1 DEF LastWord
  <2>2. LastWord(q, i + 1)
    BY <1>3, <1>5, <2>1 DEF LastWord, n
  <2> QED
    BY <1>2, <1>3, <2>2
<1>6. ASSUME \A i \in 1 .. Len(r) : r[i].type \notin News
      PROVE  o.primed = built \/ o.pending
  <2>1. ASSUME NEW j \in 1 .. n, j > 1 PROVE q[j].type \notin News
    <3>1. j - 1 \in 1 .. Len(r) /\ r[j - 1] = q[j]
      BY <1>1, <2>1
    <3> QED
      BY <1>6, <3>1
  <2>2. 1 \in 1 .. n
    BY <1>1
  <2>3. CASE q[1].type \in News
    <3>1. LastWord(q, 1)
      BY <2>1, <2>3 DEF LastWord, n
    <3> QED
      BY <1>1, <1>2, <2>2, <2>3, <3>1 DEF News
  <2>4. CASE q[1].type \notin News
    <3>1. \A i \in 1 .. n : q[i].type \notin News
      BY <1>1, <2>1, <2>4
    <3> QED
      BY <1>1, <1>2, <2>4, <3>1 DEF News
  <2> QED
    BY <2>3, <2>4
<1> QED
  BY <1>4, <1>5, <1>6 DEF WordsAreTrue, r

-----------------------------------------------------------------------------
(* What the page waits for.                                                *)

\* The end of a handler raises a flag only with the request it stands for.
LEMMA ScheduleFlags ==
    ASSUME NEW p \in Page, NEW kinds, cursor \in Cursors,
           toWorker \in Seq(Requests), Schedule(p, kinds)
    PROVE  /\ page'.primed = p.primed /\ page'.pending = p.pending
           /\ ToSet(toWorker) \subseteq ToSet(toWorker')
           /\ page'.priming => p.priming \/ Posted({"prime"})'
           /\ page'.prewarming => p.prewarming \/ Posted({"prewarm"})'
<1>1. \A b \in Battle, type \in {"prime", "prewarm"} : Request(type, b, p) \in Requests
  BY BaseIsBattle DEF Request, Requests
<1>2. PrimeTarget(p) \subseteq Battle /\ SummaryTarget(p) \subseteq Battle
  BY DEF PrimeTarget, SummaryTarget, First
<1>3. /\ \A b : Request("prime", b, p).type = "prime"
      /\ \A b : Request("prewarm", b, p).type = "prewarm"
  BY DEF Request
<1>4. CASE page' = p /\ UNCHANGED toWorker
  BY <1>4
<1>5. CASE \E b \in Battle :
             /\ page' = [p EXCEPT !.priming = TRUE]
             /\ toWorker' = Append(toWorker, Request("prime", b, p))
  <2>1. PICK b \in Battle : /\ page' = [p EXCEPT !.priming = TRUE]
                            /\ toWorker' = Append(toWorker, Request("prime", b, p))
    BY <1>5
  <2>2. Request("prime", b, p) \in Requests
    BY <1>1
  <2>3. ToSet(toWorker') = ToSet(toWorker) \cup {Request("prime", b, p)}
    BY <2>1, <2>2, SetOfAppend
  <2>4. Posted({"prime"})'
    BY <1>3, <2>3 DEF Posted
  <2>5. /\ page'.primed = p.primed /\ page'.pending = p.pending
        /\ page'.prewarming = p.prewarming
    BY <2>1 DEF Page
  <2> QED
    BY <2>3, <2>4, <2>5
<1>6. CASE \E b \in Battle :
             /\ page' = [p EXCEPT !.prewarming = TRUE]
             /\ toWorker' = Append(toWorker, Request("prewarm", b, p))
  <2>1. PICK b \in Battle : /\ page' = [p EXCEPT !.prewarming = TRUE]
                            /\ toWorker' = Append(toWorker, Request("prewarm", b, p))
    BY <1>6
  <2>2. Request("prewarm", b, p) \in Requests
    BY <1>1
  <2>3. ToSet(toWorker') = ToSet(toWorker) \cup {Request("prewarm", b, p)}
    BY <2>1, <2>2, SetOfAppend
  <2>4. Posted({"prewarm"})'
    BY <1>3, <2>3 DEF Posted
  <2>5. /\ page'.primed = p.primed /\ page'.pending = p.pending
        /\ page'.priming = p.priming
    BY <2>1 DEF Page
  <2> QED
    BY <2>3, <2>4, <2>5
<1> QED
  BY <1>2, <1>4, <1>5, <1>6, Zenon DEF Schedule

\* The page has heard the first message: a flag it did not answer is still
\* honest.
LEMMA HonestAfterHearing ==
    ASSUME TypeOK, FlagsAreHonest, toPage # <<>>, toPage' = Tail(toPage),
           ToSet(toWorker) \subseteq ToSet(toWorker'),
           page'.pending =>
               \/ page.pending /\ Head(toPage).type \notin {"frame", "error"}
               \/ Posted({"frame"})',
           page'.priming =>
               \/ /\ page.priming
                  /\ Head(toPage).type \notin {"battlePrimed", "primingDeclined", "error"}
               \/ Posted({"prime"})',
           page'.prewarming =>
               \/ /\ page.prewarming
                  /\ Head(toPage).type \notin
                        {"summaryPrewarmed", "summaryPrewarmDeclined", "error"}
               \/ Posted({"prewarm"})'
    PROVE  FlagsAreHonest'
<1>1. ToSet(toPage) = {Head(toPage)} \cup ToSet(toPage')
  BY SetOfTail DEF TypeOK
<1>2. \A types : Answered(types) => Head(toPage).type \in types \/ Answered(types)'
  BY <1>1, Zenon DEF Answered
<1>3. \A types : Posted(types) => Posted(types)'
  BY DEF Posted
<1>4. page'.pending => Posted({"frame"})' \/ Answered({"frame", "error"})'
  BY <1>2, <1>3, Zenon DEF FlagsAreHonest
<1>5. page'.priming => \/ Posted({"prime"})'
                       \/ Answered({"battlePrimed", "primingDeclined", "error"})'
  BY <1>2, <1>3, Zenon DEF FlagsAreHonest
<1>6. page'.prewarming => \/ Posted({"prewarm"})'
                          \/ Answered({"summaryPrewarmed", "summaryPrewarmDeclined", "error"})'
  BY <1>2, <1>3, Zenon DEF FlagsAreHonest
<1> QED
  BY <1>4, <1>5, <1>6, Zenon DEF FlagsAreHonest

\* The worker has answered its first request, with an error or in kind.
LEMMA HonestAfterWork ==
    ASSUME TypeOK, FlagsAreHonest, NEW m \in Replies,
           toWorker # <<>>, toWorker' = Tail(toWorker),
           toPage' = Append(toPage, m), page' = page,
           m.type # "error" =>
             /\ Head(toWorker).type = "frame" => m.type = "frame"
             /\ Head(toWorker).type = "prime" => m.type \in {"battlePrimed", "primingDeclined"}
             /\ Head(toWorker).type = "prewarm" =>
                    m.type \in {"summaryPrewarmed", "summaryPrewarmDeclined"}
    PROVE  FlagsAreHonest'
<1>1. ToSet(toPage') = ToSet(toPage) \cup {m}
  BY SetOfAppend DEF TypeOK
<1>2. ToSet(toWorker) = {Head(toWorker)} \cup ToSet(toWorker')
  BY SetOfTail DEF TypeOK
<1>3. \A types : Posted(types) => Head(toWorker).type \in types \/ Posted(types)'
  BY <1>2, Zenon DEF Posted
<1>4. \A types : Answered(types) \/ m.type \in types => Answered(types)'
  BY <1>1, Zenon DEF Answered
<1>5. page'.pending => Posted({"frame"})' \/ Answered({"frame", "error"})'
  BY <1>3, <1>4 DEF FlagsAreHonest
<1>6. page'.priming => \/ Posted({"prime"})'
                       \/ Answered({"battlePrimed", "primingDeclined", "error"})'
  BY <1>3, <1>4 DEF FlagsAreHonest
<1>7. page'.prewarming => \/ Posted({"prewarm"})'
                          \/ Answered({"summaryPrewarmed", "summaryPrewarmDeclined", "error"})'
  BY <1>3, <1>4 DEF FlagsAreHonest
<1> QED
  BY <1>5, <1>6, <1>7, Zenon DEF FlagsAreHonest

HonestInv == PrimingInv /\ FlagsAreHonest /\ NewsIsTrue

\* A handler that hears a message, comes to state p, and looks for work.
LEMMA HeardAndScheduled ==
    ASSUME TypeOK, FlagsAreHonest, NewsIsTrue, NEW type, Receive(type),
           NEW p \in Page, NEW kinds, Schedule(p, kinds), type # "error",
           p.pending => page.pending /\ type # "frame",
           p.priming => page.priming /\ type \notin {"battlePrimed", "primingDeclined"},
           p.prewarming => /\ page.prewarming
                           /\ type \notin {"summaryPrewarmed", "summaryPrewarmDeclined"},
           \/ type \in News \ {"checkpointReverted"} /\ p.primed = Head(toPage).mask
           \/ type \notin News /\ p.primed = page.primed /\ p.pending = page.pending
    PROVE  FlagsAreHonest' /\ NewsIsTrue'
<1>1. /\ toPage # <<>> /\ Head(toPage).type = type /\ toPage' = Tail(toPage)
      /\ ready' = ready /\ errors' = errors
  BY DEF Receive, counters, cacheVars
<1>2. /\ page'.primed = p.primed /\ page'.pending = p.pending
      /\ ToSet(toWorker) \subseteq ToSet(toWorker')
      /\ page'.priming => p.priming \/ Posted({"prime"})'
      /\ page'.prewarming => p.prewarming \/ Posted({"prewarm"})'
  BY ScheduleFlags DEF TypeOK
<1>3. FlagsAreHonest'
  BY <1>1, <1>2, HonestAfterHearing
<1>4. ASSUME errors = 0 PROVE WordsAreTrue(toPage', page', ready)
  <2>1. WordsAreTrue(toPage, page, ready)
    BY <1>4 DEF NewsIsTrue
  <2>2. \/ type \in News \ {"checkpointReverted"} /\ page'.primed = Head(toPage).mask
        \/ type \notin News /\ page'.primed = page.primed /\ page'.pending = page.pending
    BY <1>2
  <2>3. toPage \in Seq(Replies)
    BY DEF TypeOK
  <2> DEFINE o == page'
  <2> HIDE DEF o
  <2>4. WordsAreTrue(Tail(toPage), o, ready)
    BY <1>1, <2>1, <2>2, <2>3, WordHeard DEF o
  <2> QED
    BY <1>1, <2>4 DEF o
<1> QED
  BY <1>1, <1>3, <1>4 DEF NewsIsTrue

LEMMA PageStepHonest ==
    ASSUME TypeOK, FlagsAreHonest, NewsIsTrue,
           RequestFrame \/ MoveCursor \/ OnPrefetched \/ OnMessage
    PROVE  FlagsAreHonest' /\ NewsIsTrue'
<1> DEFINE m == Head(toPage)
<1>a. page \in Page /\ toWorker \in Seq(Requests) /\ toPage \in Seq(Replies)
  BY DEF TypeOK
<1>1. CASE RequestFrame
  <2>1. FrameRequest \in Requests /\ FrameRequest.type = "frame"
    BY DEF FrameRequest, Requests, TypeOK
  <2>2. ToSet(toWorker') = ToSet(toWorker) \cup {FrameRequest}
    BY <1>1, <1>a, <2>1, SetOfAppend DEF RequestFrame
  <2>3. /\ page'.pending /\ page'.priming = page.priming
        /\ page'.prewarming = page.prewarming /\ page'.primed = page.primed
    BY <1>1, <1>a DEF RequestFrame, Page
  <2>4. toPage' = toPage /\ ready' = ready /\ errors' = errors
    BY <1>1 DEF RequestFrame, cacheVars, counters
  <2>5. FlagsAreHonest'
    BY <2>1, <2>2, <2>3, <2>4, Zenon DEF FlagsAreHonest, Posted, Answered
  <2>6. NewsIsTrue'
    BY <2>3, <2>4 DEF NewsIsTrue, WordsAreTrue
  <2> QED
    BY <2>5, <2>6
<1>2. CASE MoveCursor
  BY <1>2 DEF MoveCursor, cacheVars, FlagsAreHonest, Posted, Answered, NewsIsTrue
<1>3. CASE OnPrefetched
  <2>1. toPage' = toPage /\ ready' = ready /\ errors' = errors /\ Schedule(page, {"prime"})
    BY <1>3 DEF OnPrefetched, cacheVars, counters
  <2>2. /\ page'.primed = page.primed /\ page'.pending = page.pending
        /\ ToSet(toWorker) \subseteq ToSet(toWorker')
        /\ page'.priming => page.priming \/ Posted({"prime"})'
        /\ page'.prewarming => page.prewarming \/ Posted({"prewarm"})'
    BY <1>a, <2>1, ScheduleFlags DEF TypeOK
  <2>3. FlagsAreHonest'
    BY <2>1, <2>2, Zenon DEF FlagsAreHonest, Posted, Answered
  <2>4. NewsIsTrue'
    BY <2>1, <2>2 DEF NewsIsTrue, WordsAreTrue
  <2> QED
    BY <2>3, <2>4
<1>4. CASE OnFrame
  <2> DEFINE p == Resynced([page EXCEPT !.pending = FALSE, !.shown = m.active], m.mask)
  <2>1. m.type = "frame" /\ m.active \in Battle \cup {None} /\ m.mask \in SUBSET Battle
    BY <1>4, <1>a, ReceiveType DEF OnFrame, Receive, Replies
  <2>2. /\ p \in Page /\ ~p.pending /\ p.primed = m.mask
        /\ p.priming = page.priming /\ p.prewarming = page.prewarming
    BY <1>a, <2>1 DEF Resynced, Page
  <2>3. Receive("frame") /\ Schedule(p, Both)
    BY <1>4 DEF OnFrame
  <2> HIDE DEF p
  <2> QED
    BY <2>2, <2>3, HeardAndScheduled DEF News
<1>5. CASE OnBattlePrimed
  <2> DEFINE p == Resynced([page EXCEPT !.priming = FALSE], m.mask)
  <2>1. m.mask \in SUBSET Battle
    BY <1>5, <1>a, ReceiveType DEF OnBattlePrimed, Receive, Replies
  <2>2. /\ p \in Page /\ ~p.priming /\ p.primed = m.mask
        /\ p.pending = page.pending /\ p.prewarming = page.prewarming
    BY <1>a, <2>1 DEF Resynced, Page
  <2>3. Receive("battlePrimed") /\ Schedule(p, Both)
    BY <1>5 DEF OnBattlePrimed
  <2> HIDE DEF p
  <2> QED
    BY <2>2, <2>3, HeardAndScheduled DEF News
<1>6. CASE OnPrimingDeclined
  <2> DEFINE p == AfterDecline(m)
  <2>1. m.mask \in SUBSET Battle /\ m.matchIdx \in Battle
    BY <1>6, <1>a, ReceiveType DEF OnPrimingDeclined, Receive, Replies
  <2>2. /\ p \in Page /\ ~p.priming /\ p.primed = m.mask
        /\ p.pending = page.pending /\ p.prewarming = page.prewarming
    BY <1>a, <2>1 DEF AfterDecline, Resynced, Page
  <2>3. Receive("primingDeclined") /\ Schedule(p, {"prewarm"})
    BY <1>6 DEF OnPrimingDeclined
  <2> HIDE DEF p
  <2> QED
    BY <2>2, <2>3, HeardAndScheduled DEF News
<1>7. CASE OnSummaryPrewarmed
  <2> DEFINE p == AfterPrewarm(m)
  <2>1. m.evicted \in SUBSET Battle /\ m.matchIdx \in Battle
    BY <1>7, <1>a, ReceiveType DEF OnSummaryPrewarmed, Receive, Replies
  <2>2. /\ p \in Page /\ ~p.prewarming /\ p.primed = page.primed
        /\ p.pending = page.pending /\ p.priming = page.priming
    BY <1>a, <2>1 DEF AfterPrewarm, Page
  <2>3. Receive("summaryPrewarmed") /\ Schedule(p, Both)
    BY <1>7 DEF OnSummaryPrewarmed
  <2> HIDE DEF p
  <2> QED
    BY <2>2, <2>3, HeardAndScheduled DEF News
<1>8. CASE OnSummaryDeclined
  <2> DEFINE p == [page EXCEPT !.prewarming = FALSE, !.skipped = @ \cup {m.matchIdx}]
  <2>1. m.matchIdx \in Battle
    BY <1>8, <1>a, ReceiveType DEF OnSummaryDeclined, Receive, Replies
  <2>2. /\ p \in Page /\ ~p.prewarming /\ p.primed = page.primed
        /\ p.pending = page.pending /\ p.priming = page.priming
    BY <1>a, <2>1 DEF Page
  <2>3. Receive("summaryPrewarmDeclined") /\ Schedule(p, {"prime"})
    BY <1>8 DEF OnSummaryDeclined
  <2> HIDE DEF p
  <2> QED
    BY <2>2, <2>3, HeardAndScheduled DEF News
<1>9. CASE OnError
  <2>1. /\ toPage # <<>> /\ m.type = "error" /\ toPage' = Tail(toPage)
        /\ toWorker' = toWorker /\ errors' = errors /\ page' = AfterError
    BY <1>9 DEF OnError, Receive, counters
  <2>2. ~page'.pending /\ ~page'.priming /\ ~page'.prewarming
    BY <1>a, <2>1 DEF AfterError, Page
  <2>3. FlagsAreHonest'
    BY <2>2 DEF FlagsAreHonest
  <2>4. errors # 0
    <3>1. 1 \in 1 .. Len(toPage) /\ toPage[1] = m
      BY <1>a, <2>1
    <3> QED
      BY <2>1, <3>1 DEF NewsIsTrue, WordsAreTrue
  <2> QED
    BY <2>1, <2>3, <2>4 DEF NewsIsTrue
<1>10. CASE OnReverted
  <2>1. /\ toPage # <<>> /\ m.type = "checkpointReverted" /\ toPage' = Tail(toPage)
        /\ ready' = ready /\ errors' = errors
        /\ page' = [page EXCEPT !.pending = TRUE]
        /\ toWorker' = IF page.pending THEN toWorker ELSE Append(toWorker, FrameRequest)
    BY <1>10 DEF OnReverted, Receive, counters, cacheVars
  <2>2. /\ page'.pending /\ page'.priming = page.priming
        /\ page'.prewarming = page.prewarming
    BY <1>a, <2>1 DEF Page
  <2>3. FrameRequest \in Requests /\ FrameRequest.type = "frame"
    BY DEF FrameRequest, Requests, TypeOK
  <2>4. ToSet(Append(toWorker, FrameRequest)) = ToSet(toWorker) \cup {FrameRequest}
    BY <1>a, <2>3, SetOfAppend
  <2>5. /\ ToSet(toWorker) \subseteq ToSet(toWorker')
        /\ page.pending \/ Posted({"frame"})'
    BY <2>1, <2>3, <2>4, Zenon DEF Posted
  <2>6. FlagsAreHonest'
    BY <2>1, <2>2, <2>5, HonestAfterHearing
  <2>7. ASSUME errors = 0 PROVE WordsAreTrue(toPage', page', ready)
    <3>1. WordsAreTrue(toPage, page, ready)
      BY <2>7 DEF NewsIsTrue
    <3> DEFINE o == page'
    <3>2. o.pending
      BY <2>2
    <3> HIDE DEF o
    <3>3. WordsAreTrue(Tail(toPage), o, ready)
      BY <1>a, <2>1, <3>1, <3>2, WordHeard
    <3> QED
      BY <2>1, <3>3 DEF o
  <2> QED
    BY <2>1, <2>6, <2>7 DEF NewsIsTrue
<1> QED
  BY <1>1, <1>2, <1>3, <1>4, <1>5, <1>6, <1>7, <1>8, <1>9, <1>10 DEF OnMessage

LEMMA WorkerStepHonest ==
    ASSUME TypeOK, TypeOK', FlagsAreHonest, NewsIsTrue, Worker \/ Throw \/ RunRevert
    PROVE  FlagsAreHonest' /\ NewsIsTrue'
<1> DEFINE h == Head(toWorker)
           now == ready'
<1>a. /\ page \in Page /\ toWorker \in Seq(Requests) /\ toPage \in Seq(Replies)
      /\ ready' \in SUBSET Battle /\ active' \in Battle \cup {None}
      /\ toPage' \in Seq(Replies) /\ errors \in Nat /\ errors' \in Nat
  BY DEF TypeOK, CacheTypeOK
\* An answer in kind: it tells what is ready, or nothing changed.
<1>b. ASSUME NEW m \in Replies, toWorker # <<>>, toWorker' = Tail(toWorker),
             toPage' = Append(toPage, m), page' = page, errors' = errors,
             \/ h.type = "frame" /\ m.type = "frame" /\ m.mask = now
             \/ /\ h.type = "prime" /\ m.type \in {"battlePrimed", "primingDeclined"}
                /\ m.mask = now
             \/ /\ h.type = "prewarm"
                /\ m.type \in {"summaryPrewarmed", "summaryPrewarmDeclined"} /\ now = ready
      PROVE  FlagsAreHonest' /\ NewsIsTrue'
  <2>1. FlagsAreHonest'
    BY <1>b, HonestAfterWork
  <2>2. ASSUME errors = 0 PROVE WordsAreTrue(toPage', page, now)
    <3>1. WordsAreTrue(toPage, page, ready)
      BY <2>2 DEF NewsIsTrue
    <3>2. \/ m.type \in News /\ m.mask = now
          \/ m.type \notin News /\ now = ready
      BY <1>b DEF News
    <3>3. m.type # "error"
      BY <1>b
    <3> HIDE DEF now
    <3> QED
      BY <1>a, <1>b, <3>1, <3>2, <3>3, WordAdded
  <2> QED
    BY <1>b, <2>1, <2>2 DEF NewsIsTrue
<1>1. CASE RunFrame
  <2> DEFINE m == [type |-> "frame", active |-> active', mask |-> ready']
  <2>1. m \in Replies /\ m.type = "frame" /\ m.mask = ready'
    BY <1>a DEF Replies
  <2>2. /\ toWorker # <<>> /\ toWorker' = Tail(toWorker) /\ h.type = "frame"
        /\ toPage' = Append(toPage, m) /\ page' = page /\ errors' = errors
    BY <1>1 DEF RunFrame, Handle, Reply, counters
  <2> HIDE DEF m
  <2> QED
    BY <1>b, <2>1, <2>2
<1>2. CASE RunPrime
  <2> DEFINE m == [type |-> IF PrimeDeclined(h.matchIdx, h.currentMatchIdx)
                            THEN "primingDeclined" ELSE "battlePrimed",
                   matchIdx |-> h.matchIdx, mask |-> ready']
  <2>1. h.matchIdx \in Battle
    BY <1>2, <1>a, HandleType DEF RunPrime, Handle, Requests
  <2>2. m \in Replies /\ m.type \in {"battlePrimed", "primingDeclined"} /\ m.mask = ready'
    BY <1>a, <2>1 DEF Replies
  <2>3. /\ toWorker # <<>> /\ toWorker' = Tail(toWorker) /\ h.type = "prime"
        /\ toPage' = Append(toPage, m) /\ page' = page /\ errors' = errors
    BY <1>2 DEF RunPrime, Handle, Reply, counters
  <2> HIDE DEF m
  <2> QED
    BY <1>b, <2>2, <2>3
<1>3. CASE RunPrewarm
  <2> DEFINE m == IF h.matchIdx \in summary'
                  THEN [type |-> "summaryPrewarmed", matchIdx |-> h.matchIdx,
                        evicted |-> PrewarmEvicted(h.matchIdx, h.currentMatchIdx)]
                  ELSE [type |-> "summaryPrewarmDeclined", matchIdx |-> h.matchIdx]
  <2>1. h.matchIdx \in Battle
    BY <1>3, <1>a, HandleType DEF RunPrewarm, Handle, Requests
  <2>2. PrewarmEvicted(h.matchIdx, h.currentMatchIdx) \in SUBSET Battle
    BY VictimSpares DEF PrewarmEvicted, TypeOK, CacheTypeOK
  <2>3. m \in Replies /\ m.type \in {"summaryPrewarmed", "summaryPrewarmDeclined"}
    BY <2>1, <2>2 DEF Replies
  <2>4. /\ toWorker # <<>> /\ toWorker' = Tail(toWorker) /\ h.type = "prewarm"
        /\ toPage' = Append(toPage, m) /\ page' = page /\ errors' = errors
    BY <1>3 DEF RunPrewarm, Handle, Reply, counters
  <2>5. ready' = ready
    BY <1>3, <2>4 DEF RunPrewarm, Effect, Prewarm
  <2> HIDE DEF m
  <2> QED
    BY <1>b, <2>3, <2>4, <2>5
<1>4. CASE Throw
  <2> DEFINE m == [type |-> "error"]
  <2>1. m \in Replies /\ m.type = "error"
    BY DEF Replies
  <2>2. /\ toWorker # <<>> /\ toWorker' = Tail(toWorker)
        /\ toPage' = Append(toPage, m) /\ page' = page /\ errors' = errors + 1
    BY <1>4 DEF Throw, Reply
  <2> HIDE DEF m
  <2>3. FlagsAreHonest'
    BY <2>1, <2>2, HonestAfterWork
  <2>4. NewsIsTrue'
    BY <1>a, <2>2 DEF NewsIsTrue
  <2> QED
    BY <2>3, <2>4
<1>5. CASE RunRevert
  <2> DEFINE m == [type |-> "checkpointReverted"]
  <2>1. m \in Replies /\ m.type = "checkpointReverted"
    BY DEF Replies
  <2>2. /\ toWorker' = toWorker /\ toPage' = Append(toPage, m)
        /\ page' = page /\ errors' = errors
    BY <1>5 DEF RunRevert, Reply
  <2> HIDE DEF m
  <2>3. ToSet(toPage') = ToSet(toPage) \cup {m}
    BY <1>a, <2>1, <2>2, SetOfAppend
  <2>4. FlagsAreHonest'
    BY <2>2, <2>3, Zenon DEF FlagsAreHonest, Posted, Answered
  <2>5. ASSUME errors = 0 PROVE WordsAreTrue(toPage', page, now)
    <3>1. WordsAreTrue(toPage, page, ready)
      BY <2>5 DEF NewsIsTrue
    <3> HIDE DEF now
    <3>2. m.type # "error"
      BY <2>1
    <3> QED
      BY <1>a, <2>1, <2>2, <3>1, <3>2, WordAdded
  <2> QED
    BY <2>2, <2>4, <2>5 DEF NewsIsTrue
<1> QED
  BY <1>1, <1>2, <1>3, <1>4, <1>5 DEF Worker

LEMMA HonestInit == Init => HonestInv
<1> SUFFICES ASSUME Init PROVE HonestInv
  OBVIOUS
<1>1. PrimingInv
  BY InitInv
<1>2. /\ toPage = <<>> /\ Len(toPage) = 0 /\ page.primed = ready
      /\ ~page.pending /\ ~page.priming /\ ~page.prewarming
  BY DEF Init, CacheInit
<1>3. FlagsAreHonest
  BY <1>2 DEF FlagsAreHonest
<1>4. NewsIsTrue
  BY <1>2 DEF NewsIsTrue, WordsAreTrue
<1> QED
  BY <1>1, <1>3, <1>4 DEF HonestInv

LEMMA HonestNext == HonestInv /\ [Next]_vars => HonestInv'
<1> SUFFICES ASSUME HonestInv, [Next]_vars PROVE HonestInv'
  OBVIOUS
<1>1. PrimingInv'
  BY NextInv DEF HonestInv
<1>2. TypeOK /\ TypeOK' /\ FlagsAreHonest /\ NewsIsTrue
  BY <1>1 DEF HonestInv, PrimingInv
<1>3. CASE UNCHANGED vars
  <2>1. FlagsAreHonest'
    BY <1>2, <1>3 DEF FlagsAreHonest, Posted, Answered, vars
  <2>2. NewsIsTrue'
    BY <1>2, <1>3 DEF NewsIsTrue, vars, counters, cacheVars
  <2> QED
    BY <1>1, <2>1, <2>2 DEF HonestInv
<1>4. CASE Next
  BY <1>1, <1>2, <1>4, PageStepHonest, WorkerStepHonest DEF Next, HonestInv
<1> QED
  BY <1>3, <1>4

\* A queue that is empty has no last word: what the page was told last is what
\* it believes.
LEMMA NoNewsIsTrue == HonestInv => PageIsHonest
<1> SUFFICES ASSUME HonestInv PROVE PageIsHonest
  OBVIOUS
<1>1. ASSUME errors = 0, toPage = <<>>, ~page.pending PROVE page.primed = ready
  <2>1. \A i \in 1 .. Len(toPage) : toPage[i].type \notin News
    BY <1>1
  <2> QED
    BY <1>1, <2>1 DEF HonestInv, NewsIsTrue, WordsAreTrue
<1> QED
  BY <1>1 DEF HonestInv, PageIsHonest, BarsAreTruthful

\* The page never waits in vain, whichever request threw or was overtaken, and
\* its load bars show what the worker has once the answers are in, evictions and
\* reverts included (src/main.js, resyncLoadState and the three in-flight flags).
THEOREM PageAlwaysHonest == Spec => []PageIsHonest
BY HonestInit, HonestNext, NoNewsIsTrue, PTL DEF Spec
=============================================================================

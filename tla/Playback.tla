------------------------------ MODULE Playback ------------------------------
(***************************************************************************)
(* The page's clock and the frames it shows (src/main.js, seekTo and the   *)
(* render loop), over the worker that makes them (Roster).                 *)
(*                                                                         *)
(* The page keeps one request for a frame under way and otherwise drops    *)
(* the wish for one.  An error does not say which request failed.          *)
(***************************************************************************)
EXTENDS Roster

CONSTANTS Steps,                  \* how far the clock gets in a loop
          MaxActs, MaxFaults      \* bounds: seeks, pauses and reverts; errors

ASSUME PlaybackConstants == Steps \subseteq Int /\ MaxActs \in Nat /\ MaxFaults \in Nat

VARIABLES cursor, paused,         \* replayTime, isPaused
          pending, priming,       \* pendingFrameRequest, primingInFlight
          end,                    \* totalEndTime
          shown,                  \* latestFrame: its ticks, battle and version
          toWorker, toPage,
          acts, faults            \* bounds; faults also counts errors told

page == <<cursor, paused, pending, priming, end, shown>>
vars == <<version, engine, page, toWorker, toPage, acts, faults>>

EndOf(d) == Times[d][Len(Times[d])]
Blank    == [tick |-> NoTick, battle |-> None, version |-> CHOOSE d \in Versions : TRUE]
FrameOf(d, e) == [tick |-> e.tick, battle |-> e.active, version |-> d]

\* At start or when told of a revert the seek goes out unless a frame is pending.
Init ==
    /\ version \in Versions /\ engine = Engine
    /\ cursor = Times[version][1] /\ paused = FALSE /\ pending = TRUE /\ priming = FALSE
    /\ end = EndOf(version) /\ shown = Blank
    /\ toWorker = <<[op |-> "frame", at |-> cursor]>> /\ toPage = <<>>
    /\ acts = 0 /\ faults = 0

-----------------------------------------------------------------------------
(* The page.                                                               *)

Request(t) ==
    /\ pending' = TRUE
    /\ toWorker' = IF pending THEN toWorker ELSE Append(toWorker, [op |-> "frame", at |-> t])

\* loop, once per animation frame; the clock stops at the end.
Loop == \E d \in Steps :
    LET late == ~paused /\ cursor + d >= end
        now  == IF paused THEN cursor ELSE IF late THEN end ELSE cursor + d
    IN  /\ cursor' = now /\ paused' = (paused \/ late)
        /\ Request(now)
        /\ UNCHANGED <<version, engine, priming, end, shown, toPage, acts, faults>>

\* seekTo, from the slider
Seek(t) ==
    /\ acts < MaxActs /\ acts' = acts + 1
    /\ cursor' = t /\ Request(t)
    /\ UNCHANGED <<version, engine, paused, priming, end, shown, toPage, faults>>

Toggle ==
    /\ acts < MaxActs /\ acts' = acts + 1 /\ paused' = ~paused
    /\ UNCHANGED <<version, engine, cursor, pending, priming, end, shown, toWorker, toPage, faults>>

Revert ==
    /\ acts < MaxActs /\ acts' = acts + 1
    /\ toWorker' = Append(toWorker, [op |-> "revert"])
    /\ UNCHANGED <<version, engine, page, toPage, faults>>

\* schedulePriming: whether there is a battle left to prime is Priming's.
Primed(wanted) ==
    /\ priming' = wanted
    /\ toWorker' = IF wanted THEN Append(toWorker, [op |-> "prime"]) ELSE toWorker

OnFrame(m) ==
    /\ pending' = FALSE /\ shown' = m.frame
    /\ \/ ~priming /\ Primed(TRUE)
       \/ UNCHANGED <<priming, toWorker>>
    /\ UNCHANGED <<cursor, paused, end>>

OnPrimed ==
    /\ \/ ~pending /\ Primed(TRUE)
       \/ Primed(FALSE)
    /\ UNCHANGED <<cursor, paused, pending, end, shown>>

\* "must all be cleared unconditionally"
OnError ==
    /\ pending' = FALSE /\ priming' = FALSE
    /\ UNCHANGED <<cursor, paused, end, shown, toWorker>>

OnReverted(m) ==
    /\ end' = m.end /\ Request(cursor)
    /\ UNCHANGED <<cursor, paused, priming, shown>>

Receive ==
    /\ toPage # <<>> /\ toPage' = Tail(toPage)
    /\ LET m == Head(toPage)
       IN  CASE m.op = "frame"    -> OnFrame(m)
             [] m.op = "primed"   -> OnPrimed
             [] m.op = "error"    -> OnError
             [] m.op = "reverted" -> OnReverted(m)
    /\ UNCHANGED <<version, engine, acts, faults>>

-----------------------------------------------------------------------------
(* The playback worker.                                                    *)

Reply(m) == toPage' = Append(toPage, m)

\* What throws is the copy of the rows: the frame itself has been built.
Fails ==
    /\ faults < MaxFaults /\ faults' = faults + 1
    /\ Reply([op |-> "error"])

Work ==
    /\ toWorker # <<>> /\ toWorker' = Tail(toWorker)
    /\ LET m == Head(toWorker)
       IN  \/ /\ m.op = "frame" /\ Build(m.at)
              /\ \/ Reply([op |-> "frame", frame |-> FrameOf(version, engine')]) /\ UNCHANGED faults
                 \/ Fails
              /\ UNCHANGED version
           \/ /\ m.op = "prime"
              /\ \/ Reply([op |-> "primed"]) /\ UNCHANGED faults
                 \/ Fails
              /\ UNCHANGED <<version, engine>>
           \/ /\ m.op = "revert" /\ version' \in Versions /\ engine' = Invalidated(engine)
              /\ Reply([op |-> "reverted", end |-> EndOf(version')])
              /\ UNCHANGED faults
    /\ UNCHANGED <<page, acts>>

Turn == Receive \/ Work
Next == Loop \/ (\E t \in Times[version][1] .. end : Seek(t)) \/ Toggle \/ Revert \/ Turn

\* requestAnimationFrame, the page's event loop, and the worker's.
Fairness == WF_vars(Loop) /\ WF_vars(Turn)
Spec == Init /\ [][Next]_vars /\ Fairness

-----------------------------------------------------------------------------
FramesUnderWay ==
    Cardinality({i \in DOMAIN toWorker : toWorker[i].op = "frame"})
    + Cardinality({i \in DOMAIN toPage : toPage[i].op = "frame"})

TypeOK ==
    /\ EngineTypeOK
    /\ {paused, pending, priming} \subseteq BOOLEAN
    /\ end \in {EndOf(d) : d \in Versions}
    /\ shown.tick \in {NoTick} \cup DOMAIN Times[shown.version]

\* Requests for frames do not pile up at the worker: one at a time, and one
\* more for each error, which may clear the mark of a request still under way.
FramesKeepPace == FramesUnderWay <= 1 + faults

\* A frame is of the tick at its time, with the roster that a replay of the events
\* up to it leaves, and frames keep pace with the clock.
FramesAreTrue == TypeOK /\ RosterIsReplayed /\ SearchFinds /\ FramesKeepPace

\* However seeks, pauses, reverts and errors fall between a request and its
\* answer, in the end the page shows, and goes on showing, the tick of its
\* clock in the data of the last revert.
CaughtUp == shown = [tick |-> TickAt(version, cursor), battle |-> engine.active,
                     version |-> version]
CatchesUp == <>[]CaughtUp
=============================================================================

------------------------------- MODULE Camera -------------------------------
(***************************************************************************)
(* How the view follows the battles (src/main.js): a frame of another      *)
(* battle, or the Recenter button, asks the database where the active      *)
(* battle is, in a background query; the answer shifts the view there      *)
(* (set_view_shift).  What is active is the worker's affair when it gets   *)
(* to the query.                                                           *)
(*                                                                         *)
(* A shift is the load, the content of the data and the battle that it was *)
(* computed from.  Other requests of the SQL queue only make these wait:   *)
(* PumpRecenter comes at any time after a request.  The playhead's moves   *)
(* are those of playback and seeks.  Bounds of the model: MaxMoves moves   *)
(* and clicks, MaxMisses failed queries.                                   *)
(***************************************************************************)
EXTENDS Integers, Sequences

CONSTANTS BattleCount, MaxMoves, MaxMisses

ASSUME CameraConstants ==
    BattleCount \in Nat \ {0} /\ MaxMoves \in Nat /\ MaxMisses \in Nat

NoBattle      == -1
BattleNumbers == 0 .. BattleCount - 1
Sources       == {"frame", "button"}

VARIABLES playhead,      \* the battle at replayTime
          activeMatch,   \* g_active_match_index
          edited,        \* are the data other than as loaded?
          load,          \* number of the load, 0 before the first
          loaded,        \* has the page a playbackWorker?
          follow,        \* cameraFollowActiveBattle
          centered,      \* cameraCenteredOnMatchIndex
          shift,         \* view_shift and currentViewShift
          viewed,        \* latestFrame's battle
          framePending,  \* pendingFrameRequest
          recenters,     \* the recenter queries in the page's SQL queue
          asking,        \* the one that is at the worker, if any
          toDb, fromDb,
          moves, misses,
          late,          \* ghost: queries under way when the user last panned
          missed,        \* ghost: has a query that followed a battle found nothing?
          strayed        \* ghost: has the button centered on a battle that is not centered's?

dbVars    == <<playhead, activeMatch, edited, load, loaded>>
lookVars  == <<follow, centered, shift, viewed>>
wireVars  == <<framePending, recenters, asking, toDb, fromDb>>
ghostVars == <<late, missed, strayed>>
viewVars  == <<dbVars, lookVars, wireVars, moves, misses, ghostVars>>

Unshifted == [load |-> 0, edited |-> FALSE, battle |-> NoBattle]

ViewInit == /\ playhead = NoBattle /\ activeMatch = NoBattle /\ edited = FALSE
            /\ load = 0 /\ loaded = FALSE
            /\ follow = TRUE /\ centered = NoBattle
            /\ shift = Unshifted /\ viewed = NoBattle
            /\ framePending = FALSE /\ recenters = <<>> /\ asking = "nobody"
            /\ toDb = <<>> /\ fromDb = <<>>
            /\ moves = 0 /\ misses = 0
            /\ late = 0 /\ missed = FALSE /\ strayed = FALSE

Moving == moves < MaxMoves /\ moves' = moves + 1

-----------------------------------------------------------------------------
(* The user, the clock and the loads.                                      *)

MovePlayhead == /\ Moving /\ loaded
                /\ \E b \in (BattleNumbers \cup {NoBattle}) \ {playhead} : playhead' = b
                /\ UNCHANGED <<activeMatch, edited, load, loaded, lookVars, wireVars, misses, ghostVars>>

RecentersUnderWay == Len(recenters) + (IF asking = "nobody" THEN 0 ELSE 1)

\* The keydown and mousemove handlers: WASD, or a drag on the canvas.
Pan == /\ Moving /\ follow
       /\ follow' = FALSE
       /\ late' = RecentersUnderWay
       /\ UNCHANGED <<dbVars, centered, shift, viewed, wireVars, misses, missed, strayed>>

\* recenterCameraOnActiveBattle(true), the Recenter Camera button.
Recenter == /\ Moving /\ loaded
            /\ follow' = TRUE
            /\ recenters' = Append(recenters, "button")
            /\ UNCHANGED <<dbVars, centered, shift, viewed, framePending, asking, toDb,
                           fromDb, misses, ghostVars>>

\* A write of the SQL terminal that moves the agents of every battle.
EditData == /\ Moving /\ loaded /\ ~edited
            /\ edited' = TRUE
            /\ UNCHANGED <<playhead, activeMatch, load, loaded, lookVars, wireVars, misses, late, missed,
                           strayed>>

RevertData == /\ Moving /\ loaded
              /\ toDb' = Append(toDb, [type |-> "revert", battle |-> NoBattle])
              /\ UNCHANGED <<dbVars, lookVars, framePending, recenters, asking, fromDb, misses, ghostVars>>

\* Mutated form of ResetCentered: the next load's battles have the same numbers.
ResetCenteredKept == centered

ResetCentered == NoBattle

ResetAsking == "nobody"

\* triggerReset.  The view's shift stays; an answer under way is not heard.
ResetView == /\ Moving /\ loaded
             /\ loaded' = FALSE /\ viewed' = NoBattle
             /\ follow' = TRUE /\ centered' = ResetCentered
             /\ framePending' = FALSE /\ recenters' = <<>> /\ asking' = ResetAsking
             /\ toDb' = <<>> /\ fromDb' = <<>>
             /\ late' = 0 /\ missed' = FALSE /\ strayed' = FALSE
             /\ UNCHANGED <<playhead, activeMatch, edited, load, shift, misses>>

LoadView == /\ Moving /\ ~loaded
            /\ loaded' = TRUE /\ load' = load + 1
            /\ playhead' \in BattleNumbers \cup {NoBattle}
            /\ activeMatch' = NoBattle /\ edited' = FALSE
            /\ UNCHANGED <<lookVars, wireVars, misses, ghostVars>>

-----------------------------------------------------------------------------
(* The page.                                                               *)

\* loop, or the seekTo of a checkpointReverted
AskFrame == /\ loaded /\ ~framePending
            /\ framePending' = TRUE
            /\ toDb' = Append(toDb, [type |-> "frame", battle |-> playhead])
            /\ UNCHANGED <<dbVars, lookVars, recenters, asking, fromDb, moves, misses, ghostVars>>

\* pumpSqlRequestQueue, once nothing is ahead of the recenter queries.
PumpRecenter == /\ asking = "nobody" /\ recenters # <<>>
                /\ asking' = Head(recenters) /\ recenters' = Tail(recenters)
                /\ toDb' = Append(toDb, [type |-> "query", battle |-> NoBattle])
                /\ UNCHANGED <<dbVars, lookVars, framePending, fromDb, moves, misses, ghostVars>>

\* Mutated form of Follows: a pan does not end following.
FollowsAnyway(b) == b # NoBattle /\ b # centered

\* Does a frame of battle b make the view follow?
Follows(b) == follow /\ b # NoBattle /\ b # centered

\* The case of 'frame'.
ViewOnFrame(b) ==
    /\ framePending' = FALSE /\ viewed' = b
    /\ IF Follows(b)
       THEN /\ centered' = b /\ recenters' = Append(recenters, "frame")
            /\ missed' = FALSE /\ strayed' = FALSE
       ELSE UNCHANGED <<centered, recenters, missed, strayed>>
    /\ UNCHANGED <<follow, shift, asking, late>>

\* finishActiveSqlRequest
RecenterFinished(m) == "nobody"

\* recenterCameraOnActiveBattle goes on: no row, or an error, leaves the view.
OnRecentered(m) ==
    LET found == m.type = "row" /\ m.shift.battle # NoBattle
    IN  /\ asking' = RecenterFinished(m)
        /\ shift' = IF found THEN m.shift ELSE shift
        /\ late' = IF late > 0 THEN late - 1 ELSE 0
        /\ missed' = (missed \/ ~found)
        /\ strayed' = (strayed \/ (asking = "button" /\ found /\ m.shift.battle # centered))
        /\ UNCHANGED <<follow, centered, viewed, framePending, recenters>>

\* The case of 'checkpointReverted'.
ViewOnReverted == UNCHANGED <<lookVars, framePending, recenters, asking, late, missed, strayed>>

ViewReceive == /\ fromDb # <<>>
               /\ fromDb' = Tail(fromDb)
               /\ LET m == Head(fromDb)
                  IN  CASE m.type = "frame"             -> ViewOnFrame(m.shift.battle)
                        [] m.type \in {"row", "error"}  -> OnRecentered(m)
                        [] m.type = "reverted"          -> ViewOnReverted
               /\ UNCHANGED <<dbVars, toDb, moves, misses>>

-----------------------------------------------------------------------------
(* The playback worker.                                                    *)

\* An answer, with what the worker's data and battle now say of the shift.
DataReply(type) ==
    fromDb' = Append(fromDb, [type |-> type, shift |-> [load |-> load, edited |-> edited',
                                                        battle |-> activeMatch']])

DataWork ==
    /\ toDb # <<>> /\ toDb' = Tail(toDb)
    /\ LET m == Head(toDb)
       IN  \/ /\ m.type = "frame"
              /\ activeMatch' = m.battle
              /\ UNCHANGED <<edited, misses>>
              /\ DataReply("frame")
           \/ /\ m.type = "query"
              /\ UNCHANGED <<activeMatch, edited>>
              /\ \/ DataReply("row") /\ UNCHANGED misses
                 \/ misses < MaxMisses /\ misses' = misses + 1 /\ DataReply("error")
           \/ /\ m.type = "revert"
              /\ activeMatch' = NoBattle /\ edited' = FALSE
              /\ DataReply("reverted")
              /\ UNCHANGED misses
    /\ UNCHANGED <<playhead, load, loaded, lookVars, framePending, recenters, asking, moves, late, missed,
                   strayed>>

ViewTurn == AskFrame \/ ViewReceive \/ DataWork
ViewNext == \/ MovePlayhead \/ Pan \/ Recenter \/ EditData \/ RevertData \/ ResetView \/ LoadView
            \/ PumpRecenter \/ ViewTurn

\* requestAnimationFrame, the page's and the worker's event loops; the SQL queue
\* comes to every request in it.
ViewFairness == WF_viewVars(PumpRecenter) /\ WF_viewVars(ViewTurn)

ViewSpec == ViewInit /\ [][ViewNext]_viewVars /\ ViewFairness

-----------------------------------------------------------------------------
Shifts == [load : 0 .. MaxMoves, edited : BOOLEAN, battle : BattleNumbers \cup {NoBattle}]

ViewTypeOK ==
    /\ {playhead, activeMatch, centered, viewed} \subseteq BattleNumbers \cup {NoBattle}
    /\ {edited, loaded, follow, framePending, missed, strayed} \subseteq BOOLEAN
    /\ load \in 0 .. MaxMoves /\ moves \in 0 .. MaxMoves /\ misses \in 0 .. MaxMisses
    /\ shift \in Shifts
    /\ recenters \in Seq(Sources) /\ asking \in Sources \cup {"nobody"}
    /\ toDb \in Seq([type : {"frame", "query", "revert"}, battle : BattleNumbers \cup {NoBattle}])
    /\ fromDb \in Seq([type : {"frame", "row", "error", "reverted"}, shift : Shifts])
    /\ late \in Nat /\ late <= RecentersUnderWay
    /\ asking = "nobody" <=> /\ \A i \in DOMAIN toDb : toDb[i].type # "query"
                             /\ \A i \in DOMAIN fromDb : fromDb[i].type \notin {"row", "error"}

\* Nothing is under way that could still move the view.
ViewQuiet == loaded /\ RecentersUnderWay = 0 /\ ~framePending

\* Playback through battles, gaps, seeks, reverts and loads: once quiet, the view
\* of a follower is centered on the battle shown, of this load, unless a query
\* came to nothing or the button centered on another battle than the page notes
\* (recenterCameraOnActiveBattle).
IsCentered ==
    ViewQuiet /\ follow /\ viewed # NoBattle /\ ~missed /\ ~strayed =>
        shift.battle = viewed /\ shift.load = load
FollowsBattles == ViewTypeOK /\ IsCentered

\* A user who has panned sees the view shift under them only from what had been
\* asked for before (the keydown and mousemove handlers, and the case of 'frame').
PanIsFoughtOnce == [][shift' # shift => follow \/ late > 0]_viewVars

\* A view that follows comes to be centered for as long as the playhead rests,
\* whatever is in the queue: queries do not start queries.
ViewRest == (RecentersUnderWay = 0 /\ ~Follows(viewed)) \/ ~loaded
ViewComesToRest == <>[]ViewRest
=============================================================================

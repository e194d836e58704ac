------------------------------ MODULE Recorder ------------------------------
(***************************************************************************)
(* The game-side recorder (lua/main.lua), statement by statement: one      *)
(* transaction a tick, and events that are written at once in between.     *)
(*                                                                         *)
(* What a handler has still to do is todo.  Any call of the game may raise,*)
(* which ends the handler there, a tick's with its transaction open; a     *)
(* reader of the file may be met, so that a commit is refused (there is no *)
(* busy handler).  A crash between two statements leaves file; one in the  *)
(* middle of a commit, whose journal is in memory only, is left out, and   *)
(* so are statements that fail for want of space, VACUUM, which changes no *)
(* row, and the values of rows; a spawn stands for kills and chats too.    *)
(* Bounds of the model: MaxTicks, MaxSpawns, MaxChanges of the game,       *)
(* MaxFaults.                                                              *)
(***************************************************************************)
EXTENDS Integers, Sequences, SequencesExt

CONSTANTS Values, MaxTicks, MaxSpawns, MaxChanges, MaxFaults

Switches == {"map_switch", "score_switch", "faction_switch"}

VARIABLES game,      \* scene, score and factions by the event that records them; names of factions
          todo,      \* the handler's steps to come
          current_tick_id, event_order_counter,
          last,      \* last_scene_no, last_score_0/1, last_faction_0/1
          event_id,  \* the event whose details are to come
          db,        \* the recorder's view of the tables
          file,      \* what is committed
          open,      \* is a transaction under way?
          changes, faults,
          known,     \* ghost: the game's state at each tick, and whether the tick ended
          lost,      \* ghost: did a raise swallow a switch that is taken as recorded?
          met        \* ghost: has an event been refused because of a reader?

lua == <<todo, current_tick_id, event_order_counter, last, event_id>>
store == <<db, file, open>>
recorderVars == <<game, lua, store, changes, faults, known, lost, met>>

\* No scene: -1 or nil; also what last is before the first tick.
Unknown == 0

ASSUME RecorderConstants ==
    /\ Values # {} /\ Unknown \notin Values
    /\ {MaxTicks, MaxSpawns, MaxChanges, MaxFaults} \subseteq Nat

RecorderInit ==
    /\ game = [of |-> [s \in Switches |-> CHOOSE v \in Values : TRUE], names |-> 0]
    /\ todo = <<>> /\ current_tick_id = 0 /\ event_order_counter = 0
    /\ last = [s \in Switches |-> Unknown] /\ event_id = 0
    /\ db = [ticks |-> 0, events |-> <<>>, details |-> <<>>, agents |-> <<>>]
    /\ file = db /\ open = FALSE
    /\ changes = 0 /\ faults = 0
    /\ known = <<>> /\ lost = FALSE /\ met = FALSE

-----------------------------------------------------------------------------
(* SQLite.                                                                 *)

Fault == faults' = faults + 1 /\ faults < MaxFaults /\ db.ticks < MaxTicks

\* A statement that leaves the tables as new: outside of a transaction it commits,
\* or a reader is met.
Wrote(new) ==
    \/ open /\ db' = new /\ UNCHANGED <<file, faults, met>>
    \/ ~open /\ db' = new /\ file' = new /\ UNCHANGED <<faults, met>>
    \/ ~open /\ Fault /\ met' = TRUE /\ UNCHANGED <<db, file>>

-----------------------------------------------------------------------------
(* The game.                                                               *)

Change == /\ todo = <<>> /\ changes < MaxChanges /\ changes' = changes + 1
          /\ \/ \E s \in Switches : \E v \in Values \ {game.of[s]} : game' = [game EXCEPT !.of[s] = v]
             \/ game.of["map_switch"] # Unknown /\ game' = [game EXCEPT !.of["map_switch"] = Unknown]
             \/ game' = [game EXCEPT !.names = 1 - @]
          /\ UNCHANGED <<lua, store, faults, known, lost, met>>

\* onSpawn; like onKill and OnChatMessageReceived it asks the game before it writes.
OnSpawn == /\ todo = <<>> /\ Len(SelectSeq(db.events, LAMBDA e : e.type = "spawn")) < MaxSpawns
           /\ todo' = <<"event", "detail">>
           /\ UNCHANGED <<game, current_tick_id, event_order_counter, last, event_id, store,
                          changes, faults, known, lost, met>>

\* tick
Tick == /\ todo = <<>> /\ db.ticks < MaxTicks
        /\ todo' = <<"begin", "tick", "map_switch", "score_switch", "faction_switch",
                     "agents", "commit">>
        /\ UNCHANGED <<game, current_tick_id, event_order_counter, last, event_id, store,
                       changes, faults, known, lost, met>>

-----------------------------------------------------------------------------
(* The steps of the handlers.                                              *)

Now(step) == todo # <<>> /\ Head(todo) = step
OnTo      == todo' = Tail(todo)

\* A call of the game raises.
Raises == Fault /\ todo' = <<>>

Opened == TRUE

\* Mutated form of AfterBegin: a tick whose BEGIN fails leaves COMMIT to the one that
\* began the transaction.
AfterBeginOwn == IF open THEN Front(Tail(todo)) ELSE Tail(todo)

\* BEGIN in a transaction is an error nobody looks at.
AfterBegin == Tail(todo)

Begin == /\ Now("begin") /\ todo' = AfterBegin
         /\ open' = (open \/ Opened)
         /\ UNCHANGED <<game, current_tick_id, event_order_counter, last, event_id, db, file,
                        changes, faults, known, lost, met>>

TickId(tables) == tables.ticks

\* Who watches is asked first: when that raises, there is a transaction, but no tick.
NewTick ==
    /\ Now("tick")
    /\ \/ /\ OnTo
          /\ event_order_counter' = 0
          /\ Wrote([db EXCEPT !.ticks = @ + 1])
          /\ current_tick_id' = TickId(db')
          /\ known' = Append(known, [of |-> game.of, names |-> game.names, ended |-> FALSE])
       \/ /\ Raises
          /\ UNCHANGED <<current_tick_id, event_order_counter, db, file, known, met>>
    /\ UNCHANGED <<game, last, event_id, open, changes, lost>>

OrderOf == event_order_counter + 1

\* create_event
Created(type, about) ==
    /\ event_order_counter' = OrderOf
    /\ Wrote([db EXCEPT !.events = Append(@, [tick |-> current_tick_id, order |-> OrderOf,
                                              type |-> type, about |-> about])])
    /\ event_id' = Len(db.events) + 1

Differs(s) == game.of[s] # last[s] /\ (s = "map_switch" => game.of[s] # Unknown)

\* check_map_switch, check_score_switch and check_faction_switch: the game is asked
\* for what it is before anything is noted, for the names of factions after.
Check(s) ==
    /\ Now(s)
    /\ \/ /\ \/ Raises
             \/ ~Differs(s) /\ OnTo /\ UNCHANGED faults
          /\ UNCHANGED <<last, event_order_counter, event_id, db, file, lost, met>>
       \/ /\ Differs(s) /\ last' = [last EXCEPT ![s] = game.of[s]]
          /\ todo' = <<"detail">> \o Tail(todo)
          /\ Created(s, [value |-> game.of[s], names |-> game.names])
          /\ UNCHANGED lost
       \/ /\ Differs(s) /\ last' = [last EXCEPT ![s] = game.of[s]]
          /\ s = "faction_switch" /\ Raises /\ lost' = TRUE
          /\ UNCHANGED <<event_order_counter, event_id, db, file, met>>
    /\ UNCHANGED <<game, current_tick_id, open, changes, known>>

Spawn == /\ Now("event") /\ OnTo
         /\ Created("spawn", [value |-> game.of["map_switch"], names |-> game.names])
         /\ UNCHANGED <<game, current_tick_id, last, open, changes, known, lost>>

\* Mutated form of Detailed: the event's number in its tick instead of its id.
DetailedByOrder == event_order_counter

\* The event that a row of details is about.
Detailed == event_id

Detail == /\ Now("detail") /\ OnTo
          /\ Wrote([db EXCEPT !.details = Append(@, Detailed)])
          /\ UNCHANGED <<game, current_tick_id, event_order_counter, last, event_id, open,
                         changes, known, lost>>

\* The loop over the agents: all their rows, or those before a raise.
Agents == /\ Now("agents")
          /\ \/ OnTo /\ UNCHANGED faults
             \/ Raises
          /\ db' = [db EXCEPT !.agents = Append(@, current_tick_id)]
          /\ known' = [known EXCEPT ![Len(known)].ended = (faults' = faults)]
          /\ UNCHANGED <<game, current_tick_id, event_order_counter, last, event_id, file, open,
                         changes, lost, met>>

\* COMMIT; a reader refuses it, and the transaction goes on.
CommitTick ==
    /\ Now("commit") /\ OnTo
    /\ \/ open' = FALSE /\ file' = db /\ UNCHANGED faults
       \/ Fault /\ UNCHANGED <<open, file>>
    /\ UNCHANGED <<game, current_tick_id, event_order_counter, last, event_id, db,
                   changes, known, lost, met>>

-----------------------------------------------------------------------------
Step == \/ Begin \/ NewTick \/ Spawn \/ Detail \/ Agents \/ CommitTick
        \/ \E s \in Switches : Check(s)

RecorderNext == Change \/ OnSpawn \/ Tick \/ Step

\* The game calls tick every second, and a handler runs to its end.
RecorderTurn == Tick \/ Step

RecorderFairness == WF_recorderVars(RecorderTurn)

RecorderSpec == RecorderInit /\ [][RecorderNext]_recorderVars /\ RecorderFairness

-----------------------------------------------------------------------------
Steps == {"begin", "tick", "event", "detail", "agents", "commit"} \cup Switches

Tables == [ticks : 0 .. MaxTicks,
           events : Seq([tick : 0 .. MaxTicks, order : Nat, type : Switches \cup {"spawn"},
                         about : [value : Values \cup {Unknown}, names : 0 .. 1]]),
           details : Seq(Nat), agents : Seq(0 .. MaxTicks)]

RecorderTypeOK ==
    /\ game \in [of : [Switches -> Values \cup {Unknown}], names : 0 .. 1]
    /\ todo \in Seq(Steps)
    /\ current_tick_id \in 0 .. MaxTicks /\ event_order_counter \in Nat /\ event_id \in Nat
    /\ last \in [Switches -> Values \cup {Unknown}]
    /\ db \in Tables /\ file \in Tables
    /\ {open, lost, met} \subseteq BOOLEAN
    /\ changes \in 0 .. MaxChanges /\ faults \in 0 .. MaxFaults
    /\ Len(known) = db.ticks

\* What a table says at tick k: the value of the last switch recorded up to it.
Recorded(t, s, k) ==
    LET upTo == {i \in DOMAIN t.events : t.events[i].type = s /\ t.events[i].tick <= k}
    IN  IF upTo = {} THEN [value |-> Unknown, names |-> 0] ELSE t.events[Max(upTo)].about

\* Of every tick in the file that ended, the file has the scene, the score and the
\* factions of its moment, whatever was raised or refused before or after; but for
\* factions that were noted in last when the game raised.
SwitchesAreKnown ==
    \A k \in 1 .. file.ticks, s \in Switches :
        known[k].ended /\ known[k].of[s] # Unknown =>
            \/ Recorded(file, s, k).value = known[k].of[s]
            \/ s = "faction_switch" /\ lost

\* Nothing of a tick is in the file before its COMMIT: a crash between two of its
\* statements leaves no part of it.
TickIsAtomic == Len(todo) > 1 /\ todo[Len(todo)] = "commit" /\ Head(todo) \notin {"begin", "tick"} =>
                    file.ticks < db.ticks

\* The order of ids is that of ticks and, in a tick, of event_order: the replay folds
\* events by id and selects them by tick.
EventsInOrder ==
    \A i \in 1 .. Len(file.events) - 1 :
        LET e == file.events[i]
            f == file.events[i + 1]
        IN  e.tick < f.tick \/ (e.tick = f.tick /\ e.order < f.order)

\* Rows of agents are appended in tick order, a block a tick: what the bisection for
\* a battle's slice takes for granted (replay_worker.c:253-256).
AgentsInTickOrder == \A i \in 1 .. Len(file.agents) - 1 : file.agents[i] < file.agents[i + 1]

\* Each event in the file has its row of details, but for the last one between the
\* two statements of its handler; unless an event had been refused.
DetailsFit == ~met => /\ file.details = [i \in 1 .. Len(file.details) |-> i]
                      /\ Len(file.events) - Len(file.details) \in {0, 1}

\* What is in the file is what happened, in its order, whatever went wrong.
RecordingIsSound == /\ RecorderTypeOK /\ SwitchesAreKnown /\ TickIsAtomic
                    /\ EventsInOrder /\ AgentsInTickOrder /\ DetailsFit

\* What was raised or refused does not keep later ticks out of the file.
InFile == file = db
EndsInFile == []<>InFile
=============================================================================

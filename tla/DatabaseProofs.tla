--------------------------- MODULE DatabaseProofs ---------------------------
(***************************************************************************)
(* What is in the database of recordings is what happened, the battles     *)
(* found in it are what the heuristic of default_boundary_detection.sql    *)
(* says, and its checkpoints give back what was saved: for any number of   *)
(* ticks, events and faults, every recording, all thresholds that are      *)
(* ordered as the script's are, and whatever statements are typed.         *)
(*                                                                         *)
(* Recorder: the invariant says for each place of a handler what the tick  *)
(* has so far: what last notes is what the events say, an ended tick's     *)
(* values are in them, and nothing but the transaction is ahead of the     *)
(* file.                                                                   *)
(*                                                                         *)
(* Segmentation: each fold is a loop, and the invariant says what each has *)
(* done up to its row.  The facts that compare a value with an earlier one *)
(* are kept between neighbours only: the tick list, the boundaries kept    *)
(* and the spans grow at their end.                                        *)
(*                                                                         *)
(* Checkpoints: the numbers on the stack rise from the outside in, none is *)
(* above g_checkpoint_seq, and the writes each savepoint holds are among   *)
(* those of the ones inside it.  From this follows that a number names one *)
(* savepoint, that it holds what was saved under it, and that what a       *)
(* rollback takes away is nowhere on the stack.                            *)
(***************************************************************************)
EXTENDS Segmentation, Recorder, Checkpoints, SequenceTheorems, TLAPS

-----------------------------------------------------------------------------
(* The recorder.                                                           *)

\* What a handler may still have to do: a tick, from each of its steps on; the
\* details of a switch and the rest of a tick; an event and its details.
FromCommit  == <<"commit">>
FromAgents  == <<"agents", "commit">>
FromFaction == <<"faction_switch", "agents", "commit">>
FromScore   == <<"score_switch", "faction_switch", "agents", "commit">>
FromMap     == <<"map_switch", "score_switch", "faction_switch", "agents", "commit">>
FromTick    == <<"tick", "map_switch", "score_switch", "faction_switch", "agents", "commit">>
FromBegin   == <<"begin", "tick", "map_switch", "score_switch", "faction_switch",
                 "agents", "commit">>
OneEvent    == <<"event", "detail">>
OneDetail   == <<"detail">>

\* Every event has its details.
Paired == ~met => Len(db.events) = Len(db.details)

\* The last event's are to come.
Due == ~met => Len(db.events) = Len(db.details) + 1 /\ event_id = Len(db.events)

\* Between NewTick and Agents, with some of the switches checked.
InTick(checked) ==
    /\ open /\ file.ticks < db.ticks
    /\ known[db.ticks].of = game.of /\ ~known[db.ticks].ended
    /\ \A i \in 1 .. Len(db.agents) : db.agents[i] < db.ticks
    /\ \A s \in checked : game.of[s] # Unknown => last[s] = game.of[s]

PlaceOk ==
    \/ Paired /\ todo \in {<<>>, OneEvent}
    \/ Due /\ todo = OneDetail
    \/ Paired /\ todo = FromBegin /\ db.ticks < MaxTicks
    \/ Paired /\ todo = FromTick /\ db.ticks < MaxTicks /\ open
    \/ Paired /\ todo = FromMap /\ InTick({})
    \/ Paired /\ todo = FromScore /\ InTick({"map_switch"})
    \/ Due /\ todo = <<"detail">> \o FromScore /\ InTick({"map_switch"})
    \/ Paired /\ todo = FromFaction /\ InTick({"map_switch", "score_switch"})
    \/ Due /\ todo = <<"detail">> \o FromFaction /\ InTick({"map_switch", "score_switch"})
    \/ Paired /\ todo = FromAgents /\ InTick(Switches)
    \/ Due /\ todo = <<"detail">> \o FromAgents /\ InTick(Switches)
    \/ Paired /\ todo = FromCommit /\ open /\ file.ticks < db.ticks

\* v is the value of the last switch s among the events up to tick k.
Says(events, s, k, v) ==
    \/ v = Unknown /\ \A i \in 1 .. Len(events) : ~(events[i].type = s /\ events[i].tick <= k)
    \/ \E i \in 1 .. Len(events) :
         /\ events[i].type = s /\ events[i].tick <= k /\ events[i].about.value = v
         /\ \A j \in 1 .. Len(events) : events[j].type = s /\ events[j].tick <= k => j <= i

\* What last says is what the events say.
LastOk == \A s \in Switches : \/ Says(db.events, s, db.ticks, last[s])
                              \/ s = "faction_switch" /\ lost

Right(events, s, k) == known[k].ended /\ known[k].of[s] # Unknown =>
    \/ Says(events, s, k, known[k].of[s])
    \/ s = "faction_switch" /\ lost

Later(e, f) == e.tick < f.tick \/ (e.tick = f.tick /\ e.order < f.order)

SwitchesOk(t) == \A k \in 1 .. t.ticks, s \in Switches : Right(t.events, s, k)
OrderOk(t)    == \A i \in 1 .. Len(t.events) - 1 : Later(t.events[i], t.events[i + 1])
AgentsOk(t)   == \A i \in 1 .. Len(t.agents) - 1 : t.agents[i] < t.agents[i + 1]
DetailsOk(t)  == ~met => /\ \A i \in 1 .. Len(t.details) : t.details[i] = i
                         /\ Len(t.events) - Len(t.details) \in {0, 1}

\* What holds of the tables as the recorder sees them, and of the file.
Sound(t) == t.ticks <= db.ticks /\ SwitchesOk(t) /\ OrderOk(t) /\ AgentsOk(t) /\ DetailsOk(t)

\* Nothing in the tables is later than now.
NoneLater ==
    /\ \A i \in 1 .. Len(db.events) :
         \/ db.events[i].tick < db.ticks
         \/ db.events[i].tick = db.ticks /\ db.events[i].order <= event_order_counter
    /\ \A i \in 1 .. Len(db.agents) : db.agents[i] <= db.ticks

About == [value : Values \cup {Unknown}, names : 0 .. 1]
EventRow == [tick : 0 .. MaxTicks, order : Nat, type : Switches \cup {"spawn"}, about : About]

KnownOk == /\ known \in Seq([of : [Switches -> Values \cup {Unknown}], names : 0 .. 1, ended : BOOLEAN])
           /\ current_tick_id = db.ticks
           /\ \A s \in Switches \ {"map_switch"} : game.of[s] # Unknown

RecorderInv == /\ RecorderTypeOK /\ KnownOk /\ PlaceOk /\ (~open => file = db)
               /\ LastOk /\ NoneLater /\ Sound(db) /\ Sound(file)

-----------------------------------------------------------------------------
(* Sequences and what a handler has to do.                                 *)

\* A sequence that grows by one.
LEMMA Appended ==
    ASSUME NEW S, NEW s \in Seq(S), NEW e \in S
    PROVE  /\ Append(s, e) \in Seq(S) /\ Len(Append(s, e)) = Len(s) + 1
           /\ \A i \in 1 .. Len(s) : Append(s, e)[i] = s[i]
           /\ Append(s, e)[Len(s) + 1] = e
  OBVIOUS

\* A sequence with another element in a place.
LEMMA Replaced ==
    ASSUME NEW S, NEW s \in Seq(S), NEW i \in 1 .. Len(s), NEW e \in S
    PROVE  /\ [s EXCEPT ![i] = e] \in Seq(S) /\ Len([s EXCEPT ![i] = e]) = Len(s)
           /\ [s EXCEPT ![i] = e][i] = e
           /\ \A j \in 1 .. Len(s) : j # i => [s EXCEPT ![i] = e][j] = s[j]
  OBVIOUS

\* A step put in front of what is left.
LEMMA Prefixed ==
    ASSUME NEW S, NEW s \in Seq(S), NEW e \in S
    PROVE  /\ <<e>> \o s \in Seq(S) /\ <<e>> \o s # <<>>
           /\ Head(<<e>> \o s) = e /\ Tail(<<e>> \o s) = s
           /\ Len(<<e>> \o s) = Len(s) + 1
           /\ \A i \in 1 .. Len(s) : (<<e>> \o s)[i + 1] = s[i]
  OBVIOUS

\* What is left of a tick is a sequence of steps, and begins with the one it is
\* named for.
LEMMA Places ==
    /\ FromCommit \in Seq(Steps) /\ FromCommit # <<>> /\ Head(FromCommit) = "commit"
    /\ FromAgents \in Seq(Steps) /\ FromAgents # <<>> /\ Head(FromAgents) = "agents"
    /\ FromFaction \in Seq(Steps) /\ FromFaction # <<>> /\ Head(FromFaction) = "faction_switch"
    /\ FromScore \in Seq(Steps) /\ FromScore # <<>> /\ Head(FromScore) = "score_switch"
    /\ FromMap \in Seq(Steps) /\ FromMap # <<>> /\ Head(FromMap) = "map_switch"
    /\ FromTick \in Seq(Steps) /\ FromTick # <<>> /\ Head(FromTick) = "tick"
    /\ FromBegin \in Seq(Steps) /\ FromBegin # <<>> /\ Head(FromBegin) = "begin"
    /\ OneEvent \in Seq(Steps) /\ OneEvent # <<>> /\ Head(OneEvent) = "event"
    /\ OneDetail \in Seq(Steps) /\ OneDetail # <<>> /\ Head(OneDetail) = "detail"
  BY DEF FromCommit, FromAgents, FromFaction, FromScore, FromMap, FromTick, FromBegin,
         OneEvent, OneDetail, Steps, Switches

\* What follows each step.
LEMMA Followers ==
    /\ Tail(FromCommit) = <<>> /\ Tail(FromAgents) = FromCommit
    /\ Tail(FromFaction) = FromAgents /\ Tail(FromScore) = FromFaction
    /\ Tail(FromMap) = FromScore /\ Tail(FromTick) = FromMap
    /\ Tail(FromBegin) = FromTick /\ Tail(OneEvent) = OneDetail /\ Tail(OneDetail) = <<>>
  BY DEF FromCommit, FromAgents, FromFaction, FromScore, FromMap, FromTick, FromBegin,
         OneEvent, OneDetail

-----------------------------------------------------------------------------
(* What the events say of a switch.                                        *)

\* An event of another kind, or of a later tick, changes nothing that was said.
LEMMA SaysKept ==
    ASSUME NEW events \in Seq(EventRow), NEW e \in EventRow, NEW s, NEW k \in Nat, NEW v,
           e.type # s \/ e.tick > k, Says(events, s, k, v)
    PROVE  Says(Append(events, e), s, k, v)
<1> DEFINE new == Append(events, e)
<1>1. /\ Len(new) = Len(events) + 1 /\ new[Len(events) + 1] = e
      /\ \A i \in 1 .. Len(events) : new[i] = events[i]
  BY Appended
<1>2. ~(e.type = s /\ e.tick <= k)
  BY DEF EventRow
<1>3. Len(events) \in Nat
  OBVIOUS
<1> HIDE DEF new
<1>4. \A i \in 1 .. Len(new) : new[i].type = s /\ new[i].tick <= k =>
          i \in 1 .. Len(events) /\ new[i] = events[i]
  BY <1>1, <1>2, <1>3
<1>5. CASE v = Unknown /\ \A i \in 1 .. Len(events) : ~(events[i].type = s /\ events[i].tick <= k)
  BY <1>4, <1>5 DEF Says, new
<1>6. CASE \E i \in 1 .. Len(events) :
             /\ events[i].type = s /\ events[i].tick <= k /\ events[i].about.value = v
             /\ \A j \in 1 .. Len(events) : events[j].type = s /\ events[j].tick <= k => j <= i
  <2>1. PICK i \in 1 .. Len(events) :
             /\ events[i].type = s /\ events[i].tick <= k /\ events[i].about.value = v
             /\ \A j \in 1 .. Len(events) : events[j].type = s /\ events[j].tick <= k => j <= i
    BY <1>6
  <2>2. /\ i \in 1 .. Len(new) /\ new[i].type = s /\ new[i].tick <= k /\ new[i].about.value = v
        /\ \A j \in 1 .. Len(new) : new[j].type = s /\ new[j].tick <= k => j <= i
    BY <1>1, <1>3, <1>4, <2>1
  <2> QED BY <2>2 DEF Says, new
<1> QED BY <1>5, <1>6 DEF Says

\* A new event of the kind is the last one, and says what it is about.
LEMMA SaysNew ==
    ASSUME NEW events \in Seq(EventRow), NEW e \in EventRow, NEW k \in Nat, e.tick <= k
    PROVE  Says(Append(events, e), e.type, k, e.about.value)
<1> DEFINE new == Append(events, e)
<1>1. /\ Len(new) = Len(events) + 1 /\ new[Len(events) + 1] = e /\ Len(events) \in Nat
  BY Appended
<1> HIDE DEF new
<1>2. Len(new) \in 1 .. Len(new) /\ new[Len(new)] = e /\ \A j \in 1 .. Len(new) : j <= Len(new)
  BY <1>1
<1> QED BY <1>2 DEF Says, new

\* Where all events lie, a later tick sees the same of them.
LEMMA SaysLater ==
    ASSUME NEW events \in Seq(EventRow), NEW s, NEW k \in Nat, NEW m \in Nat, NEW v, k <= m,
           \A i \in 1 .. Len(events) : events[i].tick <= k, Says(events, s, k, v)
    PROVE  Says(events, s, m, v)
<1>1. \A i \in 1 .. Len(events) : events[i].tick \in Nat
  <2>1. SUFFICES ASSUME NEW i \in 1 .. Len(events) PROVE events[i].tick \in Nat
    OBVIOUS
  <2>2. events[i] \in EventRow
    OBVIOUS
  <2>3. MaxTicks \in Nat
    BY RecorderConstants
  <2> QED BY <2>2, <2>3 DEF EventRow
<1>2. \A i \in 1 .. Len(events) : events[i].tick <= k /\ events[i].tick <= m
  BY <1>1
<1> QED BY <1>2 DEF Says

\* What the table says is what its events say.
LEMMA SaysRecorded ==
    ASSUME NEW t, t.events \in Seq(EventRow), NEW s, NEW k \in Nat, NEW v, Says(t.events, s, k, v)
    PROVE  Recorded(t, s, k).value = v
<1> DEFINE events == t.events
           upTo == {i \in DOMAIN events : events[i].type = s /\ events[i].tick <= k}
<1>1. DOMAIN events = 1 .. Len(events) /\ Len(events) \in Nat
  OBVIOUS
<1>2. CASE v = Unknown /\ \A i \in 1 .. Len(events) : ~(events[i].type = s /\ events[i].tick <= k)
  <2>1. upTo = {}
    BY <1>1, <1>2
  <2> QED BY <2>1, <1>2 DEF Recorded
<1>3. CASE \E i \in 1 .. Len(events) :
             /\ events[i].type = s /\ events[i].tick <= k /\ events[i].about.value = v
             /\ \A j \in 1 .. Len(events) : events[j].type = s /\ events[j].tick <= k => j <= i
  <2>1. PICK i \in 1 .. Len(events) :
             /\ events[i].type = s /\ events[i].tick <= k /\ events[i].about.value = v
             /\ \A j \in 1 .. Len(events) : events[j].type = s /\ events[j].tick <= k => j <= i
    BY <1>3
  <2>2. i \in upTo /\ upTo \subseteq Int /\ \A j \in upTo : i >= j
    BY <1>1, <2>1
  <2> HIDE DEF upTo
  <2> DEFINE most == Max(upTo)
  <2>3. most \in upTo /\ \A j \in upTo : most >= j
    BY <2>2 DEF Max
  <2> HIDE DEF most
  <2>4. most \in Int /\ i \in Int /\ most >= i /\ i >= most
    BY <2>2, <2>3
  <2>5. most = i /\ upTo # {}
    BY <2>2, <2>4
  <2> QED BY <2>1, <2>5 DEF Recorded, upTo, most
<1> QED BY <1>2, <1>3 DEF Says

-----------------------------------------------------------------------------
(* What a step leaves alone.                                               *)

\* Where a handler is, by the step that comes next.
LEMMA WhichPlace ==
    ASSUME PlaceOk
    PROVE  /\ todo = <<>> => Paired
           /\ Now("event") => todo = OneEvent /\ Paired
           /\ Now("begin") => todo = FromBegin /\ Paired /\ db.ticks < MaxTicks
           /\ Now("tick") => todo = FromTick /\ Paired /\ db.ticks < MaxTicks /\ open
           /\ Now("map_switch") => todo = FromMap /\ Paired /\ InTick({})
           /\ Now("score_switch") => todo = FromScore /\ Paired /\ InTick({"map_switch"})
           /\ Now("faction_switch") =>
                todo = FromFaction /\ Paired /\ InTick({"map_switch", "score_switch"})
           /\ Now("agents") => todo = FromAgents /\ Paired /\ InTick(Switches)
           /\ Now("commit") => todo = FromCommit /\ Paired /\ open /\ file.ticks < db.ticks
           /\ Now("detail") => Due /\
                \/ todo = OneDetail
                \/ todo = <<"detail">> \o FromScore /\ InTick({"map_switch"})
                \/ todo = <<"detail">> \o FromFaction /\ InTick({"map_switch", "score_switch"})
                \/ todo = <<"detail">> \o FromAgents /\ InTick(Switches)
<1>1. "detail" \in Steps
  BY DEF Steps
<1>2. /\ <<"detail">> \o FromScore # <<>> /\ Head(<<"detail">> \o FromScore) = "detail"
      /\ <<"detail">> \o FromFaction # <<>> /\ Head(<<"detail">> \o FromFaction) = "detail"
      /\ <<"detail">> \o FromAgents # <<>> /\ Head(<<"detail">> \o FromAgents) = "detail"
  BY <1>1, Prefixed, Places
<1> QED BY <1>2, Places DEF PlaceOk, Now

\* The tables of the file are sound as long as they stay.
LEMMA FileKept ==
    ASSUME RecorderInv, file' = file, db'.ticks \in Nat, db.ticks <= db'.ticks,
           \A k \in 1 .. file.ticks : known'[k] = known[k], lost => lost', met => met'
    PROVE  Sound(file)'
<1>1. Sound(file) /\ file.ticks \in Nat /\ db.ticks \in Nat
  <2>1. MaxTicks \in Nat
    BY RecorderConstants
  <2> QED BY <2>1 DEF RecorderInv, RecorderTypeOK, Tables
<1>2. (file.ticks <= db.ticks)'
  BY <1>1 DEF Sound
<1>3. SwitchesOk(file)'
  <2>1. SUFFICES ASSUME NEW k \in 1 .. file.ticks, NEW s \in Switches
                 PROVE  Right(file.events, s, k)'
    BY DEF SwitchesOk
  <2>2. Right(file.events, s, k) /\ known'[k] = known[k]
    BY <1>1 DEF Sound, SwitchesOk
  <2> QED BY <2>2 DEF Right, Says
<1>4. OrderOk(file)' /\ AgentsOk(file)' /\ DetailsOk(file)'
  BY <1>1 DEF Sound, OrderOk, AgentsOk, DetailsOk, Later
<1> QED BY <1>2, <1>3, <1>4 DEF Sound

\* So are those the recorder sees.
LEMMA DbKept ==
    ASSUME RecorderInv, db' = db, known' = known, lost => lost', met => met'
    PROVE  Sound(db)'
<1>1. Sound(db)
  BY DEF RecorderInv
<1>2. SwitchesOk(db)'
  <2>1. SUFFICES ASSUME NEW k \in 1 .. db.ticks, NEW s \in Switches
                 PROVE  Right(db.events, s, k)'
    BY DEF SwitchesOk
  <2>2. Right(db.events, s, k)
    BY <1>1 DEF Sound, SwitchesOk
  <2> QED BY <2>2 DEF Right, Says
<1>3. OrderOk(db)' /\ AgentsOk(db)' /\ DetailsOk(db)' /\ (db.ticks <= db.ticks)'
  BY <1>1 DEF Sound, OrderOk, AgentsOk, DetailsOk, Later
<1> QED BY <1>2, <1>3 DEF Sound

\* What is committed is as sound as what was there to be committed.
LEMMA FileFollows ==
    ASSUME file' = db', Sound(db)'
    PROVE  Sound(file)'
  BY DEF Sound, SwitchesOk, Right, Says, OrderOk, AgentsOk, DetailsOk, Later

\* A step that writes nothing.
LEMMA NothingWritten ==
    ASSUME RecorderInv, UNCHANGED <<db, file, known, last, event_order_counter, lost, met>>
    PROVE  LastOk' /\ NoneLater' /\ Sound(db)' /\ Sound(file)'
<1>1. Sound(db)'
  BY DbKept
<1>2. Sound(file)'
  <2>1. db.ticks \in Nat
    BY RecorderConstants DEF RecorderInv, RecorderTypeOK, Tables
  <2> QED BY <2>1, FileKept
<1>3. LastOk' /\ NoneLater'
  BY DEF RecorderInv, LastOk, Says, NoneLater
<1> QED BY <1>1, <1>2, <1>3

-----------------------------------------------------------------------------
(* An event is written.                                                    *)

\* A new event comes after all others, leaves what they say of earlier ticks
\* and is followed by its details.
LEMMA CreatedSound ==
    ASSUME RecorderInv, Paired, NEW type \in Switches \cup {"spawn"}, NEW about \in About,
           type # "spawn" => db.ticks > 0 /\ ~known[db.ticks].ended,
           Created(type, about), UNCHANGED <<known, open>>, lost' = lost
    PROVE  /\ db' \in Tables /\ file' \in Tables /\ event_order_counter' \in Nat /\ event_id' \in Nat
           /\ faults' \in 0 .. MaxFaults /\ met' \in BOOLEAN
           /\ db'.ticks = db.ticks /\ db'.agents = db.agents
           /\ (~open => file = db)' /\ NoneLater' /\ Due' /\ Sound(db)' /\ Sound(file)'
<1> DEFINE n == OrderOf
           e == [tick |-> db.ticks, order |-> n, type |-> type, about |-> about]
           new == [db EXCEPT !.events = Append(@, e)]
<1>1. /\ MaxTicks \in Nat /\ db \in Tables /\ file \in Tables /\ current_tick_id = db.ticks
      /\ MaxFaults \in Nat /\ faults \in 0 .. MaxFaults /\ met \in BOOLEAN
      /\ event_order_counter \in Nat /\ (~open => file = db)
  BY RecorderConstants DEF RecorderInv, RecorderTypeOK, KnownOk
<1>2. db.ticks \in 0 .. MaxTicks /\ db.events \in Seq(EventRow) /\ db.details \in Seq(Nat)
      /\ db.agents \in Seq(0 .. MaxTicks)
  BY <1>1 DEF Tables, EventRow, About
<1>3. n \in Nat /\ n = event_order_counter + 1 /\ e \in EventRow
  BY <1>1, <1>2 DEF EventRow, OrderOf
<1>4. event_order_counter' = n /\ event_id' = Len(db.events) + 1 /\ Wrote(new)
  BY <1>1 DEF Created
<1>5. /\ new.ticks = db.ticks /\ new.details = db.details /\ new.agents = db.agents
      /\ new.events = Append(db.events, e) /\ new \in Tables
  <2>1. Append(db.events, e) \in Seq(EventRow)
    BY <1>2, <1>3
  <2> QED BY <1>1, <2>1 DEF Tables, EventRow, About
<1>6. /\ Len(new.events) = Len(db.events) + 1 /\ new.events[Len(db.events) + 1] = e
      /\ \A i \in 1 .. Len(db.events) : new.events[i] = db.events[i]
  BY <1>2, <1>3, <1>5, Appended
<1> HIDE DEF n, new
<1>7. \/ db' = new /\ met' = met /\ faults' = faults /\ ((file' = file /\ open) \/ (file' = new /\ ~open))
      \/ db' = db /\ file' = file /\ met' /\ ~open /\ faults' \in 0 .. MaxFaults
  BY <1>1, <1>4 DEF Wrote, Fault
<1>8. Len(db.events) \in Nat /\ Len(db.details) \in Nat
  BY <1>2
<1>9. db'.ticks = db.ticks /\ db'.agents = db.agents /\ db' \in Tables /\ file' \in Tables
      /\ event_order_counter' \in Nat /\ event_id' \in Nat /\ faults' \in 0 .. MaxFaults
      /\ met' \in BOOLEAN /\ (~open => file = db)'
  <2>1. event_order_counter' \in Nat /\ event_id' \in Nat
    BY <1>3, <1>4, <1>8
  <2>2. CASE db' = new /\ met' = met /\ faults' = faults /\
             ((file' = file /\ open) \/ (file' = new /\ ~open))
    <3>1. (~open => file = db)'
      BY <2>2
    <3> QED BY <1>1, <1>5, <2>1, <2>2, <3>1
  <2>3. CASE db' = db /\ file' = file /\ met' /\ ~open /\ faults' \in 0 .. MaxFaults
    <3>1. (~open => file = db)' /\ met' \in BOOLEAN
      BY <1>1, <1>4, <2>3 DEF Wrote
    <3> QED BY <1>1, <2>1, <2>3, <3>1
  <2> QED BY <1>7, <2>2, <2>3
<1>10. \A i \in 1 .. Len(db.events) : db.events[i].order \in Nat /\ db.events[i].tick \in Nat
  <2>1. SUFFICES ASSUME NEW i \in 1 .. Len(db.events)
                 PROVE  db.events[i].order \in Nat /\ db.events[i].tick \in Nat
    OBVIOUS
  <2>2. db.events[i] \in EventRow
    BY <1>2
  <2> QED BY <1>1, <2>2 DEF EventRow
<1>11. NoneLater'
  <2>1. NoneLater
    BY DEF RecorderInv
  <2>3. CASE db' = db
    BY <1>1, <1>3, <1>4, <1>10, <2>1, <2>3 DEF NoneLater
  <2>4. CASE db' = new
    <3>1. \A i \in 1 .. Len(new.events) :
            new.events[i].tick < new.ticks \/ (new.events[i].tick = new.ticks /\ new.events[i].order <= n)
      <4>1. e.tick = db.ticks /\ e.order = n
        OBVIOUS
      <4>2. \A i \in 1 .. Len(db.events) :
              \/ db.events[i].tick < db.ticks
              \/ db.events[i].tick = db.ticks /\ db.events[i].order <= n
        <5>1. SUFFICES ASSUME NEW i \in 1 .. Len(db.events)
                       PROVE  \/ db.events[i].tick < db.ticks
                              \/ db.events[i].tick = db.ticks /\ db.events[i].order <= n
          OBVIOUS
        <5>2. \/ db.events[i].tick < db.ticks
              \/ db.events[i].tick = db.ticks /\ db.events[i].order <= event_order_counter
          BY <2>1 DEF NoneLater
        <5>3. db.events[i].order \in Nat
          BY <1>10
        <5> QED BY <1>1, <1>3, <5>2, <5>3
      <4> HIDE DEF e
      <4> QED BY <1>5, <1>6, <1>8, <1>3, <4>1, <4>2
    <3> QED BY <1>4, <1>5, <2>1, <2>4, <3>1 DEF NoneLater
  <2> QED BY <1>7, <2>3, <2>4
<1>12. Due'
  BY <1>4, <1>5, <1>6, <1>7 DEF Due, Paired
<1>13. Sound(db)'
  <2>1. CASE db' = db
    BY <1>7, <2>1, DbKept
  <2>2. CASE db' = new /\ met' = met
    <3>1. Sound(db) /\ NoneLater /\ db.ticks \in Nat
      BY <1>2 DEF RecorderInv
    <3>2. SwitchesOk(db)'
      <4>1. SUFFICES ASSUME NEW k \in 1 .. db.ticks, NEW s \in Switches
                     PROVE  Right(db.events, s, k)'
        <5>1. db'.ticks = db.ticks
          BY <1>9
        <5> QED BY <5>1 DEF SwitchesOk
      <4>2. Right(db.events, s, k) /\ k \in Nat
        BY <3>1 DEF Sound, SwitchesOk
      <4>3. SUFFICES ASSUME known[k].ended, known[k].of[s] # Unknown, ~(s = "faction_switch" /\ lost)
                     PROVE  Says(new.events, s, k, known[k].of[s])
        <5>1. db'.events = new.events
          BY <2>2
        <5> QED BY <5>1 DEF Right, Says
      <4>4. Says(db.events, s, k, known[k].of[s])
        BY <4>2, <4>3 DEF Right
      <4>5. type # s \/ db.ticks > k
        BY <1>2, <4>2, <4>3 DEF Switches
      <4> QED BY <1>2, <1>3, <1>5, <4>2, <4>4, <4>5, SaysKept
    <3>3. OrderOk(new)
      <4>1. SUFFICES ASSUME NEW i \in 1 .. Len(new.events) - 1
                     PROVE  Later(new.events[i], new.events[i + 1])
        BY DEF OrderOk
      <4>2. i \in 1 .. Len(db.events) /\ new.events[i] = db.events[i]
        BY <1>6, <1>8
      <4>3. CASE i = Len(db.events)
        <5>1. new.events[i + 1] = e /\ e.tick = db.ticks /\ e.order = n
          BY <1>6, <4>3
        <5>2. \/ db.events[i].tick < db.ticks
              \/ db.events[i].tick = db.ticks /\ db.events[i].order < n
          <6>1. \/ db.events[i].tick < db.ticks
                \/ db.events[i].tick = db.ticks /\ db.events[i].order <= event_order_counter
            BY <3>1, <4>2 DEF NoneLater
          <6>2. db.events[i].order \in Nat
            BY <1>10, <4>2
          <6> QED BY <1>1, <1>3, <6>1, <6>2
        <5>3. Later(db.events[i], e)
          BY <5>1, <5>2 DEF Later
        <5> HIDE DEF e
        <5> QED BY <4>2, <5>1, <5>3
      <4>4. CASE i # Len(db.events)
        <5>1. i \in 1 .. Len(db.events) - 1 /\ new.events[i + 1] = db.events[i + 1]
          <6>1. i \in 1 .. Len(db.events) - 1 /\ i + 1 \in 1 .. Len(db.events)
            BY <1>8, <4>2, <4>4
          <6> QED BY <1>6, <6>1
        <5>2. Later(db.events[i], db.events[i + 1])
          BY <3>1, <5>1 DEF Sound, OrderOk
        <5> QED BY <4>2, <5>1, <5>2
      <4> QED BY <4>3, <4>4
    <3>4. AgentsOk(new)
      BY <1>5, <3>1 DEF Sound, AgentsOk
    <3>5. DetailsOk(new)
      <4>1. SUFFICES ASSUME ~met
                     PROVE  /\ \A i \in 1 .. Len(new.details) : new.details[i] = i
                            /\ Len(new.events) - Len(new.details) \in {0, 1}
        BY DEF DetailsOk
      <4>2. Len(new.events) = Len(db.details) + 1
        BY <1>6, <4>1 DEF Paired
      <4>3. \A i \in 1 .. Len(db.details) : db.details[i] = i
        BY <3>1, <4>1 DEF Sound, DetailsOk
      <4> QED BY <1>5, <1>8, <4>2, <4>3
    <3> QED BY <1>5, <2>2, <3>1, <3>2, <3>3, <3>4, <3>5 DEF Sound, OrderOk, Later, AgentsOk, DetailsOk
  <2> QED BY <1>7, <2>1, <2>2
<1>14. Sound(file)'
  <2>1. CASE file' = file
    BY <1>2, <1>7, <1>9, <2>1, FileKept
  <2>2. CASE file' = db'
    BY <1>13, <2>2, FileFollows
  <2> QED BY <1>7, <2>1, <2>2
<1> QED BY <1>9, <1>11, <1>12, <1>13, <1>14

-----------------------------------------------------------------------------
(* The steps.                                                              *)

\* Between handlers, the game changes or calls one; the transaction begins.
LEMMA QuietSteps ==
    ASSUME RecorderInv, Change \/ OnSpawn \/ Tick \/ Begin
    PROVE  RecorderInv'
<1>1. /\ LastOk' /\ NoneLater' /\ Sound(db)' /\ Sound(file)'
  BY NothingWritten DEF Change, OnSpawn, Tick, Begin, lua, store
<1>2. RecorderTypeOK /\ KnownOk /\ PlaceOk /\ (~open => file = db)
  BY DEF RecorderInv
<1>3. UNCHANGED <<db, file, known, current_tick_id, event_order_counter, event_id, last, lost, met>>
  BY DEF Change, OnSpawn, Tick, Begin, lua, store
<1>4. CASE Change
  <2>1. PlaceOk'
    BY <1>2, <1>3, <1>4, WhichPlace DEF PlaceOk, Paired, Change, lua
  <2>2. game' \in [of : [Switches -> Values \cup {Unknown}], names : 0 .. 1]
        /\ \A s \in Switches \ {"map_switch"} : game'.of[s] # Unknown
    <3>1. game \in [of : [Switches -> Values \cup {Unknown}], names : 0 .. 1]
          /\ \A s \in Switches \ {"map_switch"} : game.of[s] # Unknown
      BY <1>2 DEF RecorderTypeOK, KnownOk
    <3>2. CASE \E s \in Switches : \E v \in Values \ {game.of[s]} : game' = [game EXCEPT !.of[s] = v]
      <4>1. PICK s \in Switches, v \in Values : game' = [game EXCEPT !.of[s] = v]
        BY <3>2
      <4> QED BY <3>1, <4>1, RecorderConstants
    <3>3. CASE game' = [game EXCEPT !.of["map_switch"] = Unknown]
      BY <3>1, <3>3 DEF Switches
    <3>4. CASE game' = [game EXCEPT !.names = 1 - @]
      BY <3>1, <3>4
    <3> QED BY <1>4, <3>2, <3>3, <3>4 DEF Change
  <2>3. todo' = todo /\ open' = open /\ faults' = faults /\ changes' \in 0 .. MaxChanges
    BY <1>2, <1>4, RecorderConstants DEF Change, lua, store, RecorderTypeOK
  <2>4. RecorderTypeOK'
    BY <1>2, <1>3, <2>2, <2>3 DEF RecorderTypeOK
  <2>5. KnownOk' /\ (~open => file = db)'
    BY <1>2, <1>3, <2>2, <2>3 DEF KnownOk
  <2> QED BY <1>1, <2>1, <2>4, <2>5 DEF RecorderInv
<1>5. CASE OnSpawn \/ Tick \/ Begin
  <2>1. game' = game /\ faults' = faults /\ changes' = changes
    BY <1>5 DEF OnSpawn, Tick, Begin, store
  <2>2. todo' \in Seq(Steps) /\ PlaceOk'
    <3>1. CASE OnSpawn
      <4>1. todo' = OneEvent
        BY <3>1 DEF OnSpawn, OneEvent
      <4>2. Paired'
        BY <1>2, <1>3, <3>1, WhichPlace DEF OnSpawn, Paired
      <4> QED BY <4>1, <4>2, Places DEF PlaceOk
    <3>2. CASE Tick
      <4>1. todo' = FromBegin
        BY <3>2 DEF Tick, FromBegin
      <4>2. Paired'
        BY <1>2, <1>3, <3>2, WhichPlace DEF Tick, Paired
      <4>3. (db.ticks < MaxTicks)'
        BY <1>3, <3>2 DEF Tick
      <4> QED BY <4>1, <4>2, <4>3, Places DEF PlaceOk
    <3>3. CASE Begin
      <4>1. todo' = FromTick /\ Paired /\ db.ticks < MaxTicks /\ open'
        BY <1>2, <3>3, WhichPlace, Followers DEF Begin, AfterBegin, Opened
      <4> QED BY <1>3, <4>1, Places DEF PlaceOk, Paired
    <3> QED BY <1>5, <3>1, <3>2, <3>3
  <2>3. open' \in BOOLEAN /\ (~open => file = db)'
    BY <1>2, <1>3, <1>5 DEF OnSpawn, Tick, Begin, Opened, store, RecorderTypeOK
  <2>4. RecorderTypeOK'
    BY <1>2, <1>3, <2>1, <2>2, <2>3 DEF RecorderTypeOK
  <2>5. KnownOk'
    BY <1>2, <1>3, <2>1 DEF KnownOk
  <2> QED BY <1>1, <2>2, <2>3, <2>4, <2>5 DEF RecorderInv
<1> QED BY <1>4, <1>5

\* A raise before anything is written or noted: the handler ends.
LEMMA RaiseStep ==
    ASSUME RecorderInv, Paired, Raises,
           UNCHANGED <<game, current_tick_id, event_order_counter, last, event_id, db, file, open,
                       changes, known, lost, met>>
    PROVE  RecorderInv'
<1>1. LastOk' /\ NoneLater' /\ Sound(db)' /\ Sound(file)'
  BY NothingWritten DEF RecorderInv
<1>2. PlaceOk'
  BY DEF PlaceOk, Paired, Raises
<1>3. faults' \in 0 .. MaxFaults
  BY RecorderConstants DEF RecorderInv, RecorderTypeOK, Raises, Fault
<1>4. RecorderTypeOK' /\ KnownOk' /\ (~open => file = db)'
  BY <1>3 DEF RecorderInv, RecorderTypeOK, KnownOk, Raises
<1> QED BY <1>1, <1>2, <1>4 DEF RecorderInv

\* A tick begins: no event has its number yet, and the game is as it is known.
LEMMA NewTickStep == ASSUME RecorderInv, NewTick PROVE RecorderInv'
<1> DEFINE here == [of |-> game.of, names |-> game.names, ended |-> FALSE]
           new == [db EXCEPT !.ticks = @ + 1]
<1>1. /\ RecorderTypeOK /\ KnownOk /\ LastOk /\ NoneLater /\ Sound(db)
      /\ todo = FromTick /\ Paired /\ db.ticks < MaxTicks /\ open
  BY WhichPlace DEF RecorderInv, NewTick
<1> DEFINE raised == Raises /\ UNCHANGED <<current_tick_id, event_order_counter, db, file, known, met>>
<1>a. CASE raised
  BY <1>1, <1>a, RaiseStep DEF NewTick
<1>b. SUFFICES ASSUME ~raised PROVE RecorderInv'
  BY <1>a
<1>2. /\ MaxTicks \in Nat /\ db \in Tables /\ file \in Tables /\ db.ticks \in 0 .. MaxTicks
      /\ db.events \in Seq(EventRow) /\ Len(known) = db.ticks
  BY <1>1, RecorderConstants DEF RecorderTypeOK, Tables, EventRow, About
<1>3. /\ todo' = FromMap /\ event_order_counter' = 0 /\ db' = new /\ file' = file
      /\ current_tick_id' = db'.ticks /\ known' = Append(known, here)
      /\ UNCHANGED <<game, last, event_id, open, changes, lost, faults, met>>
  BY <1>1, <1>b, Followers DEF NewTick, OnTo, Wrote, TickId
<1>4. /\ new.ticks = db.ticks + 1 /\ new.events = db.events /\ new.details = db.details
      /\ new.agents = db.agents /\ new \in Tables
  <2>1. db.ticks + 1 \in 0 .. MaxTicks
    BY <1>1, <1>2
  <2> QED BY <1>2, <2>1 DEF Tables
<1> HIDE DEF new
<1>5. /\ game.of \in [Switches -> Values \cup {Unknown}] /\ game.names \in 0 .. 1
      /\ here \in [of : [Switches -> Values \cup {Unknown}], names : 0 .. 1, ended : BOOLEAN]
      /\ known \in Seq([of : [Switches -> Values \cup {Unknown}], names : 0 .. 1, ended : BOOLEAN])
  BY <1>1 DEF RecorderTypeOK, KnownOk
<1>6. /\ known' \in Seq([of : [Switches -> Values \cup {Unknown}], names : 0 .. 1, ended : BOOLEAN])
      /\ Len(known') = db.ticks + 1 /\ known'[db.ticks + 1] = here
      /\ \A k \in 1 .. db.ticks : known'[k] = known[k]
  BY <1>2, <1>3, <1>5, Appended
<1>7. here.of = game.of /\ here.ended = FALSE
  OBVIOUS
<1> HIDE DEF here
<1>8. RecorderTypeOK'
  <2>1. FromMap \in Seq(Steps)
    BY Places
  <2> QED BY <1>1, <1>2, <1>3, <1>4, <1>6, <2>1 DEF RecorderTypeOK
<1>9. KnownOk'
  BY <1>1, <1>3, <1>6 DEF KnownOk
<1>10. \A i \in 1 .. Len(db.events) : db.events[i].tick <= db.ticks /\ db.events[i].tick \in Nat
  <2>1. SUFFICES ASSUME NEW i \in 1 .. Len(db.events)
                 PROVE  db.events[i].tick <= db.ticks /\ db.events[i].tick \in Nat
    OBVIOUS
  <2>2. db.events[i] \in EventRow
    BY <1>2
  <2>3. db.events[i].tick \in Nat
    BY <1>2, <2>2 DEF EventRow
  <2> QED BY <1>1, <1>2, <2>3 DEF NoneLater
<1>11. LastOk'
  <2>1. ASSUME NEW s \in Switches, ~(s = "faction_switch" /\ lost)
        PROVE  Says(db.events, s, db.ticks + 1, last[s])
    <3>1. Says(db.events, s, db.ticks, last[s])
      BY <1>1, <2>1 DEF LastOk
    <3> QED BY <1>2, <1>10, <3>1, SaysLater
  <2>2. /\ db'.events = db.events /\ db'.ticks = db.ticks + 1
        /\ last' = last /\ lost' = lost
    BY <1>3, <1>4
  <2> QED BY <2>1, <2>2 DEF LastOk
<1>12. NoneLater'
  <2>1. \A i \in 1 .. Len(db.events) : db.events[i].tick < db.ticks + 1
    BY <1>2, <1>10
  <2>2. \A i \in 1 .. Len(db.agents) : db.agents[i] <= db.ticks + 1
    <3>1. db.agents \in Seq(0 .. MaxTicks)
      BY <1>2 DEF Tables
    <3> QED BY <1>1, <1>2, <3>1 DEF NoneLater
  <2> QED BY <1>3, <1>4, <2>1, <2>2 DEF NoneLater
<1>13. Sound(db)'
  <2>1. SwitchesOk(db)'
    <3>1. SUFFICES ASSUME NEW k \in 1 .. db.ticks + 1, NEW s \in Switches
                   PROVE  Right(db.events, s, k)'
      <4>1. db'.ticks = db.ticks + 1
        BY <1>3, <1>4
      <4> QED BY <4>1 DEF SwitchesOk
    <3>2. CASE k = db.ticks + 1
      BY <1>6, <1>7, <3>2 DEF Right
    <3>3. CASE k # db.ticks + 1
      <4>1. k \in 1 .. db.ticks /\ known'[k] = known[k]
        BY <1>2, <1>6, <3>3
      <4>2. Right(db.events, s, k)
        BY <1>1, <4>1 DEF Sound, SwitchesOk
      <4> QED BY <1>3, <1>4, <4>1, <4>2 DEF Right, Says
    <3> QED BY <3>2, <3>3
  <2> QED BY <1>1, <1>2, <1>3, <1>4, <2>1 DEF Sound, OrderOk, Later, AgentsOk, DetailsOk
<1>14. Sound(file)'
  <2>1. file.ticks \in 0 .. MaxTicks /\ file.ticks <= db.ticks
    BY <1>2 DEF Tables, RecorderInv, Sound
  <2> QED BY <1>2, <1>3, <1>4, <1>6, <2>1, FileKept
<1>15. PlaceOk'
  <2>1. Paired'
    BY <1>1, <1>3, <1>4 DEF Paired
  <2>2. InTick({})'
    <3>1. file.ticks < db.ticks + 1
      BY <1>2 DEF RecorderInv, Sound, Tables
    <3>2. \A i \in 1 .. Len(db.agents) : db.agents[i] < db.ticks + 1
      <4>1. db.agents \in Seq(0 .. MaxTicks)
        BY <1>2 DEF Tables
      <4> QED BY <1>1, <1>2, <4>1 DEF NoneLater
    <3> QED BY <1>1, <1>3, <1>4, <1>6, <1>7, <3>1, <3>2 DEF InTick
  <2> QED BY <1>3, <2>1, <2>2 DEF PlaceOk
<1>16. (~open => file = db)'
  BY <1>1, <1>3
<1> QED BY <1>8, <1>9, <1>11, <1>12, <1>13, <1>14, <1>15, <1>16 DEF RecorderInv

\* A check writes the switch it found, and then last is right for it; or the
\* game raises, and the handler ends.
LEMMA CheckStep == ASSUME RecorderInv, NEW s \in Switches, Check(s) PROVE RecorderInv'
<1> DEFINE about == [value |-> game.of[s], names |-> game.names]
           done == (IF s = "map_switch" THEN {} ELSE
                    IF s = "score_switch" THEN {"map_switch"} ELSE {"map_switch", "score_switch"})
           rest == (IF s = "map_switch" THEN FromScore ELSE
                    IF s = "score_switch" THEN FromFaction ELSE FromAgents)
<1>1. /\ RecorderTypeOK /\ KnownOk /\ PlaceOk /\ LastOk /\ NoneLater /\ (~open => file = db)
      /\ Sound(db)
  BY DEF RecorderInv
<1>2. /\ MaxTicks \in Nat /\ db \in Tables /\ file \in Tables /\ db.ticks \in 0 .. MaxTicks
      /\ file.ticks \in 0 .. MaxTicks /\ db.events \in Seq(EventRow) /\ Len(known) = db.ticks
      /\ last \in [Switches -> Values \cup {Unknown}]
  BY <1>1, RecorderConstants DEF RecorderTypeOK, Tables, EventRow, About
<1>3. Paired /\ InTick(done) /\ Tail(todo) = rest /\ rest \in Seq(Steps)
  <2>1. Now(s) /\ s \in {"map_switch", "score_switch", "faction_switch"}
    BY DEF Check, Switches
  <2>2. CASE s = "map_switch"
    BY <1>1, <2>1, <2>2, WhichPlace, Followers, Places
  <2>3. CASE s = "score_switch"
    BY <1>1, <2>1, <2>3, WhichPlace, Followers, Places
  <2>4. CASE s = "faction_switch"
    BY <1>1, <2>1, <2>4, WhichPlace, Followers, Places
  <2> QED BY <2>1, <2>2, <2>3, <2>4
<1> HIDE DEF done, rest
<1> DEFINE raised == /\ Raises
                     /\ UNCHANGED <<last, event_order_counter, event_id, db, file, lost, met>>
<1>a. CASE raised
  BY <1>3, <1>a, RaiseStep DEF Check
<1>b. SUFFICES ASSUME ~raised PROVE RecorderInv'
  BY <1>a
<1>4. open /\ file.ticks < db.ticks /\ db.ticks > 0 /\ ~known[db.ticks].ended
  BY <1>2, <1>3 DEF InTick
<1>5. /\ UNCHANGED <<game, current_tick_id, open, changes, known>>
      /\ last' = IF Differs(s) THEN [last EXCEPT ![s] = game.of[s]] ELSE last
  BY <1>b DEF Check
<1>6. about \in About /\ game.of[s] \in Values \cup {Unknown}
  BY <1>1 DEF RecorderTypeOK, About
<1>7. last' \in [Switches -> Values \cup {Unknown}]
  BY <1>2, <1>5, <1>6
<1>8. /\ game.of[s] # Unknown => last'[s] = game.of[s]
      /\ \A r \in Switches : r # s => last'[r] = last[r]
  BY <1>1, <1>2, <1>5 DEF Differs, KnownOk
<1>9. ASSUME db'.ticks = db.ticks, db'.agents = db.agents, file' = file,
             (Paired' /\ todo' = rest) \/ (Due' /\ todo' = <<"detail">> \o rest)
      PROVE  PlaceOk'
  <2>1. InTick(done \cup {s})'
    <3>1. ASSUME NEW r \in done \cup {s}, game.of[r] # Unknown PROVE last'[r] = game.of[r]
      BY <1>3, <1>8, <3>1 DEF InTick, Switches, done
    <3> QED BY <1>3, <1>4, <1>5, <1>9, <3>1 DEF InTick
  <2>2. CASE s = "map_switch"
    <3>1. done \cup {s} = {"map_switch"} /\ rest = FromScore
      BY <2>2 DEF done, rest
    <3> QED BY <1>9, <2>1, <3>1 DEF PlaceOk
  <2>3. CASE s = "score_switch"
    <3>1. done \cup {s} = {"map_switch", "score_switch"} /\ rest = FromFaction
      BY <2>3 DEF done, rest
    <3> QED BY <1>9, <2>1, <3>1 DEF PlaceOk
  <2>4. CASE s = "faction_switch"
    <3>1. done \cup {s} = Switches /\ rest = FromAgents
      BY <2>4 DEF done, rest, Switches
    <3> QED BY <1>9, <2>1, <3>1 DEF PlaceOk
  <2> QED BY <2>2, <2>3, <2>4 DEF Switches
<1>10. CASE ~Differs(s)
  <2>1. /\ todo' = rest /\ last' = last
        /\ UNCHANGED <<event_order_counter, event_id, db, file, faults, lost, met>>
    BY <1>3, <1>5, <1>10, <1>b DEF Check, OnTo
  <2>2. /\ LastOk' /\ NoneLater' /\ Sound(db)' /\ Sound(file)'
    BY <1>5, <2>1, NothingWritten
  <2>3. PlaceOk'
    <3>1. Paired' /\ db'.ticks = db.ticks /\ db'.agents = db.agents /\ file' = file /\ todo' = rest
      BY <1>3, <2>1 DEF Paired
    <3> QED BY <1>9, <3>1
  <2>4. RecorderTypeOK' /\ KnownOk' /\ (~open => file = db)'
    BY <1>1, <1>3, <1>5, <2>1 DEF RecorderTypeOK, KnownOk
  <2> QED BY <2>2, <2>3, <2>4 DEF RecorderInv
<1>11. CASE Differs(s) /\ Created(s, about) /\ todo' = <<"detail">> \o Tail(todo) /\ lost' = lost
  <2>1. /\ db' \in Tables /\ file' \in Tables /\ event_order_counter' \in Nat /\ event_id' \in Nat
        /\ faults' \in 0 .. MaxFaults /\ met' \in BOOLEAN
        /\ db'.ticks = db.ticks /\ db'.agents = db.agents
        /\ (~open => file = db)' /\ NoneLater' /\ Due' /\ Sound(db)' /\ Sound(file)'
    BY <1>3, <1>4, <1>5, <1>6, <1>11, CreatedSound
  <2>2. "detail" \in Steps
    BY DEF Steps
  <2>3. todo' \in Seq(Steps) /\ todo' = <<"detail">> \o rest
    BY <1>3, <1>11, <2>2, Prefixed
  <2> DEFINE e == [tick |-> current_tick_id, order |-> OrderOf, type |-> s, about |-> about]
  <2>4. file' = file /\ db' = [db EXCEPT !.events = Append(@, e)]
    BY <1>4, <1>11 DEF Created, Wrote
  <2>5. db'.events = Append(db.events, e) /\ e \in EventRow
    <3>1. current_tick_id \in 0 .. MaxTicks /\ OrderOf \in Nat
      BY <1>1 DEF OrderOf, RecorderTypeOK
    <3>2. e \in EventRow
      BY <1>6, <3>1 DEF EventRow
    <3>3. db'.events = Append(db.events, e)
      BY <1>2, <2>4 DEF Tables
    <3> QED BY <3>2, <3>3
  <2>6. e.tick = db.ticks /\ e.type = s /\ e.about.value = game.of[s]
    BY <1>1 DEF KnownOk
  <2> HIDE DEF e
  <2>7. LastOk'
    <3>1. SUFFICES ASSUME NEW r \in Switches, ~(r = "faction_switch" /\ lost)
                   PROVE  Says(Append(db.events, e), r, db.ticks, last'[r])
      BY <1>11, <2>1, <2>5 DEF LastOk, Says
    <3>2. CASE r = s
      <4>1. last'[r] = e.about.value
        BY <1>2, <1>5, <1>11, <2>6, <3>2
      <4>2. db.ticks \in Nat /\ e.tick <= db.ticks
        BY <1>2, <2>6
      <4> QED BY <1>2, <2>5, <2>6, <3>2, <4>1, <4>2, SaysNew
    <3>3. CASE r # s
      <4>1. Says(db.events, r, db.ticks, last'[r])
        BY <1>1, <1>8, <3>1, <3>3 DEF LastOk
      <4> QED BY <1>2, <2>5, <2>6, <3>3, <4>1, SaysKept
    <3> QED BY <3>2, <3>3
  <2>8. PlaceOk'
    BY <1>9, <2>1, <2>3, <2>4
  <2>9. RecorderTypeOK' /\ KnownOk'
    BY <1>1, <1>5, <1>7, <1>11, <2>1, <2>3 DEF RecorderTypeOK, KnownOk
  <2> QED BY <2>1, <2>7, <2>8, <2>9 DEF RecorderInv
<1>12. CASE /\ s = "faction_switch" /\ Differs(s) /\ Fault /\ lost' = TRUE /\ todo' = <<>>
            /\ UNCHANGED <<event_order_counter, event_id, db, file, met>>
  <2>1. Sound(db)' /\ Sound(file)'
    BY <1>2, <1>5, <1>12, DbKept, FileKept
  <2>2. NoneLater' /\ PlaceOk'
    BY <1>1, <1>3, <1>12 DEF NoneLater, PlaceOk, Paired
  <2>3. LastOk'
    <3>1. SUFFICES ASSUME NEW r \in Switches, r # "faction_switch"
                   PROVE  Says(db.events, r, db.ticks, last'[r])
      BY <1>12 DEF LastOk, Says
    <3> QED BY <1>1, <1>8, <1>12, <3>1 DEF LastOk
  <2>4. faults' \in 0 .. MaxFaults
    BY <1>1, <1>12, RecorderConstants DEF Fault, RecorderTypeOK
  <2>5. RecorderTypeOK' /\ KnownOk' /\ (~open => file = db)'
    BY <1>1, <1>5, <1>7, <1>12, <2>4 DEF RecorderTypeOK, KnownOk
  <2> QED BY <2>1, <2>2, <2>3, <2>5 DEF RecorderInv
<1> QED BY <1>b, <1>10, <1>11, <1>12 DEF Check, Raises

\* An event that is no switch, between two ticks.
LEMMA SpawnStep == ASSUME RecorderInv, Spawn PROVE RecorderInv'
<1> DEFINE about == [value |-> game.of["map_switch"], names |-> game.names]
           e == [tick |-> current_tick_id, order |-> OrderOf, type |-> "spawn", about |-> about]
<1>1. /\ RecorderTypeOK /\ KnownOk /\ LastOk /\ todo = OneEvent /\ Paired
  BY WhichPlace DEF RecorderInv, Spawn
<1>2. /\ UNCHANGED <<game, current_tick_id, last, open, changes, known, lost>>
      /\ todo' = OneDetail /\ Created("spawn", about)
  BY <1>1, Followers DEF Spawn, OnTo
<1>3. about \in About
  BY <1>1 DEF RecorderTypeOK, About, Switches
<1>4. /\ db' \in Tables /\ file' \in Tables /\ event_order_counter' \in Nat /\ event_id' \in Nat
      /\ faults' \in 0 .. MaxFaults /\ met' \in BOOLEAN
      /\ db'.ticks = db.ticks /\ db'.agents = db.agents
      /\ (~open => file = db)' /\ NoneLater' /\ Due' /\ Sound(db)' /\ Sound(file)'
  BY <1>1, <1>2, <1>3, CreatedSound
<1>5. /\ db \in Tables /\ db.events \in Seq(EventRow) /\ e \in EventRow /\ e.type = "spawn"
      /\ db.ticks \in Nat
  BY <1>1, <1>3, RecorderConstants DEF Tables, EventRow, About, OrderOf, RecorderTypeOK, KnownOk
<1>6. LastOk'
  <2>1. CASE db' = db
    BY <1>1, <1>2, <2>1 DEF LastOk, Says
  <2>2. CASE db' = [db EXCEPT !.events = Append(@, e)]
    <3>1. db'.events = Append(db.events, e)
      BY <1>5, <2>2 DEF Tables
    <3>2. SUFFICES ASSUME NEW s \in Switches, ~(s = "faction_switch" /\ lost)
                   PROVE  Says(Append(db.events, e), s, db.ticks, last[s])
      BY <1>2, <1>4, <3>1 DEF LastOk, Says
    <3>3. Says(db.events, s, db.ticks, last[s]) /\ e.type # s
      BY <1>1, <1>5, <3>2 DEF LastOk, Switches
    <3> HIDE DEF e
    <3> QED BY <1>5, <3>3, SaysKept
  <2> QED BY <1>2, <2>1, <2>2 DEF Created, Wrote
<1>7. PlaceOk'
  BY <1>2, <1>4 DEF PlaceOk
<1>8. RecorderTypeOK' /\ KnownOk'
  BY <1>1, <1>2, <1>4, Places DEF RecorderTypeOK, KnownOk
<1> QED BY <1>4, <1>6, <1>7, <1>8 DEF RecorderInv

\* The details of the last event.
LEMMA DetailStep == ASSUME RecorderInv, Detail PROVE RecorderInv'
<1> DEFINE new == [db EXCEPT !.details = Append(@, event_id)]
<1>1. /\ RecorderTypeOK /\ KnownOk /\ LastOk /\ NoneLater /\ Sound(db) /\ (~open => file = db)
      /\ Due
      /\ \/ todo = OneDetail
         \/ todo = <<"detail">> \o FromScore /\ InTick({"map_switch"})
         \/ todo = <<"detail">> \o FromFaction /\ InTick({"map_switch", "score_switch"})
         \/ todo = <<"detail">> \o FromAgents /\ InTick(Switches)
  BY WhichPlace DEF RecorderInv, Detail
<1>2. /\ UNCHANGED <<game, current_tick_id, event_order_counter, last, event_id, open,
                     changes, known, lost>>
      /\ todo' = Tail(todo) /\ Wrote(new)
  BY DEF Detail, OnTo, Detailed
<1>3. /\ db \in Tables /\ file \in Tables /\ db.events \in Seq(EventRow) /\ db.details \in Seq(Nat)
      /\ event_id \in Nat /\ db.ticks \in Nat /\ Len(db.events) \in Nat /\ Len(db.details) \in Nat
      /\ met \in BOOLEAN /\ faults \in 0 .. MaxFaults /\ MaxFaults \in Nat
  <2>1. /\ db \in Tables /\ file \in Tables /\ event_id \in Nat /\ met \in BOOLEAN
        /\ faults \in 0 .. MaxFaults
    BY <1>1 DEF RecorderTypeOK
  <2>2. db.events \in Seq(EventRow) /\ db.details \in Seq(Nat) /\ db.ticks \in 0 .. MaxTicks
    BY <2>1 DEF Tables, EventRow, About
  <2> QED BY <2>1, <2>2, RecorderConstants
<1>4. /\ new.ticks = db.ticks /\ new.events = db.events /\ new.agents = db.agents
      /\ new.details = Append(db.details, event_id) /\ new \in Tables
  <2>1. Append(db.details, event_id) \in Seq(Nat)
    BY <1>3
  <2> QED BY <1>3, <2>1 DEF Tables
<1>5. /\ Len(new.details) = Len(db.details) + 1
      /\ new.details[Len(db.details) + 1] = event_id
      /\ \A i \in 1 .. Len(db.details) : new.details[i] = db.details[i]
  BY <1>3, <1>4, Appended
<1> HIDE DEF new
<1>6. \/ db' = new /\ met' = met /\ faults' = faults /\ ((file' = file /\ open) \/ (file' = new /\ ~open))
      \/ db' = db /\ file' = file /\ met' /\ ~open /\ faults' = faults + 1 /\ faults < MaxFaults
  BY <1>2 DEF Wrote, Fault
<1>7. /\ db'.ticks = db.ticks /\ db'.events = db.events /\ db'.agents = db.agents
      /\ db' \in Tables /\ file' \in Tables /\ faults' \in 0 .. MaxFaults /\ met' \in BOOLEAN
  <2>1. met' \in BOOLEAN
    BY <1>2, <1>3 DEF Wrote
  <2> QED BY <1>3, <1>4, <1>6, <2>1
<1>8. Paired'
  BY <1>1, <1>4, <1>5, <1>6 DEF Due, Paired
<1>9. Sound(db)'
  <2>1. CASE db' = db
    BY <1>2, <1>6, <2>1, DbKept
  <2>2. CASE db' = new /\ met' = met
    <3>1. SwitchesOk(db)'
      <4>1. SUFFICES ASSUME NEW k \in 1 .. db.ticks, NEW s \in Switches
                     PROVE  Right(db.events, s, k)'
        BY <1>7 DEF SwitchesOk
      <4>2. Right(db.events, s, k)
        BY <1>1 DEF Sound, SwitchesOk
      <4> QED BY <1>2, <1>7, <4>2 DEF Right, Says
    <3>2. DetailsOk(new)
      <4>1. SUFFICES ASSUME ~met
                     PROVE  /\ \A i \in 1 .. Len(new.details) : new.details[i] = i
                            /\ Len(new.events) - Len(new.details) \in {0, 1}
        BY DEF DetailsOk
      <4>2. event_id = Len(db.details) + 1 /\ Len(db.events) = Len(db.details) + 1
            /\ \A i \in 1 .. Len(db.details) : db.details[i] = i
        BY <1>1, <4>1 DEF Due, Sound, DetailsOk
      <4> QED BY <1>3, <1>4, <1>5, <4>2
    <3> QED BY <1>1, <1>4, <2>2, <3>1, <3>2 DEF Sound, OrderOk, Later, AgentsOk, DetailsOk
  <2> QED BY <1>6, <2>1, <2>2
<1>10. Sound(file)'
  <2>1. CASE file' = file
    BY <1>2, <1>3, <1>6, <1>7, <2>1, FileKept
  <2>2. CASE file' = db'
    BY <1>9, <2>2, FileFollows
  <2> QED BY <1>6, <2>1, <2>2
<1>11. LastOk' /\ NoneLater'
  BY <1>1, <1>2, <1>7 DEF LastOk, Says, NoneLater
<1>12. (~open => file = db)'
  BY <1>1, <1>2, <1>6
<1>13. todo' \in Seq(Steps) /\ PlaceOk'
  <2>1. "detail" \in Steps
    BY DEF Steps
  <2>2. CASE todo = OneDetail
    <3>1. todo' = <<>>
      BY <1>2, <2>2, Followers
    <3> QED BY <1>8, <3>1 DEF PlaceOk
  <2>3. ASSUME NEW checked, InTick(checked), todo # OneDetail PROVE InTick(checked)'
    <3>1. open
      BY <2>3 DEF InTick
    <3>2. file' = file
      BY <1>6, <3>1
    <3> QED BY <1>2, <1>7, <2>3, <3>2 DEF InTick
  <2>4. CASE todo # OneDetail /\ todo = <<"detail">> \o FromScore /\ InTick({"map_switch"})
    <3>1. todo' = FromScore /\ FromScore \in Seq(Steps)
      BY <1>2, <2>1, <2>4, Prefixed, Places
    <3> QED BY <1>8, <2>3, <2>4, <3>1 DEF PlaceOk
  <2>5. CASE todo # OneDetail /\ todo = <<"detail">> \o FromFaction
               /\ InTick({"map_switch", "score_switch"})
    <3>1. todo' = FromFaction /\ FromFaction \in Seq(Steps)
      BY <1>2, <2>1, <2>5, Prefixed, Places
    <3> QED BY <1>8, <2>3, <2>5, <3>1 DEF PlaceOk
  <2>6. CASE todo # OneDetail /\ todo = <<"detail">> \o FromAgents /\ InTick(Switches)
    <3>1. todo' = FromAgents /\ FromAgents \in Seq(Steps)
      BY <1>2, <2>1, <2>6, Prefixed, Places
    <3> QED BY <1>8, <2>3, <2>6, <3>1 DEF PlaceOk
  <2> QED BY <1>1, <2>2, <2>4, <2>5, <2>6
<1>14. RecorderTypeOK' /\ KnownOk'
  BY <1>1, <1>2, <1>7, <1>13 DEF RecorderTypeOK, KnownOk
<1> QED BY <1>9, <1>10, <1>11, <1>12, <1>13, <1>14 DEF RecorderInv

\* The rows of the tick's agents; with them the tick has what it is to be known by.
LEMMA AgentsStep == ASSUME RecorderInv, Agents PROVE RecorderInv'
<1> DEFINE new == [db EXCEPT !.agents = Append(@, current_tick_id)]
           n == db.ticks
<1>1. /\ RecorderTypeOK /\ KnownOk /\ LastOk /\ NoneLater /\ Sound(db) /\ (~open => file = db)
      /\ todo = FromAgents /\ Paired /\ InTick(Switches)
  BY WhichPlace DEF RecorderInv, Agents
<1>2. /\ UNCHANGED <<game, current_tick_id, event_order_counter, last, event_id, file, open,
                     changes, lost, met>>
      /\ db' = new /\ known' = [known EXCEPT ![Len(known)].ended = (faults' = faults)]
      /\ \/ todo' = FromCommit /\ faults' = faults
         \/ todo' = <<>> /\ faults' = faults + 1 /\ faults < MaxFaults
  BY <1>1, Followers DEF Agents, OnTo, Raises, Fault
<1>3. /\ db \in Tables /\ file \in Tables /\ faults \in 0 .. MaxFaults /\ Len(known) = n
      /\ known \in Seq([of : [Switches -> Values \cup {Unknown}], names : 0 .. 1, ended : BOOLEAN])
      /\ current_tick_id = n /\ MaxFaults \in Nat /\ MaxTicks \in Nat
  BY <1>1, RecorderConstants DEF RecorderTypeOK, KnownOk
<1>4. /\ db.ticks \in 0 .. MaxTicks /\ file.ticks \in 0 .. MaxTicks
      /\ db.events \in Seq(EventRow) /\ db.agents \in Seq(0 .. MaxTicks)
  BY <1>3 DEF Tables, EventRow, About
<1>5. open /\ file.ticks < n /\ n \in 1 .. Len(known)
  BY <1>1, <1>3, <1>4 DEF InTick
<1>6. /\ new.ticks = n /\ new.events = db.events /\ new.details = db.details
      /\ new.agents = Append(db.agents, n) /\ new \in Tables
  <2>1. Append(db.agents, current_tick_id) \in Seq(0 .. MaxTicks)
    BY <1>3, <1>4
  <2> QED BY <1>3, <2>1 DEF Tables
<1>7. /\ Len(new.agents) = Len(db.agents) + 1 /\ new.agents[Len(db.agents) + 1] = n
      /\ \A i \in 1 .. Len(db.agents) : new.agents[i] = db.agents[i]
      /\ Len(db.agents) \in Nat
  BY <1>4, <1>6, Appended
<1> HIDE DEF new
<1>8. /\ known' \in Seq([of : [Switches -> Values \cup {Unknown}], names : 0 .. 1, ended : BOOLEAN])
      /\ Len(known') = n /\ known'[n].of = known[n].of
      /\ \A k \in 1 .. n : k # n => known'[k] = known[k]
  <2> DEFINE v == faults' = faults
             all == [of : [Switches -> Values \cup {Unknown}], names : 0 .. 1, ended : BOOLEAN]
             here == [known[n] EXCEPT !.ended = v]
  <2>1. v \in BOOLEAN
    OBVIOUS
  <2>2. known' = [known EXCEPT ![n] = here]
    BY <1>2, <1>3
  <2>3. known \in Seq(all) /\ known[n] \in all
    <3>1. known \in Seq(all)
      BY <1>3
    <3> HIDE DEF all
    <3> QED BY <1>5, <3>1
  <2> HIDE DEF v
  <2>4. here \in all /\ here.of = known[n].of
    BY <2>1, <2>3
  <2> HIDE DEF here, all
  <2> QED BY <1>3, <1>5, <2>2, <2>3, <2>4, Replaced DEF all
<1>9. faults' \in 0 .. MaxFaults
  BY <1>2, <1>3
<1>10. RecorderTypeOK'
  <2>1. todo' \in Seq(Steps)
    <3>1. <<>> \in Seq(Steps)
      OBVIOUS
    <3> QED BY <1>2, <3>1, Places
  <2>2. Len(known') = db'.ticks
    BY <1>2, <1>6, <1>8
  <2>3. db' \in Tables /\ file' \in Tables
    BY <1>2, <1>3, <1>6
  <2>4. RecorderTypeOK
    BY <1>1
  <2> QED BY <1>2, <1>9, <2>1, <2>2, <2>3, <2>4 DEF RecorderTypeOK
<1>11. KnownOk'
  BY <1>1, <1>2, <1>6, <1>8 DEF KnownOk
<1>12. PlaceOk'
  <2>1. Paired'
    BY <1>1, <1>2, <1>6 DEF Paired
  <2>2. open' /\ (file.ticks < db.ticks)'
    BY <1>2, <1>5, <1>6
  <2> QED BY <1>2, <2>1, <2>2 DEF PlaceOk
<1>13. (~open => file = db)'
  BY <1>2, <1>5
<1>14. LastOk'
  BY <1>1, <1>2, <1>6 DEF LastOk, Says
<1>15. NoneLater'
  <2>1. \A i \in 1 .. Len(new.agents) : new.agents[i] <= n
    <3>1. SUFFICES ASSUME NEW i \in 1 .. Len(new.agents) PROVE new.agents[i] <= n
      OBVIOUS
    <3>2. CASE i = Len(db.agents) + 1
      BY <1>4, <1>7, <3>2
    <3>3. CASE i # Len(db.agents) + 1
      <4>1. i \in 1 .. Len(db.agents)
        BY <1>7, <3>3
      <4> QED BY <1>1, <1>7, <4>1 DEF NoneLater
    <3> QED BY <3>2, <3>3
  <2> QED BY <1>1, <1>2, <1>6, <2>1 DEF NoneLater
<1>16. Sound(db)'
  <2>1. SwitchesOk(db)'
    <3>1. SUFFICES ASSUME NEW k \in 1 .. n, NEW s \in Switches
                   PROVE  Right(db.events, s, k)'
      BY <1>2, <1>6 DEF SwitchesOk
    <3>2. CASE k # n
      <4>1. Right(db.events, s, k) /\ known'[k] = known[k]
        BY <1>1, <1>8, <3>2 DEF Sound, SwitchesOk
      <4> QED BY <1>2, <1>6, <4>1 DEF Right, Says
    <3>3. CASE k = n
      <4>1. SUFFICES ASSUME known'[n].of[s] # Unknown, ~(s = "faction_switch" /\ lost)
                     PROVE  Says(db.events, s, n, known'[n].of[s])
        BY <1>2, <1>6, <3>3 DEF Right, Says
      <4>2. known'[n].of[s] = last[s]
        BY <1>1, <1>8, <4>1 DEF InTick
      <4> QED BY <1>1, <4>1, <4>2 DEF LastOk
    <3> QED BY <3>2, <3>3
  <2>2. AgentsOk(new)
    <3>1. SUFFICES ASSUME NEW i \in 1 .. Len(new.agents) - 1
                   PROVE  new.agents[i] < new.agents[i + 1]
      BY DEF AgentsOk
    <3>2. i \in 1 .. Len(db.agents) /\ new.agents[i] = db.agents[i]
      BY <1>7
    <3>3. CASE i = Len(db.agents)
      BY <1>1, <1>7, <3>2, <3>3 DEF InTick
    <3>4. CASE i # Len(db.agents)
      <4>1. i \in 1 .. Len(db.agents) - 1 /\ new.agents[i + 1] = db.agents[i + 1]
        BY <1>7, <3>2, <3>4
      <4> QED BY <1>1, <3>2, <4>1 DEF Sound, AgentsOk
    <3> QED BY <3>3, <3>4
  <2> QED BY <1>1, <1>2, <1>6, <2>1, <2>2 DEF Sound, OrderOk, Later, AgentsOk, DetailsOk
<1>17. Sound(file)'
  <2>1. \A k \in 1 .. file.ticks : known'[k] = known[k]
    BY <1>4, <1>5, <1>8
  <2> QED BY <1>2, <1>4, <1>6, <2>1, FileKept
<1> QED BY <1>10, <1>11, <1>12, <1>13, <1>14, <1>15, <1>16, <1>17 DEF RecorderInv

\* The end of a tick: what the recorder sees is in the file, or a reader refuses it.
LEMMA CommitStep == ASSUME RecorderInv, CommitTick PROVE RecorderInv'
<1>1. /\ RecorderTypeOK /\ KnownOk /\ LastOk /\ NoneLater /\ (~open => file = db)
      /\ todo = FromCommit /\ Paired /\ open
  BY WhichPlace DEF RecorderInv, CommitTick
<1>2. /\ UNCHANGED <<game, current_tick_id, event_order_counter, last, event_id, db,
                     changes, known, lost, met>>
      /\ todo' = <<>>
      /\ \/ open' = FALSE /\ file' = db /\ faults' = faults
         \/ open' = open /\ file' = file /\ faults' = faults + 1 /\ faults < MaxFaults
  BY <1>1, Followers DEF CommitTick, OnTo, Fault
<1>3. RecorderTypeOK' /\ KnownOk' /\ (~open => file = db)'
  <2>1. RecorderTypeOK
    BY <1>1
  <2>2. faults' \in 0 .. MaxFaults /\ <<>> \in Seq(Steps)
    BY <1>2, <2>1, RecorderConstants DEF RecorderTypeOK
  <2>3. open' \in BOOLEAN /\ file' \in Tables
    BY <1>2, <2>1 DEF RecorderTypeOK
  <2>4. RecorderTypeOK'
    BY <1>2, <2>1, <2>2, <2>3 DEF RecorderTypeOK
  <2>5. KnownOk' /\ (~open => file = db)'
    BY <1>1, <1>2 DEF KnownOk
  <2> QED BY <2>4, <2>5
<1>4. PlaceOk' /\ LastOk' /\ NoneLater'
  BY <1>1, <1>2 DEF PlaceOk, Paired, LastOk, Says, NoneLater
<1>5. Sound(db)'
  BY <1>2, DbKept
<1>6. Sound(file)'
  <2>1. CASE file' = file
    <3>1. db.ticks \in Nat
      BY <1>1, RecorderConstants DEF RecorderTypeOK, Tables
    <3> QED BY <1>2, <2>1, <3>1, FileKept
  <2>2. CASE file' = db'
    BY <1>5, <2>2, FileFollows
  <2> QED BY <1>2, <2>1, <2>2
<1> QED BY <1>3, <1>4, <1>5, <1>6 DEF RecorderInv

-----------------------------------------------------------------------------
(* The invariant.                                                          *)

LEMMA RecorderInvInit == RecorderInit => RecorderInv
<1> SUFFICES ASSUME RecorderInit PROVE RecorderInv
  OBVIOUS
<1>1. /\ db = [ticks |-> 0, events |-> <<>>, details |-> <<>>, agents |-> <<>>]
      /\ file = db /\ known = <<>> /\ todo = <<>> /\ open = FALSE /\ lost = FALSE /\ met = FALSE
      /\ current_tick_id = 0 /\ event_order_counter = 0 /\ event_id = 0
      /\ changes = 0 /\ faults = 0 /\ last = [s \in Switches |-> Unknown]
      /\ game = [of |-> [s \in Switches |-> CHOOSE v \in Values : TRUE], names |-> 0]
  BY DEF RecorderInit
<1>2. db.ticks = 0 /\ db.events = <<>> /\ db.details = <<>> /\ db.agents = <<>>
  BY <1>1
<1>3. \A s \in Switches : game.of[s] \in Values
  BY <1>1, RecorderConstants
<1>4. RecorderTypeOK /\ KnownOk
  <2>1. game \in [of : [Switches -> Values \cup {Unknown}], names : 0 .. 1]
    BY <1>1, RecorderConstants
  <2>2. db \in Tables
    BY <1>1, RecorderConstants DEF Tables
  <2>3. /\ \A s \in Switches \ {"map_switch"} : game.of[s] # Unknown
        /\ changes \in 0 .. MaxChanges /\ faults \in 0 .. MaxFaults
        /\ current_tick_id \in 0 .. MaxTicks
    BY <1>1, <1>3, RecorderConstants
  <2>4. /\ todo \in Seq(Steps) /\ last \in [Switches -> Values \cup {Unknown}]
        /\ event_order_counter \in Nat /\ event_id \in Nat /\ {open, lost, met} \subseteq BOOLEAN
        /\ file \in Tables /\ Len(known) = db.ticks
    <3>1. \A S : <<>> \in Seq(S)
      OBVIOUS
    <3>2. todo \in Seq(Steps) /\ {open, lost, met} \subseteq BOOLEAN
      BY <1>1, <3>1
    <3>3. last \in [Switches -> Values \cup {Unknown}]
      BY <1>1
    <3>4. file \in Tables /\ Len(known) = db.ticks
      BY <1>1, <1>2, <2>2
    <3> QED BY <1>1, <3>2, <3>3, <3>4
  <2>5. RecorderTypeOK
    BY <2>1, <2>2, <2>3, <2>4 DEF RecorderTypeOK
  <2>6. known \in Seq([of : [Switches -> Values \cup {Unknown}], names : 0 .. 1, ended : BOOLEAN])
        /\ current_tick_id = db.ticks
    BY <1>1, <1>2
  <2> QED BY <2>3, <2>5, <2>6 DEF KnownOk
<1>5. PlaceOk /\ NoneLater
  BY <1>1, <1>2 DEF PlaceOk, Paired, NoneLater
<1>6. LastOk
  BY <1>1, <1>2 DEF LastOk, Says
<1>7. Sound(db)
  BY <1>1, <1>2 DEF Sound, SwitchesOk, OrderOk, AgentsOk, DetailsOk
<1> QED BY <1>1, <1>4, <1>5, <1>6, <1>7 DEF RecorderInv

LEMMA RecorderInvStep == RecorderInv /\ [RecorderNext]_recorderVars => RecorderInv'
<1> SUFFICES ASSUME RecorderInv, [RecorderNext]_recorderVars PROVE RecorderInv'
  OBVIOUS
<1>1. CASE Change \/ OnSpawn \/ Tick \/ Begin
  BY <1>1, QuietSteps
<1>2. CASE NewTick
  BY <1>2, NewTickStep
<1>3. CASE \E s \in Switches : Check(s)
  BY <1>3, CheckStep
<1>4. CASE Spawn
  BY <1>4, SpawnStep
<1>5. CASE Detail
  BY <1>5, DetailStep
<1>6. CASE Agents
  BY <1>6, AgentsStep
<1>7. CASE CommitTick
  BY <1>7, CommitStep
<1>8. CASE UNCHANGED recorderVars
  <2>1. /\ LastOk' /\ NoneLater' /\ Sound(db)' /\ Sound(file)'
    BY <1>8, NothingWritten DEF recorderVars, lua, store
  <2>2. RecorderTypeOK' /\ KnownOk' /\ PlaceOk' /\ (~open => file = db)'
    BY <1>8 DEF recorderVars, lua, store, RecorderInv, RecorderTypeOK, KnownOk, PlaceOk,
                Paired, Due, InTick
  <2> QED BY <2>1, <2>2 DEF RecorderInv
<1> QED BY <1>1, <1>2, <1>3, <1>4, <1>5, <1>6, <1>7, <1>8 DEF RecorderNext, Step

\* What is left of a handler that is past the beginning of a tick's transaction
\* has the commit at its end.
LEMMA RecorderInvEnough == RecorderInv => RecordingIsSound
<1> SUFFICES ASSUME RecorderInv PROVE RecordingIsSound
  OBVIOUS
<1>1. /\ RecorderTypeOK /\ KnownOk /\ PlaceOk /\ Sound(file)
      /\ MaxTicks \in Nat
  BY RecorderConstants DEF RecorderInv
<1>2. file \in Tables /\ file.events \in Seq(EventRow) /\ file.ticks \in Nat /\ file.details \in Seq(Nat)
      /\ file.agents \in Seq(0 .. MaxTicks)
  BY <1>1 DEF RecorderTypeOK, Tables, EventRow, About
<1>3. SwitchesAreKnown
  <2>1. SUFFICES ASSUME NEW k \in 1 .. file.ticks, NEW s \in Switches,
                        known[k].ended, known[k].of[s] # Unknown, ~(s = "faction_switch" /\ lost)
                 PROVE  Recorded(file, s, k).value = known[k].of[s]
    BY DEF SwitchesAreKnown
  <2>2. Says(file.events, s, k, known[k].of[s]) /\ k \in Nat
    BY <1>1, <1>2, <2>1 DEF Sound, SwitchesOk, Right
  <2> QED BY <1>2, <2>2, SaysRecorded
<1>4. TickIsAtomic
  <2>1. CASE file.ticks < db.ticks
    BY <2>1 DEF TickIsAtomic
  <2>2. CASE todo \in {<<>>, OneEvent, OneDetail, FromBegin, FromTick}
    <3>1. CASE todo \in {<<>>, OneDetail}
      BY <3>1 DEF TickIsAtomic, OneDetail
    <3>2. CASE todo = OneEvent
      BY <3>2 DEF TickIsAtomic, OneEvent
    <3>3. CASE todo \in {FromBegin, FromTick}
      BY <3>3, Places DEF TickIsAtomic
    <3> QED BY <2>2, <3>1, <3>2, <3>3
  <2> QED BY <1>1, <2>1, <2>2 DEF PlaceOk, InTick
<1>5. EventsInOrder /\ AgentsInTickOrder
  BY <1>1 DEF Sound, OrderOk, AgentsOk, Later, EventsInOrder, AgentsInTickOrder
<1>6. DetailsFit
  <2>1. SUFFICES ASSUME ~met
                 PROVE  /\ file.details = [i \in 1 .. Len(file.details) |-> i]
                        /\ Len(file.events) - Len(file.details) \in {0, 1}
    BY DEF DetailsFit
  <2>2. \A i \in 1 .. Len(file.details) : file.details[i] = i
    BY <1>1, <2>1 DEF Sound, DetailsOk
  <2>3. file.details = [i \in 1 .. Len(file.details) |-> i]
    <3> DEFINE details == file.details
    <3>1. details \in Seq(Nat) /\ \A i \in 1 .. Len(details) : details[i] = i
      BY <1>2, <2>2
    <3> HIDE DEF details
    <3>2. details = [i \in 1 .. Len(details) |-> i]
      BY <3>1
    <3> QED BY <3>2 DEF details
  <2> QED BY <1>1, <2>1, <2>3 DEF Sound, DetailsOk
<1> QED BY <1>1, <1>3, <1>4, <1>5, <1>6 DEF RecordingIsSound

\* Whatever the game raises and whenever a reader is met, the file has what
\* happened in its order, a tick whole or not at all.
THEOREM RecordingsAreSound == RecorderSpec => []RecordingIsSound
<1>1. RecorderInit => RecorderInv
  BY RecorderInvInit
<1>2. RecorderInv /\ [RecorderNext]_recorderVars => RecorderInv'
  BY RecorderInvStep
<1>3. RecorderInv => RecordingIsSound
  BY RecorderInvEnough
<1> QED BY <1>1, <1>2, <1>3, PTL DEF RecorderSpec

-----------------------------------------------------------------------------
(* Segmentation.                                                           *)

Boundaries == {Boundary(i) : i \in DOMAIN replay.events}

\* The first tick no span has claimed.
Free == IF spans = <<>> THEN 0 ELSE Last(spans).last + 1

Spans    == [first : Nat, last : Nat]
Factions == {FactionAt(t) : t \in Nat}

Shape ==
    /\ replay \in Replays
    /\ phase \in {"merge", "segment", "tail", "load", "done"}
    /\ row \in Nat \ {0}
    /\ merged \in Seq(0 .. replay.last)
    /\ spans \in Seq(Spans)
    /\ matches \in Seq([span : Spans, faction : Factions])

\* The boundaries kept are further apart than the window.
Apart(kept) ==
    \A k \in DOMAIN kept : k > 1 => kept[k - 1] + MergeWindow < kept[k]

\* What merge_fold does with one boundary.
Merged(kept, b) ==
    \/ \E k \in DOMAIN kept : kept[k] = b
    \/ \E k \in DOMAIN kept : kept[k] < b /\ b <= kept[k] + MergeWindow
    \/ b < SkipFirst

MergeOk ==
    /\ Apart(merged)
    /\ \A j \in DOMAIN replay.events : phase # "merge" \/ j < row => Merged(merged, Boundary(j))
    /\ phase = "merge" =>
         /\ row <= Len(replay.events) + 1
         /\ merged # <<>> /\ row <= Len(replay.events) => Last(merged) < Boundary(row)
         /\ spans = <<>>

\* What seg_fold does with a boundary that was kept.
Segmented(found, b) == b < MinMatchGap \/ \E i \in DOMAIN found : found[i].last = b

SpansOk ==
    \A i \in DOMAIN spans :
        /\ spans[i].first = IF i = 1 THEN 0 ELSE spans[i - 1].last + 1
        /\ spans[i].first < spans[i].last /\ spans[i].last <= replay.last
        /\ spans[i].last - spans[i].first >=
               IF spans[i].last = replay.last THEN MinTailGap ELSE MinMatchGap

SegmentOk ==
    /\ start \in 0 .. replay.last + 1
    /\ phase \in {"merge", "segment", "tail"} => start = Free
    /\ phase \in {"load", "done"} => replay.last - Free < MinTailGap
    /\ \A k \in DOMAIN merged :
         phase \in {"tail", "load", "done"} \/ (phase = "segment" /\ k < row) =>
             Segmented(spans, merged[k])
    /\ phase = "segment" =>
         /\ row <= Len(merged) + 1
         /\ row <= Len(merged) => start = 0 \/ start + MergeWindow <= merged[row]

Least(m, n) == IF m < n THEN m ELSE n

LoadOk ==
    /\ phase \notin {"load", "done"} => matches = <<>>
    /\ phase = "load" => /\ row <= Len(spans) + 1
                         /\ Len(matches) = Least(MaxMatches, row - 1)
    /\ phase = "done" => Len(matches) = Least(MaxMatches, Len(spans))
    /\ \A i \in DOMAIN matches : i <= Len(spans) /\ matches[i].span = spans[i]

IInv == Shape /\ MergeOk /\ SpansOk /\ SegmentOk /\ LoadOk

-----------------------------------------------------------------------------
LEMMA EventFacts ==
    ASSUME replay \in Replays
    PROVE  /\ replay.last \in Nat /\ Len(replay.events) \in Nat
           /\ DOMAIN replay.events = 1 .. Len(replay.events)
           /\ \A i \in 1 .. Len(replay.events) : Boundary(i) \in 0 .. replay.last
           /\ \A i \in 1 .. Len(replay.events) : i > 1 => Boundary(i - 1) < Boundary(i)
<1> DEFINE Event == [tick : 0 .. replay.last, kind : Kinds]
<1>1. replay.last \in Nat /\ replay.events \in Seq(Event)
  BY SegmentationConstants, Zenon
<1>2. \A i \in DOMAIN replay.events : i > 1 => replay.events[i - 1].tick < replay.events[i].tick
  BY SegmentationConstants, Zenon
<1> HIDE DEF Event
<1>3. /\ Len(replay.events) \in Nat /\ DOMAIN replay.events = 1 .. Len(replay.events)
      /\ \A i \in 1 .. Len(replay.events) : replay.events[i] \in Event
  BY <1>1, ElementOfSeq, LenProperties
<1> QED
  BY <1>1, <1>2, <1>3 DEF Boundary, Event

LEMMA ThresholdFacts ==
    /\ SkipFirst \in Nat /\ MergeWindow \in Nat /\ MinMatchGap \in Nat
    /\ MinTailGap \in Nat \ {0} /\ MaxMatches \in Nat \ {0}
    /\ MinTailGap <= MinMatchGap /\ MinMatchGap <= MergeWindow
BY SegmentationConstants

\* The last of a sequence that grew, and the rest of it.
LEMMA Grown ==
    ASSUME NEW S, NEW s \in Seq(S), NEW x \in S
    PROVE  /\ Append(s, x) \in Seq(S) /\ Append(s, x) # <<>>
           /\ Len(Append(s, x)) = Len(s) + 1 /\ Len(s) \in Nat
           /\ DOMAIN Append(s, x) = 1 .. Len(s) + 1 /\ DOMAIN s = 1 .. Len(s)
           /\ \A i \in 1 .. Len(s) : Append(s, x)[i] = s[i]
           /\ Append(s, x)[Len(s) + 1] = x
           /\ Last(Append(s, x)) = x
BY DEF Last

LEMMA LastOf ==
    ASSUME NEW S, NEW s \in Seq(S), s # <<>>
    PROVE  /\ Last(s) = s[Len(s)] /\ Len(s) \in DOMAIN s /\ Last(s) \in S
           /\ Len(s) \in Nat \ {0}
BY DEF Last

-----------------------------------------------------------------------------
\* The factions a battle may be labelled with are the replay's.
LEMMA FactionsKept ==
    ASSUME replay' = replay
    PROVE  Factions' = Factions
  BY DEF Factions, FactionAt, Boundary

LEMMA MergeKeeps ==
    ASSUME IInv, Merge
    PROVE  IInv'
<1> DEFINE b == Boundary(row)
<1>1. /\ Shape /\ phase = "merge" /\ MergeOk /\ SpansOk /\ SegmentOk /\ LoadOk
      /\ replay' = replay /\ start' = start /\ spans' = spans /\ matches' = matches
      /\ spans = <<>> /\ start = 0 /\ matches = <<>>
  BY DEF IInv, MergeOk, SegmentOk, LoadOk, Merge, Free
<1>2. /\ replay.last \in Nat /\ Len(replay.events) \in Nat
      /\ DOMAIN replay.events = 1 .. Len(replay.events)
      /\ \A i \in 1 .. Len(replay.events) : Boundary(i) \in 0 .. replay.last
      /\ \A i \in 1 .. Len(replay.events) : i > 1 => Boundary(i - 1) < Boundary(i)
  BY <1>1, EventFacts DEF Shape
<1>3. \A i \in 1 .. Len(replay.events) : Boundary(i)' = Boundary(i)
  BY <1>1 DEF Boundary
<1>4. CASE row > Len(replay.events)
  <2>1. merged' = merged /\ phase' = "segment" /\ row' = 1
    BY <1>4 DEF Merge, Turn
  <2>2. Shape'
    BY <1>1, <2>1, FactionsKept DEF Shape
  <2>3. \A j \in 1 .. Len(replay.events) : Merged(merged, Boundary(j))
    <3>1. row \in Nat
      BY <1>1 DEF Shape
    <3>2. \A j \in 1 .. Len(replay.events) : j < row
      BY <1>2, <1>4, <3>1
    <3> QED
      BY <1>1, <3>2 DEF MergeOk
  <2>4. MergeOk'
    BY <1>1, <1>2, <1>3, <2>1, <2>3 DEF MergeOk
  <2>5. SpansOk' /\ LoadOk'
    BY <1>1, <2>1 DEF SpansOk, LoadOk
  <2>6. SegmentOk'
    BY <1>1, <1>2, <2>1 DEF SegmentOk, Free, Shape
  <2> QED
    BY <2>2, <2>4, <2>5, <2>6 DEF IInv
<1>5. CASE row <= Len(replay.events) /\ Keeps(b)
  <2>1. merged' = Append(merged, b) /\ phase' = phase /\ row' = row + 1
    BY <1>1, <1>2, <1>5 DEF Merge, Shape
  <2>2. b \in 0 .. replay.last /\ row \in 1 .. Len(replay.events) /\ merged \in Seq(0 .. replay.last)
    BY <1>1, <1>2, <1>5 DEF Shape
  <2> DEFINE m == Append(merged, b)
             n == Len(merged)
  <2>3. /\ m \in Seq(0 .. replay.last) /\ m # <<>> /\ n \in Nat
        /\ DOMAIN m = 1 .. n + 1 /\ DOMAIN merged = 1 .. n
        /\ \A i \in 1 .. n : m[i] = merged[i]
        /\ m[n + 1] = b /\ Last(m) = b
    <3> DEFINE S == 0 .. replay.last
    <3>1. b \in S /\ merged \in Seq(S)
      BY <2>2
    <3> HIDE DEF b, S
    <3>2. m \in Seq(S) /\ m # <<>> /\ Len(m) = n + 1 /\ n \in Nat /\ Last(m) = b
      BY <3>1, Grown
    <3>3. DOMAIN m = 1 .. n + 1 /\ DOMAIN merged = 1 .. n /\ m[n + 1] = b
      BY <3>1, Grown
    <3>4. \A i \in 1 .. n : m[i] = merged[i]
      BY <3>1, Grown
    <3> QED
      BY <3>2, <3>3, <3>4 DEF S
  <2>4. merged # <<>> => merged[n] + MergeWindow < b
    BY <1>5, <2>2, LastOf, ThresholdFacts DEF Keeps
  <2> HIDE DEF m, n
  <2>5. Shape'
    BY <1>1, <2>1, <2>2, <2>3, FactionsKept DEF m, Shape
  <2>6. Apart(m)
    <3>1. ASSUME NEW k \in 1 .. n + 1, k > 1 PROVE m[k - 1] + MergeWindow < m[k]
      <4>1. CASE k \in 1 .. n
        <5>1. k - 1 \in 1 .. n
          BY <2>3, <3>1, <4>1
        <5>2. k \in DOMAIN merged /\ Apart(merged)
          BY <1>1, <2>3, <4>1 DEF MergeOk
        <5>3. merged[k - 1] + MergeWindow < merged[k]
          BY <3>1, <5>2 DEF Apart
        <5> QED
          BY <2>3, <4>1, <5>1, <5>3
      <4>2. CASE k = n + 1
        BY <2>2, <2>3, <2>4, <3>1, <4>2
      <4> QED
        BY <2>3, <4>1, <4>2
    <3> QED
      BY <2>3, <3>1 DEF Apart
  <2>7. ASSUME NEW j \in 1 .. row PROVE Merged(m, Boundary(j))
    <3>1. CASE j < row
      <4>0. j \in DOMAIN replay.events
        BY <2>2, <3>1
      <4>1. Merged(merged, Boundary(j))
        BY <1>1, <3>1, <4>0 DEF MergeOk
      <4> QED
        BY <2>3, <4>1 DEF Merged
    <3>2. CASE j = row
      BY <2>3, <3>2 DEF Merged
    <3> QED
      BY <2>2, <3>1, <3>2
  <2>8. row + 1 <= Len(replay.events) => b < Boundary(row + 1)
    BY <1>2, <2>2
  <2>9. MergeOk'
    BY <1>1, <1>2, <1>3, <2>1, <2>2, <2>3, <2>6, <2>7, <2>8 DEF MergeOk, m
  <2>10. SpansOk' /\ LoadOk'
    BY <1>1, <2>1 DEF SpansOk, LoadOk
  <2>11. SegmentOk'
    BY <1>1, <1>2, <2>1 DEF SegmentOk, Free
  <2> QED
    BY <2>5, <2>9, <2>10, <2>11 DEF IInv
<1>6. CASE row <= Len(replay.events) /\ ~Keeps(b)
  <2>1. merged' = merged /\ phase' = phase /\ row' = row + 1
    BY <1>1, <1>2, <1>6 DEF Merge, Shape
  <2>2. b \in 0 .. replay.last /\ row \in 1 .. Len(replay.events) /\ merged \in Seq(0 .. replay.last)
    BY <1>1, <1>2, <1>6 DEF Shape
  <2>3. merged # <<>> => /\ Last(merged) < b /\ Last(merged) \in 0 .. replay.last
                         /\ Last(merged) = merged[Len(merged)] /\ Len(merged) \in DOMAIN merged
    BY <1>1, <1>6, <2>2, LastOf DEF MergeOk
  <2>4. Merged(merged, b)
    BY <1>6, <2>2, <2>3, ThresholdFacts DEF Keeps, Merged
  <2>5. Shape'
    BY <1>1, <2>1, FactionsKept DEF Shape
  <2>6. \A j \in 1 .. row : Merged(merged, Boundary(j))
    <3>1. \A j \in 1 .. Len(replay.events) : j < row => Merged(merged, Boundary(j))
      BY <1>1, <1>2 DEF MergeOk
    <3>2. \A j \in 1 .. row : j \in 1 .. Len(replay.events) /\ (j < row \/ j = row)
      BY <2>2
    <3> QED
      BY <2>4, <3>1, <3>2
  <2>7. row + 1 <= Len(replay.events) => b < Boundary(row + 1) /\ Boundary(row + 1) \in Nat
    BY <1>2, <2>2
  <2>8. MergeOk'
    <3>1. Apart(merged)' /\ spans' = <<>> /\ phase' = "merge"
      BY <1>1, <1>3, <2>1 DEF MergeOk, Apart
    <3>2. \A j \in DOMAIN replay'.events :
             phase' # "merge" \/ j < row' => Merged(merged', Boundary(j)')
      <4>1. \A j \in 1 .. Len(replay.events) : j < row + 1 => j \in 1 .. row
        BY <2>2
      <4>2. replay' = replay /\ DOMAIN replay.events = 1 .. Len(replay.events)
        BY <1>1, <1>2
      <4> QED
        BY <2>1, <2>6, <3>1, <4>1, <4>2 DEF Boundary, Merged
    <3>3. row' <= Len(replay'.events) + 1
      BY <1>1, <1>2, <2>1, <2>2
    <3>4. merged' # <<>> /\ row' <= Len(replay'.events) => Last(merged') < Boundary(row)'
      <4>1. Boundary(row)' = Boundary(row + 1) /\ merged' = merged
            /\ Len(replay'.events) = Len(replay.events)
        BY <1>1, <2>1 DEF Boundary
      <4>2. b \in Nat
        BY <1>2, <2>2
      <4> HIDE DEF b
      <4>3. merged # <<>> => Last(merged) < b /\ Last(merged) \in Nat
        BY <1>2, <2>3
      <4> QED
        BY <2>1, <2>7, <4>1, <4>2, <4>3
    <3> QED
      BY <3>1, <3>2, <3>3, <3>4 DEF MergeOk
  <2>9. SpansOk' /\ LoadOk'
    BY <1>1, <2>1 DEF SpansOk, LoadOk
  <2>10. SegmentOk'
    BY <1>1, <1>2, <2>1 DEF SegmentOk, Free
  <2> QED
    BY <2>5, <2>8, <2>9, <2>10 DEF IInv
<1> QED
  BY <1>1, <1>2, <1>4, <1>5, <1>6 DEF Shape

\* A span appended where the last one ends keeps the spans a tiling.
LEMMA SpanAppended ==
    ASSUME replay.last \in Nat, spans \in Seq(Spans), SpansOk,
           NEW b \in 0 .. replay.last, Free \in Nat,
           b - Free >= IF b = replay.last THEN MinTailGap ELSE MinMatchGap,
           spans' = Append(spans, Span(Free, b)), replay' = replay
    PROVE  /\ spans' \in Seq(Spans) /\ SpansOk' /\ Free' = b + 1
           /\ DOMAIN spans \subseteq DOMAIN spans'
           /\ \A i \in DOMAIN spans : spans'[i] = spans[i]
           /\ \E i \in DOMAIN spans' : spans'[i].last = b
<1> DEFINE s == Span(Free, b)
           n == Len(spans)
<1>1. s \in Spans /\ s.first = Free /\ s.last = b
  BY DEF Span, Spans
<1> HIDE DEF s
<1>2. spans' = Append(spans, s)
  BY DEF s
<1>3. /\ spans' \in Seq(Spans) /\ spans' # <<>> /\ n \in Nat /\ Last(spans') = s
      /\ DOMAIN spans' = 1 .. n + 1 /\ DOMAIN spans = 1 .. n
      /\ spans'[n + 1] = s
  BY <1>1, <1>2, Grown
<1>4. \A i \in 1 .. n : spans'[i] = spans[i]
  BY <1>1, <1>2, Grown
<1>5. spans # <<>> => Last(spans) = spans[n] /\ n \in Nat \ {0}
  BY LastOf
<1>6. spans = <<>> => n = 0
  OBVIOUS
<1> HIDE DEF n
<1>7. Free = IF n = 0 THEN 0 ELSE spans[n].last + 1
  BY <1>3, <1>5, <1>6 DEF Free
<1>8. ASSUME NEW i \in 1 .. n + 1
      PROVE  /\ spans'[i].first = IF i = 1 THEN 0 ELSE spans'[i - 1].last + 1
             /\ spans'[i].first < spans'[i].last /\ spans'[i].last <= replay.last
             /\ spans'[i].last - spans'[i].first >=
                    IF spans'[i].last = replay.last THEN MinTailGap ELSE MinMatchGap
  <2>1. CASE i \in 1 .. n
    <3>1. i # 1 => i - 1 \in 1 .. n
      BY <1>3, <2>1
    <3> QED
      BY <1>3, <1>4, <2>1, <3>1 DEF SpansOk
  <2>2. CASE i = n + 1
    <3>1. i # 1 => i - 1 = n /\ n \in 1 .. n
      BY <1>3, <2>2
    <3>2. i = 1 <=> n = 0
      BY <1>3, <2>2
    <3>3. spans'[i] = s /\ (i # 1 => spans'[i - 1] = spans[n])
      BY <1>3, <1>4, <2>2, <3>1
    <3>4. s.first = IF i = 1 THEN 0 ELSE spans'[i - 1].last + 1
      BY <1>1, <1>7, <3>2, <3>3
    <3>5. b - Free > 0 /\ Free < b
      BY ThresholdFacts
    <3>6. s.last - s.first >= IF s.last = replay.last THEN MinTailGap ELSE MinMatchGap
      BY <1>1
    <3>7. s.first < s.last /\ s.last <= replay.last
      BY <1>1, <3>5
    <3> QED
      BY <3>3, <3>4, <3>6, <3>7
  <2> QED
    BY <1>3, <2>1, <2>2
<1>9. SpansOk'
  BY <1>3, <1>8 DEF SpansOk
<1>10. Free' = b + 1
  BY <1>1, <1>3 DEF Free
<1>11. n + 1 \in DOMAIN spans' /\ spans'[n + 1].last = b
  BY <1>1, <1>3
<1>12. DOMAIN spans \subseteq DOMAIN spans'
  BY <1>3
<1>13. \A i \in DOMAIN spans : spans'[i] = spans[i]
  BY <1>3, <1>4
<1> QED
  BY <1>3, <1>9, <1>10, <1>11, <1>12, <1>13

LEMMA SegmentKeeps ==
    ASSUME IInv, Segment
    PROVE  IInv'
<1> DEFINE b == merged[row]
<1>1. /\ Shape /\ phase = "segment" /\ MergeOk /\ SpansOk /\ SegmentOk /\ LoadOk
      /\ replay' = replay /\ merged' = merged /\ matches' = matches
      /\ matches = <<>> /\ start = Free
  BY DEF IInv, SegmentOk, LoadOk, Segment
<1>2. /\ replay.last \in Nat /\ row \in Nat \ {0}
      /\ Len(merged) \in Nat /\ DOMAIN merged = 1 .. Len(merged)
      /\ \A k \in 1 .. Len(merged) : merged[k] \in 0 .. replay.last
      /\ start \in 0 .. replay.last + 1
  <2>1. replay.last \in Nat /\ row \in Nat \ {0} /\ merged \in Seq(0 .. replay.last)
    BY <1>1, EventFacts DEF Shape
  <2> QED
    BY <1>1, <2>1 DEF SegmentOk
<1>3. /\ row <= Len(merged) => start = 0 \/ start + MergeWindow <= merged[row]
      /\ row + 1 <= Len(merged) => merged[row] + MergeWindow < merged[row + 1]
      /\ row <= Len(merged) + 1
  <2>1. \A k \in 1 .. Len(merged) : k > 1 => merged[k - 1] + MergeWindow < merged[k]
    BY <1>1, <1>2 DEF MergeOk, Apart
  <2>2. row + 1 <= Len(merged) => merged[row + 1 - 1] + MergeWindow < merged[row + 1]
    BY <1>2, <2>1
  <2> QED
    BY <1>1, <1>2, <2>2 DEF SegmentOk
<1>4. ASSUME phase' # "merge" PROVE MergeOk'
  BY <1>1, <1>4 DEF MergeOk, Boundary
<1>5. \A k \in 1 .. Len(merged) : k < row => Segmented(spans, merged[k])
  BY <1>1, <1>2 DEF SegmentOk
<1>6. CASE row > Len(merged)
  <2>1. phase' = "tail" /\ row' = 1 /\ start' = start /\ spans' = spans
    BY <1>6 DEF Segment, Turn
  <2>2. Shape'
    BY <1>1, <2>1, FactionsKept DEF Shape
  <2>3. SpansOk' /\ LoadOk' /\ MergeOk'
    BY <1>1, <1>4, <2>1 DEF SpansOk, LoadOk
  <2>4. \A k \in 1 .. Len(merged) : Segmented(spans, merged[k])
    BY <1>2, <1>5, <1>6
  <2>5. SegmentOk'
    BY <1>1, <1>2, <2>1, <2>4 DEF SegmentOk, Free
  <2> QED
    BY <2>2, <2>3, <2>5 DEF IInv
<1>7. CASE row <= Len(merged) /\ Accepts(b)
  <2>1. /\ phase' = phase /\ row' = row + 1
        /\ spans' = Append(spans, Span(start, b)) /\ start' = b + 1
    BY <1>2, <1>7 DEF Segment, NextStart
  <2>2. /\ b \in 0 .. replay.last /\ b - start >= MinMatchGap
        /\ row \in 1 .. Len(merged)
    BY <1>2, <1>7 DEF Accepts
  <2>3. b - Free >= IF b = replay.last THEN MinTailGap ELSE MinMatchGap
    BY <1>1, <1>2, <2>2, ThresholdFacts
  <2>4. /\ spans' \in Seq(Spans) /\ SpansOk' /\ Free' = b + 1
        /\ DOMAIN spans \subseteq DOMAIN spans'
        /\ \A i \in DOMAIN spans : spans'[i] = spans[i]
        /\ \E i \in DOMAIN spans' : spans'[i].last = b
    <3>1. Free \in Nat /\ spans \in Seq(Spans)
      BY <1>1, <1>2 DEF Shape
    <3> HIDE DEF b
    <3> QED
      BY <1>1, <1>2, <2>1, <2>2, <2>3, <3>1, SpanAppended
  <2>5. Shape'
    BY <1>1, <1>2, <2>1, <2>4, FactionsKept DEF Shape
  <2>6. LoadOk' /\ MergeOk'
    BY <1>1, <1>4, <2>1 DEF LoadOk
  <2>7. ASSUME NEW k \in 1 .. Len(merged), k < row + 1 PROVE Segmented(spans', merged[k])
    <3>1. CASE k < row
      BY <1>5, <2>4, <3>1 DEF Segmented
    <3>2. CASE k = row
      BY <2>4, <3>2 DEF Segmented
    <3> QED
      BY <1>2, <2>7, <3>1, <3>2
  <2>8. row + 1 <= Len(merged) => start' + MergeWindow <= merged[row + 1]
    <3>1. row + 1 <= Len(merged) => merged[row + 1] \in Nat /\ b + MergeWindow < merged[row + 1]
      BY <1>2, <1>3, <2>2
    <3> HIDE DEF b
    <3> QED
      BY <2>1, <2>2, <3>1, ThresholdFacts
  <2>9. SegmentOk'
    BY <1>1, <1>2, <2>1, <2>2, <2>4, <2>7, <2>8 DEF SegmentOk
  <2> QED
    BY <2>4, <2>5, <2>6, <2>9 DEF IInv
<1>8. CASE row <= Len(merged) /\ ~Accepts(b)
  <2>1. phase' = phase /\ row' = row + 1 /\ spans' = spans /\ start' = start
    BY <1>2, <1>8 DEF Segment
  <2>2. b \in 0 .. replay.last /\ row \in 1 .. Len(merged) /\ b - start < MinMatchGap
    BY <1>2, <1>8, ThresholdFacts DEF Accepts
  <2>3. Segmented(spans, b) /\ start = 0
    BY <1>2, <1>3, <2>2, ThresholdFacts DEF Segmented
  <2>4. Shape'
    BY <1>1, <1>2, <2>1, FactionsKept DEF Shape
  <2>5. SpansOk' /\ LoadOk' /\ MergeOk'
    BY <1>1, <1>4, <2>1 DEF SpansOk, LoadOk
  <2>6. \A k \in 1 .. Len(merged) : k < row + 1 => Segmented(spans, merged[k])
    BY <1>2, <1>5, <2>2, <2>3
  <2>7. SegmentOk'
    BY <1>1, <1>2, <2>1, <2>2, <2>3, <2>6 DEF SegmentOk, Free
  <2> QED
    BY <2>4, <2>5, <2>7 DEF IInv
<1> QED
  BY <1>2, <1>6, <1>7, <1>8

LEMMA TailKeeps ==
    ASSUME IInv, TailSegment
    PROVE  IInv'
<1> DEFINE b == replay.last
<1>1. /\ Shape /\ phase = "tail" /\ MergeOk /\ SpansOk /\ SegmentOk /\ LoadOk
      /\ replay' = replay /\ merged' = merged /\ matches' = matches /\ start' = start
      /\ phase' = "load" /\ row' = 1
      /\ matches = <<>> /\ start = Free
  BY DEF IInv, SegmentOk, LoadOk, TailSegment, Turn
<1>2. b \in Nat /\ start \in 0 .. b + 1 /\ spans \in Seq(Spans) /\ Free \in Nat
  BY <1>1, EventFacts DEF Shape, SegmentOk
<1>3. MergeOk'
  BY <1>1 DEF MergeOk, Boundary
<1>4. \A k \in DOMAIN merged : Segmented(spans, merged[k])
  BY <1>1 DEF SegmentOk
<1>5. /\ spans' \in Seq(Spans) /\ SpansOk' /\ b - Free' < MinTailGap
      /\ \A k \in DOMAIN merged : Segmented(spans', merged[k])
  <2>1. CASE b - start >= MinTailGap
    <3>1. spans' = Append(spans, Span(Free, b))
      BY <1>1, <2>1 DEF TailSegment
    <3>2. /\ spans' \in Seq(Spans) /\ SpansOk' /\ Free' = b + 1
          /\ DOMAIN spans \subseteq DOMAIN spans'
          /\ \A i \in DOMAIN spans : spans'[i] = spans[i]
      BY <1>1, <1>2, <2>1, <3>1, SpanAppended
    <3>3. \A k \in DOMAIN merged : Segmented(spans', merged[k])
      BY <1>4, <3>2 DEF Segmented
    <3> QED
      BY <1>2, <3>2, <3>3, ThresholdFacts
  <2>2. CASE ~(b - start >= MinTailGap)
    <3>1. spans' = spans
      BY <2>2 DEF TailSegment
    <3>2. SpansOk' /\ Free' = Free
      BY <1>1, <3>1 DEF SpansOk, Free
    <3> QED
      BY <1>1, <1>2, <1>4, <2>2, <3>1, <3>2, ThresholdFacts
  <2> QED
    BY <2>1, <2>2
<1>6. Shape'
  BY <1>1, <1>5, FactionsKept DEF Shape
<1>7. LoadOk'
  <2>1. Len(spans') \in Nat
    BY <1>5
  <2> QED
    BY <1>1, <2>1, ThresholdFacts DEF LoadOk, Least
<1>8. SegmentOk'
  BY <1>1, <1>2, <1>5 DEF SegmentOk
<1> QED
  BY <1>3, <1>5, <1>6, <1>7, <1>8 DEF IInv

LEMMA LoadKeeps ==
    ASSUME IInv, Load
    PROVE  IInv'
<1>1. /\ Shape /\ phase = "load" /\ MergeOk /\ SpansOk /\ SegmentOk /\ LoadOk
      /\ replay' = replay /\ merged' = merged /\ spans' = spans /\ start' = start
  BY DEF IInv, Load
<1>2. /\ row \in Nat \ {0} /\ spans \in Seq(Spans) /\ Len(spans) \in Nat
      /\ DOMAIN spans = 1 .. Len(spans)
      /\ matches \in Seq([span : Spans, faction : Factions]) /\ Len(matches) \in Nat
      /\ row <= Len(spans) + 1 /\ Len(matches) = Least(MaxMatches, row - 1)
  BY <1>1 DEF Shape, LoadOk
<1>3. ASSUME phase' \in {"load", "done"}
      PROVE  MergeOk' /\ SpansOk' /\ SegmentOk'
  BY <1>1, <1>3 DEF MergeOk, SpansOk, SegmentOk, Free, Boundary
<1>4. CASE row > Len(spans)
  <2>1. phase' = "done" /\ row' = 1 /\ matches' = matches
    BY <1>4 DEF Load, Turn
  <2>2. Shape'
    BY <1>1, <2>1, FactionsKept DEF Shape
  <2>3. row - 1 = Len(spans)
    BY <1>2, <1>4
  <2>4. LoadOk'
    BY <1>1, <1>2, <2>1, <2>3 DEF LoadOk
  <2> QED
    BY <1>3, <2>1, <2>2, <2>4 DEF IInv
<1>5. CASE row <= Len(spans) /\ Room
  <2> DEFINE m == [span |-> spans[row], faction |-> FactionAt(spans[row].first)]
             n == Len(matches)
             S == [span : Spans, faction : Factions]
  <2>1. phase' = phase /\ row' = row + 1 /\ matches' = Append(matches, m)
    BY <1>2, <1>5 DEF Load
  <2>2. row \in 1 .. Len(spans) /\ spans[row] \in Spans /\ spans[row].first \in Nat
    <3>1. row \in 1 .. Len(spans)
      BY <1>2, <1>5
    <3>2. spans[row] \in Spans
      BY <1>2, <3>1, ElementOfSeq
    <3> QED
      BY <3>1, <3>2 DEF Spans
  <2>3. m \in S /\ m.span = spans[row]
    BY <2>2 DEF Factions
  <2>4. n < MaxMatches /\ n = row - 1 /\ Least(MaxMatches, row) = n + 1
    BY <1>2, <1>5, <2>2, ThresholdFacts DEF Room, Least
  <2> HIDE DEF m, S
  <2>5. /\ matches' \in Seq(S) /\ Len(matches') = n + 1 /\ n \in Nat
        /\ DOMAIN matches' = 1 .. n + 1 /\ DOMAIN matches = 1 .. n
        /\ matches'[n + 1] = m
        /\ \A i \in 1 .. n : matches'[i] = matches[i]
    <3>1. matches \in Seq(S)
      BY <1>2 DEF S
    <3> HIDE DEF n
    <3> QED
      BY <2>1, <2>3, <3>1, Grown DEF n
  <2>6. Shape'
    <3>1. Factions' = Factions
      BY <1>1, FactionsKept
    <3>2. row' \in Nat \ {0}
      BY <1>2, <2>1
    <3> QED
      BY <1>1, <2>1, <2>5, <3>1, <3>2 DEF S, Shape
  <2>7. ASSUME NEW i \in 1 .. n + 1 PROVE i <= Len(spans) /\ matches'[i].span = spans[i]
    <3>1. CASE i \in 1 .. n
      BY <1>1, <2>5, <3>1 DEF LoadOk
    <3>2. CASE i = n + 1
      BY <1>2, <2>2, <2>3, <2>4, <2>5, <3>2
    <3> QED
      BY <2>5, <3>1, <3>2
  <2>8. LoadOk'
    BY <1>1, <1>2, <2>1, <2>2, <2>4, <2>5, <2>7 DEF LoadOk
  <2> QED
    BY <1>1, <1>3, <2>1, <2>6, <2>8 DEF IInv
<1>6. CASE row <= Len(spans) /\ ~Room
  <2>1. phase' = phase /\ row' = row + 1 /\ matches' = matches
    BY <1>2, <1>6 DEF Load
  <2>2. Shape'
    BY <1>1, <1>2, <2>1, FactionsKept DEF Shape
  <2>3. Len(matches) = Least(MaxMatches, row)
    BY <1>2, <1>6, ThresholdFacts DEF Room, Least
  <2>4. LoadOk'
    BY <1>1, <1>2, <1>6, <2>1, <2>3 DEF LoadOk
  <2> QED
    BY <1>1, <1>3, <2>1, <2>2, <2>4 DEF IInv
<1> QED
  BY <1>2, <1>4, <1>5, <1>6

LEMMA InitOk == ASSUME Init PROVE IInv
<1>1. replay \in Replays /\ replay.last \in Nat
  BY EventFacts DEF Init
<1>2. Shape
  BY <1>1 DEF Init, Shape
<1>3. MergeOk /\ SpansOk /\ LoadOk
  BY <1>1, EventFacts DEF Init, MergeOk, Apart, SpansOk, LoadOk
<1>4. SegmentOk
  BY <1>1 DEF Init, SegmentOk, Free
<1> QED
  BY <1>2, <1>3, <1>4 DEF IInv

\* What the folds have done up to their row, at every row of every recording.
THEOREM FoldsAreOnTheirWay == Spec => []IInv
<1>1. Init => IInv
  BY InitOk
<1>2. IInv /\ [Next]_vars => IInv'
  <2> SUFFICES ASSUME IInv, [Next]_vars PROVE IInv'
    OBVIOUS
  <2>1. CASE Merge
    BY <2>1, MergeKeeps
  <2>2. CASE Segment
    BY <2>2, SegmentKeeps
  <2>3. CASE TailSegment
    BY <2>3, TailKeeps
  <2>4. CASE Load
    BY <2>4, LoadKeeps
  <2>5. CASE UNCHANGED vars
    <3>1. UNCHANGED <<replay, phase, row, merged, start, spans, matches>>
      BY <2>5 DEF vars
    <3> QED
      BY <3>1 DEF IInv, Shape, Factions, FactionAt, Boundary, MergeOk, SpansOk, SegmentOk,
                  Free, LoadOk
  <2> QED
    BY <2>1, <2>2, <2>3, <2>4, <2>5 DEF Next
<1> QED
  BY <1>1, <1>2, PTL DEF Spec

-----------------------------------------------------------------------------
\* The matches kept are the first ones.
LEMMA FirstMatches ==
    ASSUME IInv, Done
    PROVE  TrueFirstMatches
<1> DEFINE n == Len(matches)
<1>1. /\ n \in Nat /\ Len(spans) \in Nat /\ spans \in Seq(Spans)
      /\ DOMAIN matches = 1 .. n /\ n = Least(MaxMatches, Len(spans))
      /\ \A i \in 1 .. n : matches[i].span = spans[i]
  BY DEF IInv, Shape, LoadOk, Done
<1>2. n = Min({MaxMatches, Len(spans)})
  BY <1>1, ThresholdFacts DEF Least, Min
<1>3. n <= Len(spans)
  BY <1>1, ThresholdFacts DEF Least
<1> HIDE DEF n
<1>4. /\ SubSeq(spans, 1, n) \in Seq(Spans) /\ Len(SubSeq(spans, 1, n)) = n
      /\ \A i \in 1 .. n : SubSeq(spans, 1, n)[i] = spans[i]
  BY <1>1, <1>3
<1>5. [i \in DOMAIN matches |-> matches[i].span] = SubSeq(spans, 1, n)
  <2> DEFINE f == SubSeq(spans, 1, n)
  <2>1. DOMAIN f = 1 .. n /\ f = [i \in 1 .. n |-> f[i]]
    BY <1>1, <1>4
  <2>2. \A i \in 1 .. n : f[i] = matches[i].span
    BY <1>1, <1>4
  <2> HIDE DEF f
  <2>3. f = [i \in 1 .. n |-> matches[i].span]
    BY <2>1, <2>2
  <2> QED
    BY <1>1, <2>3 DEF f
<1> QED
  BY <1>2, <1>5 DEF TrueFirstMatches

\* Every recording is cut into the battles the script's heuristic describes:
\* they tile it, none is too short, every boundary is accounted for, and the
\* matches are the first of them.
THEOREM EveryBattleIsFound == Spec => []BattlesAreFound
<1>1. IInv => BattlesAreFound
  <2> SUFFICES ASSUME IInv PROVE BattlesAreFound
    OBVIOUS
  <2>1. /\ Shape /\ MergeOk /\ SpansOk /\ SegmentOk /\ LoadOk
        /\ replay.last \in Nat /\ spans \in Seq(Spans)
        /\ DOMAIN replay.events = 1 .. Len(replay.events)
    BY EventFacts DEF IInv, Shape
  <2>2. \A i \in DOMAIN spans : spans[i] \in Spans
    BY <2>1
  <2>3. TypeOK
    <3>1. \A i \in DOMAIN spans : 0 <= spans[i].first
      BY <2>2 DEF Spans
    <3>2. Len(matches) <= MaxMatches
      <4>1. Len(spans) \in Nat /\ row \in Nat
        BY <2>1 DEF Shape
      <4> QED
        BY <2>1, <4>1, ThresholdFacts DEF Shape, LoadOk, Least
    <3>3. \A i \in DOMAIN spans : spans[i].first < spans[i].last /\ spans[i].last <= replay.last
      BY <2>1 DEF SpansOk
    <3> QED
      BY <2>1, <3>1, <3>2, <3>3 DEF TypeOK, Shape, SegmentOk
  <2>4. SpansTile
    BY <2>1 DEF SpansTile, SpansOk, SegmentOk, Free, Done
  <2>5. NoShortBattles
    BY <2>1 DEF NoShortBattles, SpansOk
  <2>6. BoundariesAccounted
    <3> SUFFICES ASSUME Done, NEW j \in DOMAIN replay.events
                 PROVE  \/ \E i \in DOMAIN spans : spans[i].last = Boundary(j)
                        \/ \E k \in DOMAIN merged : /\ merged[k] < Boundary(j)
                                                    /\ Boundary(j) <= merged[k] + MergeWindow
                        \/ Boundary(j) < SkipFirst \/ Boundary(j) < MinMatchGap
      BY DEF BoundariesAccounted
    <3>1. Merged(merged, Boundary(j))
      BY <2>1 DEF MergeOk, Done
    <3>2. \A k \in DOMAIN merged : Segmented(spans, merged[k])
      BY <2>1 DEF SegmentOk, Done
    <3> QED
      BY <3>1, <3>2 DEF Merged, Segmented
  <2>7. TrueFirstMatches
    BY FirstMatches DEF TrueFirstMatches
  <2> QED
    BY <2>3, <2>4, <2>5, <2>6, <2>7 DEF BattlesAreFound
<1> QED
  BY <1>1, FoldsAreOnTheirWay, PTL

-----------------------------------------------------------------------------
(* The checkpoints.                                                        *)

\* The number of a checkpoint is the number of checkpoints saved before it.
Numbered ==
    /\ Len(saved) = seq + 1
    /\ \A k \in 1 .. Len(saved) : saved[k].id = k - 1

\* Open savepoints: in the order of their numbers, as they were saved.
StackIsOrdered ==
    /\ \A n \in 1 .. Len(stack) : /\ stack[n].id <= seq
                                  /\ stack[n].data = saved[stack[n].id + 1].data
                                  /\ stack[n].data \subseteq data
    /\ \A m, n \in 1 .. Len(stack) :
          m < n => stack[m].id < stack[n].id /\ stack[m].data \subseteq stack[n].data

\* cp0 is the outermost savepoint until a typed statement ends it.
BaselineIsOutermost == ended \/ (stack # <<>> /\ stack[1].id = 0)

UndoneIsGone == data \cap undone = {}

CInv == CheckpointsTypeOK /\ Numbered /\ StackIsOrdered /\ BaselineIsOutermost /\ UndoneIsGone

-----------------------------------------------------------------------------
\* The n outermost savepoints are what SubSeq keeps.
LEMMA Cut ==
    ASSUME NEW S, NEW s \in Seq(S), NEW n \in 0 .. Len(s)
    PROVE  /\ SubSeq(s, 1, n) \in Seq(S)
           /\ Len(SubSeq(s, 1, n)) = n
           /\ \A m \in 1 .. n : SubSeq(s, 1, n)[m] = s[m]
  BY SubSeqProperties

LEMMA InitInvariant == CheckpointsInit => CInv
  <1> SUFFICES ASSUME CheckpointsInit PROVE CInv
      OBVIOUS
  <1>1. Initial \in Checkpoint
      BY CheckpointsConstants DEF Initial, Checkpoint, Numbers
  <1>2. /\ Len(<<Initial>>) = 1 /\ <<Initial>>[1] = Initial
        /\ <<Initial>> \in Seq(Checkpoint)
      BY <1>1
  <1>3. CheckpointsTypeOK
    <2>1. 0 \in Numbers /\ <<0>> \in Seq(Numbers) /\ <<>> \in Seq(Numbers)
        BY CheckpointsConstants DEF Numbers
    <2>2. <<>> \in Seq(Message)
        OBVIOUS
    <2>3. /\ stack \in Seq(Checkpoint) /\ saved \in Seq(Checkpoint)
          /\ toWorker \in Seq(Message)
        BY <1>2, <2>2 DEF CheckpointsInit
    <2>4. toPage \in Seq(Numbers) /\ listed \in Seq(Numbers) /\ current \in Numbers
        BY <2>1 DEF CheckpointsInit
    <2>5. writes = 0 /\ data = {} /\ seq = 0 /\ undone = {} /\ ended = FALSE
        BY DEF CheckpointsInit
    <2>6. writes \in 0 .. MaxWrites /\ seq \in Numbers
        BY <2>1, <2>5, CheckpointsConstants
    <2>7. data \subseteq 1 .. writes /\ undone \subseteq 1 .. writes /\ ended \in BOOLEAN
        BY <2>5
    <2>8. QED
        BY <2>3, <2>4, <2>6, <2>7 DEF CheckpointsTypeOK
  <1>4. QED
      BY <1>2, <1>3 DEF CheckpointsInit, CInv, Numbered, StackIsOrdered, BaselineIsOutermost,
                        UndoneIsGone, Initial

\* A statement of the user that undoes what came after the n-th savepoint.
LEMMA UndoStep ==
    ASSUME CInv, NEW n \in 1 .. Len(stack), Undo(n),
           UNCHANGED <<writes, seq, listed, toPage, current, saved, ended>>,
           toWorker' \in Seq(Message)
    PROVE  CInv'
  <1> DEFINE t == SubSeq(stack, 1, n)
  <1>1. /\ stack \in Seq(Checkpoint) /\ Len(stack) \in Nat
        /\ stack[n] \in Checkpoint
      BY DEF CInv, CheckpointsTypeOK
  <1>2. /\ t \in Seq(Checkpoint) /\ Len(t) = n
        /\ \A m \in 1 .. n : t[m] = stack[m]
      BY <1>1, Cut
  <1>3. /\ stack' = t /\ data' = stack[n].data
        /\ undone' = undone \cup (data \ stack[n].data)
      BY DEF Undo, BackTo, Kept
  <1> HIDE DEF t
  <1>4. CheckpointsTypeOK'
      BY <1>1, <1>2, <1>3 DEF CInv, CheckpointsTypeOK, StackIsOrdered
  <1>5. Numbered'
      BY DEF CInv, Numbered
  <1>6. StackIsOrdered'
    <2>1. \A m \in 1 .. n : stack[m].data \subseteq stack[n].data
        BY <1>1 DEF CInv, StackIsOrdered
    <2>2. \A m \in 1 .. n : m \in 1 .. Len(stack)
        BY <1>1
    <2>3. QED
        BY <1>2, <1>3, <2>1, <2>2 DEF CInv, StackIsOrdered
  <1>7. BaselineIsOutermost'
      BY <1>1, <1>2, <1>3 DEF CInv, BaselineIsOutermost
  <1>8. UndoneIsGone'
      BY <1>1, <1>3 DEF CInv, UndoneIsGone, StackIsOrdered
  <1>9. QED
      BY <1>4, <1>5, <1>6, <1>7, <1>8 DEF CInv

\* A step that leaves only the n outermost savepoints open and the data alone.
LEMMA CutStep ==
    ASSUME CInv, NEW n \in 0 .. Len(stack), stack' = SubSeq(stack, 1, n),
           n = 0 => ended',
           ended' \in BOOLEAN, ended => ended',
           UNCHANGED <<data, writes, seq, toWorker, page, saved, undone>>
    PROVE  CInv'
  <1> DEFINE t == SubSeq(stack, 1, n)
  <1>1. stack \in Seq(Checkpoint) /\ Len(stack) \in Nat
      BY DEF CInv, CheckpointsTypeOK
  <1>2. /\ t \in Seq(Checkpoint) /\ Len(t) = n
        /\ \A m \in 1 .. n : t[m] = stack[m] /\ m \in 1 .. Len(stack)
      BY <1>1, Cut
  <1>3. stack' = t
      OBVIOUS
  <1> HIDE DEF t
  <1>4. CheckpointsTypeOK'
      BY <1>2, <1>3 DEF CInv, CheckpointsTypeOK, page
  <1>5. StackIsOrdered'
      BY <1>2, <1>3 DEF CInv, StackIsOrdered
  <1>6. BaselineIsOutermost'
      BY <1>1, <1>2, <1>3 DEF CInv, BaselineIsOutermost
  <1>7. QED
      BY <1>4, <1>5, <1>6 DEF CInv, Numbered, UndoneIsGone

LEMMA StatementStep ==
    ASSUME CInv, Statement
    PROVE  CInv'
  <1>0. stack \in Seq(Checkpoint) /\ Len(stack) \in Nat /\ writes \in Nat
      BY DEF CInv, CheckpointsTypeOK
  <1>1. CASE Write
    <2>1. CheckpointsTypeOK'
        BY <1>1, CheckpointsConstants DEF CInv, CheckpointsTypeOK, Write, page, ghosts
    <2>2. writes + 1 \notin undone
        BY <1>0 DEF CInv, CheckpointsTypeOK
    <2>3. QED
        BY <1>1, <2>1, <2>2 DEF CInv, Numbered, StackIsOrdered, BaselineIsOutermost,
                                UndoneIsGone, Write, page, ghosts
  <1>2. CASE Commit
    <2>1. SubSeq(stack, 1, 0) = <<>>
        BY <1>0, SubSeqProperties
    <2>2. QED
        BY <1>0, <1>2, <2>1, CutStep DEF Commit
  <1>3. CASE Rollback
    <2>1. /\ stack[1] \in Checkpoint /\ 1 \in 1 .. Len(stack)
          /\ <<>> \in Seq(Checkpoint) /\ Len(<<>>) = 0
        BY <1>0, <1>3 DEF Rollback
    <2>2. /\ stack[1].data \subseteq data
          /\ stack[1].data \in SUBSET Writes
        BY <2>1 DEF CInv, StackIsOrdered, Checkpoint
    <2>3. CheckpointsTypeOK'
        BY <1>3, <2>1, <2>2 DEF CInv, CheckpointsTypeOK, Rollback, page
    <2>4. QED
        BY <1>3, <2>1, <2>2, <2>3 DEF CInv, Numbered, StackIsOrdered, BaselineIsOutermost,
                                      UndoneIsGone, Rollback, page
  <1>4. ASSUME NEW id \in Numbers, Release(id) PROVE CInv'
    <2>1. PICK n \in 1 .. Len(stack) : Names(n, id) /\ stack' = SubSeq(stack, 1, n - 1)
        BY <1>4 DEF Release
    <2>2. n - 1 \in 0 .. Len(stack)
        BY <1>0
    <2>3. n - 1 = 0 => ended \/ id = 0
        BY <1>0, <2>1 DEF CInv, BaselineIsOutermost, Names
    <2>4. ended' = (ended \/ id = 0)
        BY <1>4 DEF Release
    <2>5. ended' \in BOOLEAN
        BY <2>4, Zenon
    <2>6. n - 1 = 0 => ended'
        BY <2>3, <2>4, Zenon
    <2>7. ended => ended'
        BY <2>4, Zenon
    <2>8. UNCHANGED <<data, writes, seq, toWorker, page, saved, undone>>
        BY <1>4 DEF Release
    <2>9. QED
        BY <2>1, <2>2, <2>5, <2>6, <2>7, <2>8, CutStep
  <1>5. ASSUME NEW id \in Numbers, RollbackTo(id) PROVE CInv'
    <2>1. PICK n \in 1 .. Len(stack) : Undo(n)
        BY <1>5 DEF RollbackTo
    <2>2. QED
        BY <1>5, <2>1, UndoStep DEF RollbackTo, CInv, CheckpointsTypeOK, page
  <1>6. QED
      BY <1>1, <1>2, <1>3, <1>4, <1>5 DEF Statement

-----------------------------------------------------------------------------
LEMMA SaveStep ==
    ASSUME CInv, Save
    PROVE  CInv'
  <1> DEFINE new == [id |-> seq + 1, data |-> data]
  <1>1. /\ stack' = Append(stack, new) /\ saved' = Append(saved, new)
        /\ seq' = seq + 1 /\ seq < MaxSaves
        /\ toPage' = Append(toPage, seq + 1)
        /\ toWorker' = Tail(toWorker) /\ toWorker # <<>>
        /\ UNCHANGED <<data, writes, listed, current, undone, ended>>
      BY DEF Save, Take, NextId
  <1>2. /\ stack \in Seq(Checkpoint) /\ Len(stack) \in Nat
        /\ saved \in Seq(Checkpoint) /\ Len(saved) \in Nat
        /\ seq \in Nat /\ seq + 1 \in Numbers
      BY <1>1, CheckpointsConstants DEF CInv, CheckpointsTypeOK, Numbers
  <1>3. data \in SUBSET Writes
      BY CheckpointsConstants DEF CInv, CheckpointsTypeOK, Writes
  <1>4. new \in Checkpoint /\ new.id = seq + 1 /\ new.data = data
      BY <1>2, <1>3 DEF Checkpoint
  <1> HIDE DEF new
  <1>5. /\ Len(stack') = Len(stack) + 1 /\ stack'[Len(stack) + 1] = new
        /\ \A n \in 1 .. Len(stack) : stack'[n] = stack[n]
        /\ Len(saved') = Len(saved) + 1 /\ saved'[Len(saved) + 1] = new
        /\ \A k \in 1 .. Len(saved) : saved'[k] = saved[k]
        /\ stack' \in Seq(Checkpoint) /\ saved' \in Seq(Checkpoint)
      BY <1>1, <1>2, <1>4
  <1>6. toWorker' \in Seq(Message) /\ toPage' \in Seq(Numbers)
      BY <1>1, <1>2 DEF CInv, CheckpointsTypeOK
  <1>7. CheckpointsTypeOK'
      BY <1>1, <1>2, <1>5, <1>6 DEF CInv, CheckpointsTypeOK
  <1>8. Numbered'
      BY <1>1, <1>2, <1>4, <1>5 DEF CInv, Numbered
  <1>9. StackIsOrdered'
    <2>1. \A n \in 1 .. Len(stack) : /\ stack[n].id \in Nat /\ stack[n].id <= seq
                                     /\ stack[n].id + 1 \in 1 .. Len(saved)
      <3> TAKE n \in 1 .. Len(stack)
      <3>1. stack[n] \in Checkpoint
          BY <1>2
      <3>2. stack[n].id \in Nat /\ stack[n].id <= seq
          BY <3>1 DEF CInv, StackIsOrdered, Checkpoint, Numbers
      <3>3. QED
          BY <1>2, <3>2 DEF CInv, Numbered
    <2>2. \A n \in 1 .. Len(stack') : /\ stack'[n].id <= seq'
                                      /\ stack'[n].data = saved'[stack'[n].id + 1].data
                                      /\ stack'[n].data \subseteq data'
      <3> SUFFICES ASSUME NEW n \in 1 .. Len(stack')
                   PROVE  /\ stack'[n].id <= seq'
                          /\ stack'[n].data = saved'[stack'[n].id + 1].data
                          /\ stack'[n].data \subseteq data'
          OBVIOUS
      <3>1. CASE n \in 1 .. Len(stack)
          BY <1>1, <1>2, <1>5, <2>1, <3>1 DEF CInv, StackIsOrdered
      <3>2. CASE n = Len(stack) + 1
          BY <1>1, <1>2, <1>4, <1>5, <3>2 DEF CInv, Numbered
      <3>3. QED
          BY <1>2, <1>5, <3>1, <3>2
    <2>3. \A m, n \in 1 .. Len(stack') :
             m < n => stack'[m].id < stack'[n].id /\ stack'[m].data \subseteq stack'[n].data
      <3> SUFFICES ASSUME NEW m \in 1 .. Len(stack'), NEW n \in 1 .. Len(stack'), m < n
                   PROVE  stack'[m].id < stack'[n].id /\ stack'[m].data \subseteq stack'[n].data
          OBVIOUS
      <3>1. m \in 1 .. Len(stack)
          BY <1>2, <1>5
      <3>2. CASE n \in 1 .. Len(stack)
          BY <1>5, <3>1, <3>2 DEF CInv, StackIsOrdered
      <3>3. CASE n = Len(stack) + 1
          BY <1>2, <1>4, <1>5, <2>1, <3>1, <3>3 DEF CInv, StackIsOrdered
      <3>4. QED
          BY <1>2, <1>5, <3>2, <3>3
    <2>4. QED
        BY <2>2, <2>3 DEF StackIsOrdered
  <1>10. BaselineIsOutermost'
      BY <1>1, <1>2, <1>5 DEF CInv, BaselineIsOutermost
  <1>11. QED
      BY <1>1, <1>7, <1>8, <1>9, <1>10 DEF CInv, UndoneIsGone

\* A step that only moves messages and what the page shows.
LEMMA PageOnly ==
    ASSUME CInv, UNCHANGED <<base, ghosts>>,
           toWorker' \in Seq(Message), toPage' \in Seq(Numbers),
           listed' \in Seq(Numbers), current' \in Numbers
    PROVE  CInv'
  <1>1. UNCHANGED <<data, writes, stack, seq, saved, undone, ended>>
      BY DEF base, ghosts
  <1>2. CheckpointsTypeOK'
      BY <1>1 DEF CInv, CheckpointsTypeOK
  <1>3. QED
      BY <1>1, <1>2 DEF CInv, Numbered, StackIsOrdered, BaselineIsOutermost, UndoneIsGone

LEMMA PageStep ==
    ASSUME CInv, Page
    PROVE  CInv'
  <1>0. /\ toWorker \in Seq(Message) /\ toPage \in Seq(Numbers)
        /\ listed \in Seq(Numbers) /\ current \in Numbers
      BY DEF CInv, CheckpointsTypeOK
  <1>1. CASE ClickSave
    <2>1. [type |-> "save", id |-> 0] \in Message
        BY CheckpointsConstants DEF Message, Numbers
    <2>2. QED
        BY <1>0, <1>1, <2>1, PageOnly DEF ClickSave, Post, page
  <1>2. CASE ClickRevert
    <2>1. [type |-> "revert", id |-> current] \in Message
        BY <1>0 DEF Message
    <2>2. QED
        BY <1>0, <1>2, <2>1, PageOnly DEF ClickRevert, Post, page
  <1>3. CASE Select
    <2>1. current' \in Numbers
        BY <1>0, <1>3 DEF Select
    <2>2. QED
        BY <1>0, <1>3, <2>1, PageOnly DEF Select
  <1>4. CASE OnSaved
    <2>1. /\ Head(toPage) \in Numbers /\ Tail(toPage) \in Seq(Numbers)
          /\ Append(listed, Head(toPage)) \in Seq(Numbers)
        BY <1>0, <1>4 DEF OnSaved
    <2>2. QED
        BY <1>0, <1>4, <2>1, PageOnly DEF OnSaved, Listing
  <1>5. QED
      BY <1>1, <1>2, <1>3, <1>4 DEF Page

LEMMA StepInvariant ==
    ASSUME CInv, [CheckpointsNext]_checkpointsVars
    PROVE  CInv'
  <1>1. CASE Save
      BY <1>1, SaveStep
  <1>2. ASSUME NEW id \in Numbers, Revert(id) PROVE CInv'
    <2>1. PICK n \in 1 .. Len(stack) : Undo(n)
        BY <1>2 DEF Revert
    <2>2. toWorker' \in Seq(Message)
        BY <1>2 DEF Revert, Take, CInv, CheckpointsTypeOK
    <2>3. QED
        BY <1>2, <2>1, <2>2, UndoStep DEF Revert, Numbering, page
  <1>3. ASSUME NEW id \in Numbers, RevertFails(id) PROVE CInv'
    <2>1. toWorker' \in Seq(Message)
        BY <1>3 DEF RevertFails, Take, CInv, CheckpointsTypeOK
    <2>2. QED
        BY <1>3, <2>1, PageOnly DEF RevertFails, page, CInv, CheckpointsTypeOK
  <1>4. CASE UNCHANGED checkpointsVars
      BY <1>4 DEF CInv, CheckpointsTypeOK, checkpointsVars, base, page, ghosts, Numbered, StackIsOrdered,
                  BaselineIsOutermost, UndoneIsGone
  <1>5. QED
      BY <1>1, <1>2, <1>3, <1>4, StatementStep, PageStep DEF CheckpointsNext, Worker

THEOREM Invariance == CheckpointsSpec => []CInv
  <1>1. QED
      BY InitInvariant, StepInvariant, PTL DEF CheckpointsSpec

-----------------------------------------------------------------------------
\* Every variable keeps its type.
THEOREM CheckpointTypeCorrect == CheckpointsSpec => []CheckpointsTypeOK
  <1>1. CInv => CheckpointsTypeOK
      BY DEF CInv
  <1>2. QED
      BY <1>1, Invariance, PTL

\* What a revert undid is neither in the data nor in a checkpoint still open.
THEOREM UndoneStaysUndone == CheckpointsSpec => []NothingResurfaces
  <1>1. CInv => NothingResurfaces
    <2> SUFFICES ASSUME CInv PROVE NothingResurfaces
        OBVIOUS
    <2>1. DOMAIN stack = 1 .. Len(stack)
        BY DEF CInv, CheckpointsTypeOK
    <2>2. QED
        BY <2>1 DEF CInv, UndoneIsGone, StackIsOrdered, NothingResurfaces
  <1>2. QED
      BY <1>1, Invariance, PTL

\* Checkpoint #0 is there until a statement typed by hand ends it.
THEOREM BaselineStays == CheckpointsSpec => []BaselineUnlessEnded
  <1>1. CInv => BaselineUnlessEnded
    <2> SUFFICES ASSUME CInv, ~ended PROVE IsOpen(0)
        BY DEF BaselineUnlessEnded
    <2>1. 1 \in 1 .. Len(stack) /\ stack[1].id = 0
        BY DEF CInv, CheckpointsTypeOK, BaselineIsOutermost
    <2>2. QED
        BY <2>1 DEF IsOpen
  <1>2. QED
      BY <1>1, Invariance, PTL

\* A revert to a number brings back what was saved under it.
THEOREM RevertsRestore == CheckpointsSpec => RevertRestores
  <1> DEFINE Restores(id) ==
        Revert(id) => \A k \in DOMAIN saved : saved[k].id = id => data' = saved[k].data
  <1>1. ASSUME CInv, [CheckpointsNext]_checkpointsVars PROVE \A id \in Numbers : Restores(id)
    <2> SUFFICES ASSUME NEW id \in Numbers, Revert(id),
                        NEW k \in DOMAIN saved, saved[k].id = id
                 PROVE  data' = saved[k].data
        OBVIOUS
    <2>1. PICK n \in 1 .. Len(stack) : Names(n, id) /\ Undo(n)
        BY DEF Revert
    <2>2. data' = stack[n].data /\ stack[n].id = id
        BY <2>1 DEF Undo, BackTo, Names
    <2>3. DOMAIN saved = 1 .. Len(saved) /\ Len(saved) \in Nat
        BY <1>1 DEF CInv, CheckpointsTypeOK
    <2>4. k = id + 1
        BY <1>1, <2>3 DEF CInv, Numbered
    <2>5. QED
        BY <1>1, <2>1, <2>2, <2>4 DEF CInv, StackIsOrdered
  <1>2. QED
      BY <1>1, Invariance, PTL DEF CheckpointsSpec, RevertRestores

-----------------------------------------------------------------------------
\* Leaving only outer savepoints open offers all that are open.
LEMMA CutOffers ==
    ASSUME CInv, OpenAreOffered, UNCHANGED <<toPage, listed>>,
           NEW n \in 0 .. Len(stack), stack' = SubSeq(stack, 1, n)
    PROVE  OpenAreOffered'
  <1>1. stack \in Seq(Checkpoint) /\ Len(stack) \in Nat
      BY DEF CInv, CheckpointsTypeOK
  <1>2. \A m \in 1 .. n : stack'[m] = stack[m]
      BY <1>1, Cut
  <1>3. DOMAIN stack' = 1 .. n
      BY <1>1, Cut
  <1>4. DOMAIN stack = 1 .. Len(stack)
      BY <1>1
  <1>5. QED
      BY <1>1, <1>2, <1>3, <1>4 DEF OpenAreOffered

LEMMA UndoOffers ==
    ASSUME CInv, OpenAreOffered, UNCHANGED <<toPage, listed>>,
           NEW n \in 1 .. Len(stack), Undo(n)
    PROVE  OpenAreOffered'
  <1>1. n \in 0 .. Len(stack) /\ stack' = SubSeq(stack, 1, n)
      BY DEF Undo, Kept
  <1>2. QED
      BY <1>1, CutOffers

LEMMA StatementOffers ==
    ASSUME CInv, OpenAreOffered, Statement
    PROVE  OpenAreOffered'
  <1>0. stack \in Seq(Checkpoint) /\ Len(stack) \in Nat
      BY DEF CInv, CheckpointsTypeOK
  <1>1. CASE Write
      BY <1>1 DEF Write, page, OpenAreOffered
  <1>2. CASE Commit
      BY <1>2 DEF Commit, OpenAreOffered
  <1>3. CASE Rollback
      BY <1>3 DEF Rollback, OpenAreOffered
  <1>4. ASSUME NEW id \in Numbers, Release(id) PROVE OpenAreOffered'
    <2>1. PICK n \in 1 .. Len(stack) : stack' = SubSeq(stack, 1, n - 1)
        BY <1>4 DEF Release
    <2>2. n - 1 \in 0 .. Len(stack)
        BY <1>0
    <2>3. UNCHANGED <<toPage, listed>>
        BY <1>4 DEF Release, page
    <2>4. QED
        BY <2>1, <2>2, <2>3, CutOffers
  <1>5. ASSUME NEW id \in Numbers, RollbackTo(id) PROVE OpenAreOffered'
    <2>1. PICK n \in 1 .. Len(stack) : Undo(n)
        BY <1>5 DEF RollbackTo
    <2>2. QED
        BY <1>5, <2>1, UndoOffers DEF RollbackTo, page
  <1>6. QED
      BY <1>1, <1>2, <1>3, <1>4, <1>5 DEF Statement

\* A checkpoint is announced to the page in the step that opens it.
LEMMA SaveOffers ==
    ASSUME CInv, OpenAreOffered, Save
    PROVE  OpenAreOffered'
  <1> DEFINE new == [id |-> seq + 1, data |-> data]
  <1>1. /\ stack' = Append(stack, new) /\ new.id = seq + 1
        /\ toPage' = Append(toPage, seq + 1) /\ listed' = listed
      BY DEF Save, NextId
  <1> HIDE DEF new
  <1>2. /\ stack \in Seq(Checkpoint) /\ Len(stack) \in Nat
        /\ toPage \in Seq(Numbers) /\ Len(toPage) \in Nat
        /\ DOMAIN stack = 1 .. Len(stack) /\ DOMAIN toPage = 1 .. Len(toPage)
      BY DEF CInv, CheckpointsTypeOK
  <1>3. /\ DOMAIN stack' = 1 .. Len(stack) + 1 /\ stack'[Len(stack) + 1] = new
        /\ \A n \in 1 .. Len(stack) : stack'[n] = stack[n]
      BY <1>1, <1>2
  <1>4. /\ DOMAIN toPage' = 1 .. Len(toPage) + 1 /\ toPage'[Len(toPage) + 1] = seq + 1
        /\ \A k \in 1 .. Len(toPage) : toPage'[k] = toPage[k]
      BY <1>1, <1>2
  <1> SUFFICES ASSUME NEW n \in DOMAIN stack'
               PROVE  \/ \E k \in DOMAIN listed' : listed'[k] = stack'[n].id
                      \/ \E k \in DOMAIN toPage' : toPage'[k] = stack'[n].id
      BY DEF OpenAreOffered
  <1>5. CASE n = Len(stack) + 1
      BY <1>1, <1>2, <1>3, <1>4, <1>5
  <1>6. CASE n \in 1 .. Len(stack)
    <2>1. \/ \E k \in DOMAIN listed : listed[k] = stack[n].id
          \/ \E k \in 1 .. Len(toPage) : toPage[k] = stack[n].id
        BY <1>2, <1>6 DEF OpenAreOffered
    <2>2. QED
        BY <1>1, <1>2, <1>3, <1>4, <1>6, <2>1
  <1>7. QED
      BY <1>2, <1>3, <1>5, <1>6

\* The page lists what it was told, in the step that takes the message.
LEMMA SavedOffers ==
    ASSUME CInv, OpenAreOffered, OnSaved
    PROVE  OpenAreOffered'
  <1>1. /\ listed' = Append(listed, Head(toPage)) /\ toPage' = Tail(toPage)
        /\ toPage # <<>> /\ stack' = stack
      BY DEF OnSaved, Listing, base
  <1>2. /\ listed \in Seq(Numbers) /\ Len(listed) \in Nat
        /\ toPage \in Seq(Numbers) /\ Len(toPage) \in Nat \ {0}
        /\ DOMAIN listed = 1 .. Len(listed) /\ DOMAIN toPage = 1 .. Len(toPage)
      BY <1>1 DEF CInv, CheckpointsTypeOK
  <1>3. /\ DOMAIN listed' = 1 .. Len(listed) + 1 /\ listed'[Len(listed) + 1] = toPage[1]
        /\ \A k \in 1 .. Len(listed) : listed'[k] = listed[k]
      BY <1>1, <1>2
  <1>4. /\ DOMAIN toPage' = 1 .. Len(toPage) - 1
        /\ \A k \in 1 .. Len(toPage) - 1 : toPage'[k] = toPage[k + 1]
      BY <1>1, <1>2
  <1> SUFFICES ASSUME NEW n \in DOMAIN stack
               PROVE  \/ \E k \in DOMAIN listed' : listed'[k] = stack[n].id
                      \/ \E k \in DOMAIN toPage' : toPage'[k] = stack[n].id
      BY <1>1 DEF OpenAreOffered
  <1>5. CASE \E k \in DOMAIN listed : listed[k] = stack[n].id
      BY <1>2, <1>3, <1>5
  <1>6. ASSUME NEW k \in 1 .. Len(toPage), toPage[k] = stack[n].id
        PROVE  \/ \E j \in DOMAIN listed' : listed'[j] = stack[n].id
               \/ \E j \in DOMAIN toPage' : toPage'[j] = stack[n].id
    <2>1. CASE k = 1
        BY <1>2, <1>3, <1>6, <2>1
    <2>2. CASE k # 1
      <3>1. k - 1 \in 1 .. Len(toPage) - 1 /\ (k - 1) + 1 = k
          BY <1>2, <2>2
      <3>2. toPage'[k - 1] = stack[n].id
          BY <1>4, <1>6, <3>1
      <3>3. QED
          BY <1>4, <3>1, <3>2
    <2>3. QED
        BY <2>1, <2>2
  <1>7. QED
      BY <1>2, <1>5, <1>6 DEF OpenAreOffered

\* A checkpoint that is open is one that was saved, can be picked or is about to
\* be, and the first stays until a statement typed by hand ends it.
THEOREM CheckpointsSound == CheckpointsSpec => []CheckpointsAreSound
  <1>1. CheckpointsInit => OpenAreOffered
    <2> SUFFICES ASSUME CheckpointsInit PROVE OpenAreOffered
        OBVIOUS
    <2>1. /\ DOMAIN stack = {1} /\ stack[1].id = 0
          /\ DOMAIN listed = {1} /\ listed[1] = 0
        BY DEF CheckpointsInit, Initial
    <2>2. QED
        BY <2>1 DEF OpenAreOffered
  <1>2. CInv /\ OpenAreOffered /\ [CheckpointsNext]_checkpointsVars => OpenAreOffered'
    <2> SUFFICES ASSUME CInv, OpenAreOffered, [CheckpointsNext]_checkpointsVars PROVE OpenAreOffered'
        OBVIOUS
    <2>1. ASSUME NEW id \in Numbers, Revert(id) PROVE OpenAreOffered'
      <3>1. PICK n \in 1 .. Len(stack) : Undo(n)
          BY <2>1 DEF Revert
      <3>2. QED
          BY <2>1, <3>1, UndoOffers DEF Revert, page
    <2>2. ASSUME NEW id \in Numbers, RevertFails(id) PROVE OpenAreOffered'
        BY <2>2 DEF RevertFails, base, page, OpenAreOffered
    <2>3. CASE ClickSave \/ ClickRevert \/ Select
        BY <2>3 DEF ClickSave, ClickRevert, Select, base, page, OpenAreOffered
    <2>4. CASE UNCHANGED checkpointsVars
        BY <2>4 DEF checkpointsVars, base, page, OpenAreOffered
    <2>5. QED
        BY <2>1, <2>2, <2>3, <2>4, StatementOffers, SaveOffers, SavedOffers
           DEF CheckpointsNext, Worker, Page
  <1>3. CheckpointsSpec => []OpenAreOffered
      BY <1>1, <1>2, Invariance, PTL DEF CheckpointsSpec
  <1>4. QED
      BY <1>3, CheckpointTypeCorrect, UndoneStaysUndone, BaselineStays, PTL
         DEF CheckpointsAreSound
=============================================================================

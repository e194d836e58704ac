--------------------------- MODULE RenderQueries ---------------------------
(***************************************************************************)
(* The list of rendering queries from its editors to the screen: the       *)
(* page's list and its editors (src/main.js), the slots of the engine in   *)
(* the playback worker (src/replay-worker.js, src/replay_worker.c) and the *)
(* point buffers of the renderer (src/main.c).                             *)
(*                                                                         *)
(* A text is what the properties tell apart in a query's SQL: whose it is, *)
(* whether SQLite can prepare it once b is attached, and the @KIND and     *)
(* @SHAPE directives in it.  Kind chat stands for both kinds the page runs *)
(* itself.  Which rows a slot holds at a tick is the subject of DbViews:   *)
(* here a slot that works shows its text.                                  *)
(***************************************************************************)
EXTENDS Integers, Sequences, FiniteSets, SequencesExt

CONSTANTS Default,     \* the list a load seeds, as texts
          Added,       \* NEW_RENDER_QUERY_PLACEHOLDER_SQL
          EngineMax,   \* MAX_RENDER_QUERIES
          ScreenMax,   \* MAX_RENDER_SLOTS
          Acts,        \* what the user does, of ActNames
          MaxActs,     \* bounds: how often, and
          MaxId        \*   queries made in all

Kinds    == {"dots", "chat"}
ActNames == {"add", "delete", "move", "field", "type", "blur", "window", "file", "reset",
             "revert", "seek"}
Bodies   == {Default[i].body : i \in DOMAIN Default} \cup {Added.body}
Texts    == [body : Bodies, good : BOOLEAN, kind : Kinds, ring : BOOLEAN]
Ids      == 1 .. MaxId

RenderQueryConstants ==
    /\ Default \in Seq(Texts) /\ Added \in Texts
    /\ {EngineMax, ScreenMax, MaxId} \subseteq Nat \ {0} /\ MaxActs \in Nat
    /\ Acts \subseteq ActNames /\ Len(Default) <= MaxId
    /\ Cardinality({i \in DOMAIN Default : Default[i].kind = "dots"}) <= EngineMax
ASSUME QueriesAssumption == RenderQueryConstants

VARIABLES list,       \* renderQueries
          nextId,     \* nextRenderQueryId
          pushed,     \* lastPushedDotsIds
          revalidate, \* renderQueriesNeedRevalidate
          card,       \* the status line of each query's card
          window,     \* the pop-out windows: id, text and status line of each
          timer,      \* queries with a running renderQueryPushTimer
          file,       \* the exported file, in a set of at most one
          battle,     \* the cursor is in a battle
          pending,    \* pendingFrameRequest
          latest,     \* latestFrame.renderSlots
          screen,     \* main.c's render_slots, of the active ones
          engine,     \* g_render_slots, of the first g_render_query_count
          attached,   \* schema b is attached
          toEngine, fromEngine,
          crossed,    \* history: errors were mapped with the ids of a later push
          clicks

editors == <<card, window, timer>>
drawing == <<pending, latest, screen>>
worker  == <<engine, attached>>
queriesVars == <<list, nextId, pushed, revalidate, editors, file, battle, drawing, worker,
                 toEngine, fromEngine, crossed, clicks>>

-----------------------------------------------------------------------------
(* The list.                                                               *)

\* An entry made from a text whose directives the fields repeat.
Entry(id, t) == [id |-> id, kind |-> t.kind, ring |-> t.ring, on |-> TRUE, text |-> t]

\* The elements of l at the positions J, in their order.
Ascending(J) == CHOOSE h \in [1 .. Cardinality(J) -> J] :
                    \A i, j \in DOMAIN h : i < j => h[i] < h[j]
Picked(l, J) == [n \in 1 .. Cardinality(J) |-> l[Ascending(J)[n]]]

Dots(l) == Picked(l, {i \in DOMAIN l : l[i].kind = "dots"})
IdsOf(l) == [i \in DOMAIN l |-> l[i].id]
Listed == Range(IdsOf(list))
At(id) == CHOOSE i \in DOMAIN list : list[i].id = id

\* pushRenderQueriesToEngine, with the list l and the windows w; and then, if
\* rebuilt, refreshAllRenderQueryPanels: new cards, whose status is empty.
Push(l, w, rebuilt) ==
    LET ids == IdsOf(Dots(l))
    IN  /\ list' = l /\ pushed' = ids
        /\ card' = [i \in Ids |-> IF rebuilt THEN "" ELSE IF i \in Range(ids) THEN "ok" ELSE card[i]]
        /\ window' = {IF v.id \in Range(ids) THEN [v EXCEPT !.status = "ok"] ELSE v : v \in w}
        /\ toEngine' = Append(toEngine, [op |-> "config", queries |-> Dots(l)])

UnderWay(ops) == \E m \in Range(toEngine) \cup Range(fromEngine) : m.op \in ops

\* The page shows itself to the user when it has the defaults.
Acting(name) == /\ name \in Acts /\ ~UnderWay({"defaults"})
                /\ clicks < MaxActs /\ clicks' = clicks + 1

elsewhere == <<battle, drawing, worker, fromEngine, crossed>>

\* addRenderQuery
Add == /\ Acting("add") /\ nextId <= MaxId /\ nextId' = nextId + 1
       /\ Push(Append(list, Entry(nextId, Added)), window, TRUE)
       /\ UNCHANGED <<revalidate, timer, file, elsewhere>>

\* deleteRenderQuery: its window goes first; its timer runs on.
Delete(id) ==
    /\ Acting("delete")
    /\ Push(Picked(list, {i \in DOMAIN list : list[i].id # id}), {v \in window : v.id # id}, TRUE)
    /\ UNCHANGED <<nextId, revalidate, timer, file, elsewhere>>

\* moveRenderQuery, and the drop of a dragged card
Move(id, to) ==
    /\ Acting("move") /\ to # At(id)
    /\ Push(InsertAt(RemoveAt(list, At(id)), to, list[At(id)]), window, TRUE)
    /\ UNCHANGED <<nextId, revalidate, timer, file, elsewhere>>

\* updateRenderQueryField: kind and shape are written into the text as well.
SetField(id, q) ==
    /\ Acting("field") /\ q # list[At(id)]
    /\ Push(ReplaceAt(list, At(id), q), window, TRUE)
    /\ UNCHANGED <<nextId, revalidate, timer, file, elsewhere>>

Retouched(q) ==
    {[q EXCEPT !.kind = k, !.text.kind = k] : k \in Kinds}
    \cup {[q EXCEPT !.ring = r, !.text.ring = r] : r \in BOOLEAN}
    \cup {[q EXCEPT !.on = o] : o \in BOOLEAN}

\* initDefaultRenderQueries
Defaults == [i \in DOMAIN Default |-> Entry(nextId + i - 1, Default[i])]

Renew(l) == /\ nextId + Len(l) - 1 <= MaxId /\ nextId' = nextId + Len(l)
            /\ Push(l, window, TRUE)

\* resetRenderQueriesToDefaults
Reset == /\ Acting("reset") /\ Renew(Defaults)
         /\ UNCHANGED <<revalidate, timer, file, elsewhere>>

\* exportRenderQueriesSql: the bundle has no shape.
Saved(l) == [i \in DOMAIN l |-> [kind |-> l[i].kind, on |-> l[i].on, text |-> l[i].text]]
Export == /\ Acting("file") /\ file' = {Saved(list)}
          /\ UNCHANGED <<list, nextId, pushed, revalidate, editors, toEngine, elsewhere>>

\* importRenderQueriesSqlFile
Import == /\ Acting("file")
          /\ \E f \in file : Renew([i \in DOMAIN f |->
                [id |-> nextId + i - 1, kind |-> f[i].kind, ring |-> FALSE, on |-> f[i].on,
                 text |-> f[i].text]])
          /\ UNCHANGED <<revalidate, timer, file, elsewhere>>
-----------------------------------------------------------------------------
(* Editors: a query's card, and its window.                                *)

\* createRenderQueryPopoutPanel: a second click finds the window there is.
OpenWindow(id) ==
    /\ Acting("window") /\ \A v \in window : v.id # id
    /\ window' = window \cup {[id |-> id, text |-> list[At(id)].text, status |-> ""]}
    /\ UNCHANGED <<list, nextId, pushed, revalidate, card, timer, file, toEngine, elsewhere>>

CloseWindow(v) ==
    /\ Acting("window") /\ window' = window \ {v}
    /\ UNCHANGED <<list, nextId, pushed, revalidate, card, timer, file, toEngine, elsewhere>>

Retyped(t) == {[t EXCEPT !.good = b] : b \in BOOLEAN} \cup {[t EXCEPT !.ring = b] : b \in BOOLEAN}

\* Typing into the card or the window of a query: the other mirrors it
\* (onTextChanged, syncRenderQueryText).
Type(id, t) ==
    /\ Acting("type")
    /\ list' = IF id \in Listed THEN [list EXCEPT ![At(id)].text = t] ELSE list
    /\ window' = {IF v.id = id THEN [v EXCEPT !.text = t] ELSE v : v \in window}
    /\ timer' = timer \cup {id}
    /\ UNCHANGED <<nextId, pushed, revalidate, card, file, toEngine, elsewhere>>

TypeInCard   == \E id \in Listed : \E t \in Retyped(list[At(id)].text) \ {list[At(id)].text} : Type(id, t)
TypeInWindow == \E v \in window : \E t \in Retyped(v.text) \ {v.text} : Type(v.id, t)

\* debouncedPushRenderQueries: 400 ms later.
Fire(id) ==
    /\ timer' = timer \ {id} /\ Push(list, window, FALSE)
    /\ UNCHANGED <<nextId, revalidate, file, clicks, elsewhere>>

\* An editor with text t loses the focus: its directives become the fields.
Blur(id, t) ==
    /\ Acting("blur")
    /\ Push(IF id \in Listed THEN [list EXCEPT ![At(id)].kind = t.kind, ![At(id)].ring = t.ring]
            ELSE list, window, TRUE)
    /\ UNCHANGED <<nextId, revalidate, timer, file, elsewhere>>

BlurCard   == \E id \in Listed : Blur(id, list[At(id)].text)
BlurWindow == \E v \in window : Blur(v.id, v.text)

-----------------------------------------------------------------------------
(* The worker.                                                             *)

Slot(q) == [text |-> q.text, ring |-> q.ring, on |-> q.on]
FirstOf(l, n) == SubSeq(l, 1, IF Len(l) < n THEN Len(l) ELSE n)

\* replay_render_query_configure of each query: slots there are not are ignored.
Overwritten(queries) ==
    LET new == FirstOf([i \in DOMAIN queries |-> Slot(queries[i])], EngineMax)
    IN  new \o SubSeq(engine, Len(new) + 1, Len(engine))

\* Mutated form of Configured: replay_render_query_set_count is not called.
ConfiguredOnly(queries) == Overwritten(queries)
\* ... and replay_render_query_set_count
Configured(queries) == FirstOf(Overwritten(queries), Len(queries))

\* The trial sqlite3_prepare_v2
Failing(slots) == {i \in DOMAIN slots : ~(slots[i].text.good /\ attached)}

\* runFrame: what each slot shows, nothing if it is disabled or fails.
Rendered(slots, b) ==
    [i \in DOMAIN slots |->
        [rows |-> IF slots[i].on /\ slots[i].text.good /\ b THEN {slots[i].text} ELSE {},
         ring |-> slots[i].ring]]

\* A frame in a battle attaches b (build_frame_at_time); a revert detaches it
\* (replay_invalidate_caches_after_revert).
Work ==
    /\ toEngine # <<>> /\ toEngine' = Tail(toEngine)
    /\ LET m == Head(toEngine)
       IN  \/ /\ m.op = "defaults" /\ fromEngine' = Append(fromEngine, m)
              /\ UNCHANGED worker
           \/ /\ m.op = "config" /\ engine' = Configured(m.queries)
              /\ fromEngine' = Append(fromEngine,
                     [op |-> "configured", errors |-> Failing(engine')])
              /\ UNCHANGED attached
           \/ /\ m.op = "frame" /\ attached' = (attached \/ m.battle)
              /\ fromEngine' = Append(fromEngine,
                     [op |-> "frame", battle |-> m.battle, slots |-> Rendered(engine, attached')])
              /\ UNCHANGED engine
           \/ /\ m.op = "revert" /\ attached' = FALSE
              /\ fromEngine' = Append(fromEngine, [op |-> "reverted"])
              /\ UNCHANGED engine
    /\ UNCHANGED <<list, nextId, pushed, revalidate, editors, file, battle, drawing, crossed,
                   clicks>>

-----------------------------------------------------------------------------
(* The page's messages and its render loop.                                *)

\* renderQueriesConfigured: a slot's error goes to the query of the last push.
OnConfigured(m) ==
    LET failed == {pushed[i] : i \in m.errors \cap DOMAIN pushed}
    IN  /\ card' = [i \in Ids |-> IF i \in failed \cap Listed THEN "error" ELSE card[i]]
        /\ window' = {IF v.id \in failed THEN [v EXCEPT !.status = "error"] ELSE v : v \in window}
        /\ crossed' = (crossed \/ (m.errors # {} /\
                          \E n \in Range(toEngine) \cup Range(Tail(fromEngine)) :
                              n.op \in {"config", "configured"}))
        /\ UNCHANGED <<list, nextId, pushed, revalidate, pending, latest, toEngine>>

Revalidates(inBattle) == revalidate /\ inBattle

\* The queries are pushed again when the first frame has attached b.
OnFrame(m) ==
    /\ pending' = FALSE /\ latest' = m.slots
    /\ revalidate' = (revalidate /\ ~Revalidates(m.battle))
    /\ IF Revalidates(m.battle) THEN Push(list, window, FALSE)
       ELSE UNCHANGED <<list, pushed, card, window, toEngine>>
    /\ UNCHANGED <<nextId, crossed>>

\* checkpointReverted asks for a frame as well, if none is on its way (seekTo).
OnReverted ==
    /\ revalidate' = TRUE /\ pending' = TRUE
    /\ toEngine' = IF pending THEN toEngine
                   ELSE Append(toEngine, [op |-> "frame", battle |-> battle])
    /\ UNCHANGED <<list, nextId, pushed, card, window, latest, crossed>>

Receive ==
    /\ fromEngine # <<>> /\ fromEngine' = Tail(fromEngine)
    /\ LET m == Head(fromEngine)
       IN  CASE m.op = "defaults"   -> /\ Renew(Defaults)
                                       /\ UNCHANGED <<revalidate, pending, latest, crossed>>
             [] m.op = "configured" -> OnConfigured(m)
             [] m.op = "frame"      -> OnFrame(m)
             [] m.op = "reverted"   -> OnReverted
    /\ UNCHANGED <<timer, file, battle, screen, worker, clicks>>

\* update_render_slot_data of each slot: the number of active slots only grows.
Copied(new) ==
    LET n == IF Len(new) < ScreenMax THEN Len(new) ELSE ScreenMax
        m == IF Len(screen) < n THEN n ELSE Len(screen)
    IN  [i \in 1 .. m |-> IF i <= n THEN new[i] ELSE screen[i]]

\* loop: one frame is asked for at a time, and the last one is drawn.
Loop ==
    /\ pending' = TRUE
    /\ toEngine' = IF pending THEN toEngine
                   ELSE Append(toEngine, [op |-> "frame", battle |-> battle])
    /\ screen' = Copied(latest)
    /\ UNCHANGED <<list, nextId, pushed, revalidate, editors, file, battle, latest, worker,
                   fromEngine, crossed, clicks>>

RevertList == /\ Acting("revert") /\ toEngine' = Append(toEngine, [op |-> "revert"])
              /\ UNCHANGED <<list, nextId, pushed, revalidate, editors, file, elsewhere>>

Seek == /\ Acting("seek") /\ battle' = ~battle
        /\ UNCHANGED <<list, nextId, pushed, revalidate, editors, file, drawing, worker, toEngine,
                       fromEngine, crossed>>

\* A load has ended: the engine has its own defaults (seed_default_render_queries)
\* and the page asks for them.
QueriesInit ==
    /\ list = <<>> /\ nextId = 1 /\ pushed = <<>> /\ revalidate = TRUE
    /\ card = [i \in Ids |-> ""] /\ window = {} /\ timer = {} /\ file = {} /\ battle \in BOOLEAN
    /\ pending = FALSE /\ latest = <<>> /\ screen = <<>>
    /\ engine = [i \in DOMAIN Dots(Defaults) |-> Slot(Dots(Defaults)[i])] /\ attached = FALSE
    /\ toEngine = <<[op |-> "defaults"]>> /\ fromEngine = <<>> /\ crossed = FALSE /\ clicks = 0

EventTurn == Work \/ Receive \/ Loop
Due  == \E id \in timer : Fire(id)

QueriesNext ==
    \/ Add \/ Reset \/ Export \/ Import \/ RevertList \/ Seek
    \/ \E id \in Listed : \/ Delete(id) \/ OpenWindow(id)
                          \/ \E to \in DOMAIN list : Move(id, to)
                          \/ \E q \in Retouched(list[At(id)]) : SetField(id, q)
    \/ \E v \in window : CloseWindow(v)
    \/ TypeInCard \/ TypeInWindow \/ BlurCard \/ BlurWindow
    \/ Due \/ EventTurn

QueriesFairness == WF_queriesVars(EventTurn) /\ WF_queriesVars(Due)
QueriesSpec == QueriesInit /\ [][QueriesNext]_queriesVars /\ QueriesFairness

-----------------------------------------------------------------------------
Query == [id : Ids, kind : Kinds, ring : BOOLEAN, on : BOOLEAN, text : Texts]
Status == {"", "ok", "error"}

QueriesTypeOK ==
    /\ list \in Seq(Query) /\ IsInjective(IdsOf(list)) /\ nextId \in 1 .. MaxId + 1
    /\ \A i \in DOMAIN list : list[i].id < nextId
    /\ pushed \in Seq(Ids) /\ IsInjective(pushed) /\ timer \subseteq Ids
    /\ revalidate \in BOOLEAN /\ battle \in BOOLEAN /\ pending \in BOOLEAN /\ attached \in BOOLEAN
    /\ card \in [Ids -> Status] /\ window \subseteq [id : Ids, text : Texts, status : Status]
    /\ \A v, w \in window : v.id = w.id => v = w
    /\ Len(engine) <= EngineMax /\ Len(latest) <= EngineMax /\ Len(screen) <= ScreenMax
    /\ engine \in Seq([text : Texts, ring : BOOLEAN, on : BOOLEAN])

Wanted == FirstOf([i \in DOMAIN Dots(list) |-> Slot(Dots(list)[i])], EngineMax)

\* Once the pushes are through, the engine has the enabled and disabled queries
\* of kind dots in the order of the list with their last texts, and no other, as
\* far as its slots reach: whatever was typed, moved, deleted, reset or imported
\* meanwhile.
EngineHoldsList ==
    ~UnderWay({"defaults", "config"}) /\ timer = {} => engine = Wanted

Rest == ~UnderWay({"defaults", "config", "configured", "revert", "reverted"}) /\ timer = {}
Slots == DOMAIN Wanted

\* The card of a query the engine cannot prepare says so, even when the cards
\* were rebuilt or the list reordered while the reply was on its way.
ErrorsAreShown == Rest => \A i \in Slots : ~Dots(list)[i].text.good => card[Dots(list)[i].id] = "error"

\* And no other card does, not even those validated before b was attached, on a
\* load or after a revert; but for errors that came back after a later push.
NoFalseErrors ==
    Rest /\ ~revalidate /\ ~crossed =>
        \A i \in DOMAIN list : card[list[i].id] = "error" =>
            list[i].kind = "dots" /\ ~list[i].text.good

\* The engine has the list, and the cards say what the engine said of it.
QueriesAreHeld == QueriesTypeOK /\ EngineHoldsList /\ ErrorsAreShown /\ NoFalseErrors

\* The screen comes to show the queries of the list in their order, each as its
\* text and shape say, as far as the renderer's buffers reach.
DrawnRight == LET expected == FirstOf(Rendered(Wanted, attached), ScreenMax)
              IN  expected = FirstOf(screen, Len(expected))
DrawnComesRight == <>[]DrawnRight
=============================================================================

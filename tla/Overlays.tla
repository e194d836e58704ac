------------------------------ MODULE Overlays ------------------------------
(***************************************************************************)
(* The two overlays of the map that are drawn by the page itself from      *)
(* background SQL: the chat windows and the layer of NATO symbols          *)
(* (src/main.js).                                                          *)
(*                                                                         *)
(* Both ask for rows when a frame shows a new tick, in a queue with one    *)
(* request at the worker, and the worker answers for whatever tick it is   *)
(* at by then.  A row stands for all rows of its query at one tick: it is  *)
(* the place on the timeline and the version of the data it was read in.   *)
(***************************************************************************)
EXTENDS Integers, Sequences

CONSTANTS Places,      \* ticks the cursor can be moved to
          Gap,         \* the places between battles
          Units,       \* Units[p]: row keys of the symbols query at p
          ChatQueries, \* enabled queries of kind chat
          MaxSeeks, MaxMishaps   \* bounds: seeks; reverts, failures, toggles

ASSUME OverlayConstants ==
    /\ Places \subseteq Nat /\ Gap \subseteq Places
    /\ \A p \in Gap : Units[p] = {}
    /\ ChatQueries \in Nat \ {0}
    /\ {MaxSeeks, MaxMishaps} \subseteq Nat

VARIABLES spot,        \* replayTime
          awaited,     \* pendingFrameRequest
          pictured,    \* latestFrame's place
          at,          \* the worker's CURRENT_TICK
          data,        \* version of the database: reverts
          toEngine, fromEngine,
          active,      \* activeSqlRequest, in a set of at most one
          queue,       \* sqlRequestQueue
          chatKey,     \* lastChatQueryKey
          chat,        \* the rows on screen
          sym,         \* the symbols query: see Symbols
          on,          \* it is enabled
          excused,     \* overlays something happened to that the code answers
                       \* only at the next tick: history
          done         \* what the user and the faults have done

overlayAsking == <<active, queue>>
overlayVars == <<spot, awaited, pictured, at, data, toEngine, fromEngine, overlayAsking, chatKey,
                 chat, sym, on, excused, done>>

NoPlace == -1
NoKey   == -2

\* An entry of natoSymbolQueryState: tickKey, rowsA and rowsB, the row keys with
\* a cached element, and those whose element is in the layer.  drawn is rowsA
\* and was whether the query was enabled at the last pass over the layer.
Symbols == [key |-> NoKey, a |-> {}, b |-> {}, drawn |-> {}, was |-> TRUE, elements |-> {},
            attached |-> {}]
KeysOf(rows) == UNION {Units[r[1]] : r \in rows}

-----------------------------------------------------------------------------
(* One request at a time (postSqlRequest, pumpSqlRequestQueue).            *)

\* s: active, queue and what is posted to the worker.
OverlayPumped(s) ==
    IF s.active # {} \/ s.queue = <<>> THEN s
    ELSE [active |-> {Head(s.queue)}, queue |-> Tail(s.queue),
          post |-> Append(s.post, [type |-> "sql", req |-> Head(s.queue)])]

OverlayAsked(s, r) == OverlayPumped([s EXCEPT !.queue = Append(@, r)])

OverlayLine == [active |-> active, queue |-> queue, post |-> <<>>]

LineBecomes(then) == \E s \in {then} :
    active' = s.active /\ queue' = s.queue /\ toEngine' = toEngine \o s.post

OverlayRequest(what, left, rows) == [what |-> what, left |-> left, rows |-> rows]

-----------------------------------------------------------------------------
(* A frame arrives.                                                        *)

\* The frame handler: `${activeMatchIndex}:${currentTickId}` has changed.
ChatWanted(p) == p # chatKey

\* refreshChatFromQuery: nothing is asked in a gap.
ChatAsked(s, p) ==
    IF ChatWanted(p) /\ p \notin Gap
    THEN OverlayAsked(s, OverlayRequest("chat", ChatQueries - 1, {})) ELSE s

\* The pass over the layer: an element is appended when it is made.
Drawn(y) ==
    LET keys == KeysOf(y.a)
    IN  [y EXCEPT !.drawn = y.a, !.elements = keys,
                  !.attached = (@ \cup (keys \ y.elements)) \cap keys]

LayerBlank(p) == p \in Gap \/ ~on

\* refreshNatoSymbolQuery
SymbolsAsked(s, p) ==
    IF ~LayerBlank(p) /\ p # sym.key THEN OverlayAsked(s, OverlayRequest("a", 0, {})) ELSE s

\* updateNatoSymbolLayer: the early return empties the layer, and only that.
OnFrameSymbols(p) ==
    sym' = IF LayerBlank(p) THEN [sym EXCEPT !.attached = {}, !.was = on]
           ELSE Drawn([sym EXCEPT !.key = p, !.was = on])

OverlaysOnFrame(m) ==
    /\ awaited' = FALSE /\ pictured' = m.at /\ chatKey' = m.at
    /\ chat' = IF ChatWanted(m.at) /\ m.at \in Gap THEN {} ELSE chat
    /\ OnFrameSymbols(m.at)
    /\ excused' = (excused \ ((IF ChatWanted(m.at) THEN {"chat"} ELSE {})
                              \cup (IF ~LayerBlank(m.at) /\ m.at # sym.key THEN {"symbols"} ELSE {})))
                  \cup (IF LayerBlank(m.at) THEN {"symbols"} ELSE {})
    /\ LineBecomes(SymbolsAsked(ChatAsked(OverlayLine, m.at), m.at))
    /\ UNCHANGED <<spot, on, done>>

-----------------------------------------------------------------------------
(* An answer arrives.                                                      *)

\* Mutated form of Answered: the next request waits for the next question.
OverlayAnsweredAlone == [OverlayLine EXCEPT !.active = {}]
\* finishSqlRequest
OverlayAnswered == OverlayPumped([OverlayLine EXCEPT !.active = {}])

OnRows(m) ==
    LET r == m.req
        got == r.rows \cup m.rows
    IN  /\ LineBecomes(CASE r.what = "chat" /\ r.left > 0 ->
                          OverlayAsked(OverlayAnswered, OverlayRequest("chat", r.left - 1, got))
                     [] r.what = "a" -> OverlayAsked(OverlayAnswered, OverlayRequest("b", 0, {}))
                     [] OTHER -> OverlayAnswered)
        /\ chat' = IF r.what = "chat" /\ r.left = 0 THEN got ELSE chat
        /\ sym' = CASE r.what = "a" -> [sym EXCEPT !.a = m.rows]
                    [] r.what = "b" -> [sym EXCEPT !.b = m.rows]
                    [] OTHER -> sym
        /\ UNCHANGED <<spot, awaited, pictured, chatKey, on, excused, done>>

\* Both refreshes swallow the error and leave what is on screen.
OnRowsError(m) ==
    /\ LineBecomes(OverlayAnswered)
    /\ excused' = excused \cup {IF m.req.what = "chat" THEN "chat" ELSE "symbols"}
    /\ UNCHANGED <<spot, awaited, pictured, chatKey, chat, sym, on, done>>

\* Mutated form of ChatForced: the key survives a revert.
ChatForcedNot == chatKey
\* The handler of checkpointReverted: the chat is asked for again.
ChatForced == NoKey

\* ... and a frame, if none is on its way (seekTo).
OverlaysOnReverted ==
    /\ chatKey' = ChatForced
    /\ awaited' = TRUE
    /\ toEngine' = IF awaited THEN toEngine ELSE Append(toEngine, [type |-> "frame", at |-> spot])
    /\ excused' = excused \cup {"symbols"}
    /\ UNCHANGED <<spot, pictured, overlayAsking, chat, sym, on, done>>

OverlaysReceive ==
    /\ fromEngine # <<>> /\ fromEngine' = Tail(fromEngine)
    /\ LET m == Head(fromEngine)
       IN  CASE m.type = "frame"    -> OverlaysOnFrame(m)
             [] m.type = "done"     -> OnRows(m)
             [] m.type = "error"    -> OnRowsError(m)
             [] m.type = "reverted" -> OverlaysOnReverted
    /\ UNCHANGED <<at, data>>

-----------------------------------------------------------------------------
(* The playback worker.                                                    *)

RowsNow(r) == IF r.what # "chat" /\ at \in Gap THEN {} ELSE {<<at, data>>}

OverlaysWork ==
    /\ toEngine # <<>> /\ toEngine' = Tail(toEngine)
    /\ LET m == Head(toEngine)
       IN  \/ /\ m.type = "frame" /\ at' = m.at
              /\ fromEngine' = Append(fromEngine, [type |-> "frame", at |-> m.at])
              /\ UNCHANGED <<data, done>>
           \/ /\ m.type = "sql"
              /\ fromEngine' = Append(fromEngine, [type |-> "done", req |-> m.req,
                                                   rows |-> RowsNow(m.req)])
              /\ UNCHANGED <<at, data, done>>
           \/ /\ m.type = "sql" /\ done.mishaps < MaxMishaps
              /\ fromEngine' = Append(fromEngine, [type |-> "error", req |-> m.req])
              /\ done' = [done EXCEPT !.mishaps = @ + 1] /\ UNCHANGED <<at, data>>
           \/ /\ m.type = "revert" /\ data' = data + 1
              /\ fromEngine' = Append(fromEngine, [type |-> "reverted"])
              /\ UNCHANGED <<at, done>>
    /\ UNCHANGED <<spot, awaited, pictured, overlayAsking, chatKey, chat, sym, on, excused>>

-----------------------------------------------------------------------------
(* The user, and the render loop that asks for frames.                     *)

AwaitFrame ==
    /\ ~awaited /\ awaited' = TRUE
    /\ toEngine' = Append(toEngine, [type |-> "frame", at |-> spot])
    /\ UNCHANGED <<spot, pictured, at, data, fromEngine, overlayAsking, chatKey, chat, sym, on,
                   excused, done>>

MoveSpot(p) ==
    /\ done.moves < MaxSeeks /\ p # spot /\ spot' = p
    /\ done' = [done EXCEPT !.moves = @ + 1]
    /\ UNCHANGED <<awaited, pictured, at, data, toEngine, fromEngine, overlayAsking, chatKey, chat,
                   sym, on, excused>>

RevertRows ==
    /\ done.mishaps < MaxMishaps /\ done' = [done EXCEPT !.mishaps = @ + 1]
    /\ toEngine' = Append(toEngine, [type |-> "revert"])
    /\ UNCHANGED <<spot, awaited, pictured, at, data, fromEngine, overlayAsking, chatKey, chat, sym,
                   on, excused>>

\* The query's checkbox.
ToggleSymbols ==
    /\ done.mishaps < MaxMishaps /\ done' = [done EXCEPT !.mishaps = @ + 1]
    /\ on' = ~on /\ excused' = excused \cup {"symbols"}
    /\ UNCHANGED <<spot, awaited, pictured, at, data, toEngine, fromEngine, overlayAsking, chatKey, chat,
                   sym>>

OverlaysInit ==
    /\ spot \in Places /\ awaited = FALSE /\ pictured = NoPlace /\ at = NoPlace /\ data = 0
    /\ toEngine = <<>> /\ fromEngine = <<>> /\ active = {} /\ queue = <<>>
    /\ chatKey = NoKey /\ chat = {} /\ sym = Symbols /\ on = TRUE /\ excused = {}
    /\ done = [moves |-> 0, mishaps |-> 0]

OverlaysTurn == OverlaysReceive \/ OverlaysWork \/ AwaitFrame
OverlaysNext == OverlaysTurn \/ (\E p \in Places : MoveSpot(p)) \/ RevertRows \/ ToggleSymbols

OverlaysFairness == WF_overlayVars(OverlaysTurn)
OverlaysSpec == OverlaysInit /\ [][OverlaysNext]_overlayVars /\ OverlaysFairness

-----------------------------------------------------------------------------
OverlayRequests == [what : {"chat", "a", "b"}, left : 0 .. ChatQueries - 1,
                    rows : SUBSET ((Places \cup {NoPlace}) \X Nat)]

OverlaysTypeOK ==
    /\ spot \in Places /\ awaited \in BOOLEAN /\ on \in BOOLEAN
    /\ {pictured, at} \subseteq Places \cup {NoPlace}
    /\ active \subseteq OverlayRequests /\ \A r, s \in active : r = s
    /\ \A i \in DOMAIN queue : queue[i] \in OverlayRequests /\ active # {}
    /\ chatKey \in Places \cup {NoKey} /\ sym.key \in Places \cup {NoKey}
    /\ sym.attached \subseteq sym.elements
    /\ excused \subseteq {"chat", "symbols"}

\* Nothing is under way but requests for frames, and the frame on screen is the
\* cursor's.
OverlaysRest == /\ \A i \in DOMAIN toEngine : toEngine[i].type = "frame"
                /\ \A i \in DOMAIN fromEngine : fromEngine[i].type = "frame"
                /\ active = {} /\ queue = <<>> /\ pictured = spot /\ at = spot /\ chatKey = spot
                /\ sym.was = on
                /\ LayerBlank(pictured) \/ (sym.key = pictured /\ sym.drawn = sym.a)

Fresh(rows) == rows = {<<pictured, data>>}

\* In a battle, however frames, queued requests and seeks overlapped, the chat
\* comes to rest on all its queries' rows of the tick on screen and of no
\* other, unless the last refresh failed.
ChatComesRight == OverlaysRest /\ pictured \notin Gap /\ "chat" \notin excused => Fresh(chat)

\* The same for the symbols, both of the tick's own rows and those of the next
\* tick they are blended with: unless the layer was blanked, reverted under, or
\* a query of it failed since the tick was last asked for.
SymbolsComeRight ==
    OverlaysRest /\ ~LayerBlank(pictured) /\ "symbols" \notin excused => Fresh(sym.a) /\ Fresh(sym.b)

\* The layer never shows a symbol of a row it does not have, nor any symbol in
\* a gap or with the query disabled.
NoForeignSymbols ==
    OverlaysRest => sym.attached \subseteq (IF LayerBlank(pictured) THEN {} ELSE KeysOf(sym.a))

\* The overlays' queue keeps to one request at the worker, and what they show at rest
\* is of the tick on screen.
OverlaysComeRight == OverlaysTypeOK /\ ChatComesRight /\ SymbolsComeRight /\ NoForeignSymbols

\* A user who leaves the cursor alone gets there, and stays.
OverlaysComeToRest == <>[]OverlaysRest
=============================================================================

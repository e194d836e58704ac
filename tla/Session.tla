------------------------------ MODULE Session ------------------------------
(***************************************************************************)
(* What the windows of the page ask the playback worker for, through one   *)
(* queue of SQL requests and one shared promise per derived schema, and    *)
(* what becomes of it when an answer fails, the worker throws, or the user *)
(* resets and loads another replay (src/main.js, src/replay-worker.js).    *)
(*                                                                         *)
(* A session is the time of one playbackWorker; its number tags what was   *)
(* asked in it.  Two queues of messages join page and worker.  What the    *)
(* microtasks of a handler do is part of the handler's action.             *)
(***************************************************************************)
EXTENDS Naturals, Sequences, FiniteSets, Functions, SequencesExt

CONSTANTS Terminals,    \* SQL Terminal windows
          Explorers,    \* Schema Explorer windows, all of them visible
          Wants,        \* Wants[e]: the derived schemas e's filter names
          Queries,      \* schema queries of one refresh
          Statements,   \* statements of one "Save changes"
          MaxActs,      \* bounds of the model: what the user does,
          MaxSessions   \* and the replays loaded

Kinds == {1, 2}   \* viewKind: replay.db (r), battle.db (b)
None  == 0

ASSUME SessionConstants ==
    /\ Wants \in [Explorers -> SUBSET Kinds]
    /\ Queries \in Nat \ {0} /\ Statements \in Nat \ {0}
    /\ MaxActs \in Nat /\ MaxSessions \in Nat
    /\ IsFiniteSet(Terminals) /\ IsFiniteSet(Explorers)
    /\ Terminals \cap Explorers = {}

VARIABLES worker,     \* the session of playbackWorker, None without one
          loads,      \* sessions there have been
          active,     \* activeSqlRequest, in a set of at most one
          queue,      \* sqlRequestQueue
          asked,      \* sqlRequestSeq
          win,        \* of each terminal: see Idle
          refresh,    \* of each explorer: the stages left of its refresh
          inFlight,   \* dbViewInFlight and dbViewPending: the session asked in
          exporting,  \* exportInFlight: the session it was asked in
          packing,    \* the compress worker has a battle
          toWorker, toPage,
          stale,      \* the worker's side: schemas that an ensure will rebuild
          acts,       \* what the user has done
          threw       \* a message of this session threw in the worker

request == <<active, queue, asked>>
page == <<request, win, refresh, inFlight, exporting, packing>>
vars == <<worker, loads, page, toWorker, toPage, stale, acts, threw>>

\* A terminal's sqlState and results: the status line is busy since a session;
\* the queries whose tables are in the results area; the query whose columns
\* are in resultColumns; the query in lastResults; whether a query was run
\* before the one before it had its answer.
Idle == [busy |-> FALSE, since |-> None, tables |-> <<>>, columns |-> None,
         last |-> None, hasty |-> FALSE]

\* What is left to do of a refresh: schemas to ensure, then queries.  The first
\* stage is the one under way; no stage is left when the explorer is at rest.
NotRefreshing == [since |-> None, stages |-> <<>>]
Ensuring(e, k) == IF k \in Wants[e] THEN <<[op |-> "ensure", kind |-> k]>> ELSE <<>>
Stages(e) == Ensuring(e, 1) \o Ensuring(e, 2)
             \o [i \in 1 .. Queries |-> [op |-> "query", kind |-> None]]

-----------------------------------------------------------------------------
(* The queue of SQL requests.  A page p is a record of what a handler may  *)
(* change, the messages on their way to the worker among it.               *)

Page == [active |-> active, queue |-> queue, asked |-> asked, win |-> win,
         refresh |-> refresh, inFlight |-> inFlight, toWorker |-> toWorker]

Becomes(then) ==
    \E p \in {then} :
        /\ active' = p.active /\ queue' = p.queue /\ asked' = p.asked
        /\ win' = p.win /\ refresh' = p.refresh /\ inFlight' = p.inFlight
        /\ toWorker' = p.toWorker

Posted(p, m) == [p EXCEPT !.toWorker = Append(@, m)]

Busy(p, t) == [p EXCEPT !.win[t] = [@ EXCEPT !.busy = TRUE, !.since = worker]]

\* pumpSqlRequestQueue: the next request goes to the worker.
Pumped(p) ==
    IF p.active # {} \/ p.queue = <<>> THEN p
    ELSE LET r == Head(p.queue)
             q == [p EXCEPT !.queue = Tail(@), !.active = {r}]
         IN  Posted(IF r.task = "run" THEN Busy(q, r.of) ELSE q, [op |-> "sql", req |-> r])

Background(r) == r.task = "refresh"

\* A request of the user goes before the first of the background that waits.
Enqueued(q, r) == LET idx == SelectInSeq(q, Background)
                  IN  IF Background(r) \/ idx = 0 THEN Append(q, r) ELSE InsertAt(q, idx, r)

\* postSqlRequest
Requested(p, task, of, query, left) ==
    LET r == [id |-> p.asked + 1, task |-> task, of |-> of, query |-> query, left |-> left]
    IN  Pumped([p EXCEPT !.asked = @ + 1, !.queue = Enqueued(p.queue, r)])

Mine(p, t) == {r \in p.active \cup ToSet(p.queue) : r.task \in {"run", "save"} /\ r.of = t}

\* Mutated form of RunInto: the results of the query before stay in the window.
RunIntoKept(p, t, query) ==
    LET cleared == [p EXCEPT !.win[t] = [@ EXCEPT !.columns = None, !.last = None,
                                                  !.hasty = Mine(p, t) # {}]]
    IN  Requested(Busy(cleared, t), "run", t, query, 0)

\* runSqlIntoResultsTable
RunInto(p, t, query) ==
    LET cleared == [p EXCEPT !.win[t] = [@ EXCEPT !.tables = <<>>, !.columns = None,
                                                  !.last = None, !.hasty = Mine(p, t) # {}]]
    IN  Requested(Busy(cleared, t), "run", t, query, 0)

-----------------------------------------------------------------------------
(* Derived schemas and the refresh of a Schema Explorer.                   *)

\* ensureDbViewAsync: whoever asks meanwhile shares the promise.
Ensured(p, k) ==
    IF p.inFlight[k] # None THEN p
    ELSE Posted([p EXCEPT !.inFlight[k] = worker], [op |-> "ensure", kind |-> k])

\* The stage of e's refresh that is now first is begun, if one is left.
Begun(p, e) ==
    IF p.refresh[e].stages = <<>> THEN [p EXCEPT !.refresh[e] = NotRefreshing]
    ELSE IF Head(p.refresh[e].stages).op = "ensure"
         THEN Ensured(p, Head(p.refresh[e].stages).kind)
         ELSE Requested(p, "refresh", e, None, 0)

Advanced(p, e) == Begun([p EXCEPT !.refresh[e].stages = Tail(@)], e)

\* refreshSchemaExplorerPanel
Refreshed(p, e) ==
    IF worker = None \/ p.refresh[e].stages # <<>> THEN p
    ELSE Begun([p EXCEPT !.refresh[e] = [since |-> worker, stages |-> Stages(e)]], e)

RefreshAll(p) ==
    LET panels == SetToSeq(Explorers)
        after[n \in 0 .. Len(panels)] ==
            IF n = 0 THEN p ELSE Refreshed(after[n - 1], panels[n])
    IN  after[Len(panels)]

\* The explorers that await the promise of schema k.
Awaiting(p, k) ==
    {e \in Explorers : /\ p.refresh[e].stages # <<>>
                       /\ Head(p.refresh[e].stages) = [op |-> "ensure", kind |-> k]}

\* The promise of schema k settles, whether or not it was this answer's, and
\* those who await it go on.
Settled(p, k) ==
    LET panels == SetToSeq(Awaiting(p, k))
        after[n \in 0 .. Len(panels)] ==
            IF n = 0 THEN [p EXCEPT !.inFlight[k] = None]
            ELSE Advanced(after[n - 1], panels[n])
    IN  after[Len(panels)]

-----------------------------------------------------------------------------
(* What the user does.                                                     *)

CanAct == worker # None /\ acts < MaxActs /\ acts' = acts + 1

\* sqlTerminalRun
Run(t) == /\ CanAct
          /\ Becomes(RunInto(Page, t, asked + 1))
          /\ UNCHANGED <<worker, loads, exporting, packing, toPage, stale, threw>>

\* saveSqlTerminalResultsChanges: the edits are read from the first table in the
\* results area and written as those of lastResults.
CanSave(t) == win[t].last # None /\ win[t].tables # <<>>

Save(t) == /\ CanAct
           /\ CanSave(t)
           /\ Becomes(Requested(Busy(Page, t), "save", t, win[t].last, Statements))
           /\ UNCHANGED <<worker, loads, exporting, packing, toPage, stale, threw>>

\* A terminal selects schema k, or the battle changes while one has it selected
\* (sqlTerminalDbChanged, refreshDbViewForActiveBattleIfNeeded).
Select(k) == /\ CanAct
             /\ Becomes(Ensured(Page, k))
             /\ stale' \in {stale, stale \cup {k}}
             /\ UNCHANGED <<worker, loads, exporting, packing, toPage, threw>>

\* An explorer is shown or its Refresh is clicked.
Show(e) == /\ CanAct
           /\ Becomes(Refreshed(Page, e))
           /\ UNCHANGED <<worker, loads, exporting, packing, toPage, stale, threw>>

\* A generator script is run or reset; a checkpoint is reverted to.
Post(m) == /\ CanAct
           /\ toWorker' = Append(toWorker, m)
           /\ UNCHANGED <<worker, loads, page, toPage, stale, threw>>

\* exportActiveBattle
Export == /\ CanAct
          /\ exporting = None
          /\ exporting' = worker
          /\ toWorker' = Append(toWorker, [op |-> "export"])
          /\ UNCHANGED <<worker, loads, request, win, refresh, inFlight, packing,
                         toPage, stale, threw>>

\* Mutated form of Reset: the request under way is waited for ever after.
ResetKeepsActive ==
    /\ CanAct
    /\ worker' = None
    /\ toWorker' = <<>> /\ toPage' = <<>>
    /\ stale' = {} /\ threw' = FALSE
    /\ UNCHANGED <<loads, request, win, refresh, inFlight, exporting, packing>>

\* triggerReset: messages of the worker that goes are no longer listened to.
Reset == /\ CanAct
         /\ worker' = None
         /\ active' = {} /\ queue' = <<>>
         /\ toWorker' = <<>> /\ toPage' = <<>>
         /\ stale' = {} /\ threw' = FALSE
         /\ UNCHANGED <<loads, asked, win, refresh, inFlight, exporting, packing>>

\* A replay is loaded and plays, in workers of its own.
Load == /\ worker = None /\ loads < MaxSessions
        /\ loads' = loads + 1
        /\ worker' = loads + 1
        /\ stale' = Kinds
        /\ UNCHANGED <<page, toWorker, toPage, acts, threw>>

-----------------------------------------------------------------------------
(* The worker takes one message at a time.                                 *)

\* What runSqlGeneric may post for request r, a statement of the user having
\* result columns or none; only a run shows columns to anyone.
SqlAnswers(r) ==
    LET done   == [op |-> "sqlDone", req |-> r]
        failed == [op |-> "sqlError", req |-> r]
        columns(some) == [op |-> "sqlColumns", req |-> r, some |-> some]
    IN  {<<done>>, <<failed>>} \cup
        IF r.task # "run" THEN {}
        ELSE {<<columns(TRUE), done>>, <<columns(FALSE), done>>, <<columns(TRUE), failed>>}

Ready(k, rebuilt) == [op |-> "viewReady", kind |-> k, rebuilt |-> rebuilt]
Failed(k) == [op |-> "viewError", kind |-> k]

Answer(m, answers) == /\ toWorker # <<>> /\ Head(toWorker) = m
                      /\ toWorker' = Tail(toWorker)
                      /\ toPage' = toPage \o answers
                      /\ UNCHANGED <<worker, loads, page, acts, threw>>

\* runSql, runSchemaQuery; a statement that writes makes what is derived stale.
RunSql(m) == /\ m.op = "sql"
             /\ \E a \in SqlAnswers(m.req) : Answer(m, a)
             /\ stale' = IF m.req.task = "save" THEN Kinds ELSE stale

\* runEnsureDbView
RunEnsure(m) ==
    /\ m.op = "ensure"
    /\ \/ /\ Answer(m, <<Ready(m.kind, m.kind \in stale)>>)
          /\ stale' = stale \ {m.kind}
       \/ /\ m.kind \in stale
          /\ Answer(m, <<Failed(m.kind)>>)
          /\ UNCHANGED stale

\* runGeneratorScript, runResetGeneratorScript
RunScript(m) ==
    /\ m.op = "script"
    /\ \/ /\ Answer(m, <<Ready(m.kind, TRUE)>>)
          /\ stale' = stale \ {m.kind}
       \/ /\ Answer(m, <<Failed(m.kind)>>)
          /\ stale' = stale \cup {m.kind}

\* runCheckpointRevert
RunRevert(m) ==
    /\ m.op = "revert"
    /\ \/ Answer(m, <<[op |-> "reverted"]>>) /\ stale' = Kinds
       \/ Answer(m, <<[op |-> "checkpointError"]>>) /\ UNCHANGED stale

\* runExportBattle
RunExport(m) ==
    /\ m.op = "export"
    /\ \E op \in {"exported", "exportError"} : Answer(m, <<[op |-> op]>>)
    /\ UNCHANGED stale

Worker == /\ toWorker # <<>>
          /\ LET m == Head(toWorker)
             IN  RunSql(m) \/ RunEnsure(m) \/ RunScript(m) \/ RunRevert(m) \/ RunExport(m)

\* A message throws, once in a session: its only answer is an error of no request.
Throw == /\ toWorker # <<>> /\ ~threw
         /\ threw' = TRUE
         /\ toWorker' = Tail(toWorker)
         /\ toPage' = Append(toPage, [op |-> "error"])
         /\ UNCHANGED <<worker, loads, page, stale, acts>>

-----------------------------------------------------------------------------
(* The page takes one answer at a time.                                    *)

Handle(p) == Becomes(p) /\ UNCHANGED <<exporting, packing>>

\* Mutated form of Finished: the next request has to wait for another to be made.
FinishedOnly(p) == [p EXCEPT !.active = {}]

\* finishActiveSqlRequest, if r is the request under way
Finished(p) == Pumped([p EXCEPT !.active = {}])
Active(r) == \E a \in active : a.id = r.id

Quiet(p, t) == [p EXCEPT !.win[t].busy = FALSE]

\* A table joins those in the results area.
Joined(w, m) == [w EXCEPT !.columns = IF m.some THEN m.req.query ELSE None,
                          !.tables = Append(@, m.req.query)]

\* onSqlRequestColumns
OnColumns(m) ==
    /\ m.op = "sqlColumns"
    /\ Handle(IF Active(m.req) THEN [Page EXCEPT !.win[m.req.of] = Joined(@, m)] ELSE Page)

\* What a task does with the answer to its request.
Done(p, r) ==
    CASE r.task = "run" ->
           Quiet([p EXCEPT !.win[r.of].last =
                      IF p.win[r.of].columns # None THEN r.query ELSE @], r.of)
      [] r.task = "save" /\ r.left > 1 -> Requested(p, "save", r.of, r.query, r.left - 1)
      [] r.task = "save" /\ r.left = 1 -> RunInto(p, r.of, r.query)
      [] r.task = "refresh" -> Advanced(p, r.of)

\* Mutated form of Refused: the window does not hear of it.
RefusedSilently(p, r) ==
    IF r.task = "refresh" THEN [p EXCEPT !.refresh[r.of] = NotRefreshing] ELSE p

\* A refresh whose query fails is over.
Refused(p, r) == IF r.task = "refresh" THEN [p EXCEPT !.refresh[r.of] = NotRefreshing]
                 ELSE Quiet(p, r.of)

OnDone(m) == /\ m.op = "sqlDone"
             /\ Handle(IF Active(m.req) THEN Done(Finished(Page), m.req) ELSE Page)

OnError(m) == /\ m.op = "sqlError"
              /\ Handle(IF Active(m.req) THEN Refused(Finished(Page), m.req) ELSE Page)

\* onDbViewReady: the explorers refresh; then those who awaited the promise, and
\* those who just joined them, go on.
ViewReady(p, k, rebuilt) ==
    LET shown == IF rebuilt THEN RefreshAll(p) ELSE p
    IN  IF p.inFlight[k] # None THEN Settled(shown, k) ELSE shown

OnViewReady(m) == m.op = "viewReady" /\ Handle(ViewReady(Page, m.kind, m.rebuilt))

\* onDbViewError
ViewError(p, k) == IF p.inFlight[k] # None THEN Settled(p, k) ELSE p

OnViewError(m) == m.op = "viewError" /\ Handle(ViewError(Page, m.kind))

\* broadcastCheckpointStatus
Broadcast(p) == [p EXCEPT !.win = [t \in Terminals |-> [p.win[t] EXCEPT !.busy = FALSE]]]

OnReverted(m) == m.op = "reverted" /\ Handle(Broadcast(RefreshAll(Page)))
OnCheckpointError(m) == m.op = "checkpointError" /\ Handle(Broadcast(Page))

Export_(e, k) == /\ exporting' = e /\ packing' = k
                 /\ UNCHANGED <<request, win, refresh, inFlight, toWorker>>

\* handleExportedTar
OnExported(m) == m.op = "exported" /\ Export_(exporting, TRUE)

\* resetExportButton
ExportFailed(e) == None

\* The cases of 'error' while a replay plays: of an export, and of anything.
OnExportError(m) == m.op = "exportError" /\ Export_(ExportFailed(exporting), packing)
OnThrown(m) == m.op = "error" /\ Handle(Page)

PageTakes == /\ toPage # <<>>
             /\ toPage' = Tail(toPage)
             /\ LET m == Head(toPage)
                IN  \/ OnColumns(m) \/ OnDone(m) \/ OnError(m)
                    \/ OnViewReady(m) \/ OnViewError(m)
                    \/ OnReverted(m) \/ OnCheckpointError(m)
                    \/ OnExported(m) \/ OnExportError(m) \/ OnThrown(m)
             /\ UNCHANGED <<worker, loads, stale, acts, threw>>

\* The compress worker, which outlives sessions, is done: finishExportDownload,
\* or its error.
Packed == /\ packing
          /\ packing' = FALSE /\ exporting' = None
          /\ UNCHANGED <<worker, loads, request, win, refresh, inFlight, toWorker, toPage,
                         stale, acts, threw>>

-----------------------------------------------------------------------------
Init == /\ worker = None /\ loads = 0
        /\ active = {} /\ queue = <<>> /\ asked = 0
        /\ win = [t \in Terminals |-> Idle]
        /\ refresh = [e \in Explorers |-> NotRefreshing]
        /\ inFlight = [k \in Kinds |-> None]
        /\ exporting = None /\ packing = FALSE
        /\ toWorker = <<>> /\ toPage = <<>>
        /\ stale = {} /\ acts = 0 /\ threw = FALSE

User == \/ \E t \in Terminals : Run(t) \/ Save(t)
        \/ \E k \in Kinds : Select(k) \/ Post([op |-> "script", kind |-> k])
        \/ \E e \in Explorers : Show(e)
        \/ Post([op |-> "revert"])
        \/ Export
        \/ Reset

Next == User \/ Load \/ Worker \/ Throw \/ PageTakes \/ Packed

\* The event loops run on: a message waits for ever neither at the worker nor at
\* the page.  (These are the steps of Worker and Throw, and of PageTakes.)
WorkerTurn == toWorker # <<>> /\ toWorker' = Tail(toWorker) /\ acts' = acts
PageTurn   == toPage # <<>> /\ toPage' = Tail(toPage) /\ acts' = acts
Fairness   == WF_<<toWorker, acts>>(WorkerTurn) /\ WF_<<toPage, acts>>(PageTurn) /\ WF_packing(Packed)

Spec == Init /\ [][Next]_vars /\ Fairness

-----------------------------------------------------------------------------
Session == 1 .. MaxSessions

Request == [id : Nat, task : {"run", "save", "refresh"}, of : Terminals \cup Explorers,
            query : Nat, left : 0 .. Statements]

TypeOK ==
    /\ worker \in Session \cup {None} /\ loads \in 0 .. MaxSessions
    /\ active \subseteq Request /\ Cardinality(active) <= 1
    /\ queue \in Seq(Request) /\ asked \in Nat
    /\ win \in [Terminals -> [busy : BOOLEAN, since : Session \cup {None}, tables : Seq(Nat),
                              columns : Nat, last : Nat, hasty : BOOLEAN]]
    /\ \A e \in Explorers : refresh[e].since \in Session \cup {None}
    /\ inFlight \in [Kinds -> Session \cup {None}]
    /\ exporting \in Session \cup {None} /\ packing \in BOOLEAN
    /\ stale \subseteq Kinds /\ acts \in 0 .. MaxActs /\ threw \in BOOLEAN

At(q, ops) == {i \in DOMAIN q : q[i].op \in ops}

UnderWay(ops) == {m \in ToSet(toWorker) \cup ToSet(toPage) : m.op \in ops}

\* sql_terminal.c has one live statement: the worker has at most one request, or
\* its last answer is on its way, and it is the one the page waits for.  So
\* every request is answered once, to who asked; and the queue never waits for
\* an answer that does not come, be it one of the session before.
OneUnderWay ==
    LET requests == At(toWorker, {"sql"})
        answers  == At(toPage, {"sqlDone", "sqlError"})
    IN  /\ Cardinality(requests) + Cardinality(answers) <= 1
        /\ \A i \in requests : active = {toWorker[i].req}
        /\ \A i \in answers : active = {toPage[i].req}
        /\ active # {} => requests # {} \/ answers # {} \/ threw

\* What the user asks for goes before background probing that waits, and
\* otherwise requests go in the order they were made in.
QueueOrder ==
    \A i, j \in DOMAIN queue : i < j =>
        IF Background(queue[i]) = Background(queue[j]) THEN queue[i].id < queue[j].id
        ELSE Background(queue[j])

\* What the page asks of the database is asked one by one and in order.
RequestsInOrder == TypeOK /\ OneUnderWay /\ QueueOrder

\* A refresh has one request in the queue at most, and then it is in its queries,
\* however often rebuilt schemas and reverts ask for another refresh.
RefreshesKeepPace ==
    \A e \in Explorers :
        LET mine == {r \in active \cup ToSet(queue) : r.task = "refresh" /\ r.of = e}
            at(op) == refresh[e].stages # <<>> /\ Head(refresh[e].stages).op = op
        IN  /\ Cardinality(mine) <= 1
            /\ mine # {} => at("query")
            /\ worker # None /\ refresh[e].since = worker =>
                  \/ at("query") /\ mine # {}
                  \/ at("ensure") /\ inFlight[Head(refresh[e].stages).kind] # None

\* A promise of this session for a derived schema has a message on its way that
\* settles it, also when a script's answer has settled the one before early.
PromisesAreUnderWay ==
    \A k \in Kinds : worker # None /\ inFlight[k] = worker =>
        \/ threw
        \/ \E m \in UnderWay({"ensure", "script", "viewReady", "viewError"}) : m.kind = k

\* A terminal says "Running..." or "Queued..." in this session only while it has
\* a request that runs or is queued.
WindowsAreServed ==
    \A t \in Terminals :
        worker # None /\ win[t].busy /\ win[t].since = worker => Mine(Page, t) # {}

\* Whoever waits in this session, a refresh, a promise or a window, waits for
\* something that is queued or on its way.
NobodyIsForgotten == RefreshesKeepPace /\ PromisesAreUnderWay /\ WindowsAreServed

\* The results area shows the query that "Save changes" will write to, if the
\* user waited for each answer.
WaitedForIsShown ==
    \A t \in Terminals : CanSave(t) /\ ~win[t].hasty => win[t].tables = <<win[t].last>>

\* ... and also if not, as edits are those of the table on screen.
SavedIsShown == \A t \in Terminals : CanSave(t) => Head(win[t].tables) = win[t].last

\* Explorer e awaits a schema that the worker of an earlier session was asked for:
\* triggerReset drops the requests of that session (main.js:1203-1206), but not
\* its promises of schemas.
Orphaned(e) == /\ refresh[e].stages # <<>>
               /\ Head(refresh[e].stages).op = "ensure"
               /\ inFlight[Head(refresh[e].stages).kind] # worker

\* Nothing is left to do, of what this session was asked and can answer.
AtRest == /\ toWorker = <<>> /\ toPage = <<>>
          /\ active = {} /\ queue = <<>>
          /\ ~packing /\ exporting \notin {worker} \ {None}
          /\ \A e \in Explorers :
                refresh[e].since \in {worker} \ {None} => Orphaned(e)

\* When the user is done, so are page and worker after a while, unless a message
\* threw: explorers do not keep each other refreshing.
ComesToRest == <>[](AtRest \/ threw)
=============================================================================

------------------------------ MODULE Explorer ------------------------------
(***************************************************************************)
(* What the Schema Explorer windows show, and what the editors suggest     *)
(* (src/main.js).  A refresh asks the playback worker, one query after the *)
(* other, for the schemas, their tables and the columns of each, and       *)
(* gathers the answers in knownSchemas, which all windows and the editors' *)
(* completion share; its last step patches the window's tree from there.   *)
(* Rebuilt schemas and reverted checkpoints start refreshes of their own.  *)
(*                                                                         *)
(* How requests are queued, lost and reset is in Session: here the worker  *)
(* takes a message and the page its answers in one step, since the page    *)
(* only ever queues in between.  A schema is a function from its tables to *)
(* their columns, a number.  The queries about one table are one request.  *)
(* The worker's cache slots, which a tree shows as well, are left out.     *)
(***************************************************************************)
EXTENDS Naturals, Sequences, FiniteSets, Functions, SequencesExt

CONSTANTS Windows,     \* Schema Explorer windows, all of them visible
          FirstFilter, \* FirstFilter[e]: what e's filter starts with
          Acts,        \* what the user does, of ActNames
          Loaded,      \* main as it was loaded
          Made,        \* Made[k]: what the script of k may make of it, a set
          MaxActs,     \* bounds: how often the user acts, and
          MaxMishaps   \* how often a query or a rebuild fails

Derived  == {"r", "b"}
Schemas  == {"main"} \cup Derived
Filters  == {"all"} \cup Schemas
ActNames == {"refresh", "filter", "ddl", "script", "revert", "focus"}
Boot     == "boot"     \* ensureKnownSchemasBootstrapped, beside the windows
Owners   == Windows \cup {Boot}
None     == "none"

ExplorerConstants ==
    /\ FirstFilter \in [Windows -> Filters] /\ Boot \notin Windows
    /\ Acts \subseteq ActNames
    /\ Made \in [Derived -> SUBSET UNION {[T -> 1 .. 2] : T \in SUBSET {"t", "u"}}]
    /\ \A k \in Derived : Made[k] # {}
    /\ MaxActs \in Nat /\ MaxMishaps \in Nat

\* Columns 0: those of a table that was dropped before they were asked for.
Listings == UNION {[T -> 0 .. 2] : T \in SUBSET {"t", "u"}}
Missing  == <<>>       \* a schema that is not attached, or not known
NoTables == [t \in {} |-> 0]

VARIABLES db,       \* the attached schemas, a function from them to their tables
          script,   \* what a rebuild of r and b makes
          stale,    \* derived schemas that an ensure will rebuild
          known,    \* knownSchemas
          booted,   \* knownSchemasBootstrapped
          filter,   \* of each window
          tree,     \* what each window shows
          job,      \* the refresh of each window, and of Boot
          inFlight, \* dbViewInFlight
          active, queue, \* activeSqlRequest and sqlRequestQueue, by owner
          toWorker,
          last,     \* history of each window's last refresh
          acts, mishaps

page == <<known, filter, booted, tree, job, inFlight, active, queue, last>>
vars == <<db, script, stale, page, toWorker, acts, mishaps>>

\* A refresh: where it is, the filter it read, the schemas still to ensure, the
\* schemas it found and those still to ask about, and of the first of these the
\* tables still to ask about and the columns got.
Rest == [at |-> "rest", filter |-> None, ensures |-> <<>>, names |-> <<>>, todo |-> <<>>,
         left |-> {}, got |-> NoTables]

\* Of the last refresh that listed the schemas: it was drawn with which filter;
\* nothing changed the database since it listed them; no other was gathering
\* in knownSchemas while it was.
NoHistory == [drawn |-> None, steady |-> FALSE, alone |-> FALSE]

Attached == DOMAIN db
InFilter(f) == IF f = "all" THEN Schemas ELSE {f}
Gathering(p, o) == p.job[o].at \in {"tables", "columns"}

-----------------------------------------------------------------------------
(* The page: a handler turns a page p into another, with what it posts.    *)

Page == [known |-> known, filter |-> filter, booted |-> booted, tree |-> tree, job |-> job, inFlight |-> inFlight,
         active |-> active, queue |-> queue, last |-> last, post |-> <<>>]

Becomes(then, sent) ==
    \E p \in {then} :
        /\ known' = p.known /\ filter' = p.filter /\ booted' = p.booted /\ tree' = p.tree /\ job' = p.job
        /\ inFlight' = p.inFlight /\ active' = p.active /\ queue' = p.queue /\ last' = p.last
        /\ toWorker' = sent \o p.post

\* pumpSqlRequestQueue
Pumped(p) ==
    IF p.active # None \/ p.queue = <<>> THEN p
    ELSE [p EXCEPT !.active = Head(p.queue), !.queue = Tail(@),
                   !.post = Append(@, <<"sql", Head(p.queue)>>)]

\* postSqlRequest, in the background
Requested(p, o) == Pumped([p EXCEPT !.queue = Append(@, o)])

\* ensureDbViewAsync
Ensured(p, k) ==
    IF k \in p.inFlight THEN p
    ELSE [p EXCEPT !.inFlight = @ \cup {k}, !.post = Append(@, <<"ensure", k>>)]

\* The schemas a refresh builds first.
ToEnsure(f) == SelectSeq(<<"r", "b">>, LAMBDA k : k \in InFilter(f))

\* The next schema is ensured, or else the schemas are listed.
Stepped(p, e) ==
    IF p.job[e].ensures # <<>> THEN Ensured(p, Head(p.job[e].ensures))
    ELSE Requested([p EXCEPT !.job[e].at = "list"], e)

\* refreshSchemaExplorerPanel, which drops the call while one is under way.
Refreshed(p, e) ==
    IF p.job[e].at # "rest" THEN p
    ELSE Stepped([p EXCEPT !.job[e] = [Rest EXCEPT !.at = "ensure", !.filter = p.filter[e],
                !.ensures = ToEnsure(p.filter[e])]], e)

RefreshAll(p) == FoldLeft(Refreshed, p, SetToSeq(Windows))

\* The promise of schema k settles: those who await it go on.
Settled(p, k) ==
    FoldLeft(LAMBDA q, e : Stepped([q EXCEPT !.job[e].ensures = Tail(@)], e),
             [p EXCEPT !.inFlight = @ \ {k}],
             SetToSeq({e \in Windows : p.job[e].at = "ensure" /\ Head(p.job[e].ensures) = k}))

\* Mutated form of Shown: what is no longer there stays in the tree.
ShownToo(old, names, p) ==
    [s \in DOMAIN old \cup ToSet(names) |->
        IF s \in ToSet(names) /\ s \in DOMAIN p.known THEN p.known[s]
        ELSE IF s \in DOMAIN old THEN old[s] ELSE NoTables]
\* updateSchemaExplorerTree and updateSchemaTablesTree; without any schema the
\* tree stays as it is.
Shown(old, names, p) ==
    IF names = <<>> THEN old
    ELSE [s \in ToSet(names) |-> IF s \in DOMAIN p.known THEN p.known[s] ELSE NoTables]

\* The tables of the first schema in todo are asked for, or all is done: the
\* tree is patched, or knownSchemas.main is complete.
Onward(p, o) ==
    IF p.job[o].todo # <<>> THEN Requested([p EXCEPT !.job[o].at = "tables"], o)
    ELSE IF o = Boot THEN [p EXCEPT !.job[o] = Rest]
    ELSE [p EXCEPT !.job[o] = Rest, !.tree[o] = Shown(@, p.job[o].names, p),
                   !.last[o].drawn = p.job[o].filter]

\* knownSchemas[schema] = tables, once no table is left to ask about.
Columns(p, o) ==
    IF p.job[o].left # {} THEN Requested([p EXCEPT !.job[o].at = "columns"], o)
    ELSE LET s == Head(p.job[o].todo)
         IN Onward([p EXCEPT !.known = (s :> p.job[o].got) @@ @, !.job[o].todo = Tail(@)], o)

\* The answer to PRAGMA database_list: knownSchemas is emptied.
Listed(p, o) ==
    LET names == SelectSeq(<<"main", "r", "b">>,
                           LAMBDA s : s \in Attached \cap InFilter(p.job[o].filter))
    IN Onward([p EXCEPT !.known = Missing,
                        !.job[o].names = names, !.job[o].todo = names,
                        !.last = [e \in Windows |->
                            IF e = o THEN [@[e] EXCEPT !.steady = TRUE, !.drawn = None,
                                              !.alone = \A w \in Owners \ {o} : ~Gathering(p, w)]
                            ELSE IF Gathering(p, e) THEN [@[e] EXCEPT !.alone = FALSE] ELSE @[e]]],
              o)

\* The answer to the request of o, as the database is.
Answered(p, o) ==
    LET j == p.job[o]
        s == Head(j.todo)
        tables == DOMAIN db[s]
        t == CHOOSE t \in j.left : TRUE
    IN CASE j.at = "list" -> Listed(p, o)
         [] j.at = "tables" -> Columns([p EXCEPT !.job[o].left = tables, !.job[o].got = NoTables], o)
         [] j.at = "columns" ->
              Columns([p EXCEPT !.job[o].left = @ \ {t},
                                !.job[o].got = (t :> IF t \in tables THEN db[s][t] ELSE 0) @@ @], o)

\* An error ends the refresh; the tree stays as it is.
Failed(p, o) ==
    IF o = Boot THEN [p EXCEPT !.job[o] = Rest, !.booted = FALSE]
    ELSE [p EXCEPT !.job[o] = Rest, !.last[o].drawn = None]

\* finishActiveSqlRequest comes last: what the answer led to is queued by then.
Finished(p) == Pumped([p EXCEPT !.active = None])

\* The database has changed.
Changed(p) == [p EXCEPT !.last = [e \in Windows |-> [@[e] EXCEPT !.steady = FALSE]]]

-----------------------------------------------------------------------------
Init ==
    /\ db = "main" :> Loaded
    /\ script \in {f \in [Derived -> UNION {Made[k] : k \in Derived}] : \A k \in Derived : f[k] \in Made[k]}
    /\ stale = Derived
    /\ known = Missing /\ booted = FALSE
    /\ filter = FirstFilter
    /\ tree = [e \in Windows |-> Missing]
    /\ job = [o \in Owners |-> Rest]
    /\ inFlight = {} /\ active = None /\ queue = <<>> /\ toWorker = <<>>
    /\ last = [e \in Windows |-> NoHistory]
    /\ acts = 0 /\ mishaps = 0

Act(name) == name \in Acts /\ acts < MaxActs /\ acts' = acts + 1

\* Refresh is clicked, or the window is shown.
Refresh(e) ==
    /\ Act("refresh")
    /\ UNCHANGED <<db, script, stale, mishaps>>
    /\ Becomes(Refreshed(Page, e), toWorker)

\* Another filter is selected.
Select(e, f) ==
    /\ Act("filter")
    /\ UNCHANGED <<db, script, stale, mishaps>>
    /\ Becomes(Refreshed([Page EXCEPT !.filter[e] = f], e), toWorker)

\* An editor has the focus for the first time.
Focus ==
    /\ Act("focus")
    /\ ~booted
    /\ UNCHANGED <<db, script, stale, mishaps>>
    /\ LET p == [Page EXCEPT !.booted = TRUE]
       IN Becomes(IF job[Boot].at # "rest" THEN p   \* bound: one at a time
                  ELSE Onward([p EXCEPT !.job[Boot] = [Rest EXCEPT !.todo = <<"main">>]], Boot),
                  toWorker)

\* A table of main is created, dropped or altered from a terminal.
Define(content) ==
    /\ Act("ddl")
    /\ content # db["main"]
    /\ db' = [db EXCEPT !["main"] = content]
    /\ UNCHANGED <<script, stale, mishaps>>
    /\ Becomes(Changed(Page), toWorker)

\* A generator script is run, or a checkpoint reverted to: a message.
Post(name, m) ==
    /\ Act(name)
    /\ UNCHANGED <<db, script, stale, mishaps>>
    /\ Becomes([Page EXCEPT !.post = <<m>>], toWorker)

\* Rows are written, by the user or by playback, as often as it likes.
Written ==
    /\ stale' = Derived
    /\ UNCHANGED <<db, script, page, toWorker, acts, mishaps>>

-----------------------------------------------------------------------------
(* The worker takes a message, the page its answer.                        *)

Mishap == mishaps < MaxMishaps /\ mishaps' = mishaps + 1

\* onDbViewReady
Ready(p, k, rebuilt) == Settled(IF rebuilt THEN RefreshAll(p) ELSE p, k)

\* Mutated form of NotReady: whoever waits is not told.
NotReadyUntold(p, k) == [p EXCEPT !.inFlight = @ \ {k}]
\* onDbViewError
NotReady(p, k) == Settled(p, k)

Rebuilt(k) == (k :> script[k]) @@ db

\* runEnsureDbView; a refused rebuild may leave the schema without tables.
RunEnsure(k, ok) ==
    /\ UNCHANGED <<script, acts>>
    /\ \/ /\ ok /\ k \notin stale
          /\ UNCHANGED <<db, stale, mishaps>>
          /\ Becomes(Ready(Page, k, FALSE), Tail(toWorker))
       \/ /\ ok /\ k \in stale
          /\ db' = Rebuilt(k) /\ stale' = stale \ {k}
          /\ UNCHANGED mishaps
          /\ Becomes(Ready(Changed(Page), k, TRUE), Tail(toWorker))
       \/ /\ ~ok /\ k \in stale /\ Mishap
          /\ UNCHANGED stale
          /\ \/ UNCHANGED db /\ Becomes(NotReady(Page, k), Tail(toWorker))
             \/ db' = (k :> NoTables) @@ db /\ Becomes(NotReady(Changed(Page), k), Tail(toWorker))

\* runGeneratorScript, with a script that makes content of k
RunScript(k, content) ==
    /\ content \in Made[k]
    /\ script' = [script EXCEPT ![k] = content]
    /\ db' = (k :> content) @@ db /\ stale' = stale \ {k}
    /\ UNCHANGED <<acts, mishaps>>
    /\ Becomes(Ready(Changed(Page), k, TRUE), Tail(toWorker))

\* runCheckpointRevert and checkpointReverted: main as it was loaded, r and b
\* as they were then or without tables, but attached.
RunRevert ==
    /\ db' \in {[s \in Attached |-> IF s = "main" THEN Loaded ELSE g[s]] :
                   g \in {db, [s \in Attached |-> NoTables]}}
    /\ stale' = Derived
    /\ UNCHANGED <<script, acts, mishaps>>
    /\ Becomes(RefreshAll([Changed(Page) EXCEPT !.known = Missing, !.booted = FALSE,
                              !.last = [e \in Windows |-> [@[e] EXCEPT !.alone =
                                            @ /\ ~Gathering(Page, e)]]]),
               Tail(toWorker))

\* runSchemaQuery
RunSql(o, ok) ==
    /\ UNCHANGED <<db, script, stale, acts>>
    /\ IF ok THEN UNCHANGED mishaps ELSE Mishap
    /\ Becomes(Finished(IF ok THEN Answered(Page, o) ELSE Failed(Page, o)), Tail(toWorker))

Worker ==
    /\ toWorker # <<>>
    /\ LET m == Head(toWorker)
       IN \/ m[1] = "ensure" /\ \E ok \in BOOLEAN : RunEnsure(m[2], ok)
          \/ m[1] = "script" /\ RunScript(m[2], m[3])
          \/ m[1] = "revert" /\ RunRevert
          \/ m[1] = "sql" /\ \E ok \in BOOLEAN : RunSql(m[2], ok)

User ==
    \/ \E e \in Windows : Refresh(e) \/ \E f \in Filters : Select(e, f)
    \/ Focus
    \/ \E content \in Listings : Define(content) /\ 0 \notin Range(content)
    \/ \E k \in Derived : \E content \in Made[k] : Post("script", <<"script", k, content>>)
    \/ Post("revert", <<"revert">>)

Next == User \/ Written \/ Worker

\* The worker takes every message it is sent.
Fairness == WF_vars(Worker)

Spec == Init /\ [][Next]_vars /\ Fairness

-----------------------------------------------------------------------------
TypeOK ==
    /\ Attached \subseteq Schemas /\ "main" \in Attached
    /\ \A s \in Attached : db[s] \in Listings
    /\ script \in [Derived -> Listings] /\ stale \subseteq Derived
    /\ DOMAIN known \subseteq Schemas /\ booted \in BOOLEAN
    /\ \A s \in DOMAIN known : known[s] \in Listings
    /\ filter \in [Windows -> Filters]
    /\ \A e \in Windows : DOMAIN tree[e] \subseteq Schemas
    /\ \A o \in Owners : job[o].at \in {"rest", "ensure", "list", "tables", "columns"}
    /\ inFlight \subseteq Derived /\ active \in Owners \cup {None}
    /\ \A o \in Range(queue) : o \in Owners
    /\ acts \in 0 .. MaxActs /\ mishaps \in 0 .. MaxMishaps

Quiet == \A o \in Owners : job[o].at = "rest"

\* "The SQL request queue ran up into the tens of thousands" (main.js:3792-3796)
\* without the guard: each refresh has one query or one schema under way, and
\* who is at rest has nothing in the queue.
OneRequestEach ==
    LET asked == queue \o (IF active = None THEN <<>> ELSE <<active>>)
    IN /\ IsInjective(asked)
       /\ Range(asked) = {o \in Owners : job[o].at \in {"list", "tables", "columns"}}

\* The tree of a window whose refresh had knownSchemas to itself is the
\* database, in all of its tables and columns, until that changes: patching the
\* tree in place leaves nothing behind, and neither an error nor a schema
\* rebuilt by the refresh itself comes between.
AtRestAndDrawn(e) == job[e].at = "rest" /\ last[e].drawn # None /\ last[e].steady
InView(f) == [s \in Attached \cap InFilter(f) |-> db[s]]
Truthful(e) == \/ tree[e] = InView(last[e].drawn)
               \/ Attached \cap InFilter(last[e].drawn) = {}
TreeIsTruthful == \A e \in Windows : AtRestAndDrawn(e) /\ last[e].alone => Truthful(e)

\* Refreshes neither pile up nor draw what is not there.
RefreshesAreSound == TypeOK /\ OneRequestEach /\ TreeIsTruthful

\* Whatever the user has done, and however often playback makes r and b stale,
\* the refreshes that start refreshes come to an end (main.js:3788-3796).
AtRest == Quiet /\ toWorker = <<>>
QuietsDown == <>[]AtRest
=============================================================================

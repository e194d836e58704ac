---------------------------- MODULE LoadPipeline ----------------------------
(***************************************************************************)
(* From picking a file to playback, and back through a reset (src/main.js),*)
(* with the workers that take part (src/replay-worker.js): the loader,     *)
(* which becomes the playback worker, the readers, which each compute a    *)
(* part of the map's bounds and are then shut down, and the prefetch       *)
(* worker.  Every one of them opens the one fixed OPFS file; some browsers *)
(* grant one handle on a file at a time.                                   *)
(*                                                                         *)
(* A worker is named by the load whose code creates it and its thread id.  *)
(* Messages are delivered in order in each direction.  What a worker does  *)
(* between two awaits is one step; while it awaits, its event loop takes   *)
(* the next message.                                                       *)
(***************************************************************************)
EXTENDS Integers, Sequences, FiniteSets

CONSTANTS ReaderCounts, \* what READER_COUNT may be; at 0 no load would end
          MaxLoads,     \* bound of the model: files picked, by reader count
          MaxMishaps    \* bound of the model: what fails without being made
                        \* to, and workers killed by the 2 s safety timer

ASSUME LoadConstants ==
    /\ ReaderCounts \subseteq 1 .. 8
    /\ MaxLoads \in [ReaderCounts -> Nat \ {0}] /\ MaxMishaps \in Nat

Loader   == 0
Reader   == UNION {1 .. n : n \in ReaderCounts}
Prefetch == 9             \* PREFETCH_THREAD_ID
Load     == UNION {1 .. MaxLoads[n] : n \in ReaderCounts}
Worker   == Load \X ({Loader, Prefetch} \cup Reader)
None     == <<0, 0>>
NoMemory == 0             \* sharedMemory is null; else the load it is made for

VARIABLES worker,   \* each worker: how far it is, its handle, its two queues
          page,     \* the page's globals
          timers,   \* pending setTimeouts: the workers they will create
          waits,    \* the workers pendingWorkerTeardown stands for
          browser,  \* how many handles it grants on a file, and READER_COUNT
          slots,    \* the bounds slots that are filled, in each load's memory
          mishaps,  \* what is left of MaxMishaps
          ghost     \* see Init

vars == <<worker, page, timers, waits, browser, slots, mishaps, ghost>>

-----------------------------------------------------------------------------
Absent == [at |-> "none", holds |-> FALSE, down |-> FALSE, mem |-> NoMemory,
           ear |-> "role", inbox |-> <<>>, outbox |-> <<>>, killed |-> FALSE]

Init == /\ worker = [x \in Worker |-> Absent]
        /\ page = [load |-> 0, chain |-> "none", upload |-> TRUE, running |-> FALSE,
                   matches |-> "none", memory |-> NoMemory, remaining |-> 0,
                   playback |-> None, prefetch |-> None]
        /\ timers = {}
        /\ waits = {}
        /\ browser \in [grants : {"one", "many"}, readers : ReaderCounts]
        /\ slots = [g \in Load |-> {}]
        /\ mishaps = MaxMishaps
        \* stray: a reader of an earlier load was counted for this one, or
        \* computed into its memory.
        \* finished: calls of finishLoadAndStartPlayback in this load.
        \* combined: the slots this load's last replay_combine_bounds saw.
        \* dropped: workers whose teardown was forgotten by a second reset.
        /\ ghost = [stray |-> FALSE, finished |-> 0, combined |-> {}, dropped |-> {}]

Live(ws, x) == ws[x].at \notin {"none", "gone"}

\* postMessage, from the page to a worker and back.  What the page would ignore
\* is left out: all but the acknowledgement once it is closing the worker, and
\* what the prefetch worker says of battles (see BattleBounds).
Sent(ws, x, m) == [ws EXCEPT ![x].inbox = Append(@, m)]
Posted(ws, x, m) ==
    IF (ws[x].ear = "closing" \/ x[2] = Prefetch) /\ m # "shutdownComplete" THEN ws
    ELSE [ws EXCEPT ![x].outbox = Append(@, m)]

\* new Worker and the 'init' message: the worker begins to open its handle.
Created(ws, x, mem) == [ws EXCEPT ![x] = [Absent EXCEPT !.at = "opening", !.mem = mem]]

\* gracefulTerminateWorker: from here on the page listens for the
\* acknowledgement only.
Closing(ws, x) ==
    IF x = None THEN ws
    ELSE [ws EXCEPT ![x].ear = "closing", ![x].outbox = <<>>,
                    ![x].inbox = Append(@, "shutdown")]

\* Its finish(): the worker and its queues are gone.  A handle it still has is
\* the browser's to release.
Gone == [Absent EXCEPT !.at = "gone"]
Terminated(ws, x, killed) ==
    [ws EXCEPT ![x] = IF ~ @.holds THEN Gone
                      ELSE [Gone EXCEPT !.holds = TRUE, !.mem = ws[x].mem, !.killed = killed]]

-----------------------------------------------------------------------------
(* Page: picking a file, reset                                             *)

\* The workers a reset shuts down.
Outgoing == {page.playback, page.prefetch} \ {None}

\* triggerReset.  Timers, readers and readerBoundsRemaining stay as they are,
\* and the teardown of the reset before is no longer waited for.
Reset(ws) ==
    /\ worker' = [x \in Worker |-> IF x \in Outgoing THEN Closing(ws, x)[x] ELSE ws[x]]
    /\ waits' = Outgoing
    /\ page' = [page EXCEPT !.chain = "none", !.upload = TRUE, !.running = FALSE,
                            !.matches = "none", !.memory = NoMemory,
                            !.playback = None, !.prefetch = None]
    /\ ghost' = [ghost EXCEPT !.dropped = @ \cup {x \in waits : Live(ws, x)}]
    /\ UNCHANGED <<timers, slots>>

\* A load begins with a memory of its own.
Begins ==
    /\ page' = [page EXCEPT !.load = @ + 1, !.memory = page.load + 1, !.upload = FALSE,
                            !.chain = "waiting"]
    /\ ghost' = [ghost EXCEPT !.stray = FALSE, !.finished = 0, !.combined = {}]
    /\ UNCHANGED <<worker, timers, slots>>

\* The upload overlay shows: startReplayLoad, or startBattleFileLoad, which
\* has the file decompressed first.
PickFile(battleFile) ==
    /\ page.upload /\ page.load < MaxLoads[browser.readers]
    /\ IF battleFile
       THEN /\ page' = [page EXCEPT !.upload = FALSE, !.chain = "decompressing"]
            /\ UNCHANGED <<worker, timers, slots, ghost>>
       ELSE Begins
    /\ UNCHANGED <<waits, browser, mishaps>>

\* beginBattleFileWorkerLoad, or what was read is not an export.
Decompressed ==
    /\ page.chain = "decompressing"
    /\ \/ Begins /\ UNCHANGED <<waits, mishaps>>
       \/ mishaps > 0 /\ mishaps' = mishaps - 1 /\ Reset(worker)
    /\ UNCHANGED browser

\* pendingWorkerTeardown is resolved.
TornDown == \A x \in waits : worker[x].at = "gone"

\* The rest of the chain: fetch, compile, and the loader; or one of them fails.
StartLoader ==
    /\ page.chain = "waiting" /\ TornDown
    /\ \/ /\ page' = [page EXCEPT !.chain = "none", !.playback = <<page.load, Loader>>]
          /\ worker' = Created(worker, <<page.load, Loader>>, page.memory)
          /\ UNCHANGED <<timers, waits, browser, slots, mishaps, ghost>>
       \/ /\ mishaps > 0 /\ mishaps' = mishaps - 1
          /\ Reset(worker)
          /\ UNCHANGED browser

\* The reset button, which shows while playback runs.
UserReset == page.running /\ Reset(worker) /\ UNCHANGED <<browser, mishaps>>

\* A timer of startBoundsComputation, or the one of startPrefetchWorker, whose
\* delay is the longest; timers set no later with delays no longer have fired.
\* It takes the memory the page has by now.
TimerFires(x) ==
    /\ x \in timers /\ \A y \in timers : y[1] <= x[1] /\ y[2] <= x[2] => y = x
    /\ timers' = timers \ {x}
    /\ worker' = Created(worker, x, page.memory)
    /\ page' = IF x[2] = Prefetch THEN [page EXCEPT !.prefetch = x] ELSE page
    /\ UNCHANGED <<waits, browser, slots, mishaps, ghost>>

-----------------------------------------------------------------------------
(* Page: what workers post                                                 *)

\* finishLoadAndStartPlayback
Finish(p) == /\ page' = [p EXCEPT !.running = TRUE]
             /\ ghost' = [ghost EXCEPT !.finished = @ + 1]

\* 'loaded': bounds by readers 25 ms apart, unless there is no battle; the
\* prefetch worker's timer runs beside them.
OnLoaded(ws, matches) ==
    /\ worker' = ws
    /\ timers' = timers \cup {<<page.load, Prefetch>>}
                  \cup (IF matches = "some" THEN {<<page.load, k>> : k \in 1 .. browser.readers} ELSE {})
    /\ LET p == [page EXCEPT !.matches = matches]
       IN  IF matches = "some"
           THEN page' = [p EXCEPT !.remaining = browser.readers] /\ UNCHANGED ghost
           ELSE Finish(p)
    /\ UNCHANGED <<waits, slots>>

\* onLoaderMessage, as far as the load goes.
OnLoaderMessage(ws, m) ==
    CASE m = "ready" -> /\ worker' = Sent(ws, page.playback, "load")
                        /\ UNCHANGED <<page, timers, waits, slots, ghost>>
      [] m \in {"loaded", "loadedEmpty"} ->
                        OnLoaded(ws, IF m = "loaded" THEN "some" ELSE "empty")
      [] m = "boundsCombined" -> /\ worker' = ws /\ Finish(page)
                                 /\ UNCHANGED <<timers, waits, slots>>
      [] m = "error" -> IF page.running
                        THEN worker' = ws /\ UNCHANGED <<page, timers, waits, slots, ghost>>
                        ELSE Reset(ws)

\* Mutated form of Counts: only a reader that succeeded counts as done.
CountsIfReady(m) == m = "boundsReady"

\* The answers that count a reader as done.
Counts(m) == m \in {"boundsReady", "error"}

\* Mutated form of LastReport: an early combine.
LastReportSoon == page.remaining <= 2

\* The report being counted is the last.
LastReport == page.remaining = 1

\* A reader's onmessage.  The combine goes to whatever worker plays by now; to
\* none at all it is an exception nobody catches.
OnReaderMessage(ws, x, m) ==
    /\ IF m = "ready"
       THEN worker' = Sent(ws, x, "computeBounds") /\ UNCHANGED <<page, ghost>>
       ELSE IF ~ Counts(m) THEN worker' = Closing(ws, x) /\ UNCHANGED <<page, ghost>>
       ELSE /\ worker' = IF LastReport /\ page.playback # None
                         THEN Sent(Closing(ws, x), page.playback, "combineBounds")
                         ELSE Closing(ws, x)
            /\ page' = [page EXCEPT !.remaining = @ - 1]
            /\ ghost' = [ghost EXCEPT !.stray = @ \/ x[1] < page.load]
    /\ UNCHANGED <<timers, waits, slots>>

\* The page takes the oldest message of a worker.
OnMessage(x) ==
    /\ worker[x].outbox # <<>>
    /\ LET m  == Head(worker[x].outbox)
           ws == [worker EXCEPT ![x].outbox = Tail(@)]
       IN  \/ /\ worker[x].ear = "closing"
              /\ worker' = Terminated(ws, x, FALSE)
              /\ UNCHANGED <<page, timers, waits, slots, ghost>>
           \/ /\ worker[x].ear = "role" /\ x[2] = Loader
              /\ OnLoaderMessage(ws, m)
           \/ /\ worker[x].ear = "role" /\ x[2] \in Reader
              /\ OnReaderMessage(ws, x, m)
    /\ UNCHANGED <<browser, mishaps>>

\* The safety timer: no acknowledgement within 2 s.
ShutdownTimesOut(x) ==
    /\ worker[x].ear = "closing" /\ Live(worker, x) /\ mishaps > 0
    /\ worker' = Terminated(worker, x, TRUE)
    /\ mishaps' = mishaps - 1
    /\ UNCHANGED <<page, timers, waits, browser, slots, ghost>>

-----------------------------------------------------------------------------
(* Workers                                                                 *)

WorkerOnly == UNCHANGED <<page, timers, waits, browser>>

\* The browser may grant this worker a handle.
Grantable(x) == browser.grants = "many" \/ \A y \in Worker : ~ worker[y].holds

\* bootstrap looks at shuttingDown after each await.
Bailed(x) == worker[x].down

\* createSyncAccessHandle resolves at one of the attempts, and the rest of
\* bootstrap follows: temp files, module, thread_main.  Without a memory the
\* module does not instantiate; the handle stays open.
Opens(x) ==
    /\ worker[x].at = "opening" /\ Grantable(x)
    /\ LET open == [worker EXCEPT ![x].holds = TRUE]
       IN  \/ /\ Bailed(x)
              /\ worker' = [worker EXCEPT ![x].at = "stopped"]
              /\ UNCHANGED mishaps
           \/ /\ ~ Bailed(x) /\ worker[x].mem # NoMemory
              /\ worker' = Posted([open EXCEPT ![x].at = "up"], x, "ready")
              /\ UNCHANGED mishaps
           \/ /\ ~ Bailed(x)
              /\ \/ worker[x].mem = NoMemory /\ UNCHANGED mishaps
                 \/ mishaps > 0 /\ mishaps' = mishaps - 1
              /\ worker' = Posted([open EXCEPT ![x].at = "failed"], x, "error")
    /\ UNCHANGED <<slots, ghost>> /\ WorkerOnly

\* Every attempt was refused or timed out: bootstrap throws.
OpenFails(x) ==
    /\ worker[x].at = "opening"
    /\ \/ ~ Grantable(x) /\ UNCHANGED mishaps
       \/ mishaps > 0 /\ mishaps' = mishaps - 1
    /\ worker' = Posted([worker EXCEPT ![x].at = "failed"], x, "error")
    /\ UNCHANGED <<slots, ghost>> /\ WorkerOnly

\* runLoader or runLoadBattleFile after the last chunk: the file is indexed
\* and its battles found; or a chunk, or any step of the finish, failed.  With
\* the handle closed the next write throws.
Streams(x) ==
    /\ worker[x].at = "streaming"
    /\ LET ws == [worker EXCEPT ![x].at = "up"]
       IN  \/ /\ worker[x].holds /\ UNCHANGED mishaps
              /\ \E m \in {"loaded", "loadedEmpty"} : worker' = Posted(ws, x, m)
           \/ /\ \/ ~ worker[x].holds /\ UNCHANGED mishaps
                 \/ mishaps > 0 /\ mishaps' = mishaps - 1
              /\ worker' = Posted(ws, x, "error")
    /\ UNCHANGED <<slots, ghost>> /\ WorkerOnly

\* A worker whose timer outlived its load: it was given another load's memory
\* or none.
Late(x) == worker[x].mem # x[1]

\* replay_reader_compute_bounds: the reader's slot is ready, with its slice of
\* the ticks or, if it could not read them, empty.
Computed(mem, k) == [slots EXCEPT ![mem] = @ \cup {k}]

\* replay_combine_bounds goes through every slot that is ready.
Combined(mem) == slots[mem]

\* The worker's onmessage takes the oldest message.  Before the module is
\* instantiated every message but a shutdown throws.
Takes(x) ==
    /\ Live(worker, x) /\ worker[x].inbox # <<>>
    /\ LET m  == Head(worker[x].inbox)
           ws == [worker EXCEPT ![x].inbox = Tail(@)]
           up == worker[x].at \in {"up", "streaming"}
       IN  \/ /\ m = "shutdown"
              /\ worker' = Posted([ws EXCEPT ![x].down = TRUE, ![x].holds = FALSE,
                                             ![x].at = IF up THEN "stopped" ELSE @],
                                  x, "shutdownComplete")
              /\ UNCHANGED <<slots, ghost>>
           \/ /\ m = "load" /\ up
              /\ worker' = [ws EXCEPT ![x].at = "streaming"]
              /\ UNCHANGED <<slots, ghost>>
           \/ /\ m = "computeBounds" /\ up
              /\ worker' = Posted(ws, x, "boundsReady")
              /\ slots' = Computed(worker[x].mem, x[2])
              /\ ghost' = [ghost EXCEPT !.stray = @ \/ (Late(x) /\ worker[x].mem = page.load)]
           \/ /\ m = "combineBounds" /\ up
              /\ worker' = Posted(ws, x, "boundsCombined")
              /\ ghost' = [ghost EXCEPT !.combined =
                              IF x = page.playback THEN Combined(worker[x].mem) ELSE @]
              /\ UNCHANGED slots
           \/ /\ m # "shutdown" /\ ~ up
              /\ worker' = Posted(ws, x, "error")
              /\ UNCHANGED <<slots, ghost>>
    /\ UNCHANGED mishaps /\ WorkerOnly

\* The catch of onmessage: a reader's query, a render query pushed while
\* bounds are computed, anything later.
Throws(x) ==
    /\ worker[x].at = "up"
    /\ \/ x[2] = Loader /\ page.matches # "none"
       \/ x[2] \in Reader /\ worker[x].inbox # <<>> /\ Head(worker[x].inbox) = "computeBounds"
    /\ mishaps > 0 /\ mishaps' = mishaps - 1
    /\ LET ws == IF x[2] = Loader THEN worker ELSE [worker EXCEPT ![x].inbox = Tail(@)]
       IN  worker' = Posted(ws, x, "error")
    /\ UNCHANGED <<slots, ghost>> /\ WorkerOnly

\* Sooner or later the browser releases what a terminated worker had open.
BrowserReleases(x) ==
    /\ worker[x].at = "gone" /\ worker[x].holds
    /\ worker' = [worker EXCEPT ![x] = Gone]
    /\ UNCHANGED <<slots, mishaps, ghost>> /\ WorkerOnly

WorkerTurn(x) == Opens(x) \/ OpenFails(x) \/ Streams(x) \/ Takes(x)

Next == \/ \E battleFile \in BOOLEAN : PickFile(battleFile)
        \/ Decompressed \/ StartLoader \/ UserReset
        \/ \E x \in Worker : \/ TimerFires(x) \/ OnMessage(x) \/ ShutdownTimesOut(x)
                             \/ WorkerTurn(x) \/ Throws(x) \/ BrowserReleases(x)

Proceed == \/ Decompressed \/ StartLoader
           \/ \E x \in Worker : TimerFires(x) \/ OnMessage(x) \/ WorkerTurn(x)

\* Promises settle, timers fire, event loops take their messages, and every
\* attempt at a handle is raced against a timeout: while there is something to
\* do, something is done.  Nothing is assumed of the user, of failures, or of
\* when the browser releases a handle.
Spec == Init /\ [][Next]_vars /\ WF_vars(Proceed)

-----------------------------------------------------------------------------
(* Properties                                                              *)

ToWorker == {"shutdown", "load", "computeBounds", "combineBounds"}
ToPage   == {"ready", "loaded", "loadedEmpty", "boundsReady", "boundsCombined", "error",
             "shutdownComplete"}

\* Types; and no load under way while the upload overlay or playback shows.
TypeOK ==
    /\ \A x \in Worker :
         /\ worker[x].at \in {"none", "opening", "up", "streaming", "failed", "stopped", "gone"}
         /\ worker[x].mem \in Load \cup {NoMemory} /\ worker[x].ear \in {"role", "closing"}
         /\ worker[x].inbox \in Seq(ToWorker) /\ worker[x].outbox \in Seq(ToPage)
    /\ page.playback \in Worker \cup {None} /\ page.prefetch \in Worker \cup {None}
    /\ page.remaining \in Int /\ page.remaining <= browser.readers
    /\ page.chain # "none" => ~ page.upload /\ ~ page.running
    /\ timers \subseteq Worker /\ waits \subseteq Worker
    /\ \A g \in Load : slots[g] \subseteq Reader

\* Has this reader told the page that it is done, one way or the other?
Reported(x) == worker[x].ear = "closing" \/ worker[x].at = "gone"

\* Playback starts once in a load, with the matches in, every reader heard
\* from, and the bounds of every reader that computed some - unless a
\* reader that an earlier load left behind was counted for this one, or
\* computed into its memory (startBoundsComputation, replay_combine_bounds).
StartsComplete ==
    page.running /\ ~ ghost.stray =>
        /\ ghost.finished = 1
        /\ page.matches # "none"
        /\ page.matches = "some" =>
             \A k \in 1 .. browser.readers : LET x == <<page.load, k>>
                               IN  /\ Reported(x)
                                   /\ k \in slots[page.load] => k \in ghost.combined

\* While a loader opens the file, no loader or prefetch worker of an earlier
\* load has it open - except one that the safety timer killed, one whose timer
\* outlived its load, or one whose teardown a second reset forgot
\* (pendingWorkerTeardown, gracefulTerminateWorker, shuttingDown).
FileIsFree ==
    page.playback # None /\ worker[page.playback].at = "opening" =>
        \A x \in Worker : x[1] < page.load /\ x[2] \notin Reader /\ worker[x].holds
                             => worker[x].killed \/ Late(x) \/ x \in ghost.dropped

\* A load starts when all of it is there, and no load before it holds its file.
LoadIsSound == TypeOK /\ StartsComplete /\ FileIsFree

\* A load ends: with playback, or with the upload overlay to try again.
LoadEnds == ~ page.upload ~> page.upload \/ page.running
=============================================================================

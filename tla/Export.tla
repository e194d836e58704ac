------------------------------- MODULE Export --------------------------------
(***************************************************************************)
(* Exporting a battle and loading it again: the button (src/main.js), the  *)
(* playback worker (src/replay-worker.js, src/replay_export.c), the codec's*)
(* worker, which outlives every reset, and what of a battle its file has   *)
(* (export_copy_replaydb_rows, replay_finish_load_battle_file).            *)
(*                                                                         *)
(* A file has ticks, by their ids, events in order, [tick, kind, what],    *)
(* and spans: of a recording those Segmentation finds, of an exported      *)
(* battle the one row of replay_meta.                                      *)
(***************************************************************************)
EXTENDS Integers, Sequences, FiniteSets, SequencesExt, FiniteSetsExt

CONSTANTS Recordings,
          MaxEpochs,   \* bound of the model: files opened, and reverts
          MaxExports, MaxFaults, MaxResets \* bounds of the model

ExportConstants ==
    /\ {MaxEpochs, MaxExports, MaxFaults, MaxResets} \subseteq Nat
    /\ \A f \in Recordings : \A i \in DOMAIN f.spans :
         {f.spans[i].first, f.spans[i].last} \subseteq f.ticks /\ f.ticks \subseteq Nat \ {0} /\ f.spans[i].first >= 2

VARIABLES page,    \* exportInFlight, exportMatchIdxInFlight, matches, the frame's battle
          engine,  \* the playback worker: its file and its two queues
          codec,   \* compressWorker: its two queues, and how its bootstrap went
          saved,   \* the files downloaded
          left,    \* what is left of the bounds
          lost     \* the answer to an export will not come
vars == <<page, engine, codec, saved, left, lost>>

-----------------------------------------------------------------------------
(* What a file of one battle has.                                          *)

\* Mutated form of Lower: the ticks before the battle are left out.
LowerOwn(span) == span.first
Lower(span) == span.first - 2

\* export_copy_replaydb_rows
Exported(f, i) ==
    LET kept == Lower(f.spans[i]) .. f.spans[i].last
    IN  [ticks  |-> f.ticks \cap kept,
         events |-> SelectSeq(f.events, LAMBDA e : e.tick \in kept),
         spans  |-> <<f.spans[i]>>]

\* tick_index_for_id
Found(ticks, id) ==
    LET search[lo \in 1 .. Len(ticks) + 1, hi \in 0 .. Len(ticks)] ==
            LET mid == (lo + hi) \div 2
            IN  IF lo > hi THEN Min({lo, Len(ticks)})
                ELSE IF ticks[mid] = id THEN mid
                ELSE IF ticks[mid] < id THEN search[mid + 1, hi] ELSE search[lo, mid - 1]
    IN  search[1, Len(ticks)]

Ids(f) == SelectSeq([i \in 1 .. Max(f.ticks) |-> i], LAMBDA i : i \in f.ticks)

\* resolve_match_meta: the latest switch at or before a tick.
Label(f, tick) ==
    LET before == SelectSeq(f.events, LAMBDA e : e.kind = "faction_switch" /\ e.tick <= tick)
    IN  IF before = <<>> THEN "" ELSE Last(before).what

\* The battles as a load finds them; a time is that of the tick found.
Matches(f) ==
    [i \in DOMAIN f.spans |-> [from  |-> Ids(f)[Found(Ids(f), f.spans[i].first)],
                               to    |-> Ids(f)[Found(Ids(f), f.spans[i].last)],
                               label |-> Label(f, f.spans[i].first)]]

\* The roster of a battle at a tick: see Roster.
RosterAt(f, span, tick) ==
    SelectSeq(f.events, LAMBDA e : e.kind = "spawn" /\ span.first - 2 < e.tick /\ e.tick <= tick)

-----------------------------------------------------------------------------
NoFile == [ticks |-> {}, events |-> <<>>, spans |-> <<>>]
Gone == [file |-> NoFile, epoch |-> 0, in |-> <<>>, out |-> <<>>]

Init == /\ page = [inFlight |-> FALSE, idx |-> 0, matches |-> <<>>, epoch |-> 0, active |-> 0]
        /\ engine = Gone /\ codec = [in |-> <<>>, out |-> <<>>, boot |-> "none"]
        /\ saved = {} /\ lost = FALSE
        /\ left = [epochs |-> MaxEpochs, exports |-> MaxExports, faults |-> MaxFaults, resets |-> MaxResets]

Spend(what) == left[what] > 0 /\ left' = [left EXCEPT ![what] = @ - 1]
Epoch == MaxEpochs - left.epochs + 1

\* A load, of a recording or of a file exported before: see LoadPipeline.
Open ==
    /\ engine = Gone /\ Spend("epochs")
    /\ \E f \in Recordings \cup {d.content : d \in saved} :
         /\ engine' = [Gone EXCEPT !.file = f, !.epoch = Epoch]
         /\ page' = [page EXCEPT !.matches = Matches(f), !.epoch = Epoch]
    /\ UNCHANGED <<codec, saved, lost>>

\* What triggerReset forgets of it: latestFrame and matches.
Forgotten == [page EXCEPT !.matches = <<>>, !.epoch = 0, !.active = 0]

IsExport(m) == m.kind \in {"export", "exported", "exportError"}

Reset ==
    /\ engine # Gone /\ Spend("resets")
    /\ page' = Forgotten /\ engine' = Gone
    /\ lost' = (lost \/ \E i \in DOMAIN (engine.in \o engine.out) : IsExport((engine.in \o engine.out)[i]))
    /\ UNCHANGED <<codec, saved>>

\* A frame says which battle is active.
Frame == /\ engine # Gone /\ \E i \in 0 .. Len(page.matches) : page' = [page EXCEPT !.active = i]
         /\ UNCHANGED <<engine, codec, saved, left, lost>>

Told(m) == engine' = [engine EXCEPT !.in = Append(@, m)]

\* exportActiveBattle
Click ==
    /\ ~ page.inFlight /\ engine # Gone /\ page.active > 0 /\ Spend("exports")
    /\ page' = [page EXCEPT !.inFlight = TRUE, !.idx = page.active]
    /\ Told([kind |-> "export", idx |-> page.active])
    /\ UNCHANGED <<codec, saved, lost>>

\* The user reverts to a checkpoint at which the data was another.
Revert ==
    /\ engine # Gone /\ Spend("epochs")
    /\ \E f \in Recordings : Told([kind |-> "revert", file |-> f, epoch |-> Epoch])
    /\ UNCHANGED <<page, codec, saved, lost>>

\* The worker's onmessage: runExportBattle, runCheckpointRevert.  An export that
\* fails says so; one that throws is an error like any other.
Work ==
    /\ engine.in # <<>>
    /\ LET m  == Head(engine.in)
           Answer(a) == [engine EXCEPT !.in = Tail(@), !.out = Append(@, a)]
       IN  \/ /\ m.kind = "revert"
              /\ engine' = [Answer([kind |-> "reverted", epoch |-> m.epoch, file |-> m.file])
                            EXCEPT !.file = m.file, !.epoch = m.epoch]
              /\ UNCHANGED <<left, lost>>
           \/ /\ m.kind = "export" /\ m.idx \in DOMAIN engine.file.spans
              /\ engine' = Answer([kind |-> "exported", epoch |-> engine.epoch, idx |-> m.idx,
                                   of |-> engine.file, content |-> Exported(engine.file, m.idx)])
              /\ UNCHANGED <<left, lost>>
           \/ /\ m.kind = "export"
              /\ IF m.idx \in DOMAIN engine.file.spans THEN Spend("faults") ELSE UNCHANGED left
              /\ engine' = Answer([kind |-> "exportError"]) /\ UNCHANGED lost
           \/ /\ m.kind = "export" /\ Spend("faults")
              /\ engine' = Answer([kind |-> "error"]) /\ lost' = TRUE
    /\ UNCHANGED <<page, codec, saved>>

Enabled == [page EXCEPT !.inFlight = FALSE]   \* resetExportButton

\* onLoaderMessage
Receive ==
    /\ engine.out # <<>>
    /\ LET m == Head(engine.out)
       IN  /\ engine' = [engine EXCEPT !.out = Tail(@)]
           /\ page' = CASE m.kind = "reverted" -> [page EXCEPT !.matches = Matches(m.file), !.epoch = m.epoch]
                        [] m.kind = "exportError" -> Enabled
                        [] OTHER -> page
           /\ codec' = IF m.kind = "exported" THEN [codec EXCEPT !.in = Append(@, m)] ELSE codec
    /\ UNCHANGED <<saved, left, lost>>

\* The codec's onmessage; what it is given comes out, or an error.  A bootstrap
\* that failed once is the one all later messages await.
Compress ==
    /\ codec.in # <<>>
    /\ LET Answer(a) == [codec EXCEPT !.in = Tail(@), !.out = Append(@, a)]
           Error == [kind |-> "error"]
       IN  \/ /\ codec.boot # "failed" /\ codec' = [Answer(Head(codec.in)) EXCEPT !.boot = "done"]
              /\ UNCHANGED left
           \/ codec.boot = "failed" /\ codec' = Answer(Error) /\ UNCHANGED left
           \/ /\ codec.boot # "failed" /\ Spend("faults")
              /\ \E boot \in {"done"} \cup (IF codec.boot = "none" THEN {"failed"} ELSE {}) :
                   codec' = [Answer(Error) EXCEPT !.boot = boot]
    /\ UNCHANGED <<page, engine, saved, lost>>

Named == page.idx

\* finishExportDownload; for an index past the end it says "battle".
Download(m) ==
    [content |-> m.content, of |-> m.of, from |-> m.idx, epoch |-> m.epoch, shown |-> page.epoch, name |-> Named,
     label |-> IF Named \in DOMAIN page.matches THEN page.matches[Named].label ELSE "battle"]

Answered(m) == Enabled

ReceiveFromCodec ==
    /\ codec.out # <<>>
    /\ LET m == Head(codec.out)
       IN  /\ saved' = IF m.kind = "error" THEN saved ELSE saved \cup {Download(m)}
           /\ page' = Answered(m)
    /\ codec' = [codec EXCEPT !.out = Tail(@)]
    /\ UNCHANGED <<engine, left, lost>>

Turn == Work \/ Receive \/ Compress \/ ReceiveFromCodec
Next == Open \/ Reset \/ Frame \/ Click \/ Revert \/ Turn
\* Event loops take their messages, and handlers return.
Fairness == WF_vars(Turn)
Spec == Init /\ [][Next]_vars /\ Fairness

-----------------------------------------------------------------------------
\* The export under way, wherever it is.
Under == SelectSeq(engine.in \o engine.out, IsExport) \o codec.in \o codec.out

\* Types; and what is saved has one battle.
TypeOK ==
    /\ page.inFlight \in BOOLEAN /\ page.idx \in Nat /\ page.active \in Nat
    /\ Len(codec.in) <= 1 /\ Len(codec.out) <= 1
    /\ \A d \in saved : Len(d.content.spans) = 1 /\ d.name \in Nat \ {0}

\* There is one export under way at most, and while there is, the button is
\* off: the engine has one tar and the codec one input.
OneUnderWay == Len(Under) <= 1 /\ (Under # <<>> => page.inFlight)

\* Unless the battles were others by then, a download is named after what is in it.
NamedAfterContent == \A d \in saved : d.shown = d.epoch =>
    d.name = d.from /\ d.label = Label(d.of, d.content.spans[1].first)

\* A battle loaded from its file is the one it was exported from: the same
\* ticks, from the same time to the same time, and at each the same roster.
BattleSurvives == \A d \in saved :
    LET span == d.of.spans[d.from]
        m    == Matches(d.content)[1]
    IN  /\ d.of.ticks \cap (span.first .. span.last) \subseteq d.content.ticks
        /\ m.from = span.first /\ m.to = span.last
        /\ \A t \in span.first .. span.last :
             RosterAt(d.content, d.content.spans[1], t) = RosterAt(d.of, span, t)

\* Exporting a battle that was loaded from its file gives that file again.
SameAgain == \A d, e \in saved : d.of = e.content => d.content = e.content

\* What is downloaded is the battle it says it is.
DownloadsAreTrue == TypeOK /\ OneUnderWay /\ NamedAfterContent /\ BattleSurvives /\ SameAgain

\* An export ends, in a download or in an error, unless its answer was lost.
Ended == ~ page.inFlight \/ lost
EndsUnlessLost == []<>Ended
=============================================================================

---------------------------- MODULE MCRecordings ----------------------------
(***************************************************************************)
(* The life of a recording for TLC: it is recorded in the game, cut into   *)
(* battles by a load, and a battle of it is exported and packed.  The four *)
(* stages share no state, so a behaviour is one of one stage, and the      *)
(* others stay as they are.                                                *)
(*                                                                         *)
(* Segmentation, with the code's own constants but MaxMatches: a boundary  *)
(* near every threshold, alone, in pairs and in fours, and ends near each  *)
(* too.  Recorder: two scenes, scores or pairs of factions.  Export: a     *)
(* recording of three battles, with a gap in its ids, where the second     *)
(* keeps the factions of the first; and another version of its data, with  *)
(* one battle.  Archive: blocks of 4 and every size around their ends.     *)
(***************************************************************************)
EXTENDS Segmentation, Recorder

VARIABLES stage,
    page, engine, codec, saved, left, unanswered,
    archive, turn, tar, input, output, fed, entries

-----------------------------------------------------------------------------
Kind(t) == CASE t % 3 = 0 -> "map_switch" [] t % 3 = 1 -> "faction_switch" [] OTHER -> "score_switch"
With(final, ticks) ==
    [last |-> final, events |-> [i \in DOMAIN ticks |-> [tick |-> ticks[i], kind |-> Kind(ticks[i])]]]

MCReplays ==
    {With(final, <<>>) : final \in 0 .. 7}
    \cup {With(b + n, <<b>>) : b \in 0 .. 12, n \in 0 .. 7}
    \cup {With(40, <<b, c>>) : b \in 3 .. 12, c \in 13 .. 40}
    \cup {With(64, <<b, c, d, e>>) : b \in {4, 5, 9, 10, 11}, c \in {22, 25, 26, 27},
                                     d \in {30, 41, 42, 43}, e \in 57 .. 60}

-----------------------------------------------------------------------------
Event(tick, kind, what) == [tick |-> tick, kind |-> kind, what |-> what]
Battle(first, final) == [first |-> first, last |-> final]

Played == [ticks |-> 1 .. 10 \ {6},
           events |-> <<Event(2, "faction_switch", "swadia"), Event(2, "spawn", "a"), Event(4, "spawn", "b"),
                        Event(5, "spawn", "c"), Event(8, "faction_switch", "vaegir"), Event(8, "spawn", "c")>>,
           spans |-> <<Battle(3, 4), Battle(5, 8), Battle(9, 10)>>]
Edited == [ticks |-> 1 .. 10 \ {6},
           events |-> <<Event(2, "spawn", "a"), Event(2, "faction_switch", "nords"), Event(7, "spawn", "d")>>,
           spans |-> <<Battle(3, 10)>>]

X == INSTANCE Export WITH
        Recordings <- {Played, Edited}, MaxEpochs <- 3, MaxExports <- 2, MaxFaults <- 1,
        MaxResets <- 1, lost <- unanswered
ASSUME X!ExportConstants

-----------------------------------------------------------------------------
Archives ==
    {<<[name |-> "manifest.json", size |-> m], [name |-> "replay.db", size |-> r],
       [name |-> "battle.db", size |-> b]>> : m \in {3, 4}, r \in {0, 1, 4, 9}, b \in {7, 8}}

A == INSTANCE Archive WITH
        Block <- 4, Radix <- 2, Digits <- 4, LeastTar <- 8, Chunk <- 7, LeastBuffer <- 5,
        phase <- turn
ASSUME A!ArchiveConstants

-----------------------------------------------------------------------------
exportVars == <<page, engine, codec, saved, left, unanswered>>
packVars   == <<archive, turn, tar, input, output, fed, entries>>
allVars    == <<stage, vars, recorderVars, exportVars, packVars>>

RecordingsInit ==
    /\ stage \in {"record", "cut", "export", "pack"}
    /\ Init /\ RecorderInit /\ X!Init /\ A!Init
    /\ stage # "cut"  => replay = With(0, <<>>)
    /\ stage # "pack" => archive = CHOOSE a \in Archives : TRUE

RecordingsNext ==
    \/ stage = "record" /\ RecorderNext /\ UNCHANGED <<stage, vars, exportVars, packVars>>
    \/ stage = "cut"    /\ Next   /\ UNCHANGED <<stage, recorderVars, exportVars, packVars>>
    \/ stage = "export" /\ X!Next /\ UNCHANGED <<stage, vars, recorderVars, packVars>>
    \/ stage = "pack"   /\ A!Next /\ UNCHANGED <<stage, vars, recorderVars, exportVars>>

\* The fairness of each part, where it is the one that moves.
StageFairness ==
    /\ WF_recorderVars(stage = "record" /\ RecorderTurn)
    /\ WF_exportVars(stage = "export" /\ X!Turn)
    /\ WF_packVars(stage = "pack" /\ A!Work)

RecordingsSpec == RecordingsInit /\ [][RecordingsNext]_allVars /\ StageFairness

-----------------------------------------------------------------------------
\* An exported battle is downloaded once per click under its own name, and loads
\* again as the battle it was (replay_export.c, exportActiveBattle of main.js).
DownloadsAreTrue == stage = "export" => X!DownloadsAreTrue

\* The tar that is packed is whole, what is fed through the xz codec in chunks
\* comes back as it was, and a file cut short is refused (compress_worker.c).
ArchivesSurvive == stage = "pack" => A!ArchivesSurvive

\* With a game, event loops and handlers that go on, what was recorded reaches
\* the file, and exports and archives end.
StagesEnd == []<>(/\ stage = "record" => InFile
                  /\ stage = "export" => X!Ended
                  /\ stage = "pack"   => A!Ended)
=============================================================================

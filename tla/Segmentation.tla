---------------------------- MODULE Segmentation ----------------------------
(***************************************************************************)
(* How a replay is cut into battles: the folds of                          *)
(* src/sql/default_boundary_detection.sql, row by row, and what            *)
(* scan_matches_via_sql (src/replay_worker.c) keeps of their rows.         *)
(*                                                                         *)
(* A tick is its position in the list of ticks, from 0.                    *)
(***************************************************************************)
EXTENDS Integers, Sequences, FiniteSets, SequencesExt

CONSTANTS Replays,                  \* [last, events]: the last tick, and the boundary
                                    \* events, [tick, kind], in order (boundary_idx)
          SkipFirst, MergeWindow,   \* SKIP_FIRST, MERGE_WINDOW
          MinMatchGap, MinTailGap,  \* MIN_MATCH_GAP, MIN_TAIL_GAP
          MaxMatches                \* MAX_MATCHES

Kinds == {"map_switch", "score_switch", "faction_switch"}

ASSUME SegmentationConstants ==
    /\ {SkipFirst, MergeWindow, MinMatchGap} \subseteq Nat
    /\ {MinTailGap, MaxMatches} \subseteq Nat \ {0}
    /\ MinTailGap <= MinMatchGap /\ MinMatchGap <= MergeWindow
    /\ \A r \in Replays :
         /\ r.last \in Nat
         /\ r.events \in Seq([tick : 0 .. r.last, kind : Kinds])
         /\ \A i \in DOMAIN r.events : i > 1 => r.events[i - 1].tick < r.events[i].tick

VARIABLES replay,
          phase,    \* "merge", "segment", "tail", "load", "done"
          row,      \* the next row of the fold or of the result
          merged,   \* the boundaries kept
          start,    \* start_idx
          spans,    \* the rows of the result
          matches   \* g_matches
vars == <<replay, phase, row, merged, start, spans, matches>>

Init == /\ replay \in Replays /\ phase = "merge" /\ row = 1 /\ start = 0
        /\ merged = <<>> /\ spans = <<>> /\ matches = <<>>

-----------------------------------------------------------------------------
Boundary(i) == replay.events[i].tick

Span(first, last) == [first |-> first, last |-> last]

Turn(then) == phase' = then /\ row' = 1

\* merge_fold: far enough from the start and from the last one kept.
Keeps(b) == b >= SkipFirst /\ (merged = <<>> \/ b > Last(merged) + MergeWindow)

Merge ==
    /\ phase = "merge"
    /\ IF row > Len(replay.events) THEN Turn("segment") /\ UNCHANGED merged
       ELSE /\ merged' = IF Keeps(Boundary(row)) THEN Append(merged, Boundary(row)) ELSE merged
            /\ row' = row + 1 /\ UNCHANGED phase
    /\ UNCHANGED <<replay, start, spans, matches>>

\* Mutated form of NextStart: the next battle begins on the boundary.
NextStartHere(b) == b
\* seg_fold: a span that is long enough; the next begins after its boundary.
Accepts(b) == b - start >= MinMatchGap
NextStart(b) == b + 1

Segment ==
    /\ phase = "segment"
    /\ IF row > Len(merged) THEN Turn("tail") /\ UNCHANGED <<start, spans>>
       ELSE LET b == merged[row]
            IN  /\ row' = row + 1 /\ UNCHANGED phase
                /\ IF Accepts(b) THEN spans' = Append(spans, Span(start, b)) /\ start' = NextStart(b)
                   ELSE UNCHANGED <<start, spans>>
    /\ UNCHANGED <<replay, merged, matches>>

TailSegment ==
    /\ phase = "tail" /\ Turn("load")
    /\ spans' = IF replay.last - start >= MinTailGap
                THEN Append(spans, Span(start, replay.last)) ELSE spans
    /\ UNCHANGED <<replay, merged, start, matches>>

\* resolve_match_meta: the latest switch at or before a tick, -1 if there is none.
FactionAt(t) ==
    LET before == {i \in DOMAIN replay.events :
                     Boundary(i) <= t /\ replay.events[i].kind = "faction_switch"}
    IN  IF before = {} THEN -1 ELSE Boundary(Max(before))

Room == Len(matches) < MaxMatches

\* The second phase of scan_matches_via_sql.
Load ==
    /\ phase = "load"
    /\ IF row > Len(spans) THEN Turn("done") /\ UNCHANGED matches
       ELSE /\ row' = row + 1 /\ UNCHANGED phase
            /\ matches' = IF Room THEN Append(matches, [span |-> spans[row], faction |-> FactionAt(spans[row].first)])
                          ELSE matches
    /\ UNCHANGED <<replay, merged, start, spans>>

Next == Merge \/ Segment \/ TailSegment \/ Load
Spec == Init /\ [][Next]_vars

-----------------------------------------------------------------------------
TypeOK ==
    /\ phase \in {"merge", "segment", "tail", "load", "done"}
    /\ row \in Nat /\ start \in 0 .. replay.last + 1
    /\ \A i \in DOMAIN spans : 0 <= spans[i].first /\ spans[i].first < spans[i].last
                               /\ spans[i].last <= replay.last
    /\ Len(matches) <= MaxMatches

Done == phase = "done"

\* The battles found follow one another from the first tick without gap or
\* overlap; what is left after the last is too short to be one.
SpansTile == Done =>
    /\ \A i \in DOMAIN spans :
         spans[i].first = (IF i = 1 THEN 0 ELSE spans[i - 1].last + 1)
    /\ replay.last - (IF spans = <<>> THEN 0 ELSE Last(spans).last + 1) < MinTailGap

\* Every battle is as long as the heuristic demands, the tail excepted.
NoShortBattles == Done => \A i \in DOMAIN spans :
    spans[i].last - spans[i].first >= IF spans[i].last = replay.last THEN MinTailGap ELSE MinMatchGap

\* No boundary is lost: it ends a battle, or follows one kept before it by no
\* more than the window, or lies where the first battle cannot end yet.  Only
\* there is a span ever rejected.
BoundariesAccounted == Done => \A j \in DOMAIN replay.events : LET b == Boundary(j) IN
    \/ \E i \in DOMAIN spans : spans[i].last = b
    \/ \E k \in DOMAIN merged : merged[k] < b /\ b <= merged[k] + MergeWindow
    \/ b < SkipFirst \/ b < MinMatchGap

\* "truncates to the true first MAX_MATCHES real matches in chronological order"
TrueFirstMatches == Done =>
    [i \in DOMAIN matches |-> matches[i].span] = SubSeq(spans, 1, Min({MaxMatches, Len(spans)}))

\* The battles of a replay are what the heuristic says, and all of it.
BattlesAreFound ==
    TypeOK /\ SpansTile /\ NoShortBattles /\ BoundariesAccounted /\ TrueFirstMatches
=============================================================================

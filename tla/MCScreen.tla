------------------------------ MODULE MCScreen ------------------------------
(***************************************************************************)
(* What is on screen for TLC: the frames, the overlays on the map and the  *)
(* view that follows the battles.  The three share no state here, so a     *)
(* behaviour is one of one part, and the others stay as they are.          *)
(*                                                                         *)
(* Frames: two battles and a tail too short to be one, two ticks of one    *)
(* time; and the same replay before an edit, with one battle, one tick and *)
(* events less.  Overlays: a gap, two ticks of a battle, a tick of the     *)
(* next; two queries of chat.  View: two battles and the gaps around them. *)
(***************************************************************************)
EXTENDS Playback, Camera, Overlays

CONSTANTS u, v, x

MCSpan(first, last) == [first |-> first, last |-> last]

MCTimes   == << <<0, 1, 1, 3, 4>>, <<0, 1, 3, 4>> >>
MCBattles == << <<MCSpan(1, 3), MCSpan(4, 4)>>, <<MCSpan(1, 3)>> >>
MCEvents  == << <<1, 2, 2, 3, 4, 4, 5>>, <<1, 3, 3>> >>

MCUnits == [p \in 0 .. 3 |-> <<{}, {u}, {u, v}, {x}>>[p + 1]]

VARIABLE part

allVars == <<part, vars, overlayVars, viewVars>>

ScreenInit ==
    /\ part \in {"frames", "overlays", "view"}
    /\ Init /\ OverlaysInit /\ ViewInit
    /\ part # "frames" => version = 1
    /\ part # "overlays" => spot = 0

ScreenNext ==
    \/ part = "frames"   /\ Next         /\ UNCHANGED <<part, overlayVars, viewVars>>
    \/ part = "overlays" /\ OverlaysNext /\ UNCHANGED <<part, vars, viewVars>>
    \/ part = "view"     /\ ViewNext     /\ UNCHANGED <<part, vars, overlayVars>>

\* The fairness of each part, where it is the one that moves.
PartFairness ==
    /\ WF_vars(part = "frames" /\ Loop) /\ WF_vars(part = "frames" /\ Turn)
    /\ WF_overlayVars(part = "overlays" /\ OverlaysTurn)
    /\ WF_viewVars(part = "view" /\ PumpRecenter) /\ WF_viewVars(part = "view" /\ ViewTurn)

ScreenSpec == ScreenInit /\ [][ScreenNext]_allVars /\ PartFairness

-----------------------------------------------------------------------------
\* With event loops that go on, all three come to rest: at the tick of the clock, on its
\* rows, and centered.
ScreenComesToRest == <>[](/\ part = "frames"   => CaughtUp
                          /\ part = "overlays" => OverlaysRest
                          /\ part = "view"     => ViewRest)
=============================================================================

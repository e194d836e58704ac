----------------------------- MODULE MCMainFile -----------------------------
(***************************************************************************)
(* What the threads that read main.db share, for TLC: the file with its    *)
(* lock and page caches, and the battles' slices of agent_states.  The two *)
(* share no state, so a behaviour is one of one part, and the other stays  *)
(* as it is.                                                               *)
(***************************************************************************)
EXTENDS MCSharedFile, MCBattleBounds

VARIABLE part

mainVars == <<part, vars, boundsVars>>

Bounds(A) == part = "bounds" /\ A /\ UNCHANGED <<part, vars>>

MainInit == part \in {"file", "bounds"} /\ FileInit /\ BoundsInit

MainNext == \/ part = "file" /\ FileNext /\ UNCHANGED <<part, boundsVars>>
            \/ Bounds(BoundsNext)

\* The fairness of BoundsSpec, of the part that moves.
MainSpec == /\ MainInit /\ [][MainNext]_mainVars
            /\ WF_mainVars(Bounds(PrefetchTurn)) /\ WF_mainVars(Bounds(PageTurn))

\* Prefetching ends in every behaviour that is one of the slices (schedulePrefetch
\* and its callers).
PrefetchingEnds == part = "bounds" => PrefetchEnds
=============================================================================

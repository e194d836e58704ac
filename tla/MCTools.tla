------------------------------ MODULE MCTools ------------------------------
(***************************************************************************)
(* What the user works with for TLC: checkpoints, windows, the list of     *)
(* rendering queries and the Schema Explorer.  They share no state, so a   *)
(* behaviour is one of one part, and the others stay as they are.          *)
(*                                                                         *)
(* Three checkpoints beside the baseline, two writes and all statements    *)
(* that end savepoints; a window of each kind, on a screen four headers    *)
(* high; two rendering queries of a page that starts in a battle, in an    *)
(* engine with room for three and a renderer with room for two; two        *)
(* explorers, one table in each schema and scripts of b that give it other *)
(* columns.                                                                *)
(***************************************************************************)
EXTENDS Checkpoints, Panels, RenderQueries, TLC

CONSTANTS w1, w2

MCTyped == Statements

VARIABLES part,
    db, script, stale, known, booted, filter, tree, job, inFlight, active, queue, toQuery,
    last, acts, mishaps

Text(b) == [body |-> b, good |-> TRUE, kind |-> "dots", ring |-> FALSE]

MCDefault == <<Text("corpses"), Text("agents")>>
MCAdded   == Text("new")
MCActs    == ActNames

E == INSTANCE Explorer WITH
        Windows <- {w1, w2}, FirstFilter <- (w1 :> "all") @@ (w2 :> "b"),
        Acts <- {"refresh", "filter", "ddl", "script", "revert", "focus"},
        Loaded <- "t" :> 1, Made <- [r |-> {"t" :> 1}, b |-> {"u" :> 1, "u" :> 2}],
        MaxActs <- 2, MaxMishaps <- 1, toWorker <- toQuery
ASSUME E!ExplorerConstants

explorerVars == <<db, script, stale, known, booted, filter, tree, job, inFlight, active, queue,
                  toQuery, last, acts, mishaps>>
allVars == <<part, checkpointsVars, panelVars, queriesVars, explorerVars>>

ToolsInit ==
    /\ part \in {"checkpoints", "windows", "queries", "explorers"}
    /\ CheckpointsInit /\ PanelInit /\ QueriesInit /\ E!Init
    /\ part # "windows" => panel.kind = "panel"
    /\ part = "queries" <=> battle
    /\ part # "explorers" => script["b"] = "u" :> 1

ToolsNext ==
    \/ part = "checkpoints" /\ CheckpointsNext /\ UNCHANGED <<part, panelVars, queriesVars, explorerVars>>
    \/ part = "windows" /\ PanelNext /\ UNCHANGED <<part, checkpointsVars, queriesVars, explorerVars>>
    \/ part = "queries" /\ QueriesNext /\ UNCHANGED <<part, checkpointsVars, panelVars, explorerVars>>
    \/ part = "explorers" /\ E!Next /\ UNCHANGED <<part, checkpointsVars, panelVars, queriesVars>>

\* The fairness of the part that moves, spelled out.  Of the queries EventTurn is enabled
\* while there is a message, a frame to ask for or one to draw, and Due while a timer runs;
\* no step of theirs is a click, and of theirs only Due ends a timer.  Of E!Fairness,
\* Worker is enabled as long as there is a message, and its steps are those that change the
\* page or its messages without the user.
Drawn == /\ toEngine = <<>> /\ fromEngine = <<>>
         /\ pending /\ screen = Copied(latest)
PartRests == /\ part = "queries" => Drawn
             /\ part = "explorers" => toQuery = <<>>
PartTurns == \/ part = "queries" /\ clicks' = clicks /\ timer' = timer
             \/ part = "explorers" /\ acts' = acts
PartFairness ==
    /\ []<>PartRests \/ []<><<PartTurns>>_<<queriesVars, explorerVars>>
    /\ []<>(timer = {}) \/ []<><<clicks' = clicks /\ timer' # timer>>_queriesVars

ToolsSpec == ToolsInit /\ [][ToolsNext]_allVars /\ PartFairness

-----------------------------------------------------------------------------
\* Explorers refresh one at a time each, and show what is in the database.
ExplorersAreSound == part = "explorers" => E!RefreshesAreSound

\* With event loops that go on, what is drawn comes right, and the refreshes that
\* start refreshes end.
ToolsComeToRest == <>[](/\ part = "queries"   => DrawnRight
                        /\ part = "explorers" => E!AtRest)
=============================================================================

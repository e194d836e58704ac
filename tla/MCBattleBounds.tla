--------------------------- MODULE MCBattleBounds ---------------------------
(* BattleBounds for TLC: a table with a gap, whose first row is before any   *)
(* battle; battle 0 has no row, battle 1 the last ones, a third none.        *)
EXTENDS BattleBounds, TLC

MCFirstTick == [b \in Battle |-> 2 * b + 1]
MCLastTick == [b \in Battle |-> 2 * b + 2]
MCLoaded == 1 :> 0 @@ 3 :> 3 @@ 4 :> 4
\* A row moves to the other battle and the last one is deleted.
MCEdited == {1 :> 0 @@ 3 :> 1}
=============================================================================

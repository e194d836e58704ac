----------------------------- MODULE MCPriming -----------------------------
(* Priming for TLC: battles of uneven length and uneven cost.              *)
EXTENDS Priming

\* Battles 0 and 2 start at the same distance from battle 1.
MCStartTime == [b \in Battle |-> CASE b = 0 -> 0 [] b = 1 -> 4 [] b = 2 -> 8 [] b = 3 -> 9]
MCIndexCost == [b \in Battle |-> IF b = 2 THEN 3 ELSE 2]
MCSummaryCost == [b \in Battle |-> 1]
MCBudgets == {0, 3}

\* Inside a battle, and where it ends before a gap or before the next one.
MCCursors == {<<1, 1>>, <<1, 2>>, <<1, None>>}
=============================================================================

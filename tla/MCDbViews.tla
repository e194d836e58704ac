----------------------------- MODULE MCDbViews -----------------------------
(* DbViews for TLC: two ticks in battle 0, then one in battle 1.  *)
EXTENDS DbViews

MCActiveAt == <<0, 0, 1>>
=============================================================================

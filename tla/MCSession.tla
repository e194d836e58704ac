----------------------------- MODULE MCSession -----------------------------
(* Session for TLC: one explorer shows both derived schemas, one shows b.  *)
EXTENDS Session

CONSTANTS t1, e1, e2

MCTerminals == {t1}
MCExplorers == {e1, e2}
MCWants == [e \in MCExplorers |-> IF e = e1 THEN Kinds ELSE {2}]
=============================================================================

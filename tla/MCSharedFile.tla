---------------------------- MODULE MCSharedFile ----------------------------
(* SharedFile for TLC: two writers and a reader, a file of two pages.      *)
EXTENDS SharedFile

CONSTANTS w1, w2, r1

MCConn == {w1, w2, r1}
MCWriter == {w1, w2}
=============================================================================

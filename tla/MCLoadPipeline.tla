--------------------------- MODULE MCLoadPipeline ---------------------------
(* LoadPipeline for TLC: two readers in a single load, or one reader in two *)
(* loads.                                                                  *)
EXTENDS LoadPipeline

MCReaderCounts == {1, 2}
MCMaxLoads == [n \in MCReaderCounts |-> IF n = 1 THEN 2 ELSE 1]
=============================================================================

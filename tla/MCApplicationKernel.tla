------------------------ MODULE MCApplicationKernel ------------------------
(* A database and an api that depends on it. *)
EXTENDS ApplicationKernel

CONSTANTS db, api

Pair == <<db, api>>
PairEdges == [r \in {db, api} |-> IF r = api THEN {db} ELSE {}]

=============================================================================

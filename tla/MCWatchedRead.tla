---------------------------- MODULE MCWatchedRead ----------------------------
(* Two browsers on one question, one of which keeps what it showed. *)
EXTENDS WatchedRead
CONSTANTS c1, c2, a, b
Differences == {<<a, b>>}
===============================================================================

---------------------------- MODULE MCWatchLoop -----------------------------
(* Two paths that have one possible content or do not exist: a file is     *)
(* created or deleted while the other one is captured.                     *)
EXTENDS WatchLoop
=============================================================================

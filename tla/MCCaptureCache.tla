--------------------------- MODULE MCCaptureCache ---------------------------
(* One path with two contents, used by two processes.                      *)
EXTENDS CaptureCache, TLC

CacheSymmetry == Permutations(Procs) \cup Permutations(Contents)
=============================================================================

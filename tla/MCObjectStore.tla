--------------------------- MODULE MCObjectStore ----------------------------
(* An instance of ObjectStore: three large blobs, each near every other,   *)
(* so that chains reach the depth limit.                                   *)
EXTENDS ObjectStore, TLC

AllNear == {x \in Large \X Large : x[1] # x[2]}

(* Swapping processes, or large blobs with each other, maps behaviours to  *)
(* behaviours.                                                             *)
StoreSymmetry == Permutations(Procs) \cup Permutations(Large)
=============================================================================

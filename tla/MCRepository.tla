---------------------------- MODULE MCRepository ----------------------------
(* Small instances of Repository: two or three processes, a path with two  *)
(* or three contents, the branches main and dev, at most one workspace.    *)
EXTENDS Repository, TLC

CONSTANTS p1, p2, p3, main, dev, ws, root

(* Every process is opened on the main working directory.                  *)
SharedRoot == [p \in Procs |-> MainRoot]

(* One process on the main working directory, two on an external workspace. *)
MixedRoots == (p1 :> root) @@ (p2 :> ws) @@ (p3 :> ws)

(* Swapping processes maps behaviours to behaviours when all are opened on *)
(* the same directory.                                                     *)
ProcSymmetry == Permutations(Procs)
=============================================================================

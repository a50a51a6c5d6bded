----------------------------- MODULE CursorLock -----------------------------
(* What acquire_metadata_lock and the Drop of MetadataLock promise their   *)
(* callers: a guard is handed out only while nobody has one, and it is     *)
(* gone when its owner drops it, not before.  Repository acquires and      *)
(* releases cursor locks in this way.                                      *)
CONSTANTS Contenders

VARIABLE guards    \* the processes that have a guard

Init == guards = {}

Acquire(p) == guards = {} /\ guards' = {p}
Release(p) == guards = {p} /\ guards' = {}

Next == \E p \in Contenders : Acquire(p) \/ Release(p)

Spec == Init /\ [][Next]_guards
=============================================================================

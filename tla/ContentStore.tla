---------------------------- MODULE ContentStore ----------------------------
(* What the object store promises the layers above it, until something     *)
(* outside it spoils a file: the objects that can be read back only grow,  *)
(* one at a time, and a put that returned names one of them.               *)
CONSTANTS Procs, Blobs

VARIABLES
    readable,  \* objects that get_blob returns
    returned,  \* returned[p]: objects process p was given an id for
    spoiled    \* has a file been lost or spoiled?

Init == readable = {} /\ returned = [p \in Procs |-> {}] /\ spoiled = FALSE

Add(b) == readable' = readable \cup {b} /\ UNCHANGED <<returned, spoiled>>

Return(p, b) ==
    /\ b \in readable
    /\ returned' = [returned EXCEPT ![p] = @ \cup {b}]
    /\ UNCHANGED <<readable, spoiled>>

(* From here on nothing is promised.                                       *)
Spoil == spoiled' = TRUE

Next == Spoil \/ \E b \in Blobs : Add(b) \/ \E p \in Procs : Return(p, b)

Spec == Init /\ [][Next]_<<readable, returned, spoiled>>
=============================================================================

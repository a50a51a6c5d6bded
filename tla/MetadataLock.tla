---------------------------- MODULE MetadataLock ----------------------------
(***************************************************************************)
(* One lock file under `.era/locks': acquire_metadata_lock (create the     *)
(* file exclusively, else look at its age, remove it when stale, give up   *)
(* after LOCK_WAIT_TIMEOUT, sleep and try again) and the Drop of           *)
(* MetadataLock, which removes whatever file has that path.                *)
(*                                                                         *)
(* Time passes in ticks.  The file's age is what stat reports, waited is   *)
(* start.elapsed(), heldFor how long the caller has kept the guard; each   *)
(* stops at the largest value that is told apart.                          *)
(***************************************************************************)
EXTENDS Integers, FiniteSets

CONSTANTS
    Contenders,
    Free,          \* no lock file
    LockWaitTimeout,   \* LOCK_WAIT_TIMEOUT in ticks (10 s in the code)
    StaleLockAge,  \* STALE_LOCK_AGE in ticks (60 s in the code)
    MaxHold,       \* the longest a caller keeps the guard, in ticks
    MaxFaults      \* bound: crashes and failed writes of the lock file

ASSUME LockAssumption ==
    /\ Free \notin Contenders
    /\ LockWaitTimeout \in Nat \ {0} /\ StaleLockAge \in Nat \ {0}
    /\ LockWaitTimeout < StaleLockAge
    /\ MaxHold \in Nat /\ MaxFaults \in Nat

VARIABLES
    owner,     \* the process whose file it is, or Free
    age,       \* age of the file
    pc,        \* where each process is in acquire_metadata_lock
    waited,    \* how long it has been in there
    heldFor,   \* how long it has held the guard
    faults

vars == <<owner, age, pc, waited, heldFor, faults>>

Labels == {"out", "create", "stat", "remove", "elapsed", "held"}

TypeOK ==
    /\ owner \in Contenders \cup {Free}
    /\ age \in 0..StaleLockAge
    /\ pc \in [Contenders -> Labels]
    /\ waited \in [Contenders -> 0..LockWaitTimeout]
    /\ heldFor \in [Contenders -> 0..MaxHold]
    /\ faults \in 0..MaxFaults

Init ==
    /\ owner = Free
    /\ age = 0
    /\ pc = [p \in Contenders |-> "out"]
    /\ waited = [p \in Contenders |-> 0]
    /\ heldFor = [p \in Contenders |-> 0]
    /\ faults = 0

Goto(p, l) == pc' = [pc EXCEPT ![p] = l]

-----------------------------------------------------------------------------
Enter(p) ==
    /\ pc[p] = "out"
    /\ waited' = [waited EXCEPT ![p] = 0]
    /\ Goto(p, "create")
    /\ UNCHANGED <<owner, age, heldFor, faults>>

(* Mutant: create(true) instead of create_new(true).                       *)
CreateOrOpen(p) ==
    /\ pc[p] = "create"
    /\ owner' = p
    /\ age' = 0
    /\ heldFor' = [heldFor EXCEPT ![p] = 0]
    /\ Goto(p, "held")
    /\ UNCHANGED <<waited, faults>>

(* OpenOptions::create_new succeeds: the file is new and the guard ours.   *)
CreateNew(p) ==
    /\ pc[p] = "create"
    /\ owner = Free
    /\ owner' = p
    /\ age' = 0
    /\ heldFor' = [heldFor EXCEPT ![p] = 0]
    /\ Goto(p, "held")
    /\ UNCHANGED <<waited, faults>>

(* create_new succeeds but writing pid and time fails: the error returns   *)
(* before a guard exists, and the file stays.                              *)
CreateThenFail(p) ==
    /\ pc[p] = "create"
    /\ owner = Free
    /\ faults < MaxFaults
    /\ faults' = faults + 1
    /\ owner' = p
    /\ age' = 0
    /\ Goto(p, "out")
    /\ UNCHANGED <<waited, heldFor>>

AlreadyExists(p) ==
    /\ pc[p] = "create"
    /\ owner # Free
    /\ Goto(p, "stat")
    /\ UNCHANGED <<owner, age, waited, heldFor, faults>>

(* Mutant: the age is compared with the wrong limit.                       *)
StatLockWrongLimit(p) ==
    /\ pc[p] = "stat"
    /\ Goto(p, IF owner # Free /\ age >= LockWaitTimeout THEN "remove"
                                                        ELSE "elapsed")
    /\ UNCHANGED <<owner, age, waited, heldFor, faults>>

(* Mutant: the age never reaches the limit.                                *)
StatLockNeverStale(p) ==
    /\ pc[p] = "stat"
    /\ Goto(p, "elapsed")
    /\ UNCHANGED <<owner, age, waited, heldFor, faults>>

(* maybe_remove_stale_lock, first half: the age is read ...                *)
StatLock(p) ==
    /\ pc[p] = "stat"
    /\ Goto(p, IF owner # Free /\ age >= StaleLockAge THEN "remove"
                                                     ELSE "elapsed")
    /\ UNCHANGED <<owner, age, waited, heldFor, faults>>

(* ... second half: whatever file is there now is removed.                 *)
RemoveFile(p) ==
    /\ pc[p] = "remove"
    /\ owner' = Free
    /\ Goto(p, "elapsed")
    /\ UNCHANGED <<age, waited, heldFor, faults>>

(* Mutant: the timeout is never looked at.                                 *)
CheckElapsedNever(p) ==
    /\ pc[p] = "elapsed"
    /\ Goto(p, "create")
    /\ UNCHANGED <<owner, age, waited, heldFor, faults>>

(* Give up after the timeout, otherwise sleep and try again.               *)
CheckElapsed(p) ==
    /\ pc[p] = "elapsed"
    /\ Goto(p, IF waited[p] >= LockWaitTimeout THEN "out" ELSE "create")
    /\ UNCHANGED <<owner, age, waited, heldFor, faults>>

(* Drop for MetadataLock.                                                  *)
DropGuard(p) ==
    /\ pc[p] = "held"
    /\ owner' = Free
    /\ Goto(p, "out")
    /\ UNCHANGED <<age, waited, heldFor, faults>>

Crash(p) ==
    /\ pc[p] # "out"
    /\ faults < MaxFaults
    /\ faults' = faults + 1
    /\ Goto(p, "out")
    /\ UNCHANGED <<owner, age, waited, heldFor>>

AtMost(n, bound) == IF n < bound THEN n ELSE bound

(* Time passes, but nobody keeps a guard longer than MaxHold.              *)
Tick ==
    /\ \A p \in Contenders : pc[p] = "held" => heldFor[p] < MaxHold
    /\ age' = AtMost(age + 1, StaleLockAge)
    /\ waited' = [p \in Contenders |-> AtMost(waited[p] + 1, LockWaitTimeout)]
    /\ heldFor' = [p \in Contenders |-> AtMost(heldFor[p] + 1, MaxHold)]
    /\ UNCHANGED <<owner, pc, faults>>

-----------------------------------------------------------------------------
Step(p) ==
    \/ CreateNew(p) \/ AlreadyExists(p) \/ StatLock(p) \/ RemoveFile(p)
    \/ CheckElapsed(p) \/ DropGuard(p)

Next ==
    \/ \E p \in Contenders : Enter(p) \/ Step(p) \/ CreateThenFail(p) \/ Crash(p)
    \/ Tick

Spec == Init /\ [][Next]_vars

(* The operating system runs every process and time passes.                *)
FairSpec == Spec /\ WF_vars(Tick) /\ \A p \in Contenders : WF_vars(Step(p))

-----------------------------------------------------------------------------
(* At most one process holds the guard of a lock.                          *)
MutualExclusion ==
    \A p, q \in Contenders : pc[p] = "held" /\ pc[q] = "held" => p = q

(* The same, until a process first crashes or fails inside the protocol.   *)
ExcludesUntilFault == faults = 0 => MutualExclusion

(* Until then the process that holds the guard is the one whose file it    *)
(* is, and the file is no older than the guard: a guard that is dropped    *)
(* before its file counts as stale is never taken over.                    *)
GuardMatchesFile ==
    faults = 0 => /\ \A p \in Contenders : pc[p] = "held" <=> owner = p
                  /\ \A p \in Contenders : pc[p] = "held" => age <= heldFor[p]
                  /\ \A p \in Contenders : pc[p] # "remove"

(* Seen from its callers the lock file is a lock, until the first fault,   *)
(* after which nothing is claimed and the lock counts as given up.         *)
Guards == IF faults = 0 THEN {p \in Contenders : pc[p] = "held"} ELSE {}

Abstract == INSTANCE CursorLock WITH guards <- Guards

ImplementsLock == Abstract!Spec

(* Whoever asks for a lock gets it or is told LockTimeout.                 *)
RequestsAnswered ==
    \A p \in Contenders : pc[p] = "create" ~> pc[p] \in {"held", "out"}

(* A file whose creator is gone does not block the repository for good: as *)
(* long as somebody keeps asking for the lock, it is removed.              *)
OrphanRemoved ==
    []<>(\E p \in Contenders : pc[p] = "stat")
        => ((owner # Free /\ \A p \in Contenders : pc[p] # "held")
               ~> (owner = Free \/ \E p \in Contenders : pc[p] = "held"))
=============================================================================

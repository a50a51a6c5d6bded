----------------------------- MODULE Repository -----------------------------
(***************************************************************************)
(* The repository operations of crates/repository: several `era' processes *)
(* work on one `.era' directory, each running one operation at a time from *)
(* the main working directory or from an external workspace.               *)
(*                                                                         *)
(* A step is one effect on shared state: reading one file of a working     *)
(* directory, reading HEAD, creating a lock file, reading a ref, storing a *)
(* snapshot object, writing its index entry, replacing a ref, writing one  *)
(* file of a working directory, removing a lock file.  Between any two of  *)
(* them another process, the user's editor, an I/O error or a crash may    *)
(* come.                                                                   *)
(*                                                                         *)
(* Snapshots are numbered in the order they are first stored: snapshot i   *)
(* is snaps[i] and 0 stands for "no snapshot".  A tree is the function     *)
(* from tracked paths to contents that its tree object encodes.            *)
(***************************************************************************)
EXTENDS Integers, Sequences, FiniteSets

CONSTANTS
    Procs,        \* processes
    Branches,     \* branch names
    Workspaces,   \* ids of external workspaces
    MainBranch,   \* the branch `main' that init creates
    MainRoot,     \* the working directory that holds `.era' itself
    RootOf,       \* the working directory each process is opened on
    Paths,        \* tracked paths
    Contents,     \* contents of a path, "absent" being one of them
    IndexLock,    \* the lock of the snapshot index
    Free, Orphan, \* no lock file; a lock file whose creator died
    Ops,          \* the operations processes run
    RawIds,       \* may `restore' name a snapshot by its full object id?
    HasIndex,     \* does the repository start with a complete index?
    MaxOps,       \* bound: operations started
    MaxEdits,     \* bound: edits of a working directory
    MaxFaults     \* bound: I/O errors and crashes

Roots    == {MainRoot} \cup Workspaces
Cursors  == Branches \cup Workspaces
Locks    == Cursors \cup {IndexLock}
Trees    == [Paths -> Contents]
AllOps   == {"snapshot", "snapshot_if_changed", "create_branch",
             "switch_branch", "restore", "snapshot_graph"}
Labels   == {"idle", "done", "failed", "capture", "cursor", "lock", "parent",
             "put", "index", "advance", "release", "finish", "base_cursor",
             "base_ref", "link", "branch_ref", "materialize", "move",
             "move_lock", "check", "index_lock", "list", "fill"}

ASSUME ConstantsAssumption ==
    /\ MainBranch \in Branches
    /\ Branches \cap Workspaces = {}
    /\ MainRoot \notin Workspaces
    /\ IndexLock \notin Cursors
    /\ Free \notin Procs /\ Orphan \notin Procs /\ Free # Orphan
    /\ RootOf \in [Procs -> Roots]
    /\ Ops \subseteq AllOps
    /\ RawIds \in BOOLEAN /\ HasIndex \in BOOLEAN
    /\ MaxOps \in Nat /\ MaxEdits \in Nat /\ MaxFaults \in Nat

VARIABLES
    head,      \* the branch HEAD names
    refs,      \* ref files: cursor -> snapshot, 0 when the file is missing
    locks,     \* lock files: lock -> the process that created it
    snaps,     \* stored snapshot objects
    index,     \* snapshots with an entry under index/snapshots
    complete,  \* does the marker `.complete-v1' exist?
    work,      \* working directories: root -> tree
    pc, op,    \* where each process is, and in which operation
    left,      \* the paths a capture has not read / a checkout not written
    cap,       \* the captured tree (CaptureResult::root_tree_id)
    cur,       \* the cursor the operation works on (CursorReference)
    parent,    \* the cursor's snapshot as read under its lock
    new,       \* the snapshot just stored
    target,    \* the snapshot to materialize or to start a branch at
    name,      \* the branch named on the command line
    todo,      \* the ids an index rebuild has still to write
    opCount, edits, faults,   \* bounds
    edited     \* history: roots edited since their last operation started

disk  == <<head, refs, locks, snaps, index, complete>>
env   == <<opCount, edits, faults, edited>>
local == <<cap, cur, parent, new, target, name>>
vars  == <<head, refs, locks, snaps, index, complete, work, pc, op, left, cap,
           cur, parent, new, target, name, todo, opCount, edits, faults, edited>>

-----------------------------------------------------------------------------
(* A snapshot object: tree, first parent, and whether a changed-only       *)
(* operation stored it (automatic snapshots and safety snapshots) rather   *)
(* than an explicit `snapshot'.  Timestamp, author and message are left    *)
(* out: they only decide whether storing equal data twice gives one id or  *)
(* two (see PutSnapshot).                                                  *)
SnapshotOf(t, par, auto) == [tree |-> t, parent |-> par, auto |-> auto]

SnapshotType == [tree : Trees, parent : Nat, auto : BOOLEAN]

Stored == DOMAIN snaps

TypeOK ==
    /\ head \in Branches
    /\ refs \in [Cursors -> Nat]
    /\ locks \in [Locks -> Procs \cup {Free, Orphan}]
    /\ snaps \in Seq(SnapshotType)
    /\ index \subseteq Nat
    /\ complete \in BOOLEAN
    /\ work \in [Roots -> Trees]
    /\ pc \in [Procs -> Labels]
    /\ op \in [Procs -> AllOps]
    /\ left \in [Procs -> SUBSET Paths]
    /\ cap \in [Procs -> Trees]
    /\ cur \in [Procs -> Cursors]
    /\ parent \in [Procs -> Nat]
    /\ new \in [Procs -> Nat]
    /\ target \in [Procs -> Nat]
    /\ name \in [Procs -> Branches]
    /\ todo \in [Procs -> SUBSET Nat]
    /\ opCount \in 0..MaxOps
    /\ edits \in 0..MaxEdits
    /\ faults \in 0..MaxFaults
    /\ edited \subseteq Roots

(* The state after `era init' and one `era workspace add' per workspace:   *)
(* one snapshot, on which every cursor stands.  A repository whose index   *)
(* directory was lost or never written has no marker and no entries.       *)
Init ==
    \E t \in Trees :
        /\ head = MainBranch
        /\ refs = [c \in Cursors |->
                     IF c \in Workspaces \cup {MainBranch} THEN 1 ELSE 0]
        /\ locks = [l \in Locks |-> Free]
        /\ snaps = <<SnapshotOf(t, 0, FALSE)>>
        /\ index = IF HasIndex THEN {1} ELSE {}
        /\ complete = HasIndex
        /\ work = [r \in Roots |-> t]
        /\ pc = [p \in Procs |-> "idle"]
        /\ op = [p \in Procs |-> "snapshot"]
        /\ left = [p \in Procs |-> {}]
        /\ cap = [p \in Procs |-> t]
        /\ cur = [p \in Procs |-> MainBranch]
        /\ parent = [p \in Procs |-> 0]
        /\ new = [p \in Procs |-> 0]
        /\ target = [p \in Procs |-> 0]
        /\ name = [p \in Procs |-> MainBranch]
        /\ todo = [p \in Procs |-> {}]
        /\ opCount = 0
        /\ edits = 0
        /\ faults = 0
        /\ edited = {}

-----------------------------------------------------------------------------
(* Starting an operation: the checks made before the capture.              *)

Goto(p, l) == pc' = [pc EXCEPT ![p] = l]

(* The user (or an agent) writes one file.                                 *)
Edit(r, f, c) ==
    /\ work[r][f] # c
    /\ edits < MaxEdits
    /\ edits' = edits + 1
    /\ work' = [work EXCEPT ![r][f] = c]
    /\ edited' = edited \cup {r}
    /\ UNCHANGED <<disk, pc, op, left, local, todo, opCount, faults>>

BeginOperation(p, o) ==
    /\ pc[p] \in {"idle", "done", "failed"}
    /\ opCount < MaxOps
    /\ opCount' = opCount + 1
    /\ op' = [op EXCEPT ![p] = o]
    /\ edited' = edited \ {RootOf[p]}
    /\ UNCHANGED <<disk, work, cap, cur, parent, new, todo, edits, faults>>

StartSnapshot(p) ==
    /\ \E o \in Ops \cap {"snapshot", "snapshot_if_changed"} :
           BeginOperation(p, o)
    /\ Goto(p, "capture")
    /\ left' = [left EXCEPT ![p] = Paths]
    /\ UNCHANGED <<target, name>>

(* create_branch refuses an existing branch, switch_branch a missing one;  *)
(* the refusal leaves everything as it was.                                *)
StartBranch(p, b) ==
    /\ \/ /\ refs[b] = 0
          /\ "create_branch" \in Ops
          /\ BeginOperation(p, "create_branch")
       \/ /\ refs[b] # 0
          /\ "switch_branch" \in Ops
          /\ BeginOperation(p, "switch_branch")
    /\ Goto(p, "capture")
    /\ left' = [left EXCEPT ![p] = Paths]
    /\ name' = [name EXCEPT ![p] = b]
    /\ UNCHANGED target

(* resolve_snapshot_target: a full id is accepted for any stored object, a *)
(* branch or workspace name gives its ref, and a prefix or a message is    *)
(* looked up among the indexed snapshots.  That lookup rebuilds a missing  *)
(* index first, in the steps snapshot_graph takes for the same purpose: a  *)
(* process doing so is one running snapshot_graph and then restore.        *)
ResolvedTargets ==
    ({refs[c] : c \in Cursors} \ {0})
        \cup (IF complete THEN index ELSE {})
        \cup (IF RawIds THEN Stored ELSE {})

StartRestore(p) ==
    /\ "restore" \in Ops
    /\ BeginOperation(p, "restore")
    /\ \E s \in ResolvedTargets : target' = [target EXCEPT ![p] = s]
    /\ Goto(p, "capture")
    /\ left' = [left EXCEPT ![p] = Paths]
    /\ UNCHANGED name

-----------------------------------------------------------------------------
(* Saving the working tree: the part snapshot, snapshot_if_changed and     *)
(* restore have in common, and that create_branch and switch_branch reach  *)
(* through save_current_state_if_changed.                                  *)

(* capture_tree walks the directory, holding no lock: it reads one path.   *)
CapturePath(p, f) ==
    /\ pc[p] = "capture"
    /\ f \in left[p]
    /\ cap' = [cap EXCEPT ![p][f] = work[RootOf[p]][f]]
    /\ left' = [left EXCEPT ![p] = @ \ {f}]
    /\ IF left[p] = {f} THEN Goto(p, "cursor") ELSE UNCHANGED pc
    /\ UNCHANGED <<disk, work, op, cur, parent, new, target, name, todo,
                   env>>

(* current_cursor_reference: HEAD is read only now, after the capture.     *)
CursorOf(r) == IF r = MainRoot THEN head ELSE r

ReadCursor(p) ==
    /\ pc[p] = "cursor"
    /\ cur' = [cur EXCEPT ![p] = CursorOf(RootOf[p])]
    /\ Goto(p, "lock")
    /\ UNCHANGED <<disk, work, op, left, cap, parent, new, target, name, todo,
                   env>>

(* The lock a process waits for or holds.                                  *)
LockOf(p) == IF op[p] = "snapshot_graph" THEN IndexLock ELSE cur[p]

(* Mutant: the retry loop is missing for the second lock of a switch.      *)
WaitingOnce(p) == pc[p] \in {"lock", "index_lock"}

Waiting(p) == pc[p] \in {"lock", "move_lock", "index_lock"}

(* Mutant: the lock file is opened, not created exclusively.               *)
AcquireLockShared(p) ==
    /\ Waiting(p)
    /\ locks' = [locks EXCEPT ![LockOf(p)] = p]
    /\ \/ pc[p] = "lock" /\ Goto(p, "parent")
       \/ pc[p] = "move_lock" /\ Goto(p, "move")
       \/ pc[p] = "index_lock" /\ Goto(p, "list")
    /\ UNCHANGED <<head, refs, snaps, index, complete, work, op, left, local,
                   todo, env>>

(* acquire_metadata_lock as a whole; MetadataLock has its steps.  Only a   *)
(* lock whose creator died is ever taken over here.                        *)
AcquireLock(p) ==
    /\ Waiting(p)
    /\ locks[LockOf(p)] = Free
    /\ locks' = [locks EXCEPT ![LockOf(p)] = p]
    /\ \/ pc[p] = "lock" /\ Goto(p, "parent")
       \/ pc[p] = "move_lock" /\ Goto(p, "move")
       \/ pc[p] = "index_lock" /\ Goto(p, "list")
    /\ UNCHANGED <<head, refs, snaps, index, complete, work, op, left, local,
                   todo, env>>

RemoveStaleLock(p) ==
    /\ Waiting(p)
    /\ locks[LockOf(p)] = Orphan
    /\ locks' = [locks EXCEPT ![LockOf(p)] = Free]
    /\ UNCHANGED <<head, refs, snaps, index, complete, work, pc, op, left,
                   local, todo, env>>

LockTimeout(p) ==
    /\ Waiting(p)
    /\ locks[LockOf(p)] # Free
    /\ Goto(p, "failed")
    /\ UNCHANGED <<disk, work, op, left, local, todo, env>>

(* Where an operation goes once the cursor holds the captured tree.        *)
AfterSave(o) ==
    IF o \in {"snapshot", "snapshot_if_changed"} THEN "finish"
    ELSE IF o \in {"create_branch", "switch_branch"} THEN "release"
    ELSE "materialize"

(* Mutants: the capture is not compared with the parent; restore does not  *)
(* save a changed tree.                                                    *)
ReadParentAlwaysStores(p) ==
    /\ pc[p] = "parent"
    /\ parent' = [parent EXCEPT ![p] = refs[cur[p]]]
    /\ Goto(p, "put")
    /\ left' = [left EXCEPT ![p] = Paths]
    /\ UNCHANGED <<disk, work, op, cap, cur, new, target, name, todo, env>>

ReadParentNoSafety(p) ==
    /\ pc[p] = "parent"
    /\ parent' = [parent EXCEPT ![p] = refs[cur[p]]]
    /\ Goto(p, IF op[p] = "snapshot" THEN "put" ELSE AfterSave(op[p]))
    /\ left' = [left EXCEPT ![p] = Paths]
    /\ UNCHANGED <<disk, work, op, cap, cur, new, target, name, todo, env>>

(* The parent is read under the lock; only an explicit `snapshot' stores   *)
(* a snapshot whose tree its parent already has.                           *)
ReadParent(p) ==
    /\ pc[p] = "parent"
    /\ parent' = [parent EXCEPT ![p] = refs[cur[p]]]
    /\ Goto(p, IF op[p] # "snapshot" /\ snaps[refs[cur[p]]].tree = cap[p]
               THEN AfterSave(op[p]) ELSE "put")
    /\ left' = [left EXCEPT ![p] = Paths]
    /\ UNCHANGED <<disk, work, op, cap, cur, new, target, name, todo, env>>

NewSnapshot(p) == SnapshotOf(cap[p], parent[p], op[p] # "snapshot")

(* Mutant: the id is returned although the object was never linked.        *)
PutSnapshotUnlinked(p) ==
    /\ pc[p] = "put"
    /\ new' = [new EXCEPT ![p] = Len(snaps) + 1]
    /\ Goto(p, "index")
    /\ UNCHANGED <<disk, work, op, left, cap, cur, parent, target, name, todo,
                   env>>

(* put_snapshot.  Objects are content addressed: data equal to that of a   *)
(* stored snapshot, timestamp included, is that snapshot.                  *)
PutSnapshot(p) ==
    /\ pc[p] = "put"
    /\ \/ /\ snaps' = Append(snaps, NewSnapshot(p))
          /\ new' = [new EXCEPT ![p] = Len(snaps) + 1]
       \/ \E i \in Stored :
              /\ snaps[i] = NewSnapshot(p)
              /\ new' = [new EXCEPT ![p] = i]
              /\ UNCHANGED snaps
    /\ Goto(p, "index")
    /\ UNCHANGED <<head, refs, locks, index, complete, work, op, left, cap, cur,
                   parent, target, name, todo, env>>

(* Mutant: the index entry is forgotten.                                   *)
WriteIndexEntryForgotten(p) ==
    /\ pc[p] = "index"
    /\ Goto(p, "advance")
    /\ UNCHANGED <<disk, work, op, left, local, todo, env>>

WriteIndexEntry(p) ==
    /\ pc[p] = "index"
    /\ index' = index \cup {new[p]}
    /\ Goto(p, "advance")
    /\ UNCHANGED <<head, refs, locks, snaps, complete, work, op, left, local,
                   todo, env>>

AdvanceCursor(p) ==
    /\ pc[p] = "advance"
    /\ refs' = [refs EXCEPT ![cur[p]] = new[p]]
    /\ Goto(p, AfterSave(op[p]))
    /\ UNCHANGED <<head, locks, snaps, index, complete, work, op, left, local,
                   todo, env>>

(* The guard goes out of scope when snapshot_if_changed returns to         *)
(* create_branch or switch_branch: they go on without the lock.            *)
ReleaseLock(p) ==
    /\ pc[p] = "release"
    /\ locks' = [locks EXCEPT ![LockOf(p)] = Free]
    /\ Goto(p, IF op[p] = "create_branch" THEN "base_cursor" ELSE "branch_ref")
    /\ UNCHANGED <<head, refs, snaps, index, complete, work, op, left, local,
                   todo, env>>

FinishLocked(p) ==
    /\ pc[p] = "finish"
    /\ locks' = [locks EXCEPT ![LockOf(p)] = Free]
    /\ Goto(p, "done")
    /\ UNCHANGED <<head, refs, snaps, index, complete, work, op, left, local,
                   todo, env>>

-----------------------------------------------------------------------------
(* create_branch, after the save: current_snapshot_id reads HEAD and the   *)
(* ref once more, then the ref file is linked into place unless it exists. *)

ReadBaseCursor(p) ==
    /\ pc[p] = "base_cursor"
    /\ cur' = [cur EXCEPT ![p] = CursorOf(RootOf[p])]
    /\ Goto(p, "base_ref")
    /\ UNCHANGED <<disk, work, op, left, cap, parent, new, target, name, todo,
                   env>>

ReadBaseRef(p) ==
    /\ pc[p] = "base_ref"
    /\ target' = [target EXCEPT ![p] = refs[cur[p]]]
    /\ Goto(p, "link")
    /\ UNCHANGED <<disk, work, op, left, cap, cur, parent, new, name, todo,
                   env>>

CreateBranchRef(p) ==
    /\ pc[p] = "link"
    /\ \/ /\ refs[name[p]] = 0
          /\ refs' = [refs EXCEPT ![name[p]] = target[p]]
          /\ Goto(p, "done")
       \/ /\ refs[name[p]] # 0
          /\ Goto(p, "failed")
          /\ UNCHANGED refs
    /\ UNCHANGED <<head, locks, snaps, index, complete, work, op, left, local,
                   todo, env>>

-----------------------------------------------------------------------------
(* switch_branch and restore, after the save.  restore still holds the     *)
(* cursor's lock, switch_branch holds none.                                *)

(* Mutant: the cursor's own snapshot is read instead of the named branch's.*)
ReadOwnRef(p) ==
    /\ pc[p] = "branch_ref"
    /\ target' = [target EXCEPT ![p] = refs[cur[p]]]
    /\ left' = [left EXCEPT ![p] = Paths]
    /\ Goto(p, "materialize")
    /\ UNCHANGED <<disk, work, op, cap, cur, parent, new, name, todo, env>>

ReadBranchRef(p) ==
    /\ pc[p] = "branch_ref"
    /\ target' = [target EXCEPT ![p] = refs[name[p]]]
    /\ left' = [left EXCEPT ![p] = Paths]
    /\ Goto(p, "materialize")
    /\ UNCHANGED <<disk, work, op, cap, cur, parent, new, name, todo, env>>

(* Mutant: a workspace switch moves its ref without the lock.              *)
MaterializePathUnlocked(p, f) ==
    /\ pc[p] = "materialize"
    /\ f \in left[p]
    /\ work' = [work EXCEPT ![RootOf[p]][f] = snaps[target[p]].tree[f]]
    /\ left' = [left EXCEPT ![p] = @ \ {f}]
    /\ IF left[p] # {f} THEN UNCHANGED pc ELSE Goto(p, "move")
    /\ UNCHANGED <<disk, op, cap, cur, parent, new, target, name, todo, env>>

(* materialize_tree brings one path to the target's content.  A switch in  *)
(* a workspace then takes that workspace's lock.                           *)
MaterializePath(p, f) ==
    /\ pc[p] = "materialize"
    /\ f \in left[p]
    /\ work' = [work EXCEPT ![RootOf[p]][f] = snaps[target[p]].tree[f]]
    /\ left' = [left EXCEPT ![p] = @ \ {f}]
    /\ IF left[p] # {f}
       THEN UNCHANGED <<pc, cur>>
       ELSE IF op[p] = "switch_branch" /\ RootOf[p] # MainRoot
            THEN /\ Goto(p, "move_lock")
                 /\ cur' = [cur EXCEPT ![p] = RootOf[p]]
            ELSE /\ Goto(p, "move")
                 /\ UNCHANGED cur
    /\ UNCHANGED <<disk, op, cap, parent, new, target, name, todo, env>>

(* write_head: without a lock.                                             *)
MoveHead(p) ==
    /\ pc[p] = "move"
    /\ op[p] = "switch_branch" /\ RootOf[p] = MainRoot
    /\ head' = name[p]
    /\ Goto(p, "done")
    /\ UNCHANGED <<refs, locks, snaps, index, complete, work, op, left, local,
                   todo, env>>

MoveCursor(p) ==
    /\ pc[p] = "move"
    /\ ~(op[p] = "switch_branch" /\ RootOf[p] = MainRoot)
    /\ refs' = [refs EXCEPT ![cur[p]] = target[p]]
    /\ Goto(p, "finish")
    /\ UNCHANGED <<head, locks, snaps, index, complete, work, op, left, local,
                   todo, env>>

-----------------------------------------------------------------------------
(* snapshot_graph: ensure_snapshot_index_complete, then the entries are    *)
(* listed, which changes nothing.                                          *)

StartGraph(p) ==
    /\ "snapshot_graph" \in Ops
    /\ BeginOperation(p, "snapshot_graph")
    /\ Goto(p, "check")
    /\ UNCHANGED <<left, target, name>>

CheckMarker(p) ==
    /\ pc[p] = "check"
    /\ Goto(p, IF complete THEN "done" ELSE "index_lock")
    /\ UNCHANGED <<disk, work, op, left, local, todo, env>>

(* The marker is checked again under the lock; then list_snapshot_ids.     *)
ListSnapshots(p) ==
    /\ pc[p] = "list"
    /\ \/ /\ complete
          /\ Goto(p, "finish")
          /\ UNCHANGED todo
       \/ /\ ~complete
          /\ todo' = [todo EXCEPT ![p] = Stored]
          /\ Goto(p, "fill")
    /\ UNCHANGED <<disk, work, op, left, local, env>>

FillIndex(p) ==
    /\ pc[p] = "fill"
    /\ \E s \in todo[p] :
           /\ index' = index \cup {s}
           /\ todo' = [todo EXCEPT ![p] = @ \ {s}]
    /\ UNCHANGED <<head, refs, locks, snaps, complete, work, pc, op, left,
                   local, env>>

(* Mutant: the marker is written before the entries.                       *)
MarkCompleteEarly(p) ==
    /\ pc[p] = "fill"
    /\ complete' = TRUE
    /\ Goto(p, "finish")
    /\ UNCHANGED <<head, refs, locks, snaps, index, work, op, left, local,
                   todo, env>>

MarkComplete(p) ==
    /\ pc[p] = "fill"
    /\ todo[p] = {}
    /\ complete' = TRUE
    /\ Goto(p, "finish")
    /\ UNCHANGED <<head, refs, locks, snaps, index, work, op, left, local,
                   todo, env>>

-----------------------------------------------------------------------------
(* Faults.  An error returns early: the guard's Drop removes the lock.  A  *)
(* crash leaves the lock file behind.                                      *)

Running(p) == pc[p] \notin {"idle", "done", "failed"}

HoldsLock(p) ==
    \/ pc[p] \in {"parent", "put", "index", "advance", "release", "finish",
                  "list", "fill"}
    \/ pc[p] \in {"materialize", "move"} /\ op[p] = "restore"
    \/ pc[p] = "move" /\ RootOf[p] # MainRoot

Fault(p, leftover) ==
    /\ Running(p)
    /\ faults < MaxFaults
    /\ faults' = faults + 1
    /\ locks' = IF HoldsLock(p) THEN [locks EXCEPT ![LockOf(p)] = leftover]
                                ELSE locks
    /\ Goto(p, "failed")
    /\ UNCHANGED <<head, refs, snaps, index, complete, work, op, left, local,
                   todo, opCount, edits, edited>>

IoError(p) == Fault(p, Free)
Crash(p)   == Fault(p, Orphan)

-----------------------------------------------------------------------------
Start(p) ==
    \/ StartSnapshot(p) \/ StartRestore(p) \/ StartGraph(p)
    \/ \E b \in Branches : StartBranch(p, b)

Step(p) ==
    \/ \E f \in Paths : CapturePath(p, f) \/ MaterializePath(p, f)
    \/ ReadCursor(p) \/ AcquireLock(p) \/ RemoveStaleLock(p) \/ LockTimeout(p)
    \/ ReadParent(p) \/ PutSnapshot(p) \/ WriteIndexEntry(p)
    \/ AdvanceCursor(p) \/ ReleaseLock(p) \/ FinishLocked(p)
    \/ ReadBaseCursor(p) \/ ReadBaseRef(p) \/ CreateBranchRef(p)
    \/ ReadBranchRef(p) \/ MoveHead(p) \/ MoveCursor(p)
    \/ CheckMarker(p) \/ ListSnapshots(p) \/ FillIndex(p) \/ MarkComplete(p)

UserEdit == \E r \in Roots, f \in Paths, c \in Contents : Edit(r, f, c)

Next ==
    \/ UserEdit
    \/ \E p \in Procs : Start(p) \/ Step(p) \/ IoError(p) \/ Crash(p)

Spec     == Init /\ [][Next]_vars
FairSpec == Spec /\ \A p \in Procs : WF_vars(Step(p))

-----------------------------------------------------------------------------
(* Properties *)

(* Whatever crashes where, what the metadata names exists: HEAD names a    *)
(* branch that has a ref, every ref and every index entry names a stored   *)
(* snapshot, and the parent of a stored snapshot was stored before it (so  *)
(* a timeline walk ends).                                                  *)
ReferenceIntegrity ==
    /\ refs[head] # 0
    /\ \A w \in Workspaces : refs[w] # 0
    /\ \A c \in Cursors : refs[c] # 0 => refs[c] \in Stored
    /\ \A i \in Stored : snaps[i].parent \in 0..(i - 1)
    /\ index \subseteq Stored

(* A cursor never loses an update: it moves from a snapshot to a child of  *)
(* that snapshot, or to its target by a restore or a workspace switch that *)
(* holds the cursor's lock; a branch ref that exists is never overwritten  *)
(* by create_branch.                                                       *)
CursorAdvances ==
    [][\A c \in Cursors :
          refs'[c] # refs[c] =>
              \/ refs[c] = 0
              \/ snaps'[refs'[c]].parent = refs[c]
              \/ \E p \in Procs : /\ locks[c] = p
                                  /\ pc[p] = "move"
                                  /\ refs'[c] = target[p]]_vars

(* Once the index is marked complete, the timeline shows every snapshot a  *)
(* cursor stands on and the whole history behind each one it shows, also   *)
(* when snapshots were being stored while the index was rebuilt.           *)
HistoryIndexed ==
    complete =>
        /\ \A c \in Cursors : refs[c] # 0 => refs[c] \in index
        /\ \A i \in index :
               snaps[i].parent # 0 => snaps[i].parent \in index

(* The previous future stays visible: a snapshot that a cursor leaves      *)
(* behind is in the index of a repository with a complete index.           *)
LeftBehindIndexed ==
    [][\A c \in Cursors :
          (complete /\ refs'[c] # refs[c] /\ refs[c] # 0) => refs[c] \in index']_vars

(* Duplicate snapshots collapse: a snapshot nobody asked for by name never *)
(* repeats the tree of its parent, however many processes capture the same *)
(* working directory at once.                                              *)
AutomaticSnapshotsDiffer ==
    \A i \in Stored :
        snaps[i].auto => /\ snaps[i].parent # 0
                         /\ snaps[snaps[i].parent].tree # snaps[i].tree

(* switch_branch and restore write to the working directory only once the  *)
(* tree they captured from it is in a stored (and indexed) snapshot; for   *)
(* restore it is, for as long as files are written, the one the cursor     *)
(* stands on.                                                              *)
CapturedTreeSaved ==
    \A p \in Procs :
        pc[p] = "materialize" =>
            /\ \E i \in Stored : /\ snaps[i].tree = cap[p]
                                 /\ complete => i \in index
            /\ op[p] = "restore" => snaps[refs[cur[p]]].tree = cap[p]

(* An operation that completes leaves its working directory equal to the   *)
(* snapshot its cursor stands on, unless another process works in the same *)
(* directory or somebody edited it meanwhile: agents in other workspaces   *)
(* do not disturb it, whatever they do and however they fail.              *)
CompletedMeansClean ==
    \A p \in Procs :
        (/\ pc[p] = "done" /\ op[p] # "snapshot_graph"
         /\ RootOf[p] \notin edited
         /\ \A q \in Procs \ {p} : RootOf[q] # RootOf[p])
            => work[RootOf[p]] = snaps[refs[CursorOf(RootOf[p])]].tree

(* The inductive invariant behind the safety properties: each label        *)
(* belongs to certain operations; what a process remembers is still true   *)
(* of the disk when it acts on it (above all, that its cursor still stands *)
(* on the parent it read); and a process in a critical section owns the    *)
(* lock file.                                                              *)
LabelsMatchOps ==
    \A p \in Procs :
        /\ pc[p] \in {"check", "index_lock", "list", "fill"}
              => op[p] = "snapshot_graph"
        /\ pc[p] \in {"capture", "cursor", "lock", "parent", "put", "index",
                      "advance"} => op[p] # "snapshot_graph"
        /\ pc[p] = "release" => op[p] \in {"create_branch", "switch_branch"}
        /\ pc[p] \in {"base_cursor", "base_ref", "link"}
              => op[p] = "create_branch"
        /\ pc[p] \in {"branch_ref", "move_lock"} => op[p] = "switch_branch"
        /\ pc[p] = "move_lock" => RootOf[p] # MainRoot
        /\ pc[p] \in {"materialize", "move"}
              => op[p] \in {"switch_branch", "restore"}

ParentIsCurrent ==
    \A p \in Procs :
        /\ refs[cur[p]] # 0
        /\ pc[p] \in {"put", "index", "advance"} => refs[cur[p]] = parent[p]

SavedTree(p) ==
    /\ pc[p] = "put" /\ op[p] # "snapshot" => snaps[parent[p]].tree # cap[p]
    /\ pc[p] \in {"index", "advance"}
          => /\ new[p] \in Stored
             /\ snaps[new[p]].parent = parent[p]
             /\ snaps[new[p]].tree = cap[p]
    /\ op[p] = "restore" /\ pc[p] \in {"materialize", "move"}
          => snaps[refs[cur[p]]].tree = cap[p]

SavedTreeIsCaptured == \A p \in Procs : SavedTree(p)

TargetsExist ==
    \A p \in Procs :
        /\ todo[p] \subseteq Stored
        /\ pc[p] \in {"link", "materialize", "move_lock", "move"}
              => target[p] \in Stored
        /\ Running(p) /\ op[p] = "restore" => target[p] \in Stored
        /\ Running(p) /\ op[p] = "switch_branch" => refs[name[p]] # 0

LocksHeld == \A p \in Procs : HoldsLock(p) => locks[LockOf(p)] = p

IndInv ==
    /\ TypeOK
    /\ ReferenceIntegrity
    /\ AutomaticSnapshotsDiffer
    /\ LabelsMatchOps
    /\ ParentIsCurrent
    /\ SavedTreeIsCaptured
    /\ TargetsExist
    /\ LocksHeld

(* Behind HistoryIndexed and CapturedTreeSaved: S has what the timeline    *)
(* must show, namely the cursors, the parents of its members, whatever a   *)
(* process is about to put a cursor on, and the tree that a switch saved.  *)
Pending(p, S) ==
    /\ pc[p] = "advance" => new[p] \in S
    /\ pc[p] \in {"link", "materialize", "move_lock", "move"} => target[p] \in S
    /\ Running(p) /\ op[p] = "restore" => target[p] \in S
    /\ op[p] = "switch_branch" /\ pc[p] \in {"release", "branch_ref", "materialize"}
          => \E i \in S : snaps[i].tree = cap[p]

Listed(S) ==
    /\ \A c \in Cursors : refs[c] # 0 => refs[c] \in S
    /\ \A i \in S : snaps[i].parent # 0 => snaps[i].parent \in S
    /\ \A p \in Procs : Pending(p, S)

(* The entries of a complete index are such a set; so are, for as long as  *)
(* an index is rebuilt, its entries and the ids still to be written, also  *)
(* if snapshots are stored meanwhile that the listing did not see.         *)
IndexInv ==
    /\ Listed(Stored)
    /\ complete => Listed(index)
    /\ \A p \in Procs :
          pc[p] = "fill" => ~complete /\ Listed(index \cup todo[p])

(* Behind CompletedMeansClean: the cursor a process works on is that of    *)
(* its working directory, so no other directory's process moves it ...     *)
AtCursor(p) ==
    /\ op[p] # "snapshot_graph"
    /\ pc[p] \in {"lock", "parent", "put", "index", "advance", "release",
                  "finish", "branch_ref", "materialize", "move_lock", "move"}

Alone(p) == \A q \in Procs \ {p} : RootOf[q] # RootOf[p]

OwnCursor ==
    \A p \in Procs : AtCursor(p) =>
        /\ IF RootOf[p] = MainRoot THEN cur[p] \in Branches ELSE cur[p] = RootOf[p]
        /\ Alone(p) => cur[p] = CursorOf(RootOf[p])

(* ... and what a process that is alone in a directory nobody edits knows  *)
(* of the directory stays true from its capture to its end.                *)
KnowsDirectory(p) ==
    LET files == work[RootOf[p]]
        clean == files = snaps[refs[CursorOf(RootOf[p])]].tree
    IN /\ pc[p] = "capture" => \A f \in Paths \ left[p] : cap[p][f] = files[f]
       /\ pc[p] \in {"cursor", "lock", "parent", "put", "index", "advance"}
             => cap[p] = files
       /\ pc[p] \in {"put", "index", "advance"} => left[p] = Paths
       /\ pc[p] \in {"release", "finish", "base_cursor", "base_ref", "link",
                     "branch_ref", "done"} => clean
       /\ pc[p] = "materialize"
             => \A f \in Paths \ left[p] : files[f] = snaps[target[p]].tree[f]
       /\ pc[p] \in {"move_lock", "move"} => files = snaps[target[p]].tree
       /\ op[p] = "switch_branch" /\ RootOf[p] = MainRoot /\ pc[p] \in {"materialize", "move"}
             => refs[name[p]] = target[p]

DirectoryInv ==
    /\ OwnCursor
    /\ \A p \in Procs :
          op[p] # "snapshot_graph" /\ Alone(p) /\ RootOf[p] \notin edited
              => KnowsDirectory(p)

(* Every operation that was started ends, whatever locks were left behind. *)
OperationsEnd == \A p \in Procs : Running(p) ~> ~Running(p)

(* "Save unsnapped work before context switches and restores": a file of   *)
(* the working directory is overwritten only when its content at that path *)
(* is in some stored snapshot.                                             *)
OverwrittenWorkSaved ==
    [][\A p \in Procs, f \in Paths :
          (pc[p] = "materialize" /\ f \in left[p] /\ f \notin left'[p]) =>
              \E i \in Stored : snaps[i].tree[f] = work[RootOf[p]][f]]_vars
=============================================================================

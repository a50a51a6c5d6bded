-------------------------------- MODULE Setup --------------------------------
(* How repositories, branches and workspaces come to be, by processes that *)
(* may run at the same time and crash between any two file operations:     *)
(* init, create_branch, add_workspace and the listings of the refs.        *)
(* Names, paths and snapshots are opaque; what a snapshot holds and how    *)
(* cursors advance later is the subject of Repository.                     *)
EXTENDS Integers, FiniteSets, Sequences

CONSTANTS
    Procs,      \* each runs one operation
    Plans,      \* functions from Procs to operations, see SetupInit
    WorkspaceIds,
    Paths,      \* directories, outside the repository
    Nested,     \* the pairs <<p, q>> of directories with p below q
    MaxSnaps,   \* bound: snapshots
    MaxKilled,  \* bound: processes that crash
    Nobody

ASSUME ProcsAssumption == Nobody \notin Procs \cup WorkspaceIds \cup Paths

ASSUME NestedAssumption ==
    /\ Nested \subseteq Paths \X Paths
    /\ \A d \in Paths : <<d, d>> \notin Nested
    /\ \A d, e, f \in Paths : <<d, e>> \in Nested /\ <<e, f>> \in Nested => <<d, f>> \in Nested

VARIABLES
    made,       \* how far .era has come, a set of the parts that exist
    newest,     \* snapshots are numbers, this is the last one
    heads,      \* refs/heads: [name, temp] -> snapshot, or 0 if unwritten
    wsRef,      \* refs/workspaces, 0 if there is none
    record,     \* workspaces/<id>/path
    pointer,    \* <path>/.era
    folder,     \* "absent", "empty", "filled" from a snapshot, or "user"
    locked,     \* the holders of the workspace record locks
    proc        \* the processes

setup == <<made, newest, heads, wsRef, record, pointer, folder, locked, proc>>

(* A process is a record with its operation (op, name, path), pc, the      *)
(* processes that had ended when it began, and what it has read: the base  *)
(* snapshot, whether it found its directory empty, whether its workspace   *)
(* was registered, the refs it still has to read, and what it returned.    *)

Complete == {"dir", "layout", "snapshot", "index", "HEAD"}
Main == "main"
Ref(name) == [name |-> name, temp |-> Nobody]
Temp(p) == [name |-> proc[p].name, temp |-> p]

(* init makes main, a workspace is added under an id and in a directory.   *)
ASSUME PlansAssumption ==
    \A plan \in Plans : \A p \in Procs :
        \/ plan[p].op = "init" /\ plan[p].name = Main
        \/ plan[p].op \in {"branch", "list"}
        \/ plan[p].op = "add" /\ plan[p].name \in WorkspaceIds /\ plan[p].path \in Paths

SetupInit ==
    \E plan \in Plans :
        LET fresh == \E p \in Procs : plan[p].op = "init"
        IN /\ made = IF fresh THEN {} ELSE Complete
           /\ newest = 1
           /\ heads = IF fresh THEN <<>> ELSE [r \in {Ref(Main)} |-> 1]
           /\ wsRef = [i \in WorkspaceIds |-> 0]
           /\ record = [i \in WorkspaceIds |-> Nobody]
           /\ pointer = [d \in Paths |-> Nobody]
           /\ folder = [d \in Paths |-> "absent"]
           /\ locked = [i \in WorkspaceIds |-> Nobody]
           /\ proc = [p \in Procs |->
                [op |-> plan[p].op, name |-> plan[p].name, path |-> plan[p].path,
                 pc |-> "idle", after |-> {}, base |-> 0, empty |-> FALSE,
                 registered |-> FALSE, todo |-> {}, result |-> "none", listed |-> {}]]

AtStep(p, op, pc) == proc[p].op = op /\ proc[p].pc = pc
Go(p, pc) == proc' = [proc EXCEPT ![p].pc = pc]
End(p, result) == proc' = [proc EXCEPT ![p].pc = "done", ![p].result = result]
Ended == {q \in Procs : proc[q].pc \in {"done", "crashed"}}
Began(p, pc) == [proc EXCEPT ![p].pc = pc, ![p].after = Ended]

Put(f, k, v) == [x \in DOMAIN f \cup {k} |-> IF x = k THEN v ELSE f[x]]
Drop(f, k) == [x \in DOMAIN f \ {k} |-> f[x]]

-----------------------------------------------------------------------------
(* Ref files.                                                              *)

(* write_temp_text_file: a file of its own in the directory of the ref,    *)
(* created and then written.                                               *)
CreateTemp(p) == heads' = Put(heads, Temp(p), 0)

WriteTemp(p) == heads' = Put(heads, Temp(p), proc[p].base)

(* write_text_file_atomic *)
Rename(p) == heads' = Put(Drop(heads, Temp(p)), Ref(proc[p].name), heads[Temp(p)])

(* Mutant: the ref is renamed into its place, over another.                *)
LinkOver(p) == heads' = Put(heads, Ref(proc[p].name), heads[Temp(p)])

(* create_text_file_new: the link fails if the ref exists.                 *)
Link(p) == heads' = IF Ref(proc[p].name) \in DOMAIN heads THEN heads
                    ELSE Put(heads, Ref(proc[p].name), heads[Temp(p)])

-----------------------------------------------------------------------------
(* init *)

CheckUninitialized(p) ==
    /\ AtStep(p, "init", "idle")
    /\ proc' = IF "dir" \in made
               THEN [Began(p, "done") EXCEPT ![p].result = "error"]
               ELSE Began(p, "create")
    /\ UNCHANGED <<made, newest, heads, wsRef, record, pointer, folder, locked>>

CreateMetadataDir(p) ==
    /\ AtStep(p, "init", "create")
    /\ IF "dir" \in made THEN End(p, "error") /\ UNCHANGED made
       ELSE Go(p, "layout") /\ made' = made \cup {"dir"}
    /\ UNCHANGED <<newest, heads, wsRef, record, pointer, folder, locked>>

(* What comes after each part; the last is the ref of main.                *)
NextPart == [layout |-> "snapshot", snapshot |-> "index", index |-> "HEAD", HEAD |-> "temp"]

(* Mutant: HEAD and the ref come first.                                    *)
MakePartHeadFirst(p) ==
    /\ \E part \in {"layout", "snapshot", "index", "HEAD"} :
          LET after == [layout |-> "HEAD", HEAD |-> "snapshot",
                        snapshot |-> "temp", index |-> "temp"]
          IN /\ AtStep(p, "init", part)
             /\ made' = made \cup {part}
             /\ proc' = [proc EXCEPT ![p].pc = after[part], ![p].base = newest]
    /\ UNCHANGED <<newest, heads, wsRef, record, pointer, folder, locked>>

(* create_ref_layout, the first snapshot with its index entry,             *)
(* mark_snapshot_index_complete, write_head.                               *)
MakePart(p) ==
    /\ \E part \in DOMAIN NextPart :
          /\ AtStep(p, "init", part)
          /\ made' = made \cup {part}
          /\ proc' = [proc EXCEPT ![p].pc = NextPart[part], ![p].base = newest]
    /\ UNCHANGED <<newest, heads, wsRef, record, pointer, folder, locked>>

(* write_branch_ref *)
WriteMainTemp(p) ==
    /\ AtStep(p, "init", "temp") /\ CreateTemp(p) /\ Go(p, "write")
    /\ UNCHANGED <<made, newest, wsRef, record, pointer, folder, locked>>
WriteMain(p) ==
    /\ AtStep(p, "init", "write") /\ WriteTemp(p) /\ Go(p, "rename")
    /\ UNCHANGED <<made, newest, wsRef, record, pointer, folder, locked>>
RenameMain(p) ==
    /\ AtStep(p, "init", "rename") /\ Rename(p) /\ End(p, "ok")
    /\ UNCHANGED <<made, newest, wsRef, record, pointer, folder, locked>>

-----------------------------------------------------------------------------
(* create_branch *)

(* open needs HEAD, the refs are not looked at.                            *)
Openable == "HEAD" \in made

(* open, and the look for a ref of that name.                              *)
StartCreateBranch(p) ==
    /\ AtStep(p, "branch", "idle")
    /\ proc' = IF ~Openable \/ Ref(proc[p].name) \in DOMAIN heads
               THEN [Began(p, "done") EXCEPT ![p].result = "error"]
               ELSE Began(p, "save")
    /\ UNCHANGED <<made, newest, heads, wsRef, record, pointer, folder, locked>>

(* save_current_state_if_changed: a new snapshot, or none is needed.  The  *)
(* temporary file its ref goes through is left out.                        *)
SaveCurrent ==
    \/ UNCHANGED <<newest, heads>>
    \/ /\ newest < MaxSnaps
       /\ newest' = newest + 1
       /\ heads' = Put(heads, Ref(Main), newest')

(* The work is saved, then the ref of the current branch is read.          *)
SaveBeforeBranch(p) ==
    /\ AtStep(p, "branch", "save")
    /\ IF Ref(Main) \notin DOMAIN heads THEN End(p, "error") /\ UNCHANGED <<newest, heads>>
       ELSE /\ SaveCurrent
            /\ proc' = [proc EXCEPT ![p].pc = "temp", ![p].base = heads'[Ref(Main)]]
    /\ UNCHANGED <<made, wsRef, record, pointer, folder, locked>>

CreateBranchTemp(p) ==
    /\ AtStep(p, "branch", "temp") /\ CreateTemp(p) /\ Go(p, "write")
    /\ UNCHANGED <<made, newest, wsRef, record, pointer, folder, locked>>
WriteBranchTemp(p) ==
    /\ AtStep(p, "branch", "write") /\ WriteTemp(p) /\ Go(p, "link")
    /\ UNCHANGED <<made, newest, wsRef, record, pointer, folder, locked>>
LinkBranch(p) ==
    /\ AtStep(p, "branch", "link")
    /\ Link(p)
    /\ proc' = [proc EXCEPT ![p].pc = "remove",
                            ![p].registered = Ref(proc[p].name) \in DOMAIN heads]
    /\ UNCHANGED <<made, newest, wsRef, record, pointer, folder, locked>>

(* Mutant: only a link that failed has its temporary file removed.         *)
RemoveBranchTempOnError(p) ==
    /\ AtStep(p, "branch", "remove")
    /\ heads' = IF proc[p].registered THEN Drop(heads, Temp(p)) ELSE heads
    /\ End(p, IF proc[p].registered THEN "error" ELSE "ok")
    /\ UNCHANGED <<made, newest, wsRef, record, pointer, folder, locked>>

RemoveBranchTemp(p) ==
    /\ AtStep(p, "branch", "remove")
    /\ heads' = Drop(heads, Temp(p))
    /\ End(p, IF proc[p].registered THEN "error" ELSE "ok")
    /\ UNCHANGED <<made, newest, wsRef, record, pointer, folder, locked>>

-----------------------------------------------------------------------------
(* branches: list_branch_refs reads the directory, then ref after ref.     *)

ListNames(p) ==
    /\ AtStep(p, "list", "idle")
    /\ proc' = IF ~Openable
               THEN [Began(p, "done") EXCEPT ![p].result = "error"]
               ELSE [Began(p, "read") EXCEPT ![p].todo = DOMAIN heads]
    /\ UNCHANGED <<made, newest, heads, wsRef, record, pointer, folder, locked>>

(* A ref that is gone is RefMissing, an empty one InvalidRef.              *)
ReadRef(p) ==
    /\ AtStep(p, "list", "read")
    /\ IF proc[p].todo = {} THEN End(p, "ok")
       ELSE \E r \in proc[p].todo :
               IF r \notin DOMAIN heads \/ heads[r] = 0 THEN End(p, "error")
               ELSE proc' = [proc EXCEPT ![p].todo = @ \ {r}, ![p].listed = @ \cup {r}]
    /\ UNCHANGED <<made, newest, heads, wsRef, record, pointer, folder, locked>>

-----------------------------------------------------------------------------
(* add_workspace *)

(* The checks of the path against the registered ones, before any lock.    *)
Takes(i, id, path) == /\ record[i] # Nobody
                      /\ \/ record[i] = path /\ i # id
                         \/ <<path, record[i]>> \in Nested
Taken(id, path) == \E i \in WorkspaceIds : Takes(i, id, path)
PathTaken(p) == Taken(proc[p].name, proc[p].path)

StartAdd(p) ==
    /\ AtStep(p, "add", "idle")
    /\ proc' = IF ~Openable \/ PathTaken(p)
               THEN [Began(p, "done") EXCEPT ![p].result = "error"]
               ELSE Began(p, "look")
    /\ UNCHANGED <<made, newest, heads, wsRef, record, pointer, folder, locked>>

(* create_dir_all: the directories around a new one are no longer empty.   *)
CreateDirAll(path) ==
    folder' = [d \in Paths |->
        IF folder[path] # "absent" THEN folder[d]
        ELSE IF d = path THEN "empty"
        ELSE IF <<path, d>> \in Nested /\ folder[d] \in {"absent", "empty"} THEN "user"
        ELSE folder[d]]

(* A pointer or a directory inside makes a directory non-empty.            *)
LookAtFolder(p) ==
    /\ AtStep(p, "add", "look")
    /\ CreateDirAll(proc[p].path)
    /\ proc' = [proc EXCEPT ![p].pc = "base",
                  ![p].empty = folder'[proc[p].path] = "empty" /\ pointer[proc[p].path] = Nobody]
    /\ UNCHANGED <<made, newest, heads, wsRef, record, pointer, locked>>

(* The snapshot to start from: the current one, after the work in the      *)
(* repository was saved, or the one the caller named.                      *)
ChooseBase(p) ==
    /\ AtStep(p, "add", "base")
    /\ \/ /\ Ref(Main) \notin DOMAIN heads
          /\ End(p, "error")
          /\ UNCHANGED <<newest, heads>>
       \/ /\ Ref(Main) \in DOMAIN heads
          /\ SaveCurrent
          /\ proc' = [proc EXCEPT ![p].pc = "lock", ![p].base = heads'[Ref(Main)]]
       \/ /\ proc' = [proc EXCEPT ![p].pc = "lock", ![p].base = 1]
          /\ UNCHANGED <<newest, heads>>
    /\ UNCHANGED <<made, wsRef, record, pointer, folder, locked>>

(* Mutant: a workspace may be added under a second path.                   *)
LockRecordAnyPath(p) ==
    /\ AtStep(p, "add", "lock")
    /\ LET id == proc[p].name
       IN /\ locked[id] = Nobody
          /\ locked' = [locked EXCEPT ![id] = p]
          /\ proc' = [proc EXCEPT ![p].pc = "ref", ![p].registered = record[id] # Nobody]
    /\ UNCHANGED <<made, newest, heads, wsRef, record, pointer, folder>>

(* The lock on the workspace's record, and what is registered under it.    *)
LockRecord(p) ==
    /\ AtStep(p, "add", "lock")
    /\ LET id == proc[p].name
       IN /\ locked[id] = Nobody
          /\ IF record[id] \notin {Nobody, proc[p].path}
             THEN End(p, "error") /\ UNCHANGED locked
             ELSE /\ locked' = [locked EXCEPT ![id] = p]
                  /\ proc' = [proc EXCEPT ![p].pc = "ref",
                                          ![p].registered = record[id] # Nobody]
    /\ UNCHANGED <<made, newest, heads, wsRef, record, pointer, folder>>

EnsureRef(p) ==
    /\ AtStep(p, "add", "ref")
    /\ wsRef' = [wsRef EXCEPT ![proc[p].name] = IF @ = 0 THEN proc[p].base ELSE @]
    /\ Go(p, "record")
    /\ UNCHANGED <<made, newest, heads, record, pointer, folder, locked>>

EnsureRecord(p) ==
    /\ AtStep(p, "add", "record")
    /\ record' = [record EXCEPT ![proc[p].name] =
                     IF proc[p].registered THEN @ ELSE proc[p].path]
    /\ Go(p, "pointer")
    /\ UNCHANGED <<made, newest, heads, wsRef, pointer, folder, locked>>

(* write_text_file_atomic, which creates the directory if it is gone.      *)
WritePointer(p) ==
    /\ AtStep(p, "add", "pointer")
    /\ CreateDirAll(proc[p].path)
    /\ pointer' = [pointer EXCEPT ![proc[p].path] = proc[p].name]
    /\ Go(p, "checkout")
    /\ UNCHANGED <<made, newest, heads, wsRef, record, locked>>

(* The checkout of a new workspace whose directory was found empty.  What  *)
(* has appeared inside since is removed.                                   *)
MustFill(p) == proc[p].empty /\ ~proc[p].registered
Materialize(p) ==
    LET gone(d) == <<d, proc[p].path>> \in Nested
    IN IF MustFill(p)
       THEN /\ folder' = [d \in Paths |-> IF d = proc[p].path THEN "filled"
                                         ELSE IF gone(d) THEN "absent" ELSE folder[d]]
            /\ pointer' = [d \in Paths |-> IF gone(d) THEN Nobody ELSE pointer[d]]
       ELSE UNCHANGED <<folder, pointer>>

(* Mutant: the lock is released before the checkout.                       *)
CheckoutUnlocked(p) ==
    /\ AtStep(p, "add", "checkout")
    /\ IF locked[proc[p].name] = p
       THEN /\ locked' = [locked EXCEPT ![proc[p].name] = Nobody]
            /\ UNCHANGED <<folder, pointer, proc>>
       ELSE Materialize(p) /\ End(p, "ok") /\ UNCHANGED locked
    /\ UNCHANGED <<made, newest, heads, wsRef, record>>

(* The checkout, which fails if the directory is gone, and the return,     *)
(* which drops the lock.                                                   *)
CheckoutWorkspace(p) ==
    /\ AtStep(p, "add", "checkout")
    /\ IF MustFill(p) /\ folder[proc[p].path] = "absent"
       THEN End(p, "error") /\ UNCHANGED <<folder, pointer>>
       ELSE Materialize(p) /\ End(p, "ok")
    /\ locked' = [locked EXCEPT ![proc[p].name] = Nobody]
    /\ UNCHANGED <<made, newest, heads, wsRef, record>>

-----------------------------------------------------------------------------
(* Others.                                                                 *)

(* A lock that a crash leaves behind counts as free: it is removed once it *)
(* is stale, see MetadataLock.                                             *)
CrashSetup(p) ==
    /\ proc[p].pc \notin {"idle", "done", "crashed"}
    /\ Cardinality({q \in Procs : proc[q].pc = "crashed"}) < MaxKilled
    /\ Go(p, "crashed")
    /\ locked' = [i \in WorkspaceIds |-> IF locked[i] = p THEN Nobody ELSE locked[i]]
    /\ UNCHANGED <<made, newest, heads, wsRef, record, pointer, folder>>

(* Work in a directory; if it is a workspace, a snapshot moves its ref.    *)
WorkInFolder(d) ==
    /\ folder[d] \in {"empty", "filled"}
    /\ folder' = [folder EXCEPT ![d] = "user"]
    /\ IF pointer[d] = Nobody THEN UNCHANGED <<wsRef, newest>>
       ELSE /\ newest < MaxSnaps
            /\ newest' = newest + 1
            /\ wsRef' = [wsRef EXCEPT ![pointer[d]] = newest']
    /\ UNCHANGED <<made, heads, record, pointer, locked, proc>>

InitStep(p) == \/ CheckUninitialized(p) \/ CreateMetadataDir(p) \/ MakePart(p)
               \/ WriteMainTemp(p) \/ WriteMain(p) \/ RenameMain(p)
BranchStep(p) == \/ StartCreateBranch(p) \/ SaveBeforeBranch(p) \/ CreateBranchTemp(p)
                 \/ WriteBranchTemp(p) \/ LinkBranch(p) \/ RemoveBranchTemp(p)
ListStep(p) == ListNames(p) \/ ReadRef(p)
AddStep(p) == \/ StartAdd(p) \/ LookAtFolder(p) \/ ChooseBase(p) \/ LockRecord(p)
              \/ EnsureRef(p) \/ EnsureRecord(p) \/ WritePointer(p) \/ CheckoutWorkspace(p)

SetupNext ==
    \/ \E p \in Procs : InitStep(p) \/ BranchStep(p) \/ ListStep(p) \/ AddStep(p) \/ CrashSetup(p)
    \/ \E d \in Paths : WorkInFolder(d)

SetupSpec == SetupInit /\ [][SetupNext]_setup

-----------------------------------------------------------------------------
(* Properties.                                                             *)

(* Two processes that have begun, neither after the other had ended.       *)
Together(p, q) == /\ proc[p].pc # "idle" /\ proc[q].pc # "idle"
                  /\ p \notin proc[q].after /\ q \notin proc[p].after
Crashed(S) == \E p \in S : proc[p].pc = "crashed"

(* The ref of main comes last: wherever an init was cut short, a           *)
(* repository whose current branch can be read has its snapshot, a         *)
(* complete index and all its directories.                                 *)
RefMeansComplete == Ref(Main) \in DOMAIN heads => Complete \subseteq made

(* Of the processes that create a branch of one name at most one succeeds, *)
(* and then the ref is the one it wrote, whole as soon as it has its name, *)
(* also if a process crashes on the way.                                   *)
BranchCreatedOnce ==
    /\ \A r \in DOMAIN heads : r.temp = Nobody => heads[r] # 0
    /\ \A p, q \in Procs : AtStep(p, "branch", "done") /\ proc[p].result = "ok" =>
          /\ heads[Ref(proc[p].name)] = proc[p].base
          /\ AtStep(q, "branch", "done") /\ proc[q].result = "ok" /\ proc[q].name = proc[p].name
             => p = q

(* A listing that overlaps no write of a ref and no crash of one lists the *)
(* branches and nothing else: the temporary files, which have names like   *)
(* branches, are gone when a write returns.                                *)
ListingExact ==
    \A p \in Procs : AtStep(p, "list", "done") /\ proc[p].result = "ok" =>
        LET writers == {q \in Procs : proc[q].op # "list" /\ proc[q].pc # "idle"}
        IN (~\E q \in writers : Together(p, q)) /\ ~Crashed(writers)
           => \A r \in proc[p].listed : r.temp = Nobody

(* The directory of a workspace leads to a registered workspace with a ref *)
(* and the same path, and two workspaces have one path only if they were   *)
(* added at the same time: however adds, retries and crashes interleave.   *)
RegistryConsistent ==
    /\ \A d \in Paths : pointer[d] # Nobody =>
          record[pointer[d]] = d /\ wsRef[pointer[d]] # 0
    /\ \A i, j \in WorkspaceIds : i # j /\ record[i] # Nobody /\ record[i] = record[j] =>
          \E p, q \in Procs : /\ proc[p].op = "add" /\ proc[p].name = i
                              /\ proc[q].op = "add" /\ proc[q].name = j
                              /\ Together(p, q)

(* When an add returns, also one that found the workspace registered by    *)
(* another, the directory has been filled, unless an add of that workspace *)
(* crashed before, as the retry does not check out again, or another       *)
(* workspace was added there or around it at the same time.                *)
Full(d) == folder[d] \in {"filled", "user"}
CrashedAt(d) == Crashed({q \in Procs : proc[q].op = "add" /\ proc[q].path = d})
Disturbed(p) ==
    \/ CrashedAt(proc[p].path)
    \/ \E q \in Procs : /\ proc[q].op = "add" /\ Together(p, q)
                       /\ \/ <<proc[p].path, proc[q].path>> \in Nested
                          \/ proc[p].path = proc[q].path /\ proc[p].name # proc[q].name
AddReturned(p) == AtStep(p, "add", "done") /\ proc[p].result = "ok"
AddReturnsReady == \A p \in Procs : AddReturned(p) => Full(proc[p].path) \/ Disturbed(p)

-----------------------------------------------------------------------------
(* The inductive invariant, one part for each of the properties above and  *)
(* two that all of them use.                                               *)

OpNames == {plan[p].name : plan \in Plans, p \in Procs} \cup {Main}
OpPaths == {plan[p].path : plan \in Plans, p \in Procs}
RefFiles == [name : OpNames, temp : Procs \cup {Nobody}]
Counters == {"idle", "create", "layout", "snapshot", "index", "HEAD", "temp", "write",
             "rename", "save", "link", "remove", "read", "look", "base", "lock", "ref",
             "record", "pointer", "checkout", "done", "crashed"}
ProcStates ==
    [op : {"init", "branch", "list", "add"}, name : OpNames, path : OpPaths, pc : Counters,
     after : SUBSET Procs, base : Nat, empty : BOOLEAN, registered : BOOLEAN,
     todo : SUBSET RefFiles, result : {"none", "ok", "error"}, listed : SUBSET RefFiles]

SetupTypeOK ==
    /\ made \subseteq Complete
    /\ newest \in Nat \ {0}
    /\ DOMAIN heads \subseteq RefFiles
    /\ heads \in [DOMAIN heads -> Nat]
    /\ wsRef \in [WorkspaceIds -> Nat]
    /\ record \in [WorkspaceIds -> Paths \cup {Nobody}]
    /\ pointer \in [Paths -> WorkspaceIds \cup {Nobody}]
    /\ folder \in [Paths -> {"absent", "empty", "filled", "user"}]
    /\ locked \in [WorkspaceIds -> Procs \cup {Nobody}]
    /\ proc \in [Procs -> ProcStates]
    /\ \A p \in Procs :
          /\ proc[p].op = "init" => proc[p].name = Main
          /\ proc[p].op = "add" => proc[p].name \in WorkspaceIds /\ proc[p].path \in Paths

(* What had ended when a process began has ended.                          *)
AfterInv == \A p \in Procs : proc[p].after \subseteq Ended

(* init makes the parts in their order, and has all when it turns to the   *)
(* ref.                                                                    *)
PartsInv ==
    \A p \in Procs : proc[p].op = "init" =>
        LET upTo(pcs) == proc[p].pc \in pcs \cup {"temp", "write", "rename"}
        IN /\ upTo({"layout", "snapshot", "index", "HEAD"}) => "dir" \in made
           /\ upTo({"snapshot", "index", "HEAD"}) => "layout" \in made
           /\ upTo({"index", "HEAD"}) => "snapshot" \in made
           /\ upTo({"HEAD"}) => "index" \in made
           /\ upTo({}) => "HEAD" \in made

(* A ref is written under its name when it is whole, temporary files       *)
(* belong to processes that are writing or were, and a branch is created   *)
(* in a repository that has main.                                          *)
RefsInv ==
    /\ RefMeansComplete
    /\ \A r \in DOMAIN heads :
          IF r.temp = Nobody THEN heads[r] # 0
          ELSE /\ r = Temp(r.temp)
               /\ proc[r.temp].op \in {"init", "branch"}
               /\ proc[r.temp].pc \in {"write", "rename", "link", "remove", "crashed"}
    /\ \A p \in Procs : proc[p].op \in {"init", "branch"} =>
          /\ proc[p].pc \in {"temp", "write", "rename", "link"} => proc[p].base # 0
          /\ proc[p].pc \in {"rename", "link"} =>
                Temp(p) \in DOMAIN heads /\ heads[Temp(p)] = proc[p].base
          /\ proc[p].op = "branch" /\ proc[p].pc \in {"temp", "write", "link"} =>
                Ref(Main) \in DOMAIN heads

(* The ref of a branch is the one that its only creator linked.            *)
Created(p) == \/ AtStep(p, "branch", "remove") /\ ~proc[p].registered
              \/ AtStep(p, "branch", "done") /\ proc[p].result = "ok"
BranchInv ==
    \A p \in Procs : Created(p) =>
        /\ proc[p].name # Main
        /\ Ref(proc[p].name) \in DOMAIN heads
        /\ heads[Ref(proc[p].name)] = proc[p].base
        /\ \A q \in Procs : Created(q) /\ proc[q].name = proc[p].name => p = q

(* A listing meets the temporary files of those it overlaps or of crashed  *)
(* ones.                                                                   *)
ListInv ==
    \A p \in Procs : proc[p].op = "list" =>
        \A r \in proc[p].todo \cup proc[p].listed : r.temp # Nobody =>
            /\ proc[r.temp].op # "list" /\ proc[r.temp].pc # "idle"
            /\ proc[r.temp].pc = "crashed" \/ Together(p, r.temp)

(* Who holds the lock on a record, and how far the registration has come.  *)
Holding == {"ref", "record", "pointer", "checkout"}
LockedInv ==
    /\ \A i \in WorkspaceIds : locked[i] # Nobody =>
          LET p == locked[i]
          IN proc[p].op = "add" /\ proc[p].name = i /\ proc[p].pc \in Holding
    /\ \A p \in Procs : proc[p].op = "add" =>
          LET id == proc[p].name
              pc == proc[p].pc
          IN /\ pc \in Holding => locked[id] = p
             /\ pc \in {"lock"} \cup Holding => proc[p].base # 0
             /\ pc \in {"record", "pointer", "checkout"} => wsRef[id] # 0
             /\ pc \in {"ref", "record"} =>
                   record[id] = IF proc[p].registered THEN proc[p].path ELSE Nobody
             /\ pc \in {"pointer", "checkout"} => record[id] = proc[p].path

(* A workspace that takes the path of an add that found it free was added  *)
(* by a process that had not ended when that add began.                    *)
Admitted(p) == proc[p].op = "add" /\ (proc[p].pc \in {"look", "base"} \/ proc[p].base # 0)
TakenInv ==
    \A p \in Procs : proc[p].op = "add" =>
        /\ proc[p].pc = "idle" => proc[p].base = 0
        /\ Admitted(p) =>
              \A i \in WorkspaceIds : Takes(i, proc[p].name, proc[p].path) =>
                  \E q \in Procs : /\ proc[q].op = "add" /\ proc[q].pc # "idle"
                                    /\ proc[q].name = i /\ proc[q].path = record[i]
                                    /\ q \notin proc[p].after

(* A directory inside another makes that one non-empty.                    *)
FolderInv ==
    \A d, e \in Paths : <<d, e>> \in Nested /\ folder[d] # "absent" => Full(e)

(* What an add has found out about its directory, and what it may rely on: *)
(* a directory found non-empty, or registered before, is full unless its   *)
(* path is taken; one found empty holds no workspace that was added before *)
(* unless that was disturbed.                                              *)
FoundInv ==
    /\ \A p \in Procs : proc[p].op = "add" =>
          LET free == ~PathTaken(p)
              pc == proc[p].pc
          IN /\ pc \in {"base", "lock"} /\ ~proc[p].empty /\ free =>
                   Full(proc[p].path) \/ record[proc[p].name] = proc[p].path
             /\ pc \in Holding /\ ~proc[p].empty /\ ~proc[p].registered /\ free =>
                   Full(proc[p].path)
             /\ pc = "checkout" /\ free => folder[proc[p].path] # "absent"
             /\ pc \in {"base", "lock"} \cup Holding /\ proc[p].empty =>
                   \A q \in proc[p].after :
                      AddReturned(q) /\ <<proc[q].path, proc[p].path>> \in Nested => Disturbed(q)
    /\ \A i \in WorkspaceIds :
          LET d == record[i]
          IN /\ d # Nobody
             /\ locked[i] = Nobody \/ proc[locked[i]].registered
             => Full(d) \/ CrashedAt(d) \/ Taken(i, d)

SetupInv ==
    /\ SetupTypeOK
    /\ AfterInv
    /\ PartsInv /\ RefsInv /\ BranchInv /\ ListInv
    /\ LockedInv /\ TakenInv /\ RegistryConsistent
    /\ FolderInv /\ FoundInv /\ AddReturnsReady

=============================================================================

------------------------------ MODULE WorkingTree ------------------------------
(* The materializer (materialization/src/filesystem.rs): captures of the   *)
(* working directory, in full or guided by hints, comparisons with a       *)
(* stored tree, and checkouts, with the directories the capture cache      *)
(* remembers from one operation to the next.                               *)
(*                                                                         *)
(* A path is the sequence of its names.  The disk is a function from the   *)
(* paths that exist to "dir", "link", "other" (a pipe or a socket) or the  *)
(* contents of a file; links dangle.  A tree is such a function too,       *)
(* relative to its directory and without links, and it is its own id.      *)
(* What a file's id is taken from, its bytes or a record of the cache, is  *)
(* the subject of CaptureCache.                                            *)
EXTENDS Integers, FiniteSets, SequencesExt, Sorting

CONSTANTS
    EraName,        \* .era
    Excluded,       \* excluded_directory_names
    Starts,         \* where behaviours start, see TreeInit
    PathEdits,          \* what others may do: records [path, tree, kind]
    LateHints       \* are hints also delivered late or apart?

NotThere == "missing"
Torn == "torn"          \* a file whose writing was cut short

VARIABLES
    disk,       \* the working directory
    policy,     \* symlink_policy: "Skip" or "Error"
    targets,    \* the trees that may be compared with or checked out
    dirs,       \* cached directories: path -> [tree, stored]
    objects,    \* the trees in the object store
    dirty,      \* paths that changed since hints were last delivered
    sent,       \* paths that ever changed, if LateHints
    synced,     \* has nothing changed since the last full capture?
    checkout,   \* the running checkout: [target, tasks, mem, alone]
    report,     \* what the last operation returned
    left        \* bounds: edits, operations and crashes still allowed

work == <<disk, policy, targets, dirs, objects, dirty, sent, synced,
          checkout, report, left>>

-----------------------------------------------------------------------------
(* Files and trees.                                                        *)

Root == <<>>
EmptyTree == <<>>
Proper(p) == {SubSeq(p, 1, n) : n \in 0..(Len(p) - 1)}
Below(f, p) == {q \in DOMAIN f : IsPrefix(p, q)}
KindAt(p) == IF p \in DOMAIN disk THEN disk[p] ELSE NotThere
IsDir(p) == p = Root \/ KindAt(p) = "dir"
IsFile(p) == KindAt(p) \notin {"dir", "link", "other", NotThere}
Just(p, value) == [q \in {p} |-> value]
Without(f, S) == [q \in DOMAIN f \ S |-> f[q]]
Plus(f, g) == [q \in DOMAIN f \cup DOMAIN g |-> IF q \in DOMAIN g THEN g[q] ELSE f[q]]

(* Every entry is in a directory, and names are numbered in their order.   *)
Placed(f) ==
    /\ f = [p \in DOMAIN f |-> f[p]] /\ IsFiniteSet(DOMAIN f)
    /\ \A p \in DOMAIN f :
          /\ p \in Seq(Nat) /\ p # Root /\ f[p] # NotThere
          /\ \A q \in Proper(p) \ {Root} : q \in DOMAIN f /\ f[q] = "dir"

(* Trees come from captures, which leave the same out everywhere.          *)
Storable(t) ==
    /\ Placed(t)
    /\ \A p \in DOMAIN t : /\ t[p] \notin {"link", "other"} /\ Last(p) # EraName
                           /\ t[p] = "dir" => Last(p) \notin Excluded

ASSUME TreeAssumption ==
    /\ \A s \in Starts : /\ Placed(s.disk) /\ s.policy \in {"Skip", "Error"}
                         /\ \A t \in s.targets : Storable(t)
                         /\ s.left \in [{"edits", "ops", "crashes"} -> Nat]
    /\ \A e \in PathEdits : /\ e.path \in Seq(Nat) /\ e.path # Root /\ Placed(e.tree)
                            /\ e.kind # "dir" => e.tree = EmptyTree

(* The tree found at p in tree t, and a tree moved below p.                *)
SubTree(t, p) == LET inside == {q \in DOMAIN t : IsStrictPrefix(p, q)}
                     cut(q) == SubSeq(q, Len(p) + 1, Len(q))
                 IN [q \in {cut(r) : r \in inside} |-> t[p \o q]]
Moved(t, p) == [q \in {p \o r : r \in DOMAIN t} |-> t[SubSeq(q, Len(p) + 1, Len(q))]]

(* The entry of a tree under a name: a directory with its tree, or a file. *)
Entry(name, kind, tree) == Plus(Just(<<name>>, kind), Moved(tree, <<name>>))

(* A tree and the trees of its directories.                                *)
Closure(t) == {t} \cup {SubTree(t, p) : p \in {q \in DOMAIN t : t[q] = "dir"}}

-----------------------------------------------------------------------------
(* Reading the working directory.                                          *)

(* should_skip_entry *)
Skipped(p) == \/ Last(p) = EraName
              \/ disk[p] = "dir" /\ Last(p) \in Excluded

(* The paths below dir that a scan of dir comes to.                        *)
Scanned(dir) == {p \in DOMAIN disk :
                    /\ IsStrictPrefix(dir, p)
                    /\ \A q \in Proper(p) \cup {p} :
                          IsStrictPrefix(dir, q) => ~Skipped(q)}

(* A scan stops at what it cannot represent.                               *)
ScanFails(dir) == \E p \in Scanned(dir) : \/ disk[p] = "other"
                                          \/ disk[p] = "link" /\ policy = "Error"

(* The tree of a directory, skipped links left out.                        *)
TreeAt(dir) == [q \in {SubSeq(p, Len(dir) + 1, Len(p)) :
                          p \in {r \in Scanned(dir) : disk[r] # "link"}} |-> disk[dir \o q]]

ScannedDirs(dir) == {dir} \cup {p \in Scanned(dir) : disk[p] = "dir"}

-----------------------------------------------------------------------------
(* Cached directories.                                                     *)

(* Mutant: a directory that was stored once stays marked as stored.        *)
RecordOnceStored(cache, p, tree, stored) ==
    [tree |-> tree, stored |-> stored \/ (p \in DOMAIN cache /\ cache[p].stored)]

(* insert_directory: still stored, if it is the same tree.                 *)
Record(cache, p, tree, stored) ==
    [tree |-> tree,
     stored |-> \/ stored
                \/ p \in DOMAIN cache /\ cache[p] = [tree |-> tree, stored |-> TRUE]]

(* The cache after a scan of dir: a record for each directory it came to;  *)
(* records of directories that are gone stay.                              *)
WithScanned(cache, dir, stored) ==
    Plus(cache, [p \in ScannedDirs(dir) |-> Record(cache, p, TreeAt(p), stored)])

(* invalidate_path, with what is below the path.                           *)
Invalidate(cache, p) == Without(cache, Below(cache, p))

(* capture_directory stores the trees the cache does not call stored.      *)
PutTrees(cache, dir) ==
    {TreeAt(p) : p \in {q \in ScannedDirs(dir) :
        ~(q \in DOMAIN cache /\ cache[q] = [tree |-> TreeAt(q), stored |-> TRUE])}}

-----------------------------------------------------------------------------
(* Captures guided by hints.  The state of one is a record [cache, puts,   *)
(* status], status being "ok", "full" (a full capture is needed) or        *)
(* "error".                                                                *)

(* excludes_path *)
ExcludesPath(p) == \E i \in DOMAIN p : p[i] \in Excluded

(* Component by component, a path before those below it.                   *)
PathLess(p, q) == \/ IsStrictPrefix(p, q)
                  \/ \E i \in DOMAIN p \cap DOMAIN q :
                        SubSeq(p, 1, i - 1) = SubSeq(q, 1, i - 1) /\ p[i] < q[i]

(* normalize_hints: what lies below another hint, except the root, is      *)
(* covered by it.                                                          *)
NormalizeHints(hints) ==
    LET usable == {p \in hints : ~ExcludesPath(p)}
    IN InOrder({p \in usable : ~\E q \in usable \ {Root} : IsStrictPrefix(q, p)}, PathLess)

(* symlink_metadata: something else than a directory on the way makes it   *)
(* fail, unless it is a link, whose target is missing.                     *)
Metadata(p) == IF \A q \in Proper(p) : IsDir(q) THEN KindAt(p)
               ELSE IF \E q \in Proper(p) : ~IsDir(q) /\ KindAt(q) \notin {"link", NotThere}
               THEN "error" ELSE NotThere

(* Mutant: with nothing to put in its place an entry is left alone.        *)
ReplaceEntryIfAny(cache, dir, name, entry) ==
    LET tree == cache[dir].tree
    IN Plus(cache, Just(dir, [tree   |-> IF entry = EmptyTree THEN tree
                                         ELSE Plus(Without(tree, Below(tree, <<name>>)), entry),
                              stored |-> FALSE]))

(* replace_cached_entry; update_directory_entries marks the directory as   *)
(* not stored.                                                             *)
ReplaceEntry(cache, dir, name, entry) ==
    LET tree == cache[dir].tree
    IN Plus(cache, Just(dir, [tree   |-> Plus(Without(tree, Below(tree, <<name>>)), entry),
                              stored |-> FALSE]))

(* One directory of rebuild_cached_ancestors: it is stored, and its parent *)
(* gets the new entry.                                                     *)
RebuildDirectory(st, dir) ==
    LET stored == Plus(st.cache, Just(dir, [tree |-> st.cache[dir].tree, stored |-> TRUE]))
    IN IF st.status # "ok" THEN st
       ELSE IF dir # Root /\ Front(dir) \notin DOMAIN st.cache
       THEN [st EXCEPT !.status = "error"]
       ELSE [st EXCEPT !.puts = @ \cup {st.cache[dir].tree},
                       !.cache = IF dir = Root THEN stored
                                 ELSE ReplaceEntry(stored, Front(dir), Last(dir),
                                         Entry(Last(dir), "dir", st.cache[dir].tree))]

RebuildAncestors(st, dir) ==
    FoldLeft(RebuildDirectory, st, [n \in 1..(Len(dir) + 1) |-> SubSeq(dir, 1, Len(dir) + 1 - n)])

(* The entry a hinted path has now; none for what is gone or left out.     *)
HintedEntry(p) ==
    LET kind == Metadata(p)
    IN IF kind \in {NotThere, "link"} \/ Skipped(p) THEN EmptyTree
       ELSE Entry(Last(p), kind, IF kind = "dir" THEN TreeAt(p) ELSE EmptyTree)

HintFails(p) ==
    \/ Metadata(p) = "error"
    \/ /\ Metadata(p) # NotThere
       /\ ~Skipped(p)
       /\ \/ Metadata(p) = "other"
          \/ Metadata(p) = "link" /\ policy = "Error"
          \/ Metadata(p) = "dir" /\ ScanFails(p)

(* capture_hinted_path *)
CaptureHint(st, p) ==
    LET parent == Front(p)
        cache  == Invalidate(st.cache, p)
        inside == Metadata(p) = "dir" /\ ~Skipped(p)
    IN IF st.status # "ok" THEN st
       ELSE IF p = Root THEN [st EXCEPT !.status = "full"]
       ELSE IF parent \notin DOMAIN cache \/ ~cache[parent].stored
       THEN [st EXCEPT !.cache = cache, !.status = "full"]
       ELSE IF HintFails(p) THEN [st EXCEPT !.status = "error"]
       ELSE RebuildAncestors(
              [cache |-> ReplaceEntry(IF inside THEN WithScanned(cache, p, TRUE) ELSE cache,
                                      parent, Last(p), HintedEntry(p)),
               puts |-> st.puts \cup IF inside THEN PutTrees(cache, p) ELSE {},
               status |-> "ok"],
              parent)

(* capture_hinted_paths and what capture_tree_with_hints does before it.   *)
CaptureHints(hints) ==
    LET usable == NormalizeHints(hints)
        ready  == Root \in DOMAIN dirs /\ dirs[Root].stored
    IN IF hints = {} \/ ~ready THEN [cache |-> dirs, puts |-> {}, status |-> "full"]
       ELSE FoldLeft(CaptureHint, [cache |-> dirs, puts |-> {}, status |-> "ok"], usable)

-----------------------------------------------------------------------------
(* Comparisons.                                                            *)

Changed(kind, path) == [kind |-> kind, path |-> path]
NamesIn(f, dir) == {p[Len(dir) + 1] : p \in {q \in DOMAIN f : /\ IsPrefix(dir, q)
                                                              /\ Len(q) = Len(dir) + 1}}
Sorted(names) == InOrder(names, <)

(* compare_matching_entry, for entries that are not both directories.      *)
BothDirs(saved, now, p) == saved[p] = "dir" /\ now[p] = "dir"
CompareMatching(saved, now, p) ==
    IF "dir" \in {saved[p], now[p]} THEN <<Changed("type_changed", p)>>
    ELSE IF saved[p] # now[p] THEN <<Changed("modified", p)>> ELSE <<>>

(* Mutant: the walk ends with the shorter of the two lists.                *)
CompareDirectoryShort(saved, now) ==
    LET compare[dir \in Seq(Nat), i \in Nat, j \in Nat] ==
            LET old == Sorted(NamesIn(saved, dir))
                new == Sorted(NamesIn(now, dir))
            IN IF i > Len(old) \/ j > Len(new) THEN <<>>
               ELSE IF old[i] < new[j]
               THEN <<Changed("deleted", Append(dir, old[i]))>> \o compare[dir, i + 1, j]
               ELSE IF old[i] > new[j]
               THEN <<Changed("added", Append(dir, new[j]))>> \o compare[dir, i, j + 1]
               ELSE LET p == Append(dir, new[j])
                    IN (IF BothDirs(saved, now, p) THEN compare[p, 1, 1]
                        ELSE CompareMatching(saved, now, p)) \o compare[dir, i + 1, j + 1]
    IN compare[Root, 1, 1]

(* compare_directory: a walk along two sorted lists of entries, i and j    *)
(* being the next ones.                                                    *)
CompareDirectory(saved, now) ==
    LET compare[dir \in Seq(Nat), i \in Nat, j \in Nat] ==
            LET old == Sorted(NamesIn(saved, dir))
                new == Sorted(NamesIn(now, dir))
            IN IF i > Len(old) /\ j > Len(new) THEN <<>>
               ELSE IF j > Len(new) \/ (i <= Len(old) /\ old[i] < new[j])
               THEN <<Changed("deleted", Append(dir, old[i]))>> \o compare[dir, i + 1, j]
               ELSE IF i > Len(old) \/ old[i] > new[j]
               THEN <<Changed("added", Append(dir, new[j]))>> \o compare[dir, i, j + 1]
               ELSE LET p == Append(dir, new[j])
                    IN (IF BothDirs(saved, now, p) THEN compare[p, 1, 1]
                        ELSE CompareMatching(saved, now, p)) \o compare[dir, i + 1, j + 1]
    IN compare[Root, 1, 1]

-----------------------------------------------------------------------------
NoCheckout == [target |-> EmptyTree, tasks |-> <<>>, mem |-> <<>>, alone |-> TRUE]
Report(op, tree, changes) == [op |-> op, tree |-> tree, changes |-> changes]
Nothing == Report("none", EmptyTree, <<>>)
FailedReport == Report("error", EmptyTree, <<>>)

(* A new working directory with stored trees to restore and no cache.      *)
TreeInit ==
    \E s \in Starts :
        /\ disk = s.disk /\ policy = s.policy /\ targets = s.targets /\ left = s.left
        /\ objects = UNION {Closure(t) : t \in s.targets}
        /\ dirs = <<>> /\ dirty = {} /\ sent = {} /\ synced = FALSE
        /\ checkout = NoCheckout /\ report = Nothing

Idle == checkout.tasks = <<>>
Spend(budget) == left[budget] > 0 /\ left' = [left EXCEPT ![budget] = @ - 1]

(* A process that fails ends, and its cache with it.                       *)
Fail == report' = FailedReport /\ UNCHANGED <<dirs, objects, synced>>

(* capture_tree, starting from a cache.                                    *)
CaptureFrom(cache, puts) ==
    IF ScanFails(Root) THEN Fail
    ELSE /\ dirs' = WithScanned(cache, Root, TRUE)
         /\ objects' = objects \cup puts \cup PutTrees(cache, Root)
         /\ report' = Report("capture", TreeAt(Root), <<>>)
         /\ synced' = TRUE

CaptureTree ==
    /\ Idle /\ Spend("ops")
    /\ CaptureFrom(dirs, {})
    /\ UNCHANGED <<disk, policy, targets, dirty, sent, checkout>>

(* What a delivery may bring: everything that changed since the last one,  *)
(* perhaps with an event of the root.                                      *)
Deliveries == IF LateHints THEN SUBSET sent \ {{}}
              ELSE {dirty} \cup IF dirty = {} THEN {} ELSE {dirty \cup {Root}}

(* capture_tree_with_hints *)
CaptureTreeWithHints ==
    /\ Idle /\ Spend("ops")
    /\ \E hints \in Deliveries :
          LET st == CaptureHints(hints)
          IN CASE st.status = "ok" ->
                    /\ dirs' = st.cache
                    /\ objects' = objects \cup st.puts
                    /\ report' = Report("hinted", st.cache[Root].tree, <<>>)
                    /\ UNCHANGED synced
               [] st.status = "full" -> CaptureFrom(st.cache, st.puts)
               [] OTHER -> Fail
    /\ dirty' = IF report' = FailedReport THEN dirty ELSE {}
    /\ UNCHANGED <<disk, policy, targets, sent, checkout>>

(* invalidate_watch_event_paths: the watch command drops what is cached    *)
(* under a path as soon as its event arrives.                              *)
ObserveEvent(p) ==
    /\ Idle
    /\ dirs' = Invalidate(dirs, p)
    /\ dirs' # dirs
    /\ report' = Nothing
    /\ UNCHANGED <<disk, policy, targets, objects, dirty, sent, synced, checkout, left>>

(* scan_tree *)
ScanTree ==
    /\ Idle /\ Spend("ops")
    /\ IF ScanFails(Root) THEN Fail
       ELSE /\ dirs' = WithScanned(dirs, Root, FALSE)
            /\ report' = Report("scan", TreeAt(Root), <<>>)
            /\ UNCHANGED <<objects, synced>>
    /\ UNCHANGED <<disk, policy, targets, dirty, sent, checkout>>

(* compare_tree *)
CompareTree ==
    /\ Idle /\ Spend("ops")
    /\ \E saved \in targets :
          IF ScanFails(Root) THEN Fail
          ELSE /\ dirs' = WithScanned(dirs, Root, FALSE)
               /\ report' = Report("compare", saved, CompareDirectory(saved, TreeAt(Root)))
               /\ UNCHANGED <<objects, synced>>
    /\ UNCHANGED <<disk, policy, targets, dirty, sent, checkout>>

-----------------------------------------------------------------------------
(* Checkouts, in the steps between which one may be cut short.  A task is  *)
(* a record [op, path].                                                    *)

Task(op, path) == [op |-> op, path |-> path]

(* prune_directory: what the target does not name goes, except what is     *)
(* skipped.  The kinds are those of the listing.                           *)
PruneTask(p) ==
    IF disk[p] = "link" /\ policy = "Error" THEN Task("fail", p)
    ELSE Task(IF disk[p] = "dir" THEN "remove_dir" ELSE "remove_file", p)

(* Mutant: names are excluded at the root only.                            *)
PruneTasksDeep(dir, target) ==
    LET names == {n \in NamesIn(disk, dir) \ NamesIn(target, dir) :
                    LET p == Append(dir, n)
                    IN (dir = Root => ~Skipped(p)) /\ ~(disk[p] = "link" /\ policy = "Skip")}
        sorted == Sorted(names)
    IN [k \in DOMAIN sorted |-> PruneTask(Append(dir, sorted[k]))]

PruneTasks(dir, target) ==
    LET names == {n \in NamesIn(disk, dir) \ NamesIn(target, dir) :
                    LET p == Append(dir, n)
                    IN ~Skipped(p) /\ ~(disk[p] = "link" /\ policy = "Skip")}
        sorted == Sorted(names)
    IN [k \in DOMAIN sorted |-> PruneTask(Append(dir, sorted[k]))]

(* The loop of materialize_directory over the entries of the tree.         *)
EntryTasks(dir, target) ==
    LET names == Sorted(NamesIn(target, dir))
        task(p) == Task(IF target[p] = "dir" THEN "dir" ELSE "blob", p)
    IN [k \in DOMAIN names |-> task(Append(dir, names[k]))]

DirectoryTasks(dir, target) ==
    PruneTasks(dir, target) \o EntryTasks(dir, target) \o <<Task("store", dir)>>

(* A path can be worked on while its parents are directories.              *)
Reachable(p) == \A q \in Proper(p) : IsDir(q)
CutAt(p) == Without(disk, Below(disk, p))

(* materialize_tree *)
StartCheckout ==
    /\ Idle /\ Spend("ops")
    /\ \E target \in targets :
          checkout' = [target |-> target, mem |-> dirs, alone |-> TRUE,
                       tasks |-> <<Task("enter", Root), Task("finish", Root)>>]
    /\ report' = Nothing
    /\ UNCHANGED <<disk, policy, targets, dirs, objects, dirty, sent, synced>>

Doing(op, path) == ~Idle /\ Head(checkout.tasks) = Task(op, path)
NextTask(mem) == checkout' = [checkout EXCEPT !.tasks = Tail(@), !.mem = mem]
Touch(paths) == /\ dirty' = dirty \cup paths
                /\ synced' = (synced /\ paths = {})
                /\ sent' = IF LateHints THEN sent \cup paths ELSE {}
Quiet == UNCHANGED <<policy, targets, dirs, objects, report, left>>

(* materialize_directory reads the directory and prunes it.                *)
EnterDirectory(p) ==
    /\ Doing("enter", p)
    /\ Reachable(p) /\ IsDir(p)
    /\ checkout' = [checkout EXCEPT !.tasks =
                       DirectoryTasks(p, checkout.target) \o Tail(@)]
    /\ UNCHANGED <<disk, dirty, sent, synced>> /\ Quiet

(* remove_path; the paths are invalidated before mem is read again.        *)
RemoveEntry(p) ==
    /\ \/ Doing("remove_dir", p) /\ KindAt(p) \in {"dir", "link"}
       \/ Doing("remove_file", p) /\ KindAt(p) \notin {"dir", NotThere}
    /\ disk' = CutAt(p)
    /\ NextTask(Invalidate(checkout.mem, p))
    /\ Touch({p}) /\ Quiet

(* materialize_blob, for a file that is as it should be and for another.   *)
KeepBlob(p) ==
    /\ Doing("blob", p)
    /\ KindAt(p) = checkout.target[p]
    /\ NextTask(checkout.mem)
    /\ UNCHANGED <<disk, dirty, sent, synced>> /\ Quiet

WriteBlob(p) ==
    /\ Doing("blob", p)
    /\ Reachable(p) /\ KindAt(p) # checkout.target[p]
    /\ disk' = Plus(CutAt(p), Just(p, checkout.target[p]))
    /\ NextTask(Invalidate(checkout.mem, p))
    /\ Touch({p}) /\ Quiet

(* prepare_directory, then the directory's own tree.                       *)
PrepareDirectory(p) ==
    /\ Doing("dir", p)
    /\ Reachable(p)
    /\ disk' = IF IsDir(p) THEN disk ELSE Plus(CutAt(p), Just(p, "dir"))
    /\ checkout' = [checkout EXCEPT !.tasks = <<Task("enter", p)>> \o Tail(@)]
    /\ Touch(IF IsDir(p) THEN {} ELSE {p}) /\ Quiet

(* Mutant: the cached directory keeps what it held before.                 *)
StoreDirectoryKept(p) ==
    /\ Doing("store", p)
    /\ NextTask(IF p \in DOMAIN checkout.mem THEN checkout.mem
            ELSE Plus(checkout.mem,
                      Just(p, [tree |-> SubTree(checkout.target, p), stored |-> TRUE])))
    /\ UNCHANGED <<disk, dirty, sent, synced>> /\ Quiet

(* The end of materialize_directory.                                       *)
StoreDirectory(p) ==
    /\ Doing("store", p)
    /\ NextTask(Plus(checkout.mem,
                     Just(p, [tree |-> SubTree(checkout.target, p), stored |-> TRUE])))
    /\ UNCHANGED <<disk, dirty, sent, synced>> /\ Quiet

(* save_cache_if_dirty at the end of materialize_tree.                     *)
FinishCheckout ==
    /\ Doing("finish", Root)
    /\ dirs' = checkout.mem
    /\ report' = Report(IF checkout.alone THEN "checkout" ELSE "raced", checkout.target, <<>>)
    /\ checkout' = NoCheckout
    /\ UNCHANGED <<disk, policy, targets, objects, dirty, sent, synced, left>>

(* An error ends the process: a link that policy forbids, or a path that   *)
(* somebody else took away.                                                *)
CheckoutFails ==
    /\ ~Idle
    /\ LET task == Head(checkout.tasks)
           p    == task.path
       IN \/ task.op = "fail"
          \/ task.op = "enter" /\ ~(Reachable(p) /\ IsDir(p))
          \/ task.op = "remove_dir" /\ KindAt(p) \notin {"dir", "link"}
          \/ task.op = "remove_file" /\ KindAt(p) \in {"dir", NotThere}
          \/ task.op \in {"blob", "dir"} /\ ~Reachable(p)
    /\ report' = FailedReport
    /\ checkout' = NoCheckout
    /\ UNCHANGED <<disk, policy, targets, dirs, objects, dirty, sent, synced, left>>

(* What a crash in the middle of a task can leave: part of what is being   *)
(* removed, or a file of which only a part was written.                    *)
Removals(p) ==
    {Without(disk, S) : S \in {T \in SUBSET Below(disk, p) :
                                \A q \in T : Below(disk, q) \subseteq T}}

CutShort(task) ==
    LET p == task.path
    IN {disk} \cup
       CASE task.op \in {"remove_dir", "remove_file"} -> Removals(p)
         [] task.op = "dir" /\ Reachable(p) /\ ~IsDir(p) -> Removals(p)
         [] task.op = "blob" /\ Reachable(p) /\ KindAt(p) # checkout.target[p] ->
              Removals(p) \cup {Plus(CutAt(p), Just(p, Torn))}
         [] OTHER -> {}

CrashCheckout ==
    /\ ~Idle /\ Spend("crashes")
    /\ disk' \in CutShort(Head(checkout.tasks))
    /\ checkout' = NoCheckout
    /\ report' = Nothing
    /\ Touch({p \in {Head(checkout.tasks).path} : disk' # disk})
    /\ UNCHANGED <<policy, targets, dirs, objects>>

(* Somebody else replaces what is at a path, perhaps during a checkout.    *)
EditPath(e) ==
    /\ Spend("edits")
    /\ Reachable(e.path)
    /\ disk' = IF e.kind = NotThere THEN CutAt(e.path)
               ELSE Plus(CutAt(e.path), Plus(Just(e.path, e.kind), Moved(e.tree, e.path)))
    /\ disk' # disk
    /\ Touch({e.path} \cup Below(disk, e.path) \cup Below(disk', e.path))
    /\ checkout' = IF Idle THEN checkout ELSE [checkout EXCEPT !.alone = FALSE]
    /\ report' = Nothing
    /\ UNCHANGED <<policy, targets, dirs, objects>>

CheckoutStep ==
    \/ \E p \in {Head(checkout.tasks).path : k \in DOMAIN checkout.tasks} :
          \/ EnterDirectory(p) \/ RemoveEntry(p) \/ KeepBlob(p) \/ WriteBlob(p)
          \/ PrepareDirectory(p) \/ StoreDirectory(p)
    \/ FinishCheckout
    \/ CheckoutFails

TreeNext ==
    \/ CaptureTree \/ CaptureTreeWithHints \/ ScanTree \/ CompareTree
    \/ \E p \in dirty : ObserveEvent(p)
    \/ StartCheckout \/ CheckoutStep \/ CrashCheckout
    \/ \E e \in PathEdits : EditPath(e)

TreeSpec == TreeInit /\ [][TreeNext]_work

-----------------------------------------------------------------------------
(* Properties.                                                             *)

Visible(tree) == Without(tree, {p \in DOMAIN tree : ExcludesPath(p)})

(* A capture guided by hints returns what a full capture would, as long as *)
(* the hints name every path that changed since the last ones: whatever    *)
(* full captures, scans, checkouts, finished, failed or cut short, have    *)
(* done to the cached directories in between.  Files that bear the name of *)
(* an excluded directory are left out: their hints are dropped.            *)
HintedEqualsFull ==
    report.op = "hinted" => Visible(report.tree) = Visible(TreeAt(Root))

(* docs/ARCHITECTURE.md: "events can be lost, coalesced, or duplicated".   *)
(* If nothing changed since the last full capture, hints of paths that     *)
(* changed before it do not change what is captured.                       *)
RepeatedHintsHarmless ==
    report.op = "hinted" /\ synced => Visible(report.tree) = Visible(TreeAt(Root))

(* A directory that the cache calls stored is in the object store with all *)
(* its directories: no capture skips storing a tree that only a scan or a  *)
(* comparison has seen, and so none returns a tree that cannot be read.    *)
StoredDirectoriesExist ==
    \A p \in DOMAIN dirs : dirs[p].stored => Closure(dirs[p].tree) \subseteq objects

(* The highest paths at which two trees differ.                            *)
Differences(old, new) ==
    LET At(t, p) == IF p \in DOMAIN t THEN t[p] ELSE NotThere
        differ == {p \in DOMAIN old \cup DOMAIN new :
                     /\ At(old, p) # At(new, p)
                     /\ \A q \in Proper(p) \ {Root} : At(old, q) = "dir" /\ At(new, q) = "dir"}
        kind(p) == IF At(new, p) = NotThere THEN "deleted"
                   ELSE IF At(old, p) = NotThere THEN "added"
                   ELSE IF "dir" \in {old[p], new[p]} THEN "type_changed" ELSE "modified"
        sorted == InOrder(differ, PathLess)
    IN [k \in DOMAIN sorted |-> Changed(kind(sorted[k]), sorted[k])]

(* A comparison reports each place where the working directory differs     *)
(* from the stored tree, once, in order, and nothing below it.             *)
CompareIsDiff ==
    report.op = "compare" => report.changes = Differences(report.tree, TreeAt(Root))

(* A checkout that ends, with nobody else at work, leaves exactly its      *)
(* target in the working directory and in the cache, whatever was there    *)
(* before, the remains of a checkout that was cut short included.          *)
CheckoutExact ==
    report.op = "checkout" =>
        /\ TreeAt(Root) = report.tree
        /\ dirs[Root] = [tree |-> report.tree, stored |-> TRUE]

Local(p) == Skipped(p) \/ (disk[p] = "link" /\ policy = "Skip")

(* No step of a checkout, not even one that is cut short, touches an entry *)
(* that captures leave out, in a directory the target has, under a name    *)
(* the target does not use there, unless somebody else put it there after  *)
(* the directory was listed.                                               *)
LocalStateKept ==
    [][~Idle /\ checkout.alone /\ left'.edits = left.edits =>
         \A p \in DOMAIN disk :
            /\ Local(p)
            /\ p \notin DOMAIN checkout.target
            /\ \A q \in Proper(p) \ {Root} : q \in DOMAIN checkout.target
                                            /\ checkout.target[q] = "dir"
            => \A r \in Below(disk, p) : r \in DOMAIN disk' /\ disk'[r] = disk[r]]_work

(* docs/ARCHITECTURE.md: "Materialization preserves excluded entries that  *)
(* are outside the target tree."                                           *)
ExcludedPreserved ==
    [][~Idle /\ checkout.alone /\ left'.edits = left.edits =>
         \A p \in DOMAIN disk :
            Skipped(p) /\ p \notin DOMAIN checkout.target => p \in DOMAIN disk']_work
=============================================================================

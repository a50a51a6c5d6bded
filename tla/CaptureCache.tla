---------------------------- MODULE CaptureCache ----------------------------
(***************************************************************************)
(* The hash cache of the materializer: for each path the fingerprint a     *)
(* file had and the object id its content hashed to.  Captures, scans and  *)
(* checkouts of several processes use it while files change; each process  *)
(* keeps records in memory and flushes them to a database.                 *)
(*                                                                         *)
(* A fingerprint is the modification time, in ticks of the file system's   *)
(* clock: the worst case, in which contents have equal length and files    *)
(* keep their inode.  An id stands for the content it names.  Files exist; *)
(* cached directories are part of WatchLoop.                               *)
(***************************************************************************)
EXTENDS Naturals

CONSTANTS
    Procs,
    Paths,
    Contents,
    None,          \* no record, no operation, no tree
    Free,          \* nobody has the database file open
    MaxTime,       \* bound: ticks of the clock
    MaxEdits,      \* bound: edits
    MaxOps,        \* bound: operations
    MaxFaults      \* bound: crashes, failed opens and failed flushes

AllOps  == {"capture", "hinted", "scan", "checkout"}
Times   == 0..MaxTime
Records == [time : Times, id : Contents, stored : BOOLEAN]
Tables  == [Paths -> Records \cup {None}]
Empty   == [f \in Paths |-> None]

ASSUME CacheAssumption ==
    /\ None \notin Records \cup AllOps \cup Contents \cup [Paths -> Contents]
    /\ Free \notin Procs
    /\ MaxTime \in Nat \ {0}
    /\ MaxEdits \in Nat /\ MaxOps \in Nat /\ MaxFaults \in Nat

VARIABLES
    file,      \* path -> content and modification time
    now,       \* the clock
    objects,   \* blobs in the object store
    saved,     \* the database file at the cache path
    opener,    \* the process that has that file open
    view,      \* the database each process has open, perhaps a removed file
    backend,   \* does it have one? (CaptureCache::backend)
    mem,       \* CaptureCache::files
    dirty,     \* CaptureCache::dirty_files
    invalid,   \* CaptureCache::invalidations
    pc, op,    \* where each process is, and in which operation
    todo,      \* the paths it has not come to
    path,      \* the path it is at
    seen,      \* the fingerprint it took
    got,       \* the content it read
    target,    \* the tree a checkout writes
    raced,     \* history: paths changed where no fingerprint can tell
    edits, ops, faults

disk   == <<file, now, raced>>
caches == <<mem, dirty, invalid>>
dbs    == <<saved, opener, view, backend>>
local  == <<op, todo, path, seen, got, target>>
vars   == <<file, now, objects, saved, opener, view, backend, mem, dirty,
            invalid, pc, op, todo, path, seen, got, target, raced, edits, ops,
            faults>>

Labels == {"closed", "ready", "next", "stat", "read", "store", "write",
           "stat_written"}

TypeOK ==
    /\ file \in [Paths -> [content : Contents, time : Times]]
    /\ now \in Times
    /\ objects \subseteq Contents
    /\ saved \in Tables
    /\ opener \in Procs \cup {Free}
    /\ view \in [Procs -> Tables]
    /\ backend \in [Procs -> BOOLEAN]
    /\ mem \in [Procs -> Tables]
    /\ dirty \in [Procs -> SUBSET Paths]
    /\ invalid \in [Procs -> SUBSET Paths]
    /\ pc \in [Procs -> Labels]
    /\ op \in [Procs -> AllOps \cup {None}]
    /\ todo \in [Procs -> SUBSET Paths]
    /\ path \in [Procs -> Paths]
    /\ seen \in [Procs -> Times]
    /\ got \in [Procs -> Contents \cup {None}]
    /\ target \in [Procs -> [Paths -> Contents] \cup {None}]
    /\ raced \subseteq Paths
    /\ edits \in 0..MaxEdits /\ ops \in 0..MaxOps /\ faults \in 0..MaxFaults

Init ==
    /\ file \in [Paths -> [content : Contents, time : {0}]]
    /\ now = 1
    /\ objects \in SUBSET Contents
    /\ saved = Empty
    /\ opener = Free
    /\ view = [p \in Procs |-> Empty]
    /\ backend = [p \in Procs |-> FALSE]
    /\ mem = [p \in Procs |-> Empty]
    /\ dirty = [p \in Procs |-> {}]
    /\ invalid = [p \in Procs |-> {}]
    /\ pc = [p \in Procs |-> "closed"]
    /\ op = [p \in Procs |-> None]
    /\ todo = [p \in Procs |-> {}]
    /\ \E f \in Paths : path = [p \in Procs |-> f]
    /\ seen = [p \in Procs |-> 0]
    /\ got = [p \in Procs |-> None]
    /\ target = [p \in Procs |-> None]
    /\ raced = {}
    /\ edits = 0 /\ ops = 0 /\ faults = 0

Goto(p, l) == pc' = [pc EXCEPT ![p] = l]

-----------------------------------------------------------------------------
(* Writing a file gives it the time of the clock.  Two writes in one tick  *)
(* have one fingerprint, and a write between a checkout's own write and    *)
(* its look at the file is taken for that checkout's.                      *)
Unseen(f) ==
    \/ file[f].time = now
    \/ \E p \in Procs : pc[p] = "stat_written" /\ path[p] = f

Write(f, c) ==
    /\ file' = [file EXCEPT ![f] = [content |-> c, time |-> now]]
    /\ raced' = IF Unseen(f) THEN raced \cup {f} ELSE raced \ {f}

Edit(f, c) ==
    /\ edits < MaxEdits
    /\ edits' = edits + 1
    /\ c # file[f].content
    /\ Write(f, c)
    /\ UNCHANGED <<now, objects, dbs, caches, pc, local, ops, faults>>

Tick ==
    /\ now < MaxTime
    /\ now' = now + 1
    /\ UNCHANGED <<file, raced, objects, dbs, caches, pc, local, edits, ops,
                   faults>>

-----------------------------------------------------------------------------
(* current_file: the record in memory, else the one in the database unless *)
(* the path was invalidated.  A record found there is also kept in memory. *)
Current(p, f) ==
    IF mem[p][f] # None THEN mem[p][f]
    ELSE IF f \in invalid[p] THEN None ELSE view[p][f]

ReadThrough(p, f) == mem' = [mem EXCEPT ![p][f] = Current(p, f)]

(* Mutant: a path's record keeps its stored flag when the content changes. *)
RecordForOnceStored(p, f, t, c, stored) ==
    LET old == Current(p, f)
    IN  [time |-> t, id |-> c, stored |-> stored \/ (old # None /\ old.stored)]

(* insert_file: a record of the same id that was stored stays stored.      *)
RecordFor(p, f, t, c, stored) ==
    LET old == Current(p, f)
    IN  [time |-> t, id |-> c,
         stored |-> stored \/ (old # None /\ old.id = c /\ old.stored)]

InsertFile(p, f, t, c, stored) ==
    LET new == RecordFor(p, f, t, c, stored)
    IN  /\ mem' = [mem EXCEPT ![p][f] = new]
        /\ dirty' = IF Current(p, f) = new THEN dirty
                    ELSE [dirty EXCEPT ![p] = @ \cup {f}]
        /\ UNCHANGED invalid

(* invalidate_path                                                         *)
Invalidate(p, f) ==
    /\ mem' = [mem EXCEPT ![p][f] = None]
    /\ dirty' = [dirty EXCEPT ![p] = @ \ {f}]
    /\ invalid' = IF backend[p] THEN [invalid EXCEPT ![p] = @ \cup {f}]
                  ELSE invalid

-----------------------------------------------------------------------------
(* ensure_cache_loaded.  The database cannot be opened twice: a process    *)
(* that finds it in use removes the file and starts an empty one, while    *)
(* the other goes on with the removed file.                                *)
Open(p) ==
    /\ pc[p] = "closed"
    /\ saved' = IF opener = Free THEN saved ELSE Empty
    /\ view' = [view EXCEPT ![p] = saved']
    /\ opener' = p
    /\ backend' = [backend EXCEPT ![p] = TRUE]
    /\ Goto(p, "ready")
    /\ UNCHANGED <<disk, objects, caches, local, edits, ops, faults>>

(* A database that cannot be opened leaves a cache in memory only.         *)
OpenFails(p) ==
    /\ pc[p] = "closed"
    /\ faults < MaxFaults
    /\ faults' = faults + 1
    /\ Goto(p, "ready")
    /\ UNCHANGED <<disk, objects, dbs, caches, local, edits, ops>>

(* invalidate_paths, called by the watch command for the paths of an event *)
WatchEvent(p, f) ==
    /\ pc[p] = "ready"
    /\ Invalidate(p, f)
    /\ UNCHANGED <<disk, objects, dbs, pc, local, edits, ops, faults>>

(* Mutant: a checkout of a tree whose blobs are not all there.             *)
BeginIncomplete(p, o, S) ==
    /\ pc[p] = "ready"
    /\ ops < MaxOps
    /\ ops' = ops + 1
    /\ o # "hinted" => S = Paths
    /\ op' = [op EXCEPT ![p] = o]
    /\ todo' = [todo EXCEPT ![p] = S]
    /\ \E t \in IF o = "checkout" THEN [Paths -> Contents] ELSE {None} :
           target' = [target EXCEPT ![p] = t]
    /\ Goto(p, "next")
    /\ UNCHANGED <<disk, objects, dbs, caches, path, seen, got, edits, faults>>

(* A capture, scan or checkout goes through all paths; a hinted capture    *)
(* through the hinted ones.  The blobs of a checkout's tree are stored.    *)
Begin(p, o, S) ==
    /\ pc[p] = "ready"
    /\ ops < MaxOps
    /\ ops' = ops + 1
    /\ o # "hinted" => S = Paths
    /\ op' = [op EXCEPT ![p] = o]
    /\ todo' = [todo EXCEPT ![p] = S]
    /\ \E t \in IF o = "checkout" THEN [Paths -> objects] ELSE {None} :
           target' = [target EXCEPT ![p] = t]
    /\ Goto(p, "next")
    /\ UNCHANGED <<disk, objects, dbs, caches, path, seen, got, edits, faults>>

(* The next path; capture_hinted_path invalidates it first.                *)
NextPath(p, f) ==
    /\ pc[p] = "next"
    /\ f \in todo[p]
    /\ todo' = [todo EXCEPT ![p] = @ \ {f}]
    /\ path' = [path EXCEPT ![p] = f]
    /\ IF op[p] = "hinted" THEN Invalidate(p, f) ELSE UNCHANGED caches
    /\ Goto(p, "stat")
    /\ UNCHANGED <<disk, objects, dbs, op, seen, got, target, edits, ops,
                   faults>>

(* Mutant: a capture takes the id of a scan, whose blob was never stored.  *)
HitOfScan(p, f) ==
    /\ Current(p, f) # None
    /\ Current(p, f).time = file[f].time
    /\ op[p] = "checkout" => Current(p, f).id = target[p][f]

(* Which record makes reading the file unnecessary: a capture needs one    *)
(* whose blob is stored, a checkout one with the content it would write.   *)
Hit(p, f) ==
    /\ Current(p, f) # None
    /\ Current(p, f).time = file[f].time
    /\ op[p] \in {"capture", "hinted"} => Current(p, f).stored
    /\ op[p] = "checkout" => Current(p, f).id = target[p][f]

(* capture_current_file, scan_current_file_id, materialize_blob: first the *)
(* fingerprint is taken and looked up.                                     *)
Stat(p) ==
    /\ pc[p] = "stat"
    /\ seen' = [seen EXCEPT ![p] = file[path[p]].time]
    /\ \/ /\ Hit(p, path[p])
          /\ IF op[p] = "checkout"
             THEN InsertFile(p, path[p], seen'[p], target[p][path[p]], TRUE)
             ELSE ReadThrough(p, path[p]) /\ UNCHANGED <<dirty, invalid>>
          /\ Goto(p, "next")
       \/ /\ ~Hit(p, path[p])
          /\ ReadThrough(p, path[p])
          /\ Goto(p, "read")
          /\ UNCHANGED <<dirty, invalid>>
    /\ UNCHANGED <<disk, objects, dbs, op, todo, path, got, target, edits,
                   ops, faults>>

(* Then the file is read ...                                               *)
ReadFile(p) ==
    /\ pc[p] = "read"
    /\ op[p] # "checkout"
    /\ got' = [got EXCEPT ![p] = file[path[p]].content]
    /\ Goto(p, "store")
    /\ UNCHANGED <<disk, objects, dbs, caches, op, todo, path, seen, target,
                   edits, ops, faults>>

Stored(p) == IF op[p] = "scan" THEN objects ELSE objects \cup {got[p]}

(* Mutant: the fingerprint is taken after the file was read.               *)
StoreFileThenStat(p) ==
    /\ pc[p] = "store"
    /\ objects' = Stored(p)
    /\ InsertFile(p, path[p], file[path[p]].time, got[p], op[p] # "scan")
    /\ Goto(p, "next")
    /\ UNCHANGED <<disk, dbs, local, edits, ops, faults>>

(* ... and hashed.  A capture stores what it read, a scan does not.        *)
StoreFile(p) ==
    /\ pc[p] = "store"
    /\ objects' = Stored(p)
    /\ InsertFile(p, path[p], seen[p], got[p], op[p] # "scan")
    /\ Goto(p, "next")
    /\ UNCHANGED <<disk, dbs, local, edits, ops, faults>>

(* A checkout leaves a file alone that has the content already.            *)
CompareFile(p) ==
    LET f == path[p]
        c == target[p][f]
    IN  /\ pc[p] = "read"
        /\ op[p] = "checkout"
        /\ \/ file[f].content = c /\ InsertFile(p, f, seen[p], c, TRUE)
                                  /\ Goto(p, "next")
           \/ file[f].content # c /\ Invalidate(p, f) /\ Goto(p, "write")
        /\ UNCHANGED <<disk, objects, dbs, local, edits, ops, faults>>

WriteFile(p) ==
    /\ pc[p] = "write"
    /\ Write(path[p], target[p][path[p]])
    /\ Goto(p, "stat_written")
    /\ UNCHANGED <<now, objects, dbs, caches, local, edits, ops, faults>>

(* The fingerprint of the file that was written is taken afterwards.       *)
StatWritten(p) ==
    /\ pc[p] = "stat_written"
    /\ InsertFile(p, path[p], file[path[p]].time, target[p][path[p]], TRUE)
    /\ Goto(p, "next")
    /\ UNCHANGED <<disk, objects, dbs, local, edits, ops, faults>>

-----------------------------------------------------------------------------
(* flush, one transaction: invalidated records go, then new ones come.     *)
Flushed(p) ==
    [f \in Paths |-> IF f \in dirty[p] THEN mem[p][f]
                     ELSE IF f \in invalid[p] THEN None ELSE view[p][f]]

(* save_cache_if_dirty and, but for hinted captures, dropping the records  *)
(* that the database has as well.  A failed flush is only logged: what is  *)
(* dirty stays in memory.                                                  *)
Kept(p, changed) ==
    IF op[p] = "hinted" \/ ~backend[p] THEN mem[p]
    ELSE [f \in Paths |-> IF f \in changed THEN mem[p][f] ELSE None]

(* Nothing of an operation is left when it has ended.                      *)
End(p, l) ==
    /\ op' = [op EXCEPT ![p] = None]
    /\ todo' = [todo EXCEPT ![p] = {}]
    /\ seen' = [seen EXCEPT ![p] = 0]
    /\ got' = [got EXCEPT ![p] = None]
    /\ target' = [target EXCEPT ![p] = None]
    /\ UNCHANGED path
    /\ Goto(p, l)

Finish(p) ==
    /\ pc[p] = "next"
    /\ todo[p] = {}
    /\ view' = IF backend[p] THEN [view EXCEPT ![p] = Flushed(p)] ELSE view
    /\ mem' = [mem EXCEPT ![p] = Kept(p, {})]
    /\ dirty' = [dirty EXCEPT ![p] = {}]
    /\ invalid' = [invalid EXCEPT ![p] = {}]
    /\ End(p, "ready")
    /\ UNCHANGED <<disk, objects, saved, opener, backend, edits, ops, faults>>

FinishUnflushed(p) ==
    /\ pc[p] = "next"
    /\ todo[p] = {}
    /\ backend[p]
    /\ faults < MaxFaults
    /\ faults' = faults + 1
    /\ mem' = [mem EXCEPT ![p] = Kept(p, dirty[p])]
    /\ End(p, "ready")
    /\ UNCHANGED <<disk, objects, dbs, dirty, invalid, edits, ops>>

(* The process ends.  Commits are not synced: they reach the file when the *)
(* database is closed; after a crash it has them, has them not, or is      *)
(* found corrupt and emptied.                                              *)
Leave(p, tables) ==
    /\ IF opener = p THEN saved' \in tables /\ opener' = Free
                     ELSE UNCHANGED <<saved, opener>>
    /\ view' = [view EXCEPT ![p] = Empty]
    /\ backend' = [backend EXCEPT ![p] = FALSE]
    /\ mem' = [mem EXCEPT ![p] = Empty]
    /\ dirty' = [dirty EXCEPT ![p] = {}]
    /\ invalid' = [invalid EXCEPT ![p] = {}]
    /\ End(p, "closed")
    /\ UNCHANGED <<disk, objects, edits, ops>>

Close(p) ==
    /\ pc[p] = "ready"
    /\ Leave(p, {view[p]})
    /\ UNCHANGED faults

Crash(p) ==
    /\ pc[p] # "closed"
    /\ faults < MaxFaults
    /\ faults' = faults + 1
    /\ Leave(p, {saved, view[p], Empty})

-----------------------------------------------------------------------------
Step(p) ==
    \/ Open(p) \/ OpenFails(p) \/ Stat(p) \/ ReadFile(p) \/ StoreFile(p)
    \/ CompareFile(p) \/ WriteFile(p) \/ StatWritten(p) \/ Finish(p) \/ FinishUnflushed(p)
    \/ Close(p) \/ Crash(p)
    \/ \E f \in Paths : WatchEvent(p, f) \/ NextPath(p, f)
    \/ \E o \in AllOps, S \in SUBSET Paths \ {{}} : Begin(p, o, S)

Next ==
    \/ Tick
    \/ \E f \in Paths, c \in Contents : Edit(f, c)
    \/ \E p \in Procs : Step(p)

Spec == Init /\ [][Next]_vars
-----------------------------------------------------------------------------
(* Every record for path f that a lookup may find, now or later.           *)
RecordsOf(f) ==
    ({saved[f]} \cup {view[p][f] : p \in Procs} \cup {mem[p][f] : p \in Procs})
        \ {None}

(* A record whose fingerprint matches the file has the id of the file's    *)
(* content, also after edits during a capture, lost databases, failed      *)
(* flushes and crashes.  Only two kinds of change go unseen: a second      *)
(* write within one tick, and a write between a checkout's write and its   *)
(* look at the result.  The next edit heals both.                          *)
CacheExact ==
    \A f \in Paths \ raced : \A e \in RecordsOf(f) :
        e.time = file[f].time => e.id = file[f].content

(* A record that says its blob is stored is right: otherwise a capture     *)
(* would put an id into a tree whose blob does not exist.                  *)
StoredExists ==
    \A f \in Paths : \A e \in RecordsOf(f) : e.stored => e.id \in objects

(* A path with an event is read, whatever its fingerprint: no record of an *)
(* invalidated path comes back from the database before a new one is made. *)
HintsReread ==
    \A p \in Procs :
        pc[p] = "stat" /\ op[p] = "hinted" => Current(p, path[p]) = None

(* Forgetting clean records loses nothing: the database has them.          *)
CleanRecordsSaved ==
    \A p \in Procs, f \in Paths :
        backend[p] /\ mem[p][f] # None =>
            f \in dirty[p] \/ (mem[p][f] = view[p][f] /\ f \notin invalid[p])

(* What is taken from the cache is what reading the file would have given, *)
(* and a capture takes only ids of blobs that exist.                       *)
HitsRight ==
    [][\A p \in Procs :
          (pc[p] = "stat" /\ pc'[p] = "next" /\ op[p] # "checkout") =>
              /\ path[p] \notin raced
                    => Current(p, path[p]).id = file[path[p]].content
              /\ op[p] # "scan" => Current(p, path[p]).id \in objects]_vars

(* Why: no record is younger than its file, what was read goes with a      *)
(* fingerprint that is current only if the content is, and the file that a *)
(* checkout is about to look at has what it wrote.                         *)
TimesOrdered ==
    \A f \in Paths :
        /\ file[f].time <= now
        /\ \A e \in RecordsOf(f) : e.time <= file[f].time
        /\ \A p \in Procs : pc[p] \in {"read", "store"} /\ path[p] = f
                              => seen[p] <= file[f].time

ReadSeen ==
    \A p \in Procs :
        pc[p] = "store" =>
            /\ got[p] \in Contents
            /\ \/ path[p] \in raced
               \/ seen[p] = file[path[p]].time => got[p] = file[path[p]].content

WrittenSeen ==
    \A p \in Procs :
        pc[p] = "stat_written" =>
            path[p] \in raced \/ file[path[p]].content = target[p][path[p]]

TargetsStored ==
    \A p \in Procs :
        op[p] = "checkout" => \A f \in Paths : target[p][f] \in objects

Places ==
    \A p \in Procs :
        /\ pc[p] = "closed" => mem[p] = Empty
        /\ pc[p] \notin {"closed", "ready"} => op[p] \in AllOps
        /\ pc[p] \in {"write", "stat_written"} => op[p] = "checkout"

NoBackendNoView == \A p \in Procs : ~backend[p] => view[p] = Empty

CacheInv ==
    /\ TypeOK
    /\ NoBackendNoView
    /\ HintsReread
    /\ TimesOrdered
    /\ ReadSeen
    /\ WrittenSeen
    /\ TargetsStored
    /\ Places
    /\ CacheExact
    /\ StoredExists
    /\ CleanRecordsSaved
=============================================================================

----------------------------- MODULE WatchLoop ------------------------------
(***************************************************************************)
(* era watch: file system events are hints.  The loop collects the hinted  *)
(* paths, waits for a quiet period, captures only those paths on top of    *)
(* the cached tree, and records the tree when it differs from the cursor.  *)
(* A timer makes it scan the whole directory from time to time.            *)
(*                                                                         *)
(* The directory is flat and a file is its content.  The hash cache is     *)
(* taken as exact.  The repository's part is one step, Record: Repository  *)
(* has its locks and interleavings.  Timers fire at any moment.            *)
(***************************************************************************)
EXTENDS Naturals, Sequences, FiniteSets

CONSTANTS
    Paths,
    Contents,
    Absent,        \* content of a path that has no file
    Root,          \* a hint that names the working directory itself
    WatchError,    \* an error the watcher reports instead of an event
    NoTree,        \* the capture cache holds no stored root tree
    MaxEdits,      \* bound: file changes
    MaxLost,       \* bound: changes the watcher reports no event for
    MaxFaults,     \* bound: errors of the watcher, the disk and the locks
    MaxStops       \* bound: restarts of the command

Trees == [Paths -> Contents \cup {Absent}]

ASSUME WatchAssumption ==
    /\ Absent \notin Contents
    /\ Root # WatchError /\ {Root, WatchError} \cap Paths = {}
    /\ NoTree \notin Trees
    /\ {MaxEdits, MaxLost, MaxFaults, MaxStops} \subseteq Nat

VARIABLES
    disk,       \* the working directory
    head,       \* tree of the snapshot the cursor stands on
    queue,      \* the channel between the watcher's callback and the loop
    dirty,      \* dirty_paths
    debounce,   \* debounce_sleep.is_some()
    loop,       \* what the loop is doing
    todo,       \* hinted paths it has not looked at
    listed,     \* existing files it is going to read
    captured,   \* the tree it is capturing
    tree,       \* the stored root tree of the capture cache, in memory
    flushed,    \* the same in the cache's database
    missed,     \* history: changed paths that no event was reported for
    during,     \* history: what each path held since the capture began
    edits, lost, faults, stops

vars == <<disk, head, queue, dirty, debounce, loop, todo, listed, captured,
          tree, flushed, missed, during, edits, lost, faults, stops>>

watchVars == <<queue, dirty, debounce>>
captureVars == <<todo, listed, captured, tree, flushed>>
bounds == <<edits, lost, faults, stops>>

Hints  == Paths \cup {Root}
States == {"select", "hinted", "full", "record", "stopped", "failed"}

TypeOK ==
    /\ {disk, head, captured} \subseteq Trees
    /\ queue \in Seq(Hints \cup {WatchError})
    /\ dirty \subseteq Hints
    /\ debounce \in BOOLEAN
    /\ loop \in States
    /\ {todo, listed, missed} \subseteq SUBSET Paths
    /\ {tree, flushed} \subseteq Trees \cup {NoTree}
    /\ during \in [Paths -> SUBSET (Contents \cup {Absent})]
    /\ edits \in 0..MaxEdits /\ lost \in 0..MaxLost
    /\ faults \in 0..MaxFaults /\ stops \in 0..MaxStops

Halted    == loop \in {"stopped", "failed"}
Capturing == loop \in {"hinted", "full"}
Changed(t) == IF t = NoTree THEN {} ELSE {p \in Paths : t[p] # disk[p]}

(* The command starts with the cached tree of an earlier one, or without.  *)
(* Files may have changed since: those changes raise no event.             *)
Init ==
    /\ disk \in Trees
    /\ head \in Trees
    /\ tree \in {head, NoTree}
    /\ flushed = tree
    /\ queue = <<>>
    /\ dirty = {}
    /\ debounce = FALSE
    /\ loop = "select"
    /\ todo = {} /\ listed = {}
    /\ captured = head
    /\ missed = Changed(tree)
    /\ during = [p \in Paths |-> {}]
    /\ edits = 0 /\ lost = 0 /\ faults = 0 /\ stops = 0

-----------------------------------------------------------------------------
(* Somebody changes a file; a stopped command has no watcher.  The event   *)
(* names the file, or the directory when the platform merges events, or    *)
(* it is lost: an overflow arrives without paths and is not even sent.     *)
Edit(p, c) ==
    /\ edits < MaxEdits
    /\ edits' = edits + 1
    /\ disk[p] # c
    /\ disk' = [disk EXCEPT ![p] = c]
    /\ during' = [during EXCEPT ![p] = IF Capturing THEN @ \cup {c} ELSE @]
    /\ \/ /\ ~Halted
          /\ \E e \in {p, Root} : queue' = Append(queue, e)
          /\ UNCHANGED <<missed, lost>>
       \/ /\ ~Halted
          /\ lost < MaxLost
          /\ lost' = lost + 1
          /\ missed' = missed \cup {p}
          /\ UNCHANGED queue
       \/ /\ Halted
          /\ missed' = missed \cup {p}
          /\ UNCHANGED <<queue, lost>>
    /\ UNCHANGED <<head, dirty, debounce, loop, captureVars, faults, stops>>

(* The watcher's callback passes an error on.                              *)
WatcherFails ==
    /\ ~Halted
    /\ faults < MaxFaults
    /\ faults' = faults + 1
    /\ queue' = Append(queue, WatchError)
    /\ UNCHANGED <<disk, head, dirty, debounce, loop, captureVars, missed,
                   during, edits, lost, stops>>

(* Another command, era snap, records the same directory.  It finds the    *)
(* database in use, puts a new one in its place and flushes to that.       *)
OtherSnapshot ==
    /\ head # disk
    /\ head' = disk
    /\ flushed' \in {flushed, disk}
    /\ UNCHANGED <<disk, watchVars, loop, todo, listed, captured, tree, missed,
                   during, bounds>>

-----------------------------------------------------------------------------
(* invalidate_watch_event_paths: an event of the root drops every cached   *)
(* directory.                                                              *)
Invalidate(e) == tree' = IF e = Root THEN NoTree ELSE tree

(* select!: the next event.  Its paths are collected and invalidated, and  *)
(* the quiet period starts anew.                                           *)
NextEvent ==
    /\ loop = "select"
    /\ queue # <<>>
    /\ queue' = Tail(queue)
    /\ \/ /\ Head(queue) # WatchError
          /\ dirty' = dirty \cup {Head(queue)}
          /\ Invalidate(Head(queue))
          /\ debounce' = TRUE
          /\ UNCHANGED loop
       \/ /\ Head(queue) = WatchError
          /\ loop' = "failed"
          /\ UNCHANGED <<dirty, debounce, tree>>
    /\ UNCHANGED <<disk, head, todo, listed, captured, flushed, missed,
                   during, bounds>>

(* capture_tree lists the directory first and reads the files afterwards.  *)
CaptureAll ==
    /\ loop' = "full"
    /\ todo' = {}
    /\ listed' = {p \in Paths : disk[p] # Absent}
    /\ captured' = [p \in Paths |-> Absent]
    /\ missed' = missed \cap listed'

(* capture_tree_with_hints starts from the cached tree; no hints, no such  *)
(* tree or a hint of the root mean a full capture.                         *)
CaptureHinted(hints) ==
    IF hints = {} \/ Root \in hints \/ tree = NoTree
    THEN CaptureAll
    ELSE /\ loop' = "hinted"
         /\ todo' = hints
         /\ listed' = {}
         /\ captured' = tree
         /\ UNCHANGED missed

CaptureBegins == during' = [p \in Paths |-> {disk[p]}]

DebounceFires ==
    /\ loop = "select"
    /\ debounce
    /\ debounce' = FALSE
    /\ CaptureHinted(dirty)
    /\ CaptureBegins
    /\ UNCHANGED <<disk, head, queue, dirty, tree, flushed, bounds>>

(* Mutant: without hints the cached tree is taken as it is.                *)
ReconcileTickCached ==
    /\ loop = "select"
    /\ IF dirty = {} /\ tree # NoTree
       THEN /\ loop' = "record"
            /\ captured' = tree
            /\ UNCHANGED <<todo, listed, missed>>
       ELSE CaptureAll
    /\ CaptureBegins
    /\ UNCHANGED <<disk, head, watchVars, tree, flushed, bounds>>

ReconcileTick ==
    /\ loop = "select"
    /\ CaptureAll
    /\ CaptureBegins
    /\ UNCHANGED <<disk, head, watchVars, tree, flushed, bounds>>

(* capture_hinted_path: symlink_metadata tells whether the file exists; a  *)
(* file that does not is dropped from the tree.  The hints are taken one   *)
(* after the other, and each rebuilds the cached tree.                     *)
LookAt(p) ==
    /\ loop = "hinted"
    /\ listed = {}
    /\ p \in todo
    /\ todo' = todo \ {p}
    /\ \/ /\ disk[p] # Absent
          /\ listed' = {p}
          /\ UNCHANGED <<captured, tree, missed>>
       \/ /\ disk[p] = Absent
          /\ captured' = [captured EXCEPT ![p] = Absent]
          /\ tree' = captured'
          /\ missed' = missed \ {p}
          /\ UNCHANGED listed
    /\ UNCHANGED <<disk, head, watchVars, loop, flushed, during, bounds>>

(* capture_current_file.  A file that was there a moment ago and is gone   *)
(* is an error, and an error ends the command.                             *)
ReadFile(p) ==
    /\ Capturing
    /\ p \in listed
    /\ \/ /\ disk[p] # Absent
          /\ listed' = listed \ {p}
          /\ captured' = [captured EXCEPT ![p] = disk[p]]
          /\ tree' = IF loop = "hinted" THEN captured' ELSE tree
          /\ missed' = missed \ {p}
          /\ UNCHANGED loop
       \/ /\ disk[p] = Absent
          /\ loop' = "failed"
          /\ UNCHANGED <<listed, captured, tree, missed>>
    /\ UNCHANGED <<disk, head, watchVars, todo, flushed, during, bounds>>

(* Mutant: the capture ends after the first hint.                          *)
FinishCaptureEarly ==
    /\ Capturing
    /\ listed = {}
    /\ loop' = "record"
    /\ todo' = {}
    /\ tree' = captured
    /\ flushed' = captured
    /\ UNCHANGED <<disk, head, watchVars, listed, captured, missed, during,
                   bounds>>

(* The capture is complete: the root tree is cached as stored and the      *)
(* cache is flushed, which may fail with a warning or reach a database     *)
(* file that another command has replaced.                                 *)
FinishCapture ==
    /\ Capturing
    /\ todo = {} /\ listed = {}
    /\ loop' = "record"
    /\ tree' = captured
    /\ flushed' \in {flushed, captured}
    /\ UNCHANGED <<disk, head, watchVars, todo, listed, captured, missed,
                   during, bounds>>

(* Mutant: the events that arrived meanwhile are dropped with the hints.   *)
RecordAndDrain ==
    /\ loop = "record"
    /\ head' = captured
    /\ dirty' = {}
    /\ queue' = <<>>
    /\ loop' = "select"
    /\ during' = [p \in Paths |-> {}]
    /\ UNCHANGED <<disk, debounce, captureVars, missed, bounds>>

(* snapshot_if_changed_with_hints, then dirty_paths.clear().               *)
Record ==
    /\ loop = "record"
    /\ head' = captured
    /\ dirty' = {}
    /\ loop' = "select"
    /\ during' = [p \in Paths |-> {}]
    /\ UNCHANGED <<disk, queue, debounce, captureVars, missed, bounds>>

(* Any other error of the capture or of the repository: I/O, LockTimeout.  *)
CaptureFails ==
    /\ Capturing \/ loop = "record"
    /\ faults < MaxFaults
    /\ faults' = faults + 1
    /\ loop' = "failed"
    /\ UNCHANGED <<disk, head, watchVars, captureVars, missed, during, edits,
                   lost, stops>>

CtrlC ==
    /\ loop = "select"
    /\ stops < MaxStops
    /\ loop' = "stopped"
    /\ UNCHANGED <<disk, head, watchVars, captureVars, missed, during, bounds>>

(* The command is started again, with the tree its cache was left with;    *)
(* the cache is disposable and may also be gone.                           *)
Restart ==
    /\ Halted
    /\ stops < MaxStops
    /\ stops' = stops + 1
    /\ loop' = "select"
    /\ queue' = <<>>
    /\ dirty' = {}
    /\ debounce' = FALSE
    /\ tree' \in {flushed, NoTree}
    /\ flushed' = tree'
    /\ todo' = {} /\ listed' = {}
    /\ captured' = head
    /\ missed' = Changed(tree')
    /\ during' = [p \in Paths |-> {}]
    /\ UNCHANGED <<disk, head, edits, lost, faults>>

-----------------------------------------------------------------------------
Loop ==
    \/ NextEvent \/ DebounceFires \/ FinishCapture \/ Record
    \/ \E p \in Paths : LookAt(p) \/ ReadFile(p)

Next ==
    \/ Loop \/ ReconcileTick
    \/ WatcherFails \/ OtherSnapshot \/ CaptureFails \/ CtrlC \/ Restart
    \/ \E p \in Paths, c \in Contents \cup {Absent} : Edit(p, c)

(* The command keeps running: whatever select! has ready is taken, and the *)
(* interval ticks for ever.                                                *)
Fairness == WF_vars(Loop) /\ WF_vars(ReconcileTick)

Spec == Init /\ [][Next]_vars /\ Fairness
-----------------------------------------------------------------------------
Queued == {queue[i] : i \in 1..Len(queue)}
Reported(p) == {p, Root} \cap (Queued \cup dirty) # {}

(* A change never gets lost between the watcher, the debounce and the      *)
(* capture: where the cached tree, which the next hinted capture trusts,   *)
(* differs from the directory, either the watcher reported nothing or the  *)
(* report is still waiting, as an event or as a hint with its timer set.   *)
NothingForgotten ==
    loop = "select" =>
        /\ dirty # {} => debounce
        /\ \A p \in Changed(tree) : p \in missed \/ Reported(p)

(* A snapshot of the watch holds what was in the directory while it was    *)
(* captured, path by path.  Only a path with an event that the loop has    *)
(* not seen, or one the watcher missed, may be older.                      *)
RecordedFresh ==
    loop = "record" =>
        \A p \in Paths : \/ captured[p] \in during[p]
                         \/ p \in missed
                         \/ {p, Root} \cap Queued # {}

(* Why: while a capture runs, what it has read is what was there since it  *)
(* began, and what differs from the directory is still to be read, waits   *)
(* as an event that nobody takes from the queue meanwhile, or was missed.  *)
CaptureCovers ==
    Capturing \/ loop = "record" =>
        \A p \in Paths \ (todo \cup listed) :
            \/ p \in missed
            \/ {p, Root} \cap Queued # {}
            \/ captured[p] = disk[p] /\ (Capturing => disk[p] \in during[p])

WatchInv ==
    /\ TypeOK
    /\ NothingForgotten
    /\ RecordedFresh
    /\ CaptureCovers
    /\ Capturing => \A p \in Paths : disk[p] \in during[p]
    /\ loop = "hinted" => tree = captured
    /\ loop = "record" => tree = captured /\ todo = {} /\ listed = {}

(* Every change reaches a snapshot as long as the command runs, however    *)
(* many events are lost: the reconciliation scan finds what they left out. *)
EditsRecorded == <>[](head = disk \/ Halted)

(* Only Ctrl-C, an I/O error or a failing watcher end the command.         *)
RunsUntilStopped == <>[](head = disk \/ stops > 0 \/ faults > 0 \/ loop = "stopped")
=============================================================================

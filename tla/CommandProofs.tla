---------------------------- MODULE CommandProofs -----------------------------
(* Two commands: the watch loop for any number of files, contents, edits,  *)
(* lost events, errors and restarts, and the drawing of any snapshots.     *)
EXTENDS WatchLoop, Timeline, CodecProofs

-----------------------------------------------------------------------------
(* The watch loop.                                                         *)

(* An event that is sent is in the queue, behind the ones before it ...    *)
LEMMA Sent ==
    ASSUME NEW S, queue \in Seq(S), NEW e \in S, queue' = Append(queue, e)
    PROVE  Queued \subseteq Queued' /\ e \in Queued' /\ queue' \in Seq(S)
<1>1. Len(queue') = Len(queue) + 1 /\ queue'[Len(queue) + 1] = e
  OBVIOUS
<1>2. \A i \in 1..Len(queue) : queue'[i] = queue[i]
  OBVIOUS
<1> QED
  BY <1>1, <1>2 DEF Queued

(* ... and taking the first one leaves all others.                         *)
LEMMA Taken ==
    ASSUME NEW S, queue \in Seq(S), queue # <<>>, queue' = Tail(queue)
    PROVE  /\ Queued \subseteq Queued' \cup {Head(queue)}
           /\ Head(queue) \in S
           /\ queue' \in Seq(S)
<1>1. Len(queue') = Len(queue) - 1 /\ Head(queue) = queue[1] /\ Len(queue) \in Nat \ {0}
  OBVIOUS
<1>2. \A i \in 1..Len(queue') : queue'[i] = queue[i + 1]
  OBVIOUS
<1>3. ASSUME NEW i \in 1..Len(queue), i # 1
      PROVE  i - 1 \in 1..Len(queue') /\ queue'[i - 1] = queue[i]
  BY <1>1, <1>2, <1>3
<1>4. ASSUME NEW x \in Queued, x # Head(queue) PROVE x \in Queued'
  <2>1. PICK i \in 1..Len(queue) : queue[i] = x
    BY DEF Queued
  <2>2. i # 1
    BY <1>1, <1>4, <2>1
  <2> QED
    BY <1>3, <2>1, <2>2 DEF Queued
<1> QED
  BY <1>1, <1>4

(* Every variable keeps its type.                                          *)
LEMMA WatchTypeStep ==
    ASSUME TypeOK, [Next]_vars
    PROVE  TypeOK'
<1> USE WatchAssumption DEF WatchAssumption, TypeOK, Trees, Hints, States, bounds,
                            watchVars, captureVars
<1>1. ASSUME NEW p \in Paths, NEW c \in Contents \cup {Absent}, Edit(p, c) PROVE TypeOK'
  <2>1. queue' \in Seq(Hints \cup {WatchError})
    <3>1. ASSUME NEW e \in {p, Root}, queue' = Append(queue, e)
          PROVE  queue' \in Seq(Hints \cup {WatchError})
      BY <3>1
    <3> QED
      BY <1>1, <3>1 DEF Edit
  <2>2. disk' \in Trees
    BY <1>1 DEF Edit
  <2>3. during' \in [Paths -> SUBSET (Contents \cup {Absent})]
    BY <1>1 DEF Edit
  <2> QED
    BY <1>1, <2>1, <2>2, <2>3, SMTT(60) DEF Edit
<1>2. CASE WatcherFails
  BY <1>2 DEF WatcherFails
<1>3. CASE OtherSnapshot
  BY <1>3 DEF OtherSnapshot
<1>4. CASE NextEvent
  <2>1. queue' \in Seq(Hints \cup {WatchError}) /\ Head(queue) \in Hints \cup {WatchError}
    BY <1>4 DEF NextEvent
  <2> QED
    BY <1>4, <2>1 DEF NextEvent, Invalidate
<1>5. ASSUME CaptureAll PROVE /\ loop' \in States /\ captured' \in Trees
                              /\ {todo', listed', missed'} \subseteq SUBSET Paths
  BY <1>5 DEF CaptureAll
<1>6. CASE DebounceFires
  <2>1. CASE CaptureAll
    BY <1>5, <1>6, <2>1, ZenonT(60) DEF DebounceFires, CaptureBegins
  <2>2. CASE ~CaptureAll
    <3>1. /\ loop' = "hinted" /\ todo' = dirty /\ listed' = {}
          /\ captured' = tree /\ missed' = missed
          /\ Root \notin dirty /\ tree # NoTree
      BY <1>6, <2>2 DEF DebounceFires, CaptureHinted
    <3>2. todo' \subseteq Paths /\ captured' \in Trees
      BY <3>1
    <3>3. during' \in [Paths -> SUBSET (Contents \cup {Absent})]
      BY <1>6 DEF DebounceFires, CaptureBegins
    <3> QED
      BY <1>6, <3>1, <3>2, <3>3, ZenonT(60) DEF DebounceFires
  <2> QED
    BY <2>1, <2>2
<1>7. CASE ReconcileTick
  BY <1>5, <1>7 DEF ReconcileTick, CaptureBegins
<1>8. ASSUME NEW p \in Paths, LookAt(p) PROVE TypeOK'
  BY <1>8 DEF LookAt
<1>9. ASSUME NEW p \in Paths, ReadFile(p) PROVE TypeOK'
  BY <1>9 DEF ReadFile
<1>10. CASE FinishCapture
  BY <1>10 DEF FinishCapture
<1>11. CASE Record
  BY <1>11 DEF Record
<1>12. CASE CaptureFails \/ CtrlC
  BY <1>12 DEF CaptureFails, CtrlC
<1>13. CASE Restart
  <2>1. tree' \in Trees \cup {NoTree} /\ missed' \subseteq Paths
    BY <1>13 DEF Restart, Changed
  <2>2. during' \in [Paths -> SUBSET (Contents \cup {Absent})] /\ queue' \in Seq(Hints \cup {WatchError})
    BY <1>13 DEF Restart
  <2>3. /\ loop' = "select" /\ dirty' = {} /\ debounce' = FALSE /\ flushed' = tree'
        /\ todo' = {} /\ listed' = {} /\ captured' = head /\ stops' \in 0..MaxStops
        /\ UNCHANGED <<disk, head, edits, lost, faults>>
    BY <1>13 DEF Restart
  <2> QED
    BY <2>1, <2>2, <2>3
<1>14. CASE UNCHANGED vars
  BY <1>14 DEF vars
<1> QED
  BY <1>1, <1>2, <1>3, <1>4, <1>6, <1>7, <1>8, <1>9, <1>10, <1>11, <1>12, <1>13, <1>14
  DEF Next, Loop

LEMMA SameQueue == ASSUME UNCHANGED queue PROVE Queued' = Queued
  BY DEF Queued

(* What a capture promises of the paths it is done with survives a step.   *)
LEMMA WatchStep ==
    ASSUME WatchInv, TypeOK', [Next]_vars
    PROVE  WatchInv'
<1> USE WatchAssumption DEF WatchInv, Trees, Hints
<1>1. ASSUME NEW p \in Paths, NEW c \in Contents \cup {Absent}, Edit(p, c) PROVE WatchInv'
  <2>1. /\ UNCHANGED <<head, dirty, debounce, loop, captureVars>>
        /\ \A r \in Paths \ {p} : disk'[r] = disk[r] /\ during'[r] = during[r]
        /\ disk'[p] = c
        /\ during[p] \subseteq during'[p]
        /\ Capturing => c \in during'[p]
    BY <1>1 DEF Edit, TypeOK
  <2>0. ASSUME NEW e \in {p, Root}, queue' = Append(queue, e)
        PROVE  Queued \subseteq Queued' /\ e \in Queued'
    <3>1. e \in Hints \cup {WatchError} /\ queue \in Seq(Hints \cup {WatchError})
      BY DEF TypeOK
    <3> HIDE DEF Hints
    <3> QED
      BY <2>0, <3>1, Sent
  <2>2. Queued \subseteq Queued' /\ missed \subseteq missed'
    BY <1>1, <2>0, SameQueue DEF Edit
  <2>3. ~Halted => p \in missed' \/ {p, Root} \cap Queued' # {}
    BY <1>1, <2>0 DEF Edit
  <2>4. NothingForgotten'
    BY <2>1, <2>2, <2>3 DEF NothingForgotten, Changed, Reported, captureVars, Halted
  <2>5. RecordedFresh'
    BY <2>1, <2>2, <2>3 DEF RecordedFresh, captureVars, Halted
  <2>6. CaptureCovers'
    BY <2>1, <2>2, <2>3 DEF CaptureCovers, Capturing, captureVars, Halted
  <2>7. (Capturing => \A r \in Paths : disk[r] \in during[r])'
    BY <2>1 DEF Capturing
  <2> QED
    BY <2>1, <2>4, <2>5, <2>6, <2>7 DEF captureVars
<1>2. CASE WatcherFails
  <2>1. Queued \subseteq Queued'
    BY <1>2, Sent DEF WatcherFails, TypeOK
  <2> QED
    BY <1>2, <2>1 DEF WatcherFails, NothingForgotten, RecordedFresh, CaptureCovers, Changed,
       Reported, Capturing, captureVars
<1>3. CASE NextEvent
  <2>1. Queued \subseteq Queued' \cup {Head(queue)}
    BY <1>3, Taken DEF NextEvent, TypeOK
  <2>2. CASE loop' = "select"
    <3>1. dirty' = dirty \cup {Head(queue)} /\ debounce' = TRUE
      BY <1>3, <2>2 DEF NextEvent
    <3>2. NothingForgotten'
      BY <1>3, <2>1, <2>2, <3>1 DEF NextEvent, Invalidate, NothingForgotten, Changed,
         Reported
    <3> QED
      BY <1>3, <2>2, <3>2 DEF RecordedFresh, CaptureCovers, Capturing
  <2>3. CASE loop' = "failed"
    BY <1>3, <2>3 DEF NothingForgotten, RecordedFresh, CaptureCovers, Capturing
  <2> QED
    BY <1>3, <2>2, <2>3 DEF NextEvent
<1>4. ASSUME CaptureAll, CaptureBegins, UNCHANGED <<disk, queue>> PROVE WatchInv'
  <2>1. loop' = "full"
    BY <1>4 DEF CaptureAll
  <2>2. CaptureCovers'
    BY <1>4, <2>1 DEF CaptureAll, CaptureBegins, CaptureCovers, Capturing, TypeOK
  <2>3. \A p \in Paths : disk'[p] \in during'[p]
    BY <1>4 DEF CaptureBegins
  <2> QED
    BY <2>1, <2>2, <2>3 DEF NothingForgotten, RecordedFresh
<1>5. CASE DebounceFires
  <2>1. CASE CaptureAll
    BY <1>4, <1>5, <2>1 DEF DebounceFires
  <2>2. CASE ~CaptureAll
    <3>1. /\ loop' = "hinted" /\ todo' = dirty /\ listed' = {}
          /\ captured' = tree /\ missed' = missed
          /\ Root \notin dirty /\ tree # NoTree
      BY <1>5, <2>2 DEF DebounceFires, CaptureHinted
    <3>2. /\ UNCHANGED <<disk, queue, tree>> /\ loop = "select"
          /\ \A p \in Paths : disk[p] \in during'[p]
      BY <1>5 DEF DebounceFires, CaptureBegins
    <3>3. CaptureCovers'
      <4>1. ASSUME NEW r \in Paths, r \notin dirty, r \notin missed, {r, Root} \cap Queued = {}
            PROVE  tree[r] = disk[r]
        BY <3>1, <3>2, <4>1 DEF NothingForgotten, Changed, Reported
      <4>2. Queued' = Queued
        BY <3>2, SameQueue
      <4> QED
        BY <3>1, <3>2, <4>1, <4>2 DEF CaptureCovers, Capturing
    <3> QED
      BY <3>1, <3>2, <3>3 DEF NothingForgotten, RecordedFresh
  <2> QED
    BY <2>1, <2>2
<1>6. CASE ReconcileTick
  BY <1>4, <1>6 DEF ReconcileTick, watchVars
<1>7. ASSUME NEW p \in Paths, LookAt(p) PROVE WatchInv'
  <2>1. CaptureCovers'
    <3>1. Queued' = Queued
      BY <1>7, SameQueue DEF LookAt, watchVars
    <3>2. /\ loop = "hinted" /\ UNCHANGED <<disk, loop, during>>
          /\ \A r \in Paths \ {p} : captured'[r] = captured[r] /\ (r \in missed => r \in missed')
          /\ Paths \ (todo' \cup listed') \subseteq (Paths \ (todo \cup listed)) \cup {p}
          /\ p \notin listed' => captured'[p] = disk[p]
      BY <1>7 DEF LookAt, TypeOK
    <3>3. disk[p] \in during[p]
      BY <3>2 DEF Capturing
    <3> QED
      BY <3>1, <3>2, <3>3 DEF CaptureCovers, Capturing
  <2> QED
    BY <1>7, <2>1 DEF LookAt, NothingForgotten, RecordedFresh, Capturing
<1>8. ASSUME NEW p \in Paths, ReadFile(p) PROVE WatchInv'
  <2>1. CASE loop' = "failed"
    BY <2>1 DEF NothingForgotten, RecordedFresh, CaptureCovers, Capturing
  <2>2. CASE loop' = loop
    <3>1. CaptureCovers'
      <4>1. Queued' = Queued
        BY <1>8, SameQueue DEF ReadFile, watchVars
      <4>2. /\ Capturing /\ UNCHANGED <<disk, loop, during, todo>>
            /\ listed' = listed \ {p} /\ missed' = missed \ {p}
            /\ \A r \in Paths \ {p} : captured'[r] = captured[r]
            /\ captured'[p] = disk[p]
        BY <1>8, <2>2 DEF ReadFile, Capturing, TypeOK
      <4>3. disk[p] \in during[p]
        BY <4>2
      <4> QED
        BY <4>1, <4>2, <4>3 DEF CaptureCovers, Capturing
    <3> QED
      BY <1>8, <2>2, <3>1 DEF ReadFile, NothingForgotten, RecordedFresh, Capturing
  <2> QED
    BY <1>8, <2>1, <2>2 DEF ReadFile
<1>9. CASE FinishCapture
  <2>0. Queued' = Queued
    BY <1>9, SameQueue DEF FinishCapture, watchVars
  <2>1. RecordedFresh'
    BY <1>9, <2>0 DEF FinishCapture, RecordedFresh, CaptureCovers
  <2>2. CaptureCovers'
    BY <1>9, <2>0 DEF FinishCapture, CaptureCovers, Capturing
  <2> QED
    BY <1>9, <2>1, <2>2 DEF FinishCapture, NothingForgotten, Capturing
<1>10. CASE Record
  <2>1. NothingForgotten'
    <3>1. /\ Queued' = Queued /\ UNCHANGED <<disk, missed, tree>>
          /\ dirty' = {} /\ loop = "record"
      BY <1>10, SameQueue DEF Record, captureVars
    <3>2. \A p \in Paths : p \in missed \/ {p, Root} \cap Queued # {} \/ tree[p] = disk[p]
      BY <3>1 DEF CaptureCovers
    <3> QED
      BY <3>1, <3>2 DEF NothingForgotten, Changed, Reported
  <2> QED
    BY <1>10, <2>1 DEF Record, RecordedFresh, CaptureCovers, Capturing
<1>11. CASE CaptureFails \/ CtrlC
  BY <1>11 DEF CaptureFails, CtrlC, NothingForgotten, RecordedFresh, CaptureCovers, Capturing
<1>12. CASE Restart
  BY <1>12 DEF Restart, NothingForgotten, RecordedFresh, CaptureCovers, Capturing, Changed
<1>13. CASE OtherSnapshot \/ UNCHANGED vars
  <2>1. UNCHANGED <<disk, queue, dirty, debounce, loop, todo, listed, captured, tree, missed,
                    during>>
    BY <1>13 DEF OtherSnapshot, vars, watchVars, captureVars
  <2>2. Queued' = Queued
    BY <2>1, SameQueue
  <2>3. NothingForgotten'
    BY <2>1, <2>2 DEF NothingForgotten, Changed, Reported
  <2>4. RecordedFresh'
    BY <2>1, <2>2 DEF RecordedFresh
  <2>5. CaptureCovers'
    BY <2>1, <2>2 DEF CaptureCovers, Capturing
  <2> QED
    BY <2>1, <2>3, <2>4, <2>5 DEF Capturing
<1> QED
  BY <1>1, <1>2, <1>3, <1>5, <1>6, <1>7, <1>8, <1>9, <1>10, <1>11, <1>12, <1>13
  DEF Next, Loop

(* The invariant of the watch loop.                                        *)
THEOREM WatchInvariant == Spec => []WatchInv
<1>1. Init => WatchInv
  <2> SUFFICES ASSUME Init PROVE WatchInv
    OBVIOUS
  <2>1. TypeOK
    <3>1. /\ disk \in Trees /\ head \in Trees /\ captured = head
          /\ tree \in Trees \cup {NoTree} /\ flushed = tree
      BY DEF Init
    <3>2. queue \in Seq(Hints \cup {WatchError}) /\ missed \subseteq Paths
      BY DEF Init, Changed
    <3>3. during \in [Paths -> SUBSET (Contents \cup {Absent})]
      BY DEF Init
    <3>4. /\ dirty = {} /\ todo = {} /\ listed = {} /\ debounce = FALSE /\ loop = "select"
          /\ edits = 0 /\ lost = 0 /\ faults = 0 /\ stops = 0
      BY DEF Init
    <3>5. debounce \in BOOLEAN /\ loop \in States
      BY <3>4 DEF States
    <3>6. edits \in 0..MaxEdits /\ lost \in 0..MaxLost /\ faults \in 0..MaxFaults /\ stops \in 0..MaxStops
      BY WatchAssumption, <3>4 DEF WatchAssumption
    <3>7. dirty \subseteq Hints /\ {todo, listed, missed} \subseteq SUBSET Paths
      BY <3>2, <3>4
    <3>8. {disk, head, captured} \subseteq Trees /\ {tree, flushed} \subseteq Trees \cup {NoTree}
      BY <3>1
    <3> QED
      BY <3>2, <3>3, <3>5, <3>6, <3>7, <3>8 DEF TypeOK
  <2>2. Queued = {}
    BY DEF Init, Queued
  <2> QED
    BY <2>1, <2>2 DEF Init, WatchInv, NothingForgotten, RecordedFresh, CaptureCovers, Capturing,
       Changed
<1>2. WatchInv /\ [Next]_vars => WatchInv'
  BY WatchTypeStep, WatchStep DEF WatchInv
<1> QED
  BY <1>1, <1>2, PTL DEF Spec

(* No reported change is dropped between the watcher and the capture.      *)
THEOREM WatchForgetsNothing == Spec => []NothingForgotten
<1>1. WatchInv => NothingForgotten
  BY DEF WatchInv
<1> QED
  BY WatchInvariant, <1>1, PTL

(* A snapshot of the watch holds what was on disk during its capture.      *)
THEOREM WatchRecordsFresh == Spec => []RecordedFresh
<1>1. WatchInv => RecordedFresh
  BY DEF WatchInv
<1> QED
  BY WatchInvariant, <1>1, PTL

-----------------------------------------------------------------------------
(* The drawing of the snapshots.                                           *)

(* The snapshots of a set in the order in which they are drawn.            *)
LEMMA InOrderOfTime ==
    ASSUME graph \in Graphs, NEW S, S \in SUBSET Ids
    PROVE  /\ InOrder(S, Earlier) \in Seq(S)
           /\ DOMAIN InOrder(S, Earlier) = 1..Len(InOrder(S, Earlier))
           /\ \A e : e \in S <=> \E k \in DOMAIN InOrder(S, Earlier) : InOrder(S, Earlier)[k] = e
           /\ \A i, j \in DOMAIN InOrder(S, Earlier) :
                 InOrder(S, Earlier)[i] = InOrder(S, Earlier)[j] => i = j
<1> DEFINE before == [e \in S |-> {d \in S : Earlier(d, e)}]
           s == InOrder(S, Earlier)
<1>0. /\ IsFiniteSet(S) /\ \A d \in S : d \in Int /\ graph[d].time \in Int
  <2>1. IsFiniteSet(Ids) /\ Ids \subseteq Int /\ \A d \in Ids : graph[d].time \in Int
    BY TimelineAssumption DEF TimelineAssumption, Ids
  <2> QED
    BY <2>1, FS_Subset
<1>a. /\ \A d, e, f \in S : Earlier(d, e) /\ Earlier(e, f) => Earlier(d, f)
      /\ \A d \in S : ~Earlier(d, d)
      /\ \A d, e \in S : d = e \/ Earlier(d, e) \/ Earlier(e, d)
  BY <1>0 DEF Earlier
<1>1. before \in [S -> SUBSET S] /\ \A d, e \in S : d \in before[e] <=> Earlier(d, e)
  OBVIOUS
<1>2. /\ s = [k \in 1..Cardinality(S) |-> s[k]]
      /\ \A k \in 1..Cardinality(S) : s[k] = CHOOSE e \in S : Cardinality(before[e]) = k - 1
  <2> DEFINE pick(k) == CHOOSE e \in S : Cardinality({d \in S : Earlier(d, e)}) = k - 1
  <2>1. s = [k \in 1..Cardinality(S) |-> pick(k)]
    BY DEF InOrder
  <2>2. \A k : pick(k) = CHOOSE e \in S : Cardinality(before[e]) = k - 1
    OBVIOUS
  <2> HIDE DEF s, before, pick
  <2>3. s = [k \in 1..Cardinality(S) |-> s[k]]
    BY <2>1
  <2>4. \A k \in 1..Cardinality(S) : s[k] = pick(k)
    BY <2>1
  <2> QED
    BY <2>2, <2>3, <2>4, Zenon
<1> HIDE DEF before, s
<1>3. \A d, e \in S : d \in before[e] => before[d] \subseteq before[e]
  BY <1>1, <1>a
<1>4. \A d \in S : d \notin before[d]
  BY <1>1, <1>a
<1>5. \A d, e \in S : d = e \/ d \in before[e] \/ e \in before[d]
  BY <1>1, <1>a
<1>10. \A k \in 1..Cardinality(S) : \A e \in S :
         Cardinality(before[e]) = k - 1 => s[k] \in S /\ Cardinality(before[s[k]]) = k - 1
  BY <1>2
<1>6. /\ Cardinality(S) \in Nat
      /\ s \in [1..Cardinality(S) -> S]
      /\ \A e \in S : \E k \in 1..Cardinality(S) : s[k] = e
      /\ \A i, j \in 1..Cardinality(S) : i < j <=> s[i] \in before[s[j]]
  BY <1>0, <1>1, <1>2, <1>3, <1>4, <1>5, <1>10, Ranks, ZenonT(60)
<1>7. s \in Seq(S) /\ Len(s) = Cardinality(S) /\ DOMAIN s = 1..Len(s)
  BY <1>6
<1>8. \A i, j \in DOMAIN s : s[i] = s[j] => i = j
  <2> SUFFICES ASSUME NEW i \in DOMAIN s, NEW j \in DOMAIN s, s[i] = s[j], i < j PROVE FALSE
    BY <1>6, <1>7
  <2>1. s[i] \in before[s[j]] /\ s[i] \in S
    BY <1>6, <1>7
  <2> QED
    BY <1>4, <2>1
<1>9. \A e : e \in S <=> \E k \in DOMAIN s : s[k] = e
  BY <1>6, <1>7
<1> QED
  BY <1>7, <1>8, <1>9 DEF s

(* A list of all of a set, without repetition.                             *)
Lists(s, S) ==
    /\ s \in Seq(S) /\ Len(s) \in Nat /\ DOMAIN s = 1..Len(s)
    /\ \A e : e \in S <=> \E k \in 1..Len(s) : s[k] = e
    /\ \A i, j \in 1..Len(s) : s[i] = s[j] => i = j

(* The snapshots that are drawn below one.                                 *)
ChildrenOf(id) == {c \in Ids : IsChild(c, id)}

(* Children lists them.                                                    *)
LEMMA ChildrenListed ==
    ASSUME graph \in Graphs, NEW id
    PROVE  Lists(Children(id), ChildrenOf(id))
<1> DEFINE S == ChildrenOf(id)
           s == InOrder(S, Earlier)
<1>1. S \in SUBSET Ids
  BY DEF ChildrenOf
<1> HIDE DEF S
<1>2. /\ s \in Seq(S) /\ DOMAIN s = 1..Len(s)
      /\ \A e : e \in S <=> \E k \in DOMAIN s : s[k] = e
      /\ \A i, j \in DOMAIN s : s[i] = s[j] => i = j
  BY <1>1, InOrderOfTime
<1>3. s = Children(id)
  BY DEF Children, S, ChildrenOf
<1> HIDE DEF s
<1>4. Len(s) \in Nat
  BY <1>2, LenProperties
<1>5. Lists(s, S)
  BY <1>2, <1>4 DEF Lists
<1> QED
  BY <1>3, <1>5 DEF S

(* Roots lists the snapshots that are drawn at the margin.                 *)
LEMMA RootsListed ==
    ASSUME graph \in Graphs
    PROVE  Lists(Roots, {id \in Ids : ~HasParent(id)})
<1> DEFINE S == {id \in Ids : ~HasParent(id)}
           s == InOrder(S, Earlier)
<1>1. S \in SUBSET Ids
  OBVIOUS
<1>3. s = Roots
  BY DEF Roots
<1> HIDE DEF S
<1>2. /\ s \in Seq(S) /\ DOMAIN s = 1..Len(s)
      /\ \A e : e \in S <=> \E k \in DOMAIN s : s[k] = e
      /\ \A i, j \in DOMAIN s : s[i] = s[j] => i = j
  BY <1>1, InOrderOfTime
<1> HIDE DEF s
<1>4. Len(s) \in Nat
  BY <1>2, LenProperties
<1>5. Lists(s, S)
  BY <1>2, <1>4 DEF Lists
<1> QED
  BY <1>3, <1>5 DEF S

-----------------------------------------------------------------------------
(* Runs of automatic snapshots.                                            *)

(* A run from a snapshot on: each can be collapsed and is the only child   *)
(* of the one before.                                                      *)
IsRun(r, start) ==
    /\ r \in Seq(Ids)
    /\ r # <<>> => r[1] = start
    /\ \A k \in 1..Len(r) : Collapsible(r[k])
    /\ \A k \in 1..(Len(r) - 1) : ChildrenOf(r[k]) = {r[k + 1]}

(* An only child is the whole of the children.                             *)
LEMMA OnlyChildIs ==
    ASSUME graph \in Graphs, NEW id, OnlyChild(id) # <<>>
    PROVE  OnlyChild(id)[1] \in Ids /\ ChildrenOf(id) = {OnlyChild(id)[1]}
<1> DEFINE s == Children(id)
<1>1. OnlyChild(id) = s /\ Len(s) = 1
  BY DEF OnlyChild
<1>2. Lists(s, ChildrenOf(id))
  BY ChildrenListed
<1> HIDE DEF s
<1>3. \A e : e \in ChildrenOf(id) <=> e = s[1]
  BY <1>1, <1>2 DEF Lists
<1>4. ChildrenOf(id) \subseteq Ids
  BY DEF ChildrenOf
<1> QED
  BY <1>1, <1>3, <1>4

(* A turn of auto_chain keeps a run one.                                   *)
LEMMA RunExtended ==
    ASSUME graph \in Graphs, NEW start \in Ids, NEW r \in Seq(Ids)
    PROVE  /\ Extended(r, start) \in Seq(Ids)
           /\ IsRun(r, start) => IsRun(Extended(r, start), start)
<1> DEFINE next == IF r = <<>> THEN <<start>> ELSE OnlyChild(Last(r))
           n == Len(r)
           more == Append(r, next[1])
<1>0. n \in Nat /\ (r # <<>> => n # 0 /\ Last(r) = r[n])
  BY LenProperties, EmptySeq DEF Last
<1>1. CASE next # <<>> /\ Collapsible(next[1])
  <2>1. Extended(r, start) = more
    BY <1>1 DEF Extended
  <2>2. next[1] \in Ids /\ (r # <<>> => ChildrenOf(Last(r)) = {next[1]}) /\ (r = <<>> => next[1] = start)
    BY <1>1, OnlyChildIs
  <2> HIDE DEF next
  <2>3. /\ more \in Seq(Ids) /\ Len(more) = n + 1
        /\ \A k \in 1..n : more[k] = r[k]
        /\ more[n + 1] = next[1]
    BY <2>2, AppendProperties
  <2>4. ASSUME IsRun(r, start) PROVE IsRun(more, start)
    <3> HIDE DEF more
    <3>1. more[1] = start
      <4>1. CASE r = <<>>
        BY <2>2, <2>3, <4>1, EmptySeq
      <4>2. CASE r # <<>>
        <5>1. 1 \in 1..n /\ r[1] = start
          BY <1>0, <2>4, <4>2 DEF IsRun
        <5> QED
          BY <2>3, <5>1
      <4> QED
        BY <4>1, <4>2
    <3>2. \A k \in 1..(n + 1) : Collapsible(more[k])
      <4> TAKE k \in 1..(n + 1)
      <4>1. CASE k = n + 1
        BY <1>1, <2>3, <4>1
      <4>2. CASE k # n + 1
        <5>1. k \in 1..n
          BY <1>0, <4>2
        <5> QED
          BY <2>3, <2>4, <5>1 DEF IsRun
      <4> QED
        BY <4>1, <4>2
    <3>3. \A k \in 1..n : ChildrenOf(more[k]) = {more[k + 1]}
      <4> TAKE k \in 1..n
      <4>1. CASE k = n
        <5>1. r # <<>>
          BY <1>0, <4>1, EmptySeq
        <5> QED
          BY <1>0, <2>2, <2>3, <4>1, <5>1
      <4>2. CASE k # n
        <5>1. k \in 1..(n - 1) /\ k + 1 \in 1..n
          BY <1>0, <4>2
        <5> QED
          BY <2>3, <2>4, <5>1 DEF IsRun
      <4> QED
        BY <4>1, <4>2
    <3>4. (n + 1) - 1 = n
      BY <1>0
    <3> QED
      BY <2>3, <3>1, <3>2, <3>3, <3>4 DEF IsRun
  <2> QED
    BY <2>1, <2>3, <2>4
<1>2. CASE ~(next # <<>> /\ Collapsible(next[1]))
  <2>1. Extended(r, start) = r
    BY <1>2 DEF Extended
  <2> QED
    BY <2>1
<1> QED
  BY <1>1, <1>2

(* The chain of auto_chain after each number of turns.                     *)
IsChain(chain, start) ==
    chain = [n \in Nat |-> IF n = 0 THEN <<>> ELSE Extended(chain[n - 1], start)]

(* auto_chain follows a run.                                               *)
LEMMA ChainIsRun ==
    ASSUME graph \in Graphs, NEW start \in Ids
    PROVE  IsRun(AutoChain(start), start)
<1> DEFINE S == Seq(Ids)
           step == [p \in Nat \X S |-> Extended(p[2], start)]
           chain == CHOOSE f : IsChain(f, start)
<1>1. /\ step \in [Nat \X S -> S]
      /\ \A i \in Nat, s \in S : step[<<i, s>>] = Extended(s, start)
  <2>1. \A p \in Nat \X S : Extended(p[2], start) \in S
    BY RunExtended
  <2> HIDE DEF S
  <2> QED
    BY <2>1
<1>2. <<>> \in S
  BY EmptySeq
<1> HIDE DEF step, S
<1>3. PICK g : Recursive(g, S, <<>>, step)
  BY <1>1, <1>2, Recursion
<1>4. /\ g \in [Nat -> S] /\ g[0] = <<>>
      /\ \A i \in Nat : g[i + 1] = step[<<i, g[i]>>]
  BY <1>3 DEF Recursive
<1>5. ASSUME NEW i \in Nat PROVE g[i] = IF i = 0 THEN <<>> ELSE Extended(g[i - 1], start)
  <2>1. CASE i # 0
    <3> DEFINE k == i - 1
    <3>1. k \in Nat /\ k + 1 = i
      BY <2>1
    <3> HIDE DEF k
    <3>2. g[k + 1] = step[<<k, g[k]>>] /\ g[k] \in S
      BY <1>4, <3>1
    <3>3. g[k + 1] = Extended(g[k], start)
      BY <1>1, <3>1, <3>2
    <3> QED
      BY <2>1, <3>1, <3>3 DEF k
  <2> QED
    BY <1>4, <2>1
<1>6. IsChain(g, start)
  <2>1. g = [i \in Nat |-> g[i]]
    BY <1>4
  <2> QED
    BY <1>5, <2>1 DEF IsChain
<1>7. IsChain(chain, start)
  BY <1>6
<1>8. AutoChain(start) = chain[Cardinality(Ids)]
  BY DEF AutoChain, IsChain
<1>9. Cardinality(Ids) \in Nat
  BY TimelineAssumption, FS_CardinalityType DEF TimelineAssumption, Ids
<1> HIDE DEF chain
<1> DEFINE T == {n \in Nat : IsRun(chain[n], start)}
<1>10. chain[0] = <<>> /\ \A n \in Nat : chain[n + 1] = Extended(chain[n], start)
  <2>1. \A n \in Nat : chain[n] = IF n = 0 THEN <<>> ELSE Extended(chain[n - 1], start)
    BY <1>7 DEF IsChain
  <2>2. \A n \in Nat : n + 1 \in Nat /\ n + 1 # 0 /\ (n + 1) - 1 = n
    OBVIOUS
  <2> QED
    BY <2>1, <2>2
<1>11. 0 \in T
  <2> DEFINE r == chain[0]
  <2>1. r = <<>>
    BY <1>10
  <2>2. r \in Seq(Ids) /\ Len(r) = 0
    BY <2>1, EmptySeq
  <2> HIDE DEF r
  <2>3. IsRun(r, start)
    BY <2>1, <2>2 DEF IsRun
  <2> QED
    BY <2>3 DEF r
<1>12. ASSUME NEW n \in Nat, n \in T PROVE n + 1 \in T
  <2>1. IsRun(chain[n], start) /\ chain[n] \in Seq(Ids)
    BY <1>12 DEF IsRun
  <2> DEFINE r == chain[n]
  <2>2. IsRun(r, start) /\ r \in Seq(Ids) /\ chain[n + 1] = Extended(r, start)
    BY <1>10, <2>1
  <2> HIDE DEF r
  <2>3. IsRun(Extended(r, start), start)
    BY <2>2, RunExtended
  <2> QED
    BY <2>2, <2>3
<1>13. \A n \in Nat : n \in T
  <2> HIDE DEF T
  <2> QED
    BY <1>11, <1>12, Induction
<1> QED
  BY <1>8, <1>9, <1>13

-----------------------------------------------------------------------------
(* A step prints a line.                                                   *)

(* What a prefix and a connector can be, and the records made of them.     *)
Columns == Seq({"gap", "bar"})
Connectors == {"", "tee", "corner"}
CallsOf(I) == [id : I, prefix : Columns, connector : Connectors, last : BOOLEAN]
LinesOf(I) == [ids : Seq(I), prefix : Columns, connector : Connectors]

(* Every variable keeps its type.                                          *)
DrawingType ==
    /\ graph \in Graphs
    /\ calls \in Seq(CallsOf(Ids))
    /\ lines \in Seq(LinesOf(Ids))

(* A step prints a line, for a run or for one snapshot, and goes on with   *)
(* the children of its last.                                               *)
Prints(r) ==
    /\ calls # <<>>
    /\ r \in Seq(Ids) /\ Len(r) \in Nat \ {0} /\ r[1] = Head(calls).id
    /\ \A k \in 1..(Len(r) - 1) : ChildrenOf(r[k]) = {r[k + 1]}
    /\ lines' = Append(lines, Line(Head(calls), r))
    /\ calls' = ChildCalls(Head(calls), Children(r[Len(r)])) \o Tail(calls)
    /\ graph' = graph

(* The call that is taken and those that are left.                         *)
LEMMA HeadCall ==
    ASSUME DrawingType, calls # <<>>
    PROVE  /\ Len(calls) \in Nat \ {0}
           /\ Head(calls) = calls[1] /\ Head(calls) \in CallsOf(Ids)
           /\ Tail(calls) \in Seq(CallsOf(Ids)) /\ Len(Tail(calls)) = Len(calls) - 1
           /\ \A k \in 1..(Len(calls) - 1) : Tail(calls)[k] = calls[k + 1]
<1> DEFINE S == CallsOf(Ids)
<1>1. calls \in Seq(S)
  BY DEF DrawingType
<1> HIDE DEF S
<1>2. /\ Len(calls) \in Nat \ {0}
      /\ Head(calls) = calls[1] /\ Head(calls) \in S
      /\ Tail(calls) \in Seq(S) /\ Len(Tail(calls)) = Len(calls) - 1
      /\ \A k \in 1..(Len(calls) - 1) : Tail(calls)[k] = calls[k + 1]
  BY <1>1, HeadTailProperties, EmptySeq, LenProperties, ElementOfSeq
<1> QED
  BY <1>2 DEF S

(* Both branches of print_node_or_auto_chain take such a step: the last    *)
(* of a run has one child at most, so the only child is all of its         *)
(* children.                                                               *)
LEMMA StepPrints ==
    ASSUME DrawingType, TimelineNext
    PROVE  \E r : Prints(r)
<1> DEFINE call == Head(calls)
<1>0. graph \in Graphs /\ MinCollapsed \in Nat \ {0}
  BY TimelineAssumption DEF DrawingType, TimelineAssumption
<1>1. CASE PrintRun
  <2> DEFINE r == AutoChain(call.id)
             n == Len(r)
  <2>1. /\ calls # <<>> /\ n >= MinCollapsed
        /\ lines' = Append(lines, Line(call, r))
        /\ calls' = ChildCalls(call, OnlyChild(Last(r))) \o Tail(calls)
        /\ graph' = graph
    BY <1>1 DEF PrintRun, CallsAfterRun
  <2>2. call.id \in Ids
    BY <2>1, HeadCall DEF CallsOf
  <2>3. IsRun(r, call.id)
    BY <1>0, <2>2, ChainIsRun
  <2> HIDE DEF r, call
  <2>4. r \in Seq(Ids) /\ n \in Nat \ {0} /\ r[1] = call.id /\ Last(r) = r[n] /\ Collapsible(r[n])
    <3>1. r \in Seq(Ids) /\ n \in Nat
      BY <2>3, LenProperties DEF IsRun
    <3>2. n \in Nat \ {0}
      BY <1>0, <2>1, <3>1
    <3>3. r # <<>>
      BY <3>2, EmptySeq
    <3> QED
      BY <2>3, <3>1, <3>2, <3>3 DEF IsRun, Last
  <2>5. OnlyChild(r[n]) = Children(r[n])
    <3> DEFINE s == Children(r[n])
    <3>1. Lists(s, ChildrenOf(r[n]))
      BY <1>0, ChildrenListed
    <3>2. Len(s) <= 1
      BY <2>4 DEF Collapsible
    <3>3. /\ Len(s) = 1 => OnlyChild(r[n]) = s
          /\ Len(s) # 1 => OnlyChild(r[n]) = <<>>
      BY DEF OnlyChild
    <3> HIDE DEF s
    <3>4. Len(s) = 0 => s = <<>>
      BY <3>1, EmptySeq DEF Lists
    <3>5. Len(s) \in Nat
      BY <3>1 DEF Lists
    <3>6. Len(s) = 0 \/ Len(s) = 1
      <4>1. \A x \in Nat : x <= 1 => x = 0 \/ x = 1
        OBVIOUS
      <4> QED
        BY <3>2, <3>5, <4>1
    <3>7. OnlyChild(r[n]) = s
      BY <3>3, <3>4, <3>6
    <3> QED
      BY <3>7 DEF s
  <2>6. Prints(r)
    BY <2>1, <2>3, <2>4, <2>5 DEF Prints, IsRun, call
  <2> QED
    BY <2>6
<1>2. CASE PrintNode
  <2> DEFINE r == <<call.id>>
  <2>1. /\ calls # <<>>
        /\ lines' = Append(lines, Line(call, r))
        /\ calls' = ChildCalls(call, Children(call.id)) \o Tail(calls)
        /\ graph' = graph
    BY <1>2 DEF PrintNode
  <2>2. call.id \in Ids
    BY <2>1, HeadCall DEF CallsOf
  <2>3. r \in Seq(Ids) /\ Len(r) = 1 /\ r[1] = call.id
    BY <2>2
  <2> HIDE DEF r
  <2>4. Prints(r)
    BY <2>1, <2>3 DEF Prints
  <2> QED
    BY <2>4
<1> QED
  BY <1>1, <1>2 DEF TimelineNext

(* The call for a child.                                                   *)
ChildCall(call, kids, k) ==
    Call(kids[k], ChildPrefix(call), IF k = Len(kids) THEN "corner" ELSE "tee", k = Len(kids))

(* A child's prefix is one.                                                *)
LEMMA PrefixTyped ==
    ASSUME NEW I, NEW call \in CallsOf(I)
    PROVE  ChildPrefix(call) \in Columns
<1>1. call.prefix \in Seq({"gap", "bar"})
  BY DEF CallsOf, Columns
<1>2. <<>> \in Columns
  BY EmptySeq DEF Columns
<1>3. \A c \in {"gap", "bar"} : Append(call.prefix, c) \in Columns
  BY <1>1, AppendProperties DEF Columns
<1> QED
  BY <1>2, <1>3 DEF ChildPrefix

(* The calls after a step.                                                 *)
LEMMA CallsAfter ==
    ASSUME DrawingType, NEW r, Prints(r)
    PROVE  LET h == calls[1]
               kids == Children(r[Len(r)])
               m == Len(kids)
               n == Len(calls)
           IN /\ Lists(kids, ChildrenOf(r[Len(r)])) /\ m \in Nat /\ n \in Nat \ {0}
              /\ h \in CallsOf(Ids)
              /\ calls' \in Seq(CallsOf(Ids)) /\ Len(calls') = m + (n - 1)
              /\ \A k \in 1..m : calls'[k] = ChildCall(h, kids, k)
              /\ \A k \in 1..(n - 1) : calls'[m + k] = calls[k + 1]
<1> DEFINE h == calls[1]
           id == r[Len(r)]
           kids == Children(id)
           m == Len(kids)
           n == Len(calls)
           new == ChildCalls(h, kids)
           S == CallsOf(Ids)
<1>1. /\ n \in Nat \ {0} /\ Head(calls) = h /\ h \in S
      /\ Tail(calls) \in Seq(S) /\ Len(Tail(calls)) = n - 1
      /\ \A k \in 1..(n - 1) : Tail(calls)[k] = calls[k + 1]
  BY HeadCall DEF Prints
<1>2. Lists(kids, ChildrenOf(id)) /\ m \in Nat
  <2>1. Lists(Children(id), ChildrenOf(id))
    BY ChildrenListed DEF DrawingType
  <2> QED
    BY <2>1 DEF Lists
<1>3. new = [k \in 1..m |-> ChildCall(h, kids, k)]
  <2>1. DOMAIN kids = 1..m
    BY <1>2 DEF Lists
  <2> HIDE DEF kids, h
  <2> QED
    BY <2>1 DEF ChildCalls, ChildCall, m
<1>4. \A k \in 1..m : ChildCall(h, kids, k) \in S
  <2> TAKE k \in 1..m
  <2>1. kids[k] \in Ids
    <3>1. kids[k] \in ChildrenOf(id)
      BY <1>2 DEF Lists
    <3> QED
      BY <3>1 DEF ChildrenOf
  <2>2. ChildPrefix(h) \in Columns
    BY <1>1, PrefixTyped
  <2> HIDE DEF kids, h
  <2> QED
    BY <2>1, <2>2 DEF ChildCall, Call, CallsOf, Connectors
<1>5. calls' = new \o Tail(calls)
  BY <1>1 DEF Prints
<1> HIDE DEF h, id, kids, m, n, S, new
<1>6. new \in Seq(S) /\ Len(new) = m /\ \A k \in 1..m : new[k] = ChildCall(h, kids, k)
  BY <1>2, <1>3, <1>4
<1>7. /\ calls' \in Seq(S) /\ Len(calls') = m + (n - 1)
      /\ \A k \in 1..m : calls'[k] = new[k]
      /\ \A k \in 1..(n - 1) : calls'[m + k] = Tail(calls)[k]
  <2> DEFINE t == Tail(calls)
             all == new \o t
  <2>0. t \in Seq(S) /\ Len(t) = n - 1 /\ calls' = all
    BY <1>1, <1>5
  <2> HIDE DEF t
  <2>1. /\ all \in Seq(S) /\ Len(all) = Len(new) + Len(t)
        /\ \A i \in 1..(Len(new) + Len(t)) :
              all[i] = IF i <= Len(new) THEN new[i] ELSE t[i - Len(new)]
    BY <2>0, <1>6, ConcatProperties
  <2> HIDE DEF all
  <2>2. ASSUME NEW k \in 1..m PROVE all[k] = new[k]
    <3>1. k \in 1..(Len(new) + Len(t)) /\ k <= Len(new)
      BY <1>1, <1>2, <1>6, <2>0
    <3> QED
      BY <2>1, <3>1
  <2>3. ASSUME NEW k \in 1..(n - 1) PROVE all[m + k] = t[k]
    <3>1. /\ m + k \in 1..(Len(new) + Len(t)) /\ ~(m + k <= Len(new))
          /\ (m + k) - Len(new) = k
      BY <1>1, <1>2, <1>6, <2>0
    <3> QED
      BY <2>1, <3>1
  <2>4. Len(all) = m + (n - 1)
    BY <1>6, <2>0, <2>1
  <2> QED
    BY <2>0, <2>1, <2>2, <2>3, <2>4 DEF t
<1>8. \A k \in 1..(n - 1) : calls'[m + k] = calls[k + 1]
  BY <1>1, <1>7
<1> QED
  BY <1>1, <1>2, <1>6, <1>7, <1>8 DEF h, id, kids, m, n, S

(* The line of a step.                                                     *)
LEMMA LineAfter ==
    ASSUME DrawingType, NEW r, Prints(r)
    PROVE  /\ Len(lines) \in Nat
           /\ lines' \in Seq(LinesOf(Ids)) /\ Len(lines') = Len(lines) + 1
           /\ lines'[Len(lines) + 1] = Line(calls[1], r) /\ Line(calls[1], r) \in LinesOf(Ids)
           /\ \A j \in 1..Len(lines) : lines'[j] = lines[j]
<1>1. calls[1] \in CallsOf(Ids) /\ Head(calls) = calls[1]
  BY HeadCall DEF Prints
<1>2. Line(calls[1], r) \in LinesOf(Ids)
  BY <1>1 DEF Prints, Line, CallsOf, LinesOf
<1>3. lines' = Append(lines, Line(calls[1], r))
  BY <1>1 DEF Prints
<1> DEFINE S == LinesOf(Ids)
           line == Line(calls[1], r)
<1>4. lines \in Seq(S) /\ line \in S
  BY <1>2 DEF DrawingType
<1> HIDE DEF S, line
<1>5. /\ Len(lines) \in Nat
      /\ Append(lines, line) \in Seq(S) /\ Len(Append(lines, line)) = Len(lines) + 1
      /\ Append(lines, line)[Len(lines) + 1] = line
      /\ \A j \in 1..Len(lines) : Append(lines, line)[j] = lines[j]
  BY <1>4, AppendProperties, LenProperties
<1> QED
  BY <1>3, <1>4, <1>5 DEF S, line

-----------------------------------------------------------------------------
(* Each snapshot is shown once.                                            *)

(* The snapshots on the lines, as a list and as a set, and those that      *)
(* calls are pending for.                                                  *)
ShownIds == FlattenSeq([k \in DOMAIN lines |-> lines[k].ids])
Shown == {ShownIds[i] : i \in 1..Len(ShownIds)}
Pending == {calls[k].id : k \in 1..Len(calls)}

(* A snapshot that is drawn, or is about to be, has its place.             *)
Hung(id) == ~HasParent(id) \/ \E p \in Shown : IsChild(id, p)

(* Every snapshot that is shown has its children shown or pending, and     *)
(* none is both.                                                           *)
WalkInv ==
    /\ DrawingType
    /\ ShownIds \in Seq(Ids)
    /\ \A i, j \in 1..Len(ShownIds) : ShownIds[i] = ShownIds[j] => i = j
    /\ \A i, j \in 1..Len(calls) : calls[i].id = calls[j].id => i = j
    /\ Shown \cap Pending = {}
    /\ \A id \in Ids : ~HasParent(id) => id \in Shown \cup Pending
    /\ \A s \in Shown, c \in Ids : IsChild(c, s) => c \in Shown \cup Pending
    /\ \A id \in Shown \cup Pending : Hung(id)

(* A step shows the snapshots of its run.                                  *)
LEMMA ShownAfter ==
    ASSUME DrawingType, NEW r, Prints(r)
    PROVE  /\ ShownIds \in Seq(Ids) /\ ShownIds' = ShownIds \o r
           /\ Shown' = Shown \cup {r[k] : k \in 1..Len(r)}
<1> DEFINE seqs == [k \in DOMAIN lines |-> lines[k].ids]
           n == Len(lines)
           line == Line(calls[1], r)
<1>1. /\ n \in Nat /\ DOMAIN lines = 1..n /\ \A k \in 1..n : lines[k].ids \in Seq(Ids)
  <2>1. lines \in Seq(LinesOf(Ids))
    BY DEF DrawingType
  <2>2. n \in Nat /\ DOMAIN lines = 1..n /\ \A k \in 1..n : lines[k] \in LinesOf(Ids)
    BY <2>1, LenProperties, ElementOfSeq
  <2> QED
    BY <2>2 DEF LinesOf
<1>2. seqs \in Seq(Seq(Ids)) /\ Len(seqs) = n /\ \A k \in 1..n : seqs[k] = lines[k].ids
  <2> HIDE DEF n
  <2> QED
    BY <1>1
<1>3. /\ lines' \in Seq(LinesOf(Ids)) /\ Len(lines') = n + 1
      /\ lines'[n + 1].ids = r /\ \A k \in 1..n : lines'[k] = lines[k]
      /\ DOMAIN lines' = 1..(n + 1)
  <2>1. /\ lines' \in Seq(LinesOf(Ids)) /\ Len(lines') = n + 1
        /\ lines'[n + 1] = line /\ \A k \in 1..n : lines'[k] = lines[k]
    BY LineAfter
  <2>2. line.ids = r
    BY DEF Line
  <2>3. DOMAIN lines' = 1..(n + 1)
    BY <2>1, LenProperties
  <2> QED
    BY <2>1, <2>2, <2>3
<1>4. r \in Seq(Ids)
  BY DEF Prints
<1> DEFINE more == [k \in DOMAIN lines' |-> lines'[k].ids]
<1>5. ShownIds = FlattenSeq(seqs) /\ ShownIds' = FlattenSeq(more)
  BY DEF ShownIds
<1>6. /\ Append(seqs, r) \in Seq(Seq(Ids)) /\ Len(Append(seqs, r)) = n + 1
      /\ \A k \in 1..n : Append(seqs, r)[k] = seqs[k]
      /\ Append(seqs, r)[n + 1] = r
  <2> HIDE DEF seqs, n
  <2> QED
    BY <1>2, <1>4, AppendProperties
<1>7. more = Append(seqs, r)
  <2> DEFINE app == Append(seqs, r)
  <2>1. n + 1 \in Nat /\ Len(app) = n + 1
    BY <1>1, <1>6
  <2>2. more = [k \in 1..(n + 1) |-> more[k]] /\ \A k \in 1..(n + 1) : more[k] = lines'[k].ids
    BY <1>3
  <2>3. app \in Seq(Seq(Ids)) /\ \A k \in 1..n : app[k] = seqs[k]
    BY <1>6
  <2>4. app[n + 1] = r
    BY <1>6
  <2> HIDE DEF n, seqs, more, app
  <2>5. ASSUME NEW k \in 1..(n + 1) PROVE more[k] = app[k]
    <3>1. CASE k = n + 1
      BY <1>3, <2>2, <2>4, <3>1
    <3>2. CASE k # n + 1
      <4>1. k \in 1..n
        BY <1>1, <3>2
      <4>2. more[k] = lines[k].ids /\ app[k] = lines[k].ids
        BY <1>2, <1>3, <2>2, <2>3, <4>1
      <4> QED
        BY <4>2
    <3> QED
      BY <3>1, <3>2
  <2>6. app = [k \in 1..(n + 1) |-> app[k]]
    BY <2>1, <2>3
  <2>7. more = app
    <3> DEFINE D == 1..(n + 1)
    <3>1. more = [k \in D |-> more[k]] /\ app = [k \in D |-> app[k]] /\ \A k \in D : more[k] = app[k]
      BY <2>2, <2>5, <2>6
    <3> HIDE DEF D
    <3>2. [k \in D |-> more[k]] = [k \in D |-> app[k]]
      BY <3>1
    <3> QED
      BY <3>1, <3>2
  <2> QED
    BY <2>7 DEF app
<1> HIDE DEF seqs, more, n
<1>8. ShownIds \in Seq(Ids) /\ ShownIds' = ShownIds \o r
  BY <1>2, <1>4, <1>5, <1>7, FlattenAppend
<1>9. Shown' = Shown \cup {r[k] : k \in 1..Len(r)}
  <2> DEFINE s == ShownIds
             all == s \o r
  <2>1. /\ Len(s) \in Nat /\ Len(r) \in Nat /\ Len(all) = Len(s) + Len(r)
        /\ \A i \in 1..(Len(s) + Len(r)) : all[i] = IF i <= Len(s) THEN s[i] ELSE r[i - Len(s)]
    BY <1>4, <1>8, ConcatProperties, LenProperties
  <2>2. Shown' = {all[i] : i \in 1..Len(all)} /\ Shown = {s[i] : i \in 1..Len(s)}
    BY <1>8 DEF Shown
  <2> HIDE DEF s, all
  <2>3. ASSUME NEW i \in 1..Len(all) PROVE all[i] \in {s[k] : k \in 1..Len(s)} \cup {r[k] : k \in 1..Len(r)}
    <3>1. CASE i <= Len(s)
      BY <2>1, <3>1
    <3>2. CASE ~(i <= Len(s))
      <4>1. i - Len(s) \in 1..Len(r)
        BY <2>1, <3>2
      <4> QED
        BY <2>1, <3>2, <4>1
    <3> QED
      BY <3>1, <3>2
  <2>4. ASSUME NEW k \in 1..Len(s) PROVE s[k] \in {all[i] : i \in 1..Len(all)}
    <3>1. k \in 1..Len(all) /\ k \in 1..(Len(s) + Len(r)) /\ k <= Len(s)
      BY <2>1
    <3> QED
      BY <2>1, <3>1
  <2>5. ASSUME NEW k \in 1..Len(r) PROVE r[k] \in {all[i] : i \in 1..Len(all)}
    <3> DEFINE i == Len(s) + k
    <3>1. i \in 1..Len(all) /\ i \in 1..(Len(s) + Len(r)) /\ ~(i <= Len(s)) /\ i - Len(s) = k
      BY <2>1
    <3> HIDE DEF i
    <3> QED
      BY <2>1, <3>1
  <2> QED
    BY <2>2, <2>3, <2>4, <2>5
<1> QED
  BY <1>8, <1>9

(* What a step shows was not shown, and what it calls for neither shown    *)
(* nor called for.                                                         *)
LEMMA StepIsNew ==
    ASSUME WalkInv, NEW r, Prints(r)
    PROVE  /\ \A k \in 1..Len(r) : r[k] \notin Shown
           /\ \A k \in 1..(Len(r) - 1) : r[k + 1] \notin Pending
           /\ \A i, j \in 1..Len(r) : r[i] = r[j] => i = j
           /\ \A c \in ChildrenOf(r[Len(r)]) :
                 c \notin Shown \cup Pending \cup {r[k] : k \in 1..Len(r)}
<1> DEFINE n == Len(r)
<1>1. /\ n \in Nat \ {0} /\ \A k \in 1..n : r[k] \in Ids
      /\ \A k \in 1..(n - 1) : ChildrenOf(r[k]) = {r[k + 1]}
  BY ElementOfSeq DEF Prints
<1>2. r[1] \in Pending /\ r[1] \notin Shown
  <2>1. Head(calls) = calls[1] /\ Len(calls) \in Nat \ {0}
    BY HeadCall DEF Prints, WalkInv
  <2>2. r[1] = calls[1].id
    BY <2>1 DEF Prints
  <2>3. r[1] \in Pending
    BY <2>1, <2>2 DEF Pending
  <2> QED
    BY <2>3 DEF WalkInv
<1>3. ASSUME NEW p \in Ids, p \notin Shown, NEW c, c \in ChildrenOf(p)
      PROVE  c \notin Shown \cup Pending
  <2>1. c \in Ids /\ IsChild(c, p)
    BY <1>3 DEF ChildrenOf
  <2>2. HasParent(c)
    BY <2>1 DEF HasParent
  <2>3. \A q : IsChild(c, q) => q = p
    BY <2>1 DEF IsChild
  <2>4. ~Hung(c)
    BY <1>3, <2>2, <2>3 DEF Hung
  <2> QED
    BY <2>4 DEF WalkInv
<1>4. \A k \in 1..(n - 1) : k \in 1..n /\ k + 1 \in 1..n /\ r[k + 1] \in ChildrenOf(r[k])
  BY <1>1
<1>5. ASSUME NEW a, NEW b, NEW c, c \in ChildrenOf(a), c \in ChildrenOf(b) PROVE a = b
  BY <1>5 DEF ChildrenOf, IsChild
<1> HIDE DEF n
<1>6. \A k \in 1..n : r[k] \notin Shown
  <2> DEFINE T == {k \in Nat : k + 1 \in 1..n => r[k + 1] \notin Shown}
  <2>1. 0 \in T
    BY <1>2
  <2>2. ASSUME NEW k \in Nat, k \in T PROVE k + 1 \in T
    <3> DEFINE i == k + 1
    <3> SUFFICES ASSUME i + 1 \in 1..n PROVE r[i + 1] \notin Shown
      OBVIOUS
    <3>1. i \in 1..n /\ i \in 1..(n - 1)
      BY <1>1
    <3>2. r[i] \notin Shown
      BY <2>2, <3>1
    <3> HIDE DEF i
    <3> QED
      BY <1>1, <1>3, <1>4, <3>1, <3>2
  <2>3. \A k \in Nat : k \in T
    <3> HIDE DEF T
    <3> QED
      BY <2>1, <2>2, Induction
  <2>4. ASSUME NEW k \in 1..n PROVE r[k] \notin Shown
    <3>1. k - 1 \in Nat /\ (k - 1) + 1 = k
      BY <1>1
    <3>2. k - 1 \in T
      BY <2>3, <3>1
    <3> QED
      BY <3>1, <3>2
  <2> QED
    BY <2>4
<1>7. \A k \in 1..(n - 1) : r[k + 1] \notin Pending
  BY <1>1, <1>3, <1>4, <1>6
<1>8. ASSUME NEW i \in 1..n, NEW j \in 1..n, i < j PROVE r[i] # r[j]
  <2> DEFINE T == {k \in Nat : \A l \in 1..n : k + 1 < l => r[k + 1] # r[l]}
  <2>0. ASSUME NEW l \in 1..n, 1 < l PROVE l - 1 \in 1..(n - 1) /\ (l - 1) + 1 = l
    BY <1>1, <2>0
  <2>1. 0 \in T
    <3>1. ASSUME NEW l \in 1..n, 1 < l PROVE r[1] # r[l]
      <4> DEFINE q == l - 1
      <4>1. q \in 1..(n - 1) /\ q + 1 = l
        BY <2>0, <3>1
      <4> HIDE DEF q
      <4>2. r[q + 1] \notin Pending
        BY <1>7, <4>1
      <4> QED
        BY <1>2, <4>1, <4>2
    <3>2. 0 + 1 = 1
      OBVIOUS
    <3> QED
      BY <3>1, <3>2
  <2>2. ASSUME NEW k \in Nat, k \in T PROVE k + 1 \in T
    <3> DEFINE p == k + 1
    <3>1. ASSUME NEW l \in 1..n, p + 1 < l, r[p + 1] = r[l] PROVE FALSE
      <4> DEFINE q == l - 1
      <4>1. q \in 1..(n - 1) /\ q + 1 = l /\ p \in 1..(n - 1) /\ p < q /\ q \in 1..n
        BY <1>1, <3>1
      <4>2. r[p] # r[q]
        BY <2>2, <4>1
      <4> HIDE DEF p, q
      <4>3. r[p + 1] \in ChildrenOf(r[p]) /\ r[q + 1] \in ChildrenOf(r[q])
        BY <1>4, <4>1
      <4> QED
        BY <1>5, <3>1, <4>1, <4>2, <4>3
    <3> QED
      BY <3>1
  <2>3. \A k \in Nat : k \in T
    <3> HIDE DEF T
    <3> QED
      BY <2>1, <2>2, Induction
  <2>4. i - 1 \in Nat /\ (i - 1) + 1 = i
    BY <1>1
  <2>5. i - 1 \in T
    BY <2>3, <2>4
  <2> QED
    BY <1>8, <2>4, <2>5
<1>9. \A i, j \in 1..n : r[i] = r[j] => i = j
  <2> SUFFICES ASSUME NEW i \in 1..n, NEW j \in 1..n, r[i] = r[j], i # j PROVE FALSE
    OBVIOUS
  <2>1. i < j \/ j < i
    BY <1>1
  <2> QED
    BY <1>8, <2>1
<1>10. ASSUME NEW c \in ChildrenOf(r[n])
       PROVE  c \notin Shown \cup Pending \cup {r[k] : k \in 1..n}
  <2>1. n \in 1..n
    BY <1>1
  <2>2. c \notin Shown \cup Pending
    BY <1>1, <1>3, <1>6, <2>1
  <2>3. ASSUME NEW k \in 1..n, c = r[k] PROVE FALSE
    <3>1. k # 1
      BY <1>2, <2>2, <2>3
    <3> DEFINE q == k - 1
    <3>2. q \in 1..(n - 1) /\ q \in 1..n /\ q + 1 = k /\ q # n
      BY <1>1, <3>1
    <3> HIDE DEF q
    <3>3. r[q] = r[n]
      BY <1>4, <1>5, <2>3, <3>2
    <3> QED
      BY <1>9, <2>1, <3>2, <3>3
  <2> QED
    BY <2>2, <2>3
<1> QED
  BY <1>6, <1>7, <1>9, <1>10 DEF n

(* The snapshots that are called for after a step.                         *)
LEMMA PendingAfter ==
    ASSUME WalkInv, NEW r, Prints(r)
    PROVE  /\ Pending' = ChildrenOf(r[Len(r)]) \cup (Pending \ {r[1]})
           /\ r[1] \in Pending
           /\ \A i, j \in 1..Len(calls') : calls'[i].id = calls'[j].id => i = j
<1> DEFINE h == calls[1]
           id == r[Len(r)]
           kids == Children(id)
           m == Len(kids)
           n == Len(calls)
<1>1. /\ Lists(kids, ChildrenOf(id)) /\ m \in Nat /\ n \in Nat \ {0}
      /\ Len(calls') = m + (n - 1)
      /\ \A k \in 1..m : calls'[k] = ChildCall(h, kids, k)
      /\ \A k \in 1..(n - 1) : calls'[m + k] = calls[k + 1]
  BY CallsAfter DEF WalkInv
<1>3. r[1] = h.id
  BY HeadCall DEF Prints, WalkInv
<1>4. /\ Pending = {calls[k].id : k \in 1..n} /\ Pending' = {calls'[k].id : k \in 1..(m + (n - 1))}
      /\ \A i, j \in 1..n : calls[i].id = calls[j].id => i = j
  BY <1>1 DEF Pending, WalkInv
<1>5. \A c \in ChildrenOf(id) : c \notin Pending
  BY StepIsNew
<1> HIDE DEF h, id, kids, m, n
<1>2. \A k \in 1..m : calls'[k].id = kids[k]
  <2>1. \A k : ChildCall(h, kids, k).id = kids[k]
    BY DEF ChildCall, Call
  <2> QED
    BY <1>1, <2>1
<1>6. \A k \in 1..(m + (n - 1)) : k \in 1..m \/ \E l \in 1..(n - 1) : k = m + l
  <2> TAKE k \in 1..(m + (n - 1))
  <2>1. k <= m => k \in 1..m
    BY <1>1
  <2>2. ~(k <= m) => k - m \in 1..(n - 1) /\ k = m + (k - m)
    BY <1>1
  <2> QED
    BY <2>1, <2>2
<1>7. \A l \in 1..(n - 1) : l + 1 \in 1..n /\ l + 1 # 1 /\ m + l \in 1..(m + (n - 1))
  BY <1>1
<1>8. \A k \in 1..m : k \in 1..(m + (n - 1)) /\ kids[k] \in ChildrenOf(id)
  BY <1>1 DEF Lists, m
<1>9. 1 \in 1..n /\ \A k \in 1..n : k # 1 => \E l \in 1..(n - 1) : l + 1 = k
  <2>1. \A k \in 1..n : k # 1 => k - 1 \in 1..(n - 1) /\ (k - 1) + 1 = k
    BY <1>1
  <2> QED
    BY <1>1, <2>1
<1>10. \A l \in 1..(n - 1) : calls'[m + l].id = calls[l + 1].id /\ calls[l + 1].id \in Pending \ {h.id}
  BY <1>1, <1>4, <1>7, <1>9 DEF h
<1>11. Pending' = ChildrenOf(id) \cup (Pending \ {h.id})
  <2>1. ASSUME NEW k \in 1..(m + (n - 1)) PROVE calls'[k].id \in ChildrenOf(id) \cup (Pending \ {h.id})
    <3>1. CASE k \in 1..m
      BY <1>2, <1>8, <3>1
    <3>2. CASE \E l \in 1..(n - 1) : k = m + l
      BY <1>10, <3>2
    <3> QED
      BY <1>6, <3>1, <3>2
  <2>2. ASSUME NEW c \in ChildrenOf(id) PROVE c \in Pending'
    <3>1. PICK k \in 1..m : kids[k] = c
      BY <1>1 DEF Lists, m
    <3> QED
      BY <1>2, <1>4, <1>8, <3>1
  <2>3. ASSUME NEW c \in Pending, c # h.id PROVE c \in Pending'
    <3>1. PICK k \in 1..n : calls[k].id = c
      BY <1>4
    <3>2. k # 1
      BY <2>3, <3>1 DEF h
    <3>3. PICK l \in 1..(n - 1) : l + 1 = k
      BY <1>9, <3>2
    <3>4. calls'[m + l].id = c /\ m + l \in 1..(m + (n - 1))
      BY <1>7, <1>10, <3>1, <3>3
    <3> QED
      BY <1>4, <3>4
  <2> QED
    BY <1>4, <2>1, <2>2, <2>3
<1>12. ASSUME NEW i \in 1..(m + (n - 1)), NEW j \in 1..(m + (n - 1)), calls'[i].id = calls'[j].id
       PROVE  i = j
  <2>1. CASE i \in 1..m /\ j \in 1..m
    <3>1. kids[i] = kids[j]
      BY <1>2, <1>12, <2>1
    <3> QED
      BY <1>1, <2>1, <3>1 DEF Lists, m
  <2>2. ASSUME NEW a \in 1..(m + (n - 1)), NEW b \in 1..m, NEW l \in 1..(n - 1), a = m + l,
               calls'[a].id = calls'[b].id
        PROVE  FALSE
    BY <1>2, <1>5, <1>8, <1>10, <2>2
  <2>3. CASE \E k \in 1..(n - 1), l \in 1..(n - 1) : i = m + k /\ j = m + l
    <3>1. PICK k \in 1..(n - 1), l \in 1..(n - 1) : i = m + k /\ j = m + l
      BY <2>3
    <3>2. calls[k + 1].id = calls[l + 1].id
      BY <1>10, <1>12, <3>1
    <3>3. k + 1 = l + 1
      BY <1>4, <1>7, <3>2
    <3>4. k = l
      BY <3>3
    <3> QED
      BY <3>1, <3>4
  <2> QED
    BY <1>6, <1>12, <2>1, <2>2, <2>3
<1> QED
  BY <1>1, <1>3, <1>4, <1>9, <1>11, <1>12 DEF id, h, n

(* A step keeps the types ...                                              *)
LEMMA TypeStep ==
    ASSUME DrawingType, NEW r, Prints(r)
    PROVE  DrawingType'
<1>1. graph' = graph /\ Ids' = Ids
  BY DEF Prints, Ids
<1>2. calls' \in Seq(CallsOf(Ids))
  BY CallsAfter
<1>3. lines' \in Seq(LinesOf(Ids))
  BY LineAfter
<1>4. CallsOf(Ids)' = CallsOf(Ids) /\ LinesOf(Ids)' = LinesOf(Ids)
  BY <1>1 DEF CallsOf, LinesOf
<1> QED
  BY <1>1, <1>2, <1>3, <1>4 DEF DrawingType

(* ... and every snapshot in one place.                                    *)
LEMMA WalkStep ==
    ASSUME WalkInv, NEW r, Prints(r)
    PROVE  WalkInv'
<1> DEFINE n == Len(r)
           R == {r[k] : k \in 1..n}
           K == ChildrenOf(r[n])
<1>0. /\ graph' = graph /\ Ids' = Ids
      /\ \A id : HasParent(id)' <=> HasParent(id)
      /\ \A c, p : IsChild(c, p)' <=> IsChild(c, p)
  BY DEF Prints, Ids, HasParent, IsChild
<1>1. /\ n \in Nat \ {0} /\ r \in Seq(Ids)
      /\ \A k \in 1..(n - 1) : ChildrenOf(r[k]) = {r[k + 1]}
      /\ 1 \in 1..n /\ n \in 1..n /\ \A k \in 1..(n - 1) : k \in 1..n /\ k + 1 \in 1..n
  <2>1. /\ n \in Nat \ {0} /\ r \in Seq(Ids)
        /\ \A k \in 1..(n - 1) : ChildrenOf(r[k]) = {r[k + 1]}
    BY DEF Prints
  <2> HIDE DEF n
  <2>2. 1 \in 1..n /\ n \in 1..n /\ \A k \in 1..(n - 1) : k \in 1..n /\ k + 1 \in 1..n
    BY <2>1
  <2> QED
    BY <2>1, <2>2
<1>2. /\ DrawingType' /\ DrawingType
      /\ ShownIds \in Seq(Ids) /\ ShownIds' = ShownIds \o r
      /\ Shown' = Shown \cup R
  BY TypeStep, ShownAfter DEF WalkInv
<1>3. /\ \A k \in 1..n : r[k] \notin Shown
      /\ \A k \in 1..(n - 1) : r[k + 1] \notin Pending
      /\ \A i, j \in 1..n : r[i] = r[j] => i = j
      /\ \A c \in K : c \notin Shown \cup Pending \cup R
  BY StepIsNew
<1>4. /\ Pending' = K \cup (Pending \ {r[1]}) /\ r[1] \in Pending
      /\ \A i, j \in 1..Len(calls') : calls'[i].id = calls'[j].id => i = j
  BY PendingAfter
<1>5. \A c : c \in K <=> c \in Ids /\ IsChild(c, r[n])
  BY DEF ChildrenOf
<1>6. \A p \in R : p \in Ids
  <2>1. \A k \in 1..n : r[k] \in Ids
    BY <1>1, ElementOfSeq
  <2> QED
    BY <2>1
<1>7. \A p \in R : p = r[1] \/ p \notin Pending
  <2> TAKE p \in R
  <2>1. PICK k \in 1..n : p = r[k]
    OBVIOUS
  <2>2. CASE k = 1
    BY <2>1, <2>2
  <2>3. CASE k # 1
    <3>1. k - 1 \in 1..(n - 1) /\ (k - 1) + 1 = k
      BY <1>1, <2>3
    <3>2. r[(k - 1) + 1] \notin Pending
      BY <1>3, <3>1
    <3> QED
      BY <2>1, <3>1, <3>2
  <2> QED
    BY <2>2, <2>3
<1>8. r[1] \in R /\ r[n] \in R
  BY <1>1
<1> HIDE DEF n, K
<1>11. ShownIds' \in Seq(Ids)
  <2> DEFINE s == ShownIds
  <2> HIDE DEF s
  <2>1. s \o r \in Seq(Ids)
    BY <1>1, <1>2, ConcatProperties DEF s
  <2> QED
    BY <1>2, <2>1 DEF s
<1>12. \A i, j \in 1..Len(ShownIds') : ShownIds'[i] = ShownIds'[j] => i = j
  <2> DEFINE s == ShownIds
             all == s \o r
             l == Len(s)
  <2>1. \A i, j \in 1..l : s[i] = s[j] => i = j
    BY DEF WalkInv
  <2>2. \A i \in 1..l, k \in 1..n : s[i] # r[k]
    BY <1>3 DEF Shown
  <2>3. s \in Seq(Ids) /\ ShownIds' = all
    BY <1>2
  <2> HIDE DEF s
  <2>4. /\ l \in Nat /\ Len(all) = l + n
        /\ \A i \in 1..(l + n) : all[i] = IF i <= l THEN s[i] ELSE r[i - l]
    BY <1>1, <2>3, ConcatProperties, LenProperties DEF n
  <2> HIDE DEF all, l, R
  <2>5. \A i \in 1..(l + n) : /\ i <= l => i \in 1..l /\ all[i] = s[i]
                              /\ ~(i <= l) => i - l \in 1..n /\ all[i] = r[i - l]
    <3> TAKE i \in 1..(l + n)
    <3>1. /\ i <= l => i \in 1..l
          /\ ~(i <= l) => i - l \in 1..n
      BY <1>1, <2>4
    <3> QED
      BY <2>4, <3>1
  <2>6. ASSUME NEW i \in 1..(l + n), NEW j \in 1..(l + n), all[i] = all[j] PROVE i = j
    <3>1. CASE i <= l /\ j <= l
      BY <2>1, <2>5, <2>6, <3>1
    <3>2. CASE i <= l /\ ~(j <= l)
      BY <2>2, <2>5, <2>6, <3>2
    <3>3. CASE ~(i <= l) /\ j <= l
      BY <2>2, <2>5, <2>6, <3>3
    <3>4. CASE ~(i <= l) /\ ~(j <= l)
      <4>1. i - l = j - l
        BY <1>3, <2>5, <2>6, <3>4
      <4> QED
        BY <2>4, <4>1
    <3> QED
      BY <3>1, <3>2, <3>3, <3>4
  <2> QED
    BY <2>3, <2>4, <2>6
<1> HIDE DEF R
<1>13. Shown' \cap Pending' = {}
  <2>1. Shown \cap Pending = {}
    BY DEF WalkInv
  <2> QED
    BY <1>2, <1>3, <1>4, <1>7, <2>1
<1>14. Shown \cup Pending \subseteq Shown' \cup Pending'
  BY <1>2, <1>4, <1>8
<1>15. \A id \in Ids : ~HasParent(id) => id \in Shown' \cup Pending'
  BY <1>14 DEF WalkInv
<1>16. \A s \in Shown', c \in Ids : IsChild(c, s) => c \in Shown' \cup Pending'
  <2> TAKE s \in Shown', c \in Ids
  <2> SUFFICES ASSUME IsChild(c, s) PROVE c \in Shown' \cup Pending'
    OBVIOUS
  <2>1. CASE s \in Shown
    BY <1>14, <2>1 DEF WalkInv
  <2>2. CASE s \in R
    <3>1. PICK k \in 1..n : s = r[k]
      BY <2>2 DEF R
    <3>2. CASE k = n
      BY <1>4, <1>5, <3>1, <3>2
    <3>3. CASE k # n
      <4>1. k \in 1..(n - 1)
        BY <1>1, <3>3
      <4>2. c = r[k + 1] /\ k + 1 \in 1..n
        BY <1>1, <3>1, <4>1 DEF ChildrenOf
      <4>3. c \in R
        BY <4>2 DEF R
      <4> QED
        BY <1>2, <4>3
    <3> QED
      BY <3>2, <3>3
  <2> QED
    BY <1>2, <2>1, <2>2
<1>17. \A id \in Shown' \cup Pending' : ~HasParent(id) \/ \E p \in Shown' : IsChild(id, p)
  <2> TAKE id \in Shown' \cup Pending'
  <2>1. CASE id \in Shown \cup Pending
    <3>1. Hung(id)
      BY <2>1 DEF WalkInv
    <3> QED
      BY <1>2, <3>1 DEF Hung
  <2>2. CASE id \in K
    BY <1>2, <1>5, <1>8, <2>2
  <2>3. CASE id \in R /\ id # r[1]
    <3>1. PICK k \in 1..n : id = r[k]
      BY <2>3 DEF R
    <3>2. k - 1 \in 1..(n - 1) /\ (k - 1) + 1 = k
      BY <1>1, <2>3, <3>1
    <3> DEFINE q == k - 1
    <3>3. q \in 1..(n - 1) /\ q + 1 = k
      BY <3>2
    <3> HIDE DEF q
    <3>4. ChildrenOf(r[q]) = {id} /\ q \in 1..n
      BY <1>1, <3>1, <3>3
    <3>5. IsChild(id, r[q]) /\ r[q] \in R
      BY <3>4 DEF ChildrenOf, R
    <3> QED
      BY <1>2, <3>5
  <2> QED
    BY <1>2, <1>4, <2>1, <2>2, <2>3
<1>18. \A id : Hung(id)' <=> (~HasParent(id) \/ \E p \in Shown' : IsChild(id, p))
  BY <1>0 DEF Hung
<1> QED
  BY <1>0, <1>2, <1>4, <1>11, <1>12, <1>13, <1>15, <1>16, <1>17, <1>18 DEF WalkInv

(* The walk starts at the snapshots without a parent.                      *)
LEMMA WalkInit ==
    ASSUME TimelineInit
    PROVE  WalkInv
<1> DEFINE roots == Roots
           n == Len(roots)
           top == {id \in Ids : ~HasParent(id)}
           call(k) == Call(roots[k], <<>>, "", k = n)
<1>1. graph \in Graphs /\ lines = <<>>
  BY DEF TimelineInit
<1>2. Lists(roots, top) /\ n \in Nat /\ DOMAIN roots = 1..n
  BY <1>1, RootsListed DEF Lists
<1>3. calls = [k \in 1..n |-> call(k)]
  BY <1>2 DEF TimelineInit
<1>4. <<>> \in Columns
  BY EmptySeq DEF Columns
<1> HIDE DEF roots, n, top
<1>5. \A k \in 1..n : roots[k] \in top /\ roots[k] \in Ids
  <2>1. \A k \in 1..n : roots[k] \in top
    BY <1>2 DEF Lists, n
  <2> QED
    BY <2>1 DEF top
<1>6. \A k \in 1..n : call(k) \in CallsOf(Ids) /\ call(k).id = roots[k]
  BY <1>4, <1>5 DEF CallsOf, Call, Connectors
<1> HIDE DEF call
<1>7. /\ calls \in Seq(CallsOf(Ids)) /\ Len(calls) = n
      /\ \A k \in 1..n : calls[k].id = roots[k]
  <2> DEFINE S == CallsOf(Ids)
  <2>1. \A k \in 1..n : call(k) \in S
    BY <1>6
  <2> HIDE DEF S
  <2>2. calls \in Seq(S) /\ Len(calls) = n /\ \A k \in 1..n : calls[k] = call(k)
    BY <1>2, <1>3, <2>1
  <2> QED
    BY <1>6, <2>2 DEF S
<1>8. Pending = top
  <2>1. Pending = {roots[k] : k \in 1..n}
    BY <1>7 DEF Pending
  <2>2. \A e : e \in top <=> \E k \in 1..n : roots[k] = e
    BY <1>2 DEF Lists, n
  <2> QED
    BY <2>1, <2>2
<1>9. ShownIds = <<>> /\ lines \in Seq(LinesOf(Ids))
  <2>1. lines \in Seq(LinesOf(Ids)) /\ DOMAIN lines = {}
    BY <1>1, EmptySeq
  <2>2. [k \in DOMAIN lines |-> lines[k].ids] = <<>>
    BY <2>1
  <2>3. FlattenSeq(<<>>) = <<>>
    BY FlattenNone
  <2> QED
    BY <2>1, <2>2, <2>3 DEF ShownIds
<1>10. Shown = {} /\ ShownIds \in Seq(Ids) /\ Len(ShownIds) = 0
  BY <1>9, EmptySeq DEF Shown
<1>11. DrawingType
  BY <1>1, <1>7, <1>9 DEF DrawingType
<1>12. \A i, j \in 1..Len(calls) : calls[i].id = calls[j].id => i = j
  BY <1>2, <1>7 DEF Lists, n
<1>13. \A id \in top : Hung(id)
  BY DEF top, Hung
<1>14. \A id \in Ids : ~HasParent(id) => id \in top
  BY DEF top
<1> QED
  BY <1>8, <1>10, <1>11, <1>12, <1>13, <1>14 DEF WalkInv

(* So each reachable state has every snapshot in one place at most.        *)
LEMMA WalkInvariant == TimelineSpec => []WalkInv
<1>1. WalkInv /\ [TimelineNext]_drawing => WalkInv'
  <2> SUFFICES ASSUME WalkInv, [TimelineNext]_drawing PROVE WalkInv'
    OBVIOUS
  <2>1. CASE TimelineNext
    <3>1. PICK r : Prints(r)
      BY <2>1, StepPrints DEF WalkInv
    <3> QED
      BY <3>1, WalkStep
  <2>2. CASE UNCHANGED drawing
    <3>1. graph' = graph /\ calls' = calls /\ lines' = lines
      BY <2>2 DEF drawing
    <3>2. /\ Ids' = Ids /\ ShownIds' = ShownIds
          /\ \A id : HasParent(id)' <=> HasParent(id)
          /\ \A c, p : IsChild(c, p)' <=> IsChild(c, p)
      BY <3>1 DEF Ids, ShownIds, HasParent, IsChild
    <3>3. Shown' = Shown /\ Pending' = Pending
      BY <3>1, <3>2 DEF Shown, Pending
    <3>4. \A id : Hung(id)' <=> Hung(id)
      BY <3>2, <3>3 DEF Hung
    <3>5. DrawingType'
      BY <3>1, <3>2 DEF WalkInv, DrawingType, CallsOf, LinesOf
    <3> QED
      BY <3>1, <3>2, <3>3, <3>4, <3>5 DEF WalkInv
  <2> QED
    BY <2>1, <2>2
<1> QED
  BY <1>1, WalkInit, PTL DEF TimelineSpec

(* Whatever the snapshots, each is on one line at most, and on one once    *)
(* the walk has ended: runs lose no snapshot, merges repeat none.          *)
THEOREM TimelineShowsOnce == TimelineSpec => []ShownOnce
<1>1. ASSUME WalkInv PROVE ShownOnce
  <2> DEFINE s == ShownIds
  <2>1. ShownOnce <=> /\ Cardinality(ToSet(s)) = Len(s)
                      /\ calls = <<>> => ToSet(s) = Ids
    BY DEF ShownOnce, ShownIds
  <2>2. s \in Seq(Ids) /\ (\A i, j \in 1..Len(s) : s[i] = s[j] => i = j) /\ Shown = {s[i] : i \in 1..Len(s)}
    BY <1>1 DEF WalkInv, Shown
  <2> HIDE DEF s
  <2>3. Len(s) \in Nat /\ DOMAIN s = 1..Len(s) /\ \A i \in 1..Len(s) : s[i] \in Ids
    BY <2>2, LenProperties, ElementOfSeq
  <2>4. ToSet(s) = Shown
    BY <2>2, <2>3 DEF ToSet
  <2>5. Cardinality(Shown) = Len(s)
    BY <2>2, <2>3, Counted
  <2>6. ASSUME calls = <<>>, NEW S, S = Ids \ Shown, S # {} PROVE FALSE
    <3>1. Pending = {}
      BY <2>6, EmptySeq DEF Pending
    <3>2. PICK id \in S : graph[id].parents = <<>> \/ graph[id].parents[1] \notin S
      <4>1. graph \in Graphs /\ S \in SUBSET DOMAIN graph
        BY <1>1, <2>6 DEF WalkInv, DrawingType, Ids
      <4> QED
        BY <2>6, <4>1, TimelineAssumption DEF TimelineAssumption
    <3>3. HasParent(id)
      BY <1>1, <2>6, <3>1 DEF WalkInv
    <3>4. PICK p \in Ids : IsChild(id, p)
      BY <3>3 DEF HasParent
    <3>5. p \in Shown
      BY <2>6, <3>2, <3>4 DEF IsChild
    <3>6. id \in Shown \cup Pending
      BY <1>1, <2>6, <3>4, <3>5 DEF WalkInv
    <3> QED
      BY <2>6, <3>1, <3>6
  <2>7. Shown \subseteq Ids
    BY <2>2, <2>3
  <2>8. calls = <<>> => Shown = Ids
    BY <2>6, <2>7
  <2> QED
    BY <2>1, <2>4, <2>5, <2>8
<1> QED
  BY <1>1, WalkInvariant, PTL

-----------------------------------------------------------------------------
(* Each line hangs below the parent.                                       *)

(* A line or call of at least a depth leaves the column of that depth      *)
(* unbroken.                                                               *)
Passes(x, d) ==
    /\ Depth(x) >= d
    /\ IF Depth(x) = d THEN x.connector = "tee" ELSE x.prefix[d] = "bar"

(* What is printed after n of these lines hangs below the parent.          *)
Hangs(x, id, ls, n) ==
    IF Depth(x) = 0 THEN ~HasParent(id)
    ELSE \E a \in 1..n : /\ Depth(ls[a]) = Depth(x) - 1
                         /\ IsChild(id, Last(ls[a].ids))
                         /\ \A i \in (a + 1)..n : Passes(ls[i], Depth(x))

(* Every line and every pending call hangs below its parent, and a call    *)
(* is behind none that would break its column.                             *)
DrawInv ==
    /\ DrawingType
    /\ \A j \in 1..Len(lines) :
          /\ \A k \in 1..(Len(lines[j].ids) - 1) : IsChild(lines[j].ids[k + 1], lines[j].ids[k])
          /\ Hangs(lines[j], lines[j].ids[1], lines, j - 1)
    /\ \A k \in 1..Len(calls) : Hangs(calls[k], calls[k].id, lines, Len(lines))
    /\ \A l \in 1..Len(calls), k \in 1..Len(calls) :
          k < l /\ Depth(calls[l]) # 0 =>
              /\ Passes(calls[k], Depth(calls[l]))
              /\ Depth(calls[k]) = Depth(calls[l]) => ~calls[k].last

(* A depth is a number, 0 at the margin.                                   *)
LEMMA DepthTyped ==
    ASSUME NEW x, x.prefix \in Columns
    PROVE  /\ Depth(x) \in Nat
           /\ Depth(x) = 0 <=> x.connector = ""
           /\ x.connector # "" => Depth(x) = Len(x.prefix) + 1
<1> DEFINE n == Len(x.prefix)
<1>1. n \in Nat
  BY LenProperties DEF Columns
<1>2. Depth(x) = IF x.connector = "" THEN 0 ELSE n + 1
  BY DEF Depth
<1> HIDE DEF n
<1>3. n + 1 \in Nat /\ n + 1 # 0 /\ 0 \in Nat
  BY <1>1
<1>4. CASE x.connector = ""
  <2>1. Depth(x) = 0
    BY <1>2, <1>4
  <2> QED
    BY <1>3, <1>4, <2>1
<1>5. CASE x.connector # ""
  <2>1. Depth(x) = n + 1
    BY <1>2, <1>5
  <2> QED
    BY <1>3, <1>5, <2>1 DEF n
<1> QED
  BY <1>4, <1>5

(* A call for a child leaves the columns unbroken that its parent did.     *)
LEMMA ChildPasses ==
    ASSUME NEW I, NEW h \in CallsOf(I), NEW kids, NEW k
    PROVE  LET c == ChildCall(h, kids, k)
           IN /\ Depth(c) = Depth(h) + 1 /\ Depth(h) \in Nat
              /\ c.id = kids[k]
              /\ c.connector = IF k = Len(kids) THEN "corner" ELSE "tee"
              /\ c.last = (k = Len(kids))
              /\ \A d \in Nat \ {0} :
                    Passes(h, d) /\ (Depth(h) = d => ~h.last) => Passes(c, d) /\ Depth(c) # d
<1> DEFINE c == ChildCall(h, kids, k)
           p == h.prefix
           n == Len(p)
<1>1. /\ c.id = kids[k]
      /\ c.connector = IF k = Len(kids) THEN "corner" ELSE "tee"
      /\ c.last = (k = Len(kids))
      /\ c.prefix = ChildPrefix(h)
  BY DEF ChildCall, Call
<1>2. p \in Columns /\ h.connector \in Connectors
  BY DEF CallsOf
<1>3. n \in Nat
  BY <1>2, LenProperties DEF Columns
<1>4. /\ Depth(h) \in Nat
      /\ Depth(h) = 0 <=> h.connector = ""
      /\ h.connector # "" => Depth(h) = n + 1
  BY <1>2, DepthTyped
<1>5. Depth(c) = Len(ChildPrefix(h)) + 1
  BY <1>1 DEF Depth
<1> HIDE DEF c
<1>6. CASE h.connector = ""
  <2>1. ChildPrefix(h) = <<>> /\ Len(ChildPrefix(h)) = 0
    BY <1>6 DEF ChildPrefix
  <2>2. Depth(c) = Depth(h) + 1
    BY <1>4, <1>5, <1>6, <2>1
  <2>3. \A d \in Nat \ {0} : ~Passes(h, d)
    <3>1. \A d \in Nat \ {0} : ~(0 >= d)
      OBVIOUS
    <3> QED
      BY <1>4, <1>6, <3>1 DEF Passes
  <2> QED
    BY <1>1, <1>4, <2>2, <2>3 DEF c
<1>7. CASE h.connector # ""
  <2> DEFINE e == IF h.last THEN "gap" ELSE "bar"
             q == Append(p, e)
  <2>1. ChildPrefix(h) = q
    BY <1>7 DEF ChildPrefix
  <2>2. Len(q) = n + 1 /\ q[n + 1] = e /\ \A d \in 1..n : q[d] = p[d]
    BY <1>2, AppendProperties DEF Columns
  <2>3. Depth(c) = Depth(h) + 1
    BY <1>4, <1>5, <1>7, <2>1, <2>2
  <2>4. ASSUME NEW d \in Nat \ {0}, Passes(h, d), Depth(h) = d => ~h.last
        PROVE  Passes(c, d) /\ Depth(c) # d
    <3> DEFINE D == Depth(h)
               C == Depth(c)
    <3>1. D \in Nat /\ D = n + 1 /\ C = D + 1
      BY <1>4, <1>7, <2>3
    <3>2. D >= d /\ (D # d => p[d] = "bar") /\ (D = d => e = "bar")
      BY <2>4 DEF Passes
    <3> HIDE DEF C, D, q, n, e
    <3>3. q[d] = "bar"
      <4>1. CASE D = d
        BY <2>2, <3>1, <3>2, <4>1
      <4>2. CASE D # d
        <5>1. d \in 1..n
          BY <1>3, <3>1, <3>2, <4>2
        <5> QED
          BY <2>2, <3>2, <4>2, <5>1
      <4> QED
        BY <4>1, <4>2
    <3>4. C >= d /\ C # d
      BY <3>1, <3>2
    <3> QED
      BY <1>1, <2>1, <3>3, <3>4 DEF Passes, C
  <2> QED
    BY <1>1, <1>4, <2>3, <2>4 DEF c
<1> QED
  BY <1>6, <1>7

(* A place does not depend on the lines after it.                          *)
LEMMA HangsSame ==
    ASSUME NEW x, NEW id, NEW ls, NEW more, NEW n \in Nat,
           \A i \in 1..n : more[i] = ls[i], Hangs(x, id, ls, n)
    PROVE  Hangs(x, id, more, n)
<1>1. CASE Depth(x) = 0
  BY <1>1 DEF Hangs
<1>2. CASE Depth(x) # 0
  <2>1. PICK a \in 1..n : /\ Depth(ls[a]) = Depth(x) - 1
                          /\ IsChild(id, Last(ls[a].ids))
                          /\ \A i \in (a + 1)..n : Passes(ls[i], Depth(x))
    BY <1>2 DEF Hangs
  <2>2. \A i \in (a + 1)..n : i \in 1..n
    OBVIOUS
  <2>3. \A i \in (a + 1)..n : Passes(more[i], Depth(x))
    BY <2>1, <2>2
  <2>4. more[a] = ls[a]
    OBVIOUS
  <2> QED
    BY <1>2, <2>1, <2>3, <2>4 DEF Hangs
<1> QED
  BY <1>1, <1>2

(* It is kept by a line that does not break its column.                    *)
LEMMA HangsOn ==
    ASSUME NEW x, NEW id, NEW ls, NEW n \in Nat,
           Hangs(x, id, ls, n), Depth(x) # 0 => Passes(ls[n + 1], Depth(x))
    PROVE  Hangs(x, id, ls, n + 1)
<1>1. CASE Depth(x) = 0
  BY <1>1 DEF Hangs
<1>2. CASE Depth(x) # 0
  <2>1. PICK a \in 1..n : /\ Depth(ls[a]) = Depth(x) - 1
                          /\ IsChild(id, Last(ls[a].ids))
                          /\ \A i \in (a + 1)..n : Passes(ls[i], Depth(x))
    BY <1>2 DEF Hangs
  <2>2. \A i \in (a + 1)..(n + 1) : i = n + 1 \/ i \in (a + 1)..n
    OBVIOUS
  <2>3. \A i \in (a + 1)..(n + 1) : Passes(ls[i], Depth(x))
    BY <1>2, <2>1, <2>2
  <2>4. a \in 1..(n + 1)
    OBVIOUS
  <2> QED
    BY <1>2, <2>1, <2>3, <2>4 DEF Hangs
<1> QED
  BY <1>1, <1>2

(* The first calls are at the margin.                                      *)
LEMMA DrawInit ==
    ASSUME TimelineInit
    PROVE  DrawInv
<1> DEFINE roots == Roots
           n == Len(roots)
<1>1. DrawingType /\ graph \in Graphs /\ lines = <<>> /\ Len(lines) = 0
  BY WalkInit DEF WalkInv, TimelineInit
<1>2. Lists(roots, {id \in Ids : ~HasParent(id)}) /\ n \in Nat /\ DOMAIN roots = 1..n
  BY <1>1, RootsListed DEF Lists
<1>3. calls = [k \in 1..n |-> Call(roots[k], <<>>, "", k = n)]
  BY <1>2 DEF TimelineInit
<1> HIDE DEF roots, n
<1>4. Len(calls) = n
  <2> DEFINE call(k) == Call(roots[k], <<>>, "", k = n)
             S == {call(k) : k \in 1..n}
  <2>1. \A k \in 1..n : call(k) \in S
    OBVIOUS
  <2>2. calls = [k \in 1..n |-> call(k)]
    BY <1>3
  <2> HIDE DEF S, call
  <2> QED
    BY <1>2, <2>1, <2>2
<1>5. \A k \in 1..n : calls[k].connector = "" /\ calls[k].id = roots[k]
  BY <1>3 DEF Call
<1>6. \A k \in 1..n : Depth(calls[k]) = 0
  BY <1>5 DEF Depth
<1>7. \A k \in 1..n : ~HasParent(roots[k])
  BY <1>2 DEF Lists, n
<1>8. \A k \in 1..n : Hangs(calls[k], calls[k].id, lines, Len(lines))
  BY <1>5, <1>6, <1>7 DEF Hangs
<1> QED
  BY <1>1, <1>4, <1>6, <1>8 DEF DrawInv

(* A line passes the columns of all calls behind it, and its children      *)
(* pass those that it passed.                                              *)
LEMMA DrawStep ==
    ASSUME DrawInv, NEW r, Prints(r)
    PROVE  DrawInv'
<1> DEFINE h == calls[1]
           kids == Children(r[Len(r)])
           m == Len(kids)
           n == Len(calls)
           L == Len(lines)
           line == Line(h, r)
           D == Depth(h)
<1>0. /\ DrawingType /\ DrawingType'
      /\ \A id : HasParent(id)' <=> HasParent(id)
      /\ \A c, p : IsChild(c, p)' <=> IsChild(c, p)
  BY TypeStep DEF Prints, HasParent, IsChild, Ids, DrawInv
<1>1. /\ Lists(kids, ChildrenOf(r[Len(r)])) /\ m \in Nat /\ n \in Nat \ {0}
      /\ h \in CallsOf(Ids)
      /\ Len(calls') = m + (n - 1)
      /\ \A k \in 1..m : calls'[k] = ChildCall(h, kids, k)
      /\ \A k \in 1..(n - 1) : calls'[m + k] = calls[k + 1]
  BY <1>0, CallsAfter
<1>2. /\ L \in Nat /\ Len(lines') = L + 1 /\ lines'[L + 1] = line
      /\ \A j \in 1..L : lines'[j] = lines[j]
  BY <1>0, LineAfter
<1>3. /\ line.ids = r /\ line.prefix = h.prefix /\ line.connector = h.connector
      /\ Depth(line) = D /\ \A d : Passes(line, d) <=> Passes(h, d)
  BY DEF Line, Depth, Passes
<1>4. /\ r \in Seq(Ids) /\ Len(r) \in Nat \ {0} /\ r[1] = h.id /\ Last(r) = r[Len(r)]
      /\ \A k \in 1..(Len(r) - 1) : IsChild(r[k + 1], r[k])
  <2>1. r[1] = h.id
    BY <1>0, HeadCall DEF Prints
  <2>2. \A k \in 1..(Len(r) - 1) : r[k + 1] \in ChildrenOf(r[k])
    BY DEF Prints
  <2> QED
    BY <2>1, <2>2 DEF Prints, ChildrenOf, Last
<1>5. D \in Nat /\ \A k \in 1..n : Depth(calls[k]) \in Nat
  <2>1. calls \in Seq(CallsOf(Ids))
    BY <1>0 DEF DrawingType
  <2>2. \A k \in 1..n : calls[k] \in CallsOf(Ids)
    BY <2>1, ElementOfSeq
  <2>3. \A k \in 1..n : calls[k].prefix \in Columns
    BY <2>2 DEF CallsOf
  <2>4. \A k \in 1..n : Depth(calls[k]) \in Nat
    BY <2>3, DepthTyped
  <2>5. 1 \in 1..n
    BY <1>1
  <2> QED
    BY <2>4, <2>5
<1>6. /\ \A j \in 1..L :
            /\ \A k \in 1..(Len(lines[j].ids) - 1) : IsChild(lines[j].ids[k + 1], lines[j].ids[k])
            /\ Hangs(lines[j], lines[j].ids[1], lines, j - 1)
      /\ \A k \in 1..n : Hangs(calls[k], calls[k].id, lines, L)
      /\ \A l \in 1..n, k \in 1..n :
            k < l /\ Depth(calls[l]) # 0 =>
                /\ Passes(calls[k], Depth(calls[l]))
                /\ Depth(calls[k]) = Depth(calls[l]) => ~calls[k].last
  BY DEF DrawInv
<1>7. ASSUME NEW k \in 1..m
      PROVE  /\ Depth(calls'[k]) = D + 1
             /\ calls'[k].id = kids[k]
             /\ calls'[k].connector = IF k = m THEN "corner" ELSE "tee"
             /\ calls'[k].last = (k = m)
             /\ \A d \in Nat \ {0} :
                   Passes(h, d) /\ (D = d => ~h.last) => Passes(calls'[k], d) /\ Depth(calls'[k]) # d
  BY <1>1, ChildPasses
<1>8. \A k \in 1..m : IsChild(kids[k], Last(r))
  <2>1. \A k \in 1..m : kids[k] \in ChildrenOf(r[Len(r)])
    BY <1>1 DEF Lists
  <2> QED
    BY <1>4, <2>1 DEF ChildrenOf
<1> HIDE DEF h, kids, m, n, L, line, D
<1>9. \A j \in 1..(L + 1) : j = L + 1 \/ j \in 1..L
  BY <1>2
<1>10. ASSUME NEW j \in 1..(L + 1)
       PROVE  /\ \A k \in 1..(Len(lines'[j].ids) - 1) : IsChild(lines'[j].ids[k + 1], lines'[j].ids[k])
              /\ Hangs(lines'[j], lines'[j].ids[1], lines', j - 1)
  <2>1. CASE j = L + 1
    <3>1. Hangs(h, r[1], lines, L)
      <4>1. 1 \in 1..n
        BY <1>1
      <4> QED
        BY <1>4, <1>6, <4>1 DEF h
    <3>2. Hangs(h, r[1], lines', L)
      BY <1>2, <3>1, HangsSame
    <3>3. Hangs(line, r[1], lines', L)
      BY <1>3, <3>2 DEF Hangs, D
    <3>4. j - 1 = L
      BY <1>2, <2>1
    <3> QED
      BY <1>2, <1>3, <1>4, <2>1, <3>3, <3>4
  <2>2. CASE j \in 1..L
    <3>1. j - 1 \in Nat /\ \A i \in 1..(j - 1) : i \in 1..L
      BY <1>2, <2>2
    <3>2. \A i \in 1..(j - 1) : lines'[i] = lines[i]
      BY <1>2, <3>1
    <3>3. Hangs(lines[j], lines[j].ids[1], lines, j - 1)
      BY <1>6, <2>2
    <3>4. Hangs(lines[j], lines[j].ids[1], lines', j - 1)
      BY <3>1, <3>2, <3>3, HangsSame
    <3> QED
      BY <1>2, <1>6, <2>2, <3>4
  <2> QED
    BY <1>9, <2>1, <2>2
<1>11. \A k \in 1..(m + (n - 1)) : k \in 1..m \/ \E l \in 1..(n - 1) : k = m + l
  <2> TAKE k \in 1..(m + (n - 1))
  <2>1. k <= m => k \in 1..m
    BY <1>1
  <2>2. ~(k <= m) => k - m \in 1..(n - 1) /\ k = m + (k - m)
    BY <1>1
  <2> QED
    BY <2>1, <2>2
<1>12. \A l \in 1..(n - 1) : l + 1 \in 1..n /\ 1 < l + 1 /\ 1 \in 1..n
  BY <1>1
(* What the head leaves unbroken for a call behind it.                     *)
<1>13. ASSUME NEW l \in 1..(n - 1), Depth(calls[l + 1]) # 0
       PROVE  /\ Passes(h, Depth(calls[l + 1]))
              /\ D = Depth(calls[l + 1]) => ~h.last
              /\ Depth(calls[l + 1]) \in Nat \ {0}
  BY <1>5, <1>6, <1>12, <1>13 DEF h, D
<1>14. ASSUME NEW k \in 1..(m + (n - 1)) PROVE Hangs(calls'[k], calls'[k].id, lines', L + 1)
  <2>1. CASE k \in 1..m
    <3>1. L + 1 \in 1..(L + 1) /\ \A i : i \notin ((L + 1) + 1)..(L + 1)
      BY <1>2
    <3>2. Depth(calls'[k]) # 0 /\ Depth(calls'[k]) - 1 = D
      <4>1. D + 1 # 0 /\ (D + 1) - 1 = D
        BY <1>5
      <4> QED
        BY <1>7, <2>1, <4>1
    <3>3. Depth(lines'[L + 1]) = D /\ lines'[L + 1].ids = r
      BY <1>2, <1>3
    <3>4. IsChild(calls'[k].id, Last(r))
      BY <1>7, <1>8, <2>1
    <3> QED
      BY <3>1, <3>2, <3>3, <3>4 DEF Hangs
  <2>2. CASE \E l \in 1..(n - 1) : k = m + l
    <3>1. PICK l \in 1..(n - 1) : k = m + l
      BY <2>2
    <3> DEFINE c == calls[l + 1]
    <3>2. calls'[k] = c /\ Hangs(c, c.id, lines, L)
      BY <1>1, <1>6, <1>12, <3>1
    <3>3. Hangs(c, c.id, lines', L)
      BY <1>2, <3>2, HangsSame
    <3>4. Depth(c) # 0 => Passes(lines'[L + 1], Depth(c))
      BY <1>2, <1>3, <1>13
    <3> HIDE DEF c
    <3>5. Hangs(c, c.id, lines', L + 1)
      BY <1>2, <3>3, <3>4, HangsOn
    <3> QED
      BY <3>2, <3>5
  <2> QED
    BY <1>11, <2>1, <2>2
<1>15. ASSUME NEW l \in 1..(m + (n - 1)), NEW k \in 1..(m + (n - 1)), k < l, Depth(calls'[l]) # 0
       PROVE  /\ Passes(calls'[k], Depth(calls'[l]))
              /\ Depth(calls'[k]) = Depth(calls'[l]) => ~calls'[k].last
  <2>1. CASE l \in 1..m
    <3>1. k \in 1..m /\ k # m
      BY <1>1, <1>15, <2>1
    <3>2. /\ Depth(calls'[k]) = D + 1 /\ Depth(calls'[l]) = D + 1
          /\ calls'[k].connector = "tee" /\ ~calls'[k].last
      BY <1>7, <2>1, <3>1
    <3>3. D + 1 >= D + 1
      BY <1>5
    <3> QED
      BY <3>2, <3>3 DEF Passes
  <2>2. CASE \E b \in 1..(n - 1) : l = m + b
    <3>1. PICK b \in 1..(n - 1) : l = m + b
      BY <2>2
    <3>2. calls'[l] = calls[b + 1]
      BY <1>1, <3>1
    <3> DEFINE d == Depth(calls[b + 1])
    <3>3. /\ Passes(h, d) /\ (D = d => ~h.last) /\ d \in Nat \ {0}
      BY <1>13, <1>15, <3>2
    <3>4. CASE k \in 1..m
      BY <1>7, <3>2, <3>3, <3>4
    <3>5. CASE \E a \in 1..(n - 1) : k = m + a
      <4>1. PICK a \in 1..(n - 1) : k = m + a
        BY <3>5
      <4>2. calls'[k] = calls[a + 1]
        BY <1>1, <4>1
      <4>3. a + 1 < b + 1
        BY <1>1, <1>15, <3>1, <4>1
      <4> QED
        BY <1>6, <1>12, <1>15, <3>2, <4>2, <4>3
    <3> QED
      BY <1>11, <3>4, <3>5
  <2> QED
    BY <1>11, <2>1, <2>2
<1>16. /\ \A x : Depth(x)' = Depth(x)
       /\ \A x, d : Passes(x, d)' <=> Passes(x, d)
  BY DEF Depth, Passes
<1>17. \A x, id, ls, k : Hangs(x, id, ls, k)' <=> Hangs(x, id, ls, k)
  BY <1>0, <1>16 DEF Hangs
<1>18. \A j \in 1..(L + 1) :
          /\ \A k \in 1..(Len(lines'[j].ids) - 1) :
                IsChild(lines[j].ids[k + 1], lines[j].ids[k])'
          /\ Hangs(lines[j], lines[j].ids[1], lines, j - 1)'
  BY <1>0, <1>10, <1>17
<1>19. \A k \in 1..(m + (n - 1)) : Hangs(calls'[k], calls'[k].id, lines', Len(lines'))
  BY <1>2, <1>14
<1>20. \A k \in 1..(m + (n - 1)) : Hangs(calls[k], calls[k].id, lines, Len(lines))'
  BY <1>17, <1>19
<1>21. \A l \in 1..(m + (n - 1)), k \in 1..(m + (n - 1)) :
          k < l /\ (Depth(calls[l]) # 0)' =>
              /\ Passes(calls[k], Depth(calls[l]))'
              /\ (Depth(calls[k]) = Depth(calls[l]))' => ~calls'[k].last
  BY <1>15, <1>16
<1> QED
  BY <1>0, <1>1, <1>2, <1>18, <1>20, <1>21 DEF DrawInv

(* So each reachable drawing can be read as a tree.                        *)
LEMMA DrawInvariant == TimelineSpec => []DrawInv
<1>1. DrawInv /\ [TimelineNext]_drawing => DrawInv'
  <2> SUFFICES ASSUME DrawInv, [TimelineNext]_drawing PROVE DrawInv'
    OBVIOUS
  <2>1. CASE TimelineNext
    <3>1. PICK r : Prints(r)
      BY <2>1, StepPrints DEF DrawInv
    <3> QED
      BY <3>1, DrawStep
  <2>2. CASE UNCHANGED drawing
    <3>1. graph' = graph /\ calls' = calls /\ lines' = lines
      BY <2>2 DEF drawing
    <3>2. /\ Ids' = Ids
          /\ \A id : HasParent(id)' <=> HasParent(id)
          /\ \A c, p : IsChild(c, p)' <=> IsChild(c, p)
      BY <3>1 DEF Ids, HasParent, IsChild
    <3>3. DrawingType'
      BY <3>1, <3>2 DEF DrawInv, DrawingType, CallsOf, LinesOf
    <3>4. /\ \A x : Depth(x)' = Depth(x)
          /\ \A x, d : Passes(x, d)' <=> Passes(x, d)
      BY DEF Depth, Passes
    <3>5. \A x, id, ls, k : Hangs(x, id, ls, k)' <=> Hangs(x, id, ls, k)
      BY <3>2, <3>4 DEF Hangs
    <3> QED
      BY <3>1, <3>2, <3>3, <3>4, <3>5 DEF DrawInv
  <2> QED
    BY <2>1, <2>2
<1> QED
  BY <1>1, DrawInit, PTL DEF TimelineSpec

(* Whatever the snapshots, the prefixes and connectors of the lines show   *)
(* each snapshot below its first parent: no column of bars is broken, and  *)
(* no line in between could be taken for the parent.                       *)
THEOREM TimelineShowsParents == TimelineSpec => []DrawingShowsParents
<1>1. ASSUME DrawInv PROVE DrawingShowsParents
  <2> DEFINE n == Len(lines)
  <2>1. n \in Nat /\ DOMAIN lines = 1..n /\ \A j \in 1..n : lines[j] \in LinesOf(Ids)
    <3>1. lines \in Seq(LinesOf(Ids))
      BY <1>1 DEF DrawInv, DrawingType
    <3> QED
      BY <3>1, LenProperties, ElementOfSeq
  <2>2. \A j \in 1..n : Depth(lines[j]) \in Nat
    <3>1. \A j \in 1..n : lines[j].prefix \in Columns
      BY <2>1 DEF LinesOf
    <3> QED
      BY <3>1, DepthTyped
  <2>3. \A j \in 1..n :
          /\ \A k \in 1..(Len(lines[j].ids) - 1) : IsChild(lines[j].ids[k + 1], lines[j].ids[k])
          /\ Hangs(lines[j], lines[j].ids[1], lines, j - 1)
    BY <1>1 DEF DrawInv
  <2>4. \A j \in 1..n : Len(lines[j].ids) \in Nat
    <3>1. \A j \in 1..n : lines[j].ids \in Seq(Ids)
      BY <2>1 DEF LinesOf
    <3> QED
      BY <3>1, LenProperties
  <2> HIDE DEF n
  <2> SUFFICES ASSUME NEW j \in 1..n
               PROVE  LET line  == lines[j]
                          depth == Depth(line)
                          above == {i \in 1..(j - 1) : Depth(lines[i]) = depth - 1}
                      IN /\ \A k \in 2..Len(line.ids) : IsChild(line.ids[k], line.ids[k - 1])
                         /\ IF depth = 0 THEN ~HasParent(line.ids[1])
                            ELSE
                              /\ above # {}
                              /\ IsChild(line.ids[1], Last(lines[Max(above)].ids))
                              /\ \A i \in (Max(above) + 1)..(j - 1) :
                                    IF Depth(lines[i]) = depth
                                    THEN lines[i].connector = "tee"
                                    ELSE lines[i].prefix[depth] = "bar"
    BY <2>1 DEF DrawingShowsParents
  <2> DEFINE line  == lines[j]
             depth == Depth(line)
             above == {i \in 1..(j - 1) : Depth(lines[i]) = depth - 1}
             l == Len(line.ids)
  <2>5. \A k \in 2..l : IsChild(line.ids[k], line.ids[k - 1])
    <3> TAKE k \in 2..l
    <3> DEFINE q == k - 1
    <3>1. l \in Nat
      BY <2>4
    <3> HIDE DEF l
    <3>2. q \in 1..(l - 1) /\ q + 1 = k
      BY <3>1
    <3> HIDE DEF q
    <3>3. IsChild(line.ids[q + 1], line.ids[q])
      BY <2>3, <3>2 DEF l
    <3> QED
      BY <3>2, <3>3 DEF q
  <2>6. CASE depth = 0
    <3>1. ~HasParent(line.ids[1])
      BY <2>3, <2>6 DEF Hangs
    <3> QED
      BY <2>5, <2>6, <3>1
  <2>7. CASE depth # 0
    <3>1. PICK a \in 1..(j - 1) : /\ Depth(lines[a]) = depth - 1
                                  /\ IsChild(line.ids[1], Last(lines[a].ids))
                                  /\ \A i \in (a + 1)..(j - 1) : Passes(lines[i], depth)
      BY <2>3, <2>7 DEF Hangs
    <3>2. depth \in Nat /\ \A i \in 1..(j - 1) : i \in 1..n /\ Depth(lines[i]) \in Nat
      BY <2>1, <2>2
    <3>3. a \in above /\ above \in SUBSET (0..(j - 1)) /\ j - 1 \in Nat
      BY <2>1, <3>1
    <3>4. \A i \in above : i \in 1..(j - 1) /\ Depth(lines[i]) = depth - 1
      OBVIOUS
    <3> HIDE DEF depth, line, above
    <3>5. \A i \in above : i <= a
      <4> SUFFICES ASSUME NEW i \in above, ~(i <= a) PROVE FALSE
        OBVIOUS
      <4>1. i \in (a + 1)..(j - 1)
        BY <2>1, <3>4
      <4>2. Depth(lines[i]) >= depth
        BY <3>1, <4>1 DEF Passes
      <4>3. Depth(lines[i]) = depth - 1
        BY <3>4
      <4>4. ~(depth - 1 >= depth)
        BY <3>2
      <4> QED
        BY <4>2, <4>3, <4>4
    <3>6. Max(above) \in above /\ \A i \in above : i <= Max(above)
      BY <3>3, MaxOf
    <3>7. Max(above) = a
      <4> DEFINE x == Max(above)
      <4>1. x \in above /\ x <= a /\ a <= x
        BY <3>3, <3>5, <3>6
      <4>2. x \in 1..(j - 1)
        BY <3>4, <4>1
      <4> HIDE DEF x
      <4>3. x = a
        BY <2>1, <4>1, <4>2
      <4> QED
        BY <4>3 DEF x
    <3>8. \A i \in (a + 1)..(j - 1) : IF Depth(lines[i]) = depth
                                      THEN lines[i].connector = "tee"
                                      ELSE lines[i].prefix[depth] = "bar"
      BY <3>1 DEF Passes
    <3>9. /\ above # {}
          /\ IsChild(line.ids[1], Last(lines[Max(above)].ids))
          /\ \A i \in (Max(above) + 1)..(j - 1) :
                IF Depth(lines[i]) = depth
                THEN lines[i].connector = "tee"
                ELSE lines[i].prefix[depth] = "bar"
      BY <3>1, <3>3, <3>7, <3>8
    <3> QED
      BY <2>5, <2>7, <3>9 DEF depth, line, above
  <2> QED
    BY <2>6, <2>7
<1> QED
  BY <1>1, DrawInvariant, PTL
=============================================================================

-------------------------- MODULE RepositoryProofs --------------------------
(* Proofs about Repository, for every set of processes, branches,          *)
(* workspaces, paths and contents and every bound.  Each conjunct of       *)
(* IndInv is preserved by every action; the properties follow from it.     *)
EXTENDS Repository, TLAPS

(* The stored snapshots are numbered 1, 2, ... without gaps.               *)
LEMMA StoredInterval ==
    ASSUME TypeOK
    PROVE  /\ Len(snaps) \in Nat
           /\ Stored = 1..Len(snaps)
           /\ Stored \subseteq Nat
           /\ 0 \notin Stored
           /\ \A i \in Stored : snaps[i] \in SnapshotType
<1>1. snaps \in Seq(SnapshotType)
  BY DEF TypeOK
<1> QED
  BY <1>1 DEF Stored

LEMMA StoredFields ==
    ASSUME TypeOK, NEW i \in Stored
    PROVE  snaps[i].tree \in Trees /\ snaps[i].parent \in Nat
BY StoredInterval DEF SnapshotType

(* Storing a snapshot adds at most one, at the end, and changes none.      *)
LEMMA PutSnapshotStores ==
    ASSUME TypeOK, NEW p \in Procs, PutSnapshot(p)
    PROVE  /\ snaps' \in Seq(SnapshotType)
           /\ Stored \subseteq Stored'
           /\ \A i \in Stored : snaps'[i] = snaps[i]
           /\ \A i \in Stored' \ Stored : /\ i = Len(snaps) + 1
                                          /\ snaps'[i] = NewSnapshot(p)
           /\ \A q \in Procs : q # p => new'[q] = new[q]
           /\ new'[p] \in Stored'
           /\ snaps'[new'[p]] = NewSnapshot(p)
<1>1. NewSnapshot(p) \in SnapshotType
  BY DEF NewSnapshot, SnapshotOf, SnapshotType, TypeOK
<1>2. snaps \in Seq(SnapshotType) /\ new \in [Procs -> Nat]
  BY DEF TypeOK
<1>3. CASE /\ snaps' = Append(snaps, NewSnapshot(p))
           /\ new' = [new EXCEPT ![p] = Len(snaps) + 1]
  BY <1>1, <1>2, <1>3 DEF Stored
<1>4. CASE \E i \in Stored : /\ snaps[i] = NewSnapshot(p)
                             /\ new' = [new EXCEPT ![p] = i]
                             /\ UNCHANGED snaps
  BY <1>1, <1>2, <1>4 DEF Stored
<1> QED
  BY <1>3, <1>4 DEF PutSnapshot

LEMMA NewSnapshotFields ==
    ASSUME NEW p \in Procs
    PROVE  /\ NewSnapshot(p).tree = cap[p]
           /\ NewSnapshot(p).parent = parent[p]
           /\ NewSnapshot(p).auto <=> op[p] # "snapshot"
BY DEF NewSnapshot, SnapshotOf

LEMMA SingletonSeq ==
    ASSUME NEW S, NEW x \in S
    PROVE  <<x>> \in Seq(S) /\ DOMAIN <<x>> = {1} /\ <<x>>[1] = x
OBVIOUS

(* Two processes in critical sections of one lock are one process.         *)
LEMMA OneHolder ==
    ASSUME IndInv, NEW p \in Procs, NEW q \in Procs,
           HoldsLock(p), HoldsLock(q), LockOf(p) = LockOf(q)
    PROVE  p = q
BY DEF IndInv, LocksHeld

LEMMA LockOfIsLock ==
    ASSUME TypeOK, NEW p \in Procs
    PROVE  LockOf(p) \in Locks
BY DEF TypeOK, LockOf, Locks

(* Every step keeps the type of every variable.                            *)
LEMMA TypeStep ==
    ASSUME IndInv, [Next]_vars
    PROVE  TypeOK'
<1> USE ConstantsAssumption DEF IndInv, TypeOK, Goto, disk, local, env, Labels
<1>1. ASSUME NEW r \in Roots, NEW f \in Paths, NEW c \in Contents, Edit(r, f, c)
      PROVE  TypeOK'
  BY <1>1 DEF Edit, Trees
<1>2. ASSUME NEW p \in Procs, StartSnapshot(p) PROVE  TypeOK'
  BY <1>2 DEF StartSnapshot, BeginOperation, AllOps
<1>3. ASSUME NEW p \in Procs, NEW b \in Branches, StartBranch(p, b)
      PROVE  TypeOK'
  <2>1. PICK o \in AllOps : BeginOperation(p, o)
    BY <1>3 DEF StartBranch, AllOps
  <2> QED
    BY <1>3, <2>1 DEF StartBranch, BeginOperation
<1>4. ASSUME NEW p \in Procs, StartRestore(p) PROVE  TypeOK'
  <2>1. {refs[c] : c \in Cursors} \subseteq Nat
    OBVIOUS
  <2>2. ResolvedTargets \subseteq Nat
    BY <2>1, StoredInterval DEF ResolvedTargets
  <2> QED
    BY <1>4, <2>2 DEF StartRestore, BeginOperation, AllOps
<1>5. ASSUME NEW p \in Procs, StartGraph(p) PROVE  TypeOK'
  BY <1>5 DEF StartGraph, BeginOperation, AllOps
<1>6. ASSUME NEW p \in Procs, NEW f \in Paths, CapturePath(p, f)
      PROVE  TypeOK'
  <2>1. RootOf[p] \in Roots /\ work[RootOf[p]] \in Trees /\ cap[p] \in Trees
    OBVIOUS
  <2>2. [cap[p] EXCEPT ![f] = work[RootOf[p]][f]] \in Trees
    BY <2>1 DEF Trees
  <2>3. cap' \in [Procs -> Trees]
    BY <1>6, <2>2 DEF CapturePath
  <2>4. left' \in [Procs -> SUBSET Paths] /\ pc' \in [Procs -> Labels]
    BY <1>6 DEF CapturePath
  <2> QED
    BY <1>6, <2>3, <2>4 DEF CapturePath
<1>7. ASSUME NEW p \in Procs, ReadCursor(p) PROVE  TypeOK'
  BY <1>7 DEF ReadCursor, CursorOf, Roots, Cursors
<1>8. ASSUME NEW p \in Procs, AcquireLock(p) PROVE  TypeOK'
  BY <1>8 DEF AcquireLock, Waiting
<1>9. ASSUME NEW p \in Procs, RemoveStaleLock(p) PROVE  TypeOK'
  BY <1>9 DEF RemoveStaleLock
<1>10. ASSUME NEW p \in Procs, LockTimeout(p) PROVE  TypeOK'
  BY <1>10 DEF LockTimeout
<1>11. ASSUME NEW p \in Procs, ReadParent(p) PROVE  TypeOK'
  BY <1>11 DEF ReadParent, AfterSave
<1>12. ASSUME NEW p \in Procs, PutSnapshot(p) PROVE  TypeOK'
  <2>1. snaps' \in Seq(SnapshotType)
    BY <1>12, PutSnapshotStores
  <2>2. new' \in [Procs -> Nat]
    BY <1>12, StoredInterval, SMTT(60) DEF PutSnapshot
  <2> QED
    BY <1>12, <2>1, <2>2 DEF PutSnapshot
<1>13. ASSUME NEW p \in Procs, WriteIndexEntry(p) PROVE  TypeOK'
  BY <1>13 DEF WriteIndexEntry
<1>14. ASSUME NEW p \in Procs, AdvanceCursor(p) PROVE  TypeOK'
  BY <1>14 DEF AdvanceCursor, AfterSave
<1>15. ASSUME NEW p \in Procs, ReleaseLock(p) PROVE  TypeOK'
  BY <1>15 DEF ReleaseLock
<1>16. ASSUME NEW p \in Procs, FinishLocked(p) PROVE  TypeOK'
  BY <1>16 DEF FinishLocked
<1>17. ASSUME NEW p \in Procs, ReadBaseCursor(p) PROVE  TypeOK'
  BY <1>17 DEF ReadBaseCursor, CursorOf, Roots, Cursors
<1>18. ASSUME NEW p \in Procs, ReadBaseRef(p) PROVE  TypeOK'
  BY <1>18 DEF ReadBaseRef
<1>19. ASSUME NEW p \in Procs, CreateBranchRef(p) PROVE  TypeOK'
  <2>1. name[p] \in Cursors /\ target[p] \in Nat
    BY DEF Cursors
  <2>2. refs' \in [Cursors -> Nat] /\ pc' \in [Procs -> Labels]
    BY <1>19, <2>1 DEF CreateBranchRef
  <2> QED
    BY <1>19, <2>2 DEF CreateBranchRef
<1>20. ASSUME NEW p \in Procs, ReadBranchRef(p) PROVE  TypeOK'
  BY <1>20 DEF ReadBranchRef, Cursors
<1>21. ASSUME NEW p \in Procs, NEW f \in Paths, MaterializePath(p, f)
      PROVE  TypeOK'
  <2>1. RootOf[p] \in Roots /\ work[RootOf[p]] \in Trees
    OBVIOUS
  <2>2. target[p] \in Stored
    BY <1>21 DEF MaterializePath, TargetsExist
  <2>3. snaps[target[p]].tree \in Trees
    BY <2>2, StoredFields
  <2>4. [work[RootOf[p]] EXCEPT ![f] = snaps[target[p]].tree[f]] \in Trees
    BY <2>1, <2>3 DEF Trees
  <2>5. work' \in [Roots -> Trees]
    BY <1>21, <2>1, <2>4 DEF MaterializePath
  <2>6. left' \in [Procs -> SUBSET Paths] /\ pc' \in [Procs -> Labels]
    BY <1>21, ZenonT(60) DEF MaterializePath
  <2>7. cur' \in [Procs -> Cursors]
    BY <1>21, <2>1, ZenonT(60) DEF MaterializePath, Roots, Cursors
  <2> QED
    BY <1>21, <2>5, <2>6, <2>7 DEF MaterializePath
<1>22. ASSUME NEW p \in Procs, MoveHead(p) PROVE  TypeOK'
  BY <1>22 DEF MoveHead
<1>23. ASSUME NEW p \in Procs, MoveCursor(p) PROVE  TypeOK'
  BY <1>23 DEF MoveCursor
<1>24. ASSUME NEW p \in Procs, CheckMarker(p) PROVE  TypeOK'
  BY <1>24 DEF CheckMarker
<1>25. ASSUME NEW p \in Procs, ListSnapshots(p) PROVE  TypeOK'
  <2>1. todo' \in [Procs -> SUBSET Nat]
    BY <1>25, StoredInterval, ZenonT(60) DEF ListSnapshots
  <2> QED
    BY <1>25, <2>1 DEF ListSnapshots
<1>26. ASSUME NEW p \in Procs, FillIndex(p) PROVE  TypeOK'
  BY <1>26 DEF FillIndex
<1>27. ASSUME NEW p \in Procs, MarkComplete(p) PROVE  TypeOK'
  BY <1>27 DEF MarkComplete
<1>28. ASSUME NEW p \in Procs, NEW l \in {Free, Orphan}, Fault(p, l)
      PROVE  TypeOK'
  <2>1. locks' \in [Locks -> Procs \cup {Free, Orphan}]
    BY <1>28 DEF Fault
  <2> QED
    BY <1>28, <2>1 DEF Fault
<1>29. CASE UNCHANGED vars
  BY <1>29 DEF vars
<1> QED
  BY <1>1, <1>2, <1>3, <1>4, <1>5, <1>6, <1>7, <1>8, <1>9, <1>10, <1>11,
     <1>12, <1>13, <1>14, <1>15, <1>16, <1>17, <1>18, <1>19, <1>20, <1>21,
     <1>22, <1>23, <1>24, <1>25, <1>26, <1>27, <1>28, <1>29
  DEF Next, Start, Step, UserEdit, IoError, Crash

(* Only these actions change HEAD, refs, snapshots or index.               *)
LEMMA FrameDisk ==
    ASSUME [Next]_vars
    PROVE  \/ UNCHANGED <<head, refs, snaps, index>>
           \/ \E p \in Procs :
                 \/ PutSnapshot(p) \/ WriteIndexEntry(p) \/ AdvanceCursor(p)
                 \/ CreateBranchRef(p) \/ MoveHead(p) \/ MoveCursor(p)
                 \/ FillIndex(p)
<1> USE DEF disk
<1>1. ASSUME NEW p \in Procs, Start(p)
      PROVE  UNCHANGED <<head, refs, snaps, index>>
  BY <1>1 DEF Start, StartSnapshot, StartRestore, StartGraph, StartBranch,
              BeginOperation
<1>2. ASSUME NEW p \in Procs, Step(p)
      PROVE  \/ UNCHANGED <<head, refs, snaps, index>>
             \/ PutSnapshot(p) \/ WriteIndexEntry(p) \/ AdvanceCursor(p)
             \/ CreateBranchRef(p) \/ MoveHead(p) \/ MoveCursor(p)
             \/ FillIndex(p)
  BY <1>2 DEF Step, CapturePath, MaterializePath, ReadCursor, AcquireLock,
              RemoveStaleLock, LockTimeout, ReadParent, ReleaseLock,
              FinishLocked, ReadBaseCursor, ReadBaseRef, ReadBranchRef,
              CheckMarker, ListSnapshots, MarkComplete
<1>3. ASSUME NEW p \in Procs, IoError(p) \/ Crash(p)
      PROVE  UNCHANGED <<head, refs, snaps, index>>
  BY <1>3 DEF IoError, Crash, Fault
<1>4. ASSUME UserEdit PROVE UNCHANGED <<head, refs, snaps, index>>
  BY <1>4 DEF UserEdit, Edit
<1>5. ASSUME UNCHANGED vars PROVE UNCHANGED <<head, refs, snaps, index>>
  BY <1>5 DEF vars
<1> QED
  BY <1>1, <1>2, <1>3, <1>4, <1>5 DEF Next

LEMMA IntegrityStep ==
    ASSUME IndInv, [Next]_vars
    PROVE  ReferenceIntegrity'
<1> USE ConstantsAssumption, StoredInterval
    DEF IndInv, TypeOK, ReferenceIntegrity, Goto
<1>1. CASE UNCHANGED <<head, refs, snaps, index>>
  BY <1>1 DEF Stored
<1>2. ASSUME NEW p \in Procs, PutSnapshot(p) PROVE ReferenceIntegrity'
  <2>1. /\ Stored \subseteq Stored'
        /\ \A i \in Stored : snaps'[i] = snaps[i]
        /\ \A i \in Stored' \ Stored :
               /\ i = Len(snaps) + 1
               /\ snaps'[i] = NewSnapshot(p)
    BY <1>2, PutSnapshotStores
  <2>2. parent[p] \in Stored
    BY <1>2 DEF PutSnapshot, ParentIsCurrent
  <2>3. ASSUME NEW i \in Stored' PROVE snaps'[i].parent \in 0..(i - 1)
    <3>1. CASE i \in Stored
      BY <2>1, <3>1
    <3>2. CASE i \notin Stored
      <4>1. i = Len(snaps) + 1 /\ snaps'[i].parent = parent[p]
        BY <2>1, <3>2, NewSnapshotFields
      <4>2. parent[p] \in 1..Len(snaps) /\ Len(snaps) \in Nat
        BY <2>2
      <4> QED
        BY <4>1, <4>2
    <3> QED
      BY <3>1, <3>2
  <2>4. UNCHANGED <<head, refs, index>>
    BY <1>2 DEF PutSnapshot
  <2> QED
    BY <2>1, <2>3, <2>4
<1>3. ASSUME NEW p \in Procs, WriteIndexEntry(p) PROVE ReferenceIntegrity'
  BY <1>3, ZenonT(60) DEF WriteIndexEntry, SavedTreeIsCaptured, SavedTree, Stored
<1>4. ASSUME NEW p \in Procs, AdvanceCursor(p) PROVE ReferenceIntegrity'
  BY <1>4, SMTT(60) DEF AdvanceCursor, SavedTreeIsCaptured, SavedTree, Stored
<1>5. ASSUME NEW p \in Procs, CreateBranchRef(p) PROVE ReferenceIntegrity'
  BY <1>5 DEF CreateBranchRef, TargetsExist, Stored, Cursors
<1>6. ASSUME NEW p \in Procs, MoveHead(p) PROVE ReferenceIntegrity'
  BY <1>6 DEF MoveHead, TargetsExist, Running, Stored
<1>7. ASSUME NEW p \in Procs, MoveCursor(p) PROVE ReferenceIntegrity'
  BY <1>7, SMTT(60) DEF MoveCursor, TargetsExist, Stored
<1>8. ASSUME NEW p \in Procs, FillIndex(p) PROVE ReferenceIntegrity'
  BY <1>8 DEF FillIndex, TargetsExist, Stored
<1> QED
  BY <1>1, <1>2, <1>3, <1>4, <1>5, <1>6, <1>7, <1>8, FrameDisk

(* A new automatic snapshot was compared with its parent under the lock.   *)
LEMMA DiffersStep ==
    ASSUME IndInv, [Next]_vars
    PROVE  AutomaticSnapshotsDiffer'
<1> USE DEF IndInv, AutomaticSnapshotsDiffer
<1>1. CASE UNCHANGED snaps
  BY <1>1 DEF Stored
<1>2. ASSUME NEW p \in Procs, PutSnapshot(p) PROVE AutomaticSnapshotsDiffer'
  <2>1. /\ Stored \subseteq Stored'
        /\ \A i \in Stored : snaps'[i] = snaps[i]
        /\ \A i \in Stored' \ Stored :
               snaps'[i] = NewSnapshot(p)
    BY <1>2, PutSnapshotStores
  <2>2. parent[p] \in Stored /\ parent[p] # 0
    BY <1>2, StoredInterval
    DEF PutSnapshot, ParentIsCurrent, ReferenceIntegrity, TypeOK
  <2>3. op[p] # "snapshot" => snaps[parent[p]].tree # cap[p]
    BY <1>2 DEF PutSnapshot, SavedTreeIsCaptured, SavedTree
  <2>4. ASSUME NEW i \in Stored, snaps[i].auto
        PROVE  snaps[i].parent \in Stored
    BY <2>4, StoredInterval, StoredFields DEF ReferenceIntegrity
  <2> SUFFICES ASSUME NEW i \in Stored', snaps'[i].auto
               PROVE  /\ snaps'[i].parent # 0
                      /\ snaps'[snaps'[i].parent].tree # snaps'[i].tree
    OBVIOUS
  <2>5. CASE i \in Stored
    BY <2>1, <2>4, <2>5
  <2>6. CASE i \notin Stored
    <3>1. snaps'[i] = NewSnapshot(p)
      BY <2>1, <2>6
    <3> QED
      BY <2>1, <2>2, <2>3, <3>1, NewSnapshotFields
  <2> QED
    BY <2>5, <2>6
<1> QED
  BY <1>1, <1>2, FrameDisk
  DEF WriteIndexEntry, AdvanceCursor, CreateBranchRef, MoveHead, MoveCursor,
      FillIndex

(* Operations only pass through their own labels.                          *)
LEMMA LabelsStep ==
    ASSUME IndInv, [Next]_vars
    PROVE  LabelsMatchOps'
<1> USE DEF IndInv, TypeOK, Goto, disk, local, env, LabelsMatchOps
<1>1. ASSUME NEW r \in Roots, NEW f \in Paths, NEW c \in Contents, Edit(r, f, c)
      PROVE  LabelsMatchOps'
  BY <1>1 DEF Edit
<1>2. ASSUME NEW p \in Procs, StartSnapshot(p) PROVE  LabelsMatchOps'
  BY <1>2 DEF StartSnapshot, BeginOperation
<1>3. ASSUME NEW p \in Procs, NEW b \in Branches, StartBranch(p, b)
      PROVE  LabelsMatchOps'
  BY <1>3 DEF StartBranch, BeginOperation
<1>4. ASSUME NEW p \in Procs, StartRestore(p) PROVE  LabelsMatchOps'
  BY <1>4 DEF StartRestore, BeginOperation
<1>5. ASSUME NEW p \in Procs, StartGraph(p) PROVE  LabelsMatchOps'
  BY <1>5 DEF StartGraph, BeginOperation
<1>6. ASSUME NEW p \in Procs, NEW f \in Paths, CapturePath(p, f)
      PROVE  LabelsMatchOps'
  BY <1>6 DEF CapturePath
<1>7. ASSUME NEW p \in Procs, ReadCursor(p) PROVE  LabelsMatchOps'
  BY <1>7 DEF ReadCursor
<1>8. ASSUME NEW p \in Procs, AcquireLock(p) PROVE  LabelsMatchOps'
  BY <1>8 DEF AcquireLock, Waiting
<1>9. ASSUME NEW p \in Procs, RemoveStaleLock(p) PROVE  LabelsMatchOps'
  BY <1>9 DEF RemoveStaleLock
<1>10. ASSUME NEW p \in Procs, LockTimeout(p) PROVE  LabelsMatchOps'
  BY <1>10 DEF LockTimeout
<1>11. ASSUME NEW p \in Procs, ReadParent(p) PROVE  LabelsMatchOps'
  BY <1>11 DEF ReadParent, AfterSave, AllOps
<1>12. ASSUME NEW p \in Procs, PutSnapshot(p) PROVE  LabelsMatchOps'
  BY <1>12 DEF PutSnapshot
<1>13. ASSUME NEW p \in Procs, WriteIndexEntry(p) PROVE  LabelsMatchOps'
  BY <1>13 DEF WriteIndexEntry
<1>14. ASSUME NEW p \in Procs, AdvanceCursor(p) PROVE  LabelsMatchOps'
  BY <1>14 DEF AdvanceCursor, AfterSave, AllOps
<1>15. ASSUME NEW p \in Procs, ReleaseLock(p) PROVE  LabelsMatchOps'
  BY <1>15 DEF ReleaseLock
<1>16. ASSUME NEW p \in Procs, FinishLocked(p) PROVE  LabelsMatchOps'
  BY <1>16 DEF FinishLocked
<1>17. ASSUME NEW p \in Procs, ReadBaseCursor(p) PROVE  LabelsMatchOps'
  BY <1>17 DEF ReadBaseCursor
<1>18. ASSUME NEW p \in Procs, ReadBaseRef(p) PROVE  LabelsMatchOps'
  BY <1>18 DEF ReadBaseRef
<1>19. ASSUME NEW p \in Procs, CreateBranchRef(p) PROVE  LabelsMatchOps'
  BY <1>19 DEF CreateBranchRef
<1>20. ASSUME NEW p \in Procs, ReadBranchRef(p) PROVE  LabelsMatchOps'
  BY <1>20 DEF ReadBranchRef
<1>21. ASSUME NEW p \in Procs, NEW f \in Paths, MaterializePath(p, f)
      PROVE  LabelsMatchOps'
  BY <1>21 DEF MaterializePath
<1>22. ASSUME NEW p \in Procs, MoveHead(p) PROVE  LabelsMatchOps'
  BY <1>22 DEF MoveHead
<1>23. ASSUME NEW p \in Procs, MoveCursor(p) PROVE  LabelsMatchOps'
  BY <1>23 DEF MoveCursor
<1>24. ASSUME NEW p \in Procs, CheckMarker(p) PROVE  LabelsMatchOps'
  BY <1>24 DEF CheckMarker
<1>25. ASSUME NEW p \in Procs, ListSnapshots(p) PROVE  LabelsMatchOps'
  BY <1>25 DEF ListSnapshots
<1>26. ASSUME NEW p \in Procs, FillIndex(p) PROVE  LabelsMatchOps'
  BY <1>26 DEF FillIndex
<1>27. ASSUME NEW p \in Procs, MarkComplete(p) PROVE  LabelsMatchOps'
  BY <1>27 DEF MarkComplete
<1>28. ASSUME NEW p \in Procs, NEW l \in {Free, Orphan}, Fault(p, l)
      PROVE  LabelsMatchOps'
  BY <1>28 DEF Fault
<1>29. CASE UNCHANGED vars
  BY <1>29 DEF vars
<1> QED
  BY <1>1, <1>2, <1>3, <1>4, <1>5, <1>6, <1>7, <1>8, <1>9, <1>10, <1>11,
     <1>12, <1>13, <1>14, <1>15, <1>16, <1>17, <1>18, <1>19, <1>20, <1>21,
     <1>22, <1>23, <1>24, <1>25, <1>26, <1>27, <1>28, <1>29
  DEF Next, Start, Step, UserEdit, IoError, Crash

(* A lock file is created for the process that enters and stays its own    *)
(* until it leaves: no other process is in the critical section.           *)
LEMMA LocksStep ==
    ASSUME IndInv, [Next]_vars
    PROVE  LocksHeld'
<1> USE ConstantsAssumption
    DEF IndInv, TypeOK, Goto, disk, local, env, LabelsMatchOps, LocksHeld,
        HoldsLock, LockOf
<1>1. ASSUME NEW r \in Roots, NEW f \in Paths, NEW c \in Contents, Edit(r, f, c)
      PROVE  LocksHeld'
  BY <1>1 DEF Edit
<1>2. ASSUME NEW p \in Procs, StartSnapshot(p) PROVE  LocksHeld'
  BY <1>2 DEF StartSnapshot, BeginOperation
<1>3. ASSUME NEW p \in Procs, NEW b \in Branches, StartBranch(p, b)
      PROVE  LocksHeld'
  BY <1>3 DEF StartBranch, BeginOperation
<1>4. ASSUME NEW p \in Procs, StartRestore(p) PROVE  LocksHeld'
  BY <1>4 DEF StartRestore, BeginOperation
<1>5. ASSUME NEW p \in Procs, StartGraph(p) PROVE  LocksHeld'
  BY <1>5 DEF StartGraph, BeginOperation
<1>6. ASSUME NEW p \in Procs, NEW f \in Paths, CapturePath(p, f)
      PROVE  LocksHeld'
  BY <1>6 DEF CapturePath
<1>7. ASSUME NEW p \in Procs, ReadCursor(p) PROVE  LocksHeld'
  BY <1>7 DEF ReadCursor
<1>8. ASSUME NEW p \in Procs, AcquireLock(p) PROVE  LocksHeld'
  <2>1. locks' = [locks EXCEPT ![LockOf(p)] = p] /\ UNCHANGED <<op, cur>>
    BY <1>8 DEF AcquireLock
  <2>2. locks'[LockOf(p)] = p
    BY <2>1, LockOfIsLock
  <2>3. ASSUME NEW q \in Procs, q # p, HoldsLock(q)'
        PROVE  locks'[LockOf(q)'] = q
    <3>1. HoldsLock(q) /\ LockOf(q)' = LockOf(q)
      BY <1>8, <2>1, <2>3 DEF AcquireLock
    <3>2. LockOf(q) # LockOf(p)
      BY <1>8, <3>1 DEF AcquireLock
    <3> QED
      BY <2>1, <3>1, <3>2
  <2> QED
    BY <2>1, <2>2, <2>3
<1>9. ASSUME NEW p \in Procs, RemoveStaleLock(p) PROVE  LocksHeld'
  BY <1>9 DEF RemoveStaleLock
<1>10. ASSUME NEW p \in Procs, LockTimeout(p) PROVE  LocksHeld'
  BY <1>10 DEF LockTimeout
<1>11. ASSUME NEW p \in Procs, ReadParent(p) PROVE  LocksHeld'
  BY <1>11 DEF ReadParent, AfterSave
<1>12. ASSUME NEW p \in Procs, PutSnapshot(p) PROVE  LocksHeld'
  BY <1>12 DEF PutSnapshot
<1>13. ASSUME NEW p \in Procs, WriteIndexEntry(p) PROVE  LocksHeld'
  BY <1>13 DEF WriteIndexEntry
<1>14. ASSUME NEW p \in Procs, AdvanceCursor(p) PROVE  LocksHeld'
  BY <1>14 DEF AdvanceCursor, AfterSave
<1>15. ASSUME NEW p \in Procs, ReleaseLock(p) PROVE  LocksHeld'
  BY <1>15 DEF ReleaseLock
<1>16. ASSUME NEW p \in Procs, FinishLocked(p) PROVE  LocksHeld'
  BY <1>16 DEF FinishLocked
<1>17. ASSUME NEW p \in Procs, ReadBaseCursor(p) PROVE  LocksHeld'
  BY <1>17 DEF ReadBaseCursor
<1>18. ASSUME NEW p \in Procs, ReadBaseRef(p) PROVE  LocksHeld'
  BY <1>18 DEF ReadBaseRef
<1>19. ASSUME NEW p \in Procs, CreateBranchRef(p) PROVE  LocksHeld'
  BY <1>19, ZenonT(60) DEF CreateBranchRef
<1>20. ASSUME NEW p \in Procs, ReadBranchRef(p) PROVE  LocksHeld'
  BY <1>20 DEF ReadBranchRef
<1>21. ASSUME NEW p \in Procs, NEW f \in Paths, MaterializePath(p, f)
      PROVE  LocksHeld'
  <2>1. UNCHANGED <<locks, op>>
    BY <1>21 DEF MaterializePath
  <2>2. ASSUME NEW q \in Procs, q # p
        PROVE  pc'[q] = pc[q] /\ cur'[q] = cur[q]
    BY <1>21, <2>2 DEF MaterializePath
  <2>3. HoldsLock(p)' => HoldsLock(p) /\ cur'[p] = cur[p]
    BY <1>21 DEF MaterializePath
  <2> SUFFICES ASSUME NEW q \in Procs, HoldsLock(q)'
               PROVE  locks'[LockOf(q)'] = q
    OBVIOUS
  <2>4. CASE q = p
    BY <2>1, <2>3, <2>4
  <2>5. CASE q # p
    BY <2>1, <2>2, <2>5
  <2> QED
    BY <2>4, <2>5
<1>22. ASSUME NEW p \in Procs, MoveHead(p) PROVE  LocksHeld'
  BY <1>22 DEF MoveHead
<1>23. ASSUME NEW p \in Procs, MoveCursor(p) PROVE  LocksHeld'
  BY <1>23 DEF MoveCursor
<1>24. ASSUME NEW p \in Procs, CheckMarker(p) PROVE  LocksHeld'
  BY <1>24 DEF CheckMarker
<1>25. ASSUME NEW p \in Procs, ListSnapshots(p) PROVE  LocksHeld'
  BY <1>25 DEF ListSnapshots
<1>26. ASSUME NEW p \in Procs, FillIndex(p) PROVE  LocksHeld'
  BY <1>26 DEF FillIndex
<1>27. ASSUME NEW p \in Procs, MarkComplete(p) PROVE  LocksHeld'
  BY <1>27 DEF MarkComplete
<1>28. ASSUME NEW p \in Procs, NEW l \in {Free, Orphan}, Fault(p, l)
      PROVE  LocksHeld'
  BY <1>28 DEF Fault
<1>29. CASE UNCHANGED vars
  BY <1>29 DEF vars
<1> QED
  BY <1>1, <1>2, <1>3, <1>4, <1>5, <1>6, <1>7, <1>8, <1>9, <1>10, <1>11,
     <1>12, <1>13, <1>14, <1>15, <1>16, <1>17, <1>18, <1>19, <1>20, <1>21,
     <1>22, <1>23, <1>24, <1>25, <1>26, <1>27, <1>28, <1>29
  DEF Next, Start, Step, UserEdit, IoError, Crash

(* A cursor that exists goes on existing, and while a process holds the    *)
(* cursor's lock nobody else moves the cursor.                             *)
LEMMA ParentStep ==
    ASSUME IndInv, [Next]_vars
    PROVE  ParentIsCurrent'
<1> USE ConstantsAssumption
    DEF IndInv, TypeOK, Goto, disk, local, env, ParentIsCurrent
<1>1. ASSUME NEW r \in Roots, NEW f \in Paths, NEW c \in Contents, Edit(r, f, c)
      PROVE  ParentIsCurrent'
  BY <1>1 DEF Edit
<1>2. ASSUME NEW p \in Procs, StartSnapshot(p) PROVE  ParentIsCurrent'
  BY <1>2 DEF StartSnapshot, BeginOperation
<1>3. ASSUME NEW p \in Procs, NEW b \in Branches, StartBranch(p, b)
      PROVE  ParentIsCurrent'
  BY <1>3 DEF StartBranch, BeginOperation
<1>4. ASSUME NEW p \in Procs, StartRestore(p) PROVE  ParentIsCurrent'
  BY <1>4 DEF StartRestore, BeginOperation
<1>5. ASSUME NEW p \in Procs, StartGraph(p) PROVE  ParentIsCurrent'
  BY <1>5 DEF StartGraph, BeginOperation
<1>6. ASSUME NEW p \in Procs, NEW f \in Paths, CapturePath(p, f)
      PROVE  ParentIsCurrent'
  BY <1>6 DEF CapturePath
<1>7. ASSUME NEW p \in Procs, ReadCursor(p) PROVE  ParentIsCurrent'
  BY <1>7 DEF ReadCursor, CursorOf, Roots, Cursors, ReferenceIntegrity
<1>8. ASSUME NEW p \in Procs, AcquireLock(p) PROVE  ParentIsCurrent'
  BY <1>8 DEF AcquireLock, Waiting
<1>9. ASSUME NEW p \in Procs, RemoveStaleLock(p) PROVE  ParentIsCurrent'
  BY <1>9 DEF RemoveStaleLock
<1>10. ASSUME NEW p \in Procs, LockTimeout(p) PROVE  ParentIsCurrent'
  BY <1>10 DEF LockTimeout
<1>11. ASSUME NEW p \in Procs, ReadParent(p) PROVE  ParentIsCurrent'
  BY <1>11 DEF ReadParent, AfterSave
<1>12. ASSUME NEW p \in Procs, PutSnapshot(p) PROVE  ParentIsCurrent'
  BY <1>12 DEF PutSnapshot
<1>13. ASSUME NEW p \in Procs, WriteIndexEntry(p) PROVE  ParentIsCurrent'
  BY <1>13 DEF WriteIndexEntry
<1>14. ASSUME NEW p \in Procs, AdvanceCursor(p) PROVE  ParentIsCurrent'
  <2>1. refs' = [refs EXCEPT ![cur[p]] = new[p]] /\ UNCHANGED <<cur, parent>>
    BY <1>14 DEF AdvanceCursor
  <2>2. new[p] # 0
    BY <1>14, StoredInterval DEF AdvanceCursor, SavedTreeIsCaptured, SavedTree
  <2>3. HoldsLock(p) /\ LockOf(p) = cur[p]
    BY <1>14 DEF AdvanceCursor, HoldsLock, LockOf, LabelsMatchOps
  <2>4. ASSUME NEW q \in Procs, pc'[q] \in {"put", "index", "advance"}
        PROVE  pc'[q] = pc[q] /\ q # p
    BY <1>14, <2>4 DEF AdvanceCursor, AfterSave
  <2>5. ASSUME NEW q \in Procs, pc'[q] \in {"put", "index", "advance"}
        PROVE  cur[q] # cur[p]
    BY <2>3, <2>4, <2>5, OneHolder, SMTT(60) DEF HoldsLock, LockOf, LabelsMatchOps
  <2> QED
    BY <2>1, <2>2, <2>4, <2>5
<1>15. ASSUME NEW p \in Procs, ReleaseLock(p) PROVE  ParentIsCurrent'
  BY <1>15 DEF ReleaseLock
<1>16. ASSUME NEW p \in Procs, FinishLocked(p) PROVE  ParentIsCurrent'
  BY <1>16 DEF FinishLocked
<1>17. ASSUME NEW p \in Procs, ReadBaseCursor(p) PROVE  ParentIsCurrent'
  BY <1>17 DEF ReadBaseCursor, CursorOf, Roots, Cursors, ReferenceIntegrity
<1>18. ASSUME NEW p \in Procs, ReadBaseRef(p) PROVE  ParentIsCurrent'
  BY <1>18 DEF ReadBaseRef
<1>19. ASSUME NEW p \in Procs, CreateBranchRef(p) PROVE  ParentIsCurrent'
  <2>1. \A q \in Procs : cur[q] # name[p] \/ refs' = refs
    BY <1>19 DEF CreateBranchRef
  <2> QED
    BY <1>19, <2>1 DEF CreateBranchRef, Cursors
<1>20. ASSUME NEW p \in Procs, ReadBranchRef(p) PROVE  ParentIsCurrent'
  BY <1>20 DEF ReadBranchRef
<1>21. ASSUME NEW p \in Procs, NEW f \in Paths, MaterializePath(p, f)
      PROVE  ParentIsCurrent'
  <2>1. RootOf[p] # MainRoot => RootOf[p] \in Workspaces
    BY DEF Roots
  <2>2. RootOf[p] # MainRoot => refs[RootOf[p]] # 0
    BY <2>1 DEF ReferenceIntegrity
  <2>3. cur'[p] = cur[p] \/ (RootOf[p] # MainRoot /\ cur'[p] = RootOf[p])
    BY <1>21 DEF MaterializePath
  <2>4. \A q \in Procs : q # p => cur'[q] = cur[q] /\ pc'[q] = pc[q]
    BY <1>21 DEF MaterializePath
  <2>5. UNCHANGED <<refs, parent>>
        /\ pc'[p] \in {"materialize", "move_lock", "move"}
    BY <1>21 DEF MaterializePath
  <2> QED
    BY <2>2, <2>3, <2>4, <2>5, ZenonT(60)
<1>22. ASSUME NEW p \in Procs, MoveHead(p) PROVE  ParentIsCurrent'
  BY <1>22 DEF MoveHead
<1>23. ASSUME NEW p \in Procs, MoveCursor(p) PROVE  ParentIsCurrent'
  <2>1. refs' = [refs EXCEPT ![cur[p]] = target[p]] /\ UNCHANGED <<cur, parent>>
    BY <1>23 DEF MoveCursor
  <2>2. target[p] # 0
    BY <1>23, StoredInterval DEF MoveCursor, TargetsExist
  <2>3. HoldsLock(p) /\ LockOf(p) = cur[p]
    BY <1>23 DEF HoldsLock, LockOf, LabelsMatchOps, MoveCursor
  <2>4. ASSUME NEW q \in Procs, pc'[q] \in {"put", "index", "advance"}
        PROVE  pc'[q] = pc[q] /\ q # p
    BY <1>23, <2>4 DEF MoveCursor
  <2>5. ASSUME NEW q \in Procs, pc'[q] \in {"put", "index", "advance"}
        PROVE  cur[q] # cur[p]
    BY <2>3, <2>4, <2>5, OneHolder, SMTT(60) DEF HoldsLock, LockOf, LabelsMatchOps
  <2> QED
    BY <2>1, <2>2, <2>4, <2>5
<1>24. ASSUME NEW p \in Procs, CheckMarker(p) PROVE  ParentIsCurrent'
  BY <1>24 DEF CheckMarker
<1>25. ASSUME NEW p \in Procs, ListSnapshots(p) PROVE  ParentIsCurrent'
  BY <1>25 DEF ListSnapshots
<1>26. ASSUME NEW p \in Procs, FillIndex(p) PROVE  ParentIsCurrent'
  BY <1>26 DEF FillIndex
<1>27. ASSUME NEW p \in Procs, MarkComplete(p) PROVE  ParentIsCurrent'
  BY <1>27 DEF MarkComplete
<1>28. ASSUME NEW p \in Procs, NEW l \in {Free, Orphan}, Fault(p, l)
      PROVE  ParentIsCurrent'
  BY <1>28 DEF Fault
<1>29. CASE UNCHANGED vars
  BY <1>29 DEF vars
<1> QED
  BY <1>1, <1>2, <1>3, <1>4, <1>5, <1>6, <1>7, <1>8, <1>9, <1>10, <1>11,
     <1>12, <1>13, <1>14, <1>15, <1>16, <1>17, <1>18, <1>19, <1>20, <1>21,
     <1>22, <1>23, <1>24, <1>25, <1>26, <1>27, <1>28, <1>29
  DEF Next, Start, Step, UserEdit, IoError, Crash

(* What was captured is what the stored snapshot and, during a restore,    *)
(* the cursor's snapshot contain.                                          *)
LEMMA SavedStep ==
    ASSUME IndInv, [Next]_vars
    PROVE  SavedTreeIsCaptured'
<1> USE ConstantsAssumption
    DEF IndInv, TypeOK, Goto, disk, local, env, Stored, SavedTreeIsCaptured,
        SavedTree, LabelsMatchOps
<1>1. ASSUME NEW r \in Roots, NEW f \in Paths, NEW c \in Contents, Edit(r, f, c)
      PROVE  SavedTreeIsCaptured'
  BY <1>1 DEF Edit
<1>2. ASSUME NEW p \in Procs, StartSnapshot(p) PROVE  SavedTreeIsCaptured'
  BY <1>2 DEF StartSnapshot, BeginOperation
<1>3. ASSUME NEW p \in Procs, NEW b \in Branches, StartBranch(p, b)
      PROVE  SavedTreeIsCaptured'
  BY <1>3, SMTT(60) DEF StartBranch, BeginOperation
<1>4. ASSUME NEW p \in Procs, StartRestore(p) PROVE  SavedTreeIsCaptured'
  BY <1>4 DEF StartRestore, BeginOperation
<1>5. ASSUME NEW p \in Procs, StartGraph(p) PROVE  SavedTreeIsCaptured'
  BY <1>5 DEF StartGraph, BeginOperation
<1>6. ASSUME NEW p \in Procs, NEW f \in Paths, CapturePath(p, f)
      PROVE  SavedTreeIsCaptured'
  BY <1>6, SMTT(60) DEF CapturePath
<1>7. ASSUME NEW p \in Procs, ReadCursor(p) PROVE  SavedTreeIsCaptured'
  BY <1>7 DEF ReadCursor
<1>8. ASSUME NEW p \in Procs, AcquireLock(p) PROVE  SavedTreeIsCaptured'
  BY <1>8 DEF AcquireLock, Waiting
<1>9. ASSUME NEW p \in Procs, RemoveStaleLock(p) PROVE  SavedTreeIsCaptured'
  BY <1>9 DEF RemoveStaleLock
<1>10. ASSUME NEW p \in Procs, LockTimeout(p) PROVE  SavedTreeIsCaptured'
  BY <1>10 DEF LockTimeout
<1>11. ASSUME NEW p \in Procs, ReadParent(p) PROVE  SavedTreeIsCaptured'
  BY <1>11 DEF ReadParent, AfterSave, ReferenceIntegrity
<1>12. ASSUME NEW p \in Procs, PutSnapshot(p) PROVE  SavedTreeIsCaptured'
  <2>1. /\ Stored \subseteq Stored'
        /\ \A i \in Stored : snaps'[i] = snaps[i]
        /\ \A q \in Procs : q # p => new'[q] = new[q]
        /\ new'[p] \in Stored'
        /\ snaps'[new'[p]] = NewSnapshot(p)
    BY <1>12, PutSnapshotStores
  <2>2. UNCHANGED <<refs, op, cap, cur, parent>>
        /\ pc'[p] = "index" /\ \A q \in Procs : q # p => pc'[q] = pc[q]
    BY <1>12 DEF PutSnapshot
  <2>3. \A q \in Procs : refs[cur[q]] \in Stored
    BY DEF ParentIsCurrent, ReferenceIntegrity
  <2>4. ASSUME NEW q \in Procs, pc[q] = "put" PROVE parent[q] \in Stored
    BY <2>3, <2>4 DEF ParentIsCurrent
  <2> HIDE DEF Stored
  <2>5. ASSUME NEW q \in Procs, q # p PROVE SavedTree(q)'
    <3>1. pc'[q] = pc[q] /\ new'[q] = new[q]
      BY <2>1, <2>2, <2>5
    <3>2. snaps'[refs[cur[q]]] = snaps[refs[cur[q]]]
      BY <2>1, <2>3
    <3>3. pc[q] = "put" => snaps'[parent[q]] = snaps[parent[q]]
      BY <2>1, <2>4
    <3>4. pc[q] \in {"index", "advance"}
             => new[q] \in Stored' /\ snaps'[new[q]] = snaps[new[q]]
      BY <2>1
    <3> QED
      BY <2>2, <3>1, <3>2, <3>3, <3>4
  <2>6. SavedTree(p)'
    BY <2>1, <2>2, NewSnapshotFields
  <2> QED
    BY <2>5, <2>6
<1>13. ASSUME NEW p \in Procs, WriteIndexEntry(p) PROVE  SavedTreeIsCaptured'
  BY <1>13 DEF WriteIndexEntry
<1>14. ASSUME NEW p \in Procs, AdvanceCursor(p) PROVE  SavedTreeIsCaptured'
  <2>1. refs' = [refs EXCEPT ![cur[p]] = new[p]] 
        /\ UNCHANGED <<snaps, cur, cap, op, new, parent>>
    BY <1>14 DEF AdvanceCursor, local
  <2>2. HoldsLock(p) /\ LockOf(p) = cur[p]
    BY <1>14 DEF AdvanceCursor, HoldsLock, LockOf
  <2>3. ASSUME NEW q \in Procs, q # p
        PROVE  /\ pc'[q] = pc[q]
               /\ op[q] = "restore" /\ pc[q] \in {"materialize", "move"}
                     => refs'[cur[q]] = refs[cur[q]]
    <3>1. pc'[q] = pc[q]
      BY <1>14, <2>3 DEF AdvanceCursor
    <3>2. ASSUME op[q] = "restore", pc[q] \in {"materialize", "move"}
          PROVE  cur[q] # cur[p]
      BY <2>2, <2>3, <3>2, OneHolder DEF HoldsLock, LockOf
    <3> QED
      BY <2>1, <3>1, <3>2
  <2>4. pc'[p] \in {"finish", "release", "materialize"}
        /\ refs'[cur[p]] = new[p] /\ snaps[new[p]].tree = cap[p]
    BY <1>14, <2>1 DEF AdvanceCursor, AfterSave
  <2>5. Stored' = Stored
    BY <2>1
  <2>6. ASSUME NEW q \in Procs, q # p PROVE SavedTree(q)'
    BY <2>1, <2>3, <2>5, <2>6
  <2>7. SavedTree(p)'
    BY <2>1, <2>4, <2>5
  <2> QED
    BY <2>6, <2>7
<1>15. ASSUME NEW p \in Procs, ReleaseLock(p) PROVE  SavedTreeIsCaptured'
  BY <1>15 DEF ReleaseLock
<1>16. ASSUME NEW p \in Procs, FinishLocked(p) PROVE  SavedTreeIsCaptured'
  BY <1>16 DEF FinishLocked
<1>17. ASSUME NEW p \in Procs, ReadBaseCursor(p) PROVE  SavedTreeIsCaptured'
  BY <1>17 DEF ReadBaseCursor
<1>18. ASSUME NEW p \in Procs, ReadBaseRef(p) PROVE  SavedTreeIsCaptured'
  BY <1>18 DEF ReadBaseRef
<1>19. ASSUME NEW p \in Procs, CreateBranchRef(p) PROVE  SavedTreeIsCaptured'
  <2>1. \A q \in Procs : refs'[cur[q]] = refs[cur[q]]
    BY <1>19 DEF CreateBranchRef, ParentIsCurrent
  <2>2. /\ UNCHANGED <<snaps, op, cap, cur, parent, new>>
        /\ pc'[p] \in {"done", "failed"}
        /\ \A q \in Procs : q # p => pc'[q] = pc[q]
    BY <1>19 DEF CreateBranchRef
  <2> QED
    BY <2>1, <2>2
<1>20. ASSUME NEW p \in Procs, ReadBranchRef(p) PROVE  SavedTreeIsCaptured'
  BY <1>20 DEF ReadBranchRef
<1>21. ASSUME NEW p \in Procs, NEW f \in Paths, MaterializePath(p, f)
      PROVE  SavedTreeIsCaptured'
  <2>1. UNCHANGED <<refs, snaps, op, cap, parent, new>>
        /\ pc'[p] \in {"materialize", "move_lock", "move"}
    BY <1>21 DEF MaterializePath
  <2>2. \A q \in Procs : q # p => pc'[q] = pc[q] /\ cur'[q] = cur[q]
    BY <1>21 DEF MaterializePath
  <2>3. pc[p] = "materialize" /\ (op[p] = "restore" => cur'[p] = cur[p])
    BY <1>21 DEF MaterializePath
  <2>4. ASSUME NEW q \in Procs, q # p PROVE SavedTree(q)'
    BY <2>1, <2>2, <2>4
  <2>5. SavedTree(p)'
    BY <2>1, <2>3
  <2> QED
    BY <2>4, <2>5
<1>22. ASSUME NEW p \in Procs, MoveHead(p) PROVE  SavedTreeIsCaptured'
  BY <1>22 DEF MoveHead
<1>23. ASSUME NEW p \in Procs, MoveCursor(p) PROVE  SavedTreeIsCaptured'
  <2>1. refs' = [refs EXCEPT ![cur[p]] = target[p]] 
        /\ UNCHANGED <<snaps, cur, cap, op, new, parent>>
    BY <1>23 DEF MoveCursor, local
  <2>2. HoldsLock(p) /\ LockOf(p) = cur[p]
    BY <1>23 DEF MoveCursor, HoldsLock, LockOf
  <2>3. ASSUME NEW q \in Procs, q # p
        PROVE  /\ pc'[q] = pc[q]
               /\ op[q] = "restore" /\ pc[q] \in {"materialize", "move"}
                     => refs'[cur[q]] = refs[cur[q]]
    <3>1. pc'[q] = pc[q]
      BY <1>23, <2>3 DEF MoveCursor
    <3>2. ASSUME op[q] = "restore", pc[q] \in {"materialize", "move"}
          PROVE  cur[q] # cur[p]
      BY <2>2, <2>3, <3>2, OneHolder DEF HoldsLock, LockOf
    <3> QED
      BY <2>1, <3>1, <3>2
  <2>4. pc'[p] = "finish"
    BY <1>23 DEF MoveCursor
  <2>5. Stored' = Stored
    BY <2>1
  <2>6. ASSUME NEW q \in Procs, q # p PROVE SavedTree(q)'
    BY <2>1, <2>3, <2>5, <2>6
  <2>7. SavedTree(p)'
    BY <2>1, <2>4, <2>5
  <2> QED
    BY <2>6, <2>7
<1>24. ASSUME NEW p \in Procs, CheckMarker(p) PROVE  SavedTreeIsCaptured'
  BY <1>24 DEF CheckMarker
<1>25. ASSUME NEW p \in Procs, ListSnapshots(p) PROVE  SavedTreeIsCaptured'
  BY <1>25 DEF ListSnapshots
<1>26. ASSUME NEW p \in Procs, FillIndex(p) PROVE  SavedTreeIsCaptured'
  BY <1>26 DEF FillIndex
<1>27. ASSUME NEW p \in Procs, MarkComplete(p) PROVE  SavedTreeIsCaptured'
  BY <1>27 DEF MarkComplete
<1>28. ASSUME NEW p \in Procs, NEW l \in {Free, Orphan}, Fault(p, l)
      PROVE  SavedTreeIsCaptured'
  BY <1>28 DEF Fault
<1>29. CASE UNCHANGED vars
  BY <1>29 DEF vars
<1> QED
  BY <1>1, <1>2, <1>3, <1>4, <1>5, <1>6, <1>7, <1>8, <1>9, <1>10, <1>11,
     <1>12, <1>13, <1>14, <1>15, <1>16, <1>17, <1>18, <1>19, <1>20, <1>21,
     <1>22, <1>23, <1>24, <1>25, <1>26, <1>27, <1>28, <1>29
  DEF Next, Start, Step, UserEdit, IoError, Crash

(* Snapshots are never removed and refs never deleted, so what a target    *)
(* or a name resolved to still exists.                                     *)
LEMMA TargetsStep ==
    ASSUME IndInv, [Next]_vars
    PROVE  TargetsExist'
<1> USE ConstantsAssumption
    DEF IndInv, TypeOK, Goto, disk, local, env, Stored, TargetsExist,
        LabelsMatchOps, Running
<1>1. ASSUME NEW r \in Roots, NEW f \in Paths, NEW c \in Contents, Edit(r, f, c)
      PROVE  TargetsExist'
  BY <1>1 DEF Edit
<1>2. ASSUME NEW p \in Procs, StartSnapshot(p) PROVE  TargetsExist'
  BY <1>2 DEF StartSnapshot, BeginOperation
<1>3. ASSUME NEW p \in Procs, NEW b \in Branches, StartBranch(p, b)
      PROVE  TargetsExist'
  BY <1>3 DEF StartBranch, BeginOperation
<1>4. ASSUME NEW p \in Procs, StartRestore(p) PROVE  TargetsExist'
  <2>1. \A c \in Cursors : refs[c] # 0 => refs[c] \in Stored
    BY DEF ReferenceIntegrity
  <2>2. index \subseteq Stored
    BY DEF ReferenceIntegrity
  <2>3. ResolvedTargets \subseteq Stored
    <3> HIDE DEF Stored
    <3> SUFFICES ASSUME NEW s \in ResolvedTargets PROVE s \in Stored
      OBVIOUS
    <3>1. CASE s \in index \/ s \in Stored
      BY <2>2, <3>1
    <3>2. CASE \E c \in Cursors : s = refs[c] /\ s # 0
      BY <2>1, <3>2
    <3> QED
      BY <3>1, <3>2 DEF ResolvedTargets
  <2> QED
    BY <1>4, <2>3 DEF StartRestore, BeginOperation
<1>5. ASSUME NEW p \in Procs, StartGraph(p) PROVE  TargetsExist'
  BY <1>5 DEF StartGraph, BeginOperation
<1>6. ASSUME NEW p \in Procs, NEW f \in Paths, CapturePath(p, f)
      PROVE  TargetsExist'
  BY <1>6, SMTT(60) DEF CapturePath
<1>7. ASSUME NEW p \in Procs, ReadCursor(p) PROVE  TargetsExist'
  BY <1>7 DEF ReadCursor
<1>8. ASSUME NEW p \in Procs, AcquireLock(p) PROVE  TargetsExist'
  BY <1>8, ZenonT(60) DEF AcquireLock, Waiting
<1>9. ASSUME NEW p \in Procs, RemoveStaleLock(p) PROVE  TargetsExist'
  BY <1>9 DEF RemoveStaleLock
<1>10. ASSUME NEW p \in Procs, LockTimeout(p) PROVE  TargetsExist'
  BY <1>10 DEF LockTimeout
<1>11. ASSUME NEW p \in Procs, ReadParent(p) PROVE  TargetsExist'
  BY <1>11 DEF ReadParent, AfterSave, AllOps
<1>12. ASSUME NEW p \in Procs, PutSnapshot(p) PROVE  TargetsExist'
  <2>1. Stored \subseteq Stored'
    BY <1>12, PutSnapshotStores
  <2>2. UNCHANGED <<refs, op, target, name, todo>>
        /\ pc'[p] = "index" /\ \A q \in Procs : q # p => pc'[q] = pc[q]
    BY <1>12 DEF PutSnapshot
  <2> HIDE DEF Stored
  <2> QED
    BY <1>12, <2>1, <2>2 DEF PutSnapshot
<1>13. ASSUME NEW p \in Procs, WriteIndexEntry(p) PROVE  TargetsExist'
  BY <1>13 DEF WriteIndexEntry
<1>14. ASSUME NEW p \in Procs, AdvanceCursor(p) PROVE  TargetsExist'
  <2>1. new[p] # 0
    BY <1>14, StoredInterval DEF AdvanceCursor, SavedTreeIsCaptured, SavedTree
  <2>2. \A b \in Branches : refs[b] # 0 => refs'[b] # 0
    BY <1>14, <2>1 DEF AdvanceCursor, Cursors
  <2> QED
    BY <1>14, <2>2 DEF AdvanceCursor, AfterSave, AllOps
<1>15. ASSUME NEW p \in Procs, ReleaseLock(p) PROVE  TargetsExist'
  BY <1>15 DEF ReleaseLock
<1>16. ASSUME NEW p \in Procs, FinishLocked(p) PROVE  TargetsExist'
  BY <1>16 DEF FinishLocked
<1>17. ASSUME NEW p \in Procs, ReadBaseCursor(p) PROVE  TargetsExist'
  BY <1>17 DEF ReadBaseCursor
<1>18. ASSUME NEW p \in Procs, ReadBaseRef(p) PROVE  TargetsExist'
  BY <1>18 DEF ReadBaseRef, ParentIsCurrent, ReferenceIntegrity
<1>19. ASSUME NEW p \in Procs, CreateBranchRef(p) PROVE  TargetsExist'
  <2>1. target[p] # 0
    BY <1>19, StoredInterval DEF CreateBranchRef
  <2>2. \A b \in Branches : refs[b] # 0 => refs'[b] # 0
    BY <1>19, <2>1 DEF CreateBranchRef, Cursors
  <2> QED
    BY <1>19, <2>2, ZenonT(60) DEF CreateBranchRef
<1>20. ASSUME NEW p \in Procs, ReadBranchRef(p) PROVE  TargetsExist'
  BY <1>20 DEF ReadBranchRef, ReferenceIntegrity, Cursors
<1>21. ASSUME NEW p \in Procs, NEW f \in Paths, MaterializePath(p, f)
      PROVE  TargetsExist'
  <2>1. UNCHANGED <<refs, snaps, op, target, name, todo>>
        /\ pc'[p] \in {"materialize", "move_lock", "move"}
    BY <1>21 DEF MaterializePath
  <2>2. pc[p] = "materialize" /\ \A q \in Procs : q # p => pc'[q] = pc[q]
    BY <1>21 DEF MaterializePath
  <2> QED
    BY <2>1, <2>2
<1>22. ASSUME NEW p \in Procs, MoveHead(p) PROVE  TargetsExist'
  BY <1>22 DEF MoveHead
<1>23. ASSUME NEW p \in Procs, MoveCursor(p) PROVE  TargetsExist'
  <2>1. target[p] # 0
    BY <1>23, StoredInterval DEF MoveCursor
  <2>2. \A b \in Branches : refs[b] # 0 => refs'[b] # 0
    BY <1>23, <2>1 DEF MoveCursor, Cursors
  <2> QED
    BY <1>23, <2>2 DEF MoveCursor
<1>24. ASSUME NEW p \in Procs, CheckMarker(p) PROVE  TargetsExist'
  BY <1>24 DEF CheckMarker
<1>25. ASSUME NEW p \in Procs, ListSnapshots(p) PROVE  TargetsExist'
  BY <1>25, ZenonT(60) DEF ListSnapshots
<1>26. ASSUME NEW p \in Procs, FillIndex(p) PROVE  TargetsExist'
  BY <1>26 DEF FillIndex
<1>27. ASSUME NEW p \in Procs, MarkComplete(p) PROVE  TargetsExist'
  BY <1>27 DEF MarkComplete
<1>28. ASSUME NEW p \in Procs, NEW l \in {Free, Orphan}, Fault(p, l)
      PROVE  TargetsExist'
  BY <1>28 DEF Fault
<1>29. CASE UNCHANGED vars
  BY <1>29 DEF vars
<1> QED
  BY <1>1, <1>2, <1>3, <1>4, <1>5, <1>6, <1>7, <1>8, <1>9, <1>10, <1>11,
     <1>12, <1>13, <1>14, <1>15, <1>16, <1>17, <1>18, <1>19, <1>20, <1>21,
     <1>22, <1>23, <1>24, <1>25, <1>26, <1>27, <1>28, <1>29
  DEF Next, Start, Step, UserEdit, IoError, Crash

-----------------------------------------------------------------------------
LEMMA InitIndInv == Init => IndInv
<1> SUFFICES ASSUME Init PROVE IndInv
  OBVIOUS
<1> USE ConstantsAssumption
<1>1. PICK t \in Trees : /\ snaps = <<SnapshotOf(t, 0, FALSE)>>
                         /\ work = [r \in Roots |-> t]
                         /\ cap = [p \in Procs |-> t]
  BY DEF Init
<1>2. SnapshotOf(t, 0, FALSE) \in SnapshotType
  BY DEF SnapshotOf, SnapshotType
<1>3. /\ snaps \in Seq(SnapshotType)
      /\ Stored = {1}
      /\ snaps[1] = SnapshotOf(t, 0, FALSE)
  BY <1>1, <1>2, SingletonSeq, Zenon DEF Stored
<1>4. TypeOK
  <2>1. /\ refs \in [Cursors -> Nat]
        /\ locks \in [Locks -> Procs \cup {Free, Orphan}]
        /\ index \subseteq Nat
    BY DEF Init
  <2>2. /\ pc \in [Procs -> Labels]
        /\ op \in [Procs -> AllOps]
    BY DEF Init, Labels, AllOps
  <2>3. /\ left \in [Procs -> SUBSET Paths]
        /\ todo \in [Procs -> SUBSET Nat]
        /\ parent \in [Procs -> Nat]
        /\ new \in [Procs -> Nat]
        /\ target \in [Procs -> Nat]
    BY DEF Init
  <2>4. /\ cur \in [Procs -> Cursors]
        /\ name \in [Procs -> Branches]
    BY DEF Init, Cursors
  <2>5. /\ work \in [Roots -> Trees]
        /\ cap \in [Procs -> Trees]
    BY <1>1
  <2>6. /\ head \in Branches /\ complete \in BOOLEAN /\ edited \subseteq Roots
        /\ opCount \in 0..MaxOps /\ edits \in 0..MaxEdits
        /\ faults \in 0..MaxFaults
    BY DEF Init
  <2> QED
    BY <1>3, <2>1, <2>2, <2>3, <2>4, <2>5, <2>6 DEF TypeOK
<1>5. ReferenceIntegrity /\ AutomaticSnapshotsDiffer
  BY <1>3 DEF Init, ReferenceIntegrity, AutomaticSnapshotsDiffer, SnapshotOf,
              Cursors
<1>6. LabelsMatchOps /\ LocksHeld
  BY DEF Init, LabelsMatchOps, LocksHeld, HoldsLock
<1>7. ParentIsCurrent /\ SavedTreeIsCaptured /\ TargetsExist
  BY DEF Init, ParentIsCurrent, SavedTreeIsCaptured, SavedTree, TargetsExist,
         Running, Cursors
<1> QED
  BY <1>4, <1>5, <1>6, <1>7 DEF IndInv

(* The inductive invariant: types, integrity of what refs, index and       *)
(* parents name, and what each process remembers while it holds a lock.    *)
THEOREM RepositoryInvariant == Spec => []IndInv
<1>1. IndInv /\ [Next]_vars => IndInv'
  BY TypeStep, IntegrityStep, DiffersStep, LabelsStep, ParentStep, SavedStep,
     TargetsStep, LocksStep
  DEF IndInv
<1> QED
  BY InitIndInv, <1>1, PTL DEF Spec

(* Every variable keeps its type; for the working directories this needs   *)
(* that a materialized snapshot is a stored one.                           *)
THEOREM RepositoryTypeCorrect == Spec => []TypeOK
<1>1. IndInv => TypeOK
  BY DEF IndInv
<1> QED
  BY <1>1, RepositoryInvariant, PTL

(* Whatever fails or crashes between whichever two steps of snapshot,      *)
(* create_branch, switch_branch, restore or an index rebuild, HEAD, refs,  *)
(* index entries and parents name what is stored, and history is acyclic.  *)
THEOREM RepositoryReferences == Spec => []ReferenceIntegrity
<1>1. IndInv => ReferenceIntegrity
  BY DEF IndInv
<1> QED
  BY <1>1, RepositoryInvariant, PTL

(* However many processes snapshot one working directory concurrently, an  *)
(* automatic snapshot never repeats the tree of its parent.                *)
THEOREM RepositoryCollapses == Spec => []AutomaticSnapshotsDiffer
<1>1. IndInv => AutomaticSnapshotsDiffer
  BY DEF IndInv
<1> QED
  BY <1>1, RepositoryInvariant, PTL

(* No update of a cursor is lost: a cursor moves to a child of the         *)
(* snapshot it stands on, or to the target of the process that holds its   *)
(* lock, and create_branch never overwrites a branch.                      *)
THEOREM RepositoryAdvances == Spec => CursorAdvances
<1> DEFINE Moves(c) ==
             \/ refs[c] = 0
             \/ snaps'[refs'[c]].parent = refs[c]
             \/ \E p \in Procs : /\ locks[c] = p
                                 /\ pc[p] = "move"
                                 /\ refs'[c] = target[p]
<1>1. ASSUME IndInv, [Next]_vars
      PROVE  \A c \in Cursors : refs'[c] # refs[c] => Moves(c)
  <2> SUFFICES ASSUME NEW c \in Cursors, refs'[c] # refs[c] PROVE Moves(c)
    OBVIOUS
  <2> USE <1>1 DEF IndInv, TypeOK
  <2>1. ASSUME NEW p \in Procs, AdvanceCursor(p) PROVE Moves(c)
    BY <2>1, SMTT(60) DEF AdvanceCursor, ParentIsCurrent, SavedTreeIsCaptured, SavedTree
  <2>2. ASSUME NEW p \in Procs, MoveCursor(p) PROVE Moves(c)
    <3>1. c = cur[p] /\ refs'[c] = target[p] /\ pc[p] = "move"
      BY <2>2 DEF MoveCursor
    <3>2. locks[c] = p
      BY <2>2, <3>1 DEF MoveCursor, LocksHeld, HoldsLock, LockOf, LabelsMatchOps
    <3> QED
      BY <3>1, <3>2
  <2>3. ASSUME NEW p \in Procs, CreateBranchRef(p) PROVE Moves(c)
    BY <2>3 DEF CreateBranchRef
  <2>4. ASSUME NEW p \in Procs,
               \/ PutSnapshot(p) \/ WriteIndexEntry(p) \/ MoveHead(p)
               \/ FillIndex(p)
        PROVE  FALSE
    BY <2>4 DEF PutSnapshot, WriteIndexEntry, MoveHead, FillIndex
  <2> QED
    BY <2>1, <2>2, <2>3, <2>4, FrameDisk
<1>2. IndInv /\ [Next]_vars
        => [\A c \in Cursors : refs'[c] # refs[c] => Moves(c)]_vars
  BY <1>1
<1> QED
  BY <1>2, RepositoryInvariant, PTL DEF Spec, CursorAdvances
-----------------------------------------------------------------------------
(* What goes beyond the integrity of what is stored: what the timeline     *)
(* shows once the index is complete, that captured work is saved before it *)
(* is overwritten, and that operations in different working directories do *)
(* not disturb each other.                                                 *)

-----------------------------------------------------------------------------
(* The index.                                                              *)

(* A set that has what the timeline must show goes on having it, together  *)
(* with the entries that are added to the index.                           *)
LEMMA ListedStep ==
    ASSUME IndInv, [Next]_vars, RawIds = FALSE,
           NEW S, index \subseteq S, S \subseteq Stored, Listed(S),
           \A p \in Procs : FillIndex(p) => todo[p] \subseteq S,
           NEW T, T = S \cup index'
    PROVE  Listed(T)'
<1> USE ConstantsAssumption
    DEF IndInv, TypeOK, Goto, disk, local, env, Listed, Pending, Running,
        LabelsMatchOps
<1>1. ASSUME NEW r \in Roots, NEW f \in Paths, NEW c \in Contents, Edit(r, f, c)
      PROVE  Listed(T)'
  BY <1>1 DEF Edit
<1>2. ASSUME NEW p \in Procs, StartSnapshot(p) PROVE Listed(T)'
  BY <1>2 DEF StartSnapshot, BeginOperation
<1>3. ASSUME NEW p \in Procs, NEW b \in Branches, StartBranch(p, b)
      PROVE  Listed(T)'
  <2>1. /\ UNCHANGED <<refs, snaps, index, cap, new, target>>
        /\ pc'[p] = "capture"
        /\ op'[p] # "restore"
        /\ \A q \in Procs : q # p => pc'[q] = pc[q] /\ op'[q] = op[q]
    BY <1>3 DEF StartBranch, BeginOperation
  <2> QED
    BY <2>1
<1>4. ASSUME NEW p \in Procs, StartRestore(p) PROVE Listed(T)'
  <2>1. \A s \in ResolvedTargets : s \in S
    <3> SUFFICES ASSUME NEW s \in ResolvedTargets PROVE s \in S
      OBVIOUS
    <3>1. CASE s \in index
      BY <3>1
    <3>2. CASE \E c \in Cursors : s = refs[c] /\ s # 0
      BY <3>2
    <3> QED
      BY <3>1, <3>2 DEF ResolvedTargets
  <2>2. index' = index /\ T = S
    BY <1>4 DEF StartRestore, BeginOperation
  <2> QED
    BY <1>4, <2>1, <2>2 DEF StartRestore, BeginOperation
<1>5. ASSUME NEW p \in Procs, StartGraph(p) PROVE Listed(T)'
  BY <1>5 DEF StartGraph, BeginOperation
<1>6. ASSUME NEW p \in Procs, NEW f \in Paths, CapturePath(p, f)
      PROVE  Listed(T)'
  <2>1. /\ UNCHANGED <<refs, snaps, index, op, new, target>>
        /\ pc[p] = "capture" /\ pc'[p] \in {"capture", "cursor"}
        /\ \A q \in Procs : q # p => pc'[q] = pc[q] /\ cap'[q] = cap[q]
    BY <1>6 DEF CapturePath
  <2>2. T = S
    BY <2>1
  <2>3. ASSUME NEW q \in Procs PROVE Pending(q, T)'
    <3>1. CASE q = p
      BY <2>1, <2>2, <3>1
    <3>2. CASE q # p
      BY <2>1, <2>2, <3>2
    <3> QED
      BY <3>1, <3>2
  <2> QED
    BY <2>1, <2>2, <2>3
<1>7. ASSUME NEW p \in Procs, ReadCursor(p) PROVE Listed(T)'
  BY <1>7 DEF ReadCursor
<1>8. ASSUME NEW p \in Procs, AcquireLock(p) PROVE Listed(T)'
  <2>1. /\ UNCHANGED <<refs, snaps, index, op, cap, new, target>>
        /\ \/ pc[p] = "lock" /\ pc'[p] = "parent"
           \/ pc[p] = "move_lock" /\ pc'[p] = "move"
           \/ pc[p] = "index_lock" /\ pc'[p] = "list"
        /\ \A q \in Procs : q # p => pc'[q] = pc[q]
    BY <1>8 DEF AcquireLock
  <2> QED
    BY <2>1
<1>9. ASSUME NEW p \in Procs, RemoveStaleLock(p) PROVE Listed(T)'
  BY <1>9 DEF RemoveStaleLock
<1>10. ASSUME NEW p \in Procs, LockTimeout(p) PROVE Listed(T)'
  BY <1>10 DEF LockTimeout
<1>11. ASSUME NEW p \in Procs, ReadParent(p) PROVE Listed(T)'
  BY <1>11 DEF ReadParent, AfterSave, AllOps, ParentIsCurrent
<1>12. ASSUME NEW p \in Procs, PutSnapshot(p) PROVE Listed(T)'
  <2>1. /\ \A i \in Stored : snaps'[i] = snaps[i]
        /\ \A q \in Procs : q # p => new'[q] = new[q]
    BY <1>12, PutSnapshotStores
  <2>2. /\ UNCHANGED <<refs, index, op, cap, cur, target>>
        /\ pc'[p] = "index" /\ \A q \in Procs : q # p => pc'[q] = pc[q]
    BY <1>12 DEF PutSnapshot
  <2>3. T = S /\ \A i \in S : snaps'[i] = snaps[i]
    BY <2>1, <2>2
  <2>4. op[p] # "restore" \/ target[p] \in S
    BY <1>12 DEF PutSnapshot
  <2>5. ASSUME NEW q \in Procs PROVE Pending(q, T)'
    <3>1. CASE q = p
      BY <2>2, <2>3, <2>4, <3>1
    <3>2. CASE q # p
      <4>1. Pending(q, S)
        OBVIOUS
      <4>2. pc'[q] = pc[q] /\ new'[q] = new[q]
        BY <2>1, <2>2, <3>2
      <4>3. \A i \in S : snaps'[i].tree = snaps[i].tree
        BY <2>3
      <4> QED
        BY <2>2, <2>3, <4>1, <4>2, <4>3
    <3> QED
      BY <3>1, <3>2
  <2> QED
    BY <2>2, <2>3, <2>5
<1>13. ASSUME NEW p \in Procs, WriteIndexEntry(p) PROVE Listed(T)'
  <2>1. /\ index' = index \cup {new[p]}
        /\ UNCHANGED <<refs, snaps, op, cap, cur, target, new>>
        /\ pc[p] = "index"
        /\ pc'[p] = "advance" /\ \A q \in Procs : q # p => pc'[q] = pc[q]
    BY <1>13 DEF WriteIndexEntry
  <2>2. T = S \cup {new[p]}
    BY <2>1
  <2>3. snaps[new[p]].parent \in S
    BY <2>1 DEF SavedTreeIsCaptured, SavedTree, ParentIsCurrent
  <2>4. ASSUME NEW q \in Procs PROVE Pending(q, T)'
    <3>1. CASE q = p
      BY <2>1, <2>2, <3>1
    <3>2. CASE q # p
      BY <2>1, <2>2, <3>2
    <3> QED
      BY <3>1, <3>2
  <2> QED
    BY <2>1, <2>2, <2>3, <2>4
<1>14. ASSUME NEW p \in Procs, AdvanceCursor(p) PROVE Listed(T)'
  <2>1. /\ refs' = [refs EXCEPT ![cur[p]] = new[p]]
        /\ UNCHANGED <<snaps, index, op, cap, new, target>>
        /\ pc[p] = "advance"
        /\ pc'[p] \in {"finish", "release", "materialize"}
        /\ pc'[p] = "materialize" => op[p] = "restore"
        /\ \A q \in Procs : q # p => pc'[q] = pc[q]
    BY <1>14 DEF AdvanceCursor, AfterSave, AllOps
  <2>2. new[p] \in S /\ snaps[new[p]].tree = cap[p]
    BY <2>1 DEF SavedTreeIsCaptured, SavedTree
  <2>3. T = S
    BY <2>1
  <2>4. ASSUME NEW q \in Procs PROVE Pending(q, T)'
    <3>1. CASE q = p
      BY <2>1, <2>2, <2>3, <3>1
    <3>2. CASE q # p
      BY <2>1, <2>3, <3>2
    <3> QED
      BY <3>1, <3>2
  <2> QED
    BY <2>1, <2>2, <2>3, <2>4
<1>15. ASSUME NEW p \in Procs, ReleaseLock(p) PROVE Listed(T)'
  BY <1>15 DEF ReleaseLock
<1>16. ASSUME NEW p \in Procs, FinishLocked(p) PROVE Listed(T)'
  BY <1>16 DEF FinishLocked
<1>17. ASSUME NEW p \in Procs, ReadBaseCursor(p) PROVE Listed(T)'
  BY <1>17 DEF ReadBaseCursor
<1>18. ASSUME NEW p \in Procs, ReadBaseRef(p) PROVE Listed(T)'
  BY <1>18 DEF ReadBaseRef, ParentIsCurrent
<1>19. ASSUME NEW p \in Procs, CreateBranchRef(p) PROVE Listed(T)'
  <2>1. /\ UNCHANGED <<snaps, index, op, cap, new, target>>
        /\ pc[p] = "link" /\ pc'[p] \in {"done", "failed"}
        /\ \A q \in Procs : q # p => pc'[q] = pc[q]
        /\ refs' \in {refs, [refs EXCEPT ![name[p]] = target[p]]}
    BY <1>19 DEF CreateBranchRef
  <2>2. \A c \in Cursors : refs'[c] \in {refs[c], target[p]}
    BY <2>1
  <2> QED
    BY <2>1, <2>2
<1>20. ASSUME NEW p \in Procs, ReadBranchRef(p) PROVE Listed(T)'
  BY <1>20 DEF ReadBranchRef, TargetsExist, Cursors
<1>21. ASSUME NEW p \in Procs, NEW f \in Paths, MaterializePath(p, f)
      PROVE  Listed(T)'
  BY <1>21 DEF MaterializePath
<1>22. ASSUME NEW p \in Procs, MoveHead(p) PROVE Listed(T)'
  BY <1>22 DEF MoveHead
<1>23. ASSUME NEW p \in Procs, MoveCursor(p) PROVE Listed(T)'
  BY <1>23 DEF MoveCursor
<1>24. ASSUME NEW p \in Procs, CheckMarker(p) PROVE Listed(T)'
  BY <1>24 DEF CheckMarker
<1>25. ASSUME NEW p \in Procs, ListSnapshots(p) PROVE Listed(T)'
  BY <1>25 DEF ListSnapshots
<1>26. ASSUME NEW p \in Procs, FillIndex(p) PROVE Listed(T)'
  BY <1>26 DEF FillIndex
<1>27. ASSUME NEW p \in Procs, MarkComplete(p) PROVE Listed(T)'
  BY <1>27 DEF MarkComplete
<1>28. ASSUME NEW p \in Procs, NEW l \in {Free, Orphan}, Fault(p, l)
      PROVE  Listed(T)'
  BY <1>28 DEF Fault
<1>29. CASE UNCHANGED vars
  BY <1>29 DEF vars
<1> QED
  BY <1>1, <1>2, <1>3, <1>4, <1>5, <1>6, <1>7, <1>8, <1>9, <1>10, <1>11,
     <1>12, <1>13, <1>14, <1>15, <1>16, <1>17, <1>18, <1>19, <1>20, <1>21,
     <1>22, <1>23, <1>24, <1>25, <1>26, <1>27, <1>28, <1>29
  DEF Next, Start, Step, UserEdit, IoError, Crash

(* Two processes that rebuild the index are one process.                   *)
LEMMA OneRebuilds ==
    ASSUME IndInv, NEW p \in Procs, NEW q \in Procs,
           pc[p] \in {"list", "fill"}, pc[q] \in {"list", "fill"}
    PROVE  p = q
<1>1. /\ HoldsLock(p) /\ HoldsLock(q)
      /\ op[p] = "snapshot_graph" /\ op[q] = "snapshot_graph"
  BY DEF HoldsLock, IndInv, LabelsMatchOps
<1>2. LockOf(p) = LockOf(q)
  BY <1>1 DEF LockOf
<1> QED
  BY <1>1, <1>2, OneHolder

LEMMA ListedGrows ==
    ASSUME NEW S, NEW U, S \subseteq U, Listed(S),
           \A i \in U : snaps[i].parent # 0 => snaps[i].parent \in U
    PROVE  Listed(U)
<1>1. ASSUME NEW p \in Procs PROVE Pending(p, U)
  <2>1. Pending(p, S)
    BY DEF Listed
  <2> QED
    BY <2>1 DEF Pending
<1> QED
  BY <1>1 DEF Listed

LEMMA ParentsStored ==
    ASSUME TypeOK, ReferenceIntegrity
    PROVE  \A i \in Stored : snaps[i].parent # 0 => snaps[i].parent \in Stored
<1>1. Len(snaps) \in Nat /\ Stored = 1..Len(snaps)
  BY StoredInterval
<1>2. \A i \in Stored : snaps[i].parent \in 0..(i - 1)
  BY DEF ReferenceIntegrity
<1> QED
  BY <1>1, <1>2

(* The stored snapshots always have what the timeline must show.           *)
LEMMA StoredListedStep ==
    ASSUME IndInv, IndInv', [Next]_vars, RawIds = FALSE, IndexInv
    PROVE  Listed(Stored)'
<1> PICK S : S = Stored
  OBVIOUS
<1> PICK T : T = S \cup index'
  OBVIOUS
<1> PICK U : U = Stored'
  OBVIOUS
<1>1. index \subseteq S /\ \A p \in Procs : todo[p] \subseteq S
  BY DEF IndInv, ReferenceIntegrity, TargetsExist
<1>2. Listed(S)
  BY DEF IndexInv
<1>3. Listed(T)'
  BY <1>1, <1>2, ListedStep
<1>4. Stored \subseteq Stored'
  <2>1. UNCHANGED snaps \/ \E p \in Procs : PutSnapshot(p)
    BY FrameDisk DEF WriteIndexEntry, AdvanceCursor, CreateBranchRef, MoveHead,
                     MoveCursor, FillIndex
  <2> QED
    BY <2>1, PutSnapshotStores DEF Stored, IndInv
<1>5. T \subseteq U
  BY <1>4 DEF IndInv, ReferenceIntegrity
<1>6. \A i \in U : snaps'[i].parent # 0 => snaps'[i].parent \in U
  <2>1. /\ snaps' \in Seq(SnapshotType)
        /\ \A i \in DOMAIN snaps' : snaps'[i].parent \in 0..(i - 1)
    BY DEF IndInv, TypeOK, ReferenceIntegrity, Stored
  <2>2. Len(snaps') \in Nat /\ DOMAIN snaps' = 1..Len(snaps')
    BY <2>1
  <2> QED
    BY <2>1, <2>2 DEF Stored
<1>7. \A p \in Procs : Pending(p, U)'
  BY <1>3, <1>5 DEF Listed, Pending
<1>8. \A c \in Cursors : refs'[c] # 0 => refs'[c] \in U
  BY <1>3, <1>5 DEF Listed
<1> QED
  BY <1>6, <1>7, <1>8 DEF Listed

(* Entries are never removed; only the end of a rebuild marks the index    *)
(* complete, and only the rebuilding process changes what it has to write. *)
LEMMA IndexGrows ==
    ASSUME [Next]_vars
    PROVE  index \subseteq index'
BY FrameDisk DEF PutSnapshot, WriteIndexEntry, AdvanceCursor, CreateBranchRef,
                 MoveHead, MoveCursor, FillIndex

LEMMA FrameRebuild ==
    ASSUME TypeOK, [Next]_vars
    PROVE  /\ UNCHANGED complete \/ \E p \in Procs : MarkComplete(p)
           /\ \A q \in Procs : pc'[q] = "fill" =>
                 \/ ListSnapshots(q) \/ FillIndex(q)
                 \/ pc[q] = "fill" /\ todo'[q] = todo[q]
<1> USE DEF TypeOK, Goto, disk, local, env
<1> DEFINE Kept == \A q \in Procs : pc'[q] = "fill" => pc[q] = "fill"
<1>1. ASSUME NEW p \in Procs, Start(p)
      PROVE  UNCHANGED <<complete, todo>> /\ Kept
  BY <1>1 DEF Start, StartSnapshot, StartRestore, StartGraph, StartBranch,
              BeginOperation
<1>2. ASSUME NEW p \in Procs, NEW f \in Paths,
             CapturePath(p, f) \/ MaterializePath(p, f)
      PROVE  UNCHANGED <<complete, todo>> /\ Kept
  BY <1>2, ZenonT(60) DEF CapturePath, MaterializePath
<1>3. ASSUME NEW p \in Procs,
             \/ ReadCursor(p) \/ AcquireLock(p) \/ RemoveStaleLock(p)
             \/ LockTimeout(p) \/ ReleaseLock(p) \/ FinishLocked(p)
      PROVE  UNCHANGED <<complete, todo>> /\ Kept
  BY <1>3 DEF ReadCursor, AcquireLock, RemoveStaleLock, LockTimeout, ReleaseLock,
              FinishLocked
<1>4. ASSUME NEW p \in Procs,
             \/ ReadParent(p) \/ PutSnapshot(p) \/ WriteIndexEntry(p)
             \/ AdvanceCursor(p)
      PROVE  UNCHANGED <<complete, todo>> /\ Kept
  BY <1>4 DEF ReadParent, PutSnapshot, WriteIndexEntry, AdvanceCursor, AfterSave
<1>5. ASSUME NEW p \in Procs,
             \/ ReadBaseCursor(p) \/ ReadBaseRef(p) \/ CreateBranchRef(p)
             \/ ReadBranchRef(p) \/ MoveHead(p) \/ MoveCursor(p) \/ CheckMarker(p)
      PROVE  UNCHANGED <<complete, todo>> /\ Kept
  BY <1>5 DEF ReadBaseCursor, ReadBaseRef, CreateBranchRef, ReadBranchRef,
              MoveHead, MoveCursor, CheckMarker
<1>6. ASSUME NEW p \in Procs, ListSnapshots(p) \/ FillIndex(p)
      PROVE  /\ UNCHANGED complete
             /\ \A q \in Procs : q # p => todo'[q] = todo[q] /\ pc'[q] = pc[q]
  BY <1>6 DEF ListSnapshots, FillIndex
<1>7. ASSUME NEW p \in Procs, MarkComplete(p)
      PROVE  UNCHANGED todo /\ Kept
  BY <1>7 DEF MarkComplete
<1>8. ASSUME NEW p \in Procs, IoError(p) \/ Crash(p)
      PROVE  UNCHANGED <<complete, todo>> /\ Kept
  BY <1>8 DEF IoError, Crash, Fault
<1>9. ASSUME UserEdit \/ UNCHANGED vars
      PROVE  UNCHANGED <<complete, todo>> /\ Kept
  BY <1>9 DEF UserEdit, Edit, vars
<1> QED
  BY <1>1, <1>2, <1>3, <1>4, <1>5, <1>6, <1>7, <1>8, <1>9 DEF Next, Step

(* A complete index stays one, also while snapshots are stored, and a      *)
(* rebuild that has written everything it listed leaves a complete one.    *)
LEMMA IndexListedStep ==
    ASSUME IndInv, [Next]_vars, RawIds = FALSE, IndexInv, complete'
    PROVE  Listed(index)'
<1> PICK S : S = index
  OBVIOUS
<1> PICK T : T = S \cup index'
  OBVIOUS
<1>1. T = index'
  BY IndexGrows
<1>2. S \subseteq Stored
  BY DEF IndInv, ReferenceIntegrity
<1>3. Listed(S) /\ \A p \in Procs : ~FillIndex(p)
  <2>1. CASE complete
    BY <2>1 DEF IndexInv, FillIndex
  <2>2. CASE ~complete
    <3>1. PICK p \in Procs : MarkComplete(p)
      BY <2>2, FrameRebuild DEF IndInv
    <3>2. index \cup todo[p] = S /\ pc[p] = "fill" /\ pc'[p] = "finish"
      BY <3>1 DEF MarkComplete, Goto, IndInv, TypeOK
    <3>3. Listed(S)
      BY <3>2 DEF IndexInv
    <3>4. ASSUME NEW q \in Procs, FillIndex(q) PROVE FALSE
      <4>1. q = p
        BY <3>2, <3>4, OneRebuilds DEF FillIndex
      <4> QED
        BY <3>2, <3>4, <4>1 DEF FillIndex
    <3> QED
      BY <3>3, <3>4
  <2> QED
    BY <2>1, <2>2
<1>4. Listed(T)'
  BY <1>2, <1>3, ListedStep
<1> QED
  BY <1>1, <1>4 DEF Listed, Pending

(* A rebuild covers what was stored when it listed the snapshots, and what *)
(* others index while it runs.                                             *)
LEMMA RebuildListedStep ==
    ASSUME IndInv, IndInv', [Next]_vars, RawIds = FALSE, IndexInv,
           NEW q \in Procs, pc'[q] = "fill"
    PROVE  ~complete' /\ Listed(index \cup todo[q])'
<1> PICK R : R = index' \cup todo'[q]
  OBVIOUS
<1> SUFFICES ~complete' /\ Listed(R)'
  BY DEF Listed, Pending
<1>1. CASE ListSnapshots(q)
  <2>1. ~complete /\ complete' = complete /\ todo'[q] = Stored /\ index' = index
        /\ Stored' = Stored
    BY <1>1 DEF ListSnapshots, Goto, disk, IndInv, TypeOK, Stored
  <2>2. R = Stored'
    BY <2>1 DEF IndInv, ReferenceIntegrity
  <2>3. Listed(Stored)'
    BY StoredListedStep
  <2> QED
    BY <2>1, <2>2, <2>3 DEF Listed, Pending
<1>2. CASE pc[q] = "fill" /\ (FillIndex(q) \/ todo'[q] = todo[q])
  <2> PICK S : S = index \cup todo[q]
    OBVIOUS
  <2> PICK T : T = S \cup index'
    OBVIOUS
  <2>1. ~complete /\ Listed(S)
    BY <1>2 DEF IndexInv
  <2>2. S \subseteq Stored /\ index \subseteq S
    BY DEF IndInv, ReferenceIntegrity, TargetsExist
  <2>3. \A p \in Procs : FillIndex(p) => todo[p] \subseteq S
    BY <1>2, OneRebuilds DEF FillIndex
  <2>4. Listed(T)'
    BY <2>1, <2>2, <2>3, ListedStep
  <2>5. T = R
    <3>1. CASE FillIndex(q)
      BY <3>1 DEF FillIndex, IndInv, TypeOK
    <3>2. CASE todo'[q] = todo[q]
      BY <3>2, IndexGrows
    <3> QED
      BY <1>2, <3>1, <3>2
  <2>6. ~complete'
    <3>1. ASSUME NEW p \in Procs, MarkComplete(p) PROVE FALSE
      <4>1. p = q
        BY <1>2, <3>1, OneRebuilds DEF MarkComplete
      <4> QED
        BY <3>1, <4>1 DEF MarkComplete, Goto, IndInv, TypeOK
    <3> QED
      BY <2>1, <3>1, FrameRebuild DEF IndInv
  <2> QED
    BY <2>4, <2>5, <2>6
<1> QED
  BY <1>1, <1>2, FrameRebuild DEF IndInv, FillIndex

LEMMA InitIndexInv ==
    ASSUME Init
    PROVE  IndexInv
<1>1. IndInv
  BY InitIndInv
<1>2. /\ \A p \in Procs : pc[p] = "idle"
      /\ index \in {{}, Stored} /\ (complete => index = Stored)
      /\ \A c \in Cursors : refs[c] # 0 => refs[c] \in Stored
  <2>1. Stored = {1}
    BY SingletonSeq DEF Init, Stored
  <2> QED
    BY <2>1 DEF Init
<1>3. Listed(Stored)
  <2>1. \A i \in Stored : snaps[i].parent # 0 => snaps[i].parent \in Stored
    BY <1>1, ParentsStored DEF IndInv
  <2> QED
    BY <1>2, <2>1 DEF Listed, Pending, Running
<1> QED
  BY <1>2, <1>3 DEF IndexInv

(* The entries of a complete index, and those of a rebuild together with   *)
(* what it has still to write, have every cursor, every parent and whatever *)
(* a running operation is about to put a cursor on.  restore must not name *)
(* a snapshot by its full id: it then accepts one that a crash left        *)
(* without an index entry.                                                 *)
THEOREM HistoryInvariant ==
    ASSUME RawIds = FALSE
    PROVE  Spec => [](IndInv /\ IndexInv)
<1>1. IndInv /\ IndInv' /\ IndexInv /\ [Next]_vars => IndexInv'
  <2> SUFFICES ASSUME IndInv, IndInv', IndexInv, [Next]_vars PROVE IndexInv'
    OBVIOUS
  <2> QED
    BY StoredListedStep, IndexListedStep, RebuildListedStep DEF IndexInv
<1>2. Init => IndexInv
  BY InitIndexInv
<1> QED
  BY <1>1, <1>2, RepositoryInvariant, PTL DEF Spec

(* A rebuild of the index that races with any number of snapshots,         *)
(* restores and crashes misses none of them: once the marker               *)
(* `.complete-v1' is there, every cursor and all the history behind an     *)
(* entry is listed, for good.                                              *)
THEOREM RepositoryHistoryIndexed ==
    ASSUME RawIds = FALSE
    PROVE  Spec => []HistoryIndexed
<1>1. IndexInv => HistoryIndexed
  BY DEF IndexInv, Listed, HistoryIndexed
<1> QED
  BY <1>1, HistoryInvariant, PTL

(* Whatever restore or switch_branch overwrites, the tree it captured is   *)
(* in a stored snapshot that a complete index lists; a restore moves its   *)
(* cursor away from exactly that snapshot.                                 *)
THEOREM RepositorySavesFirst ==
    ASSUME RawIds = FALSE
    PROVE  Spec => []CapturedTreeSaved
<1>1. ASSUME IndInv, IndexInv PROVE CapturedTreeSaved
  <2> SUFFICES ASSUME NEW p \in Procs, pc[p] = "materialize"
               PROVE  /\ \E i \in Stored : /\ snaps[i].tree = cap[p]
                                           /\ complete => i \in index
                      /\ op[p] = "restore" => snaps[refs[cur[p]]].tree = cap[p]
    BY DEF CapturedTreeSaved
  <2> USE <1>1
  <2>1. op[p] \in {"switch_branch", "restore"}
    BY DEF IndInv, LabelsMatchOps
  <2>2. op[p] = "restore" => snaps[refs[cur[p]]].tree = cap[p]
    BY DEF IndInv, SavedTreeIsCaptured, SavedTree
  <2>3. PICK S : S = IF complete THEN index ELSE Stored
    OBVIOUS
  <2>4. Listed(S) /\ S \subseteq Stored
    <3>1. CASE complete
      BY <2>3, <3>1 DEF IndexInv, IndInv, ReferenceIntegrity
    <3>2. CASE ~complete
      BY <2>3, <3>2 DEF IndexInv
    <3> QED
      BY <3>1, <3>2
  <2>5. CASE op[p] = "restore"
    <3>1. cur[p] \in Cursors /\ refs[cur[p]] # 0
      BY DEF IndInv, TypeOK, ParentIsCurrent
    <3>2. refs[cur[p]] \in S
      BY <2>4, <3>1 DEF Listed
    <3> QED
      BY <2>2, <2>3, <2>4, <2>5, <3>2
  <2>6. CASE op[p] = "switch_branch"
    <3>1. \E i \in S : snaps[i].tree = cap[p]
      BY <2>4, <2>6 DEF Listed, Pending
    <3> QED
      BY <2>2, <2>3, <2>4, <3>1
  <2> QED
    BY <2>1, <2>5, <2>6
<1> QED
  BY <1>1, HistoryInvariant, PTL

(* The previous future stays visible: the snapshot that a restore, a       *)
(* switch or a new snapshot leaves behind is listed before and after.      *)
THEOREM RepositoryKeepsFuture ==
    ASSUME RawIds = FALSE
    PROVE  Spec => LeftBehindIndexed
<1>1. ASSUME IndexInv, [Next]_vars
      PROVE  \A c \in Cursors :
                (complete /\ refs'[c] # refs[c] /\ refs[c] # 0) => refs[c] \in index'
  BY <1>1, IndexGrows DEF IndexInv, Listed
<1>2. IndexInv /\ [Next]_vars =>
        [\A c \in Cursors :
           (complete /\ refs'[c] # refs[c] /\ refs[c] # 0) => refs[c] \in index']_vars
  BY <1>1
<1> QED
  BY <1>2, HistoryInvariant, PTL DEF Spec, LeftBehindIndexed

-----------------------------------------------------------------------------
(* Working directories.                                                    *)

(* A process changes nothing of another process, and of the working        *)
(* directories only its own.                                               *)
LEMMA OthersLocal ==
    ASSUME TypeOK, NEW p \in Procs, NEW q \in Procs, p # q,
           Start(q) \/ Step(q) \/ IoError(q) \/ Crash(q)
    PROVE  /\ pc'[p] = pc[p] /\ op'[p] = op[p] /\ left'[p] = left[p]
           /\ cap'[p] = cap[p] /\ cur'[p] = cur[p] /\ target'[p] = target[p]
           /\ name'[p] = name[p]
           /\ RootOf[p] # RootOf[q] => work'[RootOf[p]] = work[RootOf[p]]
           /\ RootOf[p] # RootOf[q] /\ RootOf[p] \notin edited'
                 => RootOf[p] \notin edited
<1> DEFINE Same == /\ pc'[p] = pc[p] /\ op'[p] = op[p] /\ left'[p] = left[p]
                   /\ cap'[p] = cap[p] /\ cur'[p] = cur[p]
                   /\ target'[p] = target[p] /\ name'[p] = name[p]
<1> USE ConstantsAssumption DEF TypeOK, Goto, disk, local, env
<1>1. CASE Start(q)
  BY <1>1 DEF Start, StartSnapshot, StartRestore, StartGraph, StartBranch,
              BeginOperation
<1>2. ASSUME NEW f \in Paths, CapturePath(q, f)
      PROVE  Same /\ UNCHANGED <<work, edited>>
  BY <1>2, ZenonT(60) DEF CapturePath
<1>3. ASSUME NEW f \in Paths, MaterializePath(q, f)
      PROVE  /\ Same /\ UNCHANGED edited
             /\ RootOf[p] # RootOf[q] => work'[RootOf[p]] = work[RootOf[p]]
  BY <1>3, ZenonT(60) DEF MaterializePath
<1>4. ASSUME \/ ReadCursor(q) \/ AcquireLock(q) \/ RemoveStaleLock(q)
             \/ LockTimeout(q) \/ ReleaseLock(q) \/ FinishLocked(q)
      PROVE  Same /\ UNCHANGED <<work, edited>>
  BY <1>4 DEF ReadCursor, AcquireLock, RemoveStaleLock, LockTimeout, ReleaseLock,
              FinishLocked
<1>5. ASSUME \/ ReadParent(q) \/ PutSnapshot(q) \/ WriteIndexEntry(q)
             \/ AdvanceCursor(q)
      PROVE  Same /\ UNCHANGED <<work, edited>>
  BY <1>5 DEF ReadParent, PutSnapshot, WriteIndexEntry, AdvanceCursor
<1>6. ASSUME \/ ReadBaseCursor(q) \/ ReadBaseRef(q) \/ CreateBranchRef(q)
             \/ ReadBranchRef(q) \/ MoveHead(q) \/ MoveCursor(q) \/ CheckMarker(q)
      PROVE  Same /\ UNCHANGED <<work, edited>>
  BY <1>6 DEF ReadBaseCursor, ReadBaseRef, CreateBranchRef, ReadBranchRef,
              MoveHead, MoveCursor, CheckMarker
<1>7. ASSUME ListSnapshots(q) \/ FillIndex(q) \/ MarkComplete(q)
      PROVE  Same /\ UNCHANGED <<work, edited>>
  BY <1>7 DEF ListSnapshots, FillIndex, MarkComplete
<1>8. ASSUME IoError(q) \/ Crash(q)
      PROVE  Same /\ UNCHANGED <<work, edited>>
  BY <1>8 DEF IoError, Crash, Fault
<1> QED
  BY <1>1, <1>2, <1>3, <1>4, <1>5, <1>6, <1>7, <1>8 DEF Step

(* HEAD belongs to the processes in the main working directory.            *)
LEMMA HeadIsOwn ==
    ASSUME TypeOK, [Next]_vars, NEW p \in Procs, Alone(p),
           CursorOf(RootOf[p])' # CursorOf(RootOf[p])
    PROVE  MoveHead(p) /\ RootOf[p] = MainRoot
<1>1. RootOf[p] = MainRoot /\ head' # head
  BY DEF CursorOf
<1>2. PICK q \in Procs : MoveHead(q)
  BY <1>1, FrameDisk DEF PutSnapshot, WriteIndexEntry, AdvanceCursor,
                         CreateBranchRef, MoveCursor, FillIndex
<1>3. RootOf[q] = MainRoot
  BY <1>2 DEF MoveHead
<1> QED
  BY <1>1, <1>2, <1>3 DEF Alone

(* Which process takes a step, and that it works on its own cursor.        *)
LEMMA OwnCursorStep ==
    ASSUME IndInv, [Next]_vars, OwnCursor
    PROVE  OwnCursor'
<1> DEFINE Own(p) ==
             /\ IF RootOf[p] = MainRoot THEN cur[p] \in Branches
                                        ELSE cur[p] = RootOf[p]
             /\ Alone(p) => cur[p] = CursorOf(RootOf[p])
<1> SUFFICES ASSUME NEW p \in Procs, AtCursor(p)' PROVE Own(p)'
  BY DEF OwnCursor, Alone
<1>1. CASE UNCHANGED <<pc, op, cur, head>>
  BY <1>1 DEF OwnCursor, AtCursor, CursorOf, Alone
<1>2. ASSUME NEW q \in Procs, q # p,
             Start(q) \/ Step(q) \/ IoError(q) \/ Crash(q)
      PROVE  Own(p)'
  <2>1. pc'[p] = pc[p] /\ op'[p] = op[p] /\ cur'[p] = cur[p]
    BY <1>2, OthersLocal DEF IndInv
  <2>2. AtCursor(p) /\ Own(p)
    BY <2>1 DEF AtCursor, OwnCursor
  <2>3. ~(MoveHead(p))
    BY <2>1 DEF MoveHead, Goto, IndInv, TypeOK
  <2>4. Alone(p) => CursorOf(RootOf[p])' = CursorOf(RootOf[p])
    BY <2>3, HeadIsOwn DEF IndInv
  <2> QED
    BY <2>1, <2>2, <2>4 DEF Alone
<1>3. ASSUME ReadCursor(p) PROVE Own(p)'
  <2>1. cur'[p] = CursorOf(RootOf[p]) /\ head' = head
    BY <1>3 DEF ReadCursor, disk, IndInv, TypeOK
  <2> QED
    BY <2>1 DEF CursorOf, IndInv, TypeOK
<1>4. ASSUME NEW f \in Paths, MaterializePath(p, f) PROVE Own(p)'
  <2>1. /\ head' = head
        /\ cur'[p] = cur[p] \/ (cur'[p] = RootOf[p] /\ RootOf[p] # MainRoot)
    BY <1>4 DEF MaterializePath, disk, IndInv, TypeOK
  <2>2. AtCursor(p)
    BY <1>4 DEF MaterializePath, AtCursor, IndInv, LabelsMatchOps
  <2> QED
    BY <2>1, <2>2 DEF OwnCursor, CursorOf, Alone
<1>5. ASSUME AtCursor(p), cur'[p] = cur[p], head' = head PROVE Own(p)'
  BY <1>5 DEF OwnCursor, CursorOf, Alone
<1>6. CASE Start(p)
  BY <1>6 DEF Start, StartSnapshot, StartBranch, StartRestore, StartGraph,
              Goto, AtCursor, IndInv, TypeOK
<1>7. CASE IoError(p) \/ Crash(p)
  BY <1>7 DEF IoError, Crash, Fault, Goto, AtCursor, IndInv, TypeOK
<1>8. ASSUME \/ AcquireLock(p) \/ RemoveStaleLock(p) \/ LockTimeout(p)
             \/ ReadParent(p) \/ PutSnapshot(p) \/ WriteIndexEntry(p)
             \/ AdvanceCursor(p) \/ ReleaseLock(p) \/ FinishLocked(p)
      PROVE  AtCursor(p) /\ cur'[p] = cur[p] /\ head' = head
  BY <1>8 DEF AcquireLock, RemoveStaleLock, LockTimeout, ReadParent, PutSnapshot,
              WriteIndexEntry, AdvanceCursor, ReleaseLock, FinishLocked, Waiting,
              Goto, disk, local, AtCursor, IndInv, TypeOK, LabelsMatchOps
<1>9. ASSUME ReadBranchRef(p) \/ MoveCursor(p)
      PROVE  AtCursor(p) /\ cur'[p] = cur[p] /\ head' = head
  BY <1>9 DEF ReadBranchRef, MoveCursor, Goto, disk, local, AtCursor, IndInv,
              LabelsMatchOps
<1>10. ASSUME \/ ReadBaseCursor(p) \/ ReadBaseRef(p) \/ CreateBranchRef(p)
              \/ MoveHead(p) \/ CheckMarker(p) \/ ListSnapshots(p)
              \/ FillIndex(p) \/ MarkComplete(p)
       PROVE  FALSE
  BY <1>10 DEF ReadBaseCursor, ReadBaseRef, CreateBranchRef, MoveHead, CheckMarker,
               ListSnapshots, FillIndex, MarkComplete, Goto, local, AtCursor,
               IndInv, TypeOK, LabelsMatchOps
<1>11. ASSUME NEW f \in Paths, CapturePath(p, f) PROVE FALSE
  BY <1>11 DEF CapturePath, Goto, AtCursor, IndInv, TypeOK
<1>12. CASE UserEdit \/ UNCHANGED vars
  BY <1>12, <1>1 DEF UserEdit, Edit, disk, local, vars
<1>13. ASSUME Step(p) PROVE Own(p)'
  BY <1>3, <1>4, <1>5, <1>8, <1>9, <1>10, <1>11, <1>13 DEF Step
<1> QED
  BY <1>2, <1>6, <1>7, <1>12, <1>13 DEF Next

LEMMA RootCursor ==
    ASSUME IndInv, NEW r \in Roots
    PROVE  /\ CursorOf(r) \in Cursors
           /\ refs[CursorOf(r)] \in Stored
           /\ r = MainRoot => CursorOf(r) \in Branches
           /\ r # MainRoot => r \in Workspaces /\ CursorOf(r) = r
<1>1. CASE r = MainRoot
  BY <1>1 DEF IndInv, TypeOK, ReferenceIntegrity, CursorOf, Cursors
<1>2. CASE r # MainRoot
  BY <1>2 DEF IndInv, TypeOK, ReferenceIntegrity, CursorOf, Cursors, Roots
<1> QED
  BY <1>1, <1>2

LEMMA SnapshotsKept ==
    ASSUME TypeOK, [Next]_vars
    PROVE  Stored \subseteq Stored' /\ \A i \in Stored : snaps'[i] = snaps[i]
<1>1. UNCHANGED snaps \/ \E p \in Procs : PutSnapshot(p)
  BY FrameDisk DEF WriteIndexEntry, AdvanceCursor, CreateBranchRef, MoveHead,
                   MoveCursor, FillIndex
<1> QED
  BY <1>1, PutSnapshotStores DEF Stored

(* The cursor of a directory, and for the main directory every branch, is  *)
(* left alone by the processes of other directories.                       *)
LEMMA RefsAreOwn ==
    ASSUME IndInv, [Next]_vars, OwnCursor, NEW p \in Procs, Alone(p),
           NEW q \in Procs, q # p,
           Start(q) \/ Step(q) \/ IoError(q) \/ Crash(q)
    PROVE  /\ CursorOf(RootOf[p])' = CursorOf(RootOf[p])
           /\ refs'[CursorOf(RootOf[p])] = refs[CursorOf(RootOf[p])]
           /\ RootOf[p] = MainRoot =>
                 \A b \in Branches : refs[b] # 0 => refs'[b] = refs[b]
<1> USE ConstantsAssumption
<1>1. pc'[p] = pc[p]
  BY OthersLocal DEF IndInv
<1>2. ~MoveHead(p) /\ ~AdvanceCursor(p) /\ ~MoveCursor(p)
  BY <1>1 DEF MoveHead, AdvanceCursor, MoveCursor, AfterSave, Goto, IndInv, TypeOK
<1>3. CursorOf(RootOf[p])' = CursorOf(RootOf[p])
  BY <1>2, HeadIsOwn DEF IndInv
<1>4. RootOf[p] \in Roots
  OBVIOUS
<1>5. /\ CursorOf(RootOf[p]) \in Cursors
      /\ refs[CursorOf(RootOf[p])] # 0
      /\ RootOf[p] = MainRoot => CursorOf(RootOf[p]) \in Branches
      /\ RootOf[p] # MainRoot =>
            RootOf[p] \in Workspaces /\ CursorOf(RootOf[p]) = RootOf[p]
  BY <1>4, RootCursor, StoredInterval DEF IndInv
<1>6. CASE UNCHANGED refs
  BY <1>3, <1>6
<1>7. ASSUME NEW r \in Procs, r # p, AdvanceCursor(r) \/ MoveCursor(r)
      PROVE  /\ refs'[CursorOf(RootOf[p])] = refs[CursorOf(RootOf[p])]
             /\ RootOf[p] = MainRoot => \A b \in Branches : refs'[b] = refs[b]
  <2>1. AtCursor(r)
    BY <1>7 DEF AdvanceCursor, MoveCursor, AtCursor, IndInv, LabelsMatchOps
  <2>2. RootOf[r] # RootOf[p]
    BY <1>7 DEF Alone
  <2>3. IF RootOf[r] = MainRoot THEN cur[r] \in Branches ELSE cur[r] = RootOf[r]
    BY <2>1 DEF OwnCursor
  <2>4. RootOf[r] # MainRoot => cur[r] \in Workspaces
    BY <2>3 DEF Roots
  <2>5. /\ cur[r] # CursorOf(RootOf[p])
        /\ RootOf[p] = MainRoot => cur[r] \notin Branches
    BY <1>5, <2>2, <2>3, <2>4
  <2>6. \A c \in Cursors : c # cur[r] => refs'[c] = refs[c]
    BY <1>7 DEF AdvanceCursor, MoveCursor, IndInv, TypeOK
  <2> QED
    BY <1>5, <2>5, <2>6 DEF Cursors
<1>8. ASSUME NEW r \in Procs, CreateBranchRef(r)
      PROVE  \A c \in Cursors : refs[c] # 0 => refs'[c] = refs[c]
  BY <1>8 DEF CreateBranchRef, IndInv, TypeOK
<1> QED
  BY <1>2, <1>3, <1>5, <1>6, <1>7, <1>8, FrameDisk
  DEF PutSnapshot, WriteIndexEntry, MoveHead, FillIndex, Cursors

(* What a process knows of its directory outlasts the steps of others.     *)
LEMMA KnowledgeKept ==
    ASSUME IndInv, [Next]_vars, OwnCursor, NEW p \in Procs, Alone(p),
           NEW q \in Procs, q # p,
           Start(q) \/ Step(q) \/ IoError(q) \/ Crash(q),
           KnowsDirectory(p), op[p] # "snapshot_graph"
    PROVE  KnowsDirectory(p)'
<1> USE ConstantsAssumption
<1>1. RootOf[p] # RootOf[q] /\ RootOf[p] \in Roots
  BY DEF Alone
<1>2. /\ pc'[p] = pc[p] /\ op'[p] = op[p] /\ left'[p] = left[p]
      /\ cap'[p] = cap[p] /\ target'[p] = target[p] /\ name'[p] = name[p]
      /\ work'[RootOf[p]] = work[RootOf[p]]
  BY <1>1, OthersLocal DEF IndInv
<1>3. /\ CursorOf(RootOf[p])' = CursorOf(RootOf[p])
      /\ refs'[CursorOf(RootOf[p])] = refs[CursorOf(RootOf[p])]
      /\ snaps'[refs[CursorOf(RootOf[p])]] = snaps[refs[CursorOf(RootOf[p])]]
  BY <1>1, RefsAreOwn, RootCursor, SnapshotsKept DEF IndInv
<1>4. pc[p] \in {"materialize", "move_lock", "move"}
        => snaps'[target[p]] = snaps[target[p]]
  BY SnapshotsKept DEF IndInv, TargetsExist
<1>5. op[p] = "switch_branch" /\ RootOf[p] = MainRoot
        /\ pc[p] \in {"materialize", "move"} => refs'[name[p]] = refs[name[p]]
  BY RefsAreOwn DEF IndInv, TypeOK, TargetsExist, Running
<1> QED
  BY <1>2, <1>3, <1>4, <1>5 DEF KnowsDirectory

LEMMA TreesEqual ==
    ASSUME NEW s \in Trees, NEW t \in Trees, \A f \in Paths : s[f] = t[f]
    PROVE  s = t
BY DEF Trees

(* ... and so it does the process's own steps: the capture reads what is   *)
(* there, the save makes it the cursor's snapshot, and the checkout brings *)
(* path after path to the target, on which the cursor is put at the end.   *)
LEMMA KnowledgeStep ==
    ASSUME IndInv, IndInv', OwnCursor, NEW p \in Procs, Alone(p), Step(p),
           KnowsDirectory(p), op[p] # "snapshot_graph"
    PROVE  KnowsDirectory(p)'
<1> USE ConstantsAssumption DEF Goto, disk, local, env
<1> DEFINE r == RootOf[p]
<1>1. r \in Roots /\ work[r] \in Trees /\ cap[p] \in Trees
      /\ work'[r] \in Trees /\ cap'[p] \in Trees
  BY DEF IndInv, TypeOK
<1>2. /\ pc \in [Procs -> Labels] /\ op \in [Procs -> AllOps]
      /\ left \in [Procs -> SUBSET Paths] /\ cap \in [Procs -> Trees]
      /\ cur \in [Procs -> Cursors] /\ target \in [Procs -> Nat]
      /\ work \in [Roots -> Trees] /\ refs \in [Cursors -> Nat]
  BY DEF IndInv, TypeOK
<1>3. AtCursor(p) => cur[p] = CursorOf(r)
  BY DEF OwnCursor
<1>4. ASSUME NEW f \in Paths, CapturePath(p, f) PROVE KnowsDirectory(p)'
  <2>1. /\ pc[p] = "capture" /\ f \in left[p]
        /\ cap'[p] = [cap[p] EXCEPT ![f] = work[r][f]]
        /\ left'[p] = left[p] \ {f}
        /\ work' = work
        /\ IF left[p] = {f} THEN pc'[p] = "cursor" ELSE pc'[p] = "capture"
    BY <1>2, <1>4 DEF CapturePath
  <2>2. \A g \in Paths \ left'[p] : cap'[p][g] = work[r][g]
    BY <1>1, <2>1 DEF KnowsDirectory, Trees
  <2>3. ASSUME left[p] = {f} PROVE cap'[p] = work[r]
    <3>1. \A g \in Paths : cap'[p][g] = work[r][g]
      BY <2>1, <2>2, <2>3
    <3> QED
      BY <1>1, <3>1, TreesEqual
  <2> QED
    BY <2>1, <2>2, <2>3 DEF KnowsDirectory
<1>5. ASSUME NEW f \in Paths, MaterializePath(p, f) PROVE KnowsDirectory(p)'
  <2>1. /\ pc[p] = "materialize" /\ f \in left[p]
        /\ work'[r] = [work[r] EXCEPT ![f] = snaps[target[p]].tree[f]]
        /\ left'[p] = left[p] \ {f}
        /\ UNCHANGED <<refs, snaps, op, target, name>>
    BY <1>1, <1>2, <1>5 DEF MaterializePath
  <2>2. /\ left[p] # {f} => pc'[p] = "materialize"
        /\ left[p] = {f} => pc'[p] \in {"move_lock", "move"}
    BY <1>2, <1>5 DEF MaterializePath
  <2>3. snaps[target[p]].tree \in Trees
    BY <2>1, StoredFields DEF IndInv, TargetsExist
  <2>4. \A g \in Paths \ left'[p] : work'[r][g] = snaps[target[p]].tree[g]
    BY <1>1, <2>1 DEF KnowsDirectory, Trees
  <2>5. ASSUME left[p] = {f} PROVE work'[r] = snaps[target[p]].tree
    <3>1. \A g \in Paths : work'[r][g] = snaps[target[p]].tree[g]
      BY <2>1, <2>4, <2>5
    <3> QED
      BY <1>1, <2>3, <3>1, TreesEqual
  <2>6. op[p] = "switch_branch" /\ r = MainRoot => refs[name[p]] = target[p]
    BY <2>1 DEF KnowsDirectory
  <2> QED
    BY <2>1, <2>2, <2>4, <2>5, <2>6 DEF KnowsDirectory
<1>6. ASSUME ReadCursor(p) \/ LockTimeout(p) \/ RemoveStaleLock(p) \/ AcquireLock(p)
      PROVE  KnowsDirectory(p)'
  <2>1. /\ UNCHANGED <<work, head, refs, snaps, op, left, cap, target, name>>
        /\ \/ pc[p] = "cursor" /\ pc'[p] = "lock"
           \/ pc[p] = "lock" /\ pc'[p] = "parent"
           \/ pc[p] = "move_lock" /\ pc'[p] = "move"
           \/ pc'[p] = "failed" \/ pc'[p] = pc[p]
    BY <1>2, <1>6
    DEF ReadCursor, LockTimeout, RemoveStaleLock, AcquireLock, IndInv, LabelsMatchOps
  <2>2. pc[p] = "move_lock" => r # MainRoot
    BY DEF IndInv, LabelsMatchOps
  <2> QED
    BY <2>1, <2>2 DEF KnowsDirectory, CursorOf
<1>7. ASSUME ReadParent(p) PROVE KnowsDirectory(p)'
  <2>1. /\ pc[p] = "parent" /\ left'[p] = Paths
        /\ UNCHANGED <<work, head, refs, snaps, op, cap, target, name>>
        /\ \/ pc'[p] = "put"
           \/ /\ pc'[p] = AfterSave(op[p])
              /\ snaps[refs[cur[p]]].tree = cap[p]
    BY <1>2, <1>7 DEF ReadParent
  <2>2. AtCursor(p) /\ cap[p] = work[r]
    BY <2>1 DEF AtCursor, KnowsDirectory
  <2>3. /\ AfterSave(op[p]) \in {"finish", "release", "materialize"}
        /\ AfterSave(op[p]) = "materialize" => op[p] # "switch_branch"
    BY DEF AfterSave
  <2> QED
    BY <1>3, <2>1, <2>2, <2>3 DEF KnowsDirectory, CursorOf
<1>8. ASSUME PutSnapshot(p) \/ WriteIndexEntry(p) PROVE KnowsDirectory(p)'
  <2>1. /\ pc[p] \in {"put", "index"} /\ pc'[p] \in {"index", "advance"}
        /\ UNCHANGED <<work, op, left, cap>>
    BY <1>2, <1>8 DEF PutSnapshot, WriteIndexEntry
  <2> QED
    BY <2>1 DEF KnowsDirectory
<1>9. ASSUME AdvanceCursor(p) PROVE KnowsDirectory(p)'
  <2>1. /\ pc[p] = "advance" /\ pc'[p] = AfterSave(op[p])
        /\ UNCHANGED <<work, head, snaps, op, left, cap, target, name>>
        /\ refs'[cur[p]] = new[p]
    BY <1>2, <1>9 DEF AdvanceCursor
  <2>2. AtCursor(p) /\ cap[p] = work[r] /\ left[p] = Paths
    BY <2>1 DEF AtCursor, KnowsDirectory
  <2>3. snaps[new[p]].tree = cap[p]
    BY <2>1 DEF IndInv, SavedTreeIsCaptured, SavedTree
  <2>4. /\ AfterSave(op[p]) \in {"finish", "release", "materialize"}
        /\ AfterSave(op[p]) = "materialize" => op[p] # "switch_branch"
    BY DEF AfterSave
  <2> QED
    BY <1>3, <2>1, <2>2, <2>3, <2>4 DEF KnowsDirectory, CursorOf
<1>10. ASSUME \/ ReleaseLock(p) \/ FinishLocked(p) \/ ReadBaseCursor(p)
              \/ ReadBaseRef(p)
       PROVE  KnowsDirectory(p)'
  <2>1. /\ pc[p] \in {"release", "finish", "base_cursor", "base_ref"}
        /\ pc'[p] \in {"base_cursor", "branch_ref", "done", "base_ref", "link"}
        /\ UNCHANGED <<work, head, refs, snaps, op, left, cap, name>>
    BY <1>2, <1>10 DEF ReleaseLock, FinishLocked, ReadBaseCursor, ReadBaseRef
  <2> QED
    BY <2>1 DEF KnowsDirectory, CursorOf
<1>11. ASSUME CreateBranchRef(p) PROVE KnowsDirectory(p)'
  <2>1. /\ pc[p] = "link" /\ pc'[p] \in {"done", "failed"}
        /\ UNCHANGED <<work, head, snaps, op, left, cap, target, name>>
        /\ refs' = refs \/ (refs[name[p]] = 0
                             /\ refs' = [refs EXCEPT ![name[p]] = target[p]])
    BY <1>2, <1>11 DEF CreateBranchRef
  <2>2. CursorOf(r) \in Cursors /\ refs[CursorOf(r)] # 0
    BY <1>1, RootCursor, StoredInterval DEF IndInv
  <2>3. refs'[CursorOf(r)] = refs[CursorOf(r)]
    BY <1>2, <2>1, <2>2
  <2> QED
    BY <2>1, <2>3 DEF KnowsDirectory, CursorOf
<1>12. ASSUME ReadBranchRef(p) PROVE KnowsDirectory(p)'
  <2>1. /\ pc'[p] = "materialize" /\ left'[p] = Paths
        /\ target'[p] = refs[name[p]]
        /\ UNCHANGED <<work, head, refs, snaps, op, cap, name>>
    BY <1>2, <1>12 DEF ReadBranchRef
  <2> QED
    BY <2>1 DEF KnowsDirectory
<1>13. ASSUME MoveHead(p) PROVE KnowsDirectory(p)'
  <2>1. /\ pc[p] = "move" /\ pc'[p] = "done"
        /\ op[p] = "switch_branch" /\ r = MainRoot
        /\ UNCHANGED <<work, refs, snaps, op, left, cap, target, name>>
        /\ head' = name[p]
    BY <1>2, <1>13 DEF MoveHead
  <2>2. work[r] = snaps[refs[name[p]]].tree
    BY <2>1 DEF KnowsDirectory
  <2> QED
    BY <2>1, <2>2 DEF KnowsDirectory, CursorOf
<1>14. ASSUME MoveCursor(p) PROVE KnowsDirectory(p)'
  <2>1. /\ pc[p] = "move" /\ pc'[p] = "finish"
        /\ UNCHANGED <<work, head, snaps, op, left, cap, target, name>>
        /\ refs'[cur[p]] = target[p]
    BY <1>2, <1>14 DEF MoveCursor
  <2>2. AtCursor(p) /\ work[r] = snaps[target[p]].tree
    BY <2>1 DEF AtCursor, KnowsDirectory
  <2> QED
    BY <1>3, <2>1, <2>2 DEF KnowsDirectory, CursorOf
<1>15. ASSUME \/ CheckMarker(p) \/ ListSnapshots(p) \/ FillIndex(p)
              \/ MarkComplete(p)
       PROVE  FALSE
  BY <1>15 DEF CheckMarker, ListSnapshots, FillIndex, MarkComplete, IndInv,
               LabelsMatchOps
<1> QED
  BY <1>4, <1>5, <1>6, <1>7, <1>8, <1>9, <1>10, <1>11, <1>12, <1>13, <1>14,
     <1>15
  DEF Step

LEMMA DirectoryStep ==
    ASSUME IndInv, IndInv', [Next]_vars, DirectoryInv
    PROVE  DirectoryInv'
<1>1. OwnCursor'
  BY OwnCursorStep DEF DirectoryInv
<1> SUFFICES ASSUME NEW p \in Procs, op'[p] # "snapshot_graph", Alone(p),
                    RootOf[p] \notin edited'
             PROVE  KnowsDirectory(p)'
  BY <1>1 DEF DirectoryInv, Alone
<1> DEFINE Acts(q) == Start(q) \/ Step(q) \/ IoError(q) \/ Crash(q)
<1>2. CASE UNCHANGED <<head, refs, snaps, pc, op, left, cap, target, name, edited>>
           /\ work'[RootOf[p]] = work[RootOf[p]]
  BY <1>2 DEF DirectoryInv, KnowsDirectory, CursorOf
<1>3. CASE UserEdit
  <2>1. PICK r \in Roots, f \in Paths, c \in Contents : Edit(r, f, c)
    BY <1>3 DEF UserEdit
  <2>2. r # RootOf[p] /\ RootOf[p] \notin edited
    BY <2>1 DEF Edit
  <2>3. /\ UNCHANGED <<head, refs, snaps, pc, op, left, cap, target, name>>
        /\ work'[RootOf[p]] = work[RootOf[p]]
    BY <2>1, <2>2, ConstantsAssumption DEF Edit, disk, local, IndInv, TypeOK
  <2>4. KnowsDirectory(p)
    BY <2>2, <2>3 DEF DirectoryInv
  <2> QED
    BY <2>3, <2>4 DEF KnowsDirectory, CursorOf
<1>4. ASSUME NEW q \in Procs, q # p, Acts(q) PROVE KnowsDirectory(p)'
  <2>1. op'[p] = op[p] /\ RootOf[p] \notin edited
    BY <1>4, OthersLocal DEF Alone, IndInv
  <2>2. KnowsDirectory(p)
    BY <2>1 DEF DirectoryInv
  <2> QED
    BY <1>4, <2>1, <2>2, KnowledgeKept DEF DirectoryInv
<1>5. ASSUME Start(p) PROVE KnowsDirectory(p)'
  <2>1. StartGraph(p) => op'[p] = "snapshot_graph"
    BY DEF StartGraph, BeginOperation, IndInv, TypeOK
  <2>2. pc'[p] = "capture" /\ left'[p] = Paths
    BY <1>5, <2>1 DEF Start, StartSnapshot, StartRestore, StartBranch, Goto,
                      IndInv, TypeOK
  <2> QED
    BY <2>2 DEF KnowsDirectory
<1>6. ASSUME Step(p) PROVE KnowsDirectory(p)'
  <2>1. UNCHANGED <<op, edited>>
    BY <1>6 DEF Step, CapturePath, MaterializePath, ReadCursor, AcquireLock,
                RemoveStaleLock, LockTimeout, ReadParent, PutSnapshot,
                WriteIndexEntry, AdvanceCursor, ReleaseLock, FinishLocked,
                ReadBaseCursor, ReadBaseRef, CreateBranchRef, ReadBranchRef,
                MoveHead, MoveCursor, CheckMarker, ListSnapshots, FillIndex,
                MarkComplete, env
  <2>2. KnowsDirectory(p)
    BY <2>1 DEF DirectoryInv
  <2> QED
    BY <1>6, <2>1, <2>2, KnowledgeStep DEF DirectoryInv
<1>7. ASSUME IoError(p) \/ Crash(p) PROVE KnowsDirectory(p)'
  <2>1. pc'[p] = "failed"
    BY <1>7 DEF IoError, Crash, Fault, Goto, IndInv, TypeOK
  <2> QED
    BY <2>1 DEF KnowsDirectory
<1>8. CASE UNCHANGED vars
  BY <1>2, <1>8 DEF vars
<1> QED
  BY <1>3, <1>4, <1>5, <1>6, <1>7, <1>8 DEF Next

(* Agents in different working directories do not disturb each other:      *)
(* when an operation completes, its directory is what the snapshot of its  *)
(* cursor says, whatever processes elsewhere did or failed to do in the    *)
(* meantime.                                                               *)
THEOREM RepositoryIsolates == Spec => []CompletedMeansClean
<1>1. Init => DirectoryInv
  BY DEF Init, DirectoryInv, OwnCursor, AtCursor, KnowsDirectory
<1>2. IndInv /\ IndInv' /\ DirectoryInv /\ [Next]_vars => DirectoryInv'
  BY DirectoryStep
<1>3. DirectoryInv => CompletedMeansClean
  BY DEF DirectoryInv, KnowsDirectory, CompletedMeansClean, Alone
<1> QED
  BY <1>1, <1>2, <1>3, RepositoryInvariant, PTL DEF Spec
=============================================================================

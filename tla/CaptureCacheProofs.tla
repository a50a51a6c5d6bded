------------------------- MODULE CaptureCacheProofs -------------------------
(* The hash cache for any processes, paths, contents, clock and bounds.    *)
EXTENDS CaptureCache, TLAPS

(* What a lookup finds is a record that exists.                            *)
LEMMA CurrentFound ==
    ASSUME TypeOK, NEW p \in Procs, NEW f \in Paths
    PROVE  /\ Current(p, f) \in Records \cup {None}
           /\ Current(p, f) \in RecordsOf(f) \cup {None}
<1>1. mem[p][f] \in Records \cup {None} /\ view[p][f] \in Records \cup {None}
  BY DEF TypeOK, Tables
<1> QED
  BY <1>1 DEF Current, RecordsOf

(* insert_file changes one record in memory ...                            *)
LEMMA Inserted ==
    ASSUME TypeOK, StoredExists, NEW p \in Procs, NEW f \in Paths, NEW t \in Times,
           NEW c \in Contents, NEW s \in BOOLEAN, InsertFile(p, f, t, c, s)
    PROVE  LET r == RecordFor(p, f, t, c, s) IN
           /\ r \in Records /\ r.time = t /\ r.id = c
           /\ r.stored => s \/ c \in objects
           /\ mem' \in [Procs -> Tables]
           /\ dirty' \in [Procs -> SUBSET Paths]
           /\ invalid' = invalid
           /\ \A q \in Procs, g \in Paths :
                  mem'[q][g] = IF q = p /\ g = f THEN r ELSE mem[q][g]
           /\ \A q \in Procs : dirty[q] \subseteq dirty'[q]
           /\ f \notin dirty'[p] => r = Current(p, f)
<1> DEFINE r == RecordFor(p, f, t, c, s)
<1>1. Current(p, f) \in Records \cup {None} /\ Current(p, f) \in RecordsOf(f) \cup {None}
  BY CurrentFound
<1>2. r = [time |-> t, id |-> c,
           stored |-> s \/ (Current(p, f) # None /\ Current(p, f).id = c /\ Current(p, f).stored)]
  BY DEF RecordFor
<1>3. r \in Records
  BY <1>1, <1>2 DEF Records
<1>4. r.time = t /\ r.id = c /\ (r.stored => s \/ c \in objects)
  BY <1>1, <1>2 DEF StoredExists
<1>5. /\ mem' = [mem EXCEPT ![p][f] = r]
      /\ dirty' = IF Current(p, f) = r THEN dirty ELSE [dirty EXCEPT ![p] = @ \cup {f}]
      /\ invalid' = invalid
  BY DEF InsertFile
<1> HIDE DEF r
<1>6. mem' \in [Procs -> Tables]
  BY <1>3, <1>5 DEF TypeOK, Tables
<1>7. \A q \in Procs, g \in Paths : mem'[q][g] = IF q = p /\ g = f THEN r ELSE mem[q][g]
  BY <1>5 DEF TypeOK, Tables
<1>8. /\ dirty' \in [Procs -> SUBSET Paths] /\ \A q \in Procs : dirty[q] \subseteq dirty'[q]
      /\ f \notin dirty'[p] => r = Current(p, f)
  BY <1>5 DEF TypeOK
<1> QED
  BY <1>3, <1>4, <1>5, <1>6, <1>7, <1>8 DEF r

(* ... and invalidate_path removes one.                                    *)
LEMMA Invalidated ==
    ASSUME TypeOK, NEW p \in Procs, NEW f \in Paths, Invalidate(p, f)
    PROVE  /\ mem' \in [Procs -> Tables]
           /\ dirty' \in [Procs -> SUBSET Paths]
           /\ invalid' \in [Procs -> SUBSET Paths]
           /\ \A q \in Procs, g \in Paths :
                  mem'[q][g] = IF q = p /\ g = f THEN None ELSE mem[q][g]
           /\ \A q \in Procs, g \in Paths : q # p \/ g # f =>
                  /\ g \in dirty'[q] <=> g \in dirty[q]
                  /\ g \in invalid'[q] <=> g \in invalid[q]
           /\ backend[p] => f \in invalid'[p]
  BY DEF Invalidate, TypeOK, Tables

(* The records that are there now are among the old ones.                  *)
LEMMA OwnRecords ==
    ASSUME NEW f \in Paths
    PROVE  /\ saved[f] \in RecordsOf(f) \cup {None}
           /\ \A q \in Procs : /\ view[q][f] \in RecordsOf(f) \cup {None}
                               /\ mem[q][f] \in RecordsOf(f) \cup {None}
  BY DEF RecordsOf

(* Every variable keeps its type.                                          *)
LEMMA CacheTypeStep ==
    ASSUME CacheInv, [Next]_vars
    PROVE  TypeOK'
<1> USE CacheAssumption DEF CacheAssumption, Labels, Times
<1>0. TypeOK /\ StoredExists
  BY DEF CacheInv
<1>e. Empty \in Tables
  BY DEF Empty, Tables
<1>1. ASSUME NEW f \in Paths, NEW c \in Contents, Write(f, c)
      PROVE  /\ file' \in [Paths -> [content : Contents, time : Times]]
             /\ raced' \subseteq Paths
  BY <1>0, <1>1 DEF Write, TypeOK
<1>2. CASE \E f \in Paths, c \in Contents : Edit(f, c)
  <2>1. PICK f \in Paths, c \in Contents : Edit(f, c)
    BY <1>2
  <2>2. /\ file' \in [Paths -> [content : Contents, time : Times]] /\ raced' \subseteq Paths
    BY <1>1, <2>1 DEF Edit
  <2>3. edits' \in 0..MaxEdits
    BY <1>0, <2>1 DEF Edit, TypeOK
  <2>4. UNCHANGED <<now, objects, dbs, caches, pc, local, ops, faults>>
    BY <2>1 DEF Edit
  <2> QED
    BY <1>0, <2>2, <2>3, <2>4 DEF TypeOK, dbs, caches, local
<1>3. CASE Tick
  <2>1. now' \in Times /\ UNCHANGED <<file, raced, objects, dbs, caches, pc, local, edits, ops, faults>>
    BY <1>0, <1>3 DEF Tick, TypeOK
  <2> QED
    BY <1>0, <2>1 DEF TypeOK, dbs, caches, local
<1>s. CASE UNCHANGED vars
  BY <1>0, <1>s DEF vars, TypeOK
<1>4. ASSUME NEW p \in Procs, Open(p) \/ OpenFails(p) PROVE TypeOK'
  <2>1. CASE Open(p)
    <3>1. saved' \in Tables
      BY <1>0, <1>e, <2>1 DEF Open, TypeOK
    <3>2. /\ view' \in [Procs -> Tables] /\ opener' \in Procs \cup {Free}
          /\ backend' \in [Procs -> BOOLEAN] /\ pc' \in [Procs -> Labels]
      BY <1>0, <2>1, <3>1 DEF Open, Goto, TypeOK
    <3> QED
      BY <1>0, <2>1, <3>1, <3>2 DEF Open, TypeOK, disk, caches, local
  <2>2. CASE OpenFails(p)
    <3>1. pc' \in [Procs -> Labels] /\ faults' \in 0..MaxFaults
      BY <1>0, <2>2 DEF OpenFails, Goto, TypeOK
    <3> QED
      BY <1>0, <2>2, <3>1 DEF OpenFails, TypeOK, disk, dbs, caches, local
  <2> QED
    BY <1>4, <2>1, <2>2
<1>5. ASSUME NEW p \in Procs, NEW f \in Paths, WatchEvent(p, f) PROVE TypeOK'
  <2>1. /\ mem' \in [Procs -> Tables] /\ dirty' \in [Procs -> SUBSET Paths]
        /\ invalid' \in [Procs -> SUBSET Paths]
    BY <1>0, <1>5, Invalidated DEF WatchEvent
  <2> QED
    BY <1>0, <1>5, <2>1 DEF WatchEvent, TypeOK, disk, dbs, local
<1>6. ASSUME NEW p \in Procs, NEW o \in AllOps, NEW S \in SUBSET Paths, Begin(p, o, S) PROVE TypeOK'
  <2>1. target' \in [Procs -> [Paths -> Contents] \cup {None}]
    <3>1. PICK t \in (IF o = "checkout" THEN [Paths -> objects] ELSE {None}) :
              target' = [target EXCEPT ![p] = t]
      BY <1>6 DEF Begin
    <3>2. t \in [Paths -> Contents] \cup {None}
      BY <1>0, <3>1 DEF TypeOK
    <3> QED
      BY <1>0, <3>1, <3>2 DEF TypeOK
  <2> QED
    BY <1>0, <1>6, <2>1 DEF Begin, Goto, TypeOK, disk, dbs, caches
<1>7. ASSUME NEW p \in Procs, NEW f \in Paths, NextPath(p, f) PROVE TypeOK'
  <2>1. /\ mem' \in [Procs -> Tables] /\ dirty' \in [Procs -> SUBSET Paths]
        /\ invalid' \in [Procs -> SUBSET Paths]
    BY <1>0, <1>7, Invalidated DEF NextPath, caches, TypeOK
  <2> QED
    BY <1>0, <1>7, <2>1 DEF NextPath, Goto, TypeOK, disk, dbs
<1>8. ASSUME NEW p \in Procs, Stat(p) PROVE TypeOK'
  <2>1. path[p] \in Paths /\ file[path[p]].time \in Times /\ seen'[p] = file[path[p]].time
    BY <1>0, <1>8 DEF Stat, TypeOK
  <2>2. /\ mem' \in [Procs -> Tables] /\ dirty' \in [Procs -> SUBSET Paths]
        /\ invalid' = invalid
    <3>1. CASE ReadThrough(p, path[p]) /\ UNCHANGED <<dirty, invalid>>
      BY <1>0, <2>1, <3>1, CurrentFound DEF ReadThrough, TypeOK, Tables
    <3>2. CASE Hit(p, path[p]) /\ op[p] = "checkout"
               /\ InsertFile(p, path[p], seen'[p], target[p][path[p]], TRUE)
      <4>1. target[p][path[p]] \in Contents
        BY <1>0, <2>1, <3>2, CurrentFound DEF Hit, Records
      <4> QED
        BY <1>0, <2>1, <3>2, <4>1, Inserted
    <3> QED
      BY <1>8, <3>1, <3>2 DEF Stat
  <2>3. seen' \in [Procs -> Times] /\ pc' \in [Procs -> Labels]
    BY <1>0, <1>8, <2>1 DEF Stat, Goto, TypeOK
  <2>4. UNCHANGED <<disk, objects, dbs, op, todo, path, got, target, edits, ops, faults>>
    BY <1>8 DEF Stat
  <2> QED
    BY <1>0, <2>2, <2>3, <2>4 DEF TypeOK, disk, dbs
<1>9. ASSUME NEW p \in Procs, ReadFile(p) PROVE TypeOK'
  BY <1>0, <1>9 DEF ReadFile, Goto, TypeOK, disk, dbs, caches
<1>10. ASSUME NEW p \in Procs, StoreFile(p) PROVE TypeOK'
  <2>1. path[p] \in Paths /\ seen[p] \in Times /\ got[p] \in Contents
    BY <1>0, <1>10 DEF StoreFile, TypeOK, CacheInv, ReadSeen
  <2>2. /\ mem' \in [Procs -> Tables] /\ dirty' \in [Procs -> SUBSET Paths]
        /\ invalid' = invalid
    BY <1>0, <1>10, <2>1, Inserted DEF StoreFile
  <2>3. objects' \subseteq Contents /\ pc' \in [Procs -> Labels]
    BY <1>0, <1>10, <2>1 DEF StoreFile, Stored, Goto, TypeOK
  <2>4. UNCHANGED <<disk, dbs, local, edits, ops, faults>>
    BY <1>10 DEF StoreFile
  <2> QED
    BY <1>0, <2>2, <2>3, <2>4 DEF TypeOK, disk, dbs, local
<1>11. ASSUME NEW p \in Procs, CompareFile(p) PROVE TypeOK'
  <2>1. path[p] \in Paths /\ seen[p] \in Times
    BY <1>0 DEF TypeOK
  <2>2. /\ mem' \in [Procs -> Tables] /\ dirty' \in [Procs -> SUBSET Paths]
        /\ invalid' \in [Procs -> SUBSET Paths]
    <3>1. CASE Invalidate(p, path[p])
      BY <1>0, <2>1, <3>1, Invalidated
    <3>2. CASE file[path[p]].content = target[p][path[p]]
               /\ InsertFile(p, path[p], seen[p], target[p][path[p]], TRUE)
      <4>1. file[path[p]] \in [content : Contents, time : Times]
        BY <1>0, <2>1 DEF TypeOK
      <4>2. target[p][path[p]] \in Contents
        BY <3>2, <4>1
      <4>3. /\ mem' \in [Procs -> Tables] /\ dirty' \in [Procs -> SUBSET Paths]
            /\ invalid' = invalid
        BY <1>0, <2>1, <3>2, <4>2, Inserted
      <4> QED
        BY <1>0, <4>3 DEF TypeOK
    <3> QED
      BY <1>11, <3>1, <3>2 DEF CompareFile
  <2>3. pc' \in [Procs -> Labels]
    <3>1. Goto(p, "next") \/ Goto(p, "write")
      BY <1>11 DEF CompareFile
    <3> QED
      BY <1>0, <3>1 DEF Goto, TypeOK
  <2>4. UNCHANGED <<disk, objects, dbs, local, edits, ops, faults>>
    BY <1>11 DEF CompareFile
  <2> QED
    BY <1>0, <2>2, <2>3, <2>4 DEF TypeOK, disk, dbs, local
<1>12. ASSUME NEW p \in Procs, NEW l, pc[p] = l, l \in {"write", "stat_written"}
       PROVE  path[p] \in Paths /\ target[p][path[p]] \in Contents
  BY <1>0, <1>12 DEF TypeOK, CacheInv, Places, TargetsStored
<1>13. ASSUME NEW p \in Procs, WriteFile(p) PROVE TypeOK'
  <2>1. /\ file' \in [Paths -> [content : Contents, time : Times]] /\ raced' \subseteq Paths
    BY <1>1, <1>12, <1>13 DEF WriteFile
  <2> QED
    BY <1>0, <1>13, <2>1 DEF WriteFile, Goto, TypeOK, dbs, caches, local
<1>14. ASSUME NEW p \in Procs, StatWritten(p) PROVE TypeOK'
  <2>1. path[p] \in Paths /\ file[path[p]].time \in Times /\ target[p][path[p]] \in Contents
    BY <1>0, <1>12, <1>14 DEF StatWritten, TypeOK
  <2>2. /\ mem' \in [Procs -> Tables] /\ dirty' \in [Procs -> SUBSET Paths]
        /\ invalid' = invalid
    BY <1>0, <1>14, <2>1, Inserted DEF StatWritten
  <2>3. pc' \in [Procs -> Labels] /\ UNCHANGED <<disk, objects, dbs, local, edits, ops, faults>>
    BY <1>0, <1>14 DEF StatWritten, Goto, TypeOK
  <2> QED
    BY <1>0, <2>2, <2>3 DEF TypeOK, disk, dbs, local
<1>15. ASSUME NEW p \in Procs, NEW l \in Labels, End(p, l)
       PROVE  /\ pc' \in [Procs -> Labels] /\ op' \in [Procs -> AllOps \cup {None}]
              /\ todo' \in [Procs -> SUBSET Paths] /\ path' = path
              /\ seen' \in [Procs -> Times] /\ got' \in [Procs -> Contents \cup {None}]
              /\ target' \in [Procs -> [Paths -> Contents] \cup {None}]
  BY <1>0, <1>15 DEF End, Goto, TypeOK
<1>16. ASSUME NEW p \in Procs, Finish(p) \/ FinishUnflushed(p) PROVE TypeOK'
  <2>1. \A d : Kept(p, d) \in Tables
    BY <1>0 DEF Kept, TypeOK, Tables
  <2>2. Flushed(p) \in Tables
    BY <1>0 DEF Flushed, TypeOK, Tables
  <2>3. /\ mem' \in [Procs -> Tables] /\ view' \in [Procs -> Tables]
        /\ dirty' \in [Procs -> SUBSET Paths] /\ invalid' \in [Procs -> SUBSET Paths]
    <3> USE <1>0, <2>1, <2>2 DEF TypeOK
    <3>1. CASE Finish(p)
      <4>1. view' = view \/ view' = [view EXCEPT ![p] = Flushed(p)]
        BY <3>1 DEF Finish
      <4> QED
        BY <3>1, <4>1 DEF Finish
    <3>2. CASE FinishUnflushed(p)
      BY <3>2 DEF FinishUnflushed, dbs
    <3> QED
      BY <1>16, <3>1, <3>2
  <2>4. End(p, "ready") /\ faults' \in 0..MaxFaults
        /\ UNCHANGED <<disk, objects, saved, opener, backend, edits, ops>>
    BY <1>0, <1>16 DEF Finish, FinishUnflushed, dbs, TypeOK
  <2> QED
    BY <1>0, <1>15, <2>3, <2>4 DEF TypeOK, disk
<1>17. ASSUME NEW p \in Procs, Close(p) \/ Crash(p) PROVE TypeOK'
  <2>1. Leave(p, {view[p]}) \/ Leave(p, {saved, view[p], Empty})
    BY <1>17 DEF Close, Crash
  <2>2. saved' \in Tables /\ opener' \in Procs \cup {Free}
    <3>1. saved' \in {saved, view[p], Empty} /\ opener' \in {opener, Free}
      BY <2>1 DEF Leave
    <3> QED
      BY <1>0, <1>e, <3>1 DEF TypeOK
  <2>3. /\ mem' \in [Procs -> Tables] /\ view' \in [Procs -> Tables]
        /\ backend' \in [Procs -> BOOLEAN]
        /\ dirty' \in [Procs -> SUBSET Paths] /\ invalid' \in [Procs -> SUBSET Paths]
    <3>1. /\ mem' = [mem EXCEPT ![p] = Empty] /\ view' = [view EXCEPT ![p] = Empty]
          /\ backend' = [backend EXCEPT ![p] = FALSE]
          /\ dirty' = [dirty EXCEPT ![p] = {}] /\ invalid' = [invalid EXCEPT ![p] = {}]
      BY <2>1 DEF Leave
    <3> QED
      BY <1>0, <1>e, <3>1 DEF TypeOK
  <2>4. End(p, "closed") /\ UNCHANGED <<disk, objects, edits, ops>>
    BY <2>1 DEF Leave
  <2>5. faults' \in 0..MaxFaults
    BY <1>0, <1>17 DEF Close, Crash, TypeOK
  <2> QED
    BY <1>0, <1>15, <2>2, <2>3, <2>4, <2>5 DEF TypeOK, disk
<1> QED
  BY <1>2, <1>3, <1>s, <1>4, <1>5, <1>6, <1>7, <1>8, <1>9, <1>10, <1>11, <1>13, <1>14, <1>16, <1>17
  DEF Next, Step

-----------------------------------------------------------------------------
(* The invariant, taken apart: the files, the records and each process.    *)
FilesInv == \A f \in Paths : file[f].time <= now

RecordsInv ==
    /\ CacheExact /\ StoredExists
    /\ \A f \in Paths : \A e \in RecordsOf(f) : e.time <= file[f].time

(* What is in memory and not in the database is dirty.                     *)
Clean(p) ==
    \A f \in Paths : backend[p] /\ mem[p][f] # None =>
        f \in dirty[p] \/ (mem[p][f] = view[p][f] /\ f \notin invalid[p])

ProcInv(p) ==
    /\ ~backend[p] => view[p] = Empty
    /\ pc[p] = "stat" /\ op[p] = "hinted" => Current(p, path[p]) = None
    /\ pc[p] \in {"read", "store"} => seen[p] <= file[path[p]].time
    /\ pc[p] = "store" =>
           /\ got[p] \in Contents
           /\ \/ path[p] \in raced
              \/ seen[p] = file[path[p]].time => got[p] = file[path[p]].content
    /\ pc[p] = "stat_written" =>
           path[p] \in raced \/ file[path[p]].content = target[p][path[p]]
    /\ op[p] = "checkout" => \A f \in Paths : target[p][f] \in objects
    /\ pc[p] = "closed" => mem[p] = Empty
    /\ pc[p] \notin {"closed", "ready"} => op[p] \in AllOps
    /\ pc[p] \in {"write", "stat_written"} => op[p] = "checkout"
    /\ Clean(p)

LEMMA Apart ==
    CacheInv <=> TypeOK /\ FilesInv /\ RecordsInv /\ \A p \in Procs : ProcInv(p)
<1>1. ASSUME CacheInv PROVE TypeOK /\ FilesInv /\ RecordsInv
  BY <1>1 DEF CacheInv, FilesInv, RecordsInv, TimesOrdered
<1>2. ASSUME CacheInv, NEW p \in Procs PROVE ProcInv(p)
  <2>1. path[p] \in Paths
    BY <1>2 DEF CacheInv, TypeOK
  <2> QED
    BY <1>2, <2>1 DEF CacheInv, ProcInv, NoBackendNoView, HintsReread, TimesOrdered, ReadSeen,
        WrittenSeen, TargetsStored, Places, Clean, CleanRecordsSaved
<1>3. ASSUME TypeOK, FilesInv, RecordsInv, \A p \in Procs : ProcInv(p) PROVE CacheInv
  <2>1. NoBackendNoView /\ HintsReread
    BY <1>3 DEF ProcInv, NoBackendNoView, HintsReread
  <2>2. TimesOrdered
    BY <1>3 DEF ProcInv, TimesOrdered, FilesInv, RecordsInv
  <2>3. ReadSeen /\ WrittenSeen
    BY <1>3 DEF ProcInv, ReadSeen, WrittenSeen
  <2>4. TargetsStored /\ Places
    BY <1>3 DEF ProcInv, TargetsStored, Places
  <2>5. CleanRecordsSaved
    BY <1>3 DEF ProcInv, Clean, CleanRecordsSaved
  <2> QED
    BY <1>3, <2>1, <2>2, <2>3, <2>4, <2>5 DEF CacheInv, RecordsInv
<1> QED
  BY <1>1, <1>2, <1>3

(* A write leaves the records right, and no process with a fingerprint or  *)
(* a look at the file to come is wrong about it.                           *)
LEMMA WriteRecords ==
    ASSUME TypeOK, FilesInv, RecordsInv, NEW f \in Paths, NEW c \in Contents, Write(f, c),
           UNCHANGED <<now, objects, saved, view, mem>>
    PROVE  FilesInv' /\ RecordsInv'
<1>1. /\ \A g \in Paths : file[g].time \in Nat /\ file[g] \in [content : Contents, time : Times]
      /\ now \in Nat
      /\ \A g \in Paths : file'[g] = IF g = f THEN [content |-> c, time |-> now] ELSE file[g]
      /\ \A g \in Paths : g # f => (g \in raced' <=> g \in raced)
      /\ f \in raced' <=> Unseen(f)
  BY CacheAssumption DEF Write, TypeOK, Times, CacheAssumption
<1>2. \A g \in Paths : RecordsOf(g)' = RecordsOf(g)
  BY DEF RecordsOf
<1>3. \A g \in Paths : \A e \in RecordsOf(g) : e.time \in Nat /\ e.time <= file[g].time
  <2> SUFFICES ASSUME NEW g \in Paths, NEW e \in RecordsOf(g) PROVE e \in Records
    BY CacheAssumption DEF RecordsInv, Records, Times, CacheAssumption
  <2> QED
    BY DEF RecordsOf, TypeOK, Tables
<1>4. FilesInv'
  BY <1>1 DEF FilesInv
<1>5. CacheExact'
  <2> SUFFICES ASSUME NEW g \in Paths, g \notin raced', NEW e \in RecordsOf(g),
                      e.time = file'[g].time
               PROVE  e.id = file'[g].content
    BY <1>2 DEF CacheExact
  <2>1. CASE g = f
    <3>1. file[f].time # now
      BY <1>1, <2>1 DEF Unseen
    <3> QED
      BY <1>1, <1>3, <2>1, <3>1 DEF FilesInv
  <2>2. CASE g # f
    BY <1>1, <2>2 DEF RecordsInv, CacheExact
  <2> QED
    BY <2>1, <2>2
<1>6. StoredExists'
  BY <1>2 DEF RecordsInv, StoredExists
<1>7. \A g \in Paths : \A e \in RecordsOf(g)' : e.time <= file'[g].time
  BY <1>1, <1>2, <1>3 DEF FilesInv
<1> QED
  BY <1>4, <1>5, <1>6, <1>7 DEF RecordsInv

LEMMA WriteProcs ==
    ASSUME TypeOK, FilesInv, NEW q \in Procs, ProcInv(q), NEW f \in Paths, NEW c \in Contents,
           Write(f, c), pc'[q] = pc[q], UNCHANGED <<now, objects, dbs, caches, local>>
    PROVE  ProcInv(q)'
<1>1. /\ \A g \in Paths : file[g].time \in Nat
      /\ now \in Nat /\ seen[q] \in Nat /\ path[q] \in Paths
      /\ \A g \in Paths : file'[g] = IF g = f THEN [content |-> c, time |-> now] ELSE file[g]
      /\ \A g \in Paths : g # f => (g \in raced' <=> g \in raced)
      /\ f \in raced' <=> Unseen(f)
  BY CacheAssumption DEF Write, TypeOK, Times, CacheAssumption
<1>2. /\ UNCHANGED <<objects, view, backend, mem, dirty, invalid, op, path, seen, got, target>>
      /\ Current(q, path[q])' = Current(q, path[q])
  BY DEF dbs, caches, local, Current
<1>3. pc[q] \in {"read", "store"} => seen[q] <= file'[path[q]].time
  BY <1>1 DEF ProcInv, FilesInv
<1>4. pc[q] = "store" /\ path[q] \notin raced' =>
          (seen[q] = file'[path[q]].time => got[q] = file'[path[q]].content)
  <2>1. CASE path[q] = f
    BY <1>1, <2>1 DEF ProcInv, FilesInv, Unseen
  <2>2. CASE path[q] # f
    BY <1>1, <2>2 DEF ProcInv
  <2> QED
    BY <2>1, <2>2
<1>5. pc[q] = "stat_written" => path[q] \in raced' \/ file'[path[q]].content = target[q][path[q]]
  BY <1>1 DEF ProcInv, Unseen
<1> QED
  BY <1>2, <1>3, <1>4, <1>5 DEF ProcInv, Clean

(* A process whose own state a step leaves alone stays right.              *)
Own(q) == <<view[q], backend[q], mem[q], dirty[q], invalid[q], pc[q], op[q], path[q], seen[q],
            got[q], target[q]>>

LEMMA OthersStayRight ==
    ASSUME NEW q \in Procs, ProcInv(q), Own(q)' = Own(q), UNCHANGED <<file, raced>>,
           objects \subseteq objects'
    PROVE  ProcInv(q)'
<1>1. /\ view'[q] = view[q] /\ backend'[q] = backend[q] /\ mem'[q] = mem[q]
      /\ dirty'[q] = dirty[q] /\ invalid'[q] = invalid[q] /\ pc'[q] = pc[q] /\ op'[q] = op[q]
      /\ path'[q] = path[q] /\ seen'[q] = seen[q] /\ got'[q] = got[q] /\ target'[q] = target[q]
  BY DEF Own
<1>2. Current(q, path[q])' = Current(q, path[q])
  BY <1>1 DEF Current
<1> QED
  BY <1>1, <1>2 DEF ProcInv, Clean

LEMMA OthersUnchanged ==
    ASSUME TypeOK, NEW p \in Procs, NEW q \in Procs, q # p, Step(p)
    PROVE  Own(q)' = Own(q)
<1> USE DEF TypeOK, Own
<1>1. CASE Open(p) \/ OpenFails(p)
  BY <1>1 DEF Open, OpenFails, Goto, dbs, caches, local
<1>2. ASSUME NEW f, Invalidate(p, f)
      PROVE  mem'[q] = mem[q] /\ dirty'[q] = dirty[q] /\ invalid'[q] = invalid[q]
  BY <1>2 DEF Invalidate
<1>3. ASSUME NEW f, NEW t, NEW c, NEW b, InsertFile(p, f, t, c, b)
      PROVE  mem'[q] = mem[q] /\ dirty'[q] = dirty[q] /\ invalid'[q] = invalid[q]
  BY <1>3 DEF InsertFile
<1>4. CASE \E f \in Paths : WatchEvent(p, f) \/ NextPath(p, f)
  <2>1. mem'[q] = mem[q] /\ dirty'[q] = dirty[q] /\ invalid'[q] = invalid[q]
    BY <1>2, <1>4 DEF WatchEvent, NextPath, caches
  <2>2. /\ pc'[q] = pc[q] /\ op'[q] = op[q] /\ path'[q] = path[q] /\ UNCHANGED dbs
        /\ UNCHANGED <<seen, got, target>>
    BY <1>4 DEF WatchEvent, NextPath, Goto, local
  <2> QED
    BY <2>1, <2>2 DEF dbs
<1>5. CASE \E o \in AllOps, S \in SUBSET Paths \ {{}} : Begin(p, o, S)
  BY <1>5 DEF Begin, Goto, dbs, caches
<1>6. CASE Stat(p)
  <2>1. mem'[q] = mem[q] /\ dirty'[q] = dirty[q] /\ invalid'[q] = invalid[q]
    BY <1>3, <1>6 DEF Stat, ReadThrough
  <2>2. pc'[q] = pc[q] /\ seen'[q] = seen[q] /\ UNCHANGED <<dbs, op, path, got, target>>
    BY <1>6 DEF Stat, Goto
  <2> QED
    BY <2>1, <2>2 DEF dbs
<1>7. CASE ReadFile(p) \/ WriteFile(p)
  BY <1>7 DEF ReadFile, WriteFile, Goto, dbs, caches, local
<1>8. CASE StoreFile(p) \/ CompareFile(p) \/ StatWritten(p)
  <2>1. mem'[q] = mem[q] /\ dirty'[q] = dirty[q] /\ invalid'[q] = invalid[q]
    BY <1>2, <1>3, <1>8 DEF StoreFile, CompareFile, StatWritten
  <2>2. pc'[q] = pc[q] /\ UNCHANGED <<dbs, local>>
    BY <1>8 DEF StoreFile, CompareFile, StatWritten, Goto
  <2> QED
    BY <2>1, <2>2 DEF dbs, local
<1>9. ASSUME NEW l, End(p, l)
      PROVE  /\ pc'[q] = pc[q] /\ op'[q] = op[q] /\ path'[q] = path[q] /\ seen'[q] = seen[q]
             /\ got'[q] = got[q] /\ target'[q] = target[q]
  BY <1>9 DEF End, Goto
<1>10. CASE Finish(p) \/ FinishUnflushed(p)
  <2>1. /\ mem'[q] = mem[q] /\ dirty'[q] = dirty[q] /\ invalid'[q] = invalid[q]
        /\ view'[q] = view[q] /\ backend'[q] = backend[q] /\ End(p, "ready")
    BY <1>10 DEF Finish, FinishUnflushed, dbs
  <2> QED
    BY <1>9, <2>1
<1>11. CASE Close(p) \/ Crash(p)
  <2>1. /\ mem'[q] = mem[q] /\ dirty'[q] = dirty[q] /\ invalid'[q] = invalid[q]
        /\ view'[q] = view[q] /\ backend'[q] = backend[q] /\ End(p, "closed")
    BY <1>11 DEF Close, Crash, Leave
  <2> QED
    BY <1>9, <2>1
<1> QED
  BY <1>1, <1>4, <1>5, <1>6, <1>7, <1>8, <1>10, <1>11 DEF Step

(* Where every record is an old one or a new one r of path g ...           *)
LEMMA OldOrNew ==
    ASSUME NEW g, NEW r,
           \A f \in Paths : saved'[f] \in RecordsOf(f) \cup {None},
           \A f \in Paths, q \in Procs :
               /\ view'[q][f] \in RecordsOf(f) \cup {None}
               /\ \/ mem'[q][f] \in RecordsOf(f) \cup {None}
                  \/ f = g /\ mem'[q][f] = r
    PROVE  \A f \in Paths : \A e \in RecordsOf(f)' : e \in RecordsOf(f) \/ (f = g /\ e = r)
<1> SUFFICES ASSUME NEW f \in Paths, NEW e \in RecordsOf(f)', e \notin RecordsOf(f)
             PROVE  f = g /\ e = r
  OBVIOUS
<1>1. e # None /\ (e = saved'[f] \/ \E q \in Procs : e = view'[q][f] \/ e = mem'[q][f])
  BY DEF RecordsOf
<1> QED
  BY <1>1

(* ... the records stay right if the new one is.                           *)
LEMMA RecordsStayRight ==
    ASSUME RecordsInv, NEW g, NEW r, UNCHANGED <<file, raced>>, objects \subseteq objects',
           \A f \in Paths : \A e \in RecordsOf(f)' : e \in RecordsOf(f) \/ (f = g /\ e = r),
           g \in Paths =>
               /\ r.time <= file[g].time
               /\ g \in raced \/ (r.time = file[g].time => r.id = file[g].content)
               /\ r.stored => r.id \in objects'
    PROVE  RecordsInv'
<1>1. CacheExact'
  BY DEF RecordsInv, CacheExact
<1>2. StoredExists'
  BY DEF RecordsInv, StoredExists
<1>3. \A f \in Paths : \A e \in RecordsOf(f)' : e.time <= file'[f].time
  BY DEF RecordsInv
<1> QED
  BY <1>1, <1>2, <1>3 DEF RecordsInv

(* They stay right where none is new ...                                   *)
LEMMA RecordsKept ==
    ASSUME RecordsInv, UNCHANGED <<file, raced>>, objects \subseteq objects',
           \A f \in Paths :
               /\ saved'[f] \in RecordsOf(f) \cup {None}
               /\ \A q \in Procs : /\ view'[q][f] \in RecordsOf(f) \cup {None}
                                   /\ mem'[q][f] \in RecordsOf(f) \cup {None}
    PROVE  RecordsInv'
<1>1. \A f \in Paths : \A e \in RecordsOf(f)' : e \in RecordsOf(f)
  <2> SUFFICES ASSUME NEW f \in Paths, NEW e \in RecordsOf(f)' PROVE e \in RecordsOf(f)
    OBVIOUS
  <2>1. e # None /\ (e = saved'[f] \/ \E q \in Procs : e = view'[q][f] \/ e = mem'[q][f])
    BY DEF RecordsOf
  <2> QED
    BY <2>1
<1>2. CacheExact'
  BY <1>1 DEF RecordsInv, CacheExact
<1>3. StoredExists'
  BY <1>1 DEF RecordsInv, StoredExists
<1> QED
  BY <1>1, <1>2, <1>3 DEF RecordsInv

(* ... and where insert_file is called with what the file had.             *)
LEMMA RecordsWithNew ==
    ASSUME TypeOK, RecordsInv, NEW p \in Procs, NEW f \in Paths, NEW t \in Times,
           NEW c \in Contents, NEW s \in BOOLEAN, InsertFile(p, f, t, c, s),
           UNCHANGED <<file, raced, saved, view>>, objects \subseteq objects',
           t <= file[f].time, f \in raced \/ (t = file[f].time => c = file[f].content),
           s => c \in objects'
    PROVE  RecordsInv'
<1> DEFINE r == RecordFor(p, f, t, c, s)
<1>0. StoredExists
  BY DEF RecordsInv
<1>1. /\ r.time = t /\ r.id = c
      /\ r.stored => s \/ c \in objects
      /\ \A q \in Procs, g \in Paths :
             mem'[q][g] = IF q = p /\ g = f THEN r ELSE mem[q][g]
  BY <1>0, Inserted
<1> HIDE DEF r
<1>2. /\ \A g \in Paths : saved'[g] \in RecordsOf(g) \cup {None}
      /\ \A g \in Paths, q \in Procs :
             /\ view'[q][g] \in RecordsOf(g) \cup {None}
             /\ \/ mem'[q][g] \in RecordsOf(g) \cup {None}
                \/ g = f /\ mem'[q][g] = r
  BY <1>1, OwnRecords
<1>3. \A g \in Paths : \A e \in RecordsOf(g)' : e \in RecordsOf(g) \/ (g = f /\ e = r)
  BY <1>2, OldOrNew
<1>4. /\ r.time <= file[f].time
      /\ f \in raced \/ (r.time = file[f].time => r.id = file[f].content)
      /\ r.stored => r.id \in objects'
  BY <1>1
<1> QED
  BY <1>3, <1>4, RecordsStayRight

LEMMA InsertedClean ==
    ASSUME TypeOK, RecordsInv, NEW p \in Procs, NEW f \in Paths, NEW t \in Times,
           NEW c \in Contents, NEW s \in BOOLEAN, InsertFile(p, f, t, c, s),
           UNCHANGED <<view, backend>>, Clean(p)
    PROVE  Clean(p)'
<1> DEFINE r == RecordFor(p, f, t, c, s)
<1>0. StoredExists
  BY DEF RecordsInv
<1>1. /\ invalid' = invalid
      /\ \A q \in Procs, g \in Paths : mem'[q][g] = IF q = p /\ g = f THEN r ELSE mem[q][g]
      /\ \A q \in Procs : dirty[q] \subseteq dirty'[q]
      /\ f \notin dirty'[p] => r = Current(p, f)
  BY <1>0, Inserted
<1> HIDE DEF r
<1> QED
  BY <1>1 DEF Clean, Current

LEMMA InvalidatedClean ==
    ASSUME TypeOK, NEW p \in Procs, NEW f \in Paths, Invalidate(p, f),
           UNCHANGED <<view, backend>>, Clean(p)
    PROVE  Clean(p)'
<1>1. /\ \A g \in Paths : mem'[p][g] = IF g = f THEN None ELSE mem[p][g]
      /\ \A g \in Paths : g # f => /\ g \in dirty'[p] <=> g \in dirty[p]
                                   /\ g \in invalid'[p] <=> g \in invalid[p]
  BY Invalidated
<1> QED
  BY <1>1 DEF Clean

-----------------------------------------------------------------------------
(* A process that opens or closes the cache, or begins or ends an          *)
(* operation, brings no new record.                                        *)
LEMMA OpenRight ==
    ASSUME CacheInv, NEW p \in Procs, Open(p) \/ OpenFails(p)
    PROVE  RecordsInv' /\ ProcInv(p)'
<1>0. TypeOK /\ RecordsInv /\ ProcInv(p)
  BY Apart
<1>1. /\ UNCHANGED <<file, raced, objects, mem, dirty, invalid, op, path, seen, got, target>>
      /\ pc[p] = "closed" /\ pc'[p] = "ready"
      /\ saved' = saved \/ saved' = Empty
      /\ \A q \in Procs : view'[q] = view[q] \/ view'[q] = saved'
      /\ backend'[p] \/ (view'[p] = view[p] /\ backend'[p] = backend[p])
  BY <1>0 DEF Open, OpenFails, Goto, TypeOK, disk, dbs, caches, local
<1>2. RecordsInv'
  <2>1. \A f \in Paths : Empty[f] = None
    BY DEF Empty
  <2>2. \A f \in Paths :
            /\ saved'[f] \in RecordsOf(f) \cup {None}
            /\ \A q \in Procs : /\ view'[q][f] \in RecordsOf(f) \cup {None}
                                /\ mem'[q][f] \in RecordsOf(f) \cup {None}
    BY <1>1, <2>1, OwnRecords
  <2> QED
    BY <1>0, <1>1, <2>2, RecordsKept
<1>3. Clean(p)'
  BY <1>0, <1>1 DEF ProcInv, Clean, Empty
<1>4. ProcInv(p)'
  BY <1>0, <1>1, <1>3 DEF ProcInv
<1> QED
  BY <1>2, <1>4

LEMMA BeginRight ==
    ASSUME CacheInv, NEW p \in Procs, NEW o \in AllOps, NEW S \in SUBSET Paths, Begin(p, o, S)
    PROVE  RecordsInv' /\ ProcInv(p)'
<1>0. TypeOK /\ RecordsInv /\ ProcInv(p)
  BY Apart
<1>1. /\ UNCHANGED <<file, raced, objects, saved, view, backend, mem, dirty, invalid>>
      /\ pc'[p] = "next" /\ op'[p] = o
  BY <1>0 DEF Begin, Goto, TypeOK, disk, dbs, caches
<1>2. RecordsInv'
  BY <1>0, <1>1, OwnRecords, RecordsKept
<1>3. o = "checkout" => \A f \in Paths : target'[p][f] \in objects
  <2>1. PICK t \in (IF o = "checkout" THEN [Paths -> objects] ELSE {None}) :
            target' = [target EXCEPT ![p] = t]
    BY DEF Begin
  <2>2. target'[p] = t
    BY <1>0, <2>1 DEF TypeOK
  <2> QED
    BY <2>1, <2>2
<1>4. Clean(p)'
  BY <1>0, <1>1 DEF ProcInv, Clean
<1>5. ProcInv(p)'
  BY <1>0, <1>1, <1>3, <1>4 DEF ProcInv
<1> QED
  BY <1>2, <1>5

LEMMA FinishRight ==
    ASSUME CacheInv, NEW p \in Procs, Finish(p) \/ FinishUnflushed(p)
    PROVE  RecordsInv' /\ ProcInv(p)'
<1>0. TypeOK /\ RecordsInv /\ ProcInv(p)
  BY Apart
<1>1. /\ UNCHANGED <<file, raced, objects, saved, backend>> /\ End(p, "ready")
      /\ \A q \in Procs \ {p} : view'[q] = view[q] /\ mem'[q] = mem[q]
  BY <1>0 DEF Finish, FinishUnflushed, TypeOK, disk, dbs
<1>2. pc'[p] = "ready" /\ op'[p] = None
  BY <1>0, <1>1 DEF End, Goto, TypeOK
<1>3. CASE Finish(p)
  <2>1. /\ view'[p] = IF backend[p] THEN Flushed(p) ELSE view[p]
        /\ mem'[p] = Kept(p, {}) /\ dirty'[p] = {} /\ invalid'[p] = {}
    BY <1>0, <1>3 DEF Finish, TypeOK
  <2>2. \A f \in Paths : /\ view'[p][f] \in {mem[p][f], view[p][f], None}
                         /\ mem'[p][f] \in {mem[p][f], None}
    BY <2>1 DEF Flushed, Kept
  <2>3. Clean(p)'
    <3> SUFFICES ASSUME NEW f \in Paths, backend[p], mem'[p][f] # None
                 PROVE  mem'[p][f] = view'[p][f] /\ f \notin invalid'[p]
      BY <1>1 DEF Clean
    <3>1. mem'[p][f] = mem[p][f]
      BY <2>1 DEF Kept
    <3>2. view'[p][f] = IF f \in dirty[p] THEN mem[p][f]
                        ELSE IF f \in invalid[p] THEN None ELSE view[p][f]
      BY <2>1 DEF Flushed
    <3> QED
      BY <1>0, <2>1, <3>1, <3>2 DEF ProcInv, Clean
  <2> QED
    BY <1>0, <1>1, <2>1, <2>2, <2>3, <1>2, OwnRecords, RecordsKept, CacheAssumption
    DEF ProcInv, CacheAssumption, AllOps
<1>4. CASE FinishUnflushed(p)
  <2>1. /\ UNCHANGED <<view, dirty, invalid>> /\ mem'[p] = Kept(p, dirty[p])
    BY <1>0, <1>4 DEF FinishUnflushed, TypeOK, dbs
  <2>2. \A f \in Paths : mem'[p][f] \in {mem[p][f], None}
    BY <2>1 DEF Kept
  <2>3. Clean(p)'
    BY <1>0, <1>1, <2>1, <2>2 DEF ProcInv, Clean
  <2> QED
    BY <1>0, <1>1, <2>1, <2>2, <2>3, <1>2, OwnRecords, RecordsKept, CacheAssumption
    DEF ProcInv, CacheAssumption, AllOps
<1> QED
  BY <1>3, <1>4

LEMMA LeaveRight ==
    ASSUME CacheInv, NEW p \in Procs, Close(p) \/ Crash(p)
    PROVE  RecordsInv' /\ ProcInv(p)'
<1>0. TypeOK /\ RecordsInv /\ ProcInv(p)
  BY Apart
<1>1. Leave(p, {view[p]}) \/ Leave(p, {saved, view[p], Empty})
  BY DEF Close, Crash
<1>2. /\ UNCHANGED <<file, raced, objects>> /\ End(p, "closed")
      /\ saved' \in {saved, view[p], Empty}
  BY <1>1 DEF Leave, disk
<1>3. /\ view'[p] = Empty /\ mem'[p] = Empty
      /\ \A q \in Procs \ {p} : view'[q] = view[q] /\ mem'[q] = mem[q]
  BY <1>0, <1>1 DEF Leave, TypeOK
<1>4. pc'[p] = "closed" /\ op'[p] = None
  BY <1>0, <1>2 DEF End, Goto, TypeOK
<1>5. \A f \in Paths : Empty[f] = None
  BY DEF Empty
<1>6. RecordsInv'
  <2>1. \A f \in Paths :
            /\ saved'[f] \in RecordsOf(f) \cup {None}
            /\ \A q \in Procs : /\ view'[q][f] \in RecordsOf(f) \cup {None}
                                /\ mem'[q][f] \in RecordsOf(f) \cup {None}
    BY <1>2, <1>3, <1>5, OwnRecords
  <2> QED
    BY <1>0, <1>2, <2>1, RecordsKept
<1>7. ProcInv(p)'
  BY <1>3, <1>4, <1>5, CacheAssumption DEF ProcInv, Clean, CacheAssumption, AllOps
<1> QED
  BY <1>6, <1>7

(* An invalidated path has no record until a new one is inserted.          *)
LEMMA EventRight ==
    ASSUME CacheInv, NEW p \in Procs, NEW f \in Paths, WatchEvent(p, f) \/ NextPath(p, f)
    PROVE  RecordsInv' /\ ProcInv(p)'
<1>0. TypeOK /\ RecordsInv /\ ProcInv(p)
  BY Apart
<1>1. UNCHANGED <<file, raced, objects, saved, view, backend, op, seen, got, target>>
  BY DEF WatchEvent, NextPath, disk, dbs, local
<1>2. \/ pc'[p] = "ready" /\ Invalidate(p, f)
      \/ pc'[p] = "stat" /\ pc[p] = "next" /\ path'[p] = f /\ op[p] = "hinted" /\ Invalidate(p, f)
      \/ pc'[p] = "stat" /\ pc[p] = "next" /\ op[p] # "hinted" /\ UNCHANGED caches
  BY <1>0 DEF WatchEvent, NextPath, Goto, TypeOK
<1>3. CASE Invalidate(p, f)
  <2>1. \A q \in Procs, g \in Paths : mem'[q][g] = IF q = p /\ g = f THEN None ELSE mem[q][g]
    BY <1>0, <1>3, Invalidated
  <2>2. RecordsInv'
    BY <1>0, <1>1, <2>1, OwnRecords, RecordsKept
  <2>3. Clean(p)'
    BY <1>0, <1>1, <1>3, InvalidatedClean DEF ProcInv
  <2>4. pc'[p] = "stat" /\ op[p] = "hinted" => Current(p, path[p])' = None
    <3> SUFFICES ASSUME pc'[p] = "stat", op[p] = "hinted" PROVE Current(p, path[p])' = None
      OBVIOUS
    <3>1. path'[p] = f
      BY <1>2
    <3>2. mem'[p][f] = None
      BY <2>1
    <3>3. backend[p] => f \in invalid'[p]
      BY <1>0, <1>3, Invalidated
    <3>4. ~backend[p] => view[p][f] = None
      BY <1>0 DEF ProcInv, Empty
    <3> QED
      BY <1>1, <3>1, <3>2, <3>3, <3>4 DEF Current
  <2>5. pc'[p] \in {"ready", "stat"} /\ (pc'[p] = "stat" => op[p] \in AllOps)
    BY <1>0, <1>2 DEF ProcInv
  <2> QED
    BY <1>0, <1>1, <2>2, <2>3, <2>4, <2>5 DEF ProcInv
<1>4. CASE pc'[p] = "stat" /\ pc[p] = "next" /\ op[p] # "hinted" /\ UNCHANGED caches
  <2>1. RecordsInv'
    BY <1>0, <1>1, <1>4, OwnRecords, RecordsKept DEF caches
  <2>2. Clean(p)'
    BY <1>0, <1>1, <1>4 DEF ProcInv, Clean, caches
  <2> QED
    BY <1>0, <1>1, <1>4, <2>1, <2>2 DEF ProcInv
<1> QED
  BY <1>2, <1>3, <1>4

(* A fingerprint is taken.                                                 *)
LEMMA StatRight ==
    ASSUME CacheInv, NEW p \in Procs, Stat(p)
    PROVE  RecordsInv' /\ ProcInv(p)'
<1> DEFINE f == path[p]
<1>0. TypeOK /\ RecordsInv /\ ProcInv(p)
  BY Apart
<1>1. /\ UNCHANGED <<file, raced, objects, saved, view, backend, op, path, got, target>>
      /\ pc[p] = "stat" /\ seen'[p] = file[f].time
      /\ pc'[p] \in {"next", "read"}
  BY <1>0 DEF Stat, Goto, TypeOK, disk, dbs
<1>2. f \in Paths /\ file[f].time \in Times /\ file[f].time \in Nat
  BY <1>0, CacheAssumption DEF TypeOK, Times, CacheAssumption
<1>3. ASSUME RecordsInv', Clean(p)' PROVE ProcInv(p)'
  BY <1>0, <1>1, <1>2, <1>3 DEF ProcInv
<1>4. CASE ReadThrough(p, f) /\ UNCHANGED <<dirty, invalid>>
  <2>1. \A q \in Procs, g \in Paths :
            mem'[q][g] = IF q = p /\ g = f THEN Current(p, f) ELSE mem[q][g]
    BY <1>0, <1>2, <1>4 DEF ReadThrough, TypeOK, Tables
  <2>2. Current(p, f) \in RecordsOf(f) \cup {None}
    BY <1>0, <1>2, CurrentFound
  <2>3. RecordsInv'
    BY <1>0, <1>1, <2>1, <2>2, OwnRecords, RecordsKept
  <2>4. Clean(p)'
    BY <1>0, <1>1, <1>2, <1>4, <2>1 DEF ProcInv, Clean, Current
  <2> QED
    BY <1>3, <2>3, <2>4
<1>5. CASE Hit(p, f) /\ op[p] = "checkout" /\ InsertFile(p, f, seen'[p], target[p][f], TRUE)
  <2>1. /\ Current(p, f) \in Records /\ Current(p, f) \in RecordsOf(f)
        /\ Current(p, f).time = file[f].time /\ Current(p, f).id = target[p][f]
    BY <1>0, <1>2, <1>5, CurrentFound DEF Hit
  <2>2. target[p][f] \in Contents /\ target[p][f] \in objects
    BY <1>0, <1>2, <1>5, <2>1 DEF ProcInv, Records
  <2>3. f \in raced \/ target[p][f] = file[f].content
    BY <1>0, <1>2, <2>1 DEF RecordsInv, CacheExact
  <2>4. RecordsInv'
    <3>1. /\ seen'[p] \in Times /\ seen'[p] <= file[f].time
          /\ f \in raced \/ (seen'[p] = file[f].time => target[p][f] = file[f].content)
      BY <1>1, <1>2, <2>3
    <3>2. UNCHANGED <<file, raced, saved, view>> /\ objects \subseteq objects'
      BY <1>1
    <3>3. TRUE => target[p][f] \in objects'
      BY <1>1, <2>2
    <3> QED
      BY <1>0, <1>2, <1>5, <2>2, <3>1, <3>2, <3>3, RecordsWithNew
  <2>5. Clean(p)'
    BY <1>0, <1>1, <1>2, <1>5, <2>2, InsertedClean DEF ProcInv
  <2> QED
    BY <1>3, <2>4, <2>5
<1> QED
  BY <1>4, <1>5 DEF Stat

(* What was read goes with the fingerprint taken before.                   *)
LEMMA ReadRight ==
    ASSUME CacheInv, NEW p \in Procs, ReadFile(p)
    PROVE  RecordsInv' /\ ProcInv(p)'
<1>0. TypeOK /\ RecordsInv /\ ProcInv(p)
  BY Apart
<1>1. /\ UNCHANGED <<file, raced, objects, saved, view, backend, mem, dirty, invalid, op, path,
                     seen, target>>
      /\ pc[p] = "read" /\ pc'[p] = "store" /\ op[p] # "checkout"
      /\ got'[p] = file[path[p]].content
  BY <1>0 DEF ReadFile, Goto, TypeOK, disk, dbs, caches
<1>2. path[p] \in Paths /\ file[path[p]].content \in Contents
  BY <1>0 DEF TypeOK
<1>3. RecordsInv'
  BY <1>0, <1>1, OwnRecords, RecordsKept
<1>4. Clean(p)'
  BY <1>0, <1>1 DEF ProcInv, Clean
<1>5. ProcInv(p)'
  BY <1>0, <1>1, <1>2, <1>4 DEF ProcInv
<1> QED
  BY <1>3, <1>5

LEMMA StoreRight ==
    ASSUME CacheInv, NEW p \in Procs, StoreFile(p)
    PROVE  RecordsInv' /\ ProcInv(p)' /\ objects \subseteq objects'
<1> DEFINE f == path[p]
<1>0. TypeOK /\ RecordsInv /\ ProcInv(p)
  BY Apart
<1>1. /\ UNCHANGED <<file, raced, saved, view, backend, op, path, seen, got, target>>
      /\ pc[p] = "store" /\ pc'[p] = "next" /\ objects \subseteq objects'
      /\ op[p] # "scan" => got[p] \in objects'
  BY <1>0 DEF StoreFile, Stored, Goto, TypeOK, disk, dbs, local
<1>2. f \in Paths /\ seen[p] \in Times /\ got[p] \in Contents /\ seen[p] <= file[f].time
      /\ (f \in raced \/ (seen[p] = file[f].time => got[p] = file[f].content))
  BY <1>0, <1>1 DEF ProcInv, TypeOK
<1>3. InsertFile(p, f, seen[p], got[p], op[p] # "scan") /\ (op[p] # "scan") \in BOOLEAN
  BY DEF StoreFile
<1>4. RecordsInv'
  BY <1>0, <1>1, <1>2, <1>3, RecordsWithNew
<1>5. Clean(p)'
  BY <1>0, <1>1, <1>2, <1>3, InsertedClean DEF ProcInv
<1>6. ProcInv(p)'
  BY <1>0, <1>1, <1>5 DEF ProcInv
<1> QED
  BY <1>1, <1>4, <1>6

(* A checkout inserts the content that the file has, or writes it.         *)
LEMMA CompareRight ==
    ASSUME CacheInv, NEW p \in Procs, CompareFile(p)
    PROVE  RecordsInv' /\ ProcInv(p)'
<1> DEFINE f == path[p]
           c == target[p][f]
<1>0. TypeOK /\ RecordsInv /\ ProcInv(p)
  BY Apart
<1>1. /\ UNCHANGED <<file, raced, objects, saved, view, backend, op, path, seen, got, target>>
      /\ pc[p] = "read" /\ op[p] = "checkout" /\ pc'[p] \in {"next", "write"}
  BY <1>0 DEF CompareFile, Goto, TypeOK, disk, dbs, local
<1>2. f \in Paths /\ seen[p] \in Times /\ seen[p] <= file[f].time
      /\ file[f].content \in Contents /\ c \in objects
  BY <1>0, <1>1 DEF ProcInv, TypeOK
<1>3. ASSUME Clean(p)' PROVE ProcInv(p)'
  BY <1>0, <1>1, <1>3 DEF ProcInv, AllOps
<1>4. CASE file[f].content = c /\ InsertFile(p, f, seen[p], c, TRUE)
  <2>1. RecordsInv'
    BY <1>0, <1>1, <1>2, <1>4, RecordsWithNew
  <2>2. Clean(p)'
    BY <1>0, <1>1, <1>2, <1>4, InsertedClean DEF ProcInv
  <2> QED
    BY <1>3, <2>1, <2>2
<1>5. CASE Invalidate(p, f)
  <2>1. \A q \in Procs, g \in Paths : mem'[q][g] = IF q = p /\ g = f THEN None ELSE mem[q][g]
    BY <1>0, <1>2, <1>5, Invalidated
  <2>2. RecordsInv'
    BY <1>0, <1>1, <2>1, OwnRecords, RecordsKept
  <2>3. Clean(p)'
    BY <1>0, <1>1, <1>2, <1>5, InvalidatedClean DEF ProcInv
  <2> QED
    BY <1>3, <2>2, <2>3
<1> QED
  BY <1>4, <1>5 DEF CompareFile

LEMMA StatWrittenRight ==
    ASSUME CacheInv, NEW p \in Procs, StatWritten(p)
    PROVE  RecordsInv' /\ ProcInv(p)'
<1> DEFINE f == path[p]
           c == target[p][f]
<1>0. TypeOK /\ RecordsInv /\ ProcInv(p)
  BY Apart
<1>1. /\ UNCHANGED <<file, raced, objects, saved, view, backend, op, path, seen, got, target>>
      /\ pc[p] = "stat_written" /\ pc'[p] = "next"
  BY <1>0 DEF StatWritten, Goto, TypeOK, disk, dbs, local
<1>2. f \in Paths /\ file[f].time \in Times /\ file[f].time <= file[f].time
  BY <1>0, CacheAssumption DEF TypeOK, Times, CacheAssumption
<1>3. c \in objects /\ c \in Contents /\ (f \in raced \/ c = file[f].content)
  BY <1>0, <1>1, <1>2 DEF ProcInv, TypeOK
<1>4. InsertFile(p, f, file[f].time, c, TRUE)
  BY DEF StatWritten
<1>5. RecordsInv'
  BY <1>0, <1>1, <1>2, <1>3, <1>4, RecordsWithNew
<1>6. Clean(p)'
  BY <1>0, <1>1, <1>2, <1>3, <1>4, InsertedClean DEF ProcInv
<1>7. ProcInv(p)'
  BY <1>0, <1>1, <1>6 DEF ProcInv, AllOps
<1> QED
  BY <1>5, <1>7

(* The checkout that writes a file finds there what it wrote.              *)
LEMMA WriteRight ==
    ASSUME CacheInv, NEW p \in Procs, WriteFile(p)
    PROVE  FilesInv' /\ RecordsInv' /\ \A q \in Procs : ProcInv(q)'
<1> DEFINE f == path[p]
           c == target[p][f]
<1>0. TypeOK /\ FilesInv /\ RecordsInv /\ \A q \in Procs : ProcInv(q)
  BY Apart
<1>1. /\ UNCHANGED <<now, objects, dbs, caches, local>> /\ pc[p] = "write"
      /\ pc'[p] = "stat_written" /\ Write(f, c) /\ \A q \in Procs \ {p} : pc'[q] = pc[q]
  BY <1>0 DEF WriteFile, Goto, TypeOK
<1>2. f \in Paths /\ c \in Contents
  BY <1>0, <1>1 DEF TypeOK, ProcInv
<1>3. FilesInv' /\ RecordsInv'
  BY <1>0, <1>1, <1>2, WriteRecords DEF dbs, caches
<1>4. ASSUME NEW q \in Procs, q # p PROVE ProcInv(q)'
  BY <1>0, <1>1, <1>2, <1>4, WriteProcs
<1>5. ProcInv(p)'
  <2>1. UNCHANGED <<objects, view, backend, mem, dirty, invalid, op, path, target>>
    BY <1>1 DEF dbs, caches, local
  <2>2. file'[f].content = c
    BY <1>0, <1>1, <1>2 DEF Write, TypeOK
  <2>3. Clean(p)'
    BY <1>0, <2>1 DEF ProcInv, Clean
  <2> QED
    BY <1>0, <1>1, <2>1, <2>2, <2>3 DEF ProcInv
<1> QED
  BY <1>3, <1>4, <1>5

(* Every step keeps the invariant.                                         *)
LEMMA CacheStep ==
    ASSUME CacheInv, [Next]_vars
    PROVE  CacheInv'
<1>0. TypeOK /\ FilesInv /\ RecordsInv /\ \A p \in Procs : ProcInv(p)
  BY Apart
<1>1. ASSUME FilesInv', RecordsInv', \A p \in Procs : ProcInv(p)' PROVE CacheInv'
  <2>1. TypeOK'
    BY CacheTypeStep
  <2>2. (CacheInv <=> TypeOK /\ FilesInv /\ RecordsInv /\ \A p \in Procs : ProcInv(p))'
    BY Apart, PTL
  <2> QED
    BY <1>1, <2>1, <2>2
<1>2. ASSUME NEW f \in Paths, NEW c \in Contents, Edit(f, c) PROVE CacheInv'
  <2>1. UNCHANGED <<now, objects, dbs, caches, pc, local>> /\ Write(f, c)
    BY <1>2 DEF Edit
  <2>2. FilesInv' /\ RecordsInv'
    BY <1>0, <1>2, <2>1, WriteRecords DEF dbs, caches
  <2>3. ASSUME NEW q \in Procs PROVE ProcInv(q)'
    BY <1>0, <1>2, <2>1, WriteProcs
  <2> QED
    BY <1>1, <2>2, <2>3
<1>3. ASSUME Tick \/ UNCHANGED vars PROVE CacheInv'
  <2>1. UNCHANGED <<file, raced, objects, dbs, caches, pc, local>> /\ now <= now'
    BY <1>0, <1>3, CacheAssumption DEF Tick, vars, dbs, caches, local, TypeOK, Times, CacheAssumption
  <2>2. FilesInv'
    BY <1>0, <1>3, CacheAssumption DEF FilesInv, Tick, vars, TypeOK, Times, CacheAssumption
  <2>3. RecordsInv'
    BY <1>0, <2>1, OwnRecords, RecordsKept DEF dbs, caches
  <2>4. ASSUME NEW q \in Procs PROVE ProcInv(q)'
    BY <1>0, <2>1, OthersStayRight DEF Own, dbs, caches, local
  <2> QED
    BY <1>1, <2>2, <2>3, <2>4
<1>4. ASSUME NEW p \in Procs, Step(p) PROVE CacheInv'
  <2>1. CASE WriteFile(p)
    BY <1>1, <2>1, WriteRight
  <2>2. CASE ~WriteFile(p)
    <3>1. UNCHANGED <<file, raced, now>> /\ (objects' = objects \/ StoreFile(p))
      BY <1>4, <2>2 DEF Step, Open, OpenFails, Stat, ReadFile, StoreFile, CompareFile, StatWritten,
          Finish, FinishUnflushed, Close, Crash, Leave, WatchEvent, NextPath, Begin, disk
    <3>2. objects \subseteq objects'
      BY <3>1, StoreRight
    <3>3. RecordsInv' /\ ProcInv(p)'
      BY <1>4, <2>2, OpenRight, BeginRight, FinishRight, LeaveRight, EventRight, StatRight, ReadRight,
          StoreRight, CompareRight, StatWrittenRight DEF Step
    <3>4. ASSUME NEW q \in Procs, q # p PROVE ProcInv(q)'
      BY <1>0, <1>4, <3>1, <3>2, <3>4, OthersUnchanged, OthersStayRight
    <3>5. FilesInv'
      BY <1>0, <3>1 DEF FilesInv
    <3> QED
      BY <1>1, <3>3, <3>4, <3>5
  <2> QED
    BY <2>1, <2>2
<1> QED
  BY <1>2, <1>3, <1>4 DEF Next

LEMMA CacheInit == Init => CacheInv
<1> SUFFICES ASSUME Init PROVE CacheInv
  OBVIOUS
<1> USE CacheAssumption DEF CacheAssumption
<1>1. \A f \in Paths : Empty[f] = None
  BY DEF Empty
<1>2. TypeOK
  <2>1. Empty \in Tables
    BY DEF Empty, Tables
  <2>2. file \in [Paths -> [content : Contents, time : Times]]
    <3>1. {0} \subseteq Times
      BY DEF Times
    <3> QED
      BY <3>1 DEF Init
  <2>3. now \in Times /\ edits \in 0..MaxEdits /\ ops \in 0..MaxOps /\ faults \in 0..MaxFaults
        /\ seen \in [Procs -> Times]
    BY DEF Init, Times
  <2>4. path \in [Procs -> Paths]
    BY DEF Init
  <2> QED
    BY <2>1, <2>2, <2>3, <2>4 DEF Init, TypeOK, Labels
<1>3. FilesInv
  BY <1>2 DEF Init, FilesInv, TypeOK, Times
<1>4. RecordsInv
  <2>1. \A f \in Paths : RecordsOf(f) = {}
    BY <1>1 DEF Init, RecordsOf
  <2> QED
    BY <2>1 DEF RecordsInv, CacheExact, StoredExists
<1>5. ASSUME NEW p \in Procs PROVE ProcInv(p)
  BY <1>1 DEF Init, ProcInv, Clean, AllOps
<1> QED
  BY <1>2, <1>3, <1>4, <1>5, Apart

(* The invariant holds in every reachable state: no record is younger than *)
(* its file, what a capture read and what a checkout wrote go with the     *)
(* fingerprint they are inserted under, and what is not dirty is saved.    *)
THEOREM CacheInvariant == Spec => []CacheInv
<1>1. CacheInv /\ [Next]_vars => CacheInv'
  BY CacheStep
<1> QED
  BY <1>1, CacheInit, PTL DEF Spec

(* A record whose fingerprint matches the file has the id of the file's    *)
(* content, unless the file changed where no fingerprint can tell.         *)
THEOREM CacheIsExact == Spec => []CacheExact
<1>1. CacheInv => CacheExact
  BY DEF CacheInv
<1> QED
  BY <1>1, CacheInvariant, PTL

(* A record that says its blob is stored is right: capture_current_file    *)
(* may put the id into a tree.                                             *)
THEOREM CachedBlobsExist == Spec => []StoredExists
<1>1. CacheInv => StoredExists
  BY DEF CacheInv
<1> QED
  BY <1>1, CacheInvariant, PTL

(* What a capture or a scan takes from the cache instead of reading the    *)
(* file is what it would have read, and a capture's blob exists.           *)
THEOREM HitsAreRight == Spec => HitsRight
<1> DEFINE Right ==
        \A p \in Procs :
          (pc[p] = "stat" /\ pc'[p] = "next" /\ op[p] # "checkout") =>
              /\ path[p] \notin raced
                    => Current(p, path[p]).id = file[path[p]].content
              /\ op[p] # "scan" => Current(p, path[p]).id \in objects
<1>1. ASSUME CacheInv, [Next]_vars PROVE [Right]_vars
  <2> SUFFICES ASSUME NEW p \in Procs, pc[p] = "stat", pc'[p] = "next", op[p] # "checkout"
               PROVE  /\ path[p] \notin raced
                            => Current(p, path[p]).id = file[path[p]].content
                      /\ op[p] # "scan" => Current(p, path[p]).id \in objects
    OBVIOUS
  <2>0. TypeOK /\ RecordsInv /\ ProcInv(p)
    BY <1>1, Apart
  <2>1. Stat(p)
    <3>1. ASSUME NEW q \in Procs, q # p, Step(q) PROVE FALSE
      BY <2>0, <3>1, OthersUnchanged DEF Own
    <3>2. ~(UNCHANGED pc)
      OBVIOUS
    <3>3. Step(p)
      BY <1>1, <3>1, <3>2 DEF Next, Tick, Edit, vars
    <3>4. ~(Open(p) \/ OpenFails(p) \/ ReadFile(p) \/ StoreFile(p) \/ CompareFile(p)
            \/ WriteFile(p) \/ StatWritten(p) \/ Finish(p) \/ FinishUnflushed(p) \/ Close(p))
      BY DEF Open, OpenFails, ReadFile, StoreFile, CompareFile, WriteFile, StatWritten, Finish,
          FinishUnflushed, Close
    <3>5. ~\E f \in Paths : WatchEvent(p, f) \/ NextPath(p, f)
      BY DEF WatchEvent, NextPath
    <3>6. ~\E o \in AllOps, S \in SUBSET Paths \ {{}} : Begin(p, o, S)
      BY DEF Begin
    <3>7. ~Crash(p)
      BY <2>0 DEF Crash, Leave, End, Goto, TypeOK
    <3> QED
      BY <3>3, <3>4, <3>5, <3>6, <3>7 DEF Step
  <2>2. Hit(p, path[p])
    BY <2>0, <2>1 DEF Stat, Goto, TypeOK
  <2>3. path[p] \in Paths /\ Current(p, path[p]) \in RecordsOf(path[p])
        /\ Current(p, path[p]).time = file[path[p]].time
    BY <2>0, <2>2, CurrentFound DEF Hit, TypeOK
  <2>4. op[p] # "scan" => Current(p, path[p]).stored
    BY <2>0, <2>2 DEF Hit, ProcInv, AllOps
  <2> QED
    BY <2>0, <2>3, <2>4 DEF RecordsInv, CacheExact, StoredExists
<1> QED
  BY <1>1, CacheInvariant, PTL DEF Spec, HitsRight
=============================================================================

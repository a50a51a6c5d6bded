------------------------- MODULE ObjectStoreProofs --------------------------
(* The object store for any number of processes, blobs and puts, any depth *)
(* limit, any crashes and I/O errors, until a file is spoiled.             *)
EXTENDS ObjectStore, TLAPS

(* Processes only ever add files: what was stored keeps its contents.      *)
FilesKept == \A b \in Blobs : file[b] # Absent => file'[b] = file[b]

(* A blob that reads back keeps doing so, at the same depth, while files   *)
(* are only added.                                                         *)
LEMMA ReadsPersist ==
    ASSUME StoreAssumption, FilesKept, NEW b \in Blobs, NEW n \in Nat, ReadsBack(b, n)
    PROVE  ReadsBack(b, n)'
<1>1. PICK s \in [0..n -> Blobs] : /\ s[0] = b
                                  /\ Chain(s, n)
                                  /\ file[s[n]] = RawFile
                                  /\ \A i \in 0..(n - 1) : file[s[i]].depth = n - i
  BY DEF ReadsBack
<1>2. RawFile # Absent
  BY DEF StoreAssumption, RawFile
<1>3. file'[s[n]] = file[s[n]]
  BY <1>1, <1>2 DEF FilesKept
<1>4. \A i \in 0..(n - 1) : file'[s[i]] = file[s[i]]
  BY <1>1 DEF FilesKept, Chain
<1>5. Chain(s, n)'
  BY <1>1, <1>4 DEF Chain
<1>6. \A i \in 0..(n - 1) : file'[s[i]].depth = n - i
  BY <1>1, <1>4
<1>7. /\ s[0] = b
      /\ Chain(s, n)'
      /\ file'[s[n]] = RawFile
      /\ \A i \in 0..(n - 1) : file'[s[i]].depth = n - i
  BY <1>1, <1>3, <1>5, <1>6
<1> QED
  BY <1>7 DEF ReadsBack, RawFile

(* A delta on top of a blob that reads back at depth d reads back at depth *)
(* d + 1: the chain grows by one link.                                     *)
LEMMA DeltaReadsBack ==
    ASSUME StoreAssumption, NEW b \in Blobs, NEW c \in Blobs, NEW d \in Nat,
           ReadsBack(c, d), file[b] \notin {Absent, Broken},
           file[b].base = c, file[b].depth = d + 1
    PROVE  ReadsBack(b, d + 1)
<1>1. PICK s \in [0..d -> Blobs] : /\ s[0] = c
                                  /\ Chain(s, d)
                                  /\ file[s[d]] = RawFile
                                  /\ \A i \in 0..(d - 1) : file[s[i]].depth = d - i
  BY DEF ReadsBack
<1> DEFINE t == [i \in 0..(d + 1) |-> IF i = 0 THEN b ELSE s[i - 1]]
<1>2. t \in [0..(d + 1) -> Blobs] /\ t[0] = b /\ t[d + 1] = s[d]
  OBVIOUS
<1>3. \A i \in 1..d : t[i] = s[i - 1] /\ t[i + 1] = s[i]
  OBVIOUS
<1>4. t[1] = c
  BY <1>1
<1>5. Chain(t, d + 1)
  <2>0. (d + 1) - 1 = d
    OBVIOUS
  <2> SUFFICES ASSUME NEW i \in 0..d
               PROVE  /\ file[t[i]] \notin {Absent, Broken}
                      /\ file[t[i]].base = t[i + 1]
    BY <2>0 DEF Chain
  <2>1. CASE i = 0
    BY <2>1, <1>2, <1>4
  <2>2. CASE i # 0
    <3>1. i - 1 \in 0..(d - 1) /\ i \in 1..d /\ (i - 1) + 1 = i
      BY <2>2
    <3> HIDE DEF t
    <3> QED
      BY <3>1, <1>1, <1>3 DEF Chain
  <2> QED
    BY <2>1, <2>2
<1>6. \A i \in 0..d : file[t[i]].depth = (d + 1) - i
  <2> SUFFICES ASSUME NEW i \in 0..d PROVE file[t[i]].depth = (d + 1) - i
    OBVIOUS
  <2>1. CASE i = 0
    BY <2>1, <1>2
  <2>2. CASE i # 0
    <3>1. i - 1 \in 0..(d - 1) /\ i \in 1..d /\ d - (i - 1) = (d + 1) - i
      BY <2>2
    <3> HIDE DEF t
    <3> QED
      BY <3>1, <1>1, <1>3
  <2> QED
    BY <2>1, <2>2
<1>7. (d + 1) - 1 = d
  OBVIOUS
<1> HIDE DEF t
<1> QED
  BY <1>1, <1>2, <1>5, <1>6, <1>7 DEF ReadsBack

(* The same for all blobs at once, to be used of the next state as well.   *)
DeltasReadBack ==
    \A x, y \in Blobs, k \in Nat :
        (/\ ReadsBack(y, k)
         /\ file[x] \notin {Absent, Broken}
         /\ file[x].base = y
         /\ file[x].depth = k + 1) => ReadsBack(x, k + 1)

LEMMA DeltasReadBackLemma == DeltasReadBack
  BY DeltaReadsBack, StoreAssumption DEF DeltasReadBack

(* A raw file reads back at depth 0.                                       *)
LEMMA RawReadsBack ==
    ASSUME NEW b \in Blobs, file[b] = RawFile
    PROVE  ReadsBack(b, 0)
<1> DEFINE s == [i \in 0..0 |-> b]
<1>1. s \in [0..0 -> Blobs] /\ s[0] = b
  OBVIOUS
<1> HIDE DEF s
<1> QED
  BY <1>1 DEF ReadsBack, Chain

(* No step of a process changes or removes a file.                         *)
LEMMA StepKeepsFiles ==
    ASSUME hurt' = {}, Sound, [Next]_vars
    PROVE  FilesKept
<1>1. CASE UNCHANGED vars
  BY <1>1 DEF FilesKept, vars
<1>2. ASSUME NEW b \in Blobs, Damage(b) PROVE FALSE
  BY <1>2 DEF Damage
<1>3. ASSUME NEW p \in Procs, NEW b \in Blobs, NEW c \in Blobs \cup {NoBase}, PutBlob(p, b, c)
      PROVE  FilesKept
  BY <1>3 DEF PutBlob, FilesKept
<1>4. ASSUME NEW p \in Procs, HardLink(p) PROVE FilesKept
  BY <1>4 DEF HardLink, FilesKept, Sound, TypeOK
<1>5. ASSUME NEW p \in Procs, Step(p), ~HardLink(p) PROVE FilesKept
  BY <1>5 DEF Step, FilesKept, ReadBase, BaseUnavailable, TryExists, VerifyExisting,
     WriteTemp, RemoveTemp, VerifyWinner, IoError, Crash
<1> QED
  BY <1>1, <1>2, <1>3, <1>4, <1>5 DEF Next

(* Every variable keeps its type.                                          *)
LEMMA StoreTypeStep ==
    ASSUME StoreAssumption, TypeOK, [Next]_vars
    PROVE  TypeOK'
<1> USE StoreAssumption DEF TypeOK, Labels, Records, RawFile, Goto, Return
<1>1. CASE UNCHANGED vars
  BY <1>1 DEF vars
<1>2. ASSUME NEW b \in Blobs, Damage(b) PROVE TypeOK'
  BY <1>2 DEF Damage
<1>3. ASSUME NEW p \in Procs, NEW b \in Blobs, NEW c \in Blobs \cup {NoBase}, PutBlob(p, b, c)
      PROVE  TypeOK'
  BY <1>3 DEF PutBlob
<1>4. ASSUME NEW p \in Procs, ReadBase(p) PROVE TypeOK'
  <2>1. CASE UNCHANGED plan
    BY <1>4, <2>1 DEF ReadBase
  <2>2. ASSUME NEW d \in 0..(MaxDepth - 1), <<base[p], blob[p]>> \in Near,
               plan' = [plan EXCEPT ![p] = DeltaOn(base[p], d)]
        PROVE  TypeOK'
    <3>1. DeltaOn(base[p], d) \in Records
      BY <2>2 DEF DeltaOn
    <3> QED
      BY <1>4, <2>2, <3>1 DEF ReadBase
  <2> QED
    BY <1>4, <2>1, <2>2 DEF ReadBase
<1>5. ASSUME NEW p \in Procs, BaseUnavailable(p) PROVE TypeOK'
  BY <1>5 DEF BaseUnavailable
<1>6. ASSUME NEW p \in Procs, TryExists(p) PROVE TypeOK'
  BY <1>6 DEF TryExists
<1>7. ASSUME NEW p \in Procs, VerifyExisting(p) PROVE TypeOK'
  <2>1. returned' \in [Procs -> SUBSET Blobs]
    BY <1>7 DEF VerifyExisting
  <2>2. pc' \in [Procs -> Labels]
    BY <1>7 DEF VerifyExisting
  <2> QED
    BY <1>7, <2>1, <2>2 DEF VerifyExisting
<1>8. ASSUME NEW p \in Procs, WriteTemp(p) PROVE TypeOK'
  BY <1>8 DEF WriteTemp
<1>9. ASSUME NEW p \in Procs, HardLink(p) PROVE TypeOK'
  BY <1>9 DEF HardLink
<1>10. ASSUME NEW p \in Procs, RemoveTemp(p) PROVE TypeOK'
  BY <1>10 DEF RemoveTemp
<1>11. ASSUME NEW p \in Procs, VerifyWinner(p) PROVE TypeOK'
  BY <1>11 DEF VerifyWinner
<1>12. ASSUME NEW p \in Procs, IoError(p) \/ Crash(p) PROVE TypeOK'
  <2>1. litter' \in Nat /\ faults' \in 0..MaxFaults
    BY <1>12 DEF IoError, Crash
  <2>2. temp' \in [Procs -> BOOLEAN]
    BY <1>12 DEF IoError, Crash
  <2>3. pc' \in [Procs -> Labels]
    BY <1>12 DEF IoError, Crash
  <2> QED
    BY <1>12, <2>1, <2>2, <2>3 DEF IoError, Crash
<1> QED
  BY <1>1, <1>2, <1>3, <1>4, <1>5, <1>6, <1>7, <1>8, <1>9, <1>10, <1>11, <1>12
  DEF Next, Step

(* The plan of a process stays readable: files are only added, and a plan  *)
(* is only made for a base that reads back.                                *)
LEMMA PlansStep ==
    ASSUME StoreAssumption, Sound, [Next]_vars, FilesKept
    PROVE  PlansReadable'
<1> DEFINE Good(q) == \/ plan[q] = RawFile
                      \/ \E d \in 0..(MaxDepth - 1) : /\ plan[q].base \in Blobs
                                                      /\ plan[q].depth = d + 1
                                                      /\ ReadsBack(plan[q].base, d)
<1>1. ASSUME NEW q \in Procs, plan'[q] = plan[q] PROVE Good(q)'
  <2>1. CASE plan[q] = RawFile
    BY <1>1, <2>1 DEF RawFile
  <2>2. ASSUME NEW d \in 0..(MaxDepth - 1), plan[q].base \in Blobs,
               plan[q].depth = d + 1, ReadsBack(plan[q].base, d)
        PROVE  Good(q)'
    <3>1. d \in Nat
      BY StoreAssumption DEF StoreAssumption
    <3>2. ReadsBack(plan[q].base, d)'
      <4> DEFINE c == plan[q].base
      <4>1. c \in Blobs /\ ReadsBack(c, d)
        BY <2>2
      <4>2. \A x \in Blobs : ReadsBack(x, d) => ReadsBack(x, d)'
        BY <3>1, ReadsPersist
      <4>3. c' = c
        BY <1>1
      <4> QED
        BY <4>1, <4>2, <4>3
    <3> QED
      BY <1>1, <2>2, <3>2
  <2> QED
    BY <2>1, <2>2 DEF Sound, PlansReadable
<1>2. ASSUME NEW p \in Procs, NEW b \in Blobs, NEW c \in Blobs \cup {NoBase}, PutBlob(p, b, c)
      PROVE  PlansReadable'
  <2> SUFFICES ASSUME NEW q \in Procs PROVE Good(q)'
    BY DEF PlansReadable
  <2>1. CASE q = p
    BY <1>2, <2>1 DEF PutBlob, Sound, TypeOK, RawFile
  <2>2. CASE q # p
    <3>1. plan'[q] = plan[q]
      BY <1>2, <2>2 DEF PutBlob, Sound, TypeOK
    <3> QED
      BY <1>1, <3>1
  <2> QED
    BY <2>1, <2>2
<1>3. ASSUME NEW p \in Procs, ReadBase(p) PROVE PlansReadable'
  <2> SUFFICES ASSUME NEW q \in Procs PROVE Good(q)'
    BY DEF PlansReadable
  <2>1. CASE plan'[q] = plan[q]
    BY <1>1, <2>1
  <2>2. CASE plan'[q] # plan[q]
    <3>1. PICK d \in 0..(MaxDepth - 1) :
              /\ ReadsBack(base[p], d)
              /\ <<base[p], blob[p]>> \in Near
              /\ plan' = [plan EXCEPT ![p] = DeltaOn(base[p], d)]
      BY <1>3, <2>2 DEF ReadBase
    <3>2. q = p /\ base[p] \in Blobs /\ d \in Nat
      BY <2>2, <3>1, StoreAssumption DEF StoreAssumption, Sound, TypeOK
    <3>3. plan'[q] = [base |-> base[p], depth |-> d + 1]
      BY <3>1, <3>2 DEF DeltaOn, Sound, TypeOK
    <3>4. \A x \in Blobs : ReadsBack(x, d) => ReadsBack(x, d)'
      BY <3>2, ReadsPersist
    <3>5. \A x \in Blobs : x = plan'[q].base => (ReadsBack(x, d)' => ReadsBack(plan[q].base, d)')
      OBVIOUS
    <3>6. ReadsBack(plan[q].base, d)'
      BY <3>1, <3>2, <3>3, <3>4, <3>5
    <3> QED
      BY <3>2, <3>3, <3>6
  <2> QED
    BY <2>1, <2>2
<1>4. CASE plan' = plan
  BY <1>1, <1>4 DEF PlansReadable
<1>5. ASSUME NEW p \in Procs, Step(p), ~ReadBase(p) PROVE plan' = plan
  BY <1>5 DEF Step, BaseUnavailable, TryExists, VerifyExisting, WriteTemp, HardLink,
     RemoveTemp, VerifyWinner, IoError, Crash
<1>6. ASSUME NEW b \in Blobs, Damage(b) PROVE plan' = plan
  BY <1>6 DEF Damage
<1>7. CASE UNCHANGED vars
  BY <1>7, <1>4 DEF vars
<1> HIDE DEF Good
<1> QED
  BY <1>2, <1>3, <1>4, <1>5, <1>6, <1>7 DEF Next

(* A named object stays readable, and a newly named one is raw or a delta  *)
(* on a base that reads back.                                              *)
LEMMA StoredStep ==
    ASSUME StoreAssumption, Sound, [Next]_vars, FilesKept
    PROVE  StoredReadable'
<1> SUFFICES ASSUME NEW b \in Blobs, file'[b] # Absent
             PROVE  \E n \in 0..MaxDepth : ReadsBack(b, n)'
  BY DEF StoredReadable, Readable
<1>1. CASE file[b] # Absent
  <2>1. PICK n \in 0..MaxDepth : ReadsBack(b, n)
    BY <1>1 DEF Sound, StoredReadable, Readable
  <2>2. ReadsBack(b, n)'
    BY <2>1, ReadsPersist, StoreAssumption DEF StoreAssumption
  <2> QED
    BY <2>2
<1>2. CASE file[b] = Absent
  <2>1. PICK p \in Procs : HardLink(p) /\ blob[p] = b /\ file'[b] = plan[p]
    <3>1. ASSUME NEW p \in Procs, HardLink(p)
          PROVE  blob[p] = b /\ file'[b] = plan[p]
      BY <1>2, <3>1 DEF HardLink, Sound, TypeOK
    <3>2. ASSUME NEW p \in Procs, Step(p), ~HardLink(p) PROVE FALSE
      BY <1>2, <3>2 DEF Step, ReadBase, BaseUnavailable, TryExists, VerifyExisting, WriteTemp,
         RemoveTemp, VerifyWinner, IoError, Crash
    <3>3. ASSUME NEW c \in Blobs, Damage(c) PROVE FALSE
      BY <1>2, <3>3 DEF Damage, Sound, TypeOK
    <3>4. ASSUME NEW p \in Procs, NEW c \in Blobs, NEW d \in Blobs \cup {NoBase}, PutBlob(p, c, d)
          PROVE  FALSE
      BY <1>2, <3>4 DEF PutBlob
    <3>5. CASE UNCHANGED vars
      BY <1>2, <3>5 DEF vars
    <3> QED
      BY <3>1, <3>2, <3>3, <3>4, <3>5 DEF Next
  <2>2. CASE plan[p] = RawFile
    <3>1. file'[b] = RawFile
      BY <2>1, <2>2
    <3>2. (file[b] = RawFile => ReadsBack(b, 0))'
      BY RawReadsBack, PTL
    <3> QED
      BY <3>1, <3>2
  <2>3. ASSUME NEW d \in 0..(MaxDepth - 1), plan[p].base \in Blobs,
               plan[p].depth = d + 1, ReadsBack(plan[p].base, d)
        PROVE  \E n \in 0..MaxDepth : ReadsBack(b, n)'
    <3> DEFINE c == plan[p].base
    <3>1. c \in Blobs /\ d \in Nat /\ d + 1 \in 0..MaxDepth
      BY <2>3, StoreAssumption DEF StoreAssumption
    <3>2. \A x \in Blobs : ReadsBack(x, d) => ReadsBack(x, d)'
      BY <3>1, ReadsPersist
    <3>3. /\ file'[b] \notin {Absent, Broken}
          /\ file'[b].base = c
          /\ file'[b].depth = d + 1
      <4>1. plan[p] \in Records
        BY DEF Sound, TypeOK
      <4>2. plan[p] \notin {Absent, Broken}
        BY <4>1, StoreAssumption DEF StoreAssumption, Records
      <4> QED
        BY <2>1, <2>3, <4>2
    <3>4. DeltasReadBack'
      BY DeltasReadBackLemma, PTL
    <3>5. ReadsBack(b, d + 1)'
      BY <2>3, <3>1, <3>2, <3>3, <3>4 DEF DeltasReadBack
    <3> QED
      BY <3>1, <3>5
  <2> QED
    BY <2>2, <2>3 DEF Sound, PlansReadable
<1> QED
  BY <1>1, <1>2

(* A put returns, in the winning case, only after its file has a name.     *)
LEMMA LinkedStep ==
    ASSUME StoreAssumption, Sound, [Next]_vars, FilesKept
    PROVE  LinkedBeforeReturn'
<1> USE DEF Sound, TypeOK, Goto, Return
<1> SUFFICES ASSUME NEW q \in Procs, pc'[q] = "clean" PROVE file'[blob'[q]] # Absent
  BY DEF LinkedBeforeReturn
<1>1. ASSUME NEW p \in Procs, HardLink(p) PROVE file'[blob'[q]] # Absent
  <2>1. RawFile # Absent /\ plan[p] # Absent
    BY StoreAssumption DEF StoreAssumption, RawFile, Records
  <2>2. CASE q = p
    BY <1>1, <2>1, <2>2 DEF HardLink
  <2>3. CASE q # p
    BY <1>1, <2>3 DEF HardLink, LinkedBeforeReturn, FilesKept
  <2> QED
    BY <2>2, <2>3
<1>2. CASE pc[q] = "clean" /\ blob'[q] = blob[q]
  BY <1>2 DEF LinkedBeforeReturn, FilesKept
<1>3. ASSUME NEW p \in Procs, NEW b \in Blobs, NEW c \in Blobs \cup {NoBase}, PutBlob(p, b, c)
      PROVE  pc[q] = "clean" /\ blob'[q] = blob[q]
  <2>1. q # p
    BY <1>3 DEF PutBlob
  <2> QED
    BY <1>3, <2>1 DEF PutBlob
<1>4. ASSUME NEW p \in Procs, Step(p), ~HardLink(p)
      PROVE  pc[q] = "clean" /\ blob'[q] = blob[q]
  <2>1. blob' = blob
    BY <1>4 DEF Step, ReadBase, BaseUnavailable, TryExists, VerifyExisting, WriteTemp,
       RemoveTemp, VerifyWinner, IoError, Crash
  <2>2. \E l \in Labels \ {"clean"} : pc' = [pc EXCEPT ![p] = l]
    BY <1>4 DEF Step, ReadBase, BaseUnavailable, TryExists, VerifyExisting, WriteTemp,
       RemoveTemp, VerifyWinner, IoError, Crash, Labels
  <2> QED
    BY <2>1, <2>2
<1>5. ASSUME NEW b \in Blobs, Damage(b) PROVE pc[q] = "clean" /\ blob'[q] = blob[q]
  BY <1>5 DEF Damage
<1>6. CASE UNCHANGED vars
  BY <1>6, <1>2 DEF vars
<1> QED
  BY <1>1, <1>2, <1>3, <1>4, <1>5, <1>6 DEF Next

(* Damage is remembered: an unspoiled store was unspoiled before.          *)
LEMMA HurtGrows ==
    ASSUME hurt' = {}, [Next]_vars
    PROVE  hurt = {} /\ \A b \in Blobs : ~Damage(b)
  BY DEF Next, vars, Step, PutBlob, ReadBase, BaseUnavailable, TryExists, VerifyExisting,
     WriteTemp, HardLink, RemoveTemp, VerifyWinner, IoError, Crash, Damage

LEMMA InitSound == Init => Sound
<1> SUFFICES ASSUME Init PROVE Sound
  OBVIOUS
<1>1. TypeOK
  BY StoreAssumption DEF StoreAssumption, Init, TypeOK, Labels, Records, RawFile
<1>2. StoredReadable /\ PlansReadable /\ LinkedBeforeReturn
  BY DEF Init, StoredReadable, PlansReadable, LinkedBeforeReturn
<1> QED
  BY <1>1, <1>2 DEF Sound

(* The invariant of the store, for any number of processes, blobs and puts *)
(* and any depth limit.                                                    *)
THEOREM StoreInvariant == Spec => []StoreInv
<1>1. Init => StoreInv
  BY InitSound DEF StoreInv, Sound
<1>2. StoreInv /\ [Next]_vars => StoreInv'
  <2> SUFFICES ASSUME StoreInv, [Next]_vars PROVE StoreInv'
    OBVIOUS
  <2>1. TypeOK'
    BY StoreTypeStep, StoreAssumption DEF StoreInv
  <2>2. ASSUME hurt' = {} PROVE Sound'
    <3>1. Sound
      BY <2>2, HurtGrows DEF StoreInv
    <3>2. FilesKept
      BY <2>2, <3>1, StepKeepsFiles
    <3>3. StoredReadable' /\ PlansReadable' /\ LinkedBeforeReturn'
      BY <3>1, <3>2, StoredStep, PlansStep, LinkedStep, StoreAssumption
    <3> QED
      BY <2>1, <3>3 DEF Sound
  <2> QED
    BY <2>1, <2>2 DEF StoreInv
<1> QED
  BY <1>1, <1>2, PTL DEF Spec

(* Every object that has a name can be read back, until a file is spoiled. *)
THEOREM StoreReadable == Spec => [](hurt = {} => StoredReadable)
<1>1. StoreInv => (hurt = {} => StoredReadable)
  BY DEF StoreInv, Sound
<1> QED
  BY StoreInvariant, <1>1, PTL

(* In an unspoiled store the readable  objects are the ones with a name.    *)
Named == {b \in Blobs : file[b] # Absent}

LEMMA ReadableIsNamed == Sound => Readable = Named
<1> SUFFICES ASSUME Sound, NEW b \in Blobs
             PROVE  b \in Readable <=> file[b] # Absent
  BY DEF Readable, Named
<1>1. ASSUME b \in Readable PROVE file[b] # Absent
  <2>1. PICK n \in 0..MaxDepth : ReadsBack(b, n)
    BY <1>1 DEF Readable
  <2>2. PICK s \in [0..n -> Blobs] : s[0] = b /\ Chain(s, n) /\ file[s[n]] = RawFile
    BY <2>1 DEF ReadsBack
  <2>3. RawFile # Absent
    BY StoreAssumption DEF StoreAssumption, RawFile
  <2>4. CASE n = 0
    BY <2>2, <2>3, <2>4
  <2>5. CASE n # 0
    <3>1. 0 \in 0..(n - 1)
      BY <2>5, StoreAssumption DEF StoreAssumption
    <3> QED
      BY <2>2, <3>1 DEF Chain
  <2> QED
    BY <2>4, <2>5
<1> QED
  BY <1>1 DEF Sound, StoredReadable

(* The store implements ContentStore: the readable objects only grow, and  *)
(* a put returns only ids of readable objects.                             *)
THEOREM StoreRefines == Spec => ImplementsContentStore
<1>1. Init => Abstract!Init
  <2> SUFFICES ASSUME Init PROVE Readable = {} /\ returned = [p \in Procs |-> {}] /\ hurt = {}
    BY DEF Abstract!Init
  <2>1. Sound
    BY InitSound
  <2> QED
    BY <2>1, ReadableIsNamed DEF Init, Named
<1> DEFINE abstractVars == <<Readable, returned, hurt # {}>>
<1>2. ASSUME Sound, Sound', hurt = {}, hurt' = {}, [Next]_vars
      PROVE  [Abstract!Next]_abstractVars
  <2> USE <1>2
  <2>1. Readable = Named
    BY ReadableIsNamed
  <2>2. Readable' = Named'
    <3>1. (Sound => Readable = Named)'
      BY ReadableIsNamed, PTL
    <3> QED
      BY <3>1
  <2>3. CASE file' = file /\ returned' = returned
    BY <2>1, <2>2, <2>3 DEF Named
  <2>4. ASSUME NEW p \in Procs, blob[p] \in Readable, Return(p), file' = file
        PROVE  Abstract!Next
    <3>1. Readable' = Readable
      BY <2>1, <2>2, <2>4 DEF Named
    <3>2. blob[p] \in Blobs
      BY DEF Sound, TypeOK
    <3>3. Abstract!Return(p, blob[p])
      BY <2>4, <3>1 DEF Return, Abstract!Return
    <3> QED
      BY <3>2, <3>3 DEF Abstract!Next
  <2>5. ASSUME NEW p \in Procs, HardLink(p) PROVE [Abstract!Next]_abstractVars
    <3>1. CASE file' = file
      BY <2>3, <2>5, <3>1 DEF HardLink
    <3>2. CASE file' # file
      <4>1. /\ file' = [file EXCEPT ![blob[p]] = plan[p]]
            /\ returned' = returned
            /\ plan[p] # Absent
            /\ blob[p] \in Blobs
        BY <2>5, <3>2, StoreAssumption
        DEF HardLink, StoreAssumption, Sound, TypeOK, Records
      <4>2. Named' = Named \cup {blob[p]}
        BY <4>1 DEF Sound, TypeOK, Named
      <4>3. Abstract!Add(blob[p])
        BY <2>1, <2>2, <4>1, <4>2 DEF Abstract!Add
      <4> QED
        BY <4>1, <4>3 DEF Abstract!Next
    <3> QED
      BY <3>1, <3>2
  <2>6. ASSUME NEW p \in Procs, VerifyExisting(p) \/ VerifyWinner(p)
        PROVE  [Abstract!Next]_abstractVars
    <3>1. file' = file
      BY <2>6 DEF VerifyExisting, VerifyWinner
    <3>2. \/ returned' = returned
          \/ blob[p] \in Readable /\ Return(p)
      BY <2>6 DEF VerifyExisting, VerifyWinner
    <3> QED
      BY <3>1, <3>2, <2>3, <2>4
  <2>7. ASSUME NEW p \in Procs, RemoveTemp(p)
        PROVE  [Abstract!Next]_abstractVars
    <3>1. file' = file
      BY <2>7 DEF RemoveTemp
    <3>2. CASE returned' = returned
      BY <3>1, <3>2, <2>3
    <3>3. CASE pc[p] = "clean" /\ Return(p)
      <4>1. blob[p] \in Readable
        BY <2>1, <3>3 DEF Sound, LinkedBeforeReturn, TypeOK, Named
      <4> QED
        BY <3>1, <3>3, <4>1, <2>4
    <3> QED
      BY <2>7, <3>2, <3>3 DEF RemoveTemp
  <2>8. ASSUME NEW p \in Procs,
               ReadBase(p) \/ BaseUnavailable(p) \/ TryExists(p) \/ WriteTemp(p)
                  \/ IoError(p) \/ Crash(p)
        PROVE  [Abstract!Next]_abstractVars
    BY <2>3, <2>8 DEF ReadBase, BaseUnavailable, TryExists, WriteTemp, IoError, Crash
  <2>9. ASSUME NEW p \in Procs, NEW b \in Blobs, NEW c \in Blobs \cup {NoBase}, PutBlob(p, b, c)
        PROVE  [Abstract!Next]_abstractVars
    BY <2>3, <2>9 DEF PutBlob
  <2>10. ASSUME NEW b \in Blobs, Damage(b) PROVE FALSE
    BY <2>10, HurtGrows
  <2>11. CASE UNCHANGED vars
    BY <2>3, <2>11 DEF vars
  <2> QED
    BY <2>5, <2>6, <2>7, <2>8, <2>9, <2>10, <2>11 DEF Next, Step
<1>3. StoreInv /\ StoreInv' /\ [Next]_vars => [Abstract!Next]_abstractVars
  <2> SUFFICES ASSUME StoreInv, StoreInv', [Next]_vars
               PROVE  [Abstract!Next]_abstractVars
    OBVIOUS
  <2>1. CASE hurt' = {}
    BY <2>1, <1>2, HurtGrows DEF StoreInv
  <2>2. CASE hurt' # {}
    BY <2>2 DEF Abstract!Next, Abstract!Spoil
  <2> QED
    BY <2>1, <2>2
<1> QED
  BY <1>1, <1>3, StoreInvariant, PTL DEF Spec, ImplementsContentStore, Abstract!Spec
-----------------------------------------------------------------------------
(* A store in which files are spoiled.                                     *)

(* The way down from a blob stays while files are only added.              *)
LEMMA TracedKept ==
    ASSUME StoreAssumption, FilesKept, hurt \subseteq hurt',
           NEW b \in Blobs, NEW n \in Nat, Traced(b, n)
    PROVE  Traced(b, n)'
<1>0. PICK m \in 0..n : \E s \in [0..m -> Blobs] :
          /\ s[0] = b
          /\ Chain(s, m)
          /\ \A i \in 0..(m - 1) : file[s[i]].depth = n - i
          /\ s[m] \in hurt \/ (m = n /\ file[s[m]] = RawFile)
  BY DEF Traced
<1>1. PICK s \in [0..m -> Blobs] :
          /\ s[0] = b
          /\ Chain(s, m)
          /\ \A i \in 0..(m - 1) : file[s[i]].depth = n - i
          /\ s[m] \in hurt \/ (m = n /\ file[s[m]] = RawFile)
  BY <1>0
<1>2. \A i \in 0..(m - 1) : s[i] \in Blobs /\ file'[s[i]] = file[s[i]]
  BY <1>1 DEF FilesKept, Chain
<1>3. Chain(s, m)' /\ \A i \in 0..(m - 1) : file'[s[i]].depth = n - i
  BY <1>1, <1>2 DEF Chain
<1>4. s[m] \in hurt' \/ (m = n /\ file'[s[m]] = RawFile)
  <2>1. RawFile # Absent /\ s[m] \in Blobs
    BY DEF StoreAssumption, RawFile
  <2> QED
    BY <1>1, <2>1 DEF FilesKept
<1> QED
  BY <1>1, <1>3, <1>4 DEF Traced, RawFile

(* When a file on the way is spoiled, the way down ends there: the depths  *)
(* recorded on it differ, so what comes before is not that file.           *)
LEMMA TracedDamaged ==
    ASSUME TypeOK, NEW x \in Blobs, Damage(x),
           NEW b \in Blobs, NEW n \in Nat, Traced(b, n)
    PROVE  Traced(b, n)'
<1>0. PICK m \in 0..n : \E s \in [0..m -> Blobs] :
          /\ s[0] = b
          /\ Chain(s, m)
          /\ \A i \in 0..(m - 1) : file[s[i]].depth = n - i
          /\ s[m] \in hurt \/ (m = n /\ file[s[m]] = RawFile)
  BY DEF Traced
<1>1. PICK s \in [0..m -> Blobs] :
          /\ s[0] = b
          /\ Chain(s, m)
          /\ \A i \in 0..(m - 1) : file[s[i]].depth = n - i
          /\ s[m] \in hurt \/ (m = n /\ file[s[m]] = RawFile)
  BY <1>0
<1>2. /\ hurt' = hurt \cup {x}
      /\ \A y \in Blobs : y # x => file'[y] = file[y]
  BY DEF Damage, TypeOK
<1>3. ASSUME NEW j \in 0..(m - 1), s[j] = x PROVE Traced(b, n)'
  <2> DEFINE t == [i \in 0..j |-> s[i]]
  <2>1. t \in [0..j -> Blobs] /\ j \in 0..n /\ t[0] = b /\ t[j] \in hurt'
    BY <1>1, <1>2, <1>3
  <2>2. \A i \in 0..(j - 1) : /\ t[i] = s[i] /\ t[i + 1] = s[i + 1]
                             /\ i \in 0..(m - 1) /\ t[i] \in Blobs
    OBVIOUS
  <2> HIDE DEF t
  <2>3. ASSUME NEW i \in 0..(j - 1) PROVE file'[t[i]] = file[t[i]]
    <3>1. file[s[i]].depth = n - i /\ file[s[j]].depth = n - j /\ n - i # n - j
      BY <1>1, <2>2
    <3>2. s[i] # x
      BY <1>3, <3>1
    <3> QED
      BY <1>2, <2>2, <3>2
  <2>4. Chain(t, j)'
    BY <1>1, <2>2, <2>3, SMTT(30) DEF Chain
  <2>5. \A i \in 0..(j - 1) : file'[t[i]].depth = n - i
    BY <1>1, <2>2, <2>3
  <2> QED
    BY <2>1, <2>4, <2>5 DEF Traced, RawFile
<1>4. CASE \A j \in 0..(m - 1) : s[j] # x
  <2>1. \A i \in 0..(m - 1) : s[i] \in Blobs /\ file'[s[i]] = file[s[i]]
    BY <1>2, <1>4
  <2>2. Chain(s, m)' /\ \A i \in 0..(m - 1) : file'[s[i]].depth = n - i
    BY <1>1, <2>1 DEF Chain
  <2>3. s[m] \in hurt' \/ (m = n /\ file'[s[m]] = RawFile)
    <3>1. s[m] \in Blobs
      OBVIOUS
    <3> QED
      BY <1>1, <1>2, <3>1
  <2> QED
    BY <1>1, <2>2, <2>3 DEF Traced, RawFile
<1> QED
  BY <1>3, <1>4

(* A delta on a blob that is traced from depth d is traced from d + 1.     *)
DeltasTraced ==
    \A x, y \in Blobs, k \in Nat :
        (/\ Traced(y, k)
         /\ file[x] \notin {Absent, Broken}
         /\ file[x].base = y
         /\ file[x].depth = k + 1) => Traced(x, k + 1)

LEMMA DeltasTracedLemma == DeltasTraced
<1> SUFFICES ASSUME NEW b \in Blobs, NEW c \in Blobs, NEW d \in Nat, Traced(c, d),
                    file[b] \notin {Absent, Broken}, file[b].base = c, file[b].depth = d + 1
             PROVE  Traced(b, d + 1)
  BY DEF DeltasTraced
<1>0. PICK m \in 0..d : \E s \in [0..m -> Blobs] :
          /\ s[0] = c
          /\ Chain(s, m)
          /\ \A i \in 0..(m - 1) : file[s[i]].depth = d - i
          /\ s[m] \in hurt \/ (m = d /\ file[s[m]] = RawFile)
  BY DEF Traced
<1>1. PICK s \in [0..m -> Blobs] :
          /\ s[0] = c
          /\ Chain(s, m)
          /\ \A i \in 0..(m - 1) : file[s[i]].depth = d - i
          /\ s[m] \in hurt \/ (m = d /\ file[s[m]] = RawFile)
  BY <1>0
<1> DEFINE t == [i \in 0..(m + 1) |-> IF i = 0 THEN b ELSE s[i - 1]]
<1>2. t \in [0..(m + 1) -> Blobs] /\ t[0] = b /\ t[m + 1] = s[m] /\ t[1] = c
  BY <1>1
<1>3. \A i \in 1..m : t[i] = s[i - 1] /\ t[i + 1] = s[i]
  OBVIOUS
<1> HIDE DEF t
<1>4. ASSUME NEW i \in 0..m
      PROVE  /\ file[t[i]] \notin {Absent, Broken}
             /\ file[t[i]].base = t[i + 1]
             /\ file[t[i]].depth = (d + 1) - i
  <2>1. CASE i = 0
    BY <2>1, <1>2
  <2>2. CASE i # 0
    <3>1. /\ i - 1 \in 0..(m - 1) /\ i \in 1..m /\ (i - 1) + 1 = i
          /\ d - (i - 1) = (d + 1) - i
      BY <2>2
    <3> QED
      BY <3>1, <1>1, <1>3 DEF Chain
  <2> QED
    BY <2>1, <2>2
<1>5. (m + 1) - 1 = m /\ m + 1 \in 0..(d + 1)
  OBVIOUS
<1>6. Chain(t, m + 1)
  BY <1>4, <1>5 DEF Chain
<1> QED
  BY <1>1, <1>2, <1>4, <1>5, <1>6 DEF Traced

(* A raw file is traced from depth 0, as is a blob that reads back.        *)
LEMMA RawTraced ==
    ASSUME NEW b \in Blobs, file[b] = RawFile
    PROVE  Traced(b, 0)
<1> DEFINE s == [i \in 0..0 |-> b]
<1>1. s \in [0..0 -> Blobs] /\ s[0] = b
  OBVIOUS
<1> HIDE DEF s
<1> QED
  BY <1>1 DEF Traced, Chain

LEMMA ReadableTraced ==
    ASSUME NEW b \in Blobs, NEW n \in Nat, ReadsBack(b, n)
    PROVE  Traced(b, n)
<1>1. n \in 0..n
  OBVIOUS
<1> QED
  BY <1>1 DEF ReadsBack, Traced

(* What a step does to files: damage, a new file, or nothing; in each case *)
(* what was traced stays traced.                                           *)
LEMMA StepTraces ==
    ASSUME StoreAssumption, TypeOK, [Next]_vars
    PROVE  \A b \in Blobs, n \in Nat : Traced(b, n) => Traced(b, n)'
<1> SUFFICES ASSUME NEW b \in Blobs, NEW n \in Nat, Traced(b, n) PROVE Traced(b, n)'
  OBVIOUS
<1>1. ASSUME NEW x \in Blobs, Damage(x) PROVE Traced(b, n)'
  BY <1>1, TracedDamaged
<1>2. ASSUME NEW p \in Procs, HardLink(p) PROVE FilesKept /\ hurt' = hurt
  BY <1>2 DEF HardLink, FilesKept, TypeOK
<1>3. ASSUME NEW p \in Procs, Step(p), ~HardLink(p) PROVE FilesKept /\ hurt' = hurt
  BY <1>3 DEF Step, FilesKept, ReadBase, BaseUnavailable, TryExists, VerifyExisting,
     WriteTemp, RemoveTemp, VerifyWinner, IoError, Crash
<1>4. ASSUME NEW p \in Procs, NEW x \in Blobs, NEW y \in Blobs \cup {NoBase}, PutBlob(p, x, y)
      PROVE  FilesKept /\ hurt' = hurt
  BY <1>4 DEF PutBlob, FilesKept
<1>5. CASE UNCHANGED vars
  BY <1>5, TracedKept DEF FilesKept, vars
<1> QED
  BY <1>1, <1>2, <1>3, <1>4, <1>5, TracedKept DEF Next

(* The two halves of DamageInv: what a file is, and what a plan is.        *)
FileTraced(b) == \/ file[b] = Absent
                 \/ file[b] = Broken /\ b \in hurt
                 \/ file[b] \in Records /\ Traced(b, file[b].depth)
PlanTraced(p) == \/ plan[p] = RawFile
                 \/ \E d \in 0..(MaxDepth - 1) : /\ plan[p].base \in Blobs
                                                 /\ plan[p].depth = d + 1
                                                 /\ Traced(plan[p].base, d)

(* A plan is made for a base that reads back, and the base stays traced.   *)
LEMMA PlanTracedStep ==
    ASSUME StoreAssumption, TypeOK, [Next]_vars, NEW q \in Procs, PlanTraced(q)
    PROVE  PlanTraced(q)'
<1>0. \A x \in Blobs, d \in 0..(MaxDepth - 1) : Traced(x, d) => Traced(x, d)'
  BY StepTraces DEF StoreAssumption
<1>1. ASSUME NEW x \in Blobs, NEW d \in 0..(MaxDepth - 1), Traced(x, d),
             plan'[q] = DeltaOn(x, d)
      PROVE  PlanTraced(q)'
  <2>1. plan'[q].base = x /\ plan'[q].depth = d + 1
    BY <1>1 DEF DeltaOn
  <2>2. Traced(x, d)'
    BY <1>0, <1>1
  <2>3. \A y \in Blobs : y = plan'[q].base => (Traced(y, d)' => Traced(plan[q].base, d)')
    OBVIOUS
  <2>4. Traced(plan[q].base, d)'
    BY <2>1, <2>2, <2>3
  <2> QED
    BY <2>1, <2>4 DEF PlanTraced
<1>2. CASE plan'[q] = plan[q]
  <2>1. CASE plan[q] = RawFile
    BY <1>2, <2>1 DEF PlanTraced, RawFile
  <2>2. ASSUME NEW d \in 0..(MaxDepth - 1), plan[q].base \in Blobs,
               plan[q].depth = d + 1, Traced(plan[q].base, d)
        PROVE  PlanTraced(q)'
    <3> DEFINE x == plan[q].base
    <3>1. plan[q] = DeltaOn(x, d)
      BY <2>2 DEF TypeOK, Records, DeltaOn
    <3>2. x \in Blobs /\ Traced(x, d)
      BY <2>2
    <3> HIDE DEF x
    <3> QED
      BY <1>1, <1>2, <3>1, <3>2
  <2> QED
    BY <2>1, <2>2 DEF PlanTraced
<1>3. ASSUME NEW p \in Procs, NEW b \in Blobs, NEW c \in Blobs \cup {NoBase}, PutBlob(p, b, c)
      PROVE  PlanTraced(q)'
  <2>1. plan'[q] = plan[q] \/ plan'[q] = RawFile
    BY <1>3 DEF PutBlob, TypeOK
  <2> QED
    BY <1>2, <2>1 DEF PlanTraced, RawFile
<1>4. ASSUME NEW p \in Procs, ReadBase(p) PROVE PlanTraced(q)'
  <2>1. CASE plan'[q] = plan[q]
    BY <1>2, <2>1
  <2>2. CASE plan'[q] # plan[q]
    <3>1. PICK d \in 0..(MaxDepth - 1) : /\ ReadsBack(base[p], d)
                                        /\ plan' = [plan EXCEPT ![p] = DeltaOn(base[p], d)]
                                        /\ <<base[p], blob[p]>> \in Near
      BY <1>4, <2>2 DEF ReadBase
    <3>2. d \in Nat /\ base[p] \in Blobs /\ plan'[q] = DeltaOn(base[p], d)
      BY <2>2, <3>1 DEF StoreAssumption, TypeOK
    <3>3. Traced(base[p], d)
      BY <3>1, <3>2, ReadableTraced
    <3> QED
      BY <1>1, <3>2, <3>3
  <2> QED
    BY <2>1, <2>2
<1>5. ASSUME NEW p \in Procs, Step(p), ~ReadBase(p) PROVE plan' = plan
  BY <1>5 DEF Step, BaseUnavailable, TryExists, VerifyExisting, WriteTemp, HardLink,
     RemoveTemp, VerifyWinner, IoError, Crash
<1>6. ASSUME NEW b \in Blobs, Damage(b) PROVE plan' = plan
  BY <1>6 DEF Damage
<1>7. CASE UNCHANGED vars
  BY <1>7, <1>2 DEF vars
<1> QED
  BY <1>2, <1>3, <1>4, <1>5, <1>6, <1>7 DEF Next

(* A file is as it was, or spoiled, or a plan that was carried out.        *)
LEMMA FileTracedStep ==
    ASSUME StoreAssumption, TypeOK, TypeOK', [Next]_vars, NEW b \in Blobs, FileTraced(b),
           \A p \in Procs : PlanTraced(p)
    PROVE  FileTraced(b)'
<1>0. hurt \subseteq hurt'
  BY DEF Next, vars, Step, PutBlob, ReadBase, BaseUnavailable, TryExists, VerifyExisting,
     WriteTemp, HardLink, RemoveTemp, VerifyWinner, IoError, Crash, Damage
<1>1. CASE file'[b] = file[b]
  <2>1. CASE file[b] \in Records /\ Traced(b, file[b].depth)
    <3>1. file[b].depth \in Nat
      BY <2>1 DEF Records, StoreAssumption
    <3> DEFINE n == file[b].depth
    <3>2. Traced(b, n) /\ n \in Nat
      BY <2>1, <3>1
    <3>3. \A k \in Nat : Traced(b, k) => Traced(b, k)'
      BY StepTraces
    <3>4. \A k \in Nat : k = file'[b].depth /\ Traced(b, k)' => Traced(b, file[b].depth)'
      OBVIOUS
    <3>5. Traced(b, file[b].depth)'
      BY <1>1, <3>2, <3>3, <3>4
    <3> QED
      BY <1>1, <2>1, <3>5 DEF FileTraced, Records
  <2> QED
    BY <1>0, <1>1, <2>1 DEF FileTraced
<1>2. ASSUME NEW x \in Blobs, Damage(x) PROVE FileTraced(b)'
  <2>1. CASE x = b
    BY <1>2, <2>1 DEF Damage, TypeOK, FileTraced
  <2>2. CASE x # b
    BY <1>1, <1>2, <2>2 DEF Damage, TypeOK
  <2> QED
    BY <2>1, <2>2
<1>3. ASSUME NEW p \in Procs, HardLink(p), file'[b] # file[b] PROVE FileTraced(b)'
  <2>1. file'[b] = plan[p] /\ plan[p] \in Records
    BY <1>3 DEF HardLink, TypeOK
  <2>2. CASE plan[p] = RawFile
    <3>1. (file[b] = RawFile => Traced(b, 0))'
      BY RawTraced, PTL
    <3>2. file'[b] = RawFile /\ file'[b].depth = 0
      BY <2>1, <2>2 DEF RawFile
    <3>3. Traced(b, file[b].depth)'
      BY <3>1, <3>2 DEF RawFile
    <3> QED
      BY <2>1, <3>3 DEF FileTraced, Records
  <2>3. ASSUME NEW d \in 0..(MaxDepth - 1), plan[p].base \in Blobs,
               plan[p].depth = d + 1, Traced(plan[p].base, d)
        PROVE  FileTraced(b)'
    <3> DEFINE x == plan[p].base
    <3>1. x \in Blobs /\ d \in Nat /\ Traced(x, d)
      BY <2>3 DEF StoreAssumption
    <3>2. file'[b].base = x /\ file'[b].depth = d + 1 /\ file'[b] \notin {Absent, Broken}
      BY <2>1, <2>3 DEF StoreAssumption, Records
    <3> HIDE DEF x
    <3>3. \A y \in Blobs : Traced(y, d) => Traced(y, d)'
      BY <3>1, StepTraces
    <3>4. DeltasTraced'
      BY DeltasTracedLemma, PTL
    <3>5. Traced(b, d + 1)'
      BY <3>1, <3>2, <3>3, <3>4 DEF DeltasTraced
    <3>6. \A k \in Nat : k = file'[b].depth /\ Traced(b, k)' => Traced(b, file[b].depth)'
      OBVIOUS
    <3>7. Traced(b, file[b].depth)'
      BY <3>1, <3>2, <3>5, <3>6
    <3> QED
      BY <2>1, <3>7 DEF FileTraced, Records
  <2> QED
    BY <2>2, <2>3 DEF PlanTraced
<1>4. ASSUME NEW p \in Procs, Step(p), ~HardLink(p) PROVE file' = file
  BY <1>4 DEF Step, ReadBase, BaseUnavailable, TryExists, VerifyExisting,
     WriteTemp, RemoveTemp, VerifyWinner, IoError, Crash
<1>5. ASSUME NEW p \in Procs, NEW x \in Blobs, NEW y \in Blobs \cup {NoBase}, PutBlob(p, x, y)
      PROVE  file' = file
  BY <1>5 DEF PutBlob
<1>6. CASE UNCHANGED vars
  BY <1>1, <1>6 DEF vars
<1> QED
  BY <1>1, <1>2, <1>3, <1>4, <1>5, <1>6 DEF Next

(* From every file, deltas lead down to a raw file or to a spoiled blob,   *)
(* whatever was spoiled, stored again or planned meanwhile.                *)
THEOREM StoreDamageInvariant == Spec => []DamageInv
<1> DEFINE Traces == (\A b \in Blobs : FileTraced(b)) /\ (\A p \in Procs : PlanTraced(p))
<1>1. Init => Traces
  BY DEF Init, FileTraced, PlanTraced
<1>2. TypeOK /\ TypeOK' /\ Traces /\ [Next]_vars => Traces'
  <2> SUFFICES ASSUME TypeOK, TypeOK', Traces, [Next]_vars PROVE Traces'
    OBVIOUS
  <2>1. ASSUME NEW b \in Blobs PROVE FileTraced(b)'
    BY FileTracedStep, StoreAssumption
  <2>2. ASSUME NEW p \in Procs PROVE PlanTraced(p)'
    BY PlanTracedStep, StoreAssumption
  <2> QED
    BY <2>1, <2>2
<1>3. StoreInv => TypeOK
  BY DEF StoreInv
<1>4. Traces => DamageInv
  BY DEF FileTraced, PlanTraced, DamageInv
<1> HIDE DEF Traces
<1> QED
  BY <1>1, <1>2, <1>3, <1>4, StoreInvariant, PTL DEF Spec

(* A spoiled file takes down only the deltas on top of it, however many    *)
(* files are spoiled and stored again: a stored blob that cannot be read   *)
(* has a spoiled one on its way down, within the depth limit.              *)
THEOREM StoreContainsDamage == Spec => []DamageContained
<1>1. DamageInv => DamageContained
  <2> SUFFICES ASSUME DamageInv, NEW b \in Blobs, file[b] # Absent, b \notin Readable
               PROVE  Below(b) \cap hurt # {}
    BY DEF DamageContained
  <2>1. CASE file[b] = Broken /\ b \in hurt
    <3> DEFINE s == [i \in 0..0 |-> b]
    <3>1. s \in [0..0 -> Blobs] /\ s[0] = b /\ 0 \in 0..MaxDepth
      BY StoreAssumption DEF StoreAssumption
    <3> HIDE DEF s
    <3>2. Chain(s, 0)
      BY DEF Chain
    <3>3. b \in Below(b)
      BY <3>1, <3>2 DEF Below
    <3> QED
      BY <2>1, <3>3
  <2>2. CASE file[b] \in Records /\ Traced(b, file[b].depth)
    <3> DEFINE n == file[b].depth
    <3>1. n \in 0..MaxDepth /\ Traced(b, n)
      BY <2>2 DEF Records
    <3> HIDE DEF n
    <3>2. PICK m \in 0..n : \E s \in [0..m -> Blobs] :
              /\ s[0] = b
              /\ Chain(s, m)
              /\ \A i \in 0..(m - 1) : file[s[i]].depth = n - i
              /\ s[m] \in hurt \/ (m = n /\ file[s[m]] = RawFile)
      BY <3>1 DEF Traced
    <3>3. PICK s \in [0..m -> Blobs] :
              /\ s[0] = b
              /\ Chain(s, m)
              /\ \A i \in 0..(m - 1) : file[s[i]].depth = n - i
              /\ s[m] \in hurt \/ (m = n /\ file[s[m]] = RawFile)
      BY <3>2
    <3>4. CASE s[m] \in hurt
      <4>1. m \in 0..MaxDepth /\ s[m] \in Blobs
        BY <3>1, StoreAssumption DEF StoreAssumption
      <4>2. s[m] \in Below(b)
        BY <3>3, <4>1 DEF Below
      <4> QED
        BY <3>4, <4>2
    <3>5. CASE m = n /\ file[s[m]] = RawFile
      <4>1. ReadsBack(b, n)
        BY <3>3, <3>5 DEF ReadsBack
      <4> QED
        BY <3>1, <4>1 DEF Readable
    <3> QED
      BY <3>3, <3>4, <3>5
  <2> QED
    BY <2>1, <2>2 DEF DamageInv
<1> QED
  BY <1>1, StoreDamageInvariant, PTL

=============================================================================

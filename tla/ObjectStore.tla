---------------------------- MODULE ObjectStore -----------------------------
(***************************************************************************)
(* LocalObjectStore: processes store blobs, as raw bytes or as a delta     *)
(* against another stored blob, under the name of their content, without   *)
(* any lock.  Trees and snapshots take the same steps without a base.      *)
(*                                                                         *)
(* A blob stands for its content and for the id that names it (hashing is  *)
(* taken as injective).  A delta is represented by the base and the depth  *)
(* its record holds; BlobDelta has the bytes.                              *)
(***************************************************************************)
EXTENDS Integers, FiniteSets

CONSTANTS
    Procs,
    Blobs,       \* contents
    Large,       \* those of at least MIN_DELTA_TARGET_BYTES
    Near,        \* <<base, target>>: the delta saves enough bytes
    NoBase,      \* base of a raw file; no base_id given
    Absent,      \* no file
    Broken,      \* a file that is neither the blob nor a delta record
    MaxDepth,    \* MAX_DELTA_CHAIN_DEPTH
    MaxPuts,     \* bound: puts started
    MaxFaults,   \* bound: crashes and I/O errors
    MaxDamage    \* bound: files the disk or a power failure spoils

ASSUME StoreAssumption ==
    /\ Large \subseteq Blobs
    /\ Near \subseteq Blobs \X Blobs
    /\ NoBase \notin Blobs
    /\ {Absent, Broken} \cap [base : Blobs \cup {NoBase}, depth : 0..MaxDepth] = {}
    /\ Absent # Broken
    /\ MaxDepth \in Nat /\ MaxPuts \in Nat /\ MaxFaults \in Nat
    /\ MaxDamage \in Nat

VARIABLES
    file,      \* object files: blob -> what is stored under its name
    pc,        \* where each process is in put_blob_with_base
    blob,      \* the content it stores
    base,      \* the base it was given
    plan,      \* what it is going to write
    temp,      \* does its temporary file exist?
    litter,    \* temporary files nobody will remove any more
    returned,  \* history: the blobs it was returned an id for
    hurt,      \* history: the blobs whose file was spoiled
    puts, faults, damage

vars == <<file, pc, blob, base, plan, temp, litter, returned, hurt, puts,
          faults, damage>>

Labels  == {"idle", "base", "exists", "verify", "write", "link", "clean",
            "clean_verify", "verify_again"}
Records == [base : Blobs \cup {NoBase}, depth : 0..MaxDepth]
RawFile == [base |-> NoBase, depth |-> 0]

TypeOK ==
    /\ file \in [Blobs -> Records \cup {Absent, Broken}]
    /\ pc \in [Procs -> Labels]
    /\ blob \in [Procs -> Blobs]
    /\ base \in [Procs -> Blobs \cup {NoBase}]
    /\ plan \in [Procs -> Records]
    /\ temp \in [Procs -> BOOLEAN]
    /\ litter \in Nat
    /\ returned \in [Procs -> SUBSET Blobs]
    /\ hurt \subseteq Blobs
    /\ puts \in 0..MaxPuts
    /\ faults \in 0..MaxFaults
    /\ damage \in 0..MaxDamage

Init ==
    /\ file = [b \in Blobs |-> Absent]
    /\ pc = [p \in Procs |-> "idle"]
    /\ \E b \in Blobs : blob = [p \in Procs |-> b]
    /\ base = [p \in Procs |-> NoBase]
    /\ plan = [p \in Procs |-> RawFile]
    /\ temp = [p \in Procs |-> FALSE]
    /\ litter = 0
    /\ returned = [p \in Procs |-> {}]
    /\ hurt = {}
    /\ puts = 0
    /\ faults = 0
    /\ damage = 0

Goto(p, l) == pc' = [pc EXCEPT ![p] = l]

-----------------------------------------------------------------------------
(* read_blob_data_at follows a delta to its base, the base to its own      *)
(* base, and so on, at most MaxDepth times.  The files are read one after  *)
(* the other, but no put changes a file that was linked.                   *)
Chain(s, n) ==
    \A i \in 0..(n - 1) : /\ file[s[i]] \notin {Absent, Broken}
                          /\ file[s[i]].base = s[i + 1]

(* The read succeeds, with depth n: the chain ends in a raw file and every *)
(* delta on it records its own distance from there.                        *)
ReadsBack(b, n) ==
    \E s \in [0..n -> Blobs] :
        /\ s[0] = b
        /\ Chain(s, n)
        /\ file[s[n]] = RawFile
        /\ \A i \in 0..(n - 1) : file[s[i]].depth = n - i

(* The read fails with MissingObject: b or a base below it has no file.    *)
(* Any other failure is an error of another kind.                          *)
ReadsMissing(b) ==
    \E n \in 0..MaxDepth : \E s \in [0..n -> Blobs] :
        s[0] = b /\ Chain(s, n) /\ file[s[n]] = Absent

(* The objects that get_blob returns.                                      *)
Readable == {b \in Blobs : \E n \in 0..MaxDepth : ReadsBack(b, n)}

(* put_blob_with_base: a base counts when it is another blob and the       *)
(* content is large.                                                       *)
PutBlob(p, b, c) ==
    /\ pc[p] = "idle"
    /\ puts < MaxPuts
    /\ puts' = puts + 1
    /\ blob' = [blob EXCEPT ![p] = b]
    /\ base' = [base EXCEPT ![p] = c]
    /\ plan' = [plan EXCEPT ![p] = RawFile]
    /\ Goto(p, IF c \notin {NoBase, b} /\ b \in Large THEN "base" ELSE "exists")
    /\ UNCHANGED <<file, temp, litter, returned, faults, hurt, damage>>

DeltaOn(b, d) == [base |-> b, depth |-> d + 1]

(* Mutant: a base that cannot be read is taken to be raw.                  *)
ReadBaseUnchecked(p) ==
    /\ pc[p] = "base"
    /\ <<base[p], blob[p]>> \in Near
    /\ plan' = [plan EXCEPT ![p] = DeltaOn(base[p], 0)]
    /\ Goto(p, "exists")
    /\ UNCHANGED <<file, blob, base, temp, litter, returned, puts,
                   faults, hurt, damage>>

(* delta_storage_bytes and BlobDelta::create: a delta only against a base  *)
(* that reads back, below the depth limit, and when it saves enough.       *)
ReadBase(p) ==
    /\ pc[p] = "base"
    /\ \/ \E d \in 0..(MaxDepth - 1) :
              /\ ReadsBack(base[p], d)
              /\ <<base[p], blob[p]>> \in Near
              /\ plan' = [plan EXCEPT ![p] = DeltaOn(base[p], d)]
       \/ /\ \/ <<base[p], blob[p]>> \notin Near
             \/ \A d \in 0..(MaxDepth - 1) : ~ReadsBack(base[p], d)
          /\ UNCHANGED plan
    /\ Goto(p, "exists")
    /\ UNCHANGED <<file, blob, base, temp, litter, returned, puts,
                   faults, hurt, damage>>

(* An error reading the base is not an error of the put: it falls back to  *)
(* the raw form.                                                           *)
BaseUnavailable(p) ==
    /\ pc[p] = "base"
    /\ faults < MaxFaults
    /\ faults' = faults + 1
    /\ Goto(p, "exists")
    /\ UNCHANGED <<file, blob, base, plan, temp, litter, returned, puts, hurt,
                   damage>>

(* put_object: an existing file is verified and reused ...                 *)
TryExists(p) ==
    /\ pc[p] = "exists"
    /\ Goto(p, IF file[blob[p]] = Absent THEN "write" ELSE "verify")
    /\ UNCHANGED <<file, blob, base, plan, temp, litter, returned,
                   puts, faults, hurt, damage>>

Return(p) ==
    /\ returned' = [returned EXCEPT ![p] = @ \cup {blob[p]}]
    /\ Goto(p, "idle")

VerifyExisting(p) ==
    /\ pc[p] = "verify"
    /\ \/ /\ blob[p] \in Readable
          /\ Return(p)
       \/ /\ ReadsMissing(blob[p])
          /\ Goto(p, "write")
          /\ UNCHANGED returned
       \/ /\ blob[p] \notin Readable /\ ~ReadsMissing(blob[p])
          /\ Goto(p, "idle")
          /\ UNCHANGED returned
    /\ UNCHANGED <<file, blob, base, plan, temp, litter, puts,
                   faults, hurt, damage>>

(* ... otherwise a complete temporary file is linked under the name, ...   *)
WriteTemp(p) ==
    /\ pc[p] = "write"
    /\ temp' = [temp EXCEPT ![p] = TRUE]
    /\ Goto(p, "link")
    /\ UNCHANGED <<file, blob, base, plan, litter, returned, puts,
                   faults, hurt, damage>>

(* Mutant: the name is given before the contents are written.              *)
LinkUnfinished(p) ==
    /\ pc[p] = "link"
    /\ file' = [file EXCEPT ![blob[p]] = IF @ = Absent THEN Broken ELSE @]
    /\ Goto(p, "clean")
    /\ UNCHANGED <<blob, base, plan, temp, litter, returned, puts,
                   faults, hurt, damage>>

HardLink(p) ==
    /\ pc[p] = "link"
    /\ \/ /\ file[blob[p]] = Absent
          /\ file' = [file EXCEPT ![blob[p]] = plan[p]]
          /\ Goto(p, "clean")
       \/ /\ file[blob[p]] # Absent
          /\ Goto(p, "clean_verify")
          /\ UNCHANGED file
    /\ UNCHANGED <<blob, base, plan, temp, litter, returned, puts,
                   faults, hurt, damage>>

(* ... which fails when another process was faster: its file is verified.  *)
RemoveTemp(p) ==
    /\ pc[p] \in {"clean", "clean_verify"}
    /\ temp' = [temp EXCEPT ![p] = FALSE]
    /\ \/ pc[p] = "clean" /\ Return(p)
       \/ pc[p] = "clean_verify" /\ Goto(p, "verify_again") /\ UNCHANGED returned
    /\ UNCHANGED <<file, blob, base, plan, litter, puts,
                   faults, hurt, damage>>

VerifyWinner(p) ==
    /\ pc[p] = "verify_again"
    /\ \/ blob[p] \in Readable /\ Return(p)
       \/ blob[p] \notin Readable /\ Goto(p, "idle") /\ UNCHANGED returned
    /\ UNCHANGED <<file, blob, base, plan, temp, litter, puts,
                   faults, hurt, damage>>

(* Mutant: an I/O error is swallowed.                                      *)
IoErrorIgnored(p) ==
    /\ pc[p] \notin {"idle", "base"}
    /\ faults < MaxFaults
    /\ faults' = faults + 1
    /\ temp' = [temp EXCEPT ![p] = FALSE]
    /\ Return(p)
    /\ UNCHANGED <<file, blob, base, plan, litter, puts, hurt, damage>>

(* An I/O error makes put return it: a temporary file that could not be    *)
(* written or linked is removed, one whose removal failed stays.           *)
IoError(p) ==
    /\ pc[p] \notin {"idle", "base"}
    /\ faults < MaxFaults
    /\ faults' = faults + 1
    /\ litter' = IF pc[p] \in {"clean", "clean_verify"} THEN litter + 1
                                                         ELSE litter
    /\ temp' = [temp EXCEPT ![p] = FALSE]
    /\ Goto(p, "idle")
    /\ UNCHANGED <<file, blob, base, plan, returned, puts, hurt, damage>>

Crash(p) ==
    /\ pc[p] # "idle"
    /\ faults < MaxFaults
    /\ faults' = faults + 1
    /\ litter' = IF temp[p] THEN litter + 1 ELSE litter
    /\ temp' = [temp EXCEPT ![p] = FALSE]
    /\ Goto(p, "idle")
    /\ UNCHANGED <<file, blob, base, plan, returned, puts, hurt, damage>>

(* A stored file is lost or spoiled.  Object files are not synced before   *)
(* they are linked, so a power failure can do this as well as the disk.    *)
Damage(b) ==
    /\ file[b] \notin {Absent, Broken}
    /\ damage < MaxDamage
    /\ damage' = damage + 1
    /\ hurt' = hurt \cup {b}
    /\ \E f \in {Absent, Broken} : file' = [file EXCEPT ![b] = f]
    /\ UNCHANGED <<pc, blob, base, plan, temp, litter, returned, puts, faults>>

-----------------------------------------------------------------------------
Step(p) ==
    \/ ReadBase(p) \/ TryExists(p) \/ VerifyExisting(p) \/ WriteTemp(p)
    \/ HardLink(p) \/ RemoveTemp(p) \/ VerifyWinner(p)
    \/ BaseUnavailable(p) \/ IoError(p) \/ Crash(p)

Next ==
    \/ \E p \in Procs :
           \/ Step(p)
           \/ \E b \in Blobs, c \in Blobs \cup {NoBase} : PutBlob(p, b, c)
    \/ \E b \in Blobs : Damage(b)

Spec == Init /\ [][Next]_vars
-----------------------------------------------------------------------------
(* Every object that has a name can be read back, whichever of the raw     *)
(* and delta forms that racing processes wrote came first, and no chain of *)
(* deltas exceeds the limit.                                               *)
StoredReadable == \A b \in Blobs : file[b] # Absent => b \in Readable

(* Why that is so: the base a process is going to write into its delta     *)
(* still reads back at the depth it recorded, because nobody changes files *)
(* that have a name; and what a put returns has been linked.               *)
PlansReadable ==
    \A p \in Procs :
        \/ plan[p] = RawFile
        \/ \E d \in 0..(MaxDepth - 1) : /\ plan[p].base \in Blobs
                                        /\ plan[p].depth = d + 1
                                        /\ ReadsBack(plan[p].base, d)

LinkedBeforeReturn ==
    \A p \in Procs : pc[p] = "clean" => file[blob[p]] # Absent

Sound == TypeOK /\ StoredReadable /\ PlansReadable /\ LinkedBeforeReturn

(* As long as no file is spoiled from outside, all of this holds.          *)
StoreInv == TypeOK /\ (hurt = {} => Sound)

(* The store keeps the promise the repository builds on.                   *)
Abstract == INSTANCE ContentStore WITH readable <- Readable, spoiled <- hurt # {}
ImplementsContentStore == Abstract!Spec

(* The blobs a read of b goes through.                                     *)
Below(b) ==
    {c \in Blobs : \E n \in 0..MaxDepth : \E s \in [0..n -> Blobs] :
                       s[0] = b /\ s[n] = c /\ Chain(s, n)}

(* A spoiled file takes down only the blobs that are stored as deltas on   *)
(* top of it; nothing written before or after it becomes unreadable.       *)
DamageContained ==
    \A b \in Blobs :
        file[b] # Absent /\ b \notin Readable => Below(b) \cap hurt # {}

(* Why that is so, in a store where files are spoiled, and stored again in *)
(* another form: from every file, and from the base of every plan, deltas  *)
(* that record their depths lead to a blob that was spoiled or to the end. *)
Traced(b, n) ==
    \E m \in 0..n : \E s \in [0..m -> Blobs] :
        /\ s[0] = b
        /\ Chain(s, m)
        /\ \A i \in 0..(m - 1) : file[s[i]].depth = n - i
        /\ s[m] \in hurt \/ (m = n /\ file[s[m]] = RawFile)

DamageInv ==
    /\ \A b \in Blobs : \/ file[b] = Absent
                        \/ file[b] = Broken /\ b \in hurt
                        \/ file[b] \in Records /\ Traced(b, file[b].depth)
    /\ \A p \in Procs : \/ plan[p] = RawFile
                        \/ \E d \in 0..(MaxDepth - 1) : /\ plan[p].base \in Blobs
                                                        /\ plan[p].depth = d + 1
                                                        /\ Traced(plan[p].base, d)

=============================================================================

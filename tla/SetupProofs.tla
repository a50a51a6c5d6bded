----------------------------- MODULE SetupProofs -----------------------------
(* How the processes of a repository share its files: the lock file of     *)
(* MetadataLock and the files that Setup writes, for any number of         *)
(* processes, branches, workspaces and directories, however deeply nested, *)
(* and with any number of crashes.  For Setup first what a step does to    *)
(* the process that takes it, then the parts of the inductive invariant    *)
(* one after the other.                                                    *)
EXTENDS Setup, MetadataLock, TLAPS

(* The steps of a process, crashes included.                               *)
SetupStep(p) == InitStep(p) \/ BranchStep(p) \/ ListStep(p) \/ AddStep(p) \/ CrashSetup(p)

(* What no step of p touches.                                              *)
Frame(p) ==
    /\ \A q \in Procs : q # p => proc'[q] = proc[q]
    /\ proc'[p].op = proc[p].op /\ proc'[p].name = proc[p].name /\ proc'[p].path = proc[p].path

-----------------------------------------------------------------------------
(* Updates of a process.                                                   *)

(* A new pc.                                                               *)
LEMMA PcSet ==
    ASSUME SetupTypeOK, NEW p \in Procs, NEW c \in Counters,
           proc' = [proc EXCEPT ![p].pc = c]
    PROVE  /\ proc' \in [Procs -> ProcStates] /\ Frame(p)
           /\ proc'[p].pc = c /\ proc'[p].after = proc[p].after
           /\ proc'[p].base = proc[p].base /\ proc'[p].empty = proc[p].empty
           /\ proc'[p].registered = proc[p].registered /\ proc'[p].todo = proc[p].todo
           /\ proc'[p].listed = proc[p].listed /\ proc'[p].result = proc[p].result
<1> PICK s : s = [proc[p] EXCEPT !.pc = c]
  OBVIOUS
<1>1. proc[p] \in ProcStates
  BY DEF SetupTypeOK
<1>2. s \in ProcStates
  BY <1>1 DEF ProcStates, Counters, Ended
<1>3. proc' = [proc EXCEPT ![p] = s]
  BY DEF SetupTypeOK, Began
<1>4. proc' \in [Procs -> ProcStates] /\ proc'[p] = s /\ \A q \in Procs : q # p => proc'[q] = proc[q]
  BY <1>2, <1>3 DEF SetupTypeOK
<1>5. /\ s.op = proc[p].op /\ s.name = proc[p].name /\ s.path = proc[p].path
      /\ s.pc = c /\ s.after = proc[p].after
      /\ s.base = proc[p].base /\ s.empty = proc[p].empty
      /\ s.registered = proc[p].registered /\ s.todo = proc[p].todo
      /\ s.listed = proc[p].listed /\ s.result = proc[p].result
  BY <1>1 DEF ProcStates
<1> QED
  BY <1>4, <1>5 DEF Frame

(* A return.                                                               *)
LEMMA ResultSet ==
    ASSUME SetupTypeOK, NEW p \in Procs, NEW r \in {"ok", "error"},
           proc' = [proc EXCEPT ![p].pc = "done", ![p].result = r]
    PROVE  /\ proc' \in [Procs -> ProcStates] /\ Frame(p)
           /\ proc'[p].pc = "done" /\ proc'[p].after = proc[p].after
           /\ proc'[p].base = proc[p].base /\ proc'[p].empty = proc[p].empty
           /\ proc'[p].registered = proc[p].registered /\ proc'[p].todo = proc[p].todo
           /\ proc'[p].listed = proc[p].listed /\ proc'[p].result = r
<1> PICK s : s = [proc[p] EXCEPT !.pc = "done", !.result = r]
  OBVIOUS
<1>1. proc[p] \in ProcStates
  BY DEF SetupTypeOK
<1>2. s \in ProcStates
  BY <1>1 DEF ProcStates, Counters, Ended
<1>3. proc' = [proc EXCEPT ![p] = s]
  BY DEF SetupTypeOK, Began
<1>4. proc' \in [Procs -> ProcStates] /\ proc'[p] = s /\ \A q \in Procs : q # p => proc'[q] = proc[q]
  BY <1>2, <1>3 DEF SetupTypeOK
<1>5. /\ s.op = proc[p].op /\ s.name = proc[p].name /\ s.path = proc[p].path
      /\ s.pc = "done" /\ s.after = proc[p].after
      /\ s.base = proc[p].base /\ s.empty = proc[p].empty
      /\ s.registered = proc[p].registered /\ s.todo = proc[p].todo
      /\ s.listed = proc[p].listed /\ s.result = r
  BY <1>1 DEF ProcStates
<1> QED
  BY <1>4, <1>5 DEF Frame

(* The start of an operation.                                              *)
LEMMA BeginSet ==
    ASSUME SetupTypeOK, NEW p \in Procs, NEW c \in Counters,
           proc' = Began(p, c)
    PROVE  /\ proc' \in [Procs -> ProcStates] /\ Frame(p)
           /\ proc'[p].pc = c /\ proc'[p].after = Ended
           /\ proc'[p].base = proc[p].base /\ proc'[p].empty = proc[p].empty
           /\ proc'[p].registered = proc[p].registered /\ proc'[p].todo = proc[p].todo
           /\ proc'[p].listed = proc[p].listed /\ proc'[p].result = proc[p].result
<1> PICK s : s = [proc[p] EXCEPT !.pc = c, !.after = Ended]
  OBVIOUS
<1>1. proc[p] \in ProcStates
  BY DEF SetupTypeOK
<1>2. s \in ProcStates
  BY <1>1 DEF ProcStates, Counters, Ended
<1>3. proc' = [proc EXCEPT ![p] = s]
  BY DEF SetupTypeOK, Began
<1>4. proc' \in [Procs -> ProcStates] /\ proc'[p] = s /\ \A q \in Procs : q # p => proc'[q] = proc[q]
  BY <1>2, <1>3 DEF SetupTypeOK
<1>5. /\ s.op = proc[p].op /\ s.name = proc[p].name /\ s.path = proc[p].path
      /\ s.pc = c /\ s.after = Ended
      /\ s.base = proc[p].base /\ s.empty = proc[p].empty
      /\ s.registered = proc[p].registered /\ s.todo = proc[p].todo
      /\ s.listed = proc[p].listed /\ s.result = proc[p].result
  BY <1>1 DEF ProcStates
<1> QED
  BY <1>4, <1>5 DEF Frame

(* A start that fails.                                                     *)
LEMMA RefuseSet ==
    ASSUME SetupTypeOK, NEW p \in Procs,
           proc' = [Began(p, "done") EXCEPT ![p].result = "error"]
    PROVE  /\ proc' \in [Procs -> ProcStates] /\ Frame(p)
           /\ proc'[p].pc = "done" /\ proc'[p].after = Ended
           /\ proc'[p].base = proc[p].base /\ proc'[p].empty = proc[p].empty
           /\ proc'[p].registered = proc[p].registered /\ proc'[p].todo = proc[p].todo
           /\ proc'[p].listed = proc[p].listed /\ proc'[p].result = "error"
<1> PICK s : s = [proc[p] EXCEPT !.pc = "done", !.after = Ended, !.result = "error"]
  OBVIOUS
<1>1. proc[p] \in ProcStates
  BY DEF SetupTypeOK
<1>2. s \in ProcStates
  BY <1>1 DEF ProcStates, Counters, Ended
<1>3. proc' = [proc EXCEPT ![p] = s]
  BY DEF SetupTypeOK, Began
<1>4. proc' \in [Procs -> ProcStates] /\ proc'[p] = s /\ \A q \in Procs : q # p => proc'[q] = proc[q]
  BY <1>2, <1>3 DEF SetupTypeOK
<1>5. /\ s.op = proc[p].op /\ s.name = proc[p].name /\ s.path = proc[p].path
      /\ s.pc = "done" /\ s.after = Ended
      /\ s.base = proc[p].base /\ s.empty = proc[p].empty
      /\ s.registered = proc[p].registered /\ s.todo = proc[p].todo
      /\ s.listed = proc[p].listed /\ s.result = "error"
  BY <1>1 DEF ProcStates
<1> QED
  BY <1>4, <1>5 DEF Frame

(* The start of a listing.                                                 *)
LEMMA ListSet ==
    ASSUME SetupTypeOK, NEW p \in Procs, NEW t \in SUBSET RefFiles,
           proc' = [Began(p, "read") EXCEPT ![p].todo = t]
    PROVE  /\ proc' \in [Procs -> ProcStates] /\ Frame(p)
           /\ proc'[p].pc = "read" /\ proc'[p].after = Ended
           /\ proc'[p].base = proc[p].base /\ proc'[p].empty = proc[p].empty
           /\ proc'[p].registered = proc[p].registered /\ proc'[p].todo = t
           /\ proc'[p].listed = proc[p].listed /\ proc'[p].result = proc[p].result
<1> PICK s : s = [proc[p] EXCEPT !.pc = "read", !.after = Ended, !.todo = t]
  OBVIOUS
<1>1. proc[p] \in ProcStates
  BY DEF SetupTypeOK
<1>2. s \in ProcStates
  BY <1>1 DEF ProcStates, Counters, Ended
<1>3. proc' = [proc EXCEPT ![p] = s]
  BY DEF SetupTypeOK, Began
<1>4. proc' \in [Procs -> ProcStates] /\ proc'[p] = s /\ \A q \in Procs : q # p => proc'[q] = proc[q]
  BY <1>2, <1>3 DEF SetupTypeOK
<1>5. /\ s.op = proc[p].op /\ s.name = proc[p].name /\ s.path = proc[p].path
      /\ s.pc = "read" /\ s.after = Ended
      /\ s.base = proc[p].base /\ s.empty = proc[p].empty
      /\ s.registered = proc[p].registered /\ s.todo = t
      /\ s.listed = proc[p].listed /\ s.result = proc[p].result
  BY <1>1 DEF ProcStates
<1> QED
  BY <1>4, <1>5 DEF Frame

(* A new pc and a base snapshot.                                           *)
Based(p, c, b) == [proc EXCEPT ![p].pc = c, ![p].base = b]
LEMMA BaseSet ==
    ASSUME SetupTypeOK, NEW p \in Procs, NEW c \in Counters, NEW b \in Nat,
           proc' = Based(p, c, b)
    PROVE  /\ proc' \in [Procs -> ProcStates] /\ Frame(p)
           /\ proc'[p].pc = c /\ proc'[p].after = proc[p].after
           /\ proc'[p].base = b /\ proc'[p].empty = proc[p].empty
           /\ proc'[p].registered = proc[p].registered /\ proc'[p].todo = proc[p].todo
           /\ proc'[p].listed = proc[p].listed /\ proc'[p].result = proc[p].result
<1> PICK s : s = [proc[p] EXCEPT !.pc = c, !.base = b]
  OBVIOUS
<1>1. proc[p] \in ProcStates
  BY DEF SetupTypeOK
<1>2. s \in ProcStates
  BY <1>1 DEF ProcStates, Counters, Ended
<1>3. proc' = [proc EXCEPT ![p] = s]
  BY DEF SetupTypeOK, Based
<1>4. proc' \in [Procs -> ProcStates] /\ proc'[p] = s /\ \A q \in Procs : q # p => proc'[q] = proc[q]
  BY <1>2, <1>3 DEF SetupTypeOK
<1>5. /\ s.op = proc[p].op /\ s.name = proc[p].name /\ s.path = proc[p].path
      /\ s.pc = c /\ s.after = proc[p].after
      /\ s.base = b /\ s.empty = proc[p].empty
      /\ s.registered = proc[p].registered /\ s.todo = proc[p].todo
      /\ s.listed = proc[p].listed /\ s.result = proc[p].result
  BY <1>1 DEF ProcStates
<1> QED
  BY <1>4, <1>5 DEF Frame

(* A new pc and whether something was registered.                          *)
LEMMA RegisteredSet ==
    ASSUME SetupTypeOK, NEW p \in Procs, NEW c \in Counters, NEW g \in BOOLEAN,
           proc' = [proc EXCEPT ![p].pc = c, ![p].registered = g]
    PROVE  /\ proc' \in [Procs -> ProcStates] /\ Frame(p)
           /\ proc'[p].pc = c /\ proc'[p].after = proc[p].after
           /\ proc'[p].base = proc[p].base /\ proc'[p].empty = proc[p].empty
           /\ proc'[p].registered = g /\ proc'[p].todo = proc[p].todo
           /\ proc'[p].listed = proc[p].listed /\ proc'[p].result = proc[p].result
<1> PICK s : s = [proc[p] EXCEPT !.pc = c, !.registered = g]
  OBVIOUS
<1>1. proc[p] \in ProcStates
  BY DEF SetupTypeOK
<1>2. s \in ProcStates
  BY <1>1 DEF ProcStates, Counters, Ended
<1>3. proc' = [proc EXCEPT ![p] = s]
  BY DEF SetupTypeOK, Began
<1>4. proc' \in [Procs -> ProcStates] /\ proc'[p] = s /\ \A q \in Procs : q # p => proc'[q] = proc[q]
  BY <1>2, <1>3 DEF SetupTypeOK
<1>5. /\ s.op = proc[p].op /\ s.name = proc[p].name /\ s.path = proc[p].path
      /\ s.pc = c /\ s.after = proc[p].after
      /\ s.base = proc[p].base /\ s.empty = proc[p].empty
      /\ s.registered = g /\ s.todo = proc[p].todo
      /\ s.listed = proc[p].listed /\ s.result = proc[p].result
  BY <1>1 DEF ProcStates
<1> QED
  BY <1>4, <1>5 DEF Frame

(* A new pc and whether the directory was empty.                           *)
LEMMA EmptySet ==
    ASSUME SetupTypeOK, NEW p \in Procs, NEW c \in Counters, NEW e \in BOOLEAN,
           proc' = [proc EXCEPT ![p].pc = c, ![p].empty = e]
    PROVE  /\ proc' \in [Procs -> ProcStates] /\ Frame(p)
           /\ proc'[p].pc = c /\ proc'[p].after = proc[p].after
           /\ proc'[p].base = proc[p].base /\ proc'[p].empty = e
           /\ proc'[p].registered = proc[p].registered /\ proc'[p].todo = proc[p].todo
           /\ proc'[p].listed = proc[p].listed /\ proc'[p].result = proc[p].result
<1> PICK s : s = [proc[p] EXCEPT !.pc = c, !.empty = e]
  OBVIOUS
<1>1. proc[p] \in ProcStates
  BY DEF SetupTypeOK
<1>2. s \in ProcStates
  BY <1>1 DEF ProcStates, Counters, Ended
<1>3. proc' = [proc EXCEPT ![p] = s]
  BY DEF SetupTypeOK, Began
<1>4. proc' \in [Procs -> ProcStates] /\ proc'[p] = s /\ \A q \in Procs : q # p => proc'[q] = proc[q]
  BY <1>2, <1>3 DEF SetupTypeOK
<1>5. /\ s.op = proc[p].op /\ s.name = proc[p].name /\ s.path = proc[p].path
      /\ s.pc = c /\ s.after = proc[p].after
      /\ s.base = proc[p].base /\ s.empty = e
      /\ s.registered = proc[p].registered /\ s.todo = proc[p].todo
      /\ s.listed = proc[p].listed /\ s.result = proc[p].result
  BY <1>1 DEF ProcStates
<1> QED
  BY <1>4, <1>5 DEF Frame

(* A ref was read.                                                         *)
LEMMA ReadSet ==
    ASSUME SetupTypeOK, NEW p \in Procs, NEW k \in RefFiles,
           proc' = [proc EXCEPT ![p].todo = @ \ {k}, ![p].listed = @ \cup {k}]
    PROVE  /\ proc' \in [Procs -> ProcStates] /\ Frame(p)
           /\ proc'[p].pc = proc[p].pc /\ proc'[p].after = proc[p].after
           /\ proc'[p].base = proc[p].base /\ proc'[p].empty = proc[p].empty
           /\ proc'[p].registered = proc[p].registered /\ proc'[p].todo = proc[p].todo \ {k}
           /\ proc'[p].listed = proc[p].listed \cup {k} /\ proc'[p].result = proc[p].result
<1> PICK s : s = [proc[p] EXCEPT !.todo = proc[p].todo \ {k}, !.listed = proc[p].listed \cup {k}]
  OBVIOUS
<1>1. proc[p] \in ProcStates
  BY DEF SetupTypeOK
<1>2. s \in ProcStates
  BY <1>1 DEF ProcStates, Counters, Ended
<1>3. proc' = [proc EXCEPT ![p] = s]
  BY DEF SetupTypeOK, Began
<1>4. proc' \in [Procs -> ProcStates] /\ proc'[p] = s /\ \A q \in Procs : q # p => proc'[q] = proc[q]
  BY <1>2, <1>3 DEF SetupTypeOK
<1>5. /\ s.op = proc[p].op /\ s.name = proc[p].name /\ s.path = proc[p].path
      /\ s.pc = proc[p].pc /\ s.after = proc[p].after
      /\ s.base = proc[p].base /\ s.empty = proc[p].empty
      /\ s.registered = proc[p].registered /\ s.todo = proc[p].todo \ {k}
      /\ s.listed = proc[p].listed \cup {k} /\ s.result = proc[p].result
  BY <1>1 DEF ProcStates
<1> QED
  BY <1>4, <1>5 DEF Frame

-----------------------------------------------------------------------------
(* Ref files.                                                              *)

(* A file that is written is there with its new content, the others are    *)
(* as before.                                                              *)
LEMMA PutIs ==
    ASSUME NEW f, NEW k, NEW v
    PROVE  /\ DOMAIN Put(f, k, v) = DOMAIN f \cup {k}
           /\ Put(f, k, v)[k] = v
           /\ \A x \in DOMAIN f : x # k => Put(f, k, v)[x] = f[x]
BY DEF Put

(* A file that is removed is gone, the others are as before.               *)
LEMMA DropIs ==
    ASSUME NEW f, NEW k
    PROVE  /\ DOMAIN Drop(f, k) = DOMAIN f \ {k}
           /\ \A x \in DOMAIN f : x # k => Drop(f, k)[x] = f[x]
BY DEF Drop

(* The names of refs and of temporary files are those of files, and no     *)
(* temporary file has the name of a ref.                                   *)
LEMMA FileNames ==
    ASSUME SetupTypeOK, NEW p \in Procs
    PROVE  /\ Ref(proc[p].name) \in RefFiles /\ Ref(Main) \in RefFiles
           /\ Temp(p) \in RefFiles
           /\ Temp(p).temp = p /\ p # Nobody
           /\ \A n : Ref(n).temp = Nobody /\ Ref(n).name = n
BY ProcsAssumption DEF SetupTypeOK, ProcStates, RefFiles, Ref, Temp, OpNames

(* Written files are typed.                                                *)
LEMMA PutTyped ==
    ASSUME SetupTypeOK, NEW k \in RefFiles, NEW v \in Nat, NEW g, g = Put(heads, k, v)
    PROVE  DOMAIN g \subseteq RefFiles /\ g \in [DOMAIN g -> Nat]
BY PutIs DEF SetupTypeOK, Put

(* Removed files, too.                                                     *)
LEMMA DropTyped ==
    ASSUME SetupTypeOK, NEW k, NEW g, g = Drop(heads, k)
    PROVE  DOMAIN g \subseteq RefFiles /\ g \in [DOMAIN g -> Nat]
BY DropIs DEF SetupTypeOK, Drop

-----------------------------------------------------------------------------
(* What the steps of each operation do.                                    *)

(* What any step of p does to p's place in the order of the processes.     *)
Legal(p) ==
    /\ Frame(p)
    /\ proc[p].pc \notin {"done", "crashed"} /\ proc'[p].pc # "idle"
    /\ proc'[p].after = IF proc[p].pc = "idle" THEN Ended ELSE proc[p].after

(* init: it gives up, makes a part, or writes the ref of main.             *)
InitDoes(p) ==
    \/ /\ proc[p].pc \in {"idle", "create"} /\ proc'[p].pc \in {"create", "done"}
       /\ UNCHANGED <<made, heads>>
    \/ /\ proc[p].pc = "create" /\ proc'[p].pc = "layout"
       /\ made' = made \cup {"dir"} /\ UNCHANGED heads
    \/ \E part \in {"layout", "snapshot", "index", "HEAD"} :
          /\ proc[p].pc = part /\ proc'[p].pc = NextPart[part]
          /\ proc'[p].base = newest
          /\ made' = made \cup {part} /\ UNCHANGED heads
    \/ /\ proc[p].pc = "temp" /\ proc'[p].pc = "write" /\ proc'[p].base = proc[p].base
       /\ heads' = Put(heads, Temp(p), 0) /\ UNCHANGED made
    \/ /\ proc[p].pc = "write" /\ proc'[p].pc = "rename" /\ proc'[p].base = proc[p].base
       /\ heads' = Put(heads, Temp(p), proc[p].base) /\ UNCHANGED made
    \/ /\ proc[p].pc = "rename" /\ proc'[p].pc = "done"
       /\ heads' = Put(Drop(heads, Temp(p)), Ref(proc[p].name), heads[Temp(p)])
       /\ UNCHANGED made

(* The steps of init change the files of the repository and nothing else.  *)
LEMMA InitEffect ==
    ASSUME SetupTypeOK, RefsInv, NEW p \in Procs, InitStep(p)
    PROVE  /\ SetupTypeOK' /\ Legal(p) /\ InitDoes(p)
           /\ proc[p].op = "init"
           /\ UNCHANGED <<newest, wsRef, record, pointer, folder, locked>>
<1> USE DEF AtStep
<1>0. /\ DOMAIN heads \subseteq RefFiles /\ heads \in [DOMAIN heads -> Nat] /\ newest \in Nat
      /\ proc[p] \in ProcStates
  BY DEF SetupTypeOK
<1>1. CASE CheckUninitialized(p)
  <2>1. /\ proc' \in [Procs -> ProcStates] /\ Frame(p)
        /\ proc'[p].pc \in {"create", "done"} /\ proc'[p].after = Ended
    <3>1. CASE "dir" \in made
      <4>1. proc' = [Began(p, "done") EXCEPT ![p].result = "error"]
        BY <1>1, <3>1 DEF CheckUninitialized
      <4> QED
        BY <4>1, RefuseSet
    <3>2. CASE "dir" \notin made
      <4>1. proc' = Began(p, "create") /\ "create" \in Counters
        BY <1>1, <3>2 DEF CheckUninitialized, Counters
      <4> QED
        BY <4>1, BeginSet
    <3> QED
      BY <3>1, <3>2
  <2> QED
    BY <1>1, <2>1 DEF CheckUninitialized, Legal, InitDoes, SetupTypeOK, Frame
<1>2. CASE CreateMetadataDir(p)
  <2>1. CASE "dir" \in made
    <3>1. /\ proc' \in [Procs -> ProcStates] /\ Frame(p)
          /\ proc'[p].pc = "done" /\ proc'[p].after = proc[p].after
      BY <1>2, <2>1, ResultSet DEF CreateMetadataDir, End
    <3> QED
      BY <1>2, <2>1, <3>1 DEF CreateMetadataDir, Legal, InitDoes, SetupTypeOK, Frame
  <2>2. CASE "dir" \notin made
    <3>1. /\ proc' \in [Procs -> ProcStates] /\ Frame(p)
          /\ proc'[p].pc = "layout" /\ proc'[p].after = proc[p].after
      BY <1>2, <2>2, PcSet DEF CreateMetadataDir, Go, Counters
    <3> QED
      BY <1>2, <2>2, <3>1 DEF CreateMetadataDir, Legal, InitDoes, SetupTypeOK, Frame, Complete
  <2> QED
    BY <2>1, <2>2
<1>3. CASE MakePart(p)
  <2>1. PICK part \in {"layout", "snapshot", "index", "HEAD"} :
            /\ proc[p].pc = part /\ made' = made \cup {part}
            /\ proc' = [proc EXCEPT ![p].pc = NextPart[part], ![p].base = newest]
    BY <1>3 DEF MakePart, NextPart
  <2>2. NextPart[part] \in Counters /\ NextPart[part] # "idle"
    BY DEF NextPart, Counters
  <2>3. /\ proc' \in [Procs -> ProcStates] /\ Frame(p)
        /\ proc'[p].pc = NextPart[part] /\ proc'[p].after = proc[p].after
        /\ proc'[p].base = newest
    <3>1. PICK c \in Counters, b \in Nat : c = NextPart[part] /\ b = newest
      BY <1>0, <2>2
    <3>2. proc' = Based(p, c, b)
      BY <2>1, <3>1 DEF Based
    <3>3. /\ proc' \in [Procs -> ProcStates] /\ Frame(p)
          /\ proc'[p].pc = c /\ proc'[p].after = proc[p].after
          /\ proc'[p].base = b
      BY <3>2, BaseSet
    <3> QED
      BY <3>1, <3>3
  <2> QED
    BY <1>3, <2>1, <2>2, <2>3 DEF MakePart, Legal, InitDoes, SetupTypeOK, Frame, Complete
<1>4. CASE WriteMainTemp(p)
  <2>1. /\ proc' \in [Procs -> ProcStates] /\ Frame(p) /\ proc'[p].base = proc[p].base
        /\ proc'[p].pc = "write" /\ proc'[p].after = proc[p].after
    BY <1>4, PcSet DEF WriteMainTemp, Go, Counters
  <2>2. DOMAIN heads' \subseteq RefFiles /\ heads' \in [DOMAIN heads' -> Nat]
    BY <1>4, PutTyped, FileNames DEF WriteMainTemp, CreateTemp
  <2> QED
    BY <1>4, <2>1, <2>2 DEF WriteMainTemp, CreateTemp, Legal, InitDoes, SetupTypeOK, Frame
<1>5. CASE WriteMain(p)
  <2>1. /\ proc' \in [Procs -> ProcStates] /\ Frame(p) /\ proc'[p].base = proc[p].base
        /\ proc'[p].pc = "rename" /\ proc'[p].after = proc[p].after
    BY <1>5, PcSet DEF WriteMain, Go, Counters
  <2>2. proc[p].base \in Nat
    BY <1>0 DEF ProcStates
  <2>3. DOMAIN heads' \subseteq RefFiles /\ heads' \in [DOMAIN heads' -> Nat]
    BY <1>5, <2>2, PutTyped, FileNames DEF WriteMain, WriteTemp
  <2> QED
    BY <1>5, <2>1, <2>3 DEF WriteMain, WriteTemp, Legal, InitDoes, SetupTypeOK, Frame
<1>6. CASE RenameMain(p)
  <2>1. /\ proc' \in [Procs -> ProcStates] /\ Frame(p)
        /\ proc'[p].pc = "done" /\ proc'[p].after = proc[p].after
    BY <1>6, ResultSet DEF RenameMain, End
  <2>2. heads[Temp(p)] \in Nat
    BY <1>0, <1>6 DEF RenameMain, RefsInv
  <2>3. heads' = Put(Drop(heads, Temp(p)), Ref(proc[p].name), heads[Temp(p)])
    BY <1>6 DEF RenameMain, Rename
  <2>4. DOMAIN heads' \subseteq RefFiles /\ heads' \in [DOMAIN heads' -> Nat]
    <3>1. PICK g : g = Drop(heads, Temp(p))
      OBVIOUS
    <3>2. DOMAIN g \subseteq RefFiles /\ g \in [DOMAIN g -> Nat]
      BY <3>1, DropTyped
    <3>3. heads' = Put(g, Ref(proc[p].name), heads[Temp(p)])
      BY <2>3, <3>1
    <3> QED
      BY <2>2, <3>2, <3>3, FileNames DEF Put
  <2> QED
    BY <1>6, <2>1, <2>3, <2>4 DEF RenameMain, Legal, InitDoes, SetupTypeOK, Frame
<1> QED
  BY <1>1, <1>2, <1>3, <1>4, <1>5, <1>6 DEF InitStep

(* create_branch: it starts or fails, saves the work in main, writes the   *)
(* temporary file, links it if the name is free, and removes it.           *)
Saves ==
    \/ UNCHANGED <<newest, heads>>
    \/ Ref(Main) \in DOMAIN heads /\ newest' = newest + 1 /\ heads' = Put(heads, Ref(Main), newest')

BranchDoes(p) ==
    \/ /\ proc[p].pc \in {"idle", "save"}
       /\ \/ proc'[p].pc = "save"
          \/ proc'[p].pc = "done" /\ proc'[p].result = "error"
       /\ UNCHANGED <<newest, heads>>
    \/ /\ proc[p].pc = "save" /\ proc'[p].pc = "temp"
       /\ Ref(Main) \in DOMAIN heads /\ Saves /\ proc'[p].base = heads'[Ref(Main)]
    \/ /\ proc[p].pc = "temp" /\ proc'[p].pc = "write" /\ proc'[p].base = proc[p].base
       /\ heads' = Put(heads, Temp(p), 0) /\ UNCHANGED newest
    \/ /\ proc[p].pc = "write" /\ proc'[p].pc = "link" /\ proc'[p].base = proc[p].base
       /\ heads' = Put(heads, Temp(p), proc[p].base) /\ UNCHANGED newest
    \/ /\ proc[p].pc = "link" /\ proc'[p].pc = "remove" /\ proc'[p].base = proc[p].base
       /\ \/ /\ Ref(proc[p].name) \in DOMAIN heads /\ UNCHANGED heads
             /\ proc'[p].registered
          \/ /\ Ref(proc[p].name) \notin DOMAIN heads
             /\ heads' = Put(heads, Ref(proc[p].name), heads[Temp(p)])
             /\ ~proc'[p].registered
       /\ UNCHANGED newest
    \/ /\ proc[p].pc = "remove" /\ proc'[p].pc = "done" /\ proc'[p].base = proc[p].base
       /\ heads' = Drop(heads, Temp(p))
       /\ proc'[p].result = (IF proc[p].registered THEN "error" ELSE "ok")
       /\ UNCHANGED newest

(* A saved snapshot is typed, as is the ref of main that it moves.         *)
LEMMA SaveEffect ==
    ASSUME SetupTypeOK, Ref(Main) \in DOMAIN heads, SaveCurrent
    PROVE  /\ newest' \in Nat \ {0}
           /\ DOMAIN heads' \subseteq RefFiles /\ heads' \in [DOMAIN heads' -> Nat]
           /\ DOMAIN heads' = DOMAIN heads /\ heads'[Ref(Main)] \in Nat
           /\ Saves
<1>1. CASE UNCHANGED <<newest, heads>>
  BY <1>1 DEF SetupTypeOK, Saves
<1>2. CASE newest' = newest + 1 /\ heads' = Put(heads, Ref(Main), newest')
  <2>1. newest' \in Nat \ {0} /\ Ref(Main) \in RefFiles
    BY <1>2 DEF SetupTypeOK
  <2>2. DOMAIN heads' \subseteq RefFiles /\ heads' \in [DOMAIN heads' -> Nat]
    <3>1. PICK v \in Nat, k \in RefFiles : v = newest' /\ k = Ref(Main)
      BY <2>1
    <3>2. heads' = Put(heads, k, v)
      BY <1>2, <3>1
    <3> QED
      BY <3>2, PutTyped
  <2>3. DOMAIN heads' = DOMAIN heads
    BY <1>2 DEF Put
  <2> QED
    BY <1>2, <2>1, <2>2, <2>3 DEF Saves
<1> QED
  BY <1>1, <1>2 DEF SaveCurrent

(* The steps of create_branch change the refs, the newest snapshot and     *)
(* nothing else.                                                           *)
LEMMA BranchEffect ==
    ASSUME SetupTypeOK, RefsInv, NEW p \in Procs, BranchStep(p)
    PROVE  /\ SetupTypeOK' /\ Legal(p) /\ BranchDoes(p)
           /\ proc[p].op = "branch"
           /\ UNCHANGED <<made, wsRef, record, pointer, folder, locked>>
<1> USE DEF AtStep
<1>0. /\ DOMAIN heads \subseteq RefFiles /\ heads \in [DOMAIN heads -> Nat] /\ newest \in Nat
      /\ proc[p] \in ProcStates /\ proc[p].base \in Nat
  BY DEF SetupTypeOK, ProcStates
<1>1. CASE StartCreateBranch(p)
  <2>1. /\ proc' \in [Procs -> ProcStates] /\ Frame(p) /\ proc'[p].after = Ended
        /\ \/ proc'[p].pc = "save"
           \/ proc'[p].pc = "done" /\ proc'[p].result = "error"
    <3>1. CASE proc' = [Began(p, "done") EXCEPT ![p].result = "error"]
      BY <3>1, RefuseSet
    <3>2. CASE proc' = Began(p, "save")
      <4>1. PICK c \in Counters : c = "save"
        BY DEF Counters
      <4>2. proc' = Began(p, c)
        BY <3>2, <4>1
      <4> QED
        BY <4>1, <4>2, BeginSet
    <3> QED
      BY <1>1, <3>1, <3>2 DEF StartCreateBranch
  <2> QED
    BY <1>1, <2>1 DEF StartCreateBranch, Legal, BranchDoes, SetupTypeOK, Frame
<1>2. CASE SaveBeforeBranch(p)
  <2>1. CASE Ref(Main) \notin DOMAIN heads
    <3>1. /\ proc' \in [Procs -> ProcStates] /\ Frame(p)
          /\ proc'[p].pc = "done" /\ proc'[p].after = proc[p].after
          /\ proc'[p].result = "error"
      BY <1>2, <2>1, ResultSet DEF SaveBeforeBranch, End
    <3> QED
      BY <1>2, <2>1, <3>1 DEF SaveBeforeBranch, Legal, BranchDoes, SetupTypeOK, Frame
  <2>2. CASE Ref(Main) \in DOMAIN heads
    <3>1. /\ newest' \in Nat \ {0} /\ Saves
          /\ DOMAIN heads' \subseteq RefFiles /\ heads' \in [DOMAIN heads' -> Nat]
          /\ heads'[Ref(Main)] \in Nat
      BY <1>2, <2>2, SaveEffect DEF SaveBeforeBranch
    <3>2. /\ proc' \in [Procs -> ProcStates] /\ Frame(p)
          /\ proc'[p].pc = "temp" /\ proc'[p].after = proc[p].after
          /\ proc'[p].base = heads'[Ref(Main)]
      <4>1. PICK c \in Counters, b \in Nat : c = "temp" /\ b = heads'[Ref(Main)]
        BY <3>1 DEF Counters
      <4>2. proc' = Based(p, c, b)
        BY <1>2, <2>2, <4>1 DEF SaveBeforeBranch, Based
      <4>3. /\ proc' \in [Procs -> ProcStates] /\ Frame(p)
            /\ proc'[p].pc = c /\ proc'[p].after = proc[p].after
            /\ proc'[p].base = b
        BY <4>2, BaseSet
      <4> QED
        BY <4>1, <4>3
    <3> QED
      BY <1>2, <2>2, <3>1, <3>2 DEF SaveBeforeBranch, Legal, BranchDoes, SetupTypeOK, Frame
  <2> QED
    BY <2>1, <2>2
<1>3. CASE CreateBranchTemp(p)
  <2>1. /\ proc' \in [Procs -> ProcStates] /\ Frame(p) /\ proc'[p].base = proc[p].base
        /\ proc'[p].pc = "write" /\ proc'[p].after = proc[p].after
    BY <1>3, PcSet DEF CreateBranchTemp, Go, Counters
  <2>2. DOMAIN heads' \subseteq RefFiles /\ heads' \in [DOMAIN heads' -> Nat]
    BY <1>3, PutTyped, FileNames DEF CreateBranchTemp, CreateTemp
  <2> QED
    BY <1>3, <2>1, <2>2 DEF CreateBranchTemp, CreateTemp, Legal, BranchDoes, SetupTypeOK, Frame
<1>4. CASE WriteBranchTemp(p)
  <2>1. /\ proc' \in [Procs -> ProcStates] /\ Frame(p) /\ proc'[p].base = proc[p].base
        /\ proc'[p].pc = "link" /\ proc'[p].after = proc[p].after
    BY <1>4, PcSet DEF WriteBranchTemp, Go, Counters
  <2>2. DOMAIN heads' \subseteq RefFiles /\ heads' \in [DOMAIN heads' -> Nat]
    BY <1>0, <1>4, PutTyped, FileNames DEF WriteBranchTemp, WriteTemp
  <2> QED
    BY <1>4, <2>1, <2>2 DEF WriteBranchTemp, WriteTemp, Legal, BranchDoes, SetupTypeOK, Frame
<1>5. CASE LinkBranch(p)
  <2>1. PICK g \in BOOLEAN : g <=> Ref(proc[p].name) \in DOMAIN heads
    <3>1. CASE Ref(proc[p].name) \in DOMAIN heads
      BY <3>1
    <3>2. CASE Ref(proc[p].name) \notin DOMAIN heads
      BY <3>2
    <3> QED
      BY <3>1, <3>2
  <2>2. /\ proc' \in [Procs -> ProcStates] /\ Frame(p) /\ proc'[p].base = proc[p].base
        /\ proc'[p].pc = "remove" /\ proc'[p].after = proc[p].after
        /\ proc'[p].registered = g
    <3>1. proc' = [proc EXCEPT ![p].pc = "remove", ![p].registered = g] /\ "remove" \in Counters
      BY <1>5, <2>1 DEF LinkBranch, Counters
    <3> QED
      BY <3>1, RegisteredSet
  <2>3. DOMAIN heads' \subseteq RefFiles /\ heads' \in [DOMAIN heads' -> Nat]
    <3>1. heads[Temp(p)] \in Nat
      BY <1>0, <1>5 DEF LinkBranch, RefsInv
    <3> QED
      BY <1>0, <1>5, <3>1, PutTyped, FileNames DEF LinkBranch, Link
  <2>4. \/ Ref(proc[p].name) \in DOMAIN heads /\ UNCHANGED heads /\ proc'[p].registered
        \/ /\ Ref(proc[p].name) \notin DOMAIN heads /\ ~proc'[p].registered
           /\ heads' = Put(heads, Ref(proc[p].name), heads[Temp(p)])
    BY <1>5, <2>1, <2>2 DEF LinkBranch, Link
  <2> QED
    BY <1>5, <2>2, <2>3, <2>4 DEF LinkBranch, Legal, BranchDoes, SetupTypeOK, Frame
<1>6. CASE RemoveBranchTemp(p)
  <2>1. PICK r \in {"ok", "error"} : r = IF proc[p].registered THEN "error" ELSE "ok"
    OBVIOUS
  <2>2. /\ proc' \in [Procs -> ProcStates] /\ Frame(p) /\ proc'[p].base = proc[p].base
        /\ proc'[p].pc = "done" /\ proc'[p].after = proc[p].after
        /\ proc'[p].result = r
    <3>1. proc' = [proc EXCEPT ![p].pc = "done", ![p].result = r]
      BY <1>6, <2>1 DEF RemoveBranchTemp, End
    <3> QED
      BY <3>1, ResultSet
  <2>3. DOMAIN heads' \subseteq RefFiles /\ heads' \in [DOMAIN heads' -> Nat]
    BY <1>6, DropTyped DEF RemoveBranchTemp
  <2> QED
    BY <1>6, <2>1, <2>2, <2>3 DEF RemoveBranchTemp, Legal, BranchDoes, SetupTypeOK, Frame
<1> QED
  BY <1>1, <1>2, <1>3, <1>4, <1>5, <1>6 DEF BranchStep

(* branches: the listing fails, reads the names, or reads a ref.           *)
ListDoes(p) ==
    \/ /\ proc'[p].pc = "done"
       /\ proc'[p].todo = proc[p].todo /\ proc'[p].listed = proc[p].listed
    \/ /\ proc[p].pc = "idle" /\ proc'[p].pc = "read"
       /\ proc'[p].todo = DOMAIN heads /\ proc'[p].listed = proc[p].listed
    \/ /\ proc[p].pc = "read" /\ proc'[p].pc = "read"
       /\ proc'[p].todo \cup proc'[p].listed = proc[p].todo \cup proc[p].listed

(* The steps of branches change nothing but the process.                   *)
LEMMA ListEffect ==
    ASSUME SetupTypeOK, NEW p \in Procs, ListStep(p)
    PROVE  /\ SetupTypeOK' /\ Legal(p) /\ ListDoes(p)
           /\ proc[p].op = "list"
           /\ UNCHANGED <<made, newest, heads, wsRef, record, pointer, folder, locked>>
<1> USE DEF AtStep
<1>1. CASE ListNames(p)
  <2>1. CASE proc' = [Began(p, "done") EXCEPT ![p].result = "error"]
    <3>1. /\ proc' \in [Procs -> ProcStates] /\ Frame(p) /\ proc'[p].after = Ended
          /\ proc'[p].pc = "done"
          /\ proc'[p].todo = proc[p].todo /\ proc'[p].listed = proc[p].listed
      BY <2>1, RefuseSet
    <3> QED
      BY <1>1, <3>1 DEF ListNames, Legal, ListDoes, SetupTypeOK, Frame
  <2>2. CASE proc' = [Began(p, "read") EXCEPT ![p].todo = DOMAIN heads]
    <3>1. PICK t \in SUBSET RefFiles : t = DOMAIN heads
      BY DEF SetupTypeOK
    <3>2. /\ proc' \in [Procs -> ProcStates] /\ Frame(p) /\ proc'[p].after = Ended
          /\ proc'[p].pc = "read" /\ proc'[p].todo = t
          /\ proc'[p].listed = proc[p].listed
      BY <2>2, <3>1, ListSet
    <3> QED
      BY <1>1, <3>1, <3>2 DEF ListNames, Legal, ListDoes, SetupTypeOK, Frame
  <2> QED
    BY <1>1, <2>1, <2>2 DEF ListNames
<1>2. CASE ReadRef(p)
  <2>1. CASE \E r \in {"ok", "error"} : End(p, r)
    <3>1. /\ proc' \in [Procs -> ProcStates] /\ Frame(p) /\ proc'[p].after = proc[p].after
          /\ proc'[p].pc = "done"
          /\ proc'[p].todo = proc[p].todo /\ proc'[p].listed = proc[p].listed
      BY <2>1, ResultSet DEF End
    <3> QED
      BY <1>2, <3>1 DEF ReadRef, Legal, ListDoes, SetupTypeOK, Frame
  <2>2. CASE \E r \in proc[p].todo :
                proc' = [proc EXCEPT ![p].todo = @ \ {r}, ![p].listed = @ \cup {r}]
    <3>1. PICK r \in proc[p].todo :
                proc' = [proc EXCEPT ![p].todo = @ \ {r}, ![p].listed = @ \cup {r}]
      BY <2>2
    <3>2. r \in RefFiles
      BY DEF SetupTypeOK, ProcStates
    <3>3. /\ proc' \in [Procs -> ProcStates] /\ Frame(p) /\ proc'[p].after = proc[p].after
          /\ proc'[p].pc = proc[p].pc
          /\ proc'[p].todo = proc[p].todo \ {r} /\ proc'[p].listed = proc[p].listed \cup {r}
      BY <3>1, <3>2, ReadSet
    <3> QED
      BY <1>2, <3>1, <3>3 DEF ReadRef, Legal, ListDoes, SetupTypeOK, Frame
  <2> QED
    BY <1>2, <2>1, <2>2 DEF ReadRef
<1> QED
  BY <1>1, <1>2 DEF ListStep

(* add_workspace, step by step.                                            *)
Keeps(p) ==
    /\ proc'[p].base = proc[p].base /\ proc'[p].empty = proc[p].empty
    /\ proc'[p].registered = proc[p].registered
registry == <<wsRef, record, pointer, folder, locked>>

Refused(p) ==
    /\ proc[p].pc \in {"idle", "base", "lock"} /\ proc'[p].pc = "done"
    /\ proc'[p].result = "error" /\ Keeps(p) /\ UNCHANGED registry
Started(p) ==
    /\ proc[p].pc = "idle" /\ proc'[p].pc = "look"
    /\ ~PathTaken(p) /\ Keeps(p) /\ UNCHANGED registry
Looked(p) ==
    /\ proc[p].pc = "look" /\ proc'[p].pc = "base"
    /\ proc'[p].base = proc[p].base /\ CreateDirAll(proc[p].path)
    /\ proc'[p].empty <=> folder'[proc[p].path] = "empty" /\ pointer[proc[p].path] = Nobody
    /\ UNCHANGED <<wsRef, record, pointer, locked>>
Chosen(p) ==
    /\ proc[p].pc = "base" /\ proc'[p].pc = "lock" /\ proc'[p].base # 0
    /\ proc'[p].empty = proc[p].empty /\ UNCHANGED registry
LockTaken(p) ==
    /\ proc[p].pc = "lock" /\ proc'[p].pc = "ref"
    /\ proc'[p].base = proc[p].base /\ proc'[p].empty = proc[p].empty
    /\ locked[proc[p].name] = Nobody /\ locked' = [locked EXCEPT ![proc[p].name] = p]
    /\ record[proc[p].name] = IF proc'[p].registered THEN proc[p].path ELSE Nobody
    /\ UNCHANGED <<wsRef, record, pointer, folder>>
RefMade(p) ==
    /\ proc[p].pc = "ref" /\ proc'[p].pc = "record" /\ Keeps(p)
    /\ wsRef' = [wsRef EXCEPT ![proc[p].name] = IF @ = 0 THEN proc[p].base ELSE @]
    /\ UNCHANGED <<record, pointer, folder, locked>>
RecordMade(p) ==
    /\ proc[p].pc = "record" /\ proc'[p].pc = "pointer" /\ Keeps(p)
    /\ record' = [record EXCEPT ![proc[p].name] = IF proc[p].registered THEN @ ELSE proc[p].path]
    /\ UNCHANGED <<wsRef, pointer, folder, locked>>
PointerMade(p) ==
    /\ proc[p].pc = "pointer" /\ proc'[p].pc = "checkout" /\ Keeps(p)
    /\ CreateDirAll(proc[p].path)
    /\ pointer' = [pointer EXCEPT ![proc[p].path] = proc[p].name]
    /\ UNCHANGED <<wsRef, record, locked>>
CheckedOut(p) ==
    /\ proc[p].pc = "checkout" /\ proc'[p].pc = "done" /\ Keeps(p)
    /\ IF MustFill(p) /\ folder[proc[p].path] = "absent"
       THEN proc'[p].result = "error" /\ UNCHANGED <<folder, pointer>>
       ELSE proc'[p].result = "ok" /\ Materialize(p)
    /\ locked' = [locked EXCEPT ![proc[p].name] = Nobody]
    /\ UNCHANGED <<wsRef, record>>

AddDoes(p) ==
    \/ Refused(p) \/ Started(p) \/ Looked(p) \/ Chosen(p) \/ LockTaken(p)
    \/ RefMade(p) \/ RecordMade(p) \/ PointerMade(p) \/ CheckedOut(p)

(* The steps of add_workspace leave the parts of the repository alone, and *)
(* of the refs they move that of main only.                                *)
LEMMA AddEffect ==
    ASSUME SetupTypeOK, RefsInv, NEW p \in Procs, AddStep(p)
    PROVE  /\ SetupTypeOK' /\ Legal(p) /\ AddDoes(p)
           /\ proc[p].op = "add"
           /\ Saves /\ UNCHANGED made
<1> USE DEF AtStep
<1>0. /\ proc[p] \in ProcStates /\ proc[p].base \in Nat /\ newest \in Nat \ {0}
      /\ proc[p].op = "add"
      /\ proc[p].name \in WorkspaceIds /\ proc[p].path \in Paths
  BY DEF SetupTypeOK, ProcStates, AddStep, StartAdd, LookAtFolder, ChooseBase, LockRecord,
         EnsureRef, EnsureRecord, WritePointer, CheckoutWorkspace
<1>1. CASE StartAdd(p)
  <2>1. CASE proc' = [Began(p, "done") EXCEPT ![p].result = "error"]
    <3>1. /\ proc' \in [Procs -> ProcStates] /\ Frame(p) /\ proc'[p].after = Ended
          /\ proc'[p].pc = "done" /\ proc'[p].result = "error" /\ Keeps(p)
      BY <2>1, RefuseSet DEF Keeps
    <3> QED
      BY <1>1, <3>1 DEF StartAdd, Legal, AddDoes, Refused, Started, registry, Saves, SetupTypeOK, Frame
  <2>2. CASE proc' = Began(p, "look") /\ ~PathTaken(p)
    <3>1. PICK c \in Counters : c = "look"
      BY DEF Counters
    <3>2. /\ proc' \in [Procs -> ProcStates] /\ Frame(p) /\ proc'[p].after = Ended
          /\ proc'[p].pc = c /\ Keeps(p)
      BY <2>2, <3>1, BeginSet DEF Keeps
    <3> QED
      BY <1>1, <2>2, <3>1, <3>2 DEF StartAdd, Legal, AddDoes, Refused, Started, registry, Saves, SetupTypeOK, Frame
  <2> QED
    BY <1>1, <2>1, <2>2 DEF StartAdd
<1>2. CASE LookAtFolder(p)
  <2>1. PICK e \in BOOLEAN : e <=> folder'[proc[p].path] = "empty" /\ pointer[proc[p].path] = Nobody
    <3>1. CASE folder'[proc[p].path] = "empty" /\ pointer[proc[p].path] = Nobody
      BY <3>1
    <3>2. CASE ~(folder'[proc[p].path] = "empty" /\ pointer[proc[p].path] = Nobody)
      BY <3>2
    <3> QED
      BY <3>1, <3>2
  <2>2. PICK c \in Counters : c = "base"
    BY DEF Counters
  <2>3. proc' = [proc EXCEPT ![p].pc = c, ![p].empty = e]
    BY <1>2, <2>1, <2>2 DEF LookAtFolder
  <2>4. /\ proc' \in [Procs -> ProcStates] /\ Frame(p) /\ proc'[p].after = proc[p].after
        /\ proc'[p].pc = c /\ proc'[p].empty = e /\ proc'[p].base = proc[p].base
    BY <2>3, EmptySet
  <2>5. folder' \in [Paths -> {"absent", "empty", "filled", "user"}]
    BY <1>2 DEF LookAtFolder, CreateDirAll, SetupTypeOK
  <2> QED
    BY <1>2, <2>1, <2>2, <2>4, <2>5
    DEF LookAtFolder, Legal, AddDoes, Looked, Saves, SetupTypeOK, Frame
<1>3. CASE ChooseBase(p)
  <2>1. CASE End(p, "error") /\ UNCHANGED <<newest, heads>>
    <3>1. /\ proc' \in [Procs -> ProcStates] /\ Frame(p) /\ proc'[p].after = proc[p].after
          /\ proc'[p].pc = "done" /\ proc'[p].result = "error" /\ Keeps(p)
      BY <2>1, ResultSet DEF End, Keeps
    <3> QED
      BY <1>3, <2>1, <3>1 DEF ChooseBase, Legal, AddDoes, Refused, Chosen, registry, Saves, SetupTypeOK, Frame
  <2>2. CASE /\ Ref(Main) \in DOMAIN heads /\ SaveCurrent
             /\ proc' = [proc EXCEPT ![p].pc = "lock", ![p].base = heads'[Ref(Main)]]
    <3>1. /\ newest' \in Nat \ {0} /\ Saves
          /\ DOMAIN heads' \subseteq RefFiles /\ heads' \in [DOMAIN heads' -> Nat]
          /\ heads'[Ref(Main)] \in Nat
      BY <2>2, SaveEffect
    <3>2. heads'[Ref(Main)] # 0
      <4>1. heads[Ref(Main)] # 0
        BY <2>2 DEF RefsInv, Ref
      <4>2. CASE heads' = Put(heads, Ref(Main), newest')
        <5>1. heads'[Ref(Main)] = newest'
          BY <4>2 DEF Put
        <5> QED
          BY <3>1, <5>1
      <4> QED
        BY <3>1, <4>1, <4>2 DEF Saves
    <3>3. PICK c \in Counters, b \in Nat : c = "lock" /\ b = heads'[Ref(Main)]
      BY <3>1 DEF Counters
    <3>4. proc' = Based(p, c, b)
      BY <2>2, <3>3 DEF Based
    <3>5. /\ proc' \in [Procs -> ProcStates] /\ Frame(p) /\ proc'[p].after = proc[p].after
          /\ proc'[p].pc = c /\ proc'[p].base = b /\ proc'[p].empty = proc[p].empty
      BY <3>4, BaseSet
    <3> QED
      BY <1>3, <3>1, <3>2, <3>3, <3>5 DEF ChooseBase, Legal, AddDoes, Refused, Chosen, registry, SetupTypeOK, Frame
  <2>3. CASE /\ proc' = [proc EXCEPT ![p].pc = "lock", ![p].base = 1]
             /\ UNCHANGED <<newest, heads>>
    <3>3. PICK c \in Counters, b \in Nat : c = "lock" /\ b = 1
      BY DEF Counters
    <3>4. proc' = Based(p, c, b)
      BY <2>3, <3>3 DEF Based
    <3>5. /\ proc' \in [Procs -> ProcStates] /\ Frame(p) /\ proc'[p].after = proc[p].after
          /\ proc'[p].pc = c /\ proc'[p].base = b /\ proc'[p].empty = proc[p].empty
      BY <3>4, BaseSet
    <3> QED
      BY <1>3, <2>3, <3>3, <3>5 DEF ChooseBase, Legal, AddDoes, Refused, Chosen, registry, Saves, SetupTypeOK, Frame
  <2> QED
    BY <1>3, <2>1, <2>2, <2>3 DEF ChooseBase
<1>4. CASE LockRecord(p)
  <2>1. CASE End(p, "error") /\ UNCHANGED locked
    <3>1. /\ proc' \in [Procs -> ProcStates] /\ Frame(p) /\ proc'[p].after = proc[p].after
          /\ proc'[p].pc = "done" /\ proc'[p].result = "error" /\ Keeps(p)
      BY <2>1, ResultSet DEF End, Keeps
    <3> QED
      BY <1>4, <2>1, <3>1 DEF LockRecord, Legal, AddDoes, Refused, LockTaken, registry, Saves, SetupTypeOK, Frame
  <2>2. CASE /\ record[proc[p].name] \in {Nobody, proc[p].path}
             /\ locked' = [locked EXCEPT ![proc[p].name] = p]
             /\ proc' = [proc EXCEPT ![p].pc = "ref",
                                     ![p].registered = record[proc[p].name] # Nobody]
    <3>1. PICK g \in BOOLEAN : g <=> record[proc[p].name] # Nobody
      <4>1. CASE record[proc[p].name] # Nobody
        BY <4>1
      <4>2. CASE record[proc[p].name] = Nobody
        BY <4>2
      <4> QED
        BY <4>1, <4>2
    <3>2. PICK c \in Counters : c = "ref"
      BY DEF Counters
    <3>3. proc' = [proc EXCEPT ![p].pc = c, ![p].registered = g]
      BY <2>2, <3>1, <3>2
    <3>4. /\ proc' \in [Procs -> ProcStates] /\ Frame(p) /\ proc'[p].after = proc[p].after
          /\ proc'[p].pc = c /\ proc'[p].registered = g
          /\ proc'[p].base = proc[p].base /\ proc'[p].empty = proc[p].empty
      BY <3>3, RegisteredSet
    <3>5. /\ locked[proc[p].name] = Nobody
          /\ record[proc[p].name] = IF proc'[p].registered THEN proc[p].path ELSE Nobody
          /\ locked' \in [WorkspaceIds -> Procs \cup {Nobody}]
      BY <1>4, <2>2, <3>1, <3>4 DEF LockRecord, SetupTypeOK
    <3> QED
      BY <1>4, <2>2, <3>2, <3>4, <3>5 DEF LockRecord, Legal, AddDoes, Refused, LockTaken, Saves, SetupTypeOK, Frame
  <2> QED
    BY <1>4, <2>1, <2>2 DEF LockRecord
<1>5. CASE EnsureRef(p)
  <2>1. /\ proc' \in [Procs -> ProcStates] /\ Frame(p) /\ proc'[p].after = proc[p].after
        /\ proc'[p].pc = "record" /\ Keeps(p)
    BY <1>5, PcSet DEF EnsureRef, Go, Counters, Keeps
  <2>2. wsRef' \in [WorkspaceIds -> Nat]
    BY <1>0, <1>5 DEF EnsureRef, SetupTypeOK
  <2> QED
    BY <1>5, <2>1, <2>2 DEF EnsureRef, Legal, AddDoes, RefMade, Saves, SetupTypeOK, Frame
<1>6. CASE EnsureRecord(p)
  <2>1. /\ proc' \in [Procs -> ProcStates] /\ Frame(p) /\ proc'[p].after = proc[p].after
        /\ proc'[p].pc = "pointer" /\ Keeps(p)
    BY <1>6, PcSet DEF EnsureRecord, Go, Counters, Keeps
  <2>2. record' \in [WorkspaceIds -> Paths \cup {Nobody}]
    BY <1>0, <1>6 DEF EnsureRecord, SetupTypeOK
  <2> QED
    BY <1>6, <2>1, <2>2 DEF EnsureRecord, Legal, AddDoes, RecordMade, Saves, SetupTypeOK, Frame
<1>7. CASE WritePointer(p)
  <2>1. /\ proc' \in [Procs -> ProcStates] /\ Frame(p) /\ proc'[p].after = proc[p].after
        /\ proc'[p].pc = "checkout" /\ Keeps(p)
    BY <1>7, PcSet DEF WritePointer, Go, Counters, Keeps
  <2>2. pointer' \in [Paths -> WorkspaceIds \cup {Nobody}]
    BY <1>0, <1>7 DEF WritePointer, SetupTypeOK
  <2>3. folder' \in [Paths -> {"absent", "empty", "filled", "user"}]
    BY <1>7 DEF WritePointer, CreateDirAll, SetupTypeOK
  <2> QED
    BY <1>7, <2>1, <2>2, <2>3 DEF WritePointer, Legal, AddDoes, PointerMade, Saves, SetupTypeOK, Frame
<1>8. CASE CheckoutWorkspace(p)
  <2>1. PICK r \in {"ok", "error"} :
            /\ End(p, r)
            /\ IF MustFill(p) /\ folder[proc[p].path] = "absent"
               THEN r = "error" /\ UNCHANGED <<folder, pointer>>
               ELSE r = "ok" /\ Materialize(p)
    BY <1>8 DEF CheckoutWorkspace
  <2>2. /\ proc' \in [Procs -> ProcStates] /\ Frame(p) /\ proc'[p].after = proc[p].after
        /\ proc'[p].pc = "done" /\ proc'[p].result = r /\ Keeps(p)
    BY <2>1, ResultSet DEF End, Keeps
  <2>3. /\ folder' \in [Paths -> {"absent", "empty", "filled", "user"}]
        /\ pointer' \in [Paths -> WorkspaceIds \cup {Nobody}]
        /\ locked' \in [WorkspaceIds -> Procs \cup {Nobody}]
    BY <1>8, <2>1 DEF CheckoutWorkspace, Materialize, SetupTypeOK
  <2> QED
    BY <1>8, <2>1, <2>2, <2>3 DEF CheckoutWorkspace, Legal, AddDoes, CheckedOut, Saves, SetupTypeOK, Frame
<1> QED
  BY <1>1, <1>2, <1>3, <1>4, <1>5, <1>6, <1>7, <1>8 DEF AddStep

(* A crash leaves what is on disk, and drops the locks.                    *)
LEMMA CrashEffect ==
    ASSUME SetupTypeOK, NEW p \in Procs, CrashSetup(p)
    PROVE  /\ SetupTypeOK' /\ Legal(p) /\ Keeps(p)
           /\ proc[p].pc # "idle" /\ proc'[p].pc = "crashed"
           /\ proc'[p].todo = proc[p].todo /\ proc'[p].listed = proc[p].listed
           /\ locked' = [i \in WorkspaceIds |-> IF locked[i] = p THEN Nobody ELSE locked[i]]
           /\ UNCHANGED <<made, newest, heads, wsRef, record, pointer, folder>>
<1>1. /\ proc' \in [Procs -> ProcStates] /\ Frame(p) /\ proc'[p].after = proc[p].after
      /\ proc'[p].pc = "crashed" /\ Keeps(p)
      /\ proc'[p].todo = proc[p].todo /\ proc'[p].listed = proc[p].listed
  BY PcSet DEF CrashSetup, Go, Counters, Keeps
<1>2. locked' \in [WorkspaceIds -> Procs \cup {Nobody}]
  BY DEF CrashSetup, SetupTypeOK
<1> QED
  BY <1>1, <1>2 DEF CrashSetup, Legal, SetupTypeOK, Frame

(* Work in a directory.                                                    *)
LEMMA WorkEffect ==
    ASSUME SetupTypeOK, NEW d \in Paths, WorkInFolder(d)
    PROVE  /\ SetupTypeOK'
           /\ folder[d] # "absent" /\ folder' = [folder EXCEPT ![d] = "user"]
           /\ \A i \in WorkspaceIds : wsRef[i] # 0 => wsRef'[i] # 0
           /\ UNCHANGED <<made, heads, record, pointer, locked, proc>>
<1>1. newest' \in Nat \ {0} /\ wsRef' \in [WorkspaceIds -> Nat]
  BY DEF WorkInFolder, SetupTypeOK
<1>2. folder' \in [Paths -> {"absent", "empty", "filled", "user"}]
  BY DEF WorkInFolder, SetupTypeOK
<1>3. \A i \in WorkspaceIds : wsRef[i] # 0 => wsRef'[i] # 0
  BY <1>1 DEF WorkInFolder, SetupTypeOK
<1> QED
  BY <1>1, <1>2, <1>3 DEF WorkInFolder, SetupTypeOK

-----------------------------------------------------------------------------
(* The order of the processes.                                             *)

(* What holds on goes on: what a process is, that it has begun, what had   *)
(* ended then, and that it crashed.                                        *)
Lasting ==
    /\ \A a \in Procs :
          /\ proc'[a].op = proc[a].op /\ proc'[a].name = proc[a].name
          /\ proc'[a].path = proc[a].path
          /\ proc[a].pc # "idle" => proc'[a].pc # "idle" /\ proc'[a].after = proc[a].after
          /\ proc[a].pc = "crashed" => proc'[a].pc = "crashed"
    /\ \A a, b \in Procs : Together(a, b) => Together(a, b)'
    /\ \A d : CrashedAt(d) => CrashedAt(d)'
    /\ \A a \in Procs : Disturbed(a) => Disturbed(a)'

(* No step undoes that, and what had ended when a process began has ended. *)
LEMMA LastingStep ==
    ASSUME SetupTypeOK, AfterInv, NEW p \in Procs, Legal(p)
    PROVE  AfterInv' /\ Lasting
<1>1. \A a \in Procs :
          /\ proc'[a].op = proc[a].op /\ proc'[a].name = proc[a].name
          /\ proc'[a].path = proc[a].path
          /\ proc[a].pc # "idle" => proc'[a].pc # "idle" /\ proc'[a].after = proc[a].after
          /\ proc[a].pc \in {"done", "crashed"} => proc'[a].pc = proc[a].pc
  BY DEF Legal, Frame
<1>2. \A a, b \in Procs : Together(a, b) => Together(a, b)'
  BY <1>1 DEF Together
<1>3. \A d : CrashedAt(d) => CrashedAt(d)'
  BY <1>1 DEF CrashedAt, Crashed
<1>4. \A a \in Procs : Disturbed(a) => Disturbed(a)'
  <2> SUFFICES ASSUME NEW a \in Procs, Disturbed(a) PROVE Disturbed(a)'
    OBVIOUS
  <2>1. CASE CrashedAt(proc[a].path)
    <3>1. PICK d : d = proc[a].path
      OBVIOUS
    <3>2. CrashedAt(d)' /\ proc'[a].path = d
      BY <1>1, <1>3, <2>1, <3>1
    <3> QED
      BY <3>2 DEF Disturbed, CrashedAt
  <2>2. CASE ~CrashedAt(proc[a].path)
    BY <1>1, <1>2, <2>2 DEF Disturbed
  <2> QED
    BY <2>1, <2>2
<1>5. AfterInv'
  <2>1. Ended \subseteq Ended'
    BY <1>1 DEF Ended
  <2>2. \A a \in Procs : proc'[a].after = proc[a].after \/ proc'[a].after = Ended
    BY DEF Legal, Frame
  <2> QED
    BY <2>1, <2>2 DEF AfterInv
<1> QED
  BY <1>1, <1>2, <1>3, <1>4, <1>5 DEF Lasting

-----------------------------------------------------------------------------
(* init.                                                                   *)

(* The parts are made in their order.                                      *)
LEMMA PartsStep ==
    ASSUME SetupTypeOK, PartsInv, NEW p \in Procs, Legal(p),
           \/ proc[p].op = "init" /\ InitDoes(p)
           \/ /\ UNCHANGED made
              /\ proc[p].op # "init" \/ proc'[p].pc \in {"done", "crashed"}
    PROVE  PartsInv'
<1>1. \A q \in Procs : q # p => proc'[q] = proc[q]
  BY DEF Legal, Frame
<1>2. proc'[p].op = proc[p].op
  BY DEF Legal, Frame
<1>3. made \subseteq made'
  BY DEF InitDoes
<1> SUFFICES ASSUME NEW q \in Procs, proc'[q].op = "init"
             PROVE  LET upTo(pcs) == proc'[q].pc \in pcs \cup {"temp", "write", "rename"}
                    IN /\ upTo({"layout", "snapshot", "index", "HEAD"}) => "dir" \in made'
                       /\ upTo({"snapshot", "index", "HEAD"}) => "layout" \in made'
                       /\ upTo({"index", "HEAD"}) => "snapshot" \in made'
                       /\ upTo({"HEAD"}) => "index" \in made'
                       /\ upTo({}) => "HEAD" \in made'
  BY DEF PartsInv
<1>4. CASE q # p
  BY <1>1, <1>3, <1>4 DEF PartsInv
<1>5. CASE q = p /\ proc'[p].pc \in {"done", "crashed", "create"}
  BY <1>5
<1>6. CASE /\ q = p /\ proc[p].op = "init" /\ InitDoes(p)
           /\ proc'[p].pc \notin {"done", "crashed", "create"}
  BY <1>3, <1>6 DEF PartsInv, InitDoes, NextPart
<1> QED
  BY <1>2, <1>4, <1>5, <1>6

-----------------------------------------------------------------------------
(* Refs and branches.                                                      *)

(* A step of a process, by the operation the process runs.                 *)
Does(p) ==
    \/ proc[p].op = "init" /\ InitDoes(p)
    \/ proc[p].op = "branch" /\ BranchDoes(p) /\ UNCHANGED made
    \/ proc[p].op \in {"list", "add"} /\ Saves /\ UNCHANGED made
    \/ proc'[p].pc = "crashed" /\ proc[p].pc # "idle" /\ UNCHANGED <<made, heads>>

(* The names of files do not change, and say whose they are.               *)
LEMMA Names ==
    ASSUME SetupTypeOK, NEW p \in Procs, Legal(p)
    PROVE  /\ \A q \in Procs : Temp(q)' = Temp(q) /\ Temp(q).temp = q /\ q # Nobody
           /\ \A n, m : /\ Ref(n).temp = Nobody /\ Ref(n).name = n
                        /\ Ref(n) = Ref(m) => n = m
           /\ \A n : \A q \in Procs : Ref(n) # Temp(q)
           /\ \A q, s \in Procs : q # s => Temp(q) # Temp(s)
           /\ \A r \in DOMAIN heads : r.temp = Nobody => r = Ref(r.name)
<1>1. \A q \in Procs : Temp(q)' = Temp(q)
  BY DEF Temp, Legal, Frame
<1>2. \A r \in DOMAIN heads : r.temp = Nobody => r = Ref(r.name)
  BY DEF SetupTypeOK, RefFiles, Ref
<1>3. \A q \in Procs : Temp(q).temp = q /\ q # Nobody
  BY ProcsAssumption DEF Temp
<1>4. \A n, m : Ref(n).temp = Nobody /\ Ref(n).name = n /\ (Ref(n) = Ref(m) => n = m)
  BY DEF Ref
<1> QED
  BY <1>1, <1>2, <1>3, <1>4

(* What RefsInv says of the files and of the processes.                    *)
FilesOK(h) ==
    \A r \in DOMAIN h :
        IF r.temp = Nobody THEN h[r] # 0
        ELSE /\ r = Temp(r.temp)
             /\ proc[r.temp].op \in {"init", "branch"}
             /\ proc[r.temp].pc \in {"write", "rename", "link", "remove", "crashed"}

WriterOK(q) ==
    proc[q].op \in {"init", "branch"} =>
        /\ proc[q].pc \in {"temp", "write", "rename", "link"} => proc[q].base # 0
        /\ proc[q].pc \in {"rename", "link"} =>
              Temp(q) \in DOMAIN heads /\ heads[Temp(q)] = proc[q].base
        /\ proc[q].op = "branch" /\ proc[q].pc \in {"temp", "write", "link"} =>
              Ref(Main) \in DOMAIN heads

(* Each writes its own file, then gives it its name.                       *)
LEMMA RefsStep ==
    ASSUME SetupTypeOK, PartsInv, RefsInv, NEW p \in Procs, Legal(p), Does(p)
    PROVE  RefsInv'
<1> DEFINE t == Temp(p)
           m == Ref(Main)
<1>1. /\ \A q \in Procs : q # p => proc'[q] = proc[q]
      /\ proc'[p].op = proc[p].op /\ proc'[p].name = proc[p].name
      /\ newest \in Nat \ {0} /\ DOMAIN heads \subseteq RefFiles
      /\ \A r \in DOMAIN heads : r.temp \in Procs \cup {Nobody}
  BY DEF Legal, Frame, SetupTypeOK, RefFiles
<1>2. /\ \A q \in Procs : Temp(q)' = Temp(q) /\ Temp(q).temp = q /\ q # Nobody
      /\ \A n, k : /\ Ref(n).temp = Nobody /\ Ref(n).name = n
                   /\ Ref(n) = Ref(k) => n = k
      /\ \A n : \A q \in Procs : Ref(n) # Temp(q)
      /\ \A q, s \in Procs : q # s => Temp(q) # Temp(s)
  BY Names
<1>3. FilesOK(heads) /\ \A q \in Procs : WriterOK(q)
  BY DEF RefsInv, FilesOK, WriterOK
<1>4. made \subseteq made'
  BY DEF Does, InitDoes
<1>5. SUFFICES /\ m \in DOMAIN heads' => Complete \subseteq made'
               /\ FilesOK(heads)'
               /\ \A q \in Procs : WriterOK(q)'
  BY DEF RefsInv, RefMeansComplete, FilesOK, WriterOK
<1>6. ASSUME m \in DOMAIN heads PROVE Complete \subseteq made'
  BY <1>4, <1>6 DEF RefsInv, RefMeansComplete
<1> DEFINE Quiet ==
             /\ UNCHANGED heads
             /\ \/ proc[p].op \in {"list", "add"}
                \/ /\ proc'[p].pc \notin {"write", "rename", "link"}
                   /\ proc'[p].pc = "temp" => proc[p].op = "init" /\ proc'[p].base # 0
                   /\ proc[p].pc \in {"write", "rename", "link", "remove"} =>
                         proc'[p].pc \in {"remove", "crashed"}
           Save == Ref(Main) \in DOMAIN heads /\ heads' = Put(heads, m, newest') /\ newest' = newest + 1
<1>7. CASE Quiet
  <2>1. FilesOK(heads)'
    <3> SUFFICES ASSUME NEW r \in DOMAIN heads, r.temp # Nobody
                 PROVE  /\ r = Temp(r.temp)'
                        /\ proc'[r.temp].op \in {"init", "branch"}
                        /\ proc'[r.temp].pc \in {"write", "rename", "link", "remove", "crashed"}
      BY <1>3, <1>7 DEF FilesOK
    <3>1. /\ r = Temp(r.temp) /\ r.temp \in Procs
          /\ proc[r.temp].op \in {"init", "branch"}
          /\ proc[r.temp].pc \in {"write", "rename", "link", "remove", "crashed"}
      BY <1>1, <1>3 DEF FilesOK
    <3>2. r = Temp(r.temp)'
      BY <1>2, <3>1
    <3>3. CASE r.temp = p
      BY <1>1, <1>7, <3>1, <3>2, <3>3 DEF Legal
    <3>4. CASE r.temp # p
      BY <1>1, <3>1, <3>2, <3>4
    <3> QED
      BY <3>3, <3>4
  <2>2. \A q \in Procs : WriterOK(q)'
    BY <1>1, <1>2, <1>3, <1>7 DEF WriterOK
  <2> QED
    BY <1>6, <1>7, <2>1, <2>2
<1>8. CASE Save /\ (proc[p].op = "add" \/ proc[p].op = "list")
  <2>1. /\ DOMAIN heads' = DOMAIN heads /\ heads'[m] # 0
        /\ \A r \in DOMAIN heads : r # m => heads'[r] = heads[r]
    BY <1>1, <1>8 DEF Put
  <2>2. FilesOK(heads)'
    BY <1>1, <1>2, <1>3, <1>8, <2>1 DEF FilesOK
  <2>3. \A q \in Procs : WriterOK(q)'
    BY <1>1, <1>2, <1>3, <1>8, <2>1 DEF WriterOK
  <2> QED
    BY <1>6, <2>1, <2>2, <2>3
<1>9. CASE /\ proc[p].op = "branch" /\ proc[p].pc = "save" /\ proc'[p].pc = "temp"
           /\ m \in DOMAIN heads /\ Saves /\ proc'[p].base = heads'[m]
  <2>1. /\ DOMAIN heads' = DOMAIN heads /\ heads'[m] # 0
        /\ \A r \in DOMAIN heads : r # m => heads'[r] = heads[r]
    <3>1. CASE UNCHANGED <<newest, heads>>
      <4>1. m.temp = Nobody
        BY <1>2
      <4>2. heads[m] # 0
        BY <1>3, <1>9, <4>1 DEF FilesOK
      <4> QED
        BY <3>1, <4>2
    <3>2. CASE heads' = Put(heads, m, newest') /\ newest' = newest + 1
      <4>1. newest' # 0
        BY <1>1, <3>2
      <4> QED
        BY <1>9, <3>2, <4>1 DEF Put
    <3> QED
      BY <1>9, <3>1, <3>2 DEF Saves
  <2>2. FilesOK(heads)'
    BY <1>1, <1>2, <1>3, <1>9, <2>1 DEF FilesOK
  <2>3. \A q \in Procs : WriterOK(q)'
    BY <1>1, <1>2, <1>3, <1>9, <2>1 DEF WriterOK
  <2> QED
    BY <1>6, <2>1, <2>2, <2>3
<1>10. CASE /\ proc[p].op \in {"init", "branch"} /\ proc'[p].base = proc[p].base
            /\ \/ /\ proc[p].pc = "temp" /\ proc'[p].pc = "write"
                  /\ heads' = Put(heads, t, 0)
               \/ /\ proc[p].pc = "write"
                  /\ proc'[p].pc = IF proc[p].op = "init" THEN "rename" ELSE "link"
                  /\ heads' = Put(heads, t, proc[p].base)
  <2>1. /\ DOMAIN heads' = DOMAIN heads \cup {t}
        /\ \A r \in DOMAIN heads : r # t => heads'[r] = heads[r]
        /\ proc'[p].pc # "write" => heads'[t] = proc[p].base
    BY <1>10 DEF Put
  <2>2. FilesOK(heads)'
    BY <1>1, <1>2, <1>3, <1>10, <2>1 DEF FilesOK
  <2>3. \A q \in Procs : WriterOK(q)'
    BY <1>1, <1>2, <1>3, <1>10, <2>1 DEF WriterOK
  <2>4. m \in DOMAIN heads' => m \in DOMAIN heads
    BY <1>2, <2>1
  <2> QED
    BY <1>6, <2>2, <2>3, <2>4
<1>11. CASE /\ proc[p].op = "init" /\ proc[p].pc = "rename" /\ proc'[p].pc = "done"
            /\ heads' = Put(Drop(heads, t), Ref(proc[p].name), heads[t])
  <2>1. Ref(proc[p].name) = m
    BY <1>11 DEF SetupTypeOK
  <2>2. heads[t] # 0
    BY <1>3, <1>11 DEF WriterOK
  <2>3. /\ DOMAIN heads' = (DOMAIN heads \ {t}) \cup {m}
        /\ \A r \in DOMAIN heads : r # t /\ r # m => heads'[r] = heads[r]
        /\ heads'[m] = heads[t]
    BY <1>11, <2>1 DEF Put, Drop
  <2>4. FilesOK(heads)'
    BY <1>1, <1>2, <1>3, <1>11, <2>2, <2>3 DEF FilesOK
  <2>5. \A q \in Procs : WriterOK(q)'
    BY <1>1, <1>2, <1>3, <1>11, <2>3 DEF WriterOK
  <2>6. Complete \subseteq made
    BY <1>11 DEF PartsInv, Complete
  <2> QED
    BY <1>4, <2>4, <2>5, <2>6
<1>12. CASE /\ proc[p].op = "branch" /\ proc[p].pc = "link" /\ proc'[p].pc = "remove"
            /\ Ref(proc[p].name) \notin DOMAIN heads
            /\ heads' = Put(heads, Ref(proc[p].name), heads[t])
  <2>1. heads[t] # 0 /\ m \in DOMAIN heads
    BY <1>3, <1>12 DEF WriterOK
  <2>2. /\ DOMAIN heads' = DOMAIN heads \cup {Ref(proc[p].name)}
        /\ \A r \in DOMAIN heads : heads'[r] = heads[r]
        /\ heads'[Ref(proc[p].name)] = heads[t]
    BY <1>12 DEF Put
  <2>3. FilesOK(heads)'
    BY <1>1, <1>2, <1>3, <1>12, <2>1, <2>2 DEF FilesOK
  <2>4. \A q \in Procs : WriterOK(q)'
    BY <1>1, <1>2, <1>3, <1>12, <2>2 DEF WriterOK
  <2> QED
    BY <1>6, <2>1, <2>3, <2>4
<1>13. CASE /\ proc[p].op = "branch" /\ proc[p].pc = "remove" /\ proc'[p].pc = "done"
            /\ heads' = Drop(heads, t)
  <2>1. /\ DOMAIN heads' = DOMAIN heads \ {t}
        /\ \A r \in DOMAIN heads : r # t => heads'[r] = heads[r]
    BY <1>13 DEF Drop
  <2>2. FilesOK(heads)'
    BY <1>1, <1>2, <1>3, <1>13, <2>1 DEF FilesOK
  <2>3. \A q \in Procs : WriterOK(q)'
    BY <1>1, <1>2, <1>3, <1>13, <2>1 DEF WriterOK
  <2> QED
    BY <1>6, <2>1, <2>2, <2>3
<1>14. CASE proc[p].op = "init" /\ InitDoes(p)
  <2>1. ASSUME NEW part \in {"layout", "snapshot", "index", "HEAD"},
               proc[p].pc = part, proc'[p].pc = NextPart[part], proc'[p].base = newest,
               UNCHANGED heads
        PROVE  Quiet
    BY <1>1, <1>14, <2>1 DEF NextPart
  <2> QED
    BY <1>7, <1>10, <1>11, <1>14, <2>1 DEF InitDoes
<1>15. CASE proc[p].op = "branch" /\ BranchDoes(p)
  BY <1>7, <1>9, <1>10, <1>12, <1>13, <1>15 DEF BranchDoes
<1>16. CASE proc[p].op \in {"list", "add"} /\ Saves
  BY <1>7, <1>8, <1>16 DEF Saves
<1>17. CASE proc'[p].pc = "crashed" /\ UNCHANGED heads
  BY <1>7, <1>17
<1> QED
  BY <1>14, <1>15, <1>16, <1>17 DEF Does

(* The ref of a branch other than main is not written again.               *)
LEMMA RefKept ==
    ASSUME SetupTypeOK, RefsInv, NEW p \in Procs, Legal(p), Does(p),
           NEW n, n # Main, Ref(n) \in DOMAIN heads
    PROVE  Ref(n) \in DOMAIN heads' /\ heads'[Ref(n)] = heads[Ref(n)]
<1> DEFINE k == Ref(n)
           t == Temp(p)
           m == Ref(Main)
<1>1. k # t /\ k # m
  BY Names
<1>2. CASE UNCHANGED heads
  BY <1>2
<1>3. ASSUME NEW v, heads' = Put(heads, m, v) \/ heads' = Put(heads, t, v)
      PROVE  k \in DOMAIN heads' /\ heads'[k] = heads[k]
  BY <1>1, <1>3 DEF Put
<1>4. CASE /\ proc[p].op = "init"
           /\ heads' = Put(Drop(heads, t), Ref(proc[p].name), heads[t])
  <2>1. Ref(proc[p].name) = m
    BY <1>4 DEF SetupTypeOK
  <2> QED
    BY <1>1, <1>4, <2>1 DEF Put, Drop
<1>5. CASE /\ Ref(proc[p].name) \notin DOMAIN heads
           /\ heads' = Put(heads, Ref(proc[p].name), heads[t])
  BY <1>5 DEF Put
<1>6. CASE heads' = Drop(heads, t)
  BY <1>1, <1>6 DEF Drop
<1>7. CASE proc[p].op = "init" /\ InitDoes(p)
  BY <1>2, <1>3, <1>4, <1>7 DEF InitDoes
<1>8. CASE Saves
  BY <1>2, <1>3, <1>8 DEF Saves
<1>9. CASE proc[p].op = "branch" /\ BranchDoes(p)
  BY <1>2, <1>3, <1>5, <1>6, <1>8, <1>9 DEF BranchDoes
<1> QED
  BY <1>2, <1>7, <1>8, <1>9 DEF Does

(* Whoever links the ref is its only creator.                              *)
LEMMA BranchInvStep ==
    ASSUME SetupTypeOK, RefsInv, BranchInv, NEW p \in Procs, Legal(p), Does(p)
    PROVE  BranchInv'
<1> DEFINE Good(q) == /\ proc[q].name # Main
                      /\ Ref(proc[q].name) \in DOMAIN heads
                      /\ heads[Ref(proc[q].name)] = proc[q].base
<1>1. /\ \A q \in Procs : q # p => proc'[q] = proc[q]
      /\ proc'[p].op = proc[p].op /\ \A q \in Procs : proc'[q].name = proc[q].name
  BY DEF Legal, Frame
<1>2. ASSUME NEW q \in Procs, q # p
      PROVE  (Created(q)' <=> Created(q)) /\ (Created(q) => Good(q)')
  <2>1. Created(q)' <=> Created(q)
    BY <1>1, <1>2 DEF Created, AtStep
  <2>2. ASSUME Created(q) PROVE Good(q)'
    <3>1. PICK n : n = proc[q].name
      OBVIOUS
    <3>2. n # Main /\ Ref(n) \in DOMAIN heads /\ heads[Ref(n)] = proc[q].base
      BY <2>2, <3>1 DEF BranchInv
    <3>3. Ref(n) \in DOMAIN heads' /\ heads'[Ref(n)] = heads[Ref(n)]
      BY <3>2, RefKept
    <3>4. proc'[q].name = n /\ proc'[q].base = proc[q].base
      BY <1>1, <1>2, <3>1
    <3> QED
      BY <3>2, <3>3, <3>4 DEF Ref
  <2> QED
    BY <2>1, <2>2
<1>3. CASE ~Created(p)'
  BY <1>1, <1>2, <1>3 DEF BranchInv, Ref
<1>4. CASE Created(p) /\ proc'[p].base = proc[p].base
  <2>1. Good(p)'
    <3>1. PICK n : n = proc[p].name
      OBVIOUS
    <3>2. n # Main /\ Ref(n) \in DOMAIN heads /\ heads[Ref(n)] = proc[p].base
      BY <1>4, <3>1 DEF BranchInv
    <3>3. Ref(n) \in DOMAIN heads' /\ heads'[Ref(n)] = heads[Ref(n)]
      BY <3>2, RefKept
    <3>4. proc'[p].name = n
      BY <1>1, <3>1
    <3> QED
      BY <1>4, <3>2, <3>3, <3>4 DEF Ref
  <2> QED
    BY <1>1, <1>2, <1>4, <2>1 DEF BranchInv, Ref
<1>5. CASE /\ proc[p].op = "branch" /\ proc[p].pc = "link" /\ proc'[p].base = proc[p].base
           /\ Ref(proc[p].name) \notin DOMAIN heads
           /\ heads' = Put(heads, Ref(proc[p].name), heads[Temp(p)])
  <2>1. proc[p].name # Main /\ heads[Temp(p)] = proc[p].base
    BY <1>5 DEF RefsInv
  <2>2. Good(p)'
    BY <1>1, <1>5, <2>1 DEF Put, Ref
  <2>3. \A q \in Procs : Created(q) => proc[q].name # proc[p].name
    BY <1>5 DEF BranchInv
  <2> QED
    BY <1>1, <1>2, <2>2, <2>3 DEF BranchInv, Ref
<1>6. CASE proc[p].op = "branch" /\ BranchDoes(p)
  BY <1>1, <1>3, <1>4, <1>5, <1>6 DEF BranchDoes, Created, AtStep
<1>7. CASE proc[p].op # "branch" \/ proc'[p].pc = "crashed"
  BY <1>1, <1>3, <1>7 DEF Created, AtStep
<1> QED
  BY <1>6, <1>7 DEF Does

-----------------------------------------------------------------------------
(* Listings.                                                               *)

(* A listing finds the temporary files of processes that are running, and  *)
(* those of crashed ones.                                                  *)
LEMMA ListInvStep ==
    ASSUME SetupTypeOK, AfterInv, RefsInv, ListInv, NEW p \in Procs, Legal(p), Lasting,
           \/ proc[p].op # "list"
           \/ ListDoes(p)
           \/ proc'[p].todo = proc[p].todo /\ proc'[p].listed = proc[p].listed
    PROVE  ListInv'
<1> DEFINE Met(a, r) == /\ proc[r.temp].op # "list" /\ proc[r.temp].pc # "idle"
                        /\ proc[r.temp].pc = "crashed" \/ Together(a, r.temp)
<1>1. /\ \A q \in Procs : q # p => proc'[q] = proc[q]
      /\ proc'[p].op = proc[p].op
      /\ \A r \in DOMAIN heads : r.temp \in Procs \cup {Nobody}
      /\ \A q \in Procs : \A r \in proc[q].todo \cup proc[q].listed : r.temp \in Procs \cup {Nobody}
  BY DEF Legal, Frame, SetupTypeOK, RefFiles, ProcStates
<1>2. ASSUME NEW q \in Procs, proc[q].op = "list",
             NEW r \in proc[q].todo \cup proc[q].listed, r.temp # Nobody
      PROVE  Met(q, r)'
  <2>1. Met(q, r) /\ r.temp \in Procs
    BY <1>1, <1>2 DEF ListInv
  <2> QED
    BY <2>1 DEF Lasting
<1>3. ASSUME proc[p].op = "list", proc[p].pc = "idle", NEW r \in DOMAIN heads, r.temp # Nobody
      PROVE  Met(p, r)'
  <2>1. /\ r.temp \in Procs /\ proc[r.temp].op \in {"init", "branch"} /\ r.temp # p
        /\ proc[r.temp].pc \in {"write", "rename", "link", "remove", "crashed"}
    BY <1>1, <1>3 DEF RefsInv
  <2>2. proc'[r.temp] = proc[r.temp] /\ proc'[p].after = Ended /\ proc'[p].pc # "idle"
    BY <1>1, <1>3, <2>1 DEF Legal
  <2>3. p \notin proc[r.temp].after
    BY <1>3, <2>1 DEF AfterInv, Ended
  <2>4. proc[r.temp].pc # "crashed" => r.temp \notin Ended
    BY <2>1 DEF Ended
  <2> QED
    BY <2>1, <2>2, <2>3, <2>4 DEF Together
<1>4. ASSUME NEW q \in Procs, proc'[q].op = "list",
             NEW r \in proc'[q].todo \cup proc'[q].listed, r.temp # Nobody
      PROVE  Met(q, r)'
  <2>1. CASE q # p
    BY <1>1, <1>2, <1>4, <2>1
  <2>2. CASE q = p /\ r \in proc[p].todo \cup proc[p].listed
    BY <1>1, <1>2, <1>4, <2>2
  <2>3. CASE q = p /\ proc[p].pc = "idle" /\ r \in DOMAIN heads
    BY <1>1, <1>3, <1>4, <2>3
  <2> QED
    BY <1>1, <1>4, <2>1, <2>2, <2>3 DEF ListDoes
<1> QED
  BY <1>4 DEF ListInv

-----------------------------------------------------------------------------
(* Workspaces: the locks and what is registered under them.                *)

(* A step of a process, as the workspaces see it.                          *)
Abandoned(p) ==
    /\ proc'[p].pc = "crashed" /\ Keeps(p)
    /\ locked' = [i \in WorkspaceIds |-> IF locked[i] = p THEN Nobody ELSE locked[i]]
    /\ UNCHANGED <<wsRef, record, pointer, folder>>
Adds(p) ==
    \/ proc[p].op # "add" /\ UNCHANGED registry
    \/ proc[p].op = "add" /\ AddDoes(p)
    \/ proc[p].op = "add" /\ Abandoned(p)

(* What LockedInv says of a process.                                       *)
HolderOK(q) ==
    proc[q].op = "add" =>
        LET id == proc[q].name
            at == proc[q].pc
        IN /\ at \in Holding => locked[id] = q
           /\ at \in {"lock"} \cup Holding => proc[q].base # 0
           /\ at \in {"record", "pointer", "checkout"} => wsRef[id] # 0
           /\ at \in {"ref", "record"} =>
                 record[id] = IF proc[q].registered THEN proc[q].path ELSE Nobody
           /\ at \in {"pointer", "checkout"} => record[id] = proc[q].path

(* One process at a time registers a workspace.                            *)
LEMMA LockedStep ==
    ASSUME SetupTypeOK, LockedInv, NEW p \in Procs, Legal(p), Adds(p)
    PROVE  LockedInv'
<1> DEFINE Owned(i) == locked[i] # Nobody =>
                         /\ proc[locked[i]].op = "add" /\ proc[locked[i]].name = i
                         /\ proc[locked[i]].pc \in Holding
           id == proc[p].name
<1>1. /\ \A q \in Procs : q # p => proc'[q] = proc[q]
      /\ proc'[p].op = proc[p].op /\ proc'[p].name = proc[p].name /\ proc'[p].path = proc[p].path
      /\ \A q \in Procs : q # Nobody
  BY ProcsAssumption DEF Legal, Frame
<1>2. /\ \A i \in WorkspaceIds : Owned(i)
      /\ \A q \in Procs : HolderOK(q)
  BY DEF LockedInv, HolderOK
<1>3. /\ wsRef \in [WorkspaceIds -> Nat] /\ record \in [WorkspaceIds -> Paths \cup {Nobody}]
      /\ locked \in [WorkspaceIds -> Procs \cup {Nobody}]
      /\ \A q \in Procs : proc[q].op = "add" => proc[q].name \in WorkspaceIds
  BY DEF SetupTypeOK
<1>4. SUFFICES /\ \A i \in WorkspaceIds : Owned(i)'
               /\ \A q \in Procs : HolderOK(q)'
  BY DEF LockedInv, HolderOK
<1>5. CASE proc[p].op # "add" /\ UNCHANGED registry
  BY <1>1, <1>2, <1>3, <1>5 DEF HolderOK, registry
<1>6. CASE proc[p].op = "add" /\ (Refused(p) \/ Started(p) \/ Looked(p) \/ Chosen(p))
  BY <1>1, <1>2, <1>3, <1>6 DEF HolderOK, registry, Refused, Started, Looked, Chosen, Keeps, Holding
<1>7. CASE proc[p].op = "add" /\ LockTaken(p)
  <2>1. /\ locked'[id] = p /\ \A i \in WorkspaceIds : i # id => locked'[i] = locked[i]
        /\ locked[id] = Nobody
    BY <1>3, <1>7 DEF LockTaken
  <2>2. \A q \in Procs : q # p => HolderOK(q)'
    BY <1>1, <1>2, <1>3, <1>7, <2>1 DEF HolderOK, LockTaken, Holding
  <2> QED
    BY <1>1, <1>2, <1>3, <1>7, <2>1, <2>2 DEF HolderOK, LockTaken, Holding
<1>8. CASE proc[p].op = "add" /\ RefMade(p)
  BY <1>1, <1>2, <1>3, <1>8 DEF HolderOK, RefMade, Keeps, Holding
<1>9. CASE proc[p].op = "add" /\ RecordMade(p)
  <2>1. /\ record'[id] = proc[p].path /\ \A i \in WorkspaceIds : i # id => record'[i] = record[i]
        /\ locked[id] = p
    BY <1>2, <1>3, <1>9 DEF RecordMade, HolderOK, Holding
  <2>2. \A q \in Procs : q # p => HolderOK(q)'
    BY <1>1, <1>2, <1>3, <1>9, <2>1 DEF HolderOK, RecordMade, Holding
  <2> QED
    BY <1>1, <1>2, <1>3, <1>9, <2>1, <2>2 DEF HolderOK, RecordMade, Keeps, Holding
<1>10. CASE proc[p].op = "add" /\ PointerMade(p)
  BY <1>1, <1>2, <1>3, <1>10 DEF HolderOK, PointerMade, Keeps, Holding
<1>11. CASE proc[p].op = "add" /\ CheckedOut(p)
  <2>1. /\ locked'[id] = Nobody /\ \A i \in WorkspaceIds : i # id => locked'[i] = locked[i]
        /\ locked[id] = p
    BY <1>2, <1>3, <1>11 DEF CheckedOut, HolderOK, Holding
  <2> QED
    BY <1>1, <1>2, <1>3, <1>11, <2>1 DEF HolderOK, CheckedOut, Keeps, Holding
<1>12. CASE proc[p].op = "add" /\ Abandoned(p)
  BY <1>1, <1>2, <1>3, <1>12 DEF HolderOK, Abandoned, Keeps, Holding
<1> QED
  BY <1>5, <1>6, <1>7, <1>8, <1>9, <1>10, <1>11, <1>12 DEF Adds, AddDoes

(* A record is written once, with the path of the process that writes it.  *)
LEMMA RecordsGrow ==
    ASSUME SetupTypeOK, LockedInv, NEW p \in Procs, Adds(p)
    PROVE  /\ \A i \in WorkspaceIds :
                 \/ record'[i] = record[i]
                 \/ /\ record[i] = Nobody /\ record'[i] = proc[p].path
                    /\ proc[p].op = "add" /\ proc[p].name = i /\ RecordMade(p)
           /\ \A i \in WorkspaceIds : wsRef[i] # 0 => wsRef'[i] # 0
<1>1. CASE proc[p].op = "add" /\ RecordMade(p)
  <2>1. /\ proc[p].name \in WorkspaceIds
        /\ record[proc[p].name] = IF proc[p].registered THEN proc[p].path ELSE Nobody
    BY <1>1 DEF LockedInv, RecordMade, SetupTypeOK
  <2> QED
    BY <1>1, <2>1 DEF RecordMade, SetupTypeOK
<1>2. CASE proc[p].op = "add" /\ RefMade(p)
  BY <1>2 DEF RefMade, SetupTypeOK
<1>3. CASE UNCHANGED <<wsRef, record>>
  BY <1>3
<1> QED
  BY <1>1, <1>2, <1>3
  DEF Adds, AddDoes, registry, Abandoned, Refused, Started, Looked, Chosen, LockTaken,
      PointerMade, CheckedOut

(* Who takes a path that was free when an add began has not ended then.    *)
LEMMA TakenStep ==
    ASSUME SetupTypeOK, LockedInv, TakenInv, NEW p \in Procs, Legal(p), Adds(p),
           Lasting, AfterInv'
    PROVE  TakenInv'
<1> DEFINE Late(q, i) == \E w \in Procs : /\ proc[w].op = "add" /\ proc[w].pc # "idle"
                                          /\ proc[w].name = i /\ proc[w].path = record[i]
                                          /\ w \notin proc[q].after
<1>1. /\ \A q \in Procs : q # p => proc'[q] = proc[q]
      /\ \A q \in Procs : /\ proc'[q].op = proc[q].op /\ proc'[q].name = proc[q].name
                           /\ proc'[q].path = proc[q].path
      /\ proc'[p].pc # "idle"
  BY DEF Legal, Frame
<1>2. ASSUME NEW q \in Procs, proc'[q].op = "add", proc'[q].pc = "idle" PROVE proc'[q].base = 0
  BY <1>1, <1>2 DEF TakenInv
<1>3. ASSUME NEW q \in Procs, Admitted(q)', NEW i \in WorkspaceIds,
             Takes(i, proc[q].name, proc[q].path)'
      PROVE  Late(q, i)'
  <2>1. CASE record'[i] = record[i]
    <3>1. Takes(i, proc[q].name, proc[q].path)
      BY <1>1, <1>3, <2>1 DEF Takes
    <3>2. CASE Admitted(q)
      <4>1. Late(q, i) /\ proc[q].pc # "idle"
        BY <1>3, <3>1, <3>2 DEF TakenInv, Admitted
      <4> QED
        BY <2>1, <4>1 DEF Lasting
    <3>3. CASE ~Admitted(q)
      <4>1. q = p /\ proc[p].op = "add"
        BY <1>1, <1>3, <3>3 DEF Admitted
      <4>2. ~Started(p)
        BY <3>1, <4>1 DEF Started, PathTaken, Taken
      <4>3. proc[p].pc = "idle" => proc[p].base = 0
        BY <4>1 DEF TakenInv
      <4> QED
        BY <1>3, <3>3, <4>1, <4>2, <4>3
        DEF Adds, AddDoes, Abandoned, Refused, Looked, Chosen, LockTaken, RefMade,
            RecordMade, PointerMade, CheckedOut, Keeps, Admitted
    <3> QED
      BY <3>2, <3>3
  <2>2. CASE record'[i] # record[i]
    <3>1. /\ record'[i] = proc[p].path /\ proc[p].op = "add" /\ proc[p].name = i
          /\ proc'[p].pc = "pointer"
      BY <2>2, RecordsGrow DEF RecordMade
    <3>2. p \notin proc'[q].after
      BY <3>1 DEF AfterInv, Ended
    <3> QED
      BY <1>1, <3>1, <3>2
  <2> QED
    BY <2>1, <2>2
<1> QED
  BY <1>2, <1>3 DEF TakenInv

(* The directory of a workspace and its record agree.                      *)
LEMMA RegistryStep ==
    ASSUME SetupTypeOK, AfterInv, LockedInv, TakenInv, RegistryConsistent,
           NEW p \in Procs, Legal(p), Adds(p), Lasting
    PROVE  RegistryConsistent'
<1>1. ASSUME NEW d \in Paths, pointer'[d] # Nobody
      PROVE  record'[pointer'[d]] = d /\ wsRef'[pointer'[d]] # 0
  <2>1. CASE pointer'[d] = pointer[d]
    <3>1. PICK i : i = pointer[d]
      OBVIOUS
    <3>2. i \in WorkspaceIds /\ record[i] = d /\ wsRef[i] # 0 /\ d # Nobody
      BY <1>1, <2>1, <3>1, ProcsAssumption DEF RegistryConsistent, SetupTypeOK
    <3>3. record'[i] = d /\ wsRef'[i] # 0
      BY <3>2, RecordsGrow
    <3> QED
      BY <2>1, <3>1, <3>3
  <2>2. CASE pointer'[d] # pointer[d]
    <3>1. proc[p].op = "add" /\ PointerMade(p)
      BY <1>1, <2>2
      DEF Adds, AddDoes, registry, Abandoned, Refused, Started, Looked, Chosen, LockTaken,
          RefMade, RecordMade, CheckedOut, Materialize
    <3>2. d = proc[p].path /\ pointer'[d] = proc[p].name
      BY <2>2, <3>1 DEF PointerMade, SetupTypeOK
    <3>3. record[proc[p].name] = proc[p].path /\ wsRef[proc[p].name] # 0
      BY <3>1 DEF PointerMade, LockedInv
    <3> QED
      BY <3>1, <3>2, <3>3 DEF PointerMade
  <2> QED
    BY <2>1, <2>2
<1> DEFINE Pair(i, j) ==
        \E a, b \in Procs : /\ proc[a].op = "add" /\ proc[a].name = i
                            /\ proc[b].op = "add" /\ proc[b].name = j /\ Together(a, b)
<1>2. ASSUME NEW i \in WorkspaceIds, NEW j \in WorkspaceIds, i # j,
             record'[i] # record[i], record'[j] = record'[i]
      PROVE  Pair(i, j)'
  <2>1. /\ record'[i] = proc[p].path /\ proc[p].op = "add" /\ proc[p].name = i
        /\ RecordMade(p) /\ record'[j] = record[j]
    BY <1>2, RecordsGrow
  <2>2. Admitted(p) /\ proc[p].path # Nobody /\ proc[p].pc = "record"
    BY <2>1, ProcsAssumption DEF Admitted, LockedInv, RecordMade, Holding, SetupTypeOK
  <2>3. Takes(j, proc[p].name, proc[p].path)
    BY <1>2, <2>1, <2>2 DEF Takes
  <2>4. PICK w \in Procs : /\ proc[w].op = "add" /\ proc[w].pc # "idle"
                           /\ proc[w].name = j /\ w \notin proc[p].after
    BY <2>1, <2>2, <2>3 DEF TakenInv
  <2>5. Together(p, w)
    BY <2>2, <2>4 DEF Together, AfterInv, Ended
  <2>6. Together(p, w)'
    BY <2>5 DEF Lasting
  <2> QED
    BY <2>1, <2>4, <2>6 DEF Lasting
<1>3. ASSUME NEW i \in WorkspaceIds, NEW j \in WorkspaceIds, Pair(i, j)' PROVE Pair(j, i)'
  BY <1>3 DEF Together
<1>4. ASSUME NEW i \in WorkspaceIds, NEW j \in WorkspaceIds, i # j,
             record'[i] # Nobody, record'[i] = record'[j]
      PROVE  Pair(i, j)'
  <2>1. CASE record'[i] = record[i] /\ record'[j] = record[j]
    <3>1. Pair(i, j)
      <4>1. i # j /\ record[i] # Nobody /\ record[i] = record[j]
        BY <1>4, <2>1
      <4> QED
        BY <4>1, Zenon DEF RegistryConsistent
    <3> QED
      BY <3>1 DEF Lasting
  <2>2. CASE record'[i] # record[i]
    BY <1>2, <1>4, <2>2
  <2>3. CASE record'[j] # record[j]
    BY <1>2, <1>3, <1>4, <2>3
  <2> QED
    BY <2>1, <2>2, <2>3
<1> QED
  BY <1>1, <1>4 DEF RegistryConsistent

-----------------------------------------------------------------------------
(* Workspaces: the directories.                                            *)

(* Creating a directory empties none, and keeps directories inside others. *)
LEMMA DirCreated ==
    ASSUME SetupTypeOK, FolderInv, NEW path \in Paths, CreateDirAll(path)
    PROVE  /\ FolderInv'
           /\ folder'[path] # "absent"
           /\ folder'[path] = "empty" => ~Full(path)
           /\ \A d \in Paths : /\ Full(d) => Full(d)'
                               /\ folder[d] # "absent" => folder'[d] # "absent"
<1>1. /\ folder \in [Paths -> {"absent", "empty", "filled", "user"}]
      /\ DOMAIN folder' = Paths
  BY DEF SetupTypeOK, CreateDirAll
<1>2. CASE folder[path] # "absent"
  <2>1. \A d \in Paths : folder'[d] = folder[d]
    BY <1>2 DEF CreateDirAll
  <2> QED
    BY <1>2, <2>1 DEF FolderInv, Full
<1>3. CASE folder[path] = "absent"
  <2>1. folder'[path] = "empty"
    BY <1>3 DEF CreateDirAll
  <2>2. ASSUME NEW d \in Paths, d # path
        PROVE  folder'[d] = IF <<path, d>> \in Nested /\ folder[d] \in {"absent", "empty"}
                            THEN "user" ELSE folder[d]
    BY <1>3, <2>2 DEF CreateDirAll
  <2>3. \A d \in Paths : <<d, path>> \in Nested => folder[d] = "absent"
    BY <1>3 DEF FolderInv, Full
  <2>4. ASSUME NEW d \in Paths, NEW e \in Paths, <<d, e>> \in Nested, folder'[d] # "absent"
        PROVE  Full(e)'
    <3>1. CASE d = path
      BY <1>1, <2>2, <2>4, <3>1, NestedAssumption DEF Full
    <3>2. CASE d # path /\ e = path
      <4>1. folder[d] = "absent" /\ <<path, d>> \notin Nested
        BY <2>3, <2>4, <3>2, NestedAssumption
      <4> QED
        BY <2>2, <2>4, <3>2, <4>1
    <3>3. CASE d # path /\ e # path /\ folder[d] # "absent"
      <4>1. Full(e)
        BY <2>4, <3>3 DEF FolderInv
      <4> QED
        BY <2>2, <3>3, <4>1 DEF Full
    <3>4. CASE d # path /\ e # path /\ folder[d] = "absent"
      <4>1. <<path, d>> \in Nested
        BY <2>2, <2>4, <3>4
      <4>2. <<path, e>> \in Nested
        BY <2>4, <4>1, NestedAssumption
      <4> QED
        BY <1>1, <2>2, <3>4, <4>2 DEF Full
    <3> QED
      BY <3>1, <3>2, <3>3, <3>4
  <2>5. FolderInv'
    BY <2>4 DEF FolderInv
  <2> QED
    BY <1>1, <1>3, <2>1, <2>2, <2>5 DEF Full
<1> QED
  BY <1>2, <1>3

(* A checkout fills its directory and empties only those inside.           *)
LEMMA Filled ==
    ASSUME SetupTypeOK, FolderInv, NEW p \in Procs, proc[p].path \in Paths,
           MustFill(p), folder[proc[p].path] # "absent", Materialize(p)
    PROVE  /\ FolderInv'
           /\ folder'[proc[p].path] = "filled"
           /\ \A d \in Paths : <<d, proc[p].path>> \notin Nested =>
                 /\ Full(d) => Full(d)'
                 /\ folder[d] # "absent" => folder'[d] # "absent"
<1>1. /\ folder'[proc[p].path] = "filled"
      /\ \A d \in Paths : d # proc[p].path =>
            folder'[d] = IF <<d, proc[p].path>> \in Nested THEN "absent" ELSE folder[d]
  BY DEF Materialize
<1>2. ASSUME NEW d \in Paths, NEW e \in Paths, <<d, e>> \in Nested, folder'[d] # "absent"
      PROVE  Full(e)'
  <2>1. CASE e = proc[p].path
    BY <1>1, <2>1 DEF Full
  <2>2. CASE e # proc[p].path
    <3>1. folder[d] # "absent" /\ <<e, proc[p].path>> \notin Nested
      <4>1. CASE d = proc[p].path
        BY <1>2, <4>1, NestedAssumption
      <4>2. CASE d # proc[p].path
        <5>1. <<d, proc[p].path>> \notin Nested /\ folder[d] # "absent"
          BY <1>1, <1>2, <4>2
        <5> QED
          BY <1>2, <5>1, NestedAssumption
      <4> QED
        BY <4>1, <4>2
    <3>2. Full(e)
      BY <1>2, <3>1 DEF FolderInv
    <3> QED
      BY <1>1, <2>2, <3>1, <3>2 DEF Full
  <2> QED
    BY <2>1, <2>2
<1>3. FolderInv'
  BY <1>2 DEF FolderInv
<1> QED
  BY <1>1, <1>3 DEF Full

(* What a step does to the directories: a full directory stays full unless *)
(* a workspace that is registered around it is checked out.                *)
LEMMA FolderStep ==
    ASSUME SetupTypeOK, LockedInv, FolderInv, NEW p \in Procs, Adds(p)
    PROVE  /\ FolderInv'
           /\ \A d \in Paths :
                 /\ Full(d) => Full(d)' \/ \A k : Taken(k, d)'
                 /\ folder[d] # "absent" => folder'[d] # "absent" \/ \A k : Taken(k, d)'
                 /\ Full(d) => \/ Full(d)'
                               \/ /\ proc[p].op = "add" /\ CheckedOut(p) /\ proc[p].empty
                                  /\ <<d, proc[p].path>> \in Nested
<1>0. proc[p].op = "add" => proc[p].path \in Paths /\ proc[p].name \in WorkspaceIds
  BY DEF SetupTypeOK
<1>1. CASE UNCHANGED folder
  BY <1>1 DEF FolderInv, Full
<1>2. CASE proc[p].op = "add" /\ CreateDirAll(proc[p].path)
  <2>1. PICK path \in Paths : path = proc[p].path
    BY <1>0, <1>2
  <2> QED
    BY <1>2, <2>1, DirCreated
<1>3. CASE /\ proc[p].op = "add" /\ CheckedOut(p) /\ MustFill(p)
           /\ folder[proc[p].path] # "absent" /\ Materialize(p)
  <2>1. /\ FolderInv'
        /\ \A d \in Paths : <<d, proc[p].path>> \notin Nested =>
              /\ Full(d) => Full(d)'
              /\ folder[d] # "absent" => folder'[d] # "absent"
    BY <1>0, <1>3, Filled
  <2>2. record'[proc[p].name] = proc[p].path /\ proc[p].path # Nobody
    BY <1>0, <1>3, ProcsAssumption DEF CheckedOut, LockedInv
  <2>3. ASSUME NEW d \in Paths, <<d, proc[p].path>> \in Nested PROVE \A k : Taken(k, d)'
    BY <1>0, <1>3, <2>2, <2>3 DEF Taken, Takes
  <2> QED
    BY <1>3, <2>1, <2>3 DEF MustFill
<1> QED
  BY <1>1, <1>2, <1>3
  DEF Adds, AddDoes, registry, Abandoned, Refused, Started, Looked, Chosen, LockTaken,
      RefMade, RecordMade, PointerMade, CheckedOut, Materialize

(* A path that is taken stays taken.                                       *)
LEMMA TakenKept ==
    ASSUME SetupTypeOK, LockedInv, NEW p \in Procs, Adds(p), NEW k, NEW d, Taken(k, d)
    PROVE  Taken(k, d)'
BY RecordsGrow DEF Taken, Takes

(* What FoundInv says of a process and of a record.                        *)
FoundOK(q) ==
    proc[q].op = "add" =>
        LET free == ~PathTaken(q)
            at == proc[q].pc
        IN /\ at \in {"base", "lock"} /\ ~proc[q].empty /\ free =>
                 Full(proc[q].path) \/ record[proc[q].name] = proc[q].path
           /\ at \in Holding /\ ~proc[q].empty /\ ~proc[q].registered /\ free =>
                 Full(proc[q].path)
           /\ at = "checkout" /\ free => folder[proc[q].path] # "absent"
BlankOK(q) ==
    proc[q].op = "add" /\ proc[q].pc \in {"base", "lock"} \cup Holding /\ proc[q].empty =>
        \A w \in proc[q].after :
            AddReturned(w) /\ <<proc[w].path, proc[q].path>> \in Nested => Disturbed(w)
RecordOK(i) ==
    /\ record[i] # Nobody
    /\ locked[i] = Nobody \/ proc[locked[i]].registered
    => Full(record[i]) \/ CrashedAt(record[i]) \/ Taken(i, record[i])

(* FoundInv is made of these.                                              *)
LEMMA FoundParts ==
    /\ FoundInv <=> /\ \A q \in Procs : FoundOK(q) /\ BlankOK(q)
                   /\ \A i \in WorkspaceIds : RecordOK(i)
    /\ FoundInv' <=> /\ \A q \in Procs : FoundOK(q)' /\ BlankOK(q)'
                    /\ \A i \in WorkspaceIds : RecordOK(i)'
BY DEF FoundInv, FoundOK, BlankOK, RecordOK

(* What a process that waits has found out stays true while others step.   *)
LEMMA OthersFound ==
    ASSUME SetupTypeOK, LockedInv, FolderInv, FoundInv, NEW p \in Procs, Legal(p), Adds(p),
           NEW q \in Procs,
           /\ \/ proc'[q].pc = proc[q].pc
              \/ proc'[q].pc \in {"record", "pointer"} /\ proc[q].pc \in {"ref", "record"}
           /\ proc'[q].empty = proc[q].empty /\ proc'[q].registered = proc[q].registered
    PROVE  FoundOK(q)'
<1>1. /\ proc'[q].op = proc[q].op /\ proc'[q].name = proc[q].name /\ proc'[q].path = proc[q].path
  BY DEF Legal, Frame
<1> SUFFICES ASSUME proc[q].op = "add", ~PathTaken(q)' PROVE FoundOK(q)'
  BY <1>1 DEF FoundOK
<1>2. PICK id \in WorkspaceIds, path \in Paths : id = proc[q].name /\ path = proc[q].path
  BY DEF SetupTypeOK
<1>3. ~Taken(id, path)' /\ path # Nobody
  BY <1>1, <1>2, ProcsAssumption DEF PathTaken, Taken, Takes
<1>4. ~PathTaken(q)
  BY <1>2, <1>3, TakenKept DEF PathTaken
<1>5. /\ Full(path) => Full(path)'
      /\ folder[path] # "absent" => folder'[path] # "absent"
      /\ record[id] = path => record'[id] = path
  BY <1>3, FolderStep, RecordsGrow
<1>6. FoundOK(q)
  BY FoundParts
<1> QED
  BY <1>1, <1>2, <1>4, <1>5, <1>6 DEF FoundOK, Holding, Full

(* What p itself finds out.                                                *)
LEMMA StepFinds ==
    ASSUME SetupTypeOK, LockedInv, RegistryConsistent, FolderInv, FoundInv,
           NEW p \in Procs, Legal(p), Adds(p)
    PROVE  FoundOK(p)'
<1>1. /\ proc'[p].op = proc[p].op /\ proc'[p].name = proc[p].name /\ proc'[p].path = proc[p].path
  BY DEF Legal, Frame
<1>2. CASE proc[p].op # "add" \/ proc'[p].pc \in {"done", "crashed", "look"}
  BY <1>1, <1>2 DEF FoundOK, Holding
<1>3. CASE proc[p].op = "add"
  <2>1. PICK id \in WorkspaceIds, path \in Paths : id = proc[p].name /\ path = proc[p].path
    BY <1>3 DEF SetupTypeOK
  <2>2. path # Nobody
    BY ProcsAssumption
  <2>3. CASE Looked(p)
    <3>1. folder'[path] # "absent"
      BY <2>1, <2>3, DirCreated DEF Looked
    <3>2. CASE pointer[path] # Nobody
      <4>1. pointer[path] \in WorkspaceIds /\ record[pointer[path]] = path
        BY <3>2 DEF RegistryConsistent, SetupTypeOK
      <4>2. CASE pointer[path] = id
        BY <1>1, <2>1, <2>3, <4>1, <4>2 DEF FoundOK, Looked, Holding
      <4>3. CASE pointer[path] # id
        <5>1. PathTaken(p)'
          BY <1>1, <2>1, <2>2, <2>3, <4>1, <4>3 DEF PathTaken, Taken, Takes, Looked
        <5> QED
          BY <5>1 DEF FoundOK
      <4> QED
        BY <4>2, <4>3
    <3>3. CASE pointer[path] = Nobody
      <4>1. folder'[path] \in {"absent", "empty", "filled", "user"}
        BY <2>1, <2>3 DEF Looked, CreateDirAll, SetupTypeOK
      <4>2. ~proc'[p].empty => Full(path)'
        BY <2>1, <2>3, <3>1, <3>3, <4>1 DEF Looked, Full
      <4> QED
        BY <1>1, <2>1, <2>3, <4>2 DEF FoundOK, Looked, Holding, Full
    <3> QED
      BY <3>2, <3>3
  <2>4. CASE Chosen(p)
    <3>1. FoundOK(p) /\ UNCHANGED <<record, folder>>
      BY <2>4, FoundParts DEF Chosen, registry
    <3> QED
      BY <1>1, <2>4, <3>1 DEF FoundOK, Chosen, PathTaken, Taken, Takes, Full, Holding
  <2>5. CASE LockTaken(p)
    <3>1. FoundOK(p) /\ UNCHANGED <<record, folder>>
      BY <2>5, FoundParts DEF LockTaken
    <3>2. ~proc'[p].registered => record[proc[p].name] # proc[p].path
      BY <2>1, <2>2, <2>5 DEF LockTaken
    <3> QED
      BY <1>1, <2>5, <3>1, <3>2 DEF FoundOK, LockTaken, PathTaken, Taken, Takes, Full, Holding
  <2>6. CASE RefMade(p) \/ RecordMade(p)
    BY <2>6, OthersFound DEF RefMade, RecordMade, Keeps
  <2>7. CASE PointerMade(p)
    <3>1. folder'[path] # "absent" /\ (Full(path) => Full(path)')
      BY <2>1, <2>7, DirCreated DEF PointerMade
    <3>2. FoundOK(p) /\ UNCHANGED record
      BY <2>7, FoundParts DEF PointerMade
    <3> QED
      BY <1>1, <2>1, <2>7, <3>1, <3>2
      DEF FoundOK, PointerMade, Keeps, PathTaken, Taken, Takes, Full, Holding
  <2>8. CASE Refused(p) \/ Started(p) \/ CheckedOut(p) \/ Abandoned(p)
    BY <1>2, <2>8 DEF Refused, Started, CheckedOut, Abandoned
  <2> QED
    BY <1>3, <2>3, <2>4, <2>5, <2>6, <2>7, <2>8 DEF Adds, AddDoes
<1> QED
  BY <1>2, <1>3

(* A directory that is found empty holds no workspace that was added       *)
(* before and not disturbed.                                               *)
LEMMA StepBlanks ==
    ASSUME SetupTypeOK, AfterInv, FolderInv, FoundInv, AddReturnsReady,
           NEW p \in Procs, Legal(p), Adds(p), Lasting, NEW q \in Procs
    PROVE  BlankOK(q)'
<1> SUFFICES ASSUME proc'[q].op = "add", proc'[q].pc \in {"base", "lock"} \cup Holding,
                    proc'[q].empty,
                    NEW w \in Procs, w \in proc'[q].after, AddReturned(w)',
                    <<proc'[w].path, proc'[q].path>> \in Nested
             PROVE  Disturbed(w)'
  <2>1. proc'[q].after \subseteq Procs
    BY DEF Legal, Frame, SetupTypeOK, ProcStates, Ended
  <2> QED
    BY <2>1 DEF BlankOK
<1>1. /\ \A a \in Procs : a # p => proc'[a] = proc[a]
      /\ \A a \in Procs : proc'[a].op = proc[a].op /\ proc'[a].path = proc[a].path
      /\ proc[p].pc \notin {"done", "crashed"}
  BY DEF Legal, Frame
<1>2. proc[q].pc # "idle" /\ proc'[q].after = proc[q].after
  <2>1. CASE q # p
    BY <1>1, <2>1 DEF Holding
  <2>2. CASE q = p
    BY <1>1, <2>2
    DEF Legal, Adds, AddDoes, Abandoned, Refused, Started, Looked, Chosen, LockTaken, RefMade,
        RecordMade, PointerMade, CheckedOut, Holding
  <2> QED
    BY <2>1, <2>2
<1>3. w # p /\ AddReturned(w)
  <2>1. w \in Ended
    BY <1>2 DEF AfterInv
  <2>2. w # p
    BY <1>1, <2>1 DEF Ended
  <2> QED
    BY <1>1, <2>2 DEF AddReturned, AtStep
<1>4. Disturbed(w)
  <2>1. CASE proc[q].pc \in {"base", "lock"} \cup Holding /\ proc[q].empty
    <3>1. BlankOK(q)
      BY FoundParts
    <3> QED
      BY <1>1, <1>2, <1>3, <2>1, <3>1 DEF BlankOK
  <2>2. CASE q = p /\ Looked(p)
    <3>1. PICK path \in Paths : path = proc[p].path
      BY <1>1, <2>2 DEF SetupTypeOK
    <3>2. ~Full(path)
      BY <2>2, <3>1, DirCreated DEF Looked
    <3>3. proc[w].path \in Paths /\ <<proc[w].path, path>> \in Nested
      BY <1>1, <1>3, <2>2, <3>1 DEF AddReturned, AtStep, SetupTypeOK
    <3>4. folder[proc[w].path] = "absent"
      BY <3>2, <3>3 DEF FolderInv
    <3> QED
      BY <1>3, <3>4 DEF AddReturnsReady, Full
  <2>3. CASE q = p /\ ~Looked(p)
    BY <1>1, <2>1, <2>3
    DEF Legal, Adds, AddDoes, Abandoned, Refused, Started, Chosen, LockTaken, RefMade,
        RecordMade, PointerMade, CheckedOut, Holding, Keeps
  <2>4. CASE q # p
    BY <1>1, <2>1, <2>4
  <2> QED
    BY <2>2, <2>3, <2>4
<1> QED
  BY <1>4 DEF Lasting

(* A registered workspace whose lock is free has its directory full,       *)
(* unless an add of it crashed or its path is taken.                       *)
LEMMA StepRecords ==
    ASSUME SetupTypeOK, LockedInv, FolderInv, FoundInv,
           NEW p \in Procs, Legal(p), Adds(p), Lasting, NEW i \in WorkspaceIds
    PROVE  RecordOK(i)'
<1>1. /\ \A q \in Procs : q # p => proc'[q] = proc[q]
      /\ proc'[p].op = proc[p].op /\ proc'[p].name = proc[p].name /\ proc'[p].path = proc[p].path
      /\ proc[p].op = "add" => proc[p].path \in Paths
  BY DEF Legal, Frame, SetupTypeOK
<1>2. CASE record'[i] # record[i]
  <2>1. /\ proc[p].op = "add" /\ proc[p].name = i /\ RecordMade(p) /\ record[i] = Nobody
        /\ proc[p].path \in Paths
    BY <1>1, <1>2, RecordsGrow
  <2>2. locked[i] = p /\ ~proc[p].registered /\ p # Nobody
    BY <2>1, ProcsAssumption DEF RecordMade, LockedInv, Holding
  <2> QED
    BY <2>1, <2>2 DEF RecordOK, RecordMade, Keeps
<1>3. CASE record'[i] = record[i] /\ record[i] # Nobody
  <2>1. PICK d \in Paths : d = record[i]
    BY <1>3 DEF SetupTypeOK
  <2>2. SUFFICES ASSUME locked'[i] = Nobody \/ proc'[locked'[i]].registered
                 PROVE  Full(d)' \/ CrashedAt(d)' \/ Taken(i, d)'
    BY <1>3, <2>1 DEF RecordOK, CrashedAt, Taken, Takes, Full
  <2>3. CASE locked[i] = Nobody \/ proc[locked[i]].registered
    <3>1. Full(d) \/ CrashedAt(d) \/ Taken(i, d)
      BY <1>3, <2>1, <2>3, FoundParts DEF RecordOK
    <3>2. CASE Full(d)
      BY <3>2, FolderStep
    <3>3. CASE CrashedAt(d)
      BY <3>3 DEF Lasting
    <3>4. CASE Taken(i, d)
      BY <3>4, TakenKept
    <3> QED
      BY <3>1, <3>2, <3>3, <3>4
  <2>4. CASE locked[i] # Nobody /\ ~proc[locked[i]].registered
    <3>1. locked[i] \in Procs /\ proc[locked[i]].op = "add" /\ proc[locked[i]].name = i
          /\ proc[locked[i]].pc \in Holding
      BY <2>4 DEF LockedInv, SetupTypeOK
    <3>2. locked[i] = p /\ (CheckedOut(p) \/ Abandoned(p))
      <4>1. CASE CheckedOut(p) \/ Abandoned(p)
        <5>1. locked[i] # p => locked'[i] = locked[i]
          <6>1. CASE proc[p].op = "add" /\ CheckedOut(p)
            BY <3>1, <6>1 DEF CheckedOut, SetupTypeOK, LockedInv, Holding
          <6>2. CASE Abandoned(p)
            BY <6>2 DEF Abandoned
          <6>3. CASE proc[p].op # "add"
            BY <6>3 DEF Adds, registry
          <6> QED
            BY <4>1, <6>1, <6>2, <6>3
        <5> QED
          BY <1>1, <2>2, <2>4, <3>1, <4>1, <5>1
      <4>2. CASE LockTaken(p) /\ proc[p].op = "add"
        <5>1. proc[p].name # i /\ locked'[i] = locked[i] /\ locked[i] # p
          BY <2>4, <3>1, <4>2 DEF LockTaken, SetupTypeOK, Holding
        <5> QED
          BY <1>1, <2>2, <2>4, <3>1, <5>1
      <4>3. CASE /\ ~CheckedOut(p) /\ ~Abandoned(p)
                 /\ proc[p].op # "add" \/ ~LockTaken(p)
        <5>1. locked' = locked
          BY <4>3 DEF Adds, AddDoes, registry, Refused, Started, Looked, Chosen, RefMade,
                      RecordMade, PointerMade
        <5>2. locked[i] = p => proc'[p].registered = proc[p].registered
          BY <3>1, <4>3
          DEF Adds, AddDoes, Refused, Started, Looked, Chosen, RefMade,
              RecordMade, PointerMade, Keeps, Holding
        <5> QED
          BY <1>1, <2>2, <2>4, <3>1, <5>1, <5>2
      <4> QED
        BY <4>1, <4>2, <4>3
    <3>3. proc[p].op = "add" /\ proc[p].name = i /\ ~proc[p].registered
      BY <2>4, <3>1, <3>2
    <3>4. proc[p].path = d
      BY <1>3, <2>1, <3>1, <3>2, <3>3 DEF LockedInv, Holding
    <3>5. CASE Abandoned(p)
      BY <1>1, <3>3, <3>4, <3>5 DEF Abandoned, CrashedAt, Crashed
    <3>6. CASE CheckedOut(p)
      <4>1. FoundOK(p) /\ UNCHANGED record
        BY <3>6, FoundParts DEF CheckedOut
      <4>2. CASE Taken(i, d)
        BY <4>2, TakenKept
      <4>3. CASE ~Taken(i, d) /\ ~proc[p].empty
        <5>1. Full(d)
          BY <3>3, <3>4, <3>6, <4>1, <4>3 DEF FoundOK, CheckedOut, PathTaken, Holding
        <5>2. UNCHANGED folder
          BY <3>6, <4>3 DEF CheckedOut, MustFill, Materialize
        <5> QED
          BY <5>1, <5>2 DEF Full
      <4>4. CASE ~Taken(i, d) /\ proc[p].empty
        <5>1. MustFill(p) /\ folder[d] # "absent"
          BY <3>3, <3>4, <3>6, <4>1, <4>4 DEF FoundOK, CheckedOut, PathTaken, MustFill
        <5>2. folder'[d] = "filled"
          BY <3>4, <3>6, <5>1, Filled DEF CheckedOut
        <5> QED
          BY <5>2 DEF Full
      <4> QED
        BY <4>2, <4>3, <4>4
    <3> QED
      BY <3>2, <3>5, <3>6
  <2> QED
    BY <2>3, <2>4
<1>4. CASE record'[i] = Nobody
  BY <1>4 DEF RecordOK
<1> QED
  BY <1>2, <1>3, <1>4

(* An add that finds its path taken was disturbed: who took it overlapped. *)
LEMMA TakenDisturbs ==
    ASSUME SetupTypeOK, AfterInv, TakenInv, NEW p \in Procs, Admitted(p), PathTaken(p),
           proc[p].pc \notin {"idle", "done", "crashed"}
    PROVE  Disturbed(p)
<1>1. PICK i \in WorkspaceIds : Takes(i, proc[p].name, proc[p].path)
  BY DEF PathTaken, Taken
<1>2. PICK w \in Procs : /\ proc[w].op = "add" /\ proc[w].pc # "idle"
                         /\ proc[w].name = i /\ proc[w].path = record[i]
                         /\ w \notin proc[p].after
  BY <1>1 DEF TakenInv, Admitted
<1>3. Together(p, w)
  BY <1>2 DEF Together, AfterInv, Ended
<1> QED
  BY <1>1, <1>2, <1>3 DEF Disturbed, Takes

(* An add that has returned stays ready, and so is one that returns.       *)
LEMMA ReadyStep ==
    ASSUME SetupTypeOK, AfterInv, LockedInv, TakenInv, FolderInv, FoundInv, AddReturnsReady,
           NEW p \in Procs, Legal(p), Adds(p), Lasting
    PROVE  AddReturnsReady'
<1>1. /\ \A q \in Procs : q # p => proc'[q] = proc[q]
      /\ \A q \in Procs : /\ proc'[q].op = proc[q].op /\ proc'[q].name = proc[q].name
                          /\ proc'[q].path = proc[q].path
      /\ proc[p].pc \notin {"done", "crashed"}
  BY DEF Legal, Frame
<1> SUFFICES ASSUME NEW w \in Procs, AddReturned(w)'
             PROVE  Full(proc[w].path)' \/ Disturbed(w)'
  BY DEF AddReturnsReady
<1>2. PICK d \in Paths : d = proc[w].path /\ proc'[w].path = d
  BY <1>1 DEF AddReturned, AtStep, SetupTypeOK
<1>3. SUFFICES ASSUME ~Disturbed(w)' PROVE Full(d)'
  BY <1>2 DEF Full
<1>4. ~Disturbed(w)
  BY <1>3 DEF Lasting
<1>5. CASE w # p
  <2>1. AddReturned(w) /\ proc[w].pc = "done"
    BY <1>1, <1>5 DEF AddReturned, AtStep
  <2>2. Full(d)
    BY <1>2, <1>4, <2>1 DEF AddReturnsReady
  <2>3. CASE /\ proc[p].op = "add" /\ CheckedOut(p) /\ proc[p].empty
             /\ <<d, proc[p].path>> \in Nested
    <3>1. w \notin proc[p].after
      <4>1. BlankOK(p)
        BY FoundParts
      <4> QED
        BY <1>2, <1>4, <2>1, <2>3, <4>1 DEF BlankOK, CheckedOut, Holding
    <3>2. Together(w, p)
      BY <1>1, <2>1, <2>3, <3>1 DEF Together, AfterInv, Ended, CheckedOut
    <3> QED
      BY <1>2, <1>4, <2>3, <3>2 DEF Disturbed
  <2> QED
    BY <2>2, <2>3, FolderStep
<1>6. CASE w = p
  <2>1. proc[p].op = "add" /\ CheckedOut(p) /\ proc'[p].result = "ok"
    BY <1>1, <1>6
    DEF AddReturned, AtStep, Adds, AddDoes, Abandoned, Refused, Started, Looked, Chosen,
        LockTaken, RefMade, RecordMade, PointerMade
  <2>2. Admitted(p) /\ proc[p].pc = "checkout" /\ record[proc[p].name] = d
    BY <1>2, <1>6, <2>1 DEF CheckedOut, LockedInv, Admitted, Holding
  <2>3. ~PathTaken(p) /\ ~CrashedAt(d)
    <3>1. ~CrashedAt(proc[p].path)
      BY <1>4, <1>6 DEF Disturbed
    <3> QED
      BY <1>2, <1>4, <1>6, <2>2, <3>1, TakenDisturbs
  <2>4. CASE MustFill(p)
    <3>1. folder[proc[p].path] # "absent" /\ Materialize(p)
      BY <2>1, <2>4 DEF CheckedOut
    <3> QED
      BY <1>2, <1>6, <2>4, <3>1, Filled DEF Full
  <2>5. CASE ~MustFill(p)
    <3>1. UNCHANGED folder
      BY <2>1, <2>5 DEF CheckedOut, Materialize
    <3>2. CASE proc[p].registered
      <4>1. PICK i \in WorkspaceIds : i = proc[p].name
        BY <2>1 DEF SetupTypeOK
      <4>2. locked[i] = p /\ record[i] = d /\ d # Nobody
        BY <2>1, <2>2, <4>1, ProcsAssumption DEF LockedInv, Holding
      <4>3. Full(d) \/ CrashedAt(d) \/ Taken(i, d)
        BY <3>2, <4>2, FoundParts DEF RecordOK
      <4> QED
        BY <1>2, <1>6, <2>3, <3>1, <4>1, <4>3 DEF PathTaken, Full
    <3>3. CASE ~proc[p].registered
      <4>1. FoundOK(p) /\ ~proc[p].empty
        BY <2>5, <3>3, FoundParts DEF MustFill
      <4> QED
        BY <1>2, <1>6, <2>1, <2>2, <2>3, <3>1, <3>3, <4>1 DEF FoundOK, Holding, Full
    <3> QED
      BY <3>2, <3>3
  <2> QED
    BY <2>4, <2>5
<1> QED
  BY <1>5, <1>6

-----------------------------------------------------------------------------
(* The theorems.                                                           *)

(* Every step of a process is one of those above.                          *)
LEMMA StepEffect ==
    ASSUME SetupInv, NEW p \in Procs, SetupStep(p)
    PROVE  /\ SetupTypeOK' /\ Legal(p) /\ Does(p) /\ Adds(p)
           /\ \/ proc[p].op = "init" /\ InitDoes(p)
              \/ /\ UNCHANGED made
                 /\ proc[p].op # "init" \/ proc'[p].pc \in {"done", "crashed"}
           /\ \/ proc[p].op # "list"
              \/ ListDoes(p)
              \/ proc'[p].todo = proc[p].todo /\ proc'[p].listed = proc[p].listed
<1> USE DEF SetupInv
<1>1. CASE InitStep(p)
  BY <1>1, InitEffect DEF Does, Adds, registry
<1>2. CASE BranchStep(p)
  BY <1>2, BranchEffect DEF Does, Adds, registry
<1>3. CASE ListStep(p)
  BY <1>3, ListEffect DEF Does, Adds, registry, Saves
<1>4. CASE AddStep(p)
  BY <1>4, AddEffect DEF Does, Adds
<1>5. CASE CrashSetup(p)
  <2>1. proc[p].op # "add" => UNCHANGED locked
    <3> SUFFICES ASSUME proc[p].op # "add" PROVE UNCHANGED locked
      OBVIOUS
    <3>1. \A i \in WorkspaceIds : locked[i] # p
      BY ProcsAssumption DEF LockedInv
    <3> QED
      BY <1>5, <3>1, CrashEffect DEF SetupTypeOK
  <2> QED
    BY <1>5, <2>1, CrashEffect DEF Does, Adds, Abandoned, registry
<1> QED
  BY <1>1, <1>2, <1>3, <1>4, <1>5 DEF SetupStep

(* Work in a directory fills it, and leaves everything else.               *)
LEMMA WorkStep ==
    ASSUME SetupInv, NEW d \in Paths, WorkInFolder(d)
    PROVE  SetupInv'
<1> USE DEF SetupInv
<1>1. /\ SetupTypeOK' /\ UNCHANGED <<made, heads, record, pointer, locked, proc>>
      /\ \A i \in WorkspaceIds : wsRef[i] # 0 => wsRef'[i] # 0
      /\ \A e \in Paths : /\ Full(e) => Full(e)'
                          /\ folder'[e] # "absent" <=> folder[e] # "absent"
  BY WorkEffect DEF SetupTypeOK, Full
<1>2. AfterInv' /\ PartsInv' /\ RefsInv' /\ BranchInv' /\ ListInv'
  BY <1>1 DEF AfterInv, Ended, PartsInv, RefsInv, RefMeansComplete, Temp, BranchInv, Created,
              AtStep, ListInv, Together
<1>3. LockedInv' /\ TakenInv'
  BY <1>1 DEF LockedInv, TakenInv, Admitted, Takes, SetupTypeOK, Holding
<1>4. RegistryConsistent'
  <2>1. ASSUME NEW e \in Paths, pointer[e] # Nobody
        PROVE  record[pointer[e]] = e /\ wsRef'[pointer[e]] # 0
    BY <1>1, <2>1 DEF RegistryConsistent, SetupTypeOK
  <2> QED
    BY <1>1, <2>1 DEF RegistryConsistent, Together
<1>5. FolderInv'
  BY <1>1 DEF FolderInv
<1>6. /\ \A q \in Procs : Disturbed(q)' <=> Disturbed(q)
      /\ \A k, e : Taken(k, e)' <=> Taken(k, e)
      /\ \A e : CrashedAt(e)' <=> CrashedAt(e)
  BY <1>1 DEF Disturbed, Together, CrashedAt, Crashed, Taken, Takes
<1>7. FoundInv'
  <2>1. ASSUME NEW q \in Procs PROVE FoundOK(q)' /\ BlankOK(q)'
    <3>1. FoundOK(q) /\ BlankOK(q) /\ (PathTaken(q)' <=> PathTaken(q))
      BY <1>1, <1>6, FoundParts DEF PathTaken
    <3>2. BlankOK(q)'
      <4>1. proc[q].after \subseteq Procs
        BY DEF SetupTypeOK, ProcStates
      <4> QED
        BY <1>1, <1>6, <3>1, <4>1 DEF BlankOK, AddReturned, AtStep
    <3> QED
      BY <1>1, <3>1, <3>2 DEF FoundOK, SetupTypeOK
  <2>2. ASSUME NEW i \in WorkspaceIds PROVE RecordOK(i)'
    <3>1. RecordOK(i) /\ record[i] \in Paths \cup {Nobody}
      BY FoundParts DEF SetupTypeOK
    <3>2. PICK e : e = record[i]
      OBVIOUS
    <3>3. record'[i] = e /\ (Taken(i, e)' <=> Taken(i, e)) /\ (CrashedAt(e)' <=> CrashedAt(e))
      BY <1>1, <1>6, <3>2
    <3> QED
      BY <1>1, <3>1, <3>2, <3>3 DEF RecordOK, Taken, Takes, CrashedAt
  <2> QED
    BY <2>1, <2>2, FoundParts
<1>8. AddReturnsReady'
  BY <1>1, <1>6 DEF AddReturnsReady, AddReturned, AtStep, SetupTypeOK
<1> QED
  BY <1>1, <1>2, <1>3, <1>4, <1>5, <1>7, <1>8

(* The start, with a repository or without.                                *)
LEMMA SetupStart == SetupInit => SetupInv
<1> SUFFICES ASSUME SetupInit PROVE SetupInv
  OBVIOUS
<1>1. PICK plan \in Plans :
        LET fresh == \E p \in Procs : plan[p].op = "init"
        IN /\ made = IF fresh THEN {} ELSE Complete
           /\ newest = 1
           /\ heads = IF fresh THEN <<>> ELSE [r \in {Ref(Main)} |-> 1]
           /\ wsRef = [i \in WorkspaceIds |-> 0]
           /\ record = [i \in WorkspaceIds |-> Nobody]
           /\ pointer = [d \in Paths |-> Nobody]
           /\ folder = [d \in Paths |-> "absent"]
           /\ locked = [i \in WorkspaceIds |-> Nobody]
           /\ proc = [p \in Procs |->
                [op |-> plan[p].op, name |-> plan[p].name, path |-> plan[p].path,
                 pc |-> "idle", after |-> {}, base |-> 0, empty |-> FALSE,
                 registered |-> FALSE, todo |-> {}, result |-> "none", listed |-> {}]]
  BY DEF SetupInit
<1>2. /\ proc \in [Procs -> ProcStates]
      /\ \A p \in Procs :
            /\ proc[p].pc = "idle" /\ proc[p].after = {} /\ proc[p].base = 0
            /\ proc[p].todo = {} /\ proc[p].listed = {}
            /\ proc[p].op = "init" => proc[p].name = Main
            /\ proc[p].op = "add" => proc[p].name \in WorkspaceIds /\ proc[p].path \in Paths
  <2>1. ASSUME NEW p \in Procs
        PROVE  /\ plan[p].op \in {"init", "branch", "list", "add"}
               /\ plan[p].name \in OpNames /\ plan[p].path \in OpPaths
               /\ plan[p].op = "init" => plan[p].name = Main
               /\ plan[p].op = "add" => plan[p].name \in WorkspaceIds /\ plan[p].path \in Paths
    BY PlansAssumption DEF OpNames, OpPaths
  <2> QED
    BY <1>1, <2>1 DEF ProcStates, Counters
<1>3. /\ DOMAIN heads \subseteq RefFiles /\ heads \in [DOMAIN heads -> Nat]
      /\ \A r \in DOMAIN heads : r = Ref(Main) /\ heads[r] = 1 /\ made = Complete
      /\ made \subseteq Complete
  <2>1. CASE heads = <<>> /\ made = {}
    BY <2>1
  <2>2. CASE heads = [r \in {Ref(Main)} |-> 1] /\ made = Complete
    BY <2>2 DEF RefFiles, Ref, OpNames
  <2> QED
    BY <1>1, <2>1, <2>2
<1>4. SetupTypeOK
  <2>1. /\ newest \in Nat \ {0}
        /\ wsRef \in [WorkspaceIds -> Nat]
        /\ record \in [WorkspaceIds -> Paths \cup {Nobody}]
        /\ pointer \in [Paths -> WorkspaceIds \cup {Nobody}]
        /\ folder \in [Paths -> {"absent", "empty", "filled", "user"}]
        /\ locked \in [WorkspaceIds -> Procs \cup {Nobody}]
    BY <1>1
  <2> QED
    BY <1>2, <1>3, <2>1 DEF SetupTypeOK
<1>5. AfterInv /\ PartsInv /\ ListInv /\ BranchInv /\ AddReturnsReady
  BY <1>2 DEF AfterInv, PartsInv, ListInv, BranchInv, Created, AtStep, AddReturnsReady, AddReturned
<1>6. RefsInv
  BY <1>2, <1>3 DEF RefsInv, RefMeansComplete, Ref
<1>7. LockedInv /\ RegistryConsistent /\ FolderInv
  BY <1>1, <1>2, NestedAssumption DEF LockedInv, Holding, RegistryConsistent, FolderInv
<1>8. TakenInv /\ FoundInv
  BY <1>1, <1>2 DEF TakenInv, Admitted, FoundInv, Holding
<1> QED
  BY <1>4, <1>5, <1>6, <1>7, <1>8 DEF SetupInv

(* However processes interleave and crash, all parts of the invariant hold *)
(* in every state.                                                         *)
THEOREM SetupInvariant == SetupSpec => []SetupInv
<1>1. SetupInv /\ [SetupNext]_setup => SetupInv'
  <2> SUFFICES ASSUME SetupInv, [SetupNext]_setup PROVE SetupInv'
    OBVIOUS
  <2>1. ASSUME NEW p \in Procs, SetupStep(p) PROVE SetupInv'
    <3>1. /\ SetupTypeOK' /\ Legal(p) /\ Does(p) /\ Adds(p)
          /\ \/ proc[p].op = "init" /\ InitDoes(p)
             \/ /\ UNCHANGED made
                /\ proc[p].op # "init" \/ proc'[p].pc \in {"done", "crashed"}
          /\ \/ proc[p].op # "list"
             \/ ListDoes(p)
             \/ proc'[p].todo = proc[p].todo /\ proc'[p].listed = proc[p].listed
      BY <2>1, StepEffect
    <3>2. AfterInv' /\ Lasting
      BY <3>1, LastingStep DEF SetupInv
    <3>3. PartsInv'
      BY <3>1, PartsStep DEF SetupInv
    <3>4. RefsInv' /\ BranchInv'
      BY <3>1, RefsStep, BranchInvStep DEF SetupInv
    <3>5. ListInv'
      BY <3>1, <3>2, ListInvStep DEF SetupInv
    <3>6. LockedInv' /\ TakenInv' /\ RegistryConsistent'
      BY <3>1, <3>2, LockedStep, TakenStep, RegistryStep DEF SetupInv
    <3>7. FolderInv'
      BY <3>1, FolderStep DEF SetupInv
    <3>8. FoundInv'
      <4>1. ASSUME NEW q \in Procs PROVE FoundOK(q)'
        <5>1. CASE q = p
          BY <3>1, <5>1, StepFinds DEF SetupInv
        <5>2. CASE q # p
          <6>1. proc'[q] = proc[q]
            BY <3>1, <5>2 DEF Legal, Frame
          <6> QED
            BY <3>1, <6>1, OthersFound DEF SetupInv
        <5> QED
          BY <5>1, <5>2
      <4>2. \A q \in Procs : BlankOK(q)'
        BY <3>1, <3>2, StepBlanks DEF SetupInv
      <4>3. \A i \in WorkspaceIds : RecordOK(i)'
        BY <3>1, <3>2, StepRecords DEF SetupInv
      <4> QED
        BY <4>1, <4>2, <4>3, FoundParts
    <3>9. AddReturnsReady'
      BY <3>1, <3>2, ReadyStep DEF SetupInv
    <3> QED
      BY <3>1, <3>2, <3>3, <3>4, <3>5, <3>6, <3>7, <3>8, <3>9 DEF SetupInv
  <2>2. ASSUME NEW d \in Paths, WorkInFolder(d) PROVE SetupInv'
    BY <2>2, WorkStep
  <2>3. CASE UNCHANGED setup
    <3> USE <2>3 DEF setup
    <3>1. SetupTypeOK' /\ AfterInv'
      BY DEF SetupInv, SetupTypeOK, AfterInv, Ended
    <3>2. PartsInv' /\ RefsInv'
      BY DEF SetupInv, PartsInv, RefsInv, RefMeansComplete, Temp
    <3>3. BranchInv' /\ ListInv'
      BY DEF SetupInv, BranchInv, Created, AtStep, ListInv, Together
    <3>4. LockedInv' /\ TakenInv' /\ RegistryConsistent'
      BY DEF SetupInv, LockedInv, TakenInv, Admitted, Takes, RegistryConsistent, Together
    <3>5. FolderInv' /\ AddReturnsReady'
      BY DEF SetupInv, FolderInv, Full, AddReturnsReady, AddReturned, AtStep, Disturbed,
             CrashedAt, Crashed, Together
    <3>6. FoundInv'
      <4>1. ASSUME NEW q \in Procs PROVE FoundOK(q)'
        BY FoundParts DEF SetupInv, FoundOK, Full, PathTaken, Taken, Takes
      <4>2. ASSUME NEW q \in Procs PROVE BlankOK(q)'
        BY FoundParts DEF SetupInv, BlankOK, AddReturned, AtStep, Disturbed, CrashedAt, Crashed,
                          Together
      <4>3. ASSUME NEW i \in WorkspaceIds PROVE RecordOK(i)'
        BY FoundParts DEF SetupInv, RecordOK, Full, CrashedAt, Crashed, Taken, Takes
      <4> QED
        BY <4>1, <4>2, <4>3, FoundParts
    <3> QED
      BY <3>1, <3>2, <3>3, <3>4, <3>5, <3>6 DEF SetupInv
  <2> QED
    BY <2>1, <2>2, <2>3 DEF SetupNext, SetupStep
<1> QED
  BY <1>1, SetupStart, PTL DEF SetupSpec

(* init writes the ref of main last: a repository whose current branch can *)
(* be read is complete, wherever an init was cut short.                    *)
THEOREM SetupRefMeansComplete == SetupSpec => []RefMeansComplete
<1>1. SetupInv => RefMeansComplete
  BY DEF SetupInv, RefsInv
<1> QED
  BY <1>1, SetupInvariant, PTL

(* create_branch: at most one of the processes that create a branch of one *)
(* name succeeds, and the ref is what it wrote.                            *)
THEOREM SetupBranchCreatedOnce == SetupSpec => []BranchCreatedOnce
<1>1. SetupInv => BranchCreatedOnce
  <2> SUFFICES ASSUME SetupInv PROVE BranchCreatedOnce
    OBVIOUS
  <2>1. \A r \in DOMAIN heads : r.temp = Nobody => heads[r] # 0
    BY DEF SetupInv, RefsInv
  <2> QED
    BY <2>1 DEF SetupInv, BranchInv, Created, BranchCreatedOnce
<1> QED
  BY <1>1, SetupInvariant, PTL

(* branches: a listing that overlaps no writer, with none crashed, lists   *)
(* no temporary file.                                                      *)
THEOREM SetupListingExact == SetupSpec => []ListingExact
<1>1. SetupInv => ListingExact
  <2> SUFFICES ASSUME SetupInv, NEW p \in Procs, AtStep(p, "list", "done"),
                      NEW r \in proc[p].listed, r.temp # Nobody
               PROVE  \E q \in Procs : /\ proc[q].op # "list" /\ proc[q].pc # "idle"
                                       /\ proc[q].pc = "crashed" \/ Together(p, q)
    BY DEF ListingExact, Crashed
  <2>1. r.temp \in Procs
    BY DEF SetupInv, SetupTypeOK, ProcStates, RefFiles
  <2> QED
    BY <2>1 DEF SetupInv, ListInv, AtStep
<1> QED
  BY <1>1, SetupInvariant, PTL

(* add_workspace: directories and records agree, and two workspaces in one *)
(* directory were added at the same time.                                  *)
THEOREM SetupRegistryConsistent == SetupSpec => []RegistryConsistent
<1>1. SetupInv => RegistryConsistent
  BY DEF SetupInv
<1> QED
  BY <1>1, SetupInvariant, PTL

(* add_workspace: a workspace that was added is ready for use unless the   *)
(* add was disturbed.                                                      *)
THEOREM SetupAddReturnsReady == SetupSpec => []AddReturnsReady
<1>1. SetupInv => AddReturnsReady
  BY DEF SetupInv
<1> QED
  BY <1>1, SetupInvariant, PTL

-----------------------------------------------------------------------------
(* What the lock file guarantees for every set of processes and every      *)
(* choice of the times, until the first crash, if guards are dropped       *)
(* before their file counts as stale.                                      *)

PromptHolders == MaxHold < StaleLockAge

(* Ages, waits and hold times stay within the bounds at which they stop,   *)
(* and the lock file belongs to a process or does not exist.               *)
THEOREM LockTypeCorrect == Spec => []TypeOK
<1>1. Init => TypeOK
  BY LockAssumption DEF Init, TypeOK, Labels
<1>2. TypeOK /\ [Next]_vars => TypeOK'
  <2> SUFFICES ASSUME TypeOK, [Next]_vars PROVE TypeOK'
    OBVIOUS
  <2> USE LockAssumption DEF TypeOK, Labels, Goto
  <2>1. ASSUME NEW p \in Contenders, Enter(p) PROVE TypeOK'
    BY <2>1 DEF Enter
  <2>2. ASSUME NEW p \in Contenders, CreateNew(p) PROVE TypeOK'
    BY <2>2 DEF CreateNew
  <2>3. ASSUME NEW p \in Contenders, CreateThenFail(p) PROVE TypeOK'
    BY <2>3 DEF CreateThenFail
  <2>4. ASSUME NEW p \in Contenders, AlreadyExists(p) PROVE TypeOK'
    BY <2>4 DEF AlreadyExists
  <2>5. ASSUME NEW p \in Contenders, StatLock(p) PROVE TypeOK'
    BY <2>5 DEF StatLock
  <2>6. ASSUME NEW p \in Contenders, RemoveFile(p) PROVE TypeOK'
    BY <2>6 DEF RemoveFile
  <2>7. ASSUME NEW p \in Contenders, CheckElapsed(p) PROVE TypeOK'
    BY <2>7 DEF CheckElapsed
  <2>8. ASSUME NEW p \in Contenders, DropGuard(p) PROVE TypeOK'
    BY <2>8 DEF DropGuard
  <2>9. ASSUME NEW p \in Contenders, Crash(p) PROVE TypeOK'
    BY <2>9 DEF Crash
  <2>10. CASE Tick
    BY <2>10 DEF Tick, AtMost
  <2>11. CASE UNCHANGED vars
    BY <2>11 DEF vars
  <2> QED
    BY <2>1, <2>2, <2>3, <2>4, <2>5, <2>6, <2>7, <2>8, <2>9, <2>10, <2>11
    DEF Next, Step
<1> QED
  BY <1>1, <1>2, PTL DEF Spec

(* While nobody crashes and guards are dropped in time, the guard and the  *)
(* lock file always agree: the stale-lock branch is never taken.           *)
LEMMA GuardStep ==
    ASSUME PromptHolders, TypeOK, GuardMatchesFile, [Next]_vars
    PROVE  GuardMatchesFile'
<1> USE LockAssumption DEF TypeOK, GuardMatchesFile, Goto, PromptHolders
<1>1. ASSUME NEW p \in Contenders, Enter(p) PROVE GuardMatchesFile'
  BY <1>1 DEF Enter
<1>2. ASSUME NEW p \in Contenders, CreateNew(p) PROVE GuardMatchesFile'
  BY <1>2 DEF CreateNew
<1>3. ASSUME NEW p \in Contenders, CreateThenFail(p) PROVE GuardMatchesFile'
  BY <1>3 DEF CreateThenFail
<1>4. ASSUME NEW p \in Contenders, AlreadyExists(p) PROVE GuardMatchesFile'
  BY <1>4 DEF AlreadyExists
<1>5. ASSUME NEW p \in Contenders, StatLock(p) PROVE GuardMatchesFile'
  <2>1. CASE faults # 0
    BY <1>5, <2>1 DEF StatLock
  <2>2. CASE faults = 0
    <3>1. ~(owner # Free /\ age >= StaleLockAge)
      BY <2>2 DEF Labels
    <3> QED
      BY <1>5, <2>2, <3>1 DEF StatLock
  <2> QED
    BY <2>1, <2>2
<1>6. ASSUME NEW p \in Contenders, RemoveFile(p) PROVE GuardMatchesFile'
  BY <1>6 DEF RemoveFile
<1>7. ASSUME NEW p \in Contenders, CheckElapsed(p) PROVE GuardMatchesFile'
  BY <1>7 DEF CheckElapsed
<1>8. ASSUME NEW p \in Contenders, DropGuard(p) PROVE GuardMatchesFile'
  BY <1>8 DEF DropGuard
<1>9. ASSUME NEW p \in Contenders, Crash(p) PROVE GuardMatchesFile'
  BY <1>9 DEF Crash
<1>10. CASE Tick
  BY <1>10 DEF Tick, AtMost
<1>11. CASE UNCHANGED vars
  BY <1>11 DEF vars
<1> QED
  BY <1>1, <1>2, <1>3, <1>4, <1>5, <1>6, <1>7, <1>8, <1>9, <1>10, <1>11
  DEF Next, Step

LEMMA GuardInvariant ==
    ASSUME PromptHolders
    PROVE  Spec => []GuardMatchesFile
<1>1. Init => GuardMatchesFile
  BY LockAssumption DEF Init, GuardMatchesFile
<1>2. TypeOK /\ GuardMatchesFile /\ [Next]_vars => GuardMatchesFile'
  BY GuardStep
<1> QED
  BY <1>1, <1>2, LockTypeCorrect, PTL DEF Spec

(* Branch refs, workspace refs and the index rebuild are serialized: two   *)
(* processes never both hold the guard of one lock file.                   *)
THEOREM LockExcludes ==
    ASSUME PromptHolders
    PROVE  Spec => []ExcludesUntilFault
<1>1. GuardMatchesFile => ExcludesUntilFault
  BY DEF GuardMatchesFile, ExcludesUntilFault, MutualExclusion
<1> QED
  BY <1>1, GuardInvariant, PTL

(* The create / stat / remove / sleep protocol implements the lock that    *)
(* Repository's operations take: a guard is handed out only while nobody   *)
(* has one and stays until its owner drops it.                             *)
THEOREM LockRefines ==
    ASSUME PromptHolders
    PROVE  Spec => ImplementsLock
<1>1. Init => Abstract!Init
  BY DEF Init, Guards, Abstract!Init
<1>2. TypeOK /\ GuardMatchesFile /\ [Next]_vars => [Abstract!Next]_Guards
  <2> SUFFICES ASSUME TypeOK, GuardMatchesFile, [Next]_vars
               PROVE  [Abstract!Next]_Guards
    OBVIOUS
  <2> USE LockAssumption DEF TypeOK
  <2>1. CASE faults # 0
    <3>1. faults' # 0
      BY <2>1 DEF Next, Step, Enter, CreateNew, CreateThenFail, AlreadyExists,
         StatLock, RemoveFile, CheckElapsed, DropGuard, Crash, Tick, vars
    <3> QED
      BY <2>1, <3>1 DEF Guards
  <2>2. CASE faults = 0
    <3>1. Guards = {p \in Contenders : pc[p] = "held"}
      BY <2>2 DEF Guards
    <3>2. ASSUME NEW p \in Contenders, CreateNew(p) PROVE Abstract!Acquire(p)
      <4>1. \A q \in Contenders : pc[q] # "held" /\ pc'[q] = IF q = p THEN "held" ELSE pc[q]
        BY <2>2, <3>2 DEF CreateNew, Goto, GuardMatchesFile
      <4>2. faults' = 0
        BY <2>2, <3>2 DEF CreateNew
      <4>3. Guards = {} /\ Guards' = {p}
        BY <3>1, <4>1, <4>2 DEF Guards
      <4> QED
        BY <4>3 DEF Abstract!Acquire
    <3>3. ASSUME NEW p \in Contenders, pc[p] = "held" PROVE Guards = {p}
      BY <2>2, <3>1, <3>3 DEF GuardMatchesFile
    <3>4. ASSUME NEW p \in Contenders, DropGuard(p) PROVE Abstract!Release(p)
      <4>1. \A q \in Contenders : pc'[q] # "held"
        BY <3>1, <3>3, <3>4 DEF DropGuard, Goto
      <4>2. Guards = {p} /\ Guards' = {}
        BY <3>3, <3>4, <4>1 DEF DropGuard, Guards
      <4> QED
        BY <4>2 DEF Abstract!Release
    <3>5. ASSUME NEW p \in Contenders, CreateThenFail(p) \/ Crash(p)
          PROVE  [Abstract!Next]_Guards
      <4>1. Guards' = {}
        BY <2>2, <3>5 DEF CreateThenFail, Crash, Guards
      <4>2. Guards = {} \/ \E q \in Contenders : Guards = {q}
        BY <3>1, <3>3
      <4> QED
        BY <4>1, <4>2 DEF Abstract!Next, Abstract!Release
    <3>6. ASSUME NEW p \in Contenders,
                 Enter(p) \/ AlreadyExists(p) \/ StatLock(p) \/ RemoveFile(p) \/ CheckElapsed(p)
          PROVE  UNCHANGED Guards
      <4>1. faults' = faults /\ \A q \in Contenders : pc'[q] = "held" <=> pc[q] = "held"
        BY <3>6 DEF Enter, AlreadyExists, StatLock, RemoveFile, CheckElapsed, Goto
      <4> QED
        BY <4>1 DEF Guards
    <3>7. ASSUME Tick \/ UNCHANGED vars PROVE UNCHANGED Guards
      BY <3>7 DEF Tick, vars, Guards
    <3> QED
      BY <3>2, <3>4, <3>5, <3>6, <3>7 DEF Next, Step, Abstract!Next
  <2> QED
    BY <2>1, <2>2
<1> QED
  BY <1>1, <1>2, LockTypeCorrect, GuardInvariant, PTL
  DEF Spec, ImplementsLock, Abstract!Spec
=============================================================================

------------------------------- MODULE MCParts -------------------------------
(* The parts of the system that share no state: the line merge, the object *)
(* codecs, the drawing of the timeline, the materializer, and how          *)
(* repositories, branches and workspaces are set up.  A behaviour is a run *)
(* of one of them, the others stay idle.                                   *)
EXTENDS LineMerge, ObjectCodec, Timeline, MCWorkingTree, MCSetup

CONSTANTS a, b, c, x, y,
          MaxLines,     \* bound: lines of a file that is merged
          Snaps         \* bound: snapshots in a timeline

-----------------------------------------------------------------------------
(* Merges.                                                                 *)

(* Files of at most n lines of the given words; the last line may have no  *)
(* newline.                                                                *)
Files(words, n) ==
    LET terminated == {FlattenSeq([i \in DOMAIN s |-> <<s[i], Newline>>]) :
                          s \in BoundedSeq(words, n)}
    IN terminated \cup {Front(f) : f \in terminated \ {<<>>}}

(* Words are only compared, so a base may be taken to use a before b       *)
(* before c.                                                               *)
Bases == {f \in Files({a, b, c}, MaxLines) :
             \A i \in DOMAIN f :
                /\ f[i] = b => \E j \in 1..(i - 1) : f[j] = a
                /\ f[i] = c => \E j \in 1..(i - 1) : f[j] = b}

ShortMerges == [base: Bases, ours: Files({a, b, c}, MaxLines),
                theirs: Files({a, b}, MaxLines - 1)]

(* A base of seven lines of which each side rewrites any: long enough for  *)
(* a chain of edits in which each overlaps the next of the other side.     *)
Rewrites(word) ==
    {FlattenSeq([i \in 1..7 |-> <<IF i \in S THEN word ELSE i, Newline>>]) :
        S \in SUBSET (1..7)}
LongMerges == [base: {FlattenSeq([i \in 1..7 |-> <<i, Newline>>])},
               ours: Rewrites(x), theirs: Rewrites(y)]

(* Versions that are absent, binary or too large.                          *)
Odd == {Absent, <<>>, <<a, Newline>>, <<b, Newline>>, <<a, Nul>>,
        [i \in 1..(MaxTextMergeBytes + 1) |-> a]}
OddMerges == [base: Odd, ours: Odd, theirs: Odd]

AllMerges == ShortMerges \cup LongMerges \cup OddMerges

(* The default engine, and for odd versions engines with other strategies. *)
Engines(merge) ==
    {<<"line">>} \cup IF merge \in OddMerges
                     THEN {<<>>, <<"other">>, <<"other", "line">>} ELSE {}

-----------------------------------------------------------------------------
(* Objects.  Bytes 14 and 15 are letters.                                  *)

Words == {<<14>>, <<14, 14>>, <<15>>}
SomeListings == BoundedSeq([kind: KindTags, name: Words, id: {7}], 2)
                \cup [1..3 -> [kind: {1}, name: Words, id: {7}]]
SomeSnapshots ==
    [root: {3}, parents: {<<>>, <<4>>}, time: {1},
     author: {<<<<>>>>}, message: {<<>>, <<<<14, 15>>>>}, source: {<<14>>},
     attributes: UNION {[K -> {<<14>>}] : K \in SUBSET {<<14>>, <<14, 14>>}}]
SomeDeltas == [base: BoundedSeq({1, 2}, 3), baseDepth: 0..MaxDeltaDepth,
               target: BoundedSeq({1, 2}, 4)]
SomeGarbage == {0, 1, 2, 4, NonUtf8, 2^Width - 1}

-----------------------------------------------------------------------------
(* Snapshot graphs: every forest, with first parents that are listed, not  *)
(* listed or none, and at most one landmark.                               *)

Unlisted == Snaps + 1
Acyclic(p) == \A S \in SUBSET (1..Snaps) : S # {} => \E i \in S : p[i] \notin S
FirstParents == {p \in [1..Snaps -> 0..Unlisted] : Acyclic(p)}
Landmarks == {"none", "saved", "current", "worktree", "label", "merge"}
SomeGraphs ==
    {[i \in 1..Snaps |->
        [parents  |-> IF p[i] = 0 THEN <<>>
                      ELSE IF i = k /\ m = "merge" THEN <<p[i], Unlisted>>
                      ELSE <<p[i]>>,
         time     |-> IF backwards THEN Snaps - i ELSE 1,
         auto     |-> ~(i = k /\ m = "saved"),
         current  |-> i = k /\ m = "current",
         worktree |-> i = k /\ m = "worktree",
         label    |-> i = k /\ m = "label"]] :
        p \in FirstParents, m \in Landmarks, k \in 1..Snaps, backwards \in BOOLEAN}

-----------------------------------------------------------------------------
NoMerge ==
    /\ input = [base |-> Absent, ours |-> Absent, theirs |-> Absent]
    /\ chain = <<>> /\ tried = 0 /\ pc = "done"
    /\ oursEdits = <<>> /\ theirsEdits = <<>>
    /\ basePos = 0 /\ oursIndex = 1 /\ theirsIndex = 1
    /\ hunks = <<>> /\ conflicted = FALSE /\ outcome = <<>>
NoObject == object = [type |-> "none"] /\ file = <<>> /\ damages = 0
NoDrawing == graph = <<>> /\ calls = <<>> /\ lines = <<>>
NoTree ==
    /\ disk = EmptyTree /\ policy = "Skip" /\ targets = {} /\ dirs = <<>>
    /\ objects = {} /\ dirty = {} /\ sent = {} /\ synced = FALSE
    /\ checkout = NoCheckout /\ report = Nothing
    /\ left = [edits |-> 0, ops |-> 0, crashes |-> 0]

NoSetup ==
    /\ made = {} /\ newest = 0 /\ heads = <<>>
    /\ wsRef = [i \in WorkspaceIds |-> 0] /\ record = [i \in WorkspaceIds |-> Nobody]
    /\ pointer = [d \in Paths |-> Nobody] /\ folder = [d \in Paths |-> "absent"]
    /\ locked = [i \in WorkspaceIds |-> Nobody]
    /\ proc = [p \in Procs |-> [op |-> "none", pc |-> "done"]]

PartsInit ==
    \/ Init /\ NoObject /\ NoDrawing /\ NoTree /\ NoSetup
    \/ CodecInit /\ NoMerge /\ NoDrawing /\ NoTree /\ NoSetup
    \/ TimelineInit /\ NoMerge /\ NoObject /\ NoTree /\ NoSetup
    \/ TreeInit /\ NoMerge /\ NoObject /\ NoDrawing /\ NoSetup
    \/ SetupInit /\ NoMerge /\ NoObject /\ NoDrawing /\ NoTree

PartsNext ==
    \/ Next /\ UNCHANGED <<codec, drawing, work, setup>>
    \/ CodecNext /\ UNCHANGED <<vars, drawing, work, setup>>
    \/ TimelineNext /\ UNCHANGED <<vars, codec, work, setup>>
    \/ TreeNext /\ UNCHANGED <<vars, codec, drawing, setup>>
    \/ SetupNext /\ UNCHANGED <<vars, codec, drawing, work>>

PartsSpec == PartsInit /\ [][PartsNext]_<<vars, codec, drawing, work, setup>>
=============================================================================

------------------------------ MODULE LineMerge -------------------------------
(* The merge of one file (merge/src/lib.rs): the engine tries its          *)
(* strategies in order, the line strategy handles absent, equal, binary    *)
(* and large files as a whole and walks through the edits of both sides    *)
(* otherwise.  One action is one branch of that walk.                      *)
(*                                                                         *)
(* A file is Absent or a sequence of bytes.  A byte is a word, which       *)
(* stands for the text of a line, or Newline or Nul: all that the merge    *)
(* looks at.                                                               *)
EXTENDS LineDiff

CONSTANTS
    Newline, Nul,          \* the two bytes with a meaning of their own
    Absent,                \* a version that does not exist
    Inputs,                \* the merges: records base, ours, theirs
    Chains(_),             \* an input's engines: chains of "line" and "other"
    MaxTextMergeBytes      \* MAX_TEXT_MERGE_BYTES

ASSUME MergeAssumption ==
    /\ MaxTextMergeBytes \in Nat
    /\ \A i \in Inputs : \A v \in {i.base, i.ours, i.theirs} :
          v = Absent \/ v \in Seq(ToSet(v))

VARIABLES
    input,         \* the FileMergeInput
    chain, tried,  \* the engine's strategies, and how many have declined
    pc,            \* "engine", "lines" or "done"
    oursEdits, theirsEdits,     \* edit regions of the two sides
    basePos, oursIndex, theirsIndex,  \* how far the walk has come
    hunks, conflicted,
    outcome        \* the MergeOutcome, once done

walk == <<oursEdits, theirsEdits, basePos, oursIndex, theirsIndex>>
vars == <<input, chain, tried, pc, walk, hunks, conflicted, outcome>>

-----------------------------------------------------------------------------
(* Bytes and hunks.                                                        *)

(* A byte more: of the last line, or of a new one after a newline.         *)
AddByte(lines, byte) ==
    IF lines = <<>> \/ Last(Last(lines)) = Newline THEN Append(lines, <<byte>>)
    ELSE [lines EXCEPT ![Len(lines)] = Append(@, byte)]

(* Mutant: an unterminated last line is dropped.                           *)
SplitLinesTerminated(bytes) ==
    LET lines[i \in 0..Len(bytes)] ==
            IF i = 0 THEN <<>> ELSE AddByte(lines[i - 1], bytes[i])
    IN IF bytes # <<>> /\ Last(bytes) # Newline THEN Front(lines[Len(bytes)])
       ELSE lines[Len(bytes)]

(* split_lines: a line ends with its newline; the last one may have none.  *)
SplitLines(bytes) ==
    LET lines[i \in 0..Len(bytes)] ==
            IF i = 0 THEN <<>> ELSE AddByte(lines[i - 1], bytes[i])
    IN lines[Len(bytes)]

(* lines_to_bytes *)
LinesToBytes(lines) == FlattenSeq(lines)

BaseLines == SplitLines(input.base)

Resolved(bytes) == [kind |-> "Resolved", bytes |-> bytes]
Conflict(kind, base, ours, theirs) ==
    [kind |-> kind, base |-> base, ours |-> ours, theirs |-> theirs]

(* push_resolved_bytes: neighbouring resolved hunks become one.            *)
PushResolved(list, bytes) ==
    IF bytes = <<>> THEN list
    ELSE IF list # <<>> /\ Last(list).kind = "Resolved"
         THEN [list EXCEPT ![Len(list)].bytes = @ \o bytes]
         ELSE Append(list, Resolved(bytes))

(* classify_content_conflict *)
ContentConflict(base, ours, theirs) ==
    Conflict(IF base = <<>> THEN "BothInserted"
             ELSE IF ours = <<>> \/ theirs = <<>> THEN "ModifyDelete"
             ELSE "BothModified", base, ours, theirs)

(* What a range of base lines becomes: resolved where both sides agree.    *)
PushRange(list, base, ours, theirs) ==
    IF ours = theirs THEN PushResolved(list, ours)
    ELSE Append(list, ContentConflict(base, ours, theirs))

-----------------------------------------------------------------------------
(* Conflict groups.                                                        *)

(* Mutant: an insertion at the end of the range counts as inside.          *)
EditInsideConflictWide(edit, start, end) ==
    IF start = end THEN IsInsertion(edit) /\ edit.start = start
    ELSE edit.start <= end /\ edit.end > start

(* edit_inside_conflict *)
EditInsideConflict(edit, start, end) ==
    IF start = end THEN IsInsertion(edit) /\ edit.start = start
    ELSE IF IsInsertion(edit) THEN start < edit.start /\ edit.start < end
    ELSE edit.start < end /\ start < edit.end

(* How many edits from the n-th on are inside, each extending the range    *)
(* for the next: the inner loops of conflict_group.                        *)
TakeInside(edits, n, start, end) ==
    LET take[p \in (1..(Len(edits) + 1)) \X Nat] ==
            LET k == p[1]
                e == p[2]
            IN IF k <= Len(edits) /\ EditInsideConflict(edits[k], start, e)
               THEN take[<<k + 1, Max({e, edits[k].end})>>]
               ELSE [next |-> k, end |-> e]
    IN take[<<n, end>>]

(* Mutant: the range is extended once by each side.                        *)
ConflictGroupOnce(start, initialEnd) ==
    LET o == TakeInside(oursEdits, oursIndex, start, initialEnd)
        t == TakeInside(theirsEdits, theirsIndex, start, o.end)
    IN [end |-> t.end, ours |-> o.next, theirs |-> t.next]

(* conflict_group: both sides' edits are taken in turns until neither has  *)
(* one inside the range.                                                   *)
ConflictGroup(start, initialEnd) ==
    LET grow[p \in Nat \X (1..(Len(oursEdits) + 1)) \X (1..(Len(theirsEdits) + 1))] ==
            LET o == TakeInside(oursEdits, p[2], start, p[1])
                t == TakeInside(theirsEdits, p[3], start, o.end)
            IN IF o.next = p[2] /\ t.next = p[3]
               THEN [end |-> p[1], ours |-> p[2], theirs |-> p[3]]
               ELSE grow[<<t.end, o.next, t.next>>]
    IN grow[<<initialEnd, oursIndex, theirsIndex>>]

(* apply_edits_to_range *)
ApplyEditsToRange(lines, edits, start, end) ==
    LET Apply(acc, edit) ==
            [bytes  |-> acc.bytes
                        \o LinesToBytes(Slice(lines, acc.cursor, edit.start))
                        \o LinesToBytes(edit.replacement),
             cursor |-> Max({acc.cursor, edit.end})]
        applied == FoldLeft(Apply, [bytes |-> <<>>, cursor |-> start], edits)
    IN applied.bytes \o LinesToBytes(Slice(lines, applied.cursor, end))

-----------------------------------------------------------------------------
Init ==
    /\ input \in Inputs
    /\ chain \in Chains(input)
    /\ tried = 0
    /\ pc = "engine"
    /\ oursEdits = <<>> /\ theirsEdits = <<>>
    /\ basePos = 0 /\ oursIndex = 1 /\ theirsIndex = 1
    /\ hunks = <<>>
    /\ conflicted = FALSE
    /\ outcome = <<>>

Done(result) ==
    /\ pc' = "done"
    /\ outcome' = result
    /\ UNCHANGED <<input, chain, tried, walk, hunks, conflicted>>

WholeFile(kind) ==
    Done(<<Conflict(kind, input.base, input.ours, input.theirs)>>)

(* MergeEngine::merge: a strategy declines and the next one is tried.      *)
StrategyDeclines ==
    /\ pc = "engine"
    /\ tried < Len(chain)
    /\ chain[tried + 1] # "line"
    /\ tried' = tried + 1
    /\ UNCHANGED <<input, chain, pc, walk, hunks, conflicted, outcome>>

(* All strategies have declined.                                           *)
Unsupported ==
    /\ pc = "engine"
    /\ tried = Len(chain)
    /\ WholeFile("Unsupported")

LineStrategy ==
    /\ pc = "engine"
    /\ tried < Len(chain)
    /\ chain[tried + 1] = "line"

OneSided == \/ input.ours = input.theirs
            \/ input.base \in {input.ours, input.theirs}

(* merge_line_input where at most one side differs from the base, or both  *)
(* made the same file.  A deletion is the result Absent.                   *)
ResolveWhole ==
    /\ LineStrategy
    /\ OneSided
    /\ Done(<<Resolved(IF input.base = input.ours THEN input.theirs
                                                  ELSE input.ours)>>)

(* Two different new files, or a change on one side and a deletion on the  *)
(* other.                                                                  *)
ConflictWhole ==
    /\ LineStrategy
    /\ ~OneSided
    /\ \/ /\ input.base = Absent
          /\ WholeFile("BothAdded")
       \/ /\ input.base # Absent
          /\ Absent \in {input.ours, input.theirs}
          /\ WholeFile("ModifyDelete")

Versions == {input.base, input.ours, input.theirs}

(* merge_present_lines: what is binary or too large is not compared.       *)
RejectLines ==
    /\ LineStrategy
    /\ ~OneSided
    /\ Absent \notin Versions
    /\ \/ /\ \E v \in Versions : Contains(v, Nul)
          /\ WholeFile("Binary")
       \/ /\ \A v \in Versions : ~Contains(v, Nul)
          /\ \E v \in Versions : Len(v) > MaxTextMergeBytes
          /\ WholeFile("TooLarge")

StartLines ==
    /\ LineStrategy
    /\ ~OneSided
    /\ Absent \notin Versions
    /\ \A v \in Versions : ~Contains(v, Nul) /\ Len(v) <= MaxTextMergeBytes
    /\ pc' = "lines"
    /\ oursEdits' = EditRegions(BaseLines, SplitLines(input.ours))
    /\ theirsEdits' = EditRegions(BaseLines, SplitLines(input.theirs))
    /\ UNCHANGED <<input, chain, tried, basePos, oursIndex, theirsIndex,
                   hunks, conflicted, outcome>>

-----------------------------------------------------------------------------
(* The walk.                                                               *)

OursLeft == oursIndex <= Len(oursEdits)
TheirsLeft == theirsIndex <= Len(theirsEdits)
OursEdit == oursEdits[oursIndex]
TheirsEdit == theirsEdits[theirsIndex]

(* The hunks, with the unchanged lines up to the given position.           *)
UpTo(pos) == PushResolved(hunks, LinesToBytes(Slice(BaseLines, basePos, pos)))

SamePlace ==
    /\ OursLeft /\ TheirsLeft
    /\ IsInsertion(OursEdit) /\ IsInsertion(TheirsEdit)
    /\ OursEdit.start = TheirsEdit.start

OursBefore ==
    OursLeft /\ (TheirsLeft => OursEdit.end <= TheirsEdit.start)

TheirsBefore ==
    TheirsLeft /\ (OursLeft => TheirsEdit.end <= OursEdit.start)

(* Both sides inserted at the same place.                                  *)
BothInsert ==
    /\ pc = "lines"
    /\ SamePlace
    /\ LET ours   == LinesToBytes(OursEdit.replacement)
           theirs == LinesToBytes(TheirsEdit.replacement)
       IN /\ hunks' = PushRange(UpTo(OursEdit.start), <<>>, ours, theirs)
          /\ conflicted' = (conflicted \/ ours # theirs)
    /\ basePos' = OursEdit.start
    /\ oursIndex' = oursIndex + 1
    /\ theirsIndex' = theirsIndex + 1
    /\ UNCHANGED <<input, chain, tried, pc, oursEdits, theirsEdits, outcome>>

(* apply_resolved_edit *)
ApplyResolved(edit) ==
    /\ hunks' = PushResolved(UpTo(edit.start), LinesToBytes(edit.replacement))
    /\ basePos' = edit.end
    /\ UNCHANGED <<input, chain, tried, pc, oursEdits, theirsEdits,
                   conflicted, outcome>>

ApplyOurs ==
    /\ pc = "lines"
    /\ ~SamePlace
    /\ OursBefore
    /\ ApplyResolved(OursEdit)
    /\ oursIndex' = oursIndex + 1
    /\ UNCHANGED theirsIndex

ApplyTheirs ==
    /\ pc = "lines"
    /\ ~SamePlace
    /\ ~OursBefore
    /\ TheirsBefore
    /\ ApplyResolved(TheirsEdit)
    /\ theirsIndex' = theirsIndex + 1
    /\ UNCHANGED oursIndex

(* Edits that overlap are merged as one range.                             *)
Overlap ==
    /\ pc = "lines"
    /\ OursLeft /\ TheirsLeft
    /\ ~SamePlace /\ ~OursBefore /\ ~TheirsBefore
    /\ LET start  == Min({OursEdit.start, TheirsEdit.start})
           group  == ConflictGroup(start, Max({OursEdit.end, TheirsEdit.end}))
           ours   == ApplyEditsToRange(BaseLines,
                         SubSeq(oursEdits, oursIndex, group.ours - 1),
                         start, group.end)
           theirs == ApplyEditsToRange(BaseLines,
                         SubSeq(theirsEdits, theirsIndex, group.theirs - 1),
                         start, group.end)
       IN /\ hunks' = PushRange(UpTo(start),
                          LinesToBytes(Slice(BaseLines, start, group.end)),
                          ours, theirs)
          /\ conflicted' = (conflicted \/ ours # theirs)
          /\ basePos' = group.end
          /\ oursIndex' = group.ours
          /\ theirsIndex' = group.theirs
    /\ UNCHANGED <<input, chain, tried, pc, oursEdits, theirsEdits, outcome>>

(* concat_resolved_hunks *)
ConcatResolved(list) ==
    FlattenSeq([k \in DOMAIN list |->
                  IF list[k].kind = "Resolved" THEN list[k].bytes ELSE <<>>])

(* No edit is left: the rest of the base follows.                          *)
Finish ==
    /\ pc = "lines"
    /\ ~OursLeft /\ ~TheirsLeft
    /\ pc' = "done"
    /\ hunks' = UpTo(Len(BaseLines))
    /\ outcome' = IF conflicted THEN hunks'
                                ELSE <<Resolved(ConcatResolved(hunks'))>>
    /\ UNCHANGED <<input, chain, tried, walk, conflicted>>

Next ==
    \/ StrategyDeclines \/ Unsupported
    \/ ResolveWhole \/ ConflictWhole \/ RejectLines \/ StartLines
    \/ BothInsert \/ ApplyOurs \/ ApplyTheirs \/ Overlap \/ Finish

Spec == Init /\ [][Next]_vars

-----------------------------------------------------------------------------
(* The reference: what the merge of two lists of edits is, without a walk. *)

AllEdits == {<<"ours", n>> : n \in DOMAIN oursEdits}
            \cup {<<"theirs", n>> : n \in DOMAIN theirsEdits}
EditAt(x) == IF x[1] = "ours" THEN oursEdits[x[2]] ELSE theirsEdits[x[2]]

(* Two edits of different sides compete when they share a base line, when  *)
(* one inserts between lines the other replaces, or when both insert at    *)
(* one place.  Edits that only touch do not.                               *)
Compete(x, y) ==
    LET e == EditAt(x)
        f == EditAt(y)
    IN /\ x[1] # y[1]
       /\ \/ e.start < f.end /\ f.start < e.end
          \/ IsInsertion(e) /\ IsInsertion(f) /\ e.start = f.start

(* The edits connected with x by a path of competing edits.                *)
Cluster(x) ==
    LET reach[n \in Nat] ==
            IF n = 0 THEN {x}
            ELSE LET r == reach[n - 1]
                 IN r \cup {y \in AllEdits : \E z \in r : Compete(y, z)}
    IN reach[Cardinality(AllEdits)]

StartOf(C) == Min({EditAt(x).start : x \in C})
EndOf(C) == Max({EditAt(x).end : x \in C})

(* What one side makes of the base lines of a cluster.                     *)
SideOfCluster(C, side, edits) ==
    LET taken == SelectSeq([n \in DOMAIN edits |-> n],
                           LAMBDA n : <<side, n>> \in C)
        from  == StartOf(C)
        moved == [k \in DOMAIN taken |->
                    EditRegion(edits[taken[k]].start - from,
                               edits[taken[k]].end - from,
                               edits[taken[k]].replacement)]
    IN LinesToBytes(Patch(Slice(BaseLines, from, EndOf(C)), moved))

PushCluster(list, C) ==
    LET ours   == SideOfCluster(C, "ours", oursEdits)
        theirs == SideOfCluster(C, "theirs", theirsEdits)
        sides  == {x[1] : x \in C}
    IN IF sides = {"ours"} THEN PushResolved(list, ours)
       ELSE IF sides = {"theirs"} THEN PushResolved(list, theirs)
       ELSE PushRange(list, LinesToBytes(Slice(BaseLines, StartOf(C), EndOf(C))),
                      ours, theirs)

(* The clusters from left to right, with the unchanged lines between them. *)
ReferenceHunks ==
    LET Before(C, D) == \/ StartOf(C) < StartOf(D)
                        \/ StartOf(C) = StartOf(D) /\ EndOf(C) <= EndOf(D)
        sorted[S \in SUBSET SUBSET AllEdits] ==
            IF S = {} THEN <<>>
            ELSE LET first == CHOOSE C \in S : \A D \in S : Before(C, D)
                 IN <<first>> \o sorted[S \ {first}]
        Place(acc, C) ==
            [list |-> PushCluster(PushResolved(acc.list, LinesToBytes(
                          Slice(BaseLines, acc.pos, StartOf(C)))), C),
             pos  |-> EndOf(C)]
        placed == FoldLeft(Place, [list |-> <<>>, pos |-> 0],
                           sorted[{Cluster(x) : x \in AllEdits}])
    IN PushResolved(placed.list,
                    LinesToBytes(Slice(BaseLines, placed.pos, Len(BaseLines))))

-----------------------------------------------------------------------------
(* Properties.                                                             *)

(* The edits found by patience matching with its fallback rebuild each     *)
(* side from the base, byte for byte, and leave an unchanged line between  *)
(* any two of them.                                                        *)
EditsRebuildSides ==
    pc = "lines" =>
        /\ Separated(BaseLines, oursEdits)
        /\ Separated(BaseLines, theirsEdits)
        /\ LinesToBytes(Patch(BaseLines, oursEdits)) = input.ours
        /\ LinesToBytes(Patch(BaseLines, theirsEdits)) = input.theirs

(* The slices the walk takes from the base lines are ranges of them: what  *)
(* has been output never lies beyond the next edit of either side.  In the *)
(* code the opposite is a panic.                                           *)
SlicesInBounds ==
    pc = "lines" =>
        /\ basePos <= Len(BaseLines)
        /\ OursLeft => basePos <= OursEdit.start
        /\ TheirsLeft => basePos <= TheirsEdit.start

(* The outcome is the reference: one-sided edits are taken over, edits     *)
(* that only touch are both taken over, competing edits make one conflict  *)
(* with everything either side did to those lines, and which side is       *)
(* called ours does not matter.                                            *)
OutcomeIsReference ==
    (pc = "done" /\ oursEdits # <<>>) =>
        outcome = IF \E k \in DOMAIN ReferenceHunks :
                        ReferenceHunks[k].kind # "Resolved"
                  THEN ReferenceHunks
                  ELSE <<Resolved(ConcatResolved(ReferenceHunks))>>

=============================================================================

---------------------------- MODULE MCWorkingTree ----------------------------
(* Working directories for WorkingTree.  The names are 0 (.era), 1 and 3,  *)
(* and 2, which is excluded as a directory.                                *)
EXTENDS WorkingTree

CONSTANTS MaxEdits, MaxOps, MaxCrashes    \* bounds

(* The forms an entry can have: nothing, a file, a directory...            *)
None == EmptyTree
File(name, content) == Just(<<name>>, content)
Dir(name, inside) == Entry(name, "dir", inside)

Era == Dir(0, File(1, "c1"))

(* Entry 1 of the root, entry 2 and entry 3.                               *)
Firsts == {None, File(1, "c1"), File(1, "c2"), File(1, "link"), File(1, "other"),
           Dir(1, None), Dir(1, File(1, "c1")), Dir(1, Plus(File(1, "c2"), Dir(2, None))),
           Dir(1, File(2, "dir")), Dir(1, File(1, "link")), Dir(1, Dir(1, None)),
           Dir(1, File(0, "c1"))}
Seconds == {None, File(2, "c1"), Dir(2, File(1, "c1"))}
Thirds == {None, File(3, "c1")}
SomeDisks == {Plus(Plus(Era, d1), Plus(d2, d3)) : d1 \in Firsts, d2 \in Seconds, d3 \in Thirds}

SomeTargets ==
    {Plus(t1, Plus(t2, t3)) :
        t1 \in {None, File(1, "c1"), Dir(1, None), Dir(1, Plus(File(1, "c1"), File(2, "c1"))),
                Dir(1, Dir(1, None))},
        t2 \in {None, File(2, "c1")},
        t3 \in {None, File(3, "c2"), Dir(3, None)}}

(* One operation on anything, and a checkout after one that crashed.       *)
AnyTree == [disk: SomeDisks, policy: {"Skip"}, targets: {{t} : t \in SomeTargets},
            left: {[edits |-> 0, ops |-> 1 + MaxCrashes, crashes |-> MaxCrashes]}]
Strict == [disk: SomeDisks, policy: {"Error"}, targets: {{None}, {Dir(1, None)}},
           left: {[edits |-> 0, ops |-> 1, crashes |-> 0]}]

(* Operations among edits, from a few working directories.                 *)
SomeEdits ==
    {[path |-> <<1>>, kind |-> k, tree |-> None] : k \in {NotThere, "c1", "link"}}
    \cup {[path |-> <<1>>, kind |-> "dir", tree |-> t] : t \in {File(1, "c2"), Dir(1, None)}}
    \cup {[path |-> <<1, 1>>, kind |-> k, tree |-> None] : k \in {NotThere, "c1", "dir", "other"}}
    \cup {[path |-> <<2>>, kind |-> "dir", tree |-> None]}
Busy == [disk: {Plus(Era, d) : d \in {None, File(1, "c1"), Dir(1, File(1, "c1"))}},
         policy: {"Skip"}, targets: {{None, Dir(1, File(1, "c2"))}},
         left: {[edits |-> MaxEdits, ops |-> MaxOps, crashes |-> 1]}]

AllTrees == AnyTree \cup Strict \cup Busy

(* For hints that come late or apart: no links, no checkouts needed.       *)
Late == [disk: {Plus(Era, Dir(1, File(1, "c1")))}, policy: {"Skip"}, targets: {{None}},
         left: {[edits |-> MaxEdits, ops |-> MaxOps, crashes |-> 0]}]
=============================================================================

------------------------------- MODULE Timeline -------------------------------
(* The drawing of the snapshot tree (TimelineGraphRenderer in              *)
(* cli/src/main.rs): a depth-first walk along first parents, in which runs *)
(* of automatic snapshots nobody would look for become one line.           *)
(*                                                                         *)
(* A line is the list of the snapshots it stands for, its prefix, one      *)
(* element for each level of ancestors, and its connector.                 *)
EXTENDS Integers, SequencesExt, Sorting

CONSTANTS
    Graphs,         \* the snapshot graphs: functions from ids to records
    MinCollapsed    \* MIN_COLLAPSED_AUTO_SNAPSHOTS

(* An entry of a graph is a record with                                    *)
(*   parents  the parents' ids, not all of them listed                     *)
(*   time     the timestamp                                                *)
(*   auto     taken automatically and without a message                    *)
(*   current, worktree, label: the cursor, the working tree or a ref is    *)
(*            there.                                                       *)
(* An id is the hash of a snapshot and of the ids of its parents: no       *)
(* snapshot is its own ancestor.                                           *)
ASSUME TimelineAssumption ==
    /\ MinCollapsed \in Nat \ {0}
    /\ \A g \in Graphs :
          /\ IsFiniteSet(DOMAIN g) /\ DOMAIN g \subseteq Int
          /\ \A id \in DOMAIN g : g[id].time \in Int
          /\ \A S \in SUBSET DOMAIN g :
                S # {} => \E id \in S : g[id].parents = <<>> \/ g[id].parents[1] \notin S

VARIABLES
    graph,      \* the listed snapshots
    calls,      \* the pending calls of print_node_or_auto_chain
    lines       \* what was printed

drawing == <<graph, calls, lines>>

Ids == DOMAIN graph

-----------------------------------------------------------------------------
(* TimelineGraphRenderer::new *)

(* The first parent counts, if it is listed.                               *)
IsChild(id, parent) ==
    /\ graph[id].parents # <<>>
    /\ graph[id].parents[1] = parent

HasParent(id) == \E p \in Ids : IsChild(id, p)

(* By timestamp, then by id.                                               *)
Earlier(i, j) == \/ graph[i].time < graph[j].time
                 \/ graph[i].time = graph[j].time /\ i < j

Children(id) == InOrder({c \in Ids : IsChild(c, id)}, Earlier)
Roots == InOrder({id \in Ids : ~HasParent(id)}, Earlier)

-----------------------------------------------------------------------------
(* Runs of automatic snapshots.                                            *)

(* Mutant: a snapshot where the history forks is collapsed too.            *)
CollapsibleFork(id) ==
    /\ graph[id].auto /\ ~graph[id].current
    /\ ~graph[id].worktree /\ ~graph[id].label
    /\ Len(graph[id].parents) <= 1

(* is_collapsible_auto_snapshot *)
Collapsible(id) ==
    /\ graph[id].auto /\ ~graph[id].current
    /\ ~graph[id].worktree /\ ~graph[id].label
    /\ Len(graph[id].parents) <= 1
    /\ Len(Children(id)) <= 1

(* only_child, as a list of at most one                                    *)
OnlyChild(id) == IF Len(Children(id)) = 1 THEN Children(id) ELSE <<>>

(* A turn of the loop of auto_chain: the only child follows, if it can be  *)
(* collapsed too.                                                          *)
Extended(chain, start) ==
    LET next == IF chain = <<>> THEN <<start>> ELSE OnlyChild(Last(chain))
    IN IF next # <<>> /\ Collapsible(next[1]) THEN Append(chain, next[1]) ELSE chain

(* auto_chain, after as many turns as there are snapshots.                 *)
AutoChain(start) ==
    LET chain[n \in Nat] == IF n = 0 THEN <<>> ELSE Extended(chain[n - 1], start)
    IN chain[Cardinality(Ids)]

-----------------------------------------------------------------------------
(* The walk.                                                               *)

(* Mutant: the column of a sibling still to come is left empty.           *)
ChildPrefixGap(call) ==
    IF call.connector = "" THEN <<>> ELSE Append(call.prefix, "gap")

(* child_prefix: one element more, except below a root.                    *)
ChildPrefix(call) ==
    IF call.connector = "" THEN <<>>
    ELSE Append(call.prefix, IF call.last THEN "gap" ELSE "bar")

Call(id, prefix, connector, last) ==
    [id |-> id, prefix |-> prefix, connector |-> connector, last |-> last]

(* The calls for the children of the snapshot a call has printed.          *)
ChildCalls(call, children) ==
    [k \in DOMAIN children |->
        Call(children[k], ChildPrefix(call),
             IF k = Len(children) THEN "corner" ELSE "tee", k = Len(children))]

(* After a run: its last snapshot's only child.                            *)
CallsAfterRun(call, chain) == ChildCalls(call, OnlyChild(Last(chain)))

Line(call, ids) ==
    [ids |-> ids, prefix |-> call.prefix, connector |-> call.connector]

(* print: one call for each root.                                          *)
TimelineInit ==
    /\ graph \in Graphs
    /\ calls = [k \in DOMAIN Roots |-> Call(Roots[k], <<>>, "", k = Len(Roots))]
    /\ lines = <<>>

(* print_node_or_auto_chain, its two branches.                             *)
PrintRun ==
    /\ calls # <<>>
    /\ LET call  == Head(calls)
           chain == AutoChain(call.id)
       IN /\ Len(chain) >= MinCollapsed
          /\ lines' = Append(lines, Line(call, chain))
          /\ calls' = CallsAfterRun(call, chain) \o Tail(calls)
    /\ UNCHANGED graph

PrintNode ==
    /\ calls # <<>>
    /\ LET call == Head(calls)
       IN /\ Len(AutoChain(call.id)) < MinCollapsed
          /\ lines' = Append(lines, Line(call, <<call.id>>))
          /\ calls' = ChildCalls(call, Children(call.id)) \o Tail(calls)
    /\ UNCHANGED graph

TimelineNext == PrintRun \/ PrintNode

TimelineSpec == TimelineInit /\ [][TimelineNext]_drawing

-----------------------------------------------------------------------------
(* Properties.                                                             *)

(* Once the walk has ended every listed snapshot is on exactly one line:   *)
(* collapsing a run loses no side branch, and a snapshot with two parents, *)
(* or with one that is not listed, appears once.                           *)
ShownOnce ==
    LET shown == FlattenSeq([k \in DOMAIN lines |-> lines[k].ids])
    IN /\ Cardinality(ToSet(shown)) = Len(shown)
       /\ calls = <<>> => ToSet(shown) = Ids

Depth(line) == IF line.connector = "" THEN 0 ELSE Len(line.prefix) + 1

(* The lines can be read as a tree: a run is a path from parent to child,  *)
(* the nearest line above that is one level further out ends with the      *)
(* first parent, and from there down to the line the column of its         *)
(* connector holds only bars and the siblings' tees.                       *)
DrawingShowsParents ==
    \A j \in DOMAIN lines :
        LET line  == lines[j]
            depth == Depth(line)
            above == {i \in 1..(j - 1) : Depth(lines[i]) = depth - 1}
        IN /\ \A k \in 2..Len(line.ids) : IsChild(line.ids[k], line.ids[k - 1])
           /\ IF depth = 0 THEN ~HasParent(line.ids[1])
              ELSE
                /\ above # {}
                /\ IsChild(line.ids[1], Last(lines[Max(above)].ids))
                /\ \A i \in (Max(above) + 1)..(j - 1) :
                      IF Depth(lines[i]) = depth
                      THEN lines[i].connector = "tee"
                      ELSE lines[i].prefix[depth] = "bar"
=============================================================================

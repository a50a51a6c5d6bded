------------------------------- MODULE MCSetup -------------------------------
(* Three processes on a repository with two workspace ids and a directory  *)
(* inside another.                                                         *)
EXTENDS Setup, TLC

CONSTANTS u1, u2, u3, i1, i2, outer, inner

Op(op, name, path) == [op |-> op, name |-> name, path |-> path]
RefOps == <<Op("init", Main, Nobody), Op("list", Main, Nobody),
            Op("branch", "b1", Nobody), Op("branch", "b2", Nobody)>>
AddOps == <<Op("add", i1, outer), Op("add", i1, inner),
            Op("add", i2, outer), Op("add", i2, inner)>>

(* Any three operations on refs.  Which process runs which does not        *)
(* matter, and b1 and b2 may be swapped.                                   *)
RefPlans ==
    {(u1 :> RefOps[k[1]] @@ u2 :> RefOps[k[2]] @@ u3 :> RefOps[k[3]]) :
        k \in {n \in [1..3 -> 1..4] : n[1] <= n[2] /\ n[2] <= n[3] /\ n[2] <= 3}}

(* A workspace added twice while another is added in its directory, one    *)
(* added in two directories while another is added around it, and one      *)
(* added while a repository is initialized.                                *)
SomePlans ==
    RefPlans \cup
    {u1 :> AddOps[1] @@ u2 :> AddOps[1] @@ u3 :> AddOps[3],
     u1 :> AddOps[1] @@ u2 :> AddOps[2] @@ u3 :> AddOps[3],
     u1 :> RefOps[1] @@ u2 :> RefOps[2] @@ u3 :> AddOps[1]}
SomeNested == {<<inner, outer>>}
=============================================================================

------------------------------- MODULE Sorting --------------------------------
(* A finite set as a sequence in a given order: the element in place k has *)
(* k - 1 elements before it.  The provers know nothing of SortSeq, which   *)
(* the operator of the community modules is made of.                       *)
EXTENDS Integers, FiniteSets

InOrder(S, Less(_, _)) ==
    [k \in 1..Cardinality(S) |->
        CHOOSE e \in S : Cardinality({d \in S : Less(d, e)}) = k - 1]
=============================================================================

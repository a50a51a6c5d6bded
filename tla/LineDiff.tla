------------------------------- MODULE LineDiff -------------------------------
(* How the line merge compares two versions of a file                      *)
(* (merge/src/lib.rs): lines that occur once on both sides are anchors,    *)
(* the stretches between them are compared again, and a stretch without    *)
(* anchors is compared by a longest common subsequence.  The result is the *)
(* list of edits that turn the base into the side.                         *)
(*                                                                         *)
(* Positions count from 0 and ranges exclude their end, as in the code;    *)
(* At and Slice are the only places that know that sequences start at 1.   *)
EXTENDS Integers, SequencesExt, Sorting

CONSTANT
    MaxLcsCells   \* MAX_LCS_CELLS: larger stretches are not compared

ASSUME DiffAssumption == MaxLcsCells \in Nat

At(s, i) == s[i + 1]
Slice(s, from, to) == SubSeq(s, from + 1, to)

(* A stretch of the base, bs..be, and one of the side, ss..se.             *)
Stretch(bs, be, ss, se) == [bs |-> bs, be |-> be, ss |-> ss, se |-> se]
Stretches(n, m) ==
    {r \in [bs: 0..n, be: 0..n, ss: 0..m, se: 0..m] : r.bs <= r.be /\ r.ss <= r.se}
CommonLengths(r) == {n \in 0..(r.be - r.bs) : n <= r.se - r.ss}

(* The n pairs of positions that start at i in the base and j in the side. *)
Diagonal(i, j, n) == [k \in 1..n |-> <<i + k - 1, j + k - 1>>]

(* How many lines a stretch of each begins or ends with alike.             *)
CommonPrefix(base, side, r) ==
    Max({n \in CommonLengths(r) :
            \A k \in 0..(n - 1) : At(base, r.bs + k) = At(side, r.ss + k)})

CommonSuffix(base, side, r) ==
    Max({n \in CommonLengths(r) :
            \A k \in 1..n : At(base, r.be - k) = At(side, r.se - k)})

-----------------------------------------------------------------------------
(* Anchors.                                                                *)

(* line_occurrences: the positions of from..to whose line occurs once.     *)
UniquePositions(s, from, to) ==
    {i \in from..(to - 1) : \A k \in from..(to - 1) :
                               At(s, k) = At(s, i) => k = i}

(* One turn of longest_increasing_by_side: tails[n] is the anchor with the *)
(* smallest side position that ends an increasing chain of length n, in    *)
(* the order of these positions, and previous links each anchor to the one *)
(* before it in its chain.                                                 *)
PlaceAnchor(anchors, acc, i) ==
    LET SideOf(k) == anchors[k][2]
        position  == Max({0} \cup {n \in DOMAIN acc.tails :
                                      SideOf(acc.tails[n]) < SideOf(i)})
    IN [tails    |-> IF position = Len(acc.tails)
                     THEN Append(acc.tails, i)
                     ELSE IF SideOf(i) < SideOf(acc.tails[position + 1])
                          THEN [acc.tails EXCEPT ![position + 1] = i]
                          ELSE acc.tails,
        previous |-> Append(acc.previous, IF position = 0 THEN 0
                                          ELSE acc.tails[position])]

(* The anchors come sorted by base position.                               *)
LongestIncreasing(anchors) ==
    LET place[i \in 0..Len(anchors)] ==
            IF i = 0 THEN [tails |-> <<>>, previous |-> <<>>]
            ELSE PlaceAnchor(anchors, place[i - 1], i)
        placed == place[Len(anchors)]
        chain[i \in 0..Len(anchors)] ==
            IF i = 0 THEN <<>> ELSE Append(chain[placed.previous[i]], anchors[i])
    IN IF anchors = <<>> THEN <<>> ELSE chain[Last(placed.tails)]

(* Every pair of positions whose line is unique in both stretches, sorted  *)
(* by base position.                                                       *)
UniqueAnchors(base, side, r) ==
    LET Partners(i) == {j \in UniquePositions(side, r.ss, r.se) :
                           At(side, j) = At(base, i)}
        positions   == InOrder({i \in UniquePositions(base, r.bs, r.be) :
                                   Partners(i) # {}}, <)
    IN [k \in DOMAIN positions |->
            <<positions[k], CHOOSE j \in Partners(positions[k]) : TRUE>>]

UniqueLisAnchors(base, side, r) == LongestIncreasing(UniqueAnchors(base, side, r))

-----------------------------------------------------------------------------
(* The fallback.                                                           *)

(* The loops of collect_lcs_matches, from position p: the length of the    *)
(* longest common subsequence of the rests, and the walk that finds one.   *)
(* It prefers to skip a line of the base.                                  *)
LcsLength(base, side, r, lengths, p) ==
    IF p[1] = r.be \/ p[2] = r.se THEN 0
    ELSE IF At(base, p[1]) = At(side, p[2]) THEN 1 + lengths[<<p[1] + 1, p[2] + 1>>]
         ELSE Max({lengths[<<p[1] + 1, p[2]>>], lengths[<<p[1], p[2] + 1>>]})

LcsWalk(base, side, r, lengths, walk, p) ==
    IF p[1] = r.be \/ p[2] = r.se THEN <<>>
    ELSE IF At(base, p[1]) = At(side, p[2])
         THEN <<p>> \o walk[<<p[1] + 1, p[2] + 1>>]
         ELSE IF lengths[<<p[1] + 1, p[2]>>] >= lengths[<<p[1], p[2] + 1>>]
              THEN walk[<<p[1] + 1, p[2]>>]
              ELSE walk[<<p[1], p[2] + 1>>]

(* collect_lcs_matches *)
LcsMatches(base, side, r) ==
    LET lengths[p \in (r.bs..r.be) \X (r.ss..r.se)] == LcsLength(base, side, r, lengths, p)
        walk[p \in (r.bs..r.be) \X (r.ss..r.se)] == LcsWalk(base, side, r, lengths, walk, p)
    IN IF (r.be - r.bs) * (r.se - r.ss) > MaxLcsCells THEN <<>> ELSE walk[<<r.bs, r.ss>>]

-----------------------------------------------------------------------------
(* Matches and edits.                                                      *)

(* The stretches between the anchors, with the anchors.                    *)
SplitMatches(r, anchors, patience) ==
    LET ends == <<<<r.bs - 1, r.ss - 1>>>> \o anchors \o <<<<r.be, r.se>>>>
        Between(k) == patience[Stretch(ends[k][1] + 1, ends[k + 1][1],
                                       ends[k][2] + 1, ends[k + 1][2])]
    IN FlattenSeq([k \in DOMAIN anchors |-> Append(Between(k), anchors[k])])
       \o Between(Len(anchors) + 1)

MiddleMatches(base, side, r, anchors, patience) ==
    IF r.bs = r.be \/ r.ss = r.se THEN <<>>
    ELSE IF anchors = <<>> THEN LcsMatches(base, side, r)
    ELSE SplitMatches(r, anchors, patience)

(* collect_patience_matches: the common prefix, the matches between it and *)
(* the common suffix, and this.  Patience gives those of smaller stretches.*)
PatienceMatches(base, side, patience, r) ==
    LET n == CommonPrefix(base, side, r)
        left == Stretch(r.bs + n, r.be, r.ss + n, r.se)
        m == CommonSuffix(base, side, left)
        middle == Stretch(left.bs, r.be - m, left.ss, r.se - m)
    IN Diagonal(r.bs, r.ss, n)
       \o MiddleMatches(base, side, middle, UniqueLisAnchors(base, side, middle), patience)
       \o Diagonal(middle.be, middle.se, m)

(* matching_pairs.  The pairs come in increasing order, so that the sort   *)
(* at the end keeps them.                                                  *)
MatchingPairs(base, side) ==
    LET patience[r \in Stretches(Len(base), Len(side))] ==
            PatienceMatches(base, side, patience, r)
    IN patience[Stretch(0, Len(base), 0, Len(side))]

EditRegion(start, end, replacement) ==
    [start |-> start, end |-> end, replacement |-> replacement]

IsInsertion(edit) == edit.start = edit.end

(* What lies between neighbouring matches, where a side differs.           *)
Gaps(side, ends) ==
    LET gap(k)  == EditRegion(ends[k][1] + 1, ends[k + 1][1],
                              Slice(side, ends[k][2] + 1, ends[k + 1][2]))
        differ  == InOrder({k \in 1..(Len(ends) - 1) :
                               ends[k + 1] # <<ends[k][1] + 1, ends[k][2] + 1>>}, <)
    IN [n \in DOMAIN differ |-> gap(differ[n])]

(* edit_regions *)
EditRegions(base, side) ==
    Gaps(side, <<<<-1, -1>>>> \o MatchingPairs(base, side) \o <<<<Len(base), Len(side)>>>>)

-----------------------------------------------------------------------------
(* Reference definitions.                                                  *)

(* The base with a list of edits applied.                                  *)
Patch(base, edits) ==
    LET rest[n \in 1..(Len(edits) + 1)] ==
            LET from == IF n = 1 THEN 0 ELSE edits[n - 1].end
            IN IF n > Len(edits) THEN Slice(base, from, Len(base))
               ELSE Slice(base, from, edits[n].start)
                    \o edits[n].replacement \o rest[n + 1]
    IN rest[1]

(* Edits in order, inside the base, with an unchanged line between any two *)
(* neighbours.                                                             *)
Separated(base, edits) ==
    \A n \in DOMAIN edits :
        /\ 0 <= edits[n].start
        /\ edits[n].start <= edits[n].end
        /\ edits[n].end <= Len(base)
        /\ n > 1 => edits[n - 1].end < edits[n].start

=============================================================================

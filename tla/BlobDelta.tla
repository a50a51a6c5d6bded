------------------------------ MODULE BlobDelta -------------------------------
(* A blob stored as its difference from another one                        *)
(* (object-store/src/blob_delta.rs): the bytes between a common prefix and *)
(* a common suffix, after a header that says how long everything is.       *)
(*                                                                         *)
(* A file is a sequence of numbers.  One number stands for a byte of       *)
(* content or for a header field of fixed size.                            *)
EXTENDS Integers, SequencesExt

CONSTANTS
    MaxDeltaDepth,       \* MAX_DELTA_CHAIN_DEPTH
    MinDeltaTarget,      \* MIN_DELTA_TARGET_BYTES
    MinDeltaSavings,     \* MIN_DELTA_SAVINGS_BYTES
    HeaderCost,          \* HEADER_LEN, where sizes are compared
    Width,               \* lengths are numbers below 2^Width
    Invalid              \* what cannot be decoded

DeltaMagic == 23
HeaderFields == 8

(* A length fits into a field.                                             *)
Limit == 2^Width
Lengths == 0..(Limit - 1)

ASSUME DeltaAssumption ==
    /\ Limit \in Nat /\ DeltaMagic < Limit
    /\ MaxDeltaDepth \in Lengths

(* common_prefix_len, common_suffix_len: the suffix does not reach into    *)
(* the prefix of either.                                                   *)
CommonPrefixLen(base, target) ==
    Max({n \in 0..Min({Len(base), Len(target)}) :
            \A k \in 1..n : base[k] = target[k]})

(* Mutant: the suffix may overlap the prefix.                              *)
CommonSuffixLenOverlapping(base, target, prefix) ==
    Max({n \in 0..Min({Len(base), Len(target)}) :
            \A k \in 0..(n - 1) : base[Len(base) - k] = target[Len(target) - k]})

CommonSuffixLen(base, target, prefix) ==
    Max({n \in 0..(Min({Len(base), Len(target)}) - prefix) :
            \A k \in 0..(n - 1) : base[Len(base) - k] = target[Len(target) - k]})

(* BlobDelta::create, or Invalid where a delta is not worth it.            *)
CreateDelta(baseId, base, baseDepth, target) ==
    LET prefix == CommonPrefixLen(base, target)
        suffix == CommonSuffixLen(base, target, prefix)
        insert == SubSeq(target, prefix + 1, Len(target) - suffix)
    IN IF \/ Len(target) < MinDeltaTarget
          \/ baseDepth >= MaxDeltaDepth
          \/ HeaderCost + Len(insert) + MinDeltaSavings >= Len(target)
       THEN Invalid
       ELSE [depth |-> baseDepth + 1, baseId |-> baseId,
             baseLen |-> Len(base), targetLen |-> Len(target),
             prefix |-> prefix, suffix |-> suffix, insert |-> insert]

(* BlobDelta::encode *)
EncodeDelta(d) ==
    <<DeltaMagic, d.depth, d.baseId, d.baseLen, d.targetLen, d.prefix, d.suffix,
      Len(d.insert)>> \o d.insert

(* BlobDelta::decode.  Its addition of the insert length is not checked.   *)
DecodeDelta(file) ==
    IF \/ Len(file) < HeaderFields
       \/ file[1] # DeltaMagic
       \/ Len(file) # (HeaderFields + file[8]) % Limit
    THEN Invalid
    ELSE [depth |-> file[2], baseId |-> file[3], baseLen |-> file[4],
          targetLen |-> file[5], prefix |-> file[6], suffix |-> file[7],
          insert |-> SubSeq(file, HeaderFields + 1, Len(file))]

(* Mutant: prefix and suffix are checked against the base one by one.      *)
RangesFitOneByOne(d, base) ==
    /\ Len(base) = d.baseLen
    /\ d.prefix <= Len(base) /\ d.suffix <= Len(base)
    /\ d.prefix <= d.targetLen /\ d.suffix <= d.targetLen - d.prefix
    /\ Len(d.insert) = d.targetLen - d.prefix - d.suffix

(* The checks of BlobDelta::reconstruct, in its order: each subtraction is *)
(* made after the comparison that keeps it from going below 0.             *)
RangesFit(d, base) ==
    /\ Len(base) = d.baseLen
    /\ d.prefix <= Len(base) /\ d.suffix <= Len(base) - d.prefix
    /\ d.prefix <= d.targetLen /\ d.suffix <= d.targetLen - d.prefix
    /\ Len(d.insert) = d.targetLen - d.prefix - d.suffix

(* BlobDelta::reconstruct *)
Reconstruct(d, base) ==
    IF ~RangesFit(d, base) THEN Invalid
    ELSE SubSeq(base, 1, d.prefix) \o d.insert
         \o SubSeq(base, Len(base) - d.suffix + 1, Len(base))
=============================================================================

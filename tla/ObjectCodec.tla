----------------------------- MODULE ObjectCodec ------------------------------
(* The files of objects: trees and snapshots in their canonical form       *)
(* (core/src/tree.rs, core/src/snapshot.rs) and blobs as they are or as    *)
(* deltas (BlobDelta).  An object is encoded, its file may be damaged, and *)
(* what is then on disk is decoded.  An object's name is the hash of its   *)
(* canonical bytes, so an object must have one encoding only.              *)
EXTENDS BlobDelta, Sorting

CONSTANTS
    Listings,      \* lists of tree entries, in the order they were found
    Snapshots,     \* snapshots
    Deltas,        \* records base, baseDepth, target
    Garbage,       \* what a damaged field may hold
    MaxDamages     \* bound: how often a file is damaged

VARIABLES
    object,      \* what was given to the store
    file,        \* the object's file, <<>> before it is written
    damages      \* how often it was damaged

codec == <<object, file, damages>>

TreeMagic == 21
SnapshotMagic == 22
KindTags == {1, 2}                \* blob, tree
Slash == 11   NonUtf8 == 12   Dot == 13   NulByte == 0
BaseId == 5                       \* the id of a delta's base

-----------------------------------------------------------------------------
(* Strings and names.                                                      *)

(* The order of byte strings.                                              *)
BytesLess(s, t) ==
    \/ IsStrictPrefix(s, t)
    \/ \E k \in DOMAIN s \cap DOMAIN t :
          s[k] < t[k] /\ \A i \in 1..(k - 1) : s[i] = t[i]

Utf8(s) == NonUtf8 \notin ToSet(s)

(* validate_entry_name *)
ValidName(s) == /\ s \notin {<<>>, <<Dot>>, <<Dot, Dot>>}
                /\ Slash \notin ToSet(s) /\ NulByte \notin ToSet(s)

SortedStrings(S) == InOrder(S, BytesLess)

Increasing(names) ==
    \A k \in 1..(Len(names) - 1) : BytesLess(names[k], names[k + 1])

(* write_string, write_optional_string; None is the empty sequence.        *)
EncodeString(s) == <<Len(s)>> \o s
EncodeOptional(o) == IF o = <<>> THEN <<0>> ELSE <<1>> \o EncodeString(o[1])

(* read_string and read_optional_string at position at: what was read, and *)
(* where the next field begins; next is 0 where it cannot be read.         *)
Failed == [value |-> <<>>, next |-> 0]

ReadString(bytes, at) ==
    IF \/ at = 0 \/ at > Len(bytes)
       \/ at + bytes[at] > Len(bytes)
       \/ ~Utf8(SubSeq(bytes, at + 1, at + bytes[at]))
    THEN Failed
    ELSE [value |-> SubSeq(bytes, at + 1, at + bytes[at]),
          next  |-> at + bytes[at] + 1]

ReadOptional(bytes, at) ==
    IF at = 0 \/ at > Len(bytes) \/ bytes[at] \notin {0, 1} THEN Failed
    ELSE IF bytes[at] = 0 THEN [value |-> <<>>, next |-> at + 1]
    ELSE LET s == ReadString(bytes, at + 1)
         IN IF s.next = 0 THEN Failed
            ELSE [value |-> <<s.value>>, next |-> s.next]

(* k items from position at to the end of the file, or Invalid; item[p]    *)
(* reads one at position p.                                                *)
ReadList(bytes, item, at, k) ==
    LET read[n \in Nat] == [p \in 1..(Len(bytes) + 1) |->
            IF n = 0 THEN IF p = Len(bytes) + 1 THEN <<>> ELSE Invalid
            ELSE IF item[p].next = 0 THEN Invalid
            ELSE IF read[n - 1][item[p].next] = Invalid THEN Invalid
            ELSE <<item[p].value>> \o read[n - 1][item[p].next]]
    IN read[k][at]

-----------------------------------------------------------------------------
(* Trees.                                                                  *)

Names(entries) == [k \in DOMAIN entries |-> entries[k].name]

(* Tree::new: the entries sorted by name, or Invalid if a name occurs      *)
(* twice.                                                                  *)
NewTree(listing) ==
    LET names == ToSet(Names(listing))
        EntryNamed(n) == listing[CHOOSE k \in DOMAIN listing : listing[k].name = n]
        sorted == SortedStrings(names)
    IN IF Cardinality(names) # Len(listing) THEN Invalid
       ELSE [k \in DOMAIN sorted |-> EntryNamed(sorted[k])]

(* Tree::to_canonical_bytes: kind tag, name and id of every entry.         *)
EncodeEntry(e) == <<e.kind>> \o EncodeString(e.name) \o <<e.id>>

EncodeTree(entries) ==
    <<TreeMagic, Len(entries)>>
    \o FlattenSeq([k \in DOMAIN entries |-> EncodeEntry(entries[k])])

ReadEntry(bytes, at) ==
    LET name == ReadString(bytes, at + 1)
    IN IF \/ at > Len(bytes) \/ name.next = 0 \/ name.next > Len(bytes)
          \/ bytes[at] \notin KindTags
          \/ ~ValidName(name.value)
       THEN Failed
       ELSE [value |-> [kind |-> bytes[at], name |-> name.value, id |-> bytes[name.next]],
             next  |-> name.next + 1]

ReadEntries(bytes, at, k) ==
    ReadList(bytes, [p \in 1..(Len(bytes) + 1) |-> ReadEntry(bytes, p)], at, k)

(* Mutant: the order of the names is not checked.                          *)
DecodeTreeAnyOrder(bytes) ==
    IF Len(bytes) < 2 \/ bytes[1] # TreeMagic THEN Invalid
    ELSE ReadEntries(bytes, 3, bytes[2])

(* Tree::from_canonical_bytes *)
DecodeTree(bytes) ==
    IF Len(bytes) < 2 \/ bytes[1] # TreeMagic THEN Invalid
    ELSE LET entries == ReadEntries(bytes, 3, bytes[2])
         IN IF entries = Invalid \/ ~Increasing(Names(entries)) THEN Invalid
            ELSE entries

-----------------------------------------------------------------------------
(* Snapshots: root, parents, time, author, message, source and attributes, *)
(* a function from keys to values.                                         *)

(* Snapshot::to_canonical_bytes *)
EncodeAttribute(a) == EncodeString(a.name) \o EncodeString(a.value)

EncodeSnapshot(s) ==
    LET keys == SortedStrings(DOMAIN s.attributes)
    IN <<SnapshotMagic, s.root, Len(s.parents)>> \o s.parents \o <<s.time>>
       \o EncodeOptional(s.author) \o EncodeOptional(s.message)
       \o EncodeString(s.source) \o <<Len(keys)>>
       \o FlattenSeq([k \in DOMAIN keys |->
              EncodeAttribute([name |-> keys[k], value |-> s.attributes[keys[k]]])])

ReadAttribute(bytes, at) ==
    LET key   == ReadString(bytes, at)
        value == ReadString(bytes, key.next)
    IN IF value.next = 0 THEN Failed
       ELSE [value |-> [name |-> key.value, value |-> value.value], next |-> value.next]

ReadAttributes(bytes, at, n) ==
    ReadList(bytes, [p \in 1..(Len(bytes) + 1) |-> ReadAttribute(bytes, p)], at, n)

(* Snapshot::from_canonical_bytes *)
DecodeSnapshot(bytes) ==
    IF \/ Len(bytes) < 3 \/ bytes[1] # SnapshotMagic
       \/ 4 + bytes[3] > Len(bytes)
    THEN Invalid
    ELSE LET time    == 4 + bytes[3]
             author  == ReadOptional(bytes, time + 1)
             message == ReadOptional(bytes, author.next)
             source  == ReadString(bytes, message.next)
             pairs   == IF source.next = 0 \/ source.next > Len(bytes) THEN Invalid
                        ELSE ReadAttributes(bytes, source.next + 1, bytes[source.next])
         IN IF pairs = Invalid \/ ~Increasing(Names(pairs)) THEN Invalid
            ELSE [root |-> bytes[2], parents |-> SubSeq(bytes, 4, time - 1),
                  time |-> bytes[time], author |-> author.value,
                  message |-> message.value, source |-> source.value,
                  attributes |-> [k \in ToSet(Names(pairs)) |->
                      pairs[CHOOSE i \in DOMAIN pairs : pairs[i].name = k].value]]

-----------------------------------------------------------------------------
(* Writing, damage and reading.                                            *)

IsText(s) == s \in Seq(Lengths) /\ Len(s) \in Lengths /\ Utf8(s)
IsOptionalText(o) == o = <<>> \/ (o = <<o[1]>> /\ IsText(o[1]))

(* TreeEntry::new *)
IsEntry(e) ==
    /\ e = [kind |-> e.kind, name |-> e.name, id |-> e.id]
    /\ e.kind \in KindTags /\ e.id \in Lengths
    /\ IsText(e.name) /\ ValidName(e.name)

IsSnapshot(s) ==
    /\ s = [root |-> s.root, parents |-> s.parents, time |-> s.time, author |-> s.author,
            message |-> s.message, source |-> s.source, attributes |-> s.attributes]
    /\ s.root \in Lengths /\ s.time \in Lengths
    /\ s.parents \in Seq(Lengths) /\ Len(s.parents) \in Lengths
    /\ IsOptionalText(s.author) /\ IsOptionalText(s.message) /\ IsText(s.source)
    /\ LET keys == DOMAIN s.attributes
       IN /\ s.attributes = [k \in keys |-> s.attributes[k]]
          /\ IsFiniteSet(keys) /\ Cardinality(keys) \in Lengths
          /\ \A k \in keys : IsText(k) /\ IsText(s.attributes[k])

(* Objects are in memory, so that their lengths fit the fields.            *)
ASSUME CodecAssumption ==
    /\ Garbage \subseteq Lengths
    /\ \A v \in Listings : /\ v \in Seq(ToSet(v)) /\ Len(v) \in Lengths
                           /\ \A k \in DOMAIN v : IsEntry(v[k])
    /\ \A v \in Snapshots : IsSnapshot(v)
    /\ \A v \in Deltas : /\ v.base \in Seq(Lengths) /\ Len(v.base) \in Lengths
                         /\ v.target \in Seq(Lengths)
                         /\ HeaderFields + Len(v.target) \in Lengths
                         /\ v.baseDepth \in Nat

(* What cannot be decoded is not what is decoded.                          *)
ASSUME InvalidAssumption ==
    /\ Invalid \notin Seq([kind: KindTags, name: Seq(Lengths), id: Lengths])
    /\ Invalid \notin Seq([name: Seq(Lengths), value: Seq(Lengths)])
    /\ Invalid \notin Snapshots

CodecInit ==
    /\ object \in [type: {"tree"}, value: Listings]
                   \cup [type: {"snapshot"}, value: Snapshots]
                   \cup [type: {"delta"}, value: Deltas]
    /\ file = <<>>
    /\ damages = 0

DeltaOf(v) == CreateDelta(BaseId, v.base, v.baseDepth, v.target)

(* put_tree, put_snapshot and the delta of put_blob.  A listing that names *)
(* an entry twice is refused; a delta that is not worth it is not written. *)
WriteTree ==
    /\ file = <<>> /\ object.type = "tree"
    /\ NewTree(object.value) # Invalid
    /\ file' = EncodeTree(NewTree(object.value))
    /\ UNCHANGED <<object, damages>>

WriteSnapshot ==
    /\ file = <<>> /\ object.type = "snapshot"
    /\ file' = EncodeSnapshot(object.value)
    /\ UNCHANGED <<object, damages>>

WriteDelta ==
    /\ file = <<>> /\ object.type = "delta"
    /\ DeltaOf(object.value) # Invalid
    /\ file' = EncodeDelta(DeltaOf(object.value))
    /\ UNCHANGED <<object, damages>>

(* External: a field of the file changes, its end is lost, or something    *)
(* follows it.                                                             *)
DamageFile ==
    /\ file # <<>>
    /\ damages < MaxDamages
    /\ damages' = damages + 1
    /\ \/ \E k \in DOMAIN file, g \in Garbage : file' = [file EXCEPT ![k] = g]
       \/ file' = Front(file)
       \/ \E g \in Garbage : file' = Append(file, g)
    /\ UNCHANGED object

CodecNext == WriteTree \/ WriteSnapshot \/ WriteDelta \/ DamageFile

CodecSpec == CodecInit /\ [][CodecNext]_codec

-----------------------------------------------------------------------------
(* Properties.                                                             *)

Written == file # <<>>
Decoded == CASE object.type = "tree"     -> DecodeTree(file)
             [] object.type = "snapshot" -> DecodeSnapshot(file)
             [] object.type = "delta"    -> DecodeDelta(file)

(* What was written is read back: a tree with its entries in some order    *)
(* that does not depend on how they were found, a snapshot with every      *)
(* optional field and attribute, a blob rebuilt from its base, and chains  *)
(* of deltas no longer than the reader follows.                            *)
FileReadsBack ==
    (Written /\ damages = 0) =>
        LET v == object.value
            d == Decoded
        IN /\ d # Invalid
           /\ object.type = "tree" =>
                /\ ToSet(d) = ToSet(v)
                /\ \A other \in SetToSeqs(ToSet(v)) : NewTree(other) = d
           /\ object.type = "snapshot" => d = v
           /\ object.type = "delta" =>
                Reconstruct(d, v.base) = v.target /\ d.depth <= MaxDeltaDepth

(* A tree or a snapshot has one encoding: a file is either refused or is   *)
(* byte for byte what encoding the decoded object gives, so that no two    *)
(* files with different hashes hold the same object.                       *)
OneEncoding ==
    (Written /\ object.type # "delta" /\ Decoded # Invalid) =>
        file = IF object.type = "tree"
               THEN EncodeTree(NewTree(Decoded)) ELSE EncodeSnapshot(Decoded)

(* Whatever the header of a delta says, rebuilding it never takes bytes    *)
(* twice or from outside the base, and gives exactly the length promised.  *)
(* In the code the opposite is a panic, or another blob.                   *)
DeltaRangesSound ==
    (Written /\ object.type = "delta" /\ Decoded # Invalid) =>
        LET d == Decoded
        IN /\ file[HeaderFields] = Len(d.insert)
           /\ RangesFit(d, object.value.base) =>
                /\ d.prefix + d.suffix <= Len(object.value.base)
                /\ Len(Reconstruct(d, object.value.base)) = d.targetLen
=============================================================================

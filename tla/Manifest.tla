------------------------------ MODULE Manifest ------------------------------
(***************************************************************************)
(* The data of a wal3 log and the pure functions on it: fragments,         *)
(* snapshots (interior nodes of a tree of fragments), the manifest (its    *)
(* root) and the garbage file (a cut of the tree's left edge).             *)
(*                                                                         *)
(* Translated from rust/wal3/src/manifest.rs, gc.rs and reader.rs.         *)
(*                                                                         *)
(*  - A setsum is an element of a commutative group; here an integer, with *)
(*    + and - as the group operations.                                     *)
(*  - A snapshot's path embeds its setsum, so the setsum is the path.      *)
(*  - A fragment's path is a function of its seq_no.                       *)
(*  - num_bytes, acc_bytes, writer and timestamps are left out.            *)
(***************************************************************************)
EXTENDS Integers, Sequences, FiniteSets, SequencesExt, FiniteSetsExt

CONSTANTS
    fragment_rollover_threshold,  \* SnapshotOptions: fragments per leaf snapshot
    snapshot_rollover_threshold   \* SnapshotOptions: snapshots per interior one

ASSUME ThresholdAssumption ==
    /\ fragment_rollover_threshold \in Nat \ {0}
    /\ snapshot_rollover_threshold \in Nat \ {0}

-----------------------------------------------------------------------------
(* Option<LogPosition> and Option<FragmentSeqNo>: both number from 1.      *)
None == 0
BEGIN == 1
UnwrapOr(option, default) == IF option = None THEN default ELSE option

Setsums(seq) ==
    LET sum[i \in 0..Len(seq)] == IF i = 0 THEN 0 ELSE sum[i - 1] + seq[i].setsum
    IN  sum[Len(seq)]
Starts(seq) == {seq[i].start : i \in DOMAIN seq}
Limits(seq) == {seq[i].limit : i \in DOMAIN seq}
SeqNos(seq) == {seq[i].seq_no : i \in DOMAIN seq}
Contiguous(seq) == \A i \in 1..(Len(seq) - 1) : seq[i].limit = seq[i + 1].start

(* The k-th of a set of indices, and the elements of seq at them, in order. *)
Kth(I, k) == CHOOSE i \in I : Cardinality({j \in I : j <= i}) = k
At(seq, I) == [k \in 1..Cardinality(I) |-> seq[Kth(I, k)]]

-----------------------------------------------------------------------------
(* Snapshots.                                                              *)

Snapshot(depth, snapshots, fragments) ==
    [depth |-> depth,
     setsum |-> Setsums(snapshots) + Setsums(fragments),
     snapshots |-> snapshots,
     fragments |-> fragments]

to_pointer(s) ==
    LET parts == s.snapshots \o s.fragments
    IN  [setsum |-> s.setsum,
         depth |-> s.depth,
         start |-> IF parts = <<>> THEN 1 ELSE Min(Starts(parts)),
         limit |-> IF parts = <<>> THEN 1 ELSE Max(Limits(parts))]

(* Snapshot::load: objects is the set of snapshots in object storage.      *)
SnapshotExists(objects, ptr) == \E s \in objects : s.setsum = ptr.setsum
SnapshotLoad(objects, ptr) == CHOOSE s \in objects : s.setsum = ptr.setsum

(* Mutant: an interior snapshot is not put.                                *)
SnapshotInstallLeaf(objects, s) ==
    IF s.snapshots # <<>> THEN objects ELSE objects \cup {s}

(* Snapshot::install puts if-not-exists, and takes "exists" for success.   *)
SnapshotInstall(objects, s) ==
    IF SnapshotExists(objects, s) THEN objects ELSE objects \cup {s}

-----------------------------------------------------------------------------
(* The manifest.                                                           *)

new_empty ==
    [setsum |-> 0, collected |-> 0, snapshots |-> <<>>, fragments |-> <<>>,
     initial_offset |-> None, initial_seq_no |-> None]

oldest_timestamp(m) ==
    LET parts == m.snapshots \o m.fragments
    IN  IF parts = <<>> THEN UnwrapOr(m.initial_offset, 1) ELSE Min(Starts(parts))

next_write_timestamp(m) ==
    LET parts == m.snapshots \o m.fragments
    IN  IF parts = <<>> THEN UnwrapOr(m.initial_offset, 1) ELSE Max(Limits(parts))

(* Mutants: a first seq_no of zero; initial_seq_no not looked at.          *)
next_fragment_seq_no_default(m) ==
    IF m.fragments = <<>> THEN UnwrapOr(m.initial_seq_no, 0)
                          ELSE Max(SeqNos(m.fragments)) + 1

next_fragment_seq_no_restart(m) ==
    IF m.fragments = <<>> THEN BEGIN ELSE Max(SeqNos(m.fragments)) + 1

next_fragment_seq_no(m) ==
    IF m.fragments = <<>> THEN UnwrapOr(m.initial_seq_no, BEGIN)
                          ELSE Max(SeqNos(m.fragments)) + 1

(* Manifest::scrub: the setsums balance, the tree has no gap, and it       *)
(* starts where the manifest says it does.                                 *)
scrub(m) ==
    /\ m.setsum = Setsums(m.snapshots) + Setsums(m.fragments) + m.collected
    /\ Contiguous(m.snapshots \o m.fragments)
    /\ m.initial_offset # None => m.initial_offset = oldest_timestamp(m)

can_apply_fragment(m, fragment) ==
    /\ fragment.seq_no = next_fragment_seq_no(m)
    /\ fragment.start < fragment.limit

(* Mutant: the setsum is not updated.                                      *)
apply_fragment_unsummed(m, fragment) ==
    [setsum |-> m.setsum,
     collected |-> m.collected,
     snapshots |-> m.snapshots,
     fragments |-> Append(m.fragments, fragment),
     initial_offset |-> m.initial_offset,
     initial_seq_no |-> m.initial_seq_no]

apply_fragment(m, fragment) ==
    [setsum |-> m.setsum + fragment.setsum,
     collected |-> m.collected,
     snapshots |-> m.snapshots,
     fragments |-> Append(m.fragments, fragment),
     initial_offset |-> m.initial_offset,
     initial_seq_no |-> m.initial_seq_no]

(* The snapshots that a roll-up at depth takes: from the newest backwards, *)
(* those of that depth, skipping shallower ones, up to a deeper one or to  *)
(* the threshold.                                                          *)
RollupIndices(m, depth) ==
    LET eligible == {i \in DOMAIN m.snapshots :
                        /\ m.snapshots[i].depth = depth
                        /\ \A j \in DOMAIN m.snapshots :
                              j > i => m.snapshots[j].depth <= depth}
    IN  {i \in eligible : Cardinality({j \in eligible : j > i})
                             < snapshot_rollover_threshold}

(* The depths at which the snapshots can be rolled up.                     *)
RollupDepths(m) ==
    {d \in {m.snapshots[i].depth : i \in DOMAIN m.snapshots} :
        Cardinality(RollupIndices(m, d)) >= snapshot_rollover_threshold}

RollupSnapshot(m, depth) ==
    LET chosen == RollupIndices(m, depth)
        first == Min({m.snapshots[i].start : i \in chosen})
        orphan == {i \in {1} : /\ m.snapshots[i].limit = first
                               /\ m.snapshots[i].depth < depth}
    IN  Snapshot(depth + 1, At(m.snapshots, orphan \cup chosen), <<>>)

(* Enough fragments for a leaf, without the one of the highest seq_no,     *)
(* which stays so that the next seq_no can be computed.                    *)
LeafReady(m) ==
    /\ Len(m.fragments) >= fragment_rollover_threshold
    /\ \A i \in 1..fragment_rollover_threshold :
          m.fragments[i].seq_no # Max(SeqNos(m.fragments))

LeafSnapshot(m) ==
    Snapshot(1, <<>>, SubSeq(m.fragments, 1, fragment_rollover_threshold))

(* generate_snapshot: the set of the snapshot it returns, empty for None.  *)
(* The deepest roll-up is preferred, a leaf is the last resort.            *)
generate_snapshot(m) ==
    IF RollupDepths(m) # {} THEN {RollupSnapshot(m, Max(RollupDepths(m)))}
    ELSE IF LeafReady(m) THEN {LeafSnapshot(m)}
    ELSE {}

(* The snapshots of m that are not part of s, ...                          *)
Unreplaced(m, s) ==
    {k \in DOMAIN m.snapshots :
        \A i \in DOMAIN s.snapshots : s.snapshots[i].setsum # m.snapshots[k].setsum}

(* ... and the manifest that refers to s in place of the data s holds.     *)
apply_snapshot(m, s) ==
    [setsum |-> m.setsum,
     collected |-> m.collected,
     snapshots |-> Append(At(m.snapshots, Unreplaced(m, s)), to_pointer(s)),
     fragments |-> SubSeq(m.fragments, Len(s.fragments) + 1, Len(m.fragments)),
     initial_offset |-> m.initial_offset,
     initial_seq_no |-> m.initial_seq_no]

(* When apply_snapshot returns Ok: it scrubs before and after.             *)
snapshot_applies(m, s) ==
    /\ scrub(m)
    /\ IsPrefix(s.fragments, m.fragments)
    /\ scrub(apply_snapshot(m, s))

-----------------------------------------------------------------------------
(* Walking the tree.                                                       *)

PointersOf(objects, m) ==
    ToSet(m.snapshots) \cup UNION {ToSet(s.snapshots) : s \in objects}

(* What a walk of the tree below a pointer visits, in order: snapshots     *)
(* (after their children) and fragments.  A snapshot that is missing from  *)
(* storage contributes nothing and makes the walk incomplete.              *)
Walk(objects, m) ==
    LET Join(below, s, p) ==
            [snapshots |-> FlattenSeq([i \in DOMAIN below |-> below[i].snapshots]) \o <<p>>,
             fragments |-> FlattenSeq([i \in DOMAIN below |-> below[i].fragments])
                              \o s.fragments,
             complete |-> \A i \in DOMAIN below : below[i].complete]
        under[p \in PointersOf(objects, m)] ==
            IF SnapshotExists(objects, p)
            THEN LET s == SnapshotLoad(objects, p)
                 IN  Join([i \in DOMAIN s.snapshots |-> under[s.snapshots[i]]], s, p)
            ELSE [snapshots |-> <<>>, fragments |-> <<>>, complete |-> FALSE]
    IN  under

(* The fragments a reader of the whole log visits.                         *)
scan_from_manifest(objects, m) ==
    LET under == Walk(objects, m)
    IN  FlattenSeq([i \in DOMAIN m.snapshots |-> under[m.snapshots[i]].fragments])
           \o m.fragments

=============================================================================

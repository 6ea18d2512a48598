------------------------------- MODULE Garbage ------------------------------
(***************************************************************************)
(* The garbage file of a wal3 log: which snapshots and fragments lie below *)
(* a cutoff, which snapshots replace the one the cutoff cuts through, and  *)
(* what a manifest looks like without them.                                *)
(*                                                                         *)
(* Translated from rust/wal3/src/gc.rs and Manifest::apply_garbage.  An    *)
(* Option is a set of at most one element; a Result is a record whose kind *)
(* is "ok", "none" or "err".                                               *)
(***************************************************************************)
EXTENDS Manifest

EmptyGarbage ==
    [snapshots_to_drop |-> <<>>, snapshots_to_make |-> <<>>,
     snapshot_for_root |-> {},
     fragments_to_drop_start |-> 0, fragments_to_drop_limit |-> 0,
     setsum_to_discard |-> 0, first_to_keep |-> 1]

is_empty(g) == g = EmptyGarbage

(* prefixed_paths_to_delete: the setsums that name snapshots, the seq_nos  *)
(* that name fragments.                                                    *)
SnapshotsToDelete(g) == {p.setsum : p \in ToSet(g.snapshots_to_drop)}
FragmentsToDelete(g) == g.fragments_to_drop_start..(g.fragments_to_drop_limit - 1)

-----------------------------------------------------------------------------
(* Where the cutoff stands once fragments have been dropped: drop_fragment *)
(* sets it to the limit of the last one.                                   *)
KeepAfter(dropped, first_to_keep) ==
    IF dropped = <<>> THEN first_to_keep ELSE Last(dropped).limit

(* Mutant: what starts below the cutoff goes, though it ends above.        *)
DroppedByStart(parts, first_to_keep) ==
    SelectSeq(parts, LAMBDA x : x.start < first_to_keep)

Dropped(parts, first_to_keep) == SelectSeq(parts, LAMBDA x : x.limit <= first_to_keep)
Kept(parts, first_to_keep) == SelectSeq(parts, LAMBDA x : x.start > first_to_keep)
Split(parts, first_to_keep) ==
    SelectSeq(parts, LAMBDA x : x.start <= first_to_keep /\ first_to_keep < x.limit)

(* drop_snapshot for each of pointers: all that lies below them.           *)
drop_snapshots(under, pointers) ==
    [snapshots |-> FlattenSeq([i \in DOMAIN pointers |-> under[pointers[i]].snapshots]),
     fragments |-> FlattenSeq([i \in DOMAIN pointers |-> under[pointers[i]].fragments]),
     complete |-> \A i \in DOMAIN pointers :
                     /\ under[pointers[i]].complete
                     /\ Setsums(under[pointers[i]].fragments) = pointers[i].setsum]

(* What the cut of a snapshot gives when there is nothing to cut.          *)
NothingCut(first_to_keep, complete) ==
    [snapshots_to_drop |-> <<>>, snapshots_to_make |-> <<>>, root |-> <<>>,
     fragments |-> <<>>, first_to_keep |-> first_to_keep, complete |-> complete]

(* The snapshot that remains of one: snaps stand for its children, its     *)
(* fragments are those that end above the cutoff.                          *)
Remainder(snaps, fragments, first_to_keep) ==
    Snapshot(Max({0} \cup {p.depth : p \in ToSet(snaps)}) + 1, snaps,
             SelectSeq(fragments, LAMBDA f : f.limit > first_to_keep))

(* The cut of p: drop is what goes below its whole children, child the cut *)
(* of the split one, gone its own fragments that go, new what remains.     *)
Replaced(p, drop, child, gone, new) ==
    LET changed == to_pointer(new) # p /\ (new.snapshots # <<>> \/ new.fragments # <<>>)
    IN  [snapshots_to_drop |-> drop.snapshots \o child.snapshots_to_drop
                                 \o IF changed THEN <<p>> ELSE <<>>,
         snapshots_to_make |-> child.snapshots_to_make
                                 \o IF changed THEN <<new>> ELSE <<>>,
         root |-> <<IF changed THEN to_pointer(new) ELSE p>>,
         fragments |-> drop.fragments \o child.fragments \o gone,
         first_to_keep |-> KeepAfter(gone, child.first_to_keep),
         complete |-> drop.complete /\ child.complete]

(* replace_snapshot: cut the snapshot p at first_to_keep k.  The children  *)
(* are sorted out by the cutoff at entry; dropping whole children moves    *)
(* the cutoff back to their limit before a child is split.                 *)
replace_snapshot(objects, under) ==
    LET replace[p \in DOMAIN under, k \in Nat] ==
            LET Child(s, split, at) ==
                    IF split = <<>> THEN NothingCut(at, TRUE)
                    ELSE IF Len(split) > 1 \/ Dropped(s.fragments, k) # <<>>
                    THEN NothingCut(at, FALSE)
                    ELSE replace[split[1], at]
                Rebuild(s, drop, child) ==
                    Replaced(p, drop, child, Dropped(s.fragments, k),
                             Remainder(child.root \o Kept(s.snapshots, k), s.fragments, k))
                Drop(s, drop) ==
                    Rebuild(s, drop,
                            Child(s, Split(s.snapshots, k), KeepAfter(drop.fragments, k)))
                Cut(s) == Drop(s, drop_snapshots(under, Dropped(s.snapshots, k)))
            IN  IF SnapshotExists(objects, p) THEN Cut(SnapshotLoad(objects, p))
                                              ELSE NothingCut(k, FALSE)
    IN  replace

(* The garbage of a walk that dropped fragments: drop is what goes below   *)
(* whole snapshots, cut the cut of the split one.                          *)
GarbageOf(drop, cut, dropped) ==
    IF \/ ~drop.complete \/ ~cut.complete
       \/ \E i \in 1..(Len(dropped) - 1) : dropped[i + 1].seq_no # dropped[i].seq_no + 1
    THEN [kind |-> "err", garbage |-> EmptyGarbage]
    ELSE IF dropped = <<>>
    THEN [kind |-> "none", garbage |-> EmptyGarbage]
    ELSE [kind |-> "ok",
          garbage |->
            [snapshots_to_drop |-> drop.snapshots \o cut.snapshots_to_drop,
             snapshots_to_make |-> cut.snapshots_to_make,
             snapshot_for_root |-> ToSet(cut.root),
             fragments_to_drop_start |-> dropped[1].seq_no,
             fragments_to_drop_limit |-> Last(dropped).seq_no + 1,
             setsum_to_discard |-> Setsums(dropped),
             first_to_keep |-> cut.first_to_keep]]

(* Garbage::new: whole snapshots, then the manifest's own fragments, then  *)
(* the snapshot that the cutoff splits, at the cutoff these have moved.    *)
garbage_new(objects, m, cutoff) ==
    LET Cut(under, split, at) ==
            IF split = <<>> THEN NothingCut(at, TRUE)
            ELSE IF Len(split) > 1 THEN NothingCut(at, FALSE)
            ELSE replace_snapshot(objects, under)[split[1], at]
        Finish(drop, frags, cut) == GarbageOf(drop, cut, frags \o cut.fragments)
        Fragments(under, drop, frags) ==
            Finish(drop, frags,
                   Cut(under, Split(m.snapshots, cutoff), KeepAfter(frags, cutoff)))
        Drop(under, drop) ==
            Fragments(under, drop, drop.fragments \o Dropped(m.fragments, cutoff))
        Collect(under) ==
            Drop(under, drop_snapshots(under, Dropped(m.snapshots, cutoff)))
    IN  Collect(Walk(objects, m))

-----------------------------------------------------------------------------
(* Mutant: the discarded setsum is taken off setsum, not put to collected. *)
WithoutGarbageForgotten(m, g) ==
    LET drop == ToSet(g.snapshots_to_drop)
        remaining == At(m.snapshots, {i \in DOMAIN m.snapshots : m.snapshots[i] \notin drop})
    IN  [setsum |-> m.setsum - g.setsum_to_discard,
         collected |-> m.collected,
         snapshots |-> SetToSeq(g.snapshot_for_root \ ToSet(remaining)) \o remaining,
         fragments |-> At(m.fragments, {i \in DOMAIN m.fragments :
                             m.fragments[i].seq_no \notin FragmentsToDelete(g)}),
         initial_offset |-> g.first_to_keep,
         initial_seq_no |-> g.fragments_to_drop_limit]

(* The manifest without the garbage.                                       *)
WithoutGarbage(m, g) ==
    LET drop == ToSet(g.snapshots_to_drop)
        remaining == At(m.snapshots, {i \in DOMAIN m.snapshots : m.snapshots[i] \notin drop})
        root == g.snapshot_for_root \ ToSet(remaining)
    IN  [setsum |-> m.setsum,
         collected |-> m.collected + g.setsum_to_discard,
         snapshots |-> SetToSeq(root) \o remaining,
         fragments |-> At(m.fragments, {i \in DOMAIN m.fragments :
                             m.fragments[i].seq_no \notin FragmentsToDelete(g)}),
         initial_offset |-> g.first_to_keep,
         initial_seq_no |-> g.fragments_to_drop_limit]

(* The setsum that leaves the manifest, less that of a root that enters.   *)
SetsumDiscarded(m, g) ==
    LET drop == ToSet(g.snapshots_to_drop)
        leaving == SelectSeq(m.snapshots, LAMBDA p : p \in drop \ g.snapshot_for_root)
        remaining == {p \in ToSet(m.snapshots) : p \notin drop}
    IN  Setsums(leaving)
          + Setsums(SelectSeq(m.fragments, LAMBDA f : f.seq_no \in FragmentsToDelete(g)))
          - Setsums(SetToSeq(g.snapshot_for_root \ remaining))

(* apply_garbage: "none" when the manifest has already let go of the       *)
(* garbage, "err" when it is not the tree the garbage was computed from.   *)
apply_garbage(m, g) ==
    LET new == WithoutGarbage(m, g)
        gone == /\ g.fragments_to_drop_limit <= UnwrapOr(m.initial_seq_no, BEGIN)
                /\ ToSet(g.snapshots_to_drop) \cap ToSet(m.snapshots) = {}
                /\ g.snapshots_to_make = <<>>
        clean == /\ SetsumDiscarded(m, g) = g.setsum_to_discard
                 /\ scrub(new)
                 /\ oldest_timestamp(new) <= g.first_to_keep
                 /\ next_write_timestamp(new) = next_write_timestamp(m)
    IN  CASE is_empty(g) -> [kind |-> "err", manifest |-> m]
          [] ~is_empty(g) /\ gone -> [kind |-> "none", manifest |-> m]
          [] ~is_empty(g) /\ ~gone /\ clean -> [kind |-> "ok", manifest |-> new]
          [] OTHER -> [kind |-> "err", manifest |-> m]

=============================================================================

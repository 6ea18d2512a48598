-------------------------- MODULE GarbageCollection --------------------------
(***************************************************************************)
(* Garbage collection of a wal3 log in three phases, while LogWriters      *)
(* append to it.                                                           *)
(*                                                                         *)
(* The collector opens the log read-only, computes what lies below the     *)
(* cutoff and puts it into gc/GARBAGE (phase 1); asks a log server to link *)
(* a manifest without it (phase 2); deletes the files and resets           *)
(* gc/GARBAGE (phase 3).                                                   *)
(*                                                                         *)
(* Translated from garbage_collector's delete_unused_logs.rs, wal3's       *)
(* writer.rs and gc.rs, and the log service's garbage_collect_phase2.      *)
(*                                                                         *)
(*  - cursor is the smallest cursor of the log.                            *)
(*  - A LogWriter serves phase 2 between two appends.  Both at once on one *)
(*    ManifestManager is left out.                                         *)
(***************************************************************************)
EXTENDS LogWriter, Garbage

CONSTANTS
    Collectors,      \* processes that run the collection of this log
    MaxRounds        \* bound on the collections each of them starts

ASSUME CollectorAssumption == MaxRounds \in Nat

VARIABLES
    garbage,        \* gc/GARBAGE
    garbage_e_tag,  \* its version, 0 while it does not exist
    cursor,         \* the smallest cursor, None while there is none
    collector,      \* the state of each collector
    requests,       \* phase 2 requests that no log server has taken yet
    serving,        \* the request that a LogWriter serves
    \* Bookkeeping: seq_nos that phase 3 has deleted, and seq_nos that were
    \* named in gc/GARBAGE when it was reset without deleting them.
    removed,
    abandoned

gc_vars == <<garbage, garbage_e_tag, cursor, collector, requests, serving, removed,
             abandoned>>
all_vars == <<vars, gc_vars>>

Request == [from : Collectors, round : 1..MaxRounds]

NoCollection(round) ==
    [pc |-> "idle", round |-> round, manifest |-> new_empty, cutoff |-> 0, tries |-> 0,
     garbage |-> EmptyGarbage, e_tag |-> 0]

GCInit ==
    /\ Init
    /\ garbage = EmptyGarbage
    /\ garbage_e_tag = 0
    /\ cursor = None
    /\ collector = [c \in Collectors |-> NoCollection(0)]
    /\ requests = {}
    /\ serving = [w \in Writers |-> {}]
    /\ removed = {}
    /\ abandoned = {}

-----------------------------------------------------------------------------
(* Compaction moves the cursor forward; the log server ignores a request   *)
(* to move it back.                                                        *)
UpdateCursor(position) ==
    /\ position \in cursor..next_write_timestamp(manifest)
    /\ position > cursor
    /\ cursor' = position
    /\ UNCHANGED <<vars, garbage, garbage_e_tag, collector, requests, serving, removed,
                   abandoned>>

-----------------------------------------------------------------------------
(* Phase 1.                                                                *)

(* Collector c stands at label.                                            *)
Stands(c, label) == collector[c].pc = label

(* The collection ends, whatever its outcome.                              *)
Stop(c) == collector' = [collector EXCEPT ![c] = NoCollection(@.round)]

(* Each iteration of phase 1 counts; the fourth fails.                     *)
Retry(c) ==
    IF collector[c].tries >= 3 THEN Stop(c)
    ELSE collector' = [collector EXCEPT ![c].pc = "load", ![c].tries = @ + 1]

(* GarbageCollector::open: the manifest it loads is the one it works with. *)
OpenCollector(c) ==
    /\ Stands(c, "idle")
    /\ collector[c].round < MaxRounds
    /\ collector' = [collector EXCEPT ![c] =
          [NoCollection(@.round + 1) EXCEPT !.pc = "cutoff", !.manifest = manifest]]
    /\ UNCHANGED <<vars, garbage, garbage_e_tag, cursor, requests, serving, removed,
                   abandoned>>

(* garbage_collection_cutoff, and keep_at_least, which lowers the cutoff.  *)
Cutoff(c) ==
    /\ Stands(c, "cutoff")
    /\ IF cursor = None THEN Stop(c)
       ELSE \E cutoff \in 1..cursor :
               collector' = [collector EXCEPT ![c].cutoff = cutoff,
                                              ![c].tries = 1, ![c].pc = "load"]
    /\ UNCHANGED <<vars, garbage, garbage_e_tag, cursor, requests, serving, removed,
                   abandoned>>

(* Garbage::load.  Garbage that is left from an earlier collection is used *)
(* if the manifest the collector holds can let go of it.                   *)
LoadGarbage(c) ==
    /\ Stands(c, "load")
    /\ LET applies == apply_garbage(collector[c].manifest, garbage).kind = "ok"
           to == IF is_empty(garbage) THEN "compute"
                 ELSE IF applies THEN "request" ELSE "reset"
       IN  collector' = [collector EXCEPT ![c].garbage = garbage,
                                          ![c].e_tag = garbage_e_tag, ![c].pc = to]
    /\ UNCHANGED <<vars, garbage, garbage_e_tag, cursor, requests, serving, removed,
                   abandoned>>

(* Garbage::transition: replace gc/GARBAGE if it is what c has loaded.     *)
PutGarbage(c, g) ==
    /\ garbage_e_tag = collector[c].e_tag
    /\ garbage' = g
    /\ garbage_e_tag' = garbage_e_tag + 1

(* Left-over garbage that does not apply is reset, whether or not its files *)
(* were deleted; if somebody else has replaced it, that is as good.        *)
ResetStale(c) ==
    /\ Stands(c, "reset")
    /\ \/ /\ PutGarbage(c, EmptyGarbage)
          /\ abandoned' = abandoned \cup FragmentsToDelete(garbage)
       \/ /\ garbage_e_tag # collector[c].e_tag
          /\ UNCHANGED <<garbage, garbage_e_tag, abandoned>>
    /\ Retry(c)
    /\ UNCHANGED <<vars, cursor, requests, serving, removed>>

(* compute_garbage.                                                        *)
ComputeGarbage(c) ==
    /\ Stands(c, "compute")
    /\ LET computed == garbage_new(snapshots, collector[c].manifest, collector[c].cutoff)
       IN  IF computed.kind = "ok"
           THEN collector' = [collector EXCEPT ![c].garbage = computed.garbage,
                                               ![c].pc = "make"]
           ELSE Stop(c)
    /\ UNCHANGED <<vars, garbage, garbage_e_tag, cursor, requests, serving, removed,
                   abandoned>>

(* install_new_snapshots.                                                  *)
MakeSnapshots(c) ==
    /\ Stands(c, "make")
    /\ snapshots' = FoldLeft(SnapshotInstall, snapshots, collector[c].garbage.snapshots_to_make)
    /\ collector' = [collector EXCEPT ![c].pc = "put"]
    /\ UNCHANGED <<manifest, e_tag, fragments, delayed, dirty, retried, presumed, pc,
                   inner, handling, batch, staging, working, result, history, faults,
                   garbage, garbage_e_tag, cursor, requests, serving, removed, abandoned>>

(* Garbage::install: on contention phase 1 starts over.                    *)
InstallGarbage(c) ==
    /\ Stands(c, "put")
    /\ \/ /\ PutGarbage(c, collector[c].garbage)
          /\ collector' = [collector EXCEPT ![c].pc = "request"]
       \/ /\ garbage_e_tag # collector[c].e_tag
          /\ Retry(c)
          /\ UNCHANGED <<garbage, garbage_e_tag>>
    /\ UNCHANGED <<vars, cursor, requests, serving, removed, abandoned>>

-----------------------------------------------------------------------------
(* Phase 2.                                                                *)

RequestPhase2(c) ==
    /\ Stands(c, "request")
    /\ requests' = requests \cup {[from |-> c, round |-> collector[c].round]}
    /\ collector' = [collector EXCEPT ![c].pc = "phase 2"]
    /\ UNCHANGED <<vars, garbage, garbage_e_tag, cursor, serving, removed, abandoned>>

(* Mutant: the collector goes on although phase 2 failed.                  *)
ReplyIgnored(r, ok) ==
    IF Stands(r.from, "phase 2") /\ collector[r.from].round = r.round
    THEN collector' = [collector EXCEPT ![r.from].pc = "phase 3"]
    ELSE UNCHANGED collector

(* The log server answers request r.  A collector that has given up on the *)
(* request does not hear it.                                               *)
Reply(r, ok) ==
    IF Stands(r.from, "phase 2") /\ collector[r.from].round = r.round
    THEN IF ok THEN collector' = [collector EXCEPT ![r.from].pc = "phase 3"]
               ELSE Stop(r.from)
    ELSE UNCHANGED collector

(* A log server that has the log open takes a request: it loads the        *)
(* garbage and applies it to the manifest it holds.  Nothing to do is Ok;  *)
(* garbage that does not apply closes the log.                             *)
ServePhase2(w) ==
    /\ pc[w] = "idle"
    /\ inner[w] = "open"
    /\ \E r \in requests :
          LET applied == apply_garbage(staging[w].manifest, garbage)
              kind == IF is_empty(garbage) THEN "none" ELSE applied.kind
          IN  /\ requests' = requests \ {r}
              /\ \/ /\ kind = "none"
                    /\ Reply(r, TRUE)
                    /\ UNCHANGED <<pc, inner, handling, batch, staging, working, serving>>
                 \/ /\ kind = "err"
                    /\ Reply(r, FALSE)
                    /\ Idle(w, "closed", NoStaging)
                    /\ UNCHANGED serving
                 \/ /\ kind = "ok"
                    /\ pc' = [pc EXCEPT ![w] = "collect"]
                    /\ pulled' = [pulled EXCEPT ![w].manifest = applied.manifest]
                    /\ serving' = [serving EXCEPT ![w] = {r}]
                    /\ UNCHANGED <<inner, handling, batch, staging, fragment, upload,
                                   mark, collector>>
    /\ UNCHANGED <<storage, dirty, retried, presumed, result, history, faults, garbage,
                   garbage_e_tag, cursor, removed, abandoned>>

(* The request that w serves is answered.                                  *)
Answer(w, ok) ==
    /\ serving' = [serving EXCEPT ![w] = {}]
    /\ \E r \in serving[w] : Reply(r, ok)

(* Put the manifest without the garbage, if the e_tag is tag.              *)
PutCollected(tag, m) ==
    /\ e_tag = tag
    /\ manifest' = m
    /\ e_tag' = e_tag + 1

(* Manifest::install in phase 2; as in InstallManifest, the reply may lack *)
(* the e_tag, or be lost and the put be repeated.                          *)
InstallCollected(w) ==
    /\ pc[w] = "collect"
    /\ PutCollected(staging[w].e_tag, pulled[w].manifest)
    /\ \/ /\ Idle(w, "open", [staging[w] EXCEPT !.manifest = manifest', !.e_tag = e_tag'])
          /\ Answer(w, TRUE)
          /\ UNCHANGED faults
       \/ /\ Fault
          /\ Idle(w, "closed", NoStaging)
          /\ Answer(w, FALSE)
       \/ /\ Fault
          /\ UNCHANGED <<pc, inner, handling, batch, staging, working, collector, serving>>
    /\ UNCHANGED <<fragments, snapshots, delayed, dirty, retried, presumed, result,
                   history, garbage, garbage_e_tag, cursor, requests, removed, abandoned>>

CollectedInFlight(w) ==
    [kind |-> "collected", e_tag |-> staging[w].e_tag, manifest |-> pulled[w].manifest]

(* Another manifest is there, or the put keeps failing and may yet arrive: *)
(* contention, after which the log is opened again.                        *)
CollectConflict(w) ==
    /\ pc[w] = "collect"
    /\ \/ e_tag # staging[w].e_tag /\ UNCHANGED <<delayed, faults>>
       \/ Fault /\ delayed' \in {delayed, delayed \cup {CollectedInFlight(w)}}
    /\ Reopen(w, "open", 0, 1)
    /\ Answer(w, FALSE)
    /\ UNCHANGED <<manifest, e_tag, fragments, snapshots, dirty, retried, presumed,
                   history, garbage, garbage_e_tag, cursor, requests, removed, abandoned>>

DelayedCollected(r) ==
    /\ r.kind = "collected"
    /\ delayed' = delayed \ {r}
    /\ \/ PutCollected(r.e_tag, r.manifest)
       \/ e_tag # r.e_tag /\ UNCHANGED <<manifest, e_tag>>
    /\ UNCHANGED <<fragments, snapshots, dirty, retried, presumed, pc, inner, handling,
                   batch, staging, working, result, history, faults, gc_vars>>

-----------------------------------------------------------------------------
(* Phase 3.                                                                *)

LoadGarbageToDelete(c) ==
    /\ Stands(c, "phase 3")
    /\ IF garbage_e_tag = 0 THEN Stop(c)
       ELSE collector' = [collector EXCEPT ![c].garbage = garbage,
                                           ![c].e_tag = garbage_e_tag, ![c].pc = "delete"]
    /\ UNCHANGED <<vars, garbage, garbage_e_tag, cursor, requests, serving, removed,
                   abandoned>>

(* Mutant: fragments are left behind.                                      *)
DeleteSnapshotsOnly(names, seq_nos) ==
    /\ snapshots' = {s \in snapshots : s.setsum \notin names}
    /\ UNCHANGED fragments

DeleteFiles(names, seq_nos) ==
    /\ snapshots' = {s \in snapshots : s.setsum \notin names}
    /\ fragments' = [n \in DOMAIN fragments \ seq_nos |-> fragments[n]]

(* delete_many, then on to the reset.  Or it fails with some files left    *)
(* and phase 3 returns the error.                                          *)
DeleteGarbage(c) ==
    /\ Stands(c, "delete")
    /\ LET names == SnapshotsToDelete(collector[c].garbage)
           seq_nos == FragmentsToDelete(collector[c].garbage)
       IN  /\ \/ /\ DeleteFiles(names, seq_nos)
                 /\ collector' = [collector EXCEPT ![c].pc = "done"]
                 /\ UNCHANGED faults
              \/ /\ Fault
                 /\ \E some \in SUBSET names, few \in SUBSET seq_nos : DeleteFiles(some, few)
                 /\ Stop(c)
           /\ removed' = removed \cup (seq_nos \ DOMAIN fragments')
    /\ UNCHANGED <<manifest, e_tag, delayed, dirty, retried, presumed, pc, inner,
                   handling, batch, staging, working, result, history, garbage,
                   garbage_e_tag, cursor, requests, serving, abandoned>>

ResetDone(c) ==
    /\ Stands(c, "done")
    /\ \/ PutGarbage(c, EmptyGarbage)
       \/ garbage_e_tag # collector[c].e_tag /\ UNCHANGED <<garbage, garbage_e_tag>>
    /\ Stop(c)
    /\ UNCHANGED <<vars, cursor, requests, serving, removed, abandoned>>

-----------------------------------------------------------------------------
(* A collector dies or meets an error of storage or of the network; the    *)
(* put it waits for may have been made.                                    *)
CollectorFails(c) ==
    /\ ~Stands(c, "idle")
    /\ Fault
    /\ \/ UNCHANGED <<garbage, garbage_e_tag, abandoned>>
       \/ /\ Stands(c, "put")
          /\ PutGarbage(c, collector[c].garbage)
          /\ UNCHANGED abandoned
       \/ /\ Stands(c, "reset")
          /\ PutGarbage(c, EmptyGarbage)
          /\ abandoned' = abandoned \cup FragmentsToDelete(garbage)
       \/ /\ Stands(c, "done")
          /\ PutGarbage(c, EmptyGarbage)
          /\ UNCHANGED abandoned
    /\ Stop(c)
    /\ UNCHANGED <<storage, dirty, retried, presumed, pc, inner, handling, batch,
                   staging, working, result, history, cursor, requests, serving,
                   removed>>

(* A log server dies while it serves phase 2; see Crash for all else.      *)
CrashInPhase2(w) ==
    /\ pc[w] = "collect"
    /\ Fault
    /\ delayed' \in {delayed, delayed \cup {CollectedInFlight(w)}}
    /\ Idle(w, "none", NoStaging)
    /\ Answer(w, FALSE)
    /\ UNCHANGED <<manifest, e_tag, fragments, snapshots, dirty, retried, presumed,
                   result, history, garbage, garbage_e_tag, cursor, requests, removed,
                   abandoned>>

Collect(c) ==
    \/ OpenCollector(c)
    \/ Cutoff(c)
    \/ LoadGarbage(c)
    \/ ResetStale(c)
    \/ ComputeGarbage(c)
    \/ MakeSnapshots(c)
    \/ InstallGarbage(c)
    \/ RequestPhase2(c)
    \/ LoadGarbageToDelete(c)
    \/ DeleteGarbage(c)
    \/ ResetDone(c)

AppendStep ==
    /\ \/ \E w \in Writers : Open(w)
       \/ \E w \in Writers, b \in Batches : AppendMany(w, b)
       \/ \E w \in Writers : Step(w)
       \/ \E w \in Writers : pc[w] # "collect" /\ Crash(w)
       \/ \E r \in delayed : DelayedFragment(r)
       \/ \E r \in delayed : DelayedManifest(r)
    /\ UNCHANGED gc_vars

(* Nothing is left to append, no collection is under way.                  *)
GCFinished ==
    /\ \A b \in Batches : result[b].status \notin {"none", "pending"}
    /\ \A c \in Collectors : Stands(c, "idle")
    /\ UNCHANGED all_vars

GCNext ==
    \/ AppendStep
    \/ \E position \in 1..next_write_timestamp(manifest) : UpdateCursor(position)
    \/ \E c \in Collectors : Collect(c)
    \/ \E c \in Collectors : CollectorFails(c)
    \/ \E w \in Writers : ServePhase2(w)
    \/ \E w \in Writers : InstallCollected(w)
    \/ \E w \in Writers : CollectConflict(w)
    \/ \E w \in Writers : CrashInPhase2(w)
    \/ \E r \in delayed : DelayedCollected(r)
    \/ GCFinished

GCSpec == GCInit /\ [][GCNext]_all_vars

-----------------------------------------------------------------------------
(* Properties.                                                             *)

(* Every variable that collection adds holds a value of its kind, and      *)
(* gc/GARBAGE names seq_nos that were linked and a position to keep.       *)
GCTypeOK ==
    /\ garbage_e_tag \in Nat
    /\ FragmentsToDelete(garbage) \subseteq DOMAIN history
    /\ garbage.first_to_keep \in Nat \ {0}
    /\ cursor \in Nat
    /\ \A c \in Collectors :
          /\ collector[c].pc \in {"idle", "cutoff", "load", "reset", "compute", "make",
                                  "put", "request", "phase 2", "phase 3", "delete", "done"}
          /\ collector[c].round \in 0..MaxRounds
          /\ collector[c].tries \in 0..3
    /\ requests \subseteq Request
    /\ \A w \in Writers : serving[w] \subseteq Request

live == scan_from_manifest(snapshots, manifest)

(* However the log is collected, what the manifest still refers to can be  *)
(* read: every snapshot exists, every fragment is as it was linked, and    *)
(* together they are the end of what was ever linked.                      *)
LiveLogIsReadable ==
    LET under == Walk(snapshots, manifest)
        log == live
    IN  /\ \A p \in ToSet(manifest.snapshots) : under[p].complete
        /\ IsSuffix(log, history)
        /\ \A f \in ToSet(log) : f.seq_no \in DOMAIN fragments /\ fragments[f.seq_no] = f

(* Storage holds every fragment with a record that a cursor still needs.   *)
NeededIsStored ==
    \A f \in ToSet(history) :
        f.limit > cursor => f.seq_no \in DOMAIN fragments /\ fragments[f.seq_no] = f

(* No record that a cursor still needs is collected: it is in storage, and *)
(* the manifest leads to it.                                               *)
CursorKept ==
    /\ NeededIsStored
    /\ {f \in ToSet(history) : f.limit > cursor} \subseteq ToSet(live)

(* The manifest balances also after collection, and its setsums account    *)
(* for every fragment that was linked and for every one that was dropped.  *)
SetsumsAccount ==
    /\ scrub(manifest)
    /\ manifest.setsum = Setsums(history)
    /\ manifest.collected = Setsums(SubSeq(history, 1, Len(history) - Len(live)))

(* Collection never makes the log assign a seq_no or a log position twice, *)
(* even when it leaves nothing of the log.                                 *)
PositionsAreNotReused ==
    /\ next_fragment_seq_no(manifest) = Len(history) + 1
    /\ next_write_timestamp(manifest) = IF history = <<>> THEN 1 ELSE Last(history).limit

(* p may be part of a tree that ends at top.                               *)
Part(p, top) ==
    /\ p.start \in Nat /\ p.limit \in Nat /\ p.setsum \in Int
    /\ p.start < p.limit /\ p.limit <= top

(* g ends with a fragment of the log and keeps what comes after it; what   *)
(* stands for the rest of a snapshot that it cuts ends before the log.     *)
Cuts(log, g) ==
    LET limit == g.fragments_to_drop_limit
    IN  /\ limit \in 2..(Len(log) + 1)
        /\ g.first_to_keep = EndOf(log, limit - 1)
        /\ g.setsum_to_discard \in Int
        /\ \A p, q \in g.snapshot_for_root : p = q
        /\ \A p \in g.snapshot_for_root :
              /\ Part(p, EndOf(log, Len(log)))
              /\ p.limit # EndOf(log, Len(log))
              /\ p.depth \in Nat

(* The first seq_no that m has not let go of.                              *)
FirstOf(m) == UnwrapOr(m.initial_seq_no, BEGIN)

(* What Garbage::new promises: the garbage that it computes starts with    *)
(* the first fragment of the manifest, and ends with the last one before   *)
(* the cutoff or with an earlier one.                                      *)
ComputesRuns ==
    \A c \in Collectors :
        Stands(c, "compute") =>
            LET computed == garbage_new(snapshots, collector[c].manifest, collector[c].cutoff)
            IN  computed.kind = "ok" =>
                    /\ Cuts(history, computed.garbage)
                    /\ computed.garbage.first_to_keep <= collector[c].cutoff
                    /\ computed.garbage.fragments_to_drop_start = FirstOf(collector[c].manifest)
                    /\ FirstOf(collector[c].manifest) < computed.garbage.fragments_to_drop_limit

(* What a collection calls garbage is garbage: it is cut off the log where *)
(* a fragment ends, and once phase 3 is about to delete it (this is the    *)
(* pre-condition of phase 3) the manifest does not refer to it.            *)
DeletesOnlyGarbage ==
    /\ ComputesRuns
    /\ \A c \in Collectors :
          Stands(c, "delete") =>
            LET g == collector[c].garbage
                under == Walk(snapshots, manifest)
                reach == UNION {ToSet(under[p].snapshots) : p \in ToSet(manifest.snapshots)}
            IN  /\ SeqNos(live) \cap FragmentsToDelete(g) = {}
                /\ {p.setsum : p \in reach} \cap SnapshotsToDelete(g) = {}

(* No file is left behind by accident: a fragment in storage that the      *)
(* manifest has let go of is named in gc/GARBAGE, or phase 3 has deleted   *)
(* it before (and a writer that lags behind put it again), or it was named *)
(* in left-over garbage that a later collection reset because it did not   *)
(* apply any more.  No failure of a collector or of a log server loses a   *)
(* file in another way.                                                    *)
CollectedIsTracked ==
    \A n \in DOMAIN fragments :
        n < FirstOf(manifest) => n \in FragmentsToDelete(garbage) \cup removed \cup abandoned

=============================================================================

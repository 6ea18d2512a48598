----------------------------- MODULE LogWriter ------------------------------
(***************************************************************************)
(* Appending to a wal3 log: any number of LogWriters on one prefix of      *)
(* object storage, coordinated only by conditional puts.                   *)
(*                                                                         *)
(* A writer opens the log (loads the manifest, recovers a fragment that is *)
(* in storage but not in the manifest), assigns a batch the next seq_no,   *)
(* puts the fragment if-not-exists, and links it by replacing the manifest *)
(* if its e_tag still matches.  An error throws the OnceLogWriter away;    *)
(* LogWriter::handle_errors_and_contention decides whether to open another *)
(* and what the caller is told.                                            *)
(*                                                                         *)
(* Translated from rust/wal3/src/writer.rs and manifest_manager.rs.        *)
(*                                                                         *)
(*  - A batch is what BatchManager::take_work hands out: the messages of   *)
(*    every caller that shares one fragment, and so one result.  At most   *)
(*    one is in flight per OnceLogWriter (ManagerState::writers_active).   *)
(*  - Each action is one step between two awaits on object storage or on   *)
(*    the dirty log.                                                       *)
(*  - A request whose sender gave up or crashed may still arrive.          *)
(***************************************************************************)
EXTENDS Manifest

CONSTANTS
    Writers,               \* LogWriters on the log
    Batches,               \* batches that callers append
    NumRecords,            \* [Batches -> Nat \ {0}]: messages in a batch
    Weight,                \* [Batches -> Int]: what a batch's setsum is made of
    MarkDirtyErrors,       \* what MarkDirty::mark_dirty may fail with
    MaxFaults,             \* bound on faults: crashes, lost replies, errors
    NoBatch, NoFragment    \* stand for the absence of either

ASSUME BatchAssumption ==
    /\ NumRecords \in [Batches -> Nat \ {0}]
    /\ Weight \in [Batches -> Int]

ASSUME AbsenceAssumption == NoBatch \notin Batches

ASSUME FaultAssumption ==
    /\ MarkDirtyErrors \subseteq {"durable", "retry", "error"}
    /\ MaxFaults \in Nat

VARIABLES
    \* Object storage.
    manifest,   \* manifest/MANIFEST
    e_tag,      \* its version
    fragments,  \* seq_no -> fragment, for the fragments that exist
    snapshots,  \* the snapshots that exist
    delayed,    \* puts still in flight although nobody waits for them
    \* The dirty log: log positions that were marked.
    dirty,
    \* Bookkeeping: the batches that its contention errors, which mark_dirty
    \* passes on as if they were the log's own, reached.
    retried,    \* written again after LogContentionRetry
    presumed,   \* reported durable before anything of them was written
    \* Each LogWriter.
    pc,         \* where its call of open or append_many stands
    inner,      \* "none": there is no LogWriter, "closed": it holds no
                \* OnceLogWriter, "open": it holds one that is not done
    goal,       \* why it opens: only to "open", to "append", or to "confirm"
                \* that contention left the data durable
    attempts,   \* iteration of handle_errors_and_contention
    opens,      \* iteration of ensure_open
    batch,      \* the batch in flight
    staging,    \* ManifestManager's Staging
    fragment,   \* the fragment being uploaded, recovered or published
    upload,     \* outcome of upload_parquet
    mark,       \* outcome of mark_dirty in append_batch_internal
    pulled,     \* what Staging::pull_work returned
    \* What append_many returned for each batch.
    result,
    \* Bookkeeping: the fragments ever linked, in order, and faults so far.
    history,
    faults

storage == <<manifest, e_tag, fragments, snapshots, delayed>>
handling == <<goal, attempts, opens>>
working == <<fragment, upload, mark, pulled>>
vars == <<storage, dirty, retried, presumed, pc, inner, handling, batch, staging,
          working, result, history, faults>>

-----------------------------------------------------------------------------
(* construct_parquet sums a hash of every message with its position, so    *)
(* that the setsum depends on where the batch is written.                  *)
FragmentSetsum(seq_no, b) == seq_no * Weight[b]

IsFragment(f) == f.seq_no \in Nat \ {0} /\ f.batch \in Batches

Statuses == {"none", "pending", "ok", "durable", "retry", "failure", "error"}
Result(status, position) == [status |-> status, position |-> position]

(* Staging: the manifest and e_tag last seen in storage, the next log      *)
(* position and seq_no to assign, the next seq_no to apply.                *)
Staging(m, tag, position, assign, apply) ==
    [manifest |-> m, e_tag |-> tag, next_log_position |-> position,
     next_seq_no_to_assign |-> assign, next_seq_no_to_apply |-> apply]

NewStaging(m, tag) ==
    Staging(m, tag, next_write_timestamp(m), next_fragment_seq_no(m),
            next_fragment_seq_no(m))

NoStaging == NewStaging(new_empty, 0)
NothingPulled == [manifest |-> new_empty, snapshots |-> {}]

Init ==
    /\ manifest = new_empty
    /\ e_tag = 1
    /\ fragments = <<>>
    /\ snapshots = {}
    /\ delayed = {}
    /\ dirty = {}
    /\ retried = {}
    /\ presumed = {}
    /\ pc = [w \in Writers |-> "idle"]
    /\ inner = [w \in Writers |-> "none"]
    /\ goal = [w \in Writers |-> "open"]
    /\ attempts = [w \in Writers |-> 0]
    /\ opens = [w \in Writers |-> 0]
    /\ batch = [w \in Writers |-> NoBatch]
    /\ staging = [w \in Writers |-> NoStaging]
    /\ fragment = [w \in Writers |-> NoFragment]
    /\ upload = [w \in Writers |-> "wait"]
    /\ mark = [w \in Writers |-> "wait"]
    /\ pulled = [w \in Writers |-> NothingPulled]
    /\ result = [b \in Batches |-> Result("none", 0)]
    /\ history = <<>>
    /\ faults = 0

-----------------------------------------------------------------------------
(* Outcomes of the calls, shared by the actions below.                     *)

ClearWork(w) ==
    /\ fragment' = [fragment EXCEPT ![w] = NoFragment]
    /\ upload' = [upload EXCEPT ![w] = "wait"]
    /\ mark' = [mark EXCEPT ![w] = "wait"]
    /\ pulled' = [pulled EXCEPT ![w] = NothingPulled]

(* The call is over; the LogWriter is left in the state state.            *)
Idle(w, state, stage) ==
    /\ pc' = [pc EXCEPT ![w] = "idle"]
    /\ inner' = [inner EXCEPT ![w] = state]
    /\ goal' = [goal EXCEPT ![w] = "open"]
    /\ attempts' = [attempts EXCEPT ![w] = 0]
    /\ opens' = [opens EXCEPT ![w] = 0]
    /\ batch' = [batch EXCEPT ![w] = NoBatch]
    /\ staging' = [staging EXCEPT ![w] = stage]
    /\ ClearWork(w)

(* append_many returns.                                                    *)
Return(w, status, position, state, stage) ==
    /\ result' = [result EXCEPT ![batch[w]] = Result(status, position)]
    /\ Idle(w, state, stage)

(* The caller goes (back) into ensure_open with nothing open.              *)
Reopen(w, why, attempt, open) ==
    /\ pc' = [pc EXCEPT ![w] = "open"]
    /\ inner' = [inner EXCEPT ![w] = IF inner[w] = "none" THEN "none" ELSE "closed"]
    /\ goal' = [goal EXCEPT ![w] = why]
    /\ attempts' = [attempts EXCEPT ![w] = attempt]
    /\ opens' = [opens EXCEPT ![w] = open]
    /\ staging' = [staging EXCEPT ![w] = NoStaging]
    /\ ClearWork(w)
    /\ UNCHANGED <<batch, result>>

(* ensure_open returns Err(err): to LogWriter::open, to append_many, whose *)
(* caller gets that very error (`?`), or to the confirmation of a durable  *)
(* write, which turns any error into a failure.                            *)
EnsureOpenErr(w, err) ==
    CASE goal[w] = "open" -> Idle(w, inner[w], NoStaging) /\ UNCHANGED result
      [] goal[w] = "append" -> Return(w, err, 0, "closed", NoStaging)
      [] goal[w] = "confirm" -> Return(w, "failure", 0, "closed", NoStaging)

(* OnceLogWriter::open returns Err(err) to ensure_open.                    *)
OpenFails(w, err) ==
    IF err = "retry" /\ opens[w] < 3
    THEN Reopen(w, goal[w], attempts[w], opens[w] + 1)
    ELSE EnsureOpenErr(w, err)

(* Mutants: the writer is not shut down by an error; contention is taken   *)
(* for durable without opening the log again.                              *)
AppendFailsOpen(w, err) ==
    CASE err = "durable" -> Reopen(w, "confirm", attempts[w], 1)
      [] OTHER -> Return(w, err, 0, "open", staging[w])

AppendFailsUnconfirmed(w, err) ==
    CASE err = "durable" -> Return(w, "durable", 0, "closed", NoStaging)
      [] err = "retry" /\ attempts[w] < 3 -> Reopen(w, "append", attempts[w] + 1, 1)
      [] OTHER -> Return(w, err, 0, "closed", NoStaging)

(* OnceLogWriter::append returned Err(err): append_batch_internal has shut *)
(* the OnceLogWriter down.                                                 *)
AppendFails(w, err) ==
    CASE err = "durable" -> Reopen(w, "confirm", attempts[w], 1)
      [] err = "retry" /\ attempts[w] < 3 -> Reopen(w, "append", attempts[w] + 1, 1)
      [] err = "retry" /\ attempts[w] >= 3 -> Return(w, "failure", 0, "closed", NoStaging)
      [] OTHER -> Return(w, err, 0, "closed", NoStaging)

(* Mutant: contention on the manifest is reported as one to retry.         *)
PublishFailsRetry(w, err) ==
    LET e == IF err = "durable" THEN "retry" ELSE err
    IN  IF inner[w] = "open" THEN AppendFails(w, e) ELSE OpenFails(w, e)

(* publish_fragment returns Err(err), to recover while nothing is open     *)
(* yet and to append_batch_internal otherwise.                             *)
PublishFails(w, err) ==
    IF inner[w] = "open" THEN AppendFails(w, err)
    ELSE OpenFails(w, IF err = "durable" THEN "retry" ELSE err)

(* Mutant: the caller is told where its batch ends.                        *)
PublishOkLimit(w) ==
    IF inner[w] = "open"
    THEN LET s == staging[w]
         IN  Return(w, "ok", fragment[w].limit, "open",
                    Staging(pulled[w].manifest, e_tag', s.next_log_position,
                            s.next_seq_no_to_assign, s.next_seq_no_to_apply))
    ELSE OpenFails(w, "retry")

(* publish_fragment returns Ok: recover starts over from the new manifest, *)
(* an append is done.                                                      *)
PublishOk(w) ==
    IF inner[w] = "open"
    THEN LET s == staging[w]
         IN  Return(w, "ok", fragment[w].start, "open",
                    Staging(pulled[w].manifest, e_tag', s.next_log_position,
                            s.next_seq_no_to_assign, s.next_seq_no_to_apply))
    ELSE OpenFails(w, "retry")

Fault == faults < MaxFaults /\ faults' = faults + 1

-----------------------------------------------------------------------------
(* Requests to object storage.                                             *)

(* Mutant: a put without its condition.                                    *)
PutManifestAlways(tag, m, f) ==
    /\ manifest' = m
    /\ e_tag' = e_tag + 1
    /\ history' = Append(history, f)

PutFragment(f) ==
    /\ f.seq_no \notin DOMAIN fragments
    /\ fragments' = [n \in DOMAIN fragments \cup {f.seq_no} |->
                        IF n = f.seq_no THEN f ELSE fragments[n]]

PutManifest(tag, m, f) ==
    /\ e_tag = tag
    /\ manifest' = m
    /\ e_tag' = e_tag + 1
    /\ history' = Append(history, f)

Uploading(w) == pc[w] = "write" /\ upload[w] = "wait"

(* The put that w waits for, if any.                                       *)
InFlight(w) ==
    IF Uploading(w)
    THEN {[kind |-> "fragment", fragment |-> fragment[w]]}
    ELSE IF pc[w] = "install"
    THEN {[kind |-> "manifest", fragment |-> fragment[w],
           e_tag |-> staging[w].e_tag, manifest |-> pulled[w].manifest]}
    ELSE {}

-----------------------------------------------------------------------------
(* Opening: ensure_open, OnceLogWriter::open, ManifestManager::recover.    *)

(* LogWriter::open, or the ensure_open of a call that is not an append.    *)
Open(w) ==
    /\ pc[w] = "idle"
    /\ inner[w] # "open"
    /\ pc' = [pc EXCEPT ![w] = "open"]
    /\ opens' = [opens EXCEPT ![w] = 1]
    /\ UNCHANGED <<storage, dirty, retried, presumed, inner, goal, attempts, batch,
                   staging, working, result, history, faults>>

(* append_many: handle_errors_and_contention calls ensure_open, which      *)
(* opens the log unless it is open.                                        *)
AppendMany(w, b) ==
    /\ pc[w] = "idle"
    /\ inner[w] # "none"
    /\ result[b].status = "none"
    /\ result' = [result EXCEPT ![b] = Result("pending", 0)]
    /\ batch' = [batch EXCEPT ![w] = b]
    /\ pc' = [pc EXCEPT ![w] = IF inner[w] = "open" THEN "ready" ELSE "open"]
    /\ goal' = [goal EXCEPT ![w] = "append"]
    /\ attempts' = [attempts EXCEPT ![w] = 1]
    /\ opens' = [opens EXCEPT ![w] = 1]
    /\ UNCHANGED <<storage, dirty, retried, presumed, inner, staging, working,
                   history, faults>>

(* ManifestManager::new loads the manifest.                                *)
LoadManifest(w) ==
    /\ pc[w] = "open"
    /\ staging' = [staging EXCEPT ![w] = NewStaging(manifest, e_tag)]
    /\ pc' = [pc EXCEPT ![w] = "recover"]
    /\ UNCHANGED <<storage, dirty, retried, presumed, inner, handling, batch,
                   working, result, history, faults>>

(* recover reads the fragment the manifest would take next; there is none, *)
(* so the log is open.                                                     *)
NothingToRecover(w) ==
    /\ pc[w] = "recover"
    /\ staging[w].next_seq_no_to_apply \notin DOMAIN fragments
    /\ \/ /\ goal[w] = "open"
          /\ Idle(w, "open", staging[w])
          /\ UNCHANGED result
       \/ /\ goal[w] = "append"
          /\ pc' = [pc EXCEPT ![w] = "ready"]
          /\ inner' = [inner EXCEPT ![w] = "open"]
          /\ UNCHANGED <<handling, batch, staging, working, result>>
       \/ /\ goal[w] = "confirm"
          /\ Return(w, "durable", 0, "open", staging[w])
    /\ UNCHANGED <<storage, dirty, retried, presumed, history, faults>>

(* There is one: it is to be marked dirty and published.                   *)
ReadFragment(w) ==
    /\ pc[w] = "recover"
    /\ staging[w].next_seq_no_to_apply \in DOMAIN fragments
    /\ fragment' = [fragment EXCEPT ![w] = fragments[staging[w].next_seq_no_to_apply]]
    /\ pc' = [pc EXCEPT ![w] = "mark recovered"]
    /\ UNCHANGED <<storage, dirty, retried, presumed, inner, handling, batch,
                   staging, upload, mark, pulled, result, history, faults>>

(* What mark_dirty may have done when it fails with err.                   *)
MarkedAfter(w, err) ==
    CASE err = "durable" -> {dirty \cup {fragment[w].start}}
      [] err = "retry" -> {dirty}
      [] err = "error" -> {dirty, dirty \cup {fragment[w].start}}

(* Mutant: recovery does not mark what it links.                           *)
MarkRecoveredNot(w) ==
    /\ pc[w] = "mark recovered"
    /\ pc' = [pc EXCEPT ![w] = "publish"]
    /\ UNCHANGED <<storage, dirty, retried, presumed, inner, handling, batch,
                   staging, working, result, history, faults>>

MarkRecovered(w) ==
    /\ pc[w] = "mark recovered"
    /\ dirty' = dirty \cup {fragment[w].start}
    /\ pc' = [pc EXCEPT ![w] = "publish"]
    /\ UNCHANGED <<storage, retried, presumed, inner, handling, batch, staging, working,
                   result, history, faults>>

(* mark_dirty fails in recover, which returns its error as it is, also when *)
(* that is the dirty log's LogContentionDurable: append_many then returns  *)
(* before it has written anything.                                         *)
MarkRecoveredFails(w) ==
    /\ pc[w] = "mark recovered"
    /\ Fault
    /\ \E err \in MarkDirtyErrors :
          /\ dirty' \in MarkedAfter(w, err)
          /\ presumed' = IF err = "durable" /\ goal[w] = "append"
                         THEN presumed \cup {batch[w]} ELSE presumed
          /\ OpenFails(w, err)
    /\ UNCHANGED <<storage, retried, history>>

(* A read fails more often than Manifest::load and read_fragment retry.    *)
ReadFails(w) ==
    /\ pc[w] \in {"open", "recover"}
    /\ Fault
    /\ EnsureOpenErr(w, "error")
    /\ UNCHANGED <<storage, dirty, retried, presumed, history>>

-----------------------------------------------------------------------------
(* Writing: append_batch_internal.                                         *)

(* take_work selects the batch for writing: assign_timestamp.              *)
TakeWork(w) ==
    /\ pc[w] = "ready"
    /\ LET s == staging[w]
           limit == s.next_log_position + NumRecords[batch[w]]
       IN  /\ fragment' = [fragment EXCEPT ![w] =
                 [seq_no |-> s.next_seq_no_to_assign,
                  start |-> s.next_log_position,
                  limit |-> limit,
                  setsum |-> FragmentSetsum(s.next_seq_no_to_assign, batch[w]),
                  batch |-> batch[w]]]
           /\ staging' = [staging EXCEPT ![w] =
                 Staging(s.manifest, s.e_tag, limit, s.next_seq_no_to_assign + 1,
                         s.next_seq_no_to_apply)]
    /\ pc' = [pc EXCEPT ![w] = "write"]
    /\ UNCHANGED <<storage, dirty, retried, presumed, inner, handling, batch,
                   upload, mark, pulled, result, history, faults>>

(* upload_parquet's put creates the fragment.  If the reply is lost the    *)
(* loop puts again, and finds the fragment there.                          *)
UploadParquet(w) ==
    /\ Uploading(w)
    /\ PutFragment(fragment[w])
    /\ \/ upload' = [upload EXCEPT ![w] = "ok"] /\ UNCHANGED faults
       \/ Fault /\ UNCHANGED upload
    /\ UNCHANGED <<manifest, e_tag, snapshots, delayed, dirty, retried, presumed,
                   pc, inner, handling, batch, staging, fragment, mark, pulled,
                   result, history>>

(* Mutant: a put that finds a fragment there is tried again.               *)
UploadConflictRetried(w) ==
    /\ Uploading(w)
    /\ fragment[w].seq_no \in DOMAIN fragments
    /\ UNCHANGED vars

(* The put finds a fragment of that seq_no.                                *)
UploadConflict(w) ==
    /\ Uploading(w)
    /\ fragment[w].seq_no \in DOMAIN fragments
    /\ upload' = [upload EXCEPT ![w] = "failure"]
    /\ UNCHANGED <<storage, dirty, retried, presumed, pc, inner, handling, batch,
                   staging, fragment, mark, pulled, result, history, faults>>

(* The put keeps failing for too long; it may still arrive.                *)
UploadTimeout(w) ==
    /\ Uploading(w)
    /\ Fault
    /\ upload' = [upload EXCEPT ![w] = "error"]
    /\ delayed' \in {delayed, delayed \cup InFlight(w)}
    /\ UNCHANGED <<manifest, e_tag, fragments, snapshots, dirty, retried, presumed,
                   pc, inner, handling, batch, staging, fragment, mark, pulled,
                   result, history>>

(* mark_dirty, concurrent with the upload.                                 *)
MarkDirty(w) ==
    /\ pc[w] = "write"
    /\ mark[w] = "wait"
    /\ dirty' = dirty \cup {fragment[w].start}
    /\ mark' = [mark EXCEPT ![w] = "ok"]
    /\ UNCHANGED <<storage, retried, presumed, pc, inner, handling, batch, staging,
                   fragment, upload, pulled, result, history, faults>>

(* An error, or a "durable" that append_batch_internal takes for success.  *)
(* After the dirty log's LogContentionRetry the batch is written again,    *)
(* although the upload may have succeeded.                                 *)
MarkDirtyFails(w) ==
    /\ pc[w] = "write"
    /\ mark[w] = "wait"
    /\ Fault
    /\ \E err \in MarkDirtyErrors :
          /\ dirty' \in MarkedAfter(w, err)
          /\ mark' = [mark EXCEPT ![w] = IF err = "durable" THEN "ok" ELSE err]
          /\ retried' = IF err = "retry" THEN retried \cup {batch[w]} ELSE retried
    /\ UNCHANGED <<storage, presumed, pc, inner, handling, batch, staging, fragment, upload,
                   pulled, result, history>>

(* Both are done.  An error of mark_dirty is looked at first.              *)
JoinUploadAndMark(w) ==
    /\ pc[w] = "write"
    /\ upload[w] # "wait"
    /\ mark[w] # "wait"
    /\ IF mark[w] # "ok" THEN AppendFails(w, mark[w])
       ELSE IF upload[w] # "ok" THEN AppendFails(w, upload[w])
       ELSE /\ pc' = [pc EXCEPT ![w] = "publish"]
            /\ UNCHANGED <<inner, handling, batch, staging, working, result>>
    /\ UNCHANGED <<storage, dirty, retried, presumed, history, faults>>

-----------------------------------------------------------------------------
(* Linking: publish_fragment, Staging::pull_work, do_work.                 *)

(* pull_work applies the staged fragment to a copy of the stable manifest  *)
(* and rolls fragments or snapshots up into a new snapshot when due.  A    *)
(* fragment that cannot be applied stays staged for ever.                  *)
PullWork(w) ==
    /\ pc[w] = "publish"
    /\ fragment[w].seq_no = staging[w].next_seq_no_to_apply
    /\ can_apply_fragment(staging[w].manifest, fragment[w])
    /\ \E applied \in {apply_fragment(staging[w].manifest, fragment[w])} :
       \E rollup \in {generate_snapshot(applied)} :
           IF \A r \in rollup : snapshot_applies(applied, r)
           THEN /\ pulled' = [pulled EXCEPT ![w] =
                      [manifest |-> IF rollup = {} THEN applied
                                    ELSE apply_snapshot(applied, CHOOSE r \in rollup : TRUE),
                       snapshots |-> rollup]]
                /\ staging' = [staging EXCEPT ![w] =
                      LET s == staging[w]
                      IN  Staging(s.manifest, s.e_tag, s.next_log_position,
                                  s.next_seq_no_to_assign, s.next_seq_no_to_apply + 1)]
                /\ pc' = [pc EXCEPT ![w] = IF rollup = {} THEN "install" ELSE "snapshot"]
                /\ UNCHANGED <<inner, handling, batch, fragment, upload, mark, result>>
           ELSE PublishFails(w, "error")
    /\ UNCHANGED <<storage, dirty, retried, presumed, history, faults>>

(* Snapshot::install.                                                      *)
InstallSnapshot(w) ==
    /\ pc[w] = "snapshot"
    /\ \E s \in pulled[w].snapshots : snapshots' = SnapshotInstall(snapshots, s)
    /\ pc' = [pc EXCEPT ![w] = "install"]
    /\ UNCHANGED <<manifest, e_tag, fragments, delayed, dirty, retried, presumed,
                   inner, handling, batch, staging, working, result, history, faults>>

(* ... gives up, whether or not a put got through.                         *)
InstallSnapshotFails(w) ==
    /\ pc[w] = "snapshot"
    /\ Fault
    /\ \E s \in pulled[w].snapshots :
          snapshots' \in {snapshots, SnapshotInstall(snapshots, s)}
    /\ PublishFails(w, "error")
    /\ UNCHANGED <<manifest, e_tag, fragments, delayed, dirty, retried, presumed,
                   history>>

(* Manifest::install: the put goes through because the e_tag matches.  The *)
(* reply is complete, or lacks the e_tag, or is lost so that the loop puts *)
(* again, against an e_tag that no longer matches.                         *)
InstallManifest(w) ==
    /\ pc[w] = "install"
    /\ PutManifest(staging[w].e_tag, pulled[w].manifest, fragment[w])
    /\ \/ PublishOk(w) /\ UNCHANGED faults
       \/ Fault /\ PublishFails(w, "failure")
       \/ Fault /\ UNCHANGED <<pc, inner, handling, batch, staging, working, result>>
    /\ UNCHANGED <<fragments, snapshots, delayed, dirty, retried, presumed>>

(* Another manifest is there.                                              *)
InstallConflict(w) ==
    /\ pc[w] = "install"
    /\ e_tag # staging[w].e_tag
    /\ PublishFails(w, "durable")
    /\ UNCHANGED <<storage, dirty, retried, presumed, history, faults>>

(* The put keeps failing; it may still arrive.                             *)
InstallTimeout(w) ==
    /\ pc[w] = "install"
    /\ Fault
    /\ delayed' \in {delayed, delayed \cup InFlight(w)}
    /\ PublishFails(w, "durable")
    /\ UNCHANGED <<manifest, e_tag, fragments, snapshots, dirty, retried, presumed,
                   history>>

-----------------------------------------------------------------------------
(* The environment.                                                        *)

(* The process of a writer dies: all of its state is lost, its caller sees *)
(* an error, a put in flight may still arrive.                             *)
Crash(w) ==
    /\ pc[w] # "idle" \/ inner[w] # "none"
    /\ Fault
    /\ delayed' \in {delayed, delayed \cup InFlight(w)}
    /\ IF batch[w] = NoBatch
       THEN Idle(w, "none", NoStaging) /\ UNCHANGED result
       ELSE Return(w, "error", 0, "none", NoStaging)
    /\ UNCHANGED <<manifest, e_tag, fragments, snapshots, dirty, retried, presumed,
                   history>>

(* A delayed put arrives, and is refused if its condition does not hold.   *)
DelayedFragment(r) ==
    /\ r.kind = "fragment"
    /\ delayed' = delayed \ {r}
    /\ \/ PutFragment(r.fragment)
       \/ r.fragment.seq_no \in DOMAIN fragments /\ UNCHANGED fragments
    /\ UNCHANGED <<manifest, e_tag, snapshots, dirty, retried, presumed, pc, inner,
                   handling, batch, staging, working, result, history, faults>>

DelayedManifest(r) ==
    /\ r.kind = "manifest"
    /\ delayed' = delayed \ {r}
    /\ \/ PutManifest(r.e_tag, r.manifest, r.fragment)
       \/ e_tag # r.e_tag /\ UNCHANGED <<manifest, e_tag, history>>
    /\ UNCHANGED <<fragments, snapshots, dirty, retried, presumed, pc, inner,
                   handling, batch, staging, working, result, faults>>

-----------------------------------------------------------------------------
(* A step of the task that runs w's call.                                  *)
Step(w) ==
    \/ LoadManifest(w)
    \/ NothingToRecover(w)
    \/ ReadFragment(w)
    \/ MarkRecovered(w)
    \/ MarkRecoveredFails(w)
    \/ ReadFails(w)
    \/ TakeWork(w)
    \/ UploadParquet(w)
    \/ UploadConflict(w)
    \/ UploadTimeout(w)
    \/ MarkDirty(w)
    \/ MarkDirtyFails(w)
    \/ JoinUploadAndMark(w)
    \/ PullWork(w)
    \/ InstallSnapshot(w)
    \/ InstallSnapshotFails(w)
    \/ InstallManifest(w)
    \/ InstallConflict(w)
    \/ InstallTimeout(w)

(* Every batch has been appended and nothing is in flight.                 *)
Finished ==
    /\ \A b \in Batches : result[b].status \notin {"none", "pending"}
    /\ UNCHANGED vars

Next ==
    \/ \E w \in Writers : Open(w)
    \/ \E w \in Writers, b \in Batches : AppendMany(w, b)
    \/ \E w \in Writers : Step(w)
    \/ \E w \in Writers : Crash(w)
    \/ \E r \in delayed : DelayedFragment(r)
    \/ \E r \in delayed : DelayedManifest(r)
    \/ Finished

Spec == Init /\ [][Next]_vars

(* The runtime keeps polling a task that can make progress.                *)
FairSpec == Spec /\ \A w \in Writers : WF_vars(Step(w))

-----------------------------------------------------------------------------
(* Properties.                                                             *)

(* Where the log ends with the n-th fragment.                              *)
EndOf(log, n) == IF n = 0 THEN 1 ELSE log[n].limit

StorageTypeOK ==
    /\ e_tag \in Nat
    /\ DOMAIN fragments \subseteq Nat
    /\ \A n \in DOMAIN fragments : IsFragment(fragments[n])
    /\ \A r \in delayed : r.kind \in {"fragment", "manifest"} /\ IsFragment(r.fragment)
    /\ \A i \in DOMAIN history : IsFragment(history[i])

WriterTypeOK ==
    /\ pc \in [Writers -> {"idle", "open", "recover", "mark recovered", "ready",
                           "write", "publish", "snapshot", "install"}]
    /\ inner \in [Writers -> {"none", "closed", "open"}]
    /\ goal \in [Writers -> {"open", "append", "confirm"}]
    /\ attempts \in [Writers -> 0..3]
    /\ opens \in [Writers -> 0..3]
    /\ batch \in [Writers -> Batches \cup {NoBatch}]
    /\ \A w \in Writers : fragment[w] = NoFragment \/ IsFragment(fragment[w])
    /\ upload \in [Writers -> {"wait", "ok", "failure", "error"}]
    /\ mark \in [Writers -> {"wait", "ok", "retry", "error"}]

(* The control state of every writer is one the code has, its loops stay   *)
(* within three iterations, and whatever passes for a fragment has a       *)
(* seq_no and a batch.                                                     *)
TypeOK ==
    /\ StorageTypeOK
    /\ WriterTypeOK
    /\ \A b \in Batches : result[b].status \in Statuses
    /\ faults \in 0..MaxFaults

(* What a caller is told holds: a batch whose append returned Ok is in the *)
(* log at the position it was given, and one whose append returned         *)
(* LogContentionDurable ("your data is durable") is in the log, unless     *)
(* that error was the dirty log's.                                         *)
AckedIsLinked ==
    \A b \in Batches :
        \/ result[b].status = "ok"
        \/ result[b].status = "durable" /\ b \notin presumed
        => \E i \in DOMAIN history :
              /\ history[i].batch = b
              /\ result[b].status = "ok" => history[i].start = result[b].position

(* No batch is in the log twice: opening another OnceLogWriter after an    *)
(* error never writes again what the recovery has linked.  Only the dirty  *)
(* log's LogContentionRetry makes append_many repeat a batch that may be   *)
(* in storage.                                                             *)
LinkedOnce ==
    \A i, j \in DOMAIN history :
        history[i].batch = history[j].batch /\ history[i].batch \notin retried => i = j

(* Storage holds every fragment that was linked, as it was linked.         *)
LinkedIsStored ==
    \A i \in DOMAIN history :
        /\ history[i].seq_no \in DOMAIN fragments
        /\ fragments[history[i].seq_no] = history[i]

(* The log can be read: walking the manifest and the snapshots in storage  *)
(* visits exactly the fragments that were linked, in order, and storage    *)
(* holds each as it was linked.                                            *)
LogIsReadable ==
    /\ scan_from_manifest(snapshots, manifest) = history
    /\ LinkedIsStored

(* The manifest in storage always passes its scrub, and no roll-up that a  *)
(* writer attempts fails to apply, so no writer wedges the log.            *)
ManifestScrubs ==
    /\ scrub(manifest)
    /\ \A w \in Writers :
          pc[w] = "publish" =>
              /\ can_apply_fragment(staging[w].manifest, fragment[w])
              /\ fragment[w].start = next_write_timestamp(staging[w].manifest)
              /\ LET m == apply_fragment(staging[w].manifest, fragment[w])
                 IN  \A s \in generate_snapshot(m) : snapshot_applies(m, s)

(* At most one fragment is in storage and not linked, and it is the one    *)
(* that recovery looks for.                                                *)
OneFragmentAhead == DOMAIN fragments \subseteq 1..(Len(history) + 1)

(* Whatever is linked was marked dirty before, so that compaction hears of *)
(* it, also when the writer that uploaded it crashed.                      *)
MarkedBeforeLinked == \A i \in DOMAIN history : history[i].start \in dirty

(* LogWriter keeps the promise of AppendLog: what was linked is a log at   *)
(* consecutive positions without duplicates, and what callers are told is  *)
(* true of it, in one atomic order for all writers, but for the batches    *)
(* that a contention error of the dirty log reached.                       *)
Promise ==
    INSTANCE AppendLog WITH
        log <- [i \in DOMAIN history |-> [batch |-> history[i].batch,
                                          start |-> history[i].start,
                                          limit |-> history[i].limit]]

ImplementsAppendLog == Promise!Spec

(* Every append returns: the retries of handle_errors_and_contention and   *)
(* ensure_open end, whatever the other writers do, and again and again no  *)
(* append is pending.                                                      *)
AppendReturns ==
    []<>(\A b \in Batches : result[b].status # "pending")

=============================================================================

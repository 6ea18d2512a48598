----------------------------- MODULE Compactor -----------------------------
(***************************************************************************)
(* The compactor nodes, the jobs they run, sysdb and the log service.      *)
(*                                                                         *)
(* Every node runs a CompactionManager.  Periodically it takes in what its *)
(* jobs have come to, asks the log service which collections have new data *)
(* and starts jobs for some of the ones that are assigned to it.  A job    *)
(* reads the collection from sysdb, pulls the log after sysdb's position,  *)
(* registers a new version with sysdb and moves the log's cursor.  Nothing *)
(* but the version check of sysdb keeps two jobs of a collection apart:    *)
(* memberlists differ between nodes, jobs expire, one-off jobs are not     *)
(* always tracked.                                                         *)
(*                                                                         *)
(* Translated from rust/worker/src/compactor/scheduler.rs and              *)
(* compaction_manager.rs, and, for what a job reads and writes, from       *)
(* compact.rs and register.rs; CompactOrchestrator models the rest of it.  *)
(*                                                                         *)
(*  - ScheduledCompactMessage is handled in one step.  Only sysdb and the  *)
(*    log can change while it is handled, and it reads each of them once.  *)
(*  - What the log service reports was true at some time (DirtyLog models  *)
(*    how it comes about), in the order of a hash table.                   *)
(*  - Every collection is of its own tenant.  disabled_collections is      *)
(*    left out: the log might as well not report them.  A sysdb or log     *)
(*    call of the scheduler that fails only makes it skip a round.         *)
(***************************************************************************)
EXTENDS Integers, Sequences, FiniteSets, SequencesExt, FiniteSetsExt

CONSTANTS
    Collections,
    Nodes,
    Rank,               \* per collection: the nodes in the order of its assignment
    max_concurrent_jobs,
    max_failure_count,
    max_compaction_size,
    MaxRecords,         \* [Collections -> Nat], bound: how many records a log gets
    MaxJobs,            \* bound: how many jobs run at a time
    MaxDisturbances     \* bound: how many crashes, failures, expiries, membership
                        \* changes, one-off requests and deletions there are

ASSUME CompactorAssumption ==
    /\ IsFiniteSet(Collections) /\ IsFiniteSet(Nodes)
    /\ Rank \in [Collections -> Seq(Nodes)]
    /\ \A c \in Collections : ToSet(Rank[c]) = Nodes
    /\ max_concurrent_jobs \in Nat \ {0}
    /\ max_failure_count \in Nat \ {0}
    /\ max_compaction_size \in Nat \ {0}
    /\ MaxRecords \in [Collections -> Nat]
    /\ MaxJobs \in Nat /\ MaxDisturbances \in Nat

VARIABLES
    \* The log service.
    next,         \* per collection: where the log ends
    cursor,       \* per collection: the COMPACTION cursor
    first_log_offset, \* per collection: what is reported; 0 if nothing is
    purged,       \* collections whose marks are to be forgotten
    \* sysdb.
    sysdb,        \* per collection: its version, log_position and what the
                  \* segments of that version hold
    deleted,
    oldest,       \* the collections, the one compacted longest ago first
    \* The nodes.
    scheduler,    \* per node: the state of its Scheduler
    completions,  \* per node: the completion channel
    repairs,      \* per node: RepairLogOffsets tasks
    jobs,         \* slot -> the job that runs in it
    disturbances

log == <<next, cursor, first_log_offset, purged>>
db == <<sysdb, deleted, oldest>>
nodes == <<scheduler, completions, repairs>>
vars == <<log, db, nodes, jobs, disturbances>>

NoJob == [pc |-> "none"]
Slots == 1..MaxJobs
none == [c \in {} |-> FALSE]

NewScheduler ==
    [in_progress |-> none,                      \* collection -> is_expired
     failing |-> [c \in Collections |-> 0],     \* failure_count; 0: not failing
     dead |-> {}, oneoff |-> {}, memberlist |-> {}]

Init ==
    /\ next = [c \in Collections |-> 1]
    /\ cursor = [c \in Collections |-> 1]
    /\ first_log_offset = [c \in Collections |-> 0]
    /\ purged = {}
    /\ sysdb = [c \in Collections |-> [version |-> 0, log_position |-> 0, holds |-> {}]]
    /\ deleted = {}
    /\ oldest = SetToSeq(Collections)
    /\ scheduler = [n \in Nodes |-> [NewScheduler EXCEPT !.memberlist = Nodes]]
    /\ completions = [n \in Nodes |-> <<>>]
    /\ repairs = [n \in Nodes |-> {}]
    /\ jobs = [j \in Slots |-> NoJob]
    /\ disturbances = 0

Disturb == disturbances < MaxDisturbances /\ disturbances' = disturbances + 1

-----------------------------------------------------------------------------
(* Scheduler.  s is its state.                                             *)

Without(f, c) == [d \in DOMAIN f \ {c} |-> f[d]]

(* Of a job that is not in progress nothing is noted.                      *)
succeed_job(s, c) ==
    IF c \notin DOMAIN s.in_progress THEN s
    ELSE [s EXCEPT !.in_progress = Without(@, c), !.failing[c] = 0]

fail_job(s, c) ==
    IF c \notin DOMAIN s.in_progress THEN s
    ELSE [s EXCEPT !.in_progress = Without(@, c),
                   !.failing[c] = Min({@ + 1, max_failure_count})]

(* process_completions, but for the repairs, ...                           *)
process_completions(n) ==
    FoldLeft(LAMBDA s, m : IF m.result = "error" THEN fail_job(s, m.collection)
                           ELSE succeed_job(s, m.collection),
             scheduler[n], completions[n])

(* Mutant: the repairs are forgotten.                                      *)
collections_needing_repair_never(n) == {}

(* ... and those: the last offset witnessed for each collection.           *)
collections_needing_repair(n) ==
    LET q == completions[n]
        witnessed(i) == q[i].result = "repair"
        last(i) == \A k \in i + 1..Len(q) :
                      ~(witnessed(k) /\ q[k].collection = q[i].collection)
    IN {[collection |-> q[i].collection, offset |-> q[i].offset] :
           i \in {k \in 1..Len(q) : witnessed(k) /\ last(k)}}

(* verify_and_enrich_collections: jobs that failed too often are killed,   *)
(* and what is left of the collections are the ones that are not dead and  *)
(* that sysdb knows.                                                       *)
kill_jobs(s, reported) ==
    LET killed == {c \in reported : s.failing[c] >= max_failure_count}
    IN [s EXCEPT !.dead = @ \cup killed,
                 !.failing = [c \in Collections |-> IF c \in killed THEN 0 ELSE @[c]]]

(* is_job_in_progress fails a job whose time is up.                        *)
expire_job(s, c) ==
    IF c \in DOMAIN s.in_progress /\ s.in_progress[c] THEN fail_job(s, c) ELSE s

(* The loop of schedule_internal.  q.done is its early return.             *)
Consider(q, c) ==
    LET s == expire_job(q.s, c)
    IN CASE q.done \/ c \in DOMAIN s.in_progress -> q
         [] ~q.done /\ c \notin DOMAIN s.in_progress /\ c \in s.oneoff ->
              [q EXCEPT !.s = [s EXCEPT !.oneoff = @ \ {c}],
                        !.job_queue = Append(@, c),
                        !.done = Len(q.job_queue) + 1 = max_concurrent_jobs]
         [] OTHER ->
              IF Cardinality(DOMAIN s.in_progress) >= max_concurrent_jobs
              THEN [q EXCEPT !.s = s, !.done = TRUE]
              ELSE [q EXCEPT !.s = s, !.scheduled = @ \cup {c}]

considered(s, records) ==
    FoldLeft(Consider, [s |-> s, job_queue |-> <<>>, scheduled |-> {}, done |-> FALSE], records)

(* filter_collections: the assignment policy is rendezvous hashing.        *)
assigned(c, memberlist) == SelectSeq(Rank[c], LAMBDA n : n \in memberlist)[1]

Take(q, k) == SubSeq(q, 1, Min({k, Len(q)}))

(* The policy sorts by the last compaction time.                           *)
determine(collections) ==
    Take(SelectSeq(oldest, LAMBDA c : c \in collections), max_concurrent_jobs)

truncate(s, job_queue) ==
    Take(job_queue, max_concurrent_jobs - Cardinality(DOMAIN s.in_progress))

(* What schedule_internal does after the loop, unless it has returned: the *)
(* queue is filled up, ...                                                 *)
job_queue(n, q) ==
    LET filtered == {c \in q.scheduled : assigned(c, q.s.memberlist) = n}
    IN IF q.done THEN q.job_queue ELSE truncate(q.s, q.job_queue \o determine(filtered))

(* ... and what is in it is in progress.                                   *)
add_in_progress(q, queue) ==
    IF q.done THEN q.s
    ELSE [q.s EXCEPT !.in_progress = [c \in DOMAIN @ \cup ToSet(queue) |-> c \in DOMAIN @ /\ @[c]]]

-----------------------------------------------------------------------------
(* CompactionManager.                                                      *)

Reported == {c \in Collections : first_log_offset[c] # 0}
Free == {j \in Slots : jobs[j] = NoJob}
FreeSlots == SetToSortSeq(Free, <)

(* A job that has yet to begin.                                            *)
NewJob(n, c) == [pc |-> "get", node |-> n, collection |-> c]

(* The jobs are started, in slots that are free.                           *)
StartJobs(n, queue) ==
    /\ Len(queue) <= Cardinality(Free)
    /\ \E slot \in {FreeSlots} :
          jobs' = [j \in Slots |->
                      IF \E i \in 1..Len(queue) : slot[i] = j
                      THEN NewJob(n, queue[CHOOSE i \in 1..Len(queue) : slot[i] = j])
                      ELSE jobs[j]]

(* schedule, and the jobs are started.  (\E x \in {e} names e and has TLC  *)
(* evaluate it once.)                                                      *)
ScheduleJobs(n, s) ==
    \E verified \in {kill_jobs(s, Reported)}, order \in SetToSeqs(Reported) :
    \E records \in {SelectSeq(order, LAMBDA c : c \notin verified.dead \cup deleted)} :
    \E q \in {considered(verified, records)} :
    \E queue \in {job_queue(n, q)} :
       /\ scheduler' = [scheduler EXCEPT ![n] = add_in_progress(q, queue)]
       /\ StartJobs(n, queue)
       /\ purged' = purged \cup {c \in Reported \cap deleted : c \notin verified.dead}

(* ScheduledCompactMessage: process_completions, schedule, purge_dirty_log *)
(* and repair_log_offsets.  Without members nothing is scheduled.          *)
Schedule(n) ==
    /\ \E s \in {process_completions(n)} :
          \/ /\ s.memberlist = {}
             /\ scheduler' = [scheduler EXCEPT ![n] = s]
             /\ UNCHANGED <<jobs, purged>>
          \/ /\ s.memberlist # {}
             /\ ScheduleJobs(n, s)
    /\ completions' = [completions EXCEPT ![n] = <<>>]
    /\ repairs' = [repairs EXCEPT ![n] = @ \cup collections_needing_repair(n)]
    /\ UNCHANGED <<next, cursor, first_log_offset, db, disturbances>>

(* The Memberlist handler.  A node that has just started is sent one.      *)
Memberlist(n) ==
    /\ \/ /\ scheduler[n].memberlist = {}
          /\ scheduler' = [scheduler EXCEPT ![n].memberlist = Nodes]
          /\ UNCHANGED disturbances
       \/ /\ Disturb
          /\ \E m \in SUBSET Nodes : scheduler' = [scheduler EXCEPT ![n].memberlist = m]
    /\ UNCHANGED <<log, db, completions, repairs, jobs>>

OneOffCompact(n, c) ==
    /\ Disturb
    /\ scheduler' = [scheduler EXCEPT ![n].oneoff = @ \cup {c}]
    /\ UNCHANGED <<log, db, completions, repairs, jobs>>

(* update_collection_log_offset_on_every_node.                             *)
Repair(n) ==
    \E r \in repairs[n] :
       /\ cursor' = [cursor EXCEPT ![r.collection] = Max({@, r.offset + 1})]
       /\ repairs' = [repairs EXCEPT ![n] = @ \ {r}]
       /\ UNCHANGED <<next, first_log_offset, purged, db, scheduler, completions, jobs,
                      disturbances>>

FailRepair(n) ==
    /\ repairs[n] # {} /\ Disturb
    /\ repairs' = [repairs EXCEPT ![n] = {}]
    /\ UNCHANGED <<log, db, scheduler, completions, jobs>>

-----------------------------------------------------------------------------
(* A job.                                                                  *)

Ended(j, result, offset) ==
    /\ jobs' = [jobs EXCEPT ![j] = NoJob]
    /\ completions' = [completions EXCEPT ![jobs[j].node] =
           Append(@, [collection |-> jobs[j].collection, result |-> result,
                      offset |-> offset])]

(* GetCollectionAndSegments: the collection and its segments are read.     *)
GetCollection(j) ==
    /\ jobs[j].pc = "get"
    /\ LET c == jobs[j].collection
       IN \/ /\ c \in deleted
             /\ Ended(j, "error", 0)
          \/ /\ c \notin deleted
             /\ jobs' = [jobs EXCEPT ![j] =
                    [pc |-> "fetch", node |-> @.node, collection |-> c, read |-> sysdb[c]]]
             /\ UNCHANGED completions
    /\ UNCHANGED <<log, db, scheduler, repairs, disturbances>>

(* Mutant: the next offset is taken for the last one pulled.               *)
pulled_log_offset_next(limit) == limit

(* The offset of the last record pulled.                                   *)
pulled_log_offset(limit) == limit - 1

(* FetchLog: what is in the log after log_position, up to                  *)
(* max_compaction_size records.                                            *)
FetchLog(j) ==
    /\ jobs[j].pc = "fetch"
    /\ LET c == jobs[j].collection
           from == jobs[j].read.log_position + 1
           limit == Min({next[c], from + max_compaction_size})
       IN \/ /\ from >= limit
             /\ Ended(j, "repair", jobs[j].read.log_position)
          \/ /\ from < limit
             /\ jobs' = [jobs EXCEPT ![j] =
                    [pc |-> "flush", node |-> @.node, collection |-> c,
                     version |-> @.read.version, log_position |-> pulled_log_offset(limit),
                     holds |-> @.read.holds \cup from..limit - 1]]
             /\ UNCHANGED completions
    /\ UNCHANGED <<log, db, scheduler, repairs, disturbances>>

(* Mutant: the version is not compared.                                    *)
flush_any_version(job) == job.collection \notin deleted

(* sysdb accepts a version of a collection that it knows if it is based on *)
(* the current one.                                                        *)
flush_accepted(job) ==
    job.collection \notin deleted /\ job.version = sysdb[job.collection].version

(* What flush_compaction changes.                                          *)
Flushed(job) ==
    /\ sysdb' = [sysdb EXCEPT ![job.collection] =
           [version |-> job.version + 1, log_position |-> job.log_position,
            holds |-> job.holds]]
    /\ oldest' = Append(SelectSeq(oldest, LAMBDA c : c # job.collection), job.collection)

(* Register: the version is flushed to sysdb, ...                          *)
FlushCompaction(j) ==
    /\ jobs[j].pc = "flush"
    /\ \/ /\ flush_accepted(jobs[j])
          /\ Flushed(jobs[j])
          /\ jobs' = [jobs EXCEPT ![j].pc = "update"]
          /\ UNCHANGED completions
       \/ /\ ~flush_accepted(jobs[j])
          /\ Ended(j, "error", 0)
          /\ UNCHANGED <<sysdb, oldest>>
    /\ UNCHANGED <<log, deleted, scheduler, repairs, disturbances>>

(* Mutant: the cursor moves although the flush is still to come.           *)
UpdateLogOffsetFirst(j) ==
    /\ jobs[j].pc \in {"flush", "update"}
    /\ cursor' = [cursor EXCEPT ![jobs[j].collection] = Max({@, jobs[j].log_position + 1})]
    /\ IF jobs[j].pc = "flush" THEN UNCHANGED <<jobs, completions>> ELSE Ended(j, "success", 0)
    /\ UNCHANGED <<next, first_log_offset, purged, db, scheduler, repairs, disturbances>>

(* ... and the log's cursor is moved, unless it is ahead.                  *)
UpdateLogOffset(j) ==
    /\ jobs[j].pc = "update"
    /\ cursor' = [cursor EXCEPT ![jobs[j].collection] = Max({@, jobs[j].log_position + 1})]
    /\ Ended(j, "success", 0)
    /\ UNCHANGED <<next, first_log_offset, purged, db, scheduler, repairs, disturbances>>

(* A call of the job fails.  It may have taken effect.                     *)
FailJob(j) ==
    /\ jobs[j] # NoJob /\ Disturb
    /\ Ended(j, "error", 0)
    /\ \/ UNCHANGED <<sysdb, oldest, cursor>>
       \/ /\ jobs[j].pc = "flush" /\ flush_accepted(jobs[j])
          /\ Flushed(jobs[j])
          /\ UNCHANGED cursor
       \/ /\ jobs[j].pc = "update"
          /\ cursor' = [cursor EXCEPT ![jobs[j].collection] =
                           Max({@, jobs[j].log_position + 1})]
          /\ UNCHANGED <<sysdb, oldest>>
    /\ UNCHANGED <<next, first_log_offset, purged, deleted, scheduler, repairs>>

(* The orchestrator of the job waits for ever (see CompactOrchestrator).   *)
HangJob(j) ==
    /\ jobs[j].pc = "fetch" /\ Disturb
    /\ jobs' = [jobs EXCEPT ![j] = NoJob]
    /\ UNCHANGED <<log, db, nodes>>

-----------------------------------------------------------------------------
(* The surroundings.                                                       *)

(* The time of an entry of in_progress_jobs is up.  It is for sure some    *)
(* day when nothing will ever remove the entry.                            *)
Pending(n, c) ==
    \/ \E j \in Slots : jobs[j] # NoJob /\ jobs[j].node = n /\ jobs[j].collection = c
    \/ \E i \in 1..Len(completions[n]) : completions[n][i].collection = c

Hung(n) == {c \in DOMAIN scheduler[n].in_progress : ~Pending(n, c)}

Expire(n, c) ==
    /\ c \in DOMAIN scheduler[n].in_progress /\ ~scheduler[n].in_progress[c]
    /\ \/ c \in Hung(n) /\ UNCHANGED disturbances
       \/ c \notin Hung(n) /\ Disturb
    /\ scheduler' = [scheduler EXCEPT ![n].in_progress[c] = TRUE]
    /\ UNCHANGED <<log, db, completions, repairs, jobs>>

(* The node stops and starts again.                                        *)
Crash(n) ==
    /\ Disturb
    /\ scheduler' = [scheduler EXCEPT ![n] = NewScheduler]
    /\ completions' = [completions EXCEPT ![n] = <<>>]
    /\ repairs' = [repairs EXCEPT ![n] = {}]
    /\ jobs' = [j \in Slots |-> IF jobs[j] # NoJob /\ jobs[j].node = n THEN NoJob ELSE jobs[j]]
    /\ UNCHANGED <<log, db>>

(* push_logs: a record is written to the log.  A collection that is gone   *)
(* may still be written to, and is marked again; the mark is forgotten if  *)
(* it is rolled up together with the purge.                                *)
Write(c) ==
    /\ next[c] <= MaxRecords[c]
    /\ next' = [next EXCEPT ![c] = @ + 1]
    /\ purged' = purged \ {c} \/ UNCHANGED purged
    /\ UNCHANGED <<cursor, first_log_offset, db, nodes, jobs, disturbances>>

(* roll_dirty_log: what is reported of c is brought up to date.            *)
RollDirtyLog(c) ==
    /\ first_log_offset' = [first_log_offset EXCEPT ![c] =
           IF c \notin purged /\ cursor[c] < next[c] THEN cursor[c] ELSE 0]
    /\ UNCHANGED <<next, cursor, purged, db, nodes, jobs, disturbances>>

(* softDeleteCollection.                                                   *)
Delete(c) ==
    /\ c \notin deleted /\ Disturb
    /\ deleted' = deleted \cup {c}
    /\ UNCHANGED <<log, sysdb, oldest, nodes, jobs>>

JobStep(j) ==
    \/ GetCollection(j)
    \/ FetchLog(j)
    \/ FlushCompaction(j)
    \/ UpdateLogOffset(j)

Next ==
    \/ \E n \in Nodes :
          \/ Schedule(n)
          \/ Memberlist(n)
          \/ Repair(n)
          \/ FailRepair(n)
          \/ Crash(n)
          \/ \E c \in Collections : OneOffCompact(n, c) \/ Expire(n, c)
    \/ \E j \in Slots :
          \/ JobStep(j)
          \/ FailJob(j)
          \/ HangJob(j)
    \/ \E c \in Collections :
          \/ Write(c)
          \/ RollDirtyLog(c)
          \/ Delete(c)

Spec == Init /\ [][Next]_vars

(* The manager reschedules its message each time it has handled it; jobs   *)
(* and repairs that were started go on, a memberlist arrives, and the log  *)
(* service rolls the dirty log up again and again.                         *)
Fairness ==
    /\ \A n \in Nodes :
          /\ WF_vars(Schedule(n))
          /\ WF_vars(scheduler[n].memberlist = {} /\ Memberlist(n))
          /\ WF_vars(Repair(n))
          /\ \A c \in Collections : WF_vars(c \in Hung(n) /\ Expire(n, c))
    /\ \A j \in Slots : WF_vars(JobStep(j))
    /\ \A c \in Collections : WF_vars(RollDirtyLog(c))

FairSpec == Spec /\ Fairness

-----------------------------------------------------------------------------
(* Properties.                                                             *)

(* The values the variables take.                                          *)
TypeOK ==
    /\ \A c \in Collections :
          LET written == 1..MaxRecords[c]
              offsets == 1..MaxRecords[c] + 1
          IN /\ {next[c], cursor[c]} \subseteq offsets
             /\ first_log_offset[c] \in offsets \cup {0}
             /\ sysdb[c] \in [version : Nat, log_position : written \cup {0},
                              holds : SUBSET written]
    /\ purged \subseteq deleted /\ deleted \subseteq Collections
    /\ Len(oldest) = Cardinality(Collections) /\ ToSet(oldest) = Collections
    /\ \A n \in Nodes :
          /\ Cardinality(DOMAIN scheduler[n].in_progress) <= max_concurrent_jobs
          /\ scheduler[n].failing \in [Collections -> 0..max_failure_count]
          /\ scheduler[n].dead \cup scheduler[n].oneoff \subseteq Collections
          /\ scheduler[n].memberlist \subseteq Nodes
    /\ \A j \in Slots : jobs[j].pc \in {"none", "get", "fetch", "flush", "update"}
    /\ disturbances \in 0..MaxDisturbances

(* The segments of a collection hold the log up to its log position: no    *)
(* record is skipped and none is lost, although jobs of the same           *)
(* collection overlap, on one node after an expiry or a one-off request,   *)
(* or on two whose memberlists differ (flush_compaction's version check).  *)
VersionHoldsLog ==
    \A c \in Collections : sysdb[c].holds = 1..sysdb[c].log_position

(* The log never lets go of a record that sysdb does not account for, and  *)
(* the scheduler's "offset in sysdb is less than offset in log" panic is   *)
(* not reached: whatever jobs and repairs are late, the cursor, and what   *)
(* the log service reports from it, is no further than sysdb's position.   *)
CursorBehindSysdb ==
    \A c \in Collections :
        /\ cursor[c] <= sysdb[c].log_position + 1
        /\ first_log_offset[c] <= sysdb[c].log_position + 1

(* A version is only ever replaced by the next one, which reaches further. *)
VersionsAdvance ==
    [][\A c \in Collections :
          sysdb'[c] # sysdb[c] =>
              /\ sysdb'[c].version = sysdb[c].version + 1
              /\ sysdb'[c].log_position > sysdb[c].log_position]_vars

(* Which node is in charge of c, by its own memberlist.                    *)
InCharge(n, c) ==
    scheduler[n].memberlist # {} /\ assigned(c, scheduler[n].memberlist) = n

(* What is written is compacted and the log learns of it, in the end,      *)
(* after crashes, expiries and late results, unless the collection is      *)
(* deleted, no node thinks that it is in charge of it, one has given it    *)
(* up, or the slots of one are held by jobs that hang.                     *)
EventuallyCompacted ==
    \A c \in Collections :
        cursor[c] < next[c] ~>
            \/ cursor[c] = next[c]
            \/ c \in deleted
            \/ \A n \in Nodes : ~InCharge(n, c)
            \/ \E n \in Nodes : c \in scheduler[n].dead
            \/ \E n \in Nodes : Cardinality(Hung(n)) >= max_concurrent_jobs

=============================================================================

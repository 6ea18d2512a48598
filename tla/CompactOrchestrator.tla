------------------------ MODULE CompactOrchestrator ------------------------
(***************************************************************************)
(* One run of the CompactOrchestrator of a compactor node.                 *)
(*                                                                         *)
(* The orchestrator dispatches tasks and handles their results one at a    *)
(* time, in the order in which they happen to arrive.  The records it      *)
(* pulled are partitioned; each partition is materialized, and what it     *)
(* materializes to is applied to the writers of three segments.  A segment *)
(* is committed and flushed once everything has been applied to it, and    *)
(* when all segments are flushed the new version is registered.            *)
(*                                                                         *)
(* Translated from rust/worker/src/execution/orchestration/compact.rs.     *)
(*                                                                         *)
(*  - Records are left out: a partition either materializes to nothing (no *)
(*    record in it changes anything) or it does not.                       *)
(*  - A task is dispatched, runs, and its result is handled: three steps.  *)
(*    When an error is handled the orchestrator ends; tasks that were      *)
(*    dispatched before may still run.                                     *)
(***************************************************************************)
EXTENDS Integers, FiniteSets

CONSTANTS
    Kinds,        \* some of "compaction", "rebuild", "function"
    Partitions,   \* bound: the partitions there may be
    Segments,     \* the record, the metadata and the vector segment
    MaxErrors     \* bound: how many tasks fail

ASSUME OrchestratorAssumption ==
    /\ Kinds \subseteq {"compaction", "rebuild", "function"}
    /\ IsFiniteSet(Partitions) /\ IsFiniteSet(Segments) /\ Segments # {}
    /\ MaxErrors \in Nat

VARIABLES
    kind,         \* compact(_, false), compact(_, true) or execute_task
    writers,      \* whether the segment writers are set
    parts,        \* the partitions of the records
    empty,        \* the ones that materialize to nothing
    dispatched,   \* tasks that have not run
    results,      \* tasks that have run and whose result is not handled
    num_uncompleted_materialization_tasks,
    num_uncompleted_tasks_by_segment,   \* segments with tasks -> how many
    applied,      \* per segment: the partitions its writer holds
    flush_results,\* segments that are flushed -> the partitions they hold
    committed,    \* segments that are committed -> the partitions they hold
    registered,   \* the flush_results that sysdb was given
    registers,    \* how many register tasks were dispatched
    result,       \* what was sent to the result channel
    errors

counts == <<num_uncompleted_materialization_tasks, num_uncompleted_tasks_by_segment>>
segments == <<applied, committed, flush_results>>
vars == <<kind, writers, parts, empty, dispatched, results, counts, segments, registered,
          registers, result, errors>>

none == [s \in {} |-> {}]

Task(name) == [name |-> name]
Materialize(p) == [name |-> "materialize", partition |-> p]
Apply(p, s) == [name |-> "apply", partition |-> p, segment |-> s]
Commit(s) == [name |-> "commit", segment |-> s]
Flush(s) == [name |-> "flush", segment |-> s]

Tasks ==
    {Task(n) : n \in {"prepare", "get", "prefetch", "fetch", "source", "execute",
                      "partition", "register", "finish"}}
    \cup {Materialize(p) : p \in Partitions}
    \cup {Apply(p, s) : p \in Partitions, s \in Segments}
    \cup {Commit(s) : s \in Segments}
    \cup {Flush(s) : s \in Segments}

(* initial_tasks.                                                          *)
Init ==
    /\ kind \in Kinds
    /\ writers = FALSE
    /\ parts \in SUBSET Partitions
    /\ empty \in SUBSET parts
    /\ dispatched = {Task(IF kind = "function" THEN "prepare" ELSE "get")}
    /\ results = {}
    /\ num_uncompleted_materialization_tasks = 0
    /\ num_uncompleted_tasks_by_segment = none
    /\ applied = [s \in Segments |-> {}]
    /\ committed = none
    /\ flush_results = none
    /\ registered = {}
    /\ registers = 0
    /\ result = "none"
    /\ errors = 0

-----------------------------------------------------------------------------
(* The tasks.                                                              *)

(* f with s mapped to v.                                                   *)
With(f, s, v) == [t \in DOMAIN f \cup {s} |-> IF t = s THEN v ELSE f[t]]

(* A task runs and succeeds.  What it does to the segments it does now.    *)
Run(t) ==
    /\ t \in dispatched
    /\ dispatched' = dispatched \ {t}
    /\ results' = results \cup {[task |-> t, ok |-> TRUE]}
    /\ applied' = IF t.name = "apply"
                  THEN [applied EXCEPT ![t.segment] = @ \cup {t.partition}] ELSE applied
    /\ committed' = IF t.name = "commit"
                    THEN With(committed, t.segment, applied[t.segment]) ELSE committed
    /\ registered' = IF t.name = "register" THEN registered \cup {flush_results}
                     ELSE registered
    /\ UNCHANGED <<kind, writers, parts, empty, counts, flush_results, registers, result, errors>>

(* It fails, having done what it does or not.  Registering takes a call of *)
(* sysdb and one of the log service, and the second may be what fails.     *)
Fail(t) ==
    /\ t \in dispatched /\ errors < MaxErrors
    /\ dispatched' = dispatched \ {t}
    /\ results' = results \cup {[task |-> t, ok |-> FALSE]}
    /\ \/ UNCHANGED registered
       \/ t.name = "register" /\ registered' = registered \cup {flush_results}
    /\ errors' = errors + 1
    /\ UNCHANGED <<kind, writers, parts, empty, counts, segments, registers, result>>

-----------------------------------------------------------------------------
(* The handlers.  Each takes the result r of a task.                       *)

Handling(r) == r \in results /\ result = "none" /\ r.ok

(* The result is taken, and the tasks ts are dispatched.                   *)
Send(r, ts) ==
    /\ results' = results \ {r}
    /\ dispatched' = dispatched \cup ts
    /\ registers' = registers + IF Task("register") \in ts THEN 1 ELSE 0

(* ok_or_terminate with an error: the component is cancelled.              *)
HandleError(r) ==
    /\ r \in results /\ result = "none" /\ ~r.ok
    /\ result' = "error"
    /\ Send(r, {})
    /\ UNCHANGED <<kind, writers, parts, empty, counts, segments, registered, errors>>

(* PrepareAttachedFunction: there may be nothing to execute any more.      *)
HandlePrepare(r) ==
    /\ Handling(r) /\ r.task = Task("prepare")
    /\ \/ Send(r, {Task("finish")})
       \/ Send(r, {Task("get")})
    /\ UNCHANGED <<kind, writers, parts, empty, counts, segments, registered, result, errors>>

(* GetCollectionAndSegments.  A collection without a dimension is not yet  *)
(* initialized: there are no writers for it, and nothing to prefetch.      *)
HandleGetCollectionAndSegments(r) ==
    /\ Handling(r) /\ r.task = Task("get")
    /\ LET log_task == Task(IF kind = "compaction" THEN "fetch" ELSE "source")
       IN \/ Send(r, {Task("prefetch"), log_task}) /\ writers' = TRUE
          \/ Send(r, {log_task}) /\ UNCHANGED writers
    /\ UNCHANGED <<kind, parts, empty, counts, segments, registered, result, errors>>

HandlePrefetch(r) ==
    /\ Handling(r) /\ r.task = Task("prefetch")
    /\ Send(r, {})
    /\ UNCHANGED <<kind, writers, parts, empty, counts, segments, registered, result, errors>>

(* FetchLog: if no log was pulled, the log's offset is to be repaired.     *)
HandleFetchLog(r) ==
    /\ Handling(r) /\ r.task = Task("fetch")
    /\ \/ /\ parts = {}
          /\ result' = "repair"
          /\ Send(r, {})
       \/ /\ parts # {}
          /\ Send(r, {Task("partition")})
          /\ UNCHANGED result
    /\ UNCHANGED <<kind, writers, parts, empty, counts, segments, registered, errors>>

(* SourceRecordSegment: the records of the segment, for a rebuild or for   *)
(* the attached function.                                                  *)
HandleSourceRecordSegment(r) ==
    /\ Handling(r) /\ r.task = Task("source")
    /\ \/ kind # "function" /\ parts = {} /\ Send(r, {Task("register")})
       \/ kind = "function" /\ Send(r, {Task("execute")})
       \/ kind # "function" /\ parts # {} /\ Send(r, {Task("partition")})
    /\ UNCHANGED <<kind, writers, parts, empty, counts, segments, registered, result, errors>>

HandleExecuteAttachedFunction(r) ==
    /\ Handling(r) /\ r.task = Task("execute")
    /\ Send(r, {Task("partition")})
    /\ UNCHANGED <<kind, writers, parts, empty, counts, segments, registered, result, errors>>

(* Partition, and materialize_log.                                         *)
HandlePartition(r) ==
    /\ Handling(r) /\ r.task = Task("partition")
    /\ num_uncompleted_materialization_tasks' = Cardinality(parts)
    /\ Send(r, {Materialize(p) : p \in parts})
    /\ UNCHANGED <<kind, writers, parts, empty, num_uncompleted_tasks_by_segment, segments,
                   registered, result, errors>>

(* Mutant: the other materializations are not waited for.                  *)
NothingToFlushYet == num_uncompleted_tasks_by_segment = none

(* Mutant: the count is read before the partition at hand is taken off.    *)
NothingToFlushStale ==
    /\ num_uncompleted_materialization_tasks = 0
    /\ num_uncompleted_tasks_by_segment = none

(* Whether an empty partition is the last of all, and all were empty.      *)
NothingToFlush ==
    /\ num_uncompleted_materialization_tasks = 1
    /\ num_uncompleted_tasks_by_segment = none

(* MaterializeLog, and dispatch_apply_log_to_segment_writer_tasks.         *)
HandleMaterializeLog(r) ==
    /\ Handling(r) /\ r.task.name = "materialize"
    /\ LET p == r.task.partition
           uncompleted == num_uncompleted_tasks_by_segment
       IN \/ /\ p \in empty
             /\ Send(r, IF NothingToFlush THEN {Task("register")} ELSE {})
             /\ UNCHANGED num_uncompleted_tasks_by_segment
          \/ /\ p \notin empty /\ writers
             /\ Send(r, {Apply(p, s) : s \in Segments})
             /\ num_uncompleted_tasks_by_segment' =
                   [s \in Segments |-> IF s \in DOMAIN uncompleted THEN uncompleted[s] + 1
                                       ELSE 1]
    /\ num_uncompleted_materialization_tasks' = num_uncompleted_materialization_tasks - 1
    /\ UNCHANGED <<kind, writers, parts, empty, segments, registered, result, errors>>

(* There is something to apply, and get_segment_writers finds no writers   *)
(* ("Future handlers should return early on empty materialized logs").     *)
HandleMissingWriters(r) ==
    /\ Handling(r) /\ r.task.name = "materialize"
    /\ r.task.partition \notin empty /\ ~writers
    /\ Send(r, {})
    /\ num_uncompleted_materialization_tasks' = num_uncompleted_materialization_tasks - 1
    /\ result' = "error"
    /\ UNCHANGED <<kind, writers, parts, empty, num_uncompleted_tasks_by_segment, segments,
                   registered, errors>>

(* Whether everything has been applied to a segment.                       *)
CommitNow(left) == left = 0 /\ num_uncompleted_materialization_tasks = 0

(* ApplyLogToSegmentWriter.                                                *)
HandleApplyLog(r) ==
    /\ Handling(r) /\ r.task.name = "apply"
    /\ LET s == r.task.segment
           left == num_uncompleted_tasks_by_segment[s] - 1
       IN /\ num_uncompleted_tasks_by_segment' =
                [num_uncompleted_tasks_by_segment EXCEPT ![s] = left]
          /\ Send(r, IF CommitNow(left) THEN {Commit(s)} ELSE {})
    /\ UNCHANGED <<kind, writers, parts, empty, num_uncompleted_materialization_tasks, segments,
                   registered, result, errors>>

(* CommitSegmentWriter.                                                    *)
HandleCommit(r) ==
    /\ Handling(r) /\ r.task.name = "commit"
    /\ Send(r, {Flush(r.task.segment)})
    /\ UNCHANGED <<kind, writers, parts, empty, counts, segments, registered, result, errors>>

(* Mutant: the first segment that is flushed is registered.                *)
RegisterFirstFlushed(uncompleted) == DOMAIN uncompleted # Segments

RegisterNow(uncompleted) == uncompleted = none

(* FlushSegmentWriter.                                                     *)
HandleFlush(r) ==
    /\ Handling(r) /\ r.task.name = "flush"
    /\ LET s == r.task.segment
           uncompleted == [t \in DOMAIN num_uncompleted_tasks_by_segment \ {s} |->
                              num_uncompleted_tasks_by_segment[t]]
       IN /\ flush_results' = With(flush_results, s, committed[s])
          /\ num_uncompleted_tasks_by_segment' = uncompleted
          /\ Send(r, IF RegisterNow(uncompleted) THEN {Task("register")} ELSE {})
    /\ UNCHANGED <<kind, writers, parts, empty, num_uncompleted_materialization_tasks, applied,
                   committed, registered, result, errors>>

(* Register.                                                               *)
HandleRegister(r) ==
    /\ Handling(r) /\ r.task = Task("register")
    /\ \/ kind = "function" /\ Send(r, {Task("finish")}) /\ UNCHANGED result
       \/ kind # "function" /\ Send(r, {}) /\ result' = "success"
    /\ UNCHANGED <<kind, writers, parts, empty, counts, segments, registered, errors>>

(* FinishAttachedFunction.                                                 *)
HandleFinishAttachedFunction(r) ==
    /\ Handling(r) /\ r.task = Task("finish")
    /\ Send(r, {})
    /\ result' = "success"
    /\ UNCHANGED <<kind, writers, parts, empty, counts, segments, registered, errors>>

Handle(r) ==
    \/ HandleError(r)
    \/ HandlePrepare(r)
    \/ HandleGetCollectionAndSegments(r)
    \/ HandlePrefetch(r)
    \/ HandleFetchLog(r)
    \/ HandleSourceRecordSegment(r)
    \/ HandleExecuteAttachedFunction(r)
    \/ HandlePartition(r)
    \/ HandleMaterializeLog(r)
    \/ HandleMissingWriters(r)
    \/ HandleApplyLog(r)
    \/ HandleCommit(r)
    \/ HandleFlush(r)
    \/ HandleRegister(r)
    \/ HandleFinishAttachedFunction(r)

Next ==
    \/ \E t \in dispatched : Run(t) \/ Fail(t)
    \/ \E r \in results : Handle(r)

Spec == Init /\ [][Next]_vars

(* The dispatcher runs every task, and the component handles every result. *)
FairSpec ==
    /\ Spec
    /\ WF_vars(\E t \in dispatched : Run(t))
    /\ WF_vars(\E r \in results : Handle(r))

-----------------------------------------------------------------------------
(* Properties.                                                             *)

(* The values the variables take.                                          *)
TypeOK ==
    /\ kind \in Kinds /\ writers \in BOOLEAN
    /\ empty \subseteq parts /\ parts \subseteq Partitions
    /\ dispatched \subseteq Tasks
    /\ results \subseteq [task : Tasks, ok : BOOLEAN]
    /\ num_uncompleted_materialization_tasks \in 0..Cardinality(Partitions)
    /\ DOMAIN num_uncompleted_tasks_by_segment \subseteq Segments
    /\ \A s \in DOMAIN num_uncompleted_tasks_by_segment :
          num_uncompleted_tasks_by_segment[s] \in 0..Cardinality(Partitions)
    /\ applied \in [Segments -> SUBSET Partitions]
    /\ result \in {"none", "error", "repair", "success"}
    /\ errors \in 0..MaxErrors

(* A version is registered only with all segments, and each with all that  *)
(* was pulled: if a segment were left out or committed before the last     *)
(* partition was applied to it, records would be lost, since the log       *)
(* position that is registered with it covers them.                        *)
RegistersEverything ==
    \A f \in registered :
        f = IF parts = empty THEN none ELSE [s \in Segments |-> parts \ empty]

(* A compaction is registered at most once: a second one would fail on the *)
(* version that the first has used up, and the compaction would be said to *)
(* have failed ("We check the number of remaining materialization tasks to *)
(* prevent a race condition").                                             *)
RegistersOnce == registers <= 1

(* The orchestrator comes to a result when its partitions all materialize  *)
(* to something, or all to nothing (an attached function that returns no   *)
(* records leaves no partition at all, and nothing goes on).               *)
TerminatesIfUniform ==
    /\ empty = {} \/ empty = parts
    /\ kind = "function" => parts # {}
    ~> result # "none"

(* The orchestrator comes to a result, whatever its partitions hold.  That *)
(* an empty partition is the last to be materialized is meant to be        *)
(* covered ("We check the number of remaining materialization tasks to     *)
(* prevent a race condition").                                             *)
Terminates == <>(result # "none")

=============================================================================

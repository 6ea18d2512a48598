--------------------------- MODULE AttachedFunction ---------------------------
(***************************************************************************)
(* Functions that are attached to a collection and run on its records.     *)
(*                                                                         *)
(* The sysdb keeps two nonces per function: a run has the lowest live one, *)
(* next_nonce is that of the run after it.  They are equal while the       *)
(* function waits, and differ while a run is scheduled.  What wakes a      *)
(* function up is an item <function, nonce> in a heap of buckets on S3: it *)
(* is pushed when the function is attached, by a run that finds new        *)
(* records when it ends, and by the heap tender, which reads in the dirty  *)
(* log which collections were written.  An item is done when its nonce is  *)
(* below the lowest live one; pushes and the pruner drop what is done.     *)
(*                                                                         *)
(* Translated from rust/s3heap, rust/s3heap-service, the scheduling of     *)
(* functions in rust/worker and go/pkg/sysdb (coordinator/task.go and      *)
(* metastore/db/dao/task.go).                                              *)
(*                                                                         *)
(*  - One collection, and the functions attached to it under one name, of  *)
(*    which one at most is not deleted.                                    *)
(*  - The e_tag of a bucket is its content.                                *)
(*  - A bucket is loaded, and its items are looked up in the sysdb, in the *)
(*    step before: it is loaded again if it changes before it is put.      *)
(*  - The execution of a run is that of CompactOrchestrator.               *)
(***************************************************************************)
EXTENDS Naturals, FiniteSets, FiniteSetsExt

CONSTANTS
    Functions,      \* ids of attached functions
    Detached,       \* those that were detached before, and left an item in the heap
    Workers,        \* compaction services that run functions, one run at a time
    Buckets,        \* intervals of min_age_for_deletion, each for the minutes in it
    MaxNonce,       \* bound on next_nonce
    InitialRecords, \* records of the collection before a function is attached
    MaxRecords,     \* bound on the log of the collection
    MaxVersion,     \* bound on the versions of an output collection
    min_records_for_invocation,
    None

ASSUME AttachedFunctionAssumption ==
    /\ IsFiniteSet(Buckets) /\ Buckets = 1..Cardinality(Buckets) /\ Buckets # {}
    /\ Detached \subseteq Functions
    /\ Functions \cap Workers = {} /\ "tender" \notin Functions \cup Workers
    /\ {MaxNonce, MaxRecords, MaxVersion, min_records_for_invocation} \subseteq Nat \ {0}
    /\ InitialRecords \in 0..MaxRecords
    /\ None \notin Nat

VARIABLES
    marked, log,    \* records announced in the dirty log, and records in the log
    compacted,      \* log_position of the collection in the sysdb
    cursor,         \* marks that the tender is through with
    rows,           \* attached_functions in the sysdb
    version,        \* version of the output collection of each function
    heap,           \* the items of each bucket
    now,            \* the bucket of the present
    attach,         \* where AttachFunction is, for each function
    tender,         \* the heap tender: where it is, and the marks it has read
    jobs,           \* the run of each worker
    puts,           \* the merge_on_s3 of each pusher
    pruner,         \* the bucket that the pruner is about to delete
    stripped,       \* functions whose first item was dropped before they were ready
    excused         \* records whose wake-up was lost to one of the races below

vars == <<marked, log, compacted, cursor, rows, version, heap, now, attach, tender, jobs,
          puts, pruner, stripped, excused>>
logVars == <<marked, log, compacted>>
heapVars == <<heap, now, puts, pruner, stripped>>

Nonces == 0..MaxNonce
Items == Functions \X Nonces
Pushers == Functions \cup Workers \cup {"tender"}

(* The smallest UUIDv7, the lowest live nonce of a function's first run.   *)
minimalUUIDv7 == 0

NoRow == [state |-> "none", next_nonce |-> 0, lowest_live_nonce |-> 0,
          completion_offset |-> 0, next_run |-> 1]

Idle == [pc |-> "idle", f |-> None, nonce |-> 0, fn |-> NoRow, position |-> 0, version |-> 0]

NoPut == [pc |-> "none", bucket |-> 1, item |-> None, found |-> {}, keep |-> {}]

(* A function may have been attached already, its first item beside those  *)
(* of functions that were detached since.                                  *)
Init ==
    /\ marked = InitialRecords /\ log = marked /\ compacted = marked /\ cursor = marked
    /\ \E attached \in {{}} \cup {{f} : f \in Functions \ Detached} :
          /\ rows = [f \in Functions |->
                        IF f \in attached THEN [NoRow EXCEPT !.state = "ready", !.next_nonce = 1]
                        ELSE [NoRow EXCEPT !.state = IF f \in Detached THEN "deleted" ELSE "none"]]
          /\ heap = [b \in Buckets |-> IF b = 1 THEN (attached \cup Detached) \X {minimalUUIDv7} ELSE {}]
    /\ now = 1
    /\ version = [f \in Functions |-> 0]
    /\ attach = [f \in Functions |-> "none"]
    /\ tender = [pc |-> "idle", limit |-> 0]
    /\ jobs = [w \in Workers |-> Idle]
    /\ puts = [p \in Pushers |-> NoPut]
    /\ pruner = None
    /\ stripped = {} /\ excused = 0

-----------------------------------------------------------------------------
(* The collection.                                                         *)

(* A write marks the collection dirty ...                                  *)
MarkDirty ==
    /\ marked = log /\ marked < MaxRecords
    /\ marked' = marked + 1
    /\ UNCHANGED <<log, compacted, cursor, rows, version, attach, tender, jobs, excused>>
    /\ UNCHANGED heapVars

(* ... before its record is linked.  The tender may have been faster.      *)
Link ==
    /\ log < marked
    /\ log' = marked
    /\ excused' = IF marked <= Max({cursor, tender.limit}) THEN marked ELSE excused
    /\ UNCHANGED <<marked, compacted, cursor, rows, version, attach, tender, jobs>>
    /\ UNCHANGED heapVars

(* A compaction of the collection, which Compactor models.                 *)
Compact ==
    /\ compacted < log
    /\ compacted' = log
    /\ UNCHANGED <<marked, log, cursor, rows, version, attach, tender, jobs, excused>>
    /\ UNCHANGED heapVars

-----------------------------------------------------------------------------
(* The heap.                                                               *)

(* SysDbScheduler::are_done: the sysdb shows functions that are ready, and *)
(* what has no schedule is done.                                           *)
are_done(i) ==
    \/ rows[i[1]].state # "ready"
    \/ i[2] < rows[i[1]].lowest_live_nonce

(* One item of each function, that with the largest nonce.                 *)
dedup(items) == {i \in items : \A j \in items : j[1] = i[1] => j[2] <= i[2]}

(* A call of HeapWriter::push by p: merge_on_s3 loads the bucket, and asks *)
(* which of its items are done.                                            *)
Push(p, i, b) ==
    puts' = [puts EXCEPT ![p] = [pc |-> "store", bucket |-> b, item |-> i, found |-> heap[b],
                                 keep |-> {j \in heap[b] : ~are_done(j)}]]

(* Items that are dropped although they are not done: those of a function  *)
(* that was partial when the sysdb was asked, or still is.                 *)
Drop(dropped) ==
    /\ stripped' = stripped \cup {f \in Functions : rows[f].state = "partial" /\ \E i \in dropped : i[1] = f}
    /\ excused' = IF \E i \in dropped : ~are_done(i) THEN Max({log, excused}) ELSE excused

(* The bucket is put if it is what was loaded; else it is loaded again.    *)
MergeStore(p) ==
    LET b == puts[p].bucket
        stored == heap[b] = puts[p].found
    IN
    /\ puts[p].pc = "store"
    /\ heap' = IF stored THEN [heap EXCEPT ![b] = dedup(puts[p].keep \cup {puts[p].item})] ELSE heap
    /\ IF stored THEN puts' = [puts EXCEPT ![p] = [NoPut EXCEPT !.pc = "pushed"]] ELSE Push(p, puts[p].item, b)
    /\ Drop(IF stored THEN puts[p].found \ puts[p].keep ELSE {})
    /\ UNCHANGED <<cursor, rows, version, now, attach, tender, jobs, pruner>>
    /\ UNCHANGED logVars

Pushed(p) == puts[p].pc = "pushed" /\ puts' = [puts EXCEPT ![p] = NoPut]

(* HeapPruner::prune_bucket_inner.  What it loaded is put again without    *)
(* the items that are done, or, if it has changed, tried again.            *)
PruneBucket(b) ==
    LET keep == {i \in heap[b] : ~are_done(i)} IN
    /\ keep \notin {heap[b], {}}
    /\ heap' = [heap EXCEPT ![b] = keep]
    /\ Drop(heap[b] \ keep)
    /\ UNCHANGED <<cursor, rows, version, now, attach, tender, jobs, puts, pruner>>
    /\ UNCHANGED logVars

(* A bucket of the past of which all items are done ...                    *)
PruneEmpty(b) ==
    /\ pruner = None
    /\ heap[b] # {} /\ \A i \in heap[b] : are_done(i)
    /\ b < now
    /\ pruner' = b
    /\ UNCHANGED <<cursor, rows, version, heap, now, attach, tender, jobs, puts, stripped, excused>>
    /\ UNCHANGED logVars

(* ... is deleted, whatever it holds by then.                              *)
ClearBucket ==
    /\ pruner # None
    /\ heap' = [heap EXCEPT ![pruner] = {}]
    /\ Drop(heap[pruner])
    /\ pruner' = None
    /\ UNCHANGED <<cursor, rows, version, now, attach, tender, jobs, puts>>
    /\ UNCHANGED logVars

(* Time passes.                                                            *)
Tick ==
    /\ now + 1 \in Buckets
    /\ now' = now + 1
    /\ UNCHANGED <<cursor, rows, version, heap, attach, tender, jobs, puts, pruner, stripped, excused>>
    /\ UNCHANGED logVars

-----------------------------------------------------------------------------
(* AttachFunction, in three phases, and the end of functions.              *)

(* Phase 1.  Under the name of a function that is ready the call returns   *)
(* at once, and under that of a partial one it fails.                      *)
AttachInsert(f) ==
    /\ rows[f].state = "none"
    /\ \A g \in Functions : rows[g].state \in {"none", "deleted"}
    /\ rows' = [rows EXCEPT ![f] = [NoRow EXCEPT !.state = "partial", !.next_nonce = 1, !.next_run = now]]
    /\ Push(f, <<f, minimalUUIDv7>>, now)
    /\ attach' = [attach EXCEPT ![f] = "push"]
    /\ UNCHANGED <<cursor, version, heap, now, tender, jobs, pruner, stripped, excused>>
    /\ UNCHANGED logVars

(* Phase 3, when phase 2 has pushed the first item: UpdateLowestLiveNonce. *)
AttachReady(f) ==
    /\ attach[f] = "push" /\ Pushed(f)
    /\ attach' = [attach EXCEPT ![f] = "none"]
    /\ rows' = IF rows[f].state = "partial"
               THEN [rows EXCEPT ![f].state = "ready", ![f].lowest_live_nonce = minimalUUIDv7]
               ELSE rows
    /\ excused' = IF f \in stripped THEN Max({log, excused}) ELSE excused
    /\ UNCHANGED <<cursor, version, heap, now, tender, jobs, pruner, stripped>>
    /\ UNCHANGED logVars

(* The push fails, or the coordinator does.                                *)
AttachFails(f) ==
    /\ attach[f] = "push"
    /\ attach' = [attach EXCEPT ![f] = "none"]
    /\ puts' = [puts EXCEPT ![f] = NoPut]
    /\ UNCHANGED <<cursor, rows, version, heap, now, tender, jobs, pruner, stripped, excused>>
    /\ UNCHANGED logVars

(* DetachFunction, and CleanupExpiredPartial.                              *)
Delete(f, state) ==
    /\ rows[f].state = state
    /\ rows' = [rows EXCEPT ![f].state = "deleted"]
    /\ UNCHANGED <<cursor, version, attach, tender, jobs, excused>>
    /\ UNCHANGED <<heapVars, logVars>>

DetachFunction(f) == Delete(f, "ready")
CleanupExpiredPartial(f) == Delete(f, "partial")

-----------------------------------------------------------------------------
(* HeapTender::tend_to_heap.                                               *)

(* read_and_coalesce_dirty_log.                                            *)
TenderReads ==
    /\ tender.pc = "idle" /\ cursor < marked
    /\ tender' = [pc |-> "peek", limit |-> marked]
    /\ UNCHANGED <<cursor, rows, version, attach, jobs, excused>>
    /\ UNCHANGED <<heapVars, logVars>>

(* Peek at the schedule: the next nonce of the function that is ready.     *)
TenderPeeks ==
    /\ tender.pc = "peek"
    /\ \/ \E f \in Functions :
             /\ rows[f].state = "ready"
             /\ Push("tender", <<f, rows[f].next_nonce>>, rows[f].next_run)
             /\ tender' = [tender EXCEPT !.pc = "push"]
       \/ /\ \A f \in Functions : rows[f].state # "ready"
          /\ tender' = [tender EXCEPT !.pc = "save"]
          /\ UNCHANGED puts
    /\ UNCHANGED <<cursor, rows, version, heap, now, attach, jobs, pruner, stripped, excused>>
    /\ UNCHANGED logVars

(* The cursor is saved when the item is in the heap.                       *)
TenderSaves ==
    /\ \/ tender.pc = "push" /\ Pushed("tender")
       \/ tender.pc = "save" /\ UNCHANGED puts
    /\ cursor' = tender.limit
    /\ tender' = [pc |-> "idle", limit |-> 0]
    /\ UNCHANGED <<rows, version, heap, now, attach, jobs, pruner, stripped, excused>>
    /\ UNCHANGED logVars

(* A step fails, or the tender is restarted: it starts again at the cursor.*)
TenderFails ==
    /\ tender.pc # "idle"
    /\ tender' = [pc |-> "idle", limit |-> 0]
    /\ puts' = [puts EXCEPT !["tender"] = NoPut]
    /\ UNCHANGED <<cursor, rows, version, heap, now, attach, jobs, pruner, stripped, excused>>
    /\ UNCHANGED logVars

-----------------------------------------------------------------------------
(* The run of a function.                                                  *)

JobStep(w, pc) ==
    /\ jobs' = [jobs EXCEPT ![w].pc = pc]
    /\ UNCHANGED <<cursor, version, attach, tender>>
    /\ UNCHANGED logVars

(* The scheduler peeks at the heap: an item that is not done is run.       *)
StartJob(w) ==
    /\ jobs[w].pc = "idle"
    /\ \E b \in Buckets : \E i \in heap[b] :
          /\ ~are_done(i)
          /\ jobs' = [jobs EXCEPT ![w] = [Idle EXCEPT !.pc = "prepare", !.f = i[1], !.nonce = i[2]]]
    /\ UNCHANGED <<cursor, rows, version, attach, tender, excused>>
    /\ UNCHANGED <<heapVars, logVars>>

(* PrepareAttachedFunction reads the row.                                  *)
ReadFunction(w) ==
    LET row == rows[jobs[w].f] IN
    /\ jobs[w].pc = "prepare"
    /\ row.state = "ready" /\ jobs[w].nonce \in {row.next_nonce, row.lowest_live_nonce}
    /\ jobs' = [jobs EXCEPT ![w].pc = "scout", ![w].nonce = 0, ![w].fn = row]
    /\ UNCHANGED <<cursor, rows, version, attach, tender, excused>>
    /\ UNCHANGED <<heapVars, logVars>>

(* scout_logs returns the offset after the last record.                    *)
EnoughRecords(completion_offset) == log + 1 - completion_offset >= min_records_for_invocation

(* Mutant: a run that was scheduled already is advanced again.             *)
always(fn) == TRUE

waiting(fn) == fn.next_nonce = fn.lowest_live_nonce

(* Advance: one caller at most finds the nonce that it read.               *)
AdvanceFits(row, fn) ==
    /\ row.state = "ready" /\ row.next_nonce = fn.next_nonce
    /\ row.completion_offset <= fn.completion_offset

(* It goes on with the run if there are enough new records, or else with   *)
(* the check for new ones.  A function that waits is advanced.  The first  *)
(* run also creates the output collection, which is left out: version 0    *)
(* stands for it, and the one of two workers that finds it created already *)
(* fails, having advanced or not (JobFails).                               *)
Prepare(w) ==
    LET job == jobs[w]
        pc == IF EnoughRecords(job.fn.completion_offset) THEN "execute" ELSE "recheck"
        row == rows[job.f]
    IN
    /\ job.pc = "scout"
    /\ \/ /\ ~waiting(job.fn)
          /\ jobs' = [jobs EXCEPT ![w].pc = pc]
          /\ UNCHANGED rows
       \/ /\ waiting(job.fn)
          /\ AdvanceFits(row, job.fn) /\ row.next_nonce < MaxNonce
          /\ rows' = [rows EXCEPT ![job.f].next_nonce = @ + 1, ![job.f].next_run = now,
                                  ![job.f].completion_offset = job.fn.completion_offset]
          /\ jobs' = [jobs EXCEPT ![w].pc = pc, ![w].fn.next_nonce = @ + 1, ![w].fn.next_run = now]
    /\ UNCHANGED <<cursor, version, attach, tender, excused>>
    /\ UNCHANGED <<heapVars, logVars>>

(* The collections are read, and the records that were compacted.          *)
GetCollectionAndSegments(w) ==
    /\ jobs[w].pc = "execute"
    /\ jobs' = [jobs EXCEPT ![w].pc = "register", ![w].position = compacted,
                            ![w].version = version[jobs[w].f]]
    /\ UNCHANGED <<cursor, rows, version, attach, tender, excused>>
    /\ UNCHANGED <<heapVars, logVars>>

last_offset_processed(position) == IF position = 0 THEN 0 ELSE position - 1

(* Mutant: the flush does not compare versions.                            *)
any_version(job) == TRUE

current_version(job) == job.version = version[job.f]

(* FlushCollectionCompactionAndAttachedFunction: the output collection has *)
(* the version that was read, and the run is still the live one.           *)
Register(w) ==
    LET job == jobs[w]
        offset == last_offset_processed(job.position)
    IN
    /\ job.pc = "register"
    /\ current_version(job) /\ version[job.f] < MaxVersion
    /\ rows[job.f].state = "ready" /\ rows[job.f].lowest_live_nonce = job.fn.lowest_live_nonce
    /\ version' = [version EXCEPT ![job.f] = @ + 1]
    /\ rows' = [rows EXCEPT ![job.f].completion_offset = offset]
    /\ jobs' = [jobs EXCEPT ![w] = [Idle EXCEPT !.pc = "recheck", !.f = job.f, !.fn = [job.fn EXCEPT !.completion_offset = offset]]]
    /\ UNCHANGED <<cursor, attach, tender, excused>>
    /\ UNCHANGED <<heapVars, logVars>>

(* Mutant: new records are not looked for when a run ends.                 *)
RecheckNot(w) ==
    /\ jobs[w].pc = "recheck"
    /\ JobStep(w, "finish")
    /\ UNCHANGED <<rows, heapVars, excused>>

(* FinishAttachedFunction: the next run is pushed if there are new records *)
(* for it, ...                                                             *)
Recheck(w) ==
    LET fn == jobs[w].fn IN
    /\ jobs[w].pc = "recheck"
    /\ \/ /\ EnoughRecords(fn.completion_offset)
          /\ Push(w, <<jobs[w].f, fn.next_nonce>>, fn.next_run)
          /\ JobStep(w, "push")
       \/ /\ ~EnoughRecords(fn.completion_offset)
          /\ JobStep(w, "finish")
          /\ UNCHANGED puts
    /\ UNCHANGED <<rows, heap, now, pruner, stripped, excused>>

(* ... and this one is done, which is whatever comes before the next nonce *)
(* in the sysdb by now.                                                    *)
Finish(w) ==
    LET f == jobs[w].f IN
    /\ \/ jobs[w].pc = "finish" /\ UNCHANGED puts
       \/ jobs[w].pc = "push" /\ Pushed(w)
    /\ rows[f].state = "ready"
    /\ rows' = [rows EXCEPT ![f].lowest_live_nonce = rows[f].next_nonce]
    /\ jobs' = [jobs EXCEPT ![w] = Idle]
    /\ excused' = IF rows[f].next_nonce # jobs[w].fn.next_nonce THEN Max({log, excused}) ELSE excused
    /\ UNCHANGED <<cursor, version, attach, tender, heap, now, pruner, stripped>>
    /\ UNCHANGED logVars

(* A step fails or is refused, or the worker is restarted.                 *)
JobFails(w) ==
    /\ jobs[w].pc # "idle"
    /\ jobs' = [jobs EXCEPT ![w] = Idle]
    /\ puts' = [puts EXCEPT ![w] = NoPut]
    /\ UNCHANGED <<cursor, rows, version, attach, tender, heap, now, pruner, stripped, excused>>
    /\ UNCHANGED logVars

Next ==
    \/ MarkDirty \/ Link \/ Compact
    \/ \E p \in Pushers : MergeStore(p)
    \/ \E b \in Buckets : PruneBucket(b) \/ PruneEmpty(b)
    \/ ClearBucket \/ Tick
    \/ \E f \in Functions :
          \/ AttachInsert(f) \/ AttachReady(f) \/ AttachFails(f)
          \/ DetachFunction(f) \/ CleanupExpiredPartial(f)
    \/ TenderReads \/ TenderPeeks \/ TenderSaves \/ TenderFails
    \/ \E w \in Workers :
          \/ StartJob(w) \/ ReadFunction(w) \/ Prepare(w)
          \/ GetCollectionAndSegments(w) \/ Register(w)
          \/ Recheck(w) \/ Finish(w) \/ JobFails(w)

Spec == Init /\ [][Next]_vars

-----------------------------------------------------------------------------
(* Properties.                                                             *)

(* The values the variables take.                                          *)
TypeOK ==
    /\ {marked, log, compacted, cursor, excused} \subseteq 0..MaxRecords
    /\ \A f \in Functions :
          /\ rows[f].next_nonce \in Nonces
          /\ rows[f].lowest_live_nonce \in 0..rows[f].next_nonce
          /\ rows[f].next_run \in Buckets
          /\ rows[f].completion_offset \in 0..compacted
    /\ heap \in [Buckets -> SUBSET Items]
    /\ \A p \in Pushers : puts[p].pc # "none" => puts[p].bucket \in Buckets
    /\ stripped \subseteq Functions

Woken(f) ==
    \/ cursor < marked
    \/ \E b \in Buckets : \E i \in heap[b] :
          i[1] = f /\ i[2] \in {rows[f].lowest_live_nonce, rows[f].next_nonce}

(* A function that has enough new records will run: its nonce is in the    *)
(* heap, or the tender has yet to push it, whatever fails and however runs,*)
(* pushes and pruning overlap.  Excused are the records whose wake-up was  *)
(* lost in one of four ways: the mark of a record was used up before the   *)
(* record was linked; the first item of a function was dropped before it   *)
(* was ready; the bucket of an item was deleted; a run was finished by     *)
(* another that came late.                                                 *)
NothingForgotten ==
    \A f \in Functions :
        (/\ rows[f].state = "ready"
         /\ EnoughRecords(rows[f].completion_offset)
         /\ log > excused) => Woken(f)

(* "This recheck ensures we don't miss any records that were written       *)
(* during our attached function execution", without excuses.               *)
RecordsAreNotMissed ==
    \A f \in Functions :
        (rows[f].state = "ready" /\ EnoughRecords(rows[f].completion_offset) /\ log > InitialRecords) => Woken(f)

(* What is in the heap and not done can be run: an item between the two    *)
(* nonces would be refused for ever, and be tried again for ever.          *)
LiveItemsRun ==
    \A b \in Buckets : \A i \in heap[b] :
        ~are_done(i) => i[2] \in {rows[i[1]].lowest_live_nonce, rows[i[1]].next_nonce}

(* What was processed is not processed again: no run, however late or      *)
(* duplicated, takes the offset of its function back.                      *)
CompletionAdvances ==
    [][\A f \in Functions : rows'[f].completion_offset >= rows[f].completion_offset]_vars

=============================================================================

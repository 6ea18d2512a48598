# A TLA+ model of chroma's write path

Chroma stores the records that clients write in *wal3* (`rust/wal3`), a
write-ahead log on object storage. A log service (`rust/log-service`) appends
to it and tells compactors which collections are dirty; compactors
(`rust/worker`) read the log into index segments, register each result as a
new version of the collection in the sysdb (`go/pkg/sysdb`) and advance the
log's cursor; functions attached to a collection run on what was compacted,
woken up by a heap on object storage (`rust/s3heap`, `rust/s3heap-service`); a
garbage collector (`rust/garbage_collector`) deletes the part of the log below
the cursor and the files of old versions. There is no consensus service and no
leader among these processes: they coordinate through conditional puts and
through the version checks of the sysdb. That protocol, from the append of a
record to the deletion of what it has left behind, is the subject of this
development. Everything else in the repository is inventoried below.

## The system

| Component | State | Operations | Interacts with |
|---|---|---|---|
| wal3 `LogWriter` (`writer.rs`) | an `OnceLogWriter` and its epoch | `open`, `append_many`, error handling with reopening, three phases of collection | `ManifestManager`, `BatchManager`, object storage, `MarkDirty` |
| wal3 `BatchManager` (`batch_manager.rs`) | queue of calls, back-off flag, number of active writes, time of the next write, a `Notify` | `push_work`, `take_work`, `finish_write`, `shutdown`; a flusher task | callers of `append`, `append_batch` tasks |
| wal3 `Manifest`, `Snapshot` (`manifest.rs`) | the tree of fragments and its setsums | `apply_fragment`, `generate_snapshot`, `apply_snapshot`, `apply_garbage`, `scrub`, conditional `install` | object storage |
| wal3 `ManifestManager` (`manifest_manager.rs`) | `Staging`: last manifest and e_tag, next seq_no and position, staged fragments and garbage | `recover`, `assign_timestamp`, `publish_fragment`, `apply_garbage`, `do_work` | `Manifest`, object storage |
| wal3 garbage (`gc.rs`) | `gc/GARBAGE` | compute, install, reset; `drop_snapshot`, `replace_snapshot` | manifest, cursors |
| wal3 cursors, reader, copy, destroy | cursor files; none | load, save; scan, fetch, scrub; fork; delete a log | object storage |
| log service, dirty log (`lib.rs`) | the dirty log and its `STABLE_PREFIX` cursor, `COMPACTION` cursors and their cache, backpressure, `need_to_compact` | push, `roll_dirty_log`, `update_collection_log_offset`, purge, report what is to be compacted | wal3, compactors, collector |
| log service, open logs (`state_hash_table.rs`, `lib.rs`) | a table of reference-counted states, a `LogWriter` in each | look up or create, open or share, close when idle, drop | every handler of the service |
| compactor: manager and scheduler (`rust/worker/src/compactor`) | jobs in progress, failing, dead, one-off; completions; memberlist | schedule, start jobs, take in completions, repair log offsets, purge | log service, sysdb, other nodes |
| compactor: one compaction (`orchestration/compact.rs`) | tasks under way, counts of uncompleted tasks, flushed segments | fetch, partition, materialize, apply, commit, flush, register | dispatcher, sysdb, log service |
| sysdb (Go) | rows, version files, lineage files, attached functions | flush a compaction, fork, soft and hard delete, delete versions; attach, advance, finish, detach | compactors, collector, heap |
| collection garbage collector | a version graph, reference counts of files | list, construct graph, choose versions, delete files, versions and rows | sysdb, object storage |
| s3heap, s3heap-service | buckets of `<function, nonce>`; a cursor in the dirty log | push, prune, peek; tend to the heap | sysdb, compactors |
| mdac, memberlist, system, storage, cache | scorecards; members; components and tasks; request coalescing; cached blocks | | worker, log service, frontend |
| blockstore, index, segment, distance | file formats and indexes | | worker |
| sysdb clients, sqlite, frontend, clients, Python package, CLI | SQL tables; none | CRUD | |

What is hard, and what makes each part correct:

* *Appending.* Two writers with the same manifest choose the same seq_no. A
  writer may die, or lose a reply, between the put of its fragment and the put
  of the manifest that links it, and either put may arrive after its sender has
  given up. Correct means: what a caller is told is true, a batch is linked at
  most once, whoever opens the log finds what was left unlinked, the log only
  grows at its end.
* *Roll-ups.* A manifest folds fragments into snapshots and snapshots into
  deeper ones. Correct means: the tree always holds exactly the linked
  fragments in order and no writer gets stuck with a manifest that cannot be
  extended.
* *Collection of the log.* The left edge of the tree is cut off while writers
  extend the right one and may fold the part that is being cut. Correct means:
  nothing a cursor needs goes, nothing referenced is deleted, setsums account
  for all that was dropped, numbering continues, no file is forgotten.
* *Batching.* Callers, a flusher and failing writes share a queue. Correct
  means: every caller is answered, once, with a position of its own.
* *The dirty log.* Marks precede the records they announce, and are read,
  appended again and dropped while new ones arrive and cursors move. Correct
  means: what is not compacted is known to be dirty, and is compacted in the
  end.
* *Open logs.* Handles are taken and dropped while a timer closes logs. Correct
  means: one state and one writer per log, and every log is closed in the end.
* *Compaction.* Nothing keeps two jobs of a collection apart but sysdb's version
  check, and the tasks of a job end in any order. Correct means: every version
  holds the whole log up to its position, the cursor never passes it, and what
  is written gets compacted.
* *Versions.* A fork tree is read piece by piece while it changes. Correct
  means: the files of the versions that can still be read stay, and the others
  go.
* *Attached functions.* What wakes a function up is a heap item that pushes,
  pruner, tender and late runs may lose or leave behind. Correct means: a
  function with enough new records will run, and its progress is kept.

`PROJECT.json` lists the hazards by source line with the properties that would
catch each of them.

## The modules

`Manifest` holds the data and the pure functions of `manifest.rs` and the walk
of `reader.rs`. A setsum is an integer under addition (any commutative group
would do). A snapshot's name is its setsum, as in the code. Byte counts,
writers' names and times are left out.

`LogWriter` (extends `Manifest`) has any number of `LogWriter`s on one log. Its
variables are the objects in storage, the dirty log, and for each writer where
its call stands, what it holds, and the counters of its two retry loops. Every
step between two awaits on storage is an action; `UploadParquet`,
`InstallManifest` and the like are the moments at which a put takes effect, with
the reply complete, incomplete or lost. `delayed` holds puts that may still
arrive. `AppendFails` is `handle_errors_and_contention` and `OpenFails` is
`ensure_open`, with what they tell the caller. A batch stands for the messages
of all callers that share a fragment: `take_work` lets one batch at a time into
a writer, which `BatchManager` checks (`OneWriteAtATime`). `history`, the
fragments ever linked, is bookkeeping of the model, written in the one step that
puts a manifest with a new fragment. `mark_dirty` may fail with any of the errors
that the log service passes on, the contention errors of the dirty log among them
(`MarkDirtyErrors`); `retried` and `presumed` record the batches that such an error
makes `append_many` write again, or report durable without having written them.

`AppendLog` is the abstract specification: an append-only sequence of distinct
batches at consecutive positions, and callers that are told only what is true
of it. `LogWriter` implements it under the mapping `log <- history` reduced to
batch, start and limit. Two actions of it, `Retry` and `Presume`, stand for the
contention of the dirty log: only a batch that was retried may be linked again,
and only one that was presumed may be called durable without being in the log.

`Garbage` (extends `Manifest`) holds the pure functions of `gc.rs` and
`Manifest::apply_garbage`: dropping whole snapshots, replacing the one that the
cutoff cuts through, at any depth.

`GarbageCollection` (extends `LogWriter` and `Garbage`) adds collectors, the
cursor, `gc/GARBAGE`, and the phase 2 requests that log servers serve between
their appends. A collector keeps the manifest it opened with, as the code does,
and phase 3 follows phase 2 at once: the operator does not wait for writers that
lag behind, as wal3's README asks. `removed`, the seq_nos that phase 3 has deleted,
and `abandoned`, those that left-over garbage named when it was reset, are
bookkeeping. The cleanup mode is `DeleteV2`; the other modes skip phase 3 on
purpose.

`BatchManager` is on its own: the critical sections of its mutex, the flusher
loop of `OnceLogWriter::open`, `append`, `append_batch` and `shutdown`. The
instant `next_write` is abstracted to whether it has passed (`due`). A write
succeeds or fails as a whole; what it does is `LogWriter`'s matter.

`DirtyLog` is one log server's dirty log: the marks after `STABLE_PREFIX` (those
that the roll-up under way has read apart from those behind them), cursors and
logs of the collections, the cache, and what the last roll-up found. Every
await of `roll_dirty_log` and of `_update_collection_log_offset` separates two
actions. Any part of the dirty log may be unreadable for one roll-up, which logs
that and goes on: what it could not read and lies before what it did (`skipped`)
is passed with it. `lost` and `unread` record such marks and their collections.
The compactor and the sysdb are reduced to what they do to the server: they
compact some of what it reports.

`OpenLogs` is the table of open logs: lookup, creation, the count of references
read at a drop and the release after it, the mutex of a state, and the tasks
that close logs. Time is whether a keep-alive has run out.

`Compactor` has the scheduler and manager of any number of nodes, jobs reduced
to what they read from and write to sysdb and log, and the report of the log
service, which is true as of some earlier time. `Schedule` is the whole handler
of `ScheduledCompactMessage`. A `disturbance` is a crash, failure, hang, early
expiry, change of a memberlist, one-off request or deletion.

`CompactOrchestrator` is one job in detail: dispatched tasks, their results, and
one action per handler. What each partition holds is reduced to whether it
materializes to anything. A collection without a dimension gets no segment
writers; its run comes to its end if every partition is empty, and to an error
otherwise.

`VersionGC` has the fork tree in the sysdb, the objects in storage (a sparse
index and blocks per version, blocks shared with the versions before) and the
phases of the collector's orchestrator. A version file or lineage file is an
immutable object whose name a row holds, so it is modelled by its content when
the name was read. Time is the two sets of versions and collections that have
become old enough. `overlooked`, `orphans` and `interrupted` are bookkeeping: the
forks that a job cannot know of, the objects whose own deletion failed, and the
collections whose job failed before it deleted their rows, see below.

`AttachedFunction` has the rows of functions in the sysdb, the buckets of the
heap, pushes with their conditional puts, the pruner, the tender, and runs of
functions on several workers. `excused` and `stripped` are bookkeeping for
`NothingForgotten`, see below. The output collection of a function is there from
the start, with version 0: its creation by the first run
(`prepare_task.rs:243-269`, `task.go:508-611`) is left out. Of two workers that
create it one fails, as any step of a run may.

The `MC_` modules give values to constants. Definitions marked *Mutant* are
variants of the definition after them that a plausible mistake would produce;
`PROJECT.json` says which property each of them breaks.

## The runs

All bounds are in the `.cfg` files. In the runs of wal3 thresholds of one
fragment per leaf and two snapshots per interior node make roll-ups happen from
the second batch on and reach snapshots of snapshots with four. One batch has
two records, so that positions and seq_nos differ. `Weight` makes the setsums of
different sets of fragments different. `InOrder` lets interchangeable batches (or
callers) come in one order only: a behaviour that obeys it obeys it throughout,
so it hides no infinite behaviour but renamings of those that are kept.

| Run | Bounds | Checks |
|---|---|---|
| `LogWriter_append` | 2 writers, 3 batches, 1 fault, fairness | `TypeOK`, `AckedIsLinked`, `LinkedOnce`, `LogIsReadable`, `ManifestScrubs`, `OneFragmentAhead`, `MarkedBeforeLinked`, `ImplementsAppendLog`, `AppendReturns` |
| `GarbageCollection_collect` | 1 writer, 4 batches, 1 collector, 2 rounds, 1 fault | `LiveLogIsReadable`, `CursorKept`, `SetsumsAccount`, `PositionsAreNotReused`, `CollectedIsTracked`, `DeletesOnlyGarbage` |
| `BatchManager_batching` | 5 callers, at most two to a batch, failures, fairness | `OneWriteAtATime`, `CallsAreAccountedFor`, `PositionsAreApart`, `AppendAnswered`, `FlusherStops` |
| `DirtyLog_roll` | 1 collection, compacted before or not, 3 records, 1 fault, fairness | `UncompactedIsDirty`, `NotAheadOfSysdb`, `EventuallyCompacted`, `BackpressureLifts` |
| `OpenLogs_shared` | 3 calls, fairness | `SameState`, `SharedWriter`, `LogsAreClosed` |
| `Compactor_jobs` | 2 nodes, 1 collection, 2 records, 2 jobs, 2 disturbances | `VersionHoldsLog`, `CursorBehindSysdb`, `VersionsAdvance` |
| `Compactor_compacted` | 1 node with one slot, 2 collections, 1 disturbance, fairness | `EventuallyCompacted` |
| `CompactOrchestrator_compact` | 2 partitions, 3 segments, all kinds, 1 error, fairness | `RegistersEverything`, `RegistersOnce`, `TerminatesIfUniform` |
| `VersionGC_collect` | 3 collections, 2 compactions, 1 job at a time, 1 fault | `FilesKept`, `NothingLeaks`, `NothingStranded` |
| `AttachedFunction_runs` | 1 function beside a detached one, 2 workers, 2 buckets, nonces to 2, 3 records | `NothingForgotten`, `LiveItemsRun`, `CompletionAdvances` |

One fault is the interesting number: the races need one process that fails at a
bad moment and another that goes on, and every single-fault point of the
protocol is covered. A fault is a crash, a lost or incomplete reply, a storage
error that outlasts the retries, a put that arrives late, an error of
`mark_dirty` of any kind, or a part of the dirty log that cannot be read. The compactor needs two disturbances for a job that expires, or is
asked for, twice. In `AttachedFunction` failures and crashes are free; its bounds
are on records, nonces and versions, enough for a run to be overtaken by the
next one.

Where the other bounds bite: with two compactions and three collections the
tree has a version to delete, forks of the root and of a fork, and blocks shared
between them; three calls are enough for one that drops, one that looks up and
one that opens; three records are a mark in the window of a roll-up, one behind
it and one that is yet to come, with thresholds of two for compaction,
backpressure and reinsertion.

Fairness. `LogWriter`: each writer's task is polled as long as it can make
progress (tokio), so weak fairness of its steps; nobody is obliged to call, to
crash or to deliver a late put. `BatchManager`: the same for the tasks, a write
ends (its retries have deadlines) and time passes. `DirtyLog`: `background_task`
rolls up again and again, calls that have begun go on, and the compactor, which
asks periodically, takes what it is given. `OpenLogs`: calls go on, time passes
and the sleeping tasks wake up. `Compactor`: the manager schedules its own next
message, jobs and repairs that have begun go on, an entry whose job is gone
expires, the dirty log is rolled up. `CompactOrchestrator`: the dispatcher runs
every task and the component handles every result. Nowhere is anybody obliged
to call, to fail or to be deleted.

The type invariants of the modules other than `LogWriter` hold on these runs
too; they are kept for proofs and are not listed in the `.cfg` files.

Deadlock is checked for the logs and the dirty log. `BatchManager` may stop with
a queue longer than a batch, see below; the other modules come to rest when the
bounded work is done.

What the properties leave out, and why. Every exception is the smallest one under
which the property holds: what the code really loses is named, and everything
else is checked, whatever fails. The table below shows how the properties fail
without these exceptions.

* `AckedIsLinked` excepts what is `presumed`: a batch that was called durable
  because a recovery was handed the `LogContentionDurable` of the dirty log.
  `LinkedOnce` excepts what is `retried`: a batch whose own `mark_dirty` failed with
  the `LogContentionRetry` of the dirty log, after its fragment may have been put.
* `CollectedIsTracked` excepts `removed` (a file that phase 3 has deleted, put again
  by a writer that lags behind) and `abandoned` (files named in left-over garbage
  that no longer applies and is reset).
* `UncompactedIsDirty` is about collections that have been compacted before
  (`known`); `NothingWrittenSilently` says it of all and does not hold, see below.
  It and `EventuallyCompacted` except a collection whose last mark is `lost`, until
  the next write marks it again.
* `NotAheadOfSysdb` excepts a collection with a mark that a roll-up could not read:
  the other marks may start later than the first record that is not compacted, and
  if the cursor cannot be loaded either, the rollup keeps that start
  (`ReadDirtyLog`, `FailEnrich`, `AppendMarkers`, `SaveStablePrefix`, `SwapRollups`).
* `AppendAnswered` makes an exception for a queue that exceeds one batch.
* `TerminatesIfUniform` is about partitions that are all empty or none.
* Compactor's `EventuallyCompacted` ends where the code gives up: a collection
  that is dead or deleted, assigned to nobody, or whose node has its slots held
  by jobs that hang (until they expire).
* `FilesKept` leaves out forks of a non-root that are made between the listing of
  the lineage and the reading of the version files: the job cannot know of them.
* `NothingLeaks` excepts `orphans`, the objects whose own deletion failed: that is
  only logged, and the version that names them is deleted afterwards.
* `NothingStranded` excepts `interrupted`, soft-deleted collections without versions
  whose job failed between the deletion of versions and that of rows: a later job
  has nothing to delete in their tree and ends before that phase.
* `NothingForgotten` excuses records whose wake-up was lost in one of four ways:
  their mark was used up by the tender before they were linked; the first item
  of the function was dropped before the function was ready; a bucket was
  deleted with an item in it; a run was finished by another that came late.

### Disagreements that the model shows

Two runs are expected to end in a violation; each is an entry of `findings`.

* `CompactOrchestrator_hangs`: an empty partition that is materialized last,
  when the others have been applied, leaves segments that nobody commits.
* `VersionGC_manual`: a manual request for a fork deletes files that its source
  still uses.

The others are kept as properties or constants of the modules. Each is shown by
a run above with the changes given, and with the property added to its `.cfg`
where it is not listed there:

| Change | Property that fails | What the code does |
|---|---|---|
| `LogWriter_append`, `AckedIsLinked` without `presumed` | `AckedIsLinked` | recovery hands the dirty log's `LogContentionDurable` (`log-service/src/lib.rs:524`) to the caller of `append_many`, whose own batch has not been written (`manifest_manager.rs:288`) |
| `LogWriter_append`, `LinkedOnce` without `retried` | `LinkedOnce` | the dirty log's `LogContentionRetry` makes a batch be written again that recovery has just linked (`writer.rs:747`) |
| `GarbageCollection_collect`, 2 writers, 3 batches, no fault | `AckedIsLinked` | without the waiting of step 6 of wal3's README, which the operator does not do, a lagging writer's acknowledged batch is not in the log (`delete_unused_logs.rs:133`) |
| the same, `CollectedIsTracked` without `removed` | `CollectedIsTracked` | that writer puts a fragment with a seq_no that was collected and deleted, and no garbage names it |
| `GarbageCollection_collect`, 2 collectors, 3 batches, no fault | `DeletesOnlyGarbage` | phase 3 deletes whatever `gc/GARBAGE` names when it runs, which need not be what phase 2 has applied (`writer.rs:917`) |
| `GarbageCollection_collect`, `CollectedIsTracked` without `abandoned` | `CollectedIsTracked` | a collector fails between phases 2 and 3; its garbage no longer applies to the manifest, the next phase 1 resets it (`writer.rs:809`) and its files are named nowhere. With two collectors it takes no failure. They are never read, but wal3's README (`Zero-Action Recovery`) expects the collector to find them |
| `BatchManager_batching`, `AppendAnswered` without its second disjunct | `AppendAnswered` | a queue longer than a batch can be left with no notify and no active write (`batch_manager.rs:199`) |
| `DirtyLog_roll`, `MaxFaults = 0` | `NothingWrittenSilently` | the mark of a collection's first write is dropped by a roll-up that finds neither cursor nor record, and the record is linked afterwards (`log-service/src/lib.rs:401`) |
| `DirtyLog_roll`, `UncompactedIsDirty` without `Lost` | `UncompactedIsDirty` | a fragment of the dirty log that cannot be read is skipped, and the cursor moves past it (`log-service/src/lib.rs:962`) |
| `DirtyLog_roll`, `MaxFaults = 2`, `NotAheadOfSysdb` without `unread` | `NotAheadOfSysdb` | a fragment with the first mark of a collection cannot be read, nor can its cursor: the rollup starts with a later mark, and that is what the compactor is told (`log-service/src/lib.rs:1041`) |
| `OpenLogs_shared` | `CollectedWhenDropped` | two handles that are dropped at once count each other, and the entry stays (`state_hash_table.rs:187`) |
| `VersionGC_collect` | `AllFilesKept` | a fork that a job could not see loses files it shares with a version that the job deletes |
| `VersionGC_collect`, `NothingLeaks` without `orphans` | `NothingLeaks` | an error of deleting a file is only logged (`delete_unused_files.rs:77`) |
| `VersionGC_collect`, `NothingStranded` without `interrupted` | `NothingStranded` | a job that fails after deleting versions leaves rows that no later job deletes (`garbage_collector_orchestrator_v2.rs:924`) |
| `VersionGC_collect`, 2 collections, 2 jobs, 3 compactions, no fault | `FilesKept` | an index that another job has deleted meanwhile is taken to have no blocks (`list_files_at_version.rs`) |
| `AttachedFunction_runs` | `RecordsAreNotMissed` | the item of a function that is not ready yet counts as done (`s3heap-service/src/scheduler.rs:46`), and the other three excuses above |

## The proofs

A module `X_proofs` holds the theorems about `X`, for every value of the
constants that satisfies the assumptions of `X`: any number of writers, callers,
collections, nodes, partitions or functions, and of faults. Every one of them
follows from an inductive invariant, called `IInv` in each module (`IInv /\ Extra`
for the refinement, `IInv /\ Extra /\ TreeOK` for the tree of snapshots, `GInv`,
`GInv /\ NInv` and `GInv /\ NInv /\ TInv` for collections), which was model-checked before it was proved. There
is one lemma per action; the header of each module gives the argument.
`LogService_proofs` is about `DirtyLog` and `OpenLogs`, whose definitions are
therefore named apart (`LogsInit`, `LogsSpec`, `LogsIInv` and so on);
`GarbageCollection_proofs` rests on lemmas of `LogWriter_proofs`.

| Module | Theorems | What the inductive invariant adds |
|---|---|---|
| `LogWriter_proofs` | `TypeCorrect`, `RecoveryFindsAll`, `AcksAreTrue`, `LinkedStays` | a writer that holds manifest version t writes no seq_no but t |
| `LogWriter_proofs`, the refinement | `Refinement`, `NoDuplicates`, `Marked` | there is at most one fragment of a batch; a manifest ends where its last fragment does |
| `LogWriter_proofs`, the tree | `ManifestsScrub`, `Readable` | every manifest and every stored snapshot cuts its part of the log into consecutive runs, deeper snapshots first |
| `GarbageCollection_proofs` | `NoPositionTwice`, `SetsumsBalance`, `NeededStays`, `NothingUntracked` | a manifest that may still be put ends where the log ends; garbage ends at or before the cursor; what any manifest, however old, has let go of is accounted for |
| `BatchManager_proofs` | `OneWrite`, `Accounted`, `Apart` | a failed write stays active; queue and batch are disjoint; a batch starts where the acknowledged ends |
| `LogService_proofs`, `OpenLogs` | `LogsTypeCorrect`, `OneState`, `OneWriter` | a handle that is held keeps its state in the table |
| `LogService_proofs`, `DirtyLog` | `StaysDirty`, `NotAhead` | cache <= cursor <= sysdb <= log; what a roll-up has read, with what it will append, covers what it lets go of |
| `Compactor_proofs` | `NoRecordSkipped`, `CursorNotAhead`, `OnlyForward` | what a job knows of a version was true when the version was current |
| `CompactOrchestrator_proofs` | `RegistersAll`, `RegistersNoMore` | the counters count the tasks in flight; what a partition holds is on its way to each segment or in it |
| `AttachedFunction_proofs` | `DueFunctionsRun`, `ItemsRun`, `OffsetsAdvance` | the two nonces are neighbours; tender and ending runs carry the item that replaces the one they use up |
| `VersionGC_proofs` | `FilesAreKept`, `NoLeaks`, `NoneStranded` | which files a job may still delete; no version outside its choice uses one of them; every file is found through an index that is there |

*LogWriter.* None of its properties is inductive: that the fragment a writer
links is the next one follows only from how the e_tag, the manifest it holds and
the seq_no it assigned are related. `IInv` says: every manifest that is put links
one more fragment, so the manifest of version t + 1 links the fragments 1..t, the
last of them directly (which is what `generate_snapshot` keeps a fragment back
for, so that the next seq_no can be read off); a writer whose manifest has
version t assigns the seq_no t and no other, and leaves that manifest only by
linking t or by throwing its state away; a manifest that is about to be put, or
in flight late, has version t and links 1..t; a fragment to be linked is in
storage. `AckedIsLinked` needs in addition that a writer which confirms
durability has its batch in storage (`ControlOK`): once it could open the log
with nothing to recover, `OneFragmentAhead` leaves no place for that fragment but
the linked part. (Not so if the durability came from the dirty log, which is what
`presumed` records.) The refinement of `AppendLog` needs that positions are
consecutive and that a writer which may still write its batch has no fragment of
it anywhere unless it is `retried`; both are statements about every fragment that is in storage or may
still get there.

*The tree.* `ManifestScrubs` and `LogIsReadable` are about sums over a tree of
snapshots and about what a walk of it returns. `TreeOK` says of every manifest that
storage, a writer or a late put holds (`Good`) that there are bounds 0 = b[0] < b[1]
< ... <= n such that its i-th snapshot stands for the fragments b[i-1]+1..b[i] of
the log, with their positions and their setsum, and its own fragments are the rest
(`Cut`); that the depths of its snapshots do not rise and no depth but the least
has as many as a roll-up takes (`Shape`); and of every stored snapshot that it
covers a run of the log in the same way and refers to stored snapshots of
smaller runs. From `Shape` follows what `generate_snapshot` takes: the last
`snapshot_rollover_threshold` snapshots, all of one depth (`RollupTakes`), so that
what is left has no gap and the new one fits behind it. From the bounds follows
the walk: the walk below a snapshot returns the run that it stands for, by
descent to a snapshot with the least run that it would not hold of. The recursive
functions (`Setsums`, `Walk`) are shown to satisfy their equations that way too.

*GarbageCollection.* With collectors a manifest no longer links 1..t, and nothing is left
of `IInv`: versions of the manifest do not count fragments, the left edge of the tree
is cut, and a snapshot may get the setsum of its only child, so that a name no longer
stands for one snapshot. `GInv` asks less. A conditional put goes through only if the
sender holds the current manifest, so nothing is asked of a manifest that is out of
date, only of one whose e_tag is still the current one (`MayStand`, `MayLink`): it
balances, its parts lie within the log, and the next seq_no and position that are
read off it, from its last fragment or, when nothing is left, from the initial ones
that the collection wrote, are those after the last fragment of the log (`Heads`).
That is kept by an append, by a roll-up, and by applying garbage (`apply_garbage`
keeps the fragments after the garbage, and what it puts for a snapshot that is cut
ends before the log does). From it follow `PositionsAreNotReused` and two of the three
parts of `SetsumsAccount`. `NInv` follows garbage from its computation to its deletion:
it ends at or before the cursor that the collector has read, and the cursor only
moves forward; and a fragment that a writer has uploaded and not yet linked lies
after the log, where no garbage reaches. So no collector deletes a record at or
after the cursor, in whichever phases others are, whatever they have replaced
`gc/GARBAGE` by, and however far writers lag behind (`NeededIsStored`, the first
part of `CursorKept`).

`CollectedIsTracked` needs more than the current manifest: a writer, a collector or a
late put may hold an older one, which becomes the current one's successor or the
start of new garbage. `TInv` says of every manifest there is that all seq_nos before
its first fragment are accounted for (`StartCovered`): named in `gc/GARBAGE`,
deleted before, or abandoned. What is accounted for stays so (`AccountGrows`),
because `gc/GARBAGE` is put only where an empty one was, under its e_tag, and
emptied only by a collector that has
deleted what it names, or that abandons it (`CollectorTracks`). New garbage starts
with the first fragment of the manifest that it was computed from, so that with
what is accounted for it leaves no gap, and a manifest to which it was applied is
covered too. No assumption on faults, on the number of collectors or on the timing
of writers is needed.

*BatchManager.* Positions are running totals over a batch, `Totals`, a recursive
function. Its equation and its monotony are proved for every queue with a
least counterexample instead of an induction principle.

*DirtyLog.* A roll-up works on marks that it read a while ago. Invariant are
what `need`, the roll-up and the marks still unread cover between them, and where
a mark that arrives meanwhile may start. The marks that were passed unread count
as covering (`lost`), and nothing is claimed of the start of a rollup once one of
its marks could not be read (`Sure`).

*AttachedFunction.* `NothingForgotten` is kept by whoever is about to use up a
wake-up: the tender, when it is about to save that it has read every mark, and a
run that is about to raise the lowest live nonce, each of them also while the
other one does the same (`AwakeOnceTended`, `AwakeOnceClosed`, `AwakeOnceBoth`). The
heap's part is that an item which is not done leaves its bucket only for a later
one of the same function, or is excused (`DropKeeps`).

*VersionGC.* A job reads version files in two steps, chooses versions, lists the
files that only they use, and deletes, while the collections are compacted,
forked and deleted. `FilesKept` says nothing of what a job is going to do, so the
invariant follows the files that may still go (`MayGo`): those that the version
files of the job refer to, unless a version in them that is to be kept does. A
version that is added meanwhile, and a fork, takes its files from the last version
of its source or makes new ones; the last version of a collection is never among
the chosen, so none of its files may go (`Untouched`), nor has one gone that a
later choice would need for telling what is in use (`Present`). `NothingLeaks` needs
the converse: a file in storage belongs to a version that is still there together
with the index that lists it (`Found`), and not to one that is going to be deleted
unless the file goes first (`Accounted`): so a job that fails between the deletion
of files and that of versions leaves nothing that the next one would not find.
`NothingStranded` needs that the soft-deleted
collections the job chose are closed under the forks it saw: a collection whose
last version has gone has a fork with versions below it, or its row is about to
be deleted (`Stranding`), or the job has failed meanwhile (`interrupted`).

Hypotheses of theorems beyond the assumptions of the modules. All other theorems
have none: whatever may fail in the model may fail in them.

* `ManifestsScrub` and `Readable`: no two runs of consecutive fragments of the log
  have the same setsum (`SetsumsDiffer`). The code relies on it: a snapshot is named
  by its setsum, `Snapshot::install` takes an object of that name for the snapshot,
  and `apply_snapshot` replaces by setsum. In the runs `Weight` provides for it;
* `NoPositionTwice`, `SetsumsBalance`, `NeededStays` and `NothingUntracked`: whenever
  `Garbage::new` succeeds on the manifest that a collector has read and its cutoff, what
  it returns starts with the first fragment of that manifest, ends with a fragment of
  the log, at or before the cutoff, and has at most one snapshot for the root
  (`ComputesRuns`). This is about a walk down the tree and is checked as the first
  part of `DeletesOnlyGarbage`, and by itself also with two collectors and with two
  writers (3 batches, one round, no fault);
* `FilesAreKept`, `NoLeaks` and `NoneStranded`: a tree has one job at a time, a manual
  request is for the root of its tree, and at least one version of a live
  collection is kept (`OneCollector`). The disagreements above show that the first two
  are needed; the third is how the collector is configured, and with 0 a job may
  choose the version that is read.

`RollupIndices` and the like are used through what they return, proved once as
lemmas about `Manifest`; finiteness and cardinality, sequences and the
well-foundedness of the naturals come from the library.

Only model-checked:

* liveness (`AppendReturns`, `AppendAnswered`, `FlusherStops`, `EventuallyCompacted`,
  `BackpressureLifts`, `LogsAreClosed`, `TerminatesIfUniform`): fairness is out of the
  prover's reach;
* of `GarbageCollection` what is about the tree below the manifest: `LiveLogIsReadable`,
  that the manifest leads to the records which `CursorKept` is about, the setsum of what
  was collected in `SetsumsAccount`, `DeletesOnlyGarbage` with `ComputesRuns`. For the
  reason given above `TreeOK` does not carry over as it is.

## What is not modelled

Of the modelled components: an append and a phase 2 request at once on one
`ManifestManager`, several callers of one `LogWriter` at different epochs, cursors
that move back, forks of logs (`copy.rs`), deletion of logs (`destroy.rs`), u64
overflow of positions, requests to rebuild, the creation of output collections,
shards of the heap, HNSW prefixes,
clocks that disagree. The branch of `generate_snapshot` that takes up a shallower
first snapshot is translated, but while a log only grows and thresholds are
constant no tree needs it (`RollupTakes`).

Of the rest of the repository: most of its lines are indexes, file formats and
numerical kernels (`index`, `segment`, `blockstore`, `distance`), data types,
validation and query execution (`types`, `frontend`, the operators of `worker`),
SQL and its clients, the Python and JavaScript packages. They keep no state that
several processes share, or they are data transformations whose inputs have no
useful small instances. The reasons are given by component in `PROJECT.json`.
`storage/src/admissioncontrolleds3.rs`, `mdac` and the dispatcher of `system` do
have concurrency of their own and are left out as secondary: they delay or
repeat requests, which the modules above take to happen anyway.

## Plan

1. `Manifest`, `LogWriter`, `AppendLog`; proofs of the core. Done.
2. `Garbage`, `GarbageCollection`; `BatchManager`. Done.
3. `DirtyLog`, `OpenLogs`. Done.
4. `Compactor`, `CompactOrchestrator`. Done.
5. `VersionGC`; `AttachedFunction`. Done.
6. Proofs: the safety properties of `LogWriter` and its refinement of `AppendLog`,
   of `BatchManager`, `OpenLogs`, `DirtyLog`, `Compactor`, `CompactOrchestrator`,
   `AttachedFunction` and `VersionGC`; the tree of snapshots of `LogWriter`; positions
   and records under `GarbageCollection`. Done. Next: its tree.
7. `ManifestManager` with appends and phase 2 on one `Staging`; fork of a log
   against its collection; the coalescing of reads in storage.

------------------------------ MODULE DirtyLog ------------------------------
(***************************************************************************)
(* The dirty log of one log server.                                        *)
(*                                                                         *)
(* Before a write is linked into the log of a collection, a mark for it is *)
(* appended to the dirty log.  A background task rolls the dirty log up:   *)
(* it reads the marks after the STABLE_PREFIX cursor, coalesces them by    *)
(* collection, drops the collections whose COMPACTION cursor has caught    *)
(* up, appends the others again and moves the STABLE_PREFIX cursor past    *)
(* what it has read.  What is left is what the compactor is told of, and   *)
(* collections with too much left are under backpressure.                  *)
(*                                                                         *)
(* Translated from rust/log-service/src/lib.rs.                            *)
(*                                                                         *)
(*  - The dirty log is the set of the markers after the STABLE_PREFIX      *)
(*    cursor: coalescing does not depend on their order.  The ones that    *)
(*    the roll-up under way has read are kept apart, in window, and the    *)
(*    ones before them that it could not read, in skipped.  Cleared marks  *)
(*    nothing and is left out.                                             *)
(*  - A collection's log holds the positions below next_write.  Each write *)
(*    is of one record.                                                    *)
(*  - Position 0 stands for a cursor that does not exist.                  *)
(*  - A collection is selected for compaction by the size of its rollup or *)
(*    by its reinsert count, not by the clock (initial_insertion_epoch_us, *)
(*    timeout_us).                                                         *)
(*  - The compactor and sysdb, which Compactor models, are reduced to what *)
(*    they do to this server: compacted is sysdb's log position + 1.       *)
(***************************************************************************)
EXTENDS Integers, Sequences, FiniteSets, SequencesExt, FiniteSetsExt

CONSTANTS
    Collections,
    MaxRecords,       \* [Collections -> Nat], bound: how many records a log gets
    MaxFaults,        \* bound: how many crashes and failing calls there are
    min_compaction_size,
    reinsert_threshold,
    num_records_before_backpressure

ASSUME DirtyLogAssumption ==
    /\ MaxRecords \in [Collections -> Nat] /\ MaxFaults \in Nat
    /\ min_compaction_size \in Nat \ {0}
    /\ reinsert_threshold \in Nat \ {0}
    /\ num_records_before_backpressure \in Nat \ {0}

VARIABLES
    \* Storage.
    window,           \* the dirty log from STABLE_PREFIX on: what roll has read,
    skipped,          \* what it could not read,
    dirty,            \* and what comes after it
    next_write,       \* per collection: the manifest's next_write_timestamp
    cursor,           \* per collection: the COMPACTION cursor
    compacted,        \* per collection: sysdb's log position + 1
    deleted,          \* the collections that sysdb has no more
    known,            \* the ones that had a COMPACTION cursor from the start
    \* Memory of the log server.
    cache,            \* per collection: the cursor in the cache
    backpressure,
    need_to_compact,
    roll,             \* the roll-up under way
    write,            \* per collection: its push_logs call
    update,           \* per collection: its update_collection_log_offset call
    \* Bookkeeping.
    lost,             \* the markers that STABLE_PREFIX has passed unread
    unread,           \* the collections with a marker that could not be read
    faults

unreadable == <<skipped, lost, unread>>
storage == <<window, dirty, unreadable, next_write, cursor, compacted, deleted, known>>
memory == <<cache, backpressure, need_to_compact>>
vars == <<storage, memory, roll, write, update, faults>>

Positions == 1..Max({MaxRecords[c] : c \in Collections}) + 1
Rollups == [start : Positions, limit : Positions, reinsert_count : 0..reinsert_threshold]
MarkDirty == [type : {"mark"}, collection : Collections, start : Positions,
              limit : Positions, reinsert_count : 0..reinsert_threshold]
Purge == [type : {"purge"}, collection : Collections]

Idle == [pc |-> "idle"]
none == [c \in {} |-> 0]

Init ==
    /\ window = {} /\ skipped = {} /\ dirty = {}
    /\ lost = {} /\ unread = {}
    /\ next_write = [c \in Collections |-> 1]
    /\ known \in SUBSET Collections
    /\ cursor = [c \in Collections |-> IF c \in known THEN 1 ELSE 0]
    /\ compacted = [c \in Collections |-> 1]
    /\ deleted = {}
    /\ cache = [c \in Collections |-> 0]
    /\ backpressure = {}
    /\ need_to_compact = none
    /\ roll = Idle
    /\ write = [c \in Collections |-> "idle"]
    /\ update = [c \in Collections |-> "idle"]
    /\ faults = 0

-----------------------------------------------------------------------------
(* RollupPerCollection.                                                    *)

is_empty(rollup) == rollup.start >= rollup.limit

requires_backpressure(rollup) ==
    rollup.limit - rollup.start >= num_records_before_backpressure

(* Mutant: the reinsert count is not counted up.                           *)
dirty_marker_again(c, rollup) ==
    [type |-> "mark", collection |-> c, start |-> rollup.start, limit |-> rollup.limit,
     reinsert_count |-> rollup.reinsert_count]

(* The count is capped at the threshold it is compared with.               *)
dirty_marker(c, rollup) ==
    [type |-> "mark", collection |-> c, start |-> rollup.start, limit |-> rollup.limit,
     reinsert_count |-> Min({rollup.reinsert_count + 1, reinsert_threshold})]

(* Mutant: the cursor is taken for the last position compacted.            *)
witness_cursor_after(rollup, position) ==
    [rollup EXCEPT !.start = position + 1, !.limit = Max({rollup.limit, position + 1})]

witness_cursor(rollup, position) ==
    [rollup EXCEPT !.start = position, !.limit = Max({rollup.limit, position})]

witness_manifest(rollup, c) == [rollup EXCEPT !.start = 1, !.limit = next_write[c]]

(* RollupPerCollection::new and observe_dirty_marker for each mark; a      *)
(* Purge forgets its collection.                                           *)
coalesce_markers(markers) ==
    LET marks(c) == {m \in markers : m.type = "mark" /\ m.collection = c}
        forget == {m.collection : m \in {p \in markers : p.type = "purge"}}
        dirtied == {c \in Collections : marks(c) # {}} \ forget
    IN [c \in dirtied |->
           [start |-> Min({m.start : m \in marks(c)}),
            limit |-> Max({m.limit : m \in marks(c)}),
            reinsert_count |-> Max({m.reinsert_count : m \in marks(c)})]]

-----------------------------------------------------------------------------
(* push_logs: a mark is appended to the dirty log, then the fragment is    *)
(* linked into the manifest of the collection (LogWriter models how).      *)

MarkWrite(c) ==
    /\ write[c] = "idle"
    /\ c \notin backpressure
    /\ next_write[c] <= MaxRecords[c]
    /\ dirty' = dirty \cup {[type |-> "mark", collection |-> c, start |-> next_write[c],
                              limit |-> next_write[c] + 1, reinsert_count |-> 0]}
    /\ write' = [write EXCEPT ![c] = "marked"]
    /\ UNCHANGED <<window, unreadable, next_write, cursor, compacted, deleted, known,
                   memory, roll, update, faults>>

Link(c) ==
    /\ write[c] = "marked"
    /\ next_write' = [next_write EXCEPT ![c] = @ + 1]
    /\ write' = [write EXCEPT ![c] = "idle"]
    /\ UNCHANGED <<window, dirty, unreadable, cursor, compacted, deleted, known, memory,
                   roll, update, faults>>

(* The write fails between the two.                                        *)
FailWrite(c) ==
    /\ write[c] = "marked" /\ faults < MaxFaults
    /\ write' = [write EXCEPT ![c] = "idle"]
    /\ faults' = faults + 1
    /\ UNCHANGED <<storage, memory, roll, update>>

-----------------------------------------------------------------------------
(* roll_dirty_log.  The mutex rolling_up admits one at a time.             *)

(* read_and_coalesce_dirty_log.  A fragment that cannot be read is logged  *)
(* and left out; last_record_witnessed is the last position that was read, *)
(* so that markers which were not read may lie before it.                  *)
ReadDirtyLog ==
    /\ roll = Idle
    /\ \E failed \in SUBSET dirty, after \in SUBSET dirty :
          LET rollups == coalesce_markers(dirty \ failed)
          IN /\ after \subseteq failed
             /\ failed = {} \/ faults < MaxFaults
             /\ faults' = IF failed = {} THEN faults ELSE faults + 1
             /\ unread' = unread \cup {m.collection : m \in failed}
             /\ \/ /\ rollups = none
                   /\ backpressure' = {}
                   /\ need_to_compact' = none
                   /\ UNCHANGED <<window, skipped, dirty, roll>>
                \/ /\ rollups # none
                   /\ window' = dirty \ failed
                   /\ skipped' = failed \ after
                   /\ dirty' = after
                   /\ roll' = [pc |-> "enrich", rollups |-> rollups, todo |-> DOMAIN rollups,
                               loaded |-> none]
                   /\ UNCHANGED <<backpressure, need_to_compact>>
    /\ UNCHANGED <<next_write, cursor, compacted, deleted, known, lost, cache, write,
                   update>>

(* The rollup of c is replaced, or dropped when it is empty.               *)
Enriched(c, rollup) ==
    LET kept == IF is_empty(rollup) THEN DOMAIN roll.rollups \ {c} ELSE DOMAIN roll.rollups
    IN [roll EXCEPT !.todo = @ \ {c},
                    !.loaded = [d \in DOMAIN @ \ {c} |-> @[d]],
                    !.rollups = [d \in kept |-> IF d = c THEN rollup ELSE @[d]]]

Enriching(c) == roll.pc = "enrich" /\ c \in roll.todo

(* The cursor is in the cache.                                             *)
EnrichFromCache(c) ==
    /\ Enriching(c) /\ c \notin DOMAIN roll.loaded
    /\ cache[c] # 0
    /\ roll' = Enriched(c, witness_cursor(roll.rollups[c], cache[c]))
    /\ UNCHANGED <<storage, memory, write, update, faults>>

(* The cursor is loaded from storage ...                                   *)
LoadCursor(c) ==
    /\ Enriching(c) /\ c \notin DOMAIN roll.loaded
    /\ cache[c] = 0
    /\ roll' = [roll EXCEPT !.loaded = [d \in DOMAIN @ \cup {c} |->
                                           IF d = c THEN cursor[c] ELSE @[d]]]
    /\ UNCHANGED <<storage, memory, write, update, faults>>

(* ... and put into the cache, ...                                         *)
EnrichFromCursor(c) ==
    /\ Enriching(c) /\ c \in DOMAIN roll.loaded /\ roll.loaded[c] # 0
    /\ cache' = [cache EXCEPT ![c] = roll.loaded[c]]
    /\ roll' = Enriched(c, witness_cursor(roll.rollups[c], roll.loaded[c]))
    /\ UNCHANGED <<storage, backpressure, need_to_compact, write, update, faults>>

(* ... or there is none, and the manifest is loaded.                       *)
EnrichFromManifest(c) ==
    /\ Enriching(c) /\ c \in DOMAIN roll.loaded /\ roll.loaded[c] = 0
    /\ roll' = Enriched(c, witness_manifest(roll.rollups[c], c))
    /\ UNCHANGED <<storage, memory, write, update, faults>>

(* Nothing can be loaded, and the rollup stays as it is.                   *)
FailEnrich(c) ==
    /\ Enriching(c) /\ faults < MaxFaults
    /\ roll' = Enriched(c, roll.rollups[c])
    /\ faults' = faults + 1
    /\ UNCHANGED <<storage, memory, write, update>>

(* What save_dirty_log appends: a marker for each rollup that is left.     *)
Markers == {dirty_marker(c, roll.rollups[c]) : c \in DOMAIN roll.rollups}

(* save_dirty_log: the markers are appended, ...                           *)
AppendMarkers ==
    /\ roll.pc = "enrich" /\ roll.todo = {}
    /\ dirty' = dirty \cup Markers
    /\ roll' = [roll EXCEPT !.pc = "save"]
    /\ UNCHANGED <<window, unreadable, next_write, cursor, compacted, deleted, known,
                   memory, write, update, faults>>

(* The STABLE_PREFIX cursor moves past what was read.                      *)
PassWindow ==
    /\ window' = {} /\ skipped' = {}
    /\ lost' = lost \cup skipped

(* Mutant: the cursor moves to where the markers were appended.            *)
SaveAppendedPosition ==
    /\ roll.pc = "save"
    /\ PassWindow
    /\ dirty' = Markers
    /\ roll' = [roll EXCEPT !.pc = "swap"]
    /\ UNCHANGED <<next_write, cursor, compacted, deleted, known, unread, memory, write,
                   update, faults>>

(* ... the STABLE_PREFIX cursor is moved past what was read, ...           *)
SaveStablePrefix ==
    /\ roll.pc = "save"
    /\ PassWindow
    /\ roll' = [roll EXCEPT !.pc = "swap"]
    /\ UNCHANGED <<dirty, next_write, cursor, compacted, deleted, known, unread, memory,
                   write, update, faults>>

(* Mutant: backpressure is only ever added.                                *)
AddBackpressure ==
    /\ roll.pc = "swap"
    /\ backpressure' = backpressure \cup
                       {c \in DOMAIN roll.rollups : requires_backpressure(roll.rollups[c])}
    /\ need_to_compact' = roll.rollups
    /\ roll' = Idle
    /\ UNCHANGED <<storage, cache, write, update, faults>>

(* ... and what was found replaces backpressure and need_to_compact.       *)
SwapRollups ==
    /\ roll.pc = "swap"
    /\ backpressure' = {c \in DOMAIN roll.rollups : requires_backpressure(roll.rollups[c])}
    /\ need_to_compact' = roll.rollups
    /\ roll' = Idle
    /\ UNCHANGED <<storage, cache, write, update, faults>>

(* Nothing has moved the STABLE_PREFIX cursor.                             *)
KeepWindow(more) ==
    /\ window' = {} /\ skipped' = {}
    /\ dirty' = window \cup skipped \cup dirty \cup more
    /\ UNCHANGED lost

(* A call of the roll-up fails.  It may have taken effect.                 *)
FailRoll ==
    /\ faults < MaxFaults
    /\ \/ roll.pc = "enrich" /\ roll.todo = {} /\ (KeepWindow({}) \/ KeepWindow(Markers))
       \/ roll.pc = "save" /\ KeepWindow({})
       \/ roll.pc = "save" /\ PassWindow /\ UNCHANGED dirty
    /\ roll' = Idle
    /\ faults' = faults + 1
    /\ UNCHANGED <<next_write, cursor, compacted, deleted, known, unread, memory, write,
                   update>>

-----------------------------------------------------------------------------
(* The compactor, and update_collection_log_offset, which it calls.        *)

(* cached_get_all_collection_info_to_compact.                              *)
selected(c) ==
    /\ c \in DOMAIN need_to_compact
    /\ \/ need_to_compact[c].limit - need_to_compact[c].start >= min_compaction_size
       \/ need_to_compact[c].reinsert_count >= reinsert_threshold

(* A whole compaction: some of what is in the log is registered in sysdb;  *)
(* if nothing is left to compact, the log's offset is repaired.            *)
Compact(c) ==
    /\ selected(c) /\ update[c] = "idle" /\ c \notin deleted
    /\ \E p \in compacted[c]..next_write[c] :
          /\ p = compacted[c] => p = next_write[c]
          /\ compacted' = [compacted EXCEPT ![c] = p]
    /\ update' = [update EXCEPT ![c] = "save"]
    /\ UNCHANGED <<window, dirty, unreadable, next_write, cursor, deleted, known,
                   memory, roll, write, faults>>

(* The cursor is loaded, and saved unless it is ahead, ...                 *)
SaveCompactionCursor(c) ==
    /\ update[c] = "save"
    /\ \/ /\ cursor[c] > compacted[c]
          /\ update' = [update EXCEPT ![c] = "idle"]
          /\ UNCHANGED cursor
       \/ /\ cursor[c] <= compacted[c]
          /\ update' = [update EXCEPT ![c] = "cache"]
          /\ cursor' = [cursor EXCEPT ![c] = compacted[c]]
    /\ UNCHANGED <<window, dirty, unreadable, next_write, compacted, deleted, known,
                   memory, roll, write, faults>>

(* ... put into the cache, ...                                             *)
CacheCompactionCursor(c) ==
    /\ update[c] = "cache"
    /\ cache' = [cache EXCEPT ![c] = compacted[c]]
    /\ update' = [update EXCEPT ![c] = "need"]
    /\ UNCHANGED <<storage, backpressure, need_to_compact, roll, write, faults>>

(* ... and the collection's rollup shrinks.                                *)
ShrinkRollup(c) ==
    /\ update[c] = "need"
    /\ IF c \in DOMAIN need_to_compact
       THEN LET rollup == [need_to_compact[c] EXCEPT !.start = Max({@, compacted[c]})]
                kept == IF is_empty(rollup) THEN DOMAIN need_to_compact \ {c}
                        ELSE DOMAIN need_to_compact
            IN need_to_compact' = [d \in kept |->
                                      IF d = c THEN rollup ELSE need_to_compact[d]]
       ELSE UNCHANGED need_to_compact
    /\ update' = [update EXCEPT ![c] = "idle"]
    /\ UNCHANGED <<storage, cache, backpressure, roll, write, faults>>

(* The collection is deleted from sysdb ...                                *)
Delete(c) ==
    /\ c \notin deleted
    /\ deleted' = deleted \cup {c}
    /\ UNCHANGED <<window, dirty, unreadable, next_write, cursor, compacted, known,
                   memory, roll, write, update, faults>>

(* ... which the compactor learns when it wants to compact it:             *)
(* purge_dirty_for_collection.                                             *)
PurgeDirty(c) ==
    /\ selected(c) /\ c \in deleted
    /\ dirty' = dirty \cup {[type |-> "purge", collection |-> c]}
    /\ UNCHANGED <<window, unreadable, next_write, cursor, compacted, deleted, known,
                   memory, roll, write, update, faults>>

-----------------------------------------------------------------------------
(* The log server stops and starts again.  The cache is persistent, and    *)
(* may or may not still hold what was put into it.                         *)
Crash ==
    /\ faults < MaxFaults
    /\ faults' = faults + 1
    /\ \E kept \in SUBSET Collections :
          cache' = [c \in Collections |-> IF c \in kept THEN cache[c] ELSE 0]
    /\ backpressure' = {}
    /\ need_to_compact' = none
    /\ roll' = Idle
    /\ write' = [c \in Collections |-> "idle"]
    /\ update' = [c \in Collections |-> "idle"]
    /\ KeepWindow({})
    /\ UNCHANGED <<next_write, cursor, compacted, deleted, known, unread>>

RollStep ==
    \/ ReadDirtyLog
    \/ AppendMarkers
    \/ SaveStablePrefix
    \/ SwapRollups

EnrichStep(c) ==
    \/ EnrichFromCache(c)
    \/ LoadCursor(c)
    \/ EnrichFromCursor(c)
    \/ EnrichFromManifest(c)

UpdateStep(c) ==
    \/ SaveCompactionCursor(c)
    \/ CacheCompactionCursor(c)
    \/ ShrinkRollup(c)

Next ==
    \/ RollStep
    \/ FailRoll
    \/ Crash
    \/ \E c \in Collections :
          \/ MarkWrite(c)
          \/ Link(c)
          \/ FailWrite(c)
          \/ EnrichStep(c)
          \/ FailEnrich(c)
          \/ Compact(c)
          \/ UpdateStep(c)
          \/ Delete(c)
          \/ PurgeDirty(c)

Spec == Init /\ [][Next]_vars

(* background_task rolls the dirty log up for ever, calls that have begun  *)
(* go on, and the compactor asks for work periodically and takes what it   *)
(* is given.                                                               *)
Fairness ==
    /\ WF_vars(RollStep)
    /\ \A c \in Collections :
          /\ WF_vars(EnrichStep(c))
          /\ WF_vars(Link(c))
          /\ WF_vars(UpdateStep(c))
          /\ WF_vars(Compact(c))
          /\ WF_vars(PurgeDirty(c))

FairSpec == Spec /\ Fairness

-----------------------------------------------------------------------------
(* Properties.                                                             *)

(* The values the variables take.                                          *)
TypeOK ==
    /\ window \cup skipped \cup dirty \cup lost \subseteq MarkDirty \cup Purge
    /\ unread \subseteq Collections
    /\ next_write \in [Collections -> Positions]
    /\ cursor \in [Collections -> Positions \cup {0}]
    /\ compacted \in [Collections -> Positions]
    /\ deleted \subseteq Collections /\ known \subseteq Collections
    /\ cache \in [Collections -> Positions \cup {0}]
    /\ backpressure \subseteq Collections
    /\ DOMAIN need_to_compact \subseteq Collections
    /\ \A c \in DOMAIN need_to_compact : need_to_compact[c] \in Rollups
    /\ roll.pc \in {"idle", "enrich", "save", "swap"}
    /\ write \in [Collections -> {"idle", "marked"}]
    /\ update \in [Collections -> {"idle", "save", "cache", "need"}]
    /\ faults \in 0..MaxFaults

(* One of the markers reaches the end of the log of c.                     *)
Reached(c, markers) ==
    \E m \in markers : m.type = "mark" /\ m.collection = c /\ m.limit >= next_write[c]

(* A mark after the STABLE_PREFIX cursor covers what the log of c holds,   *)
(* or that mark was in a fragment which a roll-up could not read and       *)
(* passed.                                                                 *)
Marked(c) == Reached(c, window \cup skipped \cup dirty)
Lost(c) == Reached(c, lost)

(* A record that is linked and not compacted is found by the next roll-up: *)
(* the dirty log still holds a mark that reaches it, whatever roll-ups,    *)
(* compactions, crashes and failing calls happened since it was marked     *)
(* (save_dirty_log appends before it moves the cursor; witness_cursor and  *)
(* the conditional cursors only let go of what was compacted).  The one    *)
(* exception is a mark that could not be read and was passed all the same  *)
(* (read_and_coalesce_dirty_log), until the next write to the collection   *)
(* makes up for it.  For the collections that have been compacted before.  *)
UncompactedIsDirty ==
    \A c \in known \ deleted : cursor[c] < next_write[c] => Marked(c) \/ Lost(c)

(* The same for all collections, the ones never compacted included:        *)
(* "it is better to reject writes than to silently write data that will    *)
(* never be accounted for by billing or compaction" (ensure_write_mode).   *)
NothingWrittenSilently ==
    \A c \in Collections \ deleted :
        Max({cursor[c], 1}) < next_write[c] => Marked(c) \/ Lost(c)

(* What the server tells the compactor starts no later than the first      *)
(* record that is not compacted: the scheduler panics when sysdb is behind *)
(* the log's offset, so a cache that is filled while the cursor moves must *)
(* not make the start run ahead (enrich_dirty_log, cache).  Not so for a   *)
(* collection with a mark that could not be read: the others may start     *)
(* later, and if the cursor cannot be loaded either, that is what the      *)
(* compactor is told.                                                      *)
NotAheadOfSysdb ==
    \A c \in (known \ (deleted \cup unread)) \cap DOMAIN need_to_compact :
        need_to_compact[c].start <= compacted[c]

(* What is linked is compacted in the end, a single record too: it is      *)
(* selected once it has been reinserted often enough.  (Or its mark was    *)
(* lost, or the collection is deleted.)                                    *)
EventuallyCompacted ==
    \A c \in Collections :
        (c \in known /\ cursor[c] < next_write[c]) ~>
            (cursor[c] = next_write[c] \/ c \in deleted \/ Lost(c))

(* Backpressure is lifted in the end: the roll-up that follows a           *)
(* compaction replaces it, and purged collections drop out of it.          *)
BackpressureLifts ==
    \A c \in Collections : c \in backpressure ~> c \notin backpressure

=============================================================================

------------------------------ MODULE OpenLogs ------------------------------
(***************************************************************************)
(* The open logs of a log server.                                          *)
(*                                                                         *)
(* A call of the server takes a handle on the state of its collection from *)
(* a StateHashTable, locks the state and shares the LogWriter in it or     *)
(* opens one.  A task that is spawned with each writer closes it when it   *)
(* has not been used for a while.  The state leaves the table with its     *)
(* last handle, which is told by the reference count of the state.         *)
(*                                                                         *)
(* Translated from rust/log-service/src/state_hash_table.rs and from       *)
(* ActiveLog and get_log_from_handle in rust/log-service/src/lib.rs.       *)
(*                                                                         *)
(*  - One key: different keys share nothing but the lock of the table.     *)
(*  - A state, a writer and a task are named after the call that made them.*)
(*  - A call has one handle.  (update_collection_log_offset takes a second *)
(*    one while it holds the first.)                                       *)
(*  - LogStub::finished() is always true.                                  *)
(***************************************************************************)
EXTENDS Naturals, FiniteSets

CONSTANTS
    Calls,      \* push_logs, update_collection_log_offset, garbage_collect_phase2
                \* and the roll-up's look at a cursor, each called once
    None

ASSUME OpenLogsAssumption == IsFiniteSet(Calls) /\ None \notin Calls

VARIABLES
    entries,    \* the state in the table
    stub,       \* ActiveLog of each state: its log, whether collect_after is in
                \* the future, and its epoch
    mutex,      \* who holds the mutex of each state
    pc,         \* what a call or a task is about to do
    handle,     \* the state that a call or a task has a handle on
    writer,     \* the LogRef of each call
    epoch,      \* the epoch that each task was spawned in
    outlived    \* calls whose writer was closed while they used it

logs_vars == <<entries, stub, mutex, pc, handle, writer, epoch, outlived>>

(* Who holds handles: the calls and the tasks.                             *)
Call(c) == <<"call", c>>
TaskOf(c) == <<"task", c>>
Holders == {"call", "task"} \X Calls

ActiveLog == [log : Calls \cup {None}, alive : BOOLEAN, epoch : Nat]

LogsInit ==
    /\ entries = None
    /\ stub = [v \in Calls |-> [log |-> None, alive |-> FALSE, epoch |-> 0]]
    /\ mutex = [v \in Calls |-> None]
    /\ pc = [h \in Holders |-> IF h[1] = "call" THEN "idle" ELSE "none"]
    /\ handle = [h \in Holders |-> None]
    /\ writer = [c \in Calls |-> None]
    /\ epoch = [c \in Calls |-> 0]
    /\ outlived = {}

-----------------------------------------------------------------------------
(* StateHashTable and Handle.                                              *)

(* get_or_create_state, when there is a state, ...                         *)
GetState(c) ==
    /\ pc[Call(c)] \in {"idle", "miss"} /\ entries # None
    /\ handle' = [handle EXCEPT ![Call(c)] = entries]
    /\ pc' = [pc EXCEPT ![Call(c)] = "wait"]
    /\ UNCHANGED <<entries, stub, mutex, writer, epoch, outlived>>

(* ... when there is none, and the lock is given up to make one, ...       *)
Miss(c) ==
    /\ pc[Call(c)] = "idle" /\ entries = None
    /\ pc' = [pc EXCEPT ![Call(c)] = "miss"]
    /\ UNCHANGED <<entries, stub, mutex, handle, writer, epoch, outlived>>

(* ... and when there still is none.                                       *)
CreateState(c) ==
    /\ pc[Call(c)] = "miss" /\ entries = None
    /\ entries' = c
    /\ handle' = [handle EXCEPT ![Call(c)] = c]
    /\ pc' = [pc EXCEPT ![Call(c)] = "wait"]
    /\ UNCHANGED <<stub, mutex, writer, epoch, outlived>>

strong_count(v) ==
    Cardinality({h \in Holders : handle[h] = v}) + IF entries = v THEN 1 ELSE 0

(* Mutant: the table lets go of a state as soon as it is finished.         *)
only_finished(v) == TRUE

(* Us and the table.                                                       *)
is_last(v) == strong_count(v) = 2

(* Drop for Handle: what is done with the lock of the table held, ...      *)
DropHandle(h) ==
    /\ pc[h] = "drop"
    /\ entries' = IF is_last(handle[h]) THEN None ELSE entries
    /\ pc' = [pc EXCEPT ![h] = "release"]
    /\ UNCHANGED <<stub, mutex, handle, writer, epoch, outlived>>

(* ... and the drop of the reference itself, after the lock.               *)
ReleaseValue(h) ==
    /\ pc[h] = "release"
    /\ handle' = [handle EXCEPT ![h] = None]
    /\ pc' = [pc EXCEPT ![h] = "done"]
    /\ UNCHANGED <<entries, stub, mutex, writer, epoch, outlived>>

-----------------------------------------------------------------------------
(* get_log_from_handle.                                                    *)

(* Mutant: the mutex is not held while the log is opened.                  *)
unguarded(v) == TRUE

unlocked(v) == mutex[v] = None

Lock(c, state) ==
    /\ pc[Call(c)] = "wait" /\ unlocked(handle[Call(c)])
    /\ pc' = [pc EXCEPT ![Call(c)] = state]

(* The log is open: it is kept alive and shared.                           *)
ShareLog(c) ==
    LET v == handle[Call(c)] IN
    /\ Lock(c, "use")
    /\ stub[v].log # None
    /\ stub' = [stub EXCEPT ![v].alive = TRUE]
    /\ writer' = [writer EXCEPT ![c] = stub[v].log]
    /\ UNCHANGED <<entries, mutex, handle, epoch, outlived>>

(* It is not: open_or_initialize is called with the mutex held, ...        *)
OpenLog(c) ==
    LET v == handle[Call(c)] IN
    /\ Lock(c, "open")
    /\ stub[v].log = None
    /\ mutex' = [mutex EXCEPT ![v] = c]
    /\ UNCHANGED <<entries, stub, handle, writer, epoch, outlived>>

(* Mutant: no task is spawned.                                             *)
LogOpenedUnwatched(c) ==
    LET v == handle[Call(c)] IN
    /\ pc[Call(c)] = "open"
    /\ stub' = [stub EXCEPT ![v].log = c, ![v].alive = TRUE]
    /\ mutex' = [mutex EXCEPT ![v] = None]
    /\ writer' = [writer EXCEPT ![c] = c]
    /\ pc' = [pc EXCEPT ![Call(c)] = "use"]
    /\ UNCHANGED <<entries, handle, epoch, outlived>>

(* ... and the task is spawned, with a clone of the handle.                *)
LogOpened(c) ==
    LET v == handle[Call(c)] IN
    /\ pc[Call(c)] = "open"
    /\ stub' = [stub EXCEPT ![v].log = c, ![v].alive = TRUE]
    /\ mutex' = [mutex EXCEPT ![v] = None]
    /\ writer' = [writer EXCEPT ![c] = c]
    /\ handle' = [handle EXCEPT ![TaskOf(c)] = v]
    /\ epoch' = [epoch EXCEPT ![c] = stub[v].epoch]
    /\ pc' = [pc EXCEPT ![Call(c)] = "use", ![TaskOf(c)] = "watch"]
    /\ UNCHANGED <<entries, outlived>>

(* enrich_dirty_log only looks at the cursor, with the mutex held.         *)
LookAtCursor(c) ==
    /\ Lock(c, "look")
    /\ mutex' = [mutex EXCEPT ![handle[Call(c)]] = c]
    /\ UNCHANGED <<entries, stub, handle, writer, epoch, outlived>>

(* The handler returns or is dropped: the mutex, if it is held, and the    *)
(* LogRef go before the handle.                                            *)
Leave(c) ==
    /\ pc' = [pc EXCEPT ![Call(c)] = "drop"]
    /\ mutex' = [v \in Calls |-> IF mutex[v] = c THEN None ELSE mutex[v]]
    /\ writer' = [writer EXCEPT ![c] = None]
    /\ UNCHANGED <<entries, stub, handle, epoch, outlived>>

Return(c) == pc[Call(c)] \in {"use", "look"} /\ Leave(c)

(* The log cannot be opened, or the caller has gone.                       *)
GiveUp(c) == pc[Call(c)] \in {"wait", "open"} /\ Leave(c)

-----------------------------------------------------------------------------
(* The task that watches collect_after.                                    *)

(* Time passes.                                                            *)
Expire(v) ==
    /\ stub[v].alive
    /\ stub' = [stub EXCEPT ![v].alive = FALSE]
    /\ UNCHANGED <<entries, mutex, pc, handle, writer, epoch, outlived>>

(* The task wakes up and takes the mutex.  It closes the log and ends when *)
(* collect_after has passed, only ends when the log is not the one it was  *)
(* spawned for, and otherwise sleeps again.                                *)
Watch(c) ==
    LET v == handle[TaskOf(c)]
        expired == ~stub[v].alive
    IN
    /\ pc[TaskOf(c)] = "watch" /\ unlocked(v)
    /\ expired \/ stub[v].epoch # epoch[c]
    /\ stub' = IF expired THEN [stub EXCEPT ![v].log = None, ![v].epoch = @ + 1] ELSE stub
    /\ outlived' = outlived \cup
          IF expired THEN {d \in Calls : writer[d] # None /\ writer[d] = stub[v].log} ELSE {}
    /\ pc' = [pc EXCEPT ![TaskOf(c)] = "drop"]
    /\ UNCHANGED <<entries, mutex, handle, writer, epoch>>

CallStep(c) ==
    \/ GetState(c)
    \/ Miss(c)
    \/ CreateState(c)
    \/ ShareLog(c)
    \/ OpenLog(c)
    \/ LogOpened(c)
    \/ LookAtCursor(c)
    \/ Return(c)

LogsNext ==
    \/ \E c \in Calls :
          \/ CallStep(c)
          \/ GiveUp(c)
          \/ Watch(c)
          \/ Expire(c)
    \/ \E h \in Holders : DropHandle(h) \/ ReleaseValue(h)

LogsSpec == LogsInit /\ [][LogsNext]_logs_vars

(* Handlers that were called go on, time passes, and the tasks wake up.    *)
LogsFairSpec ==
    /\ LogsSpec
    /\ \A c \in Calls :
          /\ WF_logs_vars(CallStep(c))
          /\ WF_logs_vars(Watch(c))
          /\ WF_logs_vars(Expire(c))
    /\ \A h \in Holders : WF_logs_vars(DropHandle(h) \/ ReleaseValue(h))

-----------------------------------------------------------------------------
(* Properties.                                                             *)

(* The values the variables take.                                          *)
LogsTypeOK ==
    /\ entries \in Calls \cup {None}
    /\ stub \in [Calls -> ActiveLog]
    /\ mutex \in [Calls -> Calls \cup {None}]
    /\ pc \in [Holders -> {"none", "idle", "miss", "wait", "open", "look", "use", "watch",
                           "drop", "release", "done"}]
    /\ handle \in [Holders -> Calls \cup {None}]
    /\ writer \in [Calls -> Calls \cup {None}]
    /\ epoch \in [Calls -> Nat]
    /\ outlived \subseteq Calls

Held == {h \in Holders : pc[h] \in {"wait", "open", "look", "use", "watch", "drop"}}

(* All handles there are refer to the state in the table ("guaranteed to   *)
(* refer to the same piece of state"): the last handle may take the state  *)
(* out of the table while another call looks it up, and the count is read  *)
(* while other handles are between their lock and their release.           *)
SameState == \A h \in Held : handle[h] = entries

(* Calls that write at the same time share one LogWriter, unless the       *)
(* keep-alive of a writer has run out under the call that uses it: two     *)
(* writers of one server would contend for every fragment.                 *)
SharedWriter ==
    \A c, d \in Calls \ outlived :
        (pc[Call(c)] = "use" /\ pc[Call(d)] = "use") => writer[c] = writer[d]

(* "if we initialize the log, we clean it up eventually", when calls cease *)
(* to come.                                                                *)
LogsAreClosed == \A v \in Calls : stub[v].log # None ~> stub[v].log = None

(* "The state hash table will guarantee collection once all references are *)
(* dropped", and "someone else will pass through two on the drop".         *)
CollectedWhenDropped ==
    entries # None => \E h \in Holders : handle[h] = entries

=============================================================================

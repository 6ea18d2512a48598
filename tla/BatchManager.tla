---------------------------- MODULE BatchManager ----------------------------
(***************************************************************************)
(* The batching of appends inside one OnceLogWriter.                       *)
(*                                                                         *)
(* Callers enqueue their messages and try to take the queue for writing;   *)
(* a background task, the flusher, tries again whenever it is notified.    *)
(* One batch is written at a time, and all callers of a batch get the one  *)
(* outcome of its write.                                                   *)
(*                                                                         *)
(* Translated from rust/wal3/src/batch_manager.rs and from append,         *)
(* append_batch, shutdown and the flusher of OnceLogWriter::open in        *)
(* writer.rs.                                                              *)
(*                                                                         *)
(*  - The write itself (append_batch_internal) succeeds or fails; LogWriter *)
(*    models it.                                                           *)
(*  - next_write is in the future or it is not: due.  Only a write that    *)
(*    finds it due moves it.                                               *)
(*  - Each action is one critical section of the mutex, or one step of a   *)
(*    task between two of them.                                            *)
(***************************************************************************)
EXTENDS Integers, Sequences, FiniteSets, SequencesExt, FiniteSetsExt

CONSTANTS
    Callers,           \* calls of OnceLogWriter::append
    NumBytes,          \* [Callers -> Nat]: the bytes of a call's messages
    NumMessages,       \* [Callers -> Nat \ {0}]: how many messages
    batch_size_bytes,  \* ThrottleOptions
    MayFail            \* whether a write may fail, or the log be closed

ASSUME CallerAssumption ==
    /\ NumBytes \in [Callers -> Nat]
    /\ NumMessages \in [Callers -> Nat \ {0}]
    /\ batch_size_bytes \in Nat
    /\ MayFail \in BOOLEAN

VARIABLES
    \* ManagerState.
    enqueued,        \* the calls that wait to be written, in order
    backoff,         \* whether push_work turns calls away
    writers_active,  \* writes that have begun and not finished
    tearing_down,
    due,             \* next_write <= Instant::now()
    \* OnceLogWriter.
    done,
    permit,          \* the permit of the Notify write_finished
    next_log_position,
    \* Tasks.
    call,            \* where each call of append stands
    outcome,         \* what was sent to it
    position,        \* the log position that was sent with an Ok
    flusher,         \* where the background task stands
    alarm,           \* whether the time it sleeps for has passed
    writing          \* the append_batch tasks under way

state == <<enqueued, backoff, writers_active, tearing_down, due>>
vars == <<state, done, permit, next_log_position, call, outcome, position, flusher, alarm,
          writing>>

Init ==
    /\ enqueued = <<>>
    /\ backoff = FALSE
    /\ writers_active = 0
    /\ tearing_down = FALSE
    /\ due = TRUE
    /\ done = FALSE
    /\ permit = FALSE
    /\ next_log_position = 1
    /\ call = [c \in Callers |-> "none"]
    /\ outcome = [c \in Callers |-> "none"]
    /\ position = [c \in Callers |-> 0]
    /\ flusher = "check"
    /\ alarm = FALSE
    /\ writing = {}

-----------------------------------------------------------------------------
(* Mutant: messages are counted by caller.                                 *)
MessagesByCaller(q) == Len(q)

(* What the first i calls in q come to, for each i.                        *)
Totals(size, q) ==
    LET total[i \in 0..Len(q)] == IF i = 0 THEN 0 ELSE total[i - 1] + size[q[i]]
    IN total

Bytes(q) == Totals(NumBytes, q)[Len(q)]
Messages(q) == Totals(NumMessages, q)[Len(q)]

(* How many of the calls in q go into one batch: the first, and the next   *)
(* ones while they stay below batch_size_bytes together.                   *)
SplitOff(q) ==
    Max({k \in DOMAIN q : \A j \in 2..k : Totals(NumBytes, q)[j] < batch_size_bytes})

did_split == SplitOff(enqueued) < Len(enqueued)

(* Where c is in q.                                                        *)
Place(q, c) == CHOOSE i \in DOMAIN q : q[i] = c

(* The calls in q are sent reply.                                          *)
Send(q, reply) == [c \in Callers |-> IF c \in ToSet(q) THEN reply ELSE outcome[c]]

-----------------------------------------------------------------------------
(* Callers: OnceLogWriter::append.                                         *)

(* push_work: the messages are turned away, or enqueued.                   *)
PushWork(c) ==
    /\ call[c] = "none"
    /\ call' = [call EXCEPT ![c] = "pushed"]
    /\ \/ /\ tearing_down
          /\ outcome' = Send(<<c>>, "retry")
          /\ permit' = TRUE
          /\ UNCHANGED enqueued
       \/ /\ ~tearing_down /\ backoff
          /\ outcome' = Send(<<c>>, "backoff")
          /\ permit' = TRUE
          /\ UNCHANGED enqueued
       \/ /\ ~tearing_down /\ ~backoff
          /\ enqueued' = Append(enqueued, c)
          /\ UNCHANGED <<outcome, permit>>
    /\ UNCHANGED <<backoff, writers_active, tearing_down, due, done, next_log_position,
                   position, flusher, alarm, writing>>

(* Mutant: a write under way is not waited for.                            *)
select_for_write_any == due

(* When select_for_write assigns a seq_no and a position.                  *)
select_for_write == due /\ writers_active = 0

(* Mutant: take_work waits for more calls without a notify.                *)
TakeNothingSilently ==
    /\ ~tearing_down => enqueued = <<>> \/ ~select_for_write
    /\ permit' = (permit \/ tearing_down)
    /\ UNCHANGED <<state, next_log_position, writing>>

(* take_work returns None.  It notifies the flusher when the log is torn   *)
(* down and when it waits for more calls to come, and in no other case.    *)
TakeNothing ==
    /\ \/ /\ tearing_down
          /\ permit' = TRUE
       \/ /\ ~tearing_down
          /\ enqueued = <<>>
          /\ UNCHANGED permit
       \/ /\ ~tearing_down
          /\ enqueued # <<>>
          /\ ~did_split /\ ~due
          /\ permit' = TRUE
       \/ /\ ~tearing_down
          /\ enqueued # <<>>
          /\ did_split \/ due
          /\ ~select_for_write
          /\ UNCHANGED permit
    /\ UNCHANGED <<state, next_log_position, writing>>

(* select_for_write counts the write that it lets begin.                   *)
write_begins == writers_active' = writers_active + 1

(* take_work returns a batch, for the task by to write.                    *)
TakeBatch(by) ==
    /\ ~tearing_down
    /\ enqueued # <<>>
    /\ select_for_write
    /\ LET work == SubSeq(enqueued, 1, SplitOff(enqueued))
           rest == SubSeq(enqueued, SplitOff(enqueued) + 1, Len(enqueued))
       IN  /\ enqueued' = rest
           /\ backoff' = (rest # <<>> /\ Bytes(rest) >= batch_size_bytes)
           /\ permit' = (permit \/ rest # <<>>)
           /\ writing' = writing \cup
                 {[work |-> work, start |-> next_log_position, by |-> by, failed |-> FALSE]}
           /\ next_log_position' = next_log_position + Messages(work)
    /\ write_begins
    /\ due' = FALSE
    /\ UNCHANGED tearing_down

(* A caller tries to take the work, spawns append_batch for what it took,  *)
(* and waits for its own outcome.                                          *)
CallerTakesWork(c) ==
    /\ call[c] = "pushed"
    /\ TakeNothing \/ TakeBatch("task")
    /\ call' = [call EXCEPT ![c] = "waiting"]
    /\ UNCHANGED <<done, outcome, position, flusher, alarm>>

-----------------------------------------------------------------------------
(* The flusher.                                                            *)

(* The top of its loop.                                                    *)
FlusherChecks ==
    /\ flusher = "check"
    /\ flusher' = IF done THEN "stopped" ELSE "wait"
    /\ UNCHANGED <<state, done, permit, next_log_position, call, outcome, position, alarm,
                   writing>>

(* wait_for_writable.                                                      *)
FlusherNotified ==
    /\ flusher = "wait"
    /\ permit
    /\ permit' = FALSE
    /\ flusher' = "woken"
    /\ UNCHANGED <<state, done, next_log_position, call, outcome, position, alarm, writing>>

(* With nothing to write it sleeps for until_next_time.                    *)
FlusherTakesWork ==
    /\ flusher = "woken"
    /\ \/ TakeNothing /\ flusher' = "sleep" /\ alarm' = due
       \/ TakeBatch("flusher") /\ flusher' = "append" /\ UNCHANGED alarm
    /\ UNCHANGED <<done, call, outcome, position>>

FlusherWakes ==
    /\ flusher = "sleep"
    /\ alarm
    /\ flusher' = "check"
    /\ UNCHANGED <<state, done, permit, next_log_position, call, outcome, position, alarm,
                   writing>>

(* The time next_write arrives.                                            *)
TimePasses ==
    /\ ~due
    /\ due' = TRUE
    /\ alarm' = TRUE
    /\ UNCHANGED <<enqueued, backoff, writers_active, tearing_down, done, permit,
                   next_log_position, call, outcome, position, flusher, writing>>

-----------------------------------------------------------------------------
(* append_batch, and shutdown.                                             *)

Leave(r) ==
    /\ writing' = writing \ {r}
    /\ flusher' = IF r.by = "flusher" THEN "check" ELSE flusher

(* The write went through: finish_write, and each caller is told where its *)
(* own messages are.                                                       *)
AppendBatchOk(r) ==
    /\ ~r.failed
    /\ writers_active' = writers_active - 1
    /\ permit' = TRUE
    /\ outcome' = Send(r.work, "ok")
    /\ position' = [c \in Callers |->
          IF c \in ToSet(r.work)
          THEN r.start + Totals(NumMessages, r.work)[Place(r.work, c) - 1]
          ELSE position[c]]
    /\ Leave(r)
    /\ UNCHANGED <<enqueued, backoff, tearing_down, due, done, next_log_position, call,
                   alarm>>

(* Mutant: the queue is dropped without an answer.                         *)
TearDownSilently ==
    /\ MayFail
    /\ tearing_down' = TRUE
    /\ enqueued' = <<>>
    /\ UNCHANGED <<backoff, writers_active, due, done, permit, next_log_position, call,
                   outcome, position, flusher, alarm>>

(* BatchManager::shutdown, the first part of OnceLogWriter::shutdown:      *)
(* whoever is enqueued is told to retry.                                   *)
TearDown ==
    /\ MayFail
    /\ tearing_down' = TRUE
    /\ enqueued' = <<>>
    /\ outcome' = Send(enqueued, "retry")
    /\ UNCHANGED <<backoff, writers_active, due, done, permit, next_log_position, call,
                   position, flusher, alarm>>

(* The write failed.                                                       *)
AppendBatchFails(r) ==
    /\ ~r.failed
    /\ TearDown
    /\ writing' = (writing \ {r}) \cup {[r EXCEPT !.failed = TRUE]}

(* LogWriter gives the OnceLogWriter up, while a batch may be under way.   *)
Close ==
    /\ ~tearing_down
    /\ TearDown
    /\ writing' = writing \cup {[work |-> <<>>, start |-> 0, by |-> "close", failed |-> TRUE]}

(* Mutant: shutdown does not wake the flusher.                             *)
ShutdownEndsQuietly(r) ==
    /\ r.failed
    /\ done' = TRUE
    /\ outcome' = Send(r.work, "error")
    /\ Leave(r)
    /\ UNCHANGED <<state, permit, next_log_position, call, position, alarm>>

(* The rest of OnceLogWriter::shutdown; then the callers of a failed batch *)
(* are told so.                                                            *)
ShutdownEnds(r) ==
    /\ r.failed
    /\ done' = TRUE
    /\ permit' = TRUE
    /\ outcome' = Send(r.work, "error")
    /\ Leave(r)
    /\ UNCHANGED <<state, next_log_position, call, position, alarm>>

-----------------------------------------------------------------------------
Caller(c) == PushWork(c) \/ CallerTakesWork(c)

Flusher ==
    \/ FlusherChecks
    \/ FlusherNotified
    \/ FlusherTakesWork
    \/ FlusherWakes

Write == \E r \in writing : AppendBatchOk(r) \/ AppendBatchFails(r) \/ ShutdownEnds(r)

(* Every caller has its outcome and the flusher has nothing to do.         *)
Finished ==
    /\ \A c \in Callers : call[c] = "waiting" /\ outcome[c] # "none"
    /\ flusher \in {"wait", "stopped"}
    /\ UNCHANGED vars

Next ==
    \/ \E c \in Callers : Caller(c)
    \/ Flusher
    \/ Write
    \/ Close
    \/ TimePasses
    \/ Finished

Spec == Init /\ [][Next]_vars

(* Tasks that can run are run, writes end, time passes.  Nobody has to     *)
(* call append.                                                            *)
FairSpec ==
    /\ Spec
    /\ \A c \in Callers : WF_vars(CallerTakesWork(c))
    /\ WF_vars(Flusher)
    /\ WF_vars(Write)
    /\ WF_vars(TimePasses)

-----------------------------------------------------------------------------
(* Properties.                                                             *)

(* Counters and states are ones the code has; usize never goes below zero. *)
TypeOK ==
    /\ enqueued \in Seq(Callers)
    /\ writers_active \in Nat
    /\ next_log_position \in Nat \ {0}
    /\ call \in [Callers -> {"none", "pushed", "waiting"}]
    /\ outcome \in [Callers -> {"none", "ok", "retry", "backoff", "error"}]
    /\ position \in [Callers -> Nat]
    /\ flusher \in {"check", "wait", "woken", "append", "sleep", "stopped"}
    /\ \A b \in {backoff, tearing_down, due, done, permit, alarm} : b \in BOOLEAN

(* One fragment is in flight at a time, as the assignment of seq_nos and   *)
(* the recovery of LogWriter rely on, and no other once one has failed.    *)
OneWriteAtATime == Cardinality({r \in writing : r.by # "close"}) <= 1

(* Nobody is forgotten and nobody is written twice: a call without an      *)
(* outcome is in the queue or in one batch, and one with an outcome is in  *)
(* neither.                                                                *)
CallsAreAccountedFor ==
    \A c \in Callers :
        Cardinality({i \in DOMAIN enqueued : enqueued[i] = c}) +
        Cardinality({r \in writing : c \in ToSet(r.work)})
            = IF call[c] # "none" /\ outcome[c] = "none" THEN 1 ELSE 0

(* Callers that share a batch are told positions that do not overlap, each *)
(* below the next position to assign.                                      *)
PositionsAreApart ==
    \A c, d \in Callers :
        (outcome[c] = "ok" /\ outcome[d] = "ok" /\ c # d) =>
            /\ \/ position[c] + NumMessages[c] <= position[d]
               \/ position[d] + NumMessages[d] <= position[c]
            /\ position[c] + NumMessages[c] <= next_log_position

(* Every call of append is answered: again and again there is nobody who   *)
(* waits, or there is more in the queue than fits one batch.  In that case *)
(* take_work notifies nobody while a write is under way or not due, and    *)
(* what is left may stay until the next call.                              *)
AppendAnswered ==
    []<>(\/ \A c \in Callers : call[c] # "none" => outcome[c] # "none"
         \/ enqueued # <<>> /\ did_split)

(* The flusher stops once the OnceLogWriter is given up.                   *)
FlusherStops == tearing_down ~> flusher = "stopped"

=============================================================================

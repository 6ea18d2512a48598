----------------------------- MODULE AppendLog ------------------------------
(***************************************************************************)
(* What a wal3 log promises to those who append to it: one sequence of     *)
(* batches that grows at its end, at consecutive log positions, in which   *)
(* no batch is twice.  The caller of append_many is told Ok with the       *)
(* position, or that the data is durable, only if the batch is in the log; *)
(* told an error it knows nothing, and the batch may still get there.      *)
(*                                                                         *)
(* A contention error of the dirty log weakens the promise for the batch   *)
(* that is being appended: a LogContentionRetry may put it into the log    *)
(* again, and its caller may be told LogContentionDurable for nothing.     *)
(*                                                                         *)
(* The promise is read off LogWriter::append_many (writer.rs) and the      *)
(* errors it returns (lib.rs).  LogWriter implements it.                   *)
(***************************************************************************)
EXTENDS Integers, Sequences

CONSTANTS Batches, NumRecords

VARIABLES
    log,      \* the batches in the log, each with where it starts and ends
    result,   \* what the caller of each batch was told
    retried,  \* the batches that may be in the log more than once
    presumed  \* the batches whose durability was only presumed

vars == <<log, result, retried, presumed>>

End == IF log = <<>> THEN 1 ELSE log[Len(log)].limit

Init ==
    /\ log = <<>>
    /\ result = [b \in Batches |-> [status |-> "none", position |-> 0]]
    /\ retried = {}
    /\ presumed = {}

(* append_many is called with b.                                           *)
Invoke(b) ==
    /\ result[b].status = "none"
    /\ result' = [result EXCEPT ![b] = [status |-> "pending", position |-> 0]]
    /\ UNCHANGED log

(* b becomes part of the log, while its caller waits or later.             *)
Link(b) ==
    /\ result[b].status # "none"
    /\ b \in retried \/ \A i \in DOMAIN log : log[i].batch # b
    /\ log' = Append(log, [batch |-> b, start |-> End, limit |-> End + NumRecords[b]])

(* append_many returns what is true of the log.                            *)
Return(b) ==
    /\ result[b].status = "pending"
    /\ result' \in
          {[result EXCEPT ![b] = [status |-> s, position |-> 0]] :
              s \in {"retry", "failure", "error"}}
          \cup
          {[result EXCEPT ![b] = [status |-> "durable", position |-> 0]] :
              i \in {i \in DOMAIN log' : log'[i].batch = b}}
          \cup
          {[result EXCEPT ![b] = [status |-> "ok", position |-> log'[i].start]] :
              i \in {i \in DOMAIN log' : log'[i].batch = b}}

(* The dirty log is contended while b is appended: append_many goes on to  *)
(* append b again ...                                                      *)
Retry(b) ==
    /\ result[b].status = "pending"
    /\ retried' = retried \cup {b}
    /\ UNCHANGED <<log, result, presumed>>

(* ... or returns that b is durable.                                       *)
Presume(b) ==
    /\ result[b].status = "pending"
    /\ presumed' = presumed \cup {b}
    /\ result' = [result EXCEPT ![b] = [status |-> "durable", position |-> 0]]
    /\ UNCHANGED <<log, retried>>

(* The put that links a batch may also end a call: its own, or that of a   *)
(* writer that was recovering it.                                          *)
Next ==
    \/ /\ \/ \E b \in Batches : Invoke(b)
          \/ \E b \in Batches : Link(b) /\ UNCHANGED result
          \/ \E b \in Batches : UNCHANGED log /\ Return(b)
          \/ \E b, c \in Batches : Link(b) /\ Return(c)
       /\ UNCHANGED <<retried, presumed>>
    \/ \E b \in Batches : Retry(b) \/ Presume(b)

Spec == Init /\ [][Next]_vars

=============================================================================

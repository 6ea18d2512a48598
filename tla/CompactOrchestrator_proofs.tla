---------------------- MODULE CompactOrchestrator_proofs ----------------------
(***************************************************************************)
(* Proofs about CompactOrchestrator, for any number of partitions,         *)
(* segments and failing tasks.                                             *)
(*                                                                         *)
(* The argument: every task is in flight at most once, so the two kinds of *)
(* counters say how many materializations, and how many applications to a  *)
(* segment, are in flight.  What a partition materializes to is still to   *)
(* be materialized, on its way to a segment, or in it; when nothing is on  *)
(* its way, the segment holds everything, and only then it is committed.   *)
(***************************************************************************)
EXTENDS CompactOrchestrator, FiniteSetTheorems, TLAPS

(* What is registered in the end.                                          *)
Final == IF parts = empty THEN none ELSE [s \in Segments |-> parts \ empty]

(* The tasks in flight, dispatched or run.  Nothing depends on the         *)
(* prefetch.                                                               *)
Flight == (dispatched \cup {r.task : r \in results}) \ {Task("prefetch")}

Materializing == {p \in Partitions : Materialize(p) \in Flight}
Applying(s) == {p \in Partitions : Apply(p, s) \in Flight}

(* The tasks before materialization, one at a time, ...                    *)
Head == {Task(n) : n \in {"prepare", "get", "fetch", "source", "execute", "partition"}}

(* ... of which the first may decide that there is nothing to do.          *)
Early ==
    \/ Head \cap Flight # {}
    \/ Task("finish") \in Flight /\ registers = 0

IsFunction(f) == f = [x \in DOMAIN f |-> f[x]]

Types ==
    /\ empty \subseteq parts /\ parts \subseteq Partitions
    /\ dispatched \subseteq Tasks
    /\ results \subseteq [task : Tasks, ok : BOOLEAN]
    /\ registers \in 0..1
    /\ applied \in [Segments -> SUBSET Partitions]
    /\ num_uncompleted_materialization_tasks \in Nat
    /\ IsFunction(num_uncompleted_tasks_by_segment)
    /\ DOMAIN num_uncompleted_tasks_by_segment \subseteq Segments
    /\ IsFunction(flush_results)
    /\ DOMAIN flush_results \subseteq Segments

(* A task is in flight once.                                               *)
Unique ==
    /\ \A t \in dispatched : \A r \in results : r.task = t => t = Task("prefetch")
    /\ \A q, r \in results : q.task = r.task => q = r \/ q.task = Task("prefetch")

EarlyOK ==
    Early =>
        /\ \E t \in Head \cup {Task("finish")} : Flight = {t}
        /\ num_uncompleted_materialization_tasks = 0
        /\ num_uncompleted_tasks_by_segment = none
        /\ applied = [s \in Segments |-> {}]
        /\ flush_results = none
        /\ registers = 0

(* How far the segment s is.                                               *)
SegmentOK(s) ==
    /\ s \in DOMAIN num_uncompleted_tasks_by_segment =>
          num_uncompleted_tasks_by_segment[s] = Cardinality(Applying(s))
    /\ s \notin DOMAIN num_uncompleted_tasks_by_segment => Applying(s) = {}
    /\ parts \ empty \subseteq Materializing \cup Applying(s) \cup applied[s]
    /\ applied[s] \subseteq parts \ empty
    /\ Applying(s) \subseteq (parts \ empty) \ Materializing
    /\ \A p \in Partitions : [task |-> Apply(p, s), ok |-> TRUE] \in results => p \in applied[s]
    /\ (Commit(s) \in Flight \/ Flush(s) \in Flight) =>
          /\ Applying(s) = {} /\ Materializing = {}
          /\ s \in DOMAIN num_uncompleted_tasks_by_segment
    /\ ~(Commit(s) \in Flight /\ Flush(s) \in Flight)
    /\ ([task |-> Commit(s), ok |-> TRUE] \in results \/ Flush(s) \in Flight) =>
          s \in DOMAIN committed /\ committed[s] = parts \ empty
    /\ s \in DOMAIN flush_results =>
          /\ flush_results[s] = parts \ empty
          /\ s \notin DOMAIN num_uncompleted_tasks_by_segment
          /\ Materializing = {}

(* Which segments are waited for and which are flushed.                    *)
DomainsOK ==
    \/ /\ DOMAIN num_uncompleted_tasks_by_segment = {} /\ DOMAIN flush_results = {}
       /\ parts \ empty \subseteq Materializing
    \/ /\ DOMAIN num_uncompleted_tasks_by_segment \cup DOMAIN flush_results = Segments
       /\ parts # empty

LateOK ==
    ~Early =>
        /\ num_uncompleted_materialization_tasks = Cardinality(Materializing)
        /\ Materializing \subseteq parts
        /\ \A s \in Segments : SegmentOK(s)
        /\ DomainsOK
        /\ registers = 1 => Materializing = {} /\ DOMAIN num_uncompleted_tasks_by_segment = {}
        /\ Task("register") \in Flight => registers = 1 /\ Task("finish") \notin Flight

(* What holds after an error, too.                                         *)
RegisterOK ==
    /\ registered \subseteq {Final}
    /\ Task("register") \in dispatched => flush_results = Final

IInv ==
    /\ Types
    /\ RegisterOK
    /\ result = "none" => Unique /\ EarlyOK /\ LateOK

-----------------------------------------------------------------------------
(* Tasks and functions.                                                    *)

LEMMA TasksDiffer ==
    /\ \A m, n : Task(m) = Task(n) => m = n
    /\ \A p, q : Materialize(p) = Materialize(q) => p = q
    /\ \A p, q, s, t : Apply(p, s) = Apply(q, t) => p = q /\ s = t
    /\ \A s, t : Commit(s) = Commit(t) => s = t
    /\ \A s, t : Flush(s) = Flush(t) => s = t
    /\ \A n, p : n # "materialize" => Task(n) # Materialize(p)
    /\ \A n, p, s : n # "apply" => Task(n) # Apply(p, s)
    /\ \A n, s : n # "commit" => Task(n) # Commit(s)
    /\ \A n, s : n # "flush" => Task(n) # Flush(s)
    /\ \A p, q, s : Materialize(p) # Apply(q, s)
    /\ \A p, s : Materialize(p) # Commit(s) /\ Materialize(p) # Flush(s)
    /\ \A p, s, t : Apply(p, s) # Commit(t) /\ Apply(p, s) # Flush(t)
    /\ \A s, t : Commit(s) # Flush(t)
<1>1. \A n : Task(n).name = n
  BY DEF Task
<1>2. \A p : Materialize(p).name = "materialize" /\ Materialize(p).partition = p
  BY DEF Materialize
<1>3. \A p, s : Apply(p, s).name = "apply" /\ Apply(p, s).partition = p /\ Apply(p, s).segment = s
  BY DEF Apply
<1>4. \A s : Commit(s).name = "commit" /\ Commit(s).segment = s
  BY DEF Commit
<1>5. \A s : Flush(s).name = "flush" /\ Flush(s).segment = s
  BY DEF Flush
<1>6. \A m, n : Task(m) = Task(n) => m = n
  BY <1>1
<1>7. \A p, q : Materialize(p) = Materialize(q) => p = q
  BY <1>2
<1>8. \A p, q, s, t : Apply(p, s) = Apply(q, t) => p = q /\ s = t
  BY <1>3
<1>9. (\A s, t : Commit(s) = Commit(t) => s = t) /\ (\A s, t : Flush(s) = Flush(t) => s = t)
  BY <1>4, <1>5
<1>10. /\ \A n, p : n # "materialize" => Task(n) # Materialize(p)
       /\ \A n, p, s : n # "apply" => Task(n) # Apply(p, s)
       /\ \A n, s : n # "commit" => Task(n) # Commit(s)
       /\ \A n, s : n # "flush" => Task(n) # Flush(s)
  BY <1>1, <1>2, <1>3, <1>4, <1>5
<1>11. /\ \A p, q, s : Materialize(p) # Apply(q, s)
       /\ \A p, s : Materialize(p) # Commit(s) /\ Materialize(p) # Flush(s)
       /\ \A p, s, t : Apply(p, s) # Commit(t) /\ Apply(p, s) # Flush(t)
       /\ \A s, t : Commit(s) # Flush(t)
  BY <1>2, <1>3, <1>4, <1>5
<1> QED BY <1>6, <1>7, <1>8, <1>9, <1>10, <1>11

(* A task is told by its name.                                             *)
LEMMA TaskNames ==
    ASSUME NEW t \in Tasks
    PROVE  /\ t.name = "materialize" => t.partition \in Partitions /\ t = Materialize(t.partition)
           /\ t.name = "apply" => /\ t.partition \in Partitions /\ t.segment \in Segments
                                  /\ t = Apply(t.partition, t.segment)
           /\ t.name = "commit" => t.segment \in Segments /\ t = Commit(t.segment)
           /\ t.name = "flush" => t.segment \in Segments /\ t = Flush(t.segment)
           /\ t.name = "register" => t = Task("register")
<1>1. CASE \E n \in {"prepare", "get", "prefetch", "fetch", "source", "execute",
                     "partition", "register", "finish"} : t = Task(n)
  BY <1>1 DEF Task
<1>2. CASE \E p \in Partitions : t = Materialize(p)
  BY <1>2 DEF Materialize
<1>3. CASE \E p \in Partitions, s \in Segments : t = Apply(p, s)
  BY <1>3 DEF Apply
<1>4. CASE \E s \in Segments : t = Commit(s)
  BY <1>4 DEF Commit
<1>5. CASE \E s \in Segments : t = Flush(s)
  BY <1>5 DEF Flush
<1> QED BY <1>1, <1>2, <1>3, <1>4, <1>5 DEF Tasks

LEMMA NameOf ==
    /\ \A n : Task(n).name = n
    /\ \A p : Materialize(p).name = "materialize" /\ Materialize(p).partition = p
    /\ \A p, s : Apply(p, s).name = "apply" /\ Apply(p, s).partition = p /\ Apply(p, s).segment = s
    /\ \A s : Commit(s).name = "commit" /\ Commit(s).segment = s
    /\ \A s : Flush(s).name = "flush" /\ Flush(s).segment = s
BY DEF Task, Materialize, Apply, Commit, Flush

LEMMA NoneIs ==
    /\ IsFunction(none) /\ DOMAIN none = {}
    /\ \A f : IsFunction(f) /\ DOMAIN f = {} => f = none
BY DEF IsFunction, none

LEMMA WithIs ==
    ASSUME NEW f, NEW s, NEW v
    PROVE  /\ IsFunction(With(f, s, v)) /\ DOMAIN With(f, s, v) = DOMAIN f \cup {s}
           /\ With(f, s, v)[s] = v
           /\ \A t \in DOMAIN f : t # s => With(f, s, v)[t] = f[t]
BY DEF IsFunction, With

-----------------------------------------------------------------------------
(* What is in flight.                                                      *)

(* A task runs.                                                            *)
LEMMA RunFlight ==
    ASSUME Unique, NEW t \in dispatched, NEW b, dispatched' = dispatched \ {t},
           results' = results \cup {[task |-> t, ok |-> b]}
    PROVE  Flight' = Flight /\ Unique'
<1> DEFINE new == [task |-> t, ok |-> b]
<1>1. new.task = t
  OBVIOUS
<1> HIDE DEF new
<1>2. results' = results \cup {new}
  BY DEF new
<1>3. Flight' = Flight
  BY <1>1, <1>2 DEF Flight
<1>4. Unique'
  BY <1>1, <1>2 DEF Unique
<1> QED BY <1>3, <1>4

(* A result is taken, and tasks that are not in flight are dispatched.     *)
LEMMA SendFlight ==
    ASSUME Types, Unique, NEW r \in results, NEW ts, Send(r, ts), ts \cap Flight = {},
           ts \subseteq Tasks
    PROVE  /\ Flight' \subseteq (Flight \cup ts) \ {Task("prefetch")}
           /\ (Flight \cup ts) \ {r.task, Task("prefetch")} \subseteq Flight'
           /\ r.task \notin ts /\ r.task # Task("prefetch") => r.task \notin Flight'
           /\ Unique'
           /\ r.task # Task("prefetch") => r.task \in Flight
           /\ results' \subseteq results
           /\ dispatched' \subseteq Tasks /\ results' \subseteq [task : Tasks, ok : BOOLEAN]
<1>1. results' = results \ {r} /\ dispatched' = dispatched \cup ts
  BY DEF Send
<1>2. r.task # Task("prefetch") => r.task \in Flight
  BY DEF Flight
<1>3. Flight' \subseteq (Flight \cup ts) \ {Task("prefetch")}
  BY <1>1 DEF Flight
<1>4. (Flight \cup ts) \ {r.task, Task("prefetch")} \subseteq Flight'
  BY <1>1 DEF Flight
<1>5. r.task \notin ts /\ r.task # Task("prefetch") => r.task \notin Flight'
  BY <1>1 DEF Flight, Unique
<1>6. Unique'
  <2>1. ASSUME NEW t \in dispatched', NEW q \in results', q.task = t
        PROVE  t = Task("prefetch")
    BY <1>1, <2>1 DEF Unique, Flight
  <2> QED BY <1>1, <2>1 DEF Unique
<1> QED BY <1>1, <1>2, <1>3, <1>4, <1>5, <1>6 DEF Types

(* A step that leaves the segments and what is in flight alone.            *)
LEMMA SameFlight ==
    ASSUME EarlyOK /\ LateOK, Flight' = Flight,
           UNCHANGED <<parts, empty, counts, segments, registers>>,
           \A t : [task |-> t, ok |-> TRUE] \in results' => [task |-> t, ok |-> TRUE] \in results
    PROVE  EarlyOK' /\ LateOK'
<1>1. UNCHANGED <<num_uncompleted_materialization_tasks, num_uncompleted_tasks_by_segment,
                  applied, committed, flush_results>>
  BY DEF counts, segments
<1>2. Early' = Early /\ Materializing' = Materializing /\ \A s : Applying(s)' = Applying(s)
  BY DEF Early, Materializing, Applying
<1>3. EarlyOK'
  BY <1>1, <1>2 DEF EarlyOK
<1>4. ASSUME ~Early, NEW s \in Segments
      PROVE  SegmentOK(s)'
  <2>1. SegmentOK(s)
    BY <1>4 DEF LateOK
  <2> QED BY <1>1, <1>2, <2>1 DEF SegmentOK
<1>5. ~Early => DomainsOK'
  BY <1>1, <1>2 DEF LateOK, DomainsOK
<1> QED BY <1>1, <1>2, <1>3, <1>4, <1>5 DEF LateOK

-----------------------------------------------------------------------------
(* Tasks run or fail.                                                      *)

LEMMA FailKeeps ==
    ASSUME IInv, NEW t \in dispatched, Fail(t)
    PROVE  IInv'
<1>1. /\ dispatched' = dispatched \ {t}
      /\ results' = results \cup {[task |-> t, ok |-> FALSE]}
      /\ registered' = registered \/ (t.name = "register" /\ registered' = registered \cup {flush_results})
      /\ UNCHANGED <<parts, empty, counts, segments, registers, result>>
  BY DEF Fail
<1>2. UNCHANGED <<num_uncompleted_materialization_tasks, num_uncompleted_tasks_by_segment,
                  applied, committed, flush_results>>
  BY <1>1 DEF counts, segments
<1>3. Types /\ RegisterOK /\ t \in Tasks
  BY DEF IInv, Types
<1>4. Types'
  <2>1. [task |-> t, ok |-> FALSE] \in [task : Tasks, ok : BOOLEAN]
    BY <1>3
  <2>2. results' \subseteq [task : Tasks, ok : BOOLEAN]
    BY <1>1, <1>3, <2>1 DEF Types
  <2> QED BY <1>1, <1>2, <1>3, <2>2 DEF Types
<1>5. Final' = Final
  BY <1>1 DEF Final
<1>6. RegisterOK'
  <2>1. t.name = "register" => t = Task("register")
    BY <1>3, TaskNames
  <2> QED BY <1>1, <1>2, <1>3, <1>5, <2>1 DEF RegisterOK
<1>7. ASSUME result = "none"
      PROVE  Unique' /\ EarlyOK' /\ LateOK'
  <2>1. Unique /\ EarlyOK /\ LateOK
    BY <1>7 DEF IInv
  <2>2. Flight' = Flight /\ Unique'
    BY <1>1, <2>1, RunFlight
  <2>3. \A u : [task |-> u, ok |-> TRUE] \in results' => [task |-> u, ok |-> TRUE] \in results
    BY <1>1
  <2> QED BY <1>1, <2>1, <2>2, <2>3, SameFlight
<1> QED BY <1>1, <1>4, <1>6, <1>7 DEF IInv

LEMMA RunKeeps ==
    ASSUME IInv, NEW t \in dispatched, Run(t)
    PROVE  IInv'
<1> DEFINE new == [task |-> t, ok |-> TRUE]
<1>1. /\ dispatched' = dispatched \ {t} /\ results' = results \cup {new}
      /\ applied' = IF t.name = "apply"
                    THEN [applied EXCEPT ![t.segment] = @ \cup {t.partition}] ELSE applied
      /\ committed' = IF t.name = "commit"
                      THEN With(committed, t.segment, applied[t.segment]) ELSE committed
      /\ registered' = IF t.name = "register" THEN registered \cup {flush_results} ELSE registered
      /\ UNCHANGED <<parts, empty, num_uncompleted_materialization_tasks,
                     num_uncompleted_tasks_by_segment, flush_results, registers, result>>
  BY DEF Run, counts
<1>2. Types /\ RegisterOK /\ t \in Tasks
  BY DEF IInv, Types
<1>3. Types'
  <2>1. applied' \in [Segments -> SUBSET Partitions]
    BY <1>1, <1>2, TaskNames DEF Types
  <2>2. new \in [task : Tasks, ok : BOOLEAN]
    BY <1>2
  <2> HIDE DEF new
  <2> QED BY <1>1, <1>2, <2>1, <2>2 DEF Types
<1>4. RegisterOK'
  <2>1. t.name = "register" => t = Task("register")
    BY <1>2, TaskNames
  <2>2. Final' = Final
    BY <1>1 DEF Final
  <2> QED BY <1>1, <1>2, <2>1, <2>2 DEF RegisterOK
<1>5. ASSUME result = "none"
      PROVE  Unique' /\ EarlyOK' /\ LateOK'
  <2>1. Unique /\ EarlyOK /\ LateOK
    BY <1>5 DEF IInv
  <2>2. Flight' = Flight /\ Unique'
    BY <1>1, <2>1, RunFlight
  <2>3. Early' = Early /\ Materializing' = Materializing /\ \A s : Applying(s)' = Applying(s)
    BY <1>1, <2>2 DEF Early, Materializing, Applying
  <2>4. t \in Flight \/ t = Task("prefetch")
    BY DEF Flight
  <2>5. EarlyOK'
    <3>1. ASSUME Early
          PROVE  t.name # "apply"
      <4>1. PICK u \in Head \cup {Task("finish")} : Flight = {u}
        BY <2>1, <3>1 DEF EarlyOK
      <4>2. t \in Head \cup {Task("finish"), Task("prefetch")}
        BY <2>4, <4>1
      <4> QED BY <4>2, NameOf DEF Head
    <3> QED BY <1>1, <2>1, <2>2, <2>3, <3>1 DEF EarlyOK
  <2>6. ASSUME ~Early, NEW s \in Segments
        PROVE  SegmentOK(s)'
    <3>1. SegmentOK(s)
      BY <2>1, <2>6 DEF LateOK
    <3>2. ASSUME NEW u, [task |-> u, ok |-> TRUE] \in results'
          PROVE  u = t \/ [task |-> u, ok |-> TRUE] \in results
      BY <1>1, <3>2
    <3>3. CASE t.name = "apply" /\ t.segment = s
      <4>1. t = Apply(t.partition, s) /\ t.partition \in Partitions /\ t # Task("prefetch")
        BY <1>2, <3>3, TaskNames, NameOf
      <4>2. t.partition \in Applying(s)
        BY <2>4, <4>1 DEF Applying
      <4>3. applied'[s] = applied[s] \cup {t.partition} /\ committed' = committed
        BY <1>1, <1>2, <3>3 DEF Types
      <4>4. \A p : t = Apply(p, s) => p = t.partition
        BY <4>1, TasksDiffer
      <4>5. t # Commit(s)
        BY <4>1, TasksDiffer
      <4> QED BY <1>1, <2>2, <2>3, <3>1, <3>2, <4>2, <4>3, <4>4, <4>5 DEF SegmentOK
    <3>4. CASE t.name = "commit" /\ t.segment = s
      <4>1. t = Commit(s) /\ t # Task("prefetch")
        BY <1>2, <3>4, TaskNames, NameOf
      <4>2. Commit(s) \in Flight
        BY <2>4, <4>1
      <4>3. applied[s] = parts \ empty
        BY <3>1, <4>2 DEF SegmentOK
      <4>4. applied' = applied /\ s \in DOMAIN committed' /\ committed'[s] = parts \ empty
        <5>1. applied' = applied /\ committed' = With(committed, s, applied[s])
          BY <1>1, <3>4
        <5> QED BY <4>3, <5>1 DEF With
      <4>5. \A p : t # Apply(p, s)
        BY <4>1, TasksDiffer
      <4> QED BY <1>1, <2>2, <2>3, <3>1, <3>2, <4>4, <4>5 DEF SegmentOK
    <3>5. CASE ~(t.name \in {"apply", "commit"} /\ t.segment = s)
      <4>1. t # Commit(s) /\ \A p : t # Apply(p, s)
        BY <3>5, NameOf
      <4>2. applied'[s] = applied[s]
        BY <1>1, <1>2, <3>5 DEF Types
      <4>3. s \in DOMAIN committed => s \in DOMAIN committed' /\ committed'[s] = committed[s]
        <5>1. CASE t.name = "commit"
          <6>1. committed' = With(committed, t.segment, applied[t.segment]) /\ t.segment # s
            BY <1>1, <3>5, <5>1
          <6> QED BY <6>1 DEF With
        <5> QED BY <1>1, <5>1
      <4> QED BY <1>1, <2>2, <2>3, <3>1, <3>2, <4>1, <4>2, <4>3 DEF SegmentOK
    <3> QED BY <3>3, <3>4, <3>5
  <2>7. LateOK'
    BY <1>1, <2>1, <2>2, <2>3, <2>6 DEF LateOK, DomainsOK
  <2> QED BY <2>2, <2>5, <2>7
<1> QED BY <1>1, <1>3, <1>4, <1>5 DEF IInv

-----------------------------------------------------------------------------
(* Handlers.                                                               *)

(* The orchestrator ends.                                                  *)
LEMMA EndKeeps ==
    ASSUME IInv, NEW r \in results, Send(r, {}), result' # "none",
           UNCHANGED <<parts, empty, counts, segments, registered>>
    PROVE  IInv'
<1>1. /\ results' \subseteq results /\ dispatched' = dispatched /\ registers' = registers
  <2>1. Task("register") \notin {}
    OBVIOUS
  <2>2. registers \in 0..1
    BY DEF IInv, Types
  <2> QED BY <2>1, <2>2 DEF Send
<1>2. Final' = Final
  BY DEF Final
<1>3. UNCHANGED <<num_uncompleted_materialization_tasks, num_uncompleted_tasks_by_segment,
                  applied, committed, flush_results>>
  BY DEF counts, segments
<1> QED BY <1>1, <1>2, <1>3 DEF IInv, Types, RegisterOK

(* A head task is followed by another one, or by the end.                  *)
LEMMA HeadKeeps ==
    ASSUME IInv, result = "none", result' = "none",
           NEW r \in results, r.task \in Head, NEW u \in Head \cup {Task("finish")}, u # r.task,
           NEW ts, ts \ {Task("prefetch")} = {u}, ts \subseteq Tasks, Send(r, ts),
           UNCHANGED <<parts, empty, counts, segments, registered>>
    PROVE  IInv'
<1>1. Types /\ RegisterOK /\ Unique /\ EarlyOK
  BY DEF IInv
<1>2. r.task # Task("prefetch") /\ u # Task("prefetch") /\ u # Task("register")
  BY TasksDiffer DEF Head
<1>3. Early
  BY <1>2 DEF Early, Flight
<1>4. Flight = {r.task}
  BY <1>1, <1>2, <1>3 DEF EarlyOK, Flight
<1>5. Flight' = {u} /\ Unique' /\ dispatched' \subseteq Tasks
      /\ results' \subseteq [task : Tasks, ok : BOOLEAN]
  <2>1. ts \cap Flight = {} /\ r.task \notin ts
    BY <1>2, <1>4
  <2> QED BY <1>1, <1>2, <1>4, <2>1, SendFlight
<1>6. registers' = registers /\ Task("register") \notin ts /\ dispatched' = dispatched \cup ts
  <2>1. Task("register") # Task("prefetch")
    BY TasksDiffer
  <2>2. registers \in 0..1
    BY <1>1 DEF Types
  <2> QED BY <1>2, <2>1, <2>2 DEF Send
<1>7. UNCHANGED <<num_uncompleted_materialization_tasks, num_uncompleted_tasks_by_segment,
                  applied, committed, flush_results>>
  BY DEF counts, segments
<1>8. Final' = Final
  BY DEF Final
<1>9. Types' /\ RegisterOK'
  BY <1>1, <1>5, <1>6, <1>7, <1>8 DEF Types, RegisterOK
<1>10. Early'
  <2>1. registers = 0
    BY <1>1, <1>3 DEF EarlyOK
  <2> QED BY <1>5, <1>6, <2>1 DEF Early
<1>11. EarlyOK' /\ LateOK'
  BY <1>1, <1>3, <1>5, <1>6, <1>7, <1>10 DEF EarlyOK, LateOK
<1> QED BY <1>5, <1>9, <1>11 DEF IInv

LEMMA NamedTasks ==
    \A n \in {"prepare", "get", "prefetch", "fetch", "source", "execute", "partition",
              "register", "finish"} : Task(n) \in Tasks
BY DEF Tasks

LEMMA HandleErrorKeeps ==
    ASSUME IInv, NEW r \in results, HandleError(r)
    PROVE  IInv'
BY EndKeeps DEF HandleError

LEMMA HandlePrepareKeeps ==
    ASSUME IInv, NEW r \in results, HandlePrepare(r)
    PROVE  IInv'
<1>1. PICK u \in {Task("finish"), Task("get")} : Send(r, {u})
  BY DEF HandlePrepare
<1>2. u \in Head \cup {Task("finish")} /\ u # r.task /\ u # Task("prefetch") /\ {u} \subseteq Tasks
      /\ r.task \in Head
  BY TasksDiffer, NamedTasks DEF HandlePrepare, Head
<1>3. {u} \ {Task("prefetch")} = {u}
  BY <1>2
<1>4. result = "none" /\ result' = "none"
      /\ UNCHANGED <<parts, empty, counts, segments, registered>>
  BY DEF HandlePrepare, Handling
<1> QED BY <1>1, <1>2, <1>3, <1>4, HeadKeeps

LEMMA HandleGetKeeps ==
    ASSUME IInv, NEW r \in results, HandleGetCollectionAndSegments(r)
    PROVE  IInv'
<1> DEFINE u == Task(IF kind = "compaction" THEN "fetch" ELSE "source")
<1>1. PICK ts \in {{Task("prefetch"), u}, {u}} : Send(r, ts) /\ r.task = Task("get")
  BY DEF HandleGetCollectionAndSegments
<1>2. u \in {Task("fetch"), Task("source")}
  OBVIOUS
<1> HIDE DEF u
<1>3. u \in Head /\ u # r.task /\ u # Task("prefetch") /\ u \in Tasks /\ r.task \in Head
  BY <1>1, <1>2, TasksDiffer, NamedTasks DEF Head
<1>4. ts \ {Task("prefetch")} = {u} /\ ts \subseteq Tasks
  BY <1>1, <1>3, NamedTasks
<1>5. result = "none" /\ result' = "none"
      /\ UNCHANGED <<parts, empty, counts, segments, registered>>
  BY DEF HandleGetCollectionAndSegments, Handling
<1> QED BY <1>1, <1>3, <1>4, <1>5, HeadKeeps

LEMMA HandlePrefetchKeeps ==
    ASSUME IInv, NEW r \in results, HandlePrefetch(r)
    PROVE  IInv'
<1>1. r.task = Task("prefetch") /\ Send(r, {}) /\ result = "none" /\ result' = "none"
      /\ UNCHANGED <<parts, empty, counts, segments, registered>>
  BY DEF HandlePrefetch, Handling
<1>2. results' = results \ {r} /\ dispatched' = dispatched /\ registers' = registers
  <2>1. Task("register") \notin {} /\ registers \in 0..1
    BY DEF IInv, Types
  <2> QED BY <1>1, <2>1 DEF Send
<1>3. Types /\ RegisterOK /\ Unique /\ EarlyOK /\ LateOK
  BY <1>1 DEF IInv
<1>4. Flight' = Flight /\ Unique'
  BY <1>1, <1>2, <1>3 DEF Flight, Unique
<1>5. EarlyOK' /\ LateOK'
  BY <1>1, <1>2, <1>3, <1>4, SameFlight
<1>6. Types' /\ RegisterOK'
  BY <1>1, <1>2, <1>3 DEF Types, RegisterOK, Final, counts, segments
<1> QED BY <1>4, <1>5, <1>6 DEF IInv

LEMMA HandleFetchLogKeeps ==
    ASSUME IInv, NEW r \in results, HandleFetchLog(r)
    PROVE  IInv'
<1>1. /\ result = "none" /\ r.task = Task("fetch")
      /\ UNCHANGED <<parts, empty, counts, segments, registered>>
      /\ \/ result' = "repair" /\ Send(r, {})
         \/ result' = "none" /\ Send(r, {Task("partition")})
  BY DEF HandleFetchLog, Handling
<1>2. CASE result' = "repair" /\ Send(r, {})
  BY <1>1, <1>2, EndKeeps
<1>3. CASE result' = "none" /\ Send(r, {Task("partition")})
  <2> DEFINE u == Task("partition")
  <2>1. u \in Head /\ r.task \in Head /\ u # r.task /\ {u} \ {Task("prefetch")} = {u} /\ {u} \subseteq Tasks
    BY <1>1, TasksDiffer, NamedTasks DEF Head
  <2> HIDE DEF u
  <2>2. Send(r, {u})
    BY <1>3 DEF u
  <2> QED BY <1>1, <1>3, <2>1, <2>2, HeadKeeps
<1> QED BY <1>1, <1>2, <1>3

LEMMA HandleExecuteKeeps ==
    ASSUME IInv, NEW r \in results, HandleExecuteAttachedFunction(r)
    PROVE  IInv'
<1> DEFINE u == Task("partition")
<1>1. /\ result = "none" /\ result' = "none" /\ r.task = Task("execute") /\ Send(r, {u})
      /\ UNCHANGED <<parts, empty, counts, segments, registered>>
  BY DEF HandleExecuteAttachedFunction, Handling
<1>2. u \in Head /\ r.task \in Head /\ u # r.task /\ {u} \ {Task("prefetch")} = {u} /\ {u} \subseteq Tasks
  BY <1>1, TasksDiffer, NamedTasks DEF Head
<1> HIDE DEF u
<1> QED BY <1>1, <1>2, HeadKeeps

(* The last head task is handled: what is in flight next, and how things   *)
(* stand.                                                                  *)
LEMMA HeadIsLast ==
    ASSUME IInv, result = "none", NEW r \in results, r.task \in Head,
           NEW ts, ts \subseteq Tasks, ts \cap (Head \cup {Task("prefetch"), Task("finish")}) = {},
           Send(r, ts)
    PROVE  /\ Flight' = ts /\ Unique' /\ ~Early'
           /\ num_uncompleted_tasks_by_segment = none
           /\ applied = [s \in Segments |-> {}]
           /\ flush_results = none /\ registers = 0 /\ dispatched' = dispatched \cup ts
           /\ Task("register") \notin dispatched
           /\ dispatched' \subseteq Tasks /\ results' \subseteq [task : Tasks, ok : BOOLEAN]
           /\ results' \subseteq results /\ \A q \in results' : q.task = Task("prefetch")
<1>1. Types /\ RegisterOK /\ Unique /\ EarlyOK
  BY DEF IInv
<1>2. r.task # Task("prefetch") /\ Task("register") \notin Head
  BY TasksDiffer DEF Head
<1>3. Early
  BY <1>2 DEF Early, Flight
<1>4. /\ Flight = {r.task} /\ registers = 0 /\ flush_results = none
      /\ num_uncompleted_tasks_by_segment = none /\ applied = [s \in Segments |-> {}]
  BY <1>1, <1>2, <1>3 DEF EarlyOK, Flight
<1>5. /\ Flight' \subseteq (Flight \cup ts) \ {Task("prefetch")}
      /\ (Flight \cup ts) \ {r.task, Task("prefetch")} \subseteq Flight'
      /\ r.task \notin Flight'
      /\ Unique' /\ dispatched' \subseteq Tasks /\ results' \subseteq [task : Tasks, ok : BOOLEAN]
      /\ results' \subseteq results
  <2>1. ts \cap Flight = {} /\ r.task \notin ts
    BY <1>4
  <2> QED BY <1>1, <1>2, <2>1, SendFlight
<1>6. Flight' = ts
  BY <1>4, <1>5
<1>7. ~Early'
  BY <1>6 DEF Early, Head
<1>8. Task("register") \notin dispatched
  <2>1. Task("register") # Task("prefetch")
    BY TasksDiffer
  <2> QED BY <1>2, <1>4, <2>1 DEF Flight
<1>9. \A q \in results' : q.task = Task("prefetch")
  <2>1. ASSUME NEW q \in results'
        PROVE  q.task = Task("prefetch")
    <3>1. q \in results /\ q # r
      BY <2>1 DEF Send
    <3> QED BY <1>1, <1>2, <1>4, <3>1 DEF Unique, Flight
  <2> QED BY <2>1
<1> QED BY <1>4, <1>5, <1>6, <1>7, <1>8, <1>9 DEF Send

(* SegmentOK where nothing has been applied and nothing is under way.      *)
LEMMA Untouched ==
    ASSUME NEW s \in Segments, Applying(s)' = {}, parts' \ empty' \subseteq Materializing',
           num_uncompleted_tasks_by_segment' = none, flush_results' = none,
           applied' = [q \in Segments |-> {}], Commit(s) \notin Flight', Flush(s) \notin Flight',
           \A q \in results' : q.task = Task("prefetch")
    PROVE  SegmentOK(s)'
<1>1. \A p \in Partitions : [task |-> Apply(p, s), ok |-> TRUE] \notin results'
  <2>1. \A p \in Partitions : [task |-> Apply(p, s), ok |-> TRUE].task # Task("prefetch")
    BY TasksDiffer
  <2> QED BY <2>1
<1>2. [task |-> Commit(s), ok |-> TRUE] \notin results'
  <2>1. [task |-> Commit(s), ok |-> TRUE].task # Task("prefetch")
    BY TasksDiffer
  <2> QED BY <2>1
<1>3. DOMAIN none = {}
  BY NoneIs
<1> QED BY <1>1, <1>2, <1>3 DEF SegmentOK

LEMMA HandleSourceKeeps ==
    ASSUME IInv, NEW r \in results, HandleSourceRecordSegment(r)
    PROVE  IInv'
<1>1. /\ result = "none" /\ result' = "none" /\ r.task = Task("source")
      /\ UNCHANGED <<parts, empty, counts, segments, registered>>
      /\ \/ parts = {} /\ Send(r, {Task("register")})
         \/ \E u \in {Task("execute"), Task("partition")} : Send(r, {u})
  BY DEF HandleSourceRecordSegment, Handling
<1>2. r.task \in Head
  BY <1>1 DEF Head
<1>3. CASE \E u \in {Task("execute"), Task("partition")} : Send(r, {u})
  <2>1. PICK u \in {Task("execute"), Task("partition")} : Send(r, {u})
    BY <1>3
  <2>2. u \in Head /\ u # r.task /\ {u} \ {Task("prefetch")} = {u} /\ {u} \subseteq Tasks
    BY <1>1, TasksDiffer, NamedTasks DEF Head
  <2> QED BY <1>1, <1>2, <2>1, <2>2, HeadKeeps
<1>4. CASE parts = {} /\ Send(r, {Task("register")})
  <2> DEFINE ts == {Task("register")}
  <2>1. ts \subseteq Tasks /\ ts \cap (Head \cup {Task("prefetch"), Task("finish")}) = {}
    BY TasksDiffer, NamedTasks DEF Head
  <2>2. Send(r, ts)
    BY <1>4
  <2>3. registers' = registers + 1
    BY <1>4 DEF Send
  <2> HIDE DEF ts
  <2>4. /\ Flight' = ts /\ Unique' /\ ~Early'
        /\ num_uncompleted_tasks_by_segment = none
        /\ applied = [s \in Segments |-> {}]
        /\ flush_results = none /\ registers = 0 /\ dispatched' = dispatched \cup ts
        /\ dispatched' \subseteq Tasks /\ results' \subseteq [task : Tasks, ok : BOOLEAN]
        /\ \A q \in results' : q.task = Task("prefetch")
    BY <1>1, <1>2, <2>1, <2>2, HeadIsLast
  <2>5. UNCHANGED <<num_uncompleted_materialization_tasks, num_uncompleted_tasks_by_segment,
                    applied, committed, flush_results>>
    BY <1>1 DEF counts, segments
  <2>6. Types /\ RegisterOK /\ empty = {}
    BY <1>4 DEF IInv, Types
  <2>7. registers' = 1
    BY <2>3, <2>4
  <2>8. Types'
    BY <1>1, <2>4, <2>5, <2>6, <2>7 DEF Types
  <2>9. RegisterOK'
    BY <1>1, <1>4, <2>4, <2>5, <2>6 DEF RegisterOK, Final
  <2>10. EarlyOK'
    BY <2>4 DEF EarlyOK
  <2>11. Materializing' = {} /\ \A s : /\ Applying(s)' = {} /\ Commit(s) \notin Flight'
                                       /\ Flush(s) \notin Flight'
         /\ Task("finish") \notin Flight'
    BY <2>4, TasksDiffer DEF Materializing, Applying, ts
  <2>12. num_uncompleted_materialization_tasks = 0
    <3>1. Early /\ EarlyOK
      BY <1>1, <1>2, TasksDiffer DEF IInv, Early, Flight, Head
    <3> QED BY <3>1 DEF EarlyOK
  <2>13. \A s \in Segments : SegmentOK(s)'
    BY <1>1, <1>4, <2>4, <2>5, <2>11, Untouched
  <2>14. DomainsOK' /\ DOMAIN num_uncompleted_tasks_by_segment' = {}
    BY <1>1, <1>4, <2>4, <2>5, NoneIs DEF DomainsOK
  <2>15. Cardinality({}) = 0
    BY FS_EmptySet
  <2>16. LateOK'
    BY <2>5, <2>7, <2>11, <2>12, <2>13, <2>14, <2>15 DEF LateOK
  <2> QED BY <2>4, <2>8, <2>9, <2>10, <2>16 DEF IInv
<1> QED BY <1>1, <1>3, <1>4

LEMMA HandlePartitionKeeps ==
    ASSUME IInv, NEW r \in results, HandlePartition(r)
    PROVE  IInv'
<1> DEFINE ts == {Materialize(p) : p \in parts}
<1>1. /\ result = "none" /\ result' = "none" /\ r.task = Task("partition") /\ Send(r, ts)
      /\ num_uncompleted_materialization_tasks' = Cardinality(parts)
      /\ UNCHANGED <<parts, empty, num_uncompleted_tasks_by_segment, applied, committed,
                     flush_results, registered>>
  BY DEF HandlePartition, Handling, segments
<1>2. Types /\ RegisterOK
  BY DEF IInv
<1>3. ts \subseteq Tasks
  BY <1>2 DEF Types, Tasks
<1>4. ts \cap (Head \cup {Task("prefetch"), Task("finish")}) = {} /\ Task("register") \notin ts
  BY TasksDiffer DEF Head
<1>5. /\ \A p \in Partitions : Materialize(p) \in ts <=> p \in parts
      /\ \A p, s : Apply(p, s) \notin ts /\ Commit(s) \notin ts /\ Flush(s) \notin ts
  BY TasksDiffer
<1> HIDE DEF ts
<1>6. r.task \in Head
  BY <1>1 DEF Head
<1>7. /\ Flight' = ts /\ Unique' /\ ~Early'
      /\ num_uncompleted_tasks_by_segment = none
      /\ applied = [s \in Segments |-> {}]
      /\ flush_results = none /\ registers = 0 /\ dispatched' = dispatched \cup ts
      /\ dispatched' \subseteq Tasks /\ results' \subseteq [task : Tasks, ok : BOOLEAN]
      /\ \A q \in results' : q.task = Task("prefetch")
  BY <1>1, <1>3, <1>4, <1>6, HeadIsLast
<1>8. registers' = 0
  BY <1>1, <1>4, <1>7 DEF Send
<1>9. Cardinality(parts) \in Nat
  BY <1>2, OrchestratorAssumption, FS_Subset, FS_CardinalityType DEF Types
<1>10. Types' /\ RegisterOK'
  BY <1>1, <1>2, <1>4, <1>7, <1>8, <1>9 DEF Types, RegisterOK, Final
<1>11. Materializing' = parts /\ \A s : /\ Applying(s)' = {} /\ Commit(s) \notin Flight'
                                        /\ Flush(s) \notin Flight'
  BY <1>2, <1>5, <1>7 DEF Materializing, Applying, Types
<1>12. \A s \in Segments : SegmentOK(s)'
  BY <1>1, <1>7, <1>11, Untouched
<1>13. DomainsOK'
  BY <1>1, <1>7, <1>11, NoneIs DEF DomainsOK
<1>14. EarlyOK' /\ LateOK'
  BY <1>1, <1>4, <1>7, <1>8, <1>11, <1>12, <1>13 DEF EarlyOK, LateOK
<1> QED BY <1>7, <1>10, <1>14 DEF IInv

(* The result of a task after the head is handled.                         *)
LEMMA LateStep ==
    ASSUME IInv, result = "none", NEW r \in results,
           r.task \notin Head \cup {Task("prefetch"), Task("finish")},
           NEW ts, ts \subseteq Tasks, ts \cap Flight = {}, r.task \notin ts,
           ts \cap (Head \cup {Task("prefetch")}) = {},
           Task("finish") \in ts => registers = 1, Send(r, ts)
    PROVE  /\ ~Early /\ LateOK /\ r.task \in Flight
           /\ Flight' = (Flight \ {r.task}) \cup ts
           /\ Unique' /\ ~Early'
           /\ dispatched' \subseteq Tasks /\ results' \subseteq [task : Tasks, ok : BOOLEAN]
           /\ results' \subseteq results /\ dispatched' = dispatched \cup ts
<1>1. Types /\ Unique /\ EarlyOK /\ LateOK
  BY DEF IInv
<1>2. /\ Flight' \subseteq (Flight \cup ts) \ {Task("prefetch")}
      /\ (Flight \cup ts) \ {r.task, Task("prefetch")} \subseteq Flight'
      /\ r.task \notin Flight'
      /\ Unique' /\ dispatched' \subseteq Tasks /\ results' \subseteq [task : Tasks, ok : BOOLEAN]
      /\ results' \subseteq results /\ r.task \in Flight
  BY <1>1, SendFlight
<1>3. ~Early
  BY <1>1, <1>2 DEF EarlyOK
<1>4. Flight' = (Flight \ {r.task}) \cup ts
  <2>1. Task("prefetch") \notin Flight
    BY DEF Flight
  <2> QED BY <1>2, <2>1
<1>5. ~Early'
  <2>1. Head \cap Flight' = {}
    BY <1>3, <1>4 DEF Early, Head
  <2>2. registers' \in {registers, registers + 1} /\ registers \in {0, 1}
    BY <1>1 DEF Send, Types
  <2>3. Task("finish") \in Flight' => registers = 1
    BY <1>3, <1>4, <2>2 DEF Early
  <2>4. registers = 1 => registers' # 0
    BY <2>2
  <2> QED BY <2>1, <2>3, <2>4 DEF Early, Head
<1> QED BY <1>1, <1>2, <1>3, <1>4, <1>5 DEF Send

(* No task of this name is one of the head.                                *)
LEMMA LateNames ==
    ASSUME NEW t \in Tasks,
           t.name \in {"materialize", "apply", "commit", "flush", "register"}
    PROVE  t \notin Head \cup {Task("prefetch"), Task("finish")}
BY NameOf DEF Head

(* HandleMaterializeLog: an empty partition, ...                           *)
LEMMA HandleEmptyKeeps ==
    ASSUME IInv, NEW r \in results, HandleMaterializeLog(r), r.task.partition \in empty
    PROVE  IInv'
<1> DEFINE p == r.task.partition
           ts == IF NothingToFlush THEN {Task("register")} ELSE {}
           N == num_uncompleted_materialization_tasks
           U == num_uncompleted_tasks_by_segment
<1>1. /\ result = "none" /\ result' = "none" /\ r.task.name = "materialize"
      /\ Send(r, ts) /\ N' = N - 1
      /\ UNCHANGED <<U, parts, empty, applied, committed, flush_results, registered>>
  BY DEF HandleMaterializeLog, Handling, segments
<1>2. Types /\ RegisterOK /\ r.task \in Tasks
  BY DEF IInv, Types
<1>3. p \in Partitions /\ r.task = Materialize(p)
  BY <1>1, <1>2, TaskNames
<1>4. r.task \notin Head \cup {Task("prefetch"), Task("finish")}
  BY <1>1, <1>2, LateNames
<1>5. ~Early /\ LateOK /\ r.task \in Flight
  BY <1>1, <1>4 DEF IInv, EarlyOK, Flight
<1>6. /\ Materializing \subseteq parts /\ N = Cardinality(Materializing) /\ p \in Materializing
      /\ \A s \in Segments : SegmentOK(s)
      /\ DomainsOK
      /\ registers = 1 => Materializing = {}
      /\ Task("register") \in Flight => registers = 1
  BY <1>3, <1>5 DEF LateOK, Materializing
<1>7. registers = 0 /\ Task("register") \notin Flight
  BY <1>2, <1>6 DEF Types
<1>8. ts \subseteq {Task("register")} /\ (ts = {} \/ NothingToFlush)
  OBVIOUS
<1> HIDE DEF ts
<1>9. /\ Flight' = (Flight \ {r.task}) \cup ts /\ Unique' /\ ~Early'
      /\ dispatched' \subseteq Tasks /\ results' \subseteq [task : Tasks, ok : BOOLEAN]
      /\ results' \subseteq results /\ dispatched' = dispatched \cup ts
  <2>1. ts \subseteq Tasks /\ ts \cap Flight = {} /\ r.task \notin ts
        /\ ts \cap (Head \cup {Task("prefetch")}) = {} /\ Task("finish") \notin ts
    BY <1>3, <1>7, <1>8, TasksDiffer, NamedTasks DEF Head
  <2> QED BY <1>1, <1>4, <2>1, LateStep
<1>10. /\ Materializing' = Materializing \ {p} /\ \A s : Applying(s)' = Applying(s)
       /\ \A s : /\ Commit(s) \in Flight' <=> Commit(s) \in Flight
                 /\ Flush(s) \in Flight' <=> Flush(s) \in Flight
  BY <1>3, <1>8, <1>9, TasksDiffer DEF Materializing, Applying
<1>11. IsFiniteSet(Materializing) /\ N \in Nat
  BY <1>2, <1>6, OrchestratorAssumption, FS_Subset, FS_CardinalityType DEF Types
<1>12. N' = Cardinality(Materializing') /\ N' \in Nat
  <2>1. Cardinality(Materializing \ {p}) = Cardinality(Materializing) - 1
        /\ IsFiniteSet(Materializing \ {p})
    BY <1>6, <1>11, FS_RemoveElement
  <2>2. Cardinality(Materializing \ {p}) \in Nat
    BY <2>1, FS_CardinalityType
  <2> QED BY <1>1, <1>6, <1>10, <2>1, <2>2
<1>13. DOMAIN flush_results = {}
  BY <1>2, <1>6 DEF SegmentOK, Types
<1>14. ASSUME ts # {}
       PROVE  /\ ts = {Task("register")} /\ Materializing = {p} /\ DOMAIN U = {} /\ parts = empty
              /\ flush_results = Final
  <2>1. N = 1 /\ U = none /\ ts = {Task("register")}
    BY <1>8, <1>14 DEF NothingToFlush
  <2>2. Materializing = {p}
    <3>1. Cardinality(Materializing \ {p}) = Cardinality(Materializing) - 1
          /\ IsFiniteSet(Materializing \ {p})
      BY <1>6, <1>11, FS_RemoveElement
    <3>2. Cardinality(Materializing \ {p}) = 0
      BY <1>6, <2>1, <3>1
    <3>3. Materializing \ {p} = {}
      BY <3>1, <3>2, FS_EmptySet
    <3> QED BY <1>6, <3>3
  <2>3. DOMAIN U = {}
    BY <2>1, NoneIs
  <2>4. parts \ empty \subseteq Materializing
    BY <1>6, <1>13, <2>3, OrchestratorAssumption DEF DomainsOK
  <2>5. parts = empty
    BY <1>2, <2>2, <2>4 DEF Types
  <2>6. flush_results = none
    BY <1>2, <1>13, NoneIs DEF Types
  <2> QED BY <2>1, <2>2, <2>3, <2>5, <2>6 DEF Final
<1>15. registers' = IF ts = {} THEN 0 ELSE 1
  BY <1>1, <1>7, <1>14 DEF Send
<1>16. Types'
  BY <1>1, <1>2, <1>9, <1>12, <1>15 DEF Types
<1>17. Final' = Final
  BY <1>1 DEF Final
<1>18. RegisterOK'
  BY <1>1, <1>2, <1>9, <1>14, <1>17 DEF RegisterOK
<1>19. ASSUME NEW s \in Segments
       PROVE  SegmentOK(s)'
  <2>1. SegmentOK(s)
    BY <1>6
  <2>2. Materializing # {}
    BY <1>6
  <2> QED BY <1>1, <1>9, <1>10, <2>1, <2>2 DEF SegmentOK
<1>20. DomainsOK'
  BY <1>1, <1>6, <1>10 DEF DomainsOK
<1>21. (Task("register") \in Flight' => ts # {}) /\ Task("finish") \notin Flight'
  BY <1>5, <1>7, <1>8, <1>9, TasksDiffer DEF Early
<1>22. LateOK'
  BY <1>1, <1>6, <1>10, <1>12, <1>14, <1>15, <1>19, <1>20, <1>21 DEF LateOK
<1> QED BY <1>1, <1>9, <1>16, <1>18, <1>22 DEF IInv, EarlyOK

(* ... and one that is to be applied.                                      *)
LEMMA HandleNonemptyKeeps ==
    ASSUME IInv, NEW r \in results, HandleMaterializeLog(r), r.task.partition \notin empty
    PROVE  IInv'
<1> DEFINE p == r.task.partition
           ts == {Apply(p, s) : s \in Segments}
           N == num_uncompleted_materialization_tasks
           U == num_uncompleted_tasks_by_segment
<1>1. /\ result = "none" /\ result' = "none" /\ r.task.name = "materialize"
      /\ Send(r, ts) /\ N' = N - 1
      /\ U' = [s \in Segments |-> IF s \in DOMAIN U THEN U[s] + 1 ELSE 1]
      /\ UNCHANGED <<parts, empty, applied, committed, flush_results, registered>>
  BY DEF HandleMaterializeLog, Handling, segments
<1>2. Types /\ RegisterOK /\ r.task \in Tasks
  BY DEF IInv, Types
<1>3. p \in Partitions /\ r.task = Materialize(p)
  BY <1>1, <1>2, TaskNames
<1>4. r.task \notin Head \cup {Task("prefetch"), Task("finish")}
  BY <1>1, <1>2, LateNames
<1>5. ~Early /\ LateOK /\ r.task \in Flight
  BY <1>1, <1>4 DEF IInv, EarlyOK, Flight
<1>6. /\ Materializing \subseteq parts /\ N = Cardinality(Materializing) /\ p \in Materializing
      /\ \A s \in Segments : SegmentOK(s)
      /\ registers = 1 => Materializing = {}
      /\ Task("register") \in Flight => registers = 1
  BY <1>3, <1>5 DEF LateOK, Materializing
<1>7. registers = 0 /\ Task("register") \notin Flight
  BY <1>2, <1>6 DEF Types
<1>8. \A s \in Segments : p \notin Applying(s)
  BY <1>6 DEF SegmentOK
<1>9. /\ ts \subseteq Tasks /\ ts \cap Flight = {} /\ r.task \notin ts
      /\ ts \cap (Head \cup {Task("prefetch")}) = {} /\ Task("finish") \notin ts
      /\ Task("register") \notin ts
  <2>1. ts \subseteq Tasks
    BY <1>3 DEF Tasks
  <2>2. ts \cap Flight = {}
    BY <1>3, <1>8 DEF Applying
  <2> QED BY <1>3, <2>1, <2>2, TasksDiffer DEF Head
<1>10. /\ \A q, s : s \in Segments => (Apply(q, s) \in ts <=> q = p)
       /\ \A q, s : Materialize(q) \notin ts /\ Commit(s) \notin ts /\ Flush(s) \notin ts
  BY TasksDiffer
<1> HIDE DEF ts
<1>11. /\ Flight' = (Flight \ {r.task}) \cup ts /\ Unique' /\ ~Early'
       /\ dispatched' \subseteq Tasks /\ results' \subseteq [task : Tasks, ok : BOOLEAN]
       /\ results' \subseteq results /\ dispatched' = dispatched \cup ts
  BY <1>1, <1>4, <1>9, LateStep
<1>12. /\ Materializing' = Materializing \ {p}
       /\ \A s \in Segments : /\ Applying(s)' = Applying(s) \cup {p}
                              /\ Commit(s) \in Flight' <=> Commit(s) \in Flight
                              /\ Flush(s) \in Flight' <=> Flush(s) \in Flight
  BY <1>3, <1>10, <1>11, TasksDiffer DEF Materializing, Applying
<1>13. N' = Cardinality(Materializing') /\ N' \in Nat
  <2>1. IsFiniteSet(Materializing)
    BY <1>2, <1>6, OrchestratorAssumption, FS_Subset DEF Types
  <2>2. Cardinality(Materializing \ {p}) = Cardinality(Materializing) - 1
        /\ IsFiniteSet(Materializing \ {p})
    BY <1>6, <2>1, FS_RemoveElement
  <2>3. Cardinality(Materializing \ {p}) \in Nat
    BY <2>2, FS_CardinalityType
  <2> QED BY <1>1, <1>6, <1>12, <2>2, <2>3
<1>14. DOMAIN flush_results = {} /\ DOMAIN U' = Segments
  BY <1>1, <1>2, <1>6 DEF SegmentOK, Types
<1>15. registers' = 0
  BY <1>1, <1>7, <1>9 DEF Send
<1>16. Types'
  <2>1. IsFunction(U')
    BY <1>1 DEF IsFunction
  <2> QED BY <1>1, <1>2, <1>11, <1>13, <1>14, <1>15, <2>1 DEF Types
<1>17. RegisterOK'
  <2>1. Final' = Final
    BY <1>1 DEF Final
  <2> QED BY <1>1, <1>2, <1>9, <1>11, <2>1 DEF RegisterOK
<1>18. ASSUME NEW s \in Segments
       PROVE  SegmentOK(s)'
  <2>1. SegmentOK(s) /\ Materializing # {}
    BY <1>6
  <2>2. IsFiniteSet(Applying(s))
    BY <1>2, <2>1, OrchestratorAssumption, FS_Subset DEF Types, Applying
  <2>3. Cardinality(Applying(s)') = Cardinality(Applying(s)) + 1
    BY <1>8, <1>12, <2>2, FS_AddElement
  <2>4. U'[s] = Cardinality(Applying(s)')
    <3>1. CASE s \in DOMAIN U
      BY <1>1, <2>1, <2>3, <3>1 DEF SegmentOK
    <3>2. CASE s \notin DOMAIN U
      <4>1. Applying(s) = {}
        BY <2>1, <3>2 DEF SegmentOK
      <4>2. Cardinality(Applying(s)) = 0
        BY <4>1, FS_EmptySet
      <4> QED BY <1>1, <2>3, <3>2, <4>2
    <3> QED BY <3>1, <3>2
  <2>5. Commit(s) \notin Flight' /\ Flush(s) \notin Flight' /\ s \notin DOMAIN flush_results'
    BY <1>1, <1>12, <1>14, <2>1 DEF SegmentOK
  <2>6. p \in parts \ empty
    BY <1>6
  <2>7. [task |-> Commit(s), ok |-> TRUE] \notin results'
    <3>1. ASSUME [task |-> Commit(s), ok |-> TRUE] \in results
          PROVE  FALSE
      <4>1. [task |-> Commit(s), ok |-> TRUE].task = Commit(s) /\ Commit(s) # Task("prefetch")
        BY TasksDiffer
      <4>2. Commit(s) \in Flight
        BY <3>1, <4>1 DEF Flight
      <4> QED BY <1>12, <2>5, <4>2
    <3> QED BY <1>11, <3>1
  <2> QED BY <1>1, <1>11, <1>12, <1>14, <2>1, <2>4, <2>5, <2>6, <2>7 DEF SegmentOK
<1>19. DomainsOK'
  <2>1. parts # empty
    BY <1>6
  <2> QED BY <1>1, <1>14, <2>1 DEF DomainsOK
<1>20. Task("register") \notin Flight'
  BY <1>7, <1>9, <1>11
<1>21. LateOK'
  BY <1>1, <1>6, <1>12, <1>13, <1>15, <1>18, <1>19, <1>20 DEF LateOK
<1> QED BY <1>1, <1>11, <1>16, <1>17, <1>21 DEF IInv, EarlyOK

(* ... and one for which there are no writers: the end.                    *)
LEMMA HandleMissingWritersKeeps ==
    ASSUME IInv, NEW r \in results, HandleMissingWriters(r)
    PROVE  IInv'
<1> DEFINE N == num_uncompleted_materialization_tasks
<1>1. /\ result = "none" /\ result' = "error" /\ r.task.name = "materialize"
      /\ Send(r, {}) /\ N' = N - 1
      /\ UNCHANGED <<num_uncompleted_tasks_by_segment, parts, empty, applied, committed,
                     flush_results, registered>>
  BY DEF HandleMissingWriters, Handling, segments
<1>2. Types /\ RegisterOK /\ r.task \in Tasks
  BY DEF IInv, Types
<1>3. r.task.partition \in Partitions /\ r.task = Materialize(r.task.partition)
  BY <1>1, <1>2, TaskNames
<1>4. r.task \notin Head \cup {Task("prefetch"), Task("finish")}
  BY <1>1, <1>2, LateNames
<1>5. ~Early /\ LateOK /\ r.task \in Flight
  BY <1>1, <1>4 DEF IInv, EarlyOK, Flight
<1>6. N = Cardinality(Materializing) /\ r.task.partition \in Materializing
  BY <1>3, <1>5 DEF LateOK, Materializing
<1>7. N \in Nat /\ N # 0
  <2>1. IsFiniteSet(Materializing)
    BY OrchestratorAssumption, FS_Subset DEF Materializing
  <2> QED BY <1>6, <2>1, FS_EmptySet, FS_CardinalityType
<1>8. results' \subseteq results /\ dispatched' = dispatched /\ registers' = registers
  <2>1. Task("register") \notin {} /\ registers \in 0..1
    BY <1>2 DEF Types
  <2> QED BY <1>1, <2>1 DEF Send
<1>9. Types'
  <2>1. N' \in Nat
    BY <1>1, <1>7
  <2> QED BY <1>1, <1>2, <1>8, <2>1 DEF Types
<1>10. RegisterOK'
  BY <1>1, <1>2, <1>8 DEF RegisterOK, Final
<1> QED BY <1>1, <1>9, <1>10 DEF IInv

LEMMA HandleApplyLogKeeps ==
    ASSUME IInv, NEW r \in results, HandleApplyLog(r)
    PROVE  IInv'
<1> DEFINE p == r.task.partition
           c == r.task.segment
           U == num_uncompleted_tasks_by_segment
           left == U[c] - 1
           ts == IF CommitNow(left) THEN {Commit(c)} ELSE {}
           N == num_uncompleted_materialization_tasks
<1>1. /\ result = "none" /\ result' = "none" /\ r.task.name = "apply" /\ r.ok
      /\ Send(r, ts) /\ U' = [U EXCEPT ![c] = left]
      /\ UNCHANGED <<N, parts, empty, applied, committed, flush_results, registered>>
  BY DEF HandleApplyLog, Handling, segments
<1>2. Types /\ RegisterOK /\ r.task \in Tasks /\ r = [task |-> r.task, ok |-> r.ok]
  BY DEF IInv, Types
<1>3. p \in Partitions /\ c \in Segments /\ r.task = Apply(p, c)
  BY <1>1, <1>2, TaskNames
<1>4. r.task \notin Head \cup {Task("prefetch"), Task("finish")}
  BY <1>1, <1>2, LateNames
<1>5. ~Early /\ LateOK /\ r.task \in Flight
  BY <1>1, <1>4 DEF IInv, EarlyOK, Flight
<1>6. /\ Materializing \subseteq parts /\ N = Cardinality(Materializing) /\ p \in Applying(c)
      /\ \A s \in Segments : SegmentOK(s)
      /\ DomainsOK
      /\ registers = 1 => DOMAIN U = {}
      /\ Task("register") \in Flight => registers = 1
  BY <1>3, <1>5 DEF LateOK, Applying
<1>7. c \in DOMAIN U /\ U[c] = Cardinality(Applying(c)) /\ p \in applied[c]
      /\ Commit(c) \notin Flight /\ Flush(c) \notin Flight
  <2>1. SegmentOK(c)
    BY <1>3, <1>6
  <2>2. r = [task |-> Apply(p, c), ok |-> TRUE]
    BY <1>1, <1>2, <1>3
  <2> HIDE DEF p, c
  <2> QED BY <1>3, <1>6, <2>1, <2>2 DEF SegmentOK
<1>8. registers = 0 /\ Task("register") \notin Flight
  BY <1>2, <1>6, <1>7 DEF Types
<1>9. IsFiniteSet(Applying(c)) /\ IsFiniteSet(Materializing)
  BY OrchestratorAssumption, FS_Subset DEF Applying, Materializing
<1>10. Cardinality(Applying(c) \ {p}) = left /\ IsFiniteSet(Applying(c) \ {p})
  BY <1>6, <1>7, <1>9, FS_RemoveElement
<1>11. ts # {} => ts = {Commit(c)} /\ Applying(c) \ {p} = {} /\ Materializing = {}
  BY <1>6, <1>9, <1>10, FS_EmptySet DEF CommitNow
<1>12. ts \subseteq {Commit(c)}
  OBVIOUS
<1> HIDE DEF ts
<1>13. /\ Flight' = (Flight \ {r.task}) \cup ts /\ Unique' /\ ~Early'
       /\ dispatched' \subseteq Tasks /\ results' \subseteq [task : Tasks, ok : BOOLEAN]
       /\ results' \subseteq results /\ dispatched' = dispatched \cup ts
  <2>1. ts \subseteq Tasks
    BY <1>3, <1>12 DEF Tasks
  <2>2. ts \cap Flight = {} /\ r.task \notin ts
        /\ ts \cap (Head \cup {Task("prefetch")}) = {} /\ Task("finish") \notin ts
    BY <1>3, <1>7, <1>12, TasksDiffer DEF Head
  <2> QED BY <1>1, <1>4, <2>1, <2>2, LateStep
<1>14. /\ Materializing' = Materializing
       /\ \A s \in Segments : Applying(s)' = IF s = c THEN Applying(s) \ {p} ELSE Applying(s)
       /\ \A s \in Segments : /\ Flush(s) \in Flight' <=> Flush(s) \in Flight
                              /\ s # c => (Commit(s) \in Flight' <=> Commit(s) \in Flight)
       /\ Commit(c) \in Flight' => ts # {}
       /\ Task("register") \notin Flight' /\ Task("register") \notin ts
  BY <1>3, <1>7, <1>8, <1>12, <1>13, TasksDiffer DEF Materializing, Applying
<1>15. registers' = 0
  BY <1>1, <1>8, <1>14 DEF Send
<1>16. DOMAIN U' = DOMAIN U /\ U'[c] = left /\ \A s \in DOMAIN U : s # c => U'[s] = U[s]
  BY <1>1, <1>2, <1>7 DEF Types, IsFunction
<1>17. Types'
  <2>1. IsFunction(U')
    BY <1>1, <1>2 DEF Types, IsFunction
  <2> QED BY <1>1, <1>2, <1>13, <1>15, <1>16, <2>1 DEF Types
<1>18. RegisterOK'
  <2>1. Final' = Final
    BY <1>1 DEF Final
  <2> QED BY <1>1, <1>2, <1>13, <1>14, <2>1 DEF RegisterOK
<1>19. ASSUME NEW s \in Segments
       PROVE  SegmentOK(s)'
  <2>1. SegmentOK(s)
    BY <1>6
  <2>2. CASE s # c
    <3> HIDE DEF c, p, left
    <3> QED BY <1>1, <1>13, <1>14, <1>16, <2>1, <2>2 DEF SegmentOK
  <2>3. CASE s = c
    <3>1. Applying(c)' = Applying(c) \ {p}
      BY <1>3, <1>14
    <3>2. [task |-> Commit(c), ok |-> TRUE] \notin results'
      <4>1. [task |-> Commit(c), ok |-> TRUE].task = Commit(c) /\ Commit(c) # Task("prefetch")
        BY TasksDiffer
      <4> QED BY <1>7, <1>13, <4>1 DEF Flight
    <3>3. Flush(c) \notin Flight'
      BY <1>3, <1>7, <1>14
    <3> HIDE DEF c, p, left
    <3> QED BY <1>1, <1>7, <1>10, <1>11, <1>13, <1>14, <1>16, <2>1, <2>3, <3>1, <3>2, <3>3 DEF SegmentOK
  <2> QED BY <2>2, <2>3
<1>20. DomainsOK'
  BY <1>1, <1>6, <1>14, <1>16 DEF DomainsOK
<1>21. LateOK'
  BY <1>1, <1>6, <1>14, <1>15, <1>19, <1>20 DEF LateOK
<1> QED BY <1>1, <1>13, <1>17, <1>18, <1>21 DEF IInv, EarlyOK

LEMMA HandleCommitKeeps ==
    ASSUME IInv, NEW r \in results, HandleCommit(r)
    PROVE  IInv'
<1> DEFINE c == r.task.segment
           ts == {Flush(c)}
<1>1. /\ result = "none" /\ result' = "none" /\ r.task.name = "commit" /\ r.ok
      /\ Send(r, ts)
      /\ UNCHANGED <<parts, empty, num_uncompleted_materialization_tasks,
                     num_uncompleted_tasks_by_segment, applied, committed, flush_results, registered>>
  BY DEF HandleCommit, Handling, segments, counts
<1>2. Types /\ RegisterOK /\ r.task \in Tasks /\ r = [task |-> r.task, ok |-> r.ok]
  BY DEF IInv, Types
<1>3. c \in Segments /\ r.task = Commit(c)
  BY <1>1, <1>2, TaskNames
<1>4. r.task \notin Head \cup {Task("prefetch"), Task("finish")}
  BY <1>1, <1>2, LateNames
<1>5. ~Early /\ LateOK /\ r.task \in Flight
  BY <1>1, <1>4 DEF IInv, EarlyOK, Flight
<1>6. \A s \in Segments : SegmentOK(s)
  BY <1>5 DEF LateOK
<1>7. Flush(c) \notin Flight /\ c \in DOMAIN committed /\ committed[c] = parts \ empty
  <2>1. SegmentOK(c)
    BY <1>3, <1>6
  <2>2. r = [task |-> Commit(c), ok |-> TRUE]
    BY <1>1, <1>2, <1>3
  <2> HIDE DEF c
  <2> QED BY <1>3, <1>5, <2>1, <2>2 DEF SegmentOK
<1>8. /\ Flight' = (Flight \ {r.task}) \cup ts /\ Unique' /\ ~Early'
      /\ dispatched' \subseteq Tasks /\ results' \subseteq [task : Tasks, ok : BOOLEAN]
      /\ results' \subseteq results /\ dispatched' = dispatched \cup ts
  <2>1. ts \subseteq Tasks
    BY <1>3 DEF Tasks
  <2>2. ts \cap Flight = {} /\ r.task \notin ts
        /\ ts \cap (Head \cup {Task("prefetch")}) = {} /\ Task("finish") \notin ts
    BY <1>3, <1>7, TasksDiffer DEF Head
  <2> HIDE DEF ts
  <2> QED BY <1>1, <1>4, <2>1, <2>2, LateStep
<1>9. /\ Materializing' = Materializing /\ \A s \in Segments : Applying(s)' = Applying(s)
      /\ \A s \in Segments : /\ Flush(s) \in Flight' <=> s = c \/ Flush(s) \in Flight
                             /\ Commit(s) \in Flight' <=> s # c /\ Commit(s) \in Flight
      /\ Task("register") \in Flight' => Task("register") \in Flight
      /\ Task("finish") \in Flight' => Task("finish") \in Flight
      /\ Task("register") \notin ts
  BY <1>3, <1>8, TasksDiffer DEF Materializing, Applying
<1> HIDE DEF ts
<1>10. registers' = registers
  BY <1>1, <1>2, <1>9 DEF Send, Types
<1>11. Types' /\ RegisterOK'
  BY <1>1, <1>2, <1>8, <1>9, <1>10 DEF Types, RegisterOK, Final
<1>12. ASSUME NEW s \in Segments
       PROVE  SegmentOK(s)'
  <2>1. SegmentOK(s) /\ SegmentOK(c)
    BY <1>3, <1>6
  <2> HIDE DEF c
  <2> QED BY <1>1, <1>3, <1>5, <1>7, <1>8, <1>9, <2>1 DEF SegmentOK
<1>13. DomainsOK'
  BY <1>1, <1>5, <1>9 DEF LateOK, DomainsOK
<1>14. LateOK'
  BY <1>1, <1>5, <1>9, <1>10, <1>12, <1>13 DEF LateOK
<1> QED BY <1>1, <1>8, <1>11, <1>14 DEF IInv, EarlyOK

LEMMA HandleFlushKeeps ==
    ASSUME IInv, NEW r \in results, HandleFlush(r)
    PROVE  IInv'
<1> DEFINE c == r.task.segment
           U == num_uncompleted_tasks_by_segment
           rest == [t \in DOMAIN U \ {c} |-> U[t]]
           ts == IF RegisterNow(rest) THEN {Task("register")} ELSE {}
<1>1. /\ result = "none" /\ result' = "none" /\ r.task.name = "flush"
      /\ Send(r, ts) /\ U' = rest /\ flush_results' = With(flush_results, c, committed[c])
      /\ UNCHANGED <<parts, empty, num_uncompleted_materialization_tasks, applied, committed,
                     registered>>
  BY DEF HandleFlush, Handling
<1>2. Types /\ RegisterOK /\ r.task \in Tasks
  BY DEF IInv, Types
<1>3. c \in Segments /\ r.task = Flush(c)
  BY <1>1, <1>2, TaskNames
<1>4. r.task \notin Head \cup {Task("prefetch"), Task("finish")}
  BY <1>1, <1>2, LateNames
<1>5. ~Early /\ LateOK /\ r.task \in Flight
  BY <1>1, <1>4 DEF IInv, EarlyOK, Flight
<1>6. /\ \A s \in Segments : SegmentOK(s)
      /\ DomainsOK
      /\ registers = 1 => DOMAIN U = {}
      /\ Task("register") \in Flight => registers = 1
  BY <1>5 DEF LateOK
<1>7. /\ c \in DOMAIN U /\ Materializing = {} /\ Applying(c) = {} /\ Commit(c) \notin Flight
      /\ committed[c] = parts \ empty
  <2>1. SegmentOK(c)
    BY <1>3, <1>6
  <2> HIDE DEF c
  <2> QED BY <1>3, <1>5, <2>1 DEF SegmentOK
<1>8. registers = 0 /\ Task("register") \notin Flight
  BY <1>2, <1>6, <1>7 DEF Types
<1>9. ts \subseteq {Task("register")} /\ (ts # {} => rest = none)
  BY DEF RegisterNow
<1>10. IsFunction(rest) /\ DOMAIN rest = DOMAIN U \ {c} /\ \A s \in DOMAIN rest : rest[s] = U[s]
  BY DEF IsFunction
<1> HIDE DEF ts, rest
<1>11. /\ Flight' = (Flight \ {r.task}) \cup ts /\ Unique' /\ ~Early'
       /\ dispatched' \subseteq Tasks /\ results' \subseteq [task : Tasks, ok : BOOLEAN]
       /\ results' \subseteq results /\ dispatched' = dispatched \cup ts
  <2>1. ts \subseteq Tasks /\ ts \cap Flight = {} /\ r.task \notin ts
        /\ ts \cap (Head \cup {Task("prefetch")}) = {} /\ Task("finish") \notin ts
    BY <1>3, <1>8, <1>9, TasksDiffer, NamedTasks DEF Head
  <2> QED BY <1>1, <1>4, <2>1, LateStep
<1>12. /\ Materializing' = Materializing /\ \A s \in Segments : Applying(s)' = Applying(s)
       /\ \A s \in Segments : /\ Flush(s) \in Flight' <=> s # c /\ Flush(s) \in Flight
                              /\ Commit(s) \in Flight' <=> Commit(s) \in Flight
       /\ (Task("register") \in Flight' => ts # {}) /\ Task("finish") \notin Flight'
  BY <1>3, <1>5, <1>8, <1>9, <1>11, TasksDiffer DEF Materializing, Applying, Early
<1>13. /\ IsFunction(flush_results') /\ DOMAIN flush_results' = DOMAIN flush_results \cup {c}
       /\ flush_results'[c] = parts \ empty
       /\ \A s \in DOMAIN flush_results : s # c => flush_results'[s] = flush_results[s]
  BY <1>1, <1>7 DEF With, IsFunction
<1>14. registers' = IF ts = {} THEN 0 ELSE 1
  BY <1>1, <1>8, <1>9 DEF Send
<1>15. Types'
  BY <1>1, <1>2, <1>3, <1>10, <1>11, <1>13, <1>14 DEF Types
<1>16. ASSUME NEW s \in Segments
       PROVE  SegmentOK(s)'
  <2>1. SegmentOK(s)
    BY <1>6
  <2>2. CASE s = c
    <3>1. [task |-> Commit(c), ok |-> TRUE] \notin results'
      <4>1. [task |-> Commit(c), ok |-> TRUE].task = Commit(c) /\ Commit(c) # Task("prefetch")
        BY TasksDiffer
      <4> QED BY <1>7, <1>11, <4>1 DEF Flight
    <3> HIDE DEF c
    <3> QED BY <1>1, <1>7, <1>10, <1>11, <1>12, <1>13, <2>1, <2>2, <3>1 DEF SegmentOK
  <2>3. CASE s # c
    <3> HIDE DEF c
    <3> QED BY <1>1, <1>7, <1>10, <1>11, <1>12, <1>13, <2>1, <2>3 DEF SegmentOK
  <2> QED BY <2>2, <2>3
<1>17. parts # empty /\ DOMAIN U' \cup DOMAIN flush_results' = Segments
  BY <1>1, <1>6, <1>7, <1>10, <1>13 DEF DomainsOK
<1>18. ts # {} => DOMAIN U' = {} /\ flush_results' = Final
  <2> SUFFICES ASSUME ts # {}
               PROVE  DOMAIN U' = {} /\ flush_results' = Final
    OBVIOUS
  <2>1. DOMAIN U' = {}
    BY <1>1, <1>9, NoneIs
  <2>2. DOMAIN flush_results' = Segments
    BY <1>17, <2>1
  <2>3. ASSUME NEW s \in Segments
        PROVE  flush_results'[s] = parts \ empty
    <3>1. SegmentOK(s)'
      BY <1>16
    <3> QED BY <1>1, <2>2, <3>1 DEF SegmentOK
  <2>4. flush_results' = [s \in Segments |-> parts \ empty]
    BY <1>13, <2>2, <2>3 DEF IsFunction
  <2> QED BY <1>17, <2>1, <2>4 DEF Final
<1>19. Task("register") \notin dispatched
  <2>1. Task("register") # Task("prefetch")
    BY TasksDiffer
  <2> QED BY <1>8, <2>1 DEF Flight
<1>20. RegisterOK'
  <2>1. Final' = Final
    BY <1>1 DEF Final
  <2> QED BY <1>1, <1>2, <1>11, <1>18, <1>19, <2>1 DEF RegisterOK
<1>21. DomainsOK'
  BY <1>1, <1>17 DEF DomainsOK
<1>22. LateOK'
  BY <1>1, <1>5, <1>7, <1>12, <1>14, <1>16, <1>18, <1>21 DEF LateOK
<1> QED BY <1>1, <1>11, <1>15, <1>20, <1>22 DEF IInv, EarlyOK

LEMMA HandleRegisterKeeps ==
    ASSUME IInv, NEW r \in results, HandleRegister(r)
    PROVE  IInv'
<1>1. /\ result = "none" /\ r.task = Task("register")
      /\ UNCHANGED <<parts, empty, counts, segments, registered>>
      /\ \/ result' = "success" /\ Send(r, {})
         \/ result' = "none" /\ Send(r, {Task("finish")})
  BY DEF HandleRegister, Handling
<1>2. CASE result' = "success" /\ Send(r, {})
  BY <1>1, <1>2, EndKeeps
<1>3. CASE result' = "none" /\ Send(r, {Task("finish")})
  <2> DEFINE ts == {Task("finish")}
  <2>1. Types /\ RegisterOK
    BY DEF IInv
  <2>2. r.task \notin Head \cup {Task("prefetch"), Task("finish")}
    BY <1>1, TasksDiffer DEF Head
  <2>3. ~Early /\ LateOK /\ r.task \in Flight
    BY <1>1, <2>2 DEF IInv, EarlyOK, Flight
  <2>4. registers = 1 /\ Task("finish") \notin Flight
    BY <1>1, <2>3 DEF LateOK
  <2>5. CASE Task("finish") \notin Flight
    <3>1. /\ Flight' = (Flight \ {r.task}) \cup ts /\ Unique' /\ ~Early'
          /\ dispatched' \subseteq Tasks /\ results' \subseteq [task : Tasks, ok : BOOLEAN]
          /\ results' \subseteq results /\ dispatched' = dispatched \cup ts
      <4>1. ts \subseteq Tasks /\ ts \cap Flight = {} /\ r.task \notin ts
            /\ ts \cap (Head \cup {Task("prefetch")}) = {}
        BY <1>1, <2>5, TasksDiffer, NamedTasks DEF Head
      <4>2. Send(r, ts)
        BY <1>3
      <4> HIDE DEF ts
      <4> QED BY <1>1, <2>2, <2>4, <4>1, <4>2, LateStep
    <3>2. /\ Materializing' = Materializing /\ \A s : Applying(s)' = Applying(s)
          /\ \A s : /\ Flush(s) \in Flight' <=> Flush(s) \in Flight
                    /\ Commit(s) \in Flight' <=> Commit(s) \in Flight
          /\ Task("register") \notin Flight' /\ Task("register") \notin ts
      BY <1>1, <3>1, TasksDiffer DEF Materializing, Applying
    <3> HIDE DEF ts
    <3>3. registers' = registers
      BY <1>3, <2>4, <3>2 DEF Send, ts
    <3>4. UNCHANGED <<num_uncompleted_materialization_tasks, num_uncompleted_tasks_by_segment,
                      applied, committed, flush_results>>
      BY <1>1 DEF counts, segments
    <3>5. Types' /\ RegisterOK'
      BY <1>1, <2>1, <3>1, <3>2, <3>3, <3>4 DEF Types, RegisterOK, Final
    <3>6. ASSUME NEW s \in Segments
          PROVE  SegmentOK(s)'
      <4>1. SegmentOK(s)
        BY <2>3 DEF LateOK
      <4> QED BY <1>1, <3>1, <3>2, <3>4, <4>1 DEF SegmentOK
    <3>7. DomainsOK'
      BY <1>1, <2>3, <3>2, <3>4 DEF LateOK, DomainsOK
    <3>8. LateOK'
      BY <1>1, <2>3, <3>2, <3>3, <3>4, <3>6, <3>7 DEF LateOK
    <3> QED BY <3>1, <3>5, <3>8 DEF IInv, EarlyOK
  <2> QED BY <2>4, <2>5
<1> QED BY <1>1, <1>2, <1>3

LEMMA HandleFinishKeeps ==
    ASSUME IInv, NEW r \in results, HandleFinishAttachedFunction(r)
    PROVE  IInv'
BY EndKeeps DEF HandleFinishAttachedFunction

-----------------------------------------------------------------------------
(* The theorems.                                                           *)

LEMMA InitOK ==
    ASSUME Init
    PROVE  IInv
<1> DEFINE t == Task(IF kind = "function" THEN "prepare" ELSE "get")
<1>1. dispatched = {t} /\ results = {} /\ t \in {Task("prepare"), Task("get")}
  BY DEF Init
<1> HIDE DEF t
<1>2. t \in Tasks /\ t \in Head /\ t # Task("prefetch") /\ t # Task("register")
  BY <1>1, NamedTasks, TasksDiffer DEF Head
<1>3. Flight = {t}
  BY <1>1, <1>2 DEF Flight
<1>4. Early
  BY <1>2, <1>3 DEF Early
<1>5. Types
  BY <1>1, <1>2, NoneIs DEF Init, Types
<1>6. RegisterOK
  BY <1>1, <1>2 DEF Init, RegisterOK
<1>7. Unique
  BY <1>1 DEF Unique
<1>8. EarlyOK /\ LateOK
  BY <1>2, <1>3, <1>4 DEF Init, EarlyOK, LateOK
<1> QED BY <1>5, <1>6, <1>7, <1>8 DEF IInv

LEMMA StutterOK ==
    ASSUME IInv, UNCHANGED vars
    PROVE  IInv'
<1>1. UNCHANGED <<parts, empty, dispatched, results, counts, segments, registered, registers,
                  result>>
  BY DEF vars
<1>2. Flight' = Flight /\ Final' = Final
  BY <1>1 DEF Flight, Final
<1>3. Types' /\ RegisterOK'
  BY <1>1, <1>2 DEF IInv, Types, RegisterOK, counts, segments
<1>4. result = "none" => Unique' /\ EarlyOK' /\ LateOK'
  <2>1. \A t : [task |-> t, ok |-> TRUE] \in results' => [task |-> t, ok |-> TRUE] \in results
    BY <1>1
  <2>2. Unique => Unique'
    BY <1>1 DEF Unique
  <2> QED BY <1>1, <1>2, <2>1, <2>2, SameFlight DEF IInv
<1> QED BY <1>1, <1>3, <1>4 DEF IInv

LEMMA StepOK ==
    ASSUME IInv, [Next]_vars
    PROVE  IInv'
<1>1. ASSUME NEW t \in dispatched, Run(t) \/ Fail(t)
      PROVE  IInv'
  BY <1>1, RunKeeps, FailKeeps
<1>2. ASSUME NEW r \in results, Handle(r)
      PROVE  IInv'
  <2>1. CASE HandleMaterializeLog(r)
    BY <2>1, HandleEmptyKeeps, HandleNonemptyKeeps
  <2> QED BY <1>2, <2>1, HandleErrorKeeps, HandlePrepareKeeps, HandleGetKeeps, HandlePrefetchKeeps,
             HandleFetchLogKeeps, HandleSourceKeeps, HandleExecuteKeeps, HandlePartitionKeeps,
             HandleMissingWritersKeeps, HandleApplyLogKeeps, HandleCommitKeeps, HandleFlushKeeps,
             HandleRegisterKeeps, HandleFinishKeeps DEF Handle
<1> QED BY <1>1, <1>2, StutterOK DEF Next

(* The invariant above holds in every reachable state.                     *)
THEOREM Invariance == Spec => []IInv
<1>1. Init => IInv
  BY InitOK
<1>2. IInv /\ [Next]_vars => IInv'
  BY StepOK
<1> QED BY <1>1, <1>2, PTL DEF Spec

(* Whatever the order in which results arrive, and whichever tasks fail, a *)
(* version is registered only with every segment, and each segment with    *)
(* every partition that was pulled (dispatch_segment_writer_commit and the *)
(* counters of CompactOrchestrator).                                       *)
THEOREM RegistersAll == Spec => []RegistersEverything
<1>1. IInv => RegistersEverything
  BY DEF IInv, RegisterOK, Final, RegistersEverything
<1> QED BY <1>1, Invariance, PTL

(* A compaction registers at most once: no order of results makes two      *)
(* handlers both find that everything is done.                             *)
THEOREM RegistersNoMore == Spec => []RegistersOnce
<1>1. IInv => RegistersOnce
  BY DEF IInv, Types, RegistersOnce
<1> QED BY <1>1, Invariance, PTL

=============================================================================

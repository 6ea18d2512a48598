-------------------------- MODULE Compactor_proofs --------------------------
(***************************************************************************)
(* Proofs about Compactor, for any number of collections, nodes, jobs and  *)
(* disturbances, whatever the schedulers choose to run.                    *)
(*                                                                         *)
(* The argument: what a job has read is the current version of its         *)
(* collection or an older one that reaches less far.  sysdb accepts only   *)
(* what was made from the current one, so that every version extends the   *)
(* one before it, and what any job or repair has ever learned of a log     *)
(* position is no further than sysdb's.  The schedulers only decide which  *)
(* jobs there are, which the argument does not depend on.                  *)
(***************************************************************************)
EXTENDS Compactor, TLAPS

Versions == [version : Nat, log_position : Nat, holds : SUBSET Nat]

(* v holds the log up to its position.                                     *)
Whole(v) == v.version \in Nat /\ v.log_position \in Nat /\ v.holds = 1..v.log_position

(* v is the version current, or one that it has replaced.                  *)
Read(v, current) ==
    /\ Whole(v)
    /\ v.version <= current.version
    /\ v.log_position <= current.log_position
    /\ v.version = current.version => v.log_position = current.log_position

(* v is made from the version current, or from one that it has replaced.   *)
Made(v, current) ==
    /\ Whole(v)
    /\ v.version <= current.version
    /\ v.version = current.version => v.log_position > current.log_position

Reached(offset, current) == offset \in Nat /\ offset <= current.log_position

(* What a job knows of its collection.                                     *)
JobFits(job, sys) ==
    job.collection \in Collections =>
        LET current == sys[job.collection]
        IN  /\ job.pc = "fetch" => Read(job.read, current)
            /\ job.pc = "flush" => Made(job, current)
            /\ job.pc = "update" => Reached(job.log_position, current)

(* What the completion of a job that had nothing to do says.               *)
MessageFits(m, sys) ==
    (m.collection \in Collections /\ m.result = "repair") =>
        Reached(m.offset, sys[m.collection])

RepairFits(r, sys) == r.collection \in Collections => Reached(r.offset, sys[r.collection])

IsSeq(q) == \E S : q \in Seq(S)

Shape ==
    /\ next \in [Collections -> Nat]
    /\ cursor \in [Collections -> Nat]
    /\ first_log_offset \in [Collections -> Nat]
    /\ sysdb \in [Collections -> Versions]
    /\ DOMAIN jobs = Slots
    /\ DOMAIN completions = Nodes
    /\ \A n \in Nodes : IsSeq(completions[n])
    /\ DOMAIN repairs = Nodes

Jobs == \A j \in Slots : JobFits(jobs[j], sysdb)
Messages == \A n \in Nodes : \A i \in 1..Len(completions[n]) : MessageFits(completions[n][i], sysdb)
Repairs == \A n \in Nodes : \A r \in repairs[n] : RepairFits(r, sysdb)

IInv ==
    /\ Shape
    /\ VersionHoldsLog
    /\ CursorBehindSysdb
    /\ Jobs
    /\ Messages
    /\ Repairs

(* A step replaces a version at most by the next one.                      *)
Advances(sys, later) ==
    \A c \in Collections :
        later[c] # sys[c] =>
            /\ later[c].version = sys[c].version + 1
            /\ later[c].log_position > sys[c].log_position

(* A queue that was drained.                                               *)
LEMMA EmptyIsSeq == IsSeq(<< >>) /\ Len(<< >>) = 0
<1>1. << >> \in Seq({})
  OBVIOUS
<1> QED BY <1>1 DEF IsSeq

-----------------------------------------------------------------------------
(* What was read, made or reached stays so.                                *)
LEMMA FitsStays ==
    ASSUME NEW sys \in [Collections -> Versions], NEW later \in [Collections -> Versions],
           Advances(sys, later)
    PROVE  /\ \A job : JobFits(job, sys) => JobFits(job, later)
           /\ \A m : MessageFits(m, sys) => MessageFits(m, later)
           /\ \A r : RepairFits(r, sys) => RepairFits(r, later)
<1>1. \A c \in Collections :
         /\ sys[c].version \in Nat /\ later[c].version \in Nat
         /\ sys[c].log_position \in Nat /\ later[c].log_position \in Nat
         /\ sys[c].version <= later[c].version
         /\ sys[c].log_position <= later[c].log_position
         /\ sys[c].version = later[c].version => sys[c].log_position = later[c].log_position
  BY DEF Versions, Advances
<1>2. ASSUME NEW c \in Collections
      PROVE  /\ \A v : Read(v, sys[c]) => Read(v, later[c])
             /\ \A v : Made(v, sys[c]) => Made(v, later[c])
             /\ \A o : Reached(o, sys[c]) => Reached(o, later[c])
  BY <1>1 DEF Read, Made, Reached, Whole
<1> QED BY <1>2 DEF JobFits, MessageFits, RepairFits

(* The greater and the smaller of two.                                     *)
LEMMA MaxOfTwo ==
    ASSUME NEW a \in Int, NEW b \in Int
    PROVE  Max({a, b}) = IF a >= b THEN a ELSE b
BY DEF Max

LEMMA MinOfTwo ==
    ASSUME NEW a \in Int, NEW b \in Int
    PROVE  Min({a, b}) = IF a <= b THEN a ELSE b
BY DEF Min

-----------------------------------------------------------------------------
(* The steps.                                                              *)

Kept == IInv' /\ Advances(sysdb, sysdb')

(* It is enough to look at what a step changes.                            *)
LEMMA ChangesFit ==
    ASSUME IInv, Shape', VersionHoldsLog', Advances(sysdb, sysdb'),
           \A c \in Collections :
              cursor'[c] = cursor[c] \/ cursor'[c] <= sysdb'[c].log_position + 1,
           \A c \in Collections :
              first_log_offset'[c] \in {first_log_offset[c], cursor[c], 0},
           \A j \in Slots : jobs'[j] = jobs[j] \/ JobFits(jobs'[j], sysdb'),
           \A n \in Nodes : \A i \in 1..Len(completions'[n]) :
              \/ i \in 1..Len(completions[n]) /\ completions'[n][i] = completions[n][i]
              \/ MessageFits(completions'[n][i], sysdb'),
           \A n \in Nodes : \A r \in repairs'[n] :
              r \in repairs[n] \/ RepairFits(r, sysdb')
    PROVE  Kept
<1> USE DEF IInv
<1>1. /\ \A job : JobFits(job, sysdb) => JobFits(job, sysdb')
      /\ \A m : MessageFits(m, sysdb) => MessageFits(m, sysdb')
      /\ \A r : RepairFits(r, sysdb) => RepairFits(r, sysdb')
  BY FitsStays DEF Shape
<1>2. Jobs' /\ Messages' /\ Repairs'
  BY <1>1 DEF Jobs, Messages, Repairs
<1>3. CursorBehindSysdb'
  <2> SUFFICES ASSUME NEW c \in Collections
               PROVE  /\ cursor'[c] <= sysdb'[c].log_position + 1
                      /\ first_log_offset'[c] <= sysdb'[c].log_position + 1
    BY DEF CursorBehindSysdb
  <2>1. /\ sysdb[c].log_position \in Nat /\ sysdb'[c].log_position \in Nat
        /\ sysdb[c].log_position <= sysdb'[c].log_position
    <3>1. sysdb[c] \in Versions /\ sysdb'[c] \in Versions
      BY DEF Shape
    <3>2. sysdb[c].log_position \in Nat /\ sysdb'[c].log_position \in Nat
      BY <3>1 DEF Versions
    <3>3. sysdb'[c] = sysdb[c] \/ sysdb'[c].log_position > sysdb[c].log_position
      BY DEF Advances
    <3> QED BY <3>2, <3>3
  <2>2. /\ cursor[c] \in Nat /\ first_log_offset[c] \in Nat
        /\ cursor[c] <= sysdb[c].log_position + 1
        /\ first_log_offset[c] <= sysdb[c].log_position + 1
    BY DEF CursorBehindSysdb, Shape
  <2> QED BY <2>1, <2>2
<1> QED BY <1>2, <1>3 DEF Kept

(* A step that leaves sysdb alone.                                         *)
LEMMA SameDb ==
    ASSUME IInv, UNCHANGED sysdb
    PROVE  VersionHoldsLog' /\ Advances(sysdb, sysdb') /\ sysdb' \in [Collections -> Versions]
BY DEF IInv, VersionHoldsLog, Advances, Shape

(* A step that only touches the schedulers, what is known to them and the  *)
(* bookkeeping.                                                            *)
LEMMA SchedulerStep ==
    ASSUME IInv, UNCHANGED <<next, cursor, first_log_offset, sysdb, completions, repairs, jobs>>
    PROVE  Kept
<1>1. Shape'
  BY DEF IInv, Shape
<1> QED BY <1>1, SameDb, ChangesFit DEF IInv, Shape

(* The sequence q with m behind it.                                        *)
LEMMA AppendOne ==
    ASSUME NEW q, IsSeq(q), NEW m
    PROVE  /\ IsSeq(Append(q, m))
           /\ Len(Append(q, m)) = Len(q) + 1
           /\ Len(q) \in Nat
           /\ \A i \in 1..Len(q) : Append(q, m)[i] = q[i]
           /\ Append(q, m)[Len(q) + 1] = m
<1> PICK S : q \in Seq(S)
  BY DEF IsSeq
<1>1. q \in Seq(S \cup {m}) /\ m \in S \cup {m}
  OBVIOUS
<1>2. Append(q, m) \in Seq(S \cup {m})
  BY <1>1
<1> QED BY <1>1, <1>2 DEF IsSeq

(* A job ends.                                                             *)
LEMMA EndedKeeps ==
    ASSUME IInv, NEW j \in Slots, NEW result, NEW offset, Ended(j, result, offset),
           sysdb' \in [Collections -> Versions], VersionHoldsLog', Advances(sysdb, sysdb'),
           (result = "repair" /\ jobs[j].collection \in Collections) =>
              Reached(offset, sysdb[jobs[j].collection]),
           cursor' \in [Collections -> Nat],
           \A c \in Collections :
              cursor'[c] = cursor[c] \/ cursor'[c] <= sysdb'[c].log_position + 1,
           UNCHANGED <<next, first_log_offset, repairs>>
    PROVE  Kept
<1> DEFINE m == [collection |-> jobs[j].collection, result |-> result, offset |-> offset]
<1> USE DEF IInv
<1>1. MessageFits(m, sysdb')
  <2>1. MessageFits(m, sysdb)
    BY DEF MessageFits
  <2> QED BY <2>1, FitsStays DEF Shape
<1> HIDE DEF m
<1>2. \A n \in Nodes : completions'[n] \in {completions[n], Append(completions[n], m)}
  BY DEF Ended, Shape, m
<1>3. \A n \in Nodes :
         /\ IsSeq(completions'[n])
         /\ \A i \in 1..Len(completions'[n]) :
              \/ i \in 1..Len(completions[n]) /\ completions'[n][i] = completions[n][i]
              \/ MessageFits(completions'[n][i], sysdb')
  <2> SUFFICES ASSUME NEW n \in Nodes
               PROVE  /\ IsSeq(completions'[n])
                      /\ \A i \in 1..Len(completions'[n]) :
                           \/ i \in 1..Len(completions[n]) /\ completions'[n][i] = completions[n][i]
                           \/ MessageFits(completions'[n][i], sysdb')
    OBVIOUS
  <2>1. IsSeq(completions[n])
    BY DEF Shape
  <2>2. CASE completions'[n] = completions[n]
    BY <2>1, <2>2
  <2>3. CASE completions'[n] = Append(completions[n], m)
    <3> DEFINE q == completions[n]
    <3>1. /\ IsSeq(Append(q, m)) /\ Len(Append(q, m)) = Len(q) + 1 /\ Len(q) \in Nat
          /\ \A i \in 1..Len(q) : Append(q, m)[i] = q[i]
          /\ Append(q, m)[Len(q) + 1] = m
      BY <2>1, AppendOne
    <3>2. \A i \in 1..Len(q) + 1 : i \in 1..Len(q) \/ i = Len(q) + 1
      BY <3>1
    <3> QED BY <1>1, <2>3, <3>1, <3>2
  <2> QED BY <1>2, <2>2, <2>3
<1>4. DOMAIN jobs' = Slots /\ \A k \in Slots : jobs'[k] = jobs[k] \/ JobFits(jobs'[k], sysdb')
  BY DEF Ended, Shape, NoJob, JobFits
<1>5. Shape'
  <2>1. DOMAIN completions' = Nodes
    BY DEF Ended, Shape
  <2> QED BY <1>3, <1>4, <2>1 DEF Shape
<1> QED BY <1>3, <1>4, <1>5, ChangesFit

(* A job goes on.                                                          *)
LEMMA JobKeeps ==
    ASSUME IInv, NEW j \in Slots, NEW job, jobs' = [jobs EXCEPT ![j] = job],
           sysdb' \in [Collections -> Versions], VersionHoldsLog', Advances(sysdb, sysdb'),
           JobFits(job, sysdb'),
           UNCHANGED <<next, cursor, first_log_offset, completions, repairs>>
    PROVE  Kept
<1> USE DEF IInv, Shape
<1>1. DOMAIN jobs' = Slots /\ \A k \in Slots : jobs'[k] = jobs[k] \/ JobFits(jobs'[k], sysdb')
  OBVIOUS
<1>2. Shape'
  BY <1>1
<1> QED BY <1>1, <1>2, ChangesFit

-----------------------------------------------------------------------------
(* The nodes.                                                              *)

(* What is started has read nothing yet.                                   *)
LEMMA StartJobsFit ==
    ASSUME NEW n, NEW queue, StartJobs(n, queue), NEW later
    PROVE  /\ DOMAIN jobs' = Slots
           /\ \A j \in Slots : jobs'[j] = jobs[j] \/ JobFits(jobs'[j], later)
<1>1. DOMAIN jobs' = Slots /\ \A j \in Slots : jobs'[j] = jobs[j] \/ \E c : jobs'[j] = NewJob(n, c)
  BY DEF StartJobs
<1>2. \A c : JobFits(NewJob(n, c), later)
  BY DEF JobFits, NewJob
<1> QED BY <1>1, <1>2

LEMMA ScheduleKeeps ==
    ASSUME IInv, NEW n \in Nodes, Schedule(n)
    PROVE  Kept
<1> USE DEF IInv
<1>1. DOMAIN jobs' = Slots /\ \A j \in Slots : jobs'[j] = jobs[j] \/ JobFits(jobs'[j], sysdb')
  <2>1. (jobs' = jobs) \/ \E queue : StartJobs(n, queue)
    BY DEF Schedule, ScheduleJobs
  <2> QED BY <2>1, StartJobsFit DEF Shape
<1>2. /\ UNCHANGED <<next, cursor, first_log_offset, sysdb>>
      /\ completions' = [completions EXCEPT ![n] = <<>>]
      /\ repairs' = [repairs EXCEPT ![n] = @ \cup collections_needing_repair(n)]
  BY DEF Schedule, db
<1>3. \A r \in collections_needing_repair(n) : RepairFits(r, sysdb')
  <2> SUFFICES ASSUME NEW i \in 1..Len(completions[n]), completions[n][i].result = "repair"
               PROVE  RepairFits([collection |-> completions[n][i].collection,
                                  offset |-> completions[n][i].offset], sysdb')
    BY DEF collections_needing_repair
  <2>1. MessageFits(completions[n][i], sysdb)
    BY DEF Messages
  <2> QED BY <1>2, <2>1 DEF MessageFits, RepairFits
<1>4. /\ DOMAIN completions' = Nodes
      /\ \A m \in Nodes : completions'[m] \in {completions[m], << >>}
      /\ DOMAIN repairs' = Nodes
      /\ \A m \in Nodes : \A r \in repairs'[m] :
            r \in repairs[m] \/ RepairFits(r, sysdb')
  <2>1. DOMAIN completions = Nodes /\ DOMAIN repairs = Nodes
    BY DEF Shape
  <2> QED BY <1>2, <1>3, <2>1
<1>5. \A m \in Nodes :
         /\ IsSeq(completions'[m])
         /\ \A i \in 1..Len(completions'[m]) :
              i \in 1..Len(completions[m]) /\ completions'[m][i] = completions[m][i]
  <2> SUFFICES ASSUME NEW m \in Nodes
               PROVE  /\ IsSeq(completions'[m])
                      /\ \A i \in 1..Len(completions'[m]) :
                            i \in 1..Len(completions[m]) /\ completions'[m][i] = completions[m][i]
    OBVIOUS
  <2>1. CASE completions'[m] = << >>
    BY <2>1, EmptyIsSeq
  <2>2. CASE completions'[m] = completions[m]
    BY <2>2 DEF Shape
  <2> QED BY <1>4, <2>1, <2>2
<1>6. Shape'
  BY <1>1, <1>2, <1>4, <1>5 DEF Shape
<1> QED BY <1>1, <1>2, <1>4, <1>5, <1>6, SameDb, ChangesFit

LEMMA CrashKeeps ==
    ASSUME IInv, NEW n \in Nodes, Crash(n)
    PROVE  Kept
<1> USE DEF IInv
<1>1. /\ UNCHANGED <<next, cursor, first_log_offset, sysdb>>
      /\ completions' = [completions EXCEPT ![n] = <<>>]
      /\ repairs' = [repairs EXCEPT ![n] = {}]
      /\ jobs' = [j \in Slots |->
             IF jobs[j] # NoJob /\ jobs[j].node = n THEN NoJob ELSE jobs[j]]
  BY DEF Crash, db, log
<1>2. DOMAIN jobs' = Slots /\ \A j \in Slots : jobs'[j] = jobs[j] \/ JobFits(jobs'[j], sysdb')
  <2>1. JobFits(NoJob, sysdb')
    BY DEF NoJob, JobFits
  <2> QED BY <1>1, <2>1
<1>3. /\ DOMAIN completions' = Nodes
      /\ \A m \in Nodes : completions'[m] \in {completions[m], << >>}
      /\ DOMAIN repairs' = Nodes
      /\ \A m \in Nodes : \A r \in repairs'[m] : r \in repairs[m]
  <2>1. DOMAIN completions = Nodes /\ DOMAIN repairs = Nodes
    BY DEF Shape
  <2> QED BY <1>1, <2>1
<1>4. \A m \in Nodes :
         /\ IsSeq(completions'[m])
         /\ \A i \in 1..Len(completions'[m]) :
              i \in 1..Len(completions[m]) /\ completions'[m][i] = completions[m][i]
  <2> SUFFICES ASSUME NEW m \in Nodes
               PROVE  /\ IsSeq(completions'[m])
                      /\ \A i \in 1..Len(completions'[m]) :
                            i \in 1..Len(completions[m]) /\ completions'[m][i] = completions[m][i]
    OBVIOUS
  <2>1. CASE completions'[m] = << >>
    BY <2>1, EmptyIsSeq
  <2>2. CASE completions'[m] = completions[m]
    BY <2>2 DEF Shape
  <2> QED BY <1>3, <2>1, <2>2
<1>5. Shape'
  BY <1>1, <1>2, <1>3, <1>4 DEF Shape
<1> QED BY <1>1, <1>2, <1>3, <1>4, <1>5, SameDb, ChangesFit

(* The offset plus one, or the cursor if that is ahead.                    *)
LEMMA Moved ==
    ASSUME IInv, NEW c, NEW offset, c \in Collections => Reached(offset, sysdb[c]),
           cursor' = [cursor EXCEPT ![c] = Max({@, offset + 1})],
           \A d \in Collections : sysdb'[d].log_position = sysdb[d].log_position
    PROVE  /\ cursor' \in [Collections -> Nat]
           /\ \A d \in Collections :
                 cursor'[d] = cursor[d] \/ cursor'[d] <= sysdb'[d].log_position + 1
<1>0. cursor \in [Collections -> Nat] /\ sysdb \in [Collections -> Versions]
  BY DEF IInv, Shape
<1>1. CASE c \notin Collections
  BY <1>0, <1>1
<1>2. CASE c \in Collections
  <2>1. cursor[c] \in Nat /\ offset \in Nat /\ offset <= sysdb[c].log_position
    BY <1>0, <1>2 DEF Reached
  <2>2. sysdb[c].log_position \in Nat
    BY <1>0, <1>2 DEF Versions
  <2>3. Max({cursor[c], offset + 1}) \in {cursor[c], offset + 1}
    BY <2>1, MaxOfTwo
  <2>4. cursor'[c] \in {cursor[c], offset + 1} /\ \A d \in Collections \ {c} : cursor'[d] = cursor[d]
    BY <1>0, <1>2, <2>3
  <2>5. cursor' \in [Collections -> Nat]
    BY <1>0, <1>2, <2>1, <2>3
  <2>6. cursor'[c] = cursor[c] \/ cursor'[c] <= sysdb'[c].log_position + 1
    BY <1>2, <2>1, <2>2, <2>4
  <2> QED BY <2>4, <2>5, <2>6
<1> QED BY <1>1, <1>2

LEMMA RepairKeeps ==
    ASSUME IInv, NEW n \in Nodes, Repair(n)
    PROVE  Kept
<1> USE DEF IInv
<1> PICK r \in repairs[n] :
         /\ cursor' = [cursor EXCEPT ![r.collection] = Max({@, r.offset + 1})]
         /\ repairs' = [repairs EXCEPT ![n] = @ \ {r}]
         /\ UNCHANGED <<next, first_log_offset, purged, db, scheduler, completions, jobs,
                        disturbances>>
  BY DEF Repair
<1>1. sysdb' = sysdb
  BY DEF db
<1>2. r.collection \in Collections => Reached(r.offset, sysdb[r.collection])
  BY DEF Repairs, RepairFits
<1>3. /\ cursor' \in [Collections -> Nat]
      /\ \A d \in Collections :
            cursor'[d] = cursor[d] \/ cursor'[d] <= sysdb'[d].log_position + 1
  BY <1>1, <1>2, Moved
<1>4. DOMAIN repairs' = Nodes /\ \A m \in Nodes : repairs'[m] \subseteq repairs[m]
  BY DEF Shape
<1>5. Shape'
  BY <1>1, <1>3, <1>4 DEF Shape
<1> QED BY <1>1, <1>3, <1>4, <1>5, SameDb, ChangesFit DEF Shape

LEMMA FailRepairKeeps ==
    ASSUME IInv, NEW n \in Nodes, FailRepair(n)
    PROVE  Kept
<1> USE DEF IInv
<1>1. /\ UNCHANGED <<next, cursor, first_log_offset, sysdb, completions, jobs>>
      /\ repairs' = [repairs EXCEPT ![n] = {}]
  BY DEF FailRepair, log, db
<1>2. DOMAIN repairs' = Nodes /\ \A m \in Nodes : repairs'[m] \subseteq repairs[m]
  BY <1>1 DEF Shape
<1>3. Shape'
  BY <1>1, <1>2 DEF Shape
<1> QED BY <1>1, <1>2, <1>3, SameDb, ChangesFit DEF Shape

-----------------------------------------------------------------------------
(* The jobs.                                                               *)

LEMMA GetCollectionKeeps ==
    ASSUME IInv, NEW j \in Slots, GetCollection(j)
    PROVE  Kept
<1> DEFINE c == jobs[j].collection
<1>1. /\ UNCHANGED <<next, cursor, first_log_offset, sysdb, repairs>>
      /\ sysdb' \in [Collections -> Versions] /\ VersionHoldsLog' /\ Advances(sysdb, sysdb')
  BY SameDb DEF GetCollection, log, db
<1>2. CASE Ended(j, "error", 0)
  BY <1>1, <1>2, EndedKeeps DEF IInv, Shape
<1>3. CASE /\ jobs' = [jobs EXCEPT ![j] =
                  [pc |-> "fetch", node |-> @.node, collection |-> c, read |-> sysdb[c]]]
           /\ UNCHANGED completions
  <2> DEFINE job == [pc |-> "fetch", node |-> jobs[j].node, collection |-> c, read |-> sysdb[c]]
  <2>1. ASSUME c \in Collections
        PROVE  Read(sysdb[c], sysdb[c])
    <3>1. sysdb[c] \in Versions /\ sysdb[c].holds = 1..sysdb[c].log_position
      BY <2>1 DEF IInv, Shape, VersionHoldsLog
    <3> QED BY <3>1 DEF Versions, Read, Whole
  <2>2. JobFits(job, sysdb')
    BY <1>1, <2>1 DEF JobFits
  <2> QED BY <1>1, <1>3, <2>2, JobKeeps
<1> QED BY <1>2, <1>3 DEF GetCollection

(* What a job makes of the version it has read reaches further.            *)
LEMMA FetchLogKeeps ==
    ASSUME IInv, NEW j \in Slots, FetchLog(j)
    PROVE  Kept
<1> DEFINE c == jobs[j].collection
           from == jobs[j].read.log_position + 1
           limit == Min({next[c], from + max_compaction_size})
<1>1. /\ UNCHANGED <<next, cursor, first_log_offset, sysdb, repairs>>
      /\ sysdb' \in [Collections -> Versions] /\ VersionHoldsLog' /\ Advances(sysdb, sysdb')
  BY SameDb DEF FetchLog, log, db
<1>2. c \in Collections => Read(jobs[j].read, sysdb[c])
  BY DEF IInv, Jobs, JobFits, FetchLog
<1>3. ASSUME c \in Collections
      PROVE  /\ sysdb[c].version \in Nat /\ sysdb[c].log_position \in Nat
             /\ next[c] \in Nat /\ from \in Nat /\ limit \in Nat
             /\ jobs[j].read.version \in Nat /\ jobs[j].read.log_position \in Nat
  <2>1. sysdb[c] \in Versions /\ next[c] \in Nat
    BY <1>3 DEF IInv, Shape
  <2>2. jobs[j].read.version \in Nat /\ jobs[j].read.log_position \in Nat
    BY <1>2, <1>3 DEF Read, Whole
  <2>3. max_compaction_size \in Nat
    BY CompactorAssumption
  <2>4. limit \in {next[c], from + max_compaction_size}
    BY <2>1, <2>2, <2>3, MinOfTwo
  <2> QED BY <2>1, <2>2, <2>3, <2>4 DEF Versions
<1> HIDE DEF limit
<1>4. CASE Ended(j, "repair", jobs[j].read.log_position)
  <2>1. c \in Collections => Reached(jobs[j].read.log_position, sysdb[c])
    BY <1>2 DEF Read, Whole, Reached
  <2> QED BY <1>1, <1>4, <2>1, EndedKeeps DEF IInv, Shape
<1>5. CASE /\ from < limit
           /\ jobs' = [jobs EXCEPT ![j] =
                  [pc |-> "flush", node |-> @.node, collection |-> c,
                   version |-> @.read.version, log_position |-> pulled_log_offset(limit),
                   holds |-> @.read.holds \cup from..limit - 1]]
           /\ UNCHANGED completions
  <2> DEFINE job == [pc |-> "flush", node |-> jobs[j].node, collection |-> c,
                     version |-> jobs[j].read.version, log_position |-> pulled_log_offset(limit),
                     holds |-> jobs[j].read.holds \cup from..limit - 1]
  <2>1. ASSUME c \in Collections
        PROVE  Made(job, sysdb[c])
    <3>1. limit - 1 \in Nat /\ jobs[j].read.log_position < limit - 1
      BY <1>3, <1>5, <2>1
    <3>2. jobs[j].read.holds = 1..jobs[j].read.log_position
      BY <1>2, <2>1 DEF Read, Whole
    <3>3. jobs[j].read.holds \cup from..limit - 1 = 1..limit - 1
      BY <1>3, <2>1, <3>1, <3>2
    <3>4. Whole(job)
      BY <1>3, <2>1, <3>1, <3>3 DEF Whole, pulled_log_offset
    <3>5. /\ jobs[j].read.version <= sysdb[c].version
          /\ jobs[j].read.version = sysdb[c].version =>
                jobs[j].read.log_position = sysdb[c].log_position
      BY <1>2, <2>1 DEF Read
    <3> QED BY <1>3, <2>1, <3>1, <3>4, <3>5 DEF Made, pulled_log_offset
  <2>2. JobFits(job, sysdb')
    BY <1>1, <2>1 DEF JobFits
  <2>3. jobs' = [jobs EXCEPT ![j] = job]
    BY <1>5
  <2> QED BY <1>1, <1>5, <2>2, <2>3, JobKeeps
<1> QED BY <1>4, <1>5 DEF FetchLog, limit

(* sysdb takes what was made from its current version.                     *)
LEMMA FlushedFits ==
    ASSUME IInv, NEW j \in Slots, jobs[j].pc = "flush", flush_accepted(jobs[j]), Flushed(jobs[j])
    PROVE  /\ sysdb' \in [Collections -> Versions]
           /\ VersionHoldsLog'
           /\ Advances(sysdb, sysdb')
           /\ jobs[j].collection \in Collections =>
                 /\ jobs[j].log_position \in Nat
                 /\ sysdb'[jobs[j].collection].log_position = jobs[j].log_position
<1> DEFINE c == jobs[j].collection
           new == [version |-> jobs[j].version + 1, log_position |-> jobs[j].log_position,
                   holds |-> jobs[j].holds]
<1>1. /\ sysdb \in [Collections -> Versions]
      /\ sysdb' = [sysdb EXCEPT ![c] = new]
  BY DEF IInv, Shape, Flushed
<1>2. CASE c \notin Collections
  <2>1. sysdb' = sysdb
    BY <1>1, <1>2
  <2> QED BY <1>2, <2>1, SameDb
<1>3. CASE c \in Collections
  <2>1. Made(jobs[j], sysdb[c])
    BY <1>3 DEF IInv, Jobs, JobFits
  <2>2. jobs[j].version = sysdb[c].version
    BY DEF flush_accepted
  <2>3. /\ jobs[j].version \in Nat /\ jobs[j].log_position \in Nat
        /\ jobs[j].holds = 1..jobs[j].log_position
        /\ jobs[j].log_position > sysdb[c].log_position
    BY <2>1, <2>2 DEF Made, Whole
  <2>4. new \in Versions
    BY <2>3 DEF Versions
  <2>5. sysdb'[c] = new /\ \A d \in Collections \ {c} : sysdb'[d] = sysdb[d]
    BY <1>1, <1>3
  <2>6. sysdb' \in [Collections -> Versions]
    BY <1>1, <2>4
  <2>7. Advances(sysdb, sysdb')
    BY <2>2, <2>3, <2>5 DEF Advances
  <2>8. VersionHoldsLog'
    BY <2>3, <2>5 DEF IInv, VersionHoldsLog
  <2> QED BY <2>3, <2>5, <2>6, <2>7, <2>8
<1> QED BY <1>2, <1>3

LEMMA FlushCompactionKeeps ==
    ASSUME IInv, NEW j \in Slots, FlushCompaction(j)
    PROVE  Kept
<1>1. jobs[j].pc = "flush" /\ UNCHANGED <<next, cursor, first_log_offset, repairs>>
  BY DEF FlushCompaction, log
<1>2. CASE /\ flush_accepted(jobs[j]) /\ Flushed(jobs[j])
           /\ jobs' = [jobs EXCEPT ![j].pc = "update"]
           /\ UNCHANGED completions
  <2> DEFINE c == jobs[j].collection
             job == [jobs[j] EXCEPT !.pc = "update"]
  <2>1. /\ sysdb' \in [Collections -> Versions] /\ VersionHoldsLog' /\ Advances(sysdb, sysdb')
        /\ c \in Collections => /\ jobs[j].log_position \in Nat
                                /\ sysdb'[c].log_position = jobs[j].log_position
    BY <1>1, <1>2, FlushedFits
  <2>2. c \in Collections => Reached(jobs[j].log_position, sysdb'[c])
    BY <2>1 DEF Reached
  <2>3. job.collection = c /\ job.log_position = jobs[j].log_position /\ job.pc \notin {"fetch", "flush"}
    BY <1>1
  <2>4. JobFits(job, sysdb')
    BY <2>2, <2>3 DEF JobFits
  <2>5. jobs' = [jobs EXCEPT ![j] = job]
    BY <1>2
  <2> QED BY <1>1, <1>2, <2>1, <2>4, <2>5, JobKeeps
<1>3. CASE Ended(j, "error", 0) /\ UNCHANGED <<sysdb, oldest>>
  BY <1>1, <1>3, SameDb, EndedKeeps DEF IInv, Shape
<1> QED BY <1>2, <1>3 DEF FlushCompaction

LEMMA UpdateLogOffsetKeeps ==
    ASSUME IInv, NEW j \in Slots, UpdateLogOffset(j)
    PROVE  Kept
<1>1. /\ UNCHANGED <<next, first_log_offset, sysdb, repairs>>
      /\ Ended(j, "success", 0)
      /\ cursor' = [cursor EXCEPT ![jobs[j].collection] = Max({@, jobs[j].log_position + 1})]
  BY DEF UpdateLogOffset, db
<1>2. jobs[j].collection \in Collections => Reached(jobs[j].log_position, sysdb[jobs[j].collection])
  BY DEF IInv, Jobs, JobFits, UpdateLogOffset
<1>3. /\ cursor' \in [Collections -> Nat]
      /\ \A d \in Collections :
            cursor'[d] = cursor[d] \/ cursor'[d] <= sysdb'[d].log_position + 1
  BY <1>1, <1>2, Moved
<1> QED BY <1>1, <1>3, SameDb, EndedKeeps

LEMMA FailJobKeeps ==
    ASSUME IInv, NEW j \in Slots, FailJob(j)
    PROVE  Kept
<1>1. UNCHANGED <<next, first_log_offset, repairs>> /\ Ended(j, "error", 0)
  BY DEF FailJob
<1>2. CASE UNCHANGED <<sysdb, oldest, cursor>>
  BY <1>1, <1>2, SameDb, EndedKeeps DEF IInv, Shape
<1>3. CASE jobs[j].pc = "flush" /\ flush_accepted(jobs[j]) /\ Flushed(jobs[j]) /\ UNCHANGED cursor
  BY <1>1, <1>3, FlushedFits, EndedKeeps DEF IInv, Shape
<1>4. CASE /\ jobs[j].pc = "update"
           /\ cursor' = [cursor EXCEPT ![jobs[j].collection] = Max({@, jobs[j].log_position + 1})]
           /\ UNCHANGED <<sysdb, oldest>>
  <2>1. jobs[j].collection \in Collections =>
           Reached(jobs[j].log_position, sysdb[jobs[j].collection])
    BY <1>4 DEF IInv, Jobs, JobFits
  <2>2. /\ cursor' \in [Collections -> Nat]
        /\ \A d \in Collections :
              cursor'[d] = cursor[d] \/ cursor'[d] <= sysdb'[d].log_position + 1
    BY <1>4, <2>1, Moved
  <2> QED BY <1>1, <1>4, <2>2, SameDb, EndedKeeps
<1> QED BY <1>2, <1>3, <1>4 DEF FailJob

LEMMA HangJobKeeps ==
    ASSUME IInv, NEW j \in Slots, HangJob(j)
    PROVE  Kept
<1>1. JobFits(NoJob, sysdb')
  BY DEF JobFits, NoJob
<1>2. /\ UNCHANGED <<next, cursor, first_log_offset, sysdb, completions, repairs>>
      /\ jobs' = [jobs EXCEPT ![j] = NoJob]
  BY DEF HangJob, log, db, nodes
<1> QED BY <1>1, <1>2, SameDb, JobKeeps

-----------------------------------------------------------------------------
(* The surroundings.                                                       *)

LEMMA SurroundingsKeep ==
    ASSUME IInv, NEW c \in Collections, Write(c) \/ RollDirtyLog(c) \/ Delete(c)
    PROVE  Kept
<1> USE DEF IInv
<1>1. /\ UNCHANGED <<cursor, sysdb, completions, repairs, jobs>>
      /\ next' \in [Collections -> Nat]
      /\ first_log_offset' \in [Collections -> Nat]
      /\ \A d \in Collections : first_log_offset'[d] \in {first_log_offset[d], cursor[d], 0}
  <2>1. /\ next \in [Collections -> Nat] /\ cursor \in [Collections -> Nat]
        /\ first_log_offset \in [Collections -> Nat]
    BY DEF Shape
  <2>2. CASE Write(c)
    BY <2>1, <2>2 DEF Write, db, nodes
  <2>3. CASE RollDirtyLog(c)
    BY <2>1, <2>3 DEF RollDirtyLog, db, nodes
  <2>4. CASE Delete(c)
    BY <2>1, <2>4 DEF Delete, log, nodes
  <2> QED BY <2>2, <2>3, <2>4
<1>2. Shape'
  BY <1>1 DEF Shape
<1> QED BY <1>1, <1>2, SameDb, ChangesFit DEF Shape

LEMMA StepKeeps ==
    ASSUME IInv, [Next]_vars
    PROVE  Kept
<1>1. ASSUME NEW n \in Nodes, Memberlist(n) \/ \E c \in Collections : OneOffCompact(n, c) \/ Expire(n, c)
      PROVE  Kept
  <2>1. UNCHANGED <<next, cursor, first_log_offset, sysdb, completions, repairs, jobs>>
    BY <1>1 DEF Memberlist, OneOffCompact, Expire, log, db
  <2> QED BY <2>1, SchedulerStep
<1>2. CASE UNCHANGED vars
  BY <1>2, SchedulerStep DEF vars, log, db, nodes
<1> QED
  BY <1>1, <1>2, ScheduleKeeps, RepairKeeps, FailRepairKeeps, CrashKeeps, GetCollectionKeeps,
     FetchLogKeeps, FlushCompactionKeeps, UpdateLogOffsetKeeps, FailJobKeeps, HangJobKeeps,
     SurroundingsKeep
  DEF Next, JobStep

LEMMA InitKeeps == Init => IInv
<1> SUFFICES ASSUME Init PROVE IInv
  OBVIOUS
<1>1. \A n \in Nodes : IsSeq(completions[n]) /\ Len(completions[n]) = 0
  <2>1. << >> \in Seq({})
    OBVIOUS
  <2> QED BY <2>1 DEF Init, IsSeq
<1>2. Shape
  BY <1>1 DEF Init, Shape, Versions
<1>3. \A c \in Collections : /\ sysdb[c].log_position = 0 /\ sysdb[c].holds = {}
                             /\ cursor[c] = 1 /\ first_log_offset[c] = 0
  BY DEF Init
<1>4. VersionHoldsLog /\ CursorBehindSysdb
  <2>1. 1..0 = {}
    OBVIOUS
  <2>2. VersionHoldsLog
    BY <1>3, <2>1 DEF VersionHoldsLog
  <2>3. CursorBehindSysdb
    BY <1>3 DEF CursorBehindSysdb
  <2> QED BY <2>2, <2>3
<1>5. Jobs /\ Messages /\ Repairs
  BY <1>1 DEF Init, NoJob, JobFits, Jobs, Messages, Repairs
<1> QED BY <1>2, <1>4, <1>5 DEF IInv

-----------------------------------------------------------------------------
(* What a job, a completion or a repair knows of a collection is what      *)
(* sysdb holds or has held: true of every reachable state.                 *)
THEOREM Invariance == Spec => []IInv
<1>1. IInv /\ [Next]_vars => IInv'
  BY StepKeeps DEF Kept
<1> QED BY InitKeeps, <1>1, PTL DEF Spec

(* Whatever jobs of one collection overlap, on however many nodes, the     *)
(* segments of every version that sysdb accepts hold the log up to the     *)
(* version's position, without a gap (flush_compaction's version check).   *)
THEOREM NoRecordSkipped == Spec => []VersionHoldsLog
<1>1. IInv => VersionHoldsLog
  BY DEF IInv
<1> QED BY <1>1, Invariance, PTL

(* Neither a late job nor a late repair moves the cursor of the log past   *)
(* sysdb's position (update_collection_log_offset), so that the            *)
(* scheduler's panic about an offset behind the log's is not reached.      *)
THEOREM CursorNotAhead == Spec => []CursorBehindSysdb
<1>1. IInv => CursorBehindSysdb
  BY DEF IInv
<1> QED BY <1>1, Invariance, PTL

(* A version is replaced by its successor only, and by one that reaches    *)
(* further: a job that lost the race never takes a collection back.        *)
THEOREM OnlyForward == Spec => VersionsAdvance
<1>1. IInv /\ [Next]_vars =>
         \A c \in Collections :
            sysdb'[c] # sysdb[c] =>
                /\ sysdb'[c].version = sysdb[c].version + 1
                /\ sysdb'[c].log_position > sysdb[c].log_position
  BY StepKeeps DEF Kept, Advances
<1> QED BY <1>1, Invariance, PTL DEF Spec, VersionsAdvance

=============================================================================

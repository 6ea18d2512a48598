-------------------------- MODULE BatchManager_proofs --------------------------
(***************************************************************************)
(* Proofs about BatchManager, for any number of callers and any sizes.     *)
(*                                                                         *)
(* The argument: writers_active is 1 from the moment a batch is taken      *)
(* until its write succeeds, and for ever when it fails, so there is one   *)
(* batch at most.  The queue and the batch hold different callers, who are *)
(* the ones without an outcome.  The positions of a batch begin where      *)
(* everything that was acknowledged ends.                                  *)
(***************************************************************************)
EXTENDS BatchManager, FiniteSetTheorems, WellFoundedInduction, TLAPS

Batch == [work : Seq(Callers), start : Nat, by : {"task", "flusher", "close"}, failed : BOOLEAN]

(* The writes under way, shutdowns left out.                               *)
Writes == {r \in writing : r.by # "close"}

Distinct(q) == \A i, j \in DOMAIN q : q[i] = q[j] => i = j

Types ==
    /\ enqueued \in Seq(Callers)
    /\ writers_active \in {0, 1}
    /\ next_log_position \in Nat
    /\ call \in [Callers -> {"none", "pushed", "waiting"}]
    /\ outcome \in [Callers -> {"none", "ok", "retry", "backoff", "error"}]
    /\ position \in [Callers -> Nat]
    /\ writing \subseteq Batch

WritesOK ==
    /\ \A r \in writing : r.by = "close" => r.failed /\ r.work = <<>>
    /\ \A q, r \in Writes : q = r
    /\ Writes # {} => writers_active = 1

(* Who waits is in the queue or in a batch, and nobody else is.            *)
Waits(c) == call[c] # "none" /\ outcome[c] = "none"

QueueOK ==
    /\ Distinct(enqueued)
    /\ \A c \in ToSet(enqueued) : Waits(c)
    /\ \A r \in writing : /\ Distinct(r.work)
                          /\ \A c \in ToSet(r.work) : Waits(c) /\ c \notin ToSet(enqueued)
    /\ \A c \in Callers : Waits(c) => \/ c \in ToSet(enqueued)
                                      \/ \E r \in writing : c \in ToSet(r.work)
    /\ \A c \in Callers : call[c] = "none" => outcome[c] = "none"

Ends(c) == position[c] + NumMessages[c]

PositionsOK ==
    /\ \A r \in Writes : r.start + Messages(r.work) <= next_log_position
    /\ \A c \in Callers : outcome[c] = "ok" =>
          /\ Ends(c) <= next_log_position
          /\ \A r \in Writes : Ends(c) <= r.start
    /\ \A c, d \in Callers : (outcome[c] = "ok" /\ outcome[d] = "ok" /\ c # d) =>
          Ends(c) <= position[d] \/ Ends(d) <= position[c]

IInv ==
    /\ Types
    /\ WritesOK
    /\ QueueOK
    /\ PositionsOK

-----------------------------------------------------------------------------
(* Least and greatest numbers.                                             *)

LEMMA LeastOf ==
    ASSUME NEW S \in SUBSET Nat, S # {}
    PROVE  \E n \in S : \A m \in S : n <= m
<1> DEFINE R == {ss \in Nat \X Nat : ss[1] < ss[2]}
<1>1. IsWellFoundedOn(R, Nat)
  BY NatLessThanWellFounded DEF OpToRel
<1> HIDE DEF R
<1>2. PICK n \in S : \A m \in S : ~(<<m, n>> \in R)
  BY <1>1, WFMin
<1>3. \A m \in S : ~(m < n)
  BY <1>2 DEF R
<1> QED BY <1>3

LEMMA MaxOf ==
    ASSUME NEW B \in Nat, NEW S \in SUBSET (0..B), S # {}
    PROVE  Max(S) \in S
<1> DEFINE T == {k \in Nat : B - k \in S}
<1>1. T \in SUBSET Nat /\ T # {}
  <2>1. PICK x \in S : TRUE
    OBVIOUS
  <2>2. B - x \in Nat /\ B - (B - x) = x
    OBVIOUS
  <2> QED BY <2>1, <2>2
<1>2. PICK k \in T : \A l \in T : k <= l
  BY <1>1, LeastOf
<1>3. \A m \in S : B - m \in T
  OBVIOUS
<1>4. \A m \in S : k <= B - m
  BY <1>2, <1>3
<1>5. B - k \in S /\ k \in Nat
  BY <1>2
<1>6. \E n \in S : \A m \in S : n >= m
  BY <1>4, <1>5
<1> QED BY <1>6 DEF Max

-----------------------------------------------------------------------------
(* Running totals.                                                         *)

(* The equation of Totals, up to k.                                        *)
IsTotal(t, size, q, k) == t = [i \in 0..k |-> IF i = 0 THEN 0 ELSE t[i - 1] + size[q[i]]]

LEMMA TotalsExist ==
    ASSUME NEW q \in Seq(Callers), NEW size
    PROVE  \E t : IsTotal(t, size, q, Len(q))
<1> DEFINE Bad == {k \in Nat : k <= Len(q) /\ ~\E t : IsTotal(t, size, q, k)}
<1>1. ASSUME Bad # {}
      PROVE  FALSE
  <2>1. PICK k \in Bad : \A l \in Bad : k <= l
    BY <1>1, LeastOf
  <2>2. CASE k = 0
    <3> DEFINE t == [i \in 0..0 |-> 0]
    <3>1. IsTotal(t, size, q, 0)
      BY DEF IsTotal
    <3> QED BY <2>1, <2>2, <3>1
  <2>3. CASE k # 0
    <3>1. k - 1 \in Nat /\ k - 1 <= Len(q) /\ ~(k <= k - 1)
      BY <2>1, <2>3
    <3>2. PICK u : IsTotal(u, size, q, k - 1)
      BY <2>1, <3>1
    <3> DEFINE t == [i \in 0..k |-> IF i = k THEN u[k - 1] + size[q[k]] ELSE u[i]]
    <3>3. \A i \in 0..(k - 1) : u[i] = IF i = 0 THEN 0 ELSE u[i - 1] + size[q[i]]
      BY <3>2 DEF IsTotal
    <3>4. k \in Nat
      BY <2>1
    <3>5. ASSUME NEW i \in 0..k
          PROVE  t[i] = IF i = 0 THEN 0 ELSE t[i - 1] + size[q[i]]
      <4>1. CASE i = k
        BY <2>3, <3>1, <3>4, <4>1
      <4>2. CASE i # k
        <5>1. i \in 0..(k - 1) /\ t[i] = u[i] /\ (i # 0 => i - 1 \in 0..k /\ i - 1 # k)
          BY <3>4, <3>5, <4>2
        <5>2. i # 0 => t[i - 1] = u[i - 1]
          BY <5>1
        <5> QED BY <3>3, <5>1, <5>2
      <4> QED BY <4>1, <4>2
    <3>6. IsTotal(t, size, q, k)
      <4>1. t = [i \in 0..k |-> t[i]]
        OBVIOUS
      <4> HIDE DEF t
      <4> QED BY <3>5, <4>1 DEF IsTotal
    <3> QED BY <2>1, <3>6
  <2> QED BY <2>2, <2>3
<1>2. Len(q) \in Nat
  OBVIOUS
<1> QED BY <1>1, <1>2

(* What Totals computes.                                                   *)
LEMMA TotalsAre ==
    ASSUME NEW q \in Seq(Callers), NEW size
    PROVE  /\ Totals(size, q)[0] = 0
           /\ \A i \in 1..Len(q) : Totals(size, q)[i] = Totals(size, q)[i - 1] + size[q[i]]
<1> DEFINE T == Totals(size, q)
<1>1. T = CHOOSE t : IsTotal(t, size, q, Len(q))
  BY DEF Totals, IsTotal
<1>2. IsTotal(T, size, q, Len(q))
  BY <1>1, TotalsExist
<1> HIDE DEF T
<1>3. Len(q) \in Nat
  OBVIOUS
<1>4. \A i \in 0..Len(q) : T[i] = IF i = 0 THEN 0 ELSE T[i - 1] + size[q[i]]
  BY <1>2 DEF IsTotal
<1>5. T[0] = 0 /\ \A i \in 1..Len(q) : T[i] = T[i - 1] + size[q[i]]
  BY <1>3, <1>4
<1> QED BY <1>5 DEF T

LEMMA TotalsGrow ==
    ASSUME NEW q \in Seq(Callers), NEW size \in [Callers -> Nat]
    PROVE  /\ \A i \in 0..Len(q) : Totals(size, q)[i] \in Nat
           /\ \A i, j \in 0..Len(q) : i <= j => Totals(size, q)[i] <= Totals(size, q)[j]
<1> DEFINE T == Totals(size, q)
           n == Len(q)
<1>1. T[0] = 0 /\ \A i \in 1..n : T[i] = T[i - 1] + size[q[i]]
  BY TotalsAre
<1> HIDE DEF T
<1>2. n \in Nat /\ \A i \in 1..n : size[q[i]] \in Nat
  OBVIOUS
<1>3. \A i \in 0..n : T[i] \in Nat
  <2> DEFINE Bad == {k \in Nat : k <= n /\ T[k] \notin Nat}
  <2>1. ASSUME Bad # {}
        PROVE  FALSE
    <3>1. PICK k \in Bad : \A l \in Bad : k <= l
      BY <2>1, LeastOf
    <3>2. k # 0
      BY <1>1, <3>1
    <3>3. k \in 1..n /\ k - 1 \in Nat /\ k - 1 <= n /\ ~(k <= k - 1)
      BY <1>2, <3>1, <3>2
    <3>4. T[k - 1] \in Nat
      BY <3>1, <3>3
    <3> QED BY <1>1, <1>2, <3>1, <3>3, <3>4
  <2> QED BY <2>1, <1>2
<1>4. ASSUME NEW i \in 0..n
      PROVE  \A j \in 0..n : i <= j => T[i] <= T[j]
  <2> DEFINE Bad == {k \in Nat : k <= n /\ i <= k /\ ~(T[i] <= T[k])}
  <2>1. ASSUME Bad # {}
        PROVE  FALSE
    <3>1. PICK k \in Bad : \A l \in Bad : k <= l
      BY <2>1, LeastOf
    <3>2. k # i /\ k \in Nat /\ k <= n /\ i <= k
      BY <1>3, <3>1
    <3>3. k \in 1..n /\ k - 1 \in 0..n /\ k - 1 \in Nat /\ k - 1 <= n /\ i <= k - 1 /\ ~(k <= k - 1)
      BY <1>2, <3>2
    <3>4. T[i] <= T[k - 1]
      BY <3>1, <3>3
    <3>5. T[k] = T[k - 1] + size[q[k]] /\ size[q[k]] \in Nat /\ T[k - 1] \in Nat /\ T[i] \in Nat
      BY <1>1, <1>2, <1>3, <3>3
    <3> QED BY <3>1, <3>4, <3>5
  <2> QED BY <2>1, <1>2
<1> QED BY <1>3, <1>4 DEF T

-----------------------------------------------------------------------------
(* Splitting the queue.                                                    *)

LEMMA SplitOffIs ==
    ASSUME NEW q \in Seq(Callers), q # <<>>
    PROVE  SplitOff(q) \in 1..Len(q)
<1> DEFINE S == {k \in DOMAIN q : \A j \in 2..k : Totals(NumBytes, q)[j] < batch_size_bytes}
<1>1. Len(q) \in Nat /\ DOMAIN q = 1..Len(q) /\ 1 \in DOMAIN q
  OBVIOUS
<1>2. 1 \in S
  <2>1. 2..1 = {}
    OBVIOUS
  <2> QED BY <1>1, <2>1
<1>3. S \in SUBSET (0..Len(q)) /\ S \subseteq 1..Len(q)
  BY <1>1
<1>4. SplitOff(q) = Max(S)
  BY DEF SplitOff
<1> HIDE DEF S
<1>5. Max(S) \in S
  BY <1>1, <1>2, <1>3, MaxOf
<1> QED BY <1>3, <1>4, <1>5

LEMMA Split ==
    ASSUME NEW q \in Seq(Callers), Distinct(q), NEW k \in 1..Len(q)
    PROVE  /\ SubSeq(q, 1, k) \in Seq(Callers) /\ SubSeq(q, k + 1, Len(q)) \in Seq(Callers)
           /\ Distinct(SubSeq(q, 1, k)) /\ Distinct(SubSeq(q, k + 1, Len(q)))
           /\ ToSet(q) = ToSet(SubSeq(q, 1, k)) \cup ToSet(SubSeq(q, k + 1, Len(q)))
           /\ ToSet(SubSeq(q, 1, k)) \cap ToSet(SubSeq(q, k + 1, Len(q))) = {}
<1> DEFINE a == SubSeq(q, 1, k)
           b == SubSeq(q, k + 1, Len(q))
<1>1. Len(q) \in Nat /\ k \in Nat /\ k <= Len(q) /\ 1 <= k
  OBVIOUS
<1>2. a \in Seq(Callers) /\ Len(a) = k /\ \A i \in 1..k : a[i] = q[i]
  BY <1>1
<1>3. b \in Seq(Callers) /\ Len(b) = Len(q) - k /\ \A i \in 1..(Len(q) - k) : b[i] = q[i + k]
  BY <1>1
<1>4. DOMAIN a = 1..k /\ DOMAIN b = 1..(Len(q) - k) /\ DOMAIN q = 1..Len(q)
  BY <1>2, <1>3
<1> HIDE DEF a, b
<1>5. Distinct(a) /\ Distinct(b)
  <2>1. ASSUME NEW i \in 1..k, NEW j \in 1..k, a[i] = a[j]
        PROVE  i = j
    <3>1. i \in 1..Len(q) /\ j \in 1..Len(q)
      BY <1>1
    <3> QED BY <1>2, <1>4, <2>1, <3>1 DEF Distinct
  <2>2. ASSUME NEW i \in 1..(Len(q) - k), NEW j \in 1..(Len(q) - k), b[i] = b[j]
        PROVE  i = j
    <3>1. i + k \in 1..Len(q) /\ j + k \in 1..Len(q)
      BY <1>1
    <3>2. i + k = j + k
      BY <1>3, <1>4, <2>2, <3>1 DEF Distinct
    <3> QED BY <1>1, <3>2
  <2> QED BY <1>4, <2>1, <2>2 DEF Distinct
<1>6. ToSet(q) = ToSet(a) \cup ToSet(b)
  <2>1. ASSUME NEW i \in 1..Len(q)
        PROVE  q[i] \in ToSet(a) \cup ToSet(b)
    <3>1. CASE i <= k
      BY <1>1, <1>2, <1>4, <3>1 DEF ToSet
    <3>2. CASE ~(i <= k)
      <4>1. i - k \in 1..(Len(q) - k) /\ (i - k) + k = i
        BY <1>1, <3>2
      <4>2. b[i - k] = q[i]
        BY <1>3, <4>1
      <4> QED BY <1>4, <4>1, <4>2 DEF ToSet
    <3> QED BY <3>1, <3>2
  <2>2. \A i \in 1..k : a[i] \in ToSet(q)
    BY <1>1, <1>2, <1>4 DEF ToSet
  <2>3. \A i \in 1..(Len(q) - k) : b[i] \in ToSet(q)
    <3>1. \A i \in 1..(Len(q) - k) : i + k \in 1..Len(q)
      BY <1>1
    <3> QED BY <1>3, <1>4, <3>1 DEF ToSet
  <2> QED BY <1>4, <2>1, <2>2, <2>3 DEF ToSet
<1>7. ToSet(a) \cap ToSet(b) = {}
  <2>1. ASSUME NEW i \in 1..k, NEW j \in 1..(Len(q) - k), a[i] = b[j]
        PROVE  FALSE
    <3>1. i \in 1..Len(q) /\ j + k \in 1..Len(q) /\ i # j + k
      BY <1>1
    <3> QED BY <1>2, <1>3, <1>4, <2>1, <3>1 DEF Distinct
  <2> QED BY <1>4, <2>1 DEF ToSet
<1> QED BY <1>2, <1>3, <1>5, <1>6, <1>7 DEF a, b

-----------------------------------------------------------------------------
(* Steps.                                                                  *)

(* Nobody makes a call; a call that was made may go on.                    *)
SameCalls ==
    /\ call' \in [Callers -> {"none", "pushed", "waiting"}]
    /\ \A c \in Callers : call'[c] = "none" <=> call[c] = "none"

LEMMA QuietStep ==
    ASSUME IInv, SameCalls,
           UNCHANGED <<enqueued, writers_active, next_log_position, outcome, position, writing>>
    PROVE  IInv'
<1>1. \A c \in Callers : Waits(c)' = Waits(c)
  BY DEF SameCalls, Waits
<1>2. Types' /\ WritesOK' /\ PositionsOK'
  BY DEF IInv, Types, SameCalls, WritesOK, Writes, PositionsOK, Ends
<1>3. ToSet(enqueued) \subseteq Callers /\ \A r \in writing : ToSet(r.work) \subseteq Callers
  BY DEF IInv, Types, Batch, ToSet
<1>4. QueueOK'
  BY <1>1, <1>3 DEF IInv, QueueOK, SameCalls
<1> QED BY <1>2, <1>4 DEF IInv

LEMMA PushWorkKeeps ==
    ASSUME IInv, NEW c \in Callers, PushWork(c)
    PROVE  IInv'
<1>1. /\ call[c] = "none" /\ call' = [call EXCEPT ![c] = "pushed"]
      /\ UNCHANGED <<writers_active, next_log_position, position, writing>>
      /\ \/ \E reply \in {"retry", "backoff"} : outcome' = Send(<<c>>, reply) /\ UNCHANGED enqueued
         \/ enqueued' = Append(enqueued, c) /\ UNCHANGED outcome
  BY DEF PushWork
<1>2. /\ call'[c] = "pushed" /\ outcome[c] = "none" /\ ~Waits(c)
      /\ \A d \in Callers : d # c => call'[d] = call[d]
  BY <1>1 DEF IInv, Types, QueueOK, Waits
<1>3. ToSet(enqueued) \subseteq Callers /\ \A r \in writing : ToSet(r.work) \subseteq Callers
  BY DEF IInv, Types, Batch, ToSet
<1>4. c \notin ToSet(enqueued) /\ \A r \in writing : c \notin ToSet(r.work)
  BY <1>2 DEF IInv, QueueOK
<1>5. WritesOK'
  BY <1>1 DEF IInv, WritesOK, Writes
<1>6. ASSUME NEW reply \in {"retry", "backoff"}, outcome' = Send(<<c>>, reply), UNCHANGED enqueued
      PROVE  IInv'
  <2>1. ToSet(<<c>>) = {c}
    BY DEF ToSet
  <2>2. outcome' = [d \in Callers |-> IF d = c THEN reply ELSE outcome[d]]
    BY <1>6, <2>1 DEF Send
  <2>3. Types'
    BY <1>1, <1>6, <2>2 DEF IInv, Types
  <2>4. outcome'[c] = reply /\ \A d \in Callers : d # c => outcome'[d] = outcome[d]
    BY <2>2
  <2>5. ~Waits(c)' /\ \A d \in Callers : d # c => Waits(d)' = Waits(d)
    BY <1>2, <2>4 DEF Waits
  <2>6. QueueOK'
    BY <1>1, <1>2, <1>3, <1>4, <1>6, <2>4, <2>5 DEF IInv, QueueOK
  <2>7. PositionsOK'
    <3>1. \A d \in Callers : outcome'[d] = "ok" => outcome[d] = "ok"
      BY <2>4
    <3>2. Writes' = Writes /\ \A d \in Callers : Ends(d)' = Ends(d)
      BY <1>1 DEF Writes, Ends
    <3> QED BY <1>1, <3>1, <3>2 DEF IInv, PositionsOK
  <2> QED BY <1>5, <2>3, <2>6, <2>7 DEF IInv
<1>7. ASSUME enqueued' = Append(enqueued, c), UNCHANGED outcome
      PROVE  IInv'
  <2>1. Types'
    BY <1>1, <1>7 DEF IInv, Types
  <2>2. enqueued \in Seq(Callers)
    BY DEF IInv, Types
  <2>3. ToSet(enqueued') = ToSet(enqueued) \cup {c} /\ Distinct(enqueued')
    <3>1. Len(enqueued) \in Nat /\ DOMAIN enqueued = 1..Len(enqueued)
          /\ DOMAIN enqueued' = 1..(Len(enqueued) + 1)
          /\ enqueued'[Len(enqueued) + 1] = c
          /\ \A i \in 1..Len(enqueued) : enqueued'[i] = enqueued[i]
      BY <1>7, <2>2
    <3>2. \A i \in 1..(Len(enqueued) + 1) : i \in 1..Len(enqueued) \/ i = Len(enqueued) + 1
      BY <3>1
    <3>3. ToSet(enqueued') = ToSet(enqueued) \cup {c}
      BY <3>1, <3>2 DEF ToSet
    <3>4. Distinct(enqueued)
      BY DEF IInv, QueueOK
    <3>5. \A i \in 1..Len(enqueued) : enqueued[i] # c
      BY <1>4, <3>1 DEF ToSet
    <3>6. Distinct(enqueued')
      BY <3>1, <3>2, <3>4, <3>5 DEF Distinct
    <3> QED BY <3>3, <3>6
  <2>4. Waits(c)' /\ \A d \in Callers : d # c => Waits(d)' = Waits(d)
    BY <1>2, <1>7 DEF Waits
  <2>5. QueueOK'
    BY <1>1, <1>2, <1>3, <1>4, <1>7, <2>3, <2>4 DEF IInv, QueueOK
  <2>6. PositionsOK'
    <3>1. Writes' = Writes /\ \A d \in Callers : Ends(d)' = Ends(d)
      BY <1>1 DEF Writes, Ends
    <3> QED BY <1>1, <1>7, <3>1 DEF IInv, PositionsOK
  <2> QED BY <1>5, <2>1, <2>5, <2>6 DEF IInv
<1> QED BY <1>1, <1>6, <1>7

LEMMA TakeBatchKeeps ==
    ASSUME IInv, SameCalls, NEW by \in {"task", "flusher"}, TakeBatch(by),
           UNCHANGED <<outcome, position>>
    PROVE  IInv'
<1> DEFINE k == SplitOff(enqueued)
           work == SubSeq(enqueued, 1, k)
           rest == SubSeq(enqueued, k + 1, Len(enqueued))
           new == [work |-> work, start |-> next_log_position, by |-> by, failed |-> FALSE]
<1>1. /\ enqueued # <<>> /\ writers_active = 0 /\ enqueued' = rest
      /\ writing' = writing \cup {new} /\ writers_active' = writers_active + 1
      /\ next_log_position' = next_log_position + Messages(work)
  BY DEF TakeBatch, select_for_write, write_begins
<1>2. enqueued \in Seq(Callers) /\ Distinct(enqueued) /\ next_log_position \in Nat
  BY DEF IInv, Types, QueueOK
<1>3. k \in 1..Len(enqueued)
  BY <1>1, <1>2, SplitOffIs
<1>4. /\ work \in Seq(Callers) /\ rest \in Seq(Callers) /\ Distinct(work) /\ Distinct(rest)
      /\ ToSet(enqueued) = ToSet(work) \cup ToSet(rest) /\ ToSet(work) \cap ToSet(rest) = {}
  BY <1>2, <1>3, Split
<1> HIDE DEF work, rest
<1>5. Messages(work) \in Nat
  <2>1. NumMessages \in [Callers -> Nat]
    BY CallerAssumption
  <2>2. Len(work) \in 0..Len(work)
    BY <1>4
  <2> QED BY <1>4, <2>1, <2>2, TotalsGrow DEF Messages
<1>6. new \in Batch /\ new.work = work /\ new.start = next_log_position /\ new.by # "close"
  BY <1>2, <1>4 DEF Batch
<1> HIDE DEF new
<1>7. Writes = {}
  BY <1>1 DEF IInv, WritesOK
<1>8. Writes' = {new}
  BY <1>1, <1>6, <1>7 DEF Writes
<1>9. Types'
  BY <1>1, <1>2, <1>4, <1>5, <1>6 DEF IInv, Types, SameCalls
<1>10. WritesOK'
  BY <1>1, <1>6, <1>8 DEF IInv, WritesOK
<1>11. \A c \in Callers : Waits(c)' = Waits(c)
  BY DEF SameCalls, Waits
<1>12. ToSet(work) \subseteq Callers /\ ToSet(rest) \subseteq Callers
       /\ \A r \in writing : ToSet(r.work) \subseteq Callers
  BY <1>4 DEF IInv, Types, Batch, ToSet
<1>13. QueueOK'
  <2>1. \A c \in ToSet(enqueued') : Waits(c)'
    BY <1>1, <1>4, <1>11, <1>12 DEF IInv, QueueOK
  <2>2. ASSUME NEW r \in writing'
        PROVE  /\ Distinct(r.work)
               /\ \A c \in ToSet(r.work) : Waits(c)' /\ c \notin ToSet(enqueued')
    BY <1>1, <1>4, <1>6, <1>11, <1>12 DEF IInv, QueueOK
  <2>3. ASSUME NEW c \in Callers, Waits(c)'
        PROVE  c \in ToSet(enqueued') \/ \E r \in writing' : c \in ToSet(r.work)
    BY <1>1, <1>4, <1>6, <1>11, <2>3 DEF IInv, QueueOK
  <2>4. \A c \in Callers : call'[c] = "none" => outcome'[c] = "none"
    BY DEF IInv, QueueOK, SameCalls
  <2> QED BY <1>1, <1>4, <2>1, <2>2, <2>3, <2>4 DEF QueueOK
<1>14. PositionsOK'
  <2>1. \A c \in Callers : Ends(c)' = Ends(c) /\ Ends(c) \in Nat
    BY CallerAssumption DEF IInv, Types, Ends
  <2>2. next_log_position' \in Nat /\ next_log_position <= next_log_position'
    BY <1>1, <1>2, <1>5
  <2>3. ASSUME NEW c \in Callers, outcome[c] = "ok"
        PROVE  Ends(c) <= next_log_position' /\ Ends(c) <= new.start
    <3>1. Ends(c) <= next_log_position
      BY <2>3 DEF IInv, PositionsOK
    <3> QED BY <1>2, <1>6, <2>1, <2>2, <3>1
  <2>4. new.start + Messages(new.work) <= next_log_position'
    BY <1>1, <1>2, <1>5, <1>6, <2>2
  <2> QED BY <1>8, <2>1, <2>3, <2>4 DEF IInv, PositionsOK
<1> QED BY <1>9, <1>10, <1>13, <1>14 DEF IInv

LEMMA AppendBatchOkKeeps ==
    ASSUME IInv, NEW r \in writing, AppendBatchOk(r)
    PROVE  IInv'
<1> DEFINE T == Totals(NumMessages, r.work)
           W == ToSet(r.work)
           n == Len(r.work)
<1>1. /\ ~r.failed /\ writers_active' = writers_active - 1
      /\ outcome' = Send(r.work, "ok")
      /\ position' = [c \in Callers |-> IF c \in W THEN r.start + T[Place(r.work, c) - 1]
                                        ELSE position[c]]
      /\ writing' = writing \ {r}
      /\ UNCHANGED <<enqueued, next_log_position, call>>
  BY DEF AppendBatchOk, Leave
<1>2. r \in Batch /\ r.by # "close" /\ r \in Writes
  BY <1>1 DEF IInv, Types, WritesOK, Writes
<1>3. r.work \in Seq(Callers) /\ r.start \in Nat /\ n \in Nat /\ DOMAIN r.work = 1..n
  BY <1>2 DEF Batch
<1>4. Writes = {r} /\ Writes' = {} /\ writers_active = 1
  BY <1>1, <1>2 DEF IInv, WritesOK, Writes
<1>5. /\ T[0] = 0 /\ \A i \in 1..n : T[i] = T[i - 1] + NumMessages[r.work[i]]
      /\ \A i \in 0..n : T[i] \in Nat
      /\ \A i, j \in 0..n : i <= j => T[i] <= T[j]
  <2>1. NumMessages \in [Callers -> Nat]
    BY CallerAssumption
  <2> QED BY <1>3, <2>1, TotalsAre, TotalsGrow
<1>6. Messages(r.work) = T[n]
  BY DEF Messages
<1> HIDE DEF T
<1>7. \A c \in W : Place(r.work, c) \in 1..n /\ r.work[Place(r.work, c)] = c
  BY <1>3 DEF Place, ToSet
<1> DEFINE at(c) == Place(r.work, c)
<1>8. ASSUME NEW c \in W
      PROVE  /\ position'[c] = r.start + T[at(c) - 1] /\ Ends(c)' = r.start + T[at(c)]
             /\ position'[c] \in Nat /\ c \in Callers
  <2>1. c \in Callers
    BY <1>3 DEF ToSet
  <2>2. at(c) \in 1..n /\ at(c) - 1 \in 0..n /\ r.work[at(c)] = c
    BY <1>3, <1>7
  <2>3. position'[c] = r.start + T[at(c) - 1]
    BY <1>1, <2>1
  <2>4. T[at(c) - 1] \in Nat /\ NumMessages[c] \in Nat /\ T[at(c)] = T[at(c) - 1] + NumMessages[c]
    BY <1>5, <2>1, <2>2, CallerAssumption
  <2> HIDE DEF at
  <2> QED BY <1>3, <2>1, <2>3, <2>4 DEF Ends
<1>9. /\ \A c \in Callers \ W : /\ position'[c] = position[c] /\ outcome'[c] = outcome[c]
                                /\ Ends(c)' = Ends(c)
      /\ \A c \in W : outcome'[c] = "ok"
      /\ W \subseteq Callers
  BY <1>1, <1>8 DEF Send, Ends
<1>10. Types'
  <2>1. position' \in [Callers -> Nat]
    <3>1. \A c \in Callers : position'[c] \in Nat
      BY <1>8, <1>9 DEF IInv, Types
    <3> QED BY <1>1, <3>1
  <2>2. outcome' \in [Callers -> {"none", "ok", "retry", "backoff", "error"}]
    BY <1>1 DEF IInv, Types, Send
  <2> QED BY <1>1, <1>4, <2>1, <2>2 DEF IInv, Types
<1>11. WritesOK'
  BY <1>1, <1>4 DEF IInv, WritesOK
<1>12. QueueOK'
  <2>1. \A c \in Callers : Waits(c)' <=> Waits(c) /\ c \notin W
    BY <1>1, <1>9 DEF Waits
  <2>2. \A c \in W : Waits(c) /\ c \notin ToSet(enqueued)
    BY DEF IInv, QueueOK
  <2>3. ToSet(enqueued) \subseteq Callers /\ \A q \in writing : ToSet(q.work) \subseteq Callers
    BY DEF IInv, Types, Batch, ToSet
  <2>4. ASSUME NEW q \in writing'
        PROVE  /\ Distinct(q.work)
               /\ \A c \in ToSet(q.work) : Waits(c)' /\ c \notin ToSet(enqueued')
    <3>1. q \in writing /\ q \notin Writes
      BY <1>1, <1>4
    <3>2. q.work = <<>>
      BY <3>1 DEF IInv, WritesOK, Writes
    <3> QED BY <3>2 DEF Distinct, ToSet
  <2>5. \A c \in Callers : call'[c] = "none" => outcome'[c] = "none"
    BY <1>1, <1>9, <2>2 DEF IInv, QueueOK, Waits
  <2>6. \A c \in Callers : Waits(c)' => \/ c \in ToSet(enqueued')
                                        \/ \E q \in writing' : c \in ToSet(q.work)
    BY <1>1, <2>1 DEF IInv, QueueOK
  <2> QED BY <1>1, <2>1, <2>2, <2>3, <2>4, <2>5, <2>6 DEF IInv, QueueOK
<1>13. PositionsOK'
  <2>1. next_log_position \in Nat /\ \A c \in Callers : Ends(c) \in Nat /\ position[c] \in Nat
    BY CallerAssumption DEF IInv, Types, Ends
  <2>2. r.start + T[n] <= next_log_position /\ T[n] \in Nat
    BY <1>2, <1>3, <1>5, <1>6 DEF IInv, PositionsOK
  <2>3. \A c \in Callers \ W : outcome[c] = "ok" => Ends(c) <= r.start /\ Ends(c) <= next_log_position
    BY <1>2 DEF IInv, PositionsOK
  <2>4. ASSUME NEW c \in W
        PROVE  Ends(c)' <= next_log_position /\ r.start <= position'[c]
    <3>1. at(c) \in 0..n /\ at(c) - 1 \in 0..n /\ at(c) <= n /\ n \in 0..n
      BY <1>3, <1>7
    <3>2. T[at(c)] \in Nat /\ T[at(c) - 1] \in Nat /\ T[at(c)] <= T[n]
      BY <1>5, <3>1
    <3> HIDE DEF at
    <3> QED BY <1>3, <1>8, <2>1, <2>2, <2>4, <3>2
  <2>5. \A c \in Callers : outcome'[c] = "ok" => Ends(c)' <= next_log_position'
    BY <1>1, <1>9, <2>3, <2>4
  <2>6. ASSUME NEW c \in Callers, NEW d \in Callers, outcome'[c] = "ok", outcome'[d] = "ok", c # d
        PROVE  Ends(c)' <= position'[d] \/ Ends(d)' <= position'[c]
    <3>1. CASE c \in W /\ d \in W
      <4>1. at(c) \in 1..n /\ at(d) \in 1..n /\ at(c) # at(d)
        BY <1>7, <2>6, <3>1
      <4>2. at(c) <= at(d) - 1 \/ at(d) <= at(c) - 1
        BY <1>3, <4>1
      <4>3. {at(c), at(d), at(c) - 1, at(d) - 1} \subseteq 0..n
        BY <1>3, <4>1
      <4>4. T[at(c)] <= T[at(d) - 1] \/ T[at(d)] <= T[at(c) - 1]
        BY <1>5, <4>2, <4>3
      <4>5. T[at(c)] \in Nat /\ T[at(d)] \in Nat /\ T[at(c) - 1] \in Nat /\ T[at(d) - 1] \in Nat
        BY <1>5, <4>3
      <4>6. /\ position'[c] = r.start + T[at(c) - 1] /\ Ends(c)' = r.start + T[at(c)]
            /\ position'[d] = r.start + T[at(d) - 1] /\ Ends(d)' = r.start + T[at(d)]
        BY <1>8, <3>1
      <4> HIDE DEF at
      <4> QED BY <1>3, <4>4, <4>5, <4>6
    <3>2. CASE c \in W /\ d \notin W
      <4>1. Ends(d)' = Ends(d) /\ Ends(d) <= r.start
        BY <1>9, <2>3, <2>6, <3>2
      <4>2. r.start <= position'[c] /\ position'[c] \in Nat
        BY <1>8, <2>4, <3>2
      <4>3. Ends(d)' \in Nat
        BY <2>1, <4>1
      <4> QED BY <1>3, <4>1, <4>2, <4>3
    <3>3. CASE c \notin W /\ d \in W
      <4>1. Ends(c)' = Ends(c) /\ Ends(c) <= r.start
        BY <1>9, <2>3, <2>6, <3>3
      <4>2. r.start <= position'[d] /\ position'[d] \in Nat
        BY <1>8, <2>4, <3>3
      <4>3. Ends(c)' \in Nat
        BY <2>1, <4>1
      <4> QED BY <1>3, <4>1, <4>2, <4>3
    <3>4. CASE c \notin W /\ d \notin W
      BY <1>9, <2>6, <3>4 DEF IInv, PositionsOK
    <3> QED BY <3>1, <3>2, <3>3, <3>4
  <2> QED BY <1>4, <2>5, <2>6 DEF PositionsOK
<1> QED BY <1>10, <1>11, <1>12, <1>13 DEF IInv

(* The queue is given up, and writing has the same batches.                *)
LEMMA TearDownKeeps ==
    ASSUME IInv, TearDown, Types', WritesOK', Writes' # {} => Writes # {},
           \A q \in Writes' : \E r \in Writes : q.start = r.start /\ q.work = r.work,
           \A r \in Writes : \E q \in Writes' : q.work = r.work,
           \A q \in writing' : q \in Writes' \/ q.work = <<>>
    PROVE  IInv'
<1>1. /\ enqueued' = <<>> /\ outcome' = Send(enqueued, "retry")
      /\ UNCHANGED <<next_log_position, call, position>>
  BY DEF TearDown
<1>2. ToSet(enqueued) \subseteq Callers /\ \A r \in writing : ToSet(r.work) \subseteq Callers
  BY DEF IInv, Types, Batch, ToSet
<1>3. /\ \A c \in ToSet(enqueued) : outcome'[c] = "retry"
      /\ \A c \in Callers \ ToSet(enqueued) : outcome'[c] = outcome[c]
  BY <1>1, <1>2 DEF Send
<1>4. ToSet(<<>>) = {} /\ Distinct(<<>>)
  BY DEF ToSet, Distinct
<1>5. \A c \in Callers : Waits(c)' <=> Waits(c) /\ c \notin ToSet(enqueued)
  BY <1>1, <1>3 DEF Waits
<1>6. QueueOK'
  <2>1. ASSUME NEW q \in writing'
        PROVE  Distinct(q.work) /\ \A c \in ToSet(q.work) : Waits(c)'
    <3>1. CASE q.work = <<>>
      BY <1>4, <3>1
    <3>2. CASE q \in Writes'
      <4>1. PICK r \in Writes : q.work = r.work
        BY <3>2
      <4>2. r \in writing
        BY DEF Writes
      <4> QED BY <1>2, <1>5, <4>1, <4>2 DEF IInv, QueueOK
    <3> QED BY <3>1, <3>2
  <2>2. ASSUME NEW c \in Callers, Waits(c)'
        PROVE  \E q \in writing' : c \in ToSet(q.work)
    <3>1. PICK r \in writing : c \in ToSet(r.work)
      BY <1>5, <2>2 DEF IInv, QueueOK
    <3>2. r \in Writes
      BY <1>4, <3>1 DEF IInv, WritesOK, Writes
    <3>3. PICK q \in Writes' : q.work = r.work
      BY <3>2
    <3> QED BY <3>1, <3>3 DEF Writes
  <2>3. \A c \in Callers : call'[c] = "none" => outcome'[c] = "none"
    BY <1>1, <1>3 DEF IInv, QueueOK, Waits
  <2> QED BY <1>1, <1>4, <2>1, <2>2, <2>3 DEF QueueOK
<1>7. PositionsOK'
  <2>1. \A c \in Callers : outcome'[c] = "ok" => outcome[c] = "ok"
    BY <1>3
  <2>2. \A c \in Callers : Ends(c)' = Ends(c)
    BY <1>1 DEF Ends
  <2> QED BY <1>1, <2>1, <2>2 DEF IInv, PositionsOK
<1> QED BY <1>6, <1>7 DEF IInv

LEMMA TornTypes ==
    ASSUME IInv, TearDown, writing' \subseteq Batch
    PROVE  Types'
<1>1. outcome' \in [Callers -> {"none", "ok", "retry", "backoff", "error"}]
  BY DEF IInv, Types, TearDown, Send
<1>2. <<>> \in Seq(Callers)
  OBVIOUS
<1> QED BY <1>1, <1>2 DEF IInv, Types, TearDown

LEMMA AppendBatchFailsKeeps ==
    ASSUME IInv, NEW r \in writing, AppendBatchFails(r)
    PROVE  IInv'
<1> DEFINE f == [r EXCEPT !.failed = TRUE]
<1>1. ~r.failed /\ TearDown /\ writing' = (writing \ {r}) \cup {f} /\ UNCHANGED writers_active
  BY DEF AppendBatchFails, TearDown
<1>2. r \in Batch /\ r.by # "close" /\ r \in Writes
  BY <1>1 DEF IInv, Types, WritesOK, Writes
<1>3. f \in Batch /\ f.by = r.by /\ f.work = r.work /\ f.start = r.start
  BY <1>2 DEF Batch
<1> HIDE DEF f
<1>4. Types'
  BY <1>1, <1>3, TornTypes DEF IInv, Types
<1>5. Writes = {r} /\ writers_active = 1
  BY <1>2 DEF IInv, WritesOK
<1>6. Writes' = {f}
  BY <1>1, <1>2, <1>3, <1>5 DEF Writes
<1>7. WritesOK'
  BY <1>1, <1>2, <1>3, <1>5, <1>6 DEF IInv, WritesOK
<1>8. \A q \in writing' : q \in Writes' \/ q.work = <<>>
  BY <1>7 DEF WritesOK, Writes
<1> QED BY <1>1, <1>3, <1>4, <1>5, <1>6, <1>7, <1>8, TearDownKeeps

LEMMA CloseKeeps ==
    ASSUME IInv, Close
    PROVE  IInv'
<1> DEFINE f == [work |-> <<>>, start |-> 0, by |-> "close", failed |-> TRUE]
<1>1. TearDown /\ writing' = writing \cup {f} /\ UNCHANGED writers_active
  BY DEF Close, TearDown
<1>2. f \in Batch /\ f.by = "close" /\ f.work = <<>> /\ f.failed
  BY DEF Batch
<1> HIDE DEF f
<1>3. Types'
  BY <1>1, <1>2, TornTypes DEF IInv, Types
<1>4. Writes' = Writes
  BY <1>1, <1>2 DEF Writes
<1>5. WritesOK'
  BY <1>1, <1>2, <1>4 DEF IInv, WritesOK
<1>6. \A q \in writing' : q \in Writes' \/ q.work = <<>>
  BY <1>5 DEF WritesOK, Writes
<1> QED BY <1>1, <1>3, <1>4, <1>5, <1>6, TearDownKeeps

LEMMA ShutdownEndsKeeps ==
    ASSUME IInv, NEW r \in writing, ShutdownEnds(r)
    PROVE  IInv'
<1> DEFINE W == ToSet(r.work)
<1>1. /\ outcome' = Send(r.work, "error") /\ writing' = writing \ {r}
      /\ UNCHANGED <<enqueued, writers_active, next_log_position, call, position>>
  BY DEF ShutdownEnds, Leave, state
<1>2. ToSet(enqueued) \subseteq Callers /\ \A q \in writing : ToSet(q.work) \subseteq Callers
  BY DEF IInv, Types, Batch, ToSet
<1>3. /\ \A c \in W : outcome'[c] = "error"
      /\ \A c \in Callers \ W : outcome'[c] = outcome[c]
  BY <1>1, <1>2 DEF Send
<1>4. Types'
  <2>1. outcome' \in [Callers -> {"none", "ok", "retry", "backoff", "error"}]
    BY <1>1 DEF IInv, Types, Send
  <2> QED BY <1>1, <2>1 DEF IInv, Types
<1>5. Writes' \subseteq Writes /\ WritesOK'
  BY <1>1 DEF IInv, WritesOK, Writes
<1>6. \A c \in Callers : Waits(c)' <=> Waits(c) /\ c \notin W
  BY <1>1, <1>3 DEF Waits
<1>7. ASSUME NEW q \in writing, q # r
      PROVE  ToSet(q.work) \cap W = {}
  <2>1. ToSet(<<>>) = {}
    BY DEF ToSet
  <2>2. q.work = <<>> \/ r.work = <<>>
    BY <1>7 DEF IInv, WritesOK, Writes
  <2> QED BY <2>1, <2>2
<1>8. QueueOK'
  <2>1. \A c \in W : Waits(c) /\ c \notin ToSet(enqueued)
    BY DEF IInv, QueueOK
  <2>2. ASSUME NEW q \in writing'
        PROVE  /\ Distinct(q.work)
               /\ \A c \in ToSet(q.work) : Waits(c)' /\ c \notin ToSet(enqueued')
    BY <1>1, <1>2, <1>6, <1>7 DEF IInv, QueueOK
  <2>3. \A c \in Callers : Waits(c)' => \/ c \in ToSet(enqueued')
                                        \/ \E q \in writing' : c \in ToSet(q.work)
    BY <1>1, <1>6 DEF IInv, QueueOK
  <2>4. \A c \in Callers : call'[c] = "none" => outcome'[c] = "none"
    BY <1>1, <1>3, <2>1 DEF IInv, QueueOK, Waits
  <2>5. Distinct(enqueued') /\ \A c \in ToSet(enqueued') : Waits(c)'
    BY <1>1, <1>2, <1>6, <2>1 DEF IInv, QueueOK
  <2> QED BY <2>2, <2>3, <2>4, <2>5 DEF QueueOK
<1>9. PositionsOK'
  <2>1. \A c \in Callers : outcome'[c] = "ok" => outcome[c] = "ok"
    BY <1>3
  <2>2. \A c \in Callers : Ends(c)' = Ends(c)
    BY <1>1 DEF Ends
  <2> QED BY <1>1, <1>5, <2>1, <2>2 DEF IInv, PositionsOK
<1> QED BY <1>4, <1>5, <1>8, <1>9 DEF IInv

-----------------------------------------------------------------------------
(* The theorems.                                                           *)

LEMMA InitOK ==
    ASSUME Init
    PROVE  IInv
<1>1. ToSet(<<>>) = {} /\ Distinct(<<>>) /\ <<>> \in Seq(Callers)
  BY DEF ToSet, Distinct
<1>2. Types /\ WritesOK
  BY <1>1 DEF Init, Types, WritesOK, Writes
<1>3. QueueOK
  BY <1>1 DEF Init, QueueOK, Waits
<1>4. PositionsOK
  BY DEF Init, PositionsOK, Writes
<1> QED BY <1>2, <1>3, <1>4 DEF IInv

LEMMA StepOK ==
    ASSUME IInv, [Next]_vars
    PROVE  IInv'
<1>0. call \in [Callers -> {"none", "pushed", "waiting"}]
  BY DEF IInv, Types
<1>1. ASSUME NEW c \in Callers, Caller(c)
      PROVE  IInv'
  <2>1. CASE PushWork(c)
    BY <2>1, PushWorkKeeps
  <2>2. CASE CallerTakesWork(c)
    <3>1. SameCalls /\ UNCHANGED <<outcome, position>>
      BY <1>0, <2>2 DEF CallerTakesWork, SameCalls
    <3>2. CASE TakeNothing
      BY <3>1, <3>2, QuietStep DEF TakeNothing, state
    <3>3. CASE TakeBatch("task")
      BY <3>1, <3>3, TakeBatchKeeps
    <3> QED BY <2>2, <3>2, <3>3 DEF CallerTakesWork
  <2> QED BY <1>1, <2>1, <2>2 DEF Caller
<1>2. CASE Flusher
  <2>1. SameCalls /\ UNCHANGED <<outcome, position>>
    BY <1>0, <1>2 DEF Flusher, FlusherChecks, FlusherNotified, FlusherTakesWork, FlusherWakes,
       SameCalls
  <2>2. CASE FlusherChecks \/ FlusherNotified \/ FlusherWakes
    BY <2>1, <2>2, QuietStep DEF FlusherChecks, FlusherNotified, FlusherWakes, state
  <2>3. CASE FlusherTakesWork
    <3>1. CASE TakeNothing
      BY <2>1, <3>1, QuietStep DEF TakeNothing, state
    <3>2. CASE TakeBatch("flusher")
      BY <2>1, <3>2, TakeBatchKeeps
    <3> QED BY <2>3, <3>1, <3>2 DEF FlusherTakesWork
  <2> QED BY <1>2, <2>2, <2>3 DEF Flusher
<1>3. CASE Write
  BY <1>3, AppendBatchOkKeeps, AppendBatchFailsKeeps, ShutdownEndsKeeps DEF Write
<1>4. CASE Close
  BY <1>4, CloseKeeps
<1>5. CASE TimePasses \/ Finished \/ UNCHANGED vars
  <2>1. SameCalls /\ UNCHANGED <<enqueued, writers_active, next_log_position, outcome, position, writing>>
    BY <1>0, <1>5 DEF TimePasses, Finished, vars, state, SameCalls
  <2> QED BY <2>1, QuietStep
<1> QED BY <1>1, <1>2, <1>3, <1>4, <1>5 DEF Next

(* The invariant above holds in every reachable state.                     *)
THEOREM Invariance == Spec => []IInv
<1>1. Init => IInv
  BY InitOK
<1>2. IInv /\ [Next]_vars => IInv'
  BY StepOK
<1> QED BY <1>1, <1>2, PTL DEF Spec

(* One fragment is in flight at a time: a caller and the flusher never     *)
(* both take work, and nobody does after a failure (select_for_write,      *)
(* finish_write).                                                          *)
THEOREM OneWrite == Spec => []OneWriteAtATime
<1>1. ASSUME IInv
      PROVE  OneWriteAtATime
  <2>1. \A q, r \in Writes : q = r
    BY <1>1 DEF IInv, WritesOK
  <2>2. CASE Writes = {}
    BY <2>2, FS_EmptySet DEF OneWriteAtATime, Writes
  <2>3. CASE Writes # {}
    <3>1. PICK r : Writes = {r}
      BY <2>1, <2>3
    <3>2. Cardinality(Writes) = 1
      BY <3>1, FS_Singleton
    <3> QED BY <3>2 DEF OneWriteAtATime, Writes
  <2> QED BY <2>2, <2>3
<1> QED BY <1>1, Invariance, PTL

(* A call without an outcome is in the queue or in a batch, once, and a    *)
(* call with an outcome is in neither (push_work, take_work, shutdown,     *)
(* append_batch).                                                          *)
THEOREM Accounted == Spec => []CallsAreAccountedFor
<1>1. ASSUME IInv, NEW c \in Callers
      PROVE  Cardinality({i \in DOMAIN enqueued : enqueued[i] = c}) +
             Cardinality({r \in writing : c \in ToSet(r.work)})
                 = IF call[c] # "none" /\ outcome[c] = "none" THEN 1 ELSE 0
  <2> DEFINE Q == {i \in DOMAIN enqueued : enqueued[i] = c}
             B == {r \in writing : c \in ToSet(r.work)}
  <2>1. Q # {} <=> c \in ToSet(enqueued)
    BY DEF ToSet
  <2>2. \A i, j \in Q : i = j
    BY <1>1 DEF IInv, QueueOK, Distinct
  <2>3. \A q, r \in B : q = r
    <3>1. ToSet(<<>>) = {}
      BY DEF ToSet
    <3> QED BY <1>1, <3>1 DEF IInv, WritesOK, Writes
  <2>4. Waits(c) <=> Q # {} \/ B # {}
    BY <1>1, <2>1 DEF IInv, QueueOK
  <2>5. Q = {} \/ B = {}
    BY <1>1, <2>1 DEF IInv, QueueOK
  <2> HIDE DEF Q, B
  <2>6. Cardinality(Q) = IF Q = {} THEN 0 ELSE 1
    <3>1. Q # {} => \E x : Q = {x}
      BY <2>2
    <3> QED BY <3>1, FS_EmptySet, FS_Singleton
  <2>7. Cardinality(B) = IF B = {} THEN 0 ELSE 1
    <3>1. B # {} => \E x : B = {x}
      BY <2>3
    <3> QED BY <3>1, FS_EmptySet, FS_Singleton
  <2>8. Cardinality(Q) + Cardinality(B) = IF Waits(c) THEN 1 ELSE 0
    BY <2>4, <2>5, <2>6, <2>7
  <2> QED BY <2>8 DEF Q, B, Waits
<1>2. IInv => CallsAreAccountedFor
  BY <1>1 DEF CallsAreAccountedFor
<1> QED BY <1>2, Invariance, PTL

(* Callers are told positions that do not overlap, in one batch and across *)
(* batches, whatever the numbers of their messages (append_batch).         *)
THEOREM Apart == Spec => []PositionsAreApart
<1>1. IInv => PositionsAreApart
  BY DEF IInv, PositionsOK, Ends, PositionsAreApart
<1> QED BY <1>1, Invariance, PTL

=============================================================================

----------------------- MODULE GarbageCollection_proofs ----------------------
(***************************************************************************)
(* Proofs about GarbageCollection, for any number of writers, collectors,  *)
(* batches and faults and any thresholds.  What Garbage::new promises      *)
(* (ComputesRuns) is the one hypothesis.                                   *)
(*                                                                         *)
(* The positions: a conditional put of the manifest goes through only if   *)
(* the sender holds the current one, so nothing is asked of a manifest     *)
(* that is out of date.  What garbage leaves of a current manifest, and    *)
(* what an append makes of it, ends where the log ends; so the next        *)
(* fragment follows the last one, whatever was collected before it.        *)
(*                                                                         *)
(* The records: garbage ends at or before the cursor from its computation  *)
(* to its deletion, and the cursor only moves forward; a fragment that is  *)
(* not linked yet is never deleted.                                        *)
(*                                                                         *)
(* What is left behind: of every manifest there is, current or not, all    *)
(* that it has let go of is accounted for, and what is accounted for stays *)
(* so: gc/GARBAGE is replaced only when it is empty, and reset only by one *)
(* that has deleted what it names or that abandons it.                     *)
(***************************************************************************)
EXTENDS GarbageCollection, LogWriter_proofs

(* Collections: the positions.  A put of the manifest goes through only if *)
(* its sender holds the manifest that is there, so nothing is asked of     *)
(* manifests that are out of date; whatever is written, by whom and how    *)
(* late, follows the fragment before it in the log.                        *)

(* f may be written or linked after the fragment before it.                *)
Placed(log, f) == IsFragment(f) /\ f.seq_no <= Len(log) + 1 /\ Follows(log, f)

(* m is a manifest of log: it goes on where log ends, and balances.        *)
Parts(m, n, top) ==
    /\ IsSeq(m.snapshots) /\ IsSeq(m.fragments)
    /\ \A i \in DOMAIN m.snapshots : Part(m.snapshots[i], top) /\ m.snapshots[i].depth \in Nat
    /\ \A i \in DOMAIN m.fragments : Part(m.fragments[i], top)
    /\ \A i \in DOMAIN m.fragments :
          /\ m.fragments[i].seq_no \in Nat
          /\ i < Len(m.fragments) => m.fragments[i].seq_no < n

Tip(m, n, top) ==
    IF m.fragments = <<>>
    THEN /\ m.snapshots = <<>>
         /\ UnwrapOr(m.initial_seq_no, BEGIN) = n + 1
         /\ UnwrapOr(m.initial_offset, 1) = top
    ELSE /\ m.fragments[Len(m.fragments)].seq_no = n
         /\ m.fragments[Len(m.fragments)].limit = top

Balanced(log, m) ==
    /\ m.setsum = Setsums(log) /\ m.collected \in Int
    /\ scrub(m)

Heads(log, m) ==
    /\ Parts(m, Len(log), EndOf(log, Len(log)))
    /\ Tip(m, Len(log), EndOf(log, Len(log)))
    /\ Balanced(log, m)

(* A log of consecutive fragments.                                         *)
LogOK(log) ==
    /\ IsSeq(log)
    /\ \A i \in DOMAIN log : log[i].seq_no = i /\ Placed(log, log[i])

FilesOK ==
    \A n \in DOMAIN fragments : fragments[n].seq_no = n /\ Placed(history, fragments[n])

(* What a put of m with the tag would do, if the manifest is still the one *)
(* with that tag: link f, or link nothing.                                 *)
MayLink(log, now, tag, m, f) ==
    /\ tag \in Nat /\ tag <= now
    /\ Placed(log, f)
    /\ tag = now => f.seq_no = Len(log) + 1 /\ Heads(Append(log, f), m)

MayStand(log, now, tag, m) ==
    /\ tag \in Nat /\ tag <= now
    /\ tag = now => Heads(log, m)

RequestOK(log, now, r) ==
    /\ r.kind = "fragment" => Placed(log, r.fragment)
    /\ r.kind = "manifest" => MayLink(log, now, r.e_tag, r.manifest, r.fragment)
    /\ r.kind = "collected" => MayStand(log, now, r.e_tag, r.manifest)

(* A staging whose next seq_no and position can be taken.                  *)
Takable(log, now, s) ==
    /\ s.next_seq_no_to_assign \in 1..(Len(log) + 1)
    /\ s.next_log_position = EndOf(log, s.next_seq_no_to_assign - 1)
    /\ s.e_tag = now => s.next_seq_no_to_assign = Len(log) + 1

Shaped(s, p) ==
    /\ {"manifest", "e_tag", "next_log_position", "next_seq_no_to_assign",
        "next_seq_no_to_apply"} \subseteq DOMAIN s
    /\ {"manifest", "snapshots"} \subseteq DOMAIN p

(* Between the calls that take a seq_no and a position from a staging.     *)
Resting(w) == pc[w] \in {"idle", "recover", "mark recovered", "ready", "collect"}

HoldsOK(w) ==
    LET s == staging[w]
        f == fragment[w]
    IN  /\ Shaped(s, pulled[w])
        /\ Loaded(w) => MayStand(history, e_tag, s.e_tag, s.manifest)
        /\ Loaded(w) /\ Resting(w) => Takable(history, e_tag, s)
        /\ Loaded(w) /\ pc[w] \notin {"snapshot", "install"} /\ s.e_tag = e_tag =>
              s.next_seq_no_to_apply = Len(history) + 1
        /\ pc[w] \in {"mark recovered", "write"} \/ Linking(w) => Placed(history, f)
        /\ Appending(w) =>
              /\ s.next_log_position = f.limit
              /\ s.next_seq_no_to_assign = f.seq_no + 1
        /\ pc[w] \in {"snapshot", "install"} =>
              /\ MayLink(history, e_tag, s.e_tag, pulled[w].manifest, f)
              /\ s.e_tag = e_tag => s.next_seq_no_to_apply = Len(history) + 2
        /\ pc[w] = "collect" => MayStand(history, e_tag, s.e_tag, pulled[w].manifest)

CallsOK(w) ==
    /\ pc[w] \in {"open", "recover", "mark recovered"} => inner[w] # "open"
    /\ goal[w] \in {"open", "append", "confirm"}
    /\ goal[w] # "open" => batch[w] \in Batches
    /\ pc[w] \in {"ready", "write"} \/ (Linking(w) /\ inner[w] = "open") => batch[w] \in Batches

GarbageOK(log, g) == g = EmptyGarbage \/ Cuts(log, g)

CollectionsOK ==
    /\ DOMAIN collector = Collectors
    /\ GarbageOK(history, garbage)
    /\ \A c \in Collectors :
          /\ {"pc", "garbage"} \subseteq DOMAIN collector[c]
          /\ collector[c].pc \in {"make", "put"} => GarbageOK(history, collector[c].garbage)

WriterDomains ==
    /\ DOMAIN pc = Writers /\ DOMAIN inner = Writers /\ DOMAIN goal = Writers
    /\ DOMAIN staging = Writers /\ DOMAIN fragment = Writers /\ DOMAIN pulled = Writers
    /\ DOMAIN batch = Writers /\ DOMAIN attempts = Writers /\ DOMAIN opens = Writers

GInv ==
    /\ WriterDomains
    /\ e_tag \in Nat
    /\ LogOK(history)
    /\ FilesOK
    /\ Heads(history, manifest)
    /\ \A r \in delayed : RequestOK(history, e_tag, r)
    /\ \A w \in Writers : HoldsOK(w) /\ CallsOK(w)
    /\ CollectionsOK

-----------------------------------------------------------------------------
(* Lemmas about logs and manifests.                                        *)

(* Where fragments end increases.                                          *)
LEMMA LogEnds ==
    ASSUME NEW log, LogOK(log)
    PROVE  /\ Len(log) \in Nat /\ DOMAIN log = 1..Len(log)
           /\ \A n \in 0..Len(log) : EndOf(log, n) \in Nat \ {0}
           /\ \A i, j \in 0..Len(log) : i < j => EndOf(log, i) < EndOf(log, j)
<1> DEFINE k == Len(log)
           b == [i \in 0..k |-> EndOf(log, i)]
<1>1. k \in Nat /\ DOMAIN log = 1..k
  BY SeqIs DEF LogOK
<1> HIDE DEF k
<1>2. ASSUME NEW i \in 1..k
      PROVE  /\ EndOf(log, i) \in Nat \ {0} /\ i - 1 \in 0..k /\ i \in 0..k
             /\ EndOf(log, i - 1) \in Nat /\ EndOf(log, i - 1) < EndOf(log, i)
  <2>1. log[i].seq_no = i /\ Placed(log, log[i])
    BY <1>1 DEF LogOK
  <2>2. NumRecords[log[i].batch] \in Nat \ {0}
    BY <2>1, BatchAssumption DEF Placed, IsFragment
  <2>3. /\ log[i].start = EndOf(log, i - 1) /\ log[i].start \in Nat \ {0}
        /\ log[i].limit = log[i].start + NumRecords[log[i].batch]
    BY <2>1 DEF Placed, Follows
  <2>4. EndOf(log, i) = log[i].limit
    BY <1>1 DEF EndOf
  <2> QED BY <1>1, <2>2, <2>3, <2>4
<1>3. EndOf(log, 0) = 1
  BY DEF EndOf
<1>4. ASSUME NEW n \in 0..k
      PROVE  EndOf(log, n) \in Nat \ {0}
  <2>1. n = 0 \/ n \in 1..k
    BY <1>1
  <2> QED BY <1>2, <1>3, <2>1
<1>5. b \in [0..k -> Nat] /\ \A i \in 1..k : b[i - 1] < b[i]
  BY <1>2, <1>4
<1>6. \A i \in 0..k : b[i] = EndOf(log, i)
  OBVIOUS
<1> HIDE DEF b
<1>7. \A i, j \in 0..k : i < j => b[i] < b[j]
  BY <1>1, <1>5, Increasing
<1> QED BY <1>1, <1>4, <1>6, <1>7 DEF k

(* The sum over a sequence with one element more.                          *)
LEMMA SetsumsAppend ==
    ASSUME NEW q, IsSeq(q), \A i \in DOMAIN q : q[i].setsum \in Int, NEW x, x.setsum \in Int
    PROVE  /\ Setsums(q) \in Int
           /\ Setsums(Append(q, x)) = Setsums(q) + x.setsum
<1> DEFINE k == Len(q)
           a == Append(q, x)
<1>1. k \in Nat /\ DOMAIN q = 1..k /\ q = [i \in 1..k |-> q[i]]
  BY SeqIs
<1>2. /\ a = [i \in 1..(k + 1) |-> IF i = k + 1 THEN x ELSE q[i]]
      /\ IsSeq(a) /\ Len(a) = k + 1
  BY AppendIs
<1> HIDE DEF k, a
<1>3. /\ a = First(a, k + 1) /\ q = First(a, k) /\ a[k + 1] = x
      /\ \A i \in 1..k : a[i] = q[i]
  BY <1>1, <1>2 DEF First
<1>4. ASSUME NEW i \in 1..(k + 1)
      PROVE  a[i].setsum \in Int
  <2>1. i \in 1..k \/ i = k + 1
    BY <1>1
  <2> QED BY <1>1, <1>3, <2>1
<1>5. Summed(a, k + 1)
  BY <1>1, <1>4 DEF Summed
<1>6. k \in 0..(k + 1) /\ k + 1 \in 1..(k + 1) /\ (k + 1) - 1 = k
  BY <1>1
<1>7. /\ SumTo(a, k) \in Int
      /\ SumTo(a, k + 1) = SumTo(a, k) + a[k + 1].setsum
  <2>1. /\ \A i \in 0..(k + 1) : SumTo(a, i) \in Int
        /\ \A i \in 1..(k + 1) : SumTo(a, i) = SumTo(a, i - 1) + a[i].setsum
    BY <1>5, SumToIs
  <2> QED BY <1>6, <2>1
<1> QED BY <1>3, <1>7 DEF SumTo, a

(* The log with the next fragment.                                         *)
LEMMA LogGrows ==
    ASSUME NEW log, LogOK(log), NEW f, Placed(log, f), f.seq_no = Len(log) + 1,
           NEW more, more = Append(log, f)
    PROVE  /\ LogOK(more)
           /\ Len(log) \in Nat /\ Len(more) = Len(log) + 1
           /\ \A n \in 0..Len(log) : EndOf(more, n) = EndOf(log, n)
           /\ EndOf(more, Len(more)) = f.limit
           /\ EndOf(log, Len(log)) = f.start
           /\ f.start \in Nat \ {0} /\ f.limit \in Nat /\ f.start < f.limit /\ f.setsum \in Int
           /\ \A g : Placed(log, g) => Placed(more, g)
           /\ Setsums(more) = Setsums(log) + f.setsum /\ Setsums(log) \in Int
<1> DEFINE k == Len(log)
<1>1. k \in Nat /\ DOMAIN log = 1..k /\ IsSeq(log)
  BY SeqIs DEF LogOK
<1>2. /\ more = [i \in 1..(k + 1) |-> IF i = k + 1 THEN f ELSE log[i]]
      /\ IsSeq(more) /\ Len(more) = k + 1
  BY <1>1, AppendIs
<1> HIDE DEF k
<1>3. /\ DOMAIN more = 1..(k + 1) /\ more[k + 1] = f /\ \A i \in 1..k : more[i] = log[i]
      /\ \A i \in 1..(k + 1) : i \in 1..k \/ i = k + 1
  BY <1>1, <1>2
<1>4. ASSUME NEW n \in 0..k
      PROVE  EndOf(more, n) = EndOf(log, n)
  <2>1. n = 0 \/ n \in 1..k
    BY <1>1
  <2> QED BY <1>3, <2>1 DEF EndOf
<1>5. EndOf(more, k + 1) = f.limit
  BY <1>1, <1>3 DEF EndOf
<1>6. /\ EndOf(log, k) = f.start
      /\ f.start \in Nat \ {0} /\ f.limit \in Nat /\ f.start < f.limit /\ f.setsum \in Int
  <2>1. NumRecords[f.batch] \in Nat \ {0}
    BY BatchAssumption DEF Placed, IsFragment
  <2>2. (k + 1) - 1 = k
    BY <1>1
  <2> QED BY <2>1, <2>2 DEF Placed, Follows, k
<1>7. ASSUME NEW g, Placed(log, g)
      PROVE  Placed(more, g)
  <2>1. g.seq_no \in Nat \ {0} /\ g.seq_no <= k + 1
    BY <1>7 DEF Placed, IsFragment, k
  <2>2. g.seq_no - 1 \in 0..k /\ g.seq_no <= k + 1 + 1
    BY <1>1, <2>1
  <2> QED BY <1>2, <1>4, <1>7, <2>2 DEF Placed, Follows
<1>8. LogOK(more)
  <2> SUFFICES ASSUME NEW i \in 1..(k + 1)
               PROVE  more[i].seq_no = i /\ Placed(more, more[i])
    BY <1>2, <1>3 DEF LogOK
  <2>1. CASE i \in 1..k
    BY <1>1, <1>3, <1>7, <2>1 DEF LogOK
  <2>2. CASE i = k + 1
    BY <1>3, <1>7, <2>2 DEF k
  <2> QED BY <1>3, <2>1, <2>2
<1>9. Setsums(more) = Setsums(log) + f.setsum /\ Setsums(log) \in Int
  <2>1. \A i \in DOMAIN log : log[i].setsum \in Int
    BY DEF LogOK, Placed, Follows
  <2> QED BY <1>1, <1>6, <2>1, SetsumsAppend
<1> QED BY <1>1, <1>2, <1>4, <1>5, <1>6, <1>7, <1>8, <1>9 DEF k

(* The parts of a manifest.                                                *)
LEMMA PartsOf ==
    ASSUME NEW m, NEW n \in Nat, NEW top \in Nat, Parts(m, n, top),
           NEW r, r = m.snapshots \o m.fragments
    PROVE  /\ IsSeq(r) /\ \A k \in DOMAIN r : Part(r[k], top)
           /\ \A i \in DOMAIN m.fragments : \E k \in DOMAIN r : r[k] = m.fragments[i]
           /\ r = <<>> => m.fragments = <<>>
           /\ r # <<>> => DOMAIN r # {}
<1>1. IsSeq(m.snapshots) /\ IsSeq(m.fragments) /\ r = Both(m.snapshots, m.fragments)
  BY DEF Parts, Both
<1>2. /\ IsSeq(r)
      /\ \A k \in DOMAIN r :
            \/ \E i \in DOMAIN m.snapshots : r[k] = m.snapshots[i]
            \/ \E i \in DOMAIN m.fragments : r[k] = m.fragments[i]
      /\ \A i \in DOMAIN m.fragments : \E k \in DOMAIN r : r[k] = m.fragments[i]
      /\ r = <<>> => m.fragments = <<>>
      /\ r # <<>> => DOMAIN r # {}
  BY <1>1, ConcatElements
<1>3. /\ \A i \in DOMAIN m.snapshots : Part(m.snapshots[i], top)
      /\ \A i \in DOMAIN m.fragments : Part(m.fragments[i], top)
  BY DEF Parts
<1> QED BY <1>2, <1>3

(* An empty sequence of snapshots and one of fragments.                    *)
LEMMA NoParts ==
    ASSUME NEW m, m.snapshots = <<>>, m.fragments = <<>>
    PROVE  m.snapshots \o m.fragments = <<>>
<1>1. <<>> \o <<>> = <<>>
  OBVIOUS
<1> QED BY <1>1

(* The last fragment has the highest seq_no.                               *)
LEMMA LastNumber ==
    ASSUME NEW m, NEW n \in Nat, NEW top \in Nat, Parts(m, n, top), Tip(m, n, top),
           NEW q, q = m.fragments, q # <<>>
    PROVE  /\ Len(q) \in Nat \ {0} /\ IsSeq(q) /\ DOMAIN q = 1..Len(q)
           /\ q[Len(q)].seq_no = n /\ q[Len(q)].limit = top
           /\ Max(SeqNos(q)) = n
<1> DEFINE l == Len(q)
<1>1. q[l].seq_no = n /\ q[l].limit = top
  BY DEF Tip
<1>2. IsSeq(q) /\ \A i \in DOMAIN q : q[i].seq_no \in Nat /\ (i < l => q[i].seq_no < n)
  BY DEF Parts
<1>3. l \in Nat /\ DOMAIN q = 1..l /\ l # 0
  <2>1. PICK S : q \in Seq(S)
    BY <1>2 DEF IsSeq
  <2> QED BY <2>1
<1>4. l \in DOMAIN q
  BY <1>3
<1> HIDE DEF l
<1>5. Max(SeqNos(q)) = n
  <2>1. n \in SeqNos(q)
    BY <1>1, <1>4 DEF SeqNos
  <2>2. ASSUME NEW i \in DOMAIN q
        PROVE  q[i].seq_no \in Int /\ q[i].seq_no <= n
    <3>1. i < l \/ i = l
      BY <1>3
    <3> QED BY <1>1, <1>2, <3>1
  <2>3. \A x \in SeqNos(q) : x \in Int /\ x <= n
    BY <2>2 DEF SeqNos
  <2> QED BY <2>1, <2>3, MaxIs
<1> QED BY <1>1, <1>2, <1>3, <1>5 DEF l

(* A manifest of the log takes the seq_no and the position after it.       *)
LEMMA HeadsNext ==
    ASSUME NEW log, LogOK(log), NEW m, Heads(log, m)
    PROVE  /\ next_fragment_seq_no(m) = Len(log) + 1
           /\ next_write_timestamp(m) = EndOf(log, Len(log))
<1> DEFINE n == Len(log)
           top == EndOf(log, n)
           r == m.snapshots \o m.fragments
           q == m.fragments
<1>1. n \in Nat /\ top \in Nat
  BY LogEnds
<1>2. Parts(m, n, top) /\ Tip(m, n, top)
  BY DEF Heads
<1> HIDE DEF n, top
<1>3. CASE q = <<>>
  <2>1. /\ m.snapshots = <<>> /\ UnwrapOr(m.initial_seq_no, BEGIN) = n + 1
        /\ UnwrapOr(m.initial_offset, 1) = top
    BY <1>2, <1>3 DEF Tip
  <2>2. r = <<>>
    BY <1>3, <2>1, NoParts
  <2> HIDE DEF r
  <2>3. next_fragment_seq_no(m) = n + 1
    BY <1>3, <2>1 DEF next_fragment_seq_no
  <2>4. next_write_timestamp(m) = top
    BY <2>1, <2>2 DEF next_write_timestamp, r
  <2> QED BY <2>3, <2>4 DEF n, top
<1>4. CASE q # <<>>
  <2> DEFINE l == Len(q)
  <2>1. /\ l \in Nat \ {0} /\ IsSeq(q) /\ DOMAIN q = 1..l
        /\ q[l].seq_no = n /\ q[l].limit = top
        /\ Max(SeqNos(q)) = n
    BY <1>1, <1>2, <1>4, LastNumber
  <2>4. l \in DOMAIN q
    BY <2>1
  <2>5. Max(SeqNos(q)) = n
    BY <2>1
  <2>6. next_fragment_seq_no(m) = n + 1
    BY <1>4, <2>5 DEF next_fragment_seq_no
  <2>7. /\ \A k \in DOMAIN r : Part(r[k], top)
        /\ \A i \in DOMAIN q : \E k \in DOMAIN r : r[k] = q[i]
        /\ r # <<>>
    BY <1>1, <1>2, <1>4, PartsOf
  <2> HIDE DEF r
  <2>8. Max(Limits(r)) = top
    <3>1. top \in Limits(r)
      BY <2>1, <2>4, <2>7 DEF Limits
    <3>2. \A x \in Limits(r) : x \in Int /\ x <= top
      BY <2>7 DEF Limits, Part
    <3> QED BY <3>1, <3>2, MaxIs
  <2>9. next_write_timestamp(m) = top
    BY <2>7, <2>8 DEF next_write_timestamp, r
  <2> QED BY <2>6, <2>9 DEF n, top
<1> QED BY <1>3, <1>4

(* Two sequences, the second with one element more, ...                    *)
LEMMA ConcatAppend ==
    ASSUME NEW p, NEW q, IsSeq(p), IsSeq(q), NEW x, NEW y, IsSeq(y), Len(y) = Len(q) + 1,
           y[Len(q) + 1] = x, \A i \in 1..Len(q) : y[i] = q[i],
           NEW r, r = Both(p, q), NEW t, t = Both(p, y)
    PROVE  /\ IsSeq(t) /\ Len(r) \in Nat /\ Len(t) = Len(r) + 1
           /\ t[Len(r) + 1] = x /\ \A i \in 1..Len(r) : t[i] = r[i]
<1> PICK S : p \in Seq(S)
  BY DEF IsSeq
<1> PICK T : q \in Seq(T)
  BY DEF IsSeq
<1> PICK R : y \in Seq(R)
  BY DEF IsSeq
<1> DEFINE U == S \cup T \cup R
<1>1. p \in Seq(U) /\ q \in Seq(U) /\ y \in Seq(U) /\ Len(p) \in Nat /\ Len(q) \in Nat
  BY SeqMonotonic
<1> HIDE DEF U
<1>2. /\ r \in Seq(U) /\ Len(r) = Len(p) + Len(q)
      /\ \A i \in 1..(Len(p) + Len(q)) : r[i] = IF i <= Len(p) THEN p[i] ELSE q[i - Len(p)]
  <2>1. p \in Seq(U) /\ q \in Seq(U) /\ r = p \o q
    BY <1>1 DEF Both
  <2> QED BY ONLY <2>1, ConcatProperties
<1>3. /\ t \in Seq(U) /\ Len(t) = Len(p) + Len(y)
      /\ \A i \in 1..(Len(p) + Len(y)) : t[i] = IF i <= Len(p) THEN p[i] ELSE y[i - Len(p)]
  <2>1. p \in Seq(U) /\ y \in Seq(U) /\ t = p \o y
    BY <1>1 DEF Both
  <2> QED BY ONLY <2>1, ConcatProperties
<1>4. t[Len(r) + 1] = x
  <2>1. /\ Len(r) + 1 \in 1..(Len(p) + Len(y)) /\ ~(Len(r) + 1 <= Len(p))
        /\ Len(r) + 1 - Len(p) = Len(q) + 1
    BY <1>1, <1>2
  <2> QED BY <1>3, <2>1
<1>5. ASSUME NEW i \in 1..Len(r)
      PROVE  t[i] = r[i]
  <2>1. /\ i \in 1..(Len(p) + Len(y)) /\ i \in 1..(Len(p) + Len(q))
        /\ ~(i <= Len(p)) => i - Len(p) \in 1..Len(q)
    BY <1>1, <1>2
  <2> QED BY <1>2, <1>3, <2>1
<1> QED BY <1>1, <1>2, <1>3, <1>4, <1>5 DEF IsSeq

(* ... and not empty.                                                      *)
LEMMA ConcatLast ==
    ASSUME NEW p, NEW q, IsSeq(p), IsSeq(q), q # <<>>, NEW r, r = p \o q
    PROVE  r[Len(r)] = q[Len(q)]
<1> PICK S : p \in Seq(S)
  BY DEF IsSeq
<1> PICK T : q \in Seq(T)
  BY DEF IsSeq
<1> DEFINE U == S \cup T
<1>1. p \in Seq(U) /\ q \in Seq(U) /\ Len(q) \in Nat /\ Len(q) # 0 /\ Len(p) \in Nat
  BY SeqMonotonic
<1> HIDE DEF U
<1>2. /\ Len(r) = Len(p) + Len(q)
      /\ \A i \in 1..(Len(p) + Len(q)) : r[i] = IF i <= Len(p) THEN p[i] ELSE q[i - Len(p)]
  BY <1>1, ConcatProperties
<1>3. Len(r) \in 1..(Len(p) + Len(q)) /\ ~(Len(r) <= Len(p)) /\ Len(r) - Len(p) = Len(q)
  BY <1>1, <1>2
<1> QED BY <1>2, <1>3

(* Only two empty sequences make an empty one.                             *)
LEMMA ConcatNothing ==
    ASSUME NEW p, NEW q, IsSeq(p), IsSeq(q), NEW r, r = p \o q, r = <<>>
    PROVE  p = <<>> /\ q = <<>>
<1> PICK S : p \in Seq(S)
  BY DEF IsSeq
<1> PICK T : q \in Seq(T)
  BY DEF IsSeq
<1> DEFINE U == S \cup T
<1>1. p \in Seq(U) /\ q \in Seq(U) /\ Len(q) \in Nat /\ Len(p) \in Nat
  BY SeqMonotonic
<1> HIDE DEF U
<1>2. Len(r) = Len(p) + Len(q)
  BY ONLY <1>1, r = p \o q, ConcatProperties
<1>3. Len(r) = 0
  OBVIOUS
<1>4. Len(p) = 0 /\ Len(q) = 0
  <2>1. \A x, y \in Nat : x + y = 0 => x = 0 /\ y = 0
    OBVIOUS
  <2>2. Len(p) \in Nat /\ Len(q) \in Nat /\ Len(p) + Len(q) = 0
    BY <1>1, <1>2, <1>3
  <2> QED BY ONLY <2>1, <2>2
<1> QED BY <1>1, <1>4

(* A manifest with the next fragment of the log.                           *)
LEMMA HeadsAppend ==
    ASSUME NEW log, LogOK(log), NEW m, Heads(log, m),
           NEW f, Placed(log, f), f.seq_no = Len(log) + 1
    PROVE  Heads(Append(log, f), apply_fragment(m, f))
<1> DEFINE more == Append(log, f)
           n == Len(log)
           top == EndOf(log, n)
           a == apply_fragment(m, f)
           q == m.fragments
           r == m.snapshots \o m.fragments
<1>1. /\ LogOK(more)
      /\ n \in Nat /\ Len(more) = n + 1
      /\ EndOf(more, n + 1) = f.limit
      /\ top = f.start
      /\ f.start \in Nat \ {0} /\ f.limit \in Nat /\ f.start < f.limit /\ f.setsum \in Int
      /\ Setsums(more) = Setsums(log) + f.setsum /\ Setsums(log) \in Int
  <2>1. Len(more) = n + 1 /\ EndOf(more, Len(more)) = f.limit
    BY LogGrows
  <2> QED BY <2>1, LogGrows
<1>2. Parts(m, n, top) /\ Tip(m, n, top) /\ Balanced(log, m)
  BY DEF Heads
<1>3. /\ a.setsum = m.setsum + f.setsum /\ a.collected = m.collected
      /\ a.snapshots = m.snapshots /\ a.fragments = Append(q, f)
      /\ a.initial_offset = m.initial_offset /\ a.initial_seq_no = m.initial_seq_no
  BY DEF apply_fragment
<1> HIDE DEF more, n, top, a
<1>4. IsSeq(m.snapshots) /\ IsSeq(q)
  BY <1>2 DEF Parts
<1> DEFINE l == Len(q)
<1>5. /\ l \in Nat /\ DOMAIN q = 1..l
      /\ a.fragments = [i \in 1..(l + 1) |-> IF i = l + 1 THEN f ELSE q[i]]
      /\ IsSeq(a.fragments) /\ Len(a.fragments) = l + 1
  BY <1>3, <1>4, AppendIs, SeqIs
<1>6. /\ DOMAIN a.fragments = 1..(l + 1) /\ a.fragments[l + 1] = f
      /\ \A i \in 1..l : a.fragments[i] = q[i]
      /\ \A i \in 1..(l + 1) : i \in 1..l \/ i = l + 1
      /\ a.fragments # <<>>
  <2>1. DOMAIN a.fragments = 1..(l + 1)
    BY <1>5
  <2>2. a.fragments # <<>>
    BY <1>5
  <2> QED BY <1>5, <2>1, <2>2
<1>7. f.seq_no = n + 1
  BY DEF n
<1>8. Part(f, f.limit) /\ \A p : Part(p, top) => Part(p, f.limit)
  BY <1>1 DEF Part
<1> HIDE DEF l
<1>9. Parts(a, n + 1, f.limit)
  <2>1. ASSUME NEW i \in 1..(l + 1)
        PROVE  /\ Part(a.fragments[i], f.limit)
               /\ a.fragments[i].seq_no \in Nat
               /\ i < l + 1 => a.fragments[i].seq_no < n + 1
    <3>1. CASE i = l + 1
      BY <1>1, <1>5, <1>6, <1>7, <1>8, <3>1
    <3>2. CASE i \in 1..l
      <4>1. Part(q[i], top) /\ q[i].seq_no \in Nat /\ (i < l => q[i].seq_no < n)
        BY <1>2, <1>5, <3>2 DEF Parts, l
      <4>2. i = l => q[i].seq_no = n
        <5>1. l # 0 => q # <<>>
          BY DEF l
        <5> QED BY <1>2, <1>5, <3>2, <5>1 DEF Tip, l
      <4>3. q[i].seq_no < n + 1
        <5>1. i < l \/ i = l
          BY <1>5, <3>2
        <5> QED BY <1>1, <4>1, <4>2, <5>1
      <4> QED BY <1>6, <1>8, <3>2, <4>1, <4>3
    <3> QED BY <1>6, <3>1, <3>2
  <2>2. \A i \in DOMAIN a.snapshots : Part(a.snapshots[i], f.limit) /\ a.snapshots[i].depth \in Nat
    BY <1>2, <1>3, <1>8 DEF Parts
  <2>3. IsSeq(a.snapshots) /\ IsSeq(a.fragments) /\ Len(a.fragments) = l + 1
    BY <1>3, <1>4, <1>5
  <2>4. \A i \in DOMAIN a.fragments :
           /\ Part(a.fragments[i], f.limit)
           /\ a.fragments[i].seq_no \in Nat
           /\ i < Len(a.fragments) => a.fragments[i].seq_no < n + 1
    BY <1>6, <2>1, <2>3
  <2> QED BY ONLY <2>2, <2>3, <2>4 DEF Parts
<1>10. Tip(a, n + 1, f.limit)
  BY <1>5, <1>6, <1>7 DEF Tip
<1>11. Balanced(more, a)
  <2>1. /\ m.setsum = Setsums(log) /\ m.collected \in Int
        /\ m.setsum = Setsums(m.snapshots) + Setsums(q) + m.collected
        /\ Contiguous(r)
        /\ m.initial_offset # None => m.initial_offset = oldest_timestamp(m)
    BY <1>2 DEF Balanced, scrub
  <2>2. /\ Setsums(q) \in Int /\ Setsums(m.snapshots) \in Int
        /\ Setsums(a.fragments) = Setsums(q) + f.setsum
    <3>1. /\ \A i \in DOMAIN q : q[i].setsum \in Int
          /\ \A i \in DOMAIN m.snapshots : m.snapshots[i].setsum \in Int
      BY <1>2 DEF Parts, Part
    <3> QED BY <1>1, <1>3, <1>4, <3>1, SetsumsAppend
  <2>3. a.setsum = Setsums(a.snapshots) + Setsums(a.fragments) + a.collected
    BY <1>1, <1>3, <2>1, <2>2
  <2> DEFINE t == a.snapshots \o a.fragments
             h == Len(r)
  <2>4. /\ IsSeq(r) /\ \A k \in DOMAIN r : Part(r[k], top)
        /\ r # <<>> => DOMAIN r # {}
        /\ r = <<>> => q = <<>>
    <3>1. top \in Nat
      BY <1>1
    <3> QED BY <1>1, <1>2, <3>1, PartsOf
  <2>5. /\ IsSeq(t) /\ h \in Nat /\ Len(t) = h + 1
        /\ t[h + 1] = f /\ \A i \in 1..h : t[i] = r[i]
    <3>1. r = Both(m.snapshots, q) /\ t = Both(m.snapshots, a.fragments)
      BY <1>3 DEF Both
    <3> HIDE DEF r, t, q
    <3>2. /\ IsSeq(m.snapshots) /\ IsSeq(q) /\ IsSeq(a.fragments)
          /\ Len(a.fragments) = Len(q) + 1 /\ a.fragments[Len(q) + 1] = f
          /\ \A i \in 1..Len(q) : a.fragments[i] = q[i]
      BY <1>4, <1>5, <1>6 DEF l
    <3> QED BY ONLY <3>1, <3>2, ConcatAppend
  <2>51. q = <<>> => r = <<>>
    <3>1. q = <<>> => m.snapshots = <<>>
      BY <1>2 DEF Tip
    <3> QED BY <3>1, NoParts
  <2>52. q # <<>> => r[h] = q[l]
    <3> SUFFICES ASSUME q # <<>>
                 PROVE  r[Len(r)] = q[Len(q)]
      BY DEF l
    <3>1. r = m.snapshots \o q
      OBVIOUS
    <3> HIDE DEF r, q
    <3>2. IsSeq(m.snapshots) /\ IsSeq(q) /\ q # <<>>
      BY <1>4
    <3> QED BY ONLY <3>1, <3>2, ConcatLast
  <2> HIDE DEF r, t
  <2>6. h \in Nat /\ DOMAIN r = 1..h /\ Len(t) = h + 1
    BY <2>4, <2>5, SeqIs
  <2>7. /\ DOMAIN t = 1..(h + 1) /\ t[h + 1] = f /\ (\A i \in 1..h : t[i] = r[i]) /\ t # <<>>
    <3>1. DOMAIN t = 1..(h + 1)
      BY <2>5, SeqIs
    <3> QED BY <2>5, <3>1
  <2>8. h # 0 => r[h].limit = top
    <3> SUFFICES ASSUME h # 0
                 PROVE  r[h].limit = top
      OBVIOUS
    <3>1. q # <<>>
      BY <2>51 DEF h
    <3>2. q[l].limit = top
      BY <1>2, <3>1 DEF Tip, l
    <3>3. r[h] = q[l]
      BY <2>52, <3>1
    <3> QED BY <3>2, <3>3
  <2> HIDE DEF h
  <2>9. Contiguous(t)
    <3> SUFFICES ASSUME NEW i \in 1..h
                 PROVE  t[i].limit = t[i + 1].start
      <4>1. Len(t) - 1 = h
        BY <2>6
      <4> QED BY <4>1 DEF Contiguous
    <3>1. CASE i = h
      BY <1>1, <2>6, <2>7, <2>8, <3>1
    <3>2. CASE i # h
      <4>1. i \in 1..(h - 1) /\ i + 1 \in 1..h /\ i \in 1..h
        BY <2>6, <3>2
      <4>2. r[i].limit = r[i + 1].start
        BY <2>1, <4>1 DEF Contiguous, h
      <4> QED BY <2>7, <4>1, <4>2
    <3> QED BY <3>1, <3>2
  <2>10. a.initial_offset # None => a.initial_offset = oldest_timestamp(a)
    <3> SUFFICES ASSUME m.initial_offset # None
                 PROVE  Min(Starts(t)) = m.initial_offset
      BY <1>3, <2>7 DEF oldest_timestamp, t, r
    <3>1. CASE r = <<>>
      <4>1. m.initial_offset = top
        <5>1. UnwrapOr(m.initial_offset, 1) = top
          BY <1>2, <2>4, <3>1 DEF Tip
        <5> QED BY <5>1 DEF UnwrapOr
      <4>2. h = 0
        BY <3>1 DEF h
      <4>3. Starts(t) = {f.start}
        BY <2>7, <4>2 DEF Starts
      <4>4. f.start \in Starts(t) /\ \A x \in Starts(t) : x \in Int /\ f.start <= x
        BY <1>1, <4>3
      <4>5. Min(Starts(t)) = f.start
        BY ONLY <4>4, MinIs
      <4> QED BY <1>1, <4>1, <4>5
    <3>2. CASE r # <<>>
      <4> DEFINE o == m.initial_offset
      <4>1. o = Min(Starts(r))
        BY <2>1, <3>2 DEF oldest_timestamp, r
      <4>2. \A k \in 1..h : r[k].start \in Nat /\ r[k].start < top
        <5> SUFFICES ASSUME NEW k \in 1..h
                     PROVE  r[k].start \in Nat /\ r[k].start < top
          OBVIOUS
        <5>1. Part(r[k], top) /\ top \in Nat
          BY <1>1, <2>4, <2>6
        <5> QED BY ONLY <5>1 DEF Part
      <4>3. Starts(r) \in SUBSET Nat /\ Starts(r) # {}
        BY <2>4, <2>6, <3>2, <4>2 DEF Starts
      <4>4. o \in Starts(r) /\ \A x \in Starts(r) : o <= x
        <5>1. \E x \in Starts(r) : \A y \in Starts(r) : x <= y
          BY <4>3, LeastNatural
        <5> QED BY <4>1, <5>1 DEF Min
      <4> HIDE DEF o
      <4>5. o \in Starts(t)
        <5>1. PICK k \in 1..h : o = r[k].start
          BY <2>6, <4>4 DEF Starts
        <5>2. k \in 1..(h + 1) /\ t[k] = r[k]
          BY <2>6, <2>7
        <5> QED BY <2>7, <5>1, <5>2 DEF Starts
      <4>6. ASSUME NEW x \in Starts(t)
            PROVE  x \in Int /\ o <= x
        <5>1. PICK k \in 1..(h + 1) : x = t[k].start
          BY <2>7 DEF Starts
        <5>2. o \in Nat /\ o < top
          BY <2>6, <4>2, <4>4 DEF Starts
        <5>3. CASE k = h + 1
          BY <1>1, <2>7, <5>1, <5>2, <5>3
        <5>4. CASE k # h + 1
          <6>1. k \in 1..h
            BY <2>6, <5>4
          <6>2. x = r[k].start /\ x \in Starts(r)
            BY <2>6, <2>7, <5>1, <6>1 DEF Starts
          <6> QED BY <4>3, <4>4, <6>2
        <5> QED BY <5>3, <5>4
      <4> QED BY <4>5, <4>6, MinIs DEF o
    <3> QED BY <3>1, <3>2
  <2>11. scrub(a)
    BY <2>3, <2>9, <2>10 DEF scrub, t
  <2> QED BY <1>1, <1>3, <2>1, <2>11 DEF Balanced
<1> QED BY <1>1, <1>9, <1>10, <1>11 DEF Heads, more, a

(* Finitely many naturals are bounded.                                     *)
LEMMA HasBound ==
    ASSUME NEW k \in Nat, NEW b, \A i \in 1..k : b[i] \in Nat
    PROVE  \E top \in Nat : \A i \in 1..k : b[i] <= top
<1> DEFINE Bad == {j \in 0..k : ~\E top \in Nat : \A i \in 1..j : b[i] <= top}
<1>1. Bad = {}
  <2> SUFFICES ASSUME Bad # {}
               PROVE  FALSE
    OBVIOUS
  <2>1. PICK j \in Bad : \A i \in Bad : j <= i
    <3>1. Bad \in SUBSET Nat
      OBVIOUS
    <3> HIDE DEF Bad
    <3> QED BY <3>1, LeastNatural
  <2>2. j \in 0..k /\ ~\E top \in Nat : \A i \in 1..j : b[i] <= top
    OBVIOUS
  <2>3. j # 0
    <3>1. 0 \in Nat /\ \A i \in 1..0 : b[i] <= 0
      OBVIOUS
    <3> QED BY <2>2, <3>1
  <2>4. j - 1 \in 0..k /\ j - 1 \notin Bad
    <3>1. j - 1 \in 0..k /\ ~(j <= j - 1)
      BY <2>2, <2>3
    <3> HIDE DEF Bad
    <3> QED BY <2>1, <3>1
  <2>5. PICK top \in Nat : \A i \in 1..(j - 1) : b[i] <= top
    BY <2>4
  <2>6. j \in 1..k
    BY <2>2, <2>3
  <2>7. b[j] \in Nat
    BY <2>6
  <2>8. ASSUME NEW i \in 1..j
        PROVE  b[i] <= top + b[j]
    <3>1. i \in 1..(j - 1) \/ i = j
      BY <2>6
    <3>2. i \in 1..k
      BY <2>6
    <3> QED BY <2>5, <2>7, <3>1, <3>2
  <2>9. top + b[j] \in Nat
    BY <2>7
  <2> HIDE DEF Bad
  <2> QED BY <2>2, <2>8, <2>9
<1>2. k \in 0..k
  OBVIOUS
<1> QED BY <1>1, <1>2

(* The parts of a roll-up are parts of the manifest, and there are some.   *)
LEMMA RollupElements ==
    ASSUME NEW m, IsSeq(m.snapshots), IsSeq(m.fragments),
           \A i \in DOMAIN m.snapshots : m.snapshots[i].depth \in Nat,
           NEW s \in generate_snapshot(m)
    PROVE  /\ IsSeq(s.snapshots) /\ IsSeq(s.fragments)
           /\ \A k \in DOMAIN s.snapshots : \E i \in DOMAIN m.snapshots : s.snapshots[k] = m.snapshots[i]
           /\ \A k \in DOMAIN s.fragments : \E i \in DOMAIN m.fragments : s.fragments[k] = m.fragments[i]
           /\ s.setsum = Setsums(s.snapshots) + Setsums(s.fragments)
           /\ s.depth \in Nat
           /\ DOMAIN s.snapshots # {} \/ DOMAIN s.fragments # {}
           /\ s.fragments = <<>> \/ /\ LeafReady(m)
                                    /\ s.fragments = SubSeq(m.fragments, 1, fragment_rollover_threshold)
<1>1. IsSeq(<<>>) /\ DOMAIN <<>> = {}
  <2>1. <<>> \in Seq({})
    OBVIOUS
  <2> QED BY <2>1 DEF IsSeq
<1>2. CASE RollupDepths(m) # {}
  <2> DEFINE depth == Max(RollupDepths(m))
             chosen == RollupIndices(m, depth)
             orphan == {i \in {1} : /\ m.snapshots[i].limit = Min({m.snapshots[j].start : j \in chosen})
                                    /\ m.snapshots[i].depth < depth}
  <2>1. s = RollupSnapshot(m, depth)
    BY <1>2 DEF generate_snapshot
  <2>2. PICK S : m.snapshots \in Seq(S)
    BY DEF IsSeq
  <2>3. depth \in RollupDepths(m)
    <3> DEFINE k == Len(m.snapshots)
               b == [i \in 1..k |-> m.snapshots[i].depth]
    <3>1. k \in Nat /\ DOMAIN m.snapshots = 1..k
      BY <2>2
    <3> HIDE DEF k
    <3>2. \A i \in 1..k : b[i] \in Nat /\ b[i] = m.snapshots[i].depth
      BY <3>1
    <3> HIDE DEF b
    <3>3. PICK top \in Nat : \A i \in 1..k : b[i] <= top
      BY <3>1, <3>2, HasBound
    <3>4. RollupDepths(m) \in SUBSET (0..top)
      BY <3>1, <3>2, <3>3 DEF RollupDepths
    <3> QED BY <1>2, <3>4, MaxUpTo
  <2>4. depth \in Nat /\ Cardinality(chosen) >= snapshot_rollover_threshold
    BY <2>3 DEF RollupDepths
  <2> HIDE DEF depth
  <2>5. /\ s.snapshots = At(m.snapshots, orphan \cup chosen) /\ s.fragments = <<>>
        /\ s.setsum = Setsums(s.snapshots) + Setsums(s.fragments) /\ s.depth = depth + 1
    BY <2>1 DEF RollupSnapshot, Snapshot
  <2>6. chosen \subseteq DOMAIN m.snapshots
    BY DEF RollupIndices
  <2>7. DOMAIN m.snapshots # {}
    BY <1>2 DEF RollupDepths
  <2>8. orphan \subseteq DOMAIN m.snapshots
    <3>1. 1 \in DOMAIN m.snapshots
      BY <2>2, <2>7
    <3> QED BY <3>1
  <2> DEFINE I == orphan \cup chosen
             q == At(m.snapshots, I)
  <2>9. I \in SUBSET (DOMAIN m.snapshots)
    BY <2>6, <2>8
  <2>10. Cardinality(I) \in Nat /\ Cardinality(I) >= 1
    <3>1. IsFiniteSet(1..Len(m.snapshots)) /\ DOMAIN m.snapshots = 1..Len(m.snapshots)
      BY <2>2, FS_Interval
    <3>2. IsFiniteSet(I)
      BY <2>9, <3>1, FS_Subset
    <3>3. chosen \subseteq I
      OBVIOUS
    <3>4. IsFiniteSet(chosen) /\ Cardinality(chosen) \in Nat /\ Cardinality(I) \in Nat
          /\ Cardinality(chosen) <= Cardinality(I)
      <4> HIDE DEF I, chosen
      <4> QED BY <3>2, <3>3, FS_Subset, FS_CardinalityType
    <3> HIDE DEF I, chosen
    <3> QED BY <2>4, <3>4, ThresholdAssumption
  <2> HIDE DEF I, chosen, orphan
  <2>11. q \in Seq(S) /\ \A k \in DOMAIN q : \E i \in DOMAIN m.snapshots : q[k] = m.snapshots[i]
    BY <2>2, <2>9, AtElements
  <2>12. 1 \in DOMAIN q
    BY <2>10 DEF At
  <2>13. s.snapshots = q
    BY <2>5 DEF I
  <2> HIDE DEF q
  <2>14. IsSeq(s.snapshots) /\ IsSeq(s.fragments) /\ DOMAIN s.snapshots # {}
    BY <1>1, <2>5, <2>11, <2>12, <2>13 DEF IsSeq
  <2>15. \A k \in DOMAIN s.snapshots : \E i \in DOMAIN m.snapshots : s.snapshots[k] = m.snapshots[i]
    BY <2>11, <2>13
  <2>16. \A k \in DOMAIN s.fragments : \E i \in DOMAIN m.fragments : s.fragments[k] = m.fragments[i]
    BY <1>1, <2>5
  <2>17. s.depth \in Nat
    BY <2>4, <2>5
  <2>18. s.setsum = Setsums(s.snapshots) + Setsums(s.fragments) /\ s.fragments = <<>>
    BY <2>5
  <2> QED BY ONLY <2>14, <2>15, <2>16, <2>17, <2>18
<1>3. CASE RollupDepths(m) = {}
  <2> DEFINE t == fragment_rollover_threshold
  <2>1. LeafReady(m) /\ s = LeafSnapshot(m)
    BY <1>3 DEF generate_snapshot
  <2>2. /\ s.snapshots = <<>> /\ s.fragments = SubSeq(m.fragments, 1, t)
        /\ s.setsum = Setsums(s.snapshots) + Setsums(s.fragments) /\ s.depth = 1
    BY <2>1 DEF LeafSnapshot, Snapshot
  <2>3. t \in Nat /\ t >= 1 /\ Len(m.fragments) >= t
    BY <2>1, ThresholdAssumption DEF LeafReady
  <2> HIDE DEF t
  <2>4. PICK S : m.fragments \in Seq(S)
    BY DEF IsSeq
  <2>5. /\ Len(m.fragments) \in Nat /\ DOMAIN m.fragments = 1..Len(m.fragments)
        /\ s.fragments \in Seq(S)
        /\ DOMAIN s.fragments = 1..t
        /\ \A k \in 1..t : s.fragments[k] = m.fragments[k]
    BY <2>2, <2>3, <2>4
  <2>6. \A k \in 1..t : k \in DOMAIN m.fragments
    BY <2>3, <2>5
  <2>7. 1 \in DOMAIN s.fragments
    BY <2>3, <2>5
  <2>8. IsSeq(s.snapshots) /\ IsSeq(s.fragments) /\ DOMAIN s.fragments # {}
    BY <1>1, <2>2, <2>5, <2>7 DEF IsSeq
  <2>9. \A k \in DOMAIN s.snapshots : \E i \in DOMAIN m.snapshots : s.snapshots[k] = m.snapshots[i]
    BY <1>1, <2>2
  <2>10. \A k \in DOMAIN s.fragments : \E i \in DOMAIN m.fragments : s.fragments[k] = m.fragments[i]
    BY <2>5, <2>6
  <2>11. s.depth \in Nat /\ s.setsum = Setsums(s.snapshots) + Setsums(s.fragments)
    BY <2>2
  <2>12. LeafReady(m) /\ s.fragments = SubSeq(m.fragments, 1, fragment_rollover_threshold)
    BY <2>1, <2>2 DEF t
  <2> QED BY ONLY <2>8, <2>9, <2>10, <2>11, <2>12
<1> QED BY <1>2, <1>3

(* The pointer to a roll-up is part of the same tree.                      *)
LEMMA PointerIsPart ==
    ASSUME NEW s, NEW top \in Nat, IsSeq(s.snapshots), IsSeq(s.fragments),
           \A k \in DOMAIN s.snapshots : Part(s.snapshots[k], top),
           \A k \in DOMAIN s.fragments : Part(s.fragments[k], top),
           DOMAIN s.snapshots # {} \/ DOMAIN s.fragments # {},
           s.setsum = Setsums(s.snapshots) + Setsums(s.fragments)
    PROVE  Part(to_pointer(s), top)
<1> DEFINE r == Both(s.snapshots, s.fragments)
           p == to_pointer(s)
<1>1. /\ p.start = (IF r = <<>> THEN 1 ELSE Min(Starts(r)))
      /\ p.limit = (IF r = <<>> THEN 1 ELSE Max(Limits(r)))
      /\ p.setsum = s.setsum
  BY DEF to_pointer, Both
<1>2. /\ IsSeq(r)
      /\ \A k \in DOMAIN r :
            \/ \E i \in DOMAIN s.snapshots : r[k] = s.snapshots[i]
            \/ \E i \in DOMAIN s.fragments : r[k] = s.fragments[i]
      /\ r # <<>> => DOMAIN r # {}
  BY ConcatElements
<1>3. r # <<>>
  <2>1. PICK S : s.snapshots \in Seq(S)
    BY DEF IsSeq
  <2>2. PICK T : s.fragments \in Seq(T)
    BY DEF IsSeq
  <2> DEFINE U == S \cup T
  <2>3. s.snapshots \in Seq(U) /\ s.fragments \in Seq(U)
    BY <2>1, <2>2, SeqMonotonic
  <2> HIDE DEF U
  <2>31. /\ Len(s.snapshots) \in Nat /\ DOMAIN s.snapshots = 1..Len(s.snapshots)
         /\ Len(s.fragments) \in Nat /\ DOMAIN s.fragments = 1..Len(s.fragments)
    BY <2>3
  <2>4. Len(s.snapshots) \in Nat /\ Len(s.fragments) \in Nat /\ Len(s.snapshots) + Len(s.fragments) # 0
    <3>1. Len(s.snapshots) # 0 \/ Len(s.fragments) # 0
      BY <2>31
    <3>2. \A x, y \in Nat : x # 0 \/ y # 0 => x + y # 0
      OBVIOUS
    <3> QED BY ONLY <2>31, <3>1, <3>2
  <2>5. Len(r) = Len(s.snapshots) + Len(s.fragments)
    <3>1. r = s.snapshots \o s.fragments
      BY DEF Both
    <3> HIDE DEF r
    <3> QED BY ONLY <2>3, <3>1, ConcatProperties
  <2> QED BY <2>4, <2>5
<1> HIDE DEF r, p
<1>4. \A k \in DOMAIN r : Part(r[k], top)
  BY <1>2
<1>5. Starts(r) \in SUBSET Nat /\ Starts(r) # {} /\ Limits(r) \in SUBSET (0..top) /\ Limits(r) # {}
  BY <1>2, <1>3, <1>4 DEF Starts, Limits, Part
<1>6. Max(Limits(r)) \in Limits(r) /\ \A x \in Limits(r) : x <= Max(Limits(r))
  BY <1>5, MaxUpTo
<1>7. Min(Starts(r)) \in Starts(r) /\ \A x \in Starts(r) : Min(Starts(r)) <= x
  <2>1. \E n \in Starts(r) : \A x \in Starts(r) : n <= x
    BY <1>5, LeastNatural
  <2> QED BY <2>1 DEF Min
<1>8. PICK k \in DOMAIN r : TRUE
  BY <1>2, <1>3
<1>9. /\ r[k].start \in Starts(r) /\ r[k].limit \in Limits(r)
      /\ r[k].start \in Nat /\ r[k].limit \in Nat /\ r[k].start < r[k].limit
  BY <1>4 DEF Starts, Limits, Part
<1>10. p.start = Min(Starts(r)) /\ p.limit = Max(Limits(r)) /\ p.start \in Nat /\ p.limit \in 0..top
  BY <1>1, <1>3, <1>5, <1>6, <1>7
<1>11. p.start <= r[k].start /\ r[k].limit <= p.limit
  BY <1>6, <1>7, <1>9, <1>10
<1>12. p.start < p.limit /\ p.limit <= top /\ p.limit \in Nat
  BY <1>9, <1>10, <1>11
<1>13. p.setsum \in Int
  <2> DEFINE x == [setsum |-> 0]
  <2>1. x.setsum \in Int
    OBVIOUS
  <2>2. /\ \A i \in DOMAIN s.snapshots : s.snapshots[i].setsum \in Int
        /\ \A i \in DOMAIN s.fragments : s.fragments[i].setsum \in Int
    BY DEF Part
  <2> HIDE DEF x
  <2>3. Setsums(s.snapshots) \in Int /\ Setsums(s.fragments) \in Int
    BY <2>1, <2>2, SetsumsAppend
  <2> QED BY <1>1, <2>3
<1> QED BY <1>10, <1>12, <1>13 DEF Part, p

(* The last element stays last among those that are kept.                  *)
LEMMA AtLast ==
    ASSUME NEW q, IsSeq(q), q # <<>>, NEW I \in SUBSET (DOMAIN q), Len(q) \in I,
           NEW r, r = At(q, I)
    PROVE  /\ IsSeq(r) /\ Len(r) \in Nat \ {0} /\ r # <<>>
           /\ r[Len(r)] = q[Len(q)]
           /\ \A k \in 1..Len(r) : k < Len(r) => \E i \in 1..Len(q) : i < Len(q) /\ r[k] = q[i]
<1> DEFINE n == Len(q)
           c == Cardinality(I)
<1>1. n \in Nat /\ DOMAIN q = 1..n
  BY SeqIs
<1> HIDE DEF n
<1>2. I \in SUBSET (1..n) /\ n \in I
  BY <1>1 DEF n
<1>3. IsFiniteSet(I) /\ c \in Nat /\ I # {}
  <2>1. IsFiniteSet(1..n)
    BY <1>1, FS_Interval
  <2>2. IsFiniteSet(I)
    BY <1>2, <2>1, FS_Subset
  <2> QED BY <1>2, <2>2, FS_CardinalityType
<1>4. c # 0
  BY <1>3, FS_EmptySet
<1> HIDE DEF c
<1>5. r = [k \in 1..c |-> q[Kth(I, k)]]
  BY DEF At, c
<1>6. DOMAIN r = 1..c /\ r = [k \in 1..c |-> r[k]] /\ \A k \in 1..c : r[k] = q[Kth(I, k)]
  BY <1>5
<1>7. IsSeq(r) /\ Len(r) = c
  BY <1>3, <1>6, FcnIsSeq
<1>8. ASSUME NEW k \in 1..c
      PROVE  /\ Kth(I, k) \in 1..n
             /\ k = c => Kth(I, k) = n
             /\ k # c => Kth(I, k) # n
  <2> DEFINE K == Kth(I, k)
             U == {j \in I : j <= K}
  <2>1. K \in I /\ Cardinality(U) = k
    BY <1>1, <1>2, <1>8, KthIn DEF c
  <2> HIDE DEF K
  <2>2. K \in 1..n
    BY <1>2, <2>1
  <2>3. ASSUME k = c
        PROVE  K = n
    <3>1. U \in SUBSET I
      OBVIOUS
    <3> HIDE DEF U
    <3>2. Cardinality(I) = Cardinality(U)
      BY <2>1, <2>3 DEF c
    <3>3. I = U
      BY <1>3, <3>1, <3>2, FS_Subset
    <3>4. n \in U
      BY <1>2, <3>3
    <3>5. n <= K
      BY <3>4 DEF U
    <3> QED BY <1>1, <2>2, <3>5
  <2>4. ASSUME K = n
        PROVE  k = c
    <3>1. \A j \in I : j <= K
      BY <1>1, <1>2, <2>4
    <3>2. U = I
      BY <3>1
    <3> QED BY <2>1, <3>2 DEF c
  <2> QED BY <2>2, <2>3, <2>4 DEF K
<1>9. r[c] = q[n]
  <2>1. c \in 1..c
    BY <1>3, <1>4
  <2> QED BY <1>6, <1>8, <2>1
<1>10. ASSUME NEW k \in 1..c, k < c
       PROVE  \E i \in 1..n : i < n /\ r[k] = q[i]
  <2>1. k # c
    BY <1>3, <1>10
  <2>2. Kth(I, k) \in 1..n /\ Kth(I, k) # n
    BY <1>8, <2>1
  <2>3. Kth(I, k) < n
    BY <1>1, <2>2
  <2> QED BY <1>6, <2>2, <2>3
<1>11. r # <<>>
  BY <1>3, <1>4, <1>7
<1> QED BY <1>3, <1>4, <1>7, <1>9, <1>10, <1>11 DEF n

(* A set of at most one element, as a sequence.                            *)
LEMMA SetToSeqIs ==
    ASSUME NEW S, S = {} \/ \E p : S = {p}, NEW q, q = SetToSeq(S)
    PROVE  IsSeq(q) /\ \A k \in DOMAIN q : q[k] \in S
<1> DEFINE c == Cardinality(S)
<1>1. CASE S = {}
  <2>1. c = 0
    BY <1>1, FS_EmptySet
  <2> DEFINE f == [i \in 1..0 |-> 0]
  <2>2. f \in [1..c -> S] /\ IsInjective(f)
    BY <2>1 DEF IsInjective
  <2>3. q \in [1..c -> S]
    <3> HIDE DEF f, c
    <3>1. \E h \in [1..c -> S] : IsInjective(h)
      BY <2>2
    <3> QED BY <3>1 DEF SetToSeq, c
  <2>4. c \in Nat
    BY <2>1
  <2> QED BY <2>3, <2>4, FcnIsSeq
<1>2. CASE S # {}
  <2>1. PICK p : S = {p}
    BY <1>2
  <2>2. c = 1
    BY <2>1, FS_Singleton
  <2> DEFINE f == [i \in 1..1 |-> p]
  <2>3. f \in [1..c -> S] /\ IsInjective(f)
    <3>1. f \in [1..c -> S]
      BY <2>1, <2>2
    <3>2. \A a, b \in DOMAIN f : f[a] = f[b] => a = b
      OBVIOUS
    <3> QED BY <3>1, <3>2 DEF IsInjective
  <2>4. q \in [1..c -> S]
    <3> HIDE DEF f, c
    <3>1. \E h \in [1..c -> S] : IsInjective(h)
      BY <2>3
    <3> QED BY <3>1 DEF SetToSeq, c
  <2>5. c \in Nat
    BY <2>2
  <2> QED BY <2>4, <2>5, FcnIsSeq
<1> QED BY <1>1, <1>2

(* A manifest with a roll-up still ends where the log does.                *)
LEMMA HeadsSnapshot ==
    ASSUME NEW log, LogOK(log), NEW m, Heads(log, m), m.fragments # <<>>,
           NEW s \in generate_snapshot(m), snapshot_applies(m, s)
    PROVE  Heads(log, apply_snapshot(m, s))
<1> DEFINE n == Len(log)
           top == EndOf(log, n)
           a == apply_snapshot(m, s)
           q == m.fragments
           l == Len(q)
           d == Len(s.fragments)
           z == a.fragments
           p == to_pointer(s)
           u == At(m.snapshots, Unreplaced(m, s))
<1>1. n \in Nat /\ top \in Nat
  BY LogEnds
<1>2. Parts(m, n, top) /\ Tip(m, n, top) /\ Balanced(log, m)
  BY DEF Heads
<1> HIDE DEF n, top
<1>3. /\ l \in Nat \ {0} /\ IsSeq(q) /\ DOMAIN q = 1..l
      /\ q[l].seq_no = n /\ q[l].limit = top
      /\ Max(SeqNos(q)) = n
  BY <1>1, <1>2, LastNumber
<1>4. /\ IsSeq(m.snapshots)
      /\ \A i \in DOMAIN m.snapshots : Part(m.snapshots[i], top) /\ m.snapshots[i].depth \in Nat
      /\ \A i \in DOMAIN q : Part(q[i], top)
      /\ \A i \in DOMAIN q : q[i].seq_no \in Nat /\ (i < l => q[i].seq_no < n)
  BY <1>2 DEF Parts
<1>5. /\ IsSeq(s.snapshots) /\ IsSeq(s.fragments)
      /\ \A k \in DOMAIN s.snapshots : \E i \in DOMAIN m.snapshots : s.snapshots[k] = m.snapshots[i]
      /\ \A k \in DOMAIN s.fragments : \E i \in DOMAIN m.fragments : s.fragments[k] = m.fragments[i]
      /\ s.setsum = Setsums(s.snapshots) + Setsums(s.fragments)
      /\ s.depth \in Nat
      /\ DOMAIN s.snapshots # {} \/ DOMAIN s.fragments # {}
      /\ s.fragments = <<>> \/ /\ LeafReady(m)
                               /\ s.fragments = SubSeq(m.fragments, 1, fragment_rollover_threshold)
  BY <1>3, <1>4, RollupElements
<1>6. /\ a.setsum = m.setsum /\ a.collected = m.collected
      /\ a.snapshots = Append(u, p)
      /\ z = SubSeq(q, d + 1, l)
  BY DEF apply_snapshot
<1> HIDE DEF q, l, a, z, p, u
<1>7. d \in 0..l /\ d < l
  <2>1. CASE s.fragments = <<>>
    <3>1. d = 0
      BY <2>1
    <3> QED BY <1>3, <3>1
  <2>2. CASE s.fragments # <<>>
    <3> DEFINE t == fragment_rollover_threshold
    <3>1. /\ t \in Nat \ {0} /\ l >= t /\ \A i \in 1..t : q[i].seq_no # n
          /\ s.fragments = SubSeq(q, 1, t)
      BY <1>3, <1>5, <2>2, ThresholdAssumption DEF LeafReady, q, l
    <3> HIDE DEF t
    <3>2. t \in 0..Len(q)
      BY <1>3, <3>1 DEF l
    <3>3. s.fragments = [i \in 1..t |-> q[i]]
      BY <1>3, <3>1, <3>2, PrefixOf
    <3>4. d = t
      <4>1. DOMAIN s.fragments = 1..t
        BY <3>3
      <4>2. DOMAIN s.fragments = 1..d /\ d \in Nat
        BY <1>5, SeqIs
      <4> QED BY <3>1, <4>1, <4>2
    <3>5. l \notin 1..t
      BY <1>3, <3>1
    <3> QED BY <1>3, <3>1, <3>4, <3>5
  <2> QED BY <2>1, <2>2
<1> HIDE DEF d
<1>8. /\ z = [i \in 1..(l - d) |-> q[d + i]]
      /\ DOMAIN z = 1..(l - d) /\ z = [i \in 1..(l - d) |-> z[i]]
      /\ \A i \in 1..(l - d) : z[i] = q[d + i] /\ d + i \in DOMAIN q
  <2>1. d \in 0..Len(q)
    BY <1>7 DEF l
  <2>2. z = [i \in 1..(l - d) |-> q[d + i]]
    BY <1>3, <1>6, <2>1, SubSeqIs DEF l
  <2>3. DOMAIN z = 1..(l - d) /\ z = [i \in 1..(l - d) |-> z[i]] /\ \A i \in 1..(l - d) : z[i] = q[d + i]
    BY <2>2
  <2>4. \A i \in 1..(l - d) : d + i \in DOMAIN q
    BY <1>3, <1>7
  <2> QED BY <2>2, <2>3, <2>4
<1>9. IsSeq(z) /\ Len(z) = l - d /\ l - d \in Nat \ {0}
  <2>1. l - d \in Nat \ {0}
    BY <1>3, <1>7
  <2> QED BY <1>8, <2>1, FcnIsSeq
<1>10. z # <<>> /\ z[l - d] = q[l]
  <2>1. l - d \in 1..(l - d) /\ d + (l - d) = l
    BY <1>3, <1>7, <1>9
  <2> QED BY <1>8, <1>9, <2>1
<1>11. \A i \in DOMAIN z : /\ Part(z[i], top) /\ z[i].seq_no \in Nat
                           /\ i < l - d => z[i].seq_no < n
  <2> SUFFICES ASSUME NEW i \in 1..(l - d)
               PROVE  /\ Part(z[i], top) /\ z[i].seq_no \in Nat
                      /\ i < l - d => z[i].seq_no < n
    BY <1>8
  <2>1. z[i] = q[d + i] /\ d + i \in DOMAIN q
    BY <1>8
  <2>2. i < l - d => d + i < l
    BY <1>3, <1>7
  <2> QED BY <1>4, <2>1, <2>2
<1>12. Part(p, top) /\ p.depth \in Nat
  <2>1. /\ \A k \in DOMAIN s.snapshots : Part(s.snapshots[k], top)
        /\ \A k \in DOMAIN s.fragments : Part(s.fragments[k], top)
    BY <1>4, <1>5 DEF q
  <2>2. Part(p, top)
    BY <1>1, <1>5, <2>1, PointerIsPart DEF p
  <2>3. p.depth = s.depth
    BY DEF p, to_pointer
  <2> QED BY <1>5, <2>2, <2>3
<1>13. IsSeq(u) /\ \A k \in DOMAIN u : \E i \in DOMAIN m.snapshots : u[k] = m.snapshots[i]
  <2>1. PICK S : m.snapshots \in Seq(S)
    BY <1>4 DEF IsSeq
  <2>2. Unreplaced(m, s) \in SUBSET (DOMAIN m.snapshots)
    BY DEF Unreplaced
  <2> QED BY <2>1, <2>2, AtElements DEF IsSeq, u
<1>14. /\ IsSeq(a.snapshots)
       /\ \A k \in DOMAIN a.snapshots :
             a.snapshots[k] = p \/ \E i \in DOMAIN u : a.snapshots[k] = u[i]
  BY <1>6, <1>13, AppendElements
<1>15. \A k \in DOMAIN a.snapshots : Part(a.snapshots[k], top) /\ a.snapshots[k].depth \in Nat
  BY <1>4, <1>12, <1>13, <1>14
<1>16. Parts(a, n, top)
  BY <1>9, <1>11, <1>14, <1>15 DEF Parts, z
<1>17. Tip(a, n, top)
  BY <1>3, <1>9, <1>10 DEF Tip, z
<1>18. Balanced(log, a)
  BY <1>2, <1>6 DEF Balanced, snapshot_applies, a
<1> QED BY <1>16, <1>17, <1>18 DEF Heads, n, top, a

(* What it takes for garbage to apply.                                     *)
LEMMA Applied ==
    ASSUME NEW m, NEW g, apply_garbage(m, g).kind = "ok"
    PROVE  /\ apply_garbage(m, g).manifest = WithoutGarbage(m, g)
           /\ scrub(WithoutGarbage(m, g))
           /\ next_write_timestamp(WithoutGarbage(m, g)) = next_write_timestamp(m)
           /\ ~is_empty(g)
<1> DEFINE new == WithoutGarbage(m, g)
           gone == /\ g.fragments_to_drop_limit <= UnwrapOr(m.initial_seq_no, BEGIN)
                   /\ ToSet(g.snapshots_to_drop) \cap ToSet(m.snapshots) = {}
                   /\ g.snapshots_to_make = <<>>
           clean == /\ SetsumDiscarded(m, g) = g.setsum_to_discard
                    /\ scrub(new)
                    /\ oldest_timestamp(new) <= g.first_to_keep
                    /\ next_write_timestamp(new) = next_write_timestamp(m)
           a == apply_garbage(m, g)
<1>1. a = CASE is_empty(g) -> [kind |-> "err", manifest |-> m]
            [] ~is_empty(g) /\ gone -> [kind |-> "none", manifest |-> m]
            [] ~is_empty(g) /\ ~gone /\ clean -> [kind |-> "ok", manifest |-> new]
            [] OTHER -> [kind |-> "err", manifest |-> m]
  BY DEF apply_garbage
<1>2. clean => /\ scrub(new) /\ next_write_timestamp(new) = next_write_timestamp(m)
  OBVIOUS
<1>3. a.kind = "ok"
  OBVIOUS
<1> HIDE DEF a, gone, clean, new
<1>4. a.manifest = new /\ clean /\ ~is_empty(g)
  BY ONLY <1>1, <1>3
<1> QED BY <1>2, <1>4 DEF a, new

(* A manifest without garbage still ends where the log does, even if it    *)
(* refers to nothing.                                                      *)
LEMMA HeadsGarbage ==
    ASSUME NEW log, LogOK(log), NEW m, Heads(log, m), NEW g, Cuts(log, g),
           apply_garbage(m, g).kind = "ok"
    PROVE  Heads(log, apply_garbage(m, g).manifest)
<1> DEFINE n == Len(log)
           top == EndOf(log, n)
           a == WithoutGarbage(m, g)
           q == m.fragments
           l == Len(q)
           z == a.fragments
           limit == g.fragments_to_drop_limit
           J == {i \in DOMAIN m.snapshots : m.snapshots[i] \notin ToSet(g.snapshots_to_drop)}
           remaining == At(m.snapshots, J)
           root == g.snapshot_for_root \ ToSet(remaining)
           I == {i \in DOMAIN q : q[i].seq_no \notin FragmentsToDelete(g)}
           t == SetToSeq(root)
           r == Both(a.snapshots, a.fragments)
<1>1. /\ n \in Nat /\ top \in Nat \ {0}
      /\ \A i, j \in 0..n : i < j => EndOf(log, i) < EndOf(log, j)
      /\ \A i \in 0..n : EndOf(log, i) \in Nat \ {0}
  <2>1. /\ n \in Nat
        /\ \A i, j \in 0..n : i < j => EndOf(log, i) < EndOf(log, j)
        /\ \A i \in 0..n : EndOf(log, i) \in Nat \ {0}
    BY LogEnds
  <2>2. n \in 0..n
    BY <2>1
  <2> QED BY <2>1, <2>2
<1>2. Parts(m, n, top) /\ Tip(m, n, top) /\ Balanced(log, m)
  BY DEF Heads
<1>3. /\ limit \in 2..(n + 1)
      /\ g.first_to_keep = EndOf(log, limit - 1)
      /\ g.setsum_to_discard \in Int
      /\ \A p, u \in g.snapshot_for_root : p = u
      /\ \A p \in g.snapshot_for_root : Part(p, top) /\ p.limit # top /\ p.depth \in Nat
  BY DEF Cuts
<1>4. /\ apply_garbage(m, g).manifest = a
      /\ scrub(a) /\ next_write_timestamp(a) = next_write_timestamp(m)
  BY Applied
<1>5. next_write_timestamp(m) = top
  BY HeadsNext
<1> HIDE DEF n, top
<1>6. /\ a.setsum = m.setsum /\ a.collected = m.collected + g.setsum_to_discard
      /\ a.snapshots = Both(t, remaining)
      /\ z = At(q, I)
      /\ a.initial_offset = g.first_to_keep /\ a.initial_seq_no = limit
  BY DEF WithoutGarbage, Both
<1>7. /\ IsSeq(m.snapshots) /\ IsSeq(q)
      /\ \A i \in DOMAIN m.snapshots : Part(m.snapshots[i], top) /\ m.snapshots[i].depth \in Nat
      /\ \A i \in DOMAIN q : Part(q[i], top)
      /\ \A i \in DOMAIN q : q[i].seq_no \in Nat /\ (i < l => q[i].seq_no < n)
  BY <1>2 DEF Parts
<1>8. IsSeq(t) /\ \A k \in DOMAIN t : t[k] \in g.snapshot_for_root
  <2>1. root = {} \/ \E p : root = {p}
    <3> HIDE DEF remaining
    <3> QED BY <1>3
  <2>2. root \subseteq g.snapshot_for_root
    OBVIOUS
  <2> HIDE DEF root
  <2>3. IsSeq(t) /\ \A k \in DOMAIN t : t[k] \in root
    BY <2>1, SetToSeqIs
  <2> QED BY <2>2, <2>3
<1>9. /\ IsSeq(remaining)
      /\ \A k \in DOMAIN remaining : \E i \in DOMAIN m.snapshots : remaining[k] = m.snapshots[i]
  <2>1. PICK S : m.snapshots \in Seq(S)
    BY <1>7 DEF IsSeq
  <2>2. J \in SUBSET (DOMAIN m.snapshots)
    OBVIOUS
  <2> HIDE DEF J
  <2> QED BY <2>1, <2>2, AtElements DEF IsSeq
<1>10. I \in SUBSET (DOMAIN q)
  OBVIOUS
<1>11. IsSeq(z) /\ \A k \in DOMAIN z : \E i \in DOMAIN q : z[k] = q[i]
  <2>1. PICK S : q \in Seq(S)
    BY <1>7 DEF IsSeq
  <2> HIDE DEF I, q, z
  <2> QED BY <1>6, <1>10, <2>1, AtElements DEF IsSeq
<1> HIDE DEF a, t, remaining, z
<1>12. /\ IsSeq(a.snapshots)
       /\ \A k \in DOMAIN a.snapshots :
             \/ \E i \in DOMAIN t : a.snapshots[k] = t[i]
             \/ \E i \in DOMAIN remaining : a.snapshots[k] = remaining[i]
  BY <1>6, <1>8, <1>9, ConcatElements
<1>13. \A k \in DOMAIN a.snapshots :
          \/ a.snapshots[k] \in g.snapshot_for_root
          \/ \E i \in DOMAIN m.snapshots : a.snapshots[k] = m.snapshots[i]
  BY <1>8, <1>9, <1>12
<1>14. \A k \in DOMAIN a.snapshots : Part(a.snapshots[k], top) /\ a.snapshots[k].depth \in Nat
  BY <1>3, <1>7, <1>13
<1>15. \A k \in DOMAIN z : Part(z[k], top)
  BY <1>7, <1>11
<1>16. /\ IsSeq(r)
       /\ \A k \in DOMAIN r :
             \/ \E i \in DOMAIN a.snapshots : r[k] = a.snapshots[i]
             \/ \E i \in DOMAIN z : r[k] = z[i]
       /\ r # <<>> => DOMAIN r # {}
  BY <1>11, <1>12, ConcatElements DEF z
<1>17. \A k \in DOMAIN r : Part(r[k], top)
  BY <1>14, <1>15, <1>16
<1>18. /\ r = <<>> => a.snapshots = <<>> /\ z = <<>>
       /\ next_write_timestamp(a) = IF r = <<>> THEN UnwrapOr(a.initial_offset, 1) ELSE Max(Limits(r))
       /\ oldest_timestamp(a) = IF r = <<>> THEN UnwrapOr(a.initial_offset, 1) ELSE Min(Starts(r))
  <2>1. r = a.snapshots \o a.fragments
    BY DEF Both
  <2>2. r = <<>> => a.snapshots = <<>> /\ z = <<>>
    <3> HIDE DEF r
    <3> QED BY <1>11, <1>12, <2>1, ConcatNothing DEF z
  <2> HIDE DEF r
  <2> QED BY <2>1, <2>2 DEF next_write_timestamp, oldest_timestamp
<1> HIDE DEF r, I
<1>19. g.first_to_keep \in Nat \ {0} /\ limit - 1 \in 0..n /\ limit \in Nat \ {0}
  BY <1>1, <1>3
<1>20. Balanced(log, a)
  BY <1>2, <1>3, <1>4, <1>6 DEF Balanced
<1>21. CASE r = <<>>
  <2>1. a.snapshots = <<>> /\ z = <<>>
    BY <1>18, <1>21
  <2>2. g.first_to_keep = top
    BY <1>4, <1>5, <1>6, <1>18, <1>19, <1>21 DEF UnwrapOr, None
  <2>3. limit = n + 1
    <3>1. ~(limit - 1 < n)
      <4>1. n \in 0..n /\ EndOf(log, n) = top
        BY <1>1 DEF top
      <4> QED BY <1>1, <1>3, <1>19, <2>2, <4>1
    <3> QED BY <1>1, <1>19, <3>1
  <2>4. Parts(a, n, top)
    BY <1>11, <1>12, <2>1 DEF Parts, z
  <2>5. Tip(a, n, top)
    BY <1>1, <1>6, <2>1, <2>2, <2>3 DEF Tip, UnwrapOr, None, z
  <2> QED BY <1>4, <1>20, <2>4, <2>5 DEF Heads, n, top
<1>22. CASE r # <<>>
  <2>1. g.first_to_keep = Min(Starts(r)) /\ Max(Limits(r)) = top
    BY <1>4, <1>5, <1>6, <1>18, <1>19, <1>22 DEF scrub, None
  <2>2. Starts(r) \in SUBSET Nat /\ Starts(r) # {} /\ \A x \in Starts(r) : x < top
    <3>1. \A k \in DOMAIN r : r[k].start \in Nat /\ r[k].start < top
      <4> SUFFICES ASSUME NEW k \in DOMAIN r
                   PROVE  r[k].start \in Nat /\ r[k].start < top
        OBVIOUS
      <4>1. Part(r[k], top) /\ top \in Nat
        BY <1>1, <1>17
      <4> QED BY ONLY <4>1 DEF Part
    <3> QED BY <1>16, <1>22, <3>1 DEF Starts
  <2>3. Min(Starts(r)) \in Starts(r)
    <3>1. \E x \in Starts(r) : \A y \in Starts(r) : x <= y
      BY <2>2, LeastNatural
    <3> QED BY <3>1 DEF Min
  <2>4. g.first_to_keep < top
    BY <2>1, <2>2, <2>3
  <2>5. limit <= n
    <3>1. limit - 1 # n
      BY <1>1, <1>3, <2>4 DEF top
    <3> QED BY <1>1, <1>19, <3>1
  <2>6. q # <<>>
    <3> SUFFICES ASSUME q = <<>>
                 PROVE  FALSE
      OBVIOUS
    <3>1. m.snapshots = <<>>
      BY <1>2 DEF Tip
    <3>2. DOMAIN m.snapshots = {} /\ DOMAIN q = {}
      BY <3>1
    <3>3. \A k \in DOMAIN r : r[k] \in g.snapshot_for_root
      BY <1>11, <1>13, <1>16, <3>2
    <3>4. Limits(r) \in SUBSET (0..top) /\ Limits(r) # {}
      <4>1. \A k \in DOMAIN r : r[k].limit \in 0..top
        BY <1>1, <1>17 DEF Part
      <4> QED BY <1>16, <1>22, <4>1 DEF Limits
    <3>5. Max(Limits(r)) \in Limits(r)
      BY <1>1, <3>4, MaxUpTo
    <3>6. PICK k \in DOMAIN r : top = r[k].limit
      BY <2>1, <3>5 DEF Limits
    <3> QED BY <1>3, <3>3, <3>6
  <2>7. /\ l \in Nat \ {0} /\ DOMAIN q = 1..l
        /\ q[l].seq_no = n /\ q[l].limit = top
    BY <1>1, <1>2, <2>6, LastNumber
  <2>8. l \in I
    <3>1. l \in DOMAIN q
      BY <2>7
    <3>2. n \notin FragmentsToDelete(g)
      <4>1. ~(n <= limit - 1)
        BY <1>1, <1>19, <2>5
      <4> QED BY <4>1 DEF FragmentsToDelete
    <3> QED BY <2>7, <3>1, <3>2 DEF I
  <2>9. /\ Len(z) \in Nat \ {0} /\ z # <<>> /\ z[Len(z)] = q[l]
        /\ \A k \in 1..Len(z) : k < Len(z) => \E i \in 1..l : i < l /\ z[k] = q[i]
    <3> HIDE DEF q
    <3>1. IsSeq(q) /\ q # <<>> /\ I \in SUBSET (DOMAIN q) /\ Len(q) \in I /\ z = At(q, I)
      BY <1>6, <1>7, <1>10, <2>6, <2>8
    <3>2. /\ Len(z) \in Nat \ {0} /\ z # <<>> /\ z[Len(z)] = q[Len(q)]
          /\ \A k \in 1..Len(z) : k < Len(z) => \E i \in 1..Len(q) : i < Len(q) /\ z[k] = q[i]
      BY ONLY <3>1, AtLast
    <3> QED BY <3>2
  <2>10. \A k \in DOMAIN z : z[k].seq_no \in Nat /\ (k < Len(z) => z[k].seq_no < n)
    <3> SUFFICES ASSUME NEW k \in DOMAIN z
                 PROVE  z[k].seq_no \in Nat /\ (k < Len(z) => z[k].seq_no < n)
      OBVIOUS
    <3>1. DOMAIN z = 1..Len(z)
      BY <1>11, SeqIs
    <3> HIDE DEF q, l
    <3> QED BY <1>7, <1>11, <2>7, <2>9, <3>1
  <2>11. Parts(a, n, top)
    BY <1>11, <1>12, <1>14, <1>15, <2>10 DEF Parts, z
  <2>12. Tip(a, n, top)
    BY <2>7, <2>9 DEF Tip, z
  <2> QED BY <1>4, <1>20, <2>11, <2>12 DEF Heads, n, top
<1> QED BY <1>21, <1>22

-----------------------------------------------------------------------------
(* Steps.  The log grows by the fragment of a put of the manifest, or the  *)
(* manifest is replaced, or neither.                                       *)
Forward ==
    \/ e_tag' = e_tag /\ history' = history
    \/ /\ e_tag' = e_tag + 1
       /\ \/ history' = history
          \/ \E f : /\ Placed(history, f) /\ f.seq_no = Len(history) + 1
                    /\ history' = Append(history, f)

(* What was in order stays in order.                                       *)
LEMMA ForwardKeeps ==
    ASSUME GInv, Forward
    PROVE  /\ LogOK(history') /\ e_tag' \in Nat
           /\ Len(history) \in Nat /\ Len(history') \in Nat /\ Len(history) <= Len(history')
           /\ \A n \in 0..Len(history) : EndOf(history', n) = EndOf(history, n)
           /\ \A f : Placed(history, f) => Placed(history', f)
           /\ \A tag, m, f : MayLink(history, e_tag, tag, m, f) => MayLink(history', e_tag', tag, m, f)
           /\ \A tag, m : MayStand(history, e_tag, tag, m) => MayStand(history', e_tag', tag, m)
           /\ \A r : RequestOK(history, e_tag, r) => RequestOK(history', e_tag', r)
           /\ \A g : GarbageOK(history, g) => GarbageOK(history', g)
<1>1. LogOK(history) /\ e_tag \in Nat /\ Len(history) \in Nat
  BY LogEnds DEF GInv
<1>2. CASE e_tag' = e_tag /\ history' = history
  BY <1>1, <1>2
<1>3. CASE e_tag' = e_tag + 1
  <2>1. /\ LogOK(history') /\ Len(history') \in Nat /\ Len(history) <= Len(history')
        /\ \A n \in 0..Len(history) : EndOf(history', n) = EndOf(history, n)
        /\ \A f : Placed(history, f) => Placed(history', f)
        /\ \A g : GarbageOK(history, g) => GarbageOK(history', g)
    <3>1. CASE history' = history
      BY <1>1, <3>1
    <3>2. CASE history' # history
      <4>1. PICK f : /\ Placed(history, f) /\ f.seq_no = Len(history) + 1
                     /\ history' = Append(history, f)
        BY <1>1, <1>3, <3>2 DEF Forward
      <4>2. /\ LogOK(history')
            /\ Len(history') = Len(history) + 1
            /\ \A n \in 0..Len(history) : EndOf(history', n) = EndOf(history, n)
            /\ EndOf(history', Len(history')) = f.limit
            /\ EndOf(history, Len(history)) = f.start
            /\ f.start \in Nat \ {0} /\ f.limit \in Nat /\ f.start < f.limit
            /\ \A h : Placed(history, h) => Placed(history', h)
        BY <1>1, <4>1, LogGrows
      <4>3. ASSUME NEW g, Cuts(history, g)
            PROVE  Cuts(history', g)
        <5> DEFINE limit == g.fragments_to_drop_limit
                   top == EndOf(history, Len(history))
                   end == EndOf(history', Len(history'))
        <5>1. /\ limit \in 2..(Len(history) + 1)
              /\ g.first_to_keep = EndOf(history, limit - 1)
              /\ g.setsum_to_discard \in Int
              /\ \A p, q \in g.snapshot_for_root : p = q
              /\ \A p \in g.snapshot_for_root : Part(p, top) /\ p.depth \in Nat
          BY <4>3 DEF Cuts
        <5>2. limit \in 2..(Len(history') + 1) /\ limit - 1 \in 0..Len(history)
          BY <1>1, <4>2, <5>1
        <5>3. top \in Nat /\ end \in Nat /\ top < end
          BY <4>2
        <5> HIDE DEF top, end
        <5>4. \A p : Part(p, top) => Part(p, end) /\ p.limit # end
          BY <5>3 DEF Part
        <5>5. g.first_to_keep = EndOf(history', limit - 1)
          BY <4>2, <5>1, <5>2
        <5> QED BY <5>1, <5>2, <5>4, <5>5 DEF Cuts, end
      <4>4. Len(history') \in Nat /\ Len(history) <= Len(history')
        BY <1>1, <4>2
      <4> QED BY <4>2, <4>3, <4>4 DEF GarbageOK
    <3> QED BY <3>1, <3>2
  <2>2. e_tag' \in Nat /\ \A tag \in Nat : tag <= e_tag => tag <= e_tag' /\ tag # e_tag'
    BY <1>1, <1>3
  <2>3. \A tag, m, f : MayLink(history, e_tag, tag, m, f) => MayLink(history', e_tag', tag, m, f)
    BY <2>1, <2>2 DEF MayLink
  <2>4. \A tag, m : MayStand(history, e_tag, tag, m) => MayStand(history', e_tag', tag, m)
    BY <2>2 DEF MayStand
  <2>5. \A r : RequestOK(history, e_tag, r) => RequestOK(history', e_tag', r)
    BY <2>1, <2>3, <2>4 DEF RequestOK
  <2> QED BY <1>1, <2>1, <2>2, <2>3, <2>4, <2>5
<1> QED BY <1>2, <1>3 DEF Forward

(* The state of v that its invariant is about is unchanged.                *)
SameWriter(v) ==
    /\ pc'[v] = pc[v] /\ inner'[v] = inner[v] /\ goal'[v] = goal[v]
    /\ batch'[v] = batch[v] /\ staging'[v] = staging[v]
    /\ fragment'[v] = fragment[v] /\ pulled'[v] = pulled[v]

LEMMA TakableStays ==
    ASSUME GInv, Forward, NEW s, s.e_tag \in Nat, s.e_tag <= e_tag, Takable(history, e_tag, s)
    PROVE  Takable(history', e_tag', s)
<1>1. /\ Len(history) \in Nat /\ Len(history') \in Nat /\ Len(history) <= Len(history')
      /\ \A n \in 0..Len(history) : EndOf(history', n) = EndOf(history, n)
      /\ e_tag \in Nat
  BY ForwardKeeps DEF GInv
<1> DEFINE x == s.next_seq_no_to_assign
<1>2. /\ x \in 1..(Len(history) + 1) /\ s.next_log_position = EndOf(history, x - 1)
      /\ s.e_tag = e_tag => x = Len(history) + 1
  BY DEF Takable
<1> HIDE DEF x
<1>3. x \in 1..(Len(history') + 1) /\ x - 1 \in 0..Len(history)
  BY <1>1, <1>2
<1>4. s.e_tag = e_tag' => x = Len(history') + 1
  <2>1. CASE e_tag' = e_tag /\ history' = history
    BY <1>2, <2>1
  <2>2. CASE e_tag' = e_tag + 1
    BY <1>1, <2>2
  <2> QED BY <2>1, <2>2 DEF Forward
<1> QED BY <1>1, <1>2, <1>3, <1>4 DEF Takable, x

LEMMA SameHolds ==
    ASSUME GInv, Forward, NEW v \in Writers, SameWriter(v)
    PROVE  HoldsOK(v)' /\ CallsOK(v)'
<1> DEFINE s == staging[v]
           f == fragment[v]
<1>1. HoldsOK(v) /\ CallsOK(v) /\ e_tag \in Nat
  BY DEF GInv
<1>2. /\ Loaded(v)' = Loaded(v) /\ Linking(v)' = Linking(v) /\ Appending(v)' = Appending(v)
      /\ Resting(v)' = Resting(v)
  BY DEF Loaded, Linking, Appending, Resting, SameWriter
<1>3. CallsOK(v)'
  BY <1>1, <1>2 DEF CallsOK, SameWriter
<1>4. Shaped(s, pulled[v])
  BY <1>1 DEF HoldsOK
<1>5. ASSUME Loaded(v)
      PROVE  MayStand(history', e_tag', s.e_tag, s.manifest) /\ s.e_tag \in Nat /\ s.e_tag <= e_tag
  <2>1. MayStand(history, e_tag, s.e_tag, s.manifest)
    BY <1>1, <1>5 DEF HoldsOK
  <2> QED BY <2>1, ForwardKeeps DEF MayStand
<1>6. ASSUME Loaded(v), Resting(v)
      PROVE  Takable(history', e_tag', s)
  <2>1. Takable(history, e_tag, s)
    BY <1>1, <1>6 DEF HoldsOK
  <2> QED BY <1>5, <1>6, <2>1, TakableStays
<1>7. ASSUME Loaded(v), s.e_tag = e_tag'
      PROVE  e_tag' = e_tag /\ history' = history
  BY <1>1, <1>5, <1>7 DEF Forward
<1>8. ASSUME Loaded(v), pc[v] \notin {"snapshot", "install"}, s.e_tag = e_tag'
      PROVE  s.next_seq_no_to_apply = Len(history') + 1
  BY <1>1, <1>7, <1>8 DEF HoldsOK
<1>9. ASSUME pc[v] \in {"mark recovered", "write"} \/ Linking(v)
      PROVE  Placed(history', f)
  <2>1. Placed(history, f)
    BY <1>1, <1>9 DEF HoldsOK
  <2> QED BY <2>1, ForwardKeeps
<1>10. ASSUME pc[v] \in {"snapshot", "install"}
       PROVE  /\ MayLink(history', e_tag', s.e_tag, pulled[v].manifest, f)
              /\ s.e_tag = e_tag' => s.next_seq_no_to_apply = Len(history') + 2
  <2>1. /\ MayLink(history, e_tag, s.e_tag, pulled[v].manifest, f)
        /\ s.e_tag = e_tag => s.next_seq_no_to_apply = Len(history) + 2
    BY <1>1, <1>10 DEF HoldsOK
  <2>2. Loaded(v)
    BY <1>10 DEF Loaded
  <2> QED BY <1>7, <2>1, <2>2, ForwardKeeps
<1>11. ASSUME pc[v] = "collect"
       PROVE  MayStand(history', e_tag', s.e_tag, pulled[v].manifest)
  <2>1. MayStand(history, e_tag, s.e_tag, pulled[v].manifest)
    BY <1>1, <1>11 DEF HoldsOK
  <2> QED BY <2>1, ForwardKeeps
<1>12. Appending(v) => s.next_log_position = f.limit /\ s.next_seq_no_to_assign = f.seq_no + 1
  BY <1>1 DEF HoldsOK
<1>13. HoldsOK(v)'
  <2> USE DEF SameWriter
  <2> HIDE DEF s, f
  <2>1. /\ staging'[v] = s /\ fragment'[v] = f /\ pulled'[v] = pulled[v] /\ pc'[v] = pc[v]
    BY DEF s, f
  <2> QED BY ONLY <1>2, <1>4, <1>5, <1>6, <1>8, <1>9, <1>10, <1>11, <1>12, <2>1 DEF HoldsOK
<1> QED BY <1>3, <1>13

(* A step that keeps GInv.                                                 *)
LEMMA GInvStep ==
    ASSUME GInv, Forward, WriterDomains', FilesOK', Heads(history', manifest'),
           \A r \in delayed' : r \in delayed \/ RequestOK(history', e_tag', r),
           \A v \in Writers : SameWriter(v) \/ (HoldsOK(v)' /\ CallsOK(v)'),
           CollectionsOK'
    PROVE  GInv'
<1>1. LogOK(history') /\ e_tag' \in Nat
  BY ForwardKeeps
<1>2. \A r \in delayed' : RequestOK(history', e_tag', r)
  <2>1. \A r \in delayed : RequestOK(history, e_tag, r)
    BY DEF GInv
  <2> QED BY <2>1, ForwardKeeps
<1>3. \A v \in Writers : HoldsOK(v)' /\ CallsOK(v)'
  BY SameHolds
<1> QED BY <1>1, <1>2, <1>3 DEF GInv

(* Collections, when nothing about them changes.                           *)
LEMMA SameCollections ==
    ASSUME GInv, Forward, garbage' = garbage, collector' = collector
    PROVE  CollectionsOK'
<1>1. CollectionsOK
  BY DEF GInv
<1>2. \A g : GarbageOK(history, g) => GarbageOK(history', g)
  BY ForwardKeeps
<1> QED BY <1>1, <1>2 DEF CollectionsOK

(* Files, when none is written.                                            *)
LEMMA SameFiles ==
    ASSUME GInv, Forward, fragments' = fragments
    PROVE  FilesOK'
<1>1. FilesOK
  BY DEF GInv
<1> QED BY <1>1, ForwardKeeps DEF FilesOK

-----------------------------------------------------------------------------
(* How calls end.                                                          *)

(* After a step of w: w is in order, the others are as they were.          *)
Ends(w) ==
    /\ WriterDomains'
    /\ HoldsOK(w)' /\ CallsOK(w)'
    /\ \A v \in Writers \ {w} : SameWriter(v)

LEMMA NoStagingShaped == Shaped(NoStaging, NothingPulled)
BY DEF Shaped, NoStaging, NewStaging, Staging, NothingPulled

LEMMA IdleEnds ==
    ASSUME GInv, NEW w \in Writers, NEW state, NEW stage, Idle(w, state, stage),
           Shaped(stage, NothingPulled),
           state = "open" =>
              /\ MayStand(history', e_tag', stage.e_tag, stage.manifest)
              /\ Takable(history', e_tag', stage)
              /\ stage.e_tag = e_tag' => stage.next_seq_no_to_apply = Len(history') + 1
    PROVE  Ends(w)
<1>1. WriterDomains
  BY DEF GInv
<1>2. WriterDomains'
  BY <1>1 DEF WriterDomains, Idle, ClearWork
<1>3. \A v \in Writers \ {w} : SameWriter(v)
  BY <1>1 DEF WriterDomains, Idle, ClearWork, SameWriter
<1>4. /\ pc'[w] = "idle" /\ inner'[w] = state /\ goal'[w] = "open" /\ staging'[w] = stage
      /\ pulled'[w] = NothingPulled
  BY <1>1 DEF WriterDomains, Idle, ClearWork
<1>5. CallsOK(w)'
  BY <1>4 DEF CallsOK, Linking
<1>6. HoldsOK(w)'
  BY <1>4 DEF HoldsOK, Loaded, Linking, Appending
<1> QED BY <1>2, <1>3, <1>5, <1>6 DEF Ends

LEMMA ReopenEnds ==
    ASSUME GInv, NEW w \in Writers, NEW why \in {"open", "append", "confirm"},
           NEW attempt, NEW open, Reopen(w, why, attempt, open),
           why # "open" => batch[w] \in Batches
    PROVE  Ends(w)
<1>1. WriterDomains
  BY DEF GInv
<1>2. WriterDomains'
  BY <1>1 DEF WriterDomains, Reopen, ClearWork
<1>3. \A v \in Writers \ {w} : SameWriter(v)
  BY <1>1 DEF WriterDomains, Reopen, ClearWork, SameWriter
<1>4. /\ pc'[w] = "open" /\ inner'[w] # "open" /\ goal'[w] = why /\ staging'[w] = NoStaging
      /\ pulled'[w] = NothingPulled /\ batch'[w] = batch[w]
  BY <1>1 DEF WriterDomains, Reopen, ClearWork
<1>5. CallsOK(w)'
  BY <1>4 DEF CallsOK, Linking
<1>6. HoldsOK(w)'
  BY <1>4, NoStagingShaped DEF HoldsOK, Loaded, Linking, Appending
<1> QED BY <1>2, <1>3, <1>5, <1>6 DEF Ends

LEMMA ClosedEnds ==
    ASSUME GInv, NEW w \in Writers, NEW state, state # "open", Idle(w, state, NoStaging)
    PROVE  Ends(w)
BY IdleEnds, NoStagingShaped

LEMMA ReturnEnds ==
    ASSUME GInv, NEW w \in Writers, NEW status, NEW position, NEW state, state # "open",
           Return(w, status, position, state, NoStaging)
    PROVE  Ends(w)
BY ClosedEnds DEF Return

LEMMA EnsureOpenErrEnds ==
    ASSUME GInv, NEW w \in Writers, inner[w] # "open", NEW err, EnsureOpenErr(w, err)
    PROVE  Ends(w)
<1>1. goal[w] \in {"open", "append", "confirm"}
  BY DEF GInv, CallsOK
<1>2. CASE goal[w] = "open"
  BY <1>2, ClosedEnds DEF EnsureOpenErr
<1>3. CASE goal[w] = "append"
  BY <1>3, ReturnEnds DEF EnsureOpenErr
<1>4. CASE goal[w] = "confirm"
  BY <1>4, ReturnEnds DEF EnsureOpenErr
<1> QED BY <1>1, <1>2, <1>3, <1>4

LEMMA OpenFailsEnds ==
    ASSUME GInv, NEW w \in Writers, inner[w] # "open", NEW err, OpenFails(w, err)
    PROVE  Ends(w)
<1>1. goal[w] \in {"open", "append", "confirm"} /\ (goal[w] # "open" => batch[w] \in Batches)
  BY DEF GInv, CallsOK
<1>2. CASE err = "retry" /\ opens[w] < 3
  BY <1>1, <1>2, ReopenEnds DEF OpenFails
<1>3. CASE ~(err = "retry" /\ opens[w] < 3)
  BY <1>3, EnsureOpenErrEnds DEF OpenFails
<1> QED BY <1>2, <1>3

LEMMA AppendFailsEnds ==
    ASSUME GInv, NEW w \in Writers, batch[w] \in Batches, NEW err, AppendFails(w, err)
    PROVE  Ends(w)
<1>1. CASE err = "durable"
  BY <1>1, ReopenEnds DEF AppendFails
<1>2. CASE err = "retry"
  <2>1. CASE attempts[w] < 3 /\ ~(attempts[w] >= 3)
    BY <1>2, <2>1, ReopenEnds DEF AppendFails
  <2>2. CASE attempts[w] < 3 /\ attempts[w] >= 3
    <3>1. \/ Return(w, "failure", 0, "closed", NoStaging)
          \/ Reopen(w, "append", attempts[w] + 1, 1)
      BY <1>2, <2>2 DEF AppendFails
    <3> QED BY <3>1, ReturnEnds, ReopenEnds
  <2>3. CASE ~(attempts[w] < 3) /\ attempts[w] >= 3
    <3>1. Return(w, "failure", 0, "closed", NoStaging)
      BY <1>2, <2>3 DEF AppendFails
    <3> QED BY <3>1, ReturnEnds
  <2>4. CASE ~(attempts[w] < 3) /\ ~(attempts[w] >= 3)
    <3>1. Return(w, err, 0, "closed", NoStaging)
      BY <1>2, <2>4 DEF AppendFails
    <3> QED BY <3>1, ReturnEnds
  <2> QED BY <2>1, <2>2, <2>3, <2>4
<1>3. CASE err \notin {"durable", "retry"}
  <2>1. Return(w, err, 0, "closed", NoStaging)
    BY <1>3 DEF AppendFails
  <2> QED BY <2>1, ReturnEnds
<1> QED BY <1>1, <1>2, <1>3

LEMMA PublishFailsEnds ==
    ASSUME GInv, NEW w \in Writers, Linking(w), NEW err, PublishFails(w, err)
    PROVE  Ends(w)
<1>1. inner[w] = "open" => batch[w] \in Batches
  BY DEF GInv, CallsOK
<1>2. CASE inner[w] = "open"
  BY <1>1, <1>2, AppendFailsEnds DEF PublishFails
<1>3. CASE inner[w] # "open"
  BY <1>3, OpenFailsEnds DEF PublishFails
<1> QED BY <1>2, <1>3

-----------------------------------------------------------------------------
(* The steps of appending.                                                 *)

(* A step of w that leaves storage alone.                                  *)
LEMMA WriterStep ==
    ASSUME GInv, NEW w \in Writers, Ends(w), UNCHANGED <<manifest, e_tag, fragments, history>>,
           \A r \in delayed' : r \in delayed \/ RequestOK(history', e_tag', r),
           UNCHANGED gc_vars
    PROVE  GInv'
<1>1. Forward
  BY DEF Forward
<1>2. FilesOK' /\ CollectionsOK'
  BY <1>1, SameFiles, SameCollections DEF gc_vars
<1>3. Heads(history', manifest')
  BY DEF GInv
<1> QED BY <1>1, <1>2, <1>3, GInvStep DEF Ends

(* A step of w that changes its pc and nothing else that the invariant is  *)
(* about, apart from inner and batch.                                      *)
LEMMA MovesEnds ==
    ASSUME GInv, NEW w \in Writers, NEW to, pc' = [pc EXCEPT ![w] = to],
           UNCHANGED <<staging, fragment, pulled, attempts>>,
           DOMAIN goal' = Writers, DOMAIN inner' = Writers, DOMAIN batch' = Writers,
           DOMAIN opens' = Writers,
           \A v \in Writers \ {w} : goal'[v] = goal[v] /\ inner'[v] = inner[v] /\ batch'[v] = batch[v],
           HoldsOK(w)', CallsOK(w)'
    PROVE  Ends(w)
<1>1. WriterDomains
  BY DEF GInv
<1>2. WriterDomains'
  BY <1>1 DEF WriterDomains
<1>3. \A v \in Writers \ {w} : SameWriter(v)
  BY <1>1 DEF WriterDomains, SameWriter
<1> QED BY <1>2, <1>3 DEF Ends

LEMMA OpenG ==
    ASSUME GInv, NEW w \in Writers, Open(w), UNCHANGED gc_vars
    PROVE  GInv'
<1>1. HoldsOK(w) /\ CallsOK(w) /\ WriterDomains
  BY DEF GInv
<1>2. /\ pc' = [pc EXCEPT ![w] = "open"] /\ pc'[w] = "open" /\ inner[w] # "open"
      /\ UNCHANGED <<staging, fragment, pulled, attempts, goal, inner, batch>>
      /\ UNCHANGED <<manifest, e_tag, fragments, history, delayed>>
      /\ DOMAIN opens' = Writers
  BY <1>1 DEF Open, storage, working, WriterDomains
<1>3. HoldsOK(w)'
  BY <1>1, <1>2 DEF HoldsOK, Loaded, Linking, Appending
<1>4. CallsOK(w)'
  BY <1>1, <1>2 DEF CallsOK, Linking
<1>5. Ends(w)
  BY <1>1, <1>2, <1>3, <1>4, MovesEnds DEF WriterDomains
<1> QED BY <1>2, <1>5, WriterStep

LEMMA AppendManyG ==
    ASSUME GInv, NEW w \in Writers, NEW b \in Batches, AppendMany(w, b), UNCHANGED gc_vars
    PROVE  GInv'
<1> DEFINE to == IF inner[w] = "open" THEN "ready" ELSE "open"
<1>1. HoldsOK(w) /\ CallsOK(w) /\ WriterDomains
  BY DEF GInv
<1>2. /\ pc' = [pc EXCEPT ![w] = to] /\ pc'[w] = to /\ pc[w] = "idle"
      /\ goal'[w] = "append" /\ batch'[w] = b
      /\ \A v \in Writers \ {w} : goal'[v] = goal[v] /\ batch'[v] = batch[v]
      /\ UNCHANGED <<staging, fragment, pulled, inner>>
      /\ UNCHANGED <<manifest, e_tag, fragments, history, delayed>>
      /\ DOMAIN opens' = Writers /\ DOMAIN goal' = Writers /\ DOMAIN batch' = Writers
      /\ DOMAIN attempts' = Writers
  BY <1>1 DEF AppendMany, storage, working, WriterDomains
<1>3. HoldsOK(w)' /\ CallsOK(w)'
  <2>1. CASE inner[w] = "open"
    <3>1. pc'[w] = "ready"
      BY <1>2, <2>1
    <3> HIDE DEF to
    <3>2. HoldsOK(w)'
      BY <1>1, <1>2, <2>1, <3>1 DEF HoldsOK, Loaded, Linking, Appending, Resting
    <3>3. CallsOK(w)'
      BY <1>1, <1>2, <3>1 DEF CallsOK, Linking
    <3> QED BY <3>2, <3>3
  <2>2. CASE inner[w] # "open"
    <3>1. pc'[w] = "open"
      BY <1>2, <2>2
    <3> HIDE DEF to
    <3>2. HoldsOK(w)'
      BY <1>1, <1>2, <2>2, <3>1 DEF HoldsOK, Loaded, Linking, Appending, Resting
    <3>3. CallsOK(w)'
      BY <1>1, <1>2, <2>2, <3>1 DEF CallsOK, Linking
    <3> QED BY <3>2, <3>3
  <2> QED BY <2>1, <2>2
<1> HIDE DEF to
<1>5. WriterDomains'
  BY <1>1, <1>2 DEF WriterDomains
<1>6. \A v \in Writers \ {w} : SameWriter(v)
  BY <1>1, <1>2 DEF WriterDomains, SameWriter
<1> QED BY <1>2, <1>3, <1>5, <1>6, WriterStep DEF Ends

(* The staging of a manifest that has just been loaded.                    *)
LEMMA NewStagingTakable ==
    ASSUME GInv, NEW s, s = NewStaging(manifest, e_tag)
    PROVE  /\ Shaped(s, NothingPulled)
           /\ s.e_tag = e_tag /\ s.manifest = manifest
           /\ MayStand(history, e_tag, s.e_tag, s.manifest)
           /\ Takable(history, e_tag, s)
           /\ s.next_seq_no_to_apply = Len(history) + 1
<1>1. LogOK(history) /\ Heads(history, manifest) /\ e_tag \in Nat
  BY DEF GInv
<1>2. /\ next_fragment_seq_no(manifest) = Len(history) + 1
      /\ next_write_timestamp(manifest) = EndOf(history, Len(history))
  BY <1>1, HeadsNext
<1>3. Len(history) \in Nat
  BY <1>1, LogEnds
<1>4. /\ Shaped(s, NothingPulled) /\ s.e_tag = e_tag /\ s.manifest = manifest
      /\ s.next_seq_no_to_apply = Len(history) + 1 /\ s.next_seq_no_to_assign = Len(history) + 1
      /\ s.next_log_position = EndOf(history, Len(history))
  BY <1>2 DEF Shaped, NewStaging, Staging, NothingPulled
<1>5. Len(history) + 1 \in 1..(Len(history) + 1) /\ (Len(history) + 1) - 1 = Len(history)
  BY <1>3
<1> QED BY <1>1, <1>4, <1>5 DEF MayStand, Takable

LEMMA LoadManifestG ==
    ASSUME GInv, NEW w \in Writers, LoadManifest(w), UNCHANGED gc_vars
    PROVE  GInv'
<1> DEFINE s == NewStaging(manifest, e_tag)
<1>1. HoldsOK(w) /\ CallsOK(w) /\ WriterDomains /\ e_tag \in Nat
  BY DEF GInv
<1>2. /\ s.e_tag = e_tag /\ Shaped(s, NothingPulled)
      /\ MayStand(history, e_tag, s.e_tag, s.manifest)
      /\ Takable(history, e_tag, s)
      /\ s.next_seq_no_to_apply = Len(history) + 1
  BY NewStagingTakable
<1>3. /\ pc' = [pc EXCEPT ![w] = "recover"] /\ pc'[w] = "recover" /\ pc[w] = "open"
      /\ staging' = [staging EXCEPT ![w] = s] /\ staging'[w] = s
      /\ UNCHANGED <<fragment, pulled, inner, goal, batch, attempts, opens>>
      /\ UNCHANGED <<manifest, e_tag, fragments, history, delayed>>
  BY <1>1 DEF LoadManifest, storage, working, handling, WriterDomains
<1> HIDE DEF s
<1>4. Shaped(s, pulled[w])
  BY <1>1, <1>2 DEF HoldsOK, Shaped
<1>5. HoldsOK(w)'
  BY <1>2, <1>3, <1>4 DEF HoldsOK, Loaded, Linking, Appending
<1>6. CallsOK(w)'
  BY <1>1, <1>3 DEF CallsOK, Linking
<1>7. WriterDomains' /\ \A v \in Writers \ {w} : SameWriter(v)
  BY <1>1, <1>3 DEF WriterDomains, SameWriter
<1> QED BY <1>3, <1>5, <1>6, <1>7, WriterStep DEF Ends

LEMMA NothingToRecoverG ==
    ASSUME GInv, NEW w \in Writers, NothingToRecover(w), UNCHANGED gc_vars
    PROVE  GInv'
<1> DEFINE s == staging[w]
<1>1. HoldsOK(w) /\ CallsOK(w) /\ WriterDomains
  BY DEF GInv
<1>2. pc[w] = "recover" /\ UNCHANGED <<manifest, e_tag, fragments, history, delayed>>
  BY DEF NothingToRecover, storage
<1>3. /\ Shaped(s, NothingPulled)
      /\ MayStand(history, e_tag, s.e_tag, s.manifest)
      /\ Takable(history, e_tag, s)
      /\ s.e_tag = e_tag => s.next_seq_no_to_apply = Len(history) + 1
  BY <1>1, <1>2 DEF HoldsOK, Loaded, Resting, Shaped, NothingPulled
<1>4. CASE Idle(w, "open", staging[w])
  BY <1>2, <1>3, <1>4, IdleEnds, WriterStep
<1>5. CASE /\ goal[w] = "append"
           /\ pc' = [pc EXCEPT ![w] = "ready"]
           /\ inner' = [inner EXCEPT ![w] = "open"]
           /\ UNCHANGED <<handling, batch, staging, working, result>>
  <2>1. /\ pc'[w] = "ready" /\ inner'[w] = "open"
        /\ UNCHANGED <<goal, attempts, opens, batch, staging, fragment, pulled>>
    BY <1>1, <1>5 DEF WriterDomains, handling, working
  <2>2. HoldsOK(w)'
    BY <1>1, <1>2, <1>3, <2>1 DEF HoldsOK, Loaded, Linking, Appending, Shaped
  <2>3. CallsOK(w)'
    BY <1>1, <1>5, <2>1 DEF CallsOK, Linking
  <2>4. WriterDomains' /\ \A v \in Writers \ {w} : SameWriter(v)
    BY <1>1, <1>5, <2>1 DEF WriterDomains, SameWriter
  <2> QED BY <1>2, <2>2, <2>3, <2>4, WriterStep DEF Ends
<1> QED BY <1>4, <1>5 DEF NothingToRecover, Return

LEMMA ReadFragmentG ==
    ASSUME GInv, NEW w \in Writers, ReadFragment(w), UNCHANGED gc_vars
    PROVE  GInv'
<1> DEFINE f == fragments[staging[w].next_seq_no_to_apply]
<1>1. HoldsOK(w) /\ CallsOK(w) /\ WriterDomains /\ FilesOK
  BY DEF GInv
<1>2. /\ pc[w] = "recover" /\ pc' = [pc EXCEPT ![w] = "mark recovered"]
      /\ pc'[w] = "mark recovered" /\ fragment'[w] = f
      /\ fragment' = [fragment EXCEPT ![w] = f]
      /\ UNCHANGED <<manifest, e_tag, fragments, history, delayed>>
      /\ UNCHANGED <<goal, attempts, opens, batch, staging, inner, pulled>>
  BY <1>1 DEF ReadFragment, storage, handling, WriterDomains
<1>3. Placed(history, f)
  BY <1>1 DEF FilesOK, ReadFragment
<1> HIDE DEF f
<1>4. HoldsOK(w)'
  BY <1>1, <1>2, <1>3 DEF HoldsOK, Loaded, Linking, Appending, Resting
<1>5. CallsOK(w)'
  BY <1>1, <1>2 DEF CallsOK, Linking
<1>6. WriterDomains' /\ \A v \in Writers \ {w} : SameWriter(v)
  BY <1>1, <1>2 DEF WriterDomains, SameWriter
<1> QED BY <1>2, <1>4, <1>5, <1>6, WriterStep DEF Ends

LEMMA MarkRecoveredG ==
    ASSUME GInv, NEW w \in Writers, MarkRecovered(w), UNCHANGED gc_vars
    PROVE  GInv'
<1>1. HoldsOK(w) /\ CallsOK(w) /\ WriterDomains
  BY DEF GInv
<1>2. /\ pc[w] = "mark recovered" /\ pc' = [pc EXCEPT ![w] = "publish"] /\ pc'[w] = "publish"
      /\ UNCHANGED <<manifest, e_tag, fragments, history, delayed>>
      /\ UNCHANGED <<goal, attempts, opens, batch, staging, inner, fragment, pulled>>
  BY <1>1 DEF MarkRecovered, storage, handling, working, WriterDomains
<1>3. HoldsOK(w)'
  BY <1>1, <1>2 DEF HoldsOK, CallsOK, Loaded, Linking, Appending, Resting
<1>4. CallsOK(w)'
  BY <1>1, <1>2 DEF CallsOK, Linking
<1>5. Ends(w)
  BY <1>1, <1>2, <1>3, <1>4, MovesEnds DEF WriterDomains
<1> QED BY <1>2, <1>5, WriterStep

LEMMA OpenFailsG ==
    ASSUME GInv, NEW w \in Writers, MarkRecoveredFails(w) \/ ReadFails(w), UNCHANGED gc_vars
    PROVE  GInv'
<1>1. CallsOK(w)
  BY DEF GInv
<1>2. inner[w] # "open" /\ UNCHANGED <<manifest, e_tag, fragments, history, delayed>>
  BY <1>1 DEF MarkRecoveredFails, ReadFails, storage, CallsOK
<1>3. CASE MarkRecoveredFails(w)
  <2>1. PICK err \in MarkDirtyErrors : OpenFails(w, err)
    BY <1>3 DEF MarkRecoveredFails
  <2>2. Ends(w)
    BY <1>2, <2>1, OpenFailsEnds
  <2> QED BY <1>2, <2>2, WriterStep
<1>4. CASE ReadFails(w)
  <2>1. EnsureOpenErr(w, "error")
    BY <1>4 DEF ReadFails
  <2>2. Ends(w)
    BY <1>2, <2>1, EnsureOpenErrEnds
  <2> QED BY <1>2, <2>2, WriterStep
<1> QED BY <1>3, <1>4

(* A step that changes no writer and not the manifest.                     *)
LEMMA QuietStep ==
    ASSUME GInv, WriterDomains', \A v \in Writers : SameWriter(v),
           UNCHANGED <<manifest, e_tag, history>>, FilesOK', CollectionsOK',
           \A r \in delayed' : r \in delayed \/ RequestOK(history', e_tag', r)
    PROVE  GInv'
<1>1. Forward
  BY DEF Forward
<1>2. Heads(history', manifest')
  BY DEF GInv
<1> QED BY <1>1, <1>2, GInvStep

(* Nothing of a writer changes.                                            *)
LEMMA SameWriters ==
    ASSUME GInv, UNCHANGED <<pc, inner, handling, batch, staging, fragment, pulled>>
    PROVE  WriterDomains' /\ \A v \in Writers : SameWriter(v)
BY DEF GInv, WriterDomains, SameWriter, handling

(* Nothing but collections could change, and they do not.                  *)
LEMMA SameRest ==
    ASSUME GInv, UNCHANGED <<e_tag, history>>
    PROVE  /\ fragments' = fragments => FilesOK'
           /\ garbage' = garbage /\ collector' = collector => CollectionsOK'
<1>1. Forward
  BY DEF Forward
<1> QED BY <1>1, SameFiles, SameCollections

LEMMA InFlightG ==
    ASSUME GInv, NEW w \in Writers, NEW r \in InFlight(w)
    PROVE  RequestOK(history, e_tag, r)
<1>1. HoldsOK(w)
  BY DEF GInv
<1>2. CASE Uploading(w)
  <2>1. r.kind = "fragment" /\ r.fragment = fragment[w]
    BY <1>2 DEF InFlight
  <2>2. Placed(history, fragment[w])
    BY <1>1, <1>2 DEF HoldsOK, Uploading
  <2> QED BY <2>1, <2>2 DEF RequestOK
<1>3. CASE ~Uploading(w)
  <2>1. /\ pc[w] = "install" /\ r.kind = "manifest" /\ r.fragment = fragment[w]
        /\ r.e_tag = staging[w].e_tag /\ r.manifest = pulled[w].manifest
    BY <1>3 DEF InFlight
  <2>2. MayLink(history, e_tag, r.e_tag, r.manifest, r.fragment)
    BY <1>1, <2>1 DEF HoldsOK
  <2> QED BY <2>1, <2>2 DEF RequestOK
<1> QED BY <1>2, <1>3

LEMMA PutFragmentG ==
    ASSUME GInv, NEW f, Placed(history, f), PutFragment(f), history' = history
    PROVE  FilesOK'
<1>1. FilesOK
  BY DEF GInv
<1>2. ASSUME NEW n \in DOMAIN fragments'
      PROVE  fragments'[n].seq_no = n /\ Placed(history', fragments'[n])
  <2>1. CASE n = f.seq_no
    BY <1>2, <2>1 DEF PutFragment
  <2>2. CASE n # f.seq_no
    BY <1>1, <1>2, <2>2 DEF PutFragment, FilesOK
  <2> QED BY <2>1, <2>2
<1> QED BY <1>2 DEF FilesOK

LEMMA TakeWorkG ==
    ASSUME GInv, NEW w \in Writers, TakeWork(w), UNCHANGED gc_vars
    PROVE  GInv'
<1> DEFINE s == staging[w]
           b == batch[w]
           n == s.next_seq_no_to_assign
           limit == s.next_log_position + NumRecords[b]
           f == [seq_no |-> n, start |-> s.next_log_position, limit |-> limit,
                 setsum |-> FragmentSetsum(n, b), batch |-> b]
           t == Staging(s.manifest, s.e_tag, limit, n + 1, s.next_seq_no_to_apply)
<1>1. HoldsOK(w) /\ CallsOK(w) /\ WriterDomains /\ LogOK(history)
  BY DEF GInv
<1>2. /\ pc[w] = "ready" /\ pc' = [pc EXCEPT ![w] = "write"] /\ pc'[w] = "write"
      /\ fragment' = [fragment EXCEPT ![w] = f] /\ fragment'[w] = f
      /\ staging' = [staging EXCEPT ![w] = t] /\ staging'[w] = t
      /\ UNCHANGED <<manifest, e_tag, fragments, history, delayed>>
      /\ UNCHANGED <<goal, attempts, opens, batch, inner, pulled>>
  BY <1>1 DEF TakeWork, storage, handling, WriterDomains
<1>3. /\ MayStand(history, e_tag, s.e_tag, s.manifest) /\ Takable(history, e_tag, s)
      /\ s.e_tag = e_tag => s.next_seq_no_to_apply = Len(history) + 1
      /\ Shaped(s, pulled[w])
  BY <1>1, <1>2 DEF HoldsOK, Loaded, Resting
<1>4. b \in Batches
  BY <1>1, <1>2 DEF CallsOK
<1>5. NumRecords[b] \in Nat \ {0} /\ Weight[b] \in Int
  BY <1>4, BatchAssumption
<1>6. /\ n \in 1..(Len(history) + 1) /\ s.next_log_position = EndOf(history, n - 1)
      /\ Len(history) \in Nat
  BY <1>1, <1>3, LogEnds DEF Takable
<1>7. s.next_log_position \in Nat \ {0} /\ n \in Nat \ {0} /\ n <= Len(history) + 1
  <2>1. n - 1 \in 0..Len(history)
    BY <1>6
  <2> QED BY <1>1, <1>6, <2>1, LogEnds
<1>8. FragmentSetsum(n, b) \in Int
  BY <1>5, <1>7 DEF FragmentSetsum
<1>9. Placed(history, f)
  <2>1. /\ f.seq_no = n /\ f.start = s.next_log_position /\ f.limit = limit
        /\ f.setsum = FragmentSetsum(n, b) /\ f.batch = b
    OBVIOUS
  <2> HIDE DEF f
  <2> QED BY <1>4, <1>6, <1>7, <1>8, <2>1 DEF Placed, IsFragment, Follows
<1>10. /\ t.manifest = s.manifest /\ t.e_tag = s.e_tag /\ t.next_log_position = f.limit
       /\ t.next_seq_no_to_assign = f.seq_no + 1
       /\ t.next_seq_no_to_apply = s.next_seq_no_to_apply
       /\ Shaped(t, pulled[w])
  BY <1>3 DEF Staging, Shaped
<1> HIDE DEF f, t
<1>11. HoldsOK(w)'
  BY <1>2, <1>3, <1>9, <1>10 DEF HoldsOK, Loaded, Linking, Appending, Resting
<1>12. CallsOK(w)'
  BY <1>1, <1>2, <1>4 DEF CallsOK, Linking
<1>13. WriterDomains' /\ \A v \in Writers \ {w} : SameWriter(v)
  BY <1>1, <1>2 DEF WriterDomains, SameWriter
<1> QED BY <1>2, <1>11, <1>12, <1>13, WriterStep DEF Ends

LEMMA UploadParquetG ==
    ASSUME GInv, NEW w \in Writers, UploadParquet(w), UNCHANGED gc_vars
    PROVE  GInv'
<1>1. HoldsOK(w)
  BY DEF GInv
<1>2. /\ UNCHANGED <<manifest, e_tag, history, delayed>> /\ PutFragment(fragment[w])
      /\ UNCHANGED <<pc, inner, handling, batch, staging, fragment, pulled>>
  BY DEF UploadParquet
<1>3. Placed(history, fragment[w])
  BY <1>1 DEF HoldsOK, UploadParquet, Uploading
<1>4. FilesOK'
  BY <1>2, <1>3, PutFragmentG
<1>5. CollectionsOK'
  BY <1>2, SameRest DEF gc_vars
<1> QED BY <1>2, <1>4, <1>5, QuietStep, SameWriters

LEMMA WritingG ==
    ASSUME GInv, NEW w \in Writers, UNCHANGED gc_vars,
           UploadConflict(w) \/ UploadTimeout(w) \/ MarkDirty(w) \/ MarkDirtyFails(w)
    PROVE  GInv'
<1>1. /\ UNCHANGED <<manifest, e_tag, fragments, history>>
      /\ UNCHANGED <<pc, inner, handling, batch, staging, fragment, pulled>>
      /\ delayed' \in {delayed, delayed \cup InFlight(w)}
  BY DEF UploadConflict, UploadTimeout, MarkDirty, MarkDirtyFails, storage
<1>2. \A r \in delayed' : r \in delayed \/ RequestOK(history', e_tag', r)
  BY <1>1, InFlightG
<1>3. FilesOK' /\ CollectionsOK'
  BY <1>1, SameRest DEF gc_vars
<1> QED BY <1>1, <1>2, <1>3, QuietStep, SameWriters

LEMMA JoinUploadAndMarkG ==
    ASSUME GInv, NEW w \in Writers, JoinUploadAndMark(w), UNCHANGED gc_vars
    PROVE  GInv'
<1>1. HoldsOK(w) /\ CallsOK(w) /\ WriterDomains
  BY DEF GInv
<1>2. pc[w] = "write" /\ UNCHANGED <<manifest, e_tag, fragments, history, delayed>>
  BY DEF JoinUploadAndMark, storage
<1>3. batch[w] \in Batches
  BY <1>1, <1>2 DEF CallsOK
<1>4. CASE \E err : AppendFails(w, err)
  <2>1. Ends(w)
    BY <1>3, <1>4, AppendFailsEnds
  <2> QED BY <1>2, <2>1, WriterStep
<1>5. CASE /\ pc' = [pc EXCEPT ![w] = "publish"]
           /\ UNCHANGED <<inner, handling, batch, staging, working, result>>
  <2>1. /\ pc'[w] = "publish"
        /\ UNCHANGED <<goal, attempts, opens, batch, inner, staging, fragment, pulled>>
    BY <1>1, <1>5 DEF handling, working, WriterDomains
  <2>2. HoldsOK(w)'
    BY <1>1, <1>2, <2>1 DEF HoldsOK, Loaded, Linking, Appending, Resting
  <2>3. CallsOK(w)'
    BY <1>1, <1>3, <2>1 DEF CallsOK, Linking
  <2>4. Ends(w)
    BY <1>1, <1>5, <2>1, <2>2, <2>3, MovesEnds DEF WriterDomains
  <2> QED BY <1>2, <2>4, WriterStep
<1> QED BY <1>4, <1>5 DEF JoinUploadAndMark

(* What pull_work makes of a staged fragment and the manifest it holds.    *)
LEMMA PulledHeads ==
    ASSUME NEW log, LogOK(log), NEW m, Heads(log, m),
           NEW f, Placed(log, f), f.seq_no = Len(log) + 1,
           NEW applied, applied = apply_fragment(m, f),
           NEW rollup, rollup = generate_snapshot(applied),
           \A r \in rollup : snapshot_applies(applied, r),
           NEW p, p = IF rollup = {} THEN applied
                      ELSE apply_snapshot(applied, CHOOSE r \in rollup : TRUE)
    PROVE  Heads(Append(log, f), p)
<1> DEFINE more == Append(log, f)
<1>1. Heads(more, applied)
  BY HeadsAppend
<1>2. LogOK(more)
  BY LogGrows
<1>3. applied.fragments # <<>>
  <2>1. IsSeq(m.fragments)
    BY DEF Heads, Parts
  <2>2. Len(m.fragments) \in Nat
    BY <2>1, SeqIs
  <2>3. Len(Append(m.fragments, f)) = Len(m.fragments) + 1
    BY <2>1, AppendIs
  <2>4. applied.fragments = Append(m.fragments, f)
    BY DEF apply_fragment
  <2>5. Len(applied.fragments) # 0
    BY <2>2, <2>3, <2>4
  <2> QED BY <2>5
<1> HIDE DEF more
<1>4. CASE rollup = {}
  BY <1>1, <1>4 DEF more
<1>5. CASE rollup # {}
  <2> DEFINE r == CHOOSE x \in rollup : TRUE
  <2>1. r \in rollup
    BY <1>5
  <2>2. p = apply_snapshot(applied, r)
    BY <1>5
  <2> HIDE DEF r
  <2>3. r \in generate_snapshot(applied) /\ snapshot_applies(applied, r)
    BY <2>1
  <2> QED BY <1>1, <1>2, <1>3, <2>2, <2>3, HeadsSnapshot DEF more
<1> QED BY <1>4, <1>5

LEMMA PullWorkG ==
    ASSUME GInv, NEW w \in Writers, PullWork(w), UNCHANGED gc_vars
    PROVE  GInv'
<1> DEFINE s == staging[w]
           f == fragment[w]
           applied == apply_fragment(s.manifest, f)
           rollup == generate_snapshot(applied)
           p == IF rollup = {} THEN applied ELSE apply_snapshot(applied, CHOOSE r \in rollup : TRUE)
           t == Staging(s.manifest, s.e_tag, s.next_log_position,
                        s.next_seq_no_to_assign, s.next_seq_no_to_apply + 1)
           u == [manifest |-> p, snapshots |-> rollup]
           to == IF rollup = {} THEN "install" ELSE "snapshot"
<1>1. HoldsOK(w) /\ CallsOK(w) /\ WriterDomains /\ LogOK(history)
  BY DEF GInv
<1>2. /\ pc[w] = "publish" /\ f.seq_no = s.next_seq_no_to_apply
      /\ UNCHANGED <<manifest, e_tag, fragments, history, delayed>>
  BY DEF PullWork, storage
<1>3. Linking(w) /\ Loaded(w)
  BY <1>2 DEF Linking, Loaded
<1>4. CASE \A r \in rollup : snapshot_applies(applied, r)
  <2>1. /\ pulled' = [pulled EXCEPT ![w] = u] /\ staging' = [staging EXCEPT ![w] = t]
        /\ pc' = [pc EXCEPT ![w] = to]
        /\ UNCHANGED <<inner, handling, batch, fragment, upload, mark, result>>
    BY <1>4 DEF PullWork
  <2>2. /\ MayStand(history, e_tag, s.e_tag, s.manifest)
        /\ s.e_tag = e_tag => s.next_seq_no_to_apply = Len(history) + 1
        /\ Placed(history, f)
        /\ Appending(w) => s.next_log_position = f.limit /\ s.next_seq_no_to_assign = f.seq_no + 1
    BY <1>1, <1>2, <1>3 DEF HoldsOK
  <2>3. MayLink(history, e_tag, s.e_tag, p, f)
    <3>1. ASSUME s.e_tag = e_tag
          PROVE  f.seq_no = Len(history) + 1 /\ Heads(Append(history, f), p)
      <4>1. f.seq_no = Len(history) + 1 /\ Heads(history, s.manifest)
        BY <1>2, <2>2, <3>1 DEF MayStand
      <4> QED BY <1>1, <1>4, <2>2, <4>1, PulledHeads
    <3> HIDE DEF p
    <3> QED BY <2>2, <3>1 DEF MayLink, MayStand
  <2>4. /\ t.manifest = s.manifest /\ t.e_tag = s.e_tag
        /\ t.next_log_position = s.next_log_position
        /\ t.next_seq_no_to_assign = s.next_seq_no_to_assign
        /\ t.next_seq_no_to_apply = s.next_seq_no_to_apply + 1
        /\ u.manifest = p /\ Shaped(t, u)
    <3> HIDE DEF p, rollup
    <3> QED BY DEF Staging, Shaped
  <2>5. to \in {"install", "snapshot"}
    OBVIOUS
  <2> HIDE DEF t, u, to, p, rollup, applied
  <2>6. pulled'[w] = u /\ staging'[w] = t /\ pc'[w] = to
    BY <1>1, <2>1 DEF WriterDomains
  <2>7. UNCHANGED <<goal, attempts, opens, batch, inner, fragment>>
    BY <2>1 DEF handling
  <2>8. s.e_tag = e_tag => s.next_seq_no_to_apply + 1 = Len(history) + 2
    <3>1. Len(history) \in Nat
      BY <1>1, LogEnds
    <3> QED BY <2>2, <3>1
  <2>9. HoldsOK(w)'
    <3>1. pc'[w] \in {"install", "snapshot"}
      BY <2>5, <2>6
    <3>2. Appending(w)' => Appending(w)
      BY <1>3, <2>7, <3>1 DEF Appending, Linking
    <3> QED BY <1>2, <2>2, <2>3, <2>4, <2>6, <2>7, <2>8, <3>1, <3>2 DEF HoldsOK, Loaded, Linking, Resting
  <2>10. CallsOK(w)'
    <3>1. pc'[w] \in {"install", "snapshot"}
      BY <2>5, <2>6
    <3> QED BY <1>1, <1>3, <2>7, <3>1 DEF CallsOK, Linking
  <2>11. WriterDomains' /\ \A v \in Writers \ {w} : SameWriter(v)
    BY <1>1, <2>1, <2>7 DEF WriterDomains, SameWriter
  <2> QED BY <1>2, <2>9, <2>10, <2>11, WriterStep DEF Ends
<1>5. CASE ~\A r \in rollup : snapshot_applies(applied, r)
  <2>1. PublishFails(w, "error")
    BY <1>5 DEF PullWork
  <2>2. Ends(w)
    BY <1>3, <2>1, PublishFailsEnds
  <2> QED BY <1>2, <2>2, WriterStep
<1> QED BY <1>4, <1>5

LEMMA InstallSnapshotG ==
    ASSUME GInv, NEW w \in Writers, InstallSnapshot(w), UNCHANGED gc_vars
    PROVE  GInv'
<1>1. HoldsOK(w) /\ CallsOK(w) /\ WriterDomains
  BY DEF GInv
<1>2. /\ pc[w] = "snapshot" /\ pc' = [pc EXCEPT ![w] = "install"] /\ pc'[w] = "install"
      /\ UNCHANGED <<manifest, e_tag, fragments, history, delayed>>
      /\ UNCHANGED <<goal, attempts, opens, batch, staging, inner, fragment, pulled>>
  BY <1>1 DEF InstallSnapshot, handling, working, WriterDomains
<1>3. HoldsOK(w)'
  BY <1>1, <1>2 DEF HoldsOK, Loaded, Linking, Appending, Resting
<1>4. CallsOK(w)'
  BY <1>1, <1>2 DEF CallsOK, Linking
<1>5. Ends(w)
  BY <1>1, <1>2, <1>3, <1>4, MovesEnds DEF WriterDomains
<1> QED BY <1>2, <1>5, WriterStep

LEMMA LinkFailsG ==
    ASSUME GInv, NEW w \in Writers, UNCHANGED gc_vars,
           InstallSnapshotFails(w) \/ InstallConflict(w) \/ InstallTimeout(w)
    PROVE  GInv'
<1>1. /\ UNCHANGED <<manifest, e_tag, fragments, history>>
      /\ Linking(w) /\ \E err : PublishFails(w, err)
      /\ delayed' \in {delayed, delayed \cup InFlight(w)}
  BY DEF InstallSnapshotFails, InstallConflict, InstallTimeout, storage, Linking
<1>2. Ends(w)
  BY <1>1, PublishFailsEnds
<1>3. \A r \in delayed' : r \in delayed \/ RequestOK(history', e_tag', r)
  BY <1>1, InFlightG
<1> QED BY <1>1, <1>2, <1>3, WriterStep

(* A put of a manifest that links f.                                       *)
LEMMA PutManifestG ==
    ASSUME GInv, NEW tag, NEW m, NEW f, MayLink(history, e_tag, tag, m, f), PutManifest(tag, m, f)
    PROVE  /\ Forward /\ Heads(history', manifest') /\ manifest' = m
           /\ f.seq_no = Len(history) + 1 /\ Len(history') = Len(history) + 1
           /\ Len(history) \in Nat /\ EndOf(history', Len(history')) = f.limit
           /\ e_tag' \in Nat
<1>1. LogOK(history) /\ e_tag \in Nat
  BY DEF GInv
<1>2. /\ tag = e_tag /\ manifest' = m /\ e_tag' = e_tag + 1 /\ history' = Append(history, f)
  BY DEF PutManifest
<1>3. Placed(history, f) /\ f.seq_no = Len(history) + 1 /\ Heads(history', m)
  BY <1>2 DEF MayLink
<1>4. Forward
  BY <1>2, <1>3 DEF Forward
<1>5. /\ Len(history) \in Nat /\ Len(history') = Len(history) + 1
      /\ EndOf(history', Len(history')) = f.limit
  BY <1>1, <1>2, <1>3, LogGrows
<1> QED BY <1>1, <1>2, <1>3, <1>4, <1>5

LEMMA InstallManifestG ==
    ASSUME GInv, NEW w \in Writers, InstallManifest(w), UNCHANGED gc_vars
    PROVE  GInv'
<1> DEFINE s == staging[w]
           f == fragment[w]
           t == Staging(pulled[w].manifest, e_tag', s.next_log_position,
                        s.next_seq_no_to_assign, s.next_seq_no_to_apply)
<1>1. HoldsOK(w) /\ CallsOK(w) /\ WriterDomains
  BY DEF GInv
<1>2. /\ pc[w] = "install" /\ PutManifest(s.e_tag, pulled[w].manifest, f)
      /\ UNCHANGED <<fragments, snapshots, delayed, dirty>>
  BY DEF InstallManifest
<1>3. Linking(w)
  BY <1>2 DEF Linking
<1>4. /\ MayLink(history, e_tag, s.e_tag, pulled[w].manifest, f)
      /\ s.e_tag = e_tag => s.next_seq_no_to_apply = Len(history) + 2
      /\ Appending(w) => s.next_log_position = f.limit /\ s.next_seq_no_to_assign = f.seq_no + 1
  BY <1>1, <1>2 DEF HoldsOK
<1>5. /\ Forward /\ Heads(history', manifest') /\ manifest' = pulled[w].manifest
      /\ f.seq_no = Len(history) + 1 /\ Len(history') = Len(history) + 1
      /\ Len(history) \in Nat /\ EndOf(history', Len(history')) = f.limit
      /\ e_tag' \in Nat
  BY <1>2, <1>4, PutManifestG
<1>6. FilesOK' /\ CollectionsOK'
  BY <1>2, <1>5, SameFiles, SameCollections DEF gc_vars
<1>7. CASE Ends(w)
  BY <1>2, <1>5, <1>6, <1>7, GInvStep DEF Ends
<1>8. CASE UNCHANGED <<pc, inner, handling, batch, staging, working, result>>
  <2>1. WriterDomains' /\ \A v \in Writers : SameWriter(v)
    BY <1>8, SameWriters DEF working
  <2> QED BY <1>2, <1>5, <1>6, <2>1, GInvStep
<1>9. CASE PublishOk(w)
  <2>1. CASE inner[w] = "open"
    <3>1. Idle(w, "open", t)
      BY <1>9, <2>1 DEF PublishOk, Return
    <3>2. /\ t.manifest = manifest' /\ t.e_tag = e_tag' /\ t.next_log_position = f.limit
          /\ t.next_seq_no_to_assign = f.seq_no + 1
          /\ t.next_seq_no_to_apply = s.next_seq_no_to_apply
          /\ Shaped(t, NothingPulled)
      BY <1>3, <1>4, <1>5, <2>1 DEF Staging, Shaped, Appending, NothingPulled
    <3> HIDE DEF t
    <3>3. s.e_tag = e_tag
      BY <1>2 DEF PutManifest
    <3>4. MayStand(history', e_tag', t.e_tag, t.manifest)
      BY <1>5, <3>2 DEF MayStand
    <3>5. Takable(history', e_tag', t)
      <4>1. /\ t.next_seq_no_to_assign = Len(history') + 1
            /\ t.next_seq_no_to_assign \in 1..(Len(history') + 1)
            /\ t.next_seq_no_to_assign - 1 = Len(history')
        BY <1>5, <3>2
      <4> QED BY <1>5, <3>2, <4>1 DEF Takable
    <3>6. t.next_seq_no_to_apply = Len(history') + 1
      BY <1>4, <1>5, <3>2, <3>3
    <3>7. Ends(w)
      BY <3>1, <3>2, <3>4, <3>5, <3>6, IdleEnds
    <3> QED BY <1>7, <3>7
  <2>2. CASE inner[w] # "open"
    <3>1. Ends(w)
      BY <1>9, <2>2, OpenFailsEnds DEF PublishOk
    <3> QED BY <1>7, <3>1
  <2> QED BY <2>1, <2>2
<1>10. CASE PublishFails(w, "failure")
  BY <1>3, <1>7, <1>10, PublishFailsEnds
<1> QED BY <1>8, <1>9, <1>10 DEF InstallManifest

LEMMA CrashG ==
    ASSUME GInv, NEW w \in Writers, Crash(w), UNCHANGED gc_vars
    PROVE  GInv'
<1>1. /\ UNCHANGED <<manifest, e_tag, fragments, history>>
      /\ Idle(w, "none", NoStaging)
      /\ delayed' \in {delayed, delayed \cup InFlight(w)}
  BY DEF Crash, Return
<1>2. Ends(w)
  BY <1>1, ClosedEnds
<1>3. \A r \in delayed' : r \in delayed \/ RequestOK(history', e_tag', r)
  BY <1>1, InFlightG
<1> QED BY <1>1, <1>2, <1>3, WriterStep

LEMMA DelayedFragmentG ==
    ASSUME GInv, NEW r \in delayed, DelayedFragment(r), UNCHANGED gc_vars
    PROVE  GInv'
<1>1. /\ UNCHANGED <<manifest, e_tag, history>> /\ delayed' \subseteq delayed
      /\ UNCHANGED <<pc, inner, handling, batch, staging, fragment, pulled>>
      /\ PutFragment(r.fragment) \/ fragments' = fragments
      /\ r.kind = "fragment"
  BY DEF DelayedFragment, working
<1>2. Placed(history, r.fragment)
  BY <1>1 DEF GInv, RequestOK
<1>3. FilesOK'
  BY <1>1, <1>2, PutFragmentG, SameRest
<1>4. CollectionsOK'
  BY <1>1, SameRest DEF gc_vars
<1> QED BY <1>1, <1>3, <1>4, QuietStep, SameWriters

LEMMA DelayedManifestG ==
    ASSUME GInv, NEW r \in delayed, DelayedManifest(r), UNCHANGED gc_vars
    PROVE  GInv'
<1>1. /\ delayed' \subseteq delayed /\ fragments' = fragments /\ r.kind = "manifest"
      /\ UNCHANGED <<pc, inner, handling, batch, staging, fragment, pulled>>
      /\ \/ PutManifest(r.e_tag, r.manifest, r.fragment)
         \/ UNCHANGED <<manifest, e_tag, history>>
  BY DEF DelayedManifest, working
<1>2. MayLink(history, e_tag, r.e_tag, r.manifest, r.fragment)
  BY <1>1 DEF GInv, RequestOK
<1>3. WriterDomains' /\ \A v \in Writers : SameWriter(v)
  BY <1>1, SameWriters
<1>4. CASE PutManifest(r.e_tag, r.manifest, r.fragment)
  <2>1. Forward /\ Heads(history', manifest')
    BY <1>2, <1>4, PutManifestG
  <2>2. FilesOK' /\ CollectionsOK'
    BY <1>1, <2>1, SameFiles, SameCollections DEF gc_vars
  <2> QED BY <1>1, <1>3, <2>1, <2>2, GInvStep
<1>5. CASE UNCHANGED <<manifest, e_tag, history>>
  <2>1. FilesOK' /\ CollectionsOK'
    BY <1>1, <1>5, SameRest DEF gc_vars
  <2> QED BY <1>1, <1>3, <1>5, <2>1, QuietStep
<1> QED BY <1>1, <1>4, <1>5

LEMMA AppendStepG ==
    ASSUME GInv, AppendStep
    PROVE  GInv'
<1>1. UNCHANGED gc_vars
  BY DEF AppendStep
<1>2. ASSUME NEW w \in Writers, Step(w)
      PROVE  GInv'
  BY <1>1, <1>2, LoadManifestG, NothingToRecoverG, ReadFragmentG, MarkRecoveredG, OpenFailsG,
     TakeWorkG, UploadParquetG, WritingG, JoinUploadAndMarkG, PullWorkG, InstallSnapshotG,
     LinkFailsG, InstallManifestG DEF Step
<1> QED BY <1>1, <1>2, OpenG, AppendManyG, CrashG, DelayedFragmentG, DelayedManifestG DEF AppendStep

-----------------------------------------------------------------------------
(* The steps of collecting.                                                *)

(* A step of c: it goes to a place where its garbage does not matter, or   *)
(* has garbage that names a run.                                           *)
LEMMA CollectorStep ==
    ASSUME GInv, history' = history, NEW c \in Collectors,
           DOMAIN collector' = Collectors, \A d \in Collectors \ {c} : collector'[d] = collector[d],
           {"pc", "garbage"} \subseteq DOMAIN collector'[c],
           collector'[c].pc \in {"make", "put"} => GarbageOK(history, collector'[c].garbage),
           GarbageOK(history, garbage')
    PROVE  CollectionsOK'
BY DEF GInv, CollectionsOK

LEMMA StopIs ==
    ASSUME GInv, NEW c \in Collectors, Stop(c)
    PROVE  /\ DOMAIN collector' = Collectors /\ \A d \in Collectors \ {c} : collector'[d] = collector[d]
           /\ {"pc", "garbage"} \subseteq DOMAIN collector'[c]
           /\ collector'[c].pc = "idle"
BY DEF GInv, CollectionsOK, Stop, NoCollection

LEMMA GoesTo ==
    ASSUME GInv, NEW c \in Collectors, NEW to, collector' = [collector EXCEPT ![c].pc = to]
    PROVE  /\ DOMAIN collector' = Collectors /\ \A d \in Collectors \ {c} : collector'[d] = collector[d]
           /\ {"pc", "garbage"} \subseteq DOMAIN collector'[c]
           /\ collector'[c].pc = to /\ collector'[c].garbage = collector[c].garbage
BY DEF GInv, CollectionsOK

LEMMA RetryIs ==
    ASSUME GInv, NEW c \in Collectors, Retry(c)
    PROVE  /\ DOMAIN collector' = Collectors /\ \A d \in Collectors \ {c} : collector'[d] = collector[d]
           /\ {"pc", "garbage"} \subseteq DOMAIN collector'[c]
           /\ collector'[c].pc \notin {"make", "put"}
<1>1. CASE Stop(c)
  BY <1>1, StopIs
<1>2. CASE collector' = [collector EXCEPT ![c].pc = "load", ![c].tries = @ + 1]
  BY <1>2 DEF GInv, CollectionsOK
<1> QED BY <1>1, <1>2 DEF Retry

(* A step of a collector that leaves the log alone.                        *)
LEMMA CollectorQuiet ==
    ASSUME GInv, UNCHANGED <<manifest, e_tag, history, delayed, fragments>>,
           UNCHANGED <<pc, inner, handling, batch, staging, fragment, pulled>>,
           CollectionsOK'
    PROVE  GInv'
BY QuietStep, SameWriters, SameRest

LEMMA GarbageHeld ==
    ASSUME GInv
    PROVE  /\ GarbageOK(history, garbage) /\ GarbageOK(history, EmptyGarbage)
           /\ \A c \in Collectors :
                 collector[c].pc \in {"make", "put"} => GarbageOK(history, collector[c].garbage)
BY DEF GInv, CollectionsOK, GarbageOK

(* The steps that change a collector and gc/GARBAGE only.                  *)
LEMMA CollectorG ==
    ASSUME GInv, NEW c \in Collectors,
           UNCHANGED <<manifest, e_tag, history, delayed, fragments>>,
           UNCHANGED <<pc, inner, handling, batch, staging, fragment, pulled>>,
           \/ garbage' = garbage
           \/ garbage' = EmptyGarbage
           \/ Stands(c, "put") /\ garbage' = collector[c].garbage,
           DOMAIN collector' = Collectors, \A d \in Collectors \ {c} : collector'[d] = collector[d],
           {"pc", "garbage"} \subseteq DOMAIN collector'[c],
           collector'[c].pc \in {"make", "put"} => GarbageOK(history, collector'[c].garbage)
    PROVE  GInv'
<1>1. GarbageOK(history, garbage')
  BY GarbageHeld DEF Stands
<1>2. CollectionsOK'
  BY <1>1, CollectorStep
<1> QED BY <1>2, CollectorQuiet

LEMMA Phase1G ==
    ASSUME GInv, NEW c \in Collectors,
           \/ OpenCollector(c) \/ Cutoff(c) \/ LoadGarbage(c) \/ ResetStale(c)
           \/ RequestPhase2(c) \/ LoadGarbageToDelete(c) \/ ResetDone(c)
    PROVE  GInv'
<1>1. /\ UNCHANGED <<manifest, e_tag, history, delayed, fragments>>
      /\ UNCHANGED <<pc, inner, handling, batch, staging, fragment, pulled>>
  BY DEF OpenCollector, Cutoff, LoadGarbage, ResetStale, RequestPhase2, LoadGarbageToDelete,
         ResetDone, vars, storage, working
<1>2. garbage' = garbage \/ garbage' = EmptyGarbage
  BY DEF OpenCollector, Cutoff, LoadGarbage, ResetStale, RequestPhase2, LoadGarbageToDelete,
         ResetDone, PutGarbage
<1>3. DOMAIN collector = Collectors /\ {"pc", "garbage"} \subseteq DOMAIN collector[c]
  BY DEF GInv, CollectionsOK
<1>4. /\ DOMAIN collector' = Collectors /\ \A d \in Collectors \ {c} : collector'[d] = collector[d]
      /\ {"pc", "garbage"} \subseteq DOMAIN collector'[c]
      /\ collector'[c].pc \notin {"make", "put"}
  <2>1. CASE OpenCollector(c)
    BY <1>3, <2>1 DEF OpenCollector, NoCollection
  <2>2. CASE Cutoff(c)
    <3>1. CASE Stop(c)
      BY <3>1, StopIs
    <3>2. CASE \E cutoff \in 1..cursor :
                  collector' = [collector EXCEPT ![c].cutoff = cutoff,
                                                 ![c].tries = 1, ![c].pc = "load"]
      BY <1>3, <3>2
    <3> QED BY <2>2, <3>1, <3>2 DEF Cutoff
  <2>3. CASE LoadGarbage(c)
    <3>1. PICK to \in {"compute", "request", "reset"} :
             collector' = [collector EXCEPT ![c].garbage = garbage,
                                            ![c].e_tag = garbage_e_tag, ![c].pc = to]
      BY <2>3 DEF LoadGarbage
    <3> QED BY <1>3, <3>1
  <2>4. CASE ResetStale(c)
    BY <2>4, RetryIs DEF ResetStale
  <2>5. CASE RequestPhase2(c)
    BY <2>5, GoesTo DEF RequestPhase2
  <2>6. CASE LoadGarbageToDelete(c)
    <3>1. CASE Stop(c)
      BY <3>1, StopIs
    <3>2. CASE collector' = [collector EXCEPT ![c].garbage = garbage,
                                ![c].e_tag = garbage_e_tag, ![c].pc = "delete"]
      BY <1>3, <3>2
    <3> QED BY <2>6, <3>1, <3>2 DEF LoadGarbageToDelete
  <2>7. CASE ResetDone(c)
    BY <2>7, StopIs DEF ResetDone
  <2> QED BY <2>1, <2>2, <2>3, <2>4, <2>5, <2>6, <2>7
<1> QED BY <1>1, <1>2, <1>4, CollectorG

LEMMA ComputeGarbageG ==
    ASSUME GInv, ComputesRuns, NEW c \in Collectors, ComputeGarbage(c)
    PROVE  GInv'
<1> DEFINE computed == garbage_new(snapshots, collector[c].manifest, collector[c].cutoff)
<1>1. /\ UNCHANGED <<manifest, e_tag, history, delayed, fragments>>
      /\ UNCHANGED <<pc, inner, handling, batch, staging, fragment, pulled>>
      /\ garbage' = garbage /\ Stands(c, "compute")
  BY DEF ComputeGarbage, vars, storage, working
<1>2. DOMAIN collector = Collectors /\ {"pc", "garbage"} \subseteq DOMAIN collector[c]
  BY DEF GInv, CollectionsOK
<1>3. computed.kind = "ok" => Cuts(history, computed.garbage)
  BY <1>1 DEF ComputesRuns
<1>4. CASE computed.kind = "ok"
  <2>1. collector' = [collector EXCEPT ![c].garbage = computed.garbage, ![c].pc = "make"]
    BY <1>4 DEF ComputeGarbage
  <2> HIDE DEF computed
  <2>2. /\ DOMAIN collector' = Collectors /\ \A d \in Collectors \ {c} : collector'[d] = collector[d]
        /\ {"pc", "garbage"} \subseteq DOMAIN collector'[c]
        /\ collector'[c].garbage = computed.garbage
    BY <1>2, <2>1
  <2>3. GarbageOK(history, collector'[c].garbage)
    BY <1>3, <1>4, <2>2 DEF GarbageOK
  <2> QED BY <1>1, <2>2, <2>3, CollectorG
<1>5. CASE computed.kind # "ok"
  <2>1. Stop(c)
    BY <1>5 DEF ComputeGarbage
  <2> HIDE DEF computed
  <2> QED BY <1>1, <2>1, StopIs, CollectorG
<1> QED BY <1>4, <1>5

LEMMA InstallsG ==
    ASSUME GInv, NEW c \in Collectors, MakeSnapshots(c) \/ InstallGarbage(c)
    PROVE  GInv'
<1>1. /\ UNCHANGED <<manifest, e_tag, history, delayed, fragments>>
      /\ UNCHANGED <<pc, inner, handling, batch, staging, fragment, pulled>>
  BY DEF MakeSnapshots, InstallGarbage, vars, storage, working
<1>2. CASE MakeSnapshots(c)
  <2>1. /\ collector' = [collector EXCEPT ![c].pc = "put"] /\ garbage' = garbage
        /\ collector[c].pc = "make"
    BY <1>2 DEF MakeSnapshots, Stands
  <2>2. GarbageOK(history, collector[c].garbage)
    BY <2>1, GarbageHeld
  <2> QED BY <1>1, <2>1, <2>2, GoesTo, CollectorG
<1>3. CASE /\ PutGarbage(c, collector[c].garbage) /\ Stands(c, "put")
           /\ collector' = [collector EXCEPT ![c].pc = "request"]
  <2>1. garbage' = collector[c].garbage
    BY <1>3 DEF PutGarbage
  <2> QED BY <1>1, <1>3, <2>1, GoesTo, CollectorG
<1>4. CASE Retry(c) /\ garbage' = garbage
  BY <1>1, <1>4, RetryIs, CollectorG
<1> QED BY <1>2, <1>3, <1>4 DEF InstallGarbage

LEMMA DeleteGarbageG ==
    ASSUME GInv, NEW c \in Collectors, DeleteGarbage(c)
    PROVE  GInv'
<1>1. /\ UNCHANGED <<manifest, e_tag, history, delayed>> /\ garbage' = garbage
      /\ UNCHANGED <<pc, inner, handling, batch, staging, fragment, pulled>>
      /\ \E names, seq_nos : DeleteFiles(names, seq_nos)
      /\ Stop(c) \/ collector' = [collector EXCEPT ![c].pc = "done"]
  BY DEF DeleteGarbage, working
<1>2. FilesOK
  BY DEF GInv
<1>3. FilesOK'
  BY <1>1, <1>2 DEF FilesOK, DeleteFiles
<1>4. /\ DOMAIN collector' = Collectors /\ \A d \in Collectors \ {c} : collector'[d] = collector[d]
      /\ {"pc", "garbage"} \subseteq DOMAIN collector'[c]
      /\ collector'[c].pc \notin {"make", "put"}
  BY <1>1, StopIs, GoesTo
<1>5. CollectionsOK'
  BY <1>1, <1>4, CollectorStep, GarbageHeld
<1> QED BY <1>1, <1>3, <1>5, QuietStep, SameWriters

LEMMA CollectorFailsG ==
    ASSUME GInv, NEW c \in Collectors, CollectorFails(c)
    PROVE  GInv'
<1>1. /\ UNCHANGED <<manifest, e_tag, history, delayed, fragments>> /\ Stop(c)
      /\ UNCHANGED <<pc, inner, handling, batch, staging, fragment, pulled>>
      /\ \/ garbage' = garbage
         \/ garbage' = EmptyGarbage
         \/ Stands(c, "put") /\ garbage' = collector[c].garbage
  BY DEF CollectorFails, PutGarbage, storage, working
<1> QED BY <1>1, StopIs, CollectorG

LEMMA CollectG ==
    ASSUME GInv, ComputesRuns, NEW c \in Collectors, Collect(c)
    PROVE  GInv'
BY Phase1G, ComputeGarbageG, InstallsG, DeleteGarbageG DEF Collect

(* The answer to a request moves the collector that waits for it, out of   *)
(* phase 2.                                                                *)
LEMMA ReplyG ==
    ASSUME GInv, Forward, NEW r, NEW ok, Reply(r, ok), garbage' = garbage
    PROVE  CollectionsOK'
<1> DEFINE c == r.from
<1>1. CASE collector' = collector
  BY <1>1, SameCollections
<1>2. CASE collector' # collector
  <2>1. Stop(c) \/ collector' = [collector EXCEPT ![c].pc = "phase 3"]
    BY <1>2 DEF Reply
  <2>2. DOMAIN collector = Collectors /\ CollectionsOK
    BY DEF GInv, CollectionsOK
  <2>3. \A g : GarbageOK(history, g) => GarbageOK(history', g)
    BY ForwardKeeps
  <2>4. CASE c \notin Collectors
    <3>1. DOMAIN collector' = Collectors /\ \A d \in Collectors : collector'[d] = collector[d]
      BY <2>1, <2>2, <2>4 DEF Stop
    <3> QED BY <2>2, <2>3, <3>1 DEF CollectionsOK
  <2>5. CASE c \in Collectors
    <3>1. /\ DOMAIN collector' = Collectors /\ \A d \in Collectors \ {c} : collector'[d] = collector[d]
          /\ {"pc", "garbage"} \subseteq DOMAIN collector'[c]
          /\ collector'[c].pc \notin {"make", "put"}
      <4>1. CASE Stop(c)
        <5> HIDE DEF c
        <5> QED BY <2>5, <4>1, StopIs
      <4>2. CASE collector' = [collector EXCEPT ![c].pc = "phase 3"]
        <5> HIDE DEF c
        <5> QED BY <2>5, <4>2, GoesTo
      <4> QED BY <2>1, <4>1, <4>2
    <3> QED BY <2>2, <2>3, <3>1 DEF CollectionsOK
  <2> QED BY <2>4, <2>5
<1> QED BY <1>1, <1>2

LEMMA ServePhase2G ==
    ASSUME GInv, NEW w \in Writers, ServePhase2(w)
    PROVE  GInv'
<1> DEFINE s == staging[w]
           applied == apply_garbage(s.manifest, garbage)
           kind == IF is_empty(garbage) THEN "none" ELSE applied.kind
<1>1. HoldsOK(w) /\ CallsOK(w) /\ WriterDomains /\ LogOK(history)
  BY DEF GInv
<1>2. /\ pc[w] = "idle" /\ inner[w] = "open" /\ garbage' = garbage
      /\ UNCHANGED <<manifest, e_tag, fragments, history, delayed>>
  BY DEF ServePhase2, storage
<1>3. Forward /\ FilesOK' /\ Heads(history', manifest')
  BY <1>2, SameRest DEF Forward, GInv
<1>4. PICK r \in requests :
         \/ /\ Reply(r, TRUE)
            /\ UNCHANGED <<pc, inner, handling, batch, staging, working>>
         \/ /\ Reply(r, FALSE)
            /\ Idle(w, "closed", NoStaging)
         \/ /\ kind = "ok"
            /\ pc' = [pc EXCEPT ![w] = "collect"]
            /\ pulled' = [pulled EXCEPT ![w].manifest = applied.manifest]
            /\ UNCHANGED <<inner, handling, batch, staging, fragment, collector>>
  BY DEF ServePhase2
<1>5. CASE /\ Reply(r, TRUE)
           /\ UNCHANGED <<pc, inner, handling, batch, staging, working>>
  <2>1. CollectionsOK'
    BY <1>2, <1>3, <1>5, ReplyG
  <2> QED BY <1>2, <1>3, <1>5, <2>1, QuietStep, SameWriters DEF working
<1>6. CASE /\ Reply(r, FALSE)
           /\ Idle(w, "closed", NoStaging)
  <2>1. CollectionsOK'
    BY <1>2, <1>3, <1>6, ReplyG
  <2>2. Ends(w)
    BY <1>6, ClosedEnds
  <2> QED BY <1>2, <1>3, <2>1, <2>2, GInvStep DEF Ends
<1>7. CASE /\ kind = "ok"
           /\ pc' = [pc EXCEPT ![w] = "collect"]
           /\ pulled' = [pulled EXCEPT ![w].manifest = applied.manifest]
           /\ UNCHANGED <<inner, handling, batch, staging, fragment, collector>>
  <2>1. /\ MayStand(history, e_tag, s.e_tag, s.manifest) /\ Takable(history, e_tag, s)
        /\ s.e_tag = e_tag => s.next_seq_no_to_apply = Len(history) + 1
        /\ Shaped(s, pulled[w])
    BY <1>1, <1>2 DEF HoldsOK, Loaded, Resting
  <2>2. ~is_empty(garbage) /\ applied.kind = "ok"
    BY <1>7
  <2>3. Cuts(history, garbage)
    BY <2>2, GarbageHeld DEF GarbageOK, is_empty
  <2>4. MayStand(history, e_tag, s.e_tag, applied.manifest)
    <3>1. Heads(history, s.manifest) => Heads(history, applied.manifest)
      BY <1>1, <2>2, <2>3, HeadsGarbage
    <3> HIDE DEF applied
    <3> QED BY <2>1, <3>1 DEF MayStand
  <2> HIDE DEF applied, kind
  <2>5. /\ pc'[w] = "collect" /\ pulled'[w].manifest = applied.manifest
        /\ DOMAIN pulled'[w] = DOMAIN pulled[w] /\ DOMAIN pulled' = Writers
        /\ \A v \in Writers \ {w} : pulled'[v] = pulled[v] /\ pc'[v] = pc[v]
    BY <1>1, <1>7, <2>1 DEF WriterDomains, Shaped
  <2>6. UNCHANGED <<goal, attempts, opens, batch, inner, staging, fragment>>
    BY <1>7 DEF handling
  <2>7. HoldsOK(w)'
    BY <1>2, <2>1, <2>4, <2>5, <2>6 DEF HoldsOK, Loaded, Linking, Appending, Resting, Shaped
  <2>8. CallsOK(w)'
    BY <1>1, <2>5, <2>6 DEF CallsOK, Linking
  <2>9. WriterDomains' /\ \A v \in Writers \ {w} : SameWriter(v)
    BY <1>1, <1>7, <2>5, <2>6 DEF WriterDomains, SameWriter
  <2>10. CollectionsOK'
    BY <1>2, <1>3, <1>7, SameCollections
  <2> QED BY <1>2, <1>3, <2>7, <2>8, <2>9, <2>10, GInvStep
<1> QED BY <1>4, <1>5, <1>6, <1>7

(* A put of a manifest without garbage.                                    *)
LEMMA PutCollectedG ==
    ASSUME GInv, NEW tag, NEW m, MayStand(history, e_tag, tag, m), PutCollected(tag, m),
           history' = history
    PROVE  /\ Forward /\ Heads(history', manifest') /\ manifest' = m
           /\ e_tag' \in Nat /\ tag = e_tag
BY DEF GInv, PutCollected, MayStand, Forward

LEMMA InstallCollectedG ==
    ASSUME GInv, NEW w \in Writers, InstallCollected(w)
    PROVE  GInv'
<1> DEFINE s == staging[w]
           t == [staging[w] EXCEPT !.manifest = manifest', !.e_tag = e_tag']
<1>1. HoldsOK(w) /\ CallsOK(w) /\ WriterDomains
  BY DEF GInv
<1>2. /\ pc[w] = "collect" /\ PutCollected(s.e_tag, pulled[w].manifest)
      /\ UNCHANGED <<fragments, delayed, history, garbage>>
  BY DEF InstallCollected
<1>3. /\ MayStand(history, e_tag, s.e_tag, pulled[w].manifest) /\ Takable(history, e_tag, s)
      /\ s.e_tag = e_tag => s.next_seq_no_to_apply = Len(history) + 1
      /\ Shaped(s, pulled[w])
  BY <1>1, <1>2 DEF HoldsOK, Loaded, Resting
<1>4. /\ Forward /\ Heads(history', manifest') /\ manifest' = pulled[w].manifest
      /\ e_tag' \in Nat /\ s.e_tag = e_tag
  BY <1>2, <1>3, PutCollectedG
<1>5. FilesOK'
  BY <1>2, <1>4, SameFiles
<1>6. ASSUME NEW ok, Answer(w, ok)
      PROVE  CollectionsOK'
  <2>1. PICK r \in serving[w] : Reply(r, ok)
    BY <1>6 DEF Answer
  <2> QED BY <1>2, <1>4, <2>1, ReplyG
<1>7. CASE Idle(w, "open", t) /\ Answer(w, TRUE)
  <2>1. /\ t.manifest = manifest' /\ t.e_tag = e_tag' /\ Shaped(t, NothingPulled)
        /\ t.next_log_position = s.next_log_position
        /\ t.next_seq_no_to_assign = s.next_seq_no_to_assign
        /\ t.next_seq_no_to_apply = s.next_seq_no_to_apply
    BY <1>3 DEF Shaped, NothingPulled
  <2> HIDE DEF t
  <2>2. MayStand(history', e_tag', t.e_tag, t.manifest)
    BY <1>4, <2>1 DEF MayStand
  <2>3. Takable(history', e_tag', t) /\ t.next_seq_no_to_apply = Len(history') + 1
    BY <1>2, <1>3, <1>4, <2>1 DEF Takable
  <2>4. Ends(w)
    BY <1>7, <2>1, <2>2, <2>3, IdleEnds
  <2>5. CollectionsOK'
    BY <1>6, <1>7
  <2> QED BY <1>2, <1>4, <1>5, <2>4, <2>5, GInvStep DEF Ends
<1>8. CASE Idle(w, "closed", NoStaging) /\ Answer(w, FALSE)
  <2>1. Ends(w)
    BY <1>8, ClosedEnds
  <2>2. CollectionsOK'
    BY <1>6, <1>8
  <2> QED BY <1>2, <1>4, <1>5, <2>1, <2>2, GInvStep DEF Ends
<1>9. CASE UNCHANGED <<pc, inner, handling, batch, staging, working, collector, serving>>
  <2>1. WriterDomains' /\ \A v \in Writers : SameWriter(v)
    BY <1>9, SameWriters DEF working
  <2>2. CollectionsOK'
    BY <1>2, <1>4, <1>9, SameCollections
  <2> QED BY <1>2, <1>4, <1>5, <2>1, <2>2, GInvStep
<1> QED BY <1>7, <1>8, <1>9 DEF InstallCollected

LEMMA CollectFailsG ==
    ASSUME GInv, NEW w \in Writers, CollectConflict(w) \/ CrashInPhase2(w)
    PROVE  GInv'
<1> DEFINE x == CollectedInFlight(w)
<1>1. HoldsOK(w)
  BY DEF GInv
<1>2. /\ pc[w] = "collect" /\ UNCHANGED <<manifest, e_tag, fragments, history, garbage>>
      /\ delayed' \in {delayed, delayed \cup {x}}
      /\ \E ok : Answer(w, ok)
      /\ Reopen(w, "open", 0, 1) \/ Idle(w, "none", NoStaging)
  BY DEF CollectConflict, CrashInPhase2
<1>3. RequestOK(history, e_tag, x)
  <2>1. MayStand(history, e_tag, staging[w].e_tag, pulled[w].manifest)
    BY <1>1, <1>2 DEF HoldsOK
  <2>2. x.kind = "collected" /\ x.e_tag = staging[w].e_tag /\ x.manifest = pulled[w].manifest
    BY DEF CollectedInFlight
  <2> HIDE DEF x
  <2> QED BY <2>1, <2>2 DEF RequestOK
<1> HIDE DEF x
<1>4. \A r \in delayed' : r \in delayed \/ RequestOK(history', e_tag', r)
  BY <1>2, <1>3
<1>5. Ends(w)
  BY <1>2, ReopenEnds, ClosedEnds
<1>6. Forward /\ FilesOK' /\ Heads(history', manifest')
  BY <1>2, SameRest DEF Forward, GInv
<1>7. CollectionsOK'
  <2>1. PICK r \in serving[w] : \E ok : Reply(r, ok)
    BY <1>2 DEF Answer
  <2> QED BY <1>2, <1>6, <2>1, ReplyG
<1> QED BY <1>4, <1>5, <1>6, <1>7, GInvStep DEF Ends

LEMMA DelayedCollectedG ==
    ASSUME GInv, NEW r \in delayed, DelayedCollected(r)
    PROVE  GInv'
<1>1. /\ delayed' \subseteq delayed /\ fragments' = fragments /\ r.kind = "collected"
      /\ UNCHANGED <<pc, inner, handling, batch, staging, fragment, pulled>>
      /\ UNCHANGED <<history, garbage, collector>>
      /\ PutCollected(r.e_tag, r.manifest) \/ UNCHANGED <<manifest, e_tag>>
  BY DEF DelayedCollected, working, gc_vars
<1>2. MayStand(history, e_tag, r.e_tag, r.manifest)
  BY <1>1 DEF GInv, RequestOK
<1>3. Forward /\ Heads(history', manifest')
  <2>1. CASE PutCollected(r.e_tag, r.manifest)
    BY <1>1, <1>2, <2>1, PutCollectedG
  <2>2. CASE UNCHANGED <<manifest, e_tag>>
    BY <1>1, <2>2 DEF Forward, GInv
  <2> QED BY <1>1, <2>1, <2>2
<1>4. WriterDomains' /\ \A v \in Writers : SameWriter(v)
  BY <1>1, SameWriters
<1>5. FilesOK' /\ CollectionsOK'
  BY <1>1, <1>3, SameFiles, SameCollections
<1> QED BY <1>1, <1>3, <1>4, <1>5, GInvStep

LEMMA StillG ==
    ASSUME GInv, UNCHANGED vars, UNCHANGED <<garbage, collector>>
    PROVE  GInv'
<1>1. /\ UNCHANGED <<manifest, e_tag, history, delayed, fragments>>
      /\ UNCHANGED <<pc, inner, handling, batch, staging, fragment, pulled>>
  BY DEF vars, storage, working
<1> QED BY <1>1, SameRest, CollectorQuiet

LEMMA GCNextKeeps ==
    ASSUME GInv, ComputesRuns, [GCNext]_all_vars
    PROVE  GInv'
<1>1. CASE UNCHANGED all_vars
  BY <1>1, StillG DEF all_vars, gc_vars
<1>2. ASSUME NEW position, UpdateCursor(position)
      PROVE  GInv'
  BY <1>2, StillG DEF UpdateCursor
<1> QED BY <1>1, <1>2, AppendStepG, CollectG, CollectorFailsG, ServePhase2G, InstallCollectedG,
           CollectFailsG, DelayedCollectedG DEF GCNext, GCFinished

LEMMA SumOfNothing == Setsums(<<>>) = 0
<1> DEFINE q == <<>>
           P == [i \in 0..0 |-> 0]
<1>1. Len(q) = 0
  OBVIOUS
<1>2. P \in [0..Len(q) -> Int] /\ P[0] = 0
  BY <1>1
<1>3. \A i \in 1..Len(q) : q[i].setsum = P[i] - P[i - 1]
  BY <1>1
<1> HIDE DEF P, q
<1>4. Setsums(q) = P[Len(q)] - P[0]
  BY <1>1, <1>2, <1>3, SetsumsTelescope
<1>5. Setsums(q) = 0
  BY <1>1, <1>2, <1>4
<1> QED BY <1>5 DEF q

LEMMA GCInitHolds == GCInit => GInv
<1> SUFFICES ASSUME GCInit
             PROVE  GInv
  OBVIOUS
<1> USE DEF GCInit, Init
<1>1. WriterDomains /\ e_tag \in Nat
  BY DEF WriterDomains
<1>2. IsSeq(<<>>) /\ DOMAIN <<>> = {} /\ Len(<<>>) = 0
  <2>1. <<>> \in Seq({})
    OBVIOUS
  <2> QED BY <2>1 DEF IsSeq
<1>3. LogOK(history) /\ FilesOK
  BY <1>2 DEF LogOK, FilesOK
<1>4. Heads(history, manifest)
  <2>1. /\ manifest.snapshots = <<>> /\ manifest.fragments = <<>> /\ manifest.setsum = 0
        /\ manifest.collected = 0 /\ manifest.initial_offset = None /\ manifest.initial_seq_no = None
    BY DEF new_empty
  <2>2. EndOf(history, Len(history)) = 1 /\ Len(history) = 0
    BY <1>2 DEF EndOf
  <2>3. Parts(manifest, 0, 1) /\ Tip(manifest, 0, 1)
    BY <1>2, <2>1 DEF Parts, Tip, UnwrapOr, BEGIN
  <2>4. Setsums(<<>>) = 0
    BY <1>2, SumOfNothing
  <2>5. manifest.snapshots \o manifest.fragments = <<>>
    BY <2>1, NoParts
  <2>6. Contiguous(<<>>)
    BY <1>2 DEF Contiguous
  <2>7. scrub(manifest)
    <3>1. Contiguous(manifest.snapshots \o manifest.fragments)
      BY <2>5, <2>6
    <3> QED BY <2>1, <2>4, <3>1 DEF scrub
  <2>8. manifest.setsum = Setsums(history) /\ manifest.collected \in Int
    BY <2>1, <2>4
  <2> HIDE DEF GCInit, Init
  <2> QED BY <2>2, <2>3, <2>7, <2>8 DEF Heads, Balanced
<1>5. \A w \in Writers : HoldsOK(w) /\ CallsOK(w)
  <2> TAKE w \in Writers
  <2>1. /\ pc[w] = "idle" /\ inner[w] = "none" /\ goal[w] = "open" /\ staging[w] = NoStaging
        /\ pulled[w] = NothingPulled
    OBVIOUS
  <2> HIDE DEF GCInit, Init
  <2> QED BY <2>1, NoStagingShaped DEF HoldsOK, CallsOK, Loaded, Linking, Appending
<1>6. CollectionsOK
  <2>1. \A c \in Collectors : collector[c] = NoCollection(0)
    OBVIOUS
  <2>2. DOMAIN collector = Collectors /\ garbage = EmptyGarbage
    OBVIOUS
  <2> HIDE DEF GCInit, Init
  <2> QED BY <2>1, <2>2 DEF CollectionsOK, GarbageOK, NoCollection
<1>7. delayed = {}
  OBVIOUS
<1> HIDE DEF GCInit, Init
<1> QED BY <1>1, <1>3, <1>4, <1>5, <1>6, <1>7 DEF GInv

(* The invariant of a log that is appended to and collected at the same    *)
(* time, as long as Garbage::new computes what it promises.                *)
THEOREM CollectionInvariance == GCSpec /\ []ComputesRuns => []GInv
<1>1. GCInit => GInv
  BY GCInitHolds
<1>2. GInv /\ ComputesRuns /\ [GCNext]_all_vars => GInv'
  BY GCNextKeeps
<1> QED BY <1>1, <1>2, PTL DEF GCSpec

(* Collection never makes the log assign a seq_no or a log position twice, *)
(* whatever order the puts of writers and of phase 2 arrive in, and even   *)
(* when it leaves nothing of the log.                                      *)
THEOREM NoPositionTwice == GCSpec /\ []ComputesRuns => []PositionsAreNotReused
<1>1. GInv => PositionsAreNotReused
  <2> SUFFICES ASSUME GInv
               PROVE  PositionsAreNotReused
    OBVIOUS
  <2>1. LogOK(history) /\ Heads(history, manifest)
    BY DEF GInv
  <2>2. /\ next_fragment_seq_no(manifest) = Len(history) + 1
        /\ next_write_timestamp(manifest) = EndOf(history, Len(history))
    BY <2>1, HeadsNext
  <2>3. IsSeq(history) /\ Len(history) \in Nat
    BY <2>1, LogEnds DEF LogOK
  <2>4. Len(history) = 0 <=> history = <<>>
    BY <2>3 DEF IsSeq
  <2> QED BY <2>2, <2>4 DEF PositionsAreNotReused, EndOf, Last
<1> QED BY <1>1, CollectionInvariance, PTL

(* The manifest passes its scrub after every collection, and its setsum    *)
(* accounts for every fragment that was ever linked.                       *)
THEOREM SetsumsBalance ==
    GCSpec /\ []ComputesRuns => [](scrub(manifest) /\ manifest.setsum = Setsums(history))
<1>1. GInv => scrub(manifest) /\ manifest.setsum = Setsums(history)
  BY DEF GInv, Heads, Balanced
<1> QED BY <1>1, CollectionInvariance, PTL

-----------------------------------------------------------------------------
(* Collections: the records.  Garbage ends at or before the cursor, from   *)
(* the computation to the deletion, and the cursor only moves forward.     *)

(* f is in storage, or may be gone again because it was linked before.     *)
Safe(files, log, f) == f.seq_no \in Nat /\ (f.seq_no <= Len(log) \/ Filed(files, f))

(* The fragment of w has been put.                                         *)
Uploaded(w) ==
    \/ pc[w] = "write" /\ upload[w] = "ok"
    \/ pc[w] = "mark recovered"
    \/ Linking(w)

UploadOK(w) ==
    /\ pc[w] \in {"idle", "open", "recover", "ready"} => upload[w] # "ok"
    /\ Uploaded(w) => Safe(fragments, history, fragment[w])

(* No record at or after cur is in the garbage g.                          *)
InTime(log, cur, g) == g = EmptyGarbage \/ (Cuts(log, g) /\ g.first_to_keep <= cur)

CutoffOK(c) ==
    /\ "cutoff" \in DOMAIN collector[c]
    /\ collector[c].pc \in {"load", "reset", "compute", "make", "put"} =>
          collector[c].cutoff \in Nat /\ collector[c].cutoff <= cursor
    /\ collector[c].pc \in {"make", "put", "delete"} =>
          InTime(history, cursor, collector[c].garbage)

NInv ==
    /\ cursor \in Nat /\ DOMAIN upload = Writers
    /\ \A n \in 1..Len(history) :
          EndOf(history, n) > cursor => Filed(fragments, history[n])
    /\ \A r \in delayed : r.kind = "manifest" => Safe(fragments, history, r.fragment)
    /\ \A w \in Writers : UploadOK(w)
    /\ InTime(history, cursor, garbage)
    /\ \A c \in Collectors : CutoffOK(c)

(* What a step may do to storage: the log grows by a fragment that is      *)
(* there, a fragment that goes was linked and ends before the cursor.      *)
Spares ==
    /\ Forward
    /\ cursor' \in Nat /\ cursor <= cursor'
    /\ \A f : Filed(fragments, f) =>
          \/ Filed(fragments', f)
          \/ f.seq_no \in 1..Len(history) /\ EndOf(history, f.seq_no) <= cursor
    /\ history' # history => Filed(fragments', history'[Len(history')])

LEMMA SparesKeeps ==
    ASSUME GInv, NInv, Spares
    PROVE  /\ \A n \in 1..Len(history') :
                 EndOf(history', n) > cursor' => Filed(fragments', history'[n])
           /\ \A f : Safe(fragments, history, f) => Safe(fragments', history', f)
           /\ \A g : InTime(history, cursor, g) => InTime(history', cursor', g)
<1>1. LogOK(history) /\ e_tag \in Nat /\ Forward
  BY DEF GInv, Spares
<1>2. /\ LogOK(history') /\ Len(history) \in Nat /\ Len(history') \in Nat
      /\ Len(history) <= Len(history')
      /\ \A n \in 0..Len(history) : EndOf(history', n) = EndOf(history, n)
      /\ \A g : GarbageOK(history, g) => GarbageOK(history', g)
  BY <1>1, ForwardKeeps
<1>3. /\ IsSeq(history) /\ DOMAIN history = 1..Len(history)
      /\ \A n \in 1..Len(history) : history[n].seq_no = n
  BY <1>1, <1>2, SeqIs DEF LogOK
<1>4. /\ history' # history => Len(history') = Len(history) + 1
      /\ \A n \in 1..Len(history) : history'[n] = history[n]
  <2>1. CASE history' = history
    BY <2>1
  <2>2. CASE history' # history
    <3>1. PICK f : history' = Append(history, f)
      BY <1>1, <2>2 DEF Forward
    <3>2. PICK S : history \in Seq(S)
      BY <1>3 DEF IsSeq
    <3> QED BY <1>2, <3>1, <3>2
  <2> QED BY <2>1, <2>2
<1>5. cursor \in Nat /\ cursor' \in Nat /\ cursor <= cursor'
  BY DEF NInv, Spares
<1>6. ASSUME NEW n \in 1..Len(history'), EndOf(history', n) > cursor'
      PROVE  Filed(fragments', history'[n])
  <2>1. CASE n \in 1..Len(history)
    <3>1. EndOf(history', n) = EndOf(history, n) /\ history'[n] = history[n] /\ history[n].seq_no = n
      BY <1>2, <1>3, <1>4, <2>1
    <3>2. EndOf(history, n) \in Nat
      BY <1>1, <2>1, LogEnds
    <3>3. EndOf(history, n) > cursor /\ ~(EndOf(history, n) <= cursor)
      BY <1>5, <1>6, <3>1, <3>2
    <3>4. Filed(fragments, history[n])
      BY <2>1, <3>3 DEF NInv
    <3> QED BY <3>1, <3>3, <3>4 DEF Spares
  <2>2. CASE n \notin 1..Len(history)
    <3>1. n = Len(history') /\ history' # history
      BY <1>2, <1>4, <1>6, <2>2
    <3> QED BY <3>1 DEF Spares
  <2> QED BY <2>1, <2>2
<1>7. ASSUME NEW f, Safe(fragments, history, f)
      PROVE  Safe(fragments', history', f)
  <2>1. CASE f.seq_no <= Len(history)
    BY <1>2, <1>7, <2>1 DEF Safe
  <2>2. CASE Filed(fragments, f)
    <3>1. CASE Filed(fragments', f)
      BY <1>7, <3>1 DEF Safe
    <3>2. CASE f.seq_no \in 1..Len(history)
      BY <1>2, <3>2 DEF Safe
    <3> QED BY <2>2, <3>1, <3>2 DEF Spares
  <2> QED BY <1>7, <2>1, <2>2 DEF Safe
<1>8. ASSUME NEW g, InTime(history, cursor, g)
      PROVE  InTime(history', cursor', g)
  <2>1. CASE g = EmptyGarbage
    BY <2>1 DEF InTime
  <2>2. CASE g # EmptyGarbage
    <3>1. Cuts(history, g) /\ g.first_to_keep <= cursor
      BY <1>8, <2>2 DEF InTime
    <3>2. Cuts(history', g)
      BY <1>2, <2>2, <3>1 DEF GarbageOK
    <3>3. g.first_to_keep \in Nat
      <4>1. g.fragments_to_drop_limit - 1 \in 0..Len(history)
        BY <1>2, <3>1 DEF Cuts
      <4> QED BY <1>1, <3>1, <4>1, LogEnds DEF Cuts
    <3> QED BY <1>5, <3>1, <3>2, <3>3 DEF InTime
  <2> QED BY <2>1, <2>2
<1> QED BY <1>6, <1>7, <1>8

(* The upload of v is as it was.                                           *)
SameUpload(v) == pc'[v] = pc[v] /\ upload'[v] = upload[v] /\ fragment'[v] = fragment[v]

SameCutoff(c) ==
    /\ collector'[c].pc = collector[c].pc /\ collector'[c].cutoff = collector[c].cutoff
    /\ collector'[c].garbage = collector[c].garbage
    /\ DOMAIN collector'[c] = DOMAIN collector[c]

LEMMA NInvStep ==
    ASSUME GInv, NInv, Spares, DOMAIN upload' = Writers,
           \A r \in delayed' :
              r \in delayed \/ (r.kind = "manifest" => Safe(fragments', history', r.fragment)),
           \A v \in Writers : SameUpload(v) \/ UploadOK(v)',
           InTime(history', cursor', garbage'),
           \A c \in Collectors : SameCutoff(c) \/ CutoffOK(c)'
    PROVE  NInv'
<1>1. cursor \in Nat /\ cursor' \in Nat /\ cursor <= cursor'
  BY DEF NInv, Spares
<1>2. \A f : Safe(fragments, history, f) => Safe(fragments', history', f)
  BY SparesKeeps
<1>3. \A g : InTime(history, cursor, g) => InTime(history', cursor', g)
  BY SparesKeeps
<1>4. ASSUME NEW v \in Writers
      PROVE  UploadOK(v)'
  <2>1. CASE SameUpload(v)
    <3>1. UploadOK(v)
      BY DEF NInv
    <3>2. Uploaded(v)' = Uploaded(v)
      BY <2>1 DEF Uploaded, SameUpload, Linking
    <3> QED BY <1>2, <2>1, <3>1, <3>2 DEF UploadOK, SameUpload
  <2> QED BY <2>1
<1>5. ASSUME NEW c \in Collectors
      PROVE  CutoffOK(c)'
  <2>1. CASE SameCutoff(c)
    <3>1. CutoffOK(c)
      BY DEF NInv
    <3>2. collector[c].cutoff \in Nat /\ collector[c].cutoff <= cursor => collector[c].cutoff <= cursor'
      BY <1>1
    <3> QED BY <1>3, <2>1, <3>1, <3>2 DEF CutoffOK, SameCutoff
  <2> QED BY <2>1
<1>6. \A r \in delayed' : r.kind = "manifest" => Safe(fragments', history', r.fragment)
  BY <1>2 DEF NInv
<1>7. \A n \in 1..Len(history') : EndOf(history', n) > cursor' => Filed(fragments', history'[n])
  BY SparesKeeps
<1> QED BY <1>1, <1>4, <1>5, <1>6, <1>7 DEF NInv

-----------------------------------------------------------------------------
(* The steps of appending, and the records.                                *)

(* A step of w after which nothing of it has been put.                     *)
Drops(w) ==
    /\ UploadOK(w)' /\ DOMAIN upload' = Writers
    /\ \A v \in Writers \ {w} : SameUpload(v)

LEMMA IdleDrops ==
    ASSUME GInv, NInv, NEW w \in Writers, NEW state, NEW stage, Idle(w, state, stage)
    PROVE  Drops(w)
<1>1. /\ DOMAIN pc = Writers /\ DOMAIN upload = Writers /\ DOMAIN fragment = Writers
  BY DEF GInv, NInv, WriterDomains
<1>2. /\ pc'[w] = "idle" /\ upload'[w] = "wait" /\ DOMAIN upload' = Writers
      /\ \A v \in Writers \ {w} : SameUpload(v)
  BY <1>1 DEF Idle, ClearWork, SameUpload
<1> QED BY <1>2 DEF Drops, UploadOK, Uploaded, Linking

LEMMA ReopenDrops ==
    ASSUME GInv, NInv, NEW w \in Writers, NEW why, NEW attempt, NEW open,
           Reopen(w, why, attempt, open)
    PROVE  Drops(w)
<1>1. /\ DOMAIN pc = Writers /\ DOMAIN upload = Writers /\ DOMAIN fragment = Writers
  BY DEF GInv, NInv, WriterDomains
<1>2. /\ pc'[w] = "open" /\ upload'[w] = "wait" /\ DOMAIN upload' = Writers
      /\ \A v \in Writers \ {w} : SameUpload(v)
  BY <1>1 DEF Reopen, ClearWork, SameUpload
<1> QED BY <1>2 DEF Drops, UploadOK, Uploaded, Linking

LEMMA ReturnDrops ==
    ASSUME GInv, NInv, NEW w \in Writers, NEW status, NEW position, NEW state, NEW stage,
           Return(w, status, position, state, stage)
    PROVE  Drops(w)
BY IdleDrops DEF Return

LEMMA OpenFailsDrops ==
    ASSUME GInv, NInv, NEW w \in Writers, NEW err, OpenFails(w, err) \/ EnsureOpenErr(w, err)
    PROVE  Drops(w)
<1>1. goal[w] \in {"open", "append", "confirm"}
  BY DEF GInv, CallsOK
<1>2. CASE EnsureOpenErr(w, err)
  BY <1>1, <1>2, IdleDrops, ReturnDrops DEF EnsureOpenErr
<1>3. CASE OpenFails(w, err)
  BY <1>2, <1>3, ReopenDrops DEF OpenFails
<1> QED BY <1>2, <1>3

(* A failed append ends, or opens the log again.                           *)
LEMMA AppendFailsIs ==
    ASSUME NEW w, NEW err, AppendFails(w, err)
    PROVE  \/ \E why, attempt, open : Reopen(w, why, attempt, open)
           \/ \E status : Return(w, status, 0, "closed", NoStaging)
<1>1. CASE err = "durable"
  BY <1>1 DEF AppendFails
<1>2. CASE err = "retry" /\ attempts[w] < 3 /\ attempts[w] >= 3
  BY <1>2 DEF AppendFails
<1>3. CASE err = "retry" /\ attempts[w] < 3 /\ ~(attempts[w] >= 3)
  BY <1>3 DEF AppendFails
<1>4. CASE err = "retry" /\ ~(attempts[w] < 3) /\ attempts[w] >= 3
  BY <1>4 DEF AppendFails
<1>5. CASE err = "retry" /\ ~(attempts[w] < 3) /\ ~(attempts[w] >= 3)
  BY <1>5 DEF AppendFails
<1>6. CASE err \notin {"durable", "retry"}
  BY <1>6 DEF AppendFails
<1> QED BY <1>1, <1>2, <1>3, <1>4, <1>5, <1>6

LEMMA AppendFailsDrops ==
    ASSUME GInv, NInv, NEW w \in Writers, NEW err, AppendFails(w, err)
    PROVE  Drops(w)
BY AppendFailsIs, ReopenDrops, ReturnDrops

LEMMA PublishFailsDrops ==
    ASSUME GInv, NInv, NEW w \in Writers, NEW err, PublishFails(w, err)
    PROVE  Drops(w)
BY OpenFailsDrops, AppendFailsDrops DEF PublishFails

(* A step of writers: storage is spared, w is in order.                    *)
LEMMA WriterN ==
    ASSUME GInv, NInv, Spares, NEW w \in Writers, Drops(w), UNCHANGED gc_vars,
           \A r \in delayed' :
              r \in delayed \/ (r.kind = "manifest" => Safe(fragments', history', r.fragment))
    PROVE  NInv'
<1>1. UNCHANGED <<garbage, collector, cursor>>
  BY DEF gc_vars
<1>2. InTime(history', cursor', garbage')
  BY <1>1, SparesKeeps DEF NInv
<1>3. \A c \in Collectors : SameCutoff(c)
  BY <1>1 DEF SameCutoff
<1> QED BY <1>2, <1>3, NInvStep DEF Drops

LEMMA StillSpares ==
    ASSUME NInv, UNCHANGED <<e_tag, history, fragments, cursor>>
    PROVE  Spares
BY DEF Spares, Forward, NInv

(* A step of w that leaves the log and the fragments alone.                *)
LEMMA WriterStillN ==
    ASSUME GInv, NInv, NEW w \in Writers, Drops(w), UNCHANGED gc_vars,
           UNCHANGED <<e_tag, history, fragments, delayed>>
    PROVE  NInv'
BY StillSpares, WriterN DEF gc_vars

(* A put of a fragment.                                                    *)
LEMMA PutFragmentSpares ==
    ASSUME GInv, NInv, NEW f, PutFragment(f), UNCHANGED <<e_tag, history, cursor>>
    PROVE  Spares /\ Filed(fragments', f)
BY DEF Spares, Forward, NInv, PutFragment, Filed

(* A put of a manifest that links a fragment that is there.                *)
LEMMA PutManifestSpares ==
    ASSUME GInv, NInv, NEW tag, NEW m, NEW f, MayLink(history, e_tag, tag, m, f),
           PutManifest(tag, m, f), Safe(fragments, history, f), UNCHANGED <<fragments, cursor>>
    PROVE  Spares
<1>1. /\ Forward /\ f.seq_no = Len(history) + 1 /\ Len(history) \in Nat
      /\ Len(history') = Len(history) + 1
  BY PutManifestG
<1>2. Filed(fragments, f)
  BY <1>1 DEF Safe
<1>3. history' = Append(history, f) /\ IsSeq(history)
  BY DEF PutManifest, GInv, LogOK
<1>4. history'[Len(history')] = f
  <2>1. PICK S : history \in Seq(S)
    BY <1>3 DEF IsSeq
  <2> QED BY <1>1, <1>3, <2>1
<1> QED BY <1>1, <1>2, <1>4 DEF Spares, NInv

LEMMA OpeningN ==
    ASSUME GInv, NInv, NEW w \in Writers, UNCHANGED gc_vars,
           \/ Open(w) \/ (\E b \in Batches : AppendMany(w, b))
           \/ LoadManifest(w) \/ NothingToRecover(w) \/ TakeWork(w)
    PROVE  NInv'
<1>1. DOMAIN pc = Writers /\ DOMAIN upload = Writers /\ DOMAIN fragment = Writers /\ UploadOK(w)
  BY DEF GInv, NInv, WriterDomains
<1>2. UNCHANGED <<e_tag, history, fragments, delayed>>
  BY DEF Open, AppendMany, LoadManifest, NothingToRecover, TakeWork, storage
<1>3. CASE /\ pc[w] \in {"idle", "open", "recover"}
           /\ pc' \in {[pc EXCEPT ![w] = "open"], [pc EXCEPT ![w] = "ready"],
                       [pc EXCEPT ![w] = "recover"]}
           /\ UNCHANGED <<upload, fragment>>
  <2>1. /\ pc'[w] \in {"open", "ready", "recover"} /\ upload'[w] # "ok"
        /\ \A v \in Writers \ {w} : SameUpload(v)
    BY <1>1, <1>3 DEF UploadOK, SameUpload
  <2>2. Drops(w)
    BY <1>1, <1>3, <2>1 DEF Drops, UploadOK, Uploaded, Linking
  <2> QED BY <1>2, <2>2, WriterStillN
<1>4. CASE TakeWork(w)
  <2>1. /\ pc[w] = "ready" /\ pc'[w] = "write" /\ upload' = upload
        /\ \A v \in Writers \ {w} : SameUpload(v)
    BY <1>1, <1>4 DEF TakeWork, SameUpload
  <2>2. Drops(w)
    BY <1>1, <2>1 DEF Drops, UploadOK, Uploaded, Linking
  <2> QED BY <1>2, <2>2, WriterStillN
<1>5. CASE \E state, stage : Idle(w, state, stage)
  BY <1>2, <1>5, IdleDrops, WriterStillN
<1>6. CASE Open(w) \/ \E b \in Batches : AppendMany(w, b)
  BY <1>3, <1>6 DEF Open, AppendMany, working
<1>7. CASE LoadManifest(w)
  BY <1>3, <1>7 DEF LoadManifest, working
<1>8. CASE NothingToRecover(w)
  BY <1>3, <1>5, <1>8 DEF NothingToRecover, Return, working
<1> QED BY <1>4, <1>6, <1>7, <1>8

LEMMA RecoveringN ==
    ASSUME GInv, NInv, NEW w \in Writers, UNCHANGED gc_vars,
           ReadFragment(w) \/ MarkRecovered(w) \/ MarkRecoveredFails(w) \/ ReadFails(w)
    PROVE  NInv'
<1>1. DOMAIN pc = Writers /\ DOMAIN upload = Writers /\ DOMAIN fragment = Writers /\ UploadOK(w)
  BY DEF GInv, NInv, WriterDomains
<1>2. UNCHANGED <<e_tag, history, fragments, delayed>>
  BY DEF ReadFragment, MarkRecovered, MarkRecoveredFails, ReadFails, storage
<1>3. CASE MarkRecoveredFails(w) \/ ReadFails(w)
  <2>1. \E err : OpenFails(w, err) \/ EnsureOpenErr(w, err)
    BY <1>3 DEF MarkRecoveredFails, ReadFails
  <2> QED BY <1>2, <2>1, OpenFailsDrops, WriterStillN
<1>4. CASE ReadFragment(w)
  <2> DEFINE n == staging[w].next_seq_no_to_apply
  <2>1. /\ n \in DOMAIN fragments /\ fragment'[w] = fragments[n] /\ pc'[w] = "mark recovered"
        /\ upload' = upload /\ \A v \in Writers \ {w} : SameUpload(v)
    BY <1>1, <1>4 DEF ReadFragment, SameUpload
  <2>2. fragments[n].seq_no = n /\ n \in Nat
    BY <2>1 DEF GInv, FilesOK, Placed, IsFragment
  <2>3. Safe(fragments', history', fragment'[w])
    BY <1>2, <2>1, <2>2 DEF Safe, Filed
  <2>4. Drops(w)
    BY <1>1, <2>1, <2>3 DEF Drops, UploadOK
  <2> QED BY <1>2, <2>4, WriterStillN
<1>5. CASE MarkRecovered(w)
  <2>1. /\ pc[w] = "mark recovered" /\ pc'[w] = "publish" /\ UNCHANGED <<upload, fragment>>
        /\ \A v \in Writers \ {w} : SameUpload(v)
    BY <1>1, <1>5 DEF MarkRecovered, SameUpload, working
  <2>2. Drops(w)
    BY <1>1, <1>2, <2>1 DEF Drops, UploadOK, Uploaded
  <2> QED BY <1>2, <2>2, WriterStillN
<1> QED BY <1>3, <1>4, <1>5

(* Only a put of the manifest is in flight with a fragment that was put.   *)
LEMMA InFlightN ==
    ASSUME GInv, NInv, NEW w \in Writers, NEW r \in InFlight(w), r.kind = "manifest"
    PROVE  Safe(fragments, history, r.fragment)
<1>1. UploadOK(w)
  BY DEF NInv
<1>2. pc[w] = "install" /\ r.fragment = fragment[w]
  BY DEF InFlight
<1> QED BY <1>1, <1>2 DEF UploadOK, Uploaded, Linking

LEMMA UploadingN ==
    ASSUME GInv, NInv, NEW w \in Writers, UNCHANGED gc_vars,
           \/ UploadParquet(w) \/ UploadConflict(w) \/ UploadTimeout(w)
           \/ MarkDirty(w) \/ MarkDirtyFails(w)
    PROVE  NInv'
<1>1. /\ DOMAIN pc = Writers /\ DOMAIN upload = Writers /\ DOMAIN fragment = Writers
      /\ UploadOK(w) /\ HoldsOK(w)
  BY DEF GInv, NInv, WriterDomains
<1>2. UNCHANGED <<e_tag, history, pc, fragment, cursor>>
  BY DEF UploadParquet, UploadConflict, UploadTimeout, MarkDirty, MarkDirtyFails, storage, gc_vars
<1>3. CASE UploadParquet(w)
  <2>1. /\ PutFragment(fragment[w]) /\ delayed' = delayed
        /\ DOMAIN upload' = Writers /\ \A v \in Writers \ {w} : SameUpload(v)
    BY <1>1, <1>2, <1>3 DEF UploadParquet, SameUpload
  <2>2. Spares /\ Filed(fragments', fragment[w])
    BY <1>2, <2>1, PutFragmentSpares
  <2>3. pc[w] = "write" /\ fragment[w].seq_no \in Nat
    BY <1>1, <1>3 DEF UploadParquet, Uploading, HoldsOK, Placed, IsFragment
  <2>4. UploadOK(w)'
    BY <1>2, <2>2, <2>3 DEF UploadOK, Safe
  <2> QED BY <2>1, <2>2, <2>4, WriterN DEF Drops
<1>4. CASE UploadConflict(w) \/ UploadTimeout(w)
  <2>1. /\ fragments' = fragments /\ delayed' \in {delayed, delayed \cup InFlight(w)}
        /\ upload'[w] # "ok" /\ pc[w] = "write"
        /\ DOMAIN upload' = Writers /\ \A v \in Writers \ {w} : SameUpload(v)
    BY <1>1, <1>2, <1>4 DEF UploadConflict, UploadTimeout, Uploading, SameUpload, storage
  <2>2. UploadOK(w)'
    BY <1>2, <2>1 DEF UploadOK, Uploaded, Linking
  <2>3. Spares
    BY <1>2, <2>1, StillSpares
  <2>4. \A r \in delayed' :
           r \in delayed \/ (r.kind = "manifest" => Safe(fragments', history', r.fragment))
    BY <1>2, <2>1, InFlightN
  <2> QED BY <2>1, <2>2, <2>3, <2>4, WriterN DEF Drops
<1>5. CASE MarkDirty(w) \/ MarkDirtyFails(w)
  <2>1. UNCHANGED <<fragments, delayed, upload>>
    BY <1>5 DEF MarkDirty, MarkDirtyFails, storage
  <2>2. Drops(w)
    BY <1>1, <1>2, <2>1 DEF Drops, SameUpload, UploadOK, Uploaded, Linking
  <2> QED BY <1>2, <2>1, <2>2, WriterStillN
<1> QED BY <1>3, <1>4, <1>5

LEMMA JoiningN ==
    ASSUME GInv, NInv, NEW w \in Writers, UNCHANGED gc_vars,
           JoinUploadAndMark(w) \/ PullWork(w) \/ InstallSnapshot(w)
    PROVE  NInv'
<1>1. DOMAIN pc = Writers /\ DOMAIN upload = Writers /\ DOMAIN fragment = Writers /\ UploadOK(w)
  BY DEF GInv, NInv, WriterDomains
<1>2. UNCHANGED <<e_tag, history, fragments, delayed>>
  BY DEF JoinUploadAndMark, PullWork, InstallSnapshot, storage
<1>3. CASE \E err : AppendFails(w, err) \/ PublishFails(w, err)
  BY <1>2, <1>3, AppendFailsDrops, PublishFailsDrops, WriterStillN
<1>4. CASE /\ Uploaded(w) /\ UNCHANGED <<upload, fragment>>
           /\ pc' \in {[pc EXCEPT ![w] = "publish"], [pc EXCEPT ![w] = "snapshot"],
                       [pc EXCEPT ![w] = "install"]}
  <2>1. /\ pc'[w] \in {"publish", "snapshot", "install"}
        /\ \A v \in Writers \ {w} : SameUpload(v)
    BY <1>1, <1>4 DEF SameUpload
  <2>2. Drops(w)
    BY <1>1, <1>2, <1>4, <2>1 DEF Drops, UploadOK
  <2> QED BY <1>2, <2>2, WriterStillN
<1>5. CASE JoinUploadAndMark(w)
  BY <1>3, <1>4, <1>5 DEF JoinUploadAndMark, Uploaded, working
<1>6. CASE PullWork(w)
  <2>1. pc[w] = "publish"
    BY <1>6 DEF PullWork
  <2>2. \/ PublishFails(w, "error")
        \/ /\ UNCHANGED <<upload, fragment>>
           /\ pc' = [pc EXCEPT ![w] = "install"] \/ pc' = [pc EXCEPT ![w] = "snapshot"]
    BY <1>6 DEF PullWork
  <2> QED BY <1>3, <1>4, <2>1, <2>2 DEF Uploaded, Linking
<1>7. CASE InstallSnapshot(w)
  BY <1>4, <1>7 DEF InstallSnapshot, Uploaded, Linking, working
<1> QED BY <1>5, <1>6, <1>7

LEMMA LinkingN ==
    ASSUME GInv, NInv, NEW w \in Writers, UNCHANGED gc_vars,
           InstallSnapshotFails(w) \/ InstallConflict(w) \/ InstallTimeout(w) \/ Crash(w)
    PROVE  NInv'
<1>1. /\ UNCHANGED <<e_tag, history, fragments>>
      /\ delayed' \in {delayed, delayed \cup InFlight(w)}
  BY DEF InstallSnapshotFails, InstallConflict, InstallTimeout, Crash, storage
<1>2. (\E err : PublishFails(w, err)) \/ \E state, stage : Idle(w, state, stage)
  BY DEF InstallSnapshotFails, InstallConflict, InstallTimeout, Crash, Return
<1>3. Drops(w)
  BY <1>2, PublishFailsDrops, IdleDrops
<1>4. Spares
  BY <1>1, StillSpares DEF gc_vars
<1>5. \A r \in delayed' :
         r \in delayed \/ (r.kind = "manifest" => Safe(fragments', history', r.fragment))
  BY <1>1, InFlightN
<1> QED BY <1>3, <1>4, <1>5, WriterN

LEMMA InstallManifestN ==
    ASSUME GInv, NInv, NEW w \in Writers, UNCHANGED gc_vars, InstallManifest(w)
    PROVE  NInv'
<1>1. UploadOK(w) /\ HoldsOK(w) /\ DOMAIN upload = Writers
  BY DEF GInv, NInv
<1>2. /\ pc[w] = "install" /\ PutManifest(staging[w].e_tag, pulled[w].manifest, fragment[w])
      /\ UNCHANGED <<fragments, delayed, cursor>>
  BY DEF InstallManifest, gc_vars
<1>3. MayLink(history, e_tag, staging[w].e_tag, pulled[w].manifest, fragment[w])
  BY <1>1, <1>2 DEF HoldsOK
<1>4. Safe(fragments, history, fragment[w])
  BY <1>1, <1>2 DEF UploadOK, Uploaded, Linking
<1>5. Spares
  BY <1>2, <1>3, <1>4, PutManifestSpares
<1>6. CASE UNCHANGED <<pc, inner, handling, batch, staging, working, result>>
  <2>1. \A v \in Writers : SameUpload(v)
    BY <1>6 DEF SameUpload, working
  <2>2. UNCHANGED <<garbage, collector, cursor, upload>>
    BY <1>6 DEF gc_vars, working
  <2>3. InTime(history', cursor', garbage')
    BY <1>5, <2>2, SparesKeeps DEF NInv
  <2>4. \A c \in Collectors : SameCutoff(c)
    BY <2>2 DEF SameCutoff
  <2> QED BY <1>1, <1>2, <1>5, <2>1, <2>2, <2>3, <2>4, NInvStep
<1>7. CASE PublishOk(w) \/ \E err : PublishFails(w, err)
  <2>1. Drops(w)
    BY <1>7, ReturnDrops, OpenFailsDrops, PublishFailsDrops DEF PublishOk
  <2> QED BY <1>2, <1>5, <2>1, WriterN
<1> QED BY <1>6, <1>7 DEF InstallManifest

(* A step of no writer.                                                    *)
LEMMA NoWriterN ==
    ASSUME GInv, NInv, Spares, UNCHANGED <<pc, upload, fragment>>, delayed' \subseteq delayed,
           UNCHANGED gc_vars
    PROVE  NInv'
<1>1. \A v \in Writers : SameUpload(v)
  BY DEF SameUpload
<1>2. UNCHANGED <<garbage, collector, cursor>>
  BY DEF gc_vars
<1>3. InTime(history', cursor', garbage')
  BY <1>2, SparesKeeps DEF NInv
<1>4. \A c \in Collectors : SameCutoff(c)
  BY <1>2 DEF SameCutoff
<1>5. DOMAIN upload' = Writers
  BY DEF NInv
<1> QED BY <1>1, <1>3, <1>4, <1>5, NInvStep

LEMMA DelayedN ==
    ASSUME GInv, NInv, NEW r \in delayed, UNCHANGED gc_vars,
           DelayedFragment(r) \/ DelayedManifest(r)
    PROVE  NInv'
<1>1. /\ delayed' \subseteq delayed /\ UNCHANGED <<pc, upload, fragment, cursor>>
  BY DEF DelayedFragment, DelayedManifest, working, gc_vars
<1>2. CASE UNCHANGED <<e_tag, history, fragments>>
  BY <1>1, <1>2, StillSpares, NoWriterN
<1>3. CASE PutFragment(r.fragment) /\ UNCHANGED <<e_tag, history>>
  <2>1. Spares
    BY <1>1, <1>3, PutFragmentSpares
  <2> QED BY <1>1, <2>1, NoWriterN
<1>4. CASE /\ r.kind = "manifest" /\ PutManifest(r.e_tag, r.manifest, r.fragment)
           /\ fragments' = fragments
  <2>1. MayLink(history, e_tag, r.e_tag, r.manifest, r.fragment)
    BY <1>4 DEF GInv, RequestOK
  <2>2. Safe(fragments, history, r.fragment)
    BY <1>4 DEF NInv
  <2>3. Spares
    BY <1>1, <1>4, <2>1, <2>2, PutManifestSpares
  <2> QED BY <1>1, <2>3, NoWriterN
<1> QED BY <1>2, <1>3, <1>4 DEF DelayedFragment, DelayedManifest

LEMMA AppendStepN ==
    ASSUME GInv, NInv, AppendStep
    PROVE  NInv'
<1>1. UNCHANGED gc_vars
  BY DEF AppendStep
<1>2. ASSUME NEW w \in Writers, Step(w)
      PROVE  NInv'
  BY <1>1, <1>2, OpeningN, RecoveringN, UploadingN, JoiningN, LinkingN, InstallManifestN DEF Step
<1> QED BY <1>1, <1>2, OpeningN, LinkingN, DelayedN DEF AppendStep

-----------------------------------------------------------------------------
(* The steps of collecting, and the records.                               *)

(* A step of c that leaves writers alone.                                  *)
LEMMA CollectorN ==
    ASSUME GInv, NInv, Spares, NEW c \in Collectors,
           UNCHANGED <<pc, upload, fragment, delayed>>,
           InTime(history', cursor', garbage'), CutoffOK(c)',
           \A d \in Collectors \ {c} : collector'[d] = collector[d]
    PROVE  NInv'
<1>1. \A v \in Writers : SameUpload(v)
  BY DEF SameUpload
<1>2. \A d \in Collectors : SameCutoff(d) \/ CutoffOK(d)'
  BY DEF SameCutoff
<1>3. DOMAIN upload' = Writers
  BY DEF NInv
<1> QED BY <1>1, <1>2, <1>3, NInvStep

LEMMA StopN ==
    ASSUME GInv, NEW c \in Collectors, Stop(c)
    PROVE  CutoffOK(c)' /\ \A d \in Collectors \ {c} : collector'[d] = collector[d]
<1>1. /\ collector'[c].pc = "idle" /\ "cutoff" \in DOMAIN collector'[c]
      /\ \A d \in Collectors \ {c} : collector'[d] = collector[d]
  BY DEF GInv, CollectionsOK, Stop, NoCollection
<1> QED BY <1>1 DEF CutoffOK

(* A step of c to a place where neither cutoff nor garbage matters.        *)
LEMMA GoesN ==
    ASSUME GInv, NInv, NEW c \in Collectors, NEW to, collector' = [collector EXCEPT ![c].pc = to],
           to \notin {"load", "reset", "compute", "make", "put", "delete"}
    PROVE  CutoffOK(c)' /\ \A d \in Collectors \ {c} : collector'[d] = collector[d]
<1>1. DOMAIN collector = Collectors /\ {"pc", "garbage", "cutoff"} \subseteq DOMAIN collector[c]
  BY DEF GInv, CollectionsOK, NInv, CutoffOK
<1>2. /\ collector'[c].pc = to /\ "cutoff" \in DOMAIN collector'[c]
      /\ \A d \in Collectors \ {c} : collector'[d] = collector[d]
  BY <1>1
<1> QED BY <1>2 DEF CutoffOK

LEMMA RetryN ==
    ASSUME GInv, NInv, NEW c \in Collectors, Retry(c), UNCHANGED <<history, cursor>>,
           collector[c].pc \in {"load", "reset", "compute", "make", "put"}
    PROVE  CutoffOK(c)' /\ \A d \in Collectors \ {c} : collector'[d] = collector[d]
<1>1. CASE Stop(c)
  BY <1>1, StopN
<1>2. CASE collector' = [collector EXCEPT ![c].pc = "load", ![c].tries = @ + 1]
  <2>1. /\ DOMAIN collector = Collectors /\ {"pc", "garbage", "cutoff"} \subseteq DOMAIN collector[c]
        /\ CutoffOK(c)
    BY DEF GInv, CollectionsOK, NInv, CutoffOK
  <2>2. /\ collector'[c].pc = "load" /\ "cutoff" \in DOMAIN collector'[c]
        /\ collector'[c].cutoff = collector[c].cutoff
        /\ \A d \in Collectors \ {c} : collector'[d] = collector[d]
    BY <1>2, <2>1
  <2> QED BY <2>1, <2>2 DEF CutoffOK
<1> QED BY <1>1, <1>2 DEF Retry

LEMMA Phase1N ==
    ASSUME GInv, NInv, NEW c \in Collectors,
           \/ OpenCollector(c) \/ Cutoff(c) \/ LoadGarbage(c) \/ ResetStale(c)
           \/ RequestPhase2(c) \/ LoadGarbageToDelete(c) \/ ResetDone(c)
    PROVE  NInv'
<1>1. UNCHANGED <<e_tag, history, delayed, fragments, pc, upload, fragment, cursor>>
  BY DEF OpenCollector, Cutoff, LoadGarbage, ResetStale, RequestPhase2, LoadGarbageToDelete,
         ResetDone, vars, storage, working
<1>2. Spares
  BY <1>1, StillSpares
<1>3. garbage' = garbage \/ garbage' = EmptyGarbage
  BY DEF OpenCollector, Cutoff, LoadGarbage, ResetStale, RequestPhase2, LoadGarbageToDelete,
         ResetDone, PutGarbage
<1>4. InTime(history', cursor', garbage')
  BY <1>1, <1>3 DEF NInv, InTime
<1>5. /\ DOMAIN collector = Collectors /\ {"pc", "garbage", "cutoff"} \subseteq DOMAIN collector[c]
      /\ CutoffOK(c) /\ cursor \in Nat
  BY DEF GInv, CollectionsOK, NInv, CutoffOK
<1>6. CutoffOK(c)' /\ \A d \in Collectors \ {c} : collector'[d] = collector[d]
  <2>1. CASE OpenCollector(c)
    <3>1. /\ collector'[c].pc = "cutoff" /\ "cutoff" \in DOMAIN collector'[c]
          /\ \A d \in Collectors \ {c} : collector'[d] = collector[d]
      BY <1>5, <2>1 DEF OpenCollector, NoCollection
    <3> QED BY <3>1 DEF CutoffOK
  <2>2. CASE Cutoff(c)
    <3>1. CASE Stop(c)
      BY <3>1, StopN
    <3>2. ASSUME NEW cutoff \in 1..cursor,
                 collector' = [collector EXCEPT ![c].cutoff = cutoff,
                                                ![c].tries = 1, ![c].pc = "load"]
          PROVE  CutoffOK(c)' /\ \A d \in Collectors \ {c} : collector'[d] = collector[d]
      <4>1. /\ collector'[c].pc = "load" /\ "cutoff" \in DOMAIN collector'[c]
            /\ collector'[c].cutoff = cutoff
            /\ \A d \in Collectors \ {c} : collector'[d] = collector[d]
        BY <1>5, <3>2
      <4>2. cutoff \in Nat /\ cutoff <= cursor'
        BY <1>1, <1>5
      <4> QED BY <4>1, <4>2 DEF CutoffOK
    <3> QED BY <2>2, <3>1, <3>2 DEF Cutoff
  <2>3. CASE LoadGarbage(c)
    <3>1. PICK to \in {"compute", "request", "reset"} :
             collector' = [collector EXCEPT ![c].garbage = garbage,
                                            ![c].e_tag = garbage_e_tag, ![c].pc = to]
      BY <2>3 DEF LoadGarbage
    <3>2. /\ collector'[c].pc = to /\ "cutoff" \in DOMAIN collector'[c]
          /\ collector'[c].cutoff = collector[c].cutoff /\ collector[c].pc = "load"
          /\ \A d \in Collectors \ {c} : collector'[d] = collector[d]
      BY <1>5, <2>3, <3>1 DEF LoadGarbage, Stands
    <3> QED BY <1>1, <1>5, <3>2 DEF CutoffOK
  <2>4. CASE ResetStale(c)
    BY <1>1, <2>4, RetryN DEF ResetStale, Stands
  <2>5. CASE RequestPhase2(c)
    BY <2>5, GoesN DEF RequestPhase2
  <2>6. CASE LoadGarbageToDelete(c)
    <3>1. CASE Stop(c)
      BY <3>1, StopN
    <3>2. CASE collector' = [collector EXCEPT ![c].garbage = garbage,
                                ![c].e_tag = garbage_e_tag, ![c].pc = "delete"]
      <4>1. /\ collector'[c].pc = "delete" /\ "cutoff" \in DOMAIN collector'[c]
            /\ collector'[c].garbage = garbage
            /\ \A d \in Collectors \ {c} : collector'[d] = collector[d]
        BY <1>5, <3>2
      <4>2. InTime(history', cursor', garbage)
        BY <1>1 DEF NInv
      <4> QED BY <4>1, <4>2 DEF CutoffOK
    <3> QED BY <2>6, <3>1, <3>2 DEF LoadGarbageToDelete
  <2>7. CASE ResetDone(c)
    BY <2>7, StopN DEF ResetDone
  <2> QED BY <2>1, <2>2, <2>3, <2>4, <2>5, <2>6, <2>7
<1> QED BY <1>1, <1>2, <1>4, <1>6, CollectorN

LEMMA ComputeGarbageN ==
    ASSUME GInv, NInv, ComputesRuns, NEW c \in Collectors, ComputeGarbage(c)
    PROVE  NInv'
<1> DEFINE computed == garbage_new(snapshots, collector[c].manifest, collector[c].cutoff)
<1>1. /\ UNCHANGED <<e_tag, history, delayed, fragments, pc, upload, fragment, cursor, garbage>>
      /\ Stands(c, "compute")
  BY DEF ComputeGarbage, vars, storage, working
<1>2. Spares /\ InTime(history', cursor', garbage')
  BY <1>1, StillSpares DEF NInv
<1>3. computed.kind = "ok" =>
         Cuts(history, computed.garbage) /\ computed.garbage.first_to_keep <= collector[c].cutoff
  BY <1>1 DEF ComputesRuns
<1>4. CASE computed.kind = "ok"
  <2>1. collector' = [collector EXCEPT ![c].garbage = computed.garbage, ![c].pc = "make"]
    BY <1>4 DEF ComputeGarbage
  <2> HIDE DEF computed
  <2>2. /\ DOMAIN collector = Collectors /\ {"pc", "garbage", "cutoff"} \subseteq DOMAIN collector[c]
        /\ CutoffOK(c)
    BY DEF GInv, CollectionsOK, NInv, CutoffOK
  <2>3. /\ collector'[c].pc = "make" /\ "cutoff" \in DOMAIN collector'[c]
        /\ collector'[c].cutoff = collector[c].cutoff
        /\ collector'[c].garbage = computed.garbage
        /\ \A d \in Collectors \ {c} : collector'[d] = collector[d]
    BY <2>1, <2>2
  <2>4. collector[c].cutoff \in Nat /\ collector[c].cutoff <= cursor /\ cursor \in Nat
    BY <1>1, <2>2 DEF CutoffOK, Stands, NInv
  <2>5. computed.garbage.first_to_keep \in Nat
    <3>1. computed.garbage.fragments_to_drop_limit - 1 \in 0..Len(history)
      BY <1>3, <1>4, LogEnds DEF Cuts, GInv
    <3> QED BY <1>3, <1>4, <3>1, LogEnds DEF Cuts, GInv
  <2>6. InTime(history', cursor', computed.garbage)
    BY <1>1, <1>3, <1>4, <2>4, <2>5 DEF InTime
  <2>7. CutoffOK(c)'
    BY <1>1, <2>3, <2>4, <2>6 DEF CutoffOK
  <2> QED BY <1>1, <1>2, <2>3, <2>7, CollectorN
<1>5. CASE computed.kind # "ok"
  <2>1. Stop(c)
    BY <1>5 DEF ComputeGarbage
  <2> HIDE DEF computed
  <2> QED BY <1>1, <1>2, <2>1, StopN, CollectorN
<1> QED BY <1>4, <1>5

LEMMA InstallsN ==
    ASSUME GInv, NInv, NEW c \in Collectors, MakeSnapshots(c) \/ InstallGarbage(c)
    PROVE  NInv'
<1>1. UNCHANGED <<e_tag, history, delayed, fragments, pc, upload, fragment, cursor>>
  BY DEF MakeSnapshots, InstallGarbage, vars, storage, working
<1>2. Spares
  BY <1>1, StillSpares
<1>3. /\ DOMAIN collector = Collectors /\ {"pc", "garbage", "cutoff"} \subseteq DOMAIN collector[c]
      /\ CutoffOK(c) /\ InTime(history, cursor, garbage)
  BY DEF GInv, CollectionsOK, NInv, CutoffOK
<1>4. CASE MakeSnapshots(c)
  <2>1. /\ collector' = [collector EXCEPT ![c].pc = "put"] /\ garbage' = garbage
        /\ collector[c].pc = "make"
    BY <1>4 DEF MakeSnapshots, Stands
  <2>2. /\ collector'[c].pc = "put" /\ "cutoff" \in DOMAIN collector'[c]
        /\ collector'[c].cutoff = collector[c].cutoff
        /\ collector'[c].garbage = collector[c].garbage
        /\ \A d \in Collectors \ {c} : collector'[d] = collector[d]
    BY <1>3, <2>1
  <2>3. CutoffOK(c)'
    BY <1>1, <1>3, <2>1, <2>2 DEF CutoffOK
  <2> QED BY <1>1, <1>2, <1>3, <2>1, <2>2, <2>3, CollectorN
<1>5. CASE /\ PutGarbage(c, collector[c].garbage) /\ Stands(c, "put")
           /\ collector' = [collector EXCEPT ![c].pc = "request"]
  <2>1. InTime(history', cursor', garbage')
    BY <1>1, <1>3, <1>5 DEF PutGarbage, CutoffOK, Stands
  <2> QED BY <1>1, <1>2, <1>5, <2>1, GoesN, CollectorN
<1>6. CASE Retry(c) /\ garbage' = garbage /\ Stands(c, "put")
  BY <1>1, <1>2, <1>3, <1>6, RetryN, CollectorN DEF Stands
<1> QED BY <1>4, <1>5, <1>6 DEF InstallGarbage

(* What goes was linked and ends before the cursor.                        *)
LEMMA DeleteGarbageN ==
    ASSUME GInv, NInv, NEW c \in Collectors, DeleteGarbage(c)
    PROVE  NInv'
<1> DEFINE g == collector[c].garbage
<1>1. /\ UNCHANGED <<e_tag, history, delayed, pc, upload, fragment, cursor, garbage>>
      /\ \E names : \E seq_nos \in SUBSET FragmentsToDelete(g) : DeleteFiles(names, seq_nos)
      /\ Stop(c) \/ collector' = [collector EXCEPT ![c].pc = "done"]
      /\ collector[c].pc = "delete"
  BY DEF DeleteGarbage, working, Stands
<1>2. InTime(history, cursor, g) /\ cursor \in Nat /\ LogOK(history)
  BY <1>1 DEF NInv, CutoffOK, GInv
<1> HIDE DEF g
<1>3. \A n \in FragmentsToDelete(g) : n \in Nat \ {0} =>
         n \in 1..Len(history) /\ EndOf(history, n) <= cursor
  <2>1. CASE g = EmptyGarbage
    BY <2>1 DEF FragmentsToDelete, EmptyGarbage
  <2>2. CASE g # EmptyGarbage
    <3> DEFINE k == g.fragments_to_drop_limit - 1
    <3>1. Cuts(history, g) /\ g.first_to_keep <= cursor
      BY <1>2, <2>2 DEF InTime
    <3>2. /\ Len(history) \in Nat /\ k \in 1..Len(history) /\ EndOf(history, k) <= cursor
          /\ EndOf(history, k) \in Nat
      BY <1>2, <3>1, LogEnds DEF Cuts
    <3> HIDE DEF k
    <3> SUFFICES ASSUME NEW n \in FragmentsToDelete(g), n \in Nat \ {0}
                 PROVE  n \in 1..Len(history) /\ EndOf(history, n) <= cursor
      OBVIOUS
    <3>3. n <= k
      BY <3>1 DEF FragmentsToDelete, k, Cuts
    <3>4. n \in 1..Len(history)
      BY <3>2, <3>3
    <3>5. EndOf(history, n) \in Nat /\ EndOf(history, n) <= EndOf(history, k)
      BY <1>2, <3>2, <3>3, <3>4, LogEnds
    <3> QED BY <1>2, <3>2, <3>4, <3>5
  <2> QED BY <2>1, <2>2
<1>4. Spares
  <2>1. PICK names : \E seq_nos \in SUBSET FragmentsToDelete(g) : DeleteFiles(names, seq_nos)
    BY <1>1
  <2>2. PICK seq_nos \in SUBSET FragmentsToDelete(g) : DeleteFiles(names, seq_nos)
    BY <2>1
  <2>3. ASSUME NEW f, Filed(fragments, f)
        PROVE  \/ Filed(fragments', f)
               \/ f.seq_no \in 1..Len(history) /\ EndOf(history, f.seq_no) <= cursor
    <3>1. f.seq_no \in Nat \ {0}
      BY <2>3 DEF Filed, GInv, FilesOK, Placed, IsFragment
    <3>2. CASE f.seq_no \in seq_nos
      BY <1>3, <2>2, <3>1, <3>2
    <3>3. CASE f.seq_no \notin seq_nos
      BY <2>2, <2>3, <3>3 DEF DeleteFiles, Filed
    <3> QED BY <3>2, <3>3
  <2> QED BY <1>1, <1>2, <2>3 DEF Spares, Forward
<1>5. InTime(history', cursor', garbage')
  BY <1>1 DEF NInv
<1>6. CutoffOK(c)' /\ \A d \in Collectors \ {c} : collector'[d] = collector[d]
  BY <1>1, StopN, GoesN
<1> QED BY <1>1, <1>4, <1>5, <1>6, CollectorN

LEMMA CollectorFailsN ==
    ASSUME GInv, NInv, NEW c \in Collectors, CollectorFails(c)
    PROVE  NInv'
<1>1. /\ UNCHANGED <<e_tag, history, delayed, fragments, pc, upload, fragment, cursor>>
      /\ Stop(c)
      /\ \/ garbage' = garbage
         \/ garbage' = EmptyGarbage
         \/ collector[c].pc = "put" /\ garbage' = collector[c].garbage
  BY DEF CollectorFails, PutGarbage, storage, working, Stands
<1>2. Spares
  BY <1>1, StillSpares
<1>3. InTime(history', cursor', garbage')
  <2>1. InTime(history, cursor, garbage) /\ CutoffOK(c) /\ InTime(history, cursor, EmptyGarbage)
    BY DEF NInv, InTime
  <2> QED BY <1>1, <2>1 DEF CutoffOK
<1> QED BY <1>1, <1>2, <1>3, StopN, CollectorN

LEMMA CollectN ==
    ASSUME GInv, NInv, ComputesRuns, NEW c \in Collectors, Collect(c)
    PROVE  NInv'
BY Phase1N, ComputeGarbageN, InstallsN, DeleteGarbageN DEF Collect

(* The answer to a request.                                                *)
LEMMA ReplyN ==
    ASSUME GInv, NInv, NEW r, NEW ok, Reply(r, ok)
    PROVE  \A d \in Collectors : SameCutoff(d) \/ CutoffOK(d)'
<1> DEFINE c == r.from
<1>1. CASE collector' = collector
  BY <1>1 DEF SameCutoff
<1>2. CASE collector' # collector
  <2>1. Stop(c) \/ collector' = [collector EXCEPT ![c].pc = "phase 3"]
    BY <1>2 DEF Reply
  <2>2. DOMAIN collector = Collectors
    BY DEF GInv, CollectionsOK
  <2>3. CASE c \notin Collectors
    <3>1. \A d \in Collectors : collector'[d] = collector[d]
      BY <2>1, <2>2, <2>3 DEF Stop
    <3> QED BY <3>1 DEF SameCutoff
  <2>4. CASE c \in Collectors
    <3> HIDE DEF c
    <3>1. CutoffOK(c)' /\ \A d \in Collectors \ {c} : collector'[d] = collector[d]
      BY <2>1, <2>4, StopN, GoesN
    <3> QED BY <3>1 DEF SameCutoff
  <2> QED BY <2>3, <2>4
<1> QED BY <1>1, <1>2

(* A step of w in phase 2: nothing of it was put.                          *)
LEMMA Phase2Step ==
    ASSUME GInv, NInv, NEW w \in Writers, UNCHANGED <<history, fragments, cursor, garbage>>,
           Forward, DOMAIN upload' = Writers,
           \A r \in delayed' : r \in delayed \/ r.kind # "manifest",
           \A v \in Writers : SameUpload(v) \/ UploadOK(v)',
           \A c \in Collectors : SameCutoff(c) \/ CutoffOK(c)'
    PROVE  NInv'
<1>1. Spares
  BY DEF Spares, NInv
<1>2. InTime(history', cursor', garbage')
  BY DEF NInv
<1> QED BY <1>1, <1>2, NInvStep

LEMMA ServePhase2N ==
    ASSUME GInv, NInv, NEW w \in Writers, ServePhase2(w)
    PROVE  NInv'
<1>1. /\ UNCHANGED <<e_tag, history, fragments, delayed, cursor, garbage>>
      /\ DOMAIN upload = Writers /\ DOMAIN pc = Writers /\ DOMAIN fragment = Writers
  BY DEF ServePhase2, storage, NInv, GInv, WriterDomains
<1>2. Forward
  BY <1>1 DEF Forward
<1>3. PICK r \in requests :
         \/ (\E ok : Reply(r, ok)) /\ UNCHANGED <<pc, upload, fragment>>
         \/ (\E ok : Reply(r, ok)) /\ Idle(w, "closed", NoStaging)
         \/ pc' = [pc EXCEPT ![w] = "collect"] /\ UNCHANGED <<upload, fragment, collector>>
  BY DEF ServePhase2, working
<1>4. CASE (\E ok : Reply(r, ok)) /\ UNCHANGED <<pc, upload, fragment>>
  BY <1>1, <1>2, <1>4, ReplyN, Phase2Step DEF SameUpload
<1>5. CASE (\E ok : Reply(r, ok)) /\ Idle(w, "closed", NoStaging)
  <2>1. Drops(w)
    BY <1>5, IdleDrops
  <2>2. \A c \in Collectors : SameCutoff(c) \/ CutoffOK(c)'
    BY <1>5, ReplyN
  <2> QED BY <1>1, <1>2, <2>1, <2>2, Phase2Step DEF Drops
<1>6. CASE pc' = [pc EXCEPT ![w] = "collect"] /\ UNCHANGED <<upload, fragment, collector>>
  <2>1. pc'[w] = "collect" /\ \A v \in Writers \ {w} : SameUpload(v)
    BY <1>1, <1>6 DEF SameUpload
  <2>2. UploadOK(w)'
    BY <2>1 DEF UploadOK, Uploaded, Linking
  <2>3. \A c \in Collectors : SameCutoff(c)
    BY <1>6 DEF SameCutoff
  <2> QED BY <1>1, <1>2, <1>6, <2>1, <2>2, <2>3, Phase2Step
<1> QED BY <1>3, <1>4, <1>5, <1>6

LEMMA InstallCollectedN ==
    ASSUME GInv, NInv, NEW w \in Writers,
           InstallCollected(w) \/ CollectConflict(w) \/ CrashInPhase2(w)
    PROVE  NInv'
<1>1. /\ UNCHANGED <<history, fragments, cursor, garbage>> /\ e_tag \in Nat
      /\ e_tag' = e_tag \/ e_tag' = e_tag + 1
      /\ delayed' \in {delayed, delayed \cup {CollectedInFlight(w)}}
  BY DEF InstallCollected, CollectConflict, CrashInPhase2, PutCollected, GInv
<1>2. Forward
  BY <1>1 DEF Forward
<1>3. \A r \in delayed' : r \in delayed \/ r.kind # "manifest"
  BY <1>1 DEF CollectedInFlight
<1>4. CASE UNCHANGED <<pc, upload, fragment, collector>>
  BY <1>1, <1>2, <1>3, <1>4, Phase2Step DEF SameUpload, SameCutoff, NInv
<1>5. CASE /\ \E ok : Answer(w, ok)
           /\ \/ \E state, stage : Idle(w, state, stage)
              \/ \E why, attempt, open : Reopen(w, why, attempt, open)
  <2>1. Drops(w)
    BY <1>5, IdleDrops, ReopenDrops
  <2>2. \A c \in Collectors : SameCutoff(c) \/ CutoffOK(c)'
    BY <1>5, ReplyN DEF Answer
  <2> QED BY <1>1, <1>2, <1>3, <2>1, <2>2, Phase2Step DEF Drops
<1>6. CASE InstallCollected(w)
  <2>1. \/ UNCHANGED <<pc, upload, fragment, collector>>
        \/ (\E ok : Answer(w, ok)) /\ \E state, stage : Idle(w, state, stage)
    BY <1>6 DEF InstallCollected, working
  <2> QED BY <1>4, <1>5, <2>1
<1>7. CASE CollectConflict(w) \/ CrashInPhase2(w)
  <2>1. /\ \E ok : Answer(w, ok)
        /\ Reopen(w, "open", 0, 1) \/ Idle(w, "none", NoStaging)
    BY <1>7 DEF CollectConflict, CrashInPhase2
  <2> QED BY <1>5, <2>1
<1> QED BY <1>6, <1>7

LEMMA DelayedCollectedN ==
    ASSUME GInv, NInv, NEW r \in delayed, DelayedCollected(r)
    PROVE  NInv'
<1>1. /\ UNCHANGED <<history, fragments, pc, upload, fragment>> /\ UNCHANGED gc_vars
      /\ e_tag' = e_tag \/ e_tag' = e_tag + 1
      /\ delayed' \subseteq delayed
  BY DEF DelayedCollected, PutCollected, working
<1>2. Spares
  BY <1>1 DEF Spares, Forward, NInv, gc_vars
<1> QED BY <1>1, <1>2, NoWriterN

LEMMA UpdateCursorN ==
    ASSUME GInv, NInv, NEW position, UpdateCursor(position)
    PROVE  NInv'
<1>1. /\ UNCHANGED <<e_tag, history, fragments, delayed, pc, upload, fragment, garbage, collector>>
      /\ cursor' \in Nat /\ cursor <= cursor'
  BY DEF UpdateCursor, vars, storage, working, NInv
<1>2. Spares
  BY <1>1 DEF Spares, Forward
<1>3. InTime(history', cursor', garbage')
  BY <1>1, <1>2, SparesKeeps DEF NInv
<1>4. (\A v \in Writers : SameUpload(v)) /\ \A c \in Collectors : SameCutoff(c)
  BY <1>1 DEF SameUpload, SameCutoff
<1> QED BY <1>1, <1>2, <1>3, <1>4, NInvStep DEF NInv

LEMMA StillN ==
    ASSUME GInv, NInv, UNCHANGED all_vars
    PROVE  NInv'
<1>1. /\ UNCHANGED <<e_tag, history, fragments, delayed, pc, upload, fragment, cursor>>
      /\ UNCHANGED gc_vars
  BY DEF all_vars, vars, storage, working, gc_vars
<1> QED BY <1>1, StillSpares, NoWriterN

LEMMA GCNextKeepsN ==
    ASSUME GInv, NInv, ComputesRuns, [GCNext]_all_vars
    PROVE  NInv'
BY StillN, UpdateCursorN, AppendStepN, CollectN, CollectorFailsN, ServePhase2N, InstallCollectedN,
   DelayedCollectedN DEF GCNext, GCFinished

LEMMA GCInitHoldsN == GCInit => NInv
<1> SUFFICES ASSUME GCInit
             PROVE  NInv
  OBVIOUS
<1> USE DEF GCInit, Init
<1>1. cursor \in Nat /\ DOMAIN upload = Writers /\ Len(history) = 0 /\ delayed = {}
  BY DEF None
<1>2. \A w \in Writers : UploadOK(w)
  BY DEF UploadOK, Uploaded, Linking
<1>3. InTime(history, cursor, garbage)
  BY DEF InTime
<1>4. \A c \in Collectors : CutoffOK(c)
  <2>1. \A c \in Collectors : collector[c].pc = "idle" /\ "cutoff" \in DOMAIN collector[c]
    BY DEF NoCollection
  <2> QED BY <2>1 DEF CutoffOK
<1> HIDE DEF GCInit, Init
<1> QED BY <1>1, <1>2, <1>3, <1>4 DEF NInv

(* Storage holds every record that a cursor still needs, however many      *)
(* writers and collectors there are, wherever they fail, and however far   *)
(* writers lag behind.                                                     *)
THEOREM NeededStays == GCSpec /\ []ComputesRuns => []NeededIsStored
<1>1. GCInit => GInv /\ NInv
  BY GCInitHolds, GCInitHoldsN
<1>2. GInv /\ NInv /\ ComputesRuns /\ [GCNext]_all_vars => GInv' /\ NInv'
  BY GCNextKeeps, GCNextKeepsN
<1>3. GInv /\ NInv => NeededIsStored
  <2> SUFFICES ASSUME GInv, NInv, NEW f \in ToSet(history), f.limit > cursor
               PROVE  f.seq_no \in DOMAIN fragments /\ fragments[f.seq_no] = f
    BY DEF NeededIsStored
  <2>1. DOMAIN history = 1..Len(history) /\ Len(history) \in Nat
    BY LogEnds DEF GInv
  <2>2. PICK n \in 1..Len(history) : f = history[n]
    BY <2>1 DEF ToSet
  <2>3. EndOf(history, n) = f.limit
    BY <2>1, <2>2 DEF EndOf
  <2> QED BY <2>2, <2>3 DEF NInv, Filed
<1> QED BY <1>1, <1>2, <1>3, PTL DEF GCSpec

-----------------------------------------------------------------------------
(* Collections: what is left behind.  Whatever the manifest has let go of  *)
(* is accounted for: named by gc/GARBAGE, deleted before, or abandoned     *)
(* when gc/GARBAGE was reset without applying.                             *)

Accounted == FragmentsToDelete(garbage) \cup removed \cup abandoned

(* Every seq_no below limit, or below the first of m, is in acc.           *)
UpTo(acc, limit) == limit \in Nat /\ \A n \in Nat \ {0} : n < limit => n \in acc
StartCovered(acc, m) == UpTo(acc, FirstOf(m))

(* This is so for every manifest there is, however old: storage's, those   *)
(* of puts that may yet arrive, of writers and of collectors.              *)
RequestsCovered == \A r \in delayed : r.kind # "fragment" => StartCovered(Accounted, r.manifest)

WriterCovered(w) ==
    StartCovered(Accounted, staging[w].manifest) /\ StartCovered(Accounted, pulled[w].manifest)

Fields == {"pc", "round", "manifest", "cutoff", "tries", "garbage", "e_tag"}

(* The garbage that c computes goes on where its manifest starts, and      *)
(* replaces none.  What c resets is what it has deleted.                   *)
CollectorTracks(c) ==
    LET s == collector[c]
    IN  /\ DOMAIN s = Fields
        /\ StartCovered(Accounted, s.manifest)
        /\ s.e_tag \in Nat /\ s.e_tag <= garbage_e_tag
        /\ s.pc \in {"make", "put"} => s.garbage.fragments_to_drop_start = FirstOf(s.manifest)
        /\ s.pc \in {"compute", "make", "put"} /\ s.e_tag = garbage_e_tag =>
              garbage = EmptyGarbage
        /\ s.pc \in {"delete", "done"} /\ s.e_tag = garbage_e_tag => garbage = s.garbage
        /\ s.pc = "done" => FragmentsToDelete(s.garbage) \subseteq removed

TInv ==
    /\ garbage_e_tag \in Nat
    /\ UpTo(Accounted, garbage.fragments_to_drop_limit)
    /\ StartCovered(Accounted, manifest)
    /\ RequestsCovered
    /\ \A w \in Writers : WriterCovered(w)
    /\ \A c \in Collectors : CollectorTracks(c)

(* What a step may do: account for more, and replace gc/GARBAGE by a new   *)
(* version.                                                                *)
AccountGrows ==
    /\ Accounted \subseteq Accounted' /\ removed \subseteq removed'
    /\ \/ garbage' = garbage /\ garbage_e_tag' = garbage_e_tag
       \/ garbage_e_tag' = garbage_e_tag + 1

SameHeld(v) == staging'[v] = staging[v] /\ pulled'[v] = pulled[v]

LEMMA CoversMore ==
    ASSUME NEW acc, NEW more, acc \subseteq more
    PROVE  /\ \A n : UpTo(acc, n) => UpTo(more, n)
           /\ \A m : StartCovered(acc, m) => StartCovered(more, m)
BY DEF UpTo, StartCovered

(* A new log has let go of nothing.                                        *)
LEMMA NewCovered == \A acc : StartCovered(acc, new_empty)
BY DEF StartCovered, UpTo, FirstOf, new_empty, UnwrapOr, None, BEGIN

LEMMA CollectorKeeps ==
    ASSUME TInv, AccountGrows, NEW c \in Collectors, collector'[c] = collector[c]
    PROVE  CollectorTracks(c)'
<1>1. CollectorTracks(c) /\ garbage_e_tag \in Nat
  BY DEF TInv
<1>2. StartCovered(Accounted', collector[c].manifest)
  BY <1>1, CoversMore DEF AccountGrows, CollectorTracks
<1>3. CASE garbage' = garbage /\ garbage_e_tag' = garbage_e_tag
  BY <1>1, <1>2, <1>3 DEF AccountGrows, CollectorTracks
<1>4. CASE garbage_e_tag' = garbage_e_tag + 1
  <2>1. /\ collector[c].e_tag \in Nat /\ collector[c].e_tag <= garbage_e_tag'
        /\ collector[c].e_tag # garbage_e_tag'
    BY <1>1, <1>4 DEF CollectorTracks
  <2> QED BY <1>1, <1>2, <2>1 DEF AccountGrows, CollectorTracks
<1> QED BY <1>3, <1>4 DEF AccountGrows

LEMMA TInvStep ==
    ASSUME TInv, AccountGrows, UpTo(Accounted', garbage'.fragments_to_drop_limit),
           StartCovered(Accounted', manifest'),
           \A r \in delayed' : r \in delayed \/ (r.kind # "fragment" => StartCovered(Accounted', r.manifest)),
           \A v \in Writers : SameHeld(v) \/ WriterCovered(v)',
           \A c \in Collectors : collector'[c] = collector[c] \/ CollectorTracks(c)'
    PROVE  TInv'
<1>1. \A m : StartCovered(Accounted, m) => StartCovered(Accounted', m)
  BY CoversMore DEF AccountGrows
<1>2. garbage_e_tag' \in Nat
  BY DEF TInv, AccountGrows
<1>3. RequestsCovered'
  BY <1>1 DEF TInv, RequestsCovered
<1>4. \A w \in Writers : WriterCovered(w)'
  BY <1>1 DEF TInv, WriterCovered, SameHeld
<1>5. \A c \in Collectors : CollectorTracks(c)'
  BY CollectorKeeps
<1> QED BY <1>2, <1>3, <1>4, <1>5 DEF TInv

-----------------------------------------------------------------------------
(* The steps of appending, and what is left behind.                        *)

(* After a step of w: it holds manifests that are covered.                 *)
Clears(w) ==
    /\ StartCovered(Accounted, staging'[w].manifest) /\ StartCovered(Accounted, pulled'[w].manifest)
    /\ \A v \in Writers \ {w} : SameHeld(v)

LEMMA WriterT ==
    ASSUME TInv, NEW w \in Writers, Clears(w), UNCHANGED gc_vars, StartCovered(Accounted, manifest'),
           \A r \in delayed' : r \in delayed \/ (r.kind # "fragment" => StartCovered(Accounted, r.manifest))
    PROVE  TInv'
<1>1. UNCHANGED <<garbage, garbage_e_tag, collector, removed, abandoned>>
  BY DEF gc_vars
<1>2. Accounted' = Accounted /\ AccountGrows
  BY <1>1 DEF Accounted, AccountGrows
<1>3. WriterCovered(w)' /\ \A v \in Writers : SameHeld(v) \/ WriterCovered(v)'
  BY <1>2 DEF WriterCovered, Clears
<1>4. UpTo(Accounted', garbage'.fragments_to_drop_limit)
  BY <1>1, <1>2 DEF TInv
<1> QED BY <1>1, <1>2, <1>3, <1>4, TInvStep

LEMMA HeldIs ==
    ASSUME GInv, TInv, NEW w \in Writers
    PROVE  /\ DOMAIN staging = Writers /\ DOMAIN pulled = Writers /\ DOMAIN pc = Writers
           /\ StartCovered(Accounted, manifest) /\ WriterCovered(w)
           /\ StartCovered(Accounted, NoStaging.manifest) /\ StartCovered(Accounted, NothingPulled.manifest)
BY NewCovered DEF GInv, WriterDomains, TInv, NoStaging, NewStaging, Staging, NothingPulled

LEMMA IdleClears ==
    ASSUME GInv, TInv, NEW w \in Writers, NEW state, NEW stage, Idle(w, state, stage),
           StartCovered(Accounted, stage.manifest)
    PROVE  Clears(w)
<1>1. staging' = [staging EXCEPT ![w] = stage] /\ pulled' = [pulled EXCEPT ![w] = NothingPulled]
  BY DEF Idle, ClearWork
<1> QED BY <1>1, HeldIs DEF Clears, SameHeld

LEMMA ReopenClears ==
    ASSUME GInv, TInv, NEW w \in Writers, NEW why, NEW attempt, NEW open,
           Reopen(w, why, attempt, open)
    PROVE  Clears(w)
<1>1. staging' = [staging EXCEPT ![w] = NoStaging] /\ pulled' = [pulled EXCEPT ![w] = NothingPulled]
  BY DEF Reopen, ClearWork
<1> QED BY <1>1, HeldIs DEF Clears, SameHeld

LEMMA ReturnClears ==
    ASSUME GInv, TInv, NEW w \in Writers, NEW status, NEW position, NEW state,
           Return(w, status, position, state, NoStaging) \/ Idle(w, state, NoStaging)
    PROVE  Clears(w)
BY IdleClears, HeldIs DEF Return

LEMMA OpenFailsClears ==
    ASSUME GInv, TInv, NEW w \in Writers, NEW err, OpenFails(w, err) \/ EnsureOpenErr(w, err)
    PROVE  Clears(w)
<1>1. goal[w] \in {"open", "append", "confirm"}
  BY DEF GInv, CallsOK
<1>2. CASE EnsureOpenErr(w, err)
  BY <1>1, <1>2, ReturnClears DEF EnsureOpenErr
<1>3. CASE OpenFails(w, err)
  BY <1>2, <1>3, ReopenClears DEF OpenFails
<1> QED BY <1>2, <1>3

LEMMA PublishFailsClears ==
    ASSUME GInv, TInv, NEW w \in Writers, NEW err, PublishFails(w, err) \/ AppendFails(w, err)
    PROVE  Clears(w)
<1>1. CASE AppendFails(w, err)
  BY <1>1, AppendFailsIs, ReopenClears, ReturnClears
<1>2. CASE PublishFails(w, err)
  BY <1>1, <1>2, OpenFailsClears DEF PublishFails
<1> QED BY <1>1, <1>2

(* What w has in flight carries what w holds.                              *)
LEMMA InFlightCovered ==
    ASSUME TInv, NEW w \in Writers, NEW r \in InFlight(w)
    PROVE  r.kind # "fragment" => StartCovered(Accounted, r.manifest)
BY DEF InFlight, TInv, WriterCovered

(* Steps of w that do not change what it holds, or drop it.                *)
LEMMA HoldingT ==
    ASSUME GInv, TInv, NEW w \in Writers, UNCHANGED gc_vars,
           UNCHANGED <<staging, pulled>> \/ Clears(w),
           UNCHANGED manifest, delayed' \in {delayed, delayed \cup InFlight(w)}
    PROVE  TInv'
<1>1. Clears(w)
  BY HeldIs DEF Clears, SameHeld, WriterCovered
<1>2. \A r \in delayed' : r \in delayed \/ (r.kind # "fragment" => StartCovered(Accounted, r.manifest))
  BY InFlightCovered
<1> QED BY <1>1, <1>2, HeldIs, WriterT

LEMMA OpeningT ==
    ASSUME GInv, TInv, NEW w \in Writers, UNCHANGED gc_vars,
           \/ Open(w) \/ (\E b \in Batches : AppendMany(w, b)) \/ LoadManifest(w)
           \/ NothingToRecover(w) \/ ReadFragment(w)
           \/ MarkRecovered(w) \/ MarkRecoveredFails(w) \/ ReadFails(w)
    PROVE  TInv'
<1>1. UNCHANGED <<manifest, delayed>>
  BY DEF Open, AppendMany, LoadManifest, NothingToRecover, ReadFragment, MarkRecovered,
         MarkRecoveredFails, ReadFails, storage
<1>2. CASE Open(w) \/ (\E b \in Batches : AppendMany(w, b)) \/ ReadFragment(w) \/ MarkRecovered(w)
  <2>1. UNCHANGED <<staging, pulled>>
    BY <1>2 DEF Open, AppendMany, ReadFragment, MarkRecovered, working
  <2> QED BY <1>1, <2>1, HoldingT
<1>3. CASE LoadManifest(w)
  <2>1. staging' = [staging EXCEPT ![w] = NewStaging(manifest, e_tag)] /\ pulled' = pulled
    BY <1>3 DEF LoadManifest, working
  <2>2. staging'[w].manifest = manifest /\ \A v \in Writers \ {w} : SameHeld(v)
    BY <2>1, HeldIs DEF SameHeld, NewStaging, Staging
  <2>3. Clears(w)
    BY <2>1, <2>2, HeldIs DEF Clears, WriterCovered
  <2> QED BY <1>1, <2>3, HoldingT
<1>4. CASE NothingToRecover(w)
  <2>1. \/ UNCHANGED <<staging, pulled>>
        \/ Idle(w, "open", staging[w])
    BY <1>4 DEF NothingToRecover, Return, working
  <2>2. UNCHANGED <<staging, pulled>> \/ Clears(w)
    BY <2>1, IdleClears, HeldIs DEF WriterCovered
  <2> QED BY <1>1, <2>2, HoldingT
<1>5. CASE MarkRecoveredFails(w) \/ ReadFails(w)
  <2>1. Clears(w)
    BY <1>5, OpenFailsClears DEF MarkRecoveredFails, ReadFails
  <2> QED BY <1>1, <2>1, HoldingT
<1> QED BY <1>2, <1>3, <1>4, <1>5

LEMMA WritingT ==
    ASSUME GInv, TInv, NEW w \in Writers, UNCHANGED gc_vars,
           \/ TakeWork(w) \/ UploadParquet(w) \/ UploadConflict(w) \/ UploadTimeout(w)
           \/ MarkDirty(w) \/ MarkDirtyFails(w) \/ JoinUploadAndMark(w)
    PROVE  TInv'
<1>1. UNCHANGED manifest /\ delayed' \in {delayed, delayed \cup InFlight(w)}
  BY DEF TakeWork, UploadParquet, UploadConflict, UploadTimeout, MarkDirty, MarkDirtyFails,
         JoinUploadAndMark, storage
<1>2. CASE TakeWork(w)
  <2> DEFINE s == staging[w]
             limit == s.next_log_position + NumRecords[batch[w]]
             stage == Staging(s.manifest, s.e_tag, limit, s.next_seq_no_to_assign + 1,
                              s.next_seq_no_to_apply)
  <2>1. staging' = [staging EXCEPT ![w] = stage] /\ pulled' = pulled
    BY <1>2 DEF TakeWork
  <2>2. stage.manifest = staging[w].manifest
    BY DEF Staging
  <2> HIDE DEF stage
  <2>3. Clears(w)
    BY <2>1, <2>2, HeldIs DEF Clears, SameHeld, WriterCovered
  <2> QED BY <1>1, <2>3, HoldingT
<1>3. CASE UploadParquet(w) \/ UploadConflict(w) \/ UploadTimeout(w) \/ MarkDirty(w)
           \/ MarkDirtyFails(w)
  <2>1. UNCHANGED <<staging, pulled>>
    BY <1>3 DEF UploadParquet, UploadConflict, UploadTimeout, MarkDirty, MarkDirtyFails
  <2> QED BY <1>1, <2>1, HoldingT
<1>4. CASE JoinUploadAndMark(w)
  <2>1. UNCHANGED <<staging, pulled>> \/ \E err : AppendFails(w, err)
    BY <1>4 DEF JoinUploadAndMark, working
  <2>2. UNCHANGED <<staging, pulled>> \/ Clears(w)
    BY <2>1, PublishFailsClears
  <2> QED BY <1>1, <2>2, HoldingT
<1> QED BY <1>2, <1>3, <1>4

(* Linking a fragment and rolling up let go of nothing.                    *)
LEMMA FirstStays ==
    ASSUME NEW m, NEW f, NEW s
    PROVE  /\ FirstOf(apply_fragment(m, f)) = FirstOf(m)
           /\ FirstOf(apply_snapshot(m, s)) = FirstOf(m)
BY DEF FirstOf, apply_fragment, apply_snapshot

LEMMA PullWorkT ==
    ASSUME GInv, TInv, NEW w \in Writers, UNCHANGED gc_vars, PullWork(w)
    PROVE  TInv'
<1> DEFINE s == staging[w]
           applied == apply_fragment(s.manifest, fragment[w])
           rollup == generate_snapshot(applied)
           p == IF rollup = {} THEN applied
                ELSE apply_snapshot(applied, CHOOSE r \in rollup : TRUE)
<1>1. UNCHANGED <<manifest, delayed>>
  BY DEF PullWork, storage
<1>2. FirstOf(p) = FirstOf(s.manifest)
  <2>1. FirstOf(applied) = FirstOf(s.manifest)
    BY FirstStays
  <2> HIDE DEF applied, rollup
  <2> QED BY <2>1, FirstStays
<1>3. CASE PublishFails(w, "error")
  BY <1>1, <1>3, PublishFailsClears, HoldingT
<1>4. CASE ~PublishFails(w, "error")
  <2>1. /\ pulled' = [pulled EXCEPT ![w] = [manifest |-> p, snapshots |-> rollup]]
        /\ staging' = [staging EXCEPT ![w] =
              Staging(s.manifest, s.e_tag, s.next_log_position,
                      s.next_seq_no_to_assign, s.next_seq_no_to_apply + 1)]
    BY <1>4 DEF PullWork
  <2> HIDE DEF p, rollup
  <2>2. /\ pulled'[w].manifest = p /\ staging'[w].manifest = s.manifest
        /\ \A v \in Writers \ {w} : SameHeld(v)
    BY <2>1, HeldIs DEF SameHeld, Staging
  <2>3. StartCovered(Accounted, p)
    BY <1>2, HeldIs DEF WriterCovered, StartCovered
  <2>4. Clears(w)
    BY <2>2, <2>3, HeldIs DEF Clears, WriterCovered
  <2> QED BY <1>1, <2>4, HoldingT
<1> QED BY <1>3, <1>4

LEMMA LinkingT ==
    ASSUME GInv, TInv, NEW w \in Writers, UNCHANGED gc_vars,
           \/ InstallSnapshot(w) \/ InstallSnapshotFails(w) \/ InstallConflict(w)
           \/ InstallTimeout(w) \/ Crash(w)
    PROVE  TInv'
<1>1. UNCHANGED manifest /\ delayed' \in {delayed, delayed \cup InFlight(w)}
  BY DEF InstallSnapshot, InstallSnapshotFails, InstallConflict, InstallTimeout, Crash, storage
<1>2. \/ UNCHANGED <<staging, pulled>>
      \/ \E err : PublishFails(w, err)
      \/ \E status, state : Return(w, status, 0, state, NoStaging) \/ Idle(w, state, NoStaging)
  BY DEF InstallSnapshot, InstallSnapshotFails, InstallConflict, InstallTimeout, Crash, working
<1>3. UNCHANGED <<staging, pulled>> \/ Clears(w)
  BY <1>2, PublishFailsClears, ReturnClears
<1> QED BY <1>1, <1>3, HoldingT

LEMMA InstallManifestT ==
    ASSUME GInv, TInv, NEW w \in Writers, UNCHANGED gc_vars, InstallManifest(w)
    PROVE  TInv'
<1>1. manifest' = pulled[w].manifest /\ delayed' = delayed
  BY DEF InstallManifest, PutManifest
<1>2. StartCovered(Accounted, manifest')
  BY <1>1, HeldIs DEF WriterCovered
<1>3. CASE UNCHANGED <<staging, pulled>>
  <2>1. Clears(w)
    BY <1>3, HeldIs DEF Clears, SameHeld, WriterCovered
  <2> QED BY <1>1, <1>2, <2>1, WriterT
<1>4. CASE PublishFails(w, "failure")
  BY <1>1, <1>2, <1>4, PublishFailsClears, WriterT
<1>5. CASE PublishOk(w) /\ inner[w] = "open"
  <2>1. PICK stage : Idle(w, "open", stage) /\ stage.manifest = pulled[w].manifest
    BY <1>5 DEF PublishOk, Return, Staging
  <2>2. Clears(w)
    BY <1>1, <1>2, <2>1, IdleClears
  <2> QED BY <1>1, <1>2, <2>2, WriterT
<1>6. CASE PublishOk(w) /\ inner[w] # "open"
  <2>1. OpenFails(w, "retry")
    BY <1>6 DEF PublishOk
  <2> QED BY <1>1, <1>2, <2>1, OpenFailsClears, WriterT
<1> QED BY <1>3, <1>4, <1>5, <1>6 DEF InstallManifest, working

LEMMA DelayedT ==
    ASSUME GInv, TInv, NEW r \in delayed, UNCHANGED gc_vars,
           DelayedFragment(r) \/ DelayedManifest(r) \/ DelayedCollected(r)
    PROVE  TInv'
<1>1. /\ \/ manifest' = manifest
         \/ r.kind # "fragment" /\ manifest' = r.manifest
      /\ delayed' \subseteq delayed
      /\ UNCHANGED <<staging, pulled>>
  BY DEF DelayedFragment, DelayedManifest, DelayedCollected, PutManifest, PutCollected, working
<1>2. UNCHANGED <<garbage, garbage_e_tag, collector, removed, abandoned>>
  BY DEF gc_vars
<1>3. Accounted' = Accounted /\ AccountGrows
  BY <1>2 DEF Accounted, AccountGrows
<1>4. StartCovered(Accounted', manifest')
  BY <1>1, <1>3 DEF TInv, RequestsCovered
<1>5. UpTo(Accounted', garbage'.fragments_to_drop_limit)
  BY <1>2, <1>3 DEF TInv
<1>6. \A v \in Writers : SameHeld(v)
  BY <1>1 DEF SameHeld
<1> QED BY <1>1, <1>2, <1>3, <1>4, <1>5, <1>6, TInvStep

LEMMA AppendStepT ==
    ASSUME GInv, TInv, AppendStep
    PROVE  TInv'
<1>1. UNCHANGED gc_vars
  BY DEF AppendStep
<1>2. ASSUME NEW w \in Writers, Step(w)
      PROVE  TInv'
  BY <1>1, <1>2, OpeningT, WritingT, PullWorkT, LinkingT, InstallManifestT DEF Step
<1> QED BY <1>1, <1>2, OpeningT, LinkingT, DelayedT DEF AppendStep

-----------------------------------------------------------------------------
(* The steps of collecting, and what is left behind.                       *)

LEMMA CollectorIs ==
    ASSUME GInv, TInv, NEW c \in Collectors
    PROVE  /\ DOMAIN collector = Collectors /\ DOMAIN collector[c] = Fields
           /\ CollectorTracks(c) /\ StartCovered(Accounted, collector[c].manifest)
           /\ collector[c].e_tag \in Nat /\ collector[c].e_tag <= garbage_e_tag
           /\ garbage_e_tag \in Nat
BY DEF GInv, CollectionsOK, TInv, CollectorTracks

(* A step of c that writes nothing but gc/GARBAGE and files.               *)
LEMMA CollectorT ==
    ASSUME TInv, AccountGrows, NEW c \in Collectors, UNCHANGED <<manifest, delayed, staging, pulled>>,
           UpTo(Accounted', garbage'.fragments_to_drop_limit), CollectorTracks(c)',
           \A d \in Collectors \ {c} : collector'[d] = collector[d]
    PROVE  TInv'
<1>1. StartCovered(Accounted', manifest')
  BY CoversMore DEF TInv, AccountGrows
<1> QED BY <1>1, TInvStep DEF SameHeld

(* c goes on to a place where nothing is asked of what it holds.           *)
LEMMA Elsewhere ==
    ASSUME GInv, TInv, AccountGrows, NEW c \in Collectors, DOMAIN collector'[c] = Fields,
           StartCovered(Accounted, collector'[c].manifest),
           collector'[c].e_tag \in {0, collector[c].e_tag, garbage_e_tag},
           collector'[c].pc \notin {"compute", "make", "put", "delete", "done"}
    PROVE  CollectorTracks(c)'
<1>1. StartCovered(Accounted', collector'[c].manifest)
  BY CoversMore DEF AccountGrows
<1>2. collector'[c].e_tag \in Nat /\ collector'[c].e_tag <= garbage_e_tag'
  BY CollectorIs DEF AccountGrows
<1> QED BY <1>1, <1>2 DEF CollectorTracks

LEMMA StopT ==
    ASSUME GInv, TInv, AccountGrows, NEW c \in Collectors, Stop(c)
    PROVE  CollectorTracks(c)' /\ \A d \in Collectors \ {c} : collector'[d] = collector[d]
<1>1. /\ DOMAIN collector'[c] = Fields /\ collector'[c].manifest = new_empty
      /\ collector'[c].e_tag = 0 /\ collector'[c].pc = "idle"
      /\ \A d \in Collectors \ {c} : collector'[d] = collector[d]
  BY CollectorIs DEF Stop, NoCollection, Fields
<1> QED BY <1>1, NewCovered, Elsewhere

LEMMA RetryT ==
    ASSUME GInv, TInv, AccountGrows, NEW c \in Collectors, Retry(c)
    PROVE  CollectorTracks(c)' /\ \A d \in Collectors \ {c} : collector'[d] = collector[d]
<1>1. CASE Stop(c)
  BY <1>1, StopT
<1>2. CASE collector' = [collector EXCEPT ![c].pc = "load", ![c].tries = @ + 1]
  <2>1. /\ DOMAIN collector'[c] = Fields /\ collector'[c].manifest = collector[c].manifest
        /\ collector'[c].e_tag = collector[c].e_tag /\ collector'[c].pc = "load"
        /\ \A d \in Collectors \ {c} : collector'[d] = collector[d]
    BY <1>2, CollectorIs DEF Fields
  <2> QED BY <2>1, CollectorIs, Elsewhere
<1> QED BY <1>1, <1>2 DEF Retry

(* Nothing that is accounted for changes.                                  *)
LEMMA NothingGrows ==
    ASSUME TInv, UNCHANGED <<garbage, garbage_e_tag, removed, abandoned>>
    PROVE  AccountGrows /\ Accounted' = Accounted /\ UpTo(Accounted', garbage'.fragments_to_drop_limit)
BY DEF TInv, AccountGrows, Accounted

(* gc/GARBAGE is reset once its fragments are accounted for elsewhere.     *)
LEMMA ResetGrows ==
    ASSUME TInv, NEW c, PutGarbage(c, EmptyGarbage), removed \subseteq removed',
           abandoned \subseteq abandoned',
           FragmentsToDelete(garbage) \subseteq removed' \cup abandoned'
    PROVE  AccountGrows /\ UpTo(Accounted', garbage'.fragments_to_drop_limit)
<1>1. garbage' = EmptyGarbage /\ garbage_e_tag' = garbage_e_tag + 1
  BY DEF PutGarbage
<1>2. AccountGrows
  BY <1>1 DEF AccountGrows, Accounted
<1> QED BY <1>1, <1>2 DEF UpTo, EmptyGarbage

(* gc/GARBAGE, empty so far, is replaced by what c has computed.           *)
LEMMA InstallGrows ==
    ASSUME GInv, TInv, NEW c \in Collectors, Stands(c, "put"),
           PutGarbage(c, collector[c].garbage), UNCHANGED <<removed, abandoned>>
    PROVE  AccountGrows /\ UpTo(Accounted', garbage'.fragments_to_drop_limit)
<1> DEFINE g == collector[c].garbage
           start == g.fragments_to_drop_start
           limit == g.fragments_to_drop_limit
<1>1. /\ garbage = EmptyGarbage /\ start = FirstOf(collector[c].manifest)
      /\ StartCovered(Accounted, collector[c].manifest)
  BY CollectorIs DEF PutGarbage, Stands, CollectorTracks
<1>2. garbage' = g /\ garbage_e_tag' = garbage_e_tag + 1
  BY DEF PutGarbage
<1>3. FragmentsToDelete(garbage) = {}
  BY <1>1 DEF FragmentsToDelete, EmptyGarbage
<1>4. AccountGrows
  BY <1>2, <1>3 DEF AccountGrows, Accounted
<1>5. start \in Nat /\ \A n \in Nat \ {0} : n < start => n \in Accounted'
  BY <1>1, <1>4 DEF AccountGrows, StartCovered, UpTo
<1>6. limit \in Nat
  <2>1. g = EmptyGarbage \/ Cuts(history, g)
    BY GarbageHeld DEF Stands, GarbageOK
  <2>2. Len(history) \in Nat
    BY LogEnds DEF GInv
  <2> QED BY <2>1, <2>2 DEF Cuts, EmptyGarbage
<1>7. \A n \in Nat : start <= n /\ n < limit => n \in FragmentsToDelete(g)
  <2> HIDE DEF start, limit
  <2>1. FragmentsToDelete(g) = start..(limit - 1)
    BY DEF FragmentsToDelete, start, limit
  <2> QED BY <1>5, <1>6, <2>1
<1> HIDE DEF g, start, limit
<1>8. \A n \in Nat \ {0} : n < limit => n \in Accounted'
  <2>1. FragmentsToDelete(g) \subseteq Accounted'
    BY <1>2 DEF Accounted
  <2> QED BY <1>5, <1>6, <1>7, <2>1
<1> QED BY <1>2, <1>4, <1>6, <1>8 DEF UpTo, limit

LEMMA LoadingT ==
    ASSUME GInv, TInv, NEW c \in Collectors,
           \/ OpenCollector(c) \/ Cutoff(c) \/ LoadGarbage(c) \/ RequestPhase2(c)
           \/ LoadGarbageToDelete(c)
    PROVE  TInv'
<1>1. /\ UNCHANGED <<manifest, delayed, staging, pulled>>
      /\ UNCHANGED <<garbage, garbage_e_tag, removed, abandoned>>
  BY DEF OpenCollector, Cutoff, LoadGarbage, RequestPhase2, LoadGarbageToDelete, vars, storage,
         working
<1>2. AccountGrows /\ Accounted' = Accounted /\ UpTo(Accounted', garbage'.fragments_to_drop_limit)
  BY <1>1, NothingGrows
<1>3. DOMAIN collector = Collectors /\ DOMAIN collector[c] = Fields
  BY CollectorIs
<1>4. CollectorTracks(c)' /\ \A d \in Collectors \ {c} : collector'[d] = collector[d]
  <2>1. CASE OpenCollector(c)
    <3>1. /\ DOMAIN collector'[c] = Fields /\ collector'[c].manifest = manifest
          /\ collector'[c].e_tag = 0 /\ collector'[c].pc = "cutoff"
          /\ \A d \in Collectors \ {c} : collector'[d] = collector[d]
      BY <1>3, <2>1 DEF OpenCollector, NoCollection, Fields
    <3>2. StartCovered(Accounted, manifest)
      BY DEF TInv
    <3> QED BY <1>2, <3>1, <3>2, Elsewhere
  <2>2. CASE Cutoff(c)
    <3>1. CASE Stop(c)
      BY <1>2, <3>1, StopT
    <3>2. CASE \E cutoff \in 1..cursor :
                  collector' = [collector EXCEPT ![c].cutoff = cutoff,
                                                 ![c].tries = 1, ![c].pc = "load"]
      <4>1. /\ DOMAIN collector'[c] = Fields /\ collector'[c].manifest = collector[c].manifest
            /\ collector'[c].e_tag = collector[c].e_tag /\ collector'[c].pc = "load"
            /\ \A d \in Collectors \ {c} : collector'[d] = collector[d]
        BY <1>3, <3>2 DEF Fields
      <4> QED BY <1>2, <4>1, CollectorIs, Elsewhere
    <3> QED BY <2>2, <3>1, <3>2 DEF Cutoff
  <2>3. CASE LoadGarbage(c)
    <3>1. PICK to \in {"compute", "request", "reset"} :
             /\ collector' = [collector EXCEPT ![c].garbage = garbage,
                                               ![c].e_tag = garbage_e_tag, ![c].pc = to]
             /\ to = "compute" => garbage = EmptyGarbage
      BY <2>3 DEF LoadGarbage, is_empty
    <3>2. /\ DOMAIN collector'[c] = Fields /\ collector'[c].manifest = collector[c].manifest
          /\ collector'[c].e_tag = garbage_e_tag /\ collector'[c].pc = to
          /\ \A d \in Collectors \ {c} : collector'[d] = collector[d]
      BY <1>3, <3>1 DEF Fields
    <3>3. CASE to # "compute"
      BY <1>2, <3>1, <3>2, <3>3, CollectorIs, Elsewhere
    <3>4. CASE to = "compute"
      BY <1>1, <1>2, <3>1, <3>2, <3>4, CollectorIs DEF CollectorTracks
    <3> QED BY <3>3, <3>4
  <2>4. CASE RequestPhase2(c)
    <3>1. /\ DOMAIN collector'[c] = Fields /\ collector'[c].manifest = collector[c].manifest
          /\ collector'[c].e_tag = collector[c].e_tag /\ collector'[c].pc = "phase 2"
          /\ \A d \in Collectors \ {c} : collector'[d] = collector[d]
      BY <1>3, <2>4 DEF RequestPhase2, Fields
    <3> QED BY <1>2, <3>1, CollectorIs, Elsewhere
  <2>5. CASE LoadGarbageToDelete(c)
    <3>1. CASE Stop(c)
      BY <1>2, <3>1, StopT
    <3>2. CASE collector' = [collector EXCEPT ![c].garbage = garbage,
                                ![c].e_tag = garbage_e_tag, ![c].pc = "delete"]
      <4>1. /\ DOMAIN collector'[c] = Fields /\ collector'[c].manifest = collector[c].manifest
            /\ collector'[c].e_tag = garbage_e_tag /\ collector'[c].pc = "delete"
            /\ collector'[c].garbage = garbage
            /\ \A d \in Collectors \ {c} : collector'[d] = collector[d]
        BY <1>3, <3>2 DEF Fields
      <4> QED BY <1>1, <1>2, <4>1, CollectorIs DEF CollectorTracks
    <3> QED BY <2>5, <3>1, <3>2 DEF LoadGarbageToDelete
  <2> QED BY <2>1, <2>2, <2>3, <2>4, <2>5
<1> QED BY <1>1, <1>2, <1>4, CollectorT

LEMMA ComputeGarbageT ==
    ASSUME GInv, TInv, ComputesRuns, NEW c \in Collectors, ComputeGarbage(c)
    PROVE  TInv'
<1> DEFINE computed == garbage_new(snapshots, collector[c].manifest, collector[c].cutoff)
           g == computed.garbage
<1>1. /\ UNCHANGED <<manifest, delayed, staging, pulled>> /\ Stands(c, "compute")
      /\ UNCHANGED <<garbage, garbage_e_tag, removed, abandoned>>
  BY DEF ComputeGarbage, vars, storage, working
<1>2. AccountGrows /\ Accounted' = Accounted /\ UpTo(Accounted', garbage'.fragments_to_drop_limit)
  BY <1>1, NothingGrows
<1>3. computed.kind = "ok" => g.fragments_to_drop_start = FirstOf(collector[c].manifest)
  BY <1>1 DEF ComputesRuns
<1>4. CASE computed.kind = "ok"
  <2>1. collector' = [collector EXCEPT ![c].garbage = g, ![c].pc = "make"]
    BY <1>4 DEF ComputeGarbage
  <2> HIDE DEF computed, g
  <2>2. /\ DOMAIN collector'[c] = Fields /\ collector'[c].manifest = collector[c].manifest
        /\ collector'[c].e_tag = collector[c].e_tag /\ collector'[c].pc = "make"
        /\ collector'[c].garbage = g
        /\ \A d \in Collectors \ {c} : collector'[d] = collector[d]
    BY <2>1, CollectorIs DEF Fields
  <2>3. CollectorTracks(c)'
    BY <1>1, <1>2, <1>3, <1>4, <2>2, CollectorIs DEF CollectorTracks, Stands
  <2> QED BY <1>1, <1>2, <2>2, <2>3, CollectorT
<1>5. CASE computed.kind # "ok"
  <2>1. Stop(c)
    BY <1>5 DEF ComputeGarbage
  <2> HIDE DEF computed
  <2> QED BY <1>1, <1>2, <2>1, StopT, CollectorT
<1> QED BY <1>4, <1>5

LEMMA InstallsT ==
    ASSUME GInv, TInv, NEW c \in Collectors, MakeSnapshots(c) \/ InstallGarbage(c)
    PROVE  TInv'
<1>1. UNCHANGED <<manifest, delayed, staging, pulled, removed, abandoned>>
  BY DEF MakeSnapshots, InstallGarbage, vars, storage, working
<1>2. ASSUME NEW to, collector' = [collector EXCEPT ![c].pc = to]
      PROVE  /\ DOMAIN collector'[c] = Fields /\ collector'[c].manifest = collector[c].manifest
             /\ collector'[c].e_tag = collector[c].e_tag /\ collector'[c].pc = to
             /\ collector'[c].garbage = collector[c].garbage
             /\ \A d \in Collectors \ {c} : collector'[d] = collector[d]
  BY <1>2, CollectorIs DEF Fields
<1>3. CASE MakeSnapshots(c)
  <2>1. /\ collector' = [collector EXCEPT ![c].pc = "put"] /\ collector[c].pc = "make"
        /\ UNCHANGED <<garbage, garbage_e_tag>>
    BY <1>3 DEF MakeSnapshots, Stands
  <2>2. AccountGrows /\ Accounted' = Accounted /\ UpTo(Accounted', garbage'.fragments_to_drop_limit)
    BY <1>1, <2>1, NothingGrows
  <2>3. CollectorTracks(c)'
    BY <1>2, <2>1, <2>2, CollectorIs DEF CollectorTracks
  <2> QED BY <1>1, <1>2, <2>1, <2>2, <2>3, CollectorT
<1>4. CASE /\ PutGarbage(c, collector[c].garbage) /\ Stands(c, "put")
           /\ collector' = [collector EXCEPT ![c].pc = "request"]
  <2>1. AccountGrows /\ UpTo(Accounted', garbage'.fragments_to_drop_limit)
    BY <1>1, <1>4, InstallGrows
  <2> QED BY <1>1, <1>2, <1>4, <2>1, CollectorIs, Elsewhere, CollectorT
<1>5. CASE Retry(c) /\ UNCHANGED <<garbage, garbage_e_tag>>
  <2>1. AccountGrows /\ UpTo(Accounted', garbage'.fragments_to_drop_limit)
    BY <1>1, <1>5, NothingGrows
  <2> QED BY <1>1, <1>5, <2>1, RetryT, CollectorT
<1> QED BY <1>3, <1>4, <1>5 DEF InstallGarbage

LEMMA DeleteGarbageT ==
    ASSUME GInv, TInv, NEW c \in Collectors, DeleteGarbage(c)
    PROVE  TInv'
<1> DEFINE seq_nos == FragmentsToDelete(collector[c].garbage)
           names == SnapshotsToDelete(collector[c].garbage)
<1>1. /\ UNCHANGED <<manifest, delayed, staging, pulled, garbage, garbage_e_tag, abandoned>>
      /\ removed' = removed \cup (seq_nos \ DOMAIN fragments') /\ collector[c].pc = "delete"
  BY DEF DeleteGarbage, Stands, working
<1>2. AccountGrows /\ Accounted \subseteq Accounted'
  BY <1>1 DEF AccountGrows, Accounted
<1>3. UpTo(Accounted', garbage'.fragments_to_drop_limit)
  BY <1>1, <1>2, CoversMore DEF TInv
<1>4. CASE Stop(c)
  BY <1>1, <1>2, <1>3, <1>4, StopT, CollectorT
<1>5. CASE DeleteFiles(names, seq_nos) /\ collector' = [collector EXCEPT ![c].pc = "done"]
  <2>1. DOMAIN fragments' = DOMAIN fragments \ seq_nos
    BY <1>5 DEF DeleteFiles
  <2>2. seq_nos \subseteq removed'
    BY <1>1, <2>1
  <2>3. /\ DOMAIN collector'[c] = Fields /\ collector'[c].manifest = collector[c].manifest
        /\ collector'[c].e_tag = collector[c].e_tag /\ collector'[c].pc = "done"
        /\ collector'[c].garbage = collector[c].garbage
        /\ \A d \in Collectors \ {c} : collector'[d] = collector[d]
    BY <1>5, CollectorIs DEF Fields
  <2>4. StartCovered(Accounted', collector'[c].manifest)
    BY <1>2, <2>3, CollectorIs, CoversMore
  <2>5. CollectorTracks(c)'
    BY <1>1, <2>2, <2>3, <2>4, CollectorIs DEF CollectorTracks
  <2> QED BY <1>1, <1>2, <1>3, <2>3, <2>5, CollectorT
<1> QED BY <1>4, <1>5 DEF DeleteGarbage

(* What resets gc/GARBAGE accounts for what it named.                      *)
LEMMA ResetDoneGrows ==
    ASSUME GInv, TInv, NEW c \in Collectors, Stands(c, "done"), PutGarbage(c, EmptyGarbage),
           UNCHANGED <<removed, abandoned>>
    PROVE  AccountGrows /\ UpTo(Accounted', garbage'.fragments_to_drop_limit)
<1>1. FragmentsToDelete(garbage) \subseteq removed
  BY CollectorIs DEF CollectorTracks, Stands, PutGarbage
<1> QED BY <1>1, ResetGrows

LEMMA ResetsT ==
    ASSUME GInv, TInv, NEW c \in Collectors, ResetStale(c) \/ ResetDone(c)
    PROVE  TInv'
<1>1. UNCHANGED <<manifest, delayed, staging, pulled, removed>>
  BY DEF ResetStale, ResetDone, vars, storage, working
<1>2. AccountGrows /\ UpTo(Accounted', garbage'.fragments_to_drop_limit)
  <2>1. CASE UNCHANGED <<garbage, garbage_e_tag, abandoned>>
    BY <1>1, <2>1, NothingGrows
  <2>2. CASE /\ PutGarbage(c, EmptyGarbage)
             /\ abandoned' = abandoned \cup FragmentsToDelete(garbage)
    BY <1>1, <2>2, ResetGrows
  <2>3. CASE Stands(c, "done") /\ PutGarbage(c, EmptyGarbage) /\ UNCHANGED abandoned
    BY <1>1, <2>3, ResetDoneGrows
  <2> QED BY <2>1, <2>2, <2>3 DEF ResetStale, ResetDone
<1>3. Retry(c) \/ Stop(c)
  BY DEF ResetStale, ResetDone
<1> QED BY <1>1, <1>2, <1>3, RetryT, StopT, CollectorT

LEMMA CollectorFailsT ==
    ASSUME GInv, TInv, NEW c \in Collectors, CollectorFails(c)
    PROVE  TInv'
<1>1. UNCHANGED <<manifest, delayed, staging, pulled, removed>> /\ Stop(c)
  BY DEF CollectorFails, storage, working
<1>2. AccountGrows /\ UpTo(Accounted', garbage'.fragments_to_drop_limit)
  <2>1. CASE UNCHANGED <<garbage, garbage_e_tag, abandoned>>
    BY <1>1, <2>1, NothingGrows
  <2>2. CASE /\ PutGarbage(c, EmptyGarbage)
             /\ abandoned' = abandoned \cup FragmentsToDelete(garbage)
    BY <1>1, <2>2, ResetGrows
  <2>3. CASE Stands(c, "done") /\ PutGarbage(c, EmptyGarbage) /\ UNCHANGED abandoned
    BY <1>1, <2>3, ResetDoneGrows
  <2>4. CASE Stands(c, "put") /\ PutGarbage(c, collector[c].garbage) /\ UNCHANGED abandoned
    BY <1>1, <2>4, InstallGrows
  <2> QED BY <2>1, <2>2, <2>3, <2>4 DEF CollectorFails
<1> QED BY <1>1, <1>2, StopT, CollectorT

LEMMA CollectT ==
    ASSUME GInv, TInv, ComputesRuns, NEW c \in Collectors, Collect(c)
    PROVE  TInv'
BY LoadingT, ComputeGarbageT, InstallsT, DeleteGarbageT, ResetsT DEF Collect

LEMMA ReplyT ==
    ASSUME GInv, TInv, AccountGrows, NEW r, NEW ok, Reply(r, ok)
    PROVE  \A c \in Collectors : collector'[c] = collector[c] \/ CollectorTracks(c)'
<1>1. TAKE c \in Collectors
<1>2. DOMAIN collector = Collectors
  BY CollectorIs
<1>3. CASE collector' = collector
  BY <1>3
<1>4. CASE collector' # collector /\ r.from # c
  BY <1>2, <1>4 DEF Reply, Stop
<1>5. CASE collector' # collector /\ r.from = c
  <2>1. CASE Stop(c)
    BY <2>1, StopT
  <2>2. CASE collector' = [collector EXCEPT ![c].pc = "phase 3"]
    <3>1. /\ DOMAIN collector'[c] = Fields /\ collector'[c].manifest = collector[c].manifest
          /\ collector'[c].e_tag = collector[c].e_tag /\ collector'[c].pc = "phase 3"
      BY <2>2, CollectorIs DEF Fields
    <3> QED BY <3>1, CollectorIs, Elsewhere
  <2> QED BY <1>5, <2>1, <2>2 DEF Reply
<1> QED BY <1>3, <1>4, <1>5

(* Where a manifest without the garbage starts.                            *)
LEMMA FirstWithout ==
    ASSUME NEW m, NEW log, NEW g, Cuts(log, g)
    PROVE  FirstOf(WithoutGarbage(m, g)) = g.fragments_to_drop_limit
<1>1. g.fragments_to_drop_limit # 0
  BY DEF Cuts
<1>2. WithoutGarbage(m, g).initial_seq_no = g.fragments_to_drop_limit
  BY DEF WithoutGarbage
<1> QED BY <1>1, <1>2 DEF FirstOf, UnwrapOr, None

(* A step of w in phase 2.                                                 *)
LEMMA ServingT ==
    ASSUME GInv, TInv, NEW w \in Writers, Clears(w), StartCovered(Accounted, manifest'),
           \A r \in delayed' : r \in delayed \/ StartCovered(Accounted, r.manifest),
           collector' = collector \/ (\E r, ok : Reply(r, ok)),
           UNCHANGED <<garbage, garbage_e_tag, removed, abandoned>>
    PROVE  TInv'
<1>1. AccountGrows /\ Accounted' = Accounted /\ UpTo(Accounted', garbage'.fragments_to_drop_limit)
  BY NothingGrows
<1>2. \A v \in Writers : SameHeld(v) \/ WriterCovered(v)'
  BY <1>1 DEF WriterCovered, Clears
<1>3. \A c \in Collectors : collector'[c] = collector[c] \/ CollectorTracks(c)'
  BY <1>1, ReplyT
<1> QED BY <1>1, <1>2, <1>3, TInvStep

LEMMA ServePhase2T ==
    ASSUME GInv, TInv, NEW w \in Writers, ServePhase2(w)
    PROVE  TInv'
<1> DEFINE applied == apply_garbage(staging[w].manifest, garbage)
<1>1. UNCHANGED <<manifest, delayed, garbage, garbage_e_tag, removed, abandoned>>
  BY DEF ServePhase2, storage
<1>2. \/ UNCHANGED <<staging, pulled>> /\ (\E r, ok : Reply(r, ok))
      \/ Idle(w, "closed", NoStaging) /\ (\E r, ok : Reply(r, ok))
      \/ /\ ~is_empty(garbage) /\ applied.kind = "ok"
         /\ pulled' = [pulled EXCEPT ![w].manifest = applied.manifest]
         /\ UNCHANGED <<staging, collector>>
  BY DEF ServePhase2, working
<1>3. CASE UNCHANGED <<staging, pulled>> /\ (\E r, ok : Reply(r, ok))
  <2>1. Clears(w)
    BY <1>3, HeldIs DEF Clears, SameHeld, WriterCovered
  <2> QED BY <1>1, <1>3, <2>1, HeldIs, ServingT
<1>4. CASE Idle(w, "closed", NoStaging) /\ (\E r, ok : Reply(r, ok))
  BY <1>1, <1>4, ReturnClears, HeldIs, ServingT
<1>5. CASE /\ ~is_empty(garbage) /\ applied.kind = "ok"
           /\ pulled' = [pulled EXCEPT ![w].manifest = applied.manifest]
           /\ UNCHANGED <<staging, collector>>
  <2>1. Cuts(history, garbage)
    BY <1>5, GarbageHeld DEF GarbageOK, is_empty
  <2>2. applied.manifest = WithoutGarbage(staging[w].manifest, garbage)
    BY <1>5, Applied
  <2>3. FirstOf(applied.manifest) = garbage.fragments_to_drop_limit
    BY <2>1, <2>2, FirstWithout
  <2>4. StartCovered(Accounted, applied.manifest)
    BY <2>3 DEF TInv, StartCovered
  <2> HIDE DEF applied
  <2>5. pulled'[w].manifest = applied.manifest /\ \A v \in Writers \ {w} : SameHeld(v)
    <3>1. "manifest" \in DOMAIN pulled[w]
      BY DEF GInv, HoldsOK, Shaped
    <3> QED BY <1>5, <3>1, HeldIs DEF SameHeld
  <2>6. Clears(w)
    BY <1>5, <2>4, <2>5, HeldIs DEF Clears, WriterCovered
  <2> QED BY <1>1, <1>5, <2>6, HeldIs, ServingT
<1> QED BY <1>2, <1>3, <1>4, <1>5

LEMMA InstallCollectedT ==
    ASSUME GInv, TInv, NEW w \in Writers, InstallCollected(w)
    PROVE  TInv'
<1>1. /\ manifest' = pulled[w].manifest
      /\ UNCHANGED <<delayed, garbage, garbage_e_tag, removed, abandoned>>
  BY DEF InstallCollected, PutCollected
<1>2. StartCovered(Accounted, manifest')
  BY <1>1, HeldIs DEF WriterCovered
<1>3. collector' = collector \/ (\E r, ok : Reply(r, ok))
  BY DEF InstallCollected, Answer
<1>4. Clears(w)
  <2> DEFINE stage == [staging[w] EXCEPT !.manifest = manifest', !.e_tag = e_tag']
  <2>1. CASE Idle(w, "open", stage)
    <3>1. stage.manifest = manifest'
      BY DEF GInv, HoldsOK, Shaped
    <3> HIDE DEF stage
    <3> QED BY <1>2, <2>1, <3>1, IdleClears
  <2>2. CASE Idle(w, "closed", NoStaging)
    BY <2>2, ReturnClears
  <2>3. CASE UNCHANGED <<staging, pulled>>
    BY <2>3, HeldIs DEF Clears, SameHeld, WriterCovered
  <2> QED BY <2>1, <2>2, <2>3 DEF InstallCollected, working
<1> QED BY <1>1, <1>2, <1>3, <1>4, ServingT

LEMMA CollectFailsT ==
    ASSUME GInv, TInv, NEW w \in Writers, CollectConflict(w) \/ CrashInPhase2(w)
    PROVE  TInv'
<1>1. /\ UNCHANGED <<manifest, garbage, garbage_e_tag, removed, abandoned>>
      /\ delayed' \in {delayed, delayed \cup {CollectedInFlight(w)}}
      /\ \E r, ok : Reply(r, ok)
      /\ (\E why, attempt, open : Reopen(w, why, attempt, open)) \/ Idle(w, "none", NoStaging)
  BY DEF CollectConflict, CrashInPhase2, Answer
<1>2. Clears(w)
  BY <1>1, ReopenClears, ReturnClears
<1>3. \A r \in delayed' : r \in delayed \/ StartCovered(Accounted, r.manifest)
  <2>1. CollectedInFlight(w).manifest = pulled[w].manifest
    BY DEF CollectedInFlight
  <2> QED BY <1>1, <2>1, HeldIs DEF WriterCovered
<1> QED BY <1>1, <1>2, <1>3, HeldIs, ServingT

LEMMA StillT ==
    ASSUME TInv, UNCHANGED <<vars, garbage, garbage_e_tag, collector, removed, abandoned>>
    PROVE  TInv'
BY DEF TInv, RequestsCovered, WriterCovered, CollectorTracks, Accounted, vars, storage, working

LEMMA GCNextKeepsT ==
    ASSUME GInv, TInv, ComputesRuns, [GCNext]_all_vars
    PROVE  TInv'
<1>1. CASE UNCHANGED all_vars
  BY <1>1, StillT DEF all_vars, gc_vars
<1>2. ASSUME NEW position, UpdateCursor(position)
      PROVE  TInv'
  BY <1>2, StillT DEF UpdateCursor
<1>3. ASSUME NEW r \in delayed, DelayedCollected(r)
      PROVE  TInv'
  BY <1>3, DelayedT DEF DelayedCollected
<1> QED BY <1>1, <1>2, <1>3, AppendStepT, CollectT, CollectorFailsT, ServePhase2T,
           InstallCollectedT, CollectFailsT DEF GCNext, GCFinished

LEMMA GCInitHoldsT == GCInit => TInv
<1> SUFFICES ASSUME GCInit PROVE TInv
  OBVIOUS
<1>1. garbage_e_tag = 0 /\ garbage = EmptyGarbage /\ manifest = new_empty /\ delayed = {}
  BY DEF GCInit, Init
<1>2. UpTo(Accounted, garbage.fragments_to_drop_limit)
  BY <1>1 DEF UpTo, EmptyGarbage
<1>3. \A w \in Writers : WriterCovered(w)
  BY NewCovered DEF GCInit, Init, WriterCovered, NoStaging, NewStaging, Staging, NothingPulled
<1>4. \A c \in Collectors : CollectorTracks(c)
  <2>1. \A c \in Collectors : collector[c] = NoCollection(0)
    BY DEF GCInit
  <2> QED BY <1>1, <2>1, NewCovered DEF CollectorTracks, NoCollection, Fields
<1> QED BY <1>1, <1>2, <1>3, <1>4, NewCovered DEF TInv, RequestsCovered

(* Nothing is left behind by accident: with any number of writers and      *)
(* collectors, wherever they fail and however late their requests arrive,  *)
(* a fragment that is in storage although the manifest has let go of it is *)
(* named by gc/GARBAGE, or was deleted and put again by a writer that lags *)
(* behind, or was named when a collector reset left-over garbage that did  *)
(* not apply.                                                              *)
THEOREM NothingUntracked == GCSpec /\ []ComputesRuns => []CollectedIsTracked
<1>1. GCInit => GInv /\ TInv
  BY GCInitHolds, GCInitHoldsT
<1>2. GInv /\ TInv /\ ComputesRuns /\ [GCNext]_all_vars => GInv' /\ TInv'
  BY GCNextKeeps, GCNextKeepsT
<1>3. GInv /\ TInv => CollectedIsTracked
  <2>1. ASSUME GInv PROVE \A n \in DOMAIN fragments : n \in Nat \ {0}
    BY <2>1 DEF GInv, FilesOK, Placed, IsFragment
  <2> QED BY <2>1 DEF TInv, StartCovered, UpTo, Accounted, CollectedIsTracked
<1> QED BY <1>1, <1>2, <1>3, PTL DEF GCSpec

=============================================================================

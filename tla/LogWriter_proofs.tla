-------------------------- MODULE LogWriter_proofs ---------------------------
(***************************************************************************)
(* Proofs about LogWriter, for any number of writers, batches and faults   *)
(* and any thresholds.                                                     *)
(*                                                                         *)
(* The argument: every manifest that is put links exactly one fragment, so *)
(* a manifest of version t + 1 links the fragments 1..t.  A writer whose   *)
(* manifest has version t assigns the seq_no t and no other, and may put   *)
(* the fragment t only if nobody has; its conditional put of the manifest  *)
(* goes through only if fragment t is the next one.  So the fragments in   *)
(* storage are those that are linked and at most one more.                 *)
(*                                                                         *)
(* The tree: the snapshots and the fragments of every manifest that is     *)
(* held by storage, a writer or a late request cut the log into            *)
(* consecutive runs, and so do those of every snapshot in storage; the     *)
(* setsum of each is that of its run.  The depths of a manifest's          *)
(* snapshots never rise, so what a roll-up takes is a run at the end of    *)
(* the snapshots, and what it leaves has no gap.  As long as no two runs   *)
(* of the log have the same setsum, a name stands for one snapshot, and a  *)
(* walk down the tree visits the log in order.                             *)
(***************************************************************************)
EXTENDS LogWriter, SequenceTheorems, FiniteSetTheorems, WellFoundedInduction, TLAPS

(* m links the first n of files, the last of them by itself, so that the   *)
(* next seq_no can be read off it.                                         *)
Links(files, m, n) ==
    /\ m.fragments \in Seq({files[i] : i \in DOMAIN files})
    /\ Len(m.fragments) <= n
    /\ IF n = 0 THEN m.initial_seq_no = None ELSE Len(m.fragments) > 0
    /\ \A i \in 1..Len(m.fragments) : m.fragments[i].seq_no = n - Len(m.fragments) + i

(* f is in storage.                                                        *)
Filed(files, f) == f.seq_no \in DOMAIN files /\ files[f.seq_no] = f

StorageOK ==
    /\ e_tag \in Nat \ {0}
    /\ DOMAIN fragments \subseteq 1..e_tag
    /\ \A n \in DOMAIN fragments : IsFragment(fragments[n]) /\ fragments[n].seq_no = n
    /\ history \in Seq({fragments[i] : i \in DOMAIN fragments})
    /\ Len(history) = e_tag - 1
    /\ \A i \in 1..Len(history) : i \in DOMAIN fragments /\ history[i] = fragments[i]
    /\ Links(fragments, manifest, e_tag - 1)

DelayedOK ==
    \A r \in delayed :
        /\ r.kind \in {"fragment", "manifest"}
        /\ IsFragment(r.fragment)
        /\ r.fragment.seq_no \in 1..e_tag
        /\ r.kind = "manifest" =>
              /\ r.e_tag = r.fragment.seq_no
              /\ Filed(fragments, r.fragment)
              /\ Links(fragments, r.manifest, r.e_tag)

(* w holds a manifest.                                                     *)
Loaded(w) == pc[w] # "open" /\ (pc[w] = "idle" => inner[w] = "open")

(* w links a fragment, or writes or links the one of its own batch.        *)
Linking(w) == pc[w] \in {"publish", "snapshot", "install"}
Appending(w) == pc[w] = "write" \/ (Linking(w) /\ inner[w] = "open")

StagingOK(w) ==
    LET s == staging[w]
        f == fragment[w]
    IN  /\ Loaded(w) => s.e_tag \in 1..e_tag /\ Links(fragments, s.manifest, s.e_tag - 1)
        /\ (Loaded(w) /\ pc[w] \in {"idle", "recover", "mark recovered", "ready"}) =>
              s.next_seq_no_to_assign = s.e_tag
        /\ (Loaded(w) /\ pc[w] \notin {"snapshot", "install"}) =>
              s.next_seq_no_to_apply = s.e_tag
        /\ pc[w] \in {"snapshot", "install"} =>
              /\ s.next_seq_no_to_apply = s.e_tag + 1
              /\ Links(fragments, pulled[w].manifest, s.e_tag)
        /\ Appending(w) =>
              /\ s.next_seq_no_to_assign = s.e_tag + 1
              /\ f.batch = batch[w]
        /\ (pc[w] \in {"mark recovered", "write"} \/ Linking(w)) =>
              IsFragment(f) /\ f.seq_no = s.e_tag
        /\ (pc[w] = "mark recovered" \/ Linking(w)) => Filed(fragments, f)
        /\ (pc[w] = "write" /\ upload[w] = "ok") => Filed(fragments, f)

ControlOK(w) ==
    /\ pc[w] \in {"ready", "write"} => inner[w] = "open"
    /\ pc[w] \in {"open", "recover", "mark recovered"} => inner[w] # "open"
    /\ pc[w] = "idle" => goal[w] = "open"
    /\ (pc[w] # "idle" /\ inner[w] = "open") => goal[w] = "append"
    /\ pc[w] \in {"idle", "open", "recover", "mark recovered", "ready"} =>
          upload[w] = "wait"
    /\ goal[w] # "open" => batch[w] \in Batches
    /\ goal[w] = "confirm" =>
          \E n \in DOMAIN fragments : fragments[n].batch = batch[w]

Domains ==
    /\ DOMAIN staging = Writers
    /\ DOMAIN fragment = Writers
    /\ DOMAIN pulled = Writers
    /\ DOMAIN result = Batches

ResultOK == \A b \in Batches : result[b].status \in Statuses

IInv ==
    /\ WriterTypeOK
    /\ Domains
    /\ ResultOK
    /\ faults \in 0..MaxFaults
    /\ StorageOK
    /\ DelayedOK
    /\ \A w \in Writers : StagingOK(w) /\ ControlOK(w)

-----------------------------------------------------------------------------
(* Lemmas about manifests.                                                 *)

(* A file of its own seq_no in storage.                                    *)
Numbered(files) ==
    /\ DOMAIN files \subseteq Nat \ {0}
    /\ \A n \in DOMAIN files : files[n].seq_no = n

(* Links is not disturbed when files are added.                            *)
LEMMA LinksGrow ==
    ASSUME NEW files, NEW more, DOMAIN files \subseteq DOMAIN more,
           \A n \in DOMAIN files : more[n] = files[n],
           NEW m, NEW n \in Nat, Links(files, m, n)
    PROVE  Links(more, m, n)
<1> DEFINE S == {files[i] : i \in DOMAIN files}
           T == {more[i] : i \in DOMAIN more}
<1>1. S \subseteq T
  OBVIOUS
<1>2. m.fragments \in Seq(S)
  BY DEF Links
<1>3. m.fragments \in Seq(T)
  <2> HIDE DEF S, T
  <2> QED BY <1>1, <1>2, SeqMonotonic
<1> QED BY <1>3 DEF Links

(* The greatest of a set of integers.                                      *)
LEMMA MaxIs ==
    ASSUME NEW Q, NEW n \in Q, \A x \in Q : x \in Int /\ x <= n
    PROVE  Max(Q) = n
<1>1. \E x \in Q : \A y \in Q : x >= y
  OBVIOUS
<1>2. Max(Q) \in Q /\ \A y \in Q : Max(Q) >= y
  BY <1>1 DEF Max
<1> QED BY <1>2

(* The greatest of consecutive seq_nos is the last.                        *)
LEMMA LastSeqNo ==
    ASSUME NEW q, NEW k \in Nat \ {0}, NEW n \in Int, DOMAIN q = 1..k,
           \A i \in 1..k : q[i].seq_no = n - k + i
    PROVE  Max(SeqNos(q)) = n
<1>1. k \in DOMAIN q /\ q[k].seq_no = n
  BY SMT
<1>2. n \in SeqNos(q)
  BY <1>1 DEF SeqNos
<1>3. \A i \in DOMAIN q : q[i].seq_no \in Int /\ q[i].seq_no <= n
  BY SMT
<1>4. \A x \in SeqNos(q) : x \in Int /\ x <= n
  BY <1>3 DEF SeqNos
<1> QED BY <1>2, <1>4, MaxIs

(* The seq_no after a manifest that links n fragments is n + 1.            *)
LEMMA LinksNext ==
    ASSUME NEW files, Numbered(files), NEW m, NEW n \in Nat, Links(files, m, n)
    PROVE  /\ next_fragment_seq_no(m) = n + 1
           /\ n # 0 => Max(SeqNos(m.fragments)) = n
<1> DEFINE S == {files[i] : i \in DOMAIN files}
<1>1. m.fragments \in Seq(S)
  BY DEF Links
<1>2. CASE n = 0
  <2>1. Len(m.fragments) = 0 /\ m.initial_seq_no = None
    BY <1>1, <1>2 DEF Links
  <2>2. m.fragments = <<>>
    BY <1>1, <2>1
  <2> QED BY <1>2, <2>1, <2>2 DEF next_fragment_seq_no, UnwrapOr, None, BEGIN
<1>3. CASE n # 0
  <2> DEFINE k == Len(m.fragments)
  <2>1. k \in Nat /\ k > 0 /\ DOMAIN m.fragments = 1..k /\ m.fragments # <<>>
    BY <1>1, <1>3 DEF Links
  <2>2. \A i \in 1..k : m.fragments[i].seq_no = n - k + i
    BY DEF Links
  <2>5. Max(SeqNos(m.fragments)) = n
    <3> HIDE DEF k
    <3> QED BY <2>1, <2>2, LastSeqNo
  <2> QED BY <2>1, <2>5, <1>3 DEF next_fragment_seq_no
<1> QED BY <1>2, <1>3

(* Applying the next fragment links one fragment more.                     *)
LEMMA LinksAppend ==
    ASSUME NEW files, Numbered(files), NEW m, NEW n \in Nat, Links(files, m, n),
           NEW f, Filed(files, f), f.seq_no = n + 1
    PROVE  Links(files, apply_fragment(m, f), n + 1)
<1> DEFINE S == {files[i] : i \in DOMAIN files}
           a == apply_fragment(m, f)
<1>1. m.fragments \in Seq(S) /\ f \in S
  BY DEF Links, Filed
<1>2. a.fragments = Append(m.fragments, f)
  BY DEF apply_fragment
<1>3. /\ a.fragments \in Seq(S)
      /\ Len(a.fragments) = Len(m.fragments) + 1
      /\ \A i \in 1..Len(m.fragments) : a.fragments[i] = m.fragments[i]
      /\ a.fragments[Len(m.fragments) + 1] = f
  <2> HIDE DEF S, a
  <2> QED BY <1>1, <1>2, AppendProperties
<1> DEFINE k == Len(m.fragments)
<1>4. k \in Nat /\ k <= n
  <2>1. k \in Nat
    <3> HIDE DEF S
    <3> QED BY <1>1, LenProperties
  <2> QED BY <2>1 DEF Links
<1>5. \A i \in 1..Len(a.fragments) : a.fragments[i].seq_no = (n + 1) - Len(a.fragments) + i
  <2>1. \A i \in 1..k : m.fragments[i].seq_no = n - k + i
    BY DEF Links
  <2> HIDE DEF a, k
  <2>2. Len(a.fragments) = k + 1 /\ a.fragments[k + 1].seq_no = n + 1
    BY <1>3 DEF k
  <2>3. \A i \in 1..k : a.fragments[i].seq_no = n - k + i
    BY <1>3, <2>1 DEF k
  <2>4. \A i \in 1..(k + 1) : i \in 1..k \/ i = k + 1
    BY <1>4
  <2>5. ASSUME NEW i \in 1..(k + 1)
        PROVE  a.fragments[i].seq_no = (n + 1) - (k + 1) + i
    <3>1. CASE i \in 1..k
      BY <3>1, <2>3, <1>4
    <3>2. CASE i = k + 1
      BY <3>2, <2>2, <1>4
    <3> QED BY <2>4, <3>1, <3>2
  <2> QED BY <2>2, <2>5
<1>6. Len(a.fragments) <= n + 1 /\ Len(a.fragments) > 0 /\ n + 1 # 0
  <2> HIDE DEF a
  <2> QED BY <1>3, <1>4
<1>7. Links(files, a, n + 1)
  <2> HIDE DEF a
  <2> QED BY <1>3, <1>5, <1>6 DEF Links
<1> QED BY <1>7

(* A roll-up leaves the last fragment in the manifest.                     *)
LEMMA LinksSnapshot ==
    ASSUME NEW files, Numbered(files), NEW m, NEW n \in Nat \ {0}, Links(files, m, n),
           NEW s \in generate_snapshot(m)
    PROVE  Links(files, apply_snapshot(m, s), n)
<1> DEFINE S == {files[i] : i \in DOMAIN files}
           a == apply_snapshot(m, s)
           k == Len(m.fragments)
           d == Len(s.fragments)
<1>1. m.fragments \in Seq(S) /\ k \in Nat /\ k > 0 /\ k <= n
  BY DEF Links
<1>2. \A i \in 1..k : m.fragments[i].seq_no = n - k + i
  BY DEF Links
<1>3. d \in Nat /\ d < k
  <2>1. CASE RollupDepths(m) # {}
    <3>1. s.fragments = <<>>
      BY <2>1 DEF generate_snapshot, RollupSnapshot, Snapshot
    <3> QED BY <3>1, <1>1
  <2>2. CASE RollupDepths(m) = {}
    <3> DEFINE t == fragment_rollover_threshold
    <3>1. LeafReady(m) /\ s = LeafSnapshot(m)
      BY <2>2 DEF generate_snapshot
    <3>2. t \in Nat /\ t >= 1 /\ k >= t
      BY <3>1, ThresholdAssumption DEF LeafReady
    <3>3. m.fragments[t].seq_no # Max(SeqNos(m.fragments))
      BY <3>1, <3>2 DEF LeafReady
    <3>4. Max(SeqNos(m.fragments)) = n
      BY LinksNext
    <3>5. t # k
      <4>1. t \in 1..k
        BY <3>2, <1>1
      <4>2. m.fragments[t].seq_no = n - k + t
        BY <4>1, <1>2
      <4> HIDE DEF t, k
      <4> QED BY <4>2, <3>2, <3>3, <3>4, <1>1
    <3>6. s.fragments = SubSeq(m.fragments, 1, t)
      BY <3>1 DEF LeafSnapshot, Snapshot
    <3>7. d = t
      <4> HIDE DEF S, t
      <4> QED BY <3>2, <3>6, <1>1, SubSeqProperties
    <3> QED BY <3>2, <3>5, <3>7
  <2> QED BY <2>1, <2>2
<1>4. a.fragments = SubSeq(m.fragments, d + 1, k) /\ a.initial_seq_no = m.initial_seq_no
  BY DEF apply_snapshot
<1>5. /\ a.fragments \in Seq(S)
      /\ Len(a.fragments) = k - d
      /\ \A i \in 1..(k - d) : a.fragments[i] = m.fragments[d + i]
  <2> HIDE DEF S, a, d
  <2>1. d + 1 \in 1..(k + 1) /\ k \in 0..k /\ d + 1 \in 1..k
    BY <1>1, <1>3
  <2> QED BY <1>1, <1>3, <1>4, <2>1, SubSeqProperties
<1> HIDE DEF a, d, k
<1>6. \A i \in 1..Len(a.fragments) : a.fragments[i].seq_no = n - Len(a.fragments) + i
  <2>1. ASSUME NEW i \in 1..(k - d)
        PROVE  a.fragments[i].seq_no = n - (k - d) + i
    <3>1. d + i \in 1..k
      BY <1>1, <1>3
    <3>2. a.fragments[i].seq_no = n - k + (d + i)
      BY <3>1, <1>2, <1>5
    <3> QED BY <3>2, <1>1, <1>3
  <2> QED BY <2>1, <1>5
<1>7. Len(a.fragments) <= n /\ Len(a.fragments) > 0
  BY <1>1, <1>3, <1>5
<1>8. Links(files, a, n)
  BY <1>5, <1>6, <1>7 DEF Links
<1> QED BY <1>8 DEF a

-----------------------------------------------------------------------------
(* What the steps do to storage.                                           *)

Grows ==
    /\ DOMAIN fragments \subseteq DOMAIN fragments'
    /\ \A n \in DOMAIN fragments : fragments'[n] = fragments[n]
    /\ e_tag' \in Nat
    /\ e_tag <= e_tag'

LEMMA StorageIsNumbered ==
    ASSUME StorageOK
    PROVE  Numbered(fragments)
BY DEF StorageOK, Numbered

(* A step that leaves the manifest and the fragments alone.                *)
LEMMA StorageSame ==
    ASSUME StorageOK, UNCHANGED <<manifest, e_tag, fragments, history>>
    PROVE  StorageOK' /\ Grows
BY DEF StorageOK, Grows

(* The put of a fragment that is at most one ahead.                        *)
LEMMA StoragePutFragment ==
    ASSUME StorageOK, NEW f, IsFragment(f), f.seq_no \in 1..e_tag,
           PutFragment(f), UNCHANGED <<manifest, e_tag, history>>
    PROVE  StorageOK' /\ Grows /\ Filed(fragments', f)
<1>1. Grows /\ Filed(fragments', f)
  BY DEF StorageOK, Grows, PutFragment, Filed
<1>2. Links(fragments', manifest', e_tag' - 1)
  <2>1. e_tag - 1 \in Nat
    BY DEF StorageOK
  <2>2. Links(fragments, manifest, e_tag - 1)
    BY DEF StorageOK
  <2>3. Links(fragments', manifest, e_tag - 1)
    BY <1>1, <2>1, <2>2, LinksGrow DEF Grows
  <2> QED BY <2>3
<1>3. history' \in Seq({fragments'[i] : i \in DOMAIN fragments'})
  <2> DEFINE S == {fragments[i] : i \in DOMAIN fragments}
             T == {fragments'[i] : i \in DOMAIN fragments'}
  <2>1. S \subseteq T
    BY <1>1 DEF Grows
  <2>2. history \in Seq(S)
    BY DEF StorageOK
  <2>3. history \in Seq(T)
    <3> HIDE DEF S, T
    <3> QED BY <2>1, <2>2, SeqMonotonic
  <2> QED BY <2>3
<1>4. /\ DOMAIN fragments' \subseteq 1..e_tag'
      /\ \A n \in DOMAIN fragments' : IsFragment(fragments'[n]) /\ fragments'[n].seq_no = n
  BY DEF StorageOK, PutFragment
<1>5. \A i \in 1..Len(history') : i \in DOMAIN fragments' /\ history'[i] = fragments'[i]
  BY <1>1 DEF StorageOK, Grows
<1> QED BY <1>1, <1>2, <1>3, <1>4, <1>5 DEF StorageOK

(* The put of a manifest that links the next fragment.                     *)
LEMMA StoragePutManifest ==
    ASSUME StorageOK, NEW tag, NEW m, NEW f, Filed(fragments, f), f.seq_no = tag,
           Links(fragments, m, tag), PutManifest(tag, m, f), UNCHANGED fragments
    PROVE  StorageOK' /\ Grows
<1> DEFINE S == {fragments[i] : i \in DOMAIN fragments}
<1>1. tag = e_tag /\ manifest' = m /\ e_tag' = e_tag + 1 /\ history' = Append(history, f)
  BY DEF PutManifest
<1>2. e_tag \in Nat \ {0}
  BY DEF StorageOK
<1>3. history \in Seq(S) /\ f \in S /\ Len(history) = e_tag - 1
  BY DEF StorageOK, Filed
<1>4. /\ history' \in Seq(S)
      /\ Len(history') = e_tag
      /\ \A i \in 1..(e_tag - 1) : history'[i] = history[i]
      /\ history'[e_tag] = f
  <2> HIDE DEF S
  <2> QED BY <1>1, <1>2, <1>3, AppendProperties
<1>5. \A i \in 1..Len(history') : i \in DOMAIN fragments' /\ history'[i] = fragments'[i]
  <2> SUFFICES ASSUME NEW i \in 1..e_tag
               PROVE  i \in DOMAIN fragments /\ history'[i] = fragments[i]
    BY <1>4
  <2>1. CASE i = e_tag
    BY <2>1, <1>1, <1>4 DEF Filed
  <2>2. CASE i # e_tag
    <3>1. i \in 1..Len(history)
      BY <2>2, <1>2, <1>3
    <3> QED BY <3>1, <1>3, <1>4 DEF StorageOK
  <2> QED BY <2>1, <2>2
<1>6. Grows
  BY <1>1, <1>2 DEF Grows
<1>7. /\ DOMAIN fragments' \subseteq 1..e_tag'
      /\ \A n \in DOMAIN fragments' : IsFragment(fragments'[n]) /\ fragments'[n].seq_no = n
  BY <1>1, <1>2 DEF StorageOK
<1>8. Links(fragments', manifest', e_tag' - 1) /\ Len(history') = e_tag' - 1
      /\ e_tag' \in Nat \ {0}
  BY <1>1, <1>2, <1>4
<1>9. history' \in Seq({fragments'[i] : i \in DOMAIN fragments'})
  BY <1>4
<1>10. StorageOK'
  BY <1>5, <1>7, <1>8, <1>9, Zenon DEF StorageOK
<1> QED BY <1>6, <1>10

-----------------------------------------------------------------------------
(* What the steps do to writers.                                           *)

SameLocal(v) ==
    /\ pc'[v] = pc[v]
    /\ inner'[v] = inner[v]
    /\ goal'[v] = goal[v]
    /\ batch'[v] = batch[v]
    /\ staging'[v] = staging[v]
    /\ fragment'[v] = fragment[v]
    /\ upload'[v] = upload[v]
    /\ pulled'[v] = pulled[v]

(* A step of another writer does not disturb v.                            *)
LEMMA FrameWriter ==
    ASSUME NEW v \in Writers, StorageOK, StagingOK(v), ControlOK(v), Grows, SameLocal(v)
    PROVE  StagingOK(v)' /\ ControlOK(v)'
<1> DEFINE s == staging[v]
<1>1. ControlOK(v)'
  BY DEF ControlOK, SameLocal, Grows
<1>2. Loaded(v)' = Loaded(v) /\ Linking(v)' = Linking(v) /\ Appending(v)' = Appending(v)
  BY DEF Loaded, Linking, Appending, SameLocal
<1>3. ASSUME Loaded(v)
      PROVE  s.e_tag \in 1..e_tag' /\ Links(fragments', s.manifest, s.e_tag - 1)
  <2>1. s.e_tag \in 1..e_tag /\ Links(fragments, s.manifest, s.e_tag - 1)
    BY <1>3 DEF StagingOK
  <2>2. s.e_tag \in 1..e_tag' /\ s.e_tag - 1 \in Nat
    BY <2>1 DEF StorageOK, Grows
  <2> QED BY <2>1, <2>2, LinksGrow DEF Grows
<1>4. ASSUME pc[v] \in {"snapshot", "install"}
      PROVE  Links(fragments', pulled[v].manifest, s.e_tag)
  <2>1. s.e_tag \in 1..e_tag /\ Links(fragments, pulled[v].manifest, s.e_tag)
    BY <1>4 DEF StagingOK, Loaded
  <2>2. s.e_tag \in Nat
    BY <2>1 DEF StorageOK
  <2> QED BY <2>1, <2>2, LinksGrow DEF Grows
<1>5. Filed(fragments, fragment[v]) => Filed(fragments', fragment[v])
  BY DEF Filed, Grows
<1>6. StagingOK(v)'
  BY <1>2, <1>3, <1>4, <1>5 DEF StagingOK, SameLocal
<1> QED BY <1>1, <1>6

(* The effect of a step of w on its own state, and on no other's.          *)
After(w) ==
    /\ WriterTypeOK'
    /\ Domains'
    /\ StagingOK(w)'
    /\ ControlOK(w)'
    /\ \A v \in Writers \ {w} : SameLocal(v)

(* What append_many told the caller of w, if anything, is in S.            *)
Tells(w, S) ==
    \/ result' = result
    \/ /\ batch[w] \in Batches
       /\ result'[batch[w]].status \in S
       /\ \A b \in Batches \ {batch[w]} : result'[b] = result[b]

(* Everything about w is as in a writer that has done nothing.             *)
LEMMA IdleAfter ==
    ASSUME IInv, Grows, NEW w \in Writers, NEW state \in {"none", "closed", "open"},
           NEW stage, Idle(w, state, stage), DOMAIN result' = Batches,
           state = "open" =>
              /\ stage.e_tag \in 1..e_tag'
              /\ Links(fragments', stage.manifest, stage.e_tag - 1)
              /\ stage.next_seq_no_to_assign = stage.e_tag
              /\ stage.next_seq_no_to_apply = stage.e_tag
    PROVE  After(w)
<1> USE DEF IInv, Idle, ClearWork
<1>1. Domains'
  BY DEF Domains
<1>2. WriterTypeOK'
  <2>1. \A v \in Writers : fragment'[v] = NoFragment \/ IsFragment(fragment'[v])
    BY DEF WriterTypeOK, Domains
  <2>2. attempts' \in [Writers -> 0..3] /\ opens' \in [Writers -> 0..3]
    <3>1. attempts \in [Writers -> 0..3] /\ opens \in [Writers -> 0..3]
      BY DEF WriterTypeOK
    <3>2. /\ attempts' = [attempts EXCEPT ![w] = 0]
          /\ opens' = [opens EXCEPT ![w] = 0]
          /\ 0 \in 0..3
      OBVIOUS
    <3> HIDE DEF IInv, Idle
    <3> QED BY <3>1, <3>2
  <2> QED BY <2>1, <2>2 DEF WriterTypeOK
<1>3. \A v \in Writers \ {w} : SameLocal(v)
  BY DEF SameLocal, WriterTypeOK, Domains
<1>4. /\ pc'[w] = "idle" /\ inner'[w] = state /\ goal'[w] = "open"
      /\ staging'[w] = stage /\ upload'[w] = "wait"
  BY DEF WriterTypeOK, Domains
<1>5. ControlOK(w)'
  BY <1>4 DEF ControlOK
<1>6. StagingOK(w)'
  BY <1>4 DEF StagingOK, Loaded, Linking, Appending
<1> QED BY <1>1, <1>2, <1>3, <1>5, <1>6 DEF After

LEMMA ReturnAfter ==
    ASSUME IInv, Grows, NEW w \in Writers, NEW state \in {"none", "closed", "open"},
           NEW stage, NEW status, NEW position, batch[w] \in Batches,
           Return(w, status, position, state, stage),
           state = "open" =>
              /\ stage.e_tag \in 1..e_tag'
              /\ Links(fragments', stage.manifest, stage.e_tag - 1)
              /\ stage.next_seq_no_to_assign = stage.e_tag
              /\ stage.next_seq_no_to_apply = stage.e_tag
    PROVE  After(w) /\ Tells(w, {status})
<1>1. Idle(w, state, stage)
      /\ result' = [result EXCEPT ![batch[w]] = Result(status, position)]
  BY DEF Return
<1>2. DOMAIN result' = Batches
  BY <1>1 DEF IInv, Domains
<1>3. Tells(w, {status})
  BY <1>1 DEF Tells, Result, IInv, Domains
<1> QED BY <1>1, <1>2, <1>3, IdleAfter

LEMMA ReopenAfter ==
    ASSUME IInv, Grows, NEW w \in Writers, NEW why \in {"open", "append", "confirm"},
           NEW attempt \in 0..3, NEW open \in 0..3, Reopen(w, why, attempt, open),
           why # "open" => batch[w] \in Batches,
           why = "confirm" => \E n \in DOMAIN fragments : fragments[n].batch = batch[w]
    PROVE  After(w) /\ Tells(w, {})
<1> USE DEF IInv, Reopen, ClearWork
<1>1. Domains'
  BY DEF Domains
<1>2. WriterTypeOK'
  BY DEF WriterTypeOK, Domains
<1>3. \A v \in Writers \ {w} : SameLocal(v)
  BY DEF SameLocal, WriterTypeOK, Domains
<1>4. /\ pc'[w] = "open" /\ inner'[w] # "open" /\ goal'[w] = why /\ batch'[w] = batch[w]
      /\ upload'[w] = "wait"
  BY DEF WriterTypeOK, Domains
<1>5. ControlOK(w)'
  BY <1>4 DEF ControlOK, Grows
<1>6. StagingOK(w)'
  BY <1>4 DEF StagingOK, Loaded, Linking, Appending
<1> QED BY <1>1, <1>2, <1>3, <1>5, <1>6 DEF After, Tells

(* ensure_open fails, or tries again.                                      *)
LEMMA EnsureOpenErrAfter ==
    ASSUME IInv, Grows, NEW w \in Writers, pc[w] # "idle", inner[w] # "open",
           NEW err, EnsureOpenErr(w, err)
    PROVE  After(w) /\ Tells(w, {err, "failure"})
<1>1. /\ inner[w] \in {"none", "closed"}
      /\ goal[w] \in {"open", "append", "confirm"}
      /\ goal[w] # "open" => batch[w] \in Batches
  BY DEF IInv, WriterTypeOK, ControlOK
<1>2. CASE goal[w] = "open"
  <2>1. Idle(w, inner[w], NoStaging) /\ UNCHANGED result
    BY <1>2 DEF EnsureOpenErr
  <2>2. DOMAIN result' = Batches
    BY <2>1 DEF IInv, Domains
  <2> QED BY <1>1, <2>1, <2>2, IdleAfter DEF Tells
<1>3. CASE goal[w] = "append"
  <2>1. Return(w, err, 0, "closed", NoStaging)
    BY <1>3 DEF EnsureOpenErr
  <2> QED BY <1>1, <1>3, <2>1, ReturnAfter DEF Tells
<1>4. CASE goal[w] = "confirm"
  <2>1. Return(w, "failure", 0, "closed", NoStaging)
    BY <1>4 DEF EnsureOpenErr
  <2> QED BY <1>1, <1>4, <2>1, ReturnAfter DEF Tells
<1> QED BY <1>1, <1>2, <1>3, <1>4

LEMMA OpenFailsAfter ==
    ASSUME IInv, Grows, NEW w \in Writers, pc[w] # "idle", inner[w] # "open",
           NEW err, OpenFails(w, err)
    PROVE  After(w) /\ Tells(w, {err, "failure"})
<1>1. CASE err = "retry" /\ opens[w] < 3
  <2>1. Reopen(w, goal[w], attempts[w], opens[w] + 1)
    BY <1>1 DEF OpenFails
  <2>2. goal[w] \in {"open", "append", "confirm"} /\ attempts[w] \in 0..3 /\ opens[w] \in 0..3
    BY DEF IInv, WriterTypeOK
  <2>5. opens[w] + 1 \in 0..3
    BY <1>1, <2>2
  <2>3. /\ goal[w] # "open" => batch[w] \in Batches
        /\ goal[w] = "confirm" => \E n \in DOMAIN fragments : fragments[n].batch = batch[w]
    BY DEF IInv, ControlOK
  <2>4. After(w) /\ Tells(w, {})
    BY <2>1, <2>2, <2>3, <2>5, ReopenAfter
  <2> QED BY <2>4 DEF Tells
<1>2. CASE ~(err = "retry" /\ opens[w] < 3)
  <2>1. EnsureOpenErr(w, err)
    BY <1>2 DEF OpenFails
  <2> QED BY <2>1, EnsureOpenErrAfter
<1> QED BY <1>1, <1>2

(* An append fails, or tries again.                                        *)
LEMMA AppendFailsAfter ==
    ASSUME IInv, Grows, NEW w \in Writers, batch[w] \in Batches,
           NEW err, AppendFails(w, err),
           err = "durable" => \E n \in DOMAIN fragments : fragments[n].batch = batch[w]
    PROVE  After(w) /\ Tells(w, ({err} \ {"durable"}) \cup {"failure"})
<1>1. attempts[w] \in 0..3
  BY DEF IInv, WriterTypeOK
<1>2. CASE err = "durable"
  <2>1. Reopen(w, "confirm", attempts[w], 1)
    BY <1>2 DEF AppendFails
  <2>2. After(w) /\ Tells(w, {})
    BY <1>1, <1>2, <2>1, ReopenAfter
  <2> QED BY <2>2 DEF Tells
<1>3. CASE err = "retry" /\ attempts[w] < 3
  <2>1. Reopen(w, "append", attempts[w] + 1, 1)
    <3>1. err # "durable" /\ ~(attempts[w] >= 3) /\ err = "retry"
      BY <1>1, <1>3
    <3> QED BY <1>3, <3>1 DEF AppendFails
  <2>2. attempts[w] + 1 \in 0..3
    BY <1>1, <1>3
  <2>3. After(w) /\ Tells(w, {})
    BY <2>1, <2>2, ReopenAfter
  <2> QED BY <2>3 DEF Tells
<1>4. CASE err = "retry" /\ ~(attempts[w] < 3)
  <2>1. Return(w, "failure", 0, "closed", NoStaging)
    BY <1>1, <1>4 DEF AppendFails
  <2>2. After(w) /\ Tells(w, {"failure"})
    BY <2>1, ReturnAfter
  <2> QED BY <2>2 DEF Tells
<1>5. CASE err \notin {"durable", "retry"}
  <2>1. Return(w, err, 0, "closed", NoStaging)
    BY <1>5 DEF AppendFails
  <2>2. After(w) /\ Tells(w, {err})
    BY <2>1, ReturnAfter
  <2> QED BY <1>5, <2>2 DEF Tells
<1> QED BY <1>2, <1>3, <1>4, <1>5

(* publish_fragment fails.                                                 *)
LEMMA PublishFailsAfter ==
    ASSUME IInv, Grows, NEW w \in Writers, Linking(w), NEW err, PublishFails(w, err)
    PROVE  After(w) /\ Tells(w, ({err} \ {"durable"}) \cup {"failure", "retry"})
<1>1. CASE inner[w] = "open"
  <2>1. AppendFails(w, err)
    BY <1>1 DEF PublishFails
  <2>2. batch[w] \in Batches
    BY <1>1 DEF IInv, ControlOK, Linking
  <2>3. \E n \in DOMAIN fragments : fragments[n].batch = batch[w]
    BY <1>1 DEF IInv, StagingOK, Appending, Filed
  <2>4. After(w) /\ Tells(w, ({err} \ {"durable"}) \cup {"failure"})
    BY <2>1, <2>2, <2>3, AppendFailsAfter
  <2> QED BY <2>4 DEF Tells
<1>2. CASE inner[w] # "open"
  <2> DEFINE e == IF err = "durable" THEN "retry" ELSE err
  <2>1. OpenFails(w, e)
    BY <1>2 DEF PublishFails
  <2>2. pc[w] # "idle"
    BY DEF Linking
  <2>3. After(w) /\ Tells(w, {e, "failure"})
    BY <1>2, <2>1, <2>2, OpenFailsAfter
  <2> QED BY <2>3 DEF Tells
<1> QED BY <1>1, <1>2

-----------------------------------------------------------------------------
(* What the steps do to the whole.                                         *)

(* What a contention error of the dirty log did is not forgotten.          *)
Recorded == retried \subseteq retried' /\ presumed \subseteq presumed'

(* The caller of the batch b was told the truth.                           *)
Honest(b) ==
    \/ result[b].status = "ok"
    \/ result[b].status = "durable" /\ b \notin presumed
    => \E i \in DOMAIN history :
          /\ history[i].batch = b
          /\ result[b].status = "ok" => history[i].start = result[b].position

Preserved == IInv' /\ Grows /\ (Recorded /\ AckedIsLinked => AckedIsLinked')

LEMMA DelayedKept ==
    ASSUME StorageOK, Grows, DelayedOK, delayed' \subseteq delayed
    PROVE  DelayedOK'
<1> SUFFICES ASSUME NEW r \in delayed
             PROVE  /\ r.kind \in {"fragment", "manifest"}
                    /\ IsFragment(r.fragment)
                    /\ r.fragment.seq_no \in 1..e_tag'
                    /\ r.kind = "manifest" =>
                          /\ r.e_tag = r.fragment.seq_no
                          /\ Filed(fragments', r.fragment)
                          /\ Links(fragments', r.manifest, r.e_tag)
  BY DEF DelayedOK
<1>1. /\ r.kind \in {"fragment", "manifest"}
      /\ IsFragment(r.fragment)
      /\ r.fragment.seq_no \in 1..e_tag
      /\ r.kind = "manifest" =>
            /\ r.e_tag = r.fragment.seq_no
            /\ Filed(fragments, r.fragment)
            /\ Links(fragments, r.manifest, r.e_tag)
  BY DEF DelayedOK
<1>2. r.fragment.seq_no \in 1..e_tag' /\ r.fragment.seq_no \in Nat
  BY <1>1 DEF StorageOK, Grows
<1>3. ASSUME r.kind = "manifest"
      PROVE  Filed(fragments', r.fragment) /\ Links(fragments', r.manifest, r.e_tag)
  <2>1. Filed(fragments', r.fragment)
    BY <1>1, <1>3 DEF Filed, Grows
  <2>2. Links(fragments, r.manifest, r.e_tag) /\ r.e_tag \in Nat
    BY <1>1, <1>2, <1>3
  <2> QED BY <2>1, <2>2, LinksGrow DEF Grows
<1> QED BY <1>1, <1>2, <1>3

LEMMA DelayedInFlight ==
    ASSUME IInv, NEW w \in Writers, UNCHANGED <<e_tag, fragments>>,
           delayed' \in {delayed, delayed \cup InFlight(w)}
    PROVE  DelayedOK'
<1> SUFFICES ASSUME NEW r \in delayed \cup InFlight(w)
             PROVE  /\ r.kind \in {"fragment", "manifest"}
                    /\ IsFragment(r.fragment)
                    /\ r.fragment.seq_no \in 1..e_tag
                    /\ r.kind = "manifest" =>
                          /\ r.e_tag = r.fragment.seq_no
                          /\ Filed(fragments, r.fragment)
                          /\ Links(fragments, r.manifest, r.e_tag)
  BY DEF DelayedOK
<1>1. CASE r \in delayed
  BY <1>1 DEF IInv, DelayedOK
<1>2. CASE r \notin delayed /\ Uploading(w)
  <2>1. r = [kind |-> "fragment", fragment |-> fragment[w]] /\ pc[w] = "write"
    BY <1>2 DEF InFlight, Uploading
  <2>2. IsFragment(fragment[w]) /\ fragment[w].seq_no \in 1..e_tag
    BY <2>1 DEF IInv, StagingOK, Loaded
  <2> QED BY <2>1, <2>2
<1>3. CASE r \notin delayed /\ ~Uploading(w)
  <2>1. /\ r = [kind |-> "manifest", fragment |-> fragment[w],
                e_tag |-> staging[w].e_tag, manifest |-> pulled[w].manifest]
        /\ pc[w] = "install"
    BY <1>3 DEF InFlight
  <2>2. /\ IsFragment(fragment[w])
        /\ fragment[w].seq_no = staging[w].e_tag
        /\ staging[w].e_tag \in 1..e_tag
        /\ Filed(fragments, fragment[w])
        /\ Links(fragments, pulled[w].manifest, staging[w].e_tag)
    BY <2>1 DEF IInv, StagingOK, Loaded, Linking
  <2> QED BY <2>1, <2>2
<1> QED BY <1>1, <1>2, <1>3

(* What was linked stays linked.                                           *)
LEMMA HistoryGrows ==
    ASSUME StorageOK, StorageOK', Grows
    PROVE  \A i \in DOMAIN history : i \in DOMAIN history' /\ history'[i] = history[i]
<1> DEFINE S == {fragments[i] : i \in DOMAIN fragments}
           T == {fragments'[i] : i \in DOMAIN fragments'}
<1>1. history \in Seq(S) /\ history' \in Seq(T)
  BY DEF StorageOK
<1>2. DOMAIN history = 1..Len(history) /\ DOMAIN history' = 1..Len(history')
  <2> HIDE DEF S, T
  <2> QED BY <1>1, LenProperties
<1>3. /\ Len(history) = e_tag - 1 /\ Len(history') = e_tag' - 1
      /\ e_tag \in Nat \ {0} /\ e_tag' \in Nat \ {0} /\ e_tag <= e_tag'
  BY DEF StorageOK, Grows
<1>4. \A i \in 1..Len(history) : i \in DOMAIN fragments /\ history[i] = fragments[i]
  BY DEF StorageOK
<1>5. \A i \in 1..Len(history') : history'[i] = fragments'[i]
  BY DEF StorageOK
<1>6. \A i \in 1..Len(history) : i \in 1..Len(history')
  <2>1. \A a, b \in Nat : a <= b => \A i \in 1..a : i \in 1..b
    OBVIOUS
  <2>2. \A a, b \in Nat \ {0} : a <= b => a - 1 \in Nat /\ b - 1 \in Nat /\ a - 1 <= b - 1
    OBVIOUS
  <2>3. e_tag - 1 \in Nat /\ e_tag' - 1 \in Nat /\ e_tag - 1 <= e_tag' - 1
    BY <1>3, <2>2
  <2> QED BY <1>3, <2>1, <2>3
<1> QED BY <1>2, <1>4, <1>5, <1>6 DEF Grows

(* A step of w that does right by storage, by w and by w's caller.         *)
LEMMA StepKeeps ==
    ASSUME IInv, NEW w \in Writers, StorageOK', Grows, DelayedOK', After(w),
           faults' \in 0..MaxFaults, Tells(w, Statuses),
           \/ result' = result
           \/ \A b \in Batches : b = batch[w] => Honest(b)'
           \/ Tells(w, Statuses \ {"ok", "durable"})
    PROVE  Preserved
<1>1. \A v \in Writers : StagingOK(v)' /\ ControlOK(v)'
  <2>1. \A v \in Writers \ {w} : StagingOK(v)' /\ ControlOK(v)'
    BY FrameWriter DEF IInv, After
  <2> QED BY <2>1 DEF After
<1>2. ResultOK'
  BY DEF IInv, Tells, ResultOK
<1>3. IInv'
  BY <1>1, <1>2 DEF IInv, After
<1>4. ASSUME Recorded, AckedIsLinked
      PROVE  AckedIsLinked'
  <2>1. \A b \in Batches : Honest(b)
    BY <1>4 DEF AckedIsLinked, Honest
  <2>2. \A i \in DOMAIN history : i \in DOMAIN history' /\ history'[i] = history[i]
    BY HistoryGrows DEF IInv
  <2>3. ASSUME NEW b \in Batches, result'[b] = result[b]
        PROVE  Honest(b)'
    BY <1>4, <2>1, <2>2, <2>3 DEF Honest, Recorded
  <2>4. ASSUME NEW b \in Batches, result'[b] # result[b]
        PROVE  Honest(b)'
    <3>1. b = batch[w]
      BY <2>4 DEF Tells
    <3>2. CASE Tells(w, Statuses \ {"ok", "durable"})
      <4>1. result'[b].status \notin {"ok", "durable"}
        BY <2>4, <3>1, <3>2 DEF Tells
      <4> QED BY <4>1 DEF Honest
    <3> QED BY <1>4, <2>4, <3>1, <3>2
  <2> QED BY <2>3, <2>4 DEF AckedIsLinked, Honest
<1> QED BY <1>3, <1>4 DEF Preserved

(* A step that only changes w, and tells nobody anything.                  *)
LEMMA LocalStep ==
    ASSUME IInv, NEW w \in Writers, After(w), faults' \in 0..MaxFaults,
           UNCHANGED <<manifest, e_tag, fragments, delayed, history, result>>
    PROVE  Preserved
<1>1. StorageOK' /\ Grows
  BY StorageSame DEF IInv
<1>2. DelayedOK'
  BY <1>1, DelayedKept DEF IInv
<1> QED BY <1>1, <1>2, StepKeeps DEF Tells

LEMMA FaultsBounded ==
    ASSUME IInv, Fault
    PROVE  faults' \in 0..MaxFaults
BY FaultAssumption DEF IInv, Fault

LEMMA Update ==
    ASSUME NEW S, NEW T, NEW f \in [S -> T], NEW x \in S, NEW y \in T
    PROVE  [f EXCEPT ![x] = y] \in [S -> T]
OBVIOUS

-----------------------------------------------------------------------------
(* The steps, one lemma each.                                              *)

LEMMA OpenKeeps ==
    ASSUME IInv, NEW w \in Writers, Open(w)
    PROVE  Preserved
<1>0. 1 \in 0..3
  OBVIOUS
<1> USE DEF IInv, Open, handling, working, storage
<1>1. Domains'
  BY DEF Domains
<1>2. WriterTypeOK'
  <2>1. opens' \in [Writers -> 0..3]
    BY <1>0, Update DEF WriterTypeOK
  <2> QED BY <2>1 DEF WriterTypeOK, Domains
<1>3. \A v \in Writers \ {w} : SameLocal(v)
  BY DEF SameLocal, WriterTypeOK
<1>4. pc'[w] = "open" /\ inner'[w] # "open" /\ goal'[w] = "open"
  BY DEF WriterTypeOK, ControlOK
<1>5. ControlOK(w)'
  BY <1>4 DEF ControlOK
<1>6. StagingOK(w)'
  BY <1>4 DEF StagingOK, Loaded, Linking, Appending
<1>7. After(w)
  BY <1>1, <1>2, <1>3, <1>5, <1>6 DEF After
<1> QED BY <1>7, LocalStep

LEMMA AppendManyKeeps ==
    ASSUME IInv, NEW w \in Writers, NEW b \in Batches, AppendMany(w, b)
    PROVE  Preserved
<1>0. 1 \in 0..3
  OBVIOUS
<1> USE DEF IInv, AppendMany, handling, working, storage
<1>1. Domains'
  BY DEF Domains
<1>2. WriterTypeOK'
  <2>1. opens' \in [Writers -> 0..3] /\ attempts' \in [Writers -> 0..3]
    BY <1>0, Update DEF WriterTypeOK
  <2> QED BY <2>1 DEF WriterTypeOK, Domains
<1>3. \A v \in Writers : v # w => SameLocal(v)
  BY DEF SameLocal, WriterTypeOK
<1>4. /\ pc[w] = "idle" /\ pc'[w] = IF inner[w] = "open" THEN "ready" ELSE "open"
      /\ inner'[w] = inner[w] /\ goal'[w] = "append" /\ batch'[w] = b
      /\ staging'[w] = staging[w] /\ upload'[w] = "wait"
      /\ fragments' = fragments /\ e_tag' = e_tag
  BY DEF WriterTypeOK, ControlOK
<1>5. ControlOK(w)'
  <2> HIDE DEF IInv, AppendMany
  <2> QED BY <1>4 DEF ControlOK
<1>6. StagingOK(w)'
  <2>1. StagingOK(w)
    OBVIOUS
  <2> HIDE DEF IInv, AppendMany
  <2> QED BY <1>4, <2>1 DEF StagingOK, Loaded, Linking, Appending
<1>7. \A v \in Writers : StagingOK(v)' /\ ControlOK(v)'
  <2>1. StorageOK' /\ Grows
    BY StorageSame
  <2>2. \A v \in Writers \ {w} : StagingOK(v)' /\ ControlOK(v)'
    BY <1>3, <2>1, FrameWriter
  <2> QED BY <2>2, <1>5, <1>6
<1>8. StorageOK' /\ Grows /\ DelayedOK'
  BY StorageSame, DelayedKept
<1>9. ResultOK'
  BY DEF ResultOK, Result, Statuses, Domains
<1>10. IInv'
  BY <1>1, <1>2, <1>7, <1>8, <1>9
<1>11. AckedIsLinked => AckedIsLinked'
  BY DEF AckedIsLinked, Result, Domains
<1> QED BY <1>8, <1>10, <1>11 DEF Preserved

LEMMA LoadManifestKeeps ==
    ASSUME IInv, NEW w \in Writers, LoadManifest(w)
    PROVE  Preserved
<1> USE DEF IInv, LoadManifest, handling, working, storage
<1>1. Domains'
  BY DEF Domains
<1>2. WriterTypeOK'
  BY DEF WriterTypeOK, Domains
<1>3. \A v \in Writers \ {w} : SameLocal(v)
  BY DEF SameLocal, WriterTypeOK, Domains
<1>4. /\ pc[w] = "open" /\ pc'[w] = "recover"
      /\ inner'[w] = inner[w] /\ goal'[w] = goal[w] /\ batch'[w] = batch[w]
      /\ staging'[w] = NewStaging(manifest, e_tag)
  BY DEF WriterTypeOK, Domains
<1>5. ControlOK(w)'
  BY <1>4 DEF ControlOK
<1>6. StagingOK(w)'
  <2>1. e_tag \in 1..e_tag /\ Links(fragments, manifest, e_tag - 1) /\ e_tag - 1 \in Nat
    BY DEF StorageOK
  <2>2. next_fragment_seq_no(manifest) = e_tag
    BY <2>1, LinksNext, StorageIsNumbered
  <2>3. /\ staging'[w].manifest = manifest
        /\ staging'[w].e_tag = e_tag
        /\ staging'[w].next_seq_no_to_assign = e_tag
        /\ staging'[w].next_seq_no_to_apply = e_tag
    BY <1>4, <2>2 DEF NewStaging, Staging
  <2> QED BY <1>4, <2>1, <2>3 DEF StagingOK, Loaded, Linking, Appending
<1>7. After(w)
  BY <1>1, <1>2, <1>3, <1>5, <1>6 DEF After
<1> QED BY <1>7, LocalStep

(* While it opens, w holds a manifest whose next fragment it looks for.    *)
LEMMA Recovering ==
    ASSUME IInv, NEW w \in Writers, pc[w] \in {"recover", "mark recovered", "ready"}
    PROVE  /\ staging[w].e_tag \in 1..e_tag
           /\ Links(fragments, staging[w].manifest, staging[w].e_tag - 1)
           /\ staging[w].next_seq_no_to_assign = staging[w].e_tag
           /\ staging[w].next_seq_no_to_apply = staging[w].e_tag
BY DEF IInv, StagingOK, Loaded

(* A LogWriter that finds nothing to recover has seen the last manifest,   *)
(* so whatever is in storage is linked.                                    *)
LEMMA ConfirmedIsLinked ==
    ASSUME IInv, NEW w \in Writers, pc[w] = "recover", goal[w] = "confirm",
           staging[w].next_seq_no_to_apply \notin DOMAIN fragments
    PROVE  \E i \in DOMAIN history : history[i].batch = batch[w]
<1>1. /\ staging[w].e_tag \in 1..e_tag
      /\ staging[w].e_tag \notin DOMAIN fragments
  BY Recovering
<1> PICK n \in DOMAIN fragments : fragments[n].batch = batch[w]
  BY DEF IInv, ControlOK
<1> USE DEF IInv
<1>2. /\ DOMAIN fragments \subseteq 1..e_tag
      /\ e_tag \in Nat
      /\ Len(history) = e_tag - 1
      /\ \A i \in 1..Len(history) : i \in DOMAIN fragments /\ history[i] = fragments[i]
  BY DEF StorageOK
<1>3. DOMAIN history = 1..Len(history)
  <2> DEFINE S == {fragments[i] : i \in DOMAIN fragments}
  <2>1. history \in Seq(S)
    BY DEF StorageOK
  <2> HIDE DEF S
  <2> QED BY <2>1, LenProperties
<1> HIDE DEF IInv
<1>4. \A i \in 1..(e_tag - 1) : i \in DOMAIN fragments
  BY <1>2
<1>5. staging[w].e_tag = e_tag
  BY <1>1, <1>2, <1>4
<1>6. n \in 1..(e_tag - 1)
  BY <1>1, <1>2, <1>5
<1> QED BY <1>2, <1>3, <1>6

LEMMA NothingToRecoverKeeps ==
    ASSUME IInv, NEW w \in Writers, NothingToRecover(w)
    PROVE  Preserved
<1> USE DEF handling, working, storage
<1>1. /\ pc[w] = "recover"
      /\ staging[w].next_seq_no_to_apply \notin DOMAIN fragments
      /\ UNCHANGED <<manifest, e_tag, fragments, delayed, history, faults>>
  BY DEF NothingToRecover
<1>2. /\ staging[w].e_tag \in 1..e_tag
      /\ Links(fragments, staging[w].manifest, staging[w].e_tag - 1)
      /\ staging[w].next_seq_no_to_assign = staging[w].e_tag
      /\ staging[w].next_seq_no_to_apply = staging[w].e_tag
  BY <1>1, Recovering
<1>3. /\ StorageOK' /\ Grows /\ faults' \in 0..MaxFaults
      /\ goal[w] # "open" => batch[w] \in Batches
  BY <1>1, StorageSame DEF IInv, ControlOK
<1>4. DelayedOK'
  BY <1>1, <1>3, DelayedKept DEF IInv
<1>5. CASE goal[w] = "open"
  <2>1. Idle(w, "open", staging[w]) /\ UNCHANGED result
    BY <1>5 DEF NothingToRecover
  <2>2. DOMAIN result' = Batches
    BY <2>1 DEF IInv, Domains
  <2>3. After(w)
    BY <1>1, <1>2, <1>3, <2>1, <2>2, IdleAfter
  <2> QED BY <1>1, <1>3, <2>1, <2>3, LocalStep
<1>6. CASE goal[w] = "append"
  <2>1. /\ pc' = [pc EXCEPT ![w] = "ready"]
        /\ inner' = [inner EXCEPT ![w] = "open"]
        /\ UNCHANGED <<goal, attempts, opens, batch, staging, fragment, upload, mark,
                       pulled, result>>
    BY <1>6 DEF NothingToRecover
  <2>2. WriterTypeOK' /\ Domains'
    BY <2>1 DEF IInv, WriterTypeOK, Domains
  <2>3. \A v \in Writers \ {w} : SameLocal(v)
    BY <2>1 DEF SameLocal, IInv, WriterTypeOK
  <2>4. pc'[w] = "ready" /\ inner'[w] = "open"
    BY <2>1 DEF IInv, WriterTypeOK
  <2>5. ControlOK(w)'
    BY <1>1, <1>3, <1>6, <2>1, <2>4 DEF ControlOK, IInv
  <2>6. StagingOK(w)'
    BY <1>1, <1>2, <2>1, <2>4 DEF StagingOK, Loaded, Linking, Appending
  <2>7. After(w)
    BY <2>2, <2>3, <2>5, <2>6 DEF After
  <2> QED BY <1>1, <1>3, <2>1, <2>7, LocalStep
<1>7. CASE goal[w] = "confirm"
  <2>1. Return(w, "durable", 0, "open", staging[w])
    BY <1>7 DEF NothingToRecover
  <2>2. After(w) /\ Tells(w, {"durable"})
    BY <1>1, <1>2, <1>3, <1>7, <2>1, ReturnAfter
  <2>3. \A b \in Batches : b = batch[w] => Honest(b)'
    <3>1. result'[batch[w]].status = "durable"
      BY <1>3, <1>7, <2>1 DEF Return, Result, IInv, Domains
    <3>2. \E i \in DOMAIN history : history[i].batch = batch[w]
      BY <1>1, <1>7, ConfirmedIsLinked
    <3> QED BY <1>1, <3>1, <3>2 DEF Honest
  <2>4. Tells(w, Statuses)
    BY <2>2 DEF Tells, Statuses
  <2> QED BY <1>3, <1>4, <2>2, <2>3, <2>4, StepKeeps
<1>8. goal[w] \in {"open", "append", "confirm"}
  BY DEF IInv, WriterTypeOK
<1> QED BY <1>5, <1>6, <1>7, <1>8

LEMMA ReadFragmentKeeps ==
    ASSUME IInv, NEW w \in Writers, ReadFragment(w)
    PROVE  Preserved
<1> USE DEF handling, working, storage
<1> DEFINE n == staging[w].next_seq_no_to_apply
<1>1. /\ pc[w] = "recover"
      /\ n \in DOMAIN fragments
      /\ fragment' = [fragment EXCEPT ![w] = fragments[n]]
      /\ pc' = [pc EXCEPT ![w] = "mark recovered"]
      /\ UNCHANGED <<manifest, e_tag, fragments, snapshots, delayed, dirty, inner, goal,
                     attempts, opens, batch, staging, upload, mark, pulled, result,
                     history, faults>>
  BY DEF ReadFragment
<1>2. /\ staging[w].e_tag \in 1..e_tag
      /\ Links(fragments, staging[w].manifest, staging[w].e_tag - 1)
      /\ staging[w].next_seq_no_to_assign = staging[w].e_tag
      /\ n = staging[w].e_tag
  BY <1>1, Recovering
<1>3. IsFragment(fragments[n]) /\ fragments[n].seq_no = n /\ Filed(fragments, fragments[n])
  BY <1>1 DEF IInv, StorageOK, Filed
<1> HIDE DEF n
<1>4. Domains' /\ fragment'[w] = fragments[n] /\ pc'[w] = "mark recovered"
  BY <1>1 DEF IInv, Domains, WriterTypeOK
<1>5. WriterTypeOK'
  <2>1. \A v \in Writers : fragment'[v] = NoFragment \/ IsFragment(fragment'[v])
    BY <1>1, <1>3 DEF IInv, WriterTypeOK, Domains
  <2> QED BY <1>1, <2>1 DEF IInv, WriterTypeOK
<1>6. \A v \in Writers \ {w} : SameLocal(v)
  BY <1>1 DEF SameLocal, IInv, WriterTypeOK, Domains
<1>7. ControlOK(w)'
  BY <1>1, <1>4 DEF ControlOK, IInv
<1>8. StagingOK(w)'
  BY <1>1, <1>2, <1>3, <1>4 DEF StagingOK, Loaded, Linking, Appending, n
<1>9. After(w)
  BY <1>4, <1>5, <1>6, <1>7, <1>8 DEF After
<1> QED BY <1>1, <1>9, LocalStep DEF IInv

LEMMA MarkRecoveredKeeps ==
    ASSUME IInv, NEW w \in Writers, MarkRecovered(w)
    PROVE  Preserved
<1> USE DEF handling, working, storage
<1>1. /\ pc[w] = "mark recovered"
      /\ pc' = [pc EXCEPT ![w] = "publish"]
      /\ UNCHANGED <<manifest, e_tag, fragments, snapshots, delayed, inner, goal,
                     attempts, opens, batch, staging, fragment, upload, mark, pulled,
                     result, history, faults>>
  BY DEF MarkRecovered
<1>2. pc'[w] = "publish" /\ Domains' /\ WriterTypeOK'
  BY <1>1 DEF IInv, WriterTypeOK, Domains
<1>3. \A v \in Writers \ {w} : SameLocal(v)
  BY <1>1 DEF SameLocal, IInv, WriterTypeOK
<1>4. StagingOK(w) /\ ControlOK(w)
  BY DEF IInv
<1>5. ControlOK(w)'
  BY <1>1, <1>2, <1>4 DEF ControlOK
<1>6. StagingOK(w)'
  <2>1. inner[w] # "open"
    BY <1>1, <1>4 DEF ControlOK
  <2>2. /\ staging[w].e_tag \in 1..e_tag
        /\ Links(fragments, staging[w].manifest, staging[w].e_tag - 1)
        /\ staging[w].next_seq_no_to_apply = staging[w].e_tag
    BY <1>1, Recovering
  <2>3. /\ IsFragment(fragment[w]) /\ fragment[w].seq_no = staging[w].e_tag
        /\ Filed(fragments, fragment[w])
    BY <1>1, <1>4 DEF StagingOK
  <2> QED BY <1>1, <1>2, <2>1, <2>2, <2>3 DEF StagingOK, Loaded, Linking, Appending
<1>7. After(w)
  BY <1>2, <1>3, <1>5, <1>6 DEF After
<1> QED BY <1>1, <1>7, LocalStep DEF IInv

LEMMA MarkRecoveredFailsKeeps ==
    ASSUME IInv, NEW w \in Writers, MarkRecoveredFails(w)
    PROVE  Preserved
<1> USE DEF storage
<1> PICK err \in MarkDirtyErrors :
           /\ OpenFails(w, err)
           /\ presumed' = IF err = "durable" /\ goal[w] = "append"
                          THEN presumed \cup {batch[w]} ELSE presumed
  BY DEF MarkRecoveredFails
<1>1. /\ pc[w] = "mark recovered" /\ Fault
      /\ UNCHANGED <<manifest, e_tag, fragments, delayed, history>>
  BY DEF MarkRecoveredFails
<1>2. StorageOK' /\ Grows /\ inner[w] # "open"
  BY <1>1, StorageSame DEF IInv, ControlOK
<1>3. DelayedOK' /\ faults' \in 0..MaxFaults
  BY <1>1, <1>2, DelayedKept, FaultsBounded DEF IInv
<1>4. After(w) /\ Tells(w, {err, "failure"})
  BY <1>1, <1>2, OpenFailsAfter
<1>5. err \in {"durable", "retry", "error"}
  BY FaultAssumption
<1>6. Tells(w, Statuses)
  BY <1>4, <1>5 DEF Tells, Statuses
<1>7. CASE err = "durable"
  <2>1. CASE goal[w] = "append"
    <3>1. \A b \in Batches : b = batch[w] => b \in presumed'
      BY <1>7, <2>1
    <3>2. Tells(w, {"durable", "failure"})
      BY <1>4, <1>7
    <3>3. result' = result \/ \A b \in Batches : b = batch[w] => Honest(b)'
      BY <3>1, <3>2 DEF Tells, Honest
    <3> QED BY <1>2, <1>3, <1>4, <1>6, <3>3, StepKeeps
  <2>2. CASE goal[w] # "append"
    <3>1. EnsureOpenErr(w, err)
      BY <1>7 DEF OpenFails
    <3>2. goal[w] \in {"open", "confirm"}
      BY <2>2 DEF IInv, WriterTypeOK
    <3>3. result' = result \/ result' = [result EXCEPT ![batch[w]] = Result("failure", 0)]
      BY <3>1, <3>2 DEF EnsureOpenErr, Return
    <3>4. result' = result \/ Tells(w, Statuses \ {"ok", "durable"})
      <4>1. ASSUME result' # result
            PROVE  Tells(w, Statuses \ {"ok", "durable"})
        <5>1. batch[w] \in Batches
          BY <1>4, <4>1 DEF Tells
        <5>2. result'[batch[w]].status = "failure"
          BY <3>3, <4>1, <5>1 DEF IInv, Domains, Result
        <5> QED BY <1>4, <5>2 DEF Tells, Statuses
      <4> QED BY <4>1
    <3> QED BY <1>2, <1>3, <1>4, <1>6, <3>4, StepKeeps
  <2> QED BY <2>1, <2>2
<1>8. CASE err # "durable"
  <2>1. Tells(w, Statuses \ {"ok", "durable"})
    BY <1>4, <1>5, <1>8 DEF Tells, Statuses
  <2> QED BY <1>2, <1>3, <1>4, <1>6, <2>1, StepKeeps
<1> QED BY <1>7, <1>8

LEMMA ReadFailsKeeps ==
    ASSUME IInv, NEW w \in Writers, ReadFails(w)
    PROVE  Preserved
<1> USE DEF storage
<1>1. /\ pc[w] \in {"open", "recover"} /\ Fault /\ EnsureOpenErr(w, "error")
      /\ UNCHANGED <<manifest, e_tag, fragments, delayed, history>>
  BY DEF ReadFails
<1>2. StorageOK' /\ Grows /\ inner[w] # "open"
  BY <1>1, StorageSame DEF IInv, ControlOK
<1>3. DelayedOK' /\ faults' \in 0..MaxFaults
  BY <1>1, <1>2, DelayedKept, FaultsBounded DEF IInv
<1>4. After(w) /\ Tells(w, {"error", "failure"})
  BY <1>1, <1>2, EnsureOpenErrAfter
<1>5. Tells(w, Statuses) /\ Tells(w, Statuses \ {"ok", "durable"})
  BY <1>4 DEF Tells, Statuses
<1> QED BY <1>2, <1>3, <1>4, <1>5, StepKeeps

LEMMA TakeWorkKeeps ==
    ASSUME IInv, NEW w \in Writers, TakeWork(w)
    PROVE  Preserved
<1> USE DEF handling, working, storage
<1> DEFINE s == staging[w]
           f == [seq_no |-> s.next_seq_no_to_assign,
                 start |-> s.next_log_position,
                 limit |-> s.next_log_position + NumRecords[batch[w]],
                 setsum |-> FragmentSetsum(s.next_seq_no_to_assign, batch[w]),
                 batch |-> batch[w]]
           t == Staging(s.manifest, s.e_tag, s.next_log_position + NumRecords[batch[w]],
                        s.next_seq_no_to_assign + 1, s.next_seq_no_to_apply)
<1>1. /\ pc[w] = "ready"
      /\ fragment' = [fragment EXCEPT ![w] = f]
      /\ staging' = [staging EXCEPT ![w] = t]
      /\ pc' = [pc EXCEPT ![w] = "write"]
      /\ UNCHANGED <<manifest, e_tag, fragments, snapshots, delayed, dirty, inner, goal,
                     attempts, opens, batch, upload, mark, pulled, result, history, faults>>
  BY DEF TakeWork
<1>2. /\ s.e_tag \in 1..e_tag
      /\ Links(fragments, s.manifest, s.e_tag - 1)
      /\ s.next_seq_no_to_assign = s.e_tag
      /\ s.next_seq_no_to_apply = s.e_tag
  BY <1>1, Recovering
<1>3. batch[w] \in Batches /\ inner[w] = "open" /\ goal[w] = "append"
  BY <1>1 DEF IInv, ControlOK
<1>4. /\ f.seq_no = s.e_tag /\ f.batch = batch[w] /\ IsFragment(f)
      /\ t.e_tag = s.e_tag /\ t.manifest = s.manifest
      /\ t.next_seq_no_to_assign = s.e_tag + 1 /\ t.next_seq_no_to_apply = s.e_tag
  <2>1. s.e_tag \in Nat \ {0}
    BY <1>2 DEF IInv, StorageOK
  <2> QED BY <1>2, <1>3, <2>1 DEF IsFragment, Staging
<1> HIDE DEF f, t
<1>5. Domains' /\ fragment'[w] = f /\ pc'[w] = "write" /\ staging'[w] = t
  BY <1>1 DEF IInv, Domains, WriterTypeOK
<1>6. WriterTypeOK'
  <2>1. \A v \in Writers : fragment'[v] = NoFragment \/ IsFragment(fragment'[v])
    BY <1>1, <1>4 DEF IInv, WriterTypeOK, Domains
  <2> QED BY <1>1, <2>1 DEF IInv, WriterTypeOK
<1>7. \A v \in Writers \ {w} : SameLocal(v)
  BY <1>1 DEF SameLocal, IInv, WriterTypeOK, Domains
<1>8. ControlOK(w)'
  BY <1>1, <1>3, <1>5 DEF ControlOK
<1>9. StagingOK(w)'
  <2>1. upload'[w] # "ok"
    BY <1>1 DEF IInv, ControlOK
  <2> QED BY <1>1, <1>2, <1>3, <1>4, <1>5, <2>1 DEF StagingOK, Loaded, Linking, Appending
<1>10. After(w)
  BY <1>5, <1>6, <1>7, <1>8, <1>9 DEF After
<1> QED BY <1>1, <1>10, LocalStep DEF IInv

(* While it writes, w holds a fragment of its batch that may be put.       *)
LEMMA WritingFacts ==
    ASSUME IInv, NEW w \in Writers, pc[w] = "write"
    PROVE  /\ IsFragment(fragment[w])
           /\ fragment[w].seq_no = staging[w].e_tag
           /\ fragment[w].seq_no \in 1..e_tag
           /\ fragment[w].batch = batch[w]
           /\ batch[w] \in Batches
           /\ inner[w] = "open"
BY DEF IInv, StagingOK, ControlOK, Loaded, Appending

(* upload and mark may change while w writes; an upload that is ok is in   *)
(* storage.                                                                *)
LEMMA WritingAfter ==
    ASSUME IInv, NEW w \in Writers, pc[w] = "write", StorageOK', Grows, WriterTypeOK',
           DOMAIN upload' = Writers,
           \A v \in Writers \ {w} : upload'[v] = upload[v],
           UNCHANGED <<pc, inner, goal, batch, staging, fragment, pulled, result>>,
           upload'[w] = "ok" => Filed(fragments', fragment[w])
    PROVE  After(w)
<1>1. Domains' /\ \A v \in Writers \ {w} : SameLocal(v)
  BY DEF IInv, Domains, SameLocal
<1>2. StagingOK(w) /\ ControlOK(w) /\ staging'[w] = staging[w]
  BY DEF IInv
<1>3. ControlOK(w)'
  BY <1>2 DEF ControlOK, Grows
<1>4. /\ staging[w].e_tag \in 1..e_tag
      /\ Links(fragments, staging[w].manifest, staging[w].e_tag - 1)
      /\ staging[w].next_seq_no_to_apply = staging[w].e_tag
      /\ staging[w].next_seq_no_to_assign = staging[w].e_tag + 1
      /\ fragment[w].batch = batch[w]
      /\ IsFragment(fragment[w]) /\ fragment[w].seq_no = staging[w].e_tag
      /\ inner[w] = "open"
  BY <1>2 DEF StagingOK, Loaded, Appending, ControlOK
<1>5. staging[w].e_tag \in 1..e_tag' /\ staging[w].e_tag - 1 \in Nat
  BY <1>4 DEF IInv, StorageOK, Grows
<1>6. Links(fragments', staging[w].manifest, staging[w].e_tag - 1)
  BY <1>4, <1>5, LinksGrow DEF Grows
<1>7. StagingOK(w)'
  BY <1>4, <1>5, <1>6 DEF StagingOK, Loaded, Linking, Appending
<1> QED BY <1>1, <1>3, <1>7 DEF After

LEMMA UploadParquetKeeps ==
    ASSUME IInv, NEW w \in Writers, UploadParquet(w)
    PROVE  Preserved
<1> USE DEF handling, working, storage
<1>1. /\ pc[w] = "write" /\ upload[w] = "wait"
      /\ PutFragment(fragment[w])
      /\ upload' \in {[upload EXCEPT ![w] = "ok"], upload}
      /\ faults' = faults \/ Fault
      /\ UNCHANGED <<manifest, e_tag, snapshots, delayed, dirty, pc, inner, goal, attempts,
                     opens, batch, staging, fragment, mark, pulled, result, history>>
  BY DEF UploadParquet, Uploading
<1>2. IsFragment(fragment[w]) /\ fragment[w].seq_no \in 1..e_tag
  BY <1>1, WritingFacts
<1>3. StorageOK' /\ Grows /\ Filed(fragments', fragment[w])
  BY <1>1, <1>2, StoragePutFragment DEF IInv
<1>4. DelayedOK' /\ faults' \in 0..MaxFaults
  BY <1>1, <1>3, DelayedKept, FaultsBounded DEF IInv
<1>5. WriterTypeOK'
  BY <1>1 DEF IInv, WriterTypeOK
<1>6. DOMAIN upload' = Writers /\ \A v \in Writers \ {w} : upload'[v] = upload[v]
  BY <1>1 DEF IInv, WriterTypeOK
<1>7. After(w)
  BY <1>1, <1>3, <1>5, <1>6, WritingAfter
<1> QED BY <1>1, <1>3, <1>4, <1>7, StepKeeps DEF Tells

(* A step that only records how the upload or the marking went.            *)
LEMMA OutcomeKeeps ==
    ASSUME IInv, NEW w \in Writers, pc[w] = "write",
           \/ \E u \in {"failure", "error"} :
                 upload' = [upload EXCEPT ![w] = u] /\ mark' = mark
           \/ \E u \in {"ok", "retry", "error"} :
                 mark' = [mark EXCEPT ![w] = u] /\ upload' = upload,
           faults' \in 0..MaxFaults,
           delayed' \in {delayed, delayed \cup InFlight(w)},
           UNCHANGED <<manifest, e_tag, fragments, snapshots, pc, inner, goal, attempts,
                       opens, batch, staging, fragment, pulled, result, history>>
    PROVE  Preserved
<1>1. StorageOK' /\ Grows
  BY StorageSame DEF IInv
<1>2. DelayedOK'
  BY DelayedInFlight
<1>3. WriterTypeOK'
  <2>1. upload' \in [Writers -> {"wait", "ok", "failure", "error"}]
    BY DEF IInv, WriterTypeOK
  <2>2. mark' \in [Writers -> {"wait", "ok", "retry", "error"}]
    BY DEF IInv, WriterTypeOK
  <2> QED BY <2>1, <2>2 DEF IInv, WriterTypeOK
<1>4. DOMAIN upload' = Writers /\ \A v \in Writers \ {w} : upload'[v] = upload[v]
  BY DEF IInv, WriterTypeOK
<1>5. upload'[w] = "ok" => Filed(fragments', fragment[w])
  BY DEF IInv, WriterTypeOK, StagingOK
<1>6. After(w)
  BY <1>1, <1>3, <1>4, <1>5, WritingAfter
<1> QED BY <1>1, <1>2, <1>6, StepKeeps DEF Tells

LEMMA UploadConflictKeeps ==
    ASSUME IInv, NEW w \in Writers, UploadConflict(w)
    PROVE  Preserved
BY OutcomeKeeps DEF UploadConflict, Uploading, IInv, handling, working, storage

LEMMA UploadTimeoutKeeps ==
    ASSUME IInv, NEW w \in Writers, UploadTimeout(w)
    PROVE  Preserved
BY OutcomeKeeps, FaultsBounded DEF UploadTimeout, Uploading, handling, working, storage

LEMMA MarkDirtyKeeps ==
    ASSUME IInv, NEW w \in Writers, MarkDirty(w)
    PROVE  Preserved
BY OutcomeKeeps DEF MarkDirty, IInv, handling, working, storage

LEMMA MarkDirtyFailsKeeps ==
    ASSUME IInv, NEW w \in Writers, MarkDirtyFails(w)
    PROVE  Preserved
<1> PICK err \in MarkDirtyErrors :
           mark' = [mark EXCEPT ![w] = IF err = "durable" THEN "ok" ELSE err]
  BY DEF MarkDirtyFails
<1>1. err \in {"durable", "retry", "error"}
  BY FaultAssumption
<1>2. \E u \in {"ok", "retry", "error"} : mark' = [mark EXCEPT ![w] = u]
  BY <1>1
<1> QED BY <1>2, OutcomeKeeps, FaultsBounded DEF MarkDirtyFails, handling, working, storage

LEMMA JoinUploadAndMarkKeeps ==
    ASSUME IInv, NEW w \in Writers, JoinUploadAndMark(w)
    PROVE  Preserved
<1> USE DEF handling, working, storage
<1>1. /\ pc[w] = "write" /\ upload[w] # "wait" /\ mark[w] # "wait"
      /\ UNCHANGED <<manifest, e_tag, fragments, snapshots, delayed, dirty, history, faults>>
  BY DEF JoinUploadAndMark
<1>2. StorageOK' /\ Grows /\ faults' \in 0..MaxFaults
  BY <1>1, StorageSame DEF IInv
<1>3. DelayedOK'
  BY <1>1, <1>2, DelayedKept DEF IInv
<1>4. batch[w] \in Batches /\ inner[w] = "open"
  BY <1>1, WritingFacts
<1>5. CASE \E err \in {"retry", "error", "failure"} : AppendFails(w, err)
  <2>1. PICK err \in {"retry", "error", "failure"} : AppendFails(w, err)
    BY <1>5
  <2>2. After(w) /\ Tells(w, ({err} \ {"durable"}) \cup {"failure"})
    BY <1>2, <1>4, <2>1, AppendFailsAfter
  <2>3. Tells(w, Statuses) /\ Tells(w, Statuses \ {"ok", "durable"})
    BY <2>1, <2>2 DEF Tells, Statuses
  <2> QED BY <1>2, <1>3, <2>2, <2>3, StepKeeps
<1>6. CASE /\ mark[w] = "ok" /\ upload[w] = "ok"
           /\ pc' = [pc EXCEPT ![w] = "publish"]
           /\ UNCHANGED <<inner, goal, attempts, opens, batch, staging, fragment, upload,
                          mark, pulled, result>>
  <2>1. Domains' /\ WriterTypeOK' /\ pc'[w] = "publish"
    BY <1>6 DEF IInv, Domains, WriterTypeOK
  <2>2. \A v \in Writers \ {w} : SameLocal(v)
    BY <1>6 DEF SameLocal, IInv, WriterTypeOK
  <2>3. ControlOK(w)'
    BY <1>1, <1>6, <2>1 DEF ControlOK, IInv
  <2>4. StagingOK(w)'
    <3>1. StagingOK(w)
      BY DEF IInv
    <3> QED BY <1>1, <1>4, <1>6, <2>1, <3>1 DEF StagingOK, Loaded, Linking, Appending
  <2>5. After(w)
    BY <2>1, <2>2, <2>3, <2>4 DEF After
  <2> QED BY <1>1, <1>2, <1>6, <2>5, LocalStep
<1>7. upload[w] \in {"wait", "ok", "failure", "error"} /\ mark[w] \in {"wait", "ok", "retry", "error"}
  BY DEF IInv, WriterTypeOK
<1> QED BY <1>1, <1>5, <1>6, <1>7 DEF JoinUploadAndMark

(* While it links a fragment, w holds the manifest before it.              *)
LEMMA LinkingFacts ==
    ASSUME IInv, NEW w \in Writers, Linking(w)
    PROVE  /\ staging[w].e_tag \in 1..e_tag
           /\ staging[w].e_tag \in Nat \ {0}
           /\ Links(fragments, staging[w].manifest, staging[w].e_tag - 1)
           /\ IsFragment(fragment[w])
           /\ fragment[w].seq_no = staging[w].e_tag
           /\ Filed(fragments, fragment[w])
           /\ inner[w] = "open" =>
                 /\ staging[w].next_seq_no_to_assign = staging[w].e_tag + 1
                 /\ fragment[w].batch = batch[w]
                 /\ goal[w] = "append"
                 /\ batch[w] \in Batches
<1>1. pc[w] \notin {"open", "idle"}
  BY DEF Linking
<1>2. StagingOK(w) /\ ControlOK(w)
  BY DEF IInv
<1>3. staging[w].e_tag \in Nat \ {0}
  <2>1. staging[w].e_tag \in 1..e_tag
    BY <1>1, <1>2 DEF StagingOK, Loaded
  <2>2. e_tag \in Nat
    BY DEF IInv, StorageOK
  <2> QED BY <2>1, <2>2
<1> QED BY <1>1, <1>2, <1>3 DEF StagingOK, Loaded, Appending, ControlOK

(* A failure to link that leaves the manifest and the fragments alone.     *)
LEMMA PublishFailsKeeps ==
    ASSUME IInv, NEW w \in Writers, Linking(w), NEW err \in {"durable", "error"},
           PublishFails(w, err), faults' \in 0..MaxFaults,
           delayed' \in {delayed, delayed \cup InFlight(w)},
           UNCHANGED <<manifest, e_tag, fragments, history>>
    PROVE  Preserved
<1>1. StorageOK' /\ Grows
  BY StorageSame DEF IInv
<1>2. DelayedOK'
  BY DelayedInFlight
<1>3. After(w) /\ Tells(w, ({err} \ {"durable"}) \cup {"failure", "retry"})
  BY <1>1, PublishFailsAfter
<1>4. Tells(w, Statuses) /\ Tells(w, Statuses \ {"ok", "durable"})
  BY <1>3 DEF Tells, Statuses
<1> QED BY <1>1, <1>2, <1>3, <1>4, StepKeeps

LEMMA PullWorkKeeps ==
    ASSUME IInv, NEW w \in Writers, PullWork(w)
    PROVE  Preserved
<1> USE DEF storage
<1> DEFINE s == staging[w]
           applied == apply_fragment(s.manifest, fragment[w])
           rollup == generate_snapshot(applied)
           m == IF rollup = {} THEN applied
                ELSE apply_snapshot(applied, CHOOSE r \in rollup : TRUE)
           p == [manifest |-> m, snapshots |-> rollup]
           t == Staging(s.manifest, s.e_tag, s.next_log_position,
                        s.next_seq_no_to_assign, s.next_seq_no_to_apply + 1)
           next == IF rollup = {} THEN "install" ELSE "snapshot"
<1>1. /\ pc[w] = "publish"
      /\ UNCHANGED <<manifest, e_tag, fragments, snapshots, delayed, dirty, history, faults>>
      /\ \/ /\ pulled' = [pulled EXCEPT ![w] = p]
            /\ staging' = [staging EXCEPT ![w] = t]
            /\ pc' = [pc EXCEPT ![w] = next]
            /\ UNCHANGED <<inner, goal, attempts, opens, batch, fragment, upload, mark,
                           result>>
         \/ PublishFails(w, "error")
  BY DEF PullWork, handling
<1>2. /\ s.e_tag \in 1..e_tag
      /\ s.e_tag \in Nat \ {0}
      /\ Links(fragments, s.manifest, s.e_tag - 1)
      /\ IsFragment(fragment[w])
      /\ fragment[w].seq_no = s.e_tag
      /\ Filed(fragments, fragment[w])
      /\ inner[w] = "open" =>
            /\ s.next_seq_no_to_assign = s.e_tag + 1
            /\ fragment[w].batch = batch[w]
            /\ goal[w] = "append"
            /\ batch[w] \in Batches
  BY <1>1, LinkingFacts DEF Linking
<1>3. s.next_seq_no_to_apply = s.e_tag
  BY <1>1 DEF IInv, StagingOK, Loaded
<1>4. Links(fragments, m, s.e_tag)
  <2> HIDE DEF s
  <2>1. Numbered(fragments)
    BY StorageIsNumbered DEF IInv
  <2>2. s.e_tag - 1 \in Nat /\ (s.e_tag - 1) + 1 = s.e_tag
    BY <1>2
  <2>3. Links(fragments, applied, s.e_tag)
    <3>1. Links(fragments, applied, (s.e_tag - 1) + 1)
      BY <1>2, <2>1, <2>2, LinksAppend
    <3> HIDE DEF applied
    <3> QED BY <2>2, <3>1
  <2> HIDE DEF applied
  <2>4. CASE rollup = {}
    BY <2>3, <2>4
  <2>5. CASE rollup # {}
    <3> DEFINE r == CHOOSE r \in rollup : TRUE
    <3>1. r \in generate_snapshot(applied) /\ m = apply_snapshot(applied, r)
      BY <2>5
    <3> HIDE DEF r, m
    <3> QED BY <1>2, <2>1, <2>3, <3>1, LinksSnapshot
  <2> QED BY <2>4, <2>5
<1>5. CASE /\ pulled' = [pulled EXCEPT ![w] = p]
           /\ staging' = [staging EXCEPT ![w] = t]
           /\ pc' = [pc EXCEPT ![w] = next]
           /\ UNCHANGED <<inner, goal, attempts, opens, batch, fragment, upload, mark, result>>
  <2>1. next \in {"snapshot", "install"} /\ p.manifest = m
    OBVIOUS
  <2>2. /\ t.manifest = s.manifest /\ t.e_tag = s.e_tag
        /\ t.next_seq_no_to_assign = s.next_seq_no_to_assign
        /\ t.next_seq_no_to_apply = s.e_tag + 1
    BY <1>3 DEF Staging
  <2> HIDE DEF next, p, t, m
  <2>3. Domains' /\ WriterTypeOK' /\ pc'[w] = next /\ staging'[w] = t /\ pulled'[w] = p
    BY <1>5, <2>1 DEF IInv, Domains, WriterTypeOK
  <2>4. \A v \in Writers \ {w} : SameLocal(v)
    BY <1>5 DEF SameLocal, IInv, WriterTypeOK, Domains
  <2>5. ControlOK(w)'
    <3>1. ControlOK(w)
      BY DEF IInv
    <3> QED BY <1>1, <1>5, <2>1, <2>3, <3>1 DEF ControlOK
  <2>6. StagingOK(w)'
    BY <1>1, <1>2, <1>4, <1>5, <2>1, <2>2, <2>3 DEF StagingOK, Loaded, Linking, Appending
  <2>7. After(w)
    BY <2>3, <2>4, <2>5, <2>6 DEF After
  <2> QED BY <1>1, <1>5, <2>7, LocalStep DEF IInv
<1>6. CASE PublishFails(w, "error")
  BY <1>1, <1>6, PublishFailsKeeps DEF Linking, IInv
<1> QED BY <1>1, <1>5, <1>6

LEMMA InstallSnapshotKeeps ==
    ASSUME IInv, NEW w \in Writers, InstallSnapshot(w)
    PROVE  Preserved
<1> USE DEF handling, working
<1>1. /\ pc[w] = "snapshot"
      /\ pc' = [pc EXCEPT ![w] = "install"]
      /\ UNCHANGED <<manifest, e_tag, fragments, delayed, dirty, inner, goal, attempts,
                     opens, batch, staging, fragment, upload, mark, pulled, result,
                     history, faults>>
  BY DEF InstallSnapshot
<1>2. Domains' /\ WriterTypeOK' /\ pc'[w] = "install"
  BY <1>1 DEF IInv, Domains, WriterTypeOK
<1>3. \A v \in Writers \ {w} : SameLocal(v)
  BY <1>1 DEF SameLocal, IInv, WriterTypeOK
<1>4. StagingOK(w) /\ ControlOK(w)
  BY DEF IInv
<1>5. ControlOK(w)'
  BY <1>1, <1>2, <1>4 DEF ControlOK
<1>6. StagingOK(w)'
  BY <1>1, <1>2, <1>4 DEF StagingOK, Loaded, Linking, Appending
<1>7. After(w)
  BY <1>2, <1>3, <1>5, <1>6 DEF After
<1> QED BY <1>1, <1>7, LocalStep DEF IInv

LEMMA InstallSnapshotFailsKeeps ==
    ASSUME IInv, NEW w \in Writers, InstallSnapshotFails(w)
    PROVE  Preserved
BY PublishFailsKeeps, FaultsBounded DEF InstallSnapshotFails, Linking

LEMMA InstallConflictKeeps ==
    ASSUME IInv, NEW w \in Writers, InstallConflict(w)
    PROVE  Preserved
BY PublishFailsKeeps DEF InstallConflict, Linking, IInv, storage

LEMMA InstallTimeoutKeeps ==
    ASSUME IInv, NEW w \in Writers, InstallTimeout(w)
    PROVE  Preserved
BY PublishFailsKeeps, FaultsBounded DEF InstallTimeout, Linking

LEMMA InstallManifestKeeps ==
    ASSUME IInv, NEW w \in Writers, InstallManifest(w)
    PROVE  Preserved
<1> USE DEF handling, working
<1> DEFINE s == staging[w]
           f == fragment[w]
<1>1. /\ pc[w] = "install"
      /\ PutManifest(s.e_tag, pulled[w].manifest, f)
      /\ UNCHANGED <<fragments, snapshots, delayed, dirty>>
  BY DEF InstallManifest
<1>2. /\ s.e_tag \in 1..e_tag
      /\ s.e_tag \in Nat \ {0}
      /\ IsFragment(f)
      /\ f.seq_no = s.e_tag
      /\ Filed(fragments, f)
      /\ inner[w] = "open" =>
            /\ s.next_seq_no_to_assign = s.e_tag + 1
            /\ f.batch = batch[w]
            /\ batch[w] \in Batches
  BY <1>1, LinkingFacts DEF Linking
<1>3. Links(fragments, pulled[w].manifest, s.e_tag) /\ s.next_seq_no_to_apply = s.e_tag + 1
  BY <1>1 DEF IInv, StagingOK
<1>4. StorageOK' /\ Grows
  BY <1>1, <1>2, <1>3, StoragePutManifest DEF IInv
<1>5. DelayedOK'
  BY <1>1, <1>4, DelayedKept DEF IInv
<1>6. s.e_tag = e_tag /\ e_tag' = e_tag + 1 /\ history' = Append(history, f)
  BY <1>1 DEF PutManifest
<1>7. CASE PublishOk(w) /\ UNCHANGED faults
  <2>0. faults' \in 0..MaxFaults
    BY <1>7 DEF IInv
  <2>1. CASE inner[w] = "open"
    <3> DEFINE t == Staging(pulled[w].manifest, e_tag', s.next_log_position,
                            s.next_seq_no_to_assign, s.next_seq_no_to_apply)
    <3>1. Return(w, "ok", f.start, "open", t)
      BY <1>7, <2>1 DEF PublishOk
    <3>2. /\ t.e_tag \in 1..e_tag'
          /\ Links(fragments', t.manifest, t.e_tag - 1)
          /\ t.next_seq_no_to_assign = t.e_tag
          /\ t.next_seq_no_to_apply = t.e_tag
      <4>1. t.e_tag = e_tag' /\ t.manifest = pulled[w].manifest
            /\ t.next_seq_no_to_assign = e_tag' /\ t.next_seq_no_to_apply = e_tag'
        BY <1>2, <1>3, <1>6, <2>1 DEF Staging
      <4>2. e_tag' \in Nat \ {0} /\ e_tag' - 1 = s.e_tag
        BY <1>2, <1>6
      <4> HIDE DEF t
      <4> QED BY <1>1, <1>3, <4>1, <4>2
    <3> HIDE DEF t
    <3>3. After(w) /\ Tells(w, {"ok"})
      BY <1>2, <1>4, <2>1, <3>1, <3>2, ReturnAfter
    <3>4. \A b \in Batches : b = batch[w] => Honest(b)'
      <4>1. result'[batch[w]] = Result("ok", f.start)
        BY <1>2, <2>1, <3>1 DEF Return, IInv, Domains
      <4>2. \E i \in DOMAIN history' : history'[i] = f
        <5> DEFINE S == {fragments[i] : i \in DOMAIN fragments}
        <5>1. history \in Seq(S) /\ f \in S
          BY <1>2 DEF IInv, StorageOK, Filed
        <5> HIDE DEF S, f
        <5>2. /\ Len(history) + 1 \in DOMAIN history'
              /\ history'[Len(history) + 1] = f
          BY <1>6, <5>1, AppendProperties, LenProperties
        <5> QED BY <5>2
      <4> QED BY <1>2, <2>1, <4>1, <4>2 DEF Honest, Result
    <3>5. Tells(w, Statuses)
      BY <3>3 DEF Tells, Statuses
    <3> QED BY <1>4, <1>5, <2>0, <3>3, <3>4, <3>5, StepKeeps
  <2>2. CASE inner[w] # "open"
    <3>1. OpenFails(w, "retry")
      BY <1>7, <2>2 DEF PublishOk
    <3>2. After(w) /\ Tells(w, {"retry", "failure"})
      BY <1>1, <1>4, <2>2, <3>1, OpenFailsAfter
    <3>3. Tells(w, Statuses) /\ Tells(w, Statuses \ {"ok", "durable"})
      BY <3>2 DEF Tells, Statuses
    <3> QED BY <1>4, <1>5, <2>0, <3>2, <3>3, StepKeeps
  <2> QED BY <2>1, <2>2
<1>8. CASE Fault /\ PublishFails(w, "failure")
  <2>1. After(w) /\ Tells(w, ({"failure"} \ {"durable"}) \cup {"failure", "retry"})
    BY <1>1, <1>4, <1>8, PublishFailsAfter DEF Linking
  <2>2. Tells(w, Statuses) /\ Tells(w, Statuses \ {"ok", "durable"})
    BY <2>1 DEF Tells, Statuses
  <2>3. faults' \in 0..MaxFaults
    BY <1>8, FaultsBounded
  <2> QED BY <1>4, <1>5, <2>1, <2>2, <2>3, StepKeeps
<1>9. CASE /\ Fault
           /\ UNCHANGED <<pc, inner, goal, attempts, opens, batch, staging, fragment, upload,
                          mark, pulled, result>>
  <2>1. faults' \in 0..MaxFaults
    BY <1>9, FaultsBounded
  <2>2. \A v \in Writers : SameLocal(v)
    BY <1>9 DEF SameLocal
  <2>3. StagingOK(w)' /\ ControlOK(w)'
    BY <1>4, <2>2, FrameWriter DEF IInv
  <2>4. WriterTypeOK' /\ Domains'
    BY <1>9 DEF IInv, WriterTypeOK, Domains
  <2>5. After(w)
    BY <2>2, <2>3, <2>4 DEF After
  <2> QED BY <1>4, <1>5, <1>9, <2>1, <2>5, StepKeeps DEF Tells
<1> QED BY <1>7, <1>8, <1>9 DEF InstallManifest

LEMMA CrashKeeps ==
    ASSUME IInv, NEW w \in Writers, Crash(w)
    PROVE  Preserved
<1>1. /\ faults' \in 0..MaxFaults
      /\ delayed' \in {delayed, delayed \cup InFlight(w)}
      /\ UNCHANGED <<manifest, e_tag, fragments, snapshots, dirty, history>>
  BY FaultsBounded DEF Crash
<1>2. StorageOK' /\ Grows
  BY <1>1, StorageSame DEF IInv
<1>3. DelayedOK'
  BY <1>1, DelayedInFlight
<1>4. CASE batch[w] = NoBatch
  <2>1. Idle(w, "none", NoStaging) /\ UNCHANGED result
    BY <1>4 DEF Crash
  <2>2. DOMAIN result' = Batches
    BY <2>1 DEF IInv, Domains
  <2>3. After(w)
    BY <1>2, <2>1, <2>2, IdleAfter
  <2> QED BY <1>1, <1>2, <1>3, <2>1, <2>3, StepKeeps DEF Tells
<1>5. CASE batch[w] # NoBatch
  <2>1. Return(w, "error", 0, "none", NoStaging)
    BY <1>5 DEF Crash
  <2>2. batch[w] \in Batches
    BY <1>5 DEF IInv, WriterTypeOK
  <2>3. After(w) /\ Tells(w, {"error"})
    BY <1>2, <2>1, <2>2, ReturnAfter
  <2>4. Tells(w, Statuses) /\ Tells(w, Statuses \ {"ok", "durable"})
    BY <2>3 DEF Tells, Statuses
  <2> QED BY <1>1, <1>2, <1>3, <2>3, <2>4, StepKeeps
<1> QED BY <1>4, <1>5

(* A step of storage alone.                                                *)
LEMMA StorageStep ==
    ASSUME IInv, StorageOK', Grows, DelayedOK',
           UNCHANGED <<pc, inner, goal, attempts, opens, batch, staging, fragment, upload,
                       mark, pulled, result, faults>>
    PROVE  Preserved
<1>1. \A v \in Writers : StagingOK(v)' /\ ControlOK(v)'
  <2>1. \A v \in Writers : SameLocal(v)
    BY DEF SameLocal
  <2> QED BY <2>1, FrameWriter DEF IInv
<1>2. WriterTypeOK' /\ Domains' /\ ResultOK' /\ faults' \in 0..MaxFaults
  BY DEF IInv, WriterTypeOK, Domains, ResultOK
<1>3. \A i \in DOMAIN history : i \in DOMAIN history' /\ history'[i] = history[i]
  BY HistoryGrows DEF IInv
<1>4. Recorded /\ AckedIsLinked => AckedIsLinked'
  BY <1>3 DEF AckedIsLinked, Recorded
<1> QED BY <1>1, <1>2, <1>4 DEF Preserved, IInv

LEMMA DelayedFragmentKeeps ==
    ASSUME IInv, NEW r \in delayed, DelayedFragment(r)
    PROVE  Preserved
<1> USE DEF handling, working
<1>1. IsFragment(r.fragment) /\ r.fragment.seq_no \in 1..e_tag
  BY DEF IInv, DelayedOK
<1>2. UNCHANGED <<manifest, e_tag, snapshots, dirty, pc, inner, goal, attempts, opens, batch,
                  staging, fragment, upload, mark, pulled, result, history, faults>>
  BY DEF DelayedFragment
<1>3. StorageOK' /\ Grows
  <2>1. CASE PutFragment(r.fragment)
    BY <1>1, <1>2, <2>1, StoragePutFragment DEF IInv
  <2>2. CASE UNCHANGED fragments
    BY <1>2, <2>2, StorageSame DEF IInv
  <2> QED BY <2>1, <2>2 DEF DelayedFragment
<1>4. DelayedOK'
  BY <1>3, DelayedKept DEF IInv, DelayedFragment
<1> QED BY <1>2, <1>3, <1>4, StorageStep

LEMMA DelayedManifestKeeps ==
    ASSUME IInv, NEW r \in delayed, DelayedManifest(r)
    PROVE  Preserved
<1> USE DEF handling, working
<1>1. /\ r.e_tag = r.fragment.seq_no
      /\ Filed(fragments, r.fragment)
      /\ Links(fragments, r.manifest, r.e_tag)
  BY DEF IInv, DelayedOK, DelayedManifest
<1>2. UNCHANGED <<fragments, snapshots, dirty, pc, inner, goal, attempts, opens, batch,
                  staging, fragment, upload, mark, pulled, result, faults>>
  BY DEF DelayedManifest
<1>3. StorageOK' /\ Grows
  <2>1. CASE PutManifest(r.e_tag, r.manifest, r.fragment)
    BY <1>1, <1>2, <2>1, StoragePutManifest DEF IInv
  <2>2. CASE UNCHANGED <<manifest, e_tag, history>>
    BY <1>2, <2>2, StorageSame DEF IInv
  <2> QED BY <2>1, <2>2 DEF DelayedManifest
<1>4. DelayedOK'
  BY <1>3, DelayedKept DEF IInv, DelayedManifest
<1> QED BY <1>2, <1>3, <1>4, StorageStep

-----------------------------------------------------------------------------
(* The theorems.                                                           *)

LEMMA InitHolds == Init => IInv /\ AckedIsLinked
<1> SUFFICES ASSUME Init
             PROVE  IInv /\ AckedIsLinked
  OBVIOUS
<1> USE DEF Init
<1>1. WriterTypeOK
  <2>1. attempts \in [Writers -> 0..3] /\ opens \in [Writers -> 0..3]
    OBVIOUS
  <2> QED BY <2>1 DEF WriterTypeOK
<1>2. Domains
  BY DEF Domains
<1>3. ResultOK /\ AckedIsLinked
  BY DEF ResultOK, Statuses, Result, AckedIsLinked
<1>4. faults \in 0..MaxFaults
  BY FaultAssumption
<1>5. StorageOK
  <2>1. DOMAIN fragments = {} /\ DOMAIN history = {} /\ history = <<>> /\ Len(history) = 0
    OBVIOUS
  <2>2. \A S : <<>> \in Seq(S)
    BY EmptySeq
  <2>3. Links(fragments, manifest, 0)
    BY <2>2 DEF Links, new_empty
  <2>4. 1 - 1 = 0 /\ \A i \in 1..0 : FALSE
    OBVIOUS
  <2> QED BY <2>1, <2>2, <2>3, <2>4 DEF StorageOK
<1>6. DelayedOK
  BY DEF DelayedOK
<1>7. \A w \in Writers : StagingOK(w) /\ ControlOK(w)
  BY DEF StagingOK, ControlOK, Loaded, Linking, Appending
<1> QED BY <1>1, <1>2, <1>3, <1>4, <1>5, <1>6, <1>7 DEF IInv

(* A step of the task that runs w's call.                                  *)
LEMMA StepOfWriterKeeps ==
    ASSUME IInv, NEW w \in Writers, Step(w)
    PROVE  Preserved
BY LoadManifestKeeps, NothingToRecoverKeeps, ReadFragmentKeeps, MarkRecoveredKeeps,
   MarkRecoveredFailsKeeps, ReadFailsKeeps, TakeWorkKeeps, UploadParquetKeeps,
   UploadConflictKeeps, UploadTimeoutKeeps, MarkDirtyKeeps, MarkDirtyFailsKeeps,
   JoinUploadAndMarkKeeps, PullWorkKeeps, InstallSnapshotKeeps, InstallSnapshotFailsKeeps,
   InstallManifestKeeps, InstallConflictKeeps, InstallTimeoutKeeps
   DEF Step

LEMMA StutterKeeps ==
    ASSUME IInv, UNCHANGED vars
    PROVE  Preserved
<1> USE DEF vars, storage, handling, working
<1>1. StorageOK' /\ Grows
  BY StorageSame DEF IInv
<1>2. DelayedOK'
  BY <1>1, DelayedKept DEF IInv
<1> QED BY <1>1, <1>2, StorageStep

LEMMA NextKeeps ==
    ASSUME IInv, [Next]_vars
    PROVE  Preserved
<1>1. CASE Finished
  BY <1>1, StutterKeeps DEF Finished
<1> QED BY <1>1, OpenKeeps, AppendManyKeeps, StepOfWriterKeeps, CrashKeeps,
           DelayedFragmentKeeps, DelayedManifestKeeps, StutterKeeps DEF Next

LEMMA NextRecords ==
    ASSUME [Next]_vars
    PROVE  Recorded
BY DEF Next, Step, Open, AppendMany, LoadManifest, NothingToRecover, ReadFragment,
       MarkRecovered, MarkRecoveredFails, ReadFails, TakeWork, UploadParquet,
       UploadConflict, UploadTimeout, MarkDirty, MarkDirtyFails, JoinUploadAndMark,
       PullWork, InstallSnapshot, InstallSnapshotFails, InstallManifest,
       InstallConflict, InstallTimeout, Crash, DelayedFragment, DelayedManifest,
       Finished, vars, Recorded

(* IInv is inductive: manifests, storage and the stagings of all writers   *)
(* stay numbered alike, whatever interleaving, conflict, lost reply, late  *)
(* request or crash happens.                                               *)
THEOREM Invariance == Spec => []IInv
<1>1. Init => IInv
  BY InitHolds
<1>2. IInv /\ [Next]_vars => IInv'
  BY NextKeeps DEF Preserved
<1> QED BY <1>1, <1>2, PTL DEF Spec

(* Every writer is always in a control state that the code has, within the *)
(* bounds of its retry loops, with a fragment where one is due.            *)
THEOREM TypeCorrect == Spec => []TypeOK
<1>1. IInv => TypeOK
  <2> SUFFICES ASSUME IInv
               PROVE  TypeOK
    OBVIOUS
  <2>1. DOMAIN fragments \subseteq Nat /\ e_tag \in Nat
    BY DEF IInv, StorageOK
  <2>2. \A i \in DOMAIN history : IsFragment(history[i])
    <3> DEFINE S == {fragments[i] : i \in DOMAIN fragments}
    <3>1. history \in Seq(S) /\ \A f \in S : IsFragment(f)
      BY DEF IInv, StorageOK
    <3> HIDE DEF S
    <3> QED BY <3>1, ElementOfSeq, LenProperties
  <2>3. StorageTypeOK
    BY <2>1, <2>2 DEF IInv, StorageOK, DelayedOK, StorageTypeOK
  <2> QED BY <2>3 DEF IInv, TypeOK, ResultOK
<1> QED BY <1>1, Invariance, PTL

(* Of the fragments in storage at most one is not linked, and it is the    *)
(* one that ManifestManager::recover looks for.                            *)
THEOREM RecoveryFindsAll == Spec => []OneFragmentAhead
<1>1. IInv => OneFragmentAhead
  <2> SUFFICES ASSUME IInv
               PROVE  OneFragmentAhead
    OBVIOUS
  <2>1. e_tag \in Nat \ {0} /\ Len(history) = e_tag - 1
    BY DEF IInv, StorageOK
  <2>2. Len(history) + 1 = e_tag
    BY <2>1
  <2> QED BY <2>2 DEF IInv, StorageOK, OneFragmentAhead
<1> QED BY <1>1, Invariance, PTL

(* A fragment that a manifest has linked is in storage, unaltered: no put  *)
(* of another writer, however late, replaces it.                           *)
THEOREM LinkedStays == Spec => []LinkedIsStored
<1>1. IInv => LinkedIsStored
  <2> SUFFICES ASSUME IInv, NEW i \in DOMAIN history
               PROVE  /\ history[i].seq_no \in DOMAIN fragments
                      /\ fragments[history[i].seq_no] = history[i]
    BY DEF LinkedIsStored
  <2>1. i \in 1..Len(history)
    <3> DEFINE S == {fragments[n] : n \in DOMAIN fragments}
    <3>1. history \in Seq(S)
      BY DEF IInv, StorageOK
    <3> HIDE DEF S
    <3> QED BY <3>1, LenProperties
  <2> QED BY <2>1 DEF IInv, StorageOK
<1> QED BY <1>1, Invariance, PTL

(* append_many returns Ok only for batches that are in the log, at that    *)
(* position, and LogContentionDurable only for batches that are in the log *)
(* unless the dirty log answered so to the mark_dirty of a recovery:       *)
(* however many writers contend, crash and recover each other's fragments. *)
THEOREM AcksAreTrue == Spec => []AckedIsLinked
<1> DEFINE J == IInv /\ AckedIsLinked
<1>1. Init => J
  BY InitHolds
<1>2. J /\ [Next]_vars => J'
  BY NextKeeps, NextRecords DEF Preserved
<1> QED BY <1>1, <1>2, PTL DEF Spec

-----------------------------------------------------------------------------
(***************************************************************************)
(* LogWriter implements AppendLog, and links nothing twice and nothing     *)
(* unmarked: for any number of writers, batches and faults.                *)
(*                                                                         *)
(* The argument, on top of IInv:                                           *)
(*  - every fragment that is in storage or may get there starts where the  *)
(*    fragment of the seq_no before it ends, and no manifest reaches       *)
(*    beyond the last fragment that it links, so that the position which   *)
(*    next_write_timestamp reads off a manifest is the end of the log;     *)
(*  - a writer that may still write a batch holds one of which no fragment *)
(*    is around, so that there is never more than one fragment of a batch; *)
(*  - what a writer is about to link, or a late put may link, was marked.  *)
(***************************************************************************)

-----------------------------------------------------------------------------
(* Sets of numbers.                                                        *)

LEMMA LeastNatural ==
    ASSUME NEW S \in SUBSET Nat, S # {}
    PROVE  \E n \in S : \A m \in S : n <= m
<1> DEFINE R == {ss \in Nat \X Nat : ss[1] < ss[2]}
<1>1. IsWellFoundedOn(R, Nat)
  BY NatLessThanWellFounded DEF OpToRel
<1> HIDE DEF R
<1>2. PICK n \in S : \A m \in S : ~(<<m, n>> \in R)
  BY <1>1, WFMin
<1>3. \A m \in S : ~(m < n)
  BY <1>2 DEF R
<1> QED BY <1>3

LEMMA GreatestUpTo ==
    ASSUME NEW B \in Nat, NEW S \in SUBSET (0..B), S # {}
    PROVE  \E n \in S : \A m \in S : m <= n
<1> DEFINE T == {k \in Nat : B - k \in S}
<1>1. T \in SUBSET Nat /\ T # {}
  <2>1. PICK x \in S : TRUE
    OBVIOUS
  <2>2. B - x \in Nat /\ B - (B - x) = x
    OBVIOUS
  <2> QED BY <2>1, <2>2
<1>2. PICK k \in T : \A l \in T : k <= l
  BY <1>1, LeastNatural
<1>3. \A m \in S : B - m \in T
  OBVIOUS
<1>4. \A m \in S : k <= B - m
  BY <1>2, <1>3
<1>5. B - k \in S /\ k \in Nat
  BY <1>2
<1> QED BY <1>4, <1>5

LEMMA MaxUpTo ==
    ASSUME NEW B \in Nat, NEW S \in SUBSET (0..B), S # {}
    PROVE  Max(S) \in S /\ \A m \in S : m <= Max(S)
<1>1. \E n \in S : \A m \in S : n >= m
  BY GreatestUpTo
<1> QED BY <1>1 DEF Max

(* There is a k-th of a set of indices.                                    *)
LEMMA KthIn ==
    ASSUME NEW n \in Nat, NEW I \in SUBSET (1..n), NEW k \in 1..Cardinality(I)
    PROVE  Kth(I, k) \in I /\ Cardinality({j \in I : j <= Kth(I, k)}) = k
<1> DEFINE upto(i) == {j \in I : j <= i}
           below(i) == {j \in I : j < i}
           S == {i \in I : k <= Cardinality(upto(i))}
<1>0. \A i \in I : i \in Nat /\ i \in 0..n
  OBVIOUS
<1>1. IsFiniteSet(I) /\ Cardinality(I) \in Nat
  <2>1. IsFiniteSet(1..n)
    BY FS_Interval
  <2>2. IsFiniteSet(I)
    BY <2>1, FS_Subset
  <2> QED BY <2>2, FS_CardinalityType
<1>2. \A i : /\ IsFiniteSet(upto(i)) /\ Cardinality(upto(i)) \in Nat
             /\ IsFiniteSet(below(i)) /\ Cardinality(below(i)) \in Nat
  <2> SUFFICES ASSUME NEW i
               PROVE  /\ IsFiniteSet(upto(i)) /\ Cardinality(upto(i)) \in Nat
                      /\ IsFiniteSet(below(i)) /\ Cardinality(below(i)) \in Nat
    OBVIOUS
  <2>1. upto(i) \subseteq I /\ below(i) \subseteq I
    OBVIOUS
  <2> HIDE DEF upto, below
  <2>2. IsFiniteSet(upto(i)) /\ IsFiniteSet(below(i))
    BY <1>1, <2>1, FS_Subset
  <2> QED BY <2>2, FS_CardinalityType
<1>3. \A i \in I : /\ upto(i) = below(i) \cup {i} /\ i \notin below(i)
                   /\ Cardinality(upto(i)) = Cardinality(below(i)) + 1
  <2> SUFFICES ASSUME NEW i \in I
               PROVE  /\ upto(i) = below(i) \cup {i} /\ i \notin below(i)
                      /\ Cardinality(upto(i)) = Cardinality(below(i)) + 1
    OBVIOUS
  <2>1. upto(i) = below(i) \cup {i} /\ i \notin below(i)
    <3>1. \A j \in I : j <= i <=> (j < i \/ j = i)
      BY <1>0
    <3>2. ~(i < i)
      BY <1>0
    <3> QED BY <3>1, <3>2
  <2> HIDE DEF upto, below
  <2> QED BY <1>2, <2>1, FS_AddElement
<1>4. S # {}
  <2>1. I # {}
    <3>1. SUFFICES ASSUME I = {} PROVE FALSE
      OBVIOUS
    <3>2. Cardinality(I) = 0
      BY <3>1, FS_EmptySet
    <3> QED BY <3>2
  <2>2. PICK top \in I : \A j \in I : j <= top
    <3>1. I \in SUBSET (0..n)
      OBVIOUS
    <3> QED BY <2>1, <3>1, GreatestUpTo
  <2>3. upto(top) = I
    BY <2>2
  <2> QED BY <2>3
<1>5. PICK i \in S : \A j \in S : i <= j
  <2>1. S \in SUBSET Nat
    BY <1>0
  <2> HIDE DEF S
  <2> QED BY <1>4, <2>1, LeastNatural
<1>6. Cardinality(upto(i)) = k
  <2> SUFFICES ASSUME Cardinality(upto(i)) > k
               PROVE  FALSE
    <3>1. k <= Cardinality(upto(i)) /\ Cardinality(upto(i)) \in Nat
      BY <1>2, <1>5
    <3> QED BY <3>1
  <2>1. Cardinality(below(i)) >= k
    BY <1>2, <1>3, <1>5
  <2>2. below(i) # {}
    <3>1. SUFFICES ASSUME below(i) = {} PROVE FALSE
      OBVIOUS
    <3>2. Cardinality(below(i)) = 0
      BY <3>1, FS_EmptySet
    <3> QED BY <2>1, <3>2
  <2>3. PICK top \in below(i) : \A j \in below(i) : j <= top
    <3>1. below(i) \in SUBSET (0..n)
      BY <1>0
    <3> QED BY <2>2, <3>1, GreatestUpTo
  <2>4. upto(top) = below(i) /\ top \in I /\ top < i
    <3>1. top \in I /\ top < i /\ i \in I
      BY <1>5, <2>3
    <3>2. \A j \in I : j <= top <=> j < i
      <4>1. \A j \in I : j < i => j <= top
        BY <2>3
      <4>2. \A j \in I : j <= top => j < i
        BY <1>0, <3>1
      <4> QED BY <4>1, <4>2
    <3> QED BY <3>1, <3>2
  <2>5. top \in S
    BY <2>1, <2>4
  <2> QED BY <1>5, <2>4, <2>5
<1>7. \E j \in I : Cardinality({l \in I : l <= j}) = k
  BY <1>5, <1>6
<1> QED BY <1>7 DEF Kth

(* What At returns consists of elements of the sequence.                   *)
LEMMA AtElements ==
    ASSUME NEW S, NEW q \in Seq(S), NEW I \in SUBSET (DOMAIN q)
    PROVE  /\ At(q, I) \in Seq(S)
           /\ \A k \in DOMAIN At(q, I) : \E i \in DOMAIN q : At(q, I)[k] = q[i]
<1>1. Len(q) \in Nat /\ DOMAIN q = 1..Len(q) /\ \A i \in DOMAIN q : q[i] \in S
  OBVIOUS
<1>2. \A k \in 1..Cardinality(I) : Kth(I, k) \in I
  BY <1>1, KthIn
<1>3. Cardinality(I) \in Nat
  <2>1. IsFiniteSet(1..Len(q))
    BY <1>1, FS_Interval
  <2>2. IsFiniteSet(I)
    BY <1>1, <2>1, FS_Subset
  <2> QED BY <2>2, FS_CardinalityType
<1>4. At(q, I) \in [1..Cardinality(I) -> S]
  BY <1>1, <1>2 DEF At
<1>5. At(q, I) \in Seq(S)
  BY <1>3, <1>4
<1>6. \A k \in 1..Cardinality(I) : At(q, I)[k] = q[Kth(I, k)]
  BY DEF At
<1> QED BY <1>2, <1>4, <1>5, <1>6

-----------------------------------------------------------------------------
(* Where fragments and manifests end.                                      *)

(* f starts where the fragment before it ends.                             *)
Follows(files, f) ==
    /\ f.start = EndOf(files, f.seq_no - 1)
    /\ f.start \in Nat \ {0}
    /\ f.limit = f.start + NumRecords[f.batch]
    /\ f.setsum \in Int

IsSeq(q) == \E S : q \in Seq(S)

(* No part of m ends after the n-th fragment.                              *)
Within(files, m, n) ==
    /\ m.initial_offset = None
    /\ IsSeq(m.snapshots)
    /\ IsSeq(m.fragments)
    /\ \A i \in DOMAIN m.snapshots : m.snapshots[i].limit \in 1..EndOf(files, n)
    /\ \A i \in DOMAIN m.fragments : m.fragments[i].limit \in 1..EndOf(files, n)

LEMMA WithinGrows ==
    ASSUME NEW files, NEW more, DOMAIN files \subseteq DOMAIN more,
           \A n \in DOMAIN files : more[n] = files[n],
           NEW n \in DOMAIN files \cup {0}
    PROVE  /\ EndOf(more, n) = EndOf(files, n)
           /\ \A m : Within(files, m, n) => Within(more, m, n)
<1>1. EndOf(more, n) = EndOf(files, n)
  BY DEF EndOf
<1> QED BY <1>1 DEF Within

(* Two sequences one behind the other.                                     *)
Both(p, q) == p \o q

LEMMA ConcatElements ==
    ASSUME NEW p, NEW q, IsSeq(p), IsSeq(q), NEW r, r = Both(p, q)
    PROVE  /\ IsSeq(r)
           /\ \A k \in DOMAIN r :
                 \/ \E i \in DOMAIN p : r[k] = p[i]
                 \/ \E i \in DOMAIN q : r[k] = q[i]
           /\ \A i \in DOMAIN q : \E k \in DOMAIN r : r[k] = q[i]
           /\ r = <<>> => q = <<>>
           /\ r # <<>> => DOMAIN r # {}
<1>1. PICK S : p \in Seq(S)
  BY DEF IsSeq
<1>2. PICK T : q \in Seq(T)
  BY DEF IsSeq
<1>3. p \in Seq(S \cup T) /\ q \in Seq(S \cup T)
  BY <1>1, <1>2, SeqMonotonic
<1>4. /\ r \in Seq(S \cup T)
      /\ Len(r) = Len(p) + Len(q)
      /\ Len(p) \in Nat /\ Len(q) \in Nat
      /\ DOMAIN p = 1..Len(p) /\ DOMAIN q = 1..Len(q) /\ DOMAIN r = 1..Len(p) + Len(q)
      /\ \A k \in 1..Len(p) + Len(q) : r[k] = IF k <= Len(p) THEN p[k] ELSE q[k - Len(p)]
  BY <1>3, ConcatProperties, LenProperties DEF Both
<1>5. ASSUME NEW k \in DOMAIN r
      PROVE  \/ \E i \in DOMAIN p : r[k] = p[i]
             \/ \E i \in DOMAIN q : r[k] = q[i]
  <2>1. CASE k <= Len(p)
    BY <1>4, <1>5, <2>1
  <2>2. CASE ~(k <= Len(p))
    <3>1. k - Len(p) \in 1..Len(q)
      BY <1>4, <1>5, <2>2
    <3> QED BY <1>4, <1>5, <2>2, <3>1
  <2> QED BY <2>1, <2>2
<1>6. ASSUME NEW i \in DOMAIN q
      PROVE  \E k \in DOMAIN r : r[k] = q[i]
  <2>1. Len(p) + i \in 1..Len(p) + Len(q) /\ ~(Len(p) + i <= Len(p)) /\ Len(p) + i - Len(p) = i
    BY <1>4, <1>6
  <2> QED BY <1>4, <2>1
<1>7. (r = <<>> => q = <<>>) /\ (r # <<>> => DOMAIN r # {})
  <2>1. (r = <<>> <=> Len(r) = 0) /\ (q = <<>> <=> Len(q) = 0)
    BY <1>3, <1>4, EmptySeq
  <2>2. Len(r) = 0 => Len(q) = 0
    BY <1>4
  <2>3. Len(r) # 0 => 1 \in 1..Len(p) + Len(q)
    BY <1>4
  <2> QED BY <1>4, <2>1, <2>2, <2>3
<1> QED BY <1>4, <1>5, <1>6, <1>7 DEF IsSeq

(* The next log position is the end of the last fragment that is linked.   *)
LEMMA NextWrite ==
    ASSUME NEW files, Numbered(files), NEW m, NEW n \in Nat, Links(files, m, n),
           Within(files, m, n), EndOf(files, n) \in Nat
    PROVE  next_write_timestamp(m) = EndOf(files, n)
<1> DEFINE parts == m.snapshots \o m.fragments
           top == EndOf(files, n)
<1>1. /\ \A k \in DOMAIN parts : parts[k].limit \in 1..top
      /\ \A i \in DOMAIN m.fragments : \E k \in DOMAIN parts : parts[k] = m.fragments[i]
      /\ parts = <<>> => m.fragments = <<>>
  <2>1. IsSeq(m.snapshots) /\ IsSeq(m.fragments)
    BY DEF Within
  <2>2. /\ \A k \in DOMAIN parts :
             \/ \E i \in DOMAIN m.snapshots : parts[k] = m.snapshots[i]
             \/ \E i \in DOMAIN m.fragments : parts[k] = m.fragments[i]
        /\ \A i \in DOMAIN m.fragments : \E k \in DOMAIN parts : parts[k] = m.fragments[i]
        /\ parts = <<>> => m.fragments = <<>>
    <3>1. parts = Both(m.snapshots, m.fragments)
      BY DEF Both
    <3> HIDE DEF parts
    <3> QED BY <2>1, <3>1, ConcatElements
  <2> HIDE DEF parts, top
  <2>3. /\ \A i \in DOMAIN m.snapshots : m.snapshots[i].limit \in 1..top
        /\ \A i \in DOMAIN m.fragments : m.fragments[i].limit \in 1..top
    BY DEF Within, top
  <2> QED BY <2>2, <2>3
<1>2. ASSUME n # 0
      PROVE  \E i \in DOMAIN m.fragments : m.fragments[i].limit = top
  <2> DEFINE k == Len(m.fragments)
             S == {files[i] : i \in DOMAIN files}
  <2>1. m.fragments \in Seq(S) /\ k > 0 /\ \A i \in 1..k : m.fragments[i].seq_no = n - k + i
    BY <1>2 DEF Links
  <2>2. k \in Nat /\ k \in 1..k /\ k \in DOMAIN m.fragments /\ m.fragments[k] \in S
    <3> HIDE DEF S
    <3> QED BY <2>1, LenProperties, ElementOfSeq
  <2>3. m.fragments[k].seq_no = n
    <3> HIDE DEF k
    <3> QED BY <2>1, <2>2
  <2>4. m.fragments[k] = files[n]
    BY <2>2, <2>3 DEF Numbered
  <2> QED BY <1>2, <2>2, <2>4 DEF EndOf
<1> HIDE DEF parts
<1>3. CASE parts = <<>>
  <2>1. n = 0
    <3> SUFFICES ASSUME n # 0 PROVE FALSE
      OBVIOUS
    <3>1. m.fragments = <<>> /\ \E i \in DOMAIN m.fragments : TRUE
      BY <1>1, <1>2, <1>3
    <3> QED BY <3>1
  <2> QED BY <1>3, <2>1 DEF next_write_timestamp, parts, UnwrapOr, None, Within, EndOf
<1>4. CASE parts # <<>>
  <2>1. top \in Limits(parts)
    <3>1. CASE n # 0
      BY <1>1, <1>2, <3>1 DEF Limits
    <3>2. CASE n = 0
      <4>1. top = 1
        BY <3>2 DEF EndOf
      <4>2. IsSeq(m.snapshots) /\ IsSeq(m.fragments) /\ parts = Both(m.snapshots, m.fragments)
        BY DEF Within, parts, Both
      <4>3. DOMAIN parts # {}
        BY <1>4, <4>2, ConcatElements
      <4>4. \E k \in DOMAIN parts : parts[k].limit = 1
        BY <1>1, <4>1, <4>3
      <4> QED BY <4>1, <4>4 DEF Limits
    <3> QED BY <3>1, <3>2
  <2>2. \A x \in Limits(parts) : x \in Int /\ x <= top
    BY <1>1 DEF Limits
  <2>3. Max(Limits(parts)) = top
    BY <2>1, <2>2, MaxIs
  <2> QED BY <1>4, <2>3 DEF next_write_timestamp, parts
<1> QED BY <1>3, <1>4

(* A sequence with one element behind it.                                  *)
LEMMA AppendElements ==
    ASSUME NEW q, IsSeq(q), NEW x
    PROVE  /\ IsSeq(Append(q, x))
           /\ \A k \in DOMAIN Append(q, x) :
                 Append(q, x)[k] = x \/ \E i \in DOMAIN q : Append(q, x)[k] = q[i]
<1> PICK S : q \in Seq(S)
  BY DEF IsSeq
<1>1. q \in Seq(S \cup {x}) /\ x \in S \cup {x}
  BY SeqMonotonic
<1>2. /\ Append(q, x) \in Seq(S \cup {x})
      /\ Len(Append(q, x)) = Len(q) + 1 /\ Len(q) \in Nat
      /\ \A i \in 1..Len(q) : Append(q, x)[i] = q[i]
      /\ Append(q, x)[Len(q) + 1] = x
      /\ DOMAIN q = 1..Len(q) /\ DOMAIN Append(q, x) = 1..Len(q) + 1
  BY <1>1, AppendProperties, LenProperties
<1>3. \A k \in 1..Len(q) + 1 : k \in 1..Len(q) \/ k = Len(q) + 1
  BY <1>2
<1> QED BY <1>2, <1>3 DEF IsSeq

(* The next fragment applied.                                              *)
LEMMA WithinAppend ==
    ASSUME NEW files, NEW m, NEW n \in Nat, Within(files, m, n), EndOf(files, n) \in Nat \ {0},
           NEW f, IsFragment(f), Filed(files, f), f.seq_no = n + 1, Follows(files, f)
    PROVE  /\ Within(files, apply_fragment(m, f), n + 1)
           /\ EndOf(files, n + 1) = f.limit
           /\ f.limit \in Nat \ {0}
<1>1. EndOf(files, n + 1) = f.limit
  <2>1. n + 1 # 0
    OBVIOUS
  <2> QED BY <2>1 DEF EndOf, Filed
<1>2. f.start = EndOf(files, n) /\ f.limit = f.start + NumRecords[f.batch]
  <2>1. (n + 1) - 1 = n
    OBVIOUS
  <2> QED BY <2>1 DEF Follows
<1>3. NumRecords[f.batch] \in Nat \ {0}
  BY BatchAssumption DEF IsFragment
<1>4. f.limit \in Nat \ {0} /\ EndOf(files, n) <= f.limit /\ f.limit \in 1..f.limit
      /\ \A x \in 1..EndOf(files, n) : x \in 1..f.limit
  BY <1>2, <1>3
<1>5. /\ apply_fragment(m, f).fragments = Append(m.fragments, f)
      /\ apply_fragment(m, f).snapshots = m.snapshots
      /\ apply_fragment(m, f).initial_offset = m.initial_offset
  BY DEF apply_fragment
<1>6. /\ IsSeq(Append(m.fragments, f))
      /\ \A k \in DOMAIN Append(m.fragments, f) : Append(m.fragments, f)[k].limit \in 1..f.limit
  <2>1. IsSeq(m.fragments) /\ \A i \in DOMAIN m.fragments : m.fragments[i].limit \in 1..f.limit
    BY <1>4 DEF Within
  <2> QED BY <1>4, <2>1, AppendElements
<1>7. \A i \in DOMAIN m.snapshots : m.snapshots[i].limit \in 1..f.limit
  BY <1>4 DEF Within
<1> QED BY <1>1, <1>4, <1>5, <1>6, <1>7 DEF Within

(* The parts of a roll-up are parts of the manifest.                       *)
LEMMA SnapshotParts ==
    ASSUME NEW files, NEW m, NEW n, Within(files, m, n), NEW s \in generate_snapshot(m)
    PROVE  /\ IsSeq(s.snapshots) /\ IsSeq(s.fragments)
           /\ \A k \in DOMAIN s.snapshots : s.snapshots[k].limit \in 1..EndOf(files, n)
           /\ \A k \in DOMAIN s.fragments : s.fragments[k].limit \in 1..EndOf(files, n)
<1> DEFINE top == EndOf(files, n)
<1> HIDE DEF top
<1>1. /\ IsSeq(m.snapshots) /\ IsSeq(m.fragments)
      /\ \A i \in DOMAIN m.snapshots : m.snapshots[i].limit \in 1..top
      /\ \A i \in DOMAIN m.fragments : m.fragments[i].limit \in 1..top
  BY DEF Within, top
<1>2. IsSeq(<<>>) /\ DOMAIN <<>> = {}
  <2>1. <<>> \in Seq({})
    OBVIOUS
  <2> QED BY <2>1 DEF IsSeq
<1>3. CASE RollupDepths(m) # {}
  <2> DEFINE depth == Max(RollupDepths(m))
             chosen == RollupIndices(m, depth)
             orphan == {i \in {1} : /\ m.snapshots[i].limit = Min({m.snapshots[j].start : j \in chosen})
                                    /\ m.snapshots[i].depth < depth}
  <2>1. s = RollupSnapshot(m, depth)
    BY <1>3 DEF generate_snapshot
  <2> HIDE DEF depth
  <2>2. s.snapshots = At(m.snapshots, orphan \cup chosen) /\ s.fragments = <<>>
    BY <2>1 DEF RollupSnapshot, Snapshot
  <2>3. chosen \subseteq DOMAIN m.snapshots
    BY DEF RollupIndices
  <2>4. PICK S : m.snapshots \in Seq(S)
    BY <1>1 DEF IsSeq
  <2>5. DOMAIN m.snapshots # {}
    BY <1>3 DEF RollupDepths
  <2>6. orphan \subseteq DOMAIN m.snapshots
    <3>1. 1 \in DOMAIN m.snapshots
      BY <2>4, <2>5
    <3> QED BY <3>1
  <2> HIDE DEF orphan, chosen
  <2>7. /\ s.snapshots \in Seq(S)
        /\ \A k \in DOMAIN s.snapshots : \E i \in DOMAIN m.snapshots : s.snapshots[k] = m.snapshots[i]
    <3> DEFINE I == orphan \cup chosen
               q == At(m.snapshots, I)
    <3>1. I \in SUBSET (DOMAIN m.snapshots)
      BY <2>3, <2>6
    <3> HIDE DEF I
    <3>2. q \in Seq(S) /\ \A k \in DOMAIN q : \E i \in DOMAIN m.snapshots : q[k] = m.snapshots[i]
      BY <2>4, <3>1, AtElements
    <3>3. s.snapshots = q
      BY <2>2 DEF I
    <3> HIDE DEF q
    <3> QED BY <3>2, <3>3
  <2> QED BY <1>1, <1>2, <2>2, <2>7 DEF IsSeq, top
<1>4. CASE RollupDepths(m) = {}
  <2> DEFINE t == fragment_rollover_threshold
  <2>1. LeafReady(m) /\ s = LeafSnapshot(m)
    BY <1>4 DEF generate_snapshot
  <2>2. s.snapshots = <<>> /\ s.fragments = SubSeq(m.fragments, 1, t)
    BY <2>1 DEF LeafSnapshot, Snapshot
  <2>3. t \in Nat /\ t >= 1 /\ Len(m.fragments) >= t
    BY <2>1, ThresholdAssumption DEF LeafReady
  <2> HIDE DEF t
  <2>4. PICK S : m.fragments \in Seq(S)
    BY <1>1 DEF IsSeq
  <2>5. /\ Len(m.fragments) \in Nat /\ DOMAIN m.fragments = 1..Len(m.fragments)
        /\ s.fragments \in Seq(S)
        /\ DOMAIN s.fragments = 1..t
        /\ \A k \in 1..t : s.fragments[k] = m.fragments[k]
    BY <2>2, <2>3, <2>4
  <2>6. \A k \in 1..t : k \in DOMAIN m.fragments
    BY <2>3, <2>5
  <2> QED BY <1>1, <1>2, <2>2, <2>5, <2>6 DEF IsSeq, top
<1> QED BY <1>3, <1>4

(* The pointer to a roll-up ends within the manifest.                      *)
LEMMA PointerWithin ==
    ASSUME NEW s, NEW top \in Nat \ {0}, IsSeq(s.snapshots), IsSeq(s.fragments),
           \A k \in DOMAIN s.snapshots : s.snapshots[k].limit \in 1..top,
           \A k \in DOMAIN s.fragments : s.fragments[k].limit \in 1..top
    PROVE  to_pointer(s).limit \in 1..top
<1> DEFINE parts == Both(s.snapshots, s.fragments)
<1>1. to_pointer(s).limit = IF parts = <<>> THEN 1 ELSE Max(Limits(parts))
  BY DEF to_pointer, Both
<1> HIDE DEF parts
<1>2. /\ \A k \in DOMAIN parts :
            \/ \E i \in DOMAIN s.snapshots : parts[k] = s.snapshots[i]
            \/ \E i \in DOMAIN s.fragments : parts[k] = s.fragments[i]
      /\ parts # <<>> => DOMAIN parts # {}
  BY ConcatElements DEF parts
<1>3. \A k \in DOMAIN parts : parts[k].limit \in 1..top
  BY <1>2
<1>4. Limits(parts) \in SUBSET (0..top) /\ Limits(parts) \subseteq 1..top
  BY <1>3 DEF Limits
<1>5. parts # <<>> => Limits(parts) # {}
  BY <1>2 DEF Limits
<1>6. parts # <<>> => Max(Limits(parts)) \in Limits(parts)
  BY <1>4, <1>5, MaxUpTo
<1> QED BY <1>1, <1>4, <1>6

(* What is left of a sequence without its first elements.                  *)
LEMMA SuffixElements ==
    ASSUME NEW S, NEW q \in Seq(S), NEW d \in Nat
    PROVE  LET r == SubSeq(q, d + 1, Len(q))
           IN  /\ r \in Seq(S)
               /\ \A k \in DOMAIN r : \E i \in DOMAIN q : r[k] = q[i]
<1> DEFINE n == Len(q)
           r == SubSeq(q, d + 1, n)
<1>1. n \in Nat /\ DOMAIN q = 1..n
  OBVIOUS
<1>2. CASE d + 1 <= n
  <2>1. d + 1 \in 1..n + 1 /\ n \in d..n
    BY <1>1, <1>2
  <2>2. r \in Seq(S) /\ Len(r) = n - d /\ \A k \in 1..n - d : r[k] = q[d + k]
    BY <1>1, <1>2, <2>1, SubSeqProperties
  <2> HIDE DEF r, n
  <2>3. DOMAIN r = 1..n - d
    BY <2>2
  <2>4. \A k \in 1..n - d : d + k \in 1..n
    BY <1>1, <1>2
  <2>5. r \in Seq(S) /\ \A k \in DOMAIN r : \E i \in DOMAIN q : r[k] = q[i]
    BY <1>1, <2>2, <2>3, <2>4
  <2> QED BY <2>5 DEF r, n
<1>3. CASE ~(d + 1 <= n)
  <2>1. r = <<>>
    BY <1>1, <1>3, SubSeqEmpty
  <2> HIDE DEF r
  <2>2. r \in Seq(S) /\ DOMAIN r = {}
    BY <2>1
  <2> QED BY <2>2 DEF r, n
<1> QED BY <1>2, <1>3

(* A roll-up applied.                                                      *)
LEMMA WithinSnapshot ==
    ASSUME NEW files, NEW m, NEW n \in Nat, Within(files, m, n), EndOf(files, n) \in Nat \ {0},
           NEW s \in generate_snapshot(m)
    PROVE  Within(files, apply_snapshot(m, s), n)
<1> DEFINE top == EndOf(files, n)
           kept == At(m.snapshots, Unreplaced(m, s))
           rest == SubSeq(m.fragments, Len(s.fragments) + 1, Len(m.fragments))
           a == apply_snapshot(m, s)
<1>1. /\ a.snapshots = Append(kept, to_pointer(s))
      /\ a.fragments = rest
      /\ a.initial_offset = m.initial_offset
  BY DEF apply_snapshot
<1>2. /\ IsSeq(s.snapshots) /\ IsSeq(s.fragments)
      /\ \A k \in DOMAIN s.snapshots : s.snapshots[k].limit \in 1..top
      /\ \A k \in DOMAIN s.fragments : s.fragments[k].limit \in 1..top
  BY SnapshotParts
<1>3. /\ IsSeq(m.snapshots) /\ IsSeq(m.fragments) /\ m.initial_offset = None
      /\ \A i \in DOMAIN m.snapshots : m.snapshots[i].limit \in 1..top
      /\ \A i \in DOMAIN m.fragments : m.fragments[i].limit \in 1..top
      /\ top \in Nat \ {0}
  BY DEF Within
<1> HIDE DEF top, a
<1>4. to_pointer(s).limit \in 1..top
  BY <1>2, <1>3, PointerWithin
<1>5. IsSeq(kept) /\ \A k \in DOMAIN kept : kept[k].limit \in 1..top
  <2> PICK S : m.snapshots \in Seq(S)
    BY <1>3 DEF IsSeq
  <2>1. Unreplaced(m, s) \in SUBSET (DOMAIN m.snapshots)
    BY DEF Unreplaced
  <2>2. /\ kept \in Seq(S)
        /\ \A k \in DOMAIN kept : \E i \in DOMAIN m.snapshots : kept[k] = m.snapshots[i]
    BY <2>1, AtElements
  <2> HIDE DEF kept
  <2> QED BY <1>3, <2>2 DEF IsSeq
<1>6. IsSeq(rest) /\ \A k \in DOMAIN rest : rest[k].limit \in 1..top
  <2> PICK S : m.fragments \in Seq(S)
    BY <1>3 DEF IsSeq
  <2> PICK T : s.fragments \in Seq(T)
    BY <1>2 DEF IsSeq
  <2>1. Len(s.fragments) \in Nat
    OBVIOUS
  <2>2. /\ rest \in Seq(S)
        /\ \A k \in DOMAIN rest : \E i \in DOMAIN m.fragments : rest[k] = m.fragments[i]
    BY <2>1, SuffixElements
  <2> HIDE DEF rest
  <2> QED BY <1>3, <2>2 DEF IsSeq
<1> HIDE DEF kept, rest
<1>7. /\ IsSeq(Append(kept, to_pointer(s)))
      /\ \A k \in DOMAIN Append(kept, to_pointer(s)) : Append(kept, to_pointer(s))[k].limit \in 1..top
  BY <1>4, <1>5, AppendElements
<1>8. Within(files, a, n)
  BY <1>1, <1>3, <1>6, <1>7 DEF Within, top
<1> QED BY <1>8 DEF a

-----------------------------------------------------------------------------
(* The invariant: where fragments are, which were marked, and that no      *)
(* batch is written a second time, but for those that mark_dirty asked to  *)
(* write again.                                                            *)

(* The fragments that are in storage or may still get there.               *)
Around ==
    {fragments[n] : n \in DOMAIN fragments}
        \cup {r.fragment : r \in delayed}
        \cup {fragment[v] : v \in {u \in Writers : pc[u] = "write"}}

Unwritten(b) == \A f \in Around : f.batch # b

(* w has not come to the point where it may link its batch's fragment.     *)
Early(w) == pc[w] \in {"idle", "open", "recover", "mark recovered", "ready"}

(* What w would link was marked dirty.                                     *)
MarkOK(w) ==
    /\ Early(w) => mark[w] = "wait"
    /\ mark[w] = "retry" => batch[w] \in retried
    /\ ((pc[w] = "write" /\ mark[w] = "ok") \/ Linking(w)) => fragment[w].start \in dirty

(* w's batch has a caller that waits, and is written only once.            *)
BatchOK(w) ==
    batch[w] \in Batches =>
        /\ result[batch[w]].status = "pending"
        /\ (batch[w] \notin retried /\ goal[w] = "append" /\ ~Appending(w)) => Unwritten(batch[w])

(* w's manifest and fragment end where the log does.                       *)
PlaceOK(w) ==
    LET s == staging[w]
        f == fragment[w]
    IN  /\ Loaded(w) => Within(fragments, s.manifest, s.e_tag - 1)
        /\ (Loaded(w) /\ Early(w)) => s.next_log_position = EndOf(fragments, s.e_tag - 1)
        /\ Appending(w) => s.next_log_position = f.limit
        /\ pc[w] \in {"snapshot", "install"} => Within(fragments, pulled[w].manifest, s.e_tag)
        /\ pc[w] = "write" => Follows(fragments, f)

Local(w) == MarkOK(w) /\ BatchOK(w) /\ PlaceOK(w)

StoragePlaced ==
    /\ \A n \in DOMAIN fragments : Follows(fragments, fragments[n])
    /\ Within(fragments, manifest, e_tag - 1)

(* A put that may still arrive.                                            *)
PutOK(r) ==
    /\ Follows(fragments, r.fragment)
    /\ r.kind = "manifest" => /\ Within(fragments, r.manifest, r.e_tag)
                              /\ r.fragment.start \in dirty

OneWriterPerBatch == \A v, w \in Writers : (batch[v] = batch[w] /\ batch[v] \in Batches) => v = w
OneFragmentPerBatch ==
    \A f, g \in Around : (f.batch = g.batch /\ f.batch \notin retried) => f = g
UncalledIsUnwritten ==
    \A b \in Batches : result[b].status = "none" => Unwritten(b) /\ \A w \in Writers : batch[w] # b

Extra ==
    /\ StoragePlaced
    /\ \A r \in delayed : PutOK(r)
    /\ MarkedBeforeLinked
    /\ OneWriterPerBatch
    /\ OneFragmentPerBatch
    /\ UncalledIsUnwritten
    /\ \A w \in Writers : Local(w)

(* Everything up to the last fragment that is linked is in storage, ...    *)
LEMMA LinkedThere ==
    ASSUME StorageOK, NEW n \in 0..(e_tag - 1)
    PROVE  n \in DOMAIN fragments \cup {0}
<1>1. CASE n = 0
  BY <1>1
<1>2. CASE n # 0
  <2>1. n \in 1..(e_tag - 1) /\ Len(history) = e_tag - 1
    BY <1>2 DEF StorageOK
  <2> QED BY <2>1 DEF StorageOK
<1> QED BY <1>1, <1>2

(* ... and ends at a log position.                                         *)
LEMMA EndIsPosition ==
    ASSUME StorageOK, StoragePlaced, NEW n \in DOMAIN fragments \cup {0}
    PROVE  EndOf(fragments, n) \in Nat \ {0}
<1>1. CASE n = 0
  BY <1>1 DEF EndOf
<1>2. CASE n # 0
  <2>1. IsFragment(fragments[n]) /\ Follows(fragments, fragments[n])
    BY <1>2 DEF StorageOK, StoragePlaced
  <2>2. NumRecords[fragments[n].batch] \in Nat
    BY <2>1, BatchAssumption DEF IsFragment
  <2>3. /\ fragments[n].start \in Nat \ {0}
        /\ fragments[n].limit = fragments[n].start + NumRecords[fragments[n].batch]
    BY <2>1 DEF Follows
  <2> QED BY <1>2, <2>2, <2>3 DEF EndOf
<1> QED BY <1>1, <1>2

(* What ends somewhere still does when there are more fragments.           *)
LEMMA PlacesGrow ==
    ASSUME StorageOK, Grows
    PROVE  /\ \A n \in DOMAIN fragments \cup {0} :
                 /\ EndOf(fragments', n) = EndOf(fragments, n)
                 /\ \A m : Within(fragments, m, n) => Within(fragments', m, n)
           /\ \A f : (f.seq_no \in 1..e_tag /\ Follows(fragments, f)) => Follows(fragments', f)
<1>1. \A n \in DOMAIN fragments \cup {0} :
         /\ EndOf(fragments', n) = EndOf(fragments, n)
         /\ \A m : Within(fragments, m, n) => Within(fragments', m, n)
  BY WithinGrows DEF Grows
<1>2. ASSUME NEW f, f.seq_no \in 1..e_tag, Follows(fragments, f)
      PROVE  Follows(fragments', f)
  <2>1. f.seq_no - 1 \in 0..(e_tag - 1)
    BY <1>2 DEF StorageOK
  <2>2. f.seq_no - 1 \in DOMAIN fragments \cup {0}
    BY <2>1, LinkedThere
  <2> QED BY <1>1, <1>2, <2>2 DEF Follows
<1> QED BY <1>1, <1>2

Others(w) == \A v \in Writers \ {w} : SameLocal(v) /\ mark'[v] = mark[v]

(* At most the outcome of v's upload is new.                               *)
Unmoved(v) ==
    /\ pc'[v] = pc[v]
    /\ inner'[v] = inner[v]
    /\ goal'[v] = goal[v]
    /\ batch'[v] = batch[v]
    /\ staging'[v] = staging[v]
    /\ fragment'[v] = fragment[v]
    /\ mark'[v] = mark[v]
    /\ pulled'[v] = pulled[v]

(* Such a step does not disturb v.                                         *)
LEMMA FrameLocal ==
    ASSUME IInv, NEW v \in Writers, Local(v), Grows, Unmoved(v),
           dirty \subseteq dirty', retried \subseteq retried',
           batch[v] \in Batches => /\ result'[batch[v]] = result[batch[v]]
                                   /\ Unwritten(batch[v]) => Unwritten(batch[v])'
    PROVE  Local(v)'
<1> USE DEF Unmoved
<1>1. /\ Loaded(v)' = Loaded(v) /\ Linking(v)' = Linking(v) /\ Appending(v)' = Appending(v)
      /\ Early(v)' = Early(v)
  BY DEF Loaded, Linking, Appending, Early
<1>2. MarkOK(v)'
  BY <1>1 DEF MarkOK, Local
<1>3. BatchOK(v)'
  BY <1>1 DEF BatchOK, Local
<1>4. PlaceOK(v)'
  <2>1. ASSUME Loaded(v)
        PROVE  staging[v].e_tag - 1 \in DOMAIN fragments \cup {0}
    <3>1. staging[v].e_tag \in 1..e_tag /\ e_tag \in Nat
      BY <2>1 DEF IInv, StagingOK, StorageOK
    <3>2. staging[v].e_tag - 1 \in 0..(e_tag - 1)
      BY <3>1
    <3> QED BY <3>2, LinkedThere DEF IInv
  <2>2. ASSUME pc[v] \in {"snapshot", "install"}
        PROVE  staging[v].e_tag \in DOMAIN fragments \cup {0}
    BY <2>2 DEF IInv, StagingOK, Linking, Filed
  <2>3. ASSUME pc[v] = "write"
        PROVE  fragment[v].seq_no \in 1..e_tag
    BY <2>3, WritingFacts
  <2>4. StorageOK
    BY DEF IInv
  <2> QED BY <1>1, <2>1, <2>2, <2>3, <2>4, PlacesGrow DEF PlaceOK, Local
<1> QED BY <1>2, <1>3, <1>4 DEF Local

-----------------------------------------------------------------------------
(* What the steps do to the invariant.                                     *)

Outcomes == {"ok", "durable", "retry", "failure", "error"}

(* append_many returns to the caller of w, or nobody is told anything.     *)
Answers(w) ==
    \/ result' = result /\ batch' \in {batch, [batch EXCEPT ![w] = NoBatch]}
    \/ /\ batch[w] \in Batches
       /\ batch' = [batch EXCEPT ![w] = NoBatch]
       /\ \E status \in Outcomes : \E position :
             /\ result' = [result EXCEPT ![batch[w]] = Result(status, position)]
             /\ status # "ok" => position = 0

(* Everything that may get into storage was on its way there before, or w  *)
(* starts to write its batch for the first time.                           *)
Wrote(w) ==
    \/ Around' \subseteq Around
    \/ \E f : /\ Around' \subseteq Around \cup {f}
              /\ batch[w] \in Batches
              /\ f.batch = batch[w]
              /\ batch[w] \notin retried => Unwritten(batch[w])

(* What is linked was in storage and marked.                               *)
Linked(f) ==
    /\ history' = Append(history, f)
    /\ Filed(fragments, f)
    /\ f.seq_no = e_tag
    /\ f.start \in dirty

(* The call of w is over, or starts again from an open.                    *)
Done(w) ==
    /\ Others(w)
    /\ pc'[w] \in {"idle", "open"}
    /\ Answers(w)
    /\ Around' \subseteq Around => Local(w)'

LEMMA IdleDone ==
    ASSUME IInv, NEW w \in Writers, NEW state \in {"none", "closed", "open"},
           NEW stage, Idle(w, state, stage),
           state = "open" => /\ Within(fragments', stage.manifest, stage.e_tag - 1)
                             /\ stage.next_log_position = EndOf(fragments', stage.e_tag - 1)
    PROVE  Others(w) /\ pc'[w] = "idle" /\ Local(w)'
<1>1. Others(w)
  BY DEF IInv, WriterTypeOK, Domains, Idle, ClearWork, Others, SameLocal
<1>2. /\ pc'[w] = "idle" /\ inner'[w] = state /\ goal'[w] = "open" /\ batch'[w] = NoBatch
      /\ staging'[w] = stage /\ mark'[w] = "wait"
  BY DEF IInv, WriterTypeOK, Domains, Idle, ClearWork
<1>3. MarkOK(w)'
  BY <1>2 DEF MarkOK, Early, Linking
<1>4. BatchOK(w)'
  BY <1>2, AbsenceAssumption DEF BatchOK
<1>5. PlaceOK(w)'
  BY <1>2 DEF PlaceOK, Loaded, Early, Appending, Linking
<1> QED BY <1>1, <1>2, <1>3, <1>4, <1>5 DEF Local

LEMMA ReturnDone ==
    ASSUME IInv, NEW w \in Writers, NEW state \in {"none", "closed", "open"},
           NEW stage, NEW status \in Outcomes, NEW position, batch[w] \in Batches,
           Return(w, status, position, state, stage), status # "ok" => position = 0,
           state = "open" => /\ Within(fragments', stage.manifest, stage.e_tag - 1)
                             /\ stage.next_log_position = EndOf(fragments', stage.e_tag - 1)
    PROVE  Done(w)
<1>1. /\ Idle(w, state, stage)
      /\ result' = [result EXCEPT ![batch[w]] = Result(status, position)]
  BY DEF Return
<1>2. batch' = [batch EXCEPT ![w] = NoBatch]
  BY <1>1 DEF Idle
<1>3. Answers(w)
  BY <1>1, <1>2 DEF Answers
<1> QED BY <1>1, <1>3, IdleDone DEF Done

LEMMA ReopenDone ==
    ASSUME IInv, NEW w \in Writers, BatchOK(w), NEW why, NEW attempt, NEW open,
           Reopen(w, why, attempt, open), retried \subseteq retried',
           (batch[w] \notin retried /\ why = "append" /\ batch[w] \in Batches)
              => Unwritten(batch[w])
    PROVE  Done(w)
<1>1. Others(w)
  BY DEF IInv, WriterTypeOK, Domains, Reopen, ClearWork, Others, SameLocal
<1>2. /\ pc'[w] = "open" /\ goal'[w] = why /\ batch' = batch /\ result' = result
      /\ mark'[w] = "wait"
  BY DEF IInv, WriterTypeOK, Domains, Reopen, ClearWork
<1>3. MarkOK(w)'
  BY <1>2 DEF MarkOK, Early, Linking
<1>4. ASSUME Around' \subseteq Around
      PROVE  BatchOK(w)'
  <2>1. batch[w] \in Batches => result[batch[w]].status = "pending"
    BY DEF BatchOK
  <2>2. Unwritten(batch[w]) => Unwritten(batch[w])'
    BY <1>2, <1>4 DEF Unwritten
  <2> QED BY <1>2, <2>1, <2>2 DEF BatchOK
<1>5. PlaceOK(w)'
  BY <1>2 DEF PlaceOK, Loaded, Early, Appending, Linking
<1>6. Answers(w)
  BY <1>2 DEF Answers
<1> QED BY <1>1, <1>2, <1>3, <1>4, <1>5, <1>6 DEF Done, Local

LEMMA EnsureOpenErrDone ==
    ASSUME IInv, NEW w \in Writers, inner[w] # "open", NEW err \in Outcomes \ {"ok"},
           EnsureOpenErr(w, err)
    PROVE  Done(w)
<1>1. /\ inner[w] \in {"none", "closed"}
      /\ goal[w] \in {"open", "append", "confirm"}
      /\ goal[w] # "open" => batch[w] \in Batches
  BY DEF IInv, WriterTypeOK, ControlOK
<1>2. CASE goal[w] = "open"
  <2>1. Idle(w, inner[w], NoStaging) /\ UNCHANGED result
    BY <1>2 DEF EnsureOpenErr
  <2>2. Answers(w)
    BY <2>1 DEF Answers, Idle
  <2> QED BY <1>1, <2>1, <2>2, IdleDone DEF Done
<1>3. CASE goal[w] = "append"
  <2>1. Return(w, err, 0, "closed", NoStaging)
    BY <1>3 DEF EnsureOpenErr
  <2> QED BY <1>1, <1>3, <2>1, ReturnDone
<1>4. CASE goal[w] = "confirm"
  <2>1. Return(w, "failure", 0, "closed", NoStaging) /\ "failure" \in Outcomes
    BY <1>4 DEF EnsureOpenErr, Outcomes
  <2> QED BY <1>1, <1>4, <2>1, ReturnDone
<1> QED BY <1>1, <1>2, <1>3, <1>4

LEMMA OpenFailsDone ==
    ASSUME IInv, NEW w \in Writers, BatchOK(w), inner[w] # "open", NEW err \in Outcomes \ {"ok"},
           OpenFails(w, err), retried \subseteq retried'
    PROVE  Done(w)
<1>1. CASE err = "retry" /\ opens[w] < 3
  <2>1. Reopen(w, goal[w], attempts[w], opens[w] + 1)
    BY <1>1 DEF OpenFails
  <2>2. ~Appending(w)
    BY DEF IInv, ControlOK, Appending
  <2>3. (batch[w] \notin retried /\ goal[w] = "append" /\ batch[w] \in Batches) => Unwritten(batch[w])
    BY <2>2 DEF BatchOK
  <2> QED BY <2>1, <2>3, ReopenDone
<1>2. CASE ~(err = "retry" /\ opens[w] < 3)
  <2>1. EnsureOpenErr(w, err)
    BY <1>2 DEF OpenFails
  <2> QED BY <2>1, EnsureOpenErrDone
<1> QED BY <1>1, <1>2

LEMMA AppendFailsDone ==
    ASSUME IInv, NEW w \in Writers, BatchOK(w), batch[w] \in Batches,
           NEW err \in Outcomes \ {"ok"}, AppendFails(w, err),
           err = "retry" => batch[w] \in retried, retried \subseteq retried'
    PROVE  Done(w)
<1>1. attempts[w] \in 0..3
  BY DEF IInv, WriterTypeOK
<1>2. CASE err = "durable"
  <2>1. Reopen(w, "confirm", attempts[w], 1)
    BY <1>2 DEF AppendFails
  <2> QED BY <2>1, ReopenDone
<1>3. CASE err = "retry" /\ attempts[w] < 3
  <2>1. Reopen(w, "append", attempts[w] + 1, 1)
    <3>1. err # "durable" /\ ~(attempts[w] >= 3) /\ err = "retry"
      BY <1>1, <1>3
    <3> QED BY <1>3, <3>1 DEF AppendFails
  <2> QED BY <1>3, <2>1, ReopenDone
<1>4. CASE err = "retry" /\ ~(attempts[w] < 3)
  <2>1. Return(w, "failure", 0, "closed", NoStaging) /\ "failure" \in Outcomes
    BY <1>1, <1>4 DEF AppendFails, Outcomes
  <2> QED BY <2>1, ReturnDone
<1>5. CASE err \notin {"durable", "retry"}
  <2>1. Return(w, err, 0, "closed", NoStaging)
    BY <1>5 DEF AppendFails
  <2> QED BY <2>1, ReturnDone
<1> QED BY <1>2, <1>3, <1>4, <1>5

LEMMA PublishFailsDone ==
    ASSUME IInv, NEW w \in Writers, BatchOK(w), Linking(w),
           NEW err \in Outcomes \ {"ok", "retry"}, PublishFails(w, err),
           retried \subseteq retried'
    PROVE  Done(w)
<1>1. CASE inner[w] = "open"
  <2>1. AppendFails(w, err)
    BY <1>1 DEF PublishFails
  <2>2. batch[w] \in Batches
    BY <1>1 DEF IInv, ControlOK, Linking
  <2> QED BY <2>1, <2>2, AppendFailsDone
<1>2. CASE inner[w] # "open"
  <2> DEFINE e == IF err = "durable" THEN "retry" ELSE err
  <2>1. OpenFails(w, e) /\ e \in Outcomes \ {"ok"}
    BY <1>2 DEF PublishFails, Outcomes
  <2> HIDE DEF e
  <2> QED BY <1>2, <2>1, OpenFailsDone
<1> QED BY <1>1, <1>2

-----------------------------------------------------------------------------
(* What the steps do to the whole.                                         *)

(* What callers are told: a call begins, or ends with one of the answers.  *)
Told ==
    \/ result' = result
    \/ \E b \in Batches : /\ result[b].status = "none"
                          /\ result' = [result EXCEPT ![b] = Result("pending", 0)]
                          /\ history' = history
    \/ \E b \in Batches, status \in Outcomes : \E position :
          /\ result[b].status = "pending"
          /\ result' = [result EXCEPT ![b] = Result(status, position)]
          /\ status # "ok" => position = 0

(* What is linked: nothing, or the next fragment.                          *)
Extended == history' = history \/ \E f : Linked(f)

AllKept == Extra' /\ Told /\ Extended

(* What was marked before it was linked, was.                              *)
LEMMA MarkedKept ==
    ASSUME StorageOK, MarkedBeforeLinked, dirty \subseteq dirty', Extended
    PROVE  MarkedBeforeLinked'
<1> DEFINE S == {fragments[i] : i \in DOMAIN fragments}
<1>1. CASE history' = history
  BY <1>1 DEF MarkedBeforeLinked
<1>2. ASSUME NEW f, Linked(f)
      PROVE  MarkedBeforeLinked'
  <2>1. history \in Seq(S) /\ history' = Append(history, f) /\ f \in S /\ f.start \in dirty
    BY <1>2 DEF StorageOK, Linked, Filed
  <2> HIDE DEF S
  <2>2. IsSeq(history)
    BY <2>1 DEF IsSeq
  <2>3. \A k \in DOMAIN history' : history'[k] = f \/ \E i \in DOMAIN history : history'[k] = history[i]
    BY <2>1, <2>2, AppendElements
  <2> QED BY <2>1, <2>3 DEF MarkedBeforeLinked
<1> QED BY <1>1, <1>2 DEF Extended

(* Storage and the puts in flight.                                         *)
LEMMA PlacesKept ==
    ASSUME IInv, Extra, Grows, dirty \subseteq dirty', NEW n, n = e_tag' - 1,
           \A k \in DOMAIN fragments' \ DOMAIN fragments :
              fragments'[k].seq_no \in 1..e_tag /\ Follows(fragments, fragments'[k]),
           Within(fragments', manifest', n),
           \A r \in delayed' \ delayed : PutOK(r)'
    PROVE  StoragePlaced' /\ \A r \in delayed' : PutOK(r)'
<1>1. StorageOK /\ DelayedOK /\ StoragePlaced
  BY DEF IInv, Extra
<1>2. ASSUME NEW k \in DOMAIN fragments'
      PROVE  Follows(fragments', fragments'[k])
  <2>1. CASE k \in DOMAIN fragments
    <3>1. fragments'[k] = fragments[k] /\ fragments[k].seq_no = k /\ k \in 1..e_tag
          /\ Follows(fragments, fragments[k])
      BY <1>1, <2>1 DEF Grows, StorageOK, StoragePlaced
    <3> QED BY <1>1, <3>1, PlacesGrow
  <2>2. CASE k \notin DOMAIN fragments
    BY <1>1, <1>2, <2>2, PlacesGrow
  <2> QED BY <2>1, <2>2
<1>3. ASSUME NEW r \in delayed'
      PROVE  PutOK(r)'
  <2>1. CASE r \in delayed
    <3>1. PutOK(r)
      BY <2>1 DEF Extra
    <3>2. /\ r.fragment.seq_no \in 1..e_tag
          /\ r.kind = "manifest" => r.e_tag \in DOMAIN fragments
      BY <1>1, <2>1 DEF DelayedOK, Filed
    <3>3. Follows(fragments', r.fragment)
      BY <1>1, <3>1, <3>2, PlacesGrow DEF PutOK
    <3>4. r.kind = "manifest" => Within(fragments', r.manifest, r.e_tag)
      BY <1>1, <3>1, <3>2, PlacesGrow DEF PutOK
    <3> QED BY <3>1, <3>3, <3>4 DEF PutOK
  <2> QED BY <1>3, <2>1
<1> QED BY <1>2, <1>3 DEF StoragePlaced

(* A step of w.                                                            *)
LEMMA WriterKept ==
    ASSUME IInv, Extra, Grows, NEW w \in Writers, Others(w), Local(w)', Answers(w), Wrote(w),
           Extended, dirty \subseteq dirty', retried \subseteq retried',
           StoragePlaced', \A r \in delayed' : PutOK(r)'
    PROVE  AllKept
<1>1. \A v \in Writers : BatchOK(v)
  BY DEF Extra, Local
<1>2. \A v \in Writers : batch'[v] \in {batch[v], NoBatch}
  BY DEF Answers, IInv, WriterTypeOK
<1>3. DOMAIN result = Batches
  BY DEF IInv, Domains
<1>4. \A b \in Batches : b # batch[w] => result'[b] = result[b]
  BY <1>3 DEF Answers
<1>6. \A v \in Writers : Local(v)'
  <2> SUFFICES ASSUME NEW v \in Writers, v # w
               PROVE  Local(v)'
    OBVIOUS
  <2>1. Local(v) /\ Unmoved(v)
    BY DEF Extra, Others, SameLocal, Unmoved
  <2>2. batch[v] \in Batches => batch[v] # batch[w]
    BY DEF Extra, OneWriterPerBatch
  <2>3. batch[v] \in Batches => /\ result'[batch[v]] = result[batch[v]]
                                /\ Unwritten(batch[v]) => Unwritten(batch[v])'
    <3> SUFFICES ASSUME batch[v] \in Batches
                 PROVE  /\ result'[batch[v]] = result[batch[v]]
                        /\ Unwritten(batch[v]) => \A f \in Around' : f.batch # batch[v]
      <4>1. batch'[v] = batch[v]
        BY <2>1 DEF Unmoved
      <4> QED BY <4>1 DEF Unwritten
    <3> QED BY <1>4, <2>2 DEF Unwritten, Wrote
  <2> QED BY <2>1, <2>3, FrameLocal
<1>7. OneWriterPerBatch'
  BY <1>2, AbsenceAssumption DEF Extra, OneWriterPerBatch
<1>8. OneFragmentPerBatch'
  <2> SUFFICES ASSUME NEW f \in Around', NEW g \in Around', f.batch = g.batch,
                      f.batch \notin retried
               PROVE  f = g
    BY DEF OneFragmentPerBatch
  <2>1. \A x, y \in Around : (x.batch = y.batch /\ x.batch \notin retried) => x = y
    BY DEF Extra, OneFragmentPerBatch
  <2>2. CASE Around' \subseteq Around
    BY <2>1, <2>2
  <2>3. ASSUME NEW x, Around' \subseteq Around \cup {x}, x.batch = batch[w],
               batch[w] \notin retried => Unwritten(batch[w])
        PROVE  f = g
    BY <2>1, <2>3 DEF Unwritten
  <2> QED BY <2>2, <2>3 DEF Wrote
<1>9. UncalledIsUnwritten'
  <2> SUFFICES ASSUME NEW b \in Batches, result'[b].status = "none"
               PROVE  (\A f \in Around' : f.batch # b) /\ \A v \in Writers : batch'[v] # b
    BY DEF UncalledIsUnwritten, Unwritten
  <2>1. result[b].status = "none" /\ b # batch[w]
    <3>1. CASE b = batch[w]
      <4>1. result[b].status = "pending"
        BY <1>1, <3>1 DEF BatchOK
      <4>2. result'[b].status # "none"
        <5>1. CASE result' = result
          BY <4>1, <5>1
        <5>2. ASSUME NEW status \in Outcomes, NEW position,
                     result' = [result EXCEPT ![b] = Result(status, position)]
              PROVE  result'[b].status # "none"
          <6>1. result'[b].status = status
            BY <1>3, <5>2 DEF Result
          <6> QED BY <6>1 DEF Outcomes
        <5> QED BY <3>1, <5>1, <5>2 DEF Answers
      <4> QED BY <4>2
    <3> QED BY <1>4, <3>1
  <2>2. Unwritten(b) /\ \A v \in Writers : batch[v] # b
    BY <2>1 DEF Extra, UncalledIsUnwritten
  <2> QED BY <1>2, <2>1, <2>2, AbsenceAssumption DEF Unwritten, Wrote
<1>10. Told
  <2>1. batch[w] \in Batches => result[batch[w]].status = "pending"
    BY <1>1 DEF BatchOK
  <2> QED BY <2>1 DEF Answers, Told
<1>11. MarkedBeforeLinked'
  BY MarkedKept DEF IInv, Extra
<1> QED BY <1>6, <1>7, <1>8, <1>9, <1>10, <1>11 DEF AllKept, Extra

(* A put that w gives up on.                                               *)
LEMMA InFlightOK ==
    ASSUME IInv, Extra, NEW w \in Writers, NEW r \in InFlight(w)
    PROVE  PutOK(r) /\ r.fragment \in Around
<1>1. Local(w)
  BY DEF Extra
<1>2. CASE Uploading(w)
  <2>1. r = [kind |-> "fragment", fragment |-> fragment[w]] /\ pc[w] = "write"
    BY <1>2 DEF InFlight, Uploading
  <2>2. Follows(fragments, fragment[w])
    BY <1>1, <2>1 DEF Local, PlaceOK
  <2> QED BY <2>1, <2>2 DEF PutOK, Around
<1>3. CASE ~Uploading(w)
  <2>1. /\ r = [kind |-> "manifest", fragment |-> fragment[w],
                e_tag |-> staging[w].e_tag, manifest |-> pulled[w].manifest]
        /\ pc[w] = "install"
    BY <1>3 DEF InFlight
  <2>2. Filed(fragments, fragment[w]) /\ Linking(w)
    BY <2>1 DEF IInv, StagingOK, Linking
  <2>3. /\ Follows(fragments, fragment[w])
        /\ Within(fragments, pulled[w].manifest, staging[w].e_tag)
        /\ fragment[w].start \in dirty
    BY <1>1, <2>1, <2>2 DEF Extra, StoragePlaced, Filed, Local, PlaceOK, MarkOK
  <2>4. fragment[w] \in Around
    BY <2>2 DEF Filed, Around
  <2> QED BY <2>1, <2>3, <2>4 DEF PutOK
<1> QED BY <1>2, <1>3

(* A step of w that leaves the log alone, except for puts that w gives up. *)
LEMMA LocalKept ==
    ASSUME IInv, Extra, NEW w \in Writers, UNCHANGED <<manifest, e_tag, fragments, history>>,
           delayed' \in {delayed, delayed \cup InFlight(w)}, dirty \subseteq dirty',
           retried \subseteq retried', Others(w), Answers(w),
           pc'[w] # "write" \/ (pc[w] = "write" /\ fragment'[w] = fragment[w]),
           Around' \subseteq Around => Local(w)'
    PROVE  AllKept
<1>1. \A r \in InFlight(w) : PutOK(r) /\ r.fragment \in Around
  BY InFlightOK
<1>2. Around' \subseteq Around
  <2> SUFFICES ASSUME NEW f \in Around'
               PROVE  f \in Around
    OBVIOUS
  <2>1. CASE \E n \in DOMAIN fragments : f = fragments[n]
    BY <2>1 DEF Around
  <2>2. CASE \E r \in delayed' : f = r.fragment
    BY <1>1, <2>2 DEF Around
  <2>3. ASSUME NEW v \in Writers, pc'[v] = "write", f = fragment'[v]
        PROVE  f \in Around
    <3>1. pc[v] = "write" /\ f = fragment[v]
      BY <2>3 DEF Others, SameLocal
    <3> QED BY <3>1 DEF Around
  <2> QED BY <2>1, <2>2, <2>3 DEF Around
<1>3. Grows
  BY StorageSame DEF IInv
<1>4. Within(fragments', manifest', e_tag' - 1)
  BY DEF Extra, StoragePlaced
<1>5. \A r \in delayed' \ delayed : PutOK(r)'
  <2>1. \A r \in delayed' \ delayed : PutOK(r)
    BY <1>1
  <2> QED BY <2>1 DEF PutOK
<1>6. StoragePlaced' /\ \A r \in delayed' : PutOK(r)'
  BY <1>3, <1>4, <1>5, PlacesKept
<1> QED BY <1>2, <1>3, <1>6, WriterKept DEF Wrote, Extended

(* A call of w ends.                                                       *)
LEMMA DoneKept ==
    ASSUME IInv, Extra, NEW w \in Writers, UNCHANGED <<manifest, e_tag, fragments, history>>,
           delayed' \in {delayed, delayed \cup InFlight(w)}, dirty \subseteq dirty',
           retried \subseteq retried', Done(w)
    PROVE  AllKept
BY LocalKept DEF Done

-----------------------------------------------------------------------------
(* The steps, one lemma each.                                              *)

LEMMA OpenExtra ==
    ASSUME IInv, Extra, retried \subseteq retried', NEW w \in Writers, Open(w)
    PROVE  AllKept
<1> USE DEF Open, storage, handling, working
<1>1. Others(w)
  BY DEF Others, SameLocal, IInv, WriterTypeOK
<1>2. /\ pc[w] = "idle" /\ pc'[w] = "open" /\ goal'[w] = goal[w] /\ goal[w] = "open"
      /\ batch' = batch /\ result' = result /\ mark'[w] = mark[w]
  BY DEF IInv, WriterTypeOK, ControlOK
<1>3. Local(w)
  BY DEF Extra
<1>4. Local(w)'
  BY <1>2, <1>3 DEF Local, MarkOK, Early, Linking, BatchOK, PlaceOK, Loaded, Appending
<1> QED BY <1>1, <1>2, <1>4, LocalKept DEF Answers

LEMMA LoadManifestExtra ==
    ASSUME IInv, Extra, retried \subseteq retried', NEW w \in Writers, LoadManifest(w)
    PROVE  AllKept
<1> USE DEF LoadManifest, storage, handling, working
<1>1. Others(w)
  BY DEF Others, SameLocal, IInv, WriterTypeOK, Domains
<1>2. /\ pc[w] = "open" /\ pc'[w] = "recover" /\ goal'[w] = goal[w] /\ inner'[w] = inner[w]
      /\ batch' = batch /\ result' = result /\ mark'[w] = mark[w]
      /\ staging'[w] = NewStaging(manifest, e_tag) /\ fragments' = fragments
  BY DEF IInv, WriterTypeOK, Domains
<1>3. Local(w)
  BY DEF Extra
<1>4. ASSUME Around' \subseteq Around
      PROVE  Local(w)'
  <2>1. MarkOK(w)'
    BY <1>2, <1>3 DEF Local, MarkOK, Early, Linking
  <2>2. BatchOK(w)'
    BY <1>2, <1>3, <1>4 DEF Local, BatchOK, Appending, Linking, Unwritten
  <2>3. /\ staging'[w].manifest = manifest /\ staging'[w].e_tag = e_tag
        /\ staging'[w].next_log_position = next_write_timestamp(manifest)
    BY <1>2 DEF NewStaging, Staging
  <2>4. Within(fragments, manifest, e_tag - 1) /\ e_tag - 1 \in Nat
        /\ Links(fragments, manifest, e_tag - 1)
    BY DEF Extra, StoragePlaced, IInv, StorageOK
  <2>5. EndOf(fragments, e_tag - 1) \in Nat
    <3>1. StorageOK /\ StoragePlaced
      BY DEF IInv, Extra
    <3>2. e_tag - 1 \in 0..(e_tag - 1)
      BY <2>4
    <3> QED BY <3>1, <3>2, LinkedThere, EndIsPosition
  <2>6. next_write_timestamp(manifest) = EndOf(fragments, e_tag - 1)
    BY <2>4, <2>5, NextWrite, StorageIsNumbered DEF IInv
  <2>7. PlaceOK(w)'
    BY <1>2, <2>3, <2>4, <2>6 DEF PlaceOK, Loaded, Early, Appending, Linking
  <2> QED BY <2>1, <2>2, <2>7 DEF Local
<1> QED BY <1>1, <1>2, <1>4, LocalKept DEF Answers

LEMMA ReadFragmentExtra ==
    ASSUME IInv, Extra, retried \subseteq retried', NEW w \in Writers, ReadFragment(w)
    PROVE  AllKept
<1> USE DEF ReadFragment, storage, handling, working
<1>1. Others(w)
  BY DEF Others, SameLocal, IInv, WriterTypeOK, Domains
<1>2. /\ pc[w] = "recover" /\ pc'[w] = "mark recovered" /\ goal'[w] = goal[w]
      /\ inner'[w] = inner[w] /\ batch' = batch /\ result' = result /\ mark'[w] = mark[w]
      /\ staging'[w] = staging[w] /\ fragments' = fragments
  BY DEF IInv, WriterTypeOK, Domains
<1>3. Local(w)
  BY DEF Extra
<1>4. ASSUME Around' \subseteq Around
      PROVE  Local(w)'
  <2>1. MarkOK(w)'
    BY <1>2, <1>3 DEF Local, MarkOK, Early, Linking
  <2>2. BatchOK(w)'
    BY <1>2, <1>3, <1>4 DEF Local, BatchOK, Appending, Linking, Unwritten
  <2>3. PlaceOK(w)'
    BY <1>2, <1>3 DEF Local, PlaceOK, Loaded, Early, Appending, Linking
  <2> QED BY <2>1, <2>2, <2>3 DEF Local
<1> QED BY <1>1, <1>2, <1>4, LocalKept DEF Answers

LEMMA MarkRecoveredExtra ==
    ASSUME IInv, Extra, retried \subseteq retried', NEW w \in Writers, MarkRecovered(w)
    PROVE  AllKept
<1> USE DEF MarkRecovered, storage, handling, working
<1>1. Others(w)
  BY DEF Others, SameLocal, IInv, WriterTypeOK
<1>2. /\ pc[w] = "mark recovered" /\ pc'[w] = "publish" /\ goal'[w] = goal[w]
      /\ inner'[w] = inner[w] /\ inner[w] # "open" /\ batch' = batch /\ result' = result
      /\ mark'[w] = mark[w] /\ staging'[w] = staging[w] /\ fragments' = fragments
      /\ fragment'[w] = fragment[w] /\ fragment[w].start \in dirty'
  BY DEF IInv, WriterTypeOK, ControlOK
<1>3. Local(w)
  BY DEF Extra
<1>4. ASSUME Around' \subseteq Around
      PROVE  Local(w)'
  <2>1. MarkOK(w)'
    BY <1>2, <1>3 DEF Local, MarkOK, Early, Linking
  <2>2. BatchOK(w)'
    BY <1>2, <1>3, <1>4 DEF Local, BatchOK, Appending, Linking, Unwritten
  <2>3. PlaceOK(w)'
    BY <1>2, <1>3 DEF Local, PlaceOK, Loaded, Early, Appending, Linking
  <2> QED BY <2>1, <2>2, <2>3 DEF Local
<1> QED BY <1>1, <1>2, <1>4, LocalKept DEF Answers

LEMMA NothingToRecoverExtra ==
    ASSUME IInv, Extra, retried \subseteq retried', NEW w \in Writers, NothingToRecover(w)
    PROVE  AllKept
<1>1. /\ UNCHANGED <<manifest, e_tag, fragments, history>> /\ delayed' = delayed
      /\ dirty' = dirty /\ pc[w] = "recover" /\ Local(w)
  BY DEF NothingToRecover, storage, Extra
<1>2. /\ Within(fragments', staging[w].manifest, staging[w].e_tag - 1)
      /\ staging[w].next_log_position = EndOf(fragments', staging[w].e_tag - 1)
  BY <1>1 DEF Local, PlaceOK, Loaded, Early
<1>3. CASE Idle(w, "open", staging[w]) /\ UNCHANGED result
  <2>1. Others(w) /\ pc'[w] = "idle" /\ Local(w)'
    BY <1>2, <1>3, IdleDone
  <2>2. Answers(w)
    BY <1>3 DEF Answers, Idle
  <2> QED BY <1>1, <2>1, <2>2, LocalKept
<1>4. CASE /\ goal[w] = "append"
           /\ pc' = [pc EXCEPT ![w] = "ready"]
           /\ inner' = [inner EXCEPT ![w] = "open"]
           /\ UNCHANGED <<handling, batch, staging, working, result>>
  <2> USE DEF handling, working
  <2>1. Others(w)
    BY <1>4 DEF Others, SameLocal, IInv, WriterTypeOK
  <2>2. /\ pc'[w] = "ready" /\ inner'[w] = "open" /\ goal'[w] = goal[w]
        /\ batch' = batch /\ result' = result
        /\ mark'[w] = mark[w] /\ staging'[w] = staging[w]
    BY <1>4 DEF IInv, WriterTypeOK
  <2>3. ASSUME Around' \subseteq Around
        PROVE  Local(w)'
    <3>1. MarkOK(w)'
      BY <1>1, <2>2 DEF Local, MarkOK, Early, Linking
    <3>2. BatchOK(w)'
      BY <1>1, <1>4, <2>2, <2>3 DEF Local, BatchOK, Appending, Linking, Unwritten
    <3>3. PlaceOK(w)'
      BY <1>2, <2>2 DEF PlaceOK, Loaded, Early, Appending, Linking
    <3> QED BY <3>1, <3>2, <3>3 DEF Local
  <2> QED BY <1>1, <2>1, <2>2, <2>3, LocalKept DEF Answers
<1>5. CASE goal[w] = "confirm" /\ Return(w, "durable", 0, "open", staging[w])
  <2>1. batch[w] \in Batches /\ "durable" \in Outcomes
    BY <1>5 DEF IInv, ControlOK, Outcomes
  <2>2. Done(w)
    BY <1>2, <1>5, <2>1, ReturnDone
  <2> QED BY <1>1, <2>2, DoneKept
<1> QED BY <1>3, <1>4, <1>5 DEF NothingToRecover

LEMMA MarkRecoveredFailsExtra ==
    ASSUME IInv, Extra, retried \subseteq retried', NEW w \in Writers, MarkRecoveredFails(w)
    PROVE  AllKept
<1>1. PICK err \in MarkDirtyErrors : dirty' \in MarkedAfter(w, err) /\ OpenFails(w, err)
  BY DEF MarkRecoveredFails
<1>2. err \in {"durable", "retry", "error"} /\ err \in Outcomes \ {"ok"}
  BY FaultAssumption DEF Outcomes
<1>3. dirty \subseteq dirty'
  BY <1>1, <1>2 DEF MarkedAfter
<1>4. inner[w] # "open" /\ BatchOK(w)
  BY DEF MarkRecoveredFails, IInv, ControlOK, Extra, Local
<1>5. Done(w)
  BY <1>1, <1>2, <1>4, OpenFailsDone
<1>6. UNCHANGED <<manifest, e_tag, fragments, delayed, history>>
  BY DEF MarkRecoveredFails, storage
<1> QED BY <1>3, <1>5, <1>6, DoneKept

LEMMA ReadFailsExtra ==
    ASSUME IInv, Extra, retried \subseteq retried', NEW w \in Writers, ReadFails(w)
    PROVE  AllKept
<1>1. UNCHANGED <<manifest, e_tag, fragments, delayed, dirty, history>> /\ EnsureOpenErr(w, "error")
  BY DEF ReadFails, storage
<1>2. inner[w] # "open" /\ "error" \in Outcomes \ {"ok"}
  BY DEF ReadFails, IInv, ControlOK, Outcomes
<1>3. Done(w)
  BY <1>1, <1>2, EnsureOpenErrDone
<1> QED BY <1>1, <1>3, DoneKept

LEMMA TakeWorkExtra ==
    ASSUME IInv, Extra, retried \subseteq retried', NEW w \in Writers, TakeWork(w)
    PROVE  AllKept
<1> DEFINE s == staging[w]
           f == fragment'[w]
<1>1. Others(w)
  BY DEF TakeWork, storage, handling, Others, SameLocal, IInv, WriterTypeOK, Domains
<1>2. /\ UNCHANGED <<manifest, e_tag, fragments, delayed, dirty, history, batch, result, mark>>
      /\ pc[w] = "ready" /\ pc'[w] = "write" /\ goal'[w] = goal[w] /\ inner'[w] = inner[w]
  BY DEF TakeWork, storage, handling, IInv, WriterTypeOK
<1>3. /\ f.seq_no = s.next_seq_no_to_assign /\ f.start = s.next_log_position
      /\ f.limit = s.next_log_position + NumRecords[batch[w]] /\ f.batch = batch[w]
      /\ staging'[w] = Staging(s.manifest, s.e_tag, f.limit, s.next_seq_no_to_assign + 1,
                               s.next_seq_no_to_apply)
  BY DEF TakeWork, IInv, Domains
<1>4. Local(w) /\ Loaded(w) /\ Early(w) /\ ~Appending(w)
  BY <1>2 DEF Extra, Loaded, Early, Appending, Linking
<1>5. /\ batch[w] \in Batches /\ goal[w] = "append"
      /\ s.next_seq_no_to_assign = s.e_tag /\ s.e_tag \in 1..e_tag
  BY <1>2, <1>4 DEF IInv, ControlOK, StagingOK
<1>6. batch[w] \notin retried => Unwritten(batch[w])
  BY <1>4, <1>5 DEF Local, BatchOK
<1>7. s.next_log_position = EndOf(fragments, s.e_tag - 1) /\ s.next_log_position \in Nat \ {0}
  <2>1. s.e_tag - 1 \in 0..(e_tag - 1) /\ StorageOK /\ StoragePlaced
    BY <1>5 DEF IInv, StorageOK, Extra
  <2>2. EndOf(fragments, s.e_tag - 1) \in Nat \ {0}
    BY <2>1, LinkedThere, EndIsPosition
  <2> QED BY <1>4, <2>2 DEF Local, PlaceOK
<1>80. f.setsum \in Int
  <2>1. f.setsum = s.next_seq_no_to_assign * Weight[batch[w]]
    BY DEF TakeWork, FragmentSetsum, IInv, Domains
  <2>2. Weight[batch[w]] \in Int /\ s.next_seq_no_to_assign \in Int
    BY <1>5, BatchAssumption DEF IInv, StorageOK
  <2> HIDE DEF f, s
  <2> QED BY <2>1, <2>2
<1>8. Follows(fragments', f)
  BY <1>2, <1>3, <1>5, <1>7, <1>80 DEF Follows
<1> HIDE DEF f
<1>9. Local(w)'
  <2>1. MarkOK(w)'
    BY <1>2, <1>4 DEF Local, MarkOK, Early, Linking
  <2>2. BatchOK(w)'
    BY <1>2, <1>4, <1>5 DEF Local, BatchOK, Appending
  <2>3. PlaceOK(w)'
    <3>1. staging'[w].manifest = s.manifest /\ staging'[w].e_tag = s.e_tag
          /\ staging'[w].next_log_position = f.limit
      BY <1>3 DEF Staging
    <3>2. Within(fragments', s.manifest, s.e_tag - 1)
      BY <1>2, <1>4 DEF Local, PlaceOK
    <3> QED BY <1>2, <1>8, <3>1, <3>2 DEF PlaceOK, Early, f
  <2> QED BY <2>1, <2>2, <2>3 DEF Local
<1>10. Around' \subseteq Around \cup {f}
  <2>1. \A v \in Writers : v # w => pc'[v] = pc[v] /\ fragment'[v] = fragment[v]
    BY <1>1 DEF Others, SameLocal
  <2> QED BY <1>2, <2>1 DEF Around, f
<1>11. Wrote(w)
  BY <1>3, <1>5, <1>6, <1>10 DEF Wrote
<1>12. Grows /\ Within(fragments', manifest', e_tag' - 1)
  BY <1>2, StorageSame DEF IInv, Extra, StoragePlaced
<1>13. StoragePlaced' /\ \A r \in delayed' : PutOK(r)'
  BY <1>2, <1>12, PlacesKept
<1>14. Answers(w) /\ Extended
  BY <1>2 DEF Answers, Extended
<1> QED BY <1>1, <1>2, <1>9, <1>11, <1>12, <1>13, <1>14, WriterKept

LEMMA UploadParquetExtra ==
    ASSUME IInv, Extra, retried \subseteq retried', NEW w \in Writers, UploadParquet(w)
    PROVE  AllKept
<1> DEFINE f == fragment[w]
<1>1. Others(w) /\ Unmoved(w)
  BY DEF UploadParquet, handling, Others, SameLocal, Unmoved, IInv, WriterTypeOK
<1>2. /\ UNCHANGED <<manifest, e_tag, delayed, dirty, history, batch, result, pc, fragment>>
      /\ pc[w] = "write" /\ PutFragment(f)
  BY DEF UploadParquet, Uploading
<1>3. Local(w) /\ Follows(fragments, f)
  BY <1>2 DEF Extra, Local, PlaceOK
<1>4. IsFragment(f) /\ f.seq_no \in 1..e_tag
  BY <1>2, WritingFacts
<1>5. Grows
  BY <1>2, <1>4, StoragePutFragment DEF IInv
<1>6. \A k \in DOMAIN fragments' : k \in DOMAIN fragments \/ fragments'[k] = f
  BY <1>2 DEF PutFragment
<1>7. Around' \subseteq Around
  <2>1. \A k \in DOMAIN fragments' : fragments'[k] \in Around
    <3>1. f \in Around
      BY <1>2 DEF Around
    <3>2. \A k \in DOMAIN fragments : fragments'[k] \in Around
      BY <1>5 DEF Grows, Around
    <3> QED BY <1>6, <3>1, <3>2
  <2> QED BY <1>2, <2>1 DEF Around
<1>8. Local(w)'
  <2>1. Unwritten(batch[w]) => Unwritten(batch[w])'
    BY <1>2, <1>7 DEF Unwritten
  <2> QED BY <1>1, <1>2, <1>3, <1>5, <2>1, FrameLocal
<1>9. StoragePlaced' /\ \A r \in delayed' : PutOK(r)'
  <2>1. Within(fragments', manifest', e_tag' - 1)
    <3>1. e_tag - 1 \in 0..(e_tag - 1) /\ StorageOK
      BY DEF IInv, StorageOK
    <3>2. e_tag - 1 \in DOMAIN fragments \cup {0}
      BY <3>1, LinkedThere
    <3> QED BY <1>2, <1>5, <3>1, <3>2, PlacesGrow DEF Extra, StoragePlaced
  <2>2. \A k \in DOMAIN fragments' \ DOMAIN fragments :
           fragments'[k].seq_no \in 1..e_tag /\ Follows(fragments, fragments'[k])
    BY <1>3, <1>4, <1>6
  <2> QED BY <1>2, <1>5, <2>1, <2>2, PlacesKept
<1> QED BY <1>1, <1>2, <1>5, <1>7, <1>8, <1>9, WriterKept DEF Answers, Wrote, Extended

(* The upload or mark_dirty of w ends.                                     *)
LEMMA OutcomeExtra ==
    ASSUME IInv, Extra, retried \subseteq retried', NEW w \in Writers, pc[w] = "write", MarkOK(w)',
           UNCHANGED <<manifest, e_tag, fragments, history>>,
           delayed' \in {delayed, delayed \cup InFlight(w)}, dirty \subseteq dirty',
           UNCHANGED <<pc, inner, goal, batch, staging, fragment, pulled, result>>,
           \A v \in Writers \ {w} : mark'[v] = mark[v] /\ upload'[v] = upload[v]
    PROVE  AllKept
<1>1. Others(w)
  BY DEF Others, SameLocal
<1>2. Local(w) /\ Appending(w) /\ Appending(w)'
  BY DEF Extra, Appending
<1>3. BatchOK(w)'
  BY <1>2 DEF Local, BatchOK
<1>4. PlaceOK(w)'
  BY <1>2 DEF Local, PlaceOK, Loaded, Early, Appending, Linking
<1> QED BY <1>1, <1>3, <1>4, LocalKept DEF Answers, Local

LEMMA UploadConflictExtra ==
    ASSUME IInv, Extra, retried \subseteq retried', NEW w \in Writers, UploadConflict(w)
    PROVE  AllKept
<1>1. Local(w) /\ Unmoved(w) /\ dirty' = dirty
  BY DEF Extra, UploadConflict, Unmoved, handling
<1>2. MarkOK(w)'
  BY <1>1 DEF Local, MarkOK, Unmoved, Early, Linking
<1> QED BY <1>2, OutcomeExtra DEF UploadConflict, Uploading, storage, handling, IInv, WriterTypeOK

LEMMA UploadTimeoutExtra ==
    ASSUME IInv, Extra, retried \subseteq retried', NEW w \in Writers, UploadTimeout(w)
    PROVE  AllKept
<1>1. Local(w) /\ Unmoved(w) /\ dirty' = dirty
  BY DEF Extra, UploadTimeout, Unmoved, handling
<1>2. MarkOK(w)'
  BY <1>1 DEF Local, MarkOK, Unmoved, Early, Linking
<1> QED BY <1>2, OutcomeExtra DEF UploadTimeout, Uploading, handling, IInv, WriterTypeOK

LEMMA MarkDirtyExtra ==
    ASSUME IInv, Extra, retried \subseteq retried', NEW w \in Writers, MarkDirty(w)
    PROVE  AllKept
<1>1. /\ pc'[w] = "write" /\ mark'[w] = "ok" /\ fragment'[w] = fragment[w]
      /\ fragment[w].start \in dirty' /\ dirty \subseteq dirty'
  BY DEF MarkDirty, IInv, WriterTypeOK
<1>2. MarkOK(w)'
  BY <1>1 DEF MarkOK, Early, Linking
<1> QED BY <1>1, <1>2, OutcomeExtra DEF MarkDirty, storage, handling, IInv, WriterTypeOK

LEMMA MarkDirtyFailsExtra ==
    ASSUME IInv, Extra, retried \subseteq retried', NEW w \in Writers, MarkDirtyFails(w)
    PROVE  AllKept
<1>1. PICK err \in MarkDirtyErrors :
         /\ dirty' \in MarkedAfter(w, err)
         /\ mark' = [mark EXCEPT ![w] = IF err = "durable" THEN "ok" ELSE err]
         /\ err = "retry" => batch[w] \in retried'
  BY DEF MarkDirtyFails
<1>2. err \in {"durable", "retry", "error"}
  BY FaultAssumption
<1>3. dirty \subseteq dirty' /\ (err = "durable" => fragment[w].start \in dirty')
  BY <1>1, <1>2 DEF MarkedAfter
<1>4. /\ pc'[w] = "write" /\ fragment'[w] = fragment[w] /\ batch'[w] = batch[w]
      /\ mark'[w] = IF err = "durable" THEN "ok" ELSE err
  BY <1>1 DEF MarkDirtyFails, IInv, WriterTypeOK
<1>5. MarkOK(w)'
  BY <1>1, <1>2, <1>3, <1>4 DEF MarkOK, Early, Linking
<1>6. \A v \in Writers \ {w} : mark'[v] = mark[v]
  BY <1>1 DEF IInv, WriterTypeOK
<1> QED BY <1>3, <1>5, <1>6, OutcomeExtra DEF MarkDirtyFails, storage, handling

LEMMA JoinUploadAndMarkExtra ==
    ASSUME IInv, Extra, retried \subseteq retried', NEW w \in Writers, JoinUploadAndMark(w)
    PROVE  AllKept
<1>1. /\ UNCHANGED <<manifest, e_tag, fragments, delayed, dirty, history>>
      /\ pc[w] = "write" /\ upload[w] # "wait" /\ mark[w] # "wait"
  BY DEF JoinUploadAndMark, storage
<1>2. Local(w) /\ BatchOK(w) /\ inner[w] = "open" /\ batch[w] \in Batches
  BY <1>1 DEF Extra, Local, IInv, ControlOK
<1>3. /\ mark[w] \in {"ok", "retry", "error"}
      /\ upload[w] \in {"ok", "failure", "error"}
      /\ mark[w] = "retry" => batch[w] \in retried
  BY <1>1, <1>2 DEF IInv, WriterTypeOK, Local, MarkOK
<1>4. CASE mark[w] # "ok"
  <2>1. AppendFails(w, mark[w]) /\ mark[w] \in Outcomes \ {"ok"}
    BY <1>3, <1>4 DEF JoinUploadAndMark, Outcomes
  <2>2. Done(w)
    BY <1>2, <1>3, <2>1, AppendFailsDone
  <2> QED BY <1>1, <2>2, DoneKept
<1>5. CASE mark[w] = "ok" /\ upload[w] # "ok"
  <2>1. AppendFails(w, upload[w]) /\ upload[w] \in Outcomes \ {"ok"} /\ upload[w] # "retry"
    BY <1>3, <1>5 DEF JoinUploadAndMark, Outcomes
  <2>2. Done(w)
    BY <1>2, <2>1, AppendFailsDone
  <2> QED BY <1>1, <2>2, DoneKept
<1>6. CASE mark[w] = "ok" /\ upload[w] = "ok"
  <2>1. pc' = [pc EXCEPT ![w] = "publish"] /\ UNCHANGED <<inner, handling, batch, staging, working, result>>
    BY <1>6 DEF JoinUploadAndMark
  <2> USE DEF handling, working
  <2>2. Others(w)
    BY <2>1 DEF Others, SameLocal, IInv, WriterTypeOK
  <2>3. pc'[w] = "publish"
    BY <2>1 DEF IInv, WriterTypeOK
  <2>4. MarkOK(w)'
    BY <1>1, <1>2, <1>6, <2>1, <2>3 DEF Local, MarkOK, Early, Linking
  <2>5. BatchOK(w)'
    BY <1>2, <2>1, <2>3 DEF BatchOK, Appending, Linking
  <2>6. PlaceOK(w)'
    BY <1>1, <1>2, <2>1, <2>3 DEF Local, PlaceOK, Loaded, Early, Appending, Linking
  <2> QED BY <1>1, <2>1, <2>2, <2>3, <2>4, <2>5, <2>6, LocalKept DEF Answers, Local
<1> QED BY <1>4, <1>5, <1>6

(* Wherever publish_fragment fails, the log is as it was.                  *)
LEMMA PublishFailsExtra ==
    ASSUME IInv, Extra, retried \subseteq retried', NEW w \in Writers, Linking(w), NEW err \in {"error", "failure", "durable"},
           PublishFails(w, err), UNCHANGED <<manifest, e_tag, fragments, dirty, history>>,
           delayed' \in {delayed, delayed \cup InFlight(w)}
    PROVE  AllKept
<1>1. err \in Outcomes \ {"ok", "retry"} /\ BatchOK(w)
  BY DEF Outcomes, Extra, Local
<1>2. Done(w)
  BY <1>1, PublishFailsDone
<1> QED BY <1>2, DoneKept

LEMMA InstallSnapshotExtra ==
    ASSUME IInv, Extra, retried \subseteq retried', NEW w \in Writers, InstallSnapshot(w)
    PROVE  AllKept
<1> USE DEF InstallSnapshot, handling, working
<1>1. Others(w)
  BY DEF Others, SameLocal, IInv, WriterTypeOK
<1>2. pc[w] = "snapshot" /\ pc'[w] = "install" /\ Local(w)
  BY DEF IInv, WriterTypeOK, Extra
<1>3. ASSUME Around' \subseteq Around
      PROVE  Local(w)'
  <2>1. MarkOK(w)'
    BY <1>2 DEF Local, MarkOK, Early, Linking
  <2>2. BatchOK(w)'
    BY <1>2, <1>3 DEF Local, BatchOK, Appending, Linking, Unwritten
  <2>3. PlaceOK(w)'
    BY <1>2 DEF Local, PlaceOK, Loaded, Early, Appending, Linking
  <2> QED BY <2>1, <2>2, <2>3 DEF Local
<1> QED BY <1>1, <1>2, <1>3, LocalKept DEF Answers

LEMMA InstallSnapshotFailsExtra ==
    ASSUME IInv, Extra, retried \subseteq retried', NEW w \in Writers, InstallSnapshotFails(w)
    PROVE  AllKept
BY PublishFailsExtra DEF InstallSnapshotFails, Linking

LEMMA InstallConflictExtra ==
    ASSUME IInv, Extra, retried \subseteq retried', NEW w \in Writers, InstallConflict(w)
    PROVE  AllKept
BY PublishFailsExtra DEF InstallConflict, Linking, storage

LEMMA InstallTimeoutExtra ==
    ASSUME IInv, Extra, retried \subseteq retried', NEW w \in Writers, InstallTimeout(w)
    PROVE  AllKept
BY PublishFailsExtra DEF InstallTimeout, Linking

LEMMA CrashExtra ==
    ASSUME IInv, Extra, retried \subseteq retried', NEW w \in Writers, Crash(w)
    PROVE  AllKept
<1>1. UNCHANGED <<manifest, e_tag, fragments, history, dirty>>
      /\ delayed' \in {delayed, delayed \cup InFlight(w)}
  BY DEF Crash
<1>2. CASE batch[w] = NoBatch
  <2>1. Idle(w, "none", NoStaging) /\ result' = result
    BY <1>2 DEF Crash
  <2>2. Others(w) /\ pc'[w] = "idle" /\ Local(w)'
    BY <2>1, IdleDone
  <2>3. Answers(w)
    BY <2>1 DEF Answers, Idle
  <2> QED BY <1>1, <2>2, <2>3, LocalKept
<1>3. CASE batch[w] # NoBatch
  <2>1. Return(w, "error", 0, "none", NoStaging) /\ "error" \in Outcomes
    BY <1>3 DEF Crash, Outcomes
  <2>2. batch[w] \in Batches
    BY <1>3 DEF IInv, WriterTypeOK
  <2>3. Done(w)
    BY <2>1, <2>2, ReturnDone
  <2> QED BY <1>1, <2>3, DoneKept
<1> QED BY <1>2, <1>3

LEMMA PullWorkExtra ==
    ASSUME IInv, Extra, retried \subseteq retried', NEW w \in Writers, PullWork(w)
    PROVE  AllKept
<1> DEFINE s == staging[w]
           f == fragment[w]
           applied == apply_fragment(s.manifest, f)
           rollup == generate_snapshot(applied)
           m == IF rollup = {} THEN applied
                ELSE apply_snapshot(applied, CHOOSE r \in rollup : TRUE)
           p == [manifest |-> m, snapshots |-> rollup]
           t == Staging(s.manifest, s.e_tag, s.next_log_position,
                        s.next_seq_no_to_assign, s.next_seq_no_to_apply + 1)
           next == IF rollup = {} THEN "install" ELSE "snapshot"
<1>1. /\ pc[w] = "publish"
      /\ UNCHANGED <<manifest, e_tag, fragments, delayed, dirty, history>>
      /\ \/ /\ pulled' = [pulled EXCEPT ![w] = p]
            /\ staging' = [staging EXCEPT ![w] = t]
            /\ pc' = [pc EXCEPT ![w] = next]
            /\ UNCHANGED <<inner, goal, batch, fragment, upload, mark, result>>
         \/ PublishFails(w, "error")
  BY DEF PullWork, handling, storage
<1>2. /\ s.e_tag \in 1..e_tag
      /\ s.e_tag \in Nat \ {0}
      /\ IsFragment(f)
      /\ f.seq_no = s.e_tag
      /\ Filed(fragments, f)
  BY <1>1, LinkingFacts DEF Linking
<1>3. Local(w) /\ Linking(w)
  BY <1>1 DEF Extra, Linking
<1>4. Within(fragments, m, s.e_tag)
  <2>1. /\ s.e_tag - 1 \in Nat /\ s.e_tag - 1 \in 0..(e_tag - 1) /\ s.e_tag = (s.e_tag - 1) + 1
        /\ StorageOK /\ StoragePlaced
    <3>1. StorageOK /\ StoragePlaced
      BY DEF IInv, Extra
    <3>2. e_tag \in Nat
      BY <3>1 DEF StorageOK
    <3> HIDE DEF s
    <3>3. s.e_tag - 1 \in Nat /\ s.e_tag - 1 \in 0..(e_tag - 1) /\ s.e_tag = (s.e_tag - 1) + 1
      BY <1>2, <3>2
    <3> QED BY <3>1, <3>3
  <2>2. Within(fragments, s.manifest, s.e_tag - 1)
    BY <1>1, <1>3 DEF Local, PlaceOK, Loaded
  <2>3. EndOf(fragments, s.e_tag - 1) \in Nat \ {0}
    BY <2>1, LinkedThere, EndIsPosition
  <2>4. Follows(fragments, f)
    BY <1>2, <2>1 DEF StoragePlaced, Filed
  <2> HIDE DEF s, f
  <2>5. Within(fragments, applied, s.e_tag)
    <3>1. Within(fragments, applied, (s.e_tag - 1) + 1)
      BY <1>2, <2>1, <2>2, <2>3, <2>4, WithinAppend
    <3> HIDE DEF applied
    <3> QED BY <2>1, <3>1
  <2>6. EndOf(fragments, s.e_tag) \in Nat \ {0}
    BY <1>2, <2>1, EndIsPosition DEF Filed
  <2> HIDE DEF applied
  <2>7. CASE rollup = {}
    BY <2>5, <2>7
  <2>8. CASE rollup # {}
    <3> DEFINE r == CHOOSE r \in rollup : TRUE
    <3>1. r \in generate_snapshot(applied) /\ m = apply_snapshot(applied, r)
      BY <2>8
    <3> HIDE DEF r, m
    <3> QED BY <1>2, <2>5, <2>6, <3>1, WithinSnapshot
  <2> QED BY <2>7, <2>8
<1>5. CASE /\ pulled' = [pulled EXCEPT ![w] = p]
           /\ staging' = [staging EXCEPT ![w] = t]
           /\ pc' = [pc EXCEPT ![w] = next]
           /\ UNCHANGED <<inner, goal, batch, fragment, upload, mark, result>>
  <2>1. next \in {"snapshot", "install"} /\ p.manifest = m
    OBVIOUS
  <2>2. t.manifest = s.manifest /\ t.e_tag = s.e_tag /\ t.next_log_position = s.next_log_position
    BY DEF Staging
  <2> HIDE DEF next, p, t, m
  <2>3. pc'[w] = next /\ staging'[w] = t /\ pulled'[w] = p
    BY <1>5 DEF IInv, Domains, WriterTypeOK
  <2>4. Others(w)
    BY <1>5 DEF Others, SameLocal, IInv, WriterTypeOK, Domains
  <2>5. ASSUME Around' \subseteq Around
        PROVE  Local(w)'
    <3>1. MarkOK(w)'
      BY <1>1, <1>3, <1>5, <2>1, <2>3 DEF Local, MarkOK, Early, Linking
    <3>2. BatchOK(w)'
      BY <1>1, <1>3, <1>5, <2>1, <2>3, <2>5 DEF Local, BatchOK, Appending, Linking, Unwritten
    <3>3. PlaceOK(w)'
      BY <1>1, <1>3, <1>4, <1>5, <2>1, <2>2, <2>3 DEF Local, PlaceOK, Loaded, Early, Appending, Linking
    <3> QED BY <3>1, <3>2, <3>3 DEF Local
  <2> QED BY <1>1, <1>5, <2>1, <2>3, <2>4, <2>5, LocalKept DEF Answers
<1>6. CASE PublishFails(w, "error")
  BY <1>1, <1>3, <1>6, PublishFailsExtra
<1> QED BY <1>1, <1>5, <1>6

(* The put of a manifest goes through.                                     *)
LEMMA PutManifestExtra ==
    ASSUME IInv, Extra, retried \subseteq retried', NEW f, NEW m, Filed(fragments, f), f.seq_no = e_tag, f.start \in dirty,
           Links(fragments, m, e_tag), Within(fragments, m, e_tag), PutManifest(e_tag, m, f),
           UNCHANGED <<fragments, dirty>>, delayed' \subseteq delayed
    PROVE  /\ Grows
           /\ Extended
           /\ StoragePlaced' /\ \A r \in delayed' : PutOK(r)'
<1>1. manifest' = m /\ e_tag' = e_tag + 1 /\ history' = Append(history, f)
  BY DEF PutManifest
<1>2. Grows
  BY StoragePutManifest DEF IInv
<1>3. Extended
  BY <1>1 DEF Extended, Linked
<1>4. Within(fragments', manifest', e_tag' - 1)
  <2>1. e_tag \in Nat /\ (e_tag + 1) - 1 = e_tag
    BY DEF IInv, StorageOK
  <2> QED BY <1>1, <2>1
<1>5. StoragePlaced' /\ \A r \in delayed' : PutOK(r)'
  BY <1>2, <1>4, PlacesKept
<1> QED BY <1>2, <1>3, <1>5

LEMMA InstallManifestExtra ==
    ASSUME IInv, Extra, retried \subseteq retried', NEW w \in Writers, InstallManifest(w)
    PROVE  AllKept
<1> DEFINE s == staging[w]
           f == fragment[w]
           m == pulled[w].manifest
<1>1. /\ pc[w] = "install"
      /\ PutManifest(s.e_tag, m, f)
      /\ UNCHANGED <<fragments, delayed, dirty>>
  BY DEF InstallManifest
<1>2. /\ s.e_tag \in Nat \ {0}
      /\ f.seq_no = s.e_tag
      /\ Filed(fragments, f)
      /\ inner[w] = "open" => batch[w] \in Batches
      /\ Links(fragments, m, s.e_tag)
  BY <1>1, LinkingFacts DEF Linking, IInv, StagingOK
<1>3. Local(w) /\ Linking(w)
  BY <1>1 DEF Extra, Linking
<1>4. f.start \in dirty /\ Within(fragments, m, s.e_tag)
  BY <1>1, <1>3 DEF Local, MarkOK, PlaceOK
<1>5. e_tag = s.e_tag /\ e_tag' = e_tag + 1
  BY <1>1 DEF PutManifest
<1>6. Grows /\ Extended /\ StoragePlaced' /\ \A r \in delayed' : PutOK(r)'
  BY <1>1, <1>2, <1>4, <1>5, PutManifestExtra
<1>7. ASSUME Done(w)
      PROVE  AllKept
  <2>1. \A v \in Writers : pc'[v] = "write" => pc[v] = "write" /\ fragment'[v] = fragment[v]
    BY <1>7 DEF Done, Others, SameLocal
  <2>2. Around' \subseteq Around
    BY <1>1, <2>1 DEF Around
  <2> QED BY <1>1, <1>6, <1>7, <2>2, WriterKept DEF Done, Wrote
<1>8. CASE PublishOk(w)
  <2>1. CASE inner[w] = "open"
    <3> DEFINE t == Staging(m, e_tag', s.next_log_position,
                            s.next_seq_no_to_assign, s.next_seq_no_to_apply)
    <3>1. Return(w, "ok", f.start, "open", t) /\ "ok" \in Outcomes
      BY <1>8, <2>1 DEF PublishOk, Outcomes
    <3>2. t.e_tag = e_tag' /\ t.manifest = m /\ t.next_log_position = s.next_log_position
      BY DEF Staging
    <3>3. e_tag' - 1 = s.e_tag /\ s.e_tag # 0
      BY <1>2, <1>5
    <3>4. s.next_log_position = f.limit
      BY <1>3, <2>1 DEF Local, PlaceOK, Appending
    <3>5. EndOf(fragments', s.e_tag) = f.limit
      BY <1>1, <1>2, <3>3 DEF EndOf, Filed
    <3> HIDE DEF t, m, s, f
    <3>6. /\ Within(fragments', t.manifest, t.e_tag - 1)
          /\ t.next_log_position = EndOf(fragments', t.e_tag - 1)
      BY <1>1, <1>4, <3>2, <3>3, <3>4, <3>5
    <3> QED BY <1>2, <1>7, <2>1, <3>1, <3>6, ReturnDone
  <2>2. CASE inner[w] # "open"
    <3>1. OpenFails(w, "retry") /\ "retry" \in Outcomes \ {"ok"} /\ BatchOK(w)
      BY <1>3, <1>8, <2>2 DEF PublishOk, Outcomes, Local
    <3> QED BY <1>7, <2>2, <3>1, OpenFailsDone
  <2> QED BY <2>1, <2>2
<1>9. CASE PublishFails(w, "failure")
  <2>1. "failure" \in Outcomes \ {"ok", "retry"} /\ BatchOK(w)
    BY <1>3 DEF Outcomes, Local
  <2> QED BY <1>3, <1>7, <1>9, <2>1, PublishFailsDone
<1>10. CASE UNCHANGED <<pc, inner, handling, batch, staging, working, result>>
  <2> USE DEF handling, working
  <2>1. Others(w) /\ Unmoved(w)
    BY <1>10 DEF Others, SameLocal, Unmoved
  <2>2. Around' = Around
    BY <1>1, <1>10 DEF Around
  <2>3. Unwritten(batch[w]) => Unwritten(batch[w])'
    BY <1>10, <2>2 DEF Unwritten
  <2>4. Local(w)'
    BY <1>1, <1>3, <1>6, <1>10, <2>1, <2>3, FrameLocal
  <2> QED BY <1>1, <1>6, <1>10, <2>1, <2>2, <2>4, WriterKept DEF Answers, Wrote
<1> QED BY <1>8, <1>9, <1>10 DEF InstallManifest

(* A step of object storage alone.                                         *)
LEMMA StorageKept ==
    ASSUME IInv, Extra, Grows, Extended, Around' \subseteq Around, retried \subseteq retried',
           StoragePlaced', \A r \in delayed' : PutOK(r)',
           UNCHANGED <<dirty, pc, inner, goal, batch, staging, fragment, mark, pulled, result>>
    PROVE  AllKept
<1>1. \A b : Unwritten(b) => Unwritten(b)'
  BY DEF Unwritten
<1>2. \A v \in Writers : Local(v)'
  <2> SUFFICES ASSUME NEW v \in Writers
               PROVE  Local(v)'
    OBVIOUS
  <2>1. Local(v) /\ Unmoved(v)
    BY DEF Extra, Unmoved
  <2>2. Unwritten(batch[v]) => Unwritten(batch[v])'
    BY DEF Unwritten
  <2> QED BY <2>1, <2>2, FrameLocal
<1>3. OneWriterPerBatch' /\ OneFragmentPerBatch' /\ UncalledIsUnwritten'
  BY <1>1 DEF Extra, OneWriterPerBatch, OneFragmentPerBatch, UncalledIsUnwritten
<1>4. MarkedBeforeLinked'
  BY MarkedKept DEF IInv, Extra
<1> QED BY <1>2, <1>3, <1>4 DEF AllKept, Extra, Told

LEMMA DelayedFragmentExtra ==
    ASSUME IInv, Extra, retried \subseteq retried', NEW r \in delayed, DelayedFragment(r)
    PROVE  AllKept
<1> DEFINE f == r.fragment
<1>1. /\ UNCHANGED <<manifest, e_tag, dirty, pc, inner, goal, batch, staging, fragment, mark,
                     pulled, result, history>>
      /\ delayed' \subseteq delayed
  BY DEF DelayedFragment, handling, working
<1>2. IsFragment(f) /\ f.seq_no \in 1..e_tag /\ Follows(fragments, f) /\ f \in Around
  BY DEF IInv, DelayedOK, Extra, PutOK, Around
<1>3. Grows /\ \A k \in DOMAIN fragments' : k \in DOMAIN fragments \/ fragments'[k] = f
  <2>1. CASE PutFragment(f)
    <3>1. Grows
      BY <1>1, <1>2, <2>1, StoragePutFragment DEF IInv
    <3> QED BY <2>1, <3>1 DEF PutFragment
  <2>2. CASE UNCHANGED fragments
    BY <1>1, <2>2, StorageSame DEF IInv
  <2> QED BY <2>1, <2>2 DEF DelayedFragment
<1>4. Around' \subseteq Around
  <2>1. \A k \in DOMAIN fragments' : fragments'[k] \in Around
    <3>1. \A k \in DOMAIN fragments : fragments'[k] \in Around
      BY <1>3 DEF Grows, Around
    <3> QED BY <1>2, <1>3, <3>1
  <2> QED BY <1>1, <2>1 DEF Around
<1>5. StoragePlaced' /\ \A q \in delayed' : PutOK(q)'
  <2>1. Within(fragments', manifest', e_tag' - 1)
    <3>1. e_tag - 1 \in 0..(e_tag - 1) /\ StorageOK
      BY DEF IInv, StorageOK
    <3>2. e_tag - 1 \in DOMAIN fragments \cup {0}
      BY <3>1, LinkedThere
    <3> QED BY <1>1, <1>3, <3>1, <3>2, PlacesGrow DEF Extra, StoragePlaced
  <2>2. \A k \in DOMAIN fragments' \ DOMAIN fragments :
           fragments'[k].seq_no \in 1..e_tag /\ Follows(fragments, fragments'[k])
    BY <1>2, <1>3
  <2> QED BY <1>1, <1>3, <2>1, <2>2, PlacesKept
<1> QED BY <1>1, <1>3, <1>4, <1>5, StorageKept DEF Extended

LEMMA DelayedManifestExtra ==
    ASSUME IInv, Extra, retried \subseteq retried', NEW r \in delayed, DelayedManifest(r)
    PROVE  AllKept
<1>1. /\ UNCHANGED <<fragments, dirty, pc, inner, goal, batch, staging, fragment, mark, pulled,
                     result>>
      /\ delayed' \subseteq delayed /\ r.kind = "manifest"
  BY DEF DelayedManifest, handling, working
<1>2. /\ r.e_tag = r.fragment.seq_no /\ Filed(fragments, r.fragment)
      /\ Links(fragments, r.manifest, r.e_tag) /\ Within(fragments, r.manifest, r.e_tag)
      /\ r.fragment.start \in dirty
  BY <1>1 DEF IInv, DelayedOK, Extra, PutOK
<1>3. Around' \subseteq Around
  BY <1>1 DEF Around
<1>4. CASE PutManifest(r.e_tag, r.manifest, r.fragment)
  <2>1. e_tag = r.e_tag
    BY <1>4 DEF PutManifest
  <2>2. Grows /\ Extended /\ StoragePlaced' /\ \A q \in delayed' : PutOK(q)'
    BY <1>1, <1>2, <1>4, <2>1, PutManifestExtra
  <2> QED BY <1>1, <1>3, <2>2, StorageKept
<1>5. CASE UNCHANGED <<manifest, e_tag, history>>
  <2>1. Grows
    BY <1>1, <1>5, StorageSame DEF IInv
  <2>2. Within(fragments', manifest', e_tag' - 1)
    BY <1>1, <1>5 DEF Extra, StoragePlaced
  <2>3. StoragePlaced' /\ \A q \in delayed' : PutOK(q)'
    BY <1>1, <2>1, <2>2, PlacesKept
  <2> QED BY <1>1, <1>3, <1>5, <2>1, <2>3, StorageKept DEF Extended
<1> QED BY <1>4, <1>5 DEF DelayedManifest

LEMMA AppendManyExtra ==
    ASSUME IInv, Extra, retried \subseteq retried', NEW w \in Writers, NEW b \in Batches, AppendMany(w, b)
    PROVE  AllKept
<1> USE DEF storage, working
<1>1. /\ UNCHANGED <<manifest, e_tag, fragments, delayed, dirty, history, inner, staging, fragment,
                     upload, mark, pulled>>
      /\ result[b].status = "none" /\ result' = [result EXCEPT ![b] = Result("pending", 0)]
  BY DEF AppendMany
<1>2. /\ pc[w] = "idle" /\ pc'[w] = (IF inner[w] = "open" THEN "ready" ELSE "open")
      /\ goal'[w] = "append" /\ batch'[w] = b /\ result'[b].status = "pending"
  BY DEF AppendMany, IInv, WriterTypeOK, Domains, Result
<1>3. Unwritten(b) /\ \A v \in Writers : batch[v] # b
  BY <1>1 DEF Extra, UncalledIsUnwritten
<1>4. \A v \in Writers \ {w} : Unmoved(v)
  BY <1>1 DEF AppendMany, Unmoved, IInv, WriterTypeOK
<1>5. \A c \in Batches : c # b => result'[c] = result[c]
  BY <1>1 DEF IInv, Domains
<1>6. Around' = Around
  <2>1. {v \in Writers : pc'[v] = "write"} = {v \in Writers : pc[v] = "write"}
    BY <1>2, <1>4 DEF Unmoved
  <2> QED BY <1>1, <2>1 DEF Around
<1>7. Grows
  BY <1>1, StorageSame DEF IInv
<1>8. \A v \in Writers : Local(v)'
  <2>1. ASSUME NEW v \in Writers, v # w
        PROVE  Local(v)'
    <3>1. Local(v) /\ Unmoved(v)
      BY <1>4, <2>1 DEF Extra
    <3>2. batch[v] \in Batches => /\ result'[batch[v]] = result[batch[v]]
                                  /\ Unwritten(batch[v]) => Unwritten(batch[v])'
      <4>1. batch'[v] = batch[v] /\ batch[v] # b
        BY <1>3, <3>1 DEF Unmoved
      <4> QED BY <1>5, <1>6, <4>1 DEF Unwritten
    <3> QED BY <1>1, <1>7, <3>1, <3>2, FrameLocal
  <2>2. Local(w)'
    <3>1. Local(w)
      BY DEF Extra
    <3>2. MarkOK(w)'
      BY <1>1, <1>2, <3>1 DEF Local, MarkOK, Early, Linking
    <3>3. BatchOK(w)'
      BY <1>2, <1>3, <1>6 DEF BatchOK, Unwritten
    <3>4. PlaceOK(w)'
      BY <1>1, <1>2, <3>1 DEF Local, PlaceOK, Loaded, Early, Appending, Linking
    <3> QED BY <3>2, <3>3, <3>4 DEF Local
  <2> QED BY <2>1, <2>2
<1>9. StoragePlaced' /\ \A r \in delayed' : PutOK(r)'
  <2>1. Within(fragments', manifest', e_tag' - 1)
    BY <1>1 DEF Extra, StoragePlaced
  <2> QED BY <1>1, <1>7, <2>1, PlacesKept
<1>10. OneWriterPerBatch'
  <2>1. \A v \in Writers \ {w} : batch'[v] = batch[v]
    BY <1>4 DEF Unmoved
  <2> QED BY <1>2, <1>3, <2>1 DEF Extra, OneWriterPerBatch
<1>11. OneFragmentPerBatch'
  BY <1>6 DEF Extra, OneFragmentPerBatch
<1>12. UncalledIsUnwritten'
  <2> SUFFICES ASSUME NEW c \in Batches, result'[c].status = "none"
               PROVE  (\A f \in Around' : f.batch # c) /\ \A v \in Writers : batch'[v] # c
    BY DEF UncalledIsUnwritten, Unwritten
  <2>1. c # b /\ result[c].status = "none"
    BY <1>2, <1>5
  <2>2. Unwritten(c) /\ \A v \in Writers : batch[v] # c
    BY <2>1 DEF Extra, UncalledIsUnwritten
  <2> QED BY <1>2, <1>4, <1>6, <2>1, <2>2 DEF Unmoved, Unwritten
<1>13. MarkedBeforeLinked' /\ Extended /\ Told
  BY <1>1 DEF Extra, MarkedBeforeLinked, Extended, Told
<1> QED BY <1>8, <1>9, <1>10, <1>11, <1>12, <1>13 DEF AllKept, Extra

LEMMA StutterExtra ==
    ASSUME IInv, Extra, retried \subseteq retried', UNCHANGED vars
    PROVE  AllKept
<1> USE DEF vars, storage, handling, working
<1>1. Grows
  BY StorageSame DEF IInv
<1>2. Around' = Around
  BY DEF Around
<1>3. StoragePlaced' /\ \A r \in delayed' : PutOK(r)'
  BY DEF Extra, StoragePlaced, PutOK
<1> QED BY <1>1, <1>2, <1>3, StorageKept DEF Extended

LEMMA StepOfWriterExtra ==
    ASSUME IInv, Extra, retried \subseteq retried', NEW w \in Writers, Step(w)
    PROVE  AllKept
BY LoadManifestExtra, NothingToRecoverExtra, ReadFragmentExtra, MarkRecoveredExtra,
   MarkRecoveredFailsExtra, ReadFailsExtra, TakeWorkExtra, UploadParquetExtra,
   UploadConflictExtra, UploadTimeoutExtra, MarkDirtyExtra, MarkDirtyFailsExtra,
   JoinUploadAndMarkExtra, PullWorkExtra, InstallSnapshotExtra, InstallSnapshotFailsExtra,
   InstallManifestExtra, InstallConflictExtra, InstallTimeoutExtra DEF Step

LEMMA NextExtra ==
    ASSUME IInv, Extra, [Next]_vars
    PROVE  AllKept
BY OpenExtra, AppendManyExtra, StepOfWriterExtra, CrashExtra, DelayedFragmentExtra,
   DelayedManifestExtra, StutterExtra, NextRecords DEF Next, Finished, Recorded

LEMMA InitExtra == Init => Extra
<1> SUFFICES ASSUME Init PROVE Extra
  OBVIOUS
<1> USE DEF Init
<1>1. Around = {}
  BY DEF Around
<1>2. StoragePlaced
  <2>1. IsSeq(<<>>) /\ DOMAIN <<>> = {}
    <3>1. <<>> \in Seq({})
      OBVIOUS
    <3> QED BY <3>1 DEF IsSeq
  <2>2. /\ manifest.initial_offset = None /\ manifest.snapshots = <<>> /\ manifest.fragments = <<>>
    BY DEF new_empty
  <2> QED BY <2>1, <2>2 DEF StoragePlaced, Within
<1>3. MarkedBeforeLinked
  BY DEF MarkedBeforeLinked
<1>4. \A w \in Writers : Local(w)
  <2> SUFFICES ASSUME NEW w \in Writers
               PROVE  Local(w)
    OBVIOUS
  <2>1. pc[w] = "idle" /\ inner[w] = "none" /\ mark[w] = "wait" /\ batch[w] \notin Batches
    BY AbsenceAssumption
  <2> QED BY <2>1 DEF Local, MarkOK, BatchOK, PlaceOK, Loaded, Early, Linking, Appending
<1>5. OneWriterPerBatch /\ \A w \in Writers : batch[w] \notin Batches
  BY AbsenceAssumption DEF OneWriterPerBatch
<1>6. OneFragmentPerBatch /\ UncalledIsUnwritten
  BY <1>1, <1>5 DEF OneFragmentPerBatch, UncalledIsUnwritten, Unwritten
<1> QED BY <1>2, <1>3, <1>4, <1>5, <1>6 DEF Extra

-----------------------------------------------------------------------------
(* What follows.                                                           *)

(* Extra is inductive relative to IInv.                                    *)
THEOREM ExtraInvariance == Spec => [](IInv /\ Extra)
<1> DEFINE J == IInv /\ Extra
<1>1. Init => J
  BY InitHolds, InitExtra
<1>2. J /\ [Next]_vars => J'
  BY NextKeeps, NextExtra DEF Preserved, AllKept
<1> QED BY <1>1, <1>2, PTL DEF Spec

(* Every fragment in the log was marked dirty before a manifest linked it, *)
(* whatever mark_dirty may fail with, and whoever linked it.               *)
THEOREM Marked == Spec => []MarkedBeforeLinked
<1>1. IInv /\ Extra => MarkedBeforeLinked
  BY DEF Extra
<1> QED BY <1>1, ExtraInvariance, PTL

(* The indices of what was linked.                                         *)
LEMMA HistoryIs ==
    ASSUME StorageOK
    PROVE  /\ e_tag \in Nat \ {0}
           /\ DOMAIN history = 1..(e_tag - 1) /\ Len(history) = e_tag - 1
           /\ \A i \in 1..(e_tag - 1) :
                 /\ i \in DOMAIN fragments /\ history[i] = fragments[i]
                 /\ history[i].seq_no = i /\ history[i].batch \in Batches
                 /\ history[i] \in Around
<1> DEFINE S == {fragments[n] : n \in DOMAIN fragments}
<1>1. /\ history \in Seq(S) /\ Len(history) = e_tag - 1 /\ e_tag \in Nat \ {0}
      /\ \A i \in 1..Len(history) : i \in DOMAIN fragments /\ history[i] = fragments[i]
      /\ \A n \in DOMAIN fragments : fragments[n].seq_no = n /\ fragments[n].batch \in Batches
  BY DEF StorageOK, IsFragment
<1>2. DOMAIN history = 1..Len(history)
  <2> HIDE DEF S
  <2> QED BY <1>1, LenProperties
<1>3. \A n \in DOMAIN fragments : fragments[n] \in Around
  BY DEF Around
<1> HIDE DEF S
<1> QED BY <1>1, <1>2, <1>3

(* No batch is in the log twice, unless the dirty log answered its own     *)
(* mark_dirty with LogContentionRetry: otherwise                           *)
(* handle_errors_and_contention opens the log again only for a batch that  *)
(* cannot get into storage any more.                                       *)
THEOREM NoDuplicates == Spec => []LinkedOnce
<1>1. IInv /\ Extra => LinkedOnce
  <2> SUFFICES ASSUME IInv, Extra, NEW i \in DOMAIN history, NEW j \in DOMAIN history,
                      history[i].batch = history[j].batch, history[i].batch \notin retried
               PROVE  i = j
    BY DEF LinkedOnce
  <2>1. /\ history[i] \in Around /\ history[i].seq_no = i
        /\ history[j] \in Around /\ history[j].seq_no = j
    BY HistoryIs DEF IInv
  <2>2. history[i] = history[j]
    BY <2>1 DEF Extra, OneFragmentPerBatch
  <2> QED BY <2>1, <2>2
<1> QED BY <1>1, ExtraInvariance, PTL

-----------------------------------------------------------------------------
(* The refinement.                                                         *)

Entry(f) == [batch |-> f.batch, start |-> f.start, limit |-> f.limit]
Log == [i \in DOMAIN history |-> [batch |-> history[i].batch,
                                  start |-> history[i].start,
                                  limit |-> history[i].limit]]
LogEnd == IF Log = <<>> THEN 1 ELSE Log[Len(Log)].limit

LEMMA EntriesSeq ==
    ASSUME NEW h, IsSeq(h), NEW q, q = [i \in DOMAIN h |-> Entry(h[i])]
    PROVE  IsSeq(q) /\ Len(q) = Len(h) /\ DOMAIN q = DOMAIN h
<1> PICK T : h \in Seq(T)
  BY DEF IsSeq
<1> DEFINE S == {Entry(h[i]) : i \in DOMAIN h}
<1>1. Len(h) \in Nat /\ DOMAIN h = 1..Len(h)
  OBVIOUS
<1>2. q \in [1..Len(h) -> S]
  BY <1>1
<1> HIDE DEF S
<1>3. q \in Seq(S) /\ Len(q) = Len(h)
  BY <1>1, <1>2
<1> QED BY <1>1, <1>2, <1>3 DEF IsSeq

LEMMA LogIs ==
    ASSUME StorageOK
    PROVE  /\ IsSeq(Log) /\ Len(Log) = e_tag - 1 /\ DOMAIN Log = 1..(e_tag - 1)
           /\ \A i \in DOMAIN history : Log[i] = Entry(history[i])
           /\ LogEnd = EndOf(fragments, e_tag - 1)
<1> DEFINE n == e_tag - 1
           S == {Entry(history[i]) : i \in DOMAIN history}
<1>1. n \in Nat /\ DOMAIN history = 1..n /\ \A i \in 1..n : history[i] = fragments[i]
  BY HistoryIs
<1>2. \A i \in DOMAIN history : Log[i] = Entry(history[i])
  BY DEF Log, Entry
<1>3. DOMAIN Log = 1..n
  BY <1>1 DEF Log
<1>4. Log \in [1..n -> S]
  <2>1. Log = [i \in DOMAIN history |-> Entry(history[i])]
    BY DEF Log, Entry
  <2> QED BY <1>1, <2>1
<1> HIDE DEF n, S
<1>5. Log \in Seq(S) /\ Len(Log) = n
  BY <1>1, <1>4
<1>6. LogEnd = EndOf(fragments, n)
  <2>1. CASE n = 0
    <3>1. Log = <<>>
      BY <1>5, <2>1, EmptySeq
    <3> QED BY <2>1, <3>1 DEF LogEnd, EndOf
  <2>2. CASE n # 0
    <3>1. Log # <<>>
      BY <1>5, <2>2, EmptySeq
    <3>2. n \in 1..n
      BY <1>1, <2>2
    <3>3. Log[n].limit = fragments[n].limit
      <4>1. Log[n] = Entry(history[n]) /\ history[n] = fragments[n]
        BY <1>1, <1>2, <3>2
      <4> QED BY <4>1 DEF Entry
    <3> QED BY <1>5, <2>2, <3>1, <3>3 DEF LogEnd, EndOf
  <2> QED BY <2>1, <2>2
<1> QED BY <1>2, <1>3, <1>5, <1>6 DEF n, IsSeq

(* A fragment that is linked is a batch that becomes part of the log.      *)
LEMMA LinkStep ==
    ASSUME IInv, Extra, IInv', NEW f, Linked(f)
    PROVE  /\ f.batch \in Batches
           /\ result[f.batch].status # "none"
           /\ f.batch \in retried \/ \A i \in DOMAIN Log : Log[i].batch # f.batch
           /\ Log' = Append(Log, [batch |-> f.batch, start |-> LogEnd,
                                  limit |-> LogEnd + NumRecords[f.batch]])
<1> DEFINE n == e_tag - 1
           x == [batch |-> f.batch, start |-> LogEnd, limit |-> LogEnd + NumRecords[f.batch]]
<1>1. /\ StorageOK /\ StoragePlaced /\ n \in Nat
      /\ f.seq_no = e_tag /\ e_tag \in DOMAIN fragments /\ fragments[e_tag] = f
      /\ f \in Around /\ f.batch \in Batches
  BY DEF IInv, StorageOK, Extra, Linked, Filed, Around, IsFragment
<1>2. /\ IsSeq(Log) /\ Len(Log) = n /\ DOMAIN Log = 1..n /\ LogEnd = EndOf(fragments, n)
      /\ DOMAIN history = 1..n
      /\ \A i \in 1..n : /\ Log[i] = Entry(history[i]) /\ history[i].seq_no = i
                         /\ history[i] \in Around
  BY <1>1, LogIs, HistoryIs
<1>3. result[f.batch].status # "none"
  BY <1>1 DEF Extra, UncalledIsUnwritten, Unwritten
<1>4. f.batch \in retried \/ \A i \in DOMAIN Log : Log[i].batch # f.batch
  <2> SUFFICES ASSUME f.batch \notin retried, NEW i \in 1..n, Log[i].batch = f.batch
               PROVE  FALSE
    BY <1>2
  <2>1. history[i] = f
    <3>1. history[i].batch = f.batch
      BY <1>2 DEF Entry
    <3> QED BY <1>1, <1>2, <3>1 DEF Extra, OneFragmentPerBatch
  <2>2. i = e_tag
    BY <1>1, <1>2, <2>1
  <2> QED BY <1>1, <2>2
<1>5. x = Entry(f)
  <2>1. Follows(fragments, f)
    BY <1>1 DEF StoragePlaced
  <2> QED BY <1>1, <1>2, <2>1 DEF Follows, Entry
<1>6. Log' = Append(Log, x)
  <2> DEFINE T == {fragments[i] : i \in DOMAIN fragments}
  <2>1. history \in Seq(T) /\ f \in T /\ Len(history) = n /\ history' = Append(history, f)
    BY <1>1 DEF StorageOK, Linked
  <2> HIDE DEF T
  <2>2. /\ DOMAIN history' = 1..(n + 1)
        /\ \A i \in 1..n : history'[i] = history[i]
        /\ history'[n + 1] = f
    BY <2>1, AppendProperties, LenProperties
  <2>3. /\ IsSeq(Log') /\ DOMAIN Log' = 1..(n + 1)
        /\ \A i \in 1..(n + 1) : Log'[i] = Entry(history'[i])
    <3>1. IsSeq(history')
      BY <2>1, AppendProperties DEF IsSeq
    <3>2. Log' = [i \in DOMAIN history' |-> Entry(history'[i])]
      BY DEF Log, Entry
    <3>3. IsSeq(Log') /\ DOMAIN Log' = DOMAIN history'
      BY <3>1, <3>2, EntriesSeq
    <3> QED BY <2>2, <3>2, <3>3
  <2> PICK S0 : Log \in Seq(S0)
    BY <1>2 DEF IsSeq
  <2> PICK S1 : Log' \in Seq(S1)
    BY <2>3 DEF IsSeq
  <2> DEFINE S == S0 \cup S1 \cup {x}
  <2>4. Log \in Seq(S) /\ Log' \in Seq(S) /\ x \in S
    BY SeqMonotonic
  <2> HIDE DEF S, x, n
  <2>5. /\ Append(Log, x) \in Seq(S) /\ Len(Append(Log, x)) = n + 1
        /\ \A i \in 1..n : Append(Log, x)[i] = Log[i]
        /\ Append(Log, x)[n + 1] = x
    BY <1>2, <2>4, AppendProperties
  <2>6. Len(Log') = n + 1
    BY <1>1, <2>3, <2>4, LenProperties
  <2>7. \A i \in 1..(n + 1) : Append(Log, x)[i] = Log'[i]
    <3>1. \A i \in 1..(n + 1) : i \in 1..n \/ i = n + 1
      BY <1>1
    <3> QED BY <1>2, <1>5, <2>2, <2>3, <2>5, <3>1
  <2> QED BY <2>4, <2>5, <2>6, <2>7, SeqEqual
<1> QED BY <1>1, <1>3, <1>4, <1>6

(* What a contention error of the dirty log does to callers and log.       *)
Contended ==
    \/ UNCHANGED <<retried, presumed>>
    \/ \E b \in Batches : /\ result[b].status = "pending"
                          /\ retried' = retried \cup {b}
                          /\ UNCHANGED <<history, result, presumed>>
    \/ \E b \in Batches : /\ result[b].status = "pending"
                          /\ presumed' = presumed \cup {b}
                          /\ result' = [result EXCEPT ![b] = Result("durable", 0)]
                          /\ UNCHANGED <<history, retried>>

(* A caller that was told LogContentionDurable for nothing waits no more.  *)
PresumedReturned == \A b \in presumed : result[b].status = "durable"

LEMMA NextContended ==
    ASSUME IInv, Extra, [Next]_vars
    PROVE  Contended
<1>1. CASE UNCHANGED <<retried, presumed>>
  BY <1>1 DEF Contended
<1>2. ASSUME NEW w \in Writers, MarkDirtyFails(w)
      PROVE  Contended
  <2>1. batch[w] \in Batches
    BY <1>2 DEF MarkDirtyFails, IInv, ControlOK
  <2>2. result[batch[w]].status = "pending"
    BY <2>1 DEF Extra, Local, BatchOK
  <2> QED BY <1>2, <2>1, <2>2 DEF MarkDirtyFails, Contended
<1>3. ASSUME NEW w \in Writers, MarkRecoveredFails(w), presumed' # presumed
      PROVE  Contended
  <2>1. PICK err \in MarkDirtyErrors :
           /\ OpenFails(w, err)
           /\ presumed' = IF err = "durable" /\ goal[w] = "append"
                          THEN presumed \cup {batch[w]} ELSE presumed
    BY <1>3 DEF MarkRecoveredFails
  <2>2. err = "durable" /\ goal[w] = "append" /\ presumed' = presumed \cup {batch[w]}
    BY <1>3, <2>1
  <2>3. Return(w, "durable", 0, "closed", NoStaging)
    BY <2>1, <2>2 DEF OpenFails, EnsureOpenErr
  <2>4. batch[w] \in Batches
    BY <2>2 DEF IInv, ControlOK
  <2>5. result[batch[w]].status = "pending"
    BY <2>4 DEF Extra, Local, BatchOK
  <2> QED BY <1>3, <2>2, <2>3, <2>4, <2>5 DEF MarkRecoveredFails, Return, Contended
<1>4. \/ UNCHANGED <<retried, presumed>>
      \/ \E w \in Writers : MarkDirtyFails(w)
      \/ \E w \in Writers : MarkRecoveredFails(w) /\ presumed' # presumed
  BY DEF Next, Step, Open, AppendMany, LoadManifest, NothingToRecover, ReadFragment,
         MarkRecovered, MarkRecoveredFails, ReadFails, TakeWork, UploadParquet,
         UploadConflict, UploadTimeout, MarkDirty, JoinUploadAndMark,
         PullWork, InstallSnapshot, InstallSnapshotFails, InstallManifest,
         InstallConflict, InstallTimeout, Crash, DelayedFragment, DelayedManifest,
         Finished, vars
<1> QED BY <1>1, <1>2, <1>3, <1>4

LEMMA PresumedKept ==
    ASSUME IInv, PresumedReturned, presumed \subseteq Batches, Told, Contended
    PROVE  PresumedReturned' /\ presumed' \subseteq Batches
<1>1. DOMAIN result = Batches
  BY DEF IInv, Domains
<1>2. \A b \in presumed : result'[b] = result[b]
  <2> SUFFICES ASSUME NEW b \in presumed
               PROVE  result'[b] = result[b]
    OBVIOUS
  <2>1. b \in Batches /\ result[b].status = "durable"
    BY DEF PresumedReturned
  <2> QED BY <1>1, <2>1 DEF Told
<1>3. CASE presumed' = presumed
  BY <1>2, <1>3 DEF PresumedReturned
<1>4. ASSUME NEW b \in Batches, presumed' = presumed \cup {b},
             result' = [result EXCEPT ![b] = Result("durable", 0)]
      PROVE  PresumedReturned' /\ presumed' \subseteq Batches
  <2>1. result'[b].status = "durable"
    BY <1>1, <1>4 DEF Result
  <2> QED BY <1>2, <1>4, <2>1 DEF PresumedReturned
<1> QED BY <1>3, <1>4 DEF Contended

(* Whatever append_many returns is true of the log.                        *)
LEMMA ReturnStep ==
    ASSUME IInv, AckedIsLinked', NEW b \in Batches, NEW status \in Outcomes, NEW position,
           result[b].status = "pending", b \notin presumed',
           result' = [result EXCEPT ![b] = Result(status, position)],
           status # "ok" => position = 0
    PROVE  Promise!Return(b)
<1>1. result'[b] = Result(status, position) /\ result'[b].status = status
      /\ result'[b].position = position
  BY DEF IInv, Domains, Result
<1>2. result' = [result EXCEPT ![b] = [status |-> status, position |-> position]]
  BY DEF Result
<1>3. CASE status \in {"retry", "failure", "error"}
  BY <1>2, <1>3 DEF Promise!Return
<1>4. CASE status \in {"ok", "durable"}
  <2>1. PICK i \in DOMAIN history' : /\ history'[i].batch = b
                                     /\ status = "ok" => history'[i].start = position
    BY <1>1, <1>4 DEF AckedIsLinked
  <2>2. i \in DOMAIN Log' /\ Log'[i].batch = b /\ (status = "ok" => Log'[i].start = position)
    BY <2>1 DEF Log
  <2>3. CASE status = "durable"
    <3>1. result' \in {[result EXCEPT ![b] = [status |-> "durable", position |-> 0]] :
                          j \in {j \in DOMAIN Log' : Log'[j].batch = b}}
      BY <1>2, <2>2, <2>3
    <3> QED BY <3>1 DEF Promise!Return, Log
  <2>4. CASE status = "ok"
    <3>1. result' \in {[result EXCEPT ![b] = [status |-> "ok", position |-> Log'[j].start]] :
                          j \in {j \in DOMAIN Log' : Log'[j].batch = b}}
      BY <1>2, <2>2, <2>4
    <3> QED BY <3>1 DEF Promise!Return, Log
  <2> QED BY <1>4, <2>3, <2>4
<1> QED BY <1>3, <1>4 DEF Outcomes

(* A step that no contention of the dirty log has part in.                *)
LEMMA UncontendedImplements ==
    ASSUME IInv, Extra, IInv', AckedIsLinked', AllKept, UNCHANGED <<retried, presumed>>,
           PresumedReturned
    PROVE  [Promise!Next]_(Promise!vars)
<1>1. Told /\ Extended
  BY DEF AllKept
<1>2. ASSUME history' = history
      PROVE  Log' = Log
  BY <1>2 DEF Log
<1>3. ASSUME NEW f, Linked(f)
      PROVE  f.batch \in Batches /\ Promise!Link(f.batch)
  <2>1. /\ f.batch \in Batches
        /\ result[f.batch].status # "none"
        /\ f.batch \in retried \/ \A i \in DOMAIN Log : Log[i].batch # f.batch
        /\ Log' = Append(Log, [batch |-> f.batch, start |-> LogEnd,
                               limit |-> LogEnd + NumRecords[f.batch]])
    BY <1>3, LinkStep
  <2> QED BY <2>1 DEF Promise!Link, Promise!End, Log, LogEnd
<1>4. CASE result' = result
  <2>1. CASE history' = history
    BY <1>2, <1>4, <2>1 DEF Promise!vars, Log
  <2>2. ASSUME NEW f, Linked(f)
        PROVE  Promise!Next
    BY <1>3, <1>4, <2>2 DEF Promise!Next
  <2> QED BY <1>1, <2>1, <2>2 DEF Extended
<1>5. ASSUME NEW b \in Batches, result[b].status = "none", history' = history,
             result' = [result EXCEPT ![b] = Result("pending", 0)]
      PROVE  Promise!Next
  <2>1. Log' = Log
    BY <1>2, <1>5
  <2>2. Promise!Invoke(b)
    BY <1>5, <2>1 DEF Promise!Invoke, Log, Result
  <2> QED BY <2>2 DEF Promise!Next
<1>6. ASSUME NEW b \in Batches, NEW status \in Outcomes, NEW position,
             result[b].status = "pending", status # "ok" => position = 0,
             result' = [result EXCEPT ![b] = Result(status, position)]
      PROVE  Promise!Next
  <2>0. b \notin presumed'
    BY <1>6 DEF PresumedReturned
  <2>1. Promise!Return(b)
    BY <1>6, <2>0, ReturnStep
  <2>2. CASE history' = history
    <3>1. Log' = Log
      BY <1>2, <2>2
    <3> QED BY <2>1, <3>1 DEF Promise!Next, Log
  <2>3. ASSUME NEW f, Linked(f)
        PROVE  Promise!Next
    BY <1>3, <2>1, <2>3 DEF Promise!Next
  <2> QED BY <1>1, <2>2, <2>3 DEF Extended
<1> QED BY <1>1, <1>4, <1>5, <1>6 DEF Told

LEMMA StepImplements ==
    ASSUME IInv, Extra, IInv', AckedIsLinked', AllKept, Contended, PresumedReturned
    PROVE  [Promise!Next]_(Promise!vars)
<1>1. CASE UNCHANGED <<retried, presumed>>
  BY <1>1, UncontendedImplements
<1>2. ASSUME NEW b \in Batches, result[b].status = "pending", retried' = retried \cup {b},
             UNCHANGED <<history, result, presumed>>
      PROVE  Promise!Next
  <2>1. Log' = Log
    BY <1>2 DEF Log
  <2>2. Promise!Retry(b)
    BY <1>2, <2>1 DEF Promise!Retry, Log
  <2> QED BY <2>2 DEF Promise!Next
<1>3. ASSUME NEW b \in Batches, result[b].status = "pending", presumed' = presumed \cup {b},
             result' = [result EXCEPT ![b] = Result("durable", 0)],
             UNCHANGED <<history, retried>>
      PROVE  Promise!Next
  <2>1. Log' = Log
    BY <1>3 DEF Log
  <2>2. Promise!Presume(b)
    BY <1>3, <2>1 DEF Promise!Presume, Log, Result
  <2> QED BY <2>2 DEF Promise!Next
<1> QED BY <1>1, <1>2, <1>3 DEF Contended

(* LogWriter implements AppendLog: every step of every writer, crash and   *)
(* late put appends one batch at the end of one log, returns what is true  *)
(* of that log to a caller, does both, or changes neither; but for the     *)
(* batches which a contention error of the dirty log makes it repeat or    *)
(* presume durable.                                                        *)
THEOREM Refinement == Spec => ImplementsAppendLog
<1> DEFINE J == IInv /\ Extra /\ AckedIsLinked /\ PresumedReturned /\ presumed \subseteq Batches
<1>1. Init => J
  BY InitHolds, InitExtra DEF Init, PresumedReturned
<1>2. J /\ [Next]_vars => J' /\ [Promise!Next]_(Promise!vars)
  BY NextKeeps, NextExtra, NextRecords, NextContended, PresumedKept, StepImplements
     DEF Preserved, AllKept
<1>3. Init => Promise!Init
  <2> SUFFICES ASSUME Init PROVE Promise!Init
    OBVIOUS
  <2>1. /\ history = <<>> /\ result = [b \in Batches |-> [status |-> "none", position |-> 0]]
        /\ retried = {} /\ presumed = {}
    BY DEF Init, Result
  <2>2. Log = <<>>
    <3>1. DOMAIN history = {}
      BY <2>1
    <3> QED BY <3>1 DEF Log
  <2> QED BY <2>1, <2>2 DEF Promise!Init, Log
<1> QED BY <1>1, <1>2, <1>3, PTL DEF Spec, ImplementsAppendLog, Promise!Spec

-----------------------------------------------------------------------------
(* Sums.                                                                   *)

(* The equation of the running sums that Setsums computes.                 *)
IsSum(sum, q) ==
    sum = [i \in 0..Len(q) |-> IF i = 0 THEN 0 ELSE sum[i - 1] + q[i].setsum]

(* A sequence whose setsums are differences adds up to the difference of   *)
(* the ends.                                                               *)
LEMMA SetsumsTelescope ==
    ASSUME NEW q, Len(q) \in Nat, NEW P \in [0..Len(q) -> Int],
           \A i \in 1..Len(q) : q[i].setsum = P[i] - P[i - 1]
    PROVE  Setsums(q) = P[Len(q)] - P[0]
<1> DEFINE k == Len(q)
           f == [i \in 0..k |-> P[i] - P[0]]
           sum == CHOOSE t : IsSum(t, q)
<1>0. k \in Nat
  OBVIOUS
<1>1. IsSum(f, q)
  <2>1. ASSUME NEW i \in 0..k
        PROVE  f[i] = IF i = 0 THEN 0 ELSE f[i - 1] + q[i].setsum
    <3>1. CASE i = 0
      BY <3>1
    <3>2. CASE i # 0
      <4>1. i \in 1..k /\ i - 1 \in 0..k /\ P[i] \in Int /\ P[i - 1] \in Int /\ P[0] \in Int
        BY <3>2
      <4>2. f[i] = P[i] - P[0] /\ f[i - 1] = P[i - 1] - P[0] /\ q[i].setsum = P[i] - P[i - 1]
        BY <4>1
      <4> HIDE DEF f
      <4> QED BY <3>2, <4>1, <4>2
    <3> QED BY <3>1, <3>2
  <2>2. f = [i \in 0..k |-> f[i]]
    OBVIOUS
  <2> HIDE DEF f
  <2> QED BY <2>1, <2>2 DEF IsSum
<1>2. IsSum(sum, q)
  BY <1>1
<1>3. Setsums(q) = sum[k]
  BY DEF Setsums, IsSum
<1> HIDE DEF sum
<1>4. \A i \in 0..k : sum[i] = IF i = 0 THEN 0 ELSE sum[i - 1] + q[i].setsum
  BY <1>2 DEF IsSum
<1> DEFINE Bad == {i \in 0..k : sum[i] # P[i] - P[0]}
<1>5. Bad = {}
  <2> SUFFICES ASSUME Bad # {}
               PROVE  FALSE
    OBVIOUS
  <2>1. PICK i \in Bad : \A j \in Bad : i <= j
    <3>1. Bad \in SUBSET Nat
      OBVIOUS
    <3> HIDE DEF Bad
    <3> QED BY <3>1, LeastNatural
  <2>2. i \in 0..k /\ P[0] \in Int /\ P[i] \in Int
    BY <2>1
  <2>3. i # 0
    <3> SUFFICES ASSUME i = 0 PROVE FALSE
      OBVIOUS
    <3>1. sum[0] = 0
      BY <1>0, <1>4
    <3> QED BY <2>1, <2>2, <3>1
  <2>4. i \in 1..k /\ i - 1 \in 0..k /\ ~(i <= i - 1) /\ P[i - 1] \in Int
    BY <2>2, <2>3
  <2>5. sum[i - 1] = P[i - 1] - P[0]
    BY <2>1, <2>4
  <2>6. sum[i] = sum[i - 1] + q[i].setsum /\ q[i].setsum = P[i] - P[i - 1]
    BY <1>4, <2>2, <2>3, <2>4
  <2>7. sum[i] = P[i] - P[0]
    BY <2>2, <2>4, <2>5, <2>6
  <2> QED BY <2>1, <2>7
<1>6. k \in 0..k
  BY <1>0
<1> QED BY <1>3, <1>5, <1>6

(* The prefix sums of a sequence.                                          *)
LEMMA PrefixSums ==
    ASSUME NEW q, NEW k \in Nat, \A i \in 1..k : q[i].setsum \in Int
    PROVE  \E P \in [0..k -> Int] :
              P[0] = 0 /\ \A i \in 1..k : P[i] = P[i - 1] + q[i].setsum
<1> DEFINE Is(P, j) == /\ P \in [0..j -> Int]
                       /\ P[0] = 0
                       /\ \A i \in 1..j : P[i] = P[i - 1] + q[i].setsum
           Bad == {j \in 0..k : ~\E P : Is(P, j)}
<1>1. Bad = {}
  <2> SUFFICES ASSUME Bad # {}
               PROVE  FALSE
    OBVIOUS
  <2>1. PICK j \in Bad : \A l \in Bad : j <= l
    <3>1. Bad \in SUBSET Nat
      OBVIOUS
    <3> HIDE DEF Bad
    <3> QED BY <3>1, LeastNatural
  <2>2. CASE j = 0
    <3> DEFINE P == [i \in 0..0 |-> 0]
    <3>1. Is(P, 0)
      OBVIOUS
    <3> QED BY <2>1, <2>2, <3>1
  <2>3. CASE j # 0
    <3>1. j \in 1..k /\ j - 1 \in 0..k /\ ~(j <= j - 1)
      BY <2>1, <2>3
    <3>2. PICK Q : Is(Q, j - 1)
      BY <2>1, <3>1
    <3> DEFINE P == [i \in 0..j |-> IF i = j THEN Q[j - 1] + q[j].setsum ELSE Q[i]]
    <3>3. Q[j - 1] \in Int /\ q[j].setsum \in Int /\ 0 # j /\ 0 \in 0..j
      BY <3>1, <3>2
    <3>4. \A i \in 0..j : i # j => i \in 0..(j - 1)
      BY <3>1
    <3>5. P \in [0..j -> Int] /\ P[0] = 0
      BY <3>2, <3>3, <3>4
    <3>6. ASSUME NEW i \in 1..j
          PROVE  P[i] = P[i - 1] + q[i].setsum
      <4>1. i \in 0..j /\ i - 1 \in 0..j /\ i - 1 # j
        BY <3>1
      <4>2. CASE i = j
        BY <4>1, <4>2
      <4>3. CASE i # j
        <5>1. i \in 1..(j - 1)
          BY <3>1, <4>3
        <5> QED BY <3>2, <4>1, <4>3, <5>1
      <4> QED BY <4>2, <4>3
    <3>7. Is(P, j)
      <4> HIDE DEF P
      <4> QED BY <3>5, <3>6
    <3> QED BY <2>1, <3>7
  <2> QED BY <2>2, <2>3
<1>2. k \in 0..k
  OBVIOUS
<1> QED BY <1>1, <1>2

(* The first n of files, and their setsum.                                 *)
First(files, n) == [i \in 1..n |-> files[i]]
SumTo(files, n) == Setsums(First(files, n))

(* The setsums of the first n of files are integers.                       *)
Summed(files, n) == n \in Nat /\ \A i \in 1..n : files[i].setsum \in Int

LEMMA SumToIs ==
    ASSUME NEW files, NEW n, Summed(files, n)
    PROVE  /\ \A i \in 0..n : SumTo(files, i) \in Int
           /\ SumTo(files, 0) = 0
           /\ \A i \in 1..n : SumTo(files, i) = SumTo(files, i - 1) + files[i].setsum
<1>1. n \in Nat
  BY DEF Summed
<1>2. PICK P \in [0..n -> Int] : P[0] = 0 /\ \A i \in 1..n : P[i] = P[i - 1] + files[i].setsum
  BY <1>1, PrefixSums DEF Summed
<1>3. ASSUME NEW j \in 0..n
      PROVE  SumTo(files, j) = P[j]
  <2> DEFINE q == First(files, j)
             R == [i \in 0..j |-> P[i]]
  <2>1. Len(q) = j
    BY DEF First
  <2>2. R \in [0..j -> Int]
    BY <1>1
  <2>3. ASSUME NEW i \in 1..j
        PROVE  q[i].setsum = R[i] - R[i - 1]
    <3>1. i \in 1..n /\ i \in 0..j /\ i - 1 \in 0..j /\ i - 1 \in 0..n /\ i \in 0..n
      BY <1>1
    <3>2. q[i].setsum = files[i].setsum /\ files[i].setsum \in Int
      BY <3>1 DEF First, Summed
    <3>3. R[i] = P[i] /\ R[i - 1] = P[i - 1] /\ P[i] = P[i - 1] + files[i].setsum
          /\ P[i - 1] \in Int
      BY <1>2, <3>1
    <3> HIDE DEF q, R
    <3> QED BY <3>2, <3>3
  <2>4. R[0] = 0 /\ R[j] = P[j] /\ P[j] \in Int /\ j \in Nat
    BY <1>1, <1>2
  <2> HIDE DEF q, R
  <2>5. Setsums(q) = R[j] - R[0]
    BY <2>1, <2>2, <2>3, <2>4, SetsumsTelescope
  <2> QED BY <2>4, <2>5 DEF SumTo, q
<1>4. \A i \in 1..n : i - 1 \in 0..n /\ i \in 0..n
  BY <1>1
<1>5. 0 \in 0..n
  BY <1>1
<1> QED BY <1>2, <1>3, <1>4, <1>5

(* The sum of what a pair of bounds holds.                                 *)
LEMMA SumBetween ==
    ASSUME NEW files, NEW n, Summed(files, n), NEW lo \in 0..n, NEW hi \in lo..n,
           NEW q, Len(q) = hi - lo, \A i \in 1..(hi - lo) : q[i] = files[lo + i]
    PROVE  Setsums(q) = SumTo(files, hi) - SumTo(files, lo)
<1> DEFINE P == [i \in 0..(hi - lo) |-> SumTo(files, lo + i)]
<1>1. n \in Nat /\ hi - lo \in Nat
  BY DEF Summed
<1>2. \A i \in 0..(hi - lo) : lo + i \in 0..n
  BY <1>1
<1>3. P \in [0..(hi - lo) -> Int]
  BY <1>2, SumToIs
<1>4. ASSUME NEW i \in 1..(hi - lo)
      PROVE  q[i].setsum = P[i] - P[i - 1]
  <2>1. lo + i \in 1..n /\ (lo + i) - 1 = lo + (i - 1) /\ i \in 0..(hi - lo) /\ i - 1 \in 0..(hi - lo)
        /\ lo + i \in 0..n /\ lo + (i - 1) \in 0..n
    BY <1>1
  <2>2. SumTo(files, lo + i) = SumTo(files, lo + (i - 1)) + files[lo + i].setsum
        /\ SumTo(files, lo + (i - 1)) \in Int /\ files[lo + i].setsum \in Int
    BY <2>1, SumToIs DEF Summed
  <2>3. P[i] = SumTo(files, lo + i) /\ P[i - 1] = SumTo(files, lo + (i - 1))
    BY <2>1
  <2> HIDE DEF P
  <2> QED BY <2>2, <2>3
<1>5. P[0] = SumTo(files, lo) /\ P[hi - lo] = SumTo(files, hi)
  BY <1>1
<1> HIDE DEF P
<1>6. Setsums(q) = P[hi - lo] - P[0]
  BY <1>1, <1>3, <1>4, SetsumsTelescope
<1> QED BY <1>5, <1>6

-----------------------------------------------------------------------------
(* Intervals of indices.                                                   *)

LEMMA KthInterval ==
    ASSUME NEW a \in Nat, NEW b \in Nat, NEW k \in 1..(b - a + 1)
    PROVE  Kth(a..b, k) = a + k - 1
<1>1. ASSUME NEW i \in a..b
      PROVE  Cardinality({j \in a..b : j <= i}) = i - a + 1
  <2>1. {j \in a..b : j <= i} = a..i
    OBVIOUS
  <2>2. Cardinality(a..i) = i - a + 1
    BY FS_Interval
  <2> QED BY <2>1, <2>2
<1>2. a + k - 1 \in a..b /\ (a + k - 1) - a + 1 = k
  OBVIOUS
<1>3. \A i \in a..b : i - a + 1 = k => i = a + k - 1
  OBVIOUS
<1> DEFINE K == Kth(a..b, k)
<1>4. K \in a..b /\ Cardinality({j \in a..b : j <= K}) = k
  <2>1. \E i \in a..b : Cardinality({j \in a..b : j <= i}) = k
    BY <1>1, <1>2
  <2> QED BY <2>1 DEF Kth
<1> HIDE DEF K
<1>5. K = a + k - 1
  BY <1>1, <1>3, <1>4
<1> QED BY <1>5 DEF K

LEMMA AtFirst ==
    ASSUME NEW q, NEW n \in Nat
    PROVE  At(q, 1..n) = [k \in 1..n |-> q[k]]
<1>1. Cardinality(1..n) = n
  BY FS_Interval
<1>2. ASSUME NEW k \in 1..n
      PROVE  Kth(1..n, k) = k
  <2>1. k \in 1..(n - 1 + 1) /\ 1 + k - 1 = k
    OBVIOUS
  <2>2. Kth(1..n, k) = 1 + k - 1
    BY <2>1, KthInterval
  <2> QED BY <2>1, <2>2
<1> QED BY <1>1, <1>2 DEF At

(* A sequence is a function on its indices.                                *)
LEMMA SeqIs ==
    ASSUME NEW q, IsSeq(q)
    PROVE  /\ Len(q) \in Nat /\ DOMAIN q = 1..Len(q)
           /\ q = [i \in 1..Len(q) |-> q[i]]
<1> PICK S : q \in Seq(S)
  BY DEF IsSeq
<1> QED OBVIOUS

LEMMA FcnIsSeq ==
    ASSUME NEW n \in Nat, NEW q, DOMAIN q = 1..n, q = [i \in 1..n |-> q[i]]
    PROVE  IsSeq(q) /\ Len(q) = n
<1> DEFINE S == {q[i] : i \in 1..n}
<1>1. q \in [1..n -> S]
  OBVIOUS
<1> HIDE DEF S
<1>2. q \in Seq(S) /\ Len(q) = n
  BY <1>1
<1> QED BY <1>2 DEF IsSeq

LEMMA AppendIs ==
    ASSUME NEW q, IsSeq(q), NEW x
    PROVE  /\ Append(q, x) = [i \in 1..(Len(q) + 1) |-> IF i = Len(q) + 1 THEN x ELSE q[i]]
           /\ IsSeq(Append(q, x)) /\ Len(Append(q, x)) = Len(q) + 1
<1>1. PICK S : q \in Seq(S)
  BY DEF IsSeq
<1>2. q \in Seq(S \cup {x}) /\ x \in S \cup {x} /\ Len(q) \in Nat
  BY <1>1, SeqMonotonic
<1>3. /\ Append(q, x) \in Seq(S \cup {x})
      /\ Len(Append(q, x)) = Len(q) + 1
      /\ \A i \in 1..Len(q) : Append(q, x)[i] = q[i]
      /\ Append(q, x)[Len(q) + 1] = x
  BY <1>2, AppendProperties
<1>4. IsSeq(Append(q, x))
  BY <1>3 DEF IsSeq
<1>5. Append(q, x) = [i \in 1..(Len(q) + 1) |-> Append(q, x)[i]]
  BY <1>3, <1>4, SeqIs
<1>6. \A i \in 1..(Len(q) + 1) : i # Len(q) + 1 => i \in 1..Len(q)
  BY <1>2
<1> QED BY <1>3, <1>4, <1>5, <1>6

(* The least of a set of integers.                                         *)
LEMMA MinIs ==
    ASSUME NEW Q, NEW n \in Q, \A x \in Q : x \in Int /\ n <= x
    PROVE  Min(Q) = n
<1>1. \E x \in Q : \A y \in Q : x <= y
  OBVIOUS
<1>2. Min(Q) \in Q /\ \A y \in Q : Min(Q) <= y
  BY <1>1 DEF Min
<1> QED BY <1>2

-----------------------------------------------------------------------------
(* Runs of fragments.                                                      *)

(* The first n of files follow each other.                                 *)
Regular(files, n) ==
    /\ Summed(files, n)
    /\ \A i \in 1..n : files[i].start \in Nat /\ files[i].limit \in Nat
                       /\ files[i].start < files[i].limit
    /\ \A i \in 1..(n - 1) : files[i].limit = files[i + 1].start

(* The pointer p stands for the fragments lo + 1 to hi.                    *)
Spans(files, p, lo, hi) ==
    /\ p.setsum = SumTo(files, hi) - SumTo(files, lo)
    /\ p.start = files[lo + 1].start
    /\ p.limit = files[hi].limit
    /\ p.depth \in Nat \ {0}

(* The snapshots and fragments of x hold the fragments lo + 1 to hi; b are *)
(* the bounds of its snapshots.                                            *)
Cut(files, x, lo, hi, b) ==
    /\ IsSeq(x.snapshots)
    /\ b \in [0..Len(x.snapshots) -> Nat]
    /\ b[0] = lo /\ b[Len(x.snapshots)] <= hi
    /\ \A i \in 1..Len(x.snapshots) :
          b[i - 1] < b[i] /\ Spans(files, x.snapshots[i], b[i - 1], b[i])
    /\ x.fragments = [i \in 1..(hi - b[Len(x.snapshots)]) |->
                         files[b[Len(x.snapshots)] + i]]

(* Increasing bounds.                                                      *)
LEMMA Increasing ==
    ASSUME NEW k \in Nat, NEW b \in [0..k -> Nat], \A i \in 1..k : b[i - 1] < b[i]
    PROVE  \A i, j \in 0..k : i < j => b[i] < b[j]
<1> SUFFICES ASSUME NEW i \in 0..k
             PROVE  \A j \in 0..k : i < j => b[i] < b[j]
  OBVIOUS
<1> DEFINE Bad == {j \in 0..k : i < j /\ ~(b[i] < b[j])}
<1> SUFFICES ASSUME Bad # {}
             PROVE  FALSE
  OBVIOUS
<1>1. PICK j \in Bad : \A l \in Bad : j <= l
  <2>1. Bad \in SUBSET Nat
    OBVIOUS
  <2> HIDE DEF Bad
  <2> QED BY <2>1, LeastNatural
<1>2. j \in 1..k /\ j - 1 \in 0..k /\ ~(j <= j - 1) /\ i < j
  BY <1>1
<1>3. b[j - 1] < b[j] /\ b[j] \in Nat /\ b[j - 1] \in Nat /\ b[i] \in Nat
  BY <1>2
<1>4. CASE j - 1 = i
  BY <1>1, <1>3, <1>4
<1>5. CASE j - 1 # i
  <2>1. i < j - 1
    BY <1>2, <1>5
  <2>2. b[i] < b[j - 1]
    BY <1>1, <1>2, <2>1
  <2> QED BY <1>1, <1>3, <2>2
<1> QED BY <1>4, <1>5

(* The bounds of a cut lie between its ends.                               *)
LEMMA BoundsIn ==
    ASSUME NEW files, NEW x, NEW lo \in Nat, NEW hi \in Nat, NEW b, Cut(files, x, lo, hi, b)
    PROVE  /\ Len(x.snapshots) \in Nat /\ DOMAIN x.snapshots = 1..Len(x.snapshots)
           /\ \A i \in 0..Len(x.snapshots) : b[i] \in lo..hi
           /\ \A i, j \in 0..Len(x.snapshots) : i < j => b[i] < b[j]
<1> DEFINE k == Len(x.snapshots)
<1>1. k \in Nat /\ DOMAIN x.snapshots = 1..k
  BY SeqIs DEF Cut
<1>2. b \in [0..k -> Nat] /\ b[0] = lo /\ b[k] <= hi /\ \A i \in 1..k : b[i - 1] < b[i]
  BY DEF Cut
<1> HIDE DEF k
<1>3. \A i, j \in 0..k : i < j => b[i] < b[j]
  BY <1>1, <1>2, Increasing
<1>4. ASSUME NEW i \in 0..k
      PROVE  b[i] \in lo..hi
  <2>1. (0 < i => b[0] < b[i]) /\ (i < k => b[i] < b[k]) /\ b[i] \in Nat /\ b[k] \in Nat
    BY <1>1, <1>2, <1>3
  <2> QED BY <1>1, <1>2, <2>1
<1> QED BY <1>1, <1>3, <1>4 DEF k

(* Later fragments start and end later.                                    *)
LEMMA Later ==
    ASSUME NEW files, NEW n, Regular(files, n), NEW i \in 1..n
    PROVE  \A j \in i..n : files[i].start <= files[j].start /\ files[i].limit <= files[j].limit
<1>1. n \in Nat
  BY DEF Regular, Summed
<1> DEFINE Bad == {j \in i..n : ~(files[i].start <= files[j].start /\ files[i].limit <= files[j].limit)}
<1> SUFFICES ASSUME Bad # {}
             PROVE  FALSE
  OBVIOUS
<1>2. PICK j \in Bad : \A l \in Bad : j <= l
  <2>1. Bad \in SUBSET Nat
    BY <1>1
  <2> HIDE DEF Bad
  <2> QED BY <2>1, LeastNatural
<1>3. j # i
  <2>1. files[i].start \in Nat /\ files[i].limit \in Nat
    BY DEF Regular
  <2> QED BY <1>2, <2>1
<1>4. j \in i..n /\ j - 1 \in i..n /\ ~(j <= j - 1) /\ j - 1 \in 1..(n - 1) /\ j \in 1..n /\ j - 1 \in 1..n
      /\ (j - 1) + 1 = j
  BY <1>1, <1>2, <1>3
<1>5. files[i].start <= files[j - 1].start /\ files[i].limit <= files[j - 1].limit
  BY <1>2, <1>4
<1>6. /\ files[j - 1].limit = files[j].start /\ files[j - 1].start < files[j - 1].limit
      /\ files[j].start < files[j].limit
      /\ files[j].start \in Nat /\ files[j].limit \in Nat
      /\ files[j - 1].start \in Nat /\ files[j - 1].limit \in Nat
      /\ files[i].start \in Nat /\ files[i].limit \in Nat
  BY <1>4 DEF Regular
<1>7. files[i].start <= files[j].start /\ files[i].limit <= files[j].limit
  BY <1>5, <1>6
<1> QED BY <1>2, <1>7

(* The sums over the snapshots and over the fragments of a cut.            *)
LEMMA CutSums ==
    ASSUME NEW files, NEW x, NEW lo \in Nat, NEW hi \in Nat, Summed(files, hi), NEW b,
           Cut(files, x, lo, hi, b)
    PROVE  LET mid == b[Len(x.snapshots)]
           IN  /\ mid \in lo..hi
               /\ Setsums(x.snapshots) = SumTo(files, mid) - SumTo(files, lo)
               /\ Setsums(x.fragments) = SumTo(files, hi) - SumTo(files, mid)
               /\ SumTo(files, mid) \in Int /\ SumTo(files, lo) \in Int /\ SumTo(files, hi) \in Int
<1> DEFINE k == Len(x.snapshots)
           mid == b[k]
           P == [i \in 0..k |-> SumTo(files, b[i])]
<1>0. hi \in Nat
  BY DEF Summed
<1>1. k \in Nat /\ (\A i \in 0..k : b[i] \in lo..hi) /\ b[0] = lo
  BY <1>0, BoundsIn DEF Cut
<1>2. \A i \in 0..k : SumTo(files, b[i]) \in Int
  <2>1. \A i \in 0..k : b[i] \in 0..hi
    BY <1>0, <1>1
  <2> QED BY <2>1, SumToIs
<1>3. P \in [0..k -> Int]
  BY <1>2
<1>4. ASSUME NEW i \in 1..k
      PROVE  x.snapshots[i].setsum = P[i] - P[i - 1]
  <2>1. i \in 0..k /\ i - 1 \in 0..k
    BY <1>1
  <2> QED BY <2>1 DEF Cut, Spans
<1>5. P[k] = SumTo(files, mid) /\ P[0] = SumTo(files, lo)
  BY <1>1
<1>6. Setsums(x.snapshots) = SumTo(files, mid) - SumTo(files, lo)
  <2> HIDE DEF P
  <2> QED BY <1>1, <1>3, <1>4, <1>5, SetsumsTelescope
<1>7. mid \in lo..hi
  BY <1>1
<1>8. Setsums(x.fragments) = SumTo(files, hi) - SumTo(files, mid)
  <2> DEFINE q == x.fragments
  <2>1. q = [i \in 1..(hi - mid) |-> files[mid + i]]
    BY DEF Cut
  <2> HIDE DEF q, mid
  <2>2. mid \in 0..hi /\ hi \in mid..hi /\ hi - mid \in Nat
    BY <1>0, <1>7
  <2>3. Len(q) = hi - mid /\ \A i \in 1..(hi - mid) : q[i] = files[mid + i]
    BY <2>1, <2>2
  <2>4. Setsums(q) = SumTo(files, hi) - SumTo(files, mid)
    BY <2>2, <2>3, SumBetween
  <2> QED BY <2>4 DEF q
<1>9. SumTo(files, mid) \in Int /\ SumTo(files, lo) \in Int /\ SumTo(files, hi) \in Int
  <2>1. lo \in 0..hi /\ hi \in 0..hi
    BY <1>0, <1>7
  <2> QED BY <1>1, <1>2, <2>1, SumToIs
<1> QED BY <1>6, <1>7, <1>8, <1>9

(* The parts hold the fragments lo + 1 to hi; c are their bounds.          *)
Bounded(files, parts, lo, hi, c) ==
    /\ IsSeq(parts) /\ Len(parts) \in Nat /\ DOMAIN parts = 1..Len(parts)
    /\ c \in [0..Len(parts) -> Nat] /\ c[0] = lo /\ c[Len(parts)] = hi
    /\ \A i \in 1..Len(parts) : /\ c[i - 1] < c[i]
                                /\ parts[i].start = files[c[i - 1] + 1].start
                                /\ parts[i].limit = files[c[i]].limit

(* The parts of a cut, one behind the other, with their bounds.            *)
LEMMA PartsSpan ==
    ASSUME NEW files, NEW x, NEW lo \in Nat, NEW hi \in Nat, NEW b, Cut(files, x, lo, hi, b),
           NEW parts, parts = Both(x.snapshots, x.fragments)
    PROVE  \E c : Bounded(files, parts, lo, hi, c)
<1> DEFINE k == Len(x.snapshots)
           mid == b[k]
           r == hi - mid
           N == k + r
           c == [i \in 0..N |-> IF i <= k THEN b[i] ELSE mid + (i - k)]
<1>1. /\ k \in Nat /\ DOMAIN x.snapshots = 1..k /\ (\A i \in 0..k : b[i] \in lo..hi)
      /\ mid \in Nat /\ r \in Nat /\ mid + r = hi
  <2>1. k \in Nat /\ DOMAIN x.snapshots = 1..k /\ (\A i \in 0..k : b[i] \in lo..hi)
    BY BoundsIn
  <2>2. mid \in lo..hi
    BY <2>1
  <2> HIDE DEF mid
  <2> QED BY <2>1, <2>2
<1>2. x.fragments = [i \in 1..r |-> files[mid + i]]
  BY DEF Cut
<1>3. IsSeq(x.fragments) /\ Len(x.fragments) = r /\ DOMAIN x.fragments = 1..r
  <2> DEFINE q == x.fragments
  <2>1. DOMAIN q = 1..r /\ q = [i \in 1..r |-> q[i]]
    BY <1>2
  <2> HIDE DEF q, r
  <2>2. IsSeq(q) /\ Len(q) = r
    BY <1>1, <2>1, FcnIsSeq
  <2> QED BY <2>1, <2>2 DEF q
<1>4. /\ IsSeq(parts) /\ Len(parts) = N /\ DOMAIN parts = 1..N
      /\ \A i \in 1..N : parts[i] = IF i <= k THEN x.snapshots[i] ELSE x.fragments[i - k]
  <2>1. IsSeq(x.snapshots)
    BY DEF Cut
  <2>2. PICK S : x.snapshots \in Seq(S)
    BY <2>1 DEF IsSeq
  <2>3. PICK T : x.fragments \in Seq(T)
    BY <1>3 DEF IsSeq
  <2>4. x.snapshots \in Seq(S \cup T) /\ x.fragments \in Seq(S \cup T)
    BY <2>2, <2>3, SeqMonotonic
  <2> DEFINE p == x.snapshots
             q == x.fragments
  <2>5. /\ parts \in Seq(S \cup T) /\ Len(parts) = Len(p) + Len(q)
        /\ \A i \in 1..(Len(p) + Len(q)) : parts[i] = IF i <= Len(p) THEN p[i] ELSE q[i - Len(p)]
    <3> HIDE DEF p, q
    <3> QED BY <2>4, ConcatProperties DEF Both, p, q
  <2>6. DOMAIN parts = 1..Len(parts)
    BY <2>5, LenProperties
  <2> QED BY <1>3, <2>5, <2>6 DEF IsSeq
<1>5. N \in Nat /\ c \in [0..N -> Nat] /\ c[0] = lo /\ c[N] = hi
  <2>1. N \in Nat /\ b[0] = lo
    BY <1>1 DEF Cut
  <2>2. ASSUME NEW i \in 0..N
        PROVE  (IF i <= k THEN b[i] ELSE mid + (i - k)) \in Nat
    <3>1. CASE i <= k
      <4>1. i \in 0..k
        BY <1>1, <3>1
      <4> QED BY <1>1, <3>1, <4>1
    <3>2. CASE ~(i <= k)
      <4> HIDE DEF mid, r, k
      <4> QED BY <1>1, <3>2
    <3> QED BY <3>1, <3>2
  <2>3. c[N] = hi
    <3>1. N \in 0..N /\ (N <= k => r = 0 /\ N = k) /\ N - k = r
      <4> HIDE DEF mid, r, k
      <4> QED BY <1>1
    <3>2. r = 0 => mid = hi
      <4> HIDE DEF mid, r, k
      <4> QED BY <1>1
    <3> HIDE DEF r
    <3> QED BY <1>1, <3>1, <3>2
  <2>4. 0 \in 0..N /\ 0 <= k
    BY <1>1, <2>1
  <2> HIDE DEF N
  <2> QED BY <2>1, <2>2, <2>3, <2>4
<1>6. ASSUME NEW i \in 1..N
      PROVE  /\ c[i - 1] < c[i]
             /\ parts[i].start = files[c[i - 1] + 1].start
             /\ parts[i].limit = files[c[i]].limit
  <2>0. i \in 0..N /\ i - 1 \in 0..N
    BY <1>5
  <2>1. CASE i <= k
    <3>1. i \in 1..k /\ i - 1 <= k
      BY <1>1, <1>5, <2>1
    <3>2. c[i] = b[i] /\ c[i - 1] = b[i - 1] /\ parts[i] = x.snapshots[i]
      BY <1>4, <2>0, <2>1, <3>1
    <3>3. b[i - 1] < b[i] /\ Spans(files, x.snapshots[i], b[i - 1], b[i])
      BY <3>1 DEF Cut
    <3> QED BY <3>2, <3>3 DEF Spans
  <2>2. CASE ~(i <= k)
    <3> DEFINE y == i - k
    <3>1. y \in 1..r /\ i - 1 = k + (y - 1) /\ k + y = i
      <4> HIDE DEF r
      <4> QED BY <1>1, <1>5, <2>2
    <3>2. parts[i] = files[mid + y]
      BY <1>2, <1>4, <2>2, <3>1
    <3>3. c[i] = mid + y
      BY <2>0, <2>2
    <3>4. c[i - 1] = mid + (y - 1)
      <4>1. CASE y = 1
        <5>1. i - 1 = k
          BY <1>1, <3>1, <4>1
        <5>2. c[i - 1] = mid
          BY <1>1, <2>0, <5>1
        <5> HIDE DEF c, mid, y
        <5> QED BY <1>1, <4>1, <5>2
      <4>2. CASE y # 1
        <5>1. ~(i - 1 <= k) /\ (i - 1) - k = y - 1
          BY <1>1, <1>5, <3>1, <4>2
        <5> HIDE DEF y, mid, k, N
        <5> QED BY <2>0, <5>1
      <4> QED BY <4>1, <4>2
    <3> HIDE DEF c, y, mid, r
    <3>5. c[i - 1] < c[i] /\ c[i - 1] + 1 = c[i]
      BY <1>1, <3>1, <3>3, <3>4
    <3> QED BY <3>2, <3>3, <3>5
  <2> QED BY <2>1, <2>2
<1> HIDE DEF N, c
<1>7. Bounded(files, parts, lo, hi, c)
  BY <1>4, <1>5, <1>6 DEF Bounded
<1> QED BY <1>7

(* There is no gap between the parts of a cut; they start and end where    *)
(* its fragments do.                                                       *)
LEMMA CutContiguous ==
    ASSUME NEW files, NEW x, NEW lo \in Nat, NEW hi \in Nat, Regular(files, hi), NEW b,
           Cut(files, x, lo, hi, b), NEW parts, parts = Both(x.snapshots, x.fragments)
    PROVE  /\ Contiguous(parts)
           /\ lo < hi => /\ parts # <<>>
                         /\ Min(Starts(parts)) = files[lo + 1].start
                         /\ Max(Limits(parts)) = files[hi].limit
<1>0. PICK c : Bounded(files, parts, lo, hi, c)
  BY PartsSpan, Zenon
<1> DEFINE N == Len(parts)
<1>1. /\ N \in Nat /\ c \in [0..N -> Nat]
      /\ IsSeq(parts) /\ DOMAIN parts = 1..N
      /\ c[0] = lo /\ c[N] = hi
      /\ \A i \in 1..N : /\ c[i - 1] < c[i]
                         /\ parts[i].start = files[c[i - 1] + 1].start
                         /\ parts[i].limit = files[c[i]].limit
  BY <1>0 DEF Bounded
<1>11. Len(parts) = N
  OBVIOUS
<1> HIDE DEF N
<1>2. \A i, j \in 0..N : i < j => c[i] < c[j]
  BY <1>1, Increasing
<1>3. \A i \in 0..N : c[i] \in lo..hi
  <2> SUFFICES ASSUME NEW i \in 0..N
               PROVE  c[i] \in lo..hi
    OBVIOUS
  <2>1. (0 < i => c[0] < c[i]) /\ (i < N => c[i] < c[N]) /\ c[i] \in Nat
    BY <1>1, <1>2
  <2> QED BY <1>1, <2>1
<1>4. \A i \in 1..N : c[i] \in 1..hi /\ c[i - 1] + 1 \in 1..hi /\ c[i - 1] + 1 \in (lo + 1)..hi
  <2> SUFFICES ASSUME NEW i \in 1..N
               PROVE  c[i] \in 1..hi /\ c[i - 1] + 1 \in 1..hi /\ c[i - 1] + 1 \in (lo + 1)..hi
    OBVIOUS
  <2>1. i \in 0..N /\ i - 1 \in 0..N /\ c[i - 1] < c[i]
    BY <1>1
  <2>2. c[i] \in lo..hi /\ c[i - 1] \in lo..hi
    BY <1>3, <2>1
  <2> QED BY <2>1, <2>2
<1>5. Contiguous(parts)
  <2> SUFFICES ASSUME NEW i \in 1..(N - 1)
               PROVE  parts[i].limit = parts[i + 1].start
    BY <1>1, <1>11 DEF Contiguous
  <2>1. i \in 1..N /\ i + 1 \in 1..N /\ (i + 1) - 1 = i
    BY <1>1
  <2>2. parts[i].limit = files[c[i]].limit /\ parts[i + 1].start = files[c[i] + 1].start
    BY <1>1, <2>1
  <2>3. c[i] \in 1..hi /\ c[i] + 1 \in 1..hi
    BY <1>4, <2>1
  <2>4. c[i] \in 1..(hi - 1)
    BY <2>3
  <2> QED BY <2>2, <2>4 DEF Regular
<1>6. ASSUME lo < hi
      PROVE  /\ parts # <<>>
             /\ Min(Starts(parts)) = files[lo + 1].start
             /\ Max(Limits(parts)) = files[hi].limit
  <2>1. N # 0
    BY <1>1, <1>6
  <2>2. 1 \in 1..N /\ N \in 1..N /\ 1 - 1 = 0
    BY <1>1, <2>1
  <2>3. parts # <<>>
    BY <1>1, <1>11, <2>1
  <2>4. lo + 1 \in 1..hi /\ hi \in 1..hi
    BY <1>6
  <2>5. ASSUME NEW i \in 1..N
        PROVE  /\ parts[i].start \in Int /\ files[lo + 1].start <= parts[i].start
               /\ parts[i].limit \in Int /\ parts[i].limit <= files[hi].limit
    <3>1. c[i] \in 1..hi /\ c[i - 1] + 1 \in 1..hi /\ c[i - 1] + 1 \in (lo + 1)..hi
      BY <1>4
    <3>2. files[lo + 1].start <= files[c[i - 1] + 1].start
      BY <2>4, <3>1, Later
    <3>3. hi \in c[i]..hi
      BY <3>1
    <3>4. files[c[i]].limit <= files[hi].limit
      BY <3>1, <3>3, Later
    <3>5. files[c[i]].limit \in Nat /\ files[c[i - 1] + 1].start \in Nat
      BY <3>1 DEF Regular
    <3>6. parts[i].start = files[c[i - 1] + 1].start /\ parts[i].limit = files[c[i]].limit
      BY <1>1
    <3> QED BY <3>2, <3>4, <3>5, <3>6
  <2>6. Min(Starts(parts)) = files[lo + 1].start
    <3>1. files[lo + 1].start \in Starts(parts)
      <4>1. parts[1].start = files[lo + 1].start
        BY <1>1, <2>2
      <4> QED BY <1>1, <2>2, <4>1 DEF Starts
    <3>2. \A y \in Starts(parts) : y \in Int /\ files[lo + 1].start <= y
      BY <1>1, <2>5 DEF Starts
    <3> QED BY <3>1, <3>2, MinIs
  <2>7. Max(Limits(parts)) = files[hi].limit
    <3>1. files[hi].limit \in Limits(parts)
      <4>1. parts[N].limit = files[hi].limit
        BY <1>1, <2>2
      <4> QED BY <1>1, <2>2, <4>1 DEF Limits
    <3>2. \A y \in Limits(parts) : y \in Int /\ y <= files[hi].limit
      BY <1>1, <2>5 DEF Limits
    <3> QED BY <3>1, <3>2, MaxIs
  <2> QED BY <2>3, <2>6, <2>7
<1> QED BY <1>5, <1>6

(* The pointer to a snapshot stands for what the snapshot holds.           *)
LEMMA PointerSpans ==
    ASSUME NEW files, NEW s, NEW lo \in Nat, NEW hi \in Nat, lo < hi, Regular(files, hi), NEW b,
           Cut(files, s, lo, hi, b), s.setsum = SumTo(files, hi) - SumTo(files, lo),
           s.depth \in Nat \ {0}
    PROVE  Spans(files, to_pointer(s), lo, hi)
<1> DEFINE parts == Both(s.snapshots, s.fragments)
<1>1. /\ to_pointer(s).start = IF parts = <<>> THEN 1 ELSE Min(Starts(parts))
      /\ to_pointer(s).limit = IF parts = <<>> THEN 1 ELSE Max(Limits(parts))
      /\ to_pointer(s).setsum = s.setsum /\ to_pointer(s).depth = s.depth
  BY DEF to_pointer, Both
<1> HIDE DEF parts
<1>2. /\ parts # <<>>
      /\ Min(Starts(parts)) = files[lo + 1].start
      /\ Max(Limits(parts)) = files[hi].limit
  BY CutContiguous DEF parts
<1> QED BY <1>1, <1>2 DEF Spans

-----------------------------------------------------------------------------
(* Manifests whose tree holds the first n fragments.                       *)

(* Snapshots get shallower, and of no depth there are as many as a roll-up *)
(* takes, except of the least.                                             *)
Shape(q) ==
    /\ \A i, j \in DOMAIN q : i <= j => q[j].depth <= q[i].depth
    /\ \A i \in DOMAIN q : i + snapshot_rollover_threshold <= Len(q) =>
          q[i].depth > q[i + snapshot_rollover_threshold - 1].depth

Good(files, m, n) ==
    /\ Shape(m.snapshots)
    /\ m.setsum = SumTo(files, n) /\ m.collected = 0
    /\ m.initial_offset = None
    /\ \E b : Cut(files, m, 0, n, b)

LEMMA GoodScrubs ==
    ASSUME NEW files, NEW m, NEW n \in Nat, Regular(files, n), Good(files, m, n)
    PROVE  scrub(m)
<1>1. PICK b : Cut(files, m, 0, n, b)
  BY DEF Good
<1>2. Summed(files, n)
  BY DEF Regular
<1> DEFINE mid == b[Len(m.snapshots)]
<1>3. /\ Setsums(m.snapshots) = SumTo(files, mid) - SumTo(files, 0)
      /\ Setsums(m.fragments) = SumTo(files, n) - SumTo(files, mid)
      /\ SumTo(files, mid) \in Int /\ SumTo(files, n) \in Int
  BY <1>1, <1>2, CutSums
<1>4. SumTo(files, 0) = 0
  BY <1>2, SumToIs
<1> HIDE DEF mid
<1>5. m.setsum = Setsums(m.snapshots) + Setsums(m.fragments) + m.collected
  BY <1>3, <1>4 DEF Good
<1>6. Contiguous(m.snapshots \o m.fragments)
  BY <1>1, CutContiguous DEF Both
<1> QED BY <1>5, <1>6 DEF scrub, Good

LEMMA GoodAppend ==
    ASSUME NEW files, NEW m, NEW n \in Nat, Good(files, m, n), Regular(files, n + 1),
           NEW f, f = files[n + 1]
    PROVE  Good(files, apply_fragment(m, f), n + 1)
<1> DEFINE a == apply_fragment(m, f)
<1>1. PICK b : Cut(files, m, 0, n, b)
  BY DEF Good
<1> DEFINE mid == b[Len(m.snapshots)]
<1>2. mid \in 0..n
  <2>1. Len(m.snapshots) \in Nat /\ \A i \in 0..Len(m.snapshots) : b[i] \in 0..n
    BY <1>1, BoundsIn
  <2> QED BY <2>1
<1>3. m.fragments = [i \in 1..(n - mid) |-> files[mid + i]]
  BY <1>1 DEF Cut
<1>4. /\ a.snapshots = m.snapshots /\ a.fragments = Append(m.fragments, f)
      /\ a.setsum = m.setsum + f.setsum /\ a.collected = m.collected
      /\ a.initial_offset = m.initial_offset
  BY DEF apply_fragment
<1> HIDE DEF a, mid
<1>5. Append(m.fragments, f) = [i \in 1..((n + 1) - mid) |-> files[mid + i]]
  <2> DEFINE q == m.fragments
             r == n - mid
             e == [i \in 1..((n + 1) - mid) |-> files[mid + i]]
  <2>1. r \in Nat /\ (n + 1) - mid = r + 1 /\ mid + (r + 1) = n + 1
    BY <1>2
  <2>2. DOMAIN q = 1..r /\ q = [i \in 1..r |-> q[i]] /\ \A i \in 1..r : q[i] = files[mid + i]
    BY <1>3
  <2> HIDE DEF q, r
  <2>3. IsSeq(q) /\ Len(q) = r
    BY <2>1, <2>2, FcnIsSeq
  <2>4. Append(q, f) = [i \in 1..(r + 1) |-> IF i = r + 1 THEN f ELSE q[i]]
    BY <2>3, AppendIs
  <2>5. ASSUME NEW i \in 1..(r + 1)
        PROVE  (IF i = r + 1 THEN f ELSE q[i]) = files[mid + i]
    <3>1. CASE i = r + 1
      BY <2>1, <3>1
    <3>2. CASE i # r + 1
      <4>1. i \in 1..r
        BY <2>1, <3>2
      <4> QED BY <2>2, <3>2, <4>1
    <3> QED BY <3>1, <3>2
  <2>9. Append(q, f) = [i \in 1..(r + 1) |-> files[mid + i]]
    BY <2>4, <2>5
  <2> QED BY <2>1, <2>9 DEF q
<1>6. Cut(files, a, 0, n + 1, b)
  <2>1. mid <= n + 1
    BY <1>2
  <2> QED BY <1>1, <1>4, <1>5, <2>1 DEF Cut, mid
<1>7. a.setsum = SumTo(files, n + 1)
  <2>1. n + 1 \in 1..(n + 1) /\ (n + 1) - 1 = n
    OBVIOUS
  <2>2. SumTo(files, n + 1) = SumTo(files, n) + files[n + 1].setsum
    BY <2>1, SumToIs DEF Regular
  <2> QED BY <1>4, <2>2 DEF Good
<1>8. Good(files, a, n + 1)
  BY <1>4, <1>6, <1>7 DEF Good
<1> QED BY <1>8 DEF a

(* In a there is the pointer p in place of the snapshots of m behind the   *)
(* first j, and of its fragments up to hi.                                 *)
Substituted(files, m, n, b, j, hi, p, a) ==
    /\ Cut(files, m, 0, n, b)
    /\ j \in 0..Len(m.snapshots) /\ hi \in 0..n /\ b[j] < hi
    /\ Spans(files, p, b[j], hi)
    /\ a.snapshots = Append(At(m.snapshots, 1..j), p)
    /\ a.fragments = [i \in 1..(n - hi) |-> files[hi + i]]

Behind(files, m, n, j, p, a) ==
    /\ \E c : Cut(files, a, 0, n, c)
    /\ Len(a.snapshots) = j + 1 /\ DOMAIN a.snapshots = 1..(j + 1)
    /\ a.snapshots[j + 1] = p
    /\ \A i \in 1..j : a.snapshots[i] = m.snapshots[i]

LEMMA ReplaceCut ==
    ASSUME NEW files, NEW m, NEW n \in Nat, NEW b, NEW j, NEW hi, NEW p, NEW a,
           Substituted(files, m, n, b, j, hi, p, a)
    PROVE  Behind(files, m, n, j, p, a)
<1> USE DEF Substituted
<1> DEFINE k == Len(m.snapshots)
           q == [i \in 1..(j + 1) |-> IF i = j + 1 THEN p ELSE m.snapshots[i]]
           kept == [i \in 1..j |-> m.snapshots[i]]
           c == [i \in 0..(j + 1) |-> IF i = j + 1 THEN hi ELSE b[i]]
<1>1. k \in Nat /\ (\A i \in 0..k : b[i] \in 0..n) /\ j \in Nat /\ j <= k
  <2>1. k \in Nat /\ (\A i \in 0..k : b[i] \in 0..n)
    BY BoundsIn
  <2> HIDE DEF k
  <2>2. j \in 0..k
    BY DEF k
  <2> QED BY <2>1, <2>2
<1>2. At(m.snapshots, 1..j) = kept
  BY <1>1, AtFirst
<1>3. Append(kept, p) = q /\ IsSeq(q) /\ Len(q) = j + 1
  <2>1. IsSeq(kept) /\ Len(kept) = j
    <3>1. DOMAIN kept = 1..j /\ kept = [i \in 1..j |-> kept[i]]
      OBVIOUS
    <3> HIDE DEF kept
    <3> QED BY <1>1, <3>1, FcnIsSeq
  <2>2. \A i \in 1..(j + 1) : i # j + 1 => kept[i] = m.snapshots[i]
    <3>1. \A i \in 1..(j + 1) : i # j + 1 => i \in 1..j
      BY <1>1
    <3> QED BY <3>1
  <2>3. /\ Append(kept, p) = [i \in 1..(j + 1) |-> IF i = j + 1 THEN p ELSE kept[i]]
        /\ IsSeq(Append(kept, p)) /\ Len(Append(kept, p)) = j + 1
    <3> HIDE DEF kept
    <3>1. /\ Append(kept, p) = [i \in 1..(Len(kept) + 1) |-> IF i = Len(kept) + 1 THEN p ELSE kept[i]]
          /\ IsSeq(Append(kept, p)) /\ Len(Append(kept, p)) = Len(kept) + 1
      BY <2>1, AppendIs, Zenon
    <3> QED BY <2>1, <3>1, Zenon
  <2>4. Append(kept, p) = q
    <3> HIDE DEF kept
    <3> QED BY <2>2, <2>3
  <2> HIDE DEF q, kept
  <2> QED BY <2>3, <2>4
<1>4. a.snapshots = q
  BY <1>2, <1>3
<1>5. c \in [0..(j + 1) -> Nat] /\ c[0] = 0 /\ c[j + 1] = hi
  <2>1. \A i \in 0..(j + 1) : i # j + 1 => i \in 0..k
    BY <1>1
  <2>2. b[0] = 0 /\ 0 # j + 1 /\ 0 \in 0..(j + 1) /\ hi \in Nat /\ j + 1 \in 0..(j + 1)
    BY <1>1 DEF Cut
  <2>3. \A i \in 0..k : b[i] \in Nat
    BY <1>1
  <2> QED BY <2>1, <2>2, <2>3
<1>6. ASSUME NEW i \in 1..(j + 1)
      PROVE  c[i - 1] < c[i] /\ Spans(files, q[i], c[i - 1], c[i])
  <2>1. i \in 0..(j + 1) /\ i - 1 \in 0..(j + 1) /\ i - 1 # j + 1
    BY <1>1
  <2>2. CASE i = j + 1
    <3>1. i - 1 = j /\ c[i - 1] = b[j] /\ c[i] = hi /\ q[i] = p
      BY <1>1, <2>1, <2>2
    <3> QED BY <3>1
  <2>3. CASE i # j + 1
    <3>1. i \in 1..k
      BY <1>1, <2>3
    <3>2. c[i - 1] = b[i - 1] /\ c[i] = b[i] /\ q[i] = m.snapshots[i]
      BY <2>1, <2>3
    <3>3. b[i - 1] < b[i] /\ Spans(files, m.snapshots[i], b[i - 1], b[i])
      BY <3>1 DEF Cut
    <3> QED BY <3>2, <3>3
  <2> QED BY <2>2, <2>3
<1>7. DOMAIN q = 1..(j + 1) /\ q[j + 1] = p /\ \A i \in 1..j : q[i] = m.snapshots[i]
  BY <1>1
<1> HIDE DEF q, c
<1>8. Cut(files, a, 0, n, c)
  <2>1. hi <= n
    OBVIOUS
  <2>2. IsSeq(a.snapshots) /\ Len(a.snapshots) = j + 1
    BY <1>3, <1>4
  <2>3. \A i \in 1..(j + 1) : c[i - 1] < c[i] /\ Spans(files, a.snapshots[i], c[i - 1], c[i])
    BY <1>4, <1>6
  <2> QED BY <1>5, <2>1, <2>2, <2>3 DEF Cut
<1> QED BY <1>3, <1>4, <1>7, <1>8 DEF Behind

-----------------------------------------------------------------------------
(* What generate_snapshot rolls up.                                        *)

(* Snapshots with depths.                                                  *)
Deep(q) == IsSeq(q) /\ \A i \in DOMAIN q : q[i].depth \in Nat \ {0}

(* A roll-up takes the last snapshots, which are of the same depth.        *)
LEMMA RollupIs ==
    ASSUME NEW m, Deep(m.snapshots), Shape(m.snapshots), NEW d \in RollupDepths(m)
    PROVE  /\ snapshot_rollover_threshold <= Len(m.snapshots)
           /\ RollupIndices(m, d) =
                 (Len(m.snapshots) - snapshot_rollover_threshold + 1)..Len(m.snapshots)
           /\ \A i \in RollupIndices(m, d) : m.snapshots[i].depth = d
<1> DEFINE q == m.snapshots
           k == Len(q)
           t == snapshot_rollover_threshold
           I == RollupIndices(m, d)
<1>1. k \in Nat /\ DOMAIN q = 1..k /\ \A i \in 1..k : q[i].depth \in Nat
  BY SeqIs DEF Deep
<1>2. t \in Nat /\ t >= 1
  BY ThresholdAssumption
<1>3. I \subseteq 1..k /\ \A i \in I : q[i].depth = d
  BY <1>1 DEF RollupIndices
<1>4. Cardinality(I) >= t
  BY DEF RollupDepths
<1>5. /\ \A i, j \in 1..k : i <= j => q[j].depth <= q[i].depth
      /\ \A i \in 1..k : i + t <= k => q[i].depth > q[i + t - 1].depth
  BY <1>1 DEF Shape
<1> HIDE DEF q, k, t, I
<1>6. IsFiniteSet(I) /\ Cardinality(I) \in Nat /\ I # {}
  <2>1. IsFiniteSet(1..k)
    BY <1>1, FS_Interval
  <2>2. IsFiniteSet(I)
    BY <1>3, <2>1, FS_Subset
  <2>3. I # {}
    <3> SUFFICES ASSUME I = {} PROVE FALSE
      OBVIOUS
    <3>1. Cardinality(I) = 0
      BY FS_EmptySet
    <3> QED BY <1>2, <1>4, <3>1
  <2> QED BY <2>2, <2>3, FS_CardinalityType
<1>7. PICK lo \in I : \A x \in I : lo <= x
  <2>1. I \in SUBSET Nat
    BY <1>1, <1>3
  <2> QED BY <1>6, <2>1, LeastNatural
<1>8. PICK hi \in I : \A x \in I : x <= hi
  <2>1. I \in SUBSET (0..k)
    BY <1>1, <1>3
  <2> QED BY <1>1, <1>6, <2>1, GreatestUpTo
<1>9. lo \in 1..k /\ hi \in 1..k /\ lo <= hi /\ I \subseteq lo..hi
  BY <1>3, <1>7, <1>8
<1>10. IsFiniteSet(lo..hi) /\ Cardinality(lo..hi) = hi - lo + 1
  <2>1. lo \in Int /\ hi \in Int /\ ~(lo > hi)
    BY <1>9
  <2> QED BY <2>1, FS_Interval
<1>11. Cardinality(I) <= hi - lo + 1
  BY <1>9, <1>10, FS_Subset
<1>12. lo + t - 1 \in lo..hi /\ lo + t - 1 \in 1..k
  BY <1>1, <1>2, <1>4, <1>6, <1>9, <1>11
<1>13. q[lo + t - 1].depth = q[lo].depth
  <2>1. q[lo + t - 1].depth <= q[lo].depth /\ q[hi].depth <= q[lo + t - 1].depth
    BY <1>5, <1>9, <1>12
  <2>2. q[hi].depth = q[lo].depth
    BY <1>3, <1>7, <1>8
  <2>3. q[lo].depth \in Nat /\ q[lo + t - 1].depth \in Nat
    BY <1>1, <1>9, <1>12
  <2> QED BY <2>1, <2>2, <2>3
<1>14. ~(lo + t <= k)
  <2>1. q[lo].depth \in Nat
    BY <1>1, <1>9
  <2> QED BY <1>5, <1>9, <1>13, <2>1
<1>15. hi = k /\ lo = k - t + 1 /\ hi - lo + 1 = t
  BY <1>1, <1>2, <1>9, <1>12, <1>14
<1>16. I = lo..hi
  <2>1. Cardinality(I) = Cardinality(lo..hi)
    BY <1>4, <1>6, <1>10, <1>11, <1>15, <1>2
  <2> QED BY <1>9, <1>10, <2>1, FS_Subset
<1>17. t <= k /\ I = (k - t + 1)..k
  BY <1>1, <1>2, <1>9, <1>15, <1>16
<1> QED BY <1>3, <1>17 DEF q, k, t, I

(* The depth at which snapshots are rolled up.                             *)
LEMMA RollupDepth ==
    ASSUME NEW m, Deep(m.snapshots), Shape(m.snapshots), RollupDepths(m) # {}
    PROVE  Max(RollupDepths(m)) \in RollupDepths(m)
<1> DEFINE q == m.snapshots
<1>1. Len(q) \in Nat /\ DOMAIN q = 1..Len(q) /\ \A i \in DOMAIN q : q[i].depth \in Nat
  BY SeqIs DEF Deep
<1>2. RollupDepths(m) \subseteq {q[i].depth : i \in DOMAIN q}
  BY DEF RollupDepths
<1>3. 1 \in DOMAIN q
  <2>1. \E i \in DOMAIN q : TRUE
    BY <1>2
  <2> HIDE DEF q
  <2> QED BY <1>1, <2>1
<1>4. \A i \in DOMAIN q : q[i].depth <= q[1].depth
  <2>1. \A i \in DOMAIN q : 1 <= i
    <3> HIDE DEF q
    <3> QED BY <1>1
  <2> QED BY <1>3, <2>1 DEF Shape
<1>5. q[1].depth \in Nat
  BY <1>1, <1>3
<1>6. RollupDepths(m) \in SUBSET (0..q[1].depth)
  <2> HIDE DEF q
  <2> QED BY <1>1, <1>2, <1>4, <1>5
<1> QED BY <1>5, <1>6, MaxUpTo

(* Without a roll-up there are fewer snapshots of any depth than it takes. *)
LEMMA NoRollup ==
    ASSUME NEW m, Deep(m.snapshots), Shape(m.snapshots), RollupDepths(m) = {},
           NEW i \in DOMAIN m.snapshots, i + snapshot_rollover_threshold - 1 <= Len(m.snapshots)
    PROVE  m.snapshots[i].depth > m.snapshots[i + snapshot_rollover_threshold - 1].depth
<1> DEFINE q == m.snapshots
           k == Len(q)
           t == snapshot_rollover_threshold
           d == q[i].depth
<1>1. k \in Nat /\ DOMAIN q = 1..k /\ \A x \in 1..k : q[x].depth \in Nat
  BY SeqIs DEF Deep
<1>2. t \in Nat /\ t >= 1
  BY ThresholdAssumption
<1>3. /\ \A x, y \in 1..k : x <= y => q[y].depth <= q[x].depth
      /\ \A x \in 1..k : x + t <= k => q[x].depth > q[x + t - 1].depth
  BY <1>1 DEF Shape
<1>4. i \in 1..k /\ i + t - 1 <= k
  BY <1>1
<1> SUFFICES ASSUME ~(q[i].depth > q[i + t - 1].depth)
             PROVE  FALSE
  OBVIOUS
<1> HIDE DEF q, k, t
<1>5. i + t - 1 = k
  <2>1. ~(i + t <= k)
    BY <1>3, <1>4
  <2>2. i \in Nat
    BY <1>1, <1>4
  <2> QED BY <1>1, <1>2, <1>4, <2>1, <2>2
<1>6. d \in Nat /\ q[k].depth = d /\ k \in 1..k
  <2>1. k \in 1..k /\ i <= k
    BY <1>1, <1>4
  <2>2. q[k].depth <= d /\ q[k].depth \in Nat /\ d \in Nat
    BY <1>1, <1>3, <1>4, <2>1
  <2> HIDE DEF d
  <2>3. ~(d > q[k].depth)
    BY <1>5 DEF d
  <2> QED BY <2>1, <2>2, <2>3
<1>7. \A x \in i..k : x \in 1..k /\ q[x].depth = d
  <2> SUFFICES ASSUME NEW x \in i..k
               PROVE  x \in 1..k /\ q[x].depth = d
    OBVIOUS
  <2>1. x \in 1..k
    BY <1>1, <1>4
  <2>2. q[x].depth <= q[i].depth /\ q[k].depth <= q[x].depth /\ q[x].depth \in Nat
    BY <1>1, <1>3, <1>4, <1>6, <2>1
  <2> HIDE DEF d
  <2>3. q[x].depth <= d
    BY <2>2 DEF d
  <2> QED BY <1>6, <2>1, <2>2, <2>3
<1> DEFINE E == {x \in 1..k : q[x].depth = d /\ \A y \in 1..k : y > x => q[y].depth <= d}
           above(x) == {y \in E : y > x}
           I == {x \in E : Cardinality(above(x)) < t}
<1>8. I = RollupIndices(m, d)
  BY <1>1 DEF RollupIndices, q, t
<1> HIDE DEF d
<1>9. IsFiniteSet(E)
  <2>1. IsFiniteSet(1..k)
    BY <1>1, FS_Interval
  <2>2. E \subseteq 1..k
    OBVIOUS
  <2> HIDE DEF E
  <2> QED BY <2>1, <2>2, FS_Subset
<1>10. ASSUME NEW x \in i..k
       PROVE  x \in I
  <2>1. x \in 1..k /\ q[x].depth = d
    BY <1>7
  <2>2. \A y \in 1..k : y > x => q[y].depth <= d
    <3>1. \A y \in 1..k : y > x => x <= y
      BY <1>1, <2>1
    <3> QED BY <1>3, <2>1, <3>1
  <2>3. x \in E
    BY <2>1, <2>2
  <2>4. above(x) \subseteq (x + 1)..k
    <3>1. \A y \in E : y \in 1..k
      OBVIOUS
    <3> HIDE DEF E
    <3> QED BY <1>1, <2>1, <3>1
  <2>5. IsFiniteSet((x + 1)..k) /\ Cardinality((x + 1)..k) <= k - x
    <3>1. x + 1 \in Int /\ k \in Int /\ x \in Int /\ x <= k
      BY <1>1, <2>1
    <3>2. IsFiniteSet((x + 1)..k) /\ Cardinality((x + 1)..k) = IF x + 1 > k THEN 0 ELSE k - (x + 1) + 1
      BY <3>1, FS_Interval
    <3> QED BY <3>1, <3>2
  <2> HIDE DEF above
  <2>6. Cardinality(above(x)) <= Cardinality((x + 1)..k) /\ IsFiniteSet(above(x))
    BY <2>4, <2>5, FS_Subset
  <2>7. Cardinality(above(x)) \in Nat /\ Cardinality((x + 1)..k) \in Nat
    BY <2>5, <2>6, FS_CardinalityType
  <2>8. Cardinality(above(x)) < t
    BY <1>1, <1>2, <1>4, <1>5, <2>1, <2>5, <2>6, <2>7
  <2> QED BY <2>3, <2>8
<1>11. Cardinality(I) >= t
  <2>1. I \subseteq E
    OBVIOUS
  <2> HIDE DEF E, above
  <2>2. IsFiniteSet(I)
    BY <1>9, <2>1, FS_Subset
  <2> HIDE DEF I
  <2>3. Cardinality(i..k) = t
    <3>1. i \in Int /\ k \in Int /\ ~(i > k) /\ k - i + 1 = t
      BY <1>1, <1>2, <1>4, <1>5
    <3> QED BY <3>1, FS_Interval
  <2>4. i..k \subseteq I
    BY <1>10
  <2>5. Cardinality(i..k) <= Cardinality(I)
    BY <2>2, <2>4, FS_Subset
  <2>6. Cardinality(I) \in Nat
    BY <2>2, FS_CardinalityType
  <2> QED BY <1>2, <2>3, <2>5, <2>6
<1> HIDE DEF I, E, above
<1>12. d \in {m.snapshots[x].depth : x \in DOMAIN m.snapshots}
  BY <1>1, <1>4 DEF d, q
<1>13. d \in RollupDepths(m)
  BY <1>8, <1>11, <1>12 DEF RollupDepths, t
<1> QED BY <1>13

-----------------------------------------------------------------------------
(* Rolling up.                                                             *)

(* Different runs of the first n fragments have different setsums.         *)
Distinct(files, n) ==
    \A lo, hi, l, h \in 0..n :
        (/\ lo < hi /\ l < h
         /\ SumTo(files, hi) - SumTo(files, lo) = SumTo(files, h) - SumTo(files, l))
            => lo = l /\ hi = h

(* s is a snapshot of some of the first n fragments.                       *)
Covers(files, s, lo, hi) ==
    /\ s.setsum = SumTo(files, hi) - SumTo(files, lo)
    /\ s.depth \in Nat \ {0}
    /\ \E b : Cut(files, s, lo, hi, b)
IsPart(files, s, n) ==
    \E hi \in 1..n : \E lo \in 0..(hi - 1) : Covers(files, s, lo, hi)

(* The first part of a regular sequence is regular.                        *)
LEMMA RegularLess ==
    ASSUME NEW files, NEW n, Regular(files, n), NEW k \in 0..n
    PROVE  Regular(files, k)
<1>1. n \in Nat
  BY DEF Regular, Summed
<1>2. /\ \A i \in 1..k : i \in 1..n
      /\ \A i \in 1..(k - 1) : i \in 1..(n - 1)
      /\ k \in Nat
  BY <1>1
<1> QED BY <1>2 DEF Regular, Summed

(* What a roll-up s takes of a good manifest: the snapshots behind j.      *)
Takes(m, s, j, k) ==
    /\ j \in 0..(k - 1)
    /\ s.snapshots = [i \in 1..(k - j) |-> m.snapshots[j + i]]
    /\ s.fragments = <<>>
    /\ s.setsum = Setsums(s.snapshots) + Setsums(s.fragments)
    /\ s.depth \in Nat \ {0}
    /\ \A i \in (j + 1)..k : s.depth = m.snapshots[i].depth + 1

LEMMA RollupTakes ==
    ASSUME NEW files, NEW m, NEW n \in Nat, Shape(m.snapshots), NEW b, Cut(files, m, 0, n, b),
           RollupDepths(m) # {}, NEW s \in generate_snapshot(m), NEW k, k = Len(m.snapshots),
           NEW j, j = k - snapshot_rollover_threshold
    PROVE  Takes(m, s, j, k)
<1> DEFINE q == m.snapshots
           t == snapshot_rollover_threshold
           d == Max(RollupDepths(m))
           chosen == RollupIndices(m, d)
           first == Min({m.snapshots[i].start : i \in chosen})
           orphan == {i \in {1} : /\ m.snapshots[i].limit = first
                                  /\ m.snapshots[i].depth < d}
<1>1. Deep(q)
  <2>1. DOMAIN q = 1..Len(q)
    BY SeqIs DEF Cut
  <2> QED BY <2>1 DEF Deep, Cut, Spans
<1>2. k \in Nat /\ DOMAIN q = 1..k /\ \A i \in 1..k : q[i].depth \in Nat \ {0}
  BY <1>1, SeqIs DEF Deep
<1>3. d \in RollupDepths(m)
  BY <1>1, RollupDepth
<1>4. t <= k /\ chosen = (k - t + 1)..k /\ \A i \in chosen : q[i].depth = d
  <2> HIDE DEF d
  <2> QED BY <1>1, <1>3, RollupIs
<1>5. t \in Nat /\ t >= 1
  BY ThresholdAssumption
<1> HIDE DEF t, d, q
<1>6. j \in 0..(k - 1) /\ j + 1 = k - t + 1 /\ k - j = t
  BY <1>2, <1>4, <1>5 DEF t
<1>7. 1 \in 1..k /\ k \in 1..k /\ k \in chosen
  <2> HIDE DEF chosen
  <2> QED BY <1>2, <1>4, <1>5
<1>8. q[1].depth >= d /\ d \in Nat \ {0}
  <2>1. q[k].depth = d /\ q[k].depth \in Nat \ {0}
    BY <1>2, <1>4, <1>7
  <2>2. q[k].depth <= q[1].depth
    BY <1>2, <1>7 DEF Shape, q
  <2> QED BY <1>2, <1>7, <2>1, <2>2
<1>9. orphan = {}
  <2>1. ~(q[1].depth < d)
    BY <1>2, <1>7, <1>8
  <2> HIDE DEF first
  <2> QED BY <2>1 DEF q
<1>10. s = Snapshot(d + 1, At(m.snapshots, chosen), <<>>)
  <2>1. s = Snapshot(d + 1, At(m.snapshots, orphan \cup chosen), <<>>)
    BY DEF generate_snapshot, RollupSnapshot, d
  <2> HIDE DEF orphan, chosen
  <2>2. orphan \cup chosen = chosen
    BY <1>9
  <2> QED BY <2>1, <2>2
<1> HIDE DEF orphan, chosen, first
<1>11. At(m.snapshots, chosen) = [i \in 1..(k - j) |-> m.snapshots[j + i]]
  <2> DEFINE a == j + 1
  <2>0. a = k - t + 1
    BY <1>6
  <2>1. a \in Nat /\ a <= k + 1 /\ k - a + 1 = k - j
    BY <1>2, <1>6
  <2>2. \A i \in 1..(k - j) : a + i - 1 = j + i
    BY <1>2, <1>6
  <2> HIDE DEF a
  <2>3. Cardinality(a..k) = k - j
    <3>1. a \in Int /\ k \in Int /\ ~(a > k)
      BY <1>2, <1>6, <2>1
    <3>2. Cardinality(a..k) = k - a + 1
      BY <3>1, FS_Interval
    <3> QED BY <2>1, <3>2
  <2>4. \A i \in 1..(k - j) : Kth(a..k, i) = j + i
    <3>1. \A i \in 1..(k - a + 1) : Kth(a..k, i) = a + i - 1
      BY <1>2, <2>1, KthInterval
    <3> QED BY <2>1, <2>2, <3>1
  <2>5. At(q, a..k) = [i \in 1..(k - j) |-> q[j + i]]
    BY <2>3, <2>4 DEF At
  <2>6. chosen = a..k
    BY <1>4, <2>0
  <2> QED BY <2>5, <2>6, Zenon DEF q
<1>12. /\ s.snapshots = At(m.snapshots, chosen) /\ s.fragments = <<>> /\ s.depth = d + 1
       /\ s.setsum = Setsums(s.snapshots) + Setsums(s.fragments)
  BY <1>10 DEF Snapshot
<1>13. \A i \in (j + 1)..k : q[i].depth = d
  BY <1>4, <1>6
<1> QED BY <1>6, <1>8, <1>11, <1>12, <1>13 DEF q, Takes

(* A roll-up covers what the snapshots it takes do.                        *)
LEMMA RollupCovers ==
    ASSUME NEW files, NEW m, NEW n \in Nat, Regular(files, n), Shape(m.snapshots),
           NEW b, Cut(files, m, 0, n, b),
           RollupDepths(m) # {}, NEW s \in generate_snapshot(m), NEW k, k = Len(m.snapshots),
           NEW j, j = k - snapshot_rollover_threshold
    PROVE  /\ b[j] \in 0..n /\ b[k] \in 0..n /\ b[j] < b[k]
           /\ Covers(files, s, b[j], b[k])
<1>1. /\ j \in 0..(k - 1)
      /\ s.snapshots = [i \in 1..(k - j) |-> m.snapshots[j + i]]
      /\ s.fragments = <<>>
      /\ s.setsum = Setsums(s.snapshots) + Setsums(s.fragments)
      /\ s.depth \in Nat \ {0}
  <2>1. Takes(m, s, j, k)
    BY RollupTakes
  <2> QED BY <2>1 DEF Takes
<1>2. /\ k \in Nat /\ \A i \in 0..k : b[i] \in 0..n
      /\ \A x, y \in 0..k : x < y => b[x] < b[y]
  BY BoundsIn
<1>3. j \in 0..k /\ k \in 0..k /\ j < k /\ k - j \in Nat
  BY <1>1, <1>2
<1>4. b[j] \in 0..n /\ b[k] \in 0..n /\ b[j] < b[k] /\ b[j] \in Nat /\ b[k] \in Nat
  BY <1>2, <1>3
<1> DEFINE r == k - j
           q == s.snapshots
           c == [i \in 0..r |-> b[j + i]]
<1>5. IsSeq(q) /\ Len(q) = r
  <2>1. DOMAIN q = 1..r /\ q = [i \in 1..r |-> q[i]]
    BY <1>1
  <2> HIDE DEF q, r
  <2> QED BY <1>3, <2>1, FcnIsSeq DEF r
<1>6. c \in [0..r -> Nat] /\ c[0] = b[j] /\ c[r] = b[k]
  <2>1. \A i \in 0..r : j + i \in 0..k
    BY <1>3
  <2>2. \A i \in 0..k : b[i] \in Nat
    BY <1>2
  <2>3. 0 \in 0..r /\ r \in 0..r /\ j + 0 = j /\ j + r = k
    BY <1>3
  <2> HIDE DEF r
  <2> QED BY <2>1, <2>2, <2>3
<1>7. ASSUME NEW i \in 1..r
      PROVE  c[i - 1] < c[i] /\ Spans(files, q[i], c[i - 1], c[i])
  <2>1. j + i \in 1..k /\ j + (i - 1) = (j + i) - 1 /\ i \in 0..r /\ i - 1 \in 0..r
    BY <1>3
  <2>2. b[(j + i) - 1] < b[j + i] /\ Spans(files, m.snapshots[j + i], b[(j + i) - 1], b[j + i])
    BY <2>1 DEF Cut
  <2>3. c[i] = b[j + i] /\ c[i - 1] = b[(j + i) - 1] /\ q[i] = m.snapshots[j + i]
    BY <1>1, <2>1
  <2> QED BY <2>2, <2>3
<1>8. s.fragments = [i \in 1..(b[k] - c[r]) |-> files[c[r] + i]]
  <2>1. 1..(b[k] - c[r]) = {}
    BY <1>4, <1>6
  <2> HIDE DEF c, r
  <2> QED BY <1>1, <2>1
<1> HIDE DEF c
<1>9. Cut(files, s, b[j], b[k], c)
  <2>1. c[r] <= b[k]
    BY <1>4, <1>6
  <2> HIDE DEF r
  <2> QED BY <1>5, <1>6, <1>7, <1>8, <2>1 DEF Cut
<1>10. s.setsum = SumTo(files, b[k]) - SumTo(files, b[j])
  <2> DEFINE lo == b[j]
             hi == b[k]
  <2>1. Summed(files, hi)
    BY <1>4, RegularLess DEF Regular
  <2>2. lo \in Nat /\ hi \in Nat /\ Cut(files, s, lo, hi, c)
    BY <1>4, <1>9
  <2>3. c[Len(s.snapshots)] = hi
    BY <1>5, <1>6
  <2> HIDE DEF lo, hi
  <2>4. /\ Setsums(s.snapshots) = SumTo(files, hi) - SumTo(files, lo)
        /\ Setsums(s.fragments) = SumTo(files, hi) - SumTo(files, hi)
        /\ SumTo(files, lo) \in Int /\ SumTo(files, hi) \in Int
    BY <2>1, <2>2, <2>3, CutSums
  <2>5. s.setsum = SumTo(files, hi) - SumTo(files, lo)
    BY <1>1, <2>4
  <2> QED BY <2>5 DEF lo, hi
<1> QED BY <1>1, <1>4, <1>9, <1>10 DEF Covers

(* It replaces what it takes.                                              *)
LEMMA RollupReplaces ==
    ASSUME NEW files, NEW m, NEW n \in Nat, Regular(files, n), Shape(m.snapshots),
           NEW b, Cut(files, m, 0, n, b), NEW d \in 0..n, b[Len(m.snapshots)] <= d, Distinct(files, d),
           RollupDepths(m) # {}, NEW s \in generate_snapshot(m), NEW k, k = Len(m.snapshots),
           NEW j, j = k - snapshot_rollover_threshold
    PROVE  Unreplaced(m, s) = 1..j
<1>1. /\ j \in 0..(k - 1)
      /\ s.snapshots = [i \in 1..(k - j) |-> m.snapshots[j + i]]
  <2>1. Takes(m, s, j, k)
    BY RollupTakes
  <2> QED BY <2>1 DEF Takes
<1>2. /\ k \in Nat /\ (\A i \in 0..k : b[i] \in 0..n) /\ DOMAIN m.snapshots = 1..k
      /\ \A x, y \in 0..k : x < y => b[x] < b[y]
  BY BoundsIn
<1>3. \A i \in 0..k : b[i] \in 0..d
  <2> SUFFICES ASSUME NEW i \in 0..k PROVE b[i] \in 0..d
    OBVIOUS
  <2>1. b[i] \in Nat /\ b[k] \in Nat /\ k \in 0..k /\ (i < k => b[i] < b[k]) /\ b[k] <= d /\ d \in Nat
    BY <1>2
  <2> QED BY <1>2, <2>1
<1>4. ASSUME NEW x \in 1..k, NEW y \in 1..k, m.snapshots[x].setsum = m.snapshots[y].setsum
      PROVE  x = y
  <2>1. x \in 0..k /\ y \in 0..k /\ x - 1 \in 0..k /\ y - 1 \in 0..k
    BY <1>2
  <2>2. /\ b[x - 1] \in 0..d /\ b[x] \in 0..d /\ b[y - 1] \in 0..d /\ b[y] \in 0..d
        /\ b[x - 1] < b[x] /\ b[y - 1] < b[y]
        /\ m.snapshots[x].setsum = SumTo(files, b[x]) - SumTo(files, b[x - 1])
        /\ m.snapshots[y].setsum = SumTo(files, b[y]) - SumTo(files, b[y - 1])
    BY <1>3, <2>1 DEF Cut, Spans
  <2>3. b[x] = b[y]
    BY <1>4, <2>2 DEF Distinct
  <2>4. ~(b[x] < b[y]) /\ ~(b[y] < b[x])
    BY <2>2, <2>3
  <2>5. ~(x < y) /\ ~(y < x)
    BY <1>2, <2>1, <2>4
  <2> QED BY <1>2, <2>1, <2>5
<1>5. DOMAIN s.snapshots = 1..(k - j) /\ \A i \in 1..(k - j) : s.snapshots[i] = m.snapshots[j + i]
  BY <1>1
<1>6. ASSUME NEW x \in 1..k
      PROVE  (x \in 1..j) <=> \A i \in 1..(k - j) : m.snapshots[j + i].setsum # m.snapshots[x].setsum
  <2>1. CASE x \in 1..j
    <3>1. \A i \in 1..(k - j) : j + i \in 1..k /\ j + i # x
      BY <1>1, <1>2, <2>1
    <3> QED BY <1>4, <2>1, <3>1
  <2>2. CASE x \notin 1..j
    <3>1. x - j \in 1..(k - j) /\ j + (x - j) = x
      BY <1>1, <1>2, <2>2
    <3> QED BY <2>2, <3>1
  <2> QED BY <2>1, <2>2
<1>7. ASSUME NEW x
      PROVE  x \in Unreplaced(m, s) <=>
                /\ x \in 1..k
                /\ \A i \in 1..(k - j) : m.snapshots[j + i].setsum # m.snapshots[x].setsum
  <2>1. x \in Unreplaced(m, s) <=>
           x \in 1..k /\ \A i \in 1..(k - j) : s.snapshots[i].setsum # m.snapshots[x].setsum
    BY <1>2, <1>5 DEF Unreplaced
  <2> QED BY <1>5, <2>1
<1>8. 1..j \subseteq 1..k
  BY <1>1, <1>2
<1> QED BY <1>6, <1>7, <1>8

(* The manifest keeps its last fragment to itself.                         *)
LEMMA LastKept ==
    ASSUME NEW files, NEW m, NEW n \in Nat \ {0}, Links(files, m, n), NEW b, Cut(files, m, 0, n, b),
           NEW mid, mid = b[Len(m.snapshots)]
    PROVE  /\ mid \in 0..(n - 1)
           /\ IsSeq(m.fragments) /\ Len(m.fragments) = n - mid
           /\ \A i \in 1..(n - mid) : m.fragments[i] = files[mid + i]
<1>1. mid \in 0..n
  <2>1. Len(m.snapshots) \in Nat /\ \A i \in 0..Len(m.snapshots) : b[i] \in 0..n
    BY BoundsIn
  <2> QED BY <2>1
<1> DEFINE q == m.fragments
           r == n - mid
<1>2. q = [i \in 1..r |-> files[mid + i]]
  BY DEF Cut
<1>3. DOMAIN q = 1..r /\ q = [i \in 1..r |-> q[i]] /\ \A i \in 1..r : q[i] = files[mid + i]
  BY <1>2
<1>4. r \in Nat
  BY <1>1
<1> HIDE DEF q, r
<1>5. IsSeq(q) /\ Len(q) = r
  BY <1>3, <1>4, FcnIsSeq
<1>6. r > 0
  BY <1>5 DEF Links, q
<1>7. mid \in 0..(n - 1)
  BY <1>1, <1>6 DEF r
<1> QED BY <1>3, <1>5, <1>7 DEF q, r

(* The rest of a sequence.                                                 *)
LEMMA SubSeqIs ==
    ASSUME NEW q, IsSeq(q), NEW x \in 0..Len(q)
    PROVE  SubSeq(q, x + 1, Len(q)) = [i \in 1..(Len(q) - x) |-> q[x + i]]
<1>1. PICK S : q \in Seq(S)
  BY DEF IsSeq
<1> DEFINE k == Len(q)
           r == SubSeq(q, x + 1, k)
<1>2. k \in Nat /\ x \in 0..k
  BY <1>1
<1> HIDE DEF k
<1>3. /\ r \in Seq(S) /\ Len(r) = k - x
      /\ \A i \in 1..(k - x) : r[i] = q[x + i]
  <2>1. CASE x = k
    <3>1. r = <<>> /\ k - x = 0
      BY <1>1, <1>2, <2>1 DEF k
    <3> HIDE DEF r
    <3> QED BY <3>1
  <2>2. CASE x # k
    <3>1. x + 1 \in 1..k /\ k \in 1..k /\ x + 1 \in 1..(k + 1)
      BY <1>2, <2>2
    <3>2. r \in Seq(S) /\ Len(r) = IF x + 1 <= k THEN k - (x + 1) + 1 ELSE 0
      BY <1>1, <3>1, SubSeqProperties DEF k
    <3>3. \A i \in 1..(k - (x + 1) + 1) : r[i] = q[(x + 1) + i - 1]
      BY <1>1, <3>1, SubSeqProperties DEF k
    <3>4. k - (x + 1) + 1 = k - x /\ x + 1 <= k
      BY <1>2, <3>1
    <3>5. \A i \in 1..(k - x) : (x + 1) + i - 1 = x + i
      BY <1>2
    <3> HIDE DEF r
    <3> QED BY <3>2, <3>3, <3>4, <3>5
  <2> QED BY <2>1, <2>2
<1> HIDE DEF r
<1>4. r = [i \in 1..Len(r) |-> r[i]]
  BY <1>3, SeqIs DEF IsSeq
<1>5. r = [i \in 1..(k - x) |-> q[x + i]]
  BY <1>3, <1>4
<1> QED BY <1>5 DEF r, k

(* The first d of a sequence.                                              *)
LEMMA PrefixOf ==
    ASSUME NEW q, IsSeq(q), NEW d \in 0..Len(q)
    PROVE  SubSeq(q, 1, d) = [i \in 1..d |-> q[i]]
<1>1. PICK S : q \in Seq(S)
  BY DEF IsSeq
<1> DEFINE f == SubSeq(q, 1, d)
<1>2. Len(q) \in Nat /\ d \in Nat
  BY <1>1
<1>3. f \in Seq(S) /\ Len(f) = d /\ \A i \in 1..d : f[i] = q[i]
  <2>1. CASE d = 0
    <3>1. f = <<>>
      BY <1>1, <2>1
    <3> HIDE DEF f
    <3> QED BY <2>1, <3>1
  <2>2. CASE d # 0
    <3>2. 1 \in 1..(Len(q) + 1) /\ d \in 0..Len(q) /\ 1 <= d /\ d - 1 + 1 = d
      BY <1>2, <2>2
    <3>3. f \in Seq(S) /\ Len(f) = d
      BY <1>1, <3>2, SubSeqProperties
    <3>4. \A i \in 1..(d - 1 + 1) : f[i] = q[1 + i - 1]
      BY <1>1, <3>2, SubSeqProperties
    <3>5. \A i \in 1..d : 1 + i - 1 = i
      BY <1>2
    <3> HIDE DEF f
    <3> QED BY <3>2, <3>3, <3>4, <3>5
  <2> QED BY <2>1, <2>2
<1> HIDE DEF f
<1>4. f = [i \in 1..Len(f) |-> f[i]]
  BY <1>3, SeqIs DEF IsSeq
<1>5. f = [i \in 1..d |-> q[i]]
  BY <1>3, <1>4
<1> QED BY <1>5 DEF f

(* What a leaf takes: the fragments up to hi.                              *)
LEMMA LeafCovers ==
    ASSUME NEW files, Numbered(files), NEW m, NEW n \in Nat \ {0}, Links(files, m, n), Regular(files, n),
           NEW b, Cut(files, m, 0, n, b), RollupDepths(m) = {}, NEW s \in generate_snapshot(m),
           NEW mid, mid = b[Len(m.snapshots)], NEW hi, hi = mid + fragment_rollover_threshold
    PROVE  /\ hi \in 1..(n - 1) /\ mid < hi
           /\ s.snapshots = <<>> /\ s.depth = 1
           /\ Len(s.fragments) = hi - mid
           /\ \A i \in 1..(hi - mid) : s.fragments[i] = m.fragments[i]
           /\ IsSeq(s.fragments)
           /\ Covers(files, s, mid, hi)
<1> DEFINE t == fragment_rollover_threshold
           q == m.fragments
           f == SubSeq(q, 1, t)
<1>1. t \in Nat /\ t >= 1
  BY ThresholdAssumption
<1>2. LeafReady(m) /\ s = LeafSnapshot(m)
  BY DEF generate_snapshot
<1>3. /\ mid \in 0..(n - 1)
      /\ IsSeq(q) /\ Len(q) = n - mid
      /\ \A i \in 1..(n - mid) : q[i] = files[mid + i]
  BY LastKept
<1>4. /\ s.snapshots = <<>> /\ s.depth = 1 /\ s.fragments = f
      /\ s.setsum = Setsums(s.snapshots) + Setsums(s.fragments)
  BY <1>2 DEF LeafSnapshot, Snapshot
<1>5. hi \in 1..(n - 1) /\ mid < hi /\ hi - mid = t /\ t \in 1..(n - mid)
  <2>1. t <= n - mid /\ q[t].seq_no # Max(SeqNos(q))
    <3>1. Len(q) >= t /\ \A i \in 1..t : q[i].seq_no # Max(SeqNos(q))
      BY <1>2 DEF LeafReady
    <3> HIDE DEF q, t
    <3>2. t \in 1..t
      BY <1>1
    <3> QED BY <1>1, <1>3, <3>1, <3>2
  <2>2. Max(SeqNos(q)) = n
    BY LinksNext
  <2>3. t \in 1..(n - mid)
    BY <1>1, <1>3, <2>1
  <2>4. q[t].seq_no = n - (n - mid) + t
    BY <1>3, <2>3 DEF Links
  <2> HIDE DEF t
  <2>5. t # n - mid
    BY <1>1, <1>3, <2>1, <2>2, <2>4
  <2>6. hi = mid + t
    BY DEF t
  <2> QED BY <1>1, <1>3, <2>3, <2>5, <2>6
<1> HIDE DEF t, q
<1>6. Len(f) = t /\ IsSeq(f) /\ \A i \in 1..t : f[i] = q[i]
  <2>1. t \in 0..Len(q)
    BY <1>1, <1>3, <1>5
  <2>2. f = [i \in 1..t |-> q[i]]
    BY <1>3, <2>1, PrefixOf
  <2>3. DOMAIN f = 1..t /\ f = [i \in 1..t |-> f[i]] /\ \A i \in 1..t : f[i] = q[i]
    <3> HIDE DEF f
    <3> QED BY <2>2
  <2> HIDE DEF f
  <2> QED BY <1>1, <2>3, FcnIsSeq
<1> DEFINE c == [i \in 0..0 |-> mid]
<1>7. f = [i \in 1..t |-> files[mid + i]]
  <2>1. f = [i \in 1..Len(f) |-> f[i]]
    BY <1>6, SeqIs
  <2>2. \A i \in 1..t : i \in 1..(n - mid)
    BY <1>3, <1>5
  <2>3. \A i \in 1..t : f[i] = files[mid + i]
    BY <1>3, <1>6, <2>2
  <2> HIDE DEF f
  <2> QED BY <1>6, <2>1, <2>3
<1> HIDE DEF f
<1>8. IsSeq(s.snapshots) /\ Len(s.snapshots) = 0
  <2>1. <<>> \in Seq({})
    OBVIOUS
  <2> QED BY <1>4, <2>1 DEF IsSeq
<1>9. c \in [0..0 -> Nat] /\ c[0] = mid
  BY <1>3
<1> HIDE DEF c
<1>10. Cut(files, s, mid, hi, c)
  <2>1. mid <= hi /\ c[Len(s.snapshots)] = mid
    BY <1>3, <1>5, <1>8, <1>9
  <2>2. c \in [0..Len(s.snapshots) -> Nat]
    BY <1>8, <1>9
  <2>3. c[0] = mid /\ c[Len(s.snapshots)] <= hi
    BY <1>9, <2>1
  <2>4. 1..Len(s.snapshots) = {}
    BY <1>8
  <2>5. \A i \in 1..Len(s.snapshots) :
           c[i - 1] < c[i] /\ Spans(files, s.snapshots[i], c[i - 1], c[i])
    BY ONLY <2>4
  <2>6. s.fragments = [i \in 1..(hi - c[Len(s.snapshots)]) |->
                          files[c[Len(s.snapshots)] + i]]
    BY ONLY <1>4, <1>5, <1>7, <2>1
  <2> QED BY ONLY <1>8, <2>2, <2>3, <2>5, <2>6 DEF Cut
<1>11. s.setsum = SumTo(files, hi) - SumTo(files, mid)
  <2>1. Summed(files, hi)
    BY <1>5, RegularLess DEF Regular
  <2>2. mid \in Nat /\ hi \in Nat
    BY <1>3, <1>5
  <2>3. c[Len(s.snapshots)] = mid
    BY <1>8, <1>9
  <2>4. /\ Setsums(s.snapshots) = SumTo(files, mid) - SumTo(files, mid)
        /\ Setsums(s.fragments) = SumTo(files, hi) - SumTo(files, mid)
        /\ SumTo(files, mid) \in Int /\ SumTo(files, hi) \in Int
    BY <1>10, <2>1, <2>2, <2>3, CutSums
  <2> QED BY <1>4, <2>4
<1> QED BY <1>4, <1>5, <1>6, <1>10, <1>11 DEF Covers, q

(* The depths after a roll-up of the snapshots behind j to one of depth d. *)
RolledUp(q, j, k, d, a) ==
    /\ k = Len(q) /\ j = k - snapshot_rollover_threshold /\ j \in 0..(k - 1)
    /\ \A i \in (j + 1)..k : d = q[i].depth + 1
    /\ Len(a) = j + 1 /\ DOMAIN a = 1..(j + 1) /\ a[j + 1].depth = d
    /\ \A i \in 1..j : a[i] = q[i]

LEMMA ShapeRollup ==
    ASSUME NEW q, Deep(q), Shape(q), NEW k, NEW j, NEW d, NEW a, RolledUp(q, j, k, d, a)
    PROVE  Shape(a)
<1>0. /\ k = Len(q) /\ j = k - snapshot_rollover_threshold /\ j \in 0..(k - 1)
      /\ \A i \in (j + 1)..k : d = q[i].depth + 1
      /\ Len(a) = j + 1 /\ DOMAIN a = 1..(j + 1) /\ a[j + 1].depth = d
      /\ \A i \in 1..j : a[i] = q[i]
  BY DEF RolledUp
<1> DEFINE t == snapshot_rollover_threshold
<1>1. k \in Nat /\ DOMAIN q = 1..k /\ \A i \in 1..k : q[i].depth \in Nat
  BY <1>0, SeqIs DEF Deep
<1>2. t \in Nat /\ t >= 1 /\ j + t = k /\ j \in Nat /\ j < k
  BY <1>0, <1>1, ThresholdAssumption
<1>3. /\ \A x, y \in 1..k : x <= y => q[y].depth <= q[x].depth
      /\ \A x \in 1..k : x + t <= k => q[x].depth > q[x + t - 1].depth
  BY <1>1 DEF Shape
<1> HIDE DEF t
<1>4. k \in (j + 1)..k /\ q[k].depth \in Nat /\ d = q[k].depth + 1
  <2>1. k \in (j + 1)..k /\ k \in 1..k
    BY <1>1, <1>2
  <2> QED BY <1>0, <1>1, <2>1
<1>5. ASSUME NEW i \in 1..j
      PROVE  q[i].depth \in Nat /\ d <= q[i].depth
  <2>1. i \in 1..k /\ j \in 1..k /\ i <= j /\ j + t - 1 \in 1..k /\ j + t - 1 = k - 1
    <3>1. i \in Nat /\ 1 <= i /\ i <= j
      BY <1>2
    <3>2. j + t - 1 = k - 1
      BY <1>2
    <3>3. i \in 1..k /\ j \in 1..k /\ k - 1 \in 1..k
      BY <1>1, <1>2, <3>1
    <3> QED BY <3>1, <3>2, <3>3
  <2>2. q[j].depth <= q[i].depth /\ q[j].depth > q[k - 1].depth /\ q[j].depth \in Nat /\ q[i].depth \in Nat
    BY <1>1, <1>2, <1>3, <2>1
  <2>3. k - 1 \in (j + 1)..k
    <3>1. k - 1 # j
      BY <2>2
    <3> QED BY <1>1, <1>2, <2>1, <3>1
  <2>4. d = q[k - 1].depth + 1 /\ q[k - 1].depth \in Nat
    BY <1>0, <1>1, <1>2, <2>1, <2>3
  <2> QED BY <2>2, <2>4
<1>6. ASSUME NEW x \in 1..(j + 1), NEW y \in 1..(j + 1), x <= y
      PROVE  a[y].depth <= a[x].depth
  <2>1. CASE y = j + 1
    <3>1. CASE x = j + 1
      BY <1>0, <1>4, <2>1, <3>1
    <3>2. CASE x # j + 1
      <4>1. x \in 1..j
        BY <1>2, <3>2
      <4> QED BY <1>0, <1>5, <2>1, <4>1
    <3> QED BY <3>1, <3>2
  <2>2. CASE y # j + 1
    <3>1. x \in 1..j /\ y \in 1..j /\ x \in 1..k /\ y \in 1..k
      BY <1>1, <1>2, <1>6, <2>2
    <3> QED BY <1>0, <1>3, <1>6, <3>1
  <2> QED BY <2>1, <2>2
<1>7. ASSUME NEW x \in 1..(j + 1), x + t <= j + 1
      PROVE  a[x].depth > a[x + t - 1].depth
  <2>1. x \in 1..j /\ x + t - 1 \in 1..j /\ x \in 1..k /\ x + t <= k
    BY <1>1, <1>2, <1>7
  <2> QED BY <1>0, <1>3, <2>1
<1> QED BY <1>0, <1>6, <1>7 DEF Shape, t

(* ... and after a leaf.                                                   *)
LEMMA ShapeLeaf ==
    ASSUME NEW m, Deep(m.snapshots), Shape(m.snapshots), RollupDepths(m) = {},
           NEW k, k = Len(m.snapshots),
           NEW a, Len(a) = k + 1, DOMAIN a = 1..(k + 1), a[k + 1].depth = 1,
           \A i \in 1..k : a[i] = m.snapshots[i]
    PROVE  Shape(a)
<1> DEFINE t == snapshot_rollover_threshold
           q == m.snapshots
<1>1. k \in Nat /\ DOMAIN q = 1..k /\ \A i \in 1..k : q[i].depth \in Nat \ {0}
  BY SeqIs DEF Deep
<1>2. t \in Nat /\ t >= 1
  BY ThresholdAssumption
<1>3. \A x, y \in 1..k : x <= y => q[y].depth <= q[x].depth
  BY <1>1 DEF Shape
<1>4. \A x \in 1..k : x + t - 1 <= k => q[x].depth > q[x + t - 1].depth
  BY <1>1, NoRollup
<1> HIDE DEF t
<1>6. ASSUME NEW x \in 1..(k + 1), NEW y \in 1..(k + 1), x <= y
      PROVE  a[y].depth <= a[x].depth
  <2>1. CASE y = k + 1
    <3>1. CASE x = k + 1
      BY <2>1, <3>1
    <3>2. CASE x # k + 1
      <4>1. x \in 1..k
        BY <1>1, <3>2
      <4> QED BY <1>1, <2>1, <4>1
    <3> QED BY <3>1, <3>2
  <2>2. CASE y # k + 1
    <3>1. x \in 1..k /\ y \in 1..k
      BY <1>1, <1>6, <2>2
    <3> QED BY <1>3, <1>6, <3>1
  <2> QED BY <2>1, <2>2
<1>7. ASSUME NEW x \in 1..(k + 1), x + t <= k + 1
      PROVE  a[x].depth > a[x + t - 1].depth
  <2>1. x \in 1..k /\ x + t - 1 \in 1..k /\ x + t - 1 <= k
    BY <1>1, <1>2, <1>7
  <2> QED BY <1>4, <2>1
<1> QED BY <1>6, <1>7 DEF Shape, t

(* What generate_snapshot makes of a good manifest can be put in place of  *)
(* what it covers, and the manifest is good again.                         *)
Rolls(files, m, s, n) ==
    /\ Good(files, apply_snapshot(m, s), n)
    /\ IsPrefix(s.fragments, m.fragments)
    /\ IsPart(files, s, n - 1)
    /\ \A i \in DOMAIN s.snapshots : \E j \in DOMAIN m.snapshots : s.snapshots[i] = m.snapshots[j]
    /\ \A i \in DOMAIN apply_snapshot(m, s).snapshots :
          \/ apply_snapshot(m, s).snapshots[i] = to_pointer(s)
          \/ \E j \in DOMAIN m.snapshots : apply_snapshot(m, s).snapshots[i] = m.snapshots[j]

(* s takes the snapshots behind j of m, which end at b[j], and the         *)
(* fragments up to hi.                                                     *)
Fits(files, m, s, n, b, k, j, hi) ==
    /\ Cut(files, m, 0, n, b) /\ k = Len(m.snapshots)
    /\ j \in 0..k /\ Unreplaced(m, s) = 1..j
    /\ hi \in 1..(n - 1) /\ b[j] \in Nat /\ b[j] < hi /\ b[k] <= hi
    /\ Covers(files, s, b[j], hi)
    /\ hi - b[k] = Len(s.fragments) /\ IsSeq(s.fragments)
    /\ \A i \in DOMAIN s.fragments : s.fragments[i] = m.fragments[i]
    /\ \A i \in DOMAIN s.snapshots : \E l \in DOMAIN m.snapshots : s.snapshots[i] = m.snapshots[l]

(* The snapshots of m up to j, and s.                                      *)
Trails(m, s, j, a) ==
    /\ Len(a) = j + 1 /\ DOMAIN a = 1..(j + 1)
    /\ a[j + 1].depth = s.depth
    /\ \A i \in 1..j : a[i] = m.snapshots[i]

LEMMA SnapshotRolls ==
    ASSUME NEW files, NEW m, NEW n \in Nat \ {0}, Links(files, m, n), Regular(files, n),
           Good(files, m, n), NEW s, NEW b, NEW k, NEW j, NEW hi, Fits(files, m, s, n, b, k, j, hi),
           NEW a, a = apply_snapshot(m, s), Trails(m, s, j, a.snapshots) => Shape(a.snapshots)
    PROVE  Rolls(files, m, s, n)
<1> USE DEF Fits
<1> DEFINE p == to_pointer(s)
           d == Len(s.fragments)
           mid == b[k]
<1>1. /\ mid \in 0..(n - 1)
      /\ IsSeq(m.fragments) /\ Len(m.fragments) = n - mid
      /\ \A i \in 1..(n - mid) : m.fragments[i] = files[mid + i]
  BY LastKept
<1>2. d = hi - mid /\ d \in 0..(n - mid) /\ mid + d = hi
  <2>1. mid \in Nat /\ hi \in 1..(n - 1) /\ mid <= hi /\ d = hi - mid
    BY <1>1
  <2> HIDE DEF Fits, d, mid
  <2> QED BY <2>1
<1>3. DOMAIN s.fragments = 1..d
  BY SeqIs
<1>4. /\ a.snapshots = Append(At(m.snapshots, 1..j), p)
      /\ a.fragments = SubSeq(m.fragments, d + 1, Len(m.fragments))
      /\ a.setsum = m.setsum /\ a.collected = m.collected /\ a.initial_offset = m.initial_offset
  BY DEF apply_snapshot
<1> HIDE DEF d, mid, p
<1>5. a.fragments = [i \in 1..(n - hi) |-> files[hi + i]]
  <2> DEFINE q == m.fragments
  <2>0. Len(q) = n - mid /\ d \in 0..Len(q) /\ IsSeq(q)
    BY <1>1, <1>2
  <2> HIDE DEF q
  <2>1. SubSeq(q, d + 1, Len(q)) = [i \in 1..(Len(q) - d) |-> q[d + i]]
    BY <2>0, SubSeqIs
  <2>2. (n - mid) - d = n - hi
    BY <1>1, <1>2
  <2>3. ASSUME NEW i \in 1..(n - hi)
        PROVE  q[d + i] = files[hi + i]
    <3>1. d + i \in 1..(n - mid) /\ mid + (d + i) = hi + i
      BY <1>1, <1>2
    <3> QED BY <1>1, <3>1 DEF q
  <2>4. a.fragments = [i \in 1..(n - hi) |-> q[d + i]]
    BY <1>4, <2>0, <2>1, <2>2 DEF q
  <2> QED BY <2>3, <2>4
<1>6. Spans(files, p, b[j], hi)
  <2>1. PICK c : Cut(files, s, b[j], hi, c)
    BY DEF Covers
  <2>2. Regular(files, hi) /\ hi \in Nat
    BY RegularLess
  <2> QED BY <2>1, <2>2, PointerSpans DEF Covers, p
<1>7. /\ \E c : Cut(files, a, 0, n, c)
      /\ Len(a.snapshots) = j + 1 /\ DOMAIN a.snapshots = 1..(j + 1)
      /\ a.snapshots[j + 1] = p
      /\ \A i \in 1..j : a.snapshots[i] = m.snapshots[i]
  <2>1. hi \in 0..n /\ n \in Nat /\ j \in 0..Len(m.snapshots)
    OBVIOUS
  <2>2. Substituted(files, m, n, b, j, hi, p, a)
    BY <1>4, <1>5, <1>6, <2>1 DEF Substituted
  <2> HIDE DEF Fits
  <2>3. Behind(files, m, n, j, p, a)
    BY <2>1, <2>2, ReplaceCut
  <2> QED BY <2>3 DEF Behind
<1>8. p.depth = s.depth
  BY DEF p, to_pointer
<1>9. Good(files, a, n)
  BY <1>4, <1>7, <1>8 DEF Good, Trails
<1>10. IsPrefix(s.fragments, m.fragments)
  <2>1. d <= Len(m.fragments) /\ d \in Nat
    BY <1>1, <1>2
  <2>2. SubSeq(s.fragments, 1, d) = s.fragments /\ SubSeq(m.fragments, 1, d) = s.fragments
    <3>1. d \in 0..Len(s.fragments) /\ d \in 0..Len(m.fragments)
      BY <1>1, <1>2 DEF d
    <3>2. SubSeq(s.fragments, 1, d) = [i \in 1..d |-> s.fragments[i]]
      BY <3>1, PrefixOf
    <3>3. SubSeq(m.fragments, 1, d) = [i \in 1..d |-> m.fragments[i]]
      BY <1>1, <3>1, PrefixOf
    <3>4. s.fragments = [i \in 1..d |-> s.fragments[i]]
      BY SeqIs DEF d
    <3> QED BY <1>3, <3>2, <3>3, <3>4
  <2> QED BY <2>1, <2>2 DEF IsPrefix, d
<1>11. IsPart(files, s, n - 1)
  <2>1. b[j] \in 0..(hi - 1)
    OBVIOUS
  <2> QED BY <2>1 DEF IsPart
<1>12. \A i \in DOMAIN a.snapshots : a.snapshots[i] = p \/ \E l \in DOMAIN m.snapshots : a.snapshots[i] = m.snapshots[l]
  <2> SUFFICES ASSUME NEW i \in 1..(j + 1)
               PROVE  a.snapshots[i] = p \/ \E l \in DOMAIN m.snapshots : a.snapshots[i] = m.snapshots[l]
    BY <1>7
  <2>1. k \in Nat /\ DOMAIN m.snapshots = 1..k
    BY SeqIs DEF Cut
  <2>2. i = j + 1 \/ (i \in 1..j /\ i \in 1..k)
    BY <2>1
  <2> QED BY <1>7, <2>1, <2>2
<1> QED BY <1>9, <1>10, <1>11, <1>12 DEF Rolls, p

LEMMA GoodSnapshot ==
    ASSUME NEW files, Numbered(files), NEW m, NEW n \in Nat \ {0}, Links(files, m, n),
           Regular(files, n), Good(files, m, n), Distinct(files, n - 1),
           NEW s \in generate_snapshot(m)
    PROVE  Rolls(files, m, s, n)
<1>1. PICK b : Cut(files, m, 0, n, b)
  BY DEF Good
<1> DEFINE k == Len(m.snapshots)
           mid == b[k]
           a == apply_snapshot(m, s)
<1>2. mid \in 0..(n - 1)
  BY <1>1, LastKept
<1>3. k \in Nat /\ DOMAIN m.snapshots = 1..k /\ (\A i \in 0..k : b[i] \in 0..n) /\ n \in Nat
  BY <1>1, BoundsIn
<1>4. Shape(m.snapshots) /\ Deep(m.snapshots)
  BY <1>1, <1>3 DEF Good, Deep, Cut, Spans
<1>5. CASE RollupDepths(m) # {}
  <2> DEFINE j == k - snapshot_rollover_threshold
  <2>1. Takes(m, s, j, k)
    BY <1>1, <1>3, <1>4, <1>5, RollupTakes
  <2>2. j \in 0..k /\ j \in 0..(k - 1) /\ k - j \in Nat
    <3> HIDE DEF j, k
    <3> QED BY <1>3, <2>1 DEF Takes
  <2>3. Unreplaced(m, s) = 1..j
    <3>1. n - 1 \in 0..n /\ b[Len(m.snapshots)] <= n - 1
      BY <1>2
    <3> QED BY <1>1, <1>3, <1>4, <1>5, <3>1, RollupReplaces
  <2>4. b[j] < mid /\ b[j] \in Nat /\ Covers(files, s, b[j], mid)
    <3>1. b[j] \in 0..n /\ b[j] < mid /\ Covers(files, s, b[j], mid)
      BY <1>1, <1>3, <1>4, <1>5, RollupCovers
    <3> HIDE DEF j, mid
    <3> QED BY <3>1
  <2>5. mid \in 1..(n - 1) /\ mid - b[k] = 0 /\ b[k] <= mid
    <3>1. mid \in 1..(n - 1)
      <4> HIDE DEF mid, j
      <4> QED BY <1>2, <2>4
    <3>2. mid - mid = 0 /\ mid <= mid
      <4> HIDE DEF mid
      <4> QED BY <3>1
    <3> QED BY <3>1, <3>2
  <2>6. s.fragments = <<>> /\ Len(s.fragments) = 0 /\ IsSeq(s.fragments) /\ DOMAIN s.fragments = {}
    <3>1. s.fragments = <<>>
      BY <2>1 DEF Takes
    <3>2. <<>> \in Seq({}) /\ Len(<<>>) = 0 /\ DOMAIN <<>> = {}
      OBVIOUS
    <3> QED BY <3>1, <3>2 DEF IsSeq
  <2>7. \A i \in DOMAIN s.snapshots : \E l \in DOMAIN m.snapshots : s.snapshots[i] = m.snapshots[l]
    <3>1. DOMAIN s.snapshots = 1..(k - j) /\ \A i \in 1..(k - j) : s.snapshots[i] = m.snapshots[j + i]
      BY <2>1 DEF Takes
    <3>2. \A i \in 1..(k - j) : j + i \in 1..k
      <4> HIDE DEF j, k
      <4> QED BY <1>3, <2>2
    <3> QED BY <1>3, <3>1, <3>2
  <2>8. Trails(m, s, j, a.snapshots) => Shape(a.snapshots)
    <3>1. \A i \in (j + 1)..k : s.depth = m.snapshots[i].depth + 1
      BY <2>1 DEF Takes
    <3>2. Trails(m, s, j, a.snapshots) => RolledUp(m.snapshots, j, k, s.depth, a.snapshots)
      BY <2>2, <3>1 DEF Trails, RolledUp
    <3> QED BY <1>4, <3>2, ShapeRollup
  <2>9. Fits(files, m, s, n, b, k, j, mid)
    <3> HIDE DEF j
    <3> QED BY <1>1, <2>2, <2>3, <2>4, <2>5, <2>6, <2>7 DEF Fits
  <2> QED BY <2>8, <2>9, SnapshotRolls
<1>6. CASE RollupDepths(m) = {}
  <2> DEFINE hi == mid + fragment_rollover_threshold
  <2>1. /\ hi \in 1..(n - 1) /\ mid < hi
        /\ s.snapshots = <<>> /\ s.depth = 1
        /\ Len(s.fragments) = hi - mid
        /\ \A i \in 1..(hi - mid) : s.fragments[i] = m.fragments[i]
        /\ IsSeq(s.fragments)
        /\ Covers(files, s, mid, hi)
    BY <1>1, <1>6, LeafCovers
  <2>2. DOMAIN s.snapshots = {} /\ DOMAIN s.fragments = 1..(hi - mid)
    <3>1. DOMAIN <<>> = {}
      OBVIOUS
    <3> QED BY <2>1, <3>1, SeqIs
  <2>3. Unreplaced(m, s) = 1..k
    BY <1>3, <2>2 DEF Unreplaced
  <2>4. mid \in Nat /\ mid <= hi /\ k \in 0..k
    <3>1. mid \in Nat /\ mid <= hi
      <4> HIDE DEF mid
      <4> QED BY <1>2, <2>1
    <3> QED BY <1>3, <3>1
  <2>5. Trails(m, s, k, a.snapshots) => Shape(a.snapshots)
    BY <1>4, <1>6, <2>1, ShapeLeaf DEF Trails
  <2>6. Fits(files, m, s, n, b, k, k, hi)
    <3> HIDE DEF hi
    <3> QED BY <1>1, <2>1, <2>2, <2>3, <2>4 DEF Fits
  <2> QED BY <2>5, <2>6, SnapshotRolls
<1> QED BY <1>5, <1>6

-----------------------------------------------------------------------------
(* The invariant: the manifests that are held are good, and their          *)
(* snapshots are stored.                                                   *)

(* Different runs of the log have different setsums: Snapshot::install     *)
(* and apply_snapshot take snapshots of one setsum for the same snapshot.  *)
SetsumsDiffer ==
    \A lo, hi, l, h \in 0..Len(history) :
        (/\ lo < hi /\ l < h
         /\ Setsums(SubSeq(history, lo + 1, hi)) = Setsums(SubSeq(history, l + 1, h)))
            => lo = l /\ hi = h

(* The snapshots that x refers to are among objects.                       *)
Rooted(objects, x) == \A i \in DOMAIN x.snapshots : SnapshotExists(objects, x.snapshots[i])

(* Somebody holds, or has put, the manifest m, which links n fragments.    *)
HeldBy(w, m, n) ==
    \/ Loaded(w) /\ m = staging[w].manifest /\ n = staging[w].e_tag - 1
    \/ pc[w] = "install" /\ m = pulled[w].manifest /\ n = staging[w].e_tag
Held(m, n) ==
    \/ m = manifest /\ n = e_tag - 1
    \/ \E w \in Writers : HeldBy(w, m, n)
    \/ \E r \in delayed : r.kind = "manifest" /\ m = r.manifest /\ n = r.e_tag

(* What w is about to install, once its snapshot is there.                 *)
PullOK(w) ==
    /\ Good(fragments, pulled[w].manifest, staging[w].e_tag)
    /\ \A r \in pulled[w].snapshots :
          /\ IsPart(fragments, r, e_tag - 1)
          /\ Rooted(snapshots, r)
          /\ Rooted(snapshots \cup {r}, pulled[w].manifest)

(* A snapshot in storage refers to others.                                 *)
SnapOK(s) ==
    /\ IsPart(fragments, s, e_tag - 1)
    /\ Rooted(snapshots, s)
    /\ \A i \in DOMAIN s.snapshots : s.snapshots[i].setsum # s.setsum

TreeOK ==
    /\ \A m, n : Held(m, n) => Good(fragments, m, n) /\ Rooted(snapshots, m)
    /\ \A s \in snapshots : SnapOK(s)
    /\ \A s, t \in snapshots : s.setsum = t.setsum => s = t
    /\ \A w \in Writers : pc[w] = "snapshot" => PullOK(w)

(* The first n of files are the first n of more.                           *)
Agree(files, more, n) == n \in Nat /\ \A i \in 1..n : more[i] = files[i]

LEMMA SumsAgree ==
    ASSUME NEW files, NEW more, NEW n, Agree(files, more, n), NEW i \in 0..n
    PROVE  SumTo(more, i) = SumTo(files, i)
<1>1. First(more, i) = First(files, i)
  <2>1. \A x \in 1..i : x \in 1..n
    BY DEF Agree
  <2> QED BY <2>1 DEF First, Agree
<1> QED BY <1>1 DEF SumTo

LEMMA CutAgrees ==
    ASSUME NEW files, NEW more, NEW n, Agree(files, more, n), NEW x, NEW lo \in Nat, NEW hi \in 0..n,
           NEW b, Cut(files, x, lo, hi, b)
    PROVE  Cut(more, x, lo, hi, b)
<1> DEFINE k == Len(x.snapshots)
<1>1. k \in Nat /\ hi \in Nat /\ (\A i \in 0..k : b[i] \in lo..hi) /\ n \in Nat
  <2>1. n \in Nat
    BY DEF Agree
  <2>2. hi \in Nat
    BY <2>1
  <2> HIDE DEF k
  <2>3. k \in Nat /\ \A i \in 0..k : b[i] \in lo..hi
    BY <2>2, BoundsIn DEF k
  <2> QED BY <2>1, <2>2, <2>3
<1>2. ASSUME NEW i \in 1..k
      PROVE  b[i - 1] < b[i] /\ Spans(more, x.snapshots[i], b[i - 1], b[i])
  <2>1. b[i - 1] < b[i] /\ Spans(files, x.snapshots[i], b[i - 1], b[i])
    BY DEF Cut
  <2>2. i \in 0..k /\ i - 1 \in 0..k
    BY <1>1
  <2>3. b[i] \in lo..hi /\ b[i - 1] \in lo..hi
    BY <1>1, <2>2
  <2>4. b[i] \in 0..n /\ b[i - 1] \in 0..n /\ b[i] \in 1..n /\ b[i - 1] + 1 \in 1..n
    BY <1>1, <2>1, <2>3
  <2>5. SumTo(more, b[i]) = SumTo(files, b[i]) /\ SumTo(more, b[i - 1]) = SumTo(files, b[i - 1])
    BY <2>4, SumsAgree
  <2> QED BY <2>1, <2>4, <2>5 DEF Spans, Agree
<1>3. x.fragments = [i \in 1..(hi - b[k]) |-> more[b[k] + i]]
  <2>1. x.fragments = [i \in 1..(hi - b[k]) |-> files[b[k] + i]]
    BY DEF Cut
  <2>2. b[k] \in lo..hi
    BY <1>1
  <2>3. \A i \in 1..(hi - b[k]) : b[k] + i \in 1..n
    <3> HIDE DEF k
    <3> QED BY <1>1, <2>2
  <2> QED BY <2>1, <2>3 DEF Agree
<1> QED BY <1>2, <1>3 DEF Cut

LEMMA GoodAgrees ==
    ASSUME NEW files, NEW more, NEW n, Agree(files, more, n), NEW m, Good(files, m, n)
    PROVE  Good(more, m, n)
<1>1. n \in Nat /\ 0 \in Nat /\ n \in 0..n
  BY DEF Agree
<1>2. PICK b : Cut(files, m, 0, n, b)
  BY DEF Good
<1>3. Cut(more, m, 0, n, b)
  BY <1>1, <1>2, CutAgrees
<1>4. SumTo(more, n) = SumTo(files, n)
  BY <1>1, SumsAgree
<1> QED BY <1>3, <1>4 DEF Good

LEMMA PartAgrees ==
    ASSUME NEW files, NEW more, NEW n, Agree(files, more, n), NEW k, k \in Nat, n <= k,
           NEW s, IsPart(files, s, n)
    PROVE  IsPart(more, s, k)
<1>1. PICK hi \in 1..n : \E lo \in 0..(hi - 1) : Covers(files, s, lo, hi)
  BY DEF IsPart
<1>2. PICK lo \in 0..(hi - 1) : Covers(files, s, lo, hi)
  BY <1>1
<1>3. n \in Nat /\ lo \in Nat /\ lo \in 0..n /\ hi \in 0..n /\ hi \in 1..k
  BY <1>1, <1>2 DEF Agree
<1>4. PICK b : Cut(files, s, lo, hi, b)
  BY <1>2 DEF Covers
<1>5. Cut(more, s, lo, hi, b)
  BY <1>3, <1>4, CutAgrees
<1>6. SumTo(more, lo) = SumTo(files, lo) /\ SumTo(more, hi) = SumTo(files, hi)
  BY <1>3, SumsAgree
<1>7. Covers(more, s, lo, hi)
  BY <1>2, <1>5, <1>6 DEF Covers
<1> QED BY <1>3, <1>7 DEF IsPart

(* The fragments up to one that is in storage.                             *)
LEMMA StorageRegular ==
    ASSUME IInv, Extra, NEW n \in 0..e_tag, n \in DOMAIN fragments \cup {0}
    PROVE  /\ 1..n \subseteq DOMAIN fragments
           /\ Regular(fragments, n)
           /\ Grows => Agree(fragments, fragments', n)
<1>1. StorageOK /\ StoragePlaced /\ e_tag \in Nat
  BY DEF IInv, Extra, StorageOK
<1>2. ASSUME NEW i \in 1..n
      PROVE  i \in DOMAIN fragments
  <2>1. CASE i = n
    BY <2>1
  <2>2. CASE i # n
    <3>1. i \in 0..(e_tag - 1)
      BY <1>1, <2>2
    <3> QED BY <1>1, <3>1, LinkedThere
  <2> QED BY <2>1, <2>2
<1>3. ASSUME NEW i \in 1..n
      PROVE  /\ fragments[i].start = EndOf(fragments, i - 1)
             /\ fragments[i].start \in Nat /\ fragments[i].limit \in Nat
             /\ fragments[i].start < fragments[i].limit /\ fragments[i].setsum \in Int
  <2>1. /\ IsFragment(fragments[i]) /\ fragments[i].seq_no = i
        /\ Follows(fragments, fragments[i])
    BY <1>1, <1>2 DEF StorageOK, StoragePlaced
  <2>2. NumRecords[fragments[i].batch] \in Nat \ {0}
    BY <2>1, BatchAssumption DEF IsFragment
  <2> QED BY <2>1, <2>2 DEF Follows
<1>4. ASSUME NEW i \in 1..(n - 1)
      PROVE  fragments[i].limit = fragments[i + 1].start
  <2>1. i + 1 \in 1..n /\ (i + 1) - 1 = i /\ i # 0
    BY <1>1
  <2>2. fragments[i + 1].start = EndOf(fragments, i)
    BY <1>3, <2>1
  <2> QED BY <2>1, <2>2 DEF EndOf
<1>5. Regular(fragments, n)
  BY <1>1, <1>3, <1>4 DEF Regular, Summed
<1> QED BY <1>1, <1>2, <1>5 DEF Agree, Grows

(* The runs of the log are runs of fragments.                              *)
LEMMA RunSum ==
    ASSUME IInv, Extra, NEW lo \in 0..(e_tag - 1), NEW hi \in 0..(e_tag - 1), lo < hi
    PROVE  Setsums(SubSeq(history, lo + 1, hi)) = SumTo(fragments, hi) - SumTo(fragments, lo)
<1> DEFINE q == SubSeq(history, lo + 1, hi)
           n == e_tag - 1
<1>1. StorageOK /\ e_tag \in Nat \ {0} /\ n \in Nat
  BY DEF IInv, StorageOK
<1>2. PICK S : history \in Seq(S)
  BY <1>1 DEF StorageOK
<1>3. Len(history) = n /\ \A i \in 1..n : history[i] = fragments[i]
  BY <1>1 DEF StorageOK
<1>4. n \in 0..e_tag /\ n \in 0..n /\ hi \in Nat /\ lo \in Nat /\ hi - lo \in Nat
  BY <1>1
<1>5. n \in DOMAIN fragments \cup {0}
  BY <1>1, <1>4, LinkedThere
<1>6. Summed(fragments, n)
  BY <1>4, <1>5, StorageRegular DEF Regular
<1>7. Len(q) = hi - lo /\ \A i \in 1..(hi - lo) : q[i] = fragments[lo + i]
  <2> HIDE DEF n
  <2>0. lo \in 0..n /\ hi \in 0..n
    BY DEF n
  <2>1. lo + 1 \in 1..(n + 1) /\ hi \in 0..n /\ lo + 1 <= hi /\ hi - (lo + 1) + 1 = hi - lo
    BY <1>1, <2>0
  <2>2. Len(q) = hi - (lo + 1) + 1
    BY <1>2, <1>3, <2>1, SubSeqProperties
  <2>3. \A i \in 1..(hi - (lo + 1) + 1) : q[i] = history[(lo + 1) + i - 1]
    BY <1>2, <1>3, <2>1, SubSeqProperties
  <2>4. \A i \in 1..(hi - lo) : (lo + 1) + i - 1 = lo + i /\ lo + i \in 1..n
    BY <1>1, <2>0
  <2> HIDE DEF q
  <2> QED BY <1>3, <2>1, <2>2, <2>3, <2>4
<1> HIDE DEF q
<1>8. lo \in 0..n /\ hi \in lo..n
  BY <1>1
<1> HIDE DEF n
<1>9. Setsums(q) = SumTo(fragments, hi) - SumTo(fragments, lo)
  BY <1>6, <1>7, <1>8, SumBetween
<1> QED BY <1>9 DEF q

LEMMA RunsDistinct ==
    ASSUME IInv, Extra, SetsumsDiffer, NEW n \in 0..(e_tag - 1)
    PROVE  Distinct(fragments, n)
<1>1. e_tag - 1 \in Nat /\ Len(history) = e_tag - 1
  BY DEF IInv, StorageOK
<1> SUFFICES ASSUME NEW lo \in 0..n, NEW hi \in 0..n, NEW l \in 0..n, NEW h \in 0..n,
                    lo < hi, l < h,
                    SumTo(fragments, hi) - SumTo(fragments, lo) = SumTo(fragments, h) - SumTo(fragments, l)
             PROVE  lo = l /\ hi = h
  BY DEF Distinct
<1>2. lo \in 0..(e_tag - 1) /\ hi \in 0..(e_tag - 1) /\ l \in 0..(e_tag - 1) /\ h \in 0..(e_tag - 1)
  BY <1>1
<1>3. /\ Setsums(SubSeq(history, lo + 1, hi)) = SumTo(fragments, hi) - SumTo(fragments, lo)
      /\ Setsums(SubSeq(history, l + 1, h)) = SumTo(fragments, h) - SumTo(fragments, l)
  BY <1>2, RunSum
<1> QED BY <1>1, <1>2, <1>3 DEF SetsumsDiffer

(* What a held manifest links is in storage.                               *)
LEMMA HeldThere ==
    ASSUME IInv, NEW m, NEW n, Held(m, n)
    PROVE  n \in 0..e_tag /\ n \in DOMAIN fragments \cup {0} /\ Links(fragments, m, n)
<1>1. StorageOK /\ e_tag \in Nat \ {0}
  BY DEF IInv, StorageOK
<1>2. CASE m = manifest /\ n = e_tag - 1
  <2>1. e_tag - 1 \in 0..(e_tag - 1) /\ e_tag - 1 \in 0..e_tag
    BY <1>1
  <2> QED BY <1>1, <1>2, <2>1, LinkedThere DEF StorageOK
<1>3. CASE \E r \in delayed : r.kind = "manifest" /\ m = r.manifest /\ n = r.e_tag
  <2>1. PICK r \in delayed : r.kind = "manifest" /\ m = r.manifest /\ n = r.e_tag
    BY <1>3
  <2>2. /\ r.fragment.seq_no \in 1..e_tag /\ r.e_tag = r.fragment.seq_no
        /\ Filed(fragments, r.fragment) /\ Links(fragments, r.manifest, r.e_tag)
    BY <2>1 DEF IInv, DelayedOK
  <2> QED BY <1>1, <2>1, <2>2 DEF Filed
<1>4. ASSUME NEW w \in Writers, HeldBy(w, m, n)
      PROVE  n \in 0..e_tag /\ n \in DOMAIN fragments \cup {0} /\ Links(fragments, m, n)
  <2>1. StagingOK(w)
    BY DEF IInv
  <2>2. CASE Loaded(w) /\ m = staging[w].manifest /\ n = staging[w].e_tag - 1
    <3>1. staging[w].e_tag \in 1..e_tag /\ Links(fragments, staging[w].manifest, staging[w].e_tag - 1)
      BY <2>1, <2>2 DEF StagingOK
    <3>2. staging[w].e_tag - 1 \in 0..(e_tag - 1) /\ staging[w].e_tag - 1 \in 0..e_tag
      BY <1>1, <3>1
    <3> QED BY <1>1, <2>2, <3>1, <3>2, LinkedThere
  <2>3. CASE pc[w] = "install" /\ m = pulled[w].manifest /\ n = staging[w].e_tag
    <3>1. /\ staging[w].e_tag \in 1..e_tag /\ fragment[w].seq_no = staging[w].e_tag
          /\ Filed(fragments, fragment[w])
      BY <2>3, LinkingFacts DEF Linking
    <3>2. Links(fragments, pulled[w].manifest, staging[w].e_tag)
      BY <2>1, <2>3 DEF StagingOK
    <3> QED BY <1>1, <2>3, <3>1, <3>2 DEF Filed
  <2> QED BY <1>4, <2>2, <2>3 DEF HeldBy
<1> QED BY <1>2, <1>3, <1>4 DEF Held

(* A reference is not lost when there are more objects.                    *)
LEMMA RootedMore ==
    ASSUME NEW objects, NEW more, objects \subseteq more, NEW x, Rooted(objects, x)
    PROVE  Rooted(more, x)
BY DEF Rooted, SnapshotExists

(* What a step may do: put at most one snapshot, whose own are there, and  *)
(* hold no other manifests than before or sound ones.                      *)
Sound(m, n) == Good(fragments', m, n) /\ Rooted(snapshots', m)
Puts ==
    \/ snapshots' = snapshots
    \/ \E s : /\ IsPart(fragments, s, e_tag - 1) /\ Rooted(snapshots, s)
              /\ snapshots' = SnapshotInstall(snapshots, s)
Holds == \A m, n : Held(m, n)' => Held(m, n) \/ Sound(m, n)
Pulls ==
    \A w \in Writers : pc'[w] = "snapshot" =>
        \/ PullOK(w)'
        \/ pc[w] = "snapshot" /\ pulled'[w] = pulled[w] /\ staging'[w] = staging[w]

LEMMA OneLess ==
    ASSUME NEW x \in Nat, NEW y \in Nat, 1 <= x, x <= y
    PROVE  y - 1 \in Nat /\ x - 1 <= y - 1
OBVIOUS

LEMMA TreeStep ==
    ASSUME IInv, Extra, TreeOK, Grows, Puts, Holds, Pulls
    PROVE  TreeOK'
<1> DEFINE n == e_tag - 1
<1>1. StorageOK /\ e_tag \in Nat \ {0} /\ n \in Nat /\ n \in 0..(e_tag - 1) /\ n \in 0..e_tag
  BY DEF IInv, StorageOK
<1>2. Agree(fragments, fragments', n)
  <2>1. n \in DOMAIN fragments \cup {0}
    BY <1>1, LinkedThere
  <2> QED BY <1>1, <2>1, StorageRegular
<1>3. e_tag' - 1 \in Nat /\ n <= e_tag' - 1
  <2>1. e_tag' \in Nat /\ e_tag <= e_tag'
    BY DEF Grows
  <2>2. e_tag \in Nat /\ e_tag >= 1
    BY <1>1
  <2> QED BY <2>1, <2>2, OneLess DEF n
<1>4. \A s : IsPart(fragments, s, n) => IsPart(fragments', s, e_tag' - 1)
  BY <1>2, <1>3, PartAgrees
<1> HIDE DEF n
<1>5. snapshots \subseteq snapshots'
  BY DEF Puts, SnapshotInstall
<1>6. \A m, l : Held(m, l)' => Good(fragments', m, l) /\ Rooted(snapshots', m)
  <2> SUFFICES ASSUME NEW m, NEW l, Held(m, l)
               PROVE  Sound(m, l)
    BY DEF Holds, Sound
  <2>1. l \in 0..e_tag /\ l \in DOMAIN fragments \cup {0}
    BY HeldThere
  <2>2. Agree(fragments, fragments', l)
    BY <2>1, StorageRegular
  <2>3. Good(fragments, m, l) /\ Rooted(snapshots, m)
    BY DEF TreeOK
  <2> QED BY <1>5, <2>2, <2>3, GoodAgrees, RootedMore DEF Sound
<1>7. ASSUME NEW s \in snapshots'
      PROVE  SnapOK(s)'
  <2>1. CASE s \in snapshots
    <3>1. SnapOK(s)
      BY <2>1 DEF TreeOK
    <3> QED BY <1>4, <1>5, <3>1, RootedMore DEF SnapOK, n
  <2>2. CASE s \notin snapshots
    <3>1. IsPart(fragments, s, e_tag - 1) /\ Rooted(snapshots, s) /\ ~SnapshotExists(snapshots, s)
      BY <2>2 DEF Puts, SnapshotInstall
    <3>2. \A i \in DOMAIN s.snapshots : s.snapshots[i].setsum # s.setsum
      BY <3>1 DEF Rooted, SnapshotExists
    <3>3. Rooted(snapshots', s)
      BY <1>5, <3>1, RootedMore
    <3> QED BY <1>4, <3>1, <3>2, <3>3 DEF SnapOK, n
  <2> QED BY <2>1, <2>2
<1>8. \A s, t \in snapshots' : s.setsum = t.setsum => s = t
  <2>1. \A s, t \in snapshots : s.setsum = t.setsum => s = t
    BY DEF TreeOK
  <2> QED BY <2>1 DEF Puts, SnapshotInstall, SnapshotExists
<1>9. ASSUME NEW w \in Writers, pc'[w] = "snapshot"
      PROVE  PullOK(w)'
  <2> SUFFICES ASSUME pc[w] = "snapshot", pulled'[w] = pulled[w], staging'[w] = staging[w]
               PROVE  PullOK(w)'
    BY <1>9 DEF Pulls
  <2>1. PullOK(w)
    BY DEF TreeOK
  <2>2. staging[w].e_tag \in 0..e_tag /\ staging[w].e_tag \in DOMAIN fragments \cup {0}
    <3>1. /\ staging[w].e_tag \in 1..e_tag /\ fragment[w].seq_no = staging[w].e_tag
          /\ Filed(fragments, fragment[w])
      BY LinkingFacts DEF Linking
    <3> QED BY <1>1, <3>1 DEF Filed
  <2>3. Good(fragments', pulled[w].manifest, staging[w].e_tag)
    BY <2>1, <2>2, StorageRegular, GoodAgrees DEF PullOK
  <2>4. ASSUME NEW r \in pulled[w].snapshots
        PROVE  /\ IsPart(fragments', r, e_tag' - 1)
               /\ Rooted(snapshots', r)
               /\ Rooted(snapshots' \cup {r}, pulled[w].manifest)
    <3>1. /\ IsPart(fragments, r, e_tag - 1)
          /\ Rooted(snapshots, r)
          /\ Rooted(snapshots \cup {r}, pulled[w].manifest)
      BY <2>1 DEF PullOK
    <3>2. snapshots \cup {r} \subseteq snapshots' \cup {r}
      BY <1>5
    <3>3. Rooted(snapshots' \cup {r}, pulled[w].manifest)
      BY <3>1, <3>2, RootedMore
    <3> QED BY <1>4, <1>5, <3>1, <3>3, RootedMore DEF n
  <2> QED BY <2>3, <2>4 DEF PullOK
<1> QED BY <1>6, <1>7, <1>8, <1>9 DEF TreeOK

-----------------------------------------------------------------------------
(* What the steps do to the manifests that are held.                       *)

OthersSame(w) == \A v \in Writers \ {w} : SameLocal(v)

(* w holds the manifest it held, or none.                                  *)
Stays(w) ==
    /\ OthersSame(w)
    /\ pc'[w] \notin {"snapshot", "install"}
    /\ Loaded(w)' => /\ Loaded(w)
                     /\ staging'[w].manifest = staging[w].manifest
                     /\ staging'[w].e_tag = staging[w].e_tag

LEMMA IdleStays ==
    ASSUME IInv, NEW w \in Writers, NEW state, NEW stage, Idle(w, state, stage),
           state # "open" \/ (stage = staging[w] /\ Loaded(w))
    PROVE  Stays(w)
<1>1. OthersSame(w)
  BY DEF IInv, WriterTypeOK, Domains, Idle, ClearWork, OthersSame, SameLocal
<1>2. pc'[w] = "idle" /\ inner'[w] = state /\ staging'[w] = stage
  BY DEF IInv, WriterTypeOK, Domains, Idle
<1> QED BY <1>1, <1>2 DEF Stays, Loaded

LEMMA ReopenStays ==
    ASSUME IInv, NEW w \in Writers, NEW why, NEW attempt, NEW open, Reopen(w, why, attempt, open)
    PROVE  Stays(w)
<1>1. OthersSame(w)
  BY DEF IInv, WriterTypeOK, Domains, Reopen, ClearWork, OthersSame, SameLocal
<1>2. pc'[w] = "open"
  BY DEF IInv, WriterTypeOK, Reopen
<1> QED BY <1>1, <1>2 DEF Stays, Loaded

LEMMA EnsureOpenErrStays ==
    ASSUME IInv, NEW w \in Writers, inner[w] # "open", NEW err, EnsureOpenErr(w, err)
    PROVE  Stays(w)
<1>1. goal[w] \in {"open", "append", "confirm"}
  BY DEF IInv, WriterTypeOK
<1>2. CASE goal[w] = "open"
  BY <1>2, IdleStays DEF EnsureOpenErr
<1>3. CASE goal[w] = "append"
  BY <1>3, IdleStays DEF EnsureOpenErr, Return
<1>4. CASE goal[w] = "confirm"
  BY <1>4, IdleStays DEF EnsureOpenErr, Return
<1> QED BY <1>1, <1>2, <1>3, <1>4

LEMMA OpenFailsStays ==
    ASSUME IInv, NEW w \in Writers, inner[w] # "open", NEW err, OpenFails(w, err)
    PROVE  Stays(w)
BY EnsureOpenErrStays, ReopenStays DEF OpenFails

LEMMA AppendFailsStays ==
    ASSUME IInv, NEW w \in Writers, NEW err, AppendFails(w, err)
    PROVE  Stays(w)
<1>1. attempts[w] \in 0..3
  BY DEF IInv, WriterTypeOK
<1>2. CASE err = "durable"
  BY <1>2, ReopenStays DEF AppendFails
<1>3. CASE err = "retry"
  <2>1. attempts[w] < 3 \/ attempts[w] >= 3
    BY <1>1
  <2>2. CASE attempts[w] < 3
    BY <1>1, <1>3, <2>2, ReopenStays DEF AppendFails
  <2>3. CASE attempts[w] >= 3
    <3>1. Return(w, "failure", 0, "closed", NoStaging)
      BY <1>1, <1>3, <2>3 DEF AppendFails
    <3> QED BY <3>1, IdleStays DEF Return
  <2> QED BY <2>1, <2>2, <2>3
<1>4. CASE err \notin {"durable", "retry"}
  <2>1. Return(w, err, 0, "closed", NoStaging)
    BY <1>4 DEF AppendFails
  <2> QED BY <2>1, IdleStays DEF Return
<1> QED BY <1>2, <1>3, <1>4

LEMMA PublishFailsStays ==
    ASSUME IInv, NEW w \in Writers, NEW err, PublishFails(w, err)
    PROVE  Stays(w)
BY AppendFailsStays, OpenFailsStays DEF PublishFails

(* Only manifests that were held before are in storage or on their way.    *)
Puttable ==
    /\ Held(manifest', e_tag' - 1)
    /\ \A r \in delayed' : r.kind = "manifest" => Held(r.manifest, r.e_tag)

LEMMA PuttableHolds ==
    ASSUME Puttable, \A v \in Writers : \A m, n : HeldBy(v, m, n)' => Held(m, n) \/ Sound(m, n)
    PROVE  Holds
<1> SUFFICES ASSUME NEW m, NEW n, Held(m, n)'
             PROVE  Held(m, n) \/ Sound(m, n)
  BY DEF Holds
<1>1. CASE m = manifest' /\ n = e_tag' - 1
  BY <1>1 DEF Puttable
<1>2. CASE \E r \in delayed' : r.kind = "manifest" /\ m = r.manifest /\ n = r.e_tag
  BY <1>2 DEF Puttable
<1>3. CASE \E v \in Writers : HeldBy(v, m, n)'
  BY <1>3
<1> QED BY <1>1, <1>2, <1>3 DEF Held

(* The manifest in storage is as it was, and w's request may be delayed.   *)
LEMMA SamePuttable ==
    ASSUME NEW w \in Writers, delayed' \in {delayed, delayed \cup InFlight(w)},
           UNCHANGED <<manifest, e_tag>>
    PROVE  Puttable
<1>1. Held(manifest', e_tag' - 1)
  BY DEF Held
<1>2. ASSUME NEW r \in delayed', r.kind = "manifest"
      PROVE  Held(r.manifest, r.e_tag)
  <2>1. CASE r \in delayed
    BY <1>2, <2>1 DEF Held
  <2>2. CASE r \in InFlight(w)
    <3>1. /\ pc[w] = "install"
          /\ r = [kind |-> "manifest", fragment |-> fragment[w],
                  e_tag |-> staging[w].e_tag, manifest |-> pulled[w].manifest]
      BY <1>2, <2>2 DEF InFlight
    <3>2. r.manifest = pulled[w].manifest /\ r.e_tag = staging[w].e_tag
      BY <3>1
    <3> QED BY <3>1, <3>2 DEF Held, HeldBy
  <2> QED BY <2>1, <2>2
<1> QED BY <1>1, <1>2 DEF Puttable

LEMMA OtherHolds ==
    ASSUME NEW v \in Writers, SameLocal(v), NEW m, NEW n, HeldBy(v, m, n)'
    PROVE  Held(m, n)
BY DEF HeldBy, Held, SameLocal, Loaded

LEMMA OtherPulls ==
    ASSUME NEW w \in Writers, OthersSame(w), pc'[w] = "snapshot" => PullOK(w)'
    PROVE  Pulls
BY DEF Pulls, OthersSame, SameLocal

LEMMA StaysHolds ==
    ASSUME NEW w \in Writers, Stays(w), Puttable
    PROVE  Holds /\ Pulls
<1>1. ASSUME NEW m, NEW n, HeldBy(w, m, n)'
      PROVE  Held(m, n)
  BY <1>1 DEF Stays, HeldBy, Held
<1>2. \A v \in Writers : \A m, n : HeldBy(v, m, n)' => Held(m, n)
  BY <1>1, OtherHolds DEF Stays, OthersSame
<1>3. Holds
  BY <1>2, PuttableHolds
<1>4. Pulls
  BY OtherPulls DEF Stays
<1> QED BY <1>3, <1>4

Tidy == Puts /\ Holds /\ Pulls

LEMMA StaysTidy ==
    ASSUME NEW w \in Writers, Stays(w), delayed' \in {delayed, delayed \cup InFlight(w)},
           UNCHANGED <<manifest, e_tag, snapshots>>
    PROVE  Tidy
BY SamePuttable, StaysHolds DEF Tidy, Puts

LEMMA OpenTidy ==
    ASSUME IInv, NEW w \in Writers, Open(w)
    PROVE  Tidy
<1>1. /\ OthersSame(w) /\ pc'[w] = "open" /\ ~Loaded(w)'
      /\ UNCHANGED <<staging, delayed, manifest, e_tag, snapshots>>
  BY DEF Open, OthersSame, SameLocal, Loaded, IInv, WriterTypeOK, storage, working
<1>2. Stays(w)
  BY <1>1 DEF Stays
<1> QED BY <1>1, <1>2, StaysTidy

LEMMA AppendManyTidy ==
    ASSUME IInv, NEW w \in Writers, NEW b \in Batches, AppendMany(w, b)
    PROVE  Tidy
<1>1. /\ OthersSame(w) /\ pc'[w] \in {"open", "ready"}
      /\ Loaded(w)' => Loaded(w)
      /\ UNCHANGED <<staging, delayed, manifest, e_tag, snapshots>>
  BY DEF AppendMany, OthersSame, SameLocal, Loaded, IInv, WriterTypeOK, storage, working
<1>2. Stays(w)
  BY <1>1 DEF Stays
<1> QED BY <1>1, <1>2, StaysTidy

LEMMA NothingToRecoverTidy ==
    ASSUME IInv, NEW w \in Writers, NothingToRecover(w)
    PROVE  Tidy
<1>1. Loaded(w) /\ UNCHANGED <<delayed, manifest, e_tag, snapshots>>
  BY DEF NothingToRecover, Loaded, storage
<1>2. CASE Idle(w, "open", staging[w])
  BY <1>1, <1>2, IdleStays, StaysTidy
<1>3. CASE /\ pc' = [pc EXCEPT ![w] = "ready"]
           /\ inner' = [inner EXCEPT ![w] = "open"]
           /\ UNCHANGED <<handling, batch, staging, working, result>>
  <2>1. OthersSame(w) /\ pc'[w] = "ready" /\ UNCHANGED staging
    BY <1>3 DEF OthersSame, SameLocal, IInv, WriterTypeOK, handling, working
  <2>2. Stays(w)
    BY <1>1, <2>1 DEF Stays
  <2> QED BY <1>1, <2>2, StaysTidy
<1> QED BY <1>2, <1>3 DEF NothingToRecover, Return

LEMMA ReadTidy ==
    ASSUME IInv, NEW w \in Writers, ReadFragment(w) \/ MarkRecovered(w)
    PROVE  Tidy
<1>1. Loaded(w) /\ UNCHANGED <<delayed, manifest, e_tag, snapshots>>
  BY DEF ReadFragment, MarkRecovered, Loaded, storage
<1>2. OthersSame(w) /\ pc'[w] \in {"mark recovered", "publish"} /\ UNCHANGED staging
  BY DEF ReadFragment, MarkRecovered, OthersSame, SameLocal, IInv, WriterTypeOK, Domains, handling, working
<1>3. Stays(w)
  BY <1>1, <1>2 DEF Stays
<1> QED BY <1>1, <1>3, StaysTidy

LEMMA OpenFailsTidy ==
    ASSUME IInv, NEW w \in Writers, MarkRecoveredFails(w) \/ ReadFails(w)
    PROVE  Tidy
<1>1. inner[w] # "open" /\ UNCHANGED <<delayed, manifest, e_tag, snapshots>>
  BY DEF MarkRecoveredFails, ReadFails, storage, IInv, ControlOK
<1>2. Stays(w)
  BY <1>1, OpenFailsStays, EnsureOpenErrStays DEF MarkRecoveredFails, ReadFails
<1> QED BY <1>1, <1>2, StaysTidy

LEMMA TakeWorkTidy ==
    ASSUME IInv, NEW w \in Writers, TakeWork(w)
    PROVE  Tidy
<1>1. Loaded(w) /\ UNCHANGED <<delayed, manifest, e_tag, snapshots>>
  BY DEF TakeWork, Loaded, storage
<1>2. OthersSame(w) /\ pc'[w] = "write"
  BY DEF TakeWork, OthersSame, SameLocal, IInv, WriterTypeOK, Domains, handling
<1>3. staging'[w].manifest = staging[w].manifest /\ staging'[w].e_tag = staging[w].e_tag
  BY DEF TakeWork, Staging, IInv, Domains
<1>4. Stays(w)
  BY <1>1, <1>2, <1>3 DEF Stays
<1> QED BY <1>1, <1>4, StaysTidy

LEMMA WritingTidy ==
    ASSUME IInv, NEW w \in Writers,
           \/ UploadParquet(w) \/ UploadConflict(w) \/ UploadTimeout(w)
           \/ MarkDirty(w) \/ MarkDirtyFails(w)
    PROVE  Tidy
<1> USE DEF UploadParquet, UploadConflict, UploadTimeout, MarkDirty, MarkDirtyFails, Uploading
<1>1. /\ Loaded(w) /\ pc[w] = "write"
      /\ UNCHANGED <<pc, staging, manifest, e_tag, snapshots>>
      /\ delayed' \in {delayed, delayed \cup InFlight(w)}
  BY DEF Loaded, storage
<1>2. OthersSame(w)
  BY DEF OthersSame, SameLocal, IInv, WriterTypeOK, Domains, handling
<1>3. Stays(w)
  BY <1>1, <1>2 DEF Stays
<1> QED BY <1>1, <1>3, StaysTidy

LEMMA JoinUploadAndMarkTidy ==
    ASSUME IInv, NEW w \in Writers, JoinUploadAndMark(w)
    PROVE  Tidy
<1>1. Loaded(w) /\ UNCHANGED <<delayed, manifest, e_tag, snapshots>>
  BY DEF JoinUploadAndMark, Loaded, storage
<1>2. CASE \E err : AppendFails(w, err)
  BY <1>1, <1>2, AppendFailsStays, StaysTidy
<1>3. CASE /\ pc' = [pc EXCEPT ![w] = "publish"]
           /\ UNCHANGED <<inner, handling, batch, staging, working, result>>
  <2>1. OthersSame(w) /\ pc'[w] = "publish" /\ UNCHANGED staging
    BY <1>3 DEF OthersSame, SameLocal, IInv, WriterTypeOK, handling, working
  <2>2. Stays(w)
    BY <1>1, <2>1 DEF Stays
  <2> QED BY <1>1, <2>2, StaysTidy
<1> QED BY <1>2, <1>3 DEF JoinUploadAndMark

LEMMA LinkFailsTidy ==
    ASSUME IInv, NEW w \in Writers, InstallConflict(w) \/ InstallTimeout(w)
    PROVE  Tidy
<1>1. /\ UNCHANGED <<manifest, e_tag, snapshots>>
      /\ delayed' \in {delayed, delayed \cup InFlight(w)}
  BY DEF InstallConflict, InstallTimeout, storage
<1>2. Stays(w)
  BY PublishFailsStays DEF InstallConflict, InstallTimeout
<1> QED BY <1>1, <1>2, StaysTidy

LEMMA CrashTidy ==
    ASSUME IInv, NEW w \in Writers, Crash(w)
    PROVE  Tidy
<1>1. /\ UNCHANGED <<manifest, e_tag, snapshots>>
      /\ delayed' \in {delayed, delayed \cup InFlight(w)}
  BY DEF Crash
<1>2. Stays(w)
  BY IdleStays DEF Crash, Return
<1> QED BY <1>1, <1>2, StaysTidy

LEMMA LoadManifestTidy ==
    ASSUME IInv, NEW w \in Writers, LoadManifest(w)
    PROVE  Tidy
<1>1. UNCHANGED <<delayed, manifest, e_tag, snapshots>>
  BY DEF LoadManifest, storage
<1>2. OthersSame(w) /\ pc'[w] = "recover"
  BY DEF LoadManifest, OthersSame, SameLocal, IInv, WriterTypeOK, Domains, handling, working
<1>3. staging'[w].manifest = manifest /\ staging'[w].e_tag = e_tag
  BY DEF LoadManifest, NewStaging, Staging, IInv, Domains
<1>4. \A v \in Writers : \A m, n : HeldBy(v, m, n)' => Held(m, n)
  BY <1>2, <1>3, OtherHolds DEF OthersSame, HeldBy, Held
<1>5. Holds
  BY <1>1, <1>4, SamePuttable, PuttableHolds
<1>6. Pulls
  BY <1>2, OtherPulls
<1> QED BY <1>1, <1>5, <1>6 DEF Tidy, Puts

LEMMA InstallSnapshotTidy ==
    ASSUME IInv, Extra, TreeOK, NEW w \in Writers, InstallSnapshot(w)
    PROVE  Tidy
<1>1. /\ pc[w] = "snapshot"
      /\ UNCHANGED <<delayed, manifest, e_tag, fragments, staging, pulled>>
      /\ OthersSame(w) /\ pc'[w] = "install"
  BY DEF InstallSnapshot, OthersSame, SameLocal, IInv, WriterTypeOK, handling, working
<1>2. PICK s \in pulled[w].snapshots : snapshots' = SnapshotInstall(snapshots, s)
  BY DEF InstallSnapshot
<1>3. /\ Good(fragments, pulled[w].manifest, staging[w].e_tag)
      /\ IsPart(fragments, s, e_tag - 1)
      /\ Rooted(snapshots, s)
      /\ Rooted(snapshots \cup {s}, pulled[w].manifest)
  BY <1>1 DEF TreeOK, PullOK
<1>4. Rooted(snapshots', pulled[w].manifest)
  <2>1. \A p : SnapshotExists(snapshots \cup {s}, p) => SnapshotExists(snapshots', p)
    BY <1>2 DEF SnapshotInstall, SnapshotExists
  <2> QED BY <1>3, <2>1 DEF Rooted
<1>5. ASSUME NEW m, NEW n, HeldBy(w, m, n)'
      PROVE  Held(m, n) \/ Sound(m, n)
  <2>1. CASE m = staging'[w].manifest /\ n = staging'[w].e_tag - 1
    BY <1>1, <2>1 DEF Held, HeldBy, Loaded
  <2>2. CASE m = pulled'[w].manifest /\ n = staging'[w].e_tag
    BY <1>1, <1>3, <1>4, <2>2 DEF Sound
  <2> QED BY <1>5, <2>1, <2>2 DEF HeldBy
<1>6. \A v \in Writers : \A m, n : HeldBy(v, m, n)' => Held(m, n) \/ Sound(m, n)
  BY <1>1, <1>5, OtherHolds DEF OthersSame
<1>7. Holds
  BY <1>1, <1>6, SamePuttable, PuttableHolds
<1>8. Pulls
  BY <1>1, OtherPulls
<1> QED BY <1>2, <1>3, <1>7, <1>8 DEF Tidy, Puts

LEMMA InstallSnapshotFailsTidy ==
    ASSUME IInv, Extra, TreeOK, NEW w \in Writers, InstallSnapshotFails(w)
    PROVE  Tidy
<1>1. pc[w] = "snapshot" /\ UNCHANGED <<delayed, manifest, e_tag>>
  BY DEF InstallSnapshotFails
<1>2. PICK s \in pulled[w].snapshots : snapshots' \in {snapshots, SnapshotInstall(snapshots, s)}
  BY DEF InstallSnapshotFails
<1>3. IsPart(fragments, s, e_tag - 1) /\ Rooted(snapshots, s)
  BY <1>1 DEF TreeOK, PullOK
<1>4. Stays(w)
  BY PublishFailsStays DEF InstallSnapshotFails
<1>5. Holds /\ Pulls
  BY <1>1, <1>4, SamePuttable, StaysHolds
<1> QED BY <1>2, <1>3, <1>5 DEF Tidy, Puts

LEMMA InstallManifestTidy ==
    ASSUME IInv, NEW w \in Writers, InstallManifest(w)
    PROVE  Tidy
<1>1. /\ pc[w] = "install" /\ UNCHANGED <<delayed, snapshots>>
      /\ e_tag = staging[w].e_tag /\ manifest' = pulled[w].manifest /\ e_tag' = e_tag + 1
  BY DEF InstallManifest, PutManifest
<1>2. e_tag' - 1 = staging[w].e_tag
  <2>1. e_tag \in Nat
    BY DEF IInv, StorageOK
  <2> QED BY <1>1, <2>1
<1>3. Held(pulled[w].manifest, staging[w].e_tag)
  BY <1>1 DEF Held, HeldBy
<1>4. Puttable
  BY <1>1, <1>2, <1>3 DEF Puttable, Held
<1>5. ASSUME Stays(w)
      PROVE  Tidy
  BY <1>1, <1>4, <1>5, StaysHolds DEF Tidy, Puts
<1>6. CASE PublishOk(w) /\ inner[w] = "open"
  <2> DEFINE s == staging[w]
             t == Staging(pulled[w].manifest, e_tag', s.next_log_position,
                          s.next_seq_no_to_assign, s.next_seq_no_to_apply)
  <2>1. Idle(w, "open", t)
    BY <1>6 DEF PublishOk, Return
  <2>2. t.manifest = pulled[w].manifest /\ t.e_tag = e_tag'
    BY DEF Staging
  <2> HIDE DEF t
  <2>3. OthersSame(w) /\ pc'[w] = "idle" /\ staging'[w] = t
    BY <2>1 DEF IInv, WriterTypeOK, Domains, Idle, ClearWork, OthersSame, SameLocal
  <2>4. ASSUME NEW m, NEW n, HeldBy(w, m, n)'
        PROVE  Held(m, n)
    <3>1. m = pulled[w].manifest /\ n = e_tag' - 1
      BY <2>2, <2>3, <2>4 DEF HeldBy
    <3> QED BY <1>2, <1>3, <3>1
  <2>5. \A v \in Writers : \A m, n : HeldBy(v, m, n)' => Held(m, n)
    BY <2>3, <2>4, OtherHolds DEF OthersSame
  <2>6. Holds
    BY <1>4, <2>5, PuttableHolds
  <2>7. Pulls
    BY <2>3, OtherPulls
  <2> QED BY <1>1, <2>6, <2>7 DEF Tidy, Puts
<1>7. CASE PublishOk(w) /\ inner[w] # "open"
  BY <1>5, <1>7, OpenFailsStays DEF PublishOk
<1>8. CASE PublishFails(w, "failure")
  BY <1>5, <1>8, PublishFailsStays
<1>9. CASE UNCHANGED <<pc, inner, handling, batch, staging, working, result>>
  <2>1. \A v \in Writers : SameLocal(v)
    BY <1>9 DEF SameLocal, handling, working
  <2>2. \A v \in Writers : \A m, n : HeldBy(v, m, n)' => Held(m, n)
    BY <2>1, OtherHolds
  <2>3. Holds
    BY <1>4, <2>2, PuttableHolds
  <2> QED BY <1>1, <1>9, <2>3 DEF Tidy, Puts, Pulls, working
<1> QED BY <1>6, <1>7, <1>8, <1>9 DEF InstallManifest

(* A step of object storage alone, or none.                                *)
LEMMA StorageTidy ==
    ASSUME IInv, delayed' \subseteq delayed, UNCHANGED snapshots,
           \A v \in Writers : SameLocal(v),
           \/ UNCHANGED <<manifest, e_tag>>
           \/ \E r \in delayed : r.kind = "manifest" /\ PutManifest(r.e_tag, r.manifest, r.fragment)
    PROVE  Tidy
<1>1. \A v \in Writers : \A m, n : HeldBy(v, m, n)' => Held(m, n)
  BY OtherHolds
<1>2. Held(manifest', e_tag' - 1)
  <2>1. CASE UNCHANGED <<manifest, e_tag>>
    BY <2>1 DEF Held
  <2>2. CASE \E r \in delayed : r.kind = "manifest" /\ PutManifest(r.e_tag, r.manifest, r.fragment)
    <3>1. PICK r \in delayed : r.kind = "manifest" /\ PutManifest(r.e_tag, r.manifest, r.fragment)
      BY <2>2
    <3>2. e_tag \in Nat
      BY DEF IInv, StorageOK
    <3>3. e_tag' - 1 = r.e_tag /\ manifest' = r.manifest
      BY <3>1, <3>2 DEF PutManifest
    <3> QED BY <3>1, <3>3 DEF Held
  <2> QED BY <2>1, <2>2
<1>3. Puttable
  BY <1>2 DEF Puttable, Held
<1>4. Holds
  BY <1>1, <1>3, PuttableHolds
<1> QED BY <1>4 DEF Tidy, Puts, Pulls, SameLocal

LEMMA DelayedTidy ==
    ASSUME IInv, NEW r \in delayed, DelayedFragment(r) \/ DelayedManifest(r)
    PROVE  Tidy
<1>1. delayed' \subseteq delayed /\ UNCHANGED snapshots /\ \A v \in Writers : SameLocal(v)
  BY DEF DelayedFragment, DelayedManifest, SameLocal, handling, working
<1>2. \/ UNCHANGED <<manifest, e_tag>>
      \/ r.kind = "manifest" /\ PutManifest(r.e_tag, r.manifest, r.fragment)
  BY DEF DelayedFragment, DelayedManifest
<1> QED BY <1>1, <1>2, StorageTidy

LEMMA StutterTidy ==
    ASSUME IInv, UNCHANGED vars
    PROVE  Tidy
BY StorageTidy DEF vars, storage, handling, working, SameLocal

(* m links n fragments and may be rolled up.                               *)
Ready(m, n) ==
    /\ n \in Nat \ {0} /\ n \in 1..e_tag /\ Regular(fragments, n)
    /\ Links(fragments, m, n)
    /\ Good(fragments, m, n) /\ Rooted(snapshots, m)
    /\ \A s \in generate_snapshot(m) : Rolls(fragments, m, s, n)

(* What pull_work applies the fragment to becomes a manifest that is ready.*)
LEMMA AppliedReady ==
    ASSUME IInv, Extra, TreeOK, SetsumsDiffer, NEW w \in Writers, pc[w] = "publish",
           NEW n, n = staging[w].e_tag, NEW l, l = staging[w].manifest, NEW f, f = fragment[w]
    PROVE  Ready(apply_fragment(l, f), n)
<1> DEFINE m == apply_fragment(l, f)
<1>1. /\ n \in 1..e_tag /\ n \in Nat \ {0} /\ Links(fragments, l, n - 1)
      /\ f.seq_no = n /\ Filed(fragments, f)
  BY LinkingFacts DEF Linking
<1>2. Numbered(fragments) /\ e_tag \in Nat
  BY StorageIsNumbered DEF IInv, StorageOK
<1>3. n - 1 \in Nat /\ (n - 1) + 1 = n /\ n \in 0..e_tag /\ n - 1 \in 0..(e_tag - 1)
  BY <1>1, <1>2
<1>4. n \in DOMAIN fragments /\ f = fragments[n]
  BY <1>1 DEF Filed
<1>5. Regular(fragments, n)
  BY <1>3, <1>4, StorageRegular
<1>6. Held(l, n - 1)
  BY DEF Held, HeldBy, Loaded
<1>7. Good(fragments, l, n - 1) /\ Rooted(snapshots, l)
  BY <1>6 DEF TreeOK
<1>8. Links(fragments, m, n)
  <2>1. Links(fragments, m, (n - 1) + 1)
    BY <1>1, <1>2, <1>3, LinksAppend
  <2> HIDE DEF m
  <2> QED BY <1>3, <2>1
<1>9. Good(fragments, m, n)
  <2>1. Regular(fragments, (n - 1) + 1) /\ f = fragments[(n - 1) + 1]
    BY <1>3, <1>4, <1>5
  <2>2. Good(fragments, m, (n - 1) + 1)
    BY <1>3, <1>7, <2>1, GoodAppend
  <2> HIDE DEF m
  <2> QED BY <1>3, <2>2
<1>10. Rooted(snapshots, m)
  BY <1>7 DEF Rooted, apply_fragment
<1>11. Distinct(fragments, n - 1)
  BY <1>3, RunsDistinct
<1> HIDE DEF m
<1>12. \A s \in generate_snapshot(m) : Rolls(fragments, m, s, n)
  BY <1>1, <1>2, <1>5, <1>8, <1>9, <1>11, GoodSnapshot
<1>13. Ready(m, n)
  BY <1>1, <1>5, <1>8, <1>9, <1>10, <1>12 DEF Ready
<1> QED BY <1>13 DEF m

(* The pointer to a snapshot has its setsum.                               *)
LEMMA PointerSetsum ==
    ASSUME NEW s
    PROVE  to_pointer(s).setsum = s.setsum
BY DEF to_pointer

(* A roll-up refers to what is there and to the new snapshot.              *)
LEMMA RollupRooted ==
    ASSUME IInv, NEW m, NEW n, Ready(m, n), NEW s \in generate_snapshot(m)
    PROVE  /\ IsPart(fragments, s, e_tag - 1)
           /\ Rooted(snapshots, s)
           /\ Rooted(snapshots \cup {s}, apply_snapshot(m, s))
           /\ Good(fragments, apply_snapshot(m, s), n)
<1> DEFINE a == apply_snapshot(m, s)
<1>1. /\ Good(fragments, a, n) /\ IsPart(fragments, s, n - 1)
      /\ \A i \in DOMAIN s.snapshots : \E j \in DOMAIN m.snapshots : s.snapshots[i] = m.snapshots[j]
      /\ \A i \in DOMAIN a.snapshots :
            \/ a.snapshots[i] = to_pointer(s)
            \/ \E j \in DOMAIN m.snapshots : a.snapshots[i] = m.snapshots[j]
  BY DEF Ready, Rolls
<1>2. n \in Nat \ {0} /\ n \in 1..e_tag /\ Rooted(snapshots, m) /\ e_tag \in Nat
  BY DEF Ready, IInv, StorageOK
<1> HIDE DEF a
<1>3. Rooted(snapshots, s)
  BY <1>1, <1>2 DEF Rooted
<1>4. Rooted(snapshots \cup {s}, a)
  <2>1. \A p : SnapshotExists(snapshots, p) => SnapshotExists(snapshots \cup {s}, p)
    BY DEF SnapshotExists
  <2>2. SnapshotExists(snapshots \cup {s}, to_pointer(s))
    BY PointerSetsum DEF SnapshotExists
  <2> QED BY <1>1, <1>2, <2>1, <2>2 DEF Rooted
<1>5. IsPart(fragments, s, e_tag - 1)
  <2>1. n - 1 \in Nat /\ e_tag - 1 \in Nat /\ n - 1 <= e_tag - 1
    BY <1>2
  <2>2. Agree(fragments, fragments, n - 1)
    BY <2>1 DEF Agree
  <2> QED BY <1>1, <2>1, <2>2, PartAgrees
<1> QED BY <1>1, <1>3, <1>4, <1>5 DEF a

LEMMA PullWorkTidy ==
    ASSUME IInv, Extra, TreeOK, SetsumsDiffer, NEW w \in Writers, PullWork(w)
    PROVE  Tidy
<1> DEFINE s == staging[w]
           n == s.e_tag
           applied == apply_fragment(s.manifest, fragment[w])
           rollup == generate_snapshot(applied)
           m == IF rollup = {} THEN applied
                ELSE apply_snapshot(applied, CHOOSE r \in rollup : TRUE)
           p == [manifest |-> m, snapshots |-> rollup]
           t == Staging(s.manifest, s.e_tag, s.next_log_position,
                        s.next_seq_no_to_assign, s.next_seq_no_to_apply + 1)
           next == IF rollup = {} THEN "install" ELSE "snapshot"
<1>1. /\ pc[w] = "publish"
      /\ UNCHANGED <<manifest, e_tag, fragments, snapshots, delayed>>
      /\ \/ /\ pulled' = [pulled EXCEPT ![w] = p]
            /\ staging' = [staging EXCEPT ![w] = t]
            /\ pc' = [pc EXCEPT ![w] = next]
            /\ UNCHANGED <<inner, goal, batch, fragment, upload>>
         \/ PublishFails(w, "error")
  BY DEF PullWork, handling, storage
<1>2. Ready(applied, n)
  BY <1>1, AppliedReady
<1>3. CASE PublishFails(w, "error")
  BY <1>1, <1>3, PublishFailsStays, StaysTidy
<1>4. CASE /\ pulled' = [pulled EXCEPT ![w] = p]
           /\ staging' = [staging EXCEPT ![w] = t]
           /\ pc' = [pc EXCEPT ![w] = next]
           /\ UNCHANGED <<inner, goal, batch, fragment, upload>>
  <2>1. t.manifest = s.manifest /\ t.e_tag = n /\ p.manifest = m /\ p.snapshots = rollup
    BY DEF Staging
  <2>2. next = IF rollup = {} THEN "install" ELSE "snapshot"
    OBVIOUS
  <2>3. /\ rollup = {} => m = applied
        /\ rollup # {} => (CHOOSE r \in rollup : TRUE) \in rollup
                          /\ m = apply_snapshot(applied, CHOOSE r \in rollup : TRUE)
    OBVIOUS
  <2>4. \A r, q \in rollup : r = q
    BY DEF generate_snapshot
  <2>5. \A r \in rollup : r \in generate_snapshot(applied)
    OBVIOUS
  <2> HIDE DEF t, p, next, m, rollup, applied
  <2>6. OthersSame(w) /\ pc'[w] = next /\ staging'[w] = t /\ pulled'[w] = p
    BY <1>4 DEF OthersSame, SameLocal, IInv, WriterTypeOK, Domains
  <2>7. ASSUME NEW r \in rollup
        PROVE  /\ m = apply_snapshot(applied, r)
               /\ IsPart(fragments, r, e_tag - 1)
               /\ Rooted(snapshots, r)
               /\ Rooted(snapshots \cup {r}, m)
               /\ Good(fragments, m, n)
    <3>1. m = apply_snapshot(applied, r)
      BY <2>3, <2>4
    <3> QED BY <1>2, <2>5, <3>1, RollupRooted
  <2>8. ASSUME NEW x, NEW k, HeldBy(w, x, k)'
        PROVE  Held(x, k) \/ Sound(x, k)
    <3>1. CASE x = staging'[w].manifest /\ k = staging'[w].e_tag - 1
      BY <1>1, <2>1, <2>6, <3>1 DEF Held, HeldBy, Loaded
    <3>2. CASE pc'[w] = "install" /\ x = pulled'[w].manifest /\ k = staging'[w].e_tag
      <4>1. x = applied /\ k = n
        BY <2>1, <2>2, <2>3, <2>6, <3>2
      <4> QED BY <1>1, <1>2, <4>1 DEF Sound, Ready
    <3> QED BY <2>8, <3>1, <3>2 DEF HeldBy
  <2>9. \A v \in Writers : \A x, k : HeldBy(v, x, k)' => Held(x, k) \/ Sound(x, k)
    BY <2>6, <2>8, OtherHolds DEF OthersSame
  <2>10. Holds
    BY <1>1, <2>9, SamePuttable, PuttableHolds
  <2>11. ASSUME pc'[w] = "snapshot"
         PROVE  PullOK(w)'
    <3>1. rollup # {} /\ Good(fragments, m, n)
      BY <2>2, <2>6, <2>7, <2>11
    <3> QED BY <1>1, <2>1, <2>6, <2>7, <3>1 DEF PullOK
  <2>12. Pulls
    BY <2>6, <2>11, OtherPulls
  <2> QED BY <1>1, <2>10, <2>12 DEF Tidy, Puts
<1> QED BY <1>1, <1>3, <1>4

LEMMA NextTidy ==
    ASSUME IInv, Extra, TreeOK, SetsumsDiffer, [Next]_vars
    PROVE  Tidy
<1>1. ASSUME NEW w \in Writers, Step(w)
      PROVE  Tidy
  BY <1>1, LoadManifestTidy, NothingToRecoverTidy, ReadTidy, OpenFailsTidy, TakeWorkTidy, WritingTidy,
     JoinUploadAndMarkTidy, PullWorkTidy, InstallSnapshotTidy, InstallSnapshotFailsTidy,
     InstallManifestTidy, LinkFailsTidy DEF Step
<1> QED BY <1>1, OpenTidy, AppendManyTidy, CrashTidy, DelayedTidy, StutterTidy DEF Next, Finished

LEMMA InitTree == Init => TreeOK
<1> SUFFICES ASSUME Init PROVE TreeOK
  OBVIOUS
<1> USE DEF Init
<1>1. IsSeq(<<>>) /\ DOMAIN <<>> = {} /\ Len(<<>>) = 0
  <2>1. <<>> \in Seq({})
    OBVIOUS
  <2> QED BY <2>1 DEF IsSeq
<1>2. /\ manifest.setsum = 0 /\ manifest.collected = 0 /\ manifest.initial_offset = None
      /\ manifest.snapshots = <<>> /\ manifest.fragments = <<>>
  BY DEF new_empty
<1>3. SumTo(fragments, 0) = 0
  <2>1. Summed(fragments, 0)
    BY DEF Summed
  <2> HIDE DEF Init
  <2> QED BY <2>1, SumToIs
<1>4. Shape(manifest.snapshots)
  BY <1>1, <1>2 DEF Shape
<1>5. \E b : Cut(fragments, manifest, 0, 0, b)
  <2> DEFINE b == [i \in 0..0 |-> 0]
  <2>1. b \in [0..0 -> Nat] /\ b[0] = 0
    OBVIOUS
  <2>2. <<>> = [i \in 1..(0 - 0) |-> fragments[0 + i]]
    OBVIOUS
  <2> HIDE DEF b
  <2>3. Cut(fragments, manifest, 0, 0, b)
    BY <1>1, <1>2, <2>1, <2>2 DEF Cut
  <2> QED BY <2>3
<1>6. Good(fragments, manifest, 0) /\ Rooted(snapshots, manifest)
  BY <1>1, <1>2, <1>3, <1>4, <1>5 DEF Good, Rooted
<1>7. \A m, n : Held(m, n) => m = manifest /\ n = 0
  BY DEF Held, HeldBy, Loaded
<1> QED BY <1>6, <1>7 DEF TreeOK

(* TreeOK is inductive relative to IInv and Extra, as long as no two runs  *)
(* of the log have the same setsum.                                        *)
THEOREM TreeInvariance == Spec /\ []SetsumsDiffer => [](IInv /\ Extra /\ TreeOK)
<1> DEFINE J == IInv /\ Extra /\ TreeOK
<1>1. Init => J
  BY InitHolds, InitExtra, InitTree
<1>2. J /\ SetsumsDiffer /\ [Next]_vars => J'
  <2> SUFFICES ASSUME IInv, Extra, TreeOK, SetsumsDiffer, [Next]_vars
               PROVE  IInv' /\ Extra' /\ TreeOK'
    OBVIOUS
  <2>1. IInv' /\ Grows
    BY NextKeeps DEF Preserved
  <2>2. Extra'
    BY NextExtra DEF AllKept
  <2>3. TreeOK'
    BY <2>1, NextTidy, TreeStep DEF Tidy
  <2> QED BY <2>1, <2>2, <2>3
<1> HIDE DEF J
<1>3. Spec /\ []SetsumsDiffer => []J
  BY <1>1, <1>2, PTL DEF Spec
<1> QED BY <1>3 DEF J

(* Every manifest that is put passes its scrub, and every roll-up that a   *)
(* writer attempts can be applied: the setsums of what is rolled up and of *)
(* what stays add up to the manifest's, and what stays has no gap.         *)
THEOREM ManifestsScrub == Spec /\ []SetsumsDiffer => []ManifestScrubs
<1>1. IInv /\ Extra /\ TreeOK /\ SetsumsDiffer => ManifestScrubs
  <2> SUFFICES ASSUME IInv, Extra, TreeOK, SetsumsDiffer
               PROVE  ManifestScrubs
    OBVIOUS
  <2>1. scrub(manifest)
    <3>1. Held(manifest, e_tag - 1) /\ e_tag \in Nat \ {0}
      BY DEF Held, IInv, StorageOK
    <3>2. e_tag - 1 \in Nat /\ Regular(fragments, e_tag - 1)
      <4>1. e_tag - 1 \in Nat /\ e_tag - 1 \in 0..e_tag
        BY <3>1
      <4> QED BY <3>1, <4>1, HeldThere, StorageRegular
    <3>3. Good(fragments, manifest, e_tag - 1)
      BY <3>1 DEF TreeOK
    <3> QED BY <3>2, <3>3, GoodScrubs
  <2>2. ASSUME NEW w \in Writers, pc[w] = "publish"
        PROVE  LET m == apply_fragment(staging[w].manifest, fragment[w])
               IN  \A s \in generate_snapshot(m) : snapshot_applies(m, s)
    <3> DEFINE m == apply_fragment(staging[w].manifest, fragment[w])
               n == staging[w].e_tag
    <3>1. Ready(m, n)
      BY <2>2, AppliedReady
    <3> HIDE DEF m, n
    <3>2. n \in Nat /\ Regular(fragments, n) /\ Good(fragments, m, n)
      BY <3>1 DEF Ready
    <3>3. ASSUME NEW s \in generate_snapshot(m)
          PROVE  snapshot_applies(m, s)
      <4>1. Good(fragments, apply_snapshot(m, s), n) /\ IsPrefix(s.fragments, m.fragments)
        BY <3>1 DEF Ready, Rolls
      <4> QED BY <3>2, <4>1, GoodScrubs DEF snapshot_applies
    <3> QED BY <3>3 DEF m
  <2>3. ASSUME NEW w \in Writers, pc[w] = "publish"
        PROVE  /\ can_apply_fragment(staging[w].manifest, fragment[w])
               /\ fragment[w].start = next_write_timestamp(staging[w].manifest)
    <3> DEFINE n == staging[w].e_tag
               f == fragment[w]
               l == staging[w].manifest
    <3>1. /\ n \in 1..e_tag /\ n \in Nat \ {0} /\ Links(fragments, l, n - 1)
          /\ f.seq_no = n /\ Filed(fragments, f) /\ IsFragment(f)
      BY <2>3, LinkingFacts DEF Linking
    <3>2. /\ Within(fragments, l, n - 1) /\ StorageOK /\ StoragePlaced /\ e_tag \in Nat
      BY <2>3 DEF Extra, Local, PlaceOK, Loaded, IInv, StorageOK
    <3> HIDE DEF n, f, l
    <3>3. n - 1 \in Nat /\ (n - 1) + 1 = n /\ n - 1 \in 0..(e_tag - 1)
      BY <3>1, <3>2
    <3>4. Numbered(fragments)
      BY <3>2, StorageIsNumbered
    <3>5. next_fragment_seq_no(l) = n
      BY <3>1, <3>3, <3>4, LinksNext
    <3>6. n - 1 \in DOMAIN fragments \cup {0}
      BY <3>2, <3>3, LinkedThere
    <3>7. EndOf(fragments, n - 1) \in Nat \ {0}
      BY <3>2, <3>6, EndIsPosition
    <3>8. next_write_timestamp(l) = EndOf(fragments, n - 1)
      BY <3>1, <3>2, <3>3, <3>4, <3>7, NextWrite
    <3>9. Follows(fragments, f)
      BY <3>1, <3>2 DEF StoragePlaced, Filed
    <3>10. f.start = EndOf(fragments, n - 1) /\ f.start < f.limit
      <4>1. NumRecords[f.batch] \in Nat \ {0}
        BY <3>1, BatchAssumption DEF IsFragment
      <4> QED BY <3>1, <3>9, <4>1 DEF Follows
    <3> QED BY <3>1, <3>5, <3>8, <3>10 DEF can_apply_fragment, n, f, l
  <2> QED BY <2>1, <2>2, <2>3 DEF ManifestScrubs
<1> QED BY <1>1, TreeInvariance, PTL

-----------------------------------------------------------------------------
(* Reading the log.                                                        *)

(* The fragments lo + 1 to hi.                                             *)
Run(files, lo, hi) == [i \in 1..(hi - lo) |-> files[lo + i]]

LEMMA RunIs ==
    ASSUME NEW files, NEW lo \in Nat, NEW hi \in Nat, lo <= hi
    PROVE  /\ IsSeq(Run(files, lo, hi)) /\ Len(Run(files, lo, hi)) = hi - lo
           /\ DOMAIN Run(files, lo, hi) = 1..(hi - lo)
           /\ \A i \in 1..(hi - lo) : Run(files, lo, hi)[i] = files[lo + i]
<1> DEFINE q == Run(files, lo, hi)
<1>1. DOMAIN q = 1..(hi - lo) /\ \A i \in 1..(hi - lo) : q[i] = files[lo + i]
  BY DEF Run
<1>2. q = [i \in 1..(hi - lo) |-> q[i]] /\ hi - lo \in Nat
  BY DEF Run
<1> HIDE DEF q
<1>3. IsSeq(q) /\ Len(q) = hi - lo
  BY <1>1, <1>2, FcnIsSeq
<1> QED BY <1>1, <1>3 DEF q

(* Two runs one behind the other.                                          *)
LEMMA RunConcat ==
    ASSUME NEW files, NEW lo \in Nat, NEW mid \in Nat, NEW hi \in Nat, lo <= mid, mid <= hi
    PROVE  Run(files, lo, mid) \o Run(files, mid, hi) = Run(files, lo, hi)
<1> DEFINE p == Run(files, lo, mid)
           q == Run(files, mid, hi)
           r == p \o q
<1>1. /\ IsSeq(p) /\ IsSeq(q) /\ Len(p) = mid - lo /\ Len(q) = hi - mid
      /\ \A i \in 1..(mid - lo) : p[i] = files[lo + i]
      /\ \A i \in 1..(hi - mid) : q[i] = files[mid + i]
  BY RunIs
<1> HIDE DEF p, q
<1>2. PICK S : p \in Seq(S)
  BY <1>1 DEF IsSeq
<1>3. PICK T : q \in Seq(T)
  BY <1>1 DEF IsSeq
<1>4. p \in Seq(S \cup T) /\ q \in Seq(S \cup T)
  BY <1>2, <1>3, SeqMonotonic
<1>5. /\ r \in Seq(S \cup T)
      /\ Len(r) = Len(p) + Len(q)
      /\ \A k \in 1..Len(p) + Len(q) : r[k] = IF k <= Len(p) THEN p[k] ELSE q[k - Len(p)]
  BY <1>4, ConcatProperties
<1> HIDE DEF r
<1>6. Len(r) = hi - lo
  BY <1>1, <1>5
<1>7. r = [i \in 1..Len(r) |-> r[i]]
  BY <1>5
<1>8. ASSUME NEW i \in 1..(hi - lo)
      PROVE  r[i] = files[lo + i]
  <2>0. i \in 1..Len(p) + Len(q)
    BY <1>5, <1>6, <1>8
  <2>1. CASE i <= mid - lo
    <3>1. i \in 1..(mid - lo) /\ i <= Len(p)
      BY <1>1, <2>1
    <3> QED BY <1>1, <1>5, <2>0, <3>1
  <2>2. CASE ~(i <= mid - lo)
    <3>1. i - (mid - lo) \in 1..(hi - mid) /\ mid + (i - (mid - lo)) = lo + i /\ ~(i <= Len(p))
      BY <1>1, <2>2
    <3>2. r[i] = q[i - (mid - lo)]
      BY <1>1, <1>5, <2>0, <3>1
    <3> QED BY <1>1, <3>1, <3>2
  <2> QED BY <2>1, <2>2
<1>9. r = Run(files, lo, hi)
  BY <1>6, <1>7, <1>8 DEF Run
<1> QED BY <1>9 DEF r, p, q

(* The elements of q are the runs between the bounds b.                    *)
Runs(files, q, k, b) ==
    /\ k \in Nat /\ Len(q) = k
    /\ b \in [0..k -> Nat]
    /\ \A i \in 1..k : b[i - 1] < b[i] /\ q[i] = Run(files, b[i - 1], b[i])

IsFlat(f, q) ==
    f = [i \in 1..Len(q) |-> IF i = 1 THEN q[i] ELSE f[i - 1] \o q[i]]

LEMMA FlattenRuns ==
    ASSUME NEW files, NEW q, NEW k, NEW b, Runs(files, q, k, b), k # 0
    PROVE  FlattenSeq(q) = Run(files, b[0], b[k])
<1> DEFINE g == [i \in 1..k |-> Run(files, b[0], b[i])]
           f == CHOOSE t : IsFlat(t, q)
<1>1. /\ k \in Nat \ {0} /\ Len(q) = k /\ b \in [0..k -> Nat]
      /\ \A i \in 1..k : b[i - 1] < b[i] /\ q[i] = Run(files, b[i - 1], b[i])
  BY DEF Runs
<1>2. \A i, j \in 0..k : i < j => b[i] < b[j]
  BY <1>1, Increasing
<1>3. ASSUME NEW i \in 1..k, i # 1
      PROVE  Run(files, b[0], b[i - 1]) \o q[i] = Run(files, b[0], b[i])
  <2>1. i - 1 \in 0..k /\ i \in 0..k /\ 0 \in 0..k /\ 0 < i - 1
    BY <1>1, <1>3
  <2>2. b[0] \in Nat /\ b[i - 1] \in Nat /\ b[i] \in Nat /\ b[0] < b[i - 1] /\ b[i - 1] < b[i]
    BY <1>1, <1>2, <2>1
  <2>3. b[0] <= b[i - 1] /\ b[i - 1] <= b[i]
    BY <2>2
  <2>4. Run(files, b[0], b[i - 1]) \o Run(files, b[i - 1], b[i]) = Run(files, b[0], b[i])
    BY <2>2, <2>3, RunConcat, Zenon
  <2> QED BY <1>1, <2>4, Zenon
<1>4. \A i \in 1..k : i - 1 = 0 <=> i = 1
  BY <1>1
<1>5. IsFlat(g, q)
  <2>1. ASSUME NEW i \in 1..k
        PROVE  g[i] = IF i = 1 THEN q[i] ELSE g[i - 1] \o q[i]
    <3>1. CASE i = 1
      <4>1. q[i] = Run(files, b[0], b[i])
        BY <1>1, <1>4, <3>1
      <4> QED BY <3>1, <4>1
    <3>2. CASE i # 1
      <4>1. i - 1 \in 1..k
        BY <1>1, <3>2
      <4> QED BY <1>3, <3>2, <4>1
    <3> QED BY <3>1, <3>2
  <2>2. g = [i \in 1..k |-> g[i]]
    OBVIOUS
  <2> HIDE DEF g
  <2> QED BY <1>1, <2>1, <2>2 DEF IsFlat
<1>6. IsFlat(f, q)
  BY <1>5
<1>7. FlattenSeq(q) = f[k]
  BY <1>1 DEF FlattenSeq, IsFlat
<1> HIDE DEF f, g
<1>8. \A i \in 1..k : f[i] = IF i = 1 THEN q[i] ELSE f[i - 1] \o q[i]
  BY <1>1, <1>6 DEF IsFlat
<1> DEFINE Bad == {i \in 1..k : f[i] # Run(files, b[0], b[i])}
<1>9. Bad = {}
  <2> SUFFICES ASSUME Bad # {}
               PROVE  FALSE
    OBVIOUS
  <2>1. PICK i \in Bad : \A j \in Bad : i <= j
    <3>1. Bad \in SUBSET Nat
      OBVIOUS
    <3> HIDE DEF Bad
    <3> QED BY <3>1, LeastNatural
  <2>2. i \in 1..k /\ f[i] # Run(files, b[0], b[i])
    BY <2>1
  <2>3. CASE i = 1
    BY <1>1, <1>4, <1>8, <2>2, <2>3
  <2>4. CASE i # 1
    <3>1. i - 1 \in 1..k /\ ~(i <= i - 1)
      BY <1>1, <2>2, <2>4
    <3>2. f[i - 1] = Run(files, b[0], b[i - 1])
      BY <2>1, <3>1
    <3> QED BY <1>3, <1>8, <2>2, <2>4, <3>2
  <2> QED BY <2>3, <2>4
<1>10. k \in 1..k
  BY <1>1
<1> QED BY <1>7, <1>9, <1>10

(* What a node's snapshots hold and its own fragments make up its run.     *)
Filled(files, x, lo, hi, b, q) ==
    /\ lo \in Nat /\ hi \in Nat /\ Cut(files, x, lo, hi, b)
    /\ DOMAIN q = DOMAIN x.snapshots /\ q = [i \in DOMAIN x.snapshots |-> q[i]]
    /\ \A i \in DOMAIN x.snapshots : q[i] = Run(files, b[i - 1], b[i])

Spliced(q, x) == FlattenSeq(q) \o x.fragments

LEMMA CutFlatten ==
    ASSUME NEW files, NEW x, NEW lo, NEW hi, NEW b, NEW q, Filled(files, x, lo, hi, b, q)
    PROVE  Spliced(q, x) = Run(files, lo, hi)
<1> USE DEF Spliced
<1> /\ lo \in Nat /\ hi \in Nat /\ Cut(files, x, lo, hi, b)
    /\ DOMAIN q = DOMAIN x.snapshots /\ q = [i \in DOMAIN x.snapshots |-> q[i]]
    /\ \A i \in DOMAIN x.snapshots : q[i] = Run(files, b[i - 1], b[i])
  BY DEF Filled
<1> DEFINE k == Len(x.snapshots)
<1>1. k \in Nat /\ DOMAIN x.snapshots = 1..k /\ \A i \in 0..k : b[i] \in lo..hi
  BY BoundsIn
<1>2. /\ b \in [0..k -> Nat] /\ b[0] = lo /\ \A i \in 1..k : b[i - 1] < b[i]
      /\ x.fragments = Run(files, b[k], hi)
  BY DEF Cut, Run
<1> HIDE DEF k
<1>3. IsSeq(q) /\ Len(q) = k
  BY <1>1, FcnIsSeq
<1>4. k \in 0..k /\ b[k] \in Nat /\ lo <= b[k] /\ b[k] <= hi
  BY <1>1
<1>5. CASE k = 0
  <2>1. q = <<>>
    <3>1. PICK S : q \in Seq(S)
      BY <1>3 DEF IsSeq
    <3> QED BY <1>3, <1>5, <3>1, EmptySeq
  <2>2. FlattenSeq(q) = Run(files, lo, lo)
    <3>1. FlattenSeq(q) = q
      BY <1>3, <1>5 DEF FlattenSeq
    <3>2. <<>> = Run(files, lo, lo)
      <4>1. lo - lo = 0
        OBVIOUS
      <4>2. IsSeq(Run(files, lo, lo)) /\ Len(Run(files, lo, lo)) = 0
        <5>1. lo <= lo
          OBVIOUS
        <5>2. IsSeq(Run(files, lo, lo)) /\ Len(Run(files, lo, lo)) = lo - lo
          BY <5>1, RunIs, Zenon
        <5> QED BY <4>1, <5>2, Zenon
      <4> QED BY <4>2, EmptySeq DEF IsSeq
    <3> QED BY <2>1, <3>1, <3>2
  <2>3. x.fragments = Run(files, lo, hi)
    BY <1>2, <1>5
  <2>4. lo <= lo /\ lo <= hi
    BY <1>4
  <2>5. Run(files, lo, lo) \o Run(files, lo, hi) = Run(files, lo, hi)
    BY <2>4, RunConcat, Zenon
  <2> QED BY <2>2, <2>3, <2>5, Zenon
<1>6. CASE k # 0
  <2>1. Runs(files, q, k, b)
    BY <1>1, <1>2, <1>3 DEF Runs
  <2>2. FlattenSeq(q) = Run(files, lo, b[k])
    BY <1>2, <1>6, <2>1, FlattenRuns
  <2>3. Run(files, lo, b[k]) \o Run(files, b[k], hi) = Run(files, lo, hi)
    BY <1>4, RunConcat, Zenon
  <2> QED BY <1>2, <2>2, <2>3, Zenon
<1> QED BY <1>5, <1>6

(* The setsum of p is that of the fragments lo + 1 to hi; there is only    *)
(* one such run.                                                           *)
Spot(files, n, p, lo, hi) ==
    /\ lo \in 0..n /\ hi \in 0..n /\ lo < hi
    /\ p.setsum = SumTo(files, hi) - SumTo(files, lo)
Low(files, n, p) == CHOOSE lo : \E hi : Spot(files, n, p, lo, hi)
High(files, n, p) == CHOOSE hi : \E lo : Spot(files, n, p, lo, hi)
Width(files, n, p) == High(files, n, p) - Low(files, n, p)

LEMMA SpotIs ==
    ASSUME NEW files, NEW n, Distinct(files, n), NEW p, NEW lo, NEW hi, Spot(files, n, p, lo, hi)
    PROVE  Low(files, n, p) = lo /\ High(files, n, p) = hi
<1>1. \A l, h : Spot(files, n, p, l, h) => l = lo /\ h = hi
  BY DEF Spot, Distinct
<1>2. \E h : Spot(files, n, p, Low(files, n, p), h)
  BY DEF Low
<1>3. \E l : Spot(files, n, p, l, High(files, n, p))
  BY DEF High
<1> QED BY <1>1, <1>2, <1>3

(* The snapshots in storage, and pointers to all that they refer to.       *)
IsTree(files, n, objects, D) ==
    /\ n \in Nat /\ Distinct(files, n)
    /\ \A p \in D : SnapshotExists(objects, p) /\ \E lo, hi : Spot(files, n, p, lo, hi)
    /\ \A s \in objects :
          /\ IsPart(files, s, n)
          /\ \A i \in DOMAIN s.snapshots : s.snapshots[i] \in D /\ s.snapshots[i].setsum # s.setsum

(* s is what p points to; its snapshots are smaller.                       *)
Node(files, n, D, p, s, b) ==
    /\ Low(files, n, p) \in Nat /\ High(files, n, p) \in Nat
    /\ Width(files, n, p) \in 1..n
    /\ Cut(files, s, Low(files, n, p), High(files, n, p), b)
    /\ \A i \in DOMAIN s.snapshots :
          /\ s.snapshots[i] \in D
          /\ Low(files, n, s.snapshots[i]) = b[i - 1] /\ High(files, n, s.snapshots[i]) = b[i]
          /\ Width(files, n, s.snapshots[i]) < Width(files, n, p)

LEMMA NodeIs ==
    ASSUME NEW files, NEW n, NEW objects, NEW D, IsTree(files, n, objects, D), NEW p \in D,
           NEW s, s = SnapshotLoad(objects, p)
    PROVE  \E b : Node(files, n, D, p, s, b)
<1>1. n \in Nat /\ Distinct(files, n) /\ SnapshotExists(objects, p)
  BY DEF IsTree
<1>2. s \in objects /\ s.setsum = p.setsum
  BY <1>1 DEF SnapshotLoad, SnapshotExists
<1>3. PICK hi \in 1..n : \E lo \in 0..(hi - 1) : Covers(files, s, lo, hi)
  BY <1>2 DEF IsTree, IsPart
<1>4. PICK lo \in 0..(hi - 1) : Covers(files, s, lo, hi)
  BY <1>3
<1>5. lo \in 0..n /\ hi \in 0..n /\ lo < hi /\ lo \in Nat /\ hi \in Nat
  BY <1>1, <1>3, <1>4
<1>6. Spot(files, n, p, lo, hi)
  BY <1>2, <1>4, <1>5 DEF Spot, Covers
<1>7. Low(files, n, p) = lo /\ High(files, n, p) = hi
  BY <1>1, <1>6, SpotIs
<1>8. PICK b : Cut(files, s, lo, hi, b)
  BY <1>4 DEF Covers
<1> DEFINE k == Len(s.snapshots)
<1>9. k \in Nat /\ DOMAIN s.snapshots = 1..k /\ \A i \in 0..k : b[i] \in lo..hi
  BY <1>5, <1>8, BoundsIn
<1>10. ASSUME NEW i \in DOMAIN s.snapshots
       PROVE  /\ s.snapshots[i] \in D
              /\ Low(files, n, s.snapshots[i]) = b[i - 1] /\ High(files, n, s.snapshots[i]) = b[i]
              /\ Width(files, n, s.snapshots[i]) < Width(files, n, p)
  <2> DEFINE c == s.snapshots[i]
  <2>1. c \in D /\ c.setsum # s.setsum
    BY <1>2 DEF IsTree
  <2>2. i \in 1..k
    BY <1>9
  <2>3. b[i - 1] < b[i] /\ c.setsum = SumTo(files, b[i]) - SumTo(files, b[i - 1])
    BY <1>8, <2>2 DEF Cut, Spans
  <2> HIDE DEF k, c
  <2>4. i \in 0..k /\ i - 1 \in 0..k
    BY <1>9, <2>2
  <2>5. b[i] \in lo..hi /\ b[i - 1] \in lo..hi
    BY <1>9, <2>4
  <2>6. b[i] \in 0..n /\ b[i - 1] \in 0..n
    BY <1>1, <1>5, <2>5
  <2>7. Spot(files, n, c, b[i - 1], b[i])
    BY <2>3, <2>6 DEF Spot
  <2>8. Low(files, n, c) = b[i - 1] /\ High(files, n, c) = b[i]
    BY <1>1, <2>7, SpotIs
  <2>9. ~(b[i - 1] = lo /\ b[i] = hi)
    BY <1>2, <1>6, <2>1, <2>3 DEF Spot
  <2>10. b[i] - b[i - 1] < hi - lo
    BY <1>5, <2>5, <2>9
  <2> QED BY <1>7, <2>1, <2>8, <2>10 DEF Width, c
<1>11. hi - lo \in 1..n
  BY <1>1, <1>5
<1>12. Node(files, n, D, p, s, b)
  BY <1>5, <1>7, <1>8, <1>10, <1>11 DEF Node, Width
<1> QED BY <1>12

(* What Walk computes for p from what it computes for others.              *)
Visit(objects, u, p) ==
    LET Join(below, s, q) ==
            [snapshots |-> FlattenSeq([i \in DOMAIN below |-> below[i].snapshots]) \o <<q>>,
             fragments |-> FlattenSeq([i \in DOMAIN below |-> below[i].fragments])
                              \o s.fragments,
             complete |-> \A i \in DOMAIN below : below[i].complete]
    IN  IF SnapshotExists(objects, p)
        THEN LET s == SnapshotLoad(objects, p)
             IN  Join([i \in DOMAIN s.snapshots |-> u[s.snapshots[i]]], s, p)
        ELSE [snapshots |-> <<>>, fragments |-> <<>>, complete |-> FALSE]

IsWalk(objects, D, u) == u = [p \in D |-> Visit(objects, u, p)]

LEMMA WalkIs ==
    ASSUME NEW objects, NEW m
    PROVE  Walk(objects, m) = CHOOSE u : IsWalk(objects, PointersOf(objects, m), u)
BY DEF Walk, IsWalk, Visit

LEMMA VisitFragments ==
    ASSUME NEW objects, NEW u, NEW p, SnapshotExists(objects, p)
    PROVE  LET s == SnapshotLoad(objects, p)
               below == [i \in DOMAIN s.snapshots |-> u[s.snapshots[i]]]
           IN  Visit(objects, u, p).fragments
                  = FlattenSeq([i \in DOMAIN below |-> below[i].fragments]) \o s.fragments
BY Zenon DEF Visit

(* Only the snapshots that p refers to matter.                             *)
LEMMA VisitSame ==
    ASSUME NEW objects, NEW u, NEW v, NEW p,
           SnapshotExists(objects, p) =>
              \A i \in DOMAIN SnapshotLoad(objects, p).snapshots :
                  u[SnapshotLoad(objects, p).snapshots[i]] = v[SnapshotLoad(objects, p).snapshots[i]]
    PROVE  Visit(objects, u, p) = Visit(objects, v, p)
<1>1. CASE ~SnapshotExists(objects, p)
  BY <1>1 DEF Visit
<1>2. CASE SnapshotExists(objects, p)
  <2> DEFINE s == SnapshotLoad(objects, p)
  <2>1. [i \in DOMAIN s.snapshots |-> u[s.snapshots[i]]] = [i \in DOMAIN s.snapshots |-> v[s.snapshots[i]]]
    BY <1>2
  <2> QED BY <1>2, <2>1, Zenon DEF Visit
<1> QED BY <1>1, <1>2

(* The pointers to less than j fragments.                                  *)
Narrow(files, n, D, j) == {p \in D : Width(files, n, p) < j}

LEMMA WalkGrows ==
    ASSUME NEW files, NEW n, NEW objects, NEW D, IsTree(files, n, objects, D), NEW j \in Nat,
           NEW u, IsWalk(objects, Narrow(files, n, D, j), u)
    PROVE  \E v : IsWalk(objects, Narrow(files, n, D, j + 1), v)
<1> DEFINE E == Narrow(files, n, D, j)
           F == Narrow(files, n, D, j + 1)
           v == [p \in F |-> IF p \in E THEN u[p] ELSE Visit(objects, u, p)]
<1>1. ASSUME NEW p \in F
      PROVE  /\ v[p] = Visit(objects, u, p)
             /\ Visit(objects, v, p) = Visit(objects, u, p)
  <2> DEFINE s == SnapshotLoad(objects, p)
  <2>1. p \in D /\ Width(files, n, p) < j + 1
    BY DEF Narrow
  <2>2. PICK b : Node(files, n, D, p, s, b)
    BY <2>1, NodeIs
  <2> HIDE DEF s
  <2>3. ASSUME NEW i \in DOMAIN s.snapshots
        PROVE  s.snapshots[i] \in E /\ s.snapshots[i] \in F
    <3> DEFINE c == s.snapshots[i]
    <3>1. /\ c \in D /\ Width(files, n, c) < Width(files, n, p) /\ Width(files, n, p) \in 1..n
      BY <2>2 DEF Node
    <3>2. PICK a : Node(files, n, D, c, SnapshotLoad(objects, c), a)
      BY <3>1, NodeIs
    <3>3. Width(files, n, c) \in 1..n /\ n \in Nat
      BY <3>2 DEF Node, IsTree
    <3>4. Width(files, n, c) < j /\ Width(files, n, c) < j + 1
      BY <2>1, <3>1, <3>3
    <3> QED BY <3>1, <3>4 DEF Narrow
  <2>4. \A i \in DOMAIN s.snapshots : v[s.snapshots[i]] = u[s.snapshots[i]]
    BY <2>3
  <2>5. Visit(objects, v, p) = Visit(objects, u, p)
    <3> HIDE DEF v
    <3> QED BY <2>4, VisitSame DEF s
  <2>6. v[p] = Visit(objects, u, p)
    <3>1. CASE p \in E
      BY <1>1, <3>1 DEF IsWalk
    <3>2. CASE p \notin E
      BY <1>1, <3>2
    <3> QED BY <3>1, <3>2
  <2> QED BY <2>5, <2>6
<1>2. v = [p \in F |-> v[p]]
  OBVIOUS
<1> HIDE DEF v
<1>3. IsWalk(objects, F, v)
  BY <1>1, <1>2 DEF IsWalk
<1> QED BY <1>3

LEMMA WalkExists ==
    ASSUME NEW files, NEW n, NEW objects, NEW D, IsTree(files, n, objects, D)
    PROVE  \E u : IsWalk(objects, D, u)
<1> DEFINE E(j) == Narrow(files, n, D, j)
           Bad == {j \in Nat : ~\E u : IsWalk(objects, E(j), u)}
<1>1. n \in Nat
  BY DEF IsTree
<1>2. \A p \in D : Width(files, n, p) \in 1..n
  BY NodeIs DEF Node
<1>3. Bad = {}
  <2> SUFFICES ASSUME Bad # {}
               PROVE  FALSE
    OBVIOUS
  <2>1. PICK j \in Bad : \A i \in Bad : j <= i
    <3>1. Bad \in SUBSET Nat
      OBVIOUS
    <3> HIDE DEF Bad
    <3> QED BY <3>1, LeastNatural
  <2>2. CASE j = 0
    <3>1. E(0) = {}
      BY <1>1, <1>2 DEF Narrow
    <3> DEFINE u == [p \in {} |-> 0]
    <3>2. IsWalk(objects, {}, u)
      BY DEF IsWalk
    <3> HIDE DEF u
    <3> QED BY <2>1, <2>2, <3>1, <3>2
  <2>3. CASE j # 0
    <3>1. j - 1 \in Nat /\ ~(j <= j - 1) /\ (j - 1) + 1 = j
      BY <2>1, <2>3
    <3>2. PICK u : IsWalk(objects, E(j - 1), u)
      BY <2>1, <3>1
    <3>3. \E v : IsWalk(objects, Narrow(files, n, D, (j - 1) + 1), v)
      BY <3>1, <3>2, WalkGrows
    <3> QED BY <2>1, <3>1, <3>3
  <2> QED BY <2>2, <2>3
<1>4. E(n + 1) = D
  BY <1>1, <1>2 DEF Narrow
<1>5. n + 1 \in Nat
  BY <1>1
<1> QED BY <1>3, <1>4, <1>5

(* A walk below p visits the run that p stands for.                        *)
LEMMA WalkRuns ==
    ASSUME NEW files, NEW n, NEW objects, NEW D, IsTree(files, n, objects, D),
           NEW u, IsWalk(objects, D, u), NEW q \in D
    PROVE  u[q].fragments = Run(files, Low(files, n, q), High(files, n, q))
<1> DEFINE Is(p) == u[p].fragments = Run(files, Low(files, n, p), High(files, n, p))
           Bad == {w \in Nat : \E p \in D : Width(files, n, p) = w /\ ~Is(p)}
<1>1. \A p \in D : Width(files, n, p) \in Nat
  <2>1. \A p \in D : Width(files, n, p) \in 1..n
    BY NodeIs DEF Node
  <2> QED BY <2>1 DEF IsTree
<1>2. ASSUME NEW p \in D, \A c \in D : Width(files, n, c) < Width(files, n, p) => Is(c)
      PROVE  Is(p)
  <2> DEFINE s == SnapshotLoad(objects, p)
             below == [i \in DOMAIN s.snapshots |-> u[s.snapshots[i]]]
             f == [i \in DOMAIN s.snapshots |-> u[s.snapshots[i]].fragments]
  <2>1. PICK b : Node(files, n, D, p, s, b)
    BY NodeIs
  <2>2. u[p].fragments = FlattenSeq([i \in DOMAIN below |-> below[i].fragments]) \o s.fragments
    <3>1. u[p] = Visit(objects, u, p) /\ SnapshotExists(objects, p)
      BY DEF IsWalk, IsTree
    <3> QED BY <3>1, VisitFragments
  <2>3. [i \in DOMAIN below |-> below[i].fragments] = f
    OBVIOUS
  <2> HIDE DEF s, below
  <2>4. \A i \in DOMAIN s.snapshots : f[i] = Run(files, b[i - 1], b[i])
    <3> SUFFICES ASSUME NEW i \in DOMAIN s.snapshots
                 PROVE  f[i] = Run(files, b[i - 1], b[i])
      OBVIOUS
    <3>1. /\ s.snapshots[i] \in D /\ Width(files, n, s.snapshots[i]) < Width(files, n, p)
          /\ Low(files, n, s.snapshots[i]) = b[i - 1] /\ High(files, n, s.snapshots[i]) = b[i]
      BY <2>1 DEF Node
    <3>2. Is(s.snapshots[i])
      BY <1>2, <3>1
    <3> QED BY <3>1, <3>2
  <2>5. DOMAIN f = DOMAIN s.snapshots /\ f = [i \in DOMAIN s.snapshots |-> f[i]]
    OBVIOUS
  <2>6. /\ Low(files, n, p) \in Nat /\ High(files, n, p) \in Nat
        /\ Cut(files, s, Low(files, n, p), High(files, n, p), b)
    BY <2>1 DEF Node
  <2> HIDE DEF f
  <2>7. FlattenSeq(f) \o s.fragments = Run(files, Low(files, n, p), High(files, n, p))
    <3>1. Filled(files, s, Low(files, n, p), High(files, n, p), b, f)
      BY <2>4, <2>5, <2>6 DEF Filled
    <3>2. Spliced(f, s) = Run(files, Low(files, n, p), High(files, n, p))
      BY <3>1, CutFlatten
    <3> QED BY <3>2, Zenon DEF Spliced
  <2> QED BY <2>2, <2>3, <2>7, Zenon
<1>3. Bad = {}
  <2> SUFFICES ASSUME Bad # {}
               PROVE  FALSE
    OBVIOUS
  <2>1. PICK w \in Bad : \A j \in Bad : w <= j
    <3>1. Bad \in SUBSET Nat
      OBVIOUS
    <3> HIDE DEF Bad
    <3> QED BY <3>1, LeastNatural
  <2>2. PICK p \in D : Width(files, n, p) = w /\ ~Is(p)
    BY <2>1
  <2> HIDE DEF Is
  <2>3. ASSUME NEW c \in D, Width(files, n, c) < Width(files, n, p)
        PROVE  Is(c)
    <3>1. Width(files, n, c) \in Nat /\ ~(w <= Width(files, n, c))
      BY <1>1, <2>2, <2>3
    <3>2. Width(files, n, c) \notin Bad
      BY <2>1, <3>1
    <3> QED BY <3>1, <3>2
  <2> QED BY <1>2, <2>2, <2>3
<1> QED BY <1>1, <1>3

(* The manifest and the snapshots in storage are such a tree.              *)
LEMMA StorageIsTree ==
    ASSUME IInv, Extra, TreeOK, SetsumsDiffer, NEW n, n = e_tag - 1
    PROVE  IsTree(fragments, n, snapshots, PointersOf(snapshots, manifest))
<1> DEFINE D == PointersOf(snapshots, manifest)
<1>1. n \in Nat /\ n \in 0..(e_tag - 1) /\ Held(manifest, n)
  BY DEF IInv, StorageOK, Held
<1>2. Distinct(fragments, n)
  BY <1>1, RunsDistinct
<1>3. Good(fragments, manifest, n) /\ Rooted(snapshots, manifest)
  BY <1>1 DEF TreeOK
<1>4. \A s \in snapshots : /\ IsPart(fragments, s, n) /\ Rooted(snapshots, s)
                           /\ \A i \in DOMAIN s.snapshots : s.snapshots[i].setsum # s.setsum
  BY DEF TreeOK, SnapOK
<1>5. /\ \A i \in DOMAIN manifest.snapshots : manifest.snapshots[i] \in D
      /\ \A s \in snapshots : \A i \in DOMAIN s.snapshots : s.snapshots[i] \in D
  BY DEF PointersOf, ToSet
<1>6. \A p \in D : \/ \E i \in DOMAIN manifest.snapshots : p = manifest.snapshots[i]
                   \/ \E s \in snapshots : \E i \in DOMAIN s.snapshots : p = s.snapshots[i]
  BY DEF PointersOf, ToSet
<1>7. ASSUME NEW x, NEW lo \in Nat, NEW hi \in 0..n, NEW b, Cut(fragments, x, lo, hi, b),
             NEW i \in DOMAIN x.snapshots
      PROVE  \E l, h : Spot(fragments, n, x.snapshots[i], l, h)
  <2> DEFINE k == Len(x.snapshots)
  <2>0. hi \in Nat
    BY <1>1
  <2>1. k \in Nat /\ DOMAIN x.snapshots = 1..k /\ \A j \in 0..k : b[j] \in lo..hi
    BY <1>7, <2>0, BoundsIn
  <2>2. i \in 1..k
    BY <1>7, <2>1
  <2>3. b[i - 1] < b[i] /\ Spans(fragments, x.snapshots[i], b[i - 1], b[i])
    BY <1>7, <2>2 DEF Cut
  <2> HIDE DEF k
  <2>4. i \in 0..k /\ i - 1 \in 0..k
    BY <2>1, <2>2
  <2>5. b[i] \in 0..n /\ b[i - 1] \in 0..n
    BY <1>1, <2>0, <2>1, <2>4
  <2>6. Spot(fragments, n, x.snapshots[i], b[i - 1], b[i])
    BY <2>3, <2>5 DEF Spot, Spans
  <2> QED BY <2>6
<1>8. ASSUME NEW p \in D
      PROVE  SnapshotExists(snapshots, p) /\ \E lo, hi : Spot(fragments, n, p, lo, hi)
  <2>1. CASE \E i \in DOMAIN manifest.snapshots : p = manifest.snapshots[i]
    <3>1. PICK i \in DOMAIN manifest.snapshots : p = manifest.snapshots[i]
      BY <2>1
    <3>2. PICK b : Cut(fragments, manifest, 0, n, b)
      BY <1>3 DEF Good
    <3>3. 0 \in Nat /\ n \in 0..n
      BY <1>1
    <3>4. \E lo, hi : Spot(fragments, n, manifest.snapshots[i], lo, hi)
      BY <1>7, <3>2, <3>3
    <3> QED BY <1>3, <3>1, <3>4 DEF Rooted
  <2>2. CASE \E s \in snapshots : \E i \in DOMAIN s.snapshots : p = s.snapshots[i]
    <3>1. PICK s \in snapshots : \E i \in DOMAIN s.snapshots : p = s.snapshots[i]
      BY <2>2
    <3>2. PICK i \in DOMAIN s.snapshots : p = s.snapshots[i]
      BY <3>1
    <3>3. PICK hi \in 1..n : \E lo \in 0..(hi - 1) : Covers(fragments, s, lo, hi)
      BY <1>4 DEF IsPart
    <3>4. PICK lo \in 0..(hi - 1) : Covers(fragments, s, lo, hi)
      BY <3>3
    <3>5. PICK b : Cut(fragments, s, lo, hi, b)
      BY <3>4 DEF Covers
    <3>6. lo \in Nat /\ hi \in 0..n
      BY <1>1, <3>3, <3>4
    <3>7. \E l, h : Spot(fragments, n, s.snapshots[i], l, h)
      BY <1>7, <3>5, <3>6
    <3> QED BY <1>4, <3>2, <3>7 DEF Rooted
  <2> QED BY <1>6, <2>1, <2>2
<1> HIDE DEF D
<1>9. IsTree(fragments, n, snapshots, D)
  BY <1>1, <1>2, <1>4, <1>5, <1>8 DEF IsTree
<1> QED BY <1>9 DEF D

(* Reading from the manifest visits the whole log.                         *)
LEMMA ScanIsHistory ==
    ASSUME IInv, Extra, TreeOK, SetsumsDiffer
    PROVE  scan_from_manifest(snapshots, manifest) = history
<1> DEFINE n == e_tag - 1
           D == PointersOf(snapshots, manifest)
           u == Walk(snapshots, manifest)
           f == [i \in DOMAIN manifest.snapshots |-> u[manifest.snapshots[i]].fragments]
<1>1. IsTree(fragments, n, snapshots, D)
  BY StorageIsTree
<1>2. IsWalk(snapshots, D, u)
  <2>1. \E v : IsWalk(snapshots, D, v)
    <3> HIDE DEF D, n
    <3> QED BY <1>1, WalkExists
  <2> QED BY <2>1, WalkIs
<1>3. n \in Nat /\ Held(manifest, n) /\ n \in 0..n /\ StorageOK
  BY DEF IInv, StorageOK, Held
<1>4. PICK b : Cut(fragments, manifest, 0, n, b)
  BY <1>3 DEF TreeOK, Good
<1>5. scan_from_manifest(snapshots, manifest) = FlattenSeq(f) \o manifest.fragments
  BY DEF scan_from_manifest
<1>6. \A i \in DOMAIN manifest.snapshots : manifest.snapshots[i] \in D
  BY DEF PointersOf, ToSet
<1>7. DOMAIN f = DOMAIN manifest.snapshots /\ f = [i \in DOMAIN manifest.snapshots |-> f[i]]
      /\ \A i \in DOMAIN manifest.snapshots : f[i] = u[manifest.snapshots[i]].fragments
  OBVIOUS
<1> HIDE DEF n, D, u, f
<1>8. ASSUME NEW i \in DOMAIN manifest.snapshots
      PROVE  f[i] = Run(fragments, b[i - 1], b[i])
  <2> DEFINE c == manifest.snapshots[i]
             k == Len(manifest.snapshots)
  <2>1. k \in Nat /\ DOMAIN manifest.snapshots = 1..k /\ \A j \in 0..k : b[j] \in 0..n
    BY <1>3, <1>4, BoundsIn
  <2>2. i \in 1..k
    BY <1>8, <2>1
  <2>3. b[i - 1] < b[i] /\ Spans(fragments, c, b[i - 1], b[i])
    BY <1>4, <2>2 DEF Cut
  <2> HIDE DEF k
  <2>4. i \in 0..k /\ i - 1 \in 0..k
    BY <2>1, <2>2
  <2>5. Spot(fragments, n, c, b[i - 1], b[i])
    BY <2>1, <2>3, <2>4 DEF Spot, Spans
  <2>6. Low(fragments, n, c) = b[i - 1] /\ High(fragments, n, c) = b[i]
    BY <1>1, <2>5, SpotIs DEF IsTree
  <2>7. c \in D
    BY <1>6, <1>8
  <2>8. u[c].fragments = Run(fragments, Low(fragments, n, c), High(fragments, n, c))
    BY <1>1, <1>2, <2>7, WalkRuns
  <2> QED BY <1>7, <1>8, <2>6, <2>8
<1>9. Filled(fragments, manifest, 0, n, b, f)
  BY <1>3, <1>4, <1>7, <1>8 DEF Filled
<1>10. FlattenSeq(f) \o manifest.fragments = Run(fragments, 0, n)
  <2>1. Spliced(f, manifest) = Run(fragments, 0, n)
    BY <1>9, CutFlatten
  <2> QED BY <2>1, Zenon DEF Spliced
<1>11. Run(fragments, 0, n) = history
  <2>1. IsSeq(history) /\ Len(history) = n /\ \A i \in 1..n : history[i] = fragments[i]
    BY <1>3 DEF StorageOK, IsSeq, n
  <2>2. history = [i \in 1..n |-> history[i]]
    BY <2>1, SeqIs
  <2>3. n - 0 = n /\ \A i \in 1..n : 0 + i = i
    BY <1>3
  <2> QED BY <2>1, <2>2, <2>3 DEF Run
<1> QED BY <1>5, <1>10, <1>11, Zenon

(* A reader that walks the manifest and the snapshots in storage finds     *)
(* every snapshot and visits exactly the fragments that were linked, in    *)
(* order, whatever was rolled up when.                                     *)
THEOREM Readable == Spec /\ []SetsumsDiffer => []LogIsReadable
<1>1. IInv /\ Extra /\ TreeOK /\ SetsumsDiffer /\ LinkedIsStored => LogIsReadable
  BY ScanIsHistory DEF LogIsReadable
<1>2. Spec => []LinkedIsStored
  BY LinkedStays
<1> QED BY <1>1, <1>2, TreeInvariance, PTL

=============================================================================

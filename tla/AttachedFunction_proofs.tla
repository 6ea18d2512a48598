----------------------- MODULE AttachedFunction_proofs -----------------------
(***************************************************************************)
(* Proofs about AttachedFunction, for any number of functions, workers and *)
(* buckets, any number of records and any min_records_for_invocation.      *)
(*                                                                         *)
(* The argument: the two nonces of a function are equal or neighbours, so  *)
(* that whatever is in the heap and not done has one of them.  An item     *)
(* that is not done leaves the heap only for a later one of its function,  *)
(* or is excused.  A function that is due has such an item, or the tender  *)
(* has yet to read a mark.  That is kept by the tender when it carries the *)
(* item that it is about to put, and by a run that is about to end when it *)
(* carries the next one, or has found that there is nothing to run for.    *)
(***************************************************************************)
EXTENDS AttachedFunction, FiniteSetTheorems, NaturalsInduction, WellFoundedInduction, TLAPS

States == {"none", "partial", "ready", "deleted"}

Rows == [state : States, next_nonce : Nonces, lowest_live_nonce : Nonces,
         completion_offset : Nat, next_run : Buckets]

JobPcs == {"idle", "prepare", "scout", "execute", "register", "recheck", "push", "finish"}

Jobs == [pc : JobPcs, f : Functions \cup {None}, nonce : Nonces, fn : Rows,
         position : Nat, version : Nat]

Puts == [pc : {"none", "store", "pushed"}, bucket : Buckets, item : Items \cup {None},
         found : SUBSET Items, keep : SUBSET Items]

Shape ==
    /\ rows \in [Functions -> Rows]
    /\ version \in [Functions -> Nat]
    /\ heap \in [Buckets -> SUBSET Items]
    /\ now \in Buckets
    /\ DOMAIN attach = Functions
    /\ tender \in [pc : {"idle", "peek", "push", "save"}, limit : Nat]
    /\ jobs \in [Workers -> Jobs]
    /\ puts \in [Pushers -> Puts]
    /\ pruner \in Buckets \cup {None}
    /\ stripped \subseteq Functions

(* How far the records and their marks are.                                *)
Counted ==
    /\ {marked, log, compacted, cursor, excused, tender.limit} \subseteq Nat
    /\ compacted <= log /\ log <= marked /\ marked <= MaxRecords
    /\ excused <= log
    /\ cursor <= marked /\ tender.limit <= marked

(* The nonces of a row are equal or neighbours.                            *)
RowFits(row) ==
    /\ row.lowest_live_nonce <= row.next_nonce
    /\ row.next_nonce <= row.lowest_live_nonce + 1
    /\ row.completion_offset <= last_offset_processed(compacted)
    /\ row.state = "none" => row.next_nonce = 0 /\ row.completion_offset = 0
    /\ row.state = "partial" => row.lowest_live_nonce = 0

RowsFit == \A f \in Functions : RowFits(rows[f])

(* One function at most is not deleted.                                    *)
OneAttached ==
    \A f, g \in Functions :
        rows[f].state \in {"partial", "ready"} /\ rows[g].state \in {"partial", "ready"} => f = g

(* No item is ahead of its function.                                       *)
ItemFits(i) == i[2] <= rows[i[1]].next_nonce

ItemsFit ==
    /\ \A b \in Buckets : \A i \in heap[b] : ItemFits(i)
    /\ \A p \in Pushers :
          /\ puts[p].pc = "store" => puts[p].item \in Items /\ ItemFits(puts[p].item)
          /\ puts[p].keep \subseteq puts[p].found

(* What a job has read of its function is what the row was at some time.   *)
JobFits(job) ==
    /\ job.pc # "idle" => job.f \in Functions /\ rows[job.f].state \in {"ready", "deleted"}
    /\ job.pc \notin {"idle", "prepare"} =>
          /\ job.fn.next_nonce <= rows[job.f].next_nonce
          /\ job.fn.lowest_live_nonce <= rows[job.f].lowest_live_nonce
          /\ job.fn.completion_offset <= rows[job.f].completion_offset
    /\ job.pc = "register" =>
          /\ job.position <= compacted
          /\ job.version <= version[job.f]
          /\ job.version = version[job.f] =>
                rows[job.f].completion_offset <= last_offset_processed(job.position)

JobsFit == \A w \in Workers : JobFits(jobs[w])

(* The heap has an item of f that is not before n.                         *)
Has(f, n) == \E b \in Buckets : \E i \in heap[b] : i[1] = f /\ i[2] >= n

(* p is about to put such an item.                                         *)
Carries(p, f, n) == puts[p].pc = "store" /\ puts[p].item[1] = f /\ puts[p].item[2] >= n

(* A function is made ready with its first item in the heap.               *)
AttachFits ==
    \A f \in Functions :
        /\ puts[f].pc = "store" => puts[f].item = <<f, minimalUUIDv7>>
        /\ (/\ puts[f].pc = "pushed"
            /\ rows[f].state = "partial" /\ f \notin stripped) => Has(f, 0)

(* f has enough new records, none of them excused.                         *)
Due(f) ==
    /\ rows[f].state = "ready"
    /\ EnoughRecords(rows[f].completion_offset)
    /\ log > excused

(* The tender has read every mark, and is about to save that it has.       *)
Tending == tender.pc \in {"push", "save"} /\ tender.limit = marked

TenderCarries(f, n) == tender.pc = "push" /\ Carries("tender", f, n)

(* The run of w is about to end the live run of f.                         *)
Closing(w, f) ==
    /\ jobs[w].pc \in {"push", "finish"}
    /\ jobs[w].f = f /\ jobs[w].fn.next_nonce = rows[f].next_nonce

JobCarries(w, f, n) == jobs[w].pc = "push" /\ Carries(w, f, n)

Awake(f) == cursor < marked \/ Has(f, rows[f].lowest_live_nonce)

AwakeOnceTended(f) ==
    Tending => \/ Has(f, rows[f].lowest_live_nonce)
               \/ TenderCarries(f, rows[f].lowest_live_nonce)

AwakeOnceClosed(w, f) ==
    Closing(w, f) => \/ cursor < marked
                     \/ Has(f, rows[f].next_nonce)
                     \/ JobCarries(w, f, rows[f].next_nonce)

AwakeOnceBoth(w, f) ==
    Closing(w, f) /\ Tending => \/ Has(f, rows[f].next_nonce)
                                \/ JobCarries(w, f, rows[f].next_nonce)
                                \/ TenderCarries(f, rows[f].next_nonce)

DueAreAwake ==
    \A f \in Functions :
        Due(f) => /\ Awake(f) /\ AwakeOnceTended(f)
                  /\ \A w \in Workers : AwakeOnceClosed(w, f) /\ AwakeOnceBoth(w, f)

(* The inductive invariant.                                                *)
IInv ==
    /\ Shape /\ Counted /\ RowsFit /\ OneAttached /\ ItemsFit /\ JobsFit
    /\ AttachFits /\ DueAreAwake

-----------------------------------------------------------------------------
(* Facts about the operators and the constants.                            *)

LEMMA MaxOfTwo ==
    ASSUME NEW m \in Nat, NEW n \in Nat
    PROVE  Max({m, n}) \in {m, n} /\ Max({m, n}) >= m /\ Max({m, n}) >= n
<1>1. \E x \in {m, n} : \A y \in {m, n} : x >= y
  OBVIOUS
<1> QED
  BY <1>1 DEF Max

LEMMA LastOffset ==
    ASSUME NEW m \in Nat
    PROVE  last_offset_processed(m) \in Nat /\ last_offset_processed(m) <= m
BY DEF last_offset_processed

LEMMA LastOffsetGrows ==
    ASSUME NEW m \in Nat, NEW n \in Nat, m <= n
    PROVE  last_offset_processed(m) <= last_offset_processed(n)
BY DEF last_offset_processed

LEMMA ConstantFacts ==
    /\ Buckets \subseteq Nat /\ 1 \in Buckets
    /\ MaxNonce \in Nat \ {0} /\ MaxRecords \in Nat /\ MaxVersion \in Nat
    /\ min_records_for_invocation \in Nat \ {0}
    /\ InitialRecords \in Nat /\ InitialRecords <= MaxRecords
    /\ None \notin Buckets
    /\ Detached \subseteq Functions
<1>1. Cardinality(Buckets) \in Nat
  BY FS_CardinalityType, AttachedFunctionAssumption
<1>2. /\ Buckets \subseteq Nat /\ 1 \in Buckets
  <2> DEFINE n == Cardinality(Buckets)
  <2>1. n \in Nat /\ Buckets = 1..n /\ Buckets # {}
    BY <1>1, AttachedFunctionAssumption
  <2> HIDE DEF n
  <2> QED
    BY <2>1
<1>3. /\ MaxNonce \in Nat \ {0} /\ MaxRecords \in Nat /\ MaxVersion \in Nat
      /\ min_records_for_invocation \in Nat \ {0}
  BY AttachedFunctionAssumption
<1>4. InitialRecords \in Nat /\ InitialRecords <= MaxRecords
  BY <1>3, AttachedFunctionAssumption
<1> QED
  BY <1>2, <1>3, <1>4, AttachedFunctionAssumption

(* The pushers are told apart.                                             *)
LEMMA PusherFacts ==
    /\ "tender" \in Pushers /\ Functions \subseteq Pushers /\ Workers \subseteq Pushers
    /\ "tender" \notin Functions /\ "tender" \notin Workers
    /\ \A f \in Functions : \A w \in Workers : f # w
BY AttachedFunctionAssumption DEF Pushers

LEMMA ZeroNonce == 0 \in Nonces /\ 1 \in Nonces
BY ConstantFacts DEF Nonces

LEMMA NoRowType == NoRow \in Rows
BY ConstantFacts, ZeroNonce DEF NoRow, Rows, States

LEMMA IdleType == Idle \in Jobs /\ Idle.pc = "idle"
<1>1. None \in Functions \cup {None} /\ 0 \in Nat /\ "idle" \in JobPcs
  BY DEF JobPcs
<1> QED
  BY <1>1, NoRowType, ZeroNonce DEF Idle, Jobs

LEMMA NoPutType ==
    /\ NoPut \in Puts /\ NoPut.pc = "none" /\ NoPut.keep = {}
    /\ [NoPut EXCEPT !.pc = "pushed"] \in Puts
    /\ [NoPut EXCEPT !.pc = "pushed"].pc = "pushed"
    /\ [NoPut EXCEPT !.pc = "pushed"].keep = {}
<1>1. None \in Items \cup {None} /\ {} \in SUBSET Items /\ 1 \in Buckets
  BY ConstantFacts
<1> HIDE DEF Items
<1>2. NoPut \in Puts
  BY <1>1 DEF NoPut, Puts
<1>3. [NoPut EXCEPT !.pc = "pushed"] \in Puts
  BY <1>1 DEF NoPut, Puts
<1> QED
  BY <1>2, <1>3 DEF NoPut

-----------------------------------------------------------------------------
(* The initial states.                                                     *)

LEMMA InitHolds == Init => IInv
<1> SUFFICES ASSUME Init PROVE IInv
  OBVIOUS
<1> USE ConstantFacts, ZeroNonce
<1>1. PICK attached \in {{}} \cup {{f} : f \in Functions \ Detached} :
          /\ rows = [f \in Functions |->
                        IF f \in attached THEN [NoRow EXCEPT !.state = "ready", !.next_nonce = 1]
                        ELSE [NoRow EXCEPT !.state = IF f \in Detached THEN "deleted" ELSE "none"]]
          /\ heap = [b \in Buckets |-> IF b = 1 THEN (attached \cup Detached) \X {minimalUUIDv7} ELSE {}]
  BY DEF Init
<1>2. /\ \A f, g \in attached : f = g
      /\ attached \subseteq Functions
      /\ \A f \in attached : f \notin Detached
  OBVIOUS
<1>3. /\ marked = InitialRecords /\ log = marked /\ compacted = marked /\ cursor = marked
      /\ now = 1 /\ pruner = None /\ stripped = {} /\ excused = 0
      /\ version = [f \in Functions |-> 0]
      /\ attach = [f \in Functions |-> "none"]
      /\ tender = [pc |-> "idle", limit |-> 0]
      /\ jobs = [w \in Workers |-> Idle]
      /\ puts = [p \in Pushers |-> NoPut]
  BY DEF Init
<1>4. \A f \in Functions :
         /\ rows[f] \in Rows
         /\ rows[f].state = "ready" => f \in attached
         /\ rows[f].state # "partial"
         /\ rows[f].lowest_live_nonce = 0 /\ rows[f].next_nonce \in {0, 1}
         /\ rows[f].completion_offset = 0
         /\ rows[f].state = "none" => rows[f].next_nonce = 0
  BY <1>1, NoRowType DEF NoRow, Rows, States
<1>5. \A b \in Buckets : heap[b] \subseteq Items /\ \A i \in heap[b] : i[1] \in Functions /\ i[2] = 0
  <2> TAKE b \in Buckets
  <2>1. heap[b] \subseteq Functions \X {0}
    BY <1>1, <1>2 DEF minimalUUIDv7
  <2> QED
    BY <2>1 DEF Items
<1>6. \A f \in attached : <<f, 0>> \in heap[1]
  BY <1>1 DEF minimalUUIDv7
<1>7. Shape
  <2>1. rows \in [Functions -> Rows]
    BY <1>4, <1>1
  <2>2. heap \in [Buckets -> SUBSET Items]
    BY <1>5, <1>1
  <2> QED
    BY <2>1, <2>2, <1>3, IdleType, NoPutType DEF Shape
<1>8. Counted
  BY <1>3 DEF Counted
<1>9. RowsFit
  BY <1>3, <1>4 DEF RowsFit, RowFits, last_offset_processed
<1>10. OneAttached
  BY <1>4, <1>2 DEF OneAttached
<1>11. ItemsFit
  BY <1>3, <1>4, <1>5, NoPutType DEF ItemsFit, ItemFits, Rows
<1>12. JobsFit
  BY <1>3, IdleType DEF JobsFit, JobFits
<1>13. AttachFits
  BY <1>3, NoPutType, PusherFacts DEF AttachFits
<1>14. DueAreAwake
  <2> SUFFICES ASSUME NEW f \in Functions, Due(f)
               PROVE  /\ Awake(f) /\ AwakeOnceTended(f)
                      /\ \A w \in Workers : AwakeOnceClosed(w, f) /\ AwakeOnceBoth(w, f)
    BY DEF DueAreAwake
  <2>1. <<f, 0>> \in heap[1]
    BY <1>4, <1>6 DEF Due
  <2>2. Has(f, 0)
    BY <2>1 DEF Has
  <2> QED
    BY <2>2, <1>3, <1>4, IdleType DEF Awake, AwakeOnceTended, AwakeOnceClosed, AwakeOnceBoth, Tending, Closing
<1> QED
  BY <1>7, <1>8, <1>9, <1>10, <1>11, <1>12, <1>13, <1>14 DEF IInv

-----------------------------------------------------------------------------
(* The steps of the collection.                                            *)

LEMMA LogStepKeeps ==
    ASSUME IInv, UNCHANGED <<cursor, rows, version, attach, tender, jobs>>, UNCHANGED heapVars,
           compacted' \in Nat, compacted' >= compacted
    PROVE  /\ Shape' /\ RowsFit' /\ OneAttached' /\ ItemsFit' /\ JobsFit' /\ AttachFits'
<1>1. Shape'
  BY DEF IInv, Shape, heapVars
<1>2. RowsFit'
  <2>1. last_offset_processed(compacted) <= last_offset_processed(compacted')
        /\ last_offset_processed(compacted) \in Nat /\ last_offset_processed(compacted') \in Nat
    BY LastOffset, LastOffsetGrows DEF IInv, Counted
  <2>2. \A f \in Functions : RowFits(rows[f])
    BY DEF IInv, RowsFit
  <2>3. \A f \in Functions : rows[f].completion_offset \in Nat
    BY DEF IInv, Shape, Rows
  <2> QED
    BY <2>1, <2>2, <2>3 DEF RowsFit, RowFits
<1>3. OneAttached'
  BY DEF IInv, OneAttached
<1>4. ItemsFit'
  BY DEF IInv, ItemsFit, ItemFits, heapVars
<1>5. JobsFit'
  <2>1. \A w \in Workers : jobs[w].position \in Nat
    BY DEF IInv, Shape, Jobs
  <2>2. compacted \in Nat
    BY DEF IInv, Counted
  <2> QED
    BY <2>1, <2>2 DEF IInv, JobsFit, JobFits
<1>6. AttachFits'
  BY DEF IInv, AttachFits, Has, heapVars
<1> QED
  BY <1>1, <1>2, <1>3, <1>4, <1>5, <1>6

LEMMA MarkDirtyKeeps == IInv /\ MarkDirty => IInv'
<1> SUFFICES ASSUME IInv, MarkDirty PROVE IInv'
  OBVIOUS
<1>1. Counted
  BY DEF IInv
<1>2. compacted' \in Nat /\ compacted' >= compacted
  BY <1>1 DEF Counted, MarkDirty
<1>3. /\ Shape' /\ RowsFit' /\ OneAttached' /\ ItemsFit' /\ JobsFit' /\ AttachFits'
  BY <1>2, LogStepKeeps DEF MarkDirty
<1>4. MaxRecords \in Nat
  BY ConstantFacts
<1>5. Counted'
  BY <1>1, <1>4 DEF Counted, MarkDirty
<1>6. cursor' < marked' /\ tender'.limit # marked'
  BY <1>1 DEF Counted, MarkDirty
<1>7. DueAreAwake'
  BY <1>6 DEF DueAreAwake, Awake, AwakeOnceTended, AwakeOnceClosed, AwakeOnceBoth, Tending
<1> QED
  BY <1>3, <1>5, <1>7 DEF IInv

LEMMA LinkKeeps == IInv /\ Link => IInv'
<1> SUFFICES ASSUME IInv, Link PROVE IInv'
  OBVIOUS
<1>1. Counted
  BY DEF IInv
<1>2. compacted' \in Nat /\ compacted' >= compacted
  BY <1>1 DEF Counted, Link
<1>3. /\ Shape' /\ RowsFit' /\ OneAttached' /\ ItemsFit' /\ JobsFit' /\ AttachFits'
  BY <1>2, LogStepKeeps DEF Link
<1>4. Max({cursor, tender.limit}) >= cursor /\ Max({cursor, tender.limit}) >= tender.limit
      /\ Max({cursor, tender.limit}) \in Nat
  BY <1>1, MaxOfTwo DEF Counted
<1>5. Counted'
  BY <1>1 DEF Counted, Link
<1>6. log' > excused' => cursor' < marked' /\ tender'.limit # marked'
  BY <1>1, <1>4 DEF Counted, Link
<1>7. DueAreAwake'
  BY <1>6 DEF DueAreAwake, Due, Awake, AwakeOnceTended, AwakeOnceClosed, AwakeOnceBoth, Tending
<1> QED
  BY <1>3, <1>5, <1>7 DEF IInv

LEMMA CompactKeeps == IInv /\ Compact => IInv'
<1> SUFFICES ASSUME IInv, Compact PROVE IInv'
  OBVIOUS
<1>1. Counted
  BY DEF IInv
<1>2. compacted' \in Nat /\ compacted' >= compacted
  BY <1>1 DEF Counted, Compact
<1>3. /\ Shape' /\ RowsFit' /\ OneAttached' /\ ItemsFit' /\ JobsFit' /\ AttachFits'
  BY <1>2, LogStepKeeps DEF Compact
<1>5. Counted'
  BY <1>1 DEF Counted, Compact
<1>7. DueAreAwake'
  BY DEF IInv, Compact, heapVars, DueAreAwake, Due, EnoughRecords, Awake, AwakeOnceTended, AwakeOnceClosed,
         AwakeOnceBoth, Tending, Closing, JobCarries, TenderCarries, Carries, Has
<1> QED
  BY <1>3, <1>5, <1>7 DEF IInv

-----------------------------------------------------------------------------
(* The steps of the heap.                                                  *)

(* What is not dropped is in the heap, or replaced by a later item.        *)
Replaced(dropped) ==
    \A b \in Buckets : \A i \in heap[b] : i \in dropped \/ Has(i[1], i[2])'

(* Items that are not done stay, or their function is excused.             *)
Kept ==
    \A f \in Functions, n \in Nat :
        Has(f, n) => /\ (rows[f].state = "ready" /\ n >= rows[f].lowest_live_nonce) =>
                            Has(f, n)' \/ excused' >= log
                     /\ rows[f].state = "partial" => Has(f, n)' \/ f \in stripped'

LEMMA DropExcuses ==
    ASSUME IInv, NEW dropped, Drop(dropped)
    PROVE  /\ excused' \in Nat /\ excused' >= excused /\ excused' <= log
           /\ stripped \subseteq stripped' /\ stripped' \subseteq Functions
           /\ \A i \in dropped : ~are_done(i) => excused' >= log
           /\ \A i \in dropped : \A f \in Functions : rows[f].state = "partial" /\ i[1] = f => f \in stripped'
<1>1. log \in Nat /\ excused \in Nat /\ excused <= log
  BY DEF IInv, Counted
<1>2. Max({log, excused}) \in {log, excused} /\ Max({log, excused}) >= log /\ Max({log, excused}) >= excused
  BY <1>1, MaxOfTwo
<1>3. stripped \subseteq Functions
  BY DEF IInv, Shape
<1>4. \/ excused' = Max({log, excused})
      \/ excused' = excused /\ \A i \in dropped : are_done(i)
  BY DEF Drop
<1>5. /\ excused' \in Nat /\ excused' >= excused /\ excused' <= log
      /\ \A i \in dropped : ~are_done(i) => excused' >= log
  <2> DEFINE m == Max({log, excused})
  <2>1. m \in Nat /\ m >= log /\ m >= excused /\ m <= log
    BY <1>1, <1>2
  <2>2. excused' = m \/ (excused' = excused /\ \A i \in dropped : are_done(i))
    BY <1>4
  <2> HIDE DEF m
  <2> QED
    BY <1>1, <2>1, <2>2
<1>6. /\ stripped \subseteq stripped' /\ stripped' \subseteq Functions
      /\ \A i \in dropped : \A f \in Functions : rows[f].state = "partial" /\ i[1] = f => f \in stripped'
  BY <1>3 DEF Drop
<1> QED
  BY <1>5, <1>6

LEMMA DropKeeps ==
    ASSUME IInv, NEW dropped, Drop(dropped), Replaced(dropped), UNCHANGED <<rows, log>>,
           heap' \in [Buckets -> SUBSET Items]
    PROVE  Kept
<1> SUFFICES ASSUME NEW f \in Functions, NEW n \in Nat, Has(f, n)
             PROVE  /\ (rows[f].state = "ready" /\ n >= rows[f].lowest_live_nonce) =>
                            Has(f, n)' \/ excused' >= log
                    /\ rows[f].state = "partial" => Has(f, n)' \/ f \in stripped'
  BY DEF Kept
<1>1. PICK b \in Buckets : \E i \in heap[b] : i[1] = f /\ i[2] >= n
  BY DEF Has
<1>2. PICK i \in heap[b] : i[1] = f /\ i[2] >= n
  BY <1>1
<1>3. i \in Items /\ i[2] \in Nat
  BY ConstantFacts DEF IInv, Shape, Items, Nonces
<1>4. CASE i \in dropped
  <2>1. rows[f].lowest_live_nonce \in Nat
    BY ConstantFacts DEF IInv, Shape, Rows, Nonces
  <2>2. rows[f].state = "ready" /\ n >= rows[f].lowest_live_nonce => ~are_done(i)
    BY <2>1, <1>2, <1>3 DEF are_done
  <2> QED
    BY <2>2, <1>2, <1>4, DropExcuses
<1>5. CASE Has(i[1], i[2])'
  <2>1. PICK c \in Buckets : \E j \in heap'[c] : j[1] = f /\ j[2] >= i[2]
    BY <1>5, <1>2 DEF Has
  <2>2. PICK j \in heap'[c] : j[1] = f /\ j[2] >= i[2]
    BY <2>1
  <2>3. j[2] \in Nat
    BY ConstantFacts DEF Items, Nonces
  <2>4. j[2] >= n
    BY <2>2, <2>3, <1>2, <1>3
  <2>5. Has(f, n)'
    BY <2>2, <2>4 DEF Has
  <2> QED
    BY <2>5
<1> QED
  BY <1>4, <1>5 DEF Replaced

(* What a run or the tender was about to put it still is, or has put.      *)
Delivered ==
    \A p \in Workers \cup {"tender"}, f \in Functions, n \in Nat : Carries(p, f, n) => Carries(p, f, n)' \/ Has(f, n)'

LEMMA HeapKeepsAwake ==
    ASSUME IInv, UNCHANGED <<cursor, marked, log, rows, tender, jobs>>,
           Kept, Delivered, excused' \in Nat, excused' >= excused
    PROVE  DueAreAwake'
<1> SUFFICES ASSUME NEW f \in Functions, Due(f)'
             PROVE  /\ Awake(f)' /\ AwakeOnceTended(f)'
                    /\ \A w \in Workers : AwakeOnceClosed(w, f)' /\ AwakeOnceBoth(w, f)'
  BY DEF DueAreAwake
<1> DEFINE low == rows[f].lowest_live_nonce
           next == rows[f].next_nonce
<1>1. low \in Nat /\ next \in Nat /\ next >= low
  BY ConstantFacts DEF IInv, Shape, Rows, Nonces, RowsFit, RowFits
<1>2. Due(f) /\ ~(excused' >= log) /\ rows[f].state = "ready"
  <2>1. log \in Nat /\ excused \in Nat
    BY DEF IInv, Counted
  <2> QED
    BY <2>1 DEF Due, EnoughRecords
<1>3. Has(f, low) => Has(f, low)'
  BY <1>1, <1>2 DEF Kept
<1>4. Has(f, next) => Has(f, next)'
  BY <1>1, <1>2 DEF Kept
<1>5. \A p \in Workers \cup {"tender"} : Carries(p, f, low) => Carries(p, f, low)' \/ Has(f, low)'
  BY <1>1 DEF Delivered
<1>6. \A p \in Workers \cup {"tender"} : Carries(p, f, next) => Carries(p, f, next)' \/ Has(f, next)'
  BY <1>1 DEF Delivered
<1>7. rows'[f].lowest_live_nonce = low /\ rows'[f].next_nonce = next
  OBVIOUS
<1>8. /\ Awake(f) /\ AwakeOnceTended(f)
      /\ \A w \in Workers : AwakeOnceClosed(w, f) /\ AwakeOnceBoth(w, f)
  BY <1>2 DEF IInv, DueAreAwake
<1>9. Awake(f)'
  BY <1>3, <1>8 DEF Awake, Has
<1>10. AwakeOnceTended(f)'
  BY <1>3, <1>5, <1>8, PusherFacts DEF AwakeOnceTended, Tending, TenderCarries, Carries, Has
<1>11. ASSUME NEW w \in Workers
       PROVE  AwakeOnceClosed(w, f)' /\ AwakeOnceBoth(w, f)'
  <2>1. Closing(w, f)' => Closing(w, f)
    BY DEF Closing
  <2>2. w \in Workers \cup {"tender"}
    OBVIOUS
  <2>3. JobCarries(w, f, next) => JobCarries(w, f, next)' \/ Has(f, next)'
    BY <2>2, <1>6 DEF JobCarries
  <2>4. TenderCarries(f, next) => TenderCarries(f, next)' \/ Has(f, next)'
    BY <1>6, PusherFacts DEF TenderCarries
  <2>5. Tending' <=> Tending
    BY DEF Tending
  <2> QED
    BY <2>1, <2>3, <2>4, <2>5, <1>4, <1>8 DEF AwakeOnceClosed, AwakeOnceBoth, Has, JobCarries, TenderCarries, Carries
<1> QED
  BY <1>9, <1>10, <1>11

(* A set of numbers with a bound has a greatest one.                       *)
LEMMA GreatestOf ==
    ASSUME NEW B \in Nat, NEW S \in SUBSET (0..B), S # {}
    PROVE  \E n \in S : \A m \in S : m <= n
<1> DEFINE R == {ss \in Nat \X Nat : ss[1] < ss[2]}
           T == {k \in Nat : B - k \in S}
<1>1. IsWellFoundedOn(R, Nat)
  BY NatLessThanWellFounded DEF OpToRel
<1>2. T \subseteq Nat /\ T # {}
  <2>1. PICK x \in S : TRUE
    OBVIOUS
  <2>2. B - x \in Nat /\ B - (B - x) = x
    OBVIOUS
  <2> QED
    BY <2>1, <2>2
<1>3. PICK k \in T : \A l \in T : ~(<<l, k>> \in R)
  <2> HIDE DEF R, T
  <2> QED
    BY <1>1, <1>2, WFMin
<1>4. \A l \in T : ~(l < k)
  BY <1>2, <1>3
<1>5. k \in Nat /\ B - k \in S
  BY <1>3
<1>6. \A m \in S : B - m \in T
  OBVIOUS
<1>7. \A m \in S : ~(B - m < k)
  BY <1>4, <1>6
<1> QED
  BY <1>5, <1>7

(* dedup keeps an item of every function that has one, the last.           *)
LEMMA DedupCovers ==
    ASSUME NEW S \in SUBSET Items
    PROVE  /\ dedup(S) \subseteq S
           /\ \A i \in S : \E j \in dedup(S) : j[1] = i[1] /\ j[2] >= i[2]
<1>1. dedup(S) \subseteq S
  BY DEF dedup
<1>2. ASSUME NEW i \in S
      PROVE  \E j \in dedup(S) : j[1] = i[1] /\ j[2] >= i[2]
  <2> DEFINE N == {j[2] : j \in {k \in S : k[1] = i[1]}}
  <2>1. MaxNonce \in Nat /\ \A j \in S : j[2] \in 0..MaxNonce
    BY ConstantFacts DEF Items, Nonces
  <2>2. N \subseteq 0..MaxNonce /\ i[2] \in N
    BY <2>1
  <2>3. PICK n \in N : \A m \in N : m <= n
    <3> HIDE DEF N
    <3> QED
      BY <2>1, <2>2, GreatestOf
  <2>4. PICK j \in S : j[1] = i[1] /\ j[2] = n
    OBVIOUS
  <2>5. \A k \in S : k[1] = j[1] => k[2] <= j[2]
    BY <2>3, <2>4
  <2>6. j \in dedup(S)
    BY <2>5 DEF dedup
  <2>7. j[2] >= i[2]
    BY <2>1, <2>2, <2>3, <2>4
  <2> QED
    BY <2>4, <2>6, <2>7
<1> QED
  BY <1>1, <1>2

(* Steps of the heap that put nothing.                                     *)
LEMMA HeapStepKeeps ==
    ASSUME IInv, UNCHANGED <<cursor, rows, version, attach, tender, jobs>>, UNCHANGED logVars,
           UNCHANGED puts, now' \in Buckets, pruner' \in Buckets \cup {None},
           heap' \in [Buckets -> SUBSET Items],
           \A b \in Buckets : heap'[b] \subseteq heap[b],
           NEW dropped, Drop(dropped), Replaced(dropped)
    PROVE  IInv'
<1>1. /\ excused' \in Nat /\ excused' >= excused /\ excused' <= log
      /\ stripped \subseteq stripped' /\ stripped' \subseteq Functions
  BY DropExcuses
<1>2. Kept
  BY DropKeeps DEF logVars
<1>3. Shape'
  BY <1>1 DEF IInv, Shape
<1>4. Counted'
  BY <1>1 DEF IInv, Counted, logVars
<1>5. RowsFit' /\ OneAttached'
  BY DEF IInv, RowsFit, RowFits, OneAttached, logVars
<1>6. ItemsFit'
  BY DEF IInv, ItemsFit, ItemFits
<1>7. JobsFit'
  BY DEF IInv, JobsFit, JobFits, logVars
<1>8. AttachFits'
  <2> SUFFICES ASSUME NEW f \in Functions
               PROVE  /\ puts'[f].pc = "store" => puts'[f].item = <<f, minimalUUIDv7>>
                      /\ (/\ puts'[f].pc = "pushed"
                          /\ rows'[f].state = "partial" /\ f \notin stripped') => Has(f, 0)'
    BY DEF AttachFits
  <2>1. Has(f, 0) /\ rows[f].state = "partial" => Has(f, 0)' \/ f \in stripped'
    BY <1>2 DEF Kept
  <2> QED
    BY <2>1, <1>1 DEF IInv, AttachFits
<1>9. Delivered
  BY DEF Delivered, Carries
<1>10. DueAreAwake'
  BY <1>1, <1>2, <1>9, HeapKeepsAwake DEF logVars
<1> QED
  BY <1>3, <1>4, <1>5, <1>6, <1>7, <1>8, <1>10 DEF IInv

(* Steps that only look.                                                   *)
LEMMA LookKeeps ==
    ASSUME IInv, UNCHANGED <<cursor, rows, version, heap, attach, tender, jobs, puts, stripped, excused>>,
           UNCHANGED logVars, now' \in Buckets, pruner' \in Buckets \cup {None}
    PROVE  IInv'
<1>1. Shape' /\ Counted'
  BY DEF IInv, Shape, Counted, logVars
<1>2. RowsFit' /\ OneAttached' /\ ItemsFit' /\ JobsFit'
  BY DEF IInv, RowsFit, RowFits, OneAttached, ItemsFit, ItemFits, JobsFit, JobFits, logVars
<1>3. AttachFits'
  BY DEF IInv, AttachFits, Has
<1>4. DueAreAwake'
  BY DEF IInv, logVars, DueAreAwake, Due, EnoughRecords, Awake, AwakeOnceTended, AwakeOnceClosed,
         AwakeOnceBoth, Tending, Closing, JobCarries, TenderCarries, Carries, Has
<1> QED
  BY <1>1, <1>2, <1>3, <1>4 DEF IInv

LEMMA PruneBucketKeeps == IInv /\ (\E b \in Buckets : PruneBucket(b)) => IInv'
<1> SUFFICES ASSUME IInv, NEW b \in Buckets, PruneBucket(b) PROVE IInv'
  OBVIOUS
<1> DEFINE keep == {i \in heap[b] : ~are_done(i)}
<1>1. heap \in [Buckets -> SUBSET Items] /\ now \in Buckets /\ pruner \in Buckets \cup {None}
  BY DEF IInv, Shape
<1>2. heap' = [heap EXCEPT ![b] = keep]
  BY DEF PruneBucket
<1>3. heap' \in [Buckets -> SUBSET Items] /\ \A c \in Buckets : heap'[c] \subseteq heap[c]
  BY <1>1, <1>2
<1>4. Replaced(heap[b] \ keep)
  <2> SUFFICES ASSUME NEW c \in Buckets, NEW i \in heap[c]
               PROVE  i \in heap[b] \ keep \/ Has(i[1], i[2])'
    BY DEF Replaced
  <2>1. i \in heap[b] \ keep \/ i \in heap'[c]
    BY <1>1, <1>2
  <2>2. i[2] >= i[2]
    BY <1>1, ConstantFacts DEF Items, Nonces
  <2> QED
    BY <2>1, <2>2 DEF Has
<1>5. Drop(heap[b] \ keep)
  BY DEF PruneBucket
<1>6. /\ UNCHANGED <<cursor, rows, version, attach, tender, jobs>> /\ UNCHANGED logVars
      /\ UNCHANGED puts /\ now' \in Buckets /\ pruner' \in Buckets \cup {None}
  BY <1>1 DEF PruneBucket
<1> HIDE DEF keep
<1> QED
  BY <1>3, <1>4, <1>5, <1>6, HeapStepKeeps

LEMMA ClearBucketKeeps == IInv /\ ClearBucket => IInv'
<1> SUFFICES ASSUME IInv, ClearBucket PROVE IInv'
  OBVIOUS
<1>1. heap \in [Buckets -> SUBSET Items] /\ now \in Buckets /\ pruner \in Buckets
  BY DEF IInv, Shape, ClearBucket
<1>2. heap' = [heap EXCEPT ![pruner] = {}]
  BY DEF ClearBucket
<1>3. heap' \in [Buckets -> SUBSET Items] /\ \A c \in Buckets : heap'[c] \subseteq heap[c]
  BY <1>1, <1>2
<1>4. Replaced(heap[pruner])
  <2> SUFFICES ASSUME NEW c \in Buckets, NEW i \in heap[c]
               PROVE  i \in heap[pruner] \/ Has(i[1], i[2])'
    BY DEF Replaced
  <2>1. i \in heap[pruner] \/ i \in heap'[c]
    BY <1>1, <1>2
  <2>2. i[2] >= i[2]
    BY <1>1, ConstantFacts DEF Items, Nonces
  <2> QED
    BY <2>1, <2>2 DEF Has
<1>5. Drop(heap[pruner])
  BY DEF ClearBucket
<1>6. /\ UNCHANGED <<cursor, rows, version, attach, tender, jobs>> /\ UNCHANGED logVars
      /\ UNCHANGED puts /\ now' \in Buckets /\ pruner' \in Buckets \cup {None}
  BY <1>1 DEF ClearBucket
<1> QED
  BY <1>3, <1>4, <1>5, <1>6, HeapStepKeeps

LEMMA PruneEmptyKeeps == IInv /\ (\E b \in Buckets : PruneEmpty(b)) => IInv'
<1> SUFFICES ASSUME IInv, NEW b \in Buckets, PruneEmpty(b) PROVE IInv'
  OBVIOUS
<1>1. now' \in Buckets /\ pruner' \in Buckets \cup {None}
  BY DEF IInv, Shape, PruneEmpty
<1> QED
  BY <1>1, LookKeeps DEF PruneEmpty

LEMMA TickKeeps == IInv /\ Tick => IInv'
<1> SUFFICES ASSUME IInv, Tick PROVE IInv'
  OBVIOUS
<1>1. now' \in Buckets /\ pruner' \in Buckets \cup {None}
  BY DEF IInv, Shape, Tick
<1> QED
  BY <1>1, LookKeeps DEF Tick

(* A push reads the bucket of an item that is not ahead of its function.   *)
LEMMA PushFits ==
    ASSUME IInv, NEW p \in Pushers, NEW i \in Items, NEW b \in Buckets, Push(p, i, b)
    PROVE  /\ puts' \in [Pushers -> Puts]
           /\ puts'[p].pc = "store" /\ puts'[p].item = i /\ puts'[p].keep \subseteq puts'[p].found
           /\ \A q \in Pushers : q # p => puts'[q] = puts[q]
<1>1. puts \in [Pushers -> Puts] /\ heap[b] \subseteq Items
  BY DEF IInv, Shape
<1> DEFINE keep == {j \in heap[b] : ~are_done(j)}
           put == [pc |-> "store", bucket |-> b, item |-> i, found |-> heap[b], keep |-> keep]
<1>2. keep \subseteq heap[b]
  OBVIOUS
<1>3. keep \in SUBSET Items /\ heap[b] \in SUBSET Items /\ i \in Items \cup {None}
  BY <1>1, <1>2
<1>4. puts' = [puts EXCEPT ![p] = put]
  BY DEF Push
<1> HIDE DEF keep, Items
<1>5. put \in Puts
  BY <1>3 DEF Puts
<1> QED
  BY <1>1, <1>2, <1>4, <1>5

(* What a put does, whether the bucket is stored or loaded again.          *)
LEMMA MergeEffect ==
    ASSUME IInv, NEW p \in Pushers, MergeStore(p)
    PROVE  /\ heap' \in [Buckets -> SUBSET Items]
           /\ \A b \in Buckets : \A i \in heap'[b] : i \in heap[b] \/ i = puts[p].item
           /\ puts' \in [Pushers -> Puts]
           /\ \A q \in Pushers : q # p => puts'[q] = puts[q]
           /\ puts'[p].keep \subseteq puts'[p].found
           /\ \/ puts'[p].pc = "store" /\ puts'[p].item = puts[p].item
              \/ puts'[p].pc = "pushed" /\ \A i \in {puts[p].item} : Has(i[1], i[2])'
           /\ Replaced(IF heap[puts[p].bucket] = puts[p].found THEN puts[p].found \ puts[p].keep ELSE {})
<1> DEFINE b == puts[p].bucket
           item == puts[p].item
           S == puts[p].keep \cup {item}
<1>1. /\ heap \in [Buckets -> SUBSET Items] /\ puts \in [Pushers -> Puts]
      /\ b \in Buckets /\ item \in Items /\ puts[p].keep \subseteq puts[p].found
      /\ puts[p].found \subseteq Items
  BY DEF IInv, Shape, Puts, ItemsFit, MergeStore
<1>2. \A i \in Items : i[2] >= i[2]
  BY ConstantFacts DEF Items, Nonces
<1>3. CASE heap[b] = puts[p].found
  <2>1. S \in SUBSET Items
    BY <1>1
  <2>2. /\ dedup(S) \subseteq S
        /\ \A i \in S : \E j \in dedup(S) : j[1] = i[1] /\ j[2] >= i[2]
    <3> HIDE DEF S
    <3> QED
      BY <2>1, DedupCovers
  <2>3. heap' = [heap EXCEPT ![b] = dedup(S)]
    BY <1>3 DEF MergeStore
  <2>4. puts' = [puts EXCEPT ![p] = [NoPut EXCEPT !.pc = "pushed"]]
    BY <1>3 DEF MergeStore
  <2>5. heap' \in [Buckets -> SUBSET Items]
    BY <1>1, <2>1, <2>2, <2>3
  <2>6. \A c \in Buckets : \A i \in heap'[c] : i \in heap[c] \/ i = item
    BY <1>1, <1>3, <2>2, <2>3
  <2>7. /\ puts' \in [Pushers -> Puts]
        /\ \A q \in Pushers : q # p => puts'[q] = puts[q]
        /\ puts'[p].keep \subseteq puts'[p].found /\ puts'[p].pc = "pushed"
    BY <1>1, <2>4, NoPutType
  <2>8. heap'[b] = dedup(S)
    BY <1>1, <2>3
  <2>9. \A i \in {item} : Has(i[1], i[2])'
    <3> TAKE i \in {item}
    <3>1. PICK j \in heap'[b] : j[1] = i[1] /\ j[2] >= i[2]
      BY <2>2, <2>8
    <3> QED
      BY <1>1, <3>1 DEF Has
  <2>10. Replaced(puts[p].found \ puts[p].keep)
    <3> SUFFICES ASSUME NEW c \in Buckets, NEW i \in heap[c], ~(i \in puts[p].found \ puts[p].keep)
                 PROVE  Has(i[1], i[2])'
      BY DEF Replaced
    <3>1. CASE c = b
      <4>1. i \in S
        BY <1>3, <3>1
      <4>2. PICK j \in heap'[b] : j[1] = i[1] /\ j[2] >= i[2]
        BY <2>2, <2>8, <4>1
      <4> QED
        BY <1>1, <4>2 DEF Has
    <3>2. CASE c # b
      <4>1. i \in heap'[c] /\ i \in Items
        BY <1>1, <2>3, <3>2
      <4> QED
        BY <1>2, <4>1 DEF Has
    <3> QED
      BY <3>1, <3>2
  <2> HIDE DEF b, S
  <2> QED
    BY <1>3, <2>5, <2>6, <2>7, <2>9, <2>10 DEF b
<1>4. CASE heap[b] # puts[p].found
  <2>1. heap' = heap /\ Push(p, item, b)
    BY <1>4 DEF MergeStore
  <2>2. /\ puts' \in [Pushers -> Puts]
        /\ puts'[p].pc = "store" /\ puts'[p].item = item /\ puts'[p].keep \subseteq puts'[p].found
        /\ \A q \in Pushers : q # p => puts'[q] = puts[q]
    BY <1>1, <2>1, PushFits
  <2>3. Replaced({})
    BY <1>1, <1>2, <2>1 DEF Replaced, Has
  <2> QED
    BY <1>1, <1>4, <2>1, <2>2, <2>3
<1> QED
  BY <1>3, <1>4

LEMMA MergeStoreKeeps == IInv /\ (\E p \in Pushers : MergeStore(p)) => IInv'
<1> SUFFICES ASSUME IInv, NEW p \in Pushers, MergeStore(p) PROVE IInv'
  OBVIOUS
<1> DEFINE item == puts[p].item
           dropped == IF heap[puts[p].bucket] = puts[p].found THEN puts[p].found \ puts[p].keep ELSE {}
<1>1. /\ heap' \in [Buckets -> SUBSET Items]
      /\ \A b \in Buckets : \A i \in heap'[b] : i \in heap[b] \/ i = item
      /\ puts' \in [Pushers -> Puts]
      /\ \A q \in Pushers : q # p => puts'[q] = puts[q]
      /\ puts'[p].keep \subseteq puts'[p].found
      /\ \/ puts'[p].pc = "store" /\ puts'[p].item = item
         \/ puts'[p].pc = "pushed" /\ \A i \in {item} : Has(i[1], i[2])'
      /\ Replaced(dropped)
  BY MergeEffect
<1>2. Drop(dropped)
  BY DEF MergeStore
<1>3. /\ UNCHANGED <<cursor, rows, version, now, attach, tender, jobs, pruner>> /\ UNCHANGED logVars
      /\ puts[p].pc = "store"
  BY DEF MergeStore
<1> HIDE DEF dropped
<1>4. /\ excused' \in Nat /\ excused' >= excused /\ excused' <= log
      /\ stripped \subseteq stripped' /\ stripped' \subseteq Functions
  BY <1>2, DropExcuses
<1>5. Kept
  BY <1>1, <1>2, <1>3, DropKeeps DEF logVars
<1>6. item \in Items /\ ItemFits(item) /\ item[1] \in Functions /\ item[2] \in Nat
  BY <1>3, ConstantFacts DEF IInv, ItemsFit, Items, Nonces
<1>7. Shape'
  BY <1>1, <1>3, <1>4 DEF IInv, Shape
<1>8. Counted'
  BY <1>3, <1>4 DEF IInv, Counted, logVars
<1>9. RowsFit' /\ OneAttached'
  BY <1>3 DEF IInv, RowsFit, RowFits, OneAttached, logVars
<1>10. ItemsFit'
  <2>1. \A i : ItemFits(i)' <=> ItemFits(i)
    BY <1>3 DEF ItemFits
  <2>2. \A b \in Buckets : \A i \in heap'[b] : ItemFits(i)'
    BY <1>1, <1>6, <2>1 DEF IInv, ItemsFit
  <2>3. ASSUME NEW q \in Pushers
        PROVE  /\ puts'[q].pc = "store" => puts'[q].item \in Items /\ (ItemFits(puts[q].item))'
               /\ puts'[q].keep \subseteq puts'[q].found
    <3>1. CASE q = p
      BY <1>1, <1>6, <2>1, <3>1
    <3>2. CASE q # p
      BY <1>1, <2>1, <3>2 DEF IInv, ItemsFit
    <3> QED
      BY <3>1, <3>2
  <2> QED
    BY <2>2, <2>3 DEF ItemsFit
<1>11. JobsFit'
  BY <1>3 DEF IInv, JobsFit, JobFits, logVars
<1>12. Delivered
  <2> SUFFICES ASSUME NEW q \in Pushers, NEW f \in Functions, NEW n \in Nat, Carries(q, f, n)
               PROVE  Carries(q, f, n)' \/ Has(f, n)'
    BY DEF Delivered, Pushers
  <2>1. CASE q # p
    BY <1>1, <2>1 DEF Carries
  <2>2. CASE q = p /\ puts'[p].pc = "store" /\ puts'[p].item = item
    BY <2>2 DEF Carries
  <2>3. CASE q = p /\ \A i \in {item} : Has(i[1], i[2])'
    <3>1. item[1] = f /\ item[2] >= n
      BY <2>3 DEF Carries
    <3>2. PICK b \in Buckets : \E i \in heap'[b] : i[1] = f /\ i[2] >= item[2]
      <4>1. PICK j \in {item} : TRUE
        OBVIOUS
      <4>2. Has(j[1], j[2])'
        BY <2>3
      <4> QED
        BY <3>1, <4>1, <4>2 DEF Has
    <3>3. PICK i \in heap'[b] : i[1] = f /\ i[2] >= item[2]
      BY <3>2
    <3>4. i[2] \in Nat
      BY <1>1, ConstantFacts DEF Items, Nonces
    <3>5. i[2] >= n
      BY <1>6, <3>1, <3>3, <3>4
    <3> QED
      BY <3>3, <3>5 DEF Has
  <2> QED
    BY <1>1, <2>1, <2>2, <2>3
<1>13. AttachFits'
  <2> SUFFICES ASSUME NEW f \in Functions
               PROVE  /\ puts'[f].pc = "store" => puts'[f].item = <<f, minimalUUIDv7>>
                      /\ (/\ puts'[f].pc = "pushed"
                          /\ rows'[f].state = "partial" /\ f \notin stripped') => Has(f, 0)'
    BY DEF AttachFits
  <2>1. Has(f, 0) /\ rows[f].state = "partial" => Has(f, 0)' \/ f \in stripped'
    BY <1>5 DEF Kept
  <2>2. f \in Pushers
    BY PusherFacts
  <2>3. CASE f # p
    BY <1>1, <1>3, <1>4, <2>1, <2>2, <2>3 DEF IInv, AttachFits
  <2>4. CASE f = p
    <3>1. item = <<f, 0>>
      BY <1>3, <2>4 DEF IInv, AttachFits, minimalUUIDv7
    <3>2. puts'[p].pc = "pushed" => Has(f, 0)'
      <4>1. PICK j \in {item} : j[1] = f /\ j[2] = 0
        BY <3>1
      <4> QED
        BY <1>1, <4>1
    <3> QED
      BY <1>1, <2>4, <3>1, <3>2 DEF minimalUUIDv7
  <2> QED
    BY <2>3, <2>4
<1>14. DueAreAwake'
  BY <1>3, <1>4, <1>5, <1>12, HeapKeepsAwake DEF logVars
<1> QED
  BY <1>7, <1>8, <1>9, <1>10, <1>11, <1>13, <1>14 DEF IInv

-----------------------------------------------------------------------------
(* AttachFunction, and the end of functions.                               *)

LEMMA AttachInsertKeeps == IInv /\ (\E f \in Functions : AttachInsert(f)) => IInv'
<1> SUFFICES ASSUME IInv, NEW f \in Functions, AttachInsert(f) PROVE IInv'
  OBVIOUS
<1> DEFINE row == [NoRow EXCEPT !.state = "partial", !.next_nonce = 1, !.next_run = now]
<1>1. /\ rows \in [Functions -> Rows] /\ now \in Buckets /\ f \in Pushers
  BY PusherFacts DEF IInv, Shape
<1>2. row \in Rows
  BY <1>1, NoRowType, ZeroNonce DEF NoRow, Rows, States
<1>3. /\ row.state = "partial" /\ row.next_nonce = 1 /\ row.lowest_live_nonce = 0
      /\ row.completion_offset = 0
  BY DEF NoRow
<1>4. rows' = [rows EXCEPT ![f] = row]
  BY DEF AttachInsert
<1>5. /\ rows' \in [Functions -> Rows] /\ rows'[f] = row
      /\ \A g \in Functions : g # f => rows'[g] = rows[g]
  BY <1>1, <1>2, <1>4
<1>6. /\ rows[f].state = "none" /\ rows[f].next_nonce = 0
      /\ \A g \in Functions : rows[g].state \in {"none", "deleted"}
  BY DEF AttachInsert, IInv, RowsFit, RowFits
<1>7. /\ puts' \in [Pushers -> Puts]
      /\ puts'[f].pc = "store" /\ puts'[f].item = <<f, 0>> /\ puts'[f].keep \subseteq puts'[f].found
      /\ \A q \in Pushers : q # f => puts'[q] = puts[q]
  <2>1. <<f, 0>> \in Items /\ Push(f, <<f, 0>>, now)
    BY ZeroNonce DEF Items, AttachInsert, minimalUUIDv7
  <2> QED
    BY <1>1, <2>1, PushFits
<1>8. /\ UNCHANGED <<cursor, version, heap, now, tender, jobs, pruner, stripped, excused>>
      /\ UNCHANGED logVars
  BY DEF AttachInsert
<1> HIDE DEF row
<1>9. Shape'
  <2>1. DOMAIN attach' = Functions
    BY DEF AttachInsert, IInv, Shape
  <2> QED
    BY <1>5, <1>7, <1>8, <2>1 DEF IInv, Shape
<1>10. Counted'
  BY <1>8 DEF IInv, Counted, logVars
<1>11. RowsFit'
  <2>1. last_offset_processed(compacted) \in Nat
    BY LastOffset DEF IInv, Counted
  <2> QED
    BY <1>3, <1>5, <1>8, <2>1 DEF IInv, RowsFit, RowFits, logVars
<1>12. OneAttached'
  BY <1>5, <1>6 DEF OneAttached
<1>13. ItemsFit'
  <2>1. \A i \in Items : ItemFits(i) => ItemFits(i)'
    BY <1>3, <1>5, <1>6, ConstantFacts DEF ItemFits, Items, Nonces
  <2>2. \A b \in Buckets : \A i \in heap'[b] : ItemFits(i)'
    BY <1>8, <2>1 DEF IInv, ItemsFit, Shape
  <2>3. <<f, 0>> \in Items /\ ItemFits(<<f, 0>>)'
    BY <1>3, <1>5, ZeroNonce DEF Items, ItemFits
  <2>4. ASSUME NEW q \in Pushers
        PROVE  /\ puts'[q].pc = "store" => puts'[q].item \in Items /\ (ItemFits(puts[q].item))'
               /\ puts'[q].keep \subseteq puts'[q].found
    <3>1. CASE q = f
      BY <1>7, <2>3, <3>1
    <3>2. CASE q # f
      BY <1>7, <2>1, <3>2 DEF IInv, ItemsFit
    <3> QED
      BY <3>1, <3>2
  <2> QED
    BY <2>2, <2>4 DEF ItemsFit
<1>14. JobsFit'
  <2>1. \A w \in Workers : jobs[w].pc # "idle" => jobs[w].f \in Functions /\ jobs[w].f # f
    BY <1>6 DEF IInv, JobsFit, JobFits
  <2> QED
    BY <1>5, <1>8, <2>1 DEF IInv, JobsFit, JobFits, logVars
<1>15. AttachFits'
  <2>1. \A g \in Functions : g # f => puts'[g] = puts[g] /\ rows'[g].state # "partial"
    BY <1>5, <1>6, <1>7, PusherFacts
  <2> QED
    BY <1>7, <2>1 DEF IInv, AttachFits, minimalUUIDv7
<1>16. DueAreAwake'
  <2>1. \A g \in Functions : rows'[g].state # "ready"
    BY <1>3, <1>5, <1>6
  <2> QED
    BY <2>1 DEF DueAreAwake, Due
<1> QED
  BY <1>9, <1>10, <1>11, <1>12, <1>13, <1>14, <1>15, <1>16 DEF IInv

(* Pushers give up or have been served, and nothing else changes.          *)
LEMMA ResetPut ==
    ASSUME IInv, NEW p \in Pushers, puts' = [puts EXCEPT ![p] = NoPut]
    PROVE  /\ puts' \in [Pushers -> Puts] /\ puts'[p].pc = "none" /\ puts'[p].keep \subseteq puts'[p].found
           /\ \A q \in Pushers : q # p => puts'[q] = puts[q]
BY NoPutType DEF IInv, Shape

LEMMA ResetItems ==
    ASSUME IInv, NEW p \in Pushers, puts' = [puts EXCEPT ![p] = NoPut], UNCHANGED <<rows, heap>>
    PROVE  ItemsFit'
<1>1. /\ puts'[p].pc = "none" /\ puts'[p].keep \subseteq puts'[p].found
      /\ \A q \in Pushers : q # p => puts'[q] = puts[q]
  BY ResetPut
<1>2. \A b \in Buckets : \A i \in heap'[b] : ItemFits(i)'
  BY DEF IInv, ItemsFit, ItemFits
<1>3. ASSUME NEW q \in Pushers
      PROVE  /\ puts'[q].pc = "store" => puts'[q].item \in Items /\ (ItemFits(puts[q].item))'
             /\ puts'[q].keep \subseteq puts'[q].found
  BY <1>1 DEF IInv, ItemsFit, ItemFits
<1> QED
  BY <1>2, <1>3 DEF ItemsFit

LEMMA AttachFailsKeeps == IInv /\ (\E f \in Functions : AttachFails(f)) => IInv'
<1> SUFFICES ASSUME IInv, NEW f \in Functions, AttachFails(f) PROVE IInv'
  OBVIOUS
<1>1. /\ UNCHANGED <<cursor, rows, version, heap, now, tender, jobs, pruner, stripped, excused>>
      /\ UNCHANGED logVars
      /\ puts' = [puts EXCEPT ![f] = NoPut] /\ f \in Pushers
  BY PusherFacts DEF AttachFails
<1>2. /\ puts' \in [Pushers -> Puts] /\ puts'[f].pc = "none"
      /\ \A q \in Pushers : q # f => puts'[q] = puts[q]
  BY <1>1, ResetPut
<1>3. Shape'
  <2>1. DOMAIN attach' = Functions
    BY DEF AttachFails, IInv, Shape
  <2> QED
    BY <1>1, <1>2, <2>1 DEF IInv, Shape
<1>4. Counted' /\ RowsFit' /\ OneAttached' /\ JobsFit'
  BY <1>1 DEF IInv, Counted, RowsFit, RowFits, OneAttached, JobsFit, JobFits, logVars
<1>5. ItemsFit'
  BY <1>1, ResetItems
<1>6. AttachFits'
  BY <1>1, <1>2, PusherFacts DEF IInv, AttachFits, Has
<1>7. Kept
  BY <1>1 DEF Kept, Has
<1>8. Delivered
  BY <1>2, PusherFacts DEF Delivered, Carries
<1>9. DueAreAwake'
  <2>1. excused' \in Nat /\ excused' >= excused
    BY <1>1 DEF IInv, Counted
  <2> QED
    BY <1>1, <1>7, <1>8, <2>1, HeapKeepsAwake DEF logVars
<1> QED
  BY <1>3, <1>4, <1>5, <1>6, <1>9 DEF IInv

LEMMA AttachReadyKeeps == IInv /\ (\E f \in Functions : AttachReady(f)) => IInv'
<1> SUFFICES ASSUME IInv, NEW f \in Functions, AttachReady(f) PROVE IInv'
  OBVIOUS
<1>1. /\ UNCHANGED <<cursor, version, heap, now, tender, jobs, pruner, stripped>>
      /\ UNCHANGED logVars
      /\ puts' = [puts EXCEPT ![f] = NoPut] /\ puts[f].pc = "pushed" /\ f \in Pushers
  BY PusherFacts DEF AttachReady, Pushed
<1>2. /\ puts' \in [Pushers -> Puts] /\ puts'[f].pc = "none" /\ puts'[f].keep \subseteq puts'[f].found
      /\ \A q \in Pushers : q # f => puts'[q] = puts[q]
  BY <1>1, ResetPut
<1>3. rows \in [Functions -> Rows]
  BY DEF IInv, Shape
<1>4. /\ rows' \in [Functions -> Rows]
      /\ \A g \in Functions :
            /\ rows'[g].next_nonce = rows[g].next_nonce
            /\ rows'[g].lowest_live_nonce = rows[g].lowest_live_nonce
            /\ rows'[g].completion_offset = rows[g].completion_offset
            /\ rows[g].state # "partial" \/ g # f => rows'[g] = rows[g]
            /\ rows[g].state = "partial" /\ g = f => rows'[g].state = "ready"
  <2>1. CASE rows[f].state = "partial"
    <3>1. rows[f].lowest_live_nonce = 0
      BY <2>1 DEF IInv, RowsFit, RowFits
    <3>2. rows' = [rows EXCEPT ![f].state = "ready", ![f].lowest_live_nonce = 0]
      BY <2>1 DEF AttachReady, minimalUUIDv7
    <3> QED
      BY <1>3, <2>1, <3>1, <3>2, ZeroNonce DEF Rows, States
  <2>2. CASE rows[f].state # "partial"
    <3>1. rows' = rows
      BY <2>2 DEF AttachReady
    <3> QED
      BY <1>3, <2>2, <3>1
  <2> QED
    BY <2>1, <2>2
<1>5. /\ excused' \in Nat /\ excused' >= excused /\ excused' <= log
      /\ f \in stripped => excused' >= log
  <2> DEFINE m == Max({log, excused})
  <2>1. log \in Nat /\ excused \in Nat /\ excused <= log
    BY DEF IInv, Counted
  <2>2. m \in Nat /\ m >= log /\ m >= excused /\ m <= log
    BY <2>1, MaxOfTwo
  <2>3. excused' = IF f \in stripped THEN m ELSE excused
    BY DEF AttachReady
  <2> HIDE DEF m
  <2> QED
    BY <2>1, <2>2, <2>3
<1>6. Shape'
  <2>1. DOMAIN attach' = Functions
    BY DEF AttachReady, IInv, Shape
  <2> QED
    BY <1>1, <1>2, <1>4, <2>1 DEF IInv, Shape
<1>7. Counted'
  BY <1>1, <1>5 DEF IInv, Counted, logVars
<1>8. RowsFit'
  <2> SUFFICES ASSUME NEW g \in Functions PROVE RowFits(rows[g])'
    BY DEF RowsFit
  <2>1. RowFits(rows[g])
    BY DEF IInv, RowsFit
  <2>2. rows'[g].state \in {"none", "partial"} => rows'[g] = rows[g]
    BY <1>4
  <2> QED
    BY <1>1, <1>4, <2>1, <2>2 DEF RowFits, logVars
<1>9. OneAttached'
  BY <1>4 DEF IInv, OneAttached
<1>10. ItemsFit'
  <2>1. \A i \in Items : ItemFits(i) => ItemFits(i)'
    BY <1>4 DEF ItemFits, Items
  <2>2. \A b \in Buckets : \A i \in heap'[b] : ItemFits(i)'
    BY <1>1, <2>1 DEF IInv, ItemsFit, Shape
  <2>3. ASSUME NEW q \in Pushers
        PROVE  /\ puts'[q].pc = "store" => puts'[q].item \in Items /\ (ItemFits(puts[q].item))'
               /\ puts'[q].keep \subseteq puts'[q].found
    BY <1>2, <2>1 DEF IInv, ItemsFit
  <2> QED
    BY <2>2, <2>3 DEF ItemsFit
<1>11. \A w \in Workers : jobs[w].pc # "idle" => jobs[w].f \in Functions /\ rows[jobs[w].f].state # "partial"
  BY DEF IInv, JobsFit, JobFits
<1>12. JobsFit'
  BY <1>1, <1>4, <1>11 DEF IInv, JobsFit, JobFits, logVars
<1>13. AttachFits'
  <2>1. \A g \in Functions : rows'[g].state = "partial" => rows[g].state = "partial" /\ g # f
    BY <1>4
  <2>2. \A g \in Functions : g # f => puts'[g] = puts[g]
    BY <1>2, PusherFacts
  <2> QED
    BY <1>1, <1>2, <2>1, <2>2 DEF IInv, AttachFits, Has
<1>14. DueAreAwake'
  <2>1. CASE rows[f].state # "partial"
    <3>1. rows' = rows
      BY <2>1 DEF AttachReady
    <3>2. Kept
      BY <1>1 DEF Kept, Has
    <3>3. Delivered
      BY <1>2, PusherFacts DEF Delivered, Carries
    <3> QED
      BY <1>1, <1>5, <3>1, <3>2, <3>3, HeapKeepsAwake DEF logVars
  <2>2. CASE rows[f].state = "partial"
    <3> SUFFICES ASSUME NEW g \in Functions, Due(g)'
                 PROVE  /\ Awake(g)' /\ AwakeOnceTended(g)'
                        /\ \A w \in Workers : AwakeOnceClosed(w, g)' /\ AwakeOnceBoth(w, g)'
      BY DEF DueAreAwake
    <3>1. g = f
      <4>1. rows'[g].state = "ready" /\ rows'[f].state = "ready"
        BY <1>4, <2>2 DEF Due
      <4> QED
        BY <1>9, <4>1 DEF OneAttached
    <3>2. f \notin stripped
      <4>1. log' > excused' /\ log' = log /\ log \in Nat
        BY <1>1 DEF Due, logVars, IInv, Counted
      <4> QED
        BY <1>5, <4>1
    <3>3. Has(f, 0)'
      BY <1>1, <2>2, <3>2 DEF IInv, AttachFits, Has
    <3>4. rows'[f].lowest_live_nonce = 0
      BY <1>4, <2>2 DEF IInv, RowsFit, RowFits
    <3>5. Has(g, rows[g].lowest_live_nonce)'
      BY <3>1, <3>3, <3>4 DEF Has
    <3>6. \A w \in Workers : ~Closing(w, g)'
      BY <1>1, <1>11, <2>2, <3>1 DEF Closing
    <3> QED
      BY <3>5, <3>6 DEF Awake, AwakeOnceTended, AwakeOnceClosed, AwakeOnceBoth
  <2> QED
    BY <2>1, <2>2
<1> QED
  BY <1>6, <1>7, <1>8, <1>9, <1>10, <1>12, <1>13, <1>14 DEF IInv

LEMMA DeleteKeeps ==
    ASSUME IInv, NEW f \in Functions, NEW state \in {"ready", "partial"}, Delete(f, state)
    PROVE  IInv'
<1>1. /\ UNCHANGED <<cursor, version, attach, tender, jobs, excused>>
      /\ UNCHANGED <<heapVars, logVars>>
  BY DEF Delete
<1>2. rows \in [Functions -> Rows]
  BY DEF IInv, Shape
<1>3. /\ rows' \in [Functions -> Rows]
      /\ rows'[f].state = "deleted" /\ rows[f].state = state
      /\ \A g \in Functions :
            /\ rows'[g].next_nonce = rows[g].next_nonce
            /\ rows'[g].lowest_live_nonce = rows[g].lowest_live_nonce
            /\ rows'[g].completion_offset = rows[g].completion_offset
            /\ g # f => rows'[g] = rows[g]
  BY <1>2 DEF Delete, Rows, States
<1>4. Shape' /\ Counted'
  BY <1>1, <1>3 DEF IInv, Shape, Counted, heapVars, logVars
<1>5. RowsFit'
  <2> SUFFICES ASSUME NEW g \in Functions PROVE RowFits(rows[g])'
    BY DEF RowsFit
  <2>1. RowFits(rows[g])
    BY DEF IInv, RowsFit
  <2>2. rows'[g].state \in {"none", "partial"} => rows'[g] = rows[g]
    BY <1>3
  <2> QED
    BY <1>1, <1>3, <2>1, <2>2 DEF RowFits, logVars
<1>6. OneAttached'
  BY <1>3 DEF IInv, OneAttached
<1>7. ItemsFit'
  <2>1. \A i \in Items : ItemFits(i) => ItemFits(i)'
    BY <1>3 DEF ItemFits, Items
  <2> QED
    BY <1>1, <2>1 DEF IInv, ItemsFit, Shape, heapVars
<1>8. JobsFit'
  BY <1>1, <1>3 DEF IInv, JobsFit, JobFits, logVars
<1>9. AttachFits'
  BY <1>1, <1>3 DEF IInv, AttachFits, Has, heapVars
<1>10. DueAreAwake'
  <2>1. \A g \in Functions : Due(g)' => g # f /\ rows'[g] = rows[g] /\ Due(g)
    BY <1>1, <1>3 DEF Due, EnoughRecords, logVars
  <2> QED
    BY <1>1, <2>1
    DEF IInv, heapVars, logVars, DueAreAwake, Awake, AwakeOnceTended, AwakeOnceClosed,
        AwakeOnceBoth, Tending, Closing, JobCarries, TenderCarries, Carries, Has
<1> QED
  BY <1>4, <1>5, <1>6, <1>7, <1>8, <1>9, <1>10 DEF IInv

-----------------------------------------------------------------------------
(* The tender.                                                             *)

LEMMA TenderStepKeeps ==
    ASSUME IInv, UNCHANGED <<rows, version, heap, now, attach, jobs, pruner, stripped, excused>>,
           UNCHANGED logVars,
           tender' \in [pc : {"idle", "peek", "push", "save"}, limit : Nat], tender'.limit <= marked,
           cursor' \in Nat, cursor' <= marked,
           puts' \in [Pushers -> Puts],
           \A q \in Pushers : q # "tender" => puts'[q] = puts[q],
           puts'["tender"].keep \subseteq puts'["tender"].found,
           puts'["tender"].pc = "store" =>
               puts'["tender"].item \in Items /\ (ItemFits(puts["tender"].item))'
    PROVE  Shape' /\ Counted' /\ RowsFit' /\ OneAttached' /\ ItemsFit' /\ JobsFit' /\ AttachFits'
<1>1. Shape'
  BY DEF IInv, Shape
<1>2. Counted'
  BY DEF IInv, Counted, logVars
<1>3. RowsFit' /\ OneAttached' /\ JobsFit'
  BY DEF IInv, RowsFit, RowFits, OneAttached, JobsFit, JobFits, logVars
<1>4. ItemsFit'
  <2>1. \A b \in Buckets : \A i \in heap'[b] : ItemFits(i)'
    BY DEF IInv, ItemsFit, ItemFits
  <2>2. ASSUME NEW q \in Pushers
        PROVE  /\ puts'[q].pc = "store" => puts'[q].item \in Items /\ (ItemFits(puts[q].item))'
               /\ puts'[q].keep \subseteq puts'[q].found
    <3>1. CASE q = "tender"
      BY <3>1
    <3>2. CASE q # "tender"
      BY <3>2 DEF IInv, ItemsFit, ItemFits
    <3> QED
      BY <3>1, <3>2
  <2> QED
    BY <2>1, <2>2 DEF ItemsFit
<1>5. AttachFits'
  BY PusherFacts DEF IInv, AttachFits, Has
<1> QED
  BY <1>1, <1>2, <1>3, <1>4, <1>5

LEMMA TenderReadsKeeps == IInv /\ TenderReads => IInv'
<1> SUFFICES ASSUME IInv, TenderReads PROVE IInv'
  OBVIOUS
<1>1. /\ UNCHANGED <<cursor, rows, version, attach, jobs, excused>> /\ UNCHANGED <<heapVars, logVars>>
      /\ tender' = [pc |-> "peek", limit |-> marked]
  BY DEF TenderReads
<1>2. Shape' /\ Counted' /\ RowsFit' /\ OneAttached' /\ ItemsFit' /\ JobsFit' /\ AttachFits'
  <2>1. marked \in Nat /\ cursor \in Nat /\ cursor <= marked /\ "tender" \in Pushers
    BY PusherFacts DEF IInv, Counted
  <2>2. /\ puts' \in [Pushers -> Puts] /\ \A q \in Pushers : puts'[q] = puts[q]
        /\ puts'["tender"].keep \subseteq puts'["tender"].found
        /\ puts'["tender"].pc = "store" =>
               puts'["tender"].item \in Items /\ (ItemFits(puts["tender"].item))'
    BY <1>1, <2>1 DEF IInv, Shape, ItemsFit, ItemFits, heapVars
  <2> QED
    BY <1>1, <2>1, <2>2, TenderStepKeeps DEF heapVars
<1>3. DueAreAwake'
  <2>1. ~Tending'
    BY <1>1 DEF Tending
  <2>2. \A f \in Functions : Due(f)' => Due(f)
    BY <1>1 DEF Due, EnoughRecords, logVars
  <2> QED
    BY <1>1, <2>1, <2>2
    DEF IInv, heapVars, logVars, DueAreAwake, Awake, AwakeOnceTended, AwakeOnceClosed,
        AwakeOnceBoth, Closing, JobCarries, Carries, Has
<1> QED
  BY <1>2, <1>3 DEF IInv

LEMMA TenderPeeksKeeps == IInv /\ TenderPeeks => IInv'
<1> SUFFICES ASSUME IInv, TenderPeeks PROVE IInv'
  OBVIOUS
<1>1. /\ UNCHANGED <<cursor, rows, version, heap, now, attach, jobs, pruner, stripped, excused>>
      /\ UNCHANGED logVars
  BY DEF TenderPeeks
<1>2. /\ tender \in [pc : {"idle", "peek", "push", "save"}, limit : Nat] /\ tender.limit <= marked
      /\ cursor \in Nat /\ cursor <= marked /\ "tender" \in Pushers
  BY PusherFacts DEF IInv, Shape, Counted
<1>3. ASSUME NEW f \in Functions, rows[f].state = "ready",
             Push("tender", <<f, rows[f].next_nonce>>, rows[f].next_run),
             tender' = [tender EXCEPT !.pc = "push"]
      PROVE  IInv'
  <2>1. rows[f] \in Rows
    BY DEF IInv, Shape
  <2>2. /\ <<f, rows[f].next_nonce>> \in Items /\ rows[f].next_run \in Buckets
        /\ rows[f].next_nonce \in Nat /\ rows[f].lowest_live_nonce \in Nat
    BY <2>1, ConstantFacts DEF Items, Rows, Nonces
  <2>3. /\ puts' \in [Pushers -> Puts]
        /\ puts'["tender"].pc = "store" /\ puts'["tender"].item = <<f, rows[f].next_nonce>>
        /\ puts'["tender"].keep \subseteq puts'["tender"].found
        /\ \A q \in Pushers : q # "tender" => puts'[q] = puts[q]
    BY <1>2, <1>3, <2>2, PushFits
  <2>4. tender' \in [pc : {"idle", "peek", "push", "save"}, limit : Nat] /\ tender'.limit = tender.limit
        /\ tender'.pc = "push"
    BY <1>2, <1>3
  <2>5. (ItemFits(puts["tender"].item))'
    BY <1>1, <2>2, <2>3 DEF ItemFits
  <2>6. Shape' /\ Counted' /\ RowsFit' /\ OneAttached' /\ ItemsFit' /\ JobsFit' /\ AttachFits'
    BY <1>1, <1>2, <2>2, <2>3, <2>4, <2>5, TenderStepKeeps
  <2>7. DueAreAwake'
    <3> SUFFICES ASSUME NEW g \in Functions, Due(g)'
                 PROVE  /\ Awake(g)' /\ AwakeOnceTended(g)'
                        /\ \A w \in Workers : AwakeOnceClosed(w, g)' /\ AwakeOnceBoth(w, g)'
      BY DEF DueAreAwake
    <3>1. g = f
      BY <1>1, <1>3 DEF Due, IInv, OneAttached
    <3>2. Due(g)
      BY <1>1 DEF Due, EnoughRecords, logVars
    <3>3. rows[f].lowest_live_nonce <= rows[f].next_nonce
      BY DEF IInv, RowsFit, RowFits
    <3>4. TenderCarries(g, rows[g].lowest_live_nonce)' /\ TenderCarries(g, rows[g].next_nonce)'
      BY <1>1, <2>2, <2>3, <2>4, <3>1, <3>3 DEF TenderCarries, Carries
    <3>5. Awake(g)'
      BY <1>1, <3>2 DEF IInv, DueAreAwake, Awake, Has, logVars
    <3>6. \A w \in Workers : puts'[w] = puts[w]
      BY <2>3, PusherFacts
    <3>7. \A w \in Workers : AwakeOnceClosed(w, g)'
      BY <1>1, <3>2, <3>6 DEF IInv, DueAreAwake, AwakeOnceClosed, Closing, JobCarries, Carries, Has, logVars
    <3> QED
      BY <3>4, <3>5, <3>7 DEF AwakeOnceTended, AwakeOnceBoth
  <2> QED
    BY <2>6, <2>7 DEF IInv
<1>4. ASSUME \A f \in Functions : rows[f].state # "ready",
             tender' = [tender EXCEPT !.pc = "save"], UNCHANGED puts
      PROVE  IInv'
  <2>1. tender' \in [pc : {"idle", "peek", "push", "save"}, limit : Nat] /\ tender'.limit = tender.limit
    BY <1>2, <1>4
  <2>2. /\ puts' \in [Pushers -> Puts] /\ \A q \in Pushers : puts'[q] = puts[q]
        /\ puts'["tender"].keep \subseteq puts'["tender"].found
        /\ puts'["tender"].pc = "store" =>
               puts'["tender"].item \in Items /\ (ItemFits(puts["tender"].item))'
    BY <1>1, <1>2, <1>4 DEF IInv, Shape, ItemsFit, ItemFits
  <2>3. Shape' /\ Counted' /\ RowsFit' /\ OneAttached' /\ ItemsFit' /\ JobsFit' /\ AttachFits'
    BY <1>1, <1>2, <2>1, <2>2, TenderStepKeeps
  <2>4. DueAreAwake'
    BY <1>1, <1>4 DEF DueAreAwake, Due
  <2> QED
    BY <2>3, <2>4 DEF IInv
<1> QED
  BY <1>3, <1>4 DEF TenderPeeks

(* The tender is back at the start, with the cursor saved or not.          *)
LEMMA TenderEndKeeps ==
    ASSUME IInv, UNCHANGED <<rows, version, heap, now, attach, jobs, pruner, stripped, excused>>,
           UNCHANGED logVars, tender' = [pc |-> "idle", limit |-> 0],
           UNCHANGED puts \/ puts' = [puts EXCEPT !["tender"] = NoPut],
           \/ UNCHANGED cursor
           \/ /\ cursor' = tender.limit
              /\ \/ tender.pc = "push" /\ puts["tender"].pc = "pushed"
                 \/ tender.pc = "save"
    PROVE  IInv'
<1>1. /\ tender.limit \in Nat /\ tender.limit <= marked /\ marked \in Nat
      /\ cursor \in Nat /\ cursor <= marked /\ "tender" \in Pushers
  BY PusherFacts DEF IInv, Shape, Counted
<1>2. /\ puts' \in [Pushers -> Puts] /\ puts'["tender"].keep \subseteq puts'["tender"].found
      /\ \A q \in Pushers : q # "tender" => puts'[q] = puts[q]
      /\ puts'["tender"].pc = "store" => puts' = puts
  <2>1. CASE UNCHANGED puts
    BY <1>1, <2>1 DEF IInv, Shape, ItemsFit
  <2>2. CASE puts' = [puts EXCEPT !["tender"] = NoPut]
    BY <1>1, <2>2, ResetPut
  <2> QED
    BY <2>1, <2>2
<1>3. puts'["tender"].pc = "store" =>
          puts'["tender"].item \in Items /\ (ItemFits(puts["tender"].item))'
  BY <1>1, <1>2 DEF IInv, ItemsFit, ItemFits
<1>4. cursor' \in Nat /\ cursor' <= marked
  BY <1>1
<1>5. tender' \in [pc : {"idle", "peek", "push", "save"}, limit : Nat] /\ tender'.limit <= marked
  BY <1>1
<1>6. Shape' /\ Counted' /\ RowsFit' /\ OneAttached' /\ ItemsFit' /\ JobsFit' /\ AttachFits'
  BY <1>2, <1>3, <1>4, <1>5, TenderStepKeeps
<1>7. DueAreAwake'
  <2> SUFFICES ASSUME NEW f \in Functions, Due(f)'
               PROVE  /\ Awake(f)' /\ AwakeOnceTended(f)'
                      /\ \A w \in Workers : AwakeOnceClosed(w, f)' /\ AwakeOnceBoth(w, f)'
    BY DEF DueAreAwake
  <2>1. Due(f)
    BY DEF Due, EnoughRecords, logVars
  <2>2. /\ Awake(f) /\ AwakeOnceTended(f)
        /\ \A w \in Workers : AwakeOnceClosed(w, f) /\ AwakeOnceBoth(w, f)
    BY <2>1 DEF IInv, DueAreAwake
  <2>3. ~Tending'
    BY DEF Tending
  <2>4. \A w \in Workers : puts'[w] = puts[w]
    BY <1>2, PusherFacts
  <2>5. CASE UNCHANGED cursor
    BY <2>2, <2>3, <2>4, <2>5
    DEF Awake, AwakeOnceTended, AwakeOnceClosed, AwakeOnceBoth, Closing, JobCarries, Carries, Has, logVars
  <2>6. CASE ~UNCHANGED cursor
    <3>1. cursor' < marked' \/ Tending
      BY <1>1, <2>6 DEF Tending, logVars
    <3>2. \A n \in Nat : ~TenderCarries(f, n)
      BY <2>6 DEF TenderCarries, Carries
    <3>3. rows[f].lowest_live_nonce \in Nat /\ rows[f].next_nonce \in Nat
      BY ConstantFacts DEF IInv, Shape, Rows, Nonces
    <3>4. Awake(f)'
      BY <2>2, <3>1, <3>2, <3>3 DEF Awake, AwakeOnceTended, Has, logVars
    <3>5. ASSUME NEW w \in Workers, Closing(w, f)
          PROVE  cursor' < marked' \/ Has(f, rows[f].next_nonce) \/ JobCarries(w, f, rows[f].next_nonce)
      BY <2>2, <3>1, <3>2, <3>3, <3>5 DEF AwakeOnceBoth
    <3>6. \A w \in Workers : AwakeOnceClosed(w, f)'
      BY <2>4, <3>5 DEF AwakeOnceClosed, Closing, JobCarries, Carries, Has
    <3> QED
      BY <2>3, <3>4, <3>6 DEF AwakeOnceTended, AwakeOnceBoth
  <2> QED
    BY <2>5, <2>6
<1> QED
  BY <1>6, <1>7 DEF IInv

LEMMA TenderSavesKeeps == IInv /\ TenderSaves => IInv'
BY TenderEndKeeps DEF TenderSaves, Pushed

LEMMA TenderFailsKeeps == IInv /\ TenderFails => IInv'
BY TenderEndKeeps DEF TenderFails

-----------------------------------------------------------------------------
(* The run of a function.                                                  *)

(* A step of the job of w that leaves the rows and the heap alone.         *)
LEMMA JobStepKeeps ==
    ASSUME IInv, NEW w \in Workers, NEW job \in Jobs, jobs' = [jobs EXCEPT ![w] = job], JobFits(job),
           UNCHANGED <<cursor, rows, version, heap, now, attach, tender, pruner, stripped, excused>>,
           UNCHANGED logVars,
           puts' \in [Pushers -> Puts],
           \A q \in Pushers : q # w => puts'[q] = puts[q],
           puts'[w].keep \subseteq puts'[w].found,
           puts'[w].pc = "store" => puts'[w].item \in Items /\ (ItemFits(puts[w].item))',
           \A f \in Functions : Due(f) /\ Closing(w, f)' => JobCarries(w, f, rows[f].next_nonce)'
    PROVE  IInv'
<1>1. /\ jobs' \in [Workers -> Jobs] /\ jobs'[w] = job
      /\ \A u \in Workers : u # w => jobs'[u] = jobs[u]
  BY DEF IInv, Shape
<1>2. Shape' /\ Counted'
  BY <1>1 DEF IInv, Shape, Counted, logVars
<1>3. RowsFit' /\ OneAttached'
  BY DEF IInv, RowsFit, RowFits, OneAttached, logVars
<1>4. JobsFit'
  BY <1>1 DEF IInv, JobsFit, JobFits, logVars
<1>5. ItemsFit'
  <2>1. \A b \in Buckets : \A i \in heap'[b] : ItemFits(i)'
    BY DEF IInv, ItemsFit, ItemFits
  <2>2. ASSUME NEW q \in Pushers
        PROVE  /\ puts'[q].pc = "store" => puts'[q].item \in Items /\ (ItemFits(puts[q].item))'
               /\ puts'[q].keep \subseteq puts'[q].found
    <3>1. CASE q = w
      BY <3>1
    <3>2. CASE q # w
      BY <3>2 DEF IInv, ItemsFit, ItemFits
    <3> QED
      BY <3>1, <3>2
  <2> QED
    BY <2>1, <2>2 DEF ItemsFit
<1>6. \A f \in Functions : puts'[f] = puts[f]
  BY PusherFacts
<1>7. AttachFits'
  BY <1>6 DEF IInv, AttachFits, Has
<1>8. DueAreAwake'
  <2> SUFFICES ASSUME NEW f \in Functions, Due(f)'
               PROVE  /\ Awake(f)' /\ AwakeOnceTended(f)'
                      /\ \A u \in Workers : AwakeOnceClosed(u, f)' /\ AwakeOnceBoth(u, f)'
    BY DEF DueAreAwake
  <2>1. Due(f)
    BY DEF Due, EnoughRecords, logVars
  <2>2. /\ Awake(f) /\ AwakeOnceTended(f)
        /\ \A u \in Workers : AwakeOnceClosed(u, f) /\ AwakeOnceBoth(u, f)
    BY <2>1 DEF IInv, DueAreAwake
  <2>3. puts'["tender"] = puts["tender"]
    BY PusherFacts
  <2>4. Awake(f)' /\ AwakeOnceTended(f)'
    BY <2>2, <2>3 DEF Awake, AwakeOnceTended, Tending, TenderCarries, Carries, Has, logVars
  <2>5. AwakeOnceClosed(w, f)' /\ AwakeOnceBoth(w, f)'
    BY <2>1 DEF AwakeOnceClosed, AwakeOnceBoth
  <2>6. ASSUME NEW u \in Workers, u # w
        PROVE  AwakeOnceClosed(u, f)' /\ AwakeOnceBoth(u, f)'
    <3>1. jobs'[u] = jobs[u] /\ puts'[u] = puts[u]
      BY <1>1, <2>6, PusherFacts
    <3> QED
      BY <2>2, <2>3, <3>1
      DEF AwakeOnceClosed, AwakeOnceBoth, Closing, Tending, JobCarries, TenderCarries, Carries, Has, logVars
  <2> QED
    BY <2>4, <2>5, <2>6
<1> QED
  BY <1>2, <1>3, <1>4, <1>5, <1>7, <1>8 DEF IInv

(* ... and pushes nothing.                                                 *)
LEMMA QuietJobStepKeeps ==
    ASSUME IInv, NEW w \in Workers, NEW job \in Jobs, jobs' = [jobs EXCEPT ![w] = job], JobFits(job),
           job.pc \notin {"push", "finish"},
           UNCHANGED <<cursor, rows, version, heap, now, attach, tender, pruner, stripped, excused>>,
           UNCHANGED logVars,
           UNCHANGED puts \/ puts' = [puts EXCEPT ![w] = NoPut]
    PROVE  IInv'
<1>1. w \in Pushers
  BY PusherFacts
<1>2. /\ puts' \in [Pushers -> Puts] /\ puts'[w].keep \subseteq puts'[w].found
      /\ \A q \in Pushers : q # w => puts'[q] = puts[q]
      /\ puts'[w].pc = "store" => puts' = puts
  <2>1. CASE UNCHANGED puts
    BY <1>1, <2>1 DEF IInv, Shape, ItemsFit
  <2>2. CASE puts' = [puts EXCEPT ![w] = NoPut]
    BY <1>1, <2>2, ResetPut
  <2> QED
    BY <2>1, <2>2
<1>3. puts'[w].pc = "store" => puts'[w].item \in Items /\ (ItemFits(puts[w].item))'
  BY <1>1, <1>2 DEF IInv, ItemsFit, ItemFits
<1>4. \A f \in Functions : ~Closing(w, f)'
  BY DEF Closing, IInv, Shape
<1> QED
  BY <1>2, <1>3, <1>4, JobStepKeeps

LEMMA JobTypes ==
    ASSUME IInv, NEW w \in Workers
    PROVE  /\ jobs[w] \in Jobs /\ jobs[w].fn \in Rows /\ JobFits(jobs[w])
           /\ jobs[w].pc # "idle" => jobs[w].f \in Functions /\ rows[jobs[w].f] \in Rows
BY DEF IInv, Shape, Jobs, JobsFit, JobFits

LEMMA StartJobKeeps == IInv /\ (\E w \in Workers : StartJob(w)) => IInv'
<1> SUFFICES ASSUME IInv, NEW w \in Workers, StartJob(w) PROVE IInv'
  OBVIOUS
<1>0. PICK b \in Buckets : \E i \in heap[b] :
          /\ ~are_done(i)
          /\ jobs' = [jobs EXCEPT ![w] = [Idle EXCEPT !.pc = "prepare", !.f = i[1], !.nonce = i[2]]]
  BY DEF StartJob
<1>1. PICK i \in heap[b] :
          /\ ~are_done(i)
          /\ jobs' = [jobs EXCEPT ![w] = [Idle EXCEPT !.pc = "prepare", !.f = i[1], !.nonce = i[2]]]
  BY <1>0
<1> DEFINE job == [Idle EXCEPT !.pc = "prepare", !.f = i[1], !.nonce = i[2]]
<1>2. i[1] \in Functions /\ i[2] \in Nonces /\ rows[i[1]].state = "ready"
  BY <1>1 DEF IInv, Shape, Items, are_done
<1>3. job \in Jobs /\ job.pc = "prepare" /\ job.f = i[1]
  BY <1>2, IdleType DEF Jobs, JobPcs, Idle
<1>4. JobFits(job)
  BY <1>2, <1>3 DEF JobFits
<1>5. /\ UNCHANGED <<cursor, rows, version, attach, tender, excused>> /\ UNCHANGED <<heapVars, logVars>>
  BY DEF StartJob
<1> QED
  BY <1>1, <1>3, <1>4, <1>5, QuietJobStepKeeps DEF heapVars

LEMMA ReadFunctionKeeps == IInv /\ (\E w \in Workers : ReadFunction(w)) => IInv'
<1> SUFFICES ASSUME IInv, NEW w \in Workers, ReadFunction(w) PROVE IInv'
  OBVIOUS
<1> DEFINE job == [jobs[w] EXCEPT !.pc = "scout", !.nonce = 0, !.fn = rows[jobs[w].f]]
<1>1. jobs[w] \in Jobs /\ jobs[w].f \in Functions /\ rows[jobs[w].f] \in Rows /\ rows[jobs[w].f].state = "ready"
  BY JobTypes DEF ReadFunction
<1>2. jobs' = [jobs EXCEPT ![w] = job]
  BY DEF ReadFunction, IInv, Shape
<1>3. job \in Jobs /\ job.pc = "scout" /\ job.f = jobs[w].f /\ job.fn = rows[jobs[w].f]
  BY <1>1, ZeroNonce DEF Jobs, JobPcs
<1> HIDE DEF job
<1>4. JobFits(job)
  BY <1>1, <1>3, ConstantFacts DEF JobFits, Rows, Nonces
<1>5. /\ UNCHANGED <<cursor, rows, version, attach, tender, excused>> /\ UNCHANGED <<heapVars, logVars>>
  BY DEF ReadFunction
<1> QED
  BY <1>2, <1>3, <1>4, <1>5, QuietJobStepKeeps DEF heapVars

LEMMA GetCollectionKeeps == IInv /\ (\E w \in Workers : GetCollectionAndSegments(w)) => IInv'
<1> SUFFICES ASSUME IInv, NEW w \in Workers, GetCollectionAndSegments(w) PROVE IInv'
  OBVIOUS
<1> DEFINE job == [jobs[w] EXCEPT !.pc = "register", !.position = compacted, !.version = version[jobs[w].f]]
<1>1. /\ jobs[w] \in Jobs /\ jobs[w].f \in Functions /\ jobs[w].pc = "execute" /\ JobFits(jobs[w])
      /\ compacted \in Nat /\ version[jobs[w].f] \in Nat
      /\ RowFits(rows[jobs[w].f])
  BY JobTypes DEF GetCollectionAndSegments, IInv, Shape, Counted, RowsFit
<1>2. jobs' = [jobs EXCEPT ![w] = job]
  BY DEF GetCollectionAndSegments, IInv, Shape
<1>3. job \in Jobs /\ job.pc = "register" /\ job.f = jobs[w].f /\ job.fn = jobs[w].fn
      /\ job.position = compacted /\ job.version = version[jobs[w].f]
  BY <1>1 DEF Jobs, JobPcs
<1> HIDE DEF job
<1>4. JobFits(job)
  BY <1>1, <1>3 DEF JobFits, RowFits
<1>5. /\ UNCHANGED <<cursor, rows, version, attach, tender, excused>> /\ UNCHANGED <<heapVars, logVars>>
  BY DEF GetCollectionAndSegments
<1> QED
  BY <1>2, <1>3, <1>4, <1>5, QuietJobStepKeeps DEF heapVars

LEMMA JobFailsKeeps == IInv /\ (\E w \in Workers : JobFails(w)) => IInv'
<1> SUFFICES ASSUME IInv, NEW w \in Workers, JobFails(w) PROVE IInv'
  OBVIOUS
<1>1. Idle \in Jobs /\ Idle.pc = "idle" /\ JobFits(Idle)
  BY IdleType DEF JobFits
<1> QED
  BY <1>1, QuietJobStepKeeps DEF JobFails

(* The function of the job of w is waiting, and its next run is scheduled. *)
Schedules(w, pc) ==
    /\ jobs[w].pc = "scout" /\ waiting(jobs[w].fn)
    /\ rows[jobs[w].f].next_nonce = jobs[w].fn.next_nonce
    /\ rows[jobs[w].f].completion_offset <= jobs[w].fn.completion_offset
    /\ rows[jobs[w].f].next_nonce < MaxNonce
    /\ rows' = [rows EXCEPT ![jobs[w].f].next_nonce = @ + 1, ![jobs[w].f].next_run = now,
                            ![jobs[w].f].completion_offset = jobs[w].fn.completion_offset]
    /\ jobs' = [jobs EXCEPT ![w].pc = pc, ![w].fn.next_nonce = @ + 1, ![w].fn.next_run = now]

LEMMA ScheduleKeeps ==
    ASSUME IInv, NEW w \in Workers, NEW pc \in {"execute", "recheck"}, Schedules(w, pc),
           UNCHANGED <<cursor, version, attach, tender, excused>>, UNCHANGED <<heapVars, logVars>>
    PROVE  IInv'
<1> DEFINE job == jobs[w]
           f == jobs[w].f
           n == rows[f].next_nonce
<1>1. /\ job \in Jobs /\ job.fn \in Rows /\ f \in Functions /\ rows[f] \in Rows
      /\ JobFits(job) /\ RowFits(rows[f]) /\ now \in Buckets
      /\ rows \in [Functions -> Rows] /\ jobs \in [Workers -> Jobs] /\ job.pc = "scout"
  BY JobTypes DEF IInv, RowsFit, Shape, Schedules
<1>2. /\ n \in Nat /\ n + 1 \in Nonces /\ MaxNonce \in Nat
      /\ rows[f].lowest_live_nonce \in Nat /\ job.fn.lowest_live_nonce \in Nat
      /\ rows[f].completion_offset \in Nat /\ job.fn.completion_offset \in Nat
  BY <1>1, ConstantFacts DEF Rows, Nonces, Schedules
<1>3. rows[f].lowest_live_nonce = n /\ job.fn.completion_offset = rows[f].completion_offset
  BY <1>1, <1>2 DEF JobFits, RowFits, waiting, Schedules
<1>4. /\ rows' \in [Functions -> Rows]
      /\ rows'[f].next_nonce = n + 1 /\ rows'[f].lowest_live_nonce = n
      /\ rows'[f].state = rows[f].state
      /\ rows'[f].completion_offset = rows[f].completion_offset
      /\ \A g \in Functions : g # f => rows'[g] = rows[g]
  BY <1>1, <1>2, <1>3 DEF Rows, Schedules
<1>5. /\ jobs' \in [Workers -> Jobs]
      /\ jobs'[w].pc = pc /\ jobs'[w].f = f
      /\ jobs'[w].fn.next_nonce = n + 1
      /\ jobs'[w].fn.lowest_live_nonce = job.fn.lowest_live_nonce
      /\ jobs'[w].fn.completion_offset = job.fn.completion_offset
      /\ \A u \in Workers : u # w => jobs'[u] = jobs[u]
  <2> DEFINE fn == [job.fn EXCEPT !.next_nonce = job.fn.next_nonce + 1, !.next_run = now]
             new == [job EXCEPT !.pc = pc, !.fn = fn]
  <2>2. fn \in Rows /\ fn.next_nonce = n + 1 /\ fn.lowest_live_nonce = job.fn.lowest_live_nonce
        /\ fn.completion_offset = job.fn.completion_offset
    BY <1>1, <1>2 DEF Rows, Schedules
  <2>3. jobs' = [jobs EXCEPT ![w] = new]
    BY <1>1 DEF Jobs, Schedules
  <2> HIDE DEF fn
  <2>4. new \in Jobs /\ new.pc = pc /\ new.fn = fn /\ new.f = f
    BY <1>1, <2>2 DEF Jobs, JobPcs
  <2> QED
    BY <1>1, <2>2, <2>3, <2>4
<1> HIDE DEF f, n, job
<1>6. Shape' /\ Counted'
  BY <1>4, <1>5 DEF IInv, Shape, Counted, heapVars, logVars
<1>7. RowsFit'
  <2>1. rows[f].state \in {"ready", "deleted"}
    BY <1>1 DEF JobFits, f, job
  <2>2. n <= n + 1 /\ n + 1 <= n + 1
    BY <1>2
  <2>3. ASSUME NEW g \in Functions, g = f PROVE RowFits(rows[g])'
    <3>1. rows[f].completion_offset <= last_offset_processed(compacted)
      BY <1>1 DEF RowFits
    <3>2. rows'[g].completion_offset <= last_offset_processed(compacted)'
      BY <1>4, <2>3, <3>1 DEF logVars, last_offset_processed
    <3>3. /\ rows'[g].lowest_live_nonce = n /\ rows'[g].next_nonce = n + 1
          /\ rows'[g].state \in {"ready", "deleted"}
      BY <1>4, <2>1, <2>3
    <3> QED
      BY <2>2, <3>2, <3>3 DEF RowFits
  <2>4. \A g \in Functions : g # f => RowFits(rows[g])'
    BY <1>4 DEF IInv, RowsFit, RowFits, logVars
  <2> QED
    BY <2>3, <2>4 DEF RowsFit
<1>8. OneAttached'
  <2>1. \A g \in Functions : rows'[g].state = rows[g].state
    BY <1>4
  <2> QED
    BY <2>1 DEF IInv, OneAttached
<1>9. ItemsFit'
  <2>1. \A i \in Items : ItemFits(i) => ItemFits(i)'
    <3> SUFFICES ASSUME NEW i \in Items, ItemFits(i) PROVE ItemFits(i)'
      OBVIOUS
    <3>1. i[1] \in Functions /\ i[2] \in Nat
      BY ConstantFacts DEF Items, Nonces
    <3>2. CASE i[1] = f
      <4>1. i[2] <= n /\ rows'[i[1]].next_nonce = n + 1
        BY <1>4, <3>2 DEF ItemFits, n
      <4> QED
        BY <1>2, <3>1, <4>1 DEF ItemFits
    <3>3. CASE i[1] # f
      BY <1>4, <3>1, <3>3 DEF ItemFits
    <3> QED
      BY <3>2, <3>3
  <2> QED
    BY <2>1 DEF IInv, ItemsFit, Shape, heapVars
<1>10. \A u \in Workers : jobs[u].pc \notin {"idle", "prepare"} /\ jobs[u].f = f =>
           jobs[u].fn.next_nonce \in Nat /\ jobs[u].fn.next_nonce <= n
  <2> SUFFICES ASSUME NEW u \in Workers, jobs[u].pc \notin {"idle", "prepare"}, jobs[u].f = f
               PROVE  jobs[u].fn.next_nonce \in Nat /\ jobs[u].fn.next_nonce <= n
    OBVIOUS
  <2>1. jobs[u].fn \in Rows /\ JobFits(jobs[u])
    BY JobTypes
  <2>2. jobs[u].fn.next_nonce \in Nat
    BY <2>1, ConstantFacts DEF Rows, Nonces
  <2>3. jobs[u].fn.next_nonce <= rows[f].next_nonce
    BY <2>1 DEF JobFits
  <2> QED
    BY <2>2, <2>3 DEF n
<1>11. JobsFit'
  <2> SUFFICES ASSUME NEW u \in Workers PROVE JobFits(jobs[u])'
    BY DEF JobsFit
  <2>1. CASE u = w
    <3>1. /\ job.fn.lowest_live_nonce <= rows[f].lowest_live_nonce
          /\ rows[f].state \in {"ready", "deleted"}
      BY <1>1 DEF JobFits, f, job
    <3>2. /\ jobs'[u].f = f /\ f \in Functions /\ jobs'[u].pc # "register"
          /\ rows'[f].state \in {"ready", "deleted"}
      BY <1>1, <1>4, <1>5, <2>1, <3>1
    <3>3. /\ jobs'[u].fn.next_nonce <= rows'[f].next_nonce
          /\ jobs'[u].fn.lowest_live_nonce <= rows'[f].lowest_live_nonce
          /\ jobs'[u].fn.completion_offset <= rows'[f].completion_offset
      BY <1>2, <1>3, <1>4, <1>5, <2>1, <3>1
    <3> QED
      BY <3>2, <3>3 DEF JobFits
  <2>2. CASE u # w /\ jobs[u].f # f
    BY <1>4, <1>5, <2>2 DEF IInv, JobsFit, JobFits, logVars
  <2>3. CASE u # w /\ jobs[u].f = f
    <3>1. jobs'[u] = jobs[u]
      BY <1>5, <2>3
    <3>2. JobFits(jobs[u])
      BY DEF IInv, JobsFit
    <3>3. jobs[u].pc \notin {"idle", "prepare"} => jobs[u].fn.next_nonce <= n + 1
      BY <1>2, <1>10, <2>3
    <3> QED
      BY <1>3, <1>4, <2>3, <3>1, <3>2, <3>3 DEF JobFits, logVars
  <2> QED
    BY <2>1, <2>2, <2>3
<1>12. AttachFits'
  <2>1. \A g \in Functions : rows'[g].state = rows[g].state
    BY <1>4
  <2> QED
    BY <2>1 DEF IInv, AttachFits, Has, heapVars
<1>13. DueAreAwake'
  <2> SUFFICES ASSUME NEW g \in Functions, Due(g)'
               PROVE  /\ Awake(g)' /\ AwakeOnceTended(g)'
                      /\ \A u \in Workers : AwakeOnceClosed(u, g)' /\ AwakeOnceBoth(u, g)'
    BY DEF DueAreAwake
  <2>1. /\ rows'[g].state = rows[g].state /\ rows'[g].completion_offset = rows[g].completion_offset
        /\ rows'[g].lowest_live_nonce = rows[g].lowest_live_nonce
    BY <1>3, <1>4
  <2>2. Due(g)
    BY <2>1 DEF Due, EnoughRecords, logVars
  <2>3. /\ Awake(g) /\ AwakeOnceTended(g)
        /\ \A u \in Workers : AwakeOnceClosed(u, g) /\ AwakeOnceBoth(u, g)
    BY <2>2 DEF IInv, DueAreAwake
  <2>4. Awake(g)' /\ AwakeOnceTended(g)'
    BY <2>1, <2>3 DEF Awake, AwakeOnceTended, Tending, TenderCarries, Carries, Has, heapVars, logVars
  <2>5. ASSUME NEW u \in Workers, Closing(u, g)'
        PROVE  g # f /\ Closing(u, g) /\ rows'[g] = rows[g] /\ jobs'[u] = jobs[u]
    <3>1. u # w
      BY <1>5, <2>5 DEF Closing
    <3>2. jobs'[u] = jobs[u] /\ jobs[u].pc \in {"push", "finish"} /\ jobs[u].f = g
      BY <1>5, <2>5, <3>1 DEF Closing
    <3>3. g # f
      <4>1. SUFFICES ASSUME g = f PROVE FALSE
        OBVIOUS
      <4>2. jobs[u].fn.next_nonce = n + 1
        BY <1>4, <2>5, <3>2, <4>1 DEF Closing
      <4> QED
        BY <1>2, <1>10, <3>2, <4>1, <4>2
    <3> QED
      BY <1>4, <2>5, <3>2, <3>3 DEF Closing
  <2>6. ASSUME NEW u \in Workers
        PROVE  AwakeOnceClosed(u, g)' /\ AwakeOnceBoth(u, g)'
    BY <2>3, <2>5 DEF AwakeOnceClosed, AwakeOnceBoth, Tending, JobCarries, TenderCarries, Carries, Has,
                      heapVars, logVars
  <2> QED
    BY <2>4, <2>6
<1> QED
  BY <1>6, <1>7, <1>8, <1>9, <1>11, <1>12, <1>13 DEF IInv

LEMMA PrepareKeeps == IInv /\ (\E w \in Workers : Prepare(w)) => IInv'
<1> SUFFICES ASSUME IInv, NEW w \in Workers, Prepare(w) PROVE IInv'
  OBVIOUS
<1>1. PICK pc \in {"execute", "recheck"} : pc = IF EnoughRecords(jobs[w].fn.completion_offset) THEN "execute" ELSE "recheck"
  OBVIOUS
<1>2. /\ jobs[w].pc = "scout"
      /\ UNCHANGED <<cursor, version, attach, tender, excused>> /\ UNCHANGED <<heapVars, logVars>>
  BY DEF AdvanceFits, Prepare
<1>3. CASE ~waiting(jobs[w].fn)
  <2> DEFINE job == [jobs[w] EXCEPT !.pc = pc]
  <2>1. jobs[w] \in Jobs /\ JobFits(jobs[w])
    BY JobTypes
  <2>2. jobs' = [jobs EXCEPT ![w] = job] /\ rows' = rows
    BY <1>1, <1>3 DEF AdvanceFits, Prepare, IInv, Shape
  <2>3. job \in Jobs /\ job.pc = pc /\ job.f = jobs[w].f /\ job.fn = jobs[w].fn
    BY <2>1 DEF Jobs, JobPcs
  <2> HIDE DEF job
  <2>4. JobFits(job)
    BY <1>2, <2>1, <2>3 DEF JobFits
  <2> QED
    BY <1>2, <2>2, <2>3, <2>4, QuietJobStepKeeps DEF heapVars
<1>4. CASE waiting(jobs[w].fn)
  <2>1. /\ rows[jobs[w].f].next_nonce = jobs[w].fn.next_nonce
        /\ rows[jobs[w].f].completion_offset <= jobs[w].fn.completion_offset
        /\ rows[jobs[w].f].next_nonce < MaxNonce
        /\ rows' = [rows EXCEPT ![jobs[w].f].next_nonce = @ + 1, ![jobs[w].f].next_run = now,
                                ![jobs[w].f].completion_offset = jobs[w].fn.completion_offset]
    BY <1>4 DEF AdvanceFits, Prepare
  <2>2. jobs' = [jobs EXCEPT ![w].pc = pc, ![w].fn.next_nonce = @ + 1, ![w].fn.next_run = now]
    BY <1>1, <1>4 DEF AdvanceFits, Prepare
  <2> QED
    BY <1>2, <1>4, <2>1, <2>2, ScheduleKeeps DEF Schedules
<1> QED
  BY <1>3, <1>4

(* What a run that is accepted has processed reaches as far as what was    *)
(* processed before: nothing was registered since it read the version.     *)
LEMMA RegisterAdvances ==
    ASSUME IInv, NEW w \in Workers, Register(w)
    PROVE  LET f == jobs[w].f
               offset == last_offset_processed(jobs[w].position)
           IN  /\ f \in Functions /\ offset \in Nat
               /\ rows[f].completion_offset <= offset
               /\ offset <= last_offset_processed(compacted)
<1>1. /\ jobs[w].pc = "register" /\ current_version(jobs[w])
  BY DEF Register
<1>2. /\ jobs[w] \in Jobs /\ jobs[w].f \in Functions /\ JobFits(jobs[w]) /\ jobs[w].position \in Nat
      /\ compacted \in Nat
  BY <1>1, JobTypes DEF Jobs, IInv, Counted
<1> QED
  BY <1>1, <1>2, LastOffset, LastOffsetGrows DEF JobFits, current_version

LEMMA RegisterKeeps == IInv /\ (\E w \in Workers : Register(w)) => IInv'
<1> SUFFICES ASSUME IInv, NEW w \in Workers, Register(w) PROVE IInv'
  OBVIOUS
<1> DEFINE job == jobs[w]
           f == jobs[w].f
           offset == last_offset_processed(jobs[w].position)
           fn == [job.fn EXCEPT !.completion_offset = offset]
           new == [Idle EXCEPT !.pc = "recheck", !.f = f, !.fn = fn]
<1>1. /\ f \in Functions /\ offset \in Nat
      /\ rows[f].completion_offset <= offset
      /\ offset <= last_offset_processed(compacted)
  BY RegisterAdvances
<1>2. /\ job \in Jobs /\ job.fn \in Rows /\ JobFits(job) /\ rows[f] \in Rows
      /\ rows \in [Functions -> Rows] /\ jobs \in [Workers -> Jobs] /\ version \in [Functions -> Nat]
      /\ job.pc = "register" /\ rows[f].state = "ready"
      /\ rows[f].completion_offset \in Nat
  BY <1>1, JobTypes DEF IInv, Shape, Register, Rows
<1>3. /\ rows' = [rows EXCEPT ![f].completion_offset = offset]
      /\ version' = [version EXCEPT ![f] = @ + 1]
      /\ jobs' = [jobs EXCEPT ![w] = new]
      /\ UNCHANGED <<cursor, attach, tender, excused>> /\ UNCHANGED <<heapVars, logVars>>
  BY DEF Register
<1> HIDE DEF offset
<1>4. /\ rows' \in [Functions -> Rows]
      /\ rows'[f].completion_offset = offset
      /\ \A g \in Functions :
            /\ rows'[g].state = rows[g].state
            /\ rows'[g].next_nonce = rows[g].next_nonce
            /\ rows'[g].lowest_live_nonce = rows[g].lowest_live_nonce
            /\ g # f => rows'[g] = rows[g]
  BY <1>1, <1>2, <1>3 DEF Rows
<1>5. /\ version' \in [Functions -> Nat] /\ version'[f] = version[f] + 1
      /\ \A g \in Functions : g # f => version'[g] = version[g]
  BY <1>1, <1>2, <1>3
<1>6. fn \in Rows /\ fn.next_nonce = job.fn.next_nonce /\ fn.lowest_live_nonce = job.fn.lowest_live_nonce
      /\ fn.completion_offset = offset
  BY <1>1, <1>2 DEF Rows
<1>7. new \in Jobs /\ new.pc = "recheck" /\ new.f = f /\ new.fn = fn
  <2> HIDE DEF fn
  <2> QED
    BY <1>1, <1>6, IdleType DEF Idle, Jobs, JobPcs
<1>8. /\ jobs' \in [Workers -> Jobs] /\ jobs'[w] = new
      /\ \A u \in Workers : u # w => jobs'[u] = jobs[u]
  BY <1>2, <1>3, <1>7
<1> HIDE DEF new, fn, f, job
<1>9. Shape' /\ Counted'
  BY <1>3, <1>4, <1>5, <1>8 DEF IInv, Shape, Counted, heapVars, logVars
<1>10. RowsFit'
  <2> SUFFICES ASSUME NEW g \in Functions PROVE RowFits(rows[g])'
    BY DEF RowsFit
  <2>1. RowFits(rows[g])
    BY DEF IInv, RowsFit
  <2>2. CASE g = f
    BY <1>1, <1>2, <1>3, <1>4, <2>1, <2>2 DEF RowFits, logVars
  <2>3. CASE g # f
    BY <1>3, <1>4, <2>1, <2>3 DEF RowFits, logVars
  <2> QED
    BY <2>2, <2>3
<1>11. OneAttached'
  BY <1>4 DEF IInv, OneAttached
<1>12. ItemsFit'
  <2>1. \A i \in Items : ItemFits(i) => ItemFits(i)'
    BY <1>4 DEF ItemFits, Items
  <2> QED
    BY <1>3, <2>1 DEF IInv, ItemsFit, Shape, heapVars
<1>13. JobsFit'
  <2> SUFFICES ASSUME NEW u \in Workers PROVE JobFits(jobs[u])'
    BY DEF JobsFit
  <2>1. JobFits(jobs[u]) /\ jobs[u] \in Jobs
    BY JobTypes
  <2>2. CASE u = w
    <3>1. /\ job.fn.next_nonce <= rows[f].next_nonce
          /\ job.fn.lowest_live_nonce <= rows[f].lowest_live_nonce
      BY <1>2 DEF JobFits, job, f
    <3>2. offset <= offset
      BY <1>1
    <3> QED
      BY <1>1, <1>2, <1>4, <1>6, <1>7, <1>8, <2>2, <3>1, <3>2 DEF JobFits
  <2>3. CASE u # w /\ jobs[u].f # f
    BY <1>3, <1>4, <1>5, <1>8, <2>1, <2>3 DEF JobFits, logVars
  <2>4. CASE u # w /\ jobs[u].f = f
    <3>1. jobs'[u] = jobs[u] /\ jobs[u].version \in Nat /\ version[f] \in Nat
          /\ jobs[u].fn.completion_offset \in Nat
      BY <1>1, <1>2, <1>8, <2>1, <2>4 DEF Jobs, Rows
    <3>2. jobs[u].pc \notin {"idle", "prepare"} => jobs[u].fn.completion_offset <= offset
      <4>1. jobs[u].pc \notin {"idle", "prepare"} => jobs[u].fn.completion_offset <= rows[f].completion_offset
        BY <2>1, <2>4 DEF JobFits
      <4> QED
        BY <1>1, <1>2, <3>1, <4>1
    <3>3. jobs[u].pc = "register" => jobs[u].version <= version'[f] /\ jobs[u].version # version'[f]
      <4>1. jobs[u].pc = "register" => jobs[u].version <= version[f]
        BY <2>1, <2>4 DEF JobFits
      <4> QED
        BY <1>5, <3>1, <4>1
    <3> QED
      BY <1>3, <1>4, <2>1, <2>4, <3>1, <3>2, <3>3 DEF JobFits, logVars
  <2> QED
    BY <2>2, <2>3, <2>4
<1>14. AttachFits'
  BY <1>3, <1>4 DEF IInv, AttachFits, Has, heapVars
<1>15. DueAreAwake'
  <2> SUFFICES ASSUME NEW g \in Functions, Due(g)'
               PROVE  /\ Awake(g)' /\ AwakeOnceTended(g)'
                      /\ \A u \in Workers : AwakeOnceClosed(u, g)' /\ AwakeOnceBoth(u, g)'
    BY DEF DueAreAwake
  <2>1. Due(g)
    <3>1. /\ rows'[g].completion_offset \in Nat /\ rows[g].completion_offset \in Nat
          /\ rows[g].completion_offset <= rows'[g].completion_offset
      <4>1. CASE g = f
        BY <1>1, <1>2, <1>4, <4>1
      <4>2. CASE g # f
        BY <1>2, <1>4, <4>2 DEF Rows
      <4> QED
        BY <4>1, <4>2
    <3>2. log \in Nat /\ log' = log /\ min_records_for_invocation \in Nat /\ excused' = excused
      BY <1>3, ConstantFacts DEF IInv, Counted, logVars
    <3>3. log + 1 - rows'[g].completion_offset >= min_records_for_invocation
          /\ rows[g].state = "ready" /\ log > excused
      BY <1>4, <3>2 DEF Due, EnoughRecords
    <3>4. log + 1 - rows[g].completion_offset >= min_records_for_invocation
      BY <3>1, <3>2, <3>3
    <3> QED
      BY <3>3, <3>4 DEF Due, EnoughRecords
  <2>2. /\ Awake(g) /\ AwakeOnceTended(g)
        /\ \A u \in Workers : AwakeOnceClosed(u, g) /\ AwakeOnceBoth(u, g)
    BY <2>1 DEF IInv, DueAreAwake
  <2>3. \A u \in Workers : Closing(u, g)' => Closing(u, g) /\ jobs'[u] = jobs[u]
    BY <1>4, <1>7, <1>8 DEF Closing
  <2> QED
    BY <1>3, <1>4, <2>2, <2>3
    DEF Awake, AwakeOnceTended, AwakeOnceClosed, AwakeOnceBoth, Tending, JobCarries, TenderCarries, Carries, Has,
        heapVars, logVars
<1> QED
  BY <1>9, <1>10, <1>11, <1>12, <1>13, <1>14, <1>15 DEF IInv

LEMMA RecheckKeeps == IInv /\ (\E w \in Workers : Recheck(w)) => IInv'
<1> SUFFICES ASSUME IInv, NEW w \in Workers, Recheck(w) PROVE IInv'
  OBVIOUS
<1> DEFINE fn == jobs[w].fn
           f == jobs[w].f
<1>1. /\ jobs[w] \in Jobs /\ JobFits(jobs[w]) /\ fn \in Rows /\ f \in Functions /\ rows[f] \in Rows
      /\ jobs[w].pc = "recheck" /\ w \in Pushers
  BY JobTypes, PusherFacts DEF Recheck
<1>2. /\ UNCHANGED <<cursor, rows, version, heap, now, attach, tender, pruner, stripped, excused>>
      /\ UNCHANGED logVars
  BY DEF Recheck, JobStep
<1>3. ASSUME NEW pc \in {"push", "finish"}, JobStep(w, pc)
      PROVE  LET new == [jobs[w] EXCEPT !.pc = pc]
             IN  new \in Jobs /\ new.pc = pc /\ new.f = f /\ new.fn = fn /\ JobFits(new)
                 /\ jobs' = [jobs EXCEPT ![w] = new] /\ jobs'[w] = new
  <2> DEFINE new == [jobs[w] EXCEPT !.pc = pc]
  <2>1. jobs' = [jobs EXCEPT ![w] = new] /\ jobs'[w] = new
    BY <1>3 DEF JobStep, IInv, Shape
  <2>2. new \in Jobs /\ new.pc = pc /\ new.f = f /\ new.fn = fn
    BY <1>1 DEF Jobs, JobPcs
  <2> HIDE DEF new
  <2>3. JobFits(new)
    BY <1>1, <2>2 DEF JobFits
  <2> QED
    BY <2>1, <2>2, <2>3 DEF new
<1>4. CASE Push(w, <<f, fn.next_nonce>>, fn.next_run) /\ JobStep(w, "push")
  <2> DEFINE new == [jobs[w] EXCEPT !.pc = "push"]
  <2>1. new \in Jobs /\ new.pc = "push" /\ new.f = f /\ new.fn = fn /\ JobFits(new)
        /\ jobs' = [jobs EXCEPT ![w] = new] /\ jobs'[w] = new
    BY <1>3, <1>4
  <2>2. <<f, fn.next_nonce>> \in Items /\ fn.next_run \in Buckets /\ fn.next_nonce \in Nat
        /\ fn.next_nonce <= rows[f].next_nonce
    BY <1>1, ConstantFacts DEF Items, Rows, Nonces, JobFits
  <2>3. /\ puts' \in [Pushers -> Puts]
        /\ puts'[w].pc = "store" /\ puts'[w].item = <<f, fn.next_nonce>> /\ puts'[w].keep \subseteq puts'[w].found
        /\ \A q \in Pushers : q # w => puts'[q] = puts[q]
    BY <1>1, <1>4, <2>2, PushFits
  <2>4. puts'[w].item \in Items /\ (ItemFits(puts[w].item))'
    BY <1>2, <2>2, <2>3 DEF ItemFits
  <2>5. \A g \in Functions : Due(g) /\ Closing(w, g)' => JobCarries(w, g, rows[g].next_nonce)'
    <3> SUFFICES ASSUME NEW g \in Functions, Closing(w, g)'
                 PROVE  JobCarries(w, g, rows[g].next_nonce)'
      OBVIOUS
    <3>1. g = f /\ rows'[g].next_nonce = fn.next_nonce
      BY <2>1 DEF Closing
    <3>2. puts'[w].item[1] = g /\ puts'[w].item[2] = fn.next_nonce
      BY <2>3, <3>1
    <3>3. fn.next_nonce >= fn.next_nonce
      BY <2>2
    <3> HIDE DEF new, fn, f
    <3>4. jobs'[w].pc = "push"
      BY <2>1
    <3> QED
      BY <2>3, <3>1, <3>2, <3>3, <3>4 DEF JobCarries, Carries
  <2> HIDE DEF new
  <2> QED
    BY <1>2, <2>1, <2>3, <2>4, <2>5, JobStepKeeps
<1>5. CASE ~EnoughRecords(fn.completion_offset) /\ JobStep(w, "finish") /\ UNCHANGED puts
  <2> DEFINE new == [jobs[w] EXCEPT !.pc = "finish"]
  <2>1. new \in Jobs /\ new.pc = "finish" /\ new.f = f /\ new.fn = fn /\ JobFits(new)
        /\ jobs' = [jobs EXCEPT ![w] = new] /\ jobs'[w] = new
    BY <1>3, <1>5
  <2>2. /\ puts' \in [Pushers -> Puts] /\ \A q \in Pushers : puts'[q] = puts[q]
        /\ puts'[w].keep \subseteq puts'[w].found
        /\ puts'[w].pc = "store" => puts'[w].item \in Items /\ (ItemFits(puts[w].item))'
    BY <1>1, <1>2, <1>5 DEF IInv, Shape, ItemsFit, ItemFits
  <2>3. ~EnoughRecords(rows[f].completion_offset)
    <3>1. /\ log \in Nat /\ fn.completion_offset \in Nat /\ rows[f].completion_offset \in Nat
          /\ min_records_for_invocation \in Nat
          /\ fn.completion_offset <= rows[f].completion_offset
      BY <1>1, ConstantFacts DEF IInv, Counted, Rows, JobFits
    <3> QED
      BY <1>5, <3>1 DEF EnoughRecords
  <2>4. \A g \in Functions : Closing(w, g)' => g = f
    BY <2>1 DEF Closing
  <2>5. \A g \in Functions : ~(Due(g) /\ Closing(w, g)')
    BY <2>3, <2>4 DEF Due
  <2> HIDE DEF new
  <2> QED
    BY <1>2, <2>1, <2>2, <2>5, JobStepKeeps
<1> QED
  BY <1>4, <1>5 DEF Recheck

LEMMA FinishKeeps == IInv /\ (\E w \in Workers : Finish(w)) => IInv'
<1> SUFFICES ASSUME IInv, NEW w \in Workers, Finish(w) PROVE IInv'
  OBVIOUS
<1> DEFINE f == jobs[w].f
<1>1. /\ jobs[w] \in Jobs /\ JobFits(jobs[w]) /\ f \in Functions /\ rows[f] \in Rows
      /\ rows \in [Functions -> Rows] /\ jobs \in [Workers -> Jobs]
      /\ jobs[w].pc \in {"push", "finish"} /\ rows[f].state = "ready" /\ w \in Pushers
  BY JobTypes, PusherFacts DEF Finish, IInv, Shape
<1>2. /\ rows' = [rows EXCEPT ![f].lowest_live_nonce = rows[f].next_nonce]
      /\ jobs' = [jobs EXCEPT ![w] = Idle]
      /\ UNCHANGED <<cursor, version, attach, tender, heap, now, pruner, stripped>> /\ UNCHANGED logVars
  BY DEF Finish
<1>3. /\ puts' \in [Pushers -> Puts] /\ puts'[w].keep \subseteq puts'[w].found
      /\ \A q \in Pushers : q # w => puts'[q] = puts[q]
      /\ puts'[w].pc = "store" => puts' = puts
      /\ ~JobCarries(w, f, rows[f].next_nonce)
  <2>1. CASE jobs[w].pc = "finish" /\ UNCHANGED puts
    BY <1>1, <2>1 DEF IInv, Shape, ItemsFit, JobCarries
  <2>2. CASE jobs[w].pc = "push" /\ Pushed(w)
    <3>1. puts[w].pc = "pushed" /\ puts' = [puts EXCEPT ![w] = NoPut]
      BY <2>2 DEF Pushed
    <3> QED
      BY <1>1, <3>1, ResetPut DEF JobCarries, Carries
  <2> QED
    BY <2>1, <2>2 DEF Finish
<1>4. /\ excused' \in Nat /\ excused' >= excused /\ excused' <= log
      /\ rows[f].next_nonce # jobs[w].fn.next_nonce => excused' >= log
  <2> DEFINE m == Max({log, excused})
  <2>1. log \in Nat /\ excused \in Nat /\ excused <= log
    BY DEF IInv, Counted
  <2>2. m \in Nat /\ m >= log /\ m >= excused /\ m <= log
    BY <2>1, MaxOfTwo
  <2>3. excused' = IF rows[f].next_nonce # jobs[w].fn.next_nonce THEN m ELSE excused
    BY DEF Finish
  <2> HIDE DEF m
  <2> QED
    BY <2>1, <2>2, <2>3
<1>5. /\ rows' \in [Functions -> Rows]
      /\ rows'[f].lowest_live_nonce = rows[f].next_nonce
      /\ \A g \in Functions :
            /\ rows'[g].state = rows[g].state
            /\ rows'[g].next_nonce = rows[g].next_nonce
            /\ rows'[g].completion_offset = rows[g].completion_offset
            /\ g # f => rows'[g] = rows[g]
  BY <1>1, <1>2 DEF Rows
<1>6. /\ jobs' \in [Workers -> Jobs] /\ jobs'[w].pc = "idle"
      /\ \A u \in Workers : u # w => jobs'[u] = jobs[u]
  BY <1>1, <1>2, IdleType
<1>7. /\ rows[f].next_nonce \in Nat /\ rows[f].lowest_live_nonce \in Nat
      /\ rows[f].lowest_live_nonce <= rows[f].next_nonce
      /\ RowFits(rows[f])
  BY <1>1, ConstantFacts DEF IInv, RowsFit, RowFits, Rows, Nonces
<1>8. Closing(w, f) <=> jobs[w].fn.next_nonce = rows[f].next_nonce
  BY <1>1 DEF Closing
<1> HIDE DEF f
<1>9. Shape' /\ Counted'
  BY <1>2, <1>3, <1>4, <1>5, <1>6 DEF IInv, Shape, Counted, logVars
<1>10. RowsFit'
  <2> SUFFICES ASSUME NEW g \in Functions PROVE RowFits(rows[g])'
    BY DEF RowsFit
  <2>1. CASE g = f
    BY <1>1, <1>2, <1>5, <1>7, <2>1 DEF RowFits, logVars
  <2>2. CASE g # f
    BY <1>2, <1>5, <2>2 DEF IInv, RowsFit, RowFits, logVars
  <2> QED
    BY <2>1, <2>2
<1>11. OneAttached'
  BY <1>5 DEF IInv, OneAttached
<1>12. ItemsFit'
  <2>1. \A i \in Items : ItemFits(i) => ItemFits(i)'
    BY <1>5 DEF ItemFits, Items
  <2>2. \A b \in Buckets : \A i \in heap'[b] : ItemFits(i)'
    BY <1>2, <2>1 DEF IInv, ItemsFit, Shape
  <2>3. ASSUME NEW q \in Pushers
        PROVE  /\ puts'[q].pc = "store" => puts'[q].item \in Items /\ (ItemFits(puts[q].item))'
               /\ puts'[q].keep \subseteq puts'[q].found
    BY <1>3, <2>1 DEF IInv, ItemsFit
  <2> QED
    BY <2>2, <2>3 DEF ItemsFit
<1>13. JobsFit'
  <2> SUFFICES ASSUME NEW u \in Workers, u # w PROVE JobFits(jobs[u])'
    BY <1>6 DEF JobsFit, JobFits
  <2>1. JobFits(jobs[u]) /\ jobs[u].fn \in Rows /\ jobs'[u] = jobs[u]
    BY <1>6, JobTypes
  <2>2. CASE jobs[u].f # f
    BY <1>2, <1>5, <2>1, <2>2 DEF JobFits, logVars
  <2>3. CASE jobs[u].f = f
    <3>1. jobs[u].pc \notin {"idle", "prepare"} => jobs[u].fn.lowest_live_nonce <= rows[f].next_nonce
      <4>1. jobs[u].fn.lowest_live_nonce \in Nat
        BY <2>1, ConstantFacts DEF Rows, Nonces
      <4>2. jobs[u].pc \notin {"idle", "prepare"} => jobs[u].fn.lowest_live_nonce <= rows[f].lowest_live_nonce
        BY <2>1, <2>3 DEF JobFits
      <4> QED
        BY <1>7, <4>1, <4>2
    <3> QED
      BY <1>2, <1>5, <2>1, <2>3, <3>1 DEF JobFits, logVars
  <2> QED
    BY <2>2, <2>3
<1>14. AttachFits'
  <2>1. \A g \in Functions : puts'[g] = puts[g]
    BY <1>3, PusherFacts
  <2> QED
    BY <1>2, <1>5, <2>1 DEF IInv, AttachFits, Has
<1>15. DueAreAwake'
  <2> SUFFICES ASSUME NEW g \in Functions, Due(g)'
               PROVE  /\ Awake(g)' /\ AwakeOnceTended(g)'
                      /\ \A u \in Workers : AwakeOnceClosed(u, g)' /\ AwakeOnceBoth(u, g)'
    BY DEF DueAreAwake
  <2>1. Due(g) /\ ~(excused' >= log)
    <3>1. log \in Nat /\ excused \in Nat /\ log' = log
      BY <1>2 DEF IInv, Counted, logVars
    <3> QED
      BY <1>4, <1>5, <3>1 DEF Due, EnoughRecords
  <2>2. g = f
    BY <1>1, <2>1 DEF Due, IInv, OneAttached
  <2>3. Closing(w, f)
    BY <1>4, <1>8, <2>1
  <2>4. \A u \in Workers : AwakeOnceClosed(u, f) /\ AwakeOnceBoth(u, f)
    BY <2>1, <2>2 DEF IInv, DueAreAwake
  <2>5. cursor < marked \/ Has(f, rows[f].next_nonce)
    BY <1>3, <2>3, <2>4 DEF AwakeOnceClosed
  <2>6. Tending => Has(f, rows[f].next_nonce) \/ TenderCarries(f, rows[f].next_nonce)
    BY <1>3, <2>3, <2>4 DEF AwakeOnceBoth
  <2>7. rows'[g].lowest_live_nonce = rows[f].next_nonce /\ rows'[g].next_nonce = rows[f].next_nonce
    BY <1>5, <2>2
  <2>8. puts'["tender"] = puts["tender"]
    BY <1>3, PusherFacts
  <2>9. Awake(g)'
    BY <1>2, <2>2, <2>5, <2>7 DEF Awake, Has, logVars
  <2>10. AwakeOnceTended(g)'
    BY <1>2, <2>2, <2>6, <2>7, <2>8 DEF AwakeOnceTended, Tending, TenderCarries, Carries, Has, logVars
  <2>11. ASSUME NEW u \in Workers
         PROVE  AwakeOnceClosed(u, g)' /\ AwakeOnceBoth(u, g)'
    BY <1>2, <2>2, <2>5, <2>6, <2>7, <2>8
    DEF AwakeOnceClosed, AwakeOnceBoth, Tending, TenderCarries, Carries, Has, logVars
  <2> QED
    BY <2>9, <2>10, <2>11
<1> QED
  BY <1>9, <1>10, <1>11, <1>12, <1>13, <1>14, <1>15 DEF IInv

LEMMA StutterKeeps == IInv /\ UNCHANGED vars => IInv'
<1> SUFFICES ASSUME IInv, UNCHANGED vars PROVE IInv'
  OBVIOUS
<1>1. now' \in Buckets /\ pruner' \in Buckets \cup {None}
  BY DEF IInv, Shape, vars
<1> QED
  BY <1>1, LookKeeps DEF vars, logVars

LEMMA NextKeeps == IInv /\ [Next]_vars => IInv'
<1> SUFFICES ASSUME IInv, [Next]_vars PROVE IInv'
  OBVIOUS
<1>1. CASE MarkDirty \/ Link \/ Compact
  BY <1>1, MarkDirtyKeeps, LinkKeeps, CompactKeeps
<1>2. CASE \E p \in Pushers : MergeStore(p)
  BY <1>2, MergeStoreKeeps
<1>3. CASE \E b \in Buckets : PruneBucket(b) \/ PruneEmpty(b)
  BY <1>3, PruneBucketKeeps, PruneEmptyKeeps
<1>4. CASE ClearBucket \/ Tick
  BY <1>4, ClearBucketKeeps, TickKeeps
<1>5. CASE \E f \in Functions : AttachInsert(f) \/ AttachReady(f) \/ AttachFails(f)
  BY <1>5, AttachInsertKeeps, AttachReadyKeeps, AttachFailsKeeps
<1>6. CASE \E f \in Functions : DetachFunction(f) \/ CleanupExpiredPartial(f)
  BY <1>6, DeleteKeeps DEF DetachFunction, CleanupExpiredPartial
<1>7. CASE TenderReads \/ TenderPeeks \/ TenderSaves \/ TenderFails
  BY <1>7, TenderReadsKeeps, TenderPeeksKeeps, TenderSavesKeeps, TenderFailsKeeps
<1>8. CASE \E w \in Workers : StartJob(w) \/ ReadFunction(w) \/ Prepare(w) \/ GetCollectionAndSegments(w)
  BY <1>8, StartJobKeeps, ReadFunctionKeeps, PrepareKeeps, GetCollectionKeeps
<1>9. CASE \E w \in Workers : Register(w) \/ Recheck(w) \/ Finish(w) \/ JobFails(w)
  BY <1>9, RegisterKeeps, RecheckKeeps, FinishKeeps, JobFailsKeeps
<1>10. CASE UNCHANGED vars
  BY <1>10, StutterKeeps
<1> QED
  BY <1>1, <1>2, <1>3, <1>4, <1>5, <1>6, <1>7, <1>8, <1>9, <1>10 DEF Next

-----------------------------------------------------------------------------
(* The theorems.                                                           *)

(* The inductive invariant holds.                                          *)
THEOREM Invariance == Spec => []IInv
BY InitHolds, NextKeeps, PTL DEF Spec

LEMMA ItemsAreNeighbours ==
    ASSUME IInv, NEW b \in Buckets, NEW i \in heap[b], i[2] >= rows[i[1]].lowest_live_nonce
    PROVE  i[1] \in Functions /\ i[2] \in {rows[i[1]].lowest_live_nonce, rows[i[1]].next_nonce}
<1>1. i[1] \in Functions /\ i[2] \in Nat
  BY ConstantFacts DEF IInv, Shape, Items, Nonces
<1>2. rows[i[1]].lowest_live_nonce \in Nat /\ rows[i[1]].next_nonce \in Nat
  BY <1>1, ConstantFacts DEF IInv, Shape, Rows, Nonces
<1>3. i[2] <= rows[i[1]].next_nonce
  BY DEF IInv, ItemsFit, ItemFits
<1>4. rows[i[1]].next_nonce <= rows[i[1]].lowest_live_nonce + 1
  BY <1>1 DEF IInv, RowsFit, RowFits
<1> QED
  BY <1>1, <1>2, <1>3, <1>4

(* What is in the heap and not done has one of the two nonces that         *)
(* prepare accepts, however pushes, runs and the tender overlap.           *)
THEOREM ItemsRun == Spec => []LiveItemsRun
<1>1. IInv => LiveItemsRun
  <2> SUFFICES ASSUME IInv, NEW b \in Buckets, NEW i \in heap[b], ~are_done(i)
               PROVE  i[2] \in {rows[i[1]].lowest_live_nonce, rows[i[1]].next_nonce}
    BY DEF LiveItemsRun
  <2>1. i[1] \in Functions /\ i[2] \in Nat
    BY ConstantFacts DEF IInv, Shape, Items, Nonces
  <2>2. rows[i[1]].lowest_live_nonce \in Nat
    BY <2>1, ConstantFacts DEF IInv, Shape, Rows, Nonces
  <2>3. i[2] >= rows[i[1]].lowest_live_nonce
    BY <2>1, <2>2 DEF are_done
  <2> QED
    BY <2>3, ItemsAreNeighbours
<1> QED
  BY <1>1, Invariance, PTL

(* A function with enough new records, none of them excused, is woken:     *)
(* whatever fails and however the tender, the runs, the pushes and the     *)
(* pruner overlap.                                                         *)
THEOREM DueFunctionsRun == Spec => []NothingForgotten
<1>1. IInv => NothingForgotten
  <2> SUFFICES ASSUME IInv, NEW f \in Functions, Due(f) PROVE Woken(f)
    BY DEF NothingForgotten, Due
  <2>1. cursor < marked \/ Has(f, rows[f].lowest_live_nonce)
    BY DEF IInv, DueAreAwake, Awake
  <2>2. ASSUME Has(f, rows[f].lowest_live_nonce) PROVE Woken(f)
    <3>1. PICK b \in Buckets : \E i \in heap[b] : i[1] = f /\ i[2] >= rows[f].lowest_live_nonce
      BY <2>2 DEF Has
    <3>2. PICK i \in heap[b] : i[1] = f /\ i[2] >= rows[f].lowest_live_nonce
      BY <3>1
    <3>3. i[2] \in {rows[f].lowest_live_nonce, rows[f].next_nonce}
      BY <3>2, ItemsAreNeighbours
    <3> QED
      BY <3>2, <3>3 DEF Woken
  <2> QED
    BY <2>1, <2>2 DEF Woken
<1> QED
  BY <1>1, Invariance, PTL

(* No run takes the offset of its function back.                           *)
THEOREM OffsetsAdvance == Spec => CompletionAdvances
<1>1. IInv /\ [Next]_vars =>
          [\A f \in Functions : rows'[f].completion_offset >= rows[f].completion_offset]_vars
  <2> SUFFICES ASSUME IInv, Next, NEW f \in Functions
               PROVE  rows'[f].completion_offset >= rows[f].completion_offset
    OBVIOUS
  <2>1. rows \in [Functions -> Rows] /\ rows[f].completion_offset \in Nat
    BY DEF IInv, Shape, Rows
  <2>2. CASE \E g \in Functions : AttachInsert(g)
    <3>1. PICK g \in Functions : AttachInsert(g)
      BY <2>2
    <3>2. rows[g].completion_offset = 0
      BY <3>1 DEF AttachInsert, IInv, RowsFit, RowFits
    <3> QED
      BY <2>1, <3>1, <3>2 DEF AttachInsert, NoRow
  <2>3. CASE \E g \in Functions : AttachReady(g) \/ DetachFunction(g) \/ CleanupExpiredPartial(g)
    <3>1. PICK g \in Functions : AttachReady(g) \/ DetachFunction(g) \/ CleanupExpiredPartial(g)
      BY <2>3
    <3>2. CASE AttachReady(g)
      <4>1. \/ UNCHANGED rows
            \/ rows' = [rows EXCEPT ![g].state = "ready", ![g].lowest_live_nonce = minimalUUIDv7]
        BY <3>2 DEF AttachReady
      <4> QED
        BY <2>1, <4>1 DEF Rows
    <3>3. CASE DetachFunction(g) \/ CleanupExpiredPartial(g)
      BY <2>1, <3>3 DEF DetachFunction, CleanupExpiredPartial, Delete, Rows
    <3> QED
      BY <3>1, <3>2, <3>3
  <2>4. CASE \E w \in Workers : Prepare(w)
    <3>1. PICK w \in Workers : Prepare(w)
      BY <2>4
    <3>2. jobs[w].f \in Functions /\ jobs[w].fn.completion_offset \in Nat
      BY <3>1, JobTypes DEF AdvanceFits, Prepare, Rows
    <3>3. CASE UNCHANGED rows
      BY <2>1, <3>3
    <3>4. CASE ~UNCHANGED rows
      <4>1. /\ rows[jobs[w].f].completion_offset <= jobs[w].fn.completion_offset
            /\ rows' = [rows EXCEPT ![jobs[w].f].next_nonce = @ + 1, ![jobs[w].f].next_run = now,
                                    ![jobs[w].f].completion_offset = jobs[w].fn.completion_offset]
        BY <3>1, <3>4 DEF AdvanceFits, Prepare
      <4>2. CASE f = jobs[w].f
        BY <2>1, <3>2, <4>1, <4>2
      <4>3. CASE f # jobs[w].f
        BY <2>1, <3>2, <4>1, <4>3
      <4> QED
        BY <4>2, <4>3
    <3> QED
      BY <3>3, <3>4
  <2>5. CASE \E w \in Workers : Register(w)
    <3>1. PICK w \in Workers : Register(w)
      BY <2>5
    <3> DEFINE offset == last_offset_processed(jobs[w].position)
    <3>2. jobs[w].f \in Functions /\ offset \in Nat /\ rows[jobs[w].f].completion_offset <= offset
      BY <3>1, RegisterAdvances
    <3>3. rows' = [rows EXCEPT ![jobs[w].f].completion_offset = offset]
      BY <3>1 DEF Register
    <3> HIDE DEF offset
    <3> QED
      BY <2>1, <3>2, <3>3
  <2>6. CASE \E w \in Workers : Finish(w)
    BY <2>1, <2>6 DEF Finish
  <2>7. CASE UNCHANGED rows
    BY <2>1, <2>7
  <2> QED
    BY <2>2, <2>3, <2>4, <2>5, <2>6, <2>7
    DEF Next, MarkDirty, Link, Compact, MergeStore, PruneBucket, PruneEmpty, ClearBucket, Tick, AttachFails,
        TenderReads, TenderPeeks, TenderSaves, TenderFails, StartJob, ReadFunction, GetCollectionAndSegments,
        Recheck, JobFails
<1> QED
  BY <1>1, Invariance, PTL DEF Spec, CompletionAdvances

=============================================================================

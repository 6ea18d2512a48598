-------------------------- MODULE LogService_proofs ---------------------------
(***************************************************************************)
(* Proofs about the log service: about DirtyLog, for any number of         *)
(* collections, records and faults, and about OpenLogs, for any finite     *)
(* number of calls.                                                        *)
(*                                                                         *)
(* DirtyLog: the cache is behind the COMPACTION cursor, the cursor behind  *)
(* sysdb, sysdb behind the log.  A roll-up drops a collection only when    *)
(* the cursor has passed every mark that it has read, and re-appends a     *)
(* mark that reaches as far as they do otherwise, before the STABLE_PREFIX *)
(* cursor lets go of them.  A mark that is written while a roll-up is      *)
(* under way starts no later than where the marks that the roll-up has     *)
(* read end, or than what is compacted.  The marks that a roll-up could    *)
(* not read and the STABLE_PREFIX cursor has passed are kept in lost, so   *)
(* that some mark, in the dirty log or lost, always covers the log; what   *)
(* is said of starts is said of the collections all of whose marks could   *)
(* be read.                                                                *)
(*                                                                         *)
(* OpenLogs: a handle that has not been let go of keeps the state in the   *)
(* table, since the count that would take it out counts that handle too.   *)
(* So whoever looks the log up meanwhile gets the same state, and with it  *)
(* the same mutex, which is held from the moment a call finds no log to    *)
(* the moment it has put one there.                                        *)
(***************************************************************************)
EXTENDS DirtyLog, OpenLogs, FiniteSetTheorems, WellFoundedInduction, TLAPS

Marks(S, c) == {m \in S : m.type = "mark" /\ m.collection = c}
Purged(S, c) == \E m \in S : m.type = "purge" /\ m.collection = c

Rollup == [start : Nat, limit : Nat, reinsert_count : 0..reinsert_threshold]
Mark == [type : {"mark"}, collection : Collections, start : Nat, limit : Nat,
         reinsert_count : 0..reinsert_threshold]

(* The collections all of whose marks could be read.                       *)
Sure == known \ (deleted \cup unread)

Everywhere == window \cup skipped \cup dirty \cup lost

Types ==
    /\ window \subseteq Mark \cup Purge /\ skipped \subseteq Mark \cup Purge
    /\ dirty \subseteq Mark \cup Purge /\ lost \subseteq Mark \cup Purge
    /\ next_write \in [Collections -> Nat]
    /\ cursor \in [Collections -> Nat]
    /\ compacted \in [Collections -> Nat]
    /\ cache \in [Collections -> Nat]
    /\ known \subseteq Collections
    /\ write \in [Collections -> {"idle", "marked"}]
    /\ update \in [Collections -> {"idle", "save", "cache", "need"}]

(* The cache is behind the cursor, the cursor behind sysdb, sysdb behind   *)
(* the log.                                                                *)
Order(c) ==
    /\ cache[c] <= cursor[c]
    /\ cursor[c] <= compacted[c]
    /\ compacted[c] <= next_write[c]
    /\ c \in known => cursor[c] >= 1
    /\ update[c] = "cache" => cursor[c] = compacted[c]

MarkOK(m) == m.type = "mark" => m.start < m.limit /\ m.limit <= next_write[m.collection] + 1

MarkersOK ==
    /\ \A m \in window \cup skipped \cup dirty : MarkOK(m)
    /\ \A c \in Collections : Purged(window \cup skipped \cup dirty, c) => c \in deleted
    /\ \A m \in skipped \cup lost : m.collection \in unread

NeedOK ==
    \A c \in DOMAIN need_to_compact :
        /\ c \in Collections
        /\ need_to_compact[c] \in Rollup
        /\ c \in Sure => need_to_compact[c].start <= compacted[c]

(* The roll-up under way, ...                                              *)
RollType ==
    /\ roll.pc \in {"idle", "enrich", "save", "swap"}
    /\ roll.pc \in {"idle", "swap"} => window = {} /\ skipped = {}
    /\ roll.pc # "idle" => roll = [pc |-> roll.pc, rollups |-> roll.rollups, todo |-> roll.todo,
                                   loaded |-> roll.loaded]

(* ... what it says of c, ...                                              *)
RollupOK(c) ==
    c \in DOMAIN roll.rollups =>
        /\ roll.rollups[c] \in Rollup
        /\ roll.rollups[c].start < roll.rollups[c].limit
        /\ roll.rollups[c].limit <= next_write[c] + 1
        /\ c \in Sure => roll.rollups[c].start <= compacted[c]
        /\ c \in known => \A m \in Marks(window, c) : m.limit <= roll.rollups[c].limit

(* ... and what it has dropped.                                            *)
DroppedOK(c) ==
    (c \in known /\ c \notin DOMAIN roll.rollups /\ ~Purged(window, c)) =>
        \A m \in Marks(window, c) : m.limit <= cursor[c]

LoadedOK(c) ==
    c \in DOMAIN roll.loaded =>
        /\ roll.loaded[c] \in Nat
        /\ roll.loaded[c] <= cursor[c]
        /\ c \in known => roll.loaded[c] >= 1

RollOK ==
    /\ RollType
    /\ roll.pc # "idle" => DOMAIN roll.rollups \subseteq Collections
                           /\ \A c \in Collections : RollupOK(c)
    /\ roll.pc = "enrich" => roll.todo \subseteq DOMAIN roll.rollups
                             /\ \A c \in Collections : LoadedOK(c)
    /\ roll.pc \in {"enrich", "save"} => \A c \in Collections : DroppedOK(c)
    /\ roll.pc = "save" => Markers \subseteq dirty

(* What is linked, or about to be, is covered by a mark.                   *)
Covered(c) ==
    /\ cursor[c] < next_write[c] => \E m \in Marks(Everywhere, c) : m.limit >= next_write[c]
    /\ write[c] = "marked" => \E m \in Marks(Everywhere, c) : m.limit >= next_write[c] + 1

(* The marks of c start no later than what is not compacted.               *)
StartsOK(c) ==
    /\ Marks(window, c) # {} => \E m \in Marks(window, c) : m.start <= compacted[c]
    /\ Marks(dirty, c) # {} =>
          \E m \in Marks(dirty, c) :
              m.start <= compacted[c] \/ \E k \in Marks(window, c) : m.start <= k.limit

IInv ==
    /\ Types
    /\ \A c \in Collections : Order(c)
    /\ MarkersOK
    /\ NeedOK
    /\ RollOK
    /\ \A c \in known \ deleted : Covered(c)
    /\ \A c \in Sure : StartsOK(c)

-----------------------------------------------------------------------------
(* Least and greatest numbers.                                             *)

LEMMA LeastOf ==
    ASSUME NEW S \in SUBSET Nat, S # {}
    PROVE  \E n \in S : \A m \in S : n <= m
<1> DEFINE R == {ss \in Nat \X Nat : ss[1] < ss[2]}
<1>1. IsWellFoundedOn(R, Nat)
  BY NatLessThanWellFounded DEF OpToRel
<1> HIDE DEF R
<1>2. PICK n \in S : \A m \in S : ~(<<m, n>> \in R)
  BY <1>1, WFMin
<1>3. \A m \in S : ~(m < n)
  BY <1>2 DEF R
<1> QED BY <1>3

LEMMA MinOf ==
    ASSUME NEW S \in SUBSET Nat, S # {}
    PROVE  Min(S) \in S /\ \A m \in S : Min(S) <= m
<1>1. \E n \in S : \A m \in S : n <= m
  BY LeastOf
<1> QED BY <1>1 DEF Min

LEMMA MaxOf ==
    ASSUME NEW B \in Nat, NEW S \in SUBSET (0..B), S # {}
    PROVE  Max(S) \in S /\ \A m \in S : m <= Max(S)
<1> DEFINE T == {k \in Nat : B - k \in S}
<1>1. T \in SUBSET Nat /\ T # {}
  <2>1. PICK x \in S : TRUE
    OBVIOUS
  <2>2. B - x \in Nat /\ B - (B - x) = x
    OBVIOUS
  <2> QED BY <2>1, <2>2
<1>2. PICK k \in T : \A l \in T : k <= l
  BY <1>1, LeastOf
<1>3. \A m \in S : B - m \in T
  OBVIOUS
<1>4. \A m \in S : k <= B - m
  BY <1>2, <1>3
<1>5. B - k \in S /\ k \in Nat
  BY <1>2
<1>6. \E n \in S : \A m \in S : n >= m
  BY <1>4, <1>5
<1> QED BY <1>6 DEF Max

LEMMA MaxOfTwo ==
    ASSUME NEW a \in Nat, NEW b \in Nat
    PROVE  /\ Max({a, b}) \in {a, b} /\ a <= Max({a, b}) /\ b <= Max({a, b})
           /\ Min({a, b}) \in {a, b} /\ Min({a, b}) <= a /\ Min({a, b}) <= b
<1>1. \E x \in {a, b} : \A y \in {a, b} : x >= y
  OBVIOUS
<1>2. \E x \in {a, b} : \A y \in {a, b} : x <= y
  OBVIOUS
<1> QED BY <1>1, <1>2 DEF Max, Min

-----------------------------------------------------------------------------
(* What steps leave alone.                                                 *)

(* Positions only advance.                                                 *)
Advances ==
    \A c \in Collections :
        /\ cursor'[c] \in Nat /\ cursor[c] <= cursor'[c]
        /\ compacted'[c] \in Nat /\ compacted[c] <= compacted'[c]

LEMMA SameMarks ==
    ASSUME IInv, UNCHANGED <<window, skipped, dirty, lost, next_write, known>>,
           deleted \subseteq deleted', unread \subseteq unread', Advances,
           \A c \in Collections : write'[c] \in {write[c], "idle"}
    PROVE  /\ MarkersOK'
           /\ \A c \in known' \ deleted' : Covered(c)'
           /\ \A c \in Sure' : StartsOK(c)'
<1>1. MarkersOK'
  BY DEF IInv, MarkersOK, MarkOK, Purged
<1>2. ASSUME NEW c \in known, c \notin deleted'
      PROVE  Covered(c)'
  <2>1. Covered(c) /\ c \in Collections
    BY <1>2 DEF IInv, Types
  <2>2. cursor'[c] < next_write[c] => cursor[c] < next_write[c]
    BY <2>1 DEF Advances, IInv, Types
  <2> QED BY <2>1, <2>2 DEF Covered, Everywhere, Marks
<1>3. ASSUME NEW c \in Sure'
      PROVE  StartsOK(c)'
  <2>1. StartsOK(c) /\ c \in Collections
    BY <1>3 DEF IInv, Types, Sure
  <2>2. \A m \in Marks(window, c) \cup Marks(dirty, c) : m.start \in Nat
    BY DEF IInv, Types, Marks, Mark, Purge
  <2>3. \A m \in Marks(window, c) \cup Marks(dirty, c) :
           m.start <= compacted[c] => m.start <= compacted'[c]
    BY <2>1, <2>2 DEF Advances, IInv, Types
  <2>4. Marks(window, c)' = Marks(window, c) /\ Marks(dirty, c)' = Marks(dirty, c)
    BY DEF Marks
  <2> HIDE DEF Marks
  <2> QED BY <2>1, <2>3, <2>4 DEF StartsOK
<1> QED BY <1>1, <1>2, <1>3

LEMMA SameNeed ==
    ASSUME IInv, UNCHANGED <<need_to_compact, known>>, Advances,
           deleted \subseteq deleted', unread \subseteq unread'
    PROVE  NeedOK'
<1> SUFFICES ASSUME NEW c \in DOMAIN need_to_compact
             PROVE  /\ c \in Collections
                    /\ need_to_compact[c] \in Rollup
                    /\ c \in Sure => need_to_compact[c].start <= compacted'[c]
  BY DEF NeedOK, Sure
<1>1. /\ c \in Collections /\ need_to_compact[c] \in Rollup
      /\ c \in Sure => need_to_compact[c].start <= compacted[c]
  BY DEF IInv, NeedOK
<1>2. need_to_compact[c].start \in Nat /\ compacted[c] \in Nat
  BY <1>1 DEF Rollup, IInv, Types
<1> QED BY <1>1, <1>2 DEF Advances

LEMMA SameRoll ==
    ASSUME IInv, UNCHANGED <<roll, window, skipped, known>>, Advances, dirty \subseteq dirty',
           deleted \subseteq deleted', unread \subseteq unread',
           \A c \in Collections : next_write'[c] \in Nat /\ next_write[c] <= next_write'[c]
    PROVE  RollOK'
<1>0. RollOK
  BY DEF IInv
<1>1. RollType'
  BY <1>0 DEF RollOK, RollType
<1>2. ASSUME roll.pc # "idle", NEW c \in Collections
      PROVE  RollupOK(c)'
  <2> SUFFICES ASSUME c \in DOMAIN roll.rollups
               PROVE  RollupOK(c)'
    BY DEF RollupOK
  <2>1. /\ roll.rollups[c] \in Rollup
        /\ roll.rollups[c].start < roll.rollups[c].limit
        /\ roll.rollups[c].limit <= next_write[c] + 1
        /\ c \in Sure => roll.rollups[c].start <= compacted[c]
        /\ c \in known => \A m \in Marks(window, c) : m.limit <= roll.rollups[c].limit
    BY <1>0, <1>2 DEF RollOK, RollupOK
  <2>2. /\ roll.rollups[c].start \in Nat /\ roll.rollups[c].limit \in Nat
        /\ next_write[c] \in Nat /\ compacted[c] \in Nat
    BY <2>1 DEF Rollup, IInv, Types
  <2>3. /\ roll.rollups[c].limit <= next_write'[c] + 1
        /\ c \in Sure => roll.rollups[c].start <= compacted'[c]
    BY <2>1, <2>2 DEF Advances
  <2> QED BY <2>1, <2>3 DEF RollupOK, Marks, Sure
<1>3. ASSUME roll.pc = "enrich", NEW c \in Collections
      PROVE  LoadedOK(c)'
  <2>1. LoadedOK(c) /\ cursor[c] \in Nat
    BY <1>0, <1>3 DEF RollOK, IInv, Types
  <2> QED BY <2>1 DEF LoadedOK, Advances
<1>4. ASSUME roll.pc \in {"enrich", "save"}, NEW c \in Collections
      PROVE  DroppedOK(c)'
  <2>1. DroppedOK(c) /\ cursor[c] \in Nat
    BY <1>0, <1>4 DEF RollOK, IInv, Types
  <2>2. \A m \in Marks(window, c) : m.limit \in Nat
    BY DEF IInv, Types, Marks, Mark, Purge
  <2>3. \A m \in Marks(window, c) : m.limit <= cursor[c] => m.limit <= cursor'[c]
    BY <2>1, <2>2 DEF Advances
  <2>4. Marks(window, c)' = Marks(window, c) /\ Purged(window, c)' = Purged(window, c)
    BY DEF Marks, Purged
  <2> QED BY <2>1, <2>3, <2>4 DEF DroppedOK
<1>5. Markers' = Markers
  BY DEF Markers
<1> QED BY <1>0, <1>1, <1>2, <1>3, <1>4, <1>5 DEF RollOK

-----------------------------------------------------------------------------
(* Writing.                                                                *)

LEMMA MarkWriteKeeps ==
    ASSUME IInv, NEW c \in Collections, MarkWrite(c)
    PROVE  IInv'
<1> DEFINE n == next_write[c]
           new == [type |-> "mark", collection |-> c, start |-> n, limit |-> n + 1,
                   reinsert_count |-> 0]
<1>1. /\ dirty' = dirty \cup {new} /\ write' = [write EXCEPT ![c] = "marked"]
      /\ UNCHANGED <<window, skipped, lost, unread, next_write, cursor, compacted,
                     deleted, known, cache, need_to_compact, roll, update>>
      /\ n \in Nat
  BY DEF MarkWrite, memory, unreadable, IInv, Types
<1>2. new \in Mark /\ new.start < new.limit /\ new.limit <= next_write[c] + 1
  BY <1>1, DirtyLogAssumption DEF Mark
<1>3. new.type = "mark" /\ new.collection = c /\ new.start = n /\ new.limit = n + 1
  OBVIOUS
<1> HIDE DEF new
<1>4. Types'
  BY <1>1, <1>2 DEF IInv, Types
<1>5. Advances /\ \A d \in Collections : Order(d)'
  BY <1>1 DEF Advances, IInv, Types, Order
<1>6. MarkersOK'
  BY <1>1, <1>2, <1>3 DEF IInv, MarkersOK, MarkOK, Purged
<1>7. NeedOK'
  BY <1>1, <1>5, SameNeed
<1>8. RollOK'
  <2>2. \A d \in Collections : next_write'[d] \in Nat /\ next_write[d] <= next_write'[d]
    BY <1>1 DEF IInv, Types
  <2> QED BY <1>1, <1>5, <2>2, SameRoll
<1>9. ASSUME NEW d \in known, d \notin deleted
      PROVE  Covered(d)'
  <2>1. Covered(d) /\ d \in Collections
    BY <1>9 DEF IInv, Types
  <2>2. \A m \in Marks(Everywhere, d) : m \in Marks(Everywhere', d)
    BY <1>1 DEF Marks, Everywhere
  <2>3. cursor'[d] < next_write'[d] => \E m \in Marks(Everywhere', d) : m.limit >= next_write'[d]
    BY <1>1, <2>1, <2>2 DEF Covered
  <2>4. CASE d = c
    <3>1. new \in Marks(Everywhere', d)
      BY <1>1, <1>3, <2>4 DEF Marks, Everywhere
    <3>2. new.limit >= next_write'[d] + 1
      BY <1>1, <1>3, <2>4
    <3> QED BY <2>3, <3>1, <3>2 DEF Covered
  <2>5. CASE d # c
    <3>1. write'[d] = write[d]
      BY <1>1, <2>1, <2>5 DEF IInv, Types
    <3> QED BY <1>1, <2>1, <2>2, <2>3, <3>1 DEF Covered
  <2> QED BY <2>4, <2>5
<1>10. ASSUME NEW d \in Sure'
       PROVE  StartsOK(d)'
  <2>1. StartsOK(d) /\ d \in Collections /\ d \in known /\ d \notin deleted /\ d \notin unread
    BY <1>1, <1>10 DEF IInv, Types, Sure
  <2>2. Marks(window', d) = Marks(window, d)
    BY <1>1 DEF Marks
  <2>3. CASE d = c /\ Marks(dirty, c) = {}
    <3>1. Marks(dirty', c) = {new}
      BY <1>1, <1>3, <2>3 DEF Marks
    <3>2. n <= compacted[c] \/ \E k \in Marks(window, c) : n <= k.limit
      <4>1. Covered(c) /\ Order(c)
        BY <2>1, <2>3 DEF IInv
      <4>2. cursor[c] \in Nat /\ compacted[c] \in Nat
        BY DEF IInv, Types
      <4>3. CASE cursor[c] < n
        <5>1. \E m \in Marks(Everywhere, c) : m.limit >= n
          BY <4>1, <4>3 DEF Covered
        <5>2. \E m \in Marks(window, c) : m.limit >= n
          BY <2>1, <2>3, <5>1 DEF Marks, Everywhere, IInv, MarkersOK
        <5>3. \A m \in Marks(window, c) : m.limit \in Nat
          BY DEF IInv, Types, Marks, Mark, Purge
        <5> QED BY <1>1, <5>2, <5>3
      <4>4. CASE ~(cursor[c] < n)
        BY <1>1, <4>1, <4>2, <4>4 DEF Order
      <4> QED BY <4>3, <4>4
    <3> QED BY <1>1, <1>3, <2>1, <2>2, <2>3, <3>1, <3>2 DEF StartsOK
  <2>4. CASE ~(d = c /\ Marks(dirty, c) = {})
    <3>1. \A m \in Marks(dirty, d) : m \in Marks(dirty', d)
      BY <1>1 DEF Marks
    <3>2. Marks(dirty', d) # {} => Marks(dirty, d) # {}
      BY <1>1, <1>3, <2>4 DEF Marks
    <3> QED BY <1>1, <2>1, <2>2, <3>1, <3>2 DEF StartsOK
  <2> QED BY <2>3, <2>4
<1> QED BY <1>1, <1>4, <1>5, <1>6, <1>7, <1>8, <1>9, <1>10 DEF IInv

LEMMA LinkKeeps ==
    ASSUME IInv, NEW c \in Collections, Link(c)
    PROVE  IInv'
<1> DEFINE n == next_write[c]
<1>1. /\ next_write' = [next_write EXCEPT ![c] = n + 1] /\ write' = [write EXCEPT ![c] = "idle"]
      /\ UNCHANGED <<window, skipped, dirty, lost, unread, cursor, compacted, deleted,
                     known, cache, need_to_compact, roll, update>>
      /\ write[c] = "marked"
  BY DEF Link, memory, unreadable
<1>2. /\ \A d \in Collections : next_write[d] \in Nat
      /\ next_write'[c] = n + 1
      /\ \A d \in Collections : d # c => next_write'[d] = next_write[d]
  BY <1>1 DEF IInv, Types
<1>3. \A d \in Collections : next_write'[d] \in Nat /\ next_write[d] <= next_write'[d]
  BY <1>2
<1>4. Types'
  BY <1>1, <1>2 DEF IInv, Types
<1>5. Advances /\ \A d \in Collections : Order(d)'
  <2>1. \A d \in Collections : cursor[d] \in Nat /\ compacted[d] \in Nat
    BY DEF IInv, Types
  <2> QED BY <1>1, <1>2, <1>3, <2>1 DEF Advances, IInv, Order
<1>6. MarkersOK'
  <2>1. ASSUME NEW m \in window \cup skipped \cup dirty
        PROVE  MarkOK(m)'
    <3>1. MarkOK(m)
      BY <2>1 DEF IInv, MarkersOK
    <3>2. m.type = "mark" => m.limit \in Nat /\ m.collection \in Collections
      BY <2>1 DEF IInv, Types, Mark, Purge
    <3> QED BY <1>2, <1>3, <3>1, <3>2 DEF MarkOK
  <2> QED BY <1>1, <2>1 DEF IInv, MarkersOK, Purged
<1>7. NeedOK'
  BY <1>1, <1>5, SameNeed
<1>8. RollOK'
  BY <1>1, <1>3, <1>5, SameRoll
<1>9. ASSUME NEW d \in known, d \notin deleted
      PROVE  Covered(d)'
  <2>1. Covered(d) /\ d \in Collections
    BY <1>9 DEF IInv, Types
  <2>2. CASE d = c
    <3>1. \E m \in Marks(Everywhere, c) : m.limit >= n + 1
      BY <1>1, <2>1, <2>2 DEF Covered
    <3>2. write'[c] = "idle"
      BY <1>1 DEF IInv, Types
    <3> QED BY <1>1, <1>2, <2>2, <3>1, <3>2 DEF Covered, Everywhere, Marks
  <2>3. CASE d # c
    <3>1. write'[d] = write[d] /\ next_write'[d] = next_write[d]
      BY <1>1, <1>2, <2>1, <2>3 DEF IInv, Types
    <3> QED BY <1>1, <2>1, <3>1 DEF Covered, Everywhere, Marks
  <2> QED BY <2>2, <2>3
<1>10. \A d \in Sure' : StartsOK(d)'
  BY <1>1 DEF IInv, StartsOK, Marks, Sure
<1> QED BY <1>1, <1>4, <1>5, <1>6, <1>7, <1>8, <1>9, <1>10 DEF IInv

(* A step that leaves the marks, the logs and the roll-up alone.           *)
LEMMA QuietStep ==
    ASSUME IInv, UNCHANGED <<window, skipped, dirty, lost, next_write, known, roll>>,
           deleted \subseteq deleted', unread \subseteq unread', Advances,
           \A c \in Collections : write'[c] \in {write[c], "idle"},
           Types', \A c \in Collections : Order(c)', NeedOK'
    PROVE  IInv'
<1>1. \A c \in Collections : next_write'[c] \in Nat /\ next_write[c] <= next_write'[c]
  BY DEF IInv, Types
<1>2. RollOK'
  BY <1>1, SameRoll
<1> QED BY <1>2, SameMarks DEF IInv

LEMMA FailWriteKeeps ==
    ASSUME IInv, NEW c \in Collections, FailWrite(c)
    PROVE  IInv'
<1>1. /\ UNCHANGED <<window, skipped, dirty, lost, unread, next_write, cursor, compacted, deleted, known, cache,
                     need_to_compact, roll, update>>
      /\ write' = [write EXCEPT ![c] = "idle"]
  BY DEF FailWrite, storage, unreadable, memory
<1>2. Types' /\ Advances /\ \A d \in Collections : Order(d)' /\ write'[d] \in {write[d], "idle"}
  BY <1>1 DEF IInv, Types, Order, Advances
<1> QED BY <1>1, <1>2, QuietStep, SameNeed

LEMMA DeleteKeeps ==
    ASSUME IInv, NEW c \in Collections, Delete(c)
    PROVE  IInv'
<1>1. /\ UNCHANGED <<window, skipped, dirty, lost, unread, next_write, cursor, compacted, known, cache,
                     need_to_compact, roll, update, write>>
      /\ deleted \subseteq deleted'
  BY DEF Delete, memory, unreadable
<1>2. Types' /\ Advances /\ \A d \in Collections : Order(d)' /\ write'[d] \in {write[d], "idle"}
  BY <1>1 DEF IInv, Types, Order, Advances
<1> QED BY <1>1, <1>2, QuietStep, SameNeed

-----------------------------------------------------------------------------
(* Compacting.                                                             *)

LEMMA CompactKeeps ==
    ASSUME IInv, NEW c \in Collections, Compact(c)
    PROVE  IInv'
<1>1. /\ UNCHANGED <<window, skipped, dirty, lost, unread, next_write, cursor, deleted, known, cache, need_to_compact,
                     roll, write>>
      /\ update[c] = "idle" /\ update' = [update EXCEPT ![c] = "save"]
  BY DEF Compact, memory, unreadable
<1>2. PICK p \in compacted[c]..next_write[c] : compacted' = [compacted EXCEPT ![c] = p]
  BY DEF Compact
<1>3. \A d \in Collections : cursor[d] \in Nat /\ compacted[d] \in Nat /\ next_write[d] \in Nat
  BY DEF IInv, Types
<1>4. p \in Nat /\ compacted[c] <= p /\ p <= next_write[c]
  BY <1>2, <1>3
<1>5. /\ compacted'[c] = p
      /\ \A d \in Collections : d # c => compacted'[d] = compacted[d] /\ update'[d] = update[d]
      /\ update'[c] = "save"
  BY <1>1, <1>2 DEF IInv, Types
<1>6. Types'
  BY <1>1, <1>2, <1>4 DEF IInv, Types
<1>7. Advances
  BY <1>1, <1>3, <1>4, <1>5 DEF Advances
<1>8. \A d \in Collections : Order(d)'
  <2>1. \A d \in Collections : Order(d)
    BY DEF IInv
  <2>2. \A d \in Collections : cursor[d] <= compacted'[d] /\ compacted'[d] <= next_write[d]
    BY <1>3, <1>4, <1>5, <2>1 DEF Order
  <2> QED BY <1>1, <1>5, <2>1, <2>2 DEF Order
<1> QED BY <1>1, <1>6, <1>7, <1>8, QuietStep, SameNeed

LEMMA SaveCompactionCursorKeeps ==
    ASSUME IInv, NEW c \in Collections, SaveCompactionCursor(c)
    PROVE  IInv'
<1>1. /\ UNCHANGED <<window, skipped, dirty, lost, unread, next_write, compacted, deleted, known, cache, need_to_compact,
                     roll, write>>
      /\ \/ UNCHANGED cursor /\ update' = [update EXCEPT ![c] = "idle"]
         \/ /\ cursor' = [cursor EXCEPT ![c] = compacted[c]]
            /\ update' = [update EXCEPT ![c] = "cache"]
  BY DEF SaveCompactionCursor, memory, unreadable
<1>2. \A d \in Collections : cursor[d] \in Nat /\ compacted[d] \in Nat /\ cache[d] \in Nat
  BY DEF IInv, Types
<1>3. /\ cursor'[c] \in {cursor[c], compacted[c]}
      /\ update'[c] = "cache" => cursor'[c] = compacted[c]
      /\ \A d \in Collections : d # c => cursor'[d] = cursor[d] /\ update'[d] = update[d]
  BY <1>1 DEF IInv, Types
<1>4. \A d \in Collections : Order(d)
  BY DEF IInv
<1>5. Types'
  BY <1>1 DEF IInv, Types
<1>6. Advances
  BY <1>1, <1>2, <1>3, <1>4 DEF Advances, Order
<1>7. \A d \in Collections : Order(d)'
  <2>1. cache[c] <= cursor'[c] /\ cursor'[c] <= compacted[c] /\ (c \in known => cursor'[c] >= 1)
    BY <1>2, <1>3, <1>4 DEF Order
  <2> QED BY <1>1, <1>3, <1>4, <2>1 DEF Order
<1> QED BY <1>1, <1>5, <1>6, <1>7, QuietStep, SameNeed

LEMMA CacheCompactionCursorKeeps ==
    ASSUME IInv, NEW c \in Collections, CacheCompactionCursor(c)
    PROVE  IInv'
<1>1. /\ UNCHANGED <<window, skipped, dirty, lost, unread, next_write, cursor, compacted, deleted, known, need_to_compact,
                     roll, write>>
      /\ update[c] = "cache" /\ update' = [update EXCEPT ![c] = "need"]
      /\ cache' = [cache EXCEPT ![c] = compacted[c]]
  BY DEF CacheCompactionCursor, storage, unreadable
<1>2. Types' /\ Advances
  BY <1>1 DEF IInv, Types, Advances
<1>3. \A d \in Collections : Order(d)'
  <2>1. \A d \in Collections : Order(d)
    BY DEF IInv
  <2>2. /\ cache'[c] = cursor[c] /\ update'[c] = "need"
        /\ \A d \in Collections : d # c => cache'[d] = cache[d] /\ update'[d] = update[d]
    BY <1>1, <2>1 DEF IInv, Types, Order
  <2>3. cursor[c] \in Nat
    BY DEF IInv, Types
  <2> QED BY <1>1, <2>1, <2>2, <2>3 DEF Order
<1> QED BY <1>1, <1>2, <1>3, QuietStep, SameNeed

LEMMA ShrinkRollupKeeps ==
    ASSUME IInv, NEW c \in Collections, ShrinkRollup(c)
    PROVE  IInv'
<1>1. /\ UNCHANGED <<window, skipped, dirty, lost, unread, next_write, cursor, compacted, deleted, known, cache, roll,
                     write>>
      /\ update' = [update EXCEPT ![c] = "idle"]
  BY DEF ShrinkRollup, storage, unreadable
<1>2. Types' /\ Advances /\ \A d \in Collections : Order(d)'
  BY <1>1 DEF IInv, Types, Advances, Order
<1>3. NeedOK'
  <2>1. CASE c \in DOMAIN need_to_compact
    <3> DEFINE old == need_to_compact[c]
               r == [old EXCEPT !.start = Max({old.start, compacted[c]})]
               kept == IF is_empty(r) THEN DOMAIN need_to_compact \ {c} ELSE DOMAIN need_to_compact
    <3>1. need_to_compact' = [d \in kept |-> IF d = c THEN r ELSE need_to_compact[d]]
      BY <2>1 DEF ShrinkRollup
    <3>2. old \in Rollup /\ old.start \in Nat /\ compacted[c] \in Nat
          /\ (c \in Sure => old.start <= compacted[c])
      BY <2>1 DEF IInv, NeedOK, Rollup, Types
    <3>3. Max({old.start, compacted[c]}) \in {old.start, compacted[c]}
      BY <3>2, MaxOfTwo
    <3>4. r \in Rollup /\ r.start \in {old.start, compacted[c]}
      BY <3>2, <3>3 DEF Rollup
    <3>5. c \in Sure => r.start <= compacted[c]
      BY <3>2, <3>4
    <3>6. kept \subseteq DOMAIN need_to_compact
      OBVIOUS
    <3> HIDE DEF r, kept
    <3> QED BY <1>1, <3>1, <3>4, <3>5, <3>6 DEF IInv, NeedOK, Sure
  <2>2. CASE c \notin DOMAIN need_to_compact
    <3>1. need_to_compact' = need_to_compact
      BY <2>2 DEF ShrinkRollup
    <3> QED BY <1>1, <1>2, <3>1, SameNeed
  <2> QED BY <2>1, <2>2
<1> QED BY <1>1, <1>2, <1>3, QuietStep

LEMMA PurgeDirtyKeeps ==
    ASSUME IInv, NEW c \in Collections, PurgeDirty(c)
    PROVE  IInv'
<1> DEFINE p == [type |-> "purge", collection |-> c]
<1>1. /\ UNCHANGED <<window, skipped, lost, unread, next_write, cursor, compacted, deleted, known, cache,
                     need_to_compact, roll, write, update>>
      /\ dirty' = dirty \cup {p} /\ c \in deleted
  BY DEF PurgeDirty, memory, unreadable
<1>2. p \in Purge /\ p.type = "purge" /\ p.collection = c
  BY DEF Purge
<1> HIDE DEF p
<1>3. Types' /\ Advances /\ \A d \in Collections : Order(d)'
  BY <1>1, <1>2 DEF IInv, Types, Order, Advances
<1>4. MarkersOK'
  BY <1>1, <1>2 DEF IInv, MarkersOK, MarkOK, Purged
<1>5. \A d \in Collections : /\ Marks(dirty', d) = Marks(dirty, d)
                             /\ Marks(Everywhere', d) = Marks(Everywhere, d)
  BY <1>1, <1>2 DEF Marks, Everywhere
<1>6. RollOK'
  <2>1. \A d \in Collections : next_write'[d] \in Nat /\ next_write[d] <= next_write'[d]
    BY <1>1 DEF IInv, Types
  <2> QED BY <1>1, <1>3, <1>5, <2>1, SameRoll
<1>7. ASSUME NEW d \in known, d \notin deleted
      PROVE  Covered(d)'
  <2>1. Covered(d)
    BY <1>7 DEF IInv
  <2> QED BY <1>1, <2>1 DEF Covered, Everywhere, Marks
<1>8. ASSUME NEW d \in Sure'
      PROVE  StartsOK(d)'
  <2>1. StartsOK(d) /\ d \in Collections
    BY <1>1, <1>8 DEF IInv, Types, Sure
  <2>2. Marks(window, d)' = Marks(window, d) /\ Marks(dirty, d)' = Marks(dirty, d)
    BY <1>1, <1>5, <2>1 DEF Marks
  <2> QED BY <1>1, <2>1, <2>2 DEF StartsOK
<1> QED BY <1>1, <1>3, <1>4, <1>6, <1>7, <1>8, SameNeed DEF IInv

-----------------------------------------------------------------------------
(* Rolling up: enrich_dirty_log.                                           *)

(* The rollup of c is replaced by r, or dropped.                           *)
LEMMA EnrichedKeeps ==
    ASSUME IInv, NEW c \in Collections, Enriching(c), NEW r \in Rollup, roll' = Enriched(c, r),
           r.limit <= next_write[c] + 1,
           c \in Sure => r.start <= compacted[c],
           c \in known => roll.rollups[c].limit <= r.limit,
           (c \in known /\ is_empty(r)) => r.limit <= cursor[c],
           UNCHANGED <<window, skipped, dirty, lost, unread, next_write, cursor,
                       compacted, deleted, known, need_to_compact, write, update>>,
           cache' \in [Collections -> Nat], \A d \in Collections : cache'[d] <= cursor[d]
    PROVE  IInv'
<1> DEFINE rs == roll.rollups
           kept == IF is_empty(r) THEN DOMAIN rs \ {c} ELSE DOMAIN rs
<1>0. RollOK /\ roll.pc = "enrich" /\ c \in roll.todo
  BY DEF IInv, Enriching
<1>1. roll = [pc |-> roll.pc, rollups |-> rs, todo |-> roll.todo, loaded |-> roll.loaded]
  BY <1>0 DEF RollOK, RollType
<1>2. /\ roll'.pc = "enrich" /\ roll'.todo = roll.todo \ {c}
      /\ roll'.loaded = [d \in DOMAIN roll.loaded \ {c} |-> roll.loaded[d]]
      /\ roll'.rollups = [d \in kept |-> IF d = c THEN r ELSE rs[d]]
      /\ roll' = [pc |-> roll'.pc, rollups |-> roll'.rollups, todo |-> roll'.todo,
                  loaded |-> roll'.loaded]
  BY <1>0, <1>1 DEF Enriched
<1>3. roll.todo \subseteq DOMAIN rs /\ DOMAIN rs \subseteq Collections
  BY <1>0 DEF RollOK
<1>4. Types' /\ Advances /\ \A d \in Collections : Order(d)'
  BY DEF IInv, Types, Order, Advances
<1>5. r.start \in Nat /\ r.limit \in Nat /\ (c \in kept => r.start < r.limit)
  BY <1>3 DEF Rollup, is_empty
<1>6. ASSUME NEW d \in Collections
      PROVE  RollupOK(d)'
  <2> SUFFICES ASSUME d \in kept
               PROVE  RollupOK(d)'
    BY <1>2 DEF RollupOK
  <2>1. RollupOK(d) /\ d \in DOMAIN rs
    BY <1>0, <1>6 DEF RollOK
  <2>2. CASE d # c
    BY <1>2, <2>1, <2>2 DEF RollupOK, Marks, Sure
  <2>3. CASE d = c
    <3>1. roll'.rollups[c] = r
      BY <1>2, <2>3
    <3>2. c \in known => \A m \in Marks(window, c) : m.limit <= r.limit
      <4>1. \A m \in Marks(window, c) : m.limit \in Nat
        BY DEF IInv, Types, Marks, Mark, Purge
      <4>2. rs[c].limit \in Nat
        BY <2>1, <2>3 DEF RollupOK, Rollup
      <4>3. c \in known => \A m \in Marks(window, c) : m.limit <= rs[c].limit
        BY <2>1, <2>3 DEF RollupOK
      <4> QED BY <1>5, <4>1, <4>2, <4>3
    <3> QED BY <1>5, <2>3, <3>1, <3>2 DEF RollupOK, Marks, Sure
  <2> QED BY <2>2, <2>3
<1>7. ASSUME NEW d \in Collections
      PROVE  LoadedOK(d)'
  <2>1. LoadedOK(d)
    BY <1>0 DEF RollOK
  <2> QED BY <1>2, <2>1 DEF LoadedOK
<1>8. ASSUME NEW d \in Collections
      PROVE  DroppedOK(d)'
  <2>1. DroppedOK(d)
    BY <1>0 DEF RollOK
  <2>2. Marks(window, d)' = Marks(window, d) /\ Purged(window, d)' = Purged(window, d)
    BY DEF Marks, Purged
  <2>3. DOMAIN roll'.rollups = kept /\ kept \subseteq DOMAIN rs
    BY <1>2
  <2>4. CASE d # c \/ d \in kept
    <3>1. d \notin kept => d \notin DOMAIN rs
      BY <2>4
    <3> HIDE DEF kept
    <3> QED BY <2>1, <2>2, <2>3, <3>1 DEF DroppedOK
  <2>5. CASE d = c /\ c \notin kept
    <3>1. is_empty(r) /\ c \in DOMAIN rs
      BY <1>0, <1>3, <2>5
    <3>2. c \in known => \A m \in Marks(window, c) : m.limit <= cursor[c]
      <4>1. \A m \in Marks(window, c) : m.limit \in Nat
        BY DEF IInv, Types, Marks, Mark, Purge
      <4>2. RollupOK(c)
        BY <1>0 DEF RollOK
      <4>3. rs[c].limit \in Nat /\ cursor[c] \in Nat
        BY <3>1, <4>2 DEF RollupOK, Rollup, IInv, Types
      <4>4. c \in known => \A m \in Marks(window, c) : m.limit <= rs[c].limit
        BY <3>1, <4>2 DEF RollupOK
      <4> QED BY <1>5, <3>1, <4>1, <4>3, <4>4
    <3> QED BY <2>2, <2>5, <3>1, <3>2 DEF DroppedOK
  <2> QED BY <2>4, <2>5
<1>9. RollOK'
  <2>1. RollType'
    BY <1>2 DEF RollType
  <2>2. DOMAIN roll'.rollups \subseteq Collections
    BY <1>2, <1>3
  <2>3. roll'.todo \subseteq DOMAIN roll'.rollups
    BY <1>2, <1>3
  <2> QED BY <1>2, <1>6, <1>7, <1>8, <2>1, <2>2, <2>3 DEF RollOK
<1> QED BY <1>4, <1>9, SameMarks, SameNeed DEF IInv

(* witness_cursor with a position that is not ahead of the cursor.         *)
LEMMA WitnessCursor ==
    ASSUME IInv, NEW c \in Collections, Enriching(c), NEW p \in Nat, p <= cursor[c],
           NEW r, r = witness_cursor(roll.rollups[c], p)
    PROVE  /\ r \in Rollup
           /\ r.limit <= next_write[c] + 1
           /\ r.start <= compacted[c]
           /\ roll.rollups[c].limit <= r.limit
           /\ is_empty(r) => r.limit <= cursor[c]
<1> DEFINE old == roll.rollups[c]
<1>1. c \in DOMAIN roll.rollups /\ RollupOK(c) /\ Order(c)
  BY DEF IInv, RollOK, Enriching
<1>2. old \in Rollup /\ old.limit <= next_write[c] + 1
  BY <1>1 DEF RollupOK
<1>3. /\ old.limit \in Nat /\ cursor[c] \in Nat /\ compacted[c] \in Nat /\ next_write[c] \in Nat
  BY <1>2 DEF Rollup, IInv, Types
<1>4. Max({old.limit, p}) \in {old.limit, p} /\ old.limit <= Max({old.limit, p})
      /\ p <= Max({old.limit, p})
  BY <1>3, MaxOfTwo
<1>5. r = [old EXCEPT !.start = p, !.limit = Max({old.limit, p})]
  BY DEF witness_cursor
<1>6. r \in Rollup /\ r.start = p /\ r.limit = Max({old.limit, p})
  BY <1>2, <1>3, <1>4, <1>5 DEF Rollup
<1>7. cursor[c] <= compacted[c] /\ compacted[c] <= next_write[c]
  BY <1>1 DEF Order
<1> QED BY <1>2, <1>3, <1>4, <1>6, <1>7 DEF is_empty

LEMMA EnrichFromCacheKeeps ==
    ASSUME IInv, NEW c \in Collections, EnrichFromCache(c)
    PROVE  IInv'
<1> DEFINE r == witness_cursor(roll.rollups[c], cache[c])
<1>1. Enriching(c) /\ roll' = Enriched(c, r)
      /\ UNCHANGED <<window, skipped, dirty, lost, unread, next_write, cursor,
                     compacted, deleted, known, cache, need_to_compact, write, update>>
  BY DEF EnrichFromCache, storage, unreadable, memory
<1>2. cache \in [Collections -> Nat] /\ \A d \in Collections : cache[d] <= cursor[d]
  BY DEF IInv, Types, Order
<1>3. cache[c] \in Nat /\ cache[c] <= cursor[c]
  BY <1>2
<1>4. /\ r \in Rollup /\ r.limit <= next_write[c] + 1 /\ r.start <= compacted[c]
      /\ roll.rollups[c].limit <= r.limit /\ (is_empty(r) => r.limit <= cursor[c])
  BY <1>1, <1>3, WitnessCursor
<1> HIDE DEF r
<1> QED BY <1>1, <1>2, <1>4, EnrichedKeeps

LEMMA EnrichFromCursorKeeps ==
    ASSUME IInv, NEW c \in Collections, EnrichFromCursor(c)
    PROVE  IInv'
<1> DEFINE p == roll.loaded[c]
           r == witness_cursor(roll.rollups[c], p)
<1>1. Enriching(c) /\ c \in DOMAIN roll.loaded /\ roll' = Enriched(c, r)
      /\ cache' = [cache EXCEPT ![c] = p]
      /\ UNCHANGED <<window, skipped, dirty, lost, unread, next_write, cursor,
                     compacted, deleted, known, need_to_compact, write, update>>
  BY DEF EnrichFromCursor, storage, unreadable
<1>2. LoadedOK(c)
  BY <1>1 DEF IInv, RollOK, Enriching
<1>3. p \in Nat /\ p <= cursor[c]
  BY <1>1, <1>2 DEF LoadedOK
<1>4. cache' \in [Collections -> Nat] /\ \A d \in Collections : cache'[d] <= cursor[d]
  BY <1>1, <1>3 DEF IInv, Types, Order
<1>5. /\ r \in Rollup /\ r.limit <= next_write[c] + 1 /\ r.start <= compacted[c]
      /\ roll.rollups[c].limit <= r.limit /\ (is_empty(r) => r.limit <= cursor[c])
  BY <1>1, <1>3, WitnessCursor
<1> HIDE DEF r
<1> QED BY <1>1, <1>4, <1>5, EnrichedKeeps

LEMMA EnrichFromManifestKeeps ==
    ASSUME IInv, NEW c \in Collections, EnrichFromManifest(c)
    PROVE  IInv'
<1> DEFINE r == witness_manifest(roll.rollups[c], c)
<1>1. Enriching(c) /\ c \in DOMAIN roll.loaded /\ roll.loaded[c] = 0 /\ roll' = Enriched(c, r)
      /\ UNCHANGED <<window, skipped, dirty, lost, unread, next_write, cursor,
                     compacted, deleted, known, cache, need_to_compact, write, update>>
  BY DEF EnrichFromManifest, storage, unreadable, memory
<1>2. LoadedOK(c) /\ c \in DOMAIN roll.rollups /\ RollupOK(c)
  BY <1>1 DEF IInv, RollOK, Enriching
<1>3. c \notin known /\ c \notin Sure
  BY <1>1, <1>2 DEF LoadedOK, Sure
<1>4. cache \in [Collections -> Nat] /\ \A d \in Collections : cache[d] <= cursor[d]
  BY DEF IInv, Types, Order
<1>5. next_write[c] \in Nat /\ roll.rollups[c] \in Rollup
  BY <1>2 DEF IInv, Types, RollupOK
<1>6. r = [roll.rollups[c] EXCEPT !.start = 1, !.limit = next_write[c]]
  BY DEF witness_manifest
<1> HIDE DEF r
<1>7. r \in Rollup /\ r.limit = next_write[c]
  BY <1>5, <1>6 DEF Rollup
<1>8. r.limit <= next_write[c] + 1
  BY <1>5, <1>7
<1> QED BY <1>1, <1>3, <1>4, <1>7, <1>8, EnrichedKeeps

LEMMA FailEnrichKeeps ==
    ASSUME IInv, NEW c \in Collections, FailEnrich(c)
    PROVE  IInv'
<1> DEFINE r == roll.rollups[c]
<1>1. Enriching(c) /\ roll' = Enriched(c, r)
      /\ UNCHANGED <<window, skipped, dirty, lost, unread, next_write, cursor,
                     compacted, deleted, known, cache, need_to_compact, write, update>>
  BY DEF FailEnrich, storage, unreadable, memory
<1>2. c \in DOMAIN roll.rollups /\ RollupOK(c)
  BY <1>1 DEF IInv, RollOK, Enriching
<1>3. /\ r \in Rollup /\ r.start < r.limit /\ r.limit <= next_write[c] + 1
      /\ c \in Sure => r.start <= compacted[c]
  BY <1>2 DEF RollupOK
<1>4. r.start \in Nat /\ r.limit \in Nat
  BY <1>3 DEF Rollup
<1>5. r.limit <= r.limit /\ ~is_empty(r)
  BY <1>3, <1>4 DEF is_empty
<1>6. cache \in [Collections -> Nat] /\ \A d \in Collections : cache[d] <= cursor[d]
  BY DEF IInv, Types, Order
<1> QED BY <1>1, <1>3, <1>5, <1>6, EnrichedKeeps

LEMMA LoadCursorKeeps ==
    ASSUME IInv, NEW c \in Collections, LoadCursor(c)
    PROVE  IInv'
<1>1. /\ roll' = [roll EXCEPT !.loaded = [d \in DOMAIN @ \cup {c} |->
                                           IF d = c THEN cursor[c] ELSE @[d]]]
      /\ roll.pc = "enrich"
      /\ UNCHANGED <<window, skipped, dirty, lost, unread, next_write, cursor,
                     compacted, deleted, known, cache, need_to_compact, write, update>>
  BY DEF LoadCursor, Enriching, storage, unreadable, memory
<1>2. RollOK
  BY DEF IInv
<1>3. roll = [pc |-> roll.pc, rollups |-> roll.rollups, todo |-> roll.todo, loaded |-> roll.loaded]
  BY <1>1, <1>2 DEF RollOK, RollType
<1>4. /\ roll'.pc = "enrich" /\ roll'.todo = roll.todo /\ roll'.rollups = roll.rollups
      /\ roll'.loaded = [d \in DOMAIN roll.loaded \cup {c} |->
                            IF d = c THEN cursor[c] ELSE roll.loaded[d]]
      /\ roll' = [pc |-> roll'.pc, rollups |-> roll'.rollups, todo |-> roll'.todo,
                  loaded |-> roll'.loaded]
  BY <1>1, <1>3
<1>5. Types' /\ Advances /\ \A d \in Collections : Order(d)' /\ write'[d] \in {write[d], "idle"}
  BY <1>1 DEF IInv, Types, Order, Advances
<1>6. \A d \in Collections : LoadedOK(d)'
  <2>1. ASSUME NEW d \in Collections
        PROVE  LoadedOK(d)'
    <3>1. LoadedOK(d) /\ Order(d) /\ cursor[d] \in Nat
      BY <1>1, <1>2 DEF RollOK, IInv, Types
    <3> QED BY <1>1, <1>4, <3>1 DEF LoadedOK, Order
  <2> QED BY <2>1
<1>7. \A d \in Collections : RollupOK(d)' /\ DroppedOK(d)'
  BY <1>1, <1>2, <1>4 DEF RollOK, RollupOK, DroppedOK, Marks, Purged, Sure
<1>8. RollOK'
  <2>1. RollType'
    BY <1>4 DEF RollType
  <2> QED BY <1>1, <1>2, <1>4, <1>6, <1>7, <2>1 DEF RollOK
<1> QED BY <1>1, <1>5, <1>8, SameMarks, SameNeed DEF IInv

-----------------------------------------------------------------------------
(* Rolling up: read_and_coalesce_dirty_log.                                *)

LEMMA Coalesced ==
    ASSUME IInv, window = {}, NEW read \in SUBSET dirty, NEW rs, rs = coalesce_markers(read)
    PROVE  /\ \A c : c \in DOMAIN rs <=> c \in Collections /\ Marks(read, c) # {}
                                         /\ ~Purged(read, c)
           /\ \A c \in DOMAIN rs :
                 /\ rs[c] \in Rollup
                 /\ rs[c].start < rs[c].limit
                 /\ rs[c].limit <= next_write[c] + 1
                 /\ (c \in Sure /\ Marks(read, c) = Marks(dirty, c)) => rs[c].start <= compacted[c]
                 /\ \A m \in Marks(read, c) : m.limit <= rs[c].limit
<1> DEFINE forget == {m.collection : m \in {p \in read : p.type = "purge"}}
           dirtied == {c \in Collections : Marks(read, c) # {}} \ forget
           starts(c) == {m.start : m \in Marks(read, c)}
           limits(c) == {m.limit : m \in Marks(read, c)}
           counts(c) == {m.reinsert_count : m \in Marks(read, c)}
<1>1. rs = [c \in dirtied |-> [start |-> Min(starts(c)), limit |-> Max(limits(c)),
                               reinsert_count |-> Max(counts(c))]]
  BY DEF coalesce_markers, Marks
<1>2. \A c : c \in forget <=> Purged(read, c)
  BY DEF Purged
<1>3. ASSUME NEW c \in dirtied
      PROVE  /\ rs[c] \in Rollup
             /\ rs[c].start < rs[c].limit
             /\ rs[c].limit <= next_write[c] + 1
             /\ (c \in Sure /\ Marks(read, c) = Marks(dirty, c)) => rs[c].start <= compacted[c]
             /\ \A m \in Marks(read, c) : m.limit <= rs[c].limit
  <2>1. c \in Collections /\ Marks(read, c) # {}
    BY <1>3
  <2>2. PICK x \in Marks(read, c) : TRUE
    BY <2>1
  <2>3. \A m \in Marks(read, c) :
           /\ m.start \in Nat /\ m.limit \in Nat /\ m.reinsert_count \in 0..reinsert_threshold
           /\ m.type = "mark" /\ m.collection = c /\ MarkOK(m)
    BY DEF IInv, Types, Marks, Mark, Purge, MarkersOK
  <2>4. next_write[c] \in Nat /\ compacted[c] \in Nat /\ reinsert_threshold \in Nat
    BY <2>1, DirtyLogAssumption DEF IInv, Types
  <2>5. \A m \in Marks(read, c) : m.start < m.limit /\ m.limit \in 0..(next_write[c] + 1)
    BY <2>3, <2>4 DEF MarkOK
  <2>6. starts(c) \in SUBSET Nat /\ starts(c) # {}
    BY <2>2, <2>3
  <2>7. limits(c) \in SUBSET (0..(next_write[c] + 1)) /\ limits(c) # {}
    BY <2>2, <2>5
  <2>8. counts(c) \in SUBSET (0..reinsert_threshold) /\ counts(c) # {}
    BY <2>2, <2>3
  <2>9. Min(starts(c)) \in Nat /\ \A m \in Marks(read, c) : Min(starts(c)) <= m.start
    BY <2>6, MinOf
  <2>10. next_write[c] + 1 \in Nat
    BY <2>4
  <2>11. /\ Max(limits(c)) \in 0..(next_write[c] + 1)
         /\ \A m \in Marks(read, c) : m.limit <= Max(limits(c))
    BY <2>7, <2>10, MaxOf
  <2>12. Max(counts(c)) \in 0..reinsert_threshold
    BY <2>4, <2>8, MaxOf
  <2>13. rs[c] = [start |-> Min(starts(c)), limit |-> Max(limits(c)),
                  reinsert_count |-> Max(counts(c))]
    BY <1>1, <1>3
  <2> HIDE DEF starts, limits, counts
  <2>14. /\ rs[c].start = Min(starts(c)) /\ rs[c].limit = Max(limits(c))
         /\ rs[c].start \in Nat /\ rs[c].limit \in Nat
    BY <2>4, <2>9, <2>11, <2>13
  <2>15. rs[c] \in Rollup
    BY <2>4, <2>9, <2>11, <2>12, <2>13 DEF Rollup
  <2>16. rs[c].start < rs[c].limit
    <3>1. x.start < x.limit /\ rs[c].start <= x.start /\ x.limit <= rs[c].limit
      BY <2>2, <2>5, <2>9, <2>11, <2>14
    <3>2. x.start \in Nat /\ x.limit \in Nat
      BY <2>2, <2>3
    <3> QED BY <2>14, <3>1, <3>2
  <2>17. ASSUME c \in Sure, Marks(read, c) = Marks(dirty, c)
         PROVE  rs[c].start <= compacted[c]
    <3>1. StartsOK(c) /\ Marks(window, c) = {}
      BY <2>17 DEF IInv, Marks
    <3>2. PICK m \in Marks(read, c) : m.start <= compacted[c]
      BY <2>1, <2>17, <3>1 DEF StartsOK
    <3>3. m.start \in Nat /\ rs[c].start <= m.start
      BY <2>3, <2>9, <2>14, <3>2
    <3> QED BY <2>4, <2>14, <3>2, <3>3
  <2>18. rs[c].limit <= next_write[c] + 1
    BY <2>4, <2>11, <2>14
  <2> QED BY <2>11, <2>14, <2>15, <2>16, <2>17, <2>18
<1>4. DOMAIN rs = dirtied
  BY <1>1
<1>5. \A c : c \in dirtied <=> c \in Collections /\ Marks(read, c) # {} /\ ~Purged(read, c)
  BY <1>2
<1> HIDE DEF dirtied
<1> QED BY <1>3, <1>4, <1>5

LEMMA ReadDirtyLogKeeps ==
    ASSUME IInv, ReadDirtyLog
    PROVE  IInv'
<1>0. roll = Idle /\ UNCHANGED <<next_write, cursor, compacted, deleted, known, lost, cache, write,
                                update>>
  BY DEF ReadDirtyLog
<1>1. window = {} /\ skipped = {}
  BY <1>0 DEF IInv, RollOK, RollType, Idle
<1>2. PICK failed \in SUBSET dirty, after \in SUBSET dirty :
         /\ after \subseteq failed
         /\ unread' = unread \cup {m.collection : m \in failed}
         /\ \/ /\ need_to_compact' = none
               /\ UNCHANGED <<window, skipped, dirty, roll>>
            \/ /\ window' = dirty \ failed /\ skipped' = failed \ after /\ dirty' = after
               /\ roll' = [pc |-> "enrich", rollups |-> coalesce_markers(dirty \ failed),
                           todo |-> DOMAIN coalesce_markers(dirty \ failed), loaded |-> none]
               /\ UNCHANGED need_to_compact
  BY DEF ReadDirtyLog
<1> DEFINE read == dirty \ failed
           rs == coalesce_markers(read)
<1>3. Types' /\ Advances /\ \A d \in Collections : Order(d)' /\ write'[d] \in {write[d], "idle"}
  BY <1>0, <1>1, <1>2 DEF IInv, Types, Order, Advances
<1>4. DOMAIN none = {} /\ unread \subseteq unread'
  BY <1>2 DEF none
<1>5. CASE need_to_compact' = none /\ UNCHANGED <<window, skipped, dirty, roll>>
  <2>1. NeedOK'
    BY <1>4, <1>5 DEF NeedOK
  <2> QED BY <1>0, <1>3, <1>4, <1>5, <2>1, QuietStep
<1>6. CASE /\ window' = read /\ skipped' = failed \ after /\ dirty' = after
           /\ roll' = [pc |-> "enrich", rollups |-> rs, todo |-> DOMAIN rs, loaded |-> none]
           /\ UNCHANGED need_to_compact
  <2>1. /\ \A c : c \in DOMAIN rs <=> c \in Collections /\ Marks(read, c) # {}
                                      /\ ~Purged(read, c)
        /\ \A c \in DOMAIN rs :
              /\ rs[c] \in Rollup
              /\ rs[c].start < rs[c].limit
              /\ rs[c].limit <= next_write[c] + 1
              /\ (c \in Sure /\ Marks(read, c) = Marks(dirty, c)) => rs[c].start <= compacted[c]
              /\ \A m \in Marks(read, c) : m.limit <= rs[c].limit
    BY <1>1, <1>2, Coalesced
  <2> HIDE DEF rs
  <2>2. roll'.pc = "enrich" /\ roll'.rollups = rs /\ roll'.todo = DOMAIN rs /\ roll'.loaded = none
    BY <1>6
  <2>3. /\ window' \cup skipped' \cup dirty' = window \cup skipped \cup dirty
        /\ Everywhere' = Everywhere
    BY <1>0, <1>1, <1>2, <1>6 DEF Everywhere
  <2>4. MarkersOK'
    <3>1. \A m \in skipped' \cup lost' : m.collection \in unread'
      BY <1>0, <1>2, <1>4, <1>6 DEF IInv, MarkersOK
    <3> QED BY <1>0, <2>3, <3>1 DEF IInv, MarkersOK, MarkOK
  <2>5. \A c \in known' \ deleted' : Covered(c)'
    BY <1>0, <2>3 DEF IInv, Covered
  <2>6. ASSUME NEW c \in Sure'
        PROVE  /\ c \in Sure /\ Marks(read, c) = Marks(dirty, c)
               /\ Marks(window, c)' = Marks(dirty, c) /\ Marks(dirty, c)' = {}
    BY <1>0, <1>2, <1>4, <1>6 DEF Marks, Sure
  <2>7. ASSUME NEW c \in Sure'
        PROVE  StartsOK(c)'
    <3>1. StartsOK(c) /\ Marks(window, c) = {}
      BY <1>1, <2>6 DEF IInv, Marks
    <3> QED BY <1>0, <2>6, <3>1 DEF StartsOK
  <2>8. RollOK'
    <3>1. RollType'
      BY <1>6 DEF RollType
    <3>2. ASSUME NEW c \in Collections
          PROVE  RollupOK(c)' /\ LoadedOK(c)' /\ DroppedOK(c)'
      <4>1. Marks(window, c)' = Marks(read, c) /\ Purged(window, c)' = Purged(read, c)
        BY <1>6 DEF Marks, Purged
      <4>2. RollupOK(c)'
        BY <1>0, <2>1, <2>2, <2>6, <4>1 DEF RollupOK
      <4>3. LoadedOK(c)'
        BY <1>4, <2>2 DEF LoadedOK
      <4>4. DroppedOK(c)'
        BY <2>1, <2>2, <4>1 DEF DroppedOK
      <4> QED BY <4>2, <4>3, <4>4
    <3>3. DOMAIN rs \subseteq Collections
      BY <2>1
    <3> QED BY <2>2, <3>1, <3>2, <3>3 DEF RollOK
  <2> QED BY <1>0, <1>3, <1>4, <1>6, <2>4, <2>5, <2>7, <2>8, SameNeed DEF IInv
<1> QED BY <1>2, <1>5, <1>6

-----------------------------------------------------------------------------
(* Rolling up: save_dirty_log.                                             *)

(* What a roll-up appends.                                                 *)
LEMMA MarkersAre ==
    ASSUME IInv, roll.pc # "idle"
    PROVE  /\ Markers \subseteq Mark
           /\ \A m \in Markers :
                 /\ m.type = "mark" /\ MarkOK(m) /\ m.collection \in DOMAIN roll.rollups
                 /\ m.collection \in Sure => m.start <= compacted[m.collection]
           /\ \A c \in DOMAIN roll.rollups : \E m \in Markers :
                 /\ m.collection = c /\ m.type = "mark"
                 /\ c \in known => \A k \in Marks(window, c) : k.limit <= m.limit
<1>0. DOMAIN roll.rollups \subseteq Collections /\ \A c \in Collections : RollupOK(c)
  BY DEF IInv, RollOK
<1>1. ASSUME NEW c \in DOMAIN roll.rollups, NEW m, m = dirty_marker(c, roll.rollups[c])
      PROVE  /\ m \in Mark /\ m.type = "mark" /\ m.collection = c
             /\ m.start = roll.rollups[c].start /\ m.limit = roll.rollups[c].limit
  <2> DEFINE r == roll.rollups[c]
  <2>1. c \in Collections /\ r \in Rollup
    BY <1>0, <1>1 DEF RollupOK
  <2>2. r.start \in Nat /\ r.limit \in Nat /\ r.reinsert_count \in 0..reinsert_threshold
    BY <2>1 DEF Rollup
  <2>3. reinsert_threshold \in Nat /\ r.reinsert_count + 1 \in Nat
    BY <2>2, DirtyLogAssumption
  <2> DEFINE n == Min({r.reinsert_count + 1, reinsert_threshold})
  <2>4. n \in {r.reinsert_count + 1, reinsert_threshold} /\ n <= reinsert_threshold
    BY <2>3, MaxOfTwo
  <2>5. n \in 0..reinsert_threshold
    BY <2>2, <2>3, <2>4
  <2>6. m = [type |-> "mark", collection |-> c, start |-> r.start, limit |-> r.limit,
             reinsert_count |-> n]
    BY <1>1 DEF dirty_marker
  <2> HIDE DEF n
  <2> QED BY <2>1, <2>2, <2>5, <2>6 DEF Mark
<1>2. ASSUME NEW c \in DOMAIN roll.rollups, NEW m, m = dirty_marker(c, roll.rollups[c])
      PROVE  /\ MarkOK(m)
             /\ c \in Sure => m.start <= compacted[c]
             /\ c \in known => \A k \in Marks(window, c) : k.limit <= m.limit
  <2>1. RollupOK(c)
    BY <1>0, <1>2
  <2>2. /\ m.collection = c /\ m.start = roll.rollups[c].start /\ m.limit = roll.rollups[c].limit
    BY <1>1, <1>2
  <2> QED BY <2>1, <2>2 DEF RollupOK, MarkOK
<1>3. \A m \in Markers : \E c \in DOMAIN roll.rollups : m = dirty_marker(c, roll.rollups[c])
  BY DEF Markers
<1>4. \A c \in DOMAIN roll.rollups : dirty_marker(c, roll.rollups[c]) \in Markers
  BY DEF Markers
<1> HIDE DEF Markers
<1>5. Markers \subseteq Mark
  BY <1>1, <1>3
<1>6. ASSUME NEW m \in Markers
      PROVE  /\ m.type = "mark" /\ MarkOK(m) /\ m.collection \in DOMAIN roll.rollups
             /\ m.collection \in Sure => m.start <= compacted[m.collection]
  <2>1. PICK c \in DOMAIN roll.rollups : m = dirty_marker(c, roll.rollups[c])
    BY <1>3
  <2>2. m.type = "mark" /\ m.collection = c
    BY <1>1, <2>1
  <2> QED BY <1>2, <2>1, <2>2
<1>7. ASSUME NEW c \in DOMAIN roll.rollups
      PROVE  \E m \in Markers :
                 /\ m.collection = c /\ m.type = "mark"
                 /\ c \in known => \A k \in Marks(window, c) : k.limit <= m.limit
  <2> DEFINE m == dirty_marker(c, roll.rollups[c])
  <2>1. m \in Markers
    BY <1>4
  <2>2. m.collection = c /\ m.type = "mark"
    BY <1>1
  <2>3. c \in known => \A k \in Marks(window, c) : k.limit <= m.limit
    BY <1>2
  <2> HIDE DEF m
  <2> QED BY <2>1, <2>2, <2>3
<1> QED BY <1>5, <1>6, <1>7

LEMMA AppendMarkersKeeps ==
    ASSUME IInv, AppendMarkers
    PROVE  IInv'
<1>1. /\ roll.pc = "enrich" /\ dirty' = dirty \cup Markers
      /\ roll' = [roll EXCEPT !.pc = "save"]
      /\ UNCHANGED <<window, skipped, lost, unread, next_write, cursor, compacted,
                     deleted, known, cache, need_to_compact, write, update>>
  BY DEF AppendMarkers, memory, unreadable
<1>2. RollOK
  BY DEF IInv
<1>3. roll = [pc |-> roll.pc, rollups |-> roll.rollups, todo |-> roll.todo, loaded |-> roll.loaded]
  BY <1>1, <1>2 DEF RollOK, RollType
<1>4. /\ roll'.pc = "save" /\ roll'.rollups = roll.rollups
      /\ roll' = [pc |-> roll'.pc, rollups |-> roll'.rollups, todo |-> roll'.todo,
                  loaded |-> roll'.loaded]
  BY <1>1, <1>3
<1>5. /\ Markers \subseteq Mark
      /\ \A m \in Markers :
            /\ m.type = "mark" /\ MarkOK(m) /\ m.collection \in DOMAIN roll.rollups
            /\ m.collection \in Sure => m.start <= compacted[m.collection]
  BY <1>1, MarkersAre
<1>6. Markers' = Markers
  BY <1>4 DEF Markers
<1> HIDE DEF Markers
<1>7. Types' /\ Advances /\ \A d \in Collections : Order(d)'
  BY <1>1, <1>5 DEF IInv, Types, Order, Advances
<1>8. MarkersOK'
  BY <1>1, <1>5 DEF IInv, MarkersOK, MarkOK, Purged
<1>9. ASSUME NEW c \in known, c \notin deleted
      PROVE  Covered(c)'
  <2>1. Covered(c)
    BY <1>9 DEF IInv
  <2> QED BY <1>1, <2>1 DEF Covered, Everywhere, Marks
<1>10. ASSUME NEW c \in Sure'
       PROVE  StartsOK(c)'
  <2>1. StartsOK(c) /\ c \in Sure
    BY <1>1, <1>10 DEF IInv, Sure
  <2>2. Marks(window, c)' = Marks(window, c) /\ Marks(dirty, c)' = Marks(dirty, c) \cup Marks(Markers, c)
    BY <1>1 DEF Marks
  <2>3. \A m \in Marks(Markers, c) : m.start <= compacted[c]
    BY <1>5, <2>1 DEF Marks
  <2> QED BY <1>1, <2>1, <2>2, <2>3 DEF StartsOK
<1>11. RollOK'
  <2>1. RollType'
    BY <1>4 DEF RollType
  <2>2. ASSUME NEW c \in Collections
        PROVE  RollupOK(c)' /\ DroppedOK(c)'
    <3>1. RollupOK(c) /\ DroppedOK(c)
      BY <1>1, <1>2 DEF RollOK
    <3>2. Marks(window, c)' = Marks(window, c) /\ Purged(window, c)' = Purged(window, c)
      BY <1>1 DEF Marks, Purged
    <3>3. RollupOK(c)'
      BY <1>1, <1>4, <3>1, <3>2 DEF RollupOK, Sure
    <3>4. DroppedOK(c)'
      BY <1>1, <1>4, <3>1, <3>2 DEF DroppedOK
    <3> QED BY <3>3, <3>4
  <2>3. DOMAIN roll'.rollups \subseteq Collections
    BY <1>1, <1>2, <1>4 DEF RollOK
  <2> QED BY <1>1, <1>4, <1>6, <2>1, <2>2, <2>3 DEF RollOK
<1> QED BY <1>1, <1>7, <1>8, <1>9, <1>10, <1>11, SameNeed DEF IInv

(* The STABLE_PREFIX cursor lets go of what has been read.                 *)
LEMMA Forgotten ==
    ASSUME IInv, roll.pc = "save", PassWindow,
           UNCHANGED <<dirty, next_write, cursor, compacted, deleted, known, unread,
                       write>>
    PROVE  /\ MarkersOK'
           /\ \A c \in known' \ deleted' : Covered(c)'
           /\ \A c \in Sure' : StartsOK(c)'
<1>1. Markers \subseteq dirty /\ \A c \in Collections : DroppedOK(c) /\ Order(c)
  BY DEF IInv, RollOK
<1>2. /\ \A m \in Markers :
            /\ m.type = "mark" /\ m.collection \in DOMAIN roll.rollups
            /\ m.collection \in Sure => m.start <= compacted[m.collection]
      /\ \A c \in DOMAIN roll.rollups : \E m \in Markers :
            /\ m.collection = c /\ m.type = "mark"
            /\ c \in known => \A k \in Marks(window, c) : k.limit <= m.limit
  BY MarkersAre
<1> HIDE DEF Markers
<1>3. \A c \in Collections : /\ cursor[c] \in Nat /\ compacted[c] \in Nat /\ next_write[c] \in Nat
                             /\ cursor[c] <= compacted[c] /\ compacted[c] <= next_write[c]
  BY <1>1 DEF IInv, Types, Order
<1>4. \A c : \A m \in Marks(window, c) \cup Marks(dirty, c) : m.limit \in Nat /\ m.start \in Nat
  BY DEF IInv, Types, Marks, Mark, Purge
<1>5. MarkersOK'
  BY DEF IInv, MarkersOK, MarkOK, Purged, PassWindow
<1>6. ASSUME NEW c \in known, c \notin deleted
      PROVE  Covered(c)'
  <2>1. Covered(c) /\ c \in Collections
    BY <1>6 DEF IInv, Types
  <2>2. ~Purged(window, c)
    BY <1>6, <2>1 DEF IInv, MarkersOK, Purged
  (* A mark of the window past the cursor has one in the dirty log.        *)
  <2>3. ASSUME NEW k \in Marks(window, c), cursor[c] < k.limit
        PROVE  \E m \in Marks(dirty, c) : m.limit >= k.limit
    <3>1. c \in DOMAIN roll.rollups
      BY <1>1, <1>3, <1>4, <2>1, <2>2, <2>3 DEF DroppedOK
    <3>2. PICK m \in Markers : m.collection = c /\ m.type = "mark" /\ k.limit <= m.limit
      BY <1>2, <2>3, <3>1
    <3>3. m \in Marks(dirty, c)
      BY <1>1, <3>2 DEF Marks
    <3> QED BY <1>4, <2>3, <3>2, <3>3
  <2>4. /\ \A m \in Marks(Everywhere, c) : m \in Marks(Everywhere', c) \/ m \in Marks(window, c)
        /\ \A m \in Marks(dirty, c) : m \in Marks(Everywhere', c)
    BY DEF Marks, Everywhere, PassWindow
  <2>5. ASSUME NEW l \in Nat, cursor[c] < l, \E m \in Marks(Everywhere, c) : m.limit >= l
        PROVE  \E m \in Marks(Everywhere', c) : m.limit >= l
    <3>1. PICK k \in Marks(Everywhere, c) : k.limit >= l
      BY <2>5
    <3>2. CASE k \in Marks(window, c)
      <4>1. cursor[c] < k.limit
        BY <1>3, <1>4, <2>1, <2>5, <3>1, <3>2
      <4>2. PICK m \in Marks(dirty, c) : m.limit >= k.limit
        BY <2>3, <3>2, <4>1
      <4>3. m.limit >= l
        BY <1>4, <2>5, <3>1, <3>2, <4>2
      <4> QED BY <2>4, <4>2, <4>3
    <3> QED BY <2>4, <3>1, <3>2
  <2>6. cursor[c] < next_write[c] => \E m \in Marks(Everywhere', c) : m.limit >= next_write[c]
    BY <1>3, <2>1, <2>5 DEF Covered
  <2>7. write[c] = "marked" => \E m \in Marks(Everywhere', c) : m.limit >= next_write[c] + 1
    <3>1. next_write[c] + 1 \in Nat /\ cursor[c] < next_write[c] + 1
      BY <1>3, <2>1
    <3> QED BY <2>1, <2>5, <3>1 DEF Covered
  <2> QED BY <2>6, <2>7 DEF Covered
<1>7. ASSUME NEW c \in Sure'
      PROVE  StartsOK(c)'
  <2>1. StartsOK(c) /\ c \in Collections /\ DroppedOK(c) /\ c \in Sure /\ c \in known
        /\ ~Purged(window, c)
    BY <1>1, <1>7 DEF IInv, Types, Sure, MarkersOK, Purged
  <2>2. Marks(window, c)' = {} /\ Marks(dirty, c)' = Marks(dirty, c)
    BY DEF Marks, PassWindow
  <2>3. ASSUME Marks(dirty, c) # {}
        PROVE  \E m \in Marks(dirty, c) : m.start <= compacted[c]
    <3>1. CASE c \in DOMAIN roll.rollups
      <4>1. PICK m \in Markers : m.collection = c /\ m.type = "mark"
        BY <1>2, <3>1
      <4>2. m \in Marks(dirty, c) /\ m.start <= compacted[c]
        BY <1>1, <1>2, <2>1, <4>1 DEF Marks
      <4> QED BY <4>2
    <3>2. CASE c \notin DOMAIN roll.rollups
      <4>1. \A k \in Marks(window, c) : k.limit <= cursor[c]
        BY <2>1, <3>2 DEF DroppedOK
      <4>2. PICK m \in Marks(dirty, c) :
               m.start <= compacted[c] \/ \E k \in Marks(window, c) : m.start <= k.limit
        BY <2>1, <2>3 DEF StartsOK
      <4> QED BY <1>3, <1>4, <2>1, <4>1, <4>2
    <3> QED BY <3>1, <3>2
  <2> QED BY <2>2, <2>3 DEF StartsOK
<1> QED BY <1>5, <1>6, <1>7

(* A roll-up ends without moving the STABLE_PREFIX cursor; it may have     *)
(* appended its markers.                                                   *)
LEMMA Returned ==
    ASSUME IInv, NEW E, KeepWindow(E), E = {} \/ (roll.pc # "idle" /\ E = Markers),
           \A c \in Collections : write'[c] \in {write[c], "idle"},
           UNCHANGED <<next_write, cursor, compacted, deleted, known, unread>>
    PROVE  /\ MarkersOK'
           /\ \A c \in known' \ deleted' : Covered(c)'
           /\ \A c \in Sure' : StartsOK(c)'
           /\ E \subseteq Mark
<1>1. /\ E \subseteq Mark
      /\ \A m \in E : /\ m.type = "mark" /\ MarkOK(m)
                      /\ m.collection \in Sure => m.start <= compacted[m.collection]
  BY MarkersAre
<1>2. MarkersOK'
  BY <1>1 DEF IInv, MarkersOK, MarkOK, Purged, KeepWindow
<1>3. ASSUME NEW c \in known, c \notin deleted
      PROVE  Covered(c)'
  <2>1. Covered(c) /\ c \in Collections
    BY <1>3 DEF IInv, Types
  <2>2. write'[c] = "marked" => write[c] = "marked"
    BY <2>1
  <2> QED BY <2>1, <2>2 DEF Covered, Everywhere, Marks, KeepWindow
<1>4. ASSUME NEW c \in Sure'
      PROVE  StartsOK(c)'
  <2>1. StartsOK(c) /\ c \in Sure /\ Marks(skipped, c) = {}
    BY <1>4 DEF IInv, Sure, MarkersOK, Marks
  <2>2. Marks(window, c)' = {}
        /\ Marks(dirty, c)' = Marks(window, c) \cup Marks(skipped, c) \cup Marks(dirty, c)
                               \cup Marks(E, c)
    BY DEF Marks, KeepWindow
  <2>3. \A m \in Marks(E, c) : m.start <= compacted[c]
    BY <1>1, <2>1 DEF Marks
  <2> QED BY <2>1, <2>2, <2>3 DEF StartsOK
<1> QED BY <1>1, <1>2, <1>3, <1>4

LEMMA NoRoll ==
    ASSUME window' = {}, skipped' = {}, roll' = Idle
    PROVE  RollOK'
BY DEF RollOK, RollType, Idle

LEMMA SaveStablePrefixKeeps ==
    ASSUME IInv, SaveStablePrefix
    PROVE  IInv'
<1>1. /\ roll.pc = "save" /\ PassWindow /\ roll' = [roll EXCEPT !.pc = "swap"]
      /\ UNCHANGED <<dirty, next_write, cursor, compacted, deleted, known, unread, cache,
                     need_to_compact, write, update>>
  BY DEF SaveStablePrefix, memory
<1>2. RollOK
  BY DEF IInv
<1>3. roll = [pc |-> roll.pc, rollups |-> roll.rollups, todo |-> roll.todo, loaded |-> roll.loaded]
  BY <1>1, <1>2 DEF RollOK, RollType
<1>4. /\ roll'.pc = "swap" /\ roll'.rollups = roll.rollups
      /\ roll' = [pc |-> roll'.pc, rollups |-> roll'.rollups, todo |-> roll'.todo,
                  loaded |-> roll'.loaded]
  BY <1>1, <1>3
<1>5. Types' /\ Advances /\ \A d \in Collections : Order(d)'
  BY <1>1 DEF IInv, Types, Order, Advances, PassWindow
<1>6. RollOK'
  <2>1. RollType'
    BY <1>1, <1>4 DEF RollType, PassWindow
  <2>2. DOMAIN roll.rollups \subseteq Collections /\ \A c \in Collections : RollupOK(c)
    BY <1>1, <1>2 DEF RollOK
  <2>3. \A c \in Collections : RollupOK(c)'
    BY <1>1, <1>4, <2>2 DEF RollupOK, Marks, PassWindow, Sure
  <2> QED BY <1>4, <2>1, <2>2, <2>3 DEF RollOK
<1> QED BY <1>1, <1>5, <1>6, Forgotten, SameNeed DEF IInv

LEMMA SwapRollupsKeeps ==
    ASSUME IInv, SwapRollups
    PROVE  IInv'
<1>1. /\ roll.pc = "swap" /\ roll' = Idle /\ need_to_compact' = roll.rollups
      /\ UNCHANGED <<window, skipped, dirty, lost, unread, next_write, cursor,
                     compacted, deleted, known, cache, write, update>>
  BY DEF SwapRollups, storage, unreadable
<1>2. window = {} /\ skipped = {} /\ DOMAIN roll.rollups \subseteq Collections /\ \A c \in Collections : RollupOK(c)
  BY <1>1 DEF IInv, RollOK, RollType
<1>3. Types' /\ Advances /\ \A d \in Collections : Order(d)' /\ write'[d] \in {write[d], "idle"}
  BY <1>1 DEF IInv, Types, Order, Advances
<1>4. NeedOK'
  BY <1>1, <1>2 DEF NeedOK, RollupOK, Sure
<1>5. RollOK'
  BY <1>1, <1>2, NoRoll
<1> QED BY <1>1, <1>3, <1>4, <1>5, SameMarks DEF IInv

LEMMA FailRollKeeps ==
    ASSUME IInv, FailRoll
    PROVE  IInv'
<1>1. /\ roll' = Idle
      /\ UNCHANGED <<next_write, cursor, compacted, deleted, known, unread, cache,
                     need_to_compact, write, update>>
      /\ \/ KeepWindow({})
         \/ roll.pc = "enrich" /\ KeepWindow(Markers)
         \/ roll.pc = "save" /\ PassWindow /\ dirty' = dirty
  BY DEF FailRoll, memory
<1>2. Advances /\ \A d \in Collections : Order(d)' /\ write'[d] \in {write[d], "idle"}
  BY <1>1 DEF IInv, Types, Order, Advances
<1>3. RollOK'
  BY <1>1, NoRoll DEF KeepWindow, PassWindow
<1>4. CASE \E E : KeepWindow(E) /\ (E = {} \/ (roll.pc # "idle" /\ E = Markers))
  <2>1. PICK E : KeepWindow(E) /\ (E = {} \/ (roll.pc # "idle" /\ E = Markers))
    BY <1>4
  <2>2. /\ MarkersOK'
        /\ \A c \in known' \ deleted' : Covered(c)'
        /\ \A c \in Sure' : StartsOK(c)'
        /\ E \subseteq Mark
    BY <1>1, <1>2, <2>1, Returned
  <2>3. Types'
    BY <1>1, <2>1, <2>2 DEF IInv, Types, KeepWindow
  <2> QED BY <1>1, <1>2, <1>3, <2>2, <2>3, SameNeed DEF IInv
<1>5. CASE roll.pc = "save" /\ PassWindow /\ dirty' = dirty
  <2>1. Types'
    BY <1>1, <1>5 DEF IInv, Types, PassWindow
  <2> QED BY <1>1, <1>2, <1>3, <1>5, <2>1, Forgotten, SameNeed DEF IInv
<1> QED BY <1>1, <1>4, <1>5

LEMMA CrashKeeps ==
    ASSUME IInv, Crash
    PROVE  IInv'
<1>1. /\ KeepWindow({}) /\ roll' = Idle
      /\ need_to_compact' = none
      /\ write' = [c \in Collections |-> "idle"] /\ update' = [c \in Collections |-> "idle"]
      /\ UNCHANGED <<next_write, cursor, compacted, deleted, known, unread>>
  BY DEF Crash
<1>2. PICK kept \in SUBSET Collections :
         cache' = [c \in Collections |-> IF c \in kept THEN cache[c] ELSE 0]
  BY DEF Crash
<1>3. Types' /\ \A d \in Collections : write'[d] \in {write[d], "idle"}
  BY <1>1, <1>2 DEF IInv, Types, KeepWindow
<1>4. \A d \in Collections : Order(d)'
  <2>1. ASSUME NEW d \in Collections
        PROVE  Order(d)'
    <3>1. Order(d) /\ cursor[d] \in Nat /\ cache'[d] \in {cache[d], 0} /\ update'[d] = "idle"
      BY <1>1, <1>2 DEF IInv, Types
    <3>2. cache'[d] <= cursor[d]
      BY <3>1 DEF Order
    <3> QED BY <1>1, <3>1, <3>2 DEF Order
  <2> QED BY <2>1
<1>5. NeedOK'
  BY <1>1 DEF NeedOK, none
<1>6. RollOK'
  BY <1>1, NoRoll DEF KeepWindow
<1> QED BY <1>1, <1>3, <1>4, <1>5, <1>6, Returned DEF IInv

-----------------------------------------------------------------------------
(* The theorems.                                                           *)

LEMMA InitOK ==
    ASSUME Init
    PROVE  IInv
<1>1. Types
  BY DEF Init, Types
<1>2. \A c \in Collections : Order(c)
  BY DEF Init, Order
<1>3. MarkersOK /\ NeedOK
  BY DEF Init, MarkersOK, NeedOK, Purged, none
<1>4. RollOK
  BY DEF Init, RollOK, RollType, Idle
<1>5. \A c \in known : Covered(c) /\ StartsOK(c)
  <2>1. ASSUME NEW c \in known
        PROVE  Covered(c) /\ StartsOK(c)
    <3>1. c \in Collections /\ cursor[c] = 1 /\ next_write[c] = 1 /\ write[c] = "idle"
      BY DEF Init
    <3>2. Marks(window, c) = {} /\ Marks(dirty, c) = {}
      BY DEF Init, Marks
    <3> QED BY <3>1, <3>2 DEF Covered, StartsOK
  <2> QED BY <2>1
<1> QED BY <1>1, <1>2, <1>3, <1>4, <1>5 DEF IInv, Sure

LEMMA StutterOK ==
    ASSUME IInv, UNCHANGED vars
    PROVE  IInv'
<1>1. UNCHANGED <<window, skipped, dirty, lost, unread, next_write, cursor, compacted, deleted, known, cache,
                  need_to_compact, roll, write, update>>
  BY DEF vars, storage, unreadable, memory
<1>2. Types' /\ Advances /\ \A d \in Collections : Order(d)' /\ write'[d] \in {write[d], "idle"}
  BY <1>1 DEF IInv, Types, Order, Advances
<1> QED BY <1>1, <1>2, QuietStep, SameNeed

LEMMA StepOK ==
    ASSUME IInv, [Next]_vars
    PROVE  IInv'
<1>1. CASE RollStep
  BY <1>1, ReadDirtyLogKeeps, AppendMarkersKeeps, SaveStablePrefixKeeps, SwapRollupsKeeps
     DEF RollStep
<1>2. CASE FailRoll \/ Crash \/ UNCHANGED vars
  BY <1>2, FailRollKeeps, CrashKeeps, StutterOK
<1>3. ASSUME NEW c \in Collections, MarkWrite(c) \/ Link(c) \/ FailWrite(c)
      PROVE  IInv'
  BY <1>3, MarkWriteKeeps, LinkKeeps, FailWriteKeeps
<1>4. ASSUME NEW c \in Collections, EnrichStep(c) \/ FailEnrich(c)
      PROVE  IInv'
  BY <1>4, EnrichFromCacheKeeps, LoadCursorKeeps, EnrichFromCursorKeeps, EnrichFromManifestKeeps,
     FailEnrichKeeps DEF EnrichStep
<1>5. ASSUME NEW c \in Collections, Compact(c) \/ UpdateStep(c)
      PROVE  IInv'
  BY <1>5, CompactKeeps, SaveCompactionCursorKeeps, CacheCompactionCursorKeeps, ShrinkRollupKeeps
     DEF UpdateStep
<1>6. ASSUME NEW c \in Collections, Delete(c) \/ PurgeDirty(c)
      PROVE  IInv'
  BY <1>6, DeleteKeeps, PurgeDirtyKeeps
<1> QED BY <1>1, <1>2, <1>3, <1>4, <1>5, <1>6 DEF Next

(* The invariant above holds in every reachable state.                     *)
THEOREM Invariance == Spec => []IInv
<1>1. Init => IInv
  BY InitOK
<1>2. IInv /\ [Next]_vars => IInv'
  BY StepOK
<1> QED BY <1>1, <1>2, PTL DEF Spec

(* A record that is linked and not compacted is found by the next roll-up, *)
(* whatever roll-ups, compactions, crashes and failing calls happened      *)
(* since it was marked (roll_dirty_log, save_dirty_log), unless the mark   *)
(* that reaches it is one that a roll-up could not read and passed.        *)
THEOREM StaysDirty == Spec => []UncompactedIsDirty
<1>1. IInv => UncompactedIsDirty
  BY DEF IInv, Covered, UncompactedIsDirty, Marked, Lost, Reached, Marks, Everywhere
<1> QED BY <1>1, Invariance, PTL

(* What the compactor is told of a collection starts no later than the     *)
(* first record that is not compacted (enrich_dirty_log,                   *)
(* update_collection_log_offset), unless a mark of it could not be read.   *)
THEOREM NotAhead == Spec => []NotAheadOfSysdb
<1>1. IInv => NotAheadOfSysdb
  BY DEF IInv, NeedOK, NotAheadOfSysdb, Sure
<1> QED BY <1>1, Invariance, PTL

-----------------------------------------------------------------------------
(* OpenLogs.                                                               *)

(* What has a handle has one on the state in the table, and the table has  *)
(* a state.                                                                *)
HeldIsThere == \A h \in Held : entries # None /\ handle[h] = entries

(* A call that opens the log has the mutex, and there is no log.           *)
Opening ==
    \A c \in Calls :
        pc[Call(c)] = "open" => mutex[entries] = c /\ stub[entries].log = None

(* A call that writes uses the open log, unless that was closed under it.  *)
Using ==
    \A c \in Calls \ outlived :
        pc[Call(c)] = "use" => writer[c] # None /\ writer[c] = stub[entries].log

LogsIInv == LogsTypeOK /\ HeldIsThere /\ Opening /\ Using

-----------------------------------------------------------------------------
LEMMA CallsAndTasks ==
    /\ \A c \in Calls : Call(c) \in Holders /\ TaskOf(c) \in Holders
    /\ \A c, d \in Calls : Call(c) # TaskOf(d)
    /\ \A c, d \in Calls : c # d => Call(c) # Call(d) /\ TaskOf(c) # TaskOf(d)
BY DEF Call, TaskOf, Holders

(* A count of two is our handle and the table: nobody else has one.        *)
LEMMA LastHandle ==
    ASSUME LogsTypeOK, NEW h \in Holders, handle[h] = entries, is_last(handle[h])
    PROVE  \A g \in Holders : handle[g] = entries => g = h
<1> DEFINE S == {g \in Holders : handle[g] = handle[h]}
<1>1. IsFiniteSet(Holders)
  <2>1. IsFiniteSet({"call", "task"})
    <3>1. IsFiniteSet({"call"}) /\ IsFiniteSet({"task"})
      BY FS_Singleton
    <3>2. {"call", "task"} = {"call"} \cup {"task"}
      OBVIOUS
    <3> QED BY <3>1, <3>2, FS_Union
  <2> QED BY <2>1, FS_Product, OpenLogsAssumption DEF Holders
<1>2. IsFiniteSet(S)
  BY <1>1, FS_Subset
<1>3. Cardinality(S) = 1
  <2>1. Cardinality(S) \in Nat
    BY <1>2, FS_CardinalityType
  <2>2. Cardinality(S) + 1 = 2
    BY DEF is_last, strong_count
  <2> QED BY <2>1, <2>2
<1>4. Cardinality(S \ {h}) = 0
  <2>1. h \in S
    OBVIOUS
  <2> HIDE DEF S
  <2>2. Cardinality(S \ {h}) = Cardinality(S) - 1
    BY <1>2, <2>1, FS_RemoveElement
  <2> QED BY <1>3, <2>2
<1>5. S \ {h} = {}
  BY <1>2, <1>4, FS_EmptySet, FS_RemoveElement
<1> QED BY <1>5

-----------------------------------------------------------------------------
(* The steps.                                                              *)

LEMMA TypeKept ==
    ASSUME LogsTypeOK, HeldIsThere, [LogsNext]_logs_vars
    PROVE  LogsTypeOK'
<1> USE CallsAndTasks DEF LogsTypeOK, ActiveLog
<1>0. \A h \in Held : handle[h] \in Calls
  BY DEF HeldIsThere, Held
<1>1. ASSUME NEW c \in Calls, CallStep(c)
      PROVE  LogsTypeOK'
  <2>1. CASE GetState(c) BY <2>1 DEF GetState
  <2>2. CASE Miss(c) BY <2>2 DEF Miss
  <2>3. CASE CreateState(c) BY <2>3 DEF CreateState
  <2>4. CASE ShareLog(c) 
    <3>1. handle[Call(c)] \in Calls
      BY <1>0, <2>4 DEF ShareLog, Lock, Held
    <3> QED BY <2>4, <3>1 DEF ShareLog, Lock
  <2>5. CASE OpenLog(c) BY <2>5 DEF OpenLog, Lock
  <2>6. CASE LogOpened(c) 
    <3>1. handle[Call(c)] \in Calls
      BY <1>0, <2>6 DEF LogOpened, Held
    <3> QED BY <2>6, <3>1 DEF LogOpened
  <2>7. CASE LookAtCursor(c) BY <2>7 DEF LookAtCursor, Lock
  <2>8. CASE Return(c) BY <2>8 DEF Return, Leave
  <2> QED BY <1>1, <2>1, <2>2, <2>3, <2>4, <2>5, <2>6, <2>7, <2>8 DEF CallStep
<1>2. ASSUME NEW c \in Calls, GiveUp(c)
      PROVE  LogsTypeOK'
  BY <1>2 DEF GiveUp, Leave
<1>3. ASSUME NEW c \in Calls, Watch(c)
      PROVE  LogsTypeOK'
  <2>1. handle[TaskOf(c)] \in Calls
    BY <1>0, <1>3 DEF Watch, Held
  <2> QED BY <1>3, <2>1 DEF Watch
<1>4. ASSUME NEW c \in Calls, Expire(c)
      PROVE  LogsTypeOK'
  BY <1>4 DEF Expire
<1>5. ASSUME NEW h \in Holders, DropHandle(h)
      PROVE  LogsTypeOK'
  BY <1>5 DEF DropHandle
<1>6. ASSUME NEW h \in Holders, ReleaseValue(h)
      PROVE  LogsTypeOK'
  BY <1>6 DEF ReleaseValue
<1>7. CASE UNCHANGED logs_vars
  BY <1>7 DEF logs_vars
<1> QED BY <1>1, <1>2, <1>3, <1>4, <1>5, <1>6, <1>7 DEF LogsNext

LEMMA HeldKept ==
    ASSUME LogsTypeOK, HeldIsThere, [LogsNext]_logs_vars
    PROVE  HeldIsThere'
<1> USE CallsAndTasks DEF LogsTypeOK, HeldIsThere, Held
<1>1. ASSUME NEW c \in Calls, CallStep(c)
      PROVE  HeldIsThere'
  <2>1. CASE GetState(c) BY <2>1 DEF GetState
  <2>2. CASE Miss(c) BY <2>2 DEF Miss
  <2>3. CASE CreateState(c) BY <2>3, OpenLogsAssumption DEF CreateState
  <2>4. CASE ShareLog(c) BY <2>4 DEF ShareLog, Lock
  <2>5. CASE OpenLog(c) BY <2>5 DEF OpenLog, Lock
  <2>6. CASE LogOpened(c) BY <2>6 DEF LogOpened
  <2>7. CASE LookAtCursor(c) BY <2>7 DEF LookAtCursor, Lock
  <2>8. CASE Return(c) BY <2>8 DEF Return, Leave
  <2> QED BY <1>1, <2>1, <2>2, <2>3, <2>4, <2>5, <2>6, <2>7, <2>8 DEF CallStep
<1>2. ASSUME NEW c \in Calls, GiveUp(c)
      PROVE  HeldIsThere'
  BY <1>2 DEF GiveUp, Leave
<1>3. ASSUME NEW c \in Calls, Watch(c)
      PROVE  HeldIsThere'
  BY <1>3 DEF Watch
<1>4. ASSUME NEW c \in Calls, Expire(c)
      PROVE  HeldIsThere'
  BY <1>4 DEF Expire
<1>5. ASSUME NEW h \in Holders, DropHandle(h)
      PROVE  HeldIsThere'
  <2>1. CASE is_last(handle[h])
    <3>1. h \in Held
      BY <1>5 DEF DropHandle
    <3>2. \A g \in Holders : handle[g] = entries => g = h
      BY <2>1, <3>1, LastHandle
    <3> QED BY <1>5, <3>2 DEF DropHandle
  <2>2. CASE ~is_last(handle[h])
    BY <1>5, <2>2 DEF DropHandle
  <2> QED BY <2>1, <2>2
<1>6. ASSUME NEW h \in Holders, ReleaseValue(h)
      PROVE  HeldIsThere'
  BY <1>6 DEF ReleaseValue
<1>7. CASE UNCHANGED logs_vars
  BY <1>7 DEF logs_vars
<1> QED BY <1>1, <1>2, <1>3, <1>4, <1>5, <1>6, <1>7 DEF LogsNext

(* A step that leaves the state of the table alone, and the log in it, its *)
(* mutex and the writers of calls that are under way.                      *)
LEMMA SharingSame ==
    ASSUME LogsIInv, HeldIsThere', entries' = entries \/ entries' = None,
           \A v \in Calls : stub'[v].log = stub[v].log,
           \A c \in Calls : pc[Call(c)] = "open" => mutex'[entries] = mutex[entries],
           UNCHANGED <<writer, outlived>>,
           \A c \in Calls : pc'[Call(c)] \in {"open", "use"} => pc'[Call(c)] = pc[Call(c)]
    PROVE  Opening' /\ Using'
<1> USE DEF LogsIInv
<1>1. \A c \in Calls : pc'[Call(c)] \in {"open", "use"} => entries' = entries /\ entries \in Calls
  BY CallsAndTasks DEF HeldIsThere, Held, LogsTypeOK
<1>2. Opening'
  BY <1>1 DEF Opening
<1>3. Using'
  BY <1>1 DEF Using
<1> QED BY <1>2, <1>3

(* A call that leaves gives up its own mutex, and its writer.              *)
LEMMA LeaveKeeps ==
    ASSUME LogsIInv, NEW c \in Calls, Leave(c), pc[Call(c)] \in {"wait", "open", "look", "use"}
    PROVE  Opening' /\ Using'
<1> USE CallsAndTasks DEF LogsIInv, LogsTypeOK
<1>1. entries \in Calls
  BY DEF HeldIsThere, Held
<1>2. /\ \A d \in Calls \ {c} : pc'[Call(d)] = pc[Call(d)] /\ writer'[d] = writer[d]
      /\ pc'[Call(c)] = "drop"
      /\ mutex[entries] # c => mutex'[entries] = mutex[entries]
      /\ UNCHANGED <<entries, stub, outlived>>
  BY <1>1 DEF Leave
<1>3. Opening'
  BY <1>2 DEF Opening
<1>4. Using'
  BY <1>2 DEF Using
<1> QED BY <1>3, <1>4

LEMMA SharingKept ==
    ASSUME LogsIInv, LogsTypeOK', HeldIsThere', [LogsNext]_logs_vars
    PROVE  Opening' /\ Using'
<1> USE CallsAndTasks DEF LogsIInv, LogsTypeOK
<1>0. \A h \in Held : handle[h] = entries /\ entries \in Calls
  BY DEF HeldIsThere, Held
<1>1. ASSUME NEW c \in Calls, CallStep(c)
      PROVE  Opening' /\ Using'
  <2>1. CASE GetState(c)
    BY <2>1, SharingSame DEF GetState
  <2>2. CASE Miss(c)
    BY <2>2, SharingSame DEF Miss
  <2>3. CASE CreateState(c)
    <3>1. \A d \in Calls : pc'[Call(d)] \notin {"open", "use"}
      BY <2>3, <1>0, OpenLogsAssumption DEF CreateState, Held
    <3> QED BY <3>1 DEF Opening, Using
  <2>4. CASE ShareLog(c)
    <3>1. handle[Call(c)] = entries /\ entries \in Calls
      BY <1>0, <2>4 DEF ShareLog, Lock, Held
    <3>2. \A v \in Calls : stub'[v].log = stub[v].log
      BY <2>4, <3>1 DEF ShareLog, ActiveLog
    <3>3. \A d \in Calls \ {c} : pc'[Call(d)] = pc[Call(d)] /\ writer'[d] = writer[d]
      BY <2>4 DEF ShareLog, Lock
    <3>4. pc'[Call(c)] = "use" /\ writer'[c] = stub[entries].log /\ stub[entries].log # None
      BY <2>4, <3>1 DEF ShareLog, Lock
    <3>5. UNCHANGED <<entries, mutex, outlived>>
      BY <2>4 DEF ShareLog
    <3>6. Opening'
      BY <3>1, <3>2, <3>3, <3>4, <3>5 DEF Opening
    <3>7. Using'
      BY <3>1, <3>2, <3>3, <3>4, <3>5 DEF Using
    <3> QED BY <3>6, <3>7
  <2>5. CASE OpenLog(c)
    <3>1. handle[Call(c)] = entries /\ entries \in Calls
      BY <1>0, <2>5 DEF OpenLog, Lock, Held
    <3>2. mutex[entries] = None /\ mutex'[entries] = c /\ stub[entries].log = None
      BY <2>5, <3>1 DEF OpenLog, Lock, unlocked
    <3>3. \A d \in Calls \ {c} : pc'[Call(d)] = pc[Call(d)]
      BY <2>5 DEF OpenLog, Lock
    <3>4. pc'[Call(c)] = "open" /\ UNCHANGED <<entries, stub, writer, outlived>>
      BY <2>5 DEF OpenLog, Lock
    <3>5. Opening'
      BY <3>2, <3>3, <3>4, OpenLogsAssumption DEF Opening
    <3>6. Using'
      BY <3>3, <3>4 DEF Using
    <3> QED BY <3>5, <3>6
  <2>6. CASE LogOpened(c)
    <3>1. handle[Call(c)] = entries /\ entries \in Calls
      BY <1>0, <2>6 DEF LogOpened, Held
    <3>2. mutex[entries] = c /\ stub[entries].log = None
      BY <2>6 DEF LogOpened, Opening
    <3>3. \A d \in Calls \ {c} :
             /\ pc'[Call(d)] = pc[Call(d)]
             /\ pc[Call(d)] # "open"
             /\ pc[Call(d)] = "use" => d \in outlived
             /\ writer'[d] = writer[d]
      BY <2>6, <3>2 DEF LogOpened, Opening, Using
    <3>4. /\ pc'[Call(c)] = "use" /\ writer'[c] = c /\ stub'[entries].log = c
          /\ UNCHANGED <<entries, outlived>>
      BY <2>6, <3>1 DEF LogOpened, ActiveLog
    <3>5. Opening'
      BY <3>3, <3>4 DEF Opening
    <3>6. Using'
      BY <3>3, <3>4, OpenLogsAssumption DEF Using
    <3> QED BY <3>5, <3>6
  <2>7. CASE LookAtCursor(c)
    <3>1. handle[Call(c)] = entries /\ entries \in Calls /\ mutex[entries] = None
      BY <1>0, <2>7 DEF LookAtCursor, Lock, Held, unlocked
    <3>2. \A d \in Calls : pc[Call(d)] # "open"
      BY <3>1, OpenLogsAssumption DEF Opening
    <3> QED BY <2>7, <3>2, SharingSame DEF LookAtCursor, Lock
  <2>8. CASE Return(c)
    BY <2>8, LeaveKeeps DEF Return
  <2> QED BY <1>1, <2>1, <2>2, <2>3, <2>4, <2>5, <2>6, <2>7, <2>8 DEF CallStep
<1>2. ASSUME NEW c \in Calls, GiveUp(c)
      PROVE  Opening' /\ Using'
  BY <1>2, LeaveKeeps DEF GiveUp
<1>3. ASSUME NEW c \in Calls, Watch(c)
      PROVE  Opening' /\ Using'
  <2>1. handle[TaskOf(c)] = entries /\ entries \in Calls /\ mutex[entries] = None
    BY <1>0, <1>3 DEF Watch, Held, unlocked
  <2>2. /\ \A d \in Calls : pc'[Call(d)] = pc[Call(d)]
        /\ UNCHANGED <<entries, mutex, writer>>
    BY <1>3 DEF Watch
  <2>3. Opening'
    BY <2>1, <2>2, OpenLogsAssumption DEF Opening
  <2>4. CASE stub[entries].alive
    <3>1. UNCHANGED <<stub, outlived>>
      BY <1>3, <2>1, <2>4 DEF Watch
    <3> QED BY <2>2, <2>3, <3>1 DEF Using
  <2>5. CASE ~stub[entries].alive
    <3>1. outlived' = outlived \cup {d \in Calls : writer[d] # None /\ writer[d] = stub[entries].log}
      BY <1>3, <2>1, <2>5 DEF Watch
    <3>2. Using'
      BY <2>2, <3>1 DEF Using
    <3> QED BY <2>3, <3>2
  <2> QED BY <2>4, <2>5
<1>4. ASSUME NEW c \in Calls, Expire(c)
      PROVE  Opening' /\ Using'
  BY <1>4, SharingSame DEF Expire, ActiveLog
<1>5. ASSUME NEW h \in Holders, DropHandle(h)
      PROVE  Opening' /\ Using'
  BY <1>5, SharingSame DEF DropHandle
<1>6. ASSUME NEW h \in Holders, ReleaseValue(h)
      PROVE  Opening' /\ Using'
  BY <1>6, SharingSame DEF ReleaseValue
<1>7. CASE UNCHANGED logs_vars
  BY <1>7, SharingSame DEF logs_vars
<1> QED BY <1>1, <1>2, <1>3, <1>4, <1>5, <1>6, <1>7 DEF LogsNext

-----------------------------------------------------------------------------
LEMMA InitHolds == LogsInit => LogsIInv
<1> SUFFICES ASSUME LogsInit
             PROVE  LogsIInv
  OBVIOUS
<1> USE CallsAndTasks DEF LogsInit
<1>1. LogsTypeOK
  BY DEF LogsTypeOK, ActiveLog, Holders
<1>2. \A h \in Holders : pc[h] \in {"idle", "none"}
  OBVIOUS
<1>3. HeldIsThere /\ Opening /\ Using
  BY <1>2 DEF HeldIsThere, Held, Opening, Using
<1> QED BY <1>1, <1>3 DEF LogsIInv

(* The handles on the state in the table, the mutex of a log that is being *)
(* opened and the writers in use stay as described, whatever the calls,    *)
(* the tasks and the keep-alive do.                                        *)
THEOREM LogsInvariance == LogsSpec => []LogsIInv
<1>1. LogsIInv /\ [LogsNext]_logs_vars => LogsIInv'
  <2> SUFFICES ASSUME LogsIInv, [LogsNext]_logs_vars
               PROVE  LogsIInv'
    OBVIOUS
  <2>1. LogsTypeOK' /\ HeldIsThere'
    BY TypeKept, HeldKept DEF LogsIInv
  <2>2. Opening' /\ Using'
    BY <2>1, SharingKept
  <2> QED BY <2>1, <2>2 DEF LogsIInv
<1> QED BY <1>1, InitHolds, PTL DEF LogsSpec

(* Every variable keeps its type.                                          *)
THEOREM LogsTypeCorrect == LogsSpec => []LogsTypeOK
<1>1. LogsIInv => LogsTypeOK
  BY DEF LogsIInv
<1> QED BY <1>1, LogsInvariance, PTL

(* All handles of get_or_create_state refer to the state in the table:     *)
(* Drop for Handle takes a state out only with the last of them.           *)
THEOREM OneState == LogsSpec => []SameState
<1>1. LogsIInv => SameState
  BY DEF LogsIInv, HeldIsThere, SameState
<1> QED BY <1>1, LogsInvariance, PTL

(* get_log_from_handle hands one LogWriter to all calls that use the log   *)
(* at the same time, except those whose writer was closed under them.      *)
THEOREM OneWriter == LogsSpec => []SharedWriter
<1>1. LogsIInv => SharedWriter
  BY DEF LogsIInv, Using, SharedWriter
<1> QED BY <1>1, LogsInvariance, PTL

=============================================================================

-------------------------- MODULE VersionGC_proofs --------------------------
(***************************************************************************)
(* Proofs about VersionGC, for one job at a time that runs on the root of  *)
(* the tree.                                                               *)
(*                                                                         *)
(* A job works on version files that it has read in two steps, while the   *)
(* collections go on.  The argument follows the files it may delete        *)
(* (MayGo): what its version files refer to and no version in them that    *)
(* is to be kept does.  A version that is added meanwhile takes its files  *)
(* from the last version of a collection, or makes new ones; a fork takes  *)
(* them from the last version of its source.  The last version is always   *)
(* kept, so none of these files may go (Untouched).                        *)
(*                                                                         *)
(* What the job has chosen to delete, less what a kept version uses, is    *)
(* deleted before the versions are: nothing is left behind (Accounted),    *)
(* and a job that fails before has forgotten nothing (Found).              *)
(* Between the removal of the last version of a collection and that of its *)
(* row, a collection without versions has a descendant with versions or    *)
(* is going to be deleted (Stranding); if the job fails in between, it is  *)
(* one of those it had chosen for that.                                    *)
(***************************************************************************)
EXTENDS VersionGC, FiniteSetTheorems, WellFoundedInduction, TLAPS

(* The tree has one job at a time, on its root, and the last version of a  *)
(* collection is kept.                                                     *)
OneCollector ==
    /\ \A i, j \in Jobs : i = j
    /\ ManualRequests \subseteq {Root}
    /\ min_versions_to_keep >= 1

-----------------------------------------------------------------------------
(* The tree and its files.                                                 *)

Edges == Collections \X Versions \X Collections

(* The sparse indexes, and blocks, that were written.                      *)
Made == {i \in Written : content[i] # {}}
MadeFiles == {Index(i) : i \in Made} \cup {Block(b) : b \in Made}

Shape ==
    /\ status \in [Collections -> {"absent", "live", "soft", "gone"}]
    /\ DOMAIN history = Collections
    /\ \A c \in Collections :
          /\ DOMAIN history[c] \subseteq Versions
          /\ \A v \in DOMAIN history[c] : history[c][v] \in Made \cup {NoFiles}
    /\ lineage \subseteq Edges
    /\ content \in [Written -> SUBSET Written]
    /\ \A i \in Written : content[i] \subseteq Made
    /\ files \subseteq MadeFiles
    /\ expired \subseteq {c \in Collections : status[c] \in {"soft", "gone"}}
    /\ DOMAIN job = Jobs
    /\ compactions \in Nat /\ faults \in Nat

(* A live collection has a version, and its next one is new; one that is   *)
(* not there yet is nowhere.                                               *)
Rows ==
    \A c \in Collections :
        /\ status[c] = "live" =>
              /\ DOMAIN history[c] # {}
              /\ \A i \in Made : i[1] = c => i[2] <= Current(c)
        /\ status[c] = "absent" =>
              /\ DOMAIN history[c] = {}
              /\ c \notin Sources(lineage)
              /\ \A i \in Made : i[1] # c
        /\ Exists(c) /\ DOMAIN history[c] = {} => c \in expired

(* The lineage file names the forks that exist, and each comes from the    *)
(* root.                                                                   *)
Tree ==
    /\ status[Root] # "absent"
    /\ \A c \in Collections : Exists(c) /\ c # Root => c \in Targets(lineage)
    /\ \A c \in Targets(lineage) : Exists(c) /\ c # Root
    /\ \A c \in Targets(lineage) : Ancestor(lineage, Root, c)

-----------------------------------------------------------------------------
(* What a job knows.                                                       *)

IsJob(r) ==
    r = [pc |-> r.pc, id |-> r.id, cutoff |-> r.cutoff, grace |-> r.grace, deps |-> r.deps,
         version_files |-> r.version_files, soft |-> r.soft, doomed |-> r.doomed,
         unused |-> r.unused, pending |-> r.pending]

Reads(j) == job[j].pc \in {"listed", "graph", "list"}
Chosen(j) == job[j].pc \in {"list", "delete", "versions"}

(* The version files of a job: those it has read, and those it would read. *)
VF(j) == IF job[j].pc = "listed" THEN VersionFiles(j) ELSE job[j].version_files

(* The versions of S that may be deleted when S are the versions of c.     *)
SpareOf(S, c, aged) ==
    {v \in S : <<c, v>> \in aged /\ Cardinality({w \in S : w > v}) >= min_versions_to_keep}
Spare(S, c) == SpareOf(S, c, old)

(* The versions of c that the job deletes unless c is soft-deleted.        *)
Doom(j, c) ==
    IF job[j].pc \in {"listed", "graph"} /\ c \in DOMAIN VF(j) THEN Spare(DOMAIN VF(j)[c], c)
    ELSE IF Chosen(j) /\ c \in DOMAIN job[j].doomed THEN job[j].doomed[c]
    ELSE {}

(* The graph is that of the tree at the start, and version files are as    *)
(* they were, but for the versions that were added.                        *)
JobFits(j) ==
    LET r == job[j] IN
    /\ IsJob(r) /\ r.id = Root
    /\ r.pc \in {"idle", "listed", "graph", "list", "delete", "versions", "hard"}
    /\ r.deps \subseteq Edges
    /\ \A c \in Sources(r.deps) \cup Targets(r.deps) : c \in Collections /\ status[c] # "absent"
    /\ r.pc \notin {"idle", "hard"} => r.deps \subseteq lineage
    /\ r.pc = "listed" => DOMAIN r.version_files = {Root}
    /\ r.pc \in {"listed", "graph"} => r.cutoff = old /\ r.grace = expired
    /\ r.pc \in {"listed", "graph"} =>
          \A c \in Collections : c \in expired /\ Exists(c) => c \in DOMAIN VF(j)
    /\ r.pc \in {"listed", "graph"} => \A e \in lineage : e[1] \in expired => e \in r.deps

FilesFit(j) ==
    Reads(j) =>
        /\ \A c \in DOMAIN VF(j) :
              /\ c \in Collections /\ Exists(c)
              /\ c = Root \/ c \in Sources(job[j].deps) \cup Targets(job[j].deps)
              /\ DOMAIN VF(j)[c] \subseteq DOMAIN history[c]
              /\ \A v \in DOMAIN VF(j)[c] : VF(j)[c][v] = history[c][v]
              /\ c \in expired /\ job[j].pc # "list" => DOMAIN VF(j)[c] = DOMAIN history[c]

(* What was chosen to be deleted.                                          *)
ChoiceFits(j) ==
    LET r == job[j] IN
    /\ r.pc = "list" =>
          /\ DOMAIN r.doomed = DOMAIN r.version_files
          /\ \A c \in DOMAIN r.doomed : r.doomed[c] \subseteq DOMAIN r.version_files[c]
          /\ \E c \in DOMAIN r.version_files : r.version_files[c] # EmptyHistory
          /\ r.soft \subseteq DOMAIN r.version_files
    /\ Chosen(j) =>
          /\ \A c \in DOMAIN r.doomed : c \in Collections /\ Exists(c)
          /\ \A c \in DOMAIN r.doomed : status[c] = "live" =>
                /\ \A v \in r.doomed[c] : v \in Nat /\ v < Current(c)
                /\ r.doomed[c] \cap DOMAIN history[c] \subseteq Spare(DOMAIN history[c], c)
          /\ \A c \in r.soft : /\ c \in DOMAIN r.doomed /\ status[c] = "soft" /\ c \in expired
                               /\ DOMAIN history[c] \subseteq r.doomed[c]
          /\ \A c \in Collections : Exists(c) /\ DOMAIN history[c] \subseteq Doom(j, c) => c \in r.soft
          /\ \A e \in lineage : e[1] \in r.soft => e \in r.deps
    /\ r.pc = "delete" => r.unused \subseteq MadeFiles
    /\ r.pc = "versions" =>
          /\ r.pending \subseteq DOMAIN r.doomed
          /\ \A c \in DOMAIN r.doomed \ r.pending : r.doomed[c] \cap DOMAIN history[c] = {}
    /\ r.pc = "hard" =>
          /\ r.pending \subseteq r.soft
          /\ \A c \in r.pending : c \in Collections /\ status[c] = "soft" /\ DOMAIN history[c] = {}
          /\ \A e \in r.deps : e[1] \in r.pending => e[3] \in r.pending \/ status[e[3]] = "gone"
          /\ \A e \in lineage : e[1] \in r.pending => e \in r.deps

-----------------------------------------------------------------------------
(* What the job may delete.                                                *)

Refers(j, f) ==
    \E c \in DOMAIN VF(j) : \E v \in DOMAIN VF(j)[c] : f \in FilesOf(VF(j)[c][v])

Protects(j, f) ==
    \E c \in DOMAIN VF(j) :
       /\ job[j].pc = "listed" => c = Root
       /\ job[j].pc \in {"listed", "graph"} => c \notin job[j].grace
       /\ \E v \in DOMAIN VF(j)[c] \ Doom(j, c) : f \in Listed(VF(j)[c][v])

MayGo(j, f) ==
    \/ job[j].pc = "delete" /\ f \in job[j].unused
    \/ Reads(j) /\ Refers(j, f) /\ ~ Protects(j, f)

(* The collections that a job in its first phase reads in the second one.  *)
Unread(j) == IF job[j].pc = "listed" THEN Others(job[j].deps, Root) ELSE {}

Seen == {c \in Collections \ overlooked : status[c] = "live"}

(* The versions that the job does not delete have their files, and none of *)
(* them may go.                                                            *)
Present(j) ==
    job[j].pc \in {"listed", "graph", "list", "delete", "versions"} =>
        \A c \in Seen : \A v \in DOMAIN history[c] \ Doom(j, c) :
            FilesOf(history[c][v]) \subseteq files

Untouched(j) ==
    \A c \in Seen \ Unread(j) : \A v \in DOMAIN history[c] \ Doom(j, c) :
        \A f \in FilesOf(history[c][v]) : ~ MayGo(j, f)

(* A file in storage, unless its deletion failed, belongs to a version     *)
(* that stays, as does the sparse index it is found with; until the job    *)
(* has deleted it, a file to be deleted belongs to a version too.          *)
Gone == UNION {IF job[j].pc = "delete" THEN job[j].unused ELSE {} : j \in Jobs}
Dying(c) == UNION {IF job[j].pc \in {"delete", "versions"} THEN Doom(j, c) ELSE {} : j \in Jobs}

Accounted ==
    \A f \in files \ (Gone \cup orphans) :
        \E c \in Collections : \E v \in DOMAIN history[c] \ Dying(c) :
            f \in FilesOf(history[c][v]) /\ Index(history[c][v]) \in files \ Gone

Found ==
    \A f \in files \ orphans :
        \E c \in Collections : \E v \in DOMAIN history[c] :
            f \in FilesOf(history[c][v]) /\ Index(history[c][v]) \in files

(* A collection without versions has a descendant with versions, unless    *)
(* the job is about to delete its row or the job failed that was.          *)
HasHeir(c) == \E d \in Descendants(c) : Exists(d) /\ DOMAIN history[d] # {}

Stranding ==
    \A c \in Collections \ interrupted :
        Exists(c) /\ DOMAIN history[c] = {} =>
           \/ HasHeir(c)
           \/ \E j \in Jobs : \/ job[j].pc = "versions"
                              \/ job[j].pc = "hard" /\ c \in job[j].pending

JobInv(j) == JobFits(j) /\ FilesFit(j) /\ ChoiceFits(j) /\ Present(j) /\ Untouched(j)

IInv ==
    /\ Shape /\ Rows /\ Tree
    /\ \A j \in Jobs : JobInv(j)
    /\ FilesKept /\ Accounted /\ Found /\ Stranding

-----------------------------------------------------------------------------
(* Versions.                                                               *)

LEMMA MaxOf ==
    ASSUME NEW B \in Nat, NEW S \in SUBSET (0..B), S # {}
    PROVE  Max(S) \in S /\ \A m \in S : m <= Max(S)
<1> DEFINE R == {ss \in Nat \X Nat : ss[1] < ss[2]}
           T == {k \in Nat : B - k \in S}
<1>1. IsWellFoundedOn(R, Nat)
  BY NatLessThanWellFounded DEF OpToRel
<1>2. T \subseteq Nat /\ T # {}
  <2>1. PICK x \in S : TRUE
    OBVIOUS
  <2>2. B - x \in Nat /\ B - (B - x) = x
    OBVIOUS
  <2> QED BY <2>1, <2>2
<1>3. PICK k \in T : \A l \in T : ~(<<l, k>> \in R)
  <2> HIDE DEF R, T
  <2> QED BY <1>1, <1>2, WFMin
<1>4. \A l \in T : ~(l < k)
  BY <1>2, <1>3
<1>5. k \in Nat /\ B - k \in S
  BY <1>3
<1>6. \A m \in S : B - m \in T
  OBVIOUS
<1>7. \A m \in S : ~(B - m < k)
  BY <1>4, <1>6
<1>8. \E x \in S : \A y \in S : x >= y
  BY <1>5, <1>7
<1>9. Max(S) \in S /\ \A y \in S : Max(S) >= y
  BY <1>8, Zenon DEF Max
<1> QED BY <1>9

LEMMA ConstantFacts ==
    /\ Root \in Collections /\ min_versions_to_keep \in Nat /\ MaxVersion \in Nat
    /\ Versions \subseteq Nat /\ IsFiniteSet(Versions)
BY VersionGCAssumption, FS_Interval DEF Versions

LEMMA LastVersion ==
    ASSUME NEW S \in SUBSET Versions, S # {}
    PROVE  Max(S) \in S /\ Max(S) \in Nat /\ \A v \in S : v <= Max(S)
BY MaxOf, ConstantFacts DEF Versions

LEMMA CurrentIs ==
    ASSUME NEW c, DOMAIN history[c] \subseteq Versions, DOMAIN history[c] # {}
    PROVE  /\ Current(c) \in DOMAIN history[c] /\ Current(c) \in Nat
           /\ \A v \in DOMAIN history[c] : v \in Nat /\ v <= Current(c)
BY LastVersion, ConstantFacts DEF Current

LEMMA SpareGrows ==
    ASSUME NEW S, NEW T, S \subseteq T, T \subseteq Versions, NEW c, NEW aged, NEW older,
           aged \subseteq older
    PROVE  SpareOf(S, c, aged) \subseteq SpareOf(T, c, older)
<1> SUFFICES ASSUME NEW v \in S, <<c, v>> \in aged,
                    Cardinality({w \in S : w > v}) >= min_versions_to_keep
             PROVE  Cardinality({w \in T : w > v}) >= min_versions_to_keep
  BY DEF SpareOf
<1> DEFINE A == {w \in S : w > v}
           B == {w \in T : w > v}
<1>1. A \in SUBSET B /\ B \in SUBSET Versions
  OBVIOUS
<1>2. IsFiniteSet(B)
  BY <1>1, ConstantFacts, FS_Subset
<1>3. IsFiniteSet(A) /\ Cardinality(A) <= Cardinality(B)
  <2> HIDE DEF A, B
  <2> QED BY <1>1, <1>2, FS_Subset
<1>4. Cardinality(A) \in Nat /\ Cardinality(B) \in Nat
  BY <1>2, <1>3, FS_CardinalityType
<1> QED BY <1>3, <1>4, ConstantFacts

LEMMA SpareIsNotLast ==
    ASSUME OneCollector, NEW S, NEW c, NEW aged, NEW v \in SpareOf(S, c, aged)
    PROVE  v \in S /\ \E w \in S : w > v
<1> DEFINE A == {w \in S : w > v}
<1>1. v \in S /\ Cardinality(A) >= min_versions_to_keep
  BY DEF SpareOf
<1>2. A # {}
  BY <1>1, FS_EmptySet, ConstantFacts DEF OneCollector
<1> QED BY <1>1, <1>2

LEMMA NotSpare ==
    ASSUME NEW S \in SUBSET Versions, NEW c, NEW aged
    PROVE  {v \in S : \/ Cardinality({w \in S : w > v}) < min_versions_to_keep
                      \/ <<c, v>> \notin aged} = S \ SpareOf(S, c, aged)
<1> SUFFICES ASSUME NEW v \in S
             PROVE  Cardinality({w \in S : w > v}) < min_versions_to_keep
                      <=> ~(Cardinality({w \in S : w > v}) >= min_versions_to_keep)
  BY DEF SpareOf
<1> DEFINE A == {w \in S : w > v}
<1>1. A \in SUBSET Versions
  OBVIOUS
<1>2. Cardinality(A) \in Nat
  BY <1>1, ConstantFacts, FS_Subset, FS_CardinalityType
<1> QED BY <1>2, ConstantFacts

LEMMA ReadableIs ==
    ASSUME Shape, NEW c \in Collections
    PROVE  Readable(c) = DOMAIN history[c] \ Spare(DOMAIN history[c], c)
BY NotSpare DEF Readable, Spare, Shape

-----------------------------------------------------------------------------
(* Files.                                                                  *)

LEMMA NoFilesIsNone == NoFiles \notin Written
BY DEF NoFiles, Written

LEMMA FilesAreMade ==
    ASSUME Shape, NEW i \in Made \cup {NoFiles}
    PROVE  FilesOf(i) \subseteq MadeFiles
BY DEF Shape, FilesOf, BlocksOf, MadeFiles, Made

LEMMA ListedIsFiles ==
    ASSUME NEW i
    PROVE  /\ Listed(i) \subseteq FilesOf(i)
           /\ FilesOf(i) \subseteq files => Listed(i) = FilesOf(i)
           /\ FilesOf(NoFiles) = {} /\ Listed(NoFiles) = {}
           /\ i # NoFiles => Index(i) \in Listed(i) /\ Index(i) \in FilesOf(i)
BY DEF Listed, FilesOf

(* A sparse index belongs to its own versions only.                        *)
LEMMA IndexIsOwn ==
    ASSUME NEW i, NEW k, Index(k) \in FilesOf(i)
    PROVE  k = i
BY DEF FilesOf, BlocksOf, Index, Block

-----------------------------------------------------------------------------
LEMMA EmptyHasNone == DOMAIN EmptyHistory = {}
BY DEF EmptyHistory

-----------------------------------------------------------------------------
(* What a job has read, or is going to read.                               *)

LEMMA ToRead ==
    ASSUME NEW j, job[j].pc = "listed", job[j].id = Root, DOMAIN job[j].version_files = {Root}
    PROVE  LET others == {o \in Others(job[j].deps, Root) : Exists(o)}
           IN  /\ DOMAIN VF(j) = {Root} \cup others
               /\ VF(j)[Root] = job[j].version_files[Root]
               /\ \A c \in others : c # Root /\ VF(j)[c] = history[c]
<1>1. VF(j) = VersionFiles(j)
  BY DEF VF
<1> QED BY <1>1 DEF VersionFiles, Others

(* The versions a job is going to delete are not the last ones.            *)
LEMMA DoomIsSpare ==
    ASSUME OneCollector, Shape, NEW j \in Jobs, JobInv(j), NEW c \in Collections,
           status[c] = "live", DOMAIN history[c] # {}
    PROVE  /\ \A v \in Doom(j, c) : v \in Nat /\ v < Current(c)
           /\ Current(c) \notin Doom(j, c)
           /\ Doom(j, c) \cap DOMAIN history[c] \subseteq Spare(DOMAIN history[c], c)
<1>1. /\ DOMAIN history[c] \subseteq Versions
      /\ Current(c) \in DOMAIN history[c] /\ Current(c) \in Nat
      /\ \A v \in DOMAIN history[c] : v \in Nat /\ v <= Current(c)
  BY CurrentIs DEF Shape
<1>2. CASE job[j].pc \in {"listed", "graph"} /\ c \in DOMAIN VF(j)
  <2>1. Doom(j, c) = SpareOf(DOMAIN VF(j)[c], c, old)
    BY <1>2 DEF Doom, Spare
  <2>2. DOMAIN VF(j)[c] \subseteq DOMAIN history[c]
    BY <1>2 DEF JobInv, FilesFit, Reads
  <2>3. Doom(j, c) \subseteq Spare(DOMAIN history[c], c)
    BY <1>1, <2>1, <2>2, SpareGrows DEF Spare
  <2>4. ASSUME NEW v \in Doom(j, c) PROVE v \in Nat /\ v < Current(c)
    <3>1. PICK w \in DOMAIN history[c] : w > v /\ v \in DOMAIN history[c]
      BY <2>1, <2>2, SpareIsNotLast
    <3> QED BY <1>1, <3>1
  <2> QED BY <1>1, <2>3, <2>4
<1>3. CASE Chosen(j) /\ c \in DOMAIN job[j].doomed
  <2>1. Doom(j, c) = job[j].doomed[c]
    BY <1>3 DEF Doom, Chosen
  <2> QED BY <1>1, <1>3, <2>1 DEF JobInv, ChoiceFits
<1> QED BY <1>1, <1>2, <1>3 DEF Doom

(* The last version of a live collection has its files.                    *)
LEMMA LastIsThere ==
    ASSUME OneCollector, Shape, FilesKept, NEW c \in Seen, DOMAIN history[c] # {}
    PROVE  FilesOf(history[c][Current(c)]) \subseteq files
<1>1. c \in Collections \ overlooked /\ status[c] = "live"
  BY DEF Seen
<1>2. /\ Current(c) \in DOMAIN history[c]
      /\ \A v \in DOMAIN history[c] : v \in Nat /\ v <= Current(c)
  BY <1>1, CurrentIs DEF Shape
<1>3. Current(c) \notin Spare(DOMAIN history[c], c)
  BY <1>2, SpareIsNotLast DEF Spare
<1>4. Current(c) \in Readable(c)
  BY <1>1, <1>2, <1>3, ReadableIs
<1> QED BY <1>1, <1>4 DEF FilesKept, HasFiles

-----------------------------------------------------------------------------
(* A collection gets a version: a compaction or a fork.                    *)

NewFiles(new) == {Index(k) : k \in new} \cup {Block(k) : k \in new}

(* c gets the version v with sparse index i, whose files are new ones or   *)
(* those of the last version of s.                                         *)
Adds(c, v, i, new, s) ==
    /\ c \in Collections /\ v \in Versions /\ \A w \in DOMAIN history[c] : w < v
    /\ s \in Collections /\ status[s] = "live"
    /\ status' = [status EXCEPT ![c] = "live"]
    /\ DOMAIN history' = Collections
    /\ \A d \in Collections : d # c => history'[d] = history[d]
    /\ DOMAIN history'[c] = DOMAIN history[c] \cup {v} /\ history'[c][v] = i
    /\ \A w \in DOMAIN history[c] : history'[c][w] = history[c][w]
    /\ new \subseteq Written /\ new \cap Made = {} /\ Made' = Made \cup new
    /\ new \subseteq {i} /\ i \in Made' \cup {NoFiles}
    /\ \A k \in new : k[1] = c /\ k[2] = v
    /\ content' \in [Written -> SUBSET Written]
    /\ \A k \in Written : k \notin new => content'[k] = content[k]
    /\ \A k \in new : k \in content'[k] /\ content'[k] \subseteq Made'
    /\ files' = files \cup NewFiles(new)
    /\ FilesOf(i)' \subseteq NewFiles(new) \cup FilesOf(history[s][Current(s)])
    /\ overlooked \subseteq overlooked' /\ overlooked' \subseteq overlooked \cup {c}
    /\ c \notin overlooked' => s \notin overlooked
    /\ \A j \in Jobs : s \in Unread(j) => c = s \/ c \in overlooked'
    /\ compactions' \in Nat
    /\ UNCHANGED <<old, expired, job, faults, failed>>
    /\ \/ c = s /\ lineage' = lineage
       \/ /\ status[c] = "absent"
          /\ lineage' = lineage \cup {<<s, Current(s), c>>}

LEMMA AddedStatus ==
    ASSUME Shape, NEW c, NEW v, NEW i, NEW new, NEW s, Adds(c, v, i, new, s)
    PROVE  /\ status' \in [Collections -> {"absent", "live", "soft", "gone"}]
           /\ status'[c] = "live" /\ status[c] \in {"live", "absent"}
           /\ \A d \in Collections : d # c => status'[d] = status[d]
           /\ \A d \in Collections : Exists(d) => Exists(d)'
           /\ \A d \in Collections : Exists(d)' /\ d # c => Exists(d)
           /\ \A d \in Collections : DOMAIN history[d] \subseteq DOMAIN history'[d]
           /\ \A d \in Collections : \A w \in DOMAIN history[d] : history'[d][w] = history[d][w]
           /\ v \notin DOMAIN history[c]
           /\ lineage \subseteq lineage'
<1>1. /\ status' \in [Collections -> {"absent", "live", "soft", "gone"}]
      /\ status'[c] = "live" /\ status[c] \in {"live", "absent"} /\ c \in Collections
      /\ \A d \in Collections : d # c => status'[d] = status[d]
  BY DEF Adds, Shape
<1>2. \A d \in Collections : (Exists(d) => Exists(d)') /\ (Exists(d)' /\ d # c => Exists(d))
  BY <1>1 DEF Exists
<1>3. \A d \in Collections : /\ DOMAIN history[d] \subseteq DOMAIN history'[d]
                             /\ \A w \in DOMAIN history[d] : history'[d][w] = history[d][w]
  BY DEF Adds
<1>4. v \notin DOMAIN history[c]
  <2>1. v \in Nat /\ \A w \in DOMAIN history[c] : w < v
    BY ConstantFacts DEF Adds
  <2> QED BY <2>1
<1> QED BY <1>1, <1>2, <1>3, <1>4 DEF Adds

(* What is there already keeps its files, and they are not the new ones.   *)
LEMMA AddedFiles ==
    ASSUME Shape, NEW c, NEW v, NEW i, NEW new, NEW s, Adds(c, v, i, new, s)
    PROVE  /\ \A k \in Made \cup {NoFiles} : FilesOf(k)' = FilesOf(k) /\ Listed(k)' = Listed(k)
           /\ files \subseteq files' /\ MadeFiles \subseteq MadeFiles'
           /\ NewFiles(new) \cap MadeFiles = {}
<1>1. NewFiles(new) \cap MadeFiles = {}
  BY DEF Adds, NewFiles, MadeFiles, Index, Block
<1>2. files \subseteq files' /\ MadeFiles \subseteq MadeFiles'
  BY DEF Adds, MadeFiles
<1>3. ASSUME NEW k \in Made PROVE FilesOf(k)' = FilesOf(k) /\ Listed(k)' = Listed(k)
  <2>1. content'[k] = content[k]
    BY DEF Adds, Made
  <2>2. Index(k) \in files' <=> Index(k) \in files
    BY <1>1 DEF Adds, MadeFiles
  <2> QED BY <2>1, <2>2 DEF FilesOf, Listed, BlocksOf
<1>4. FilesOf(NoFiles)' = FilesOf(NoFiles) /\ Listed(NoFiles)' = Listed(NoFiles)
  BY DEF FilesOf, Listed
<1> QED BY <1>1, <1>2, <1>3, <1>4

LEMMA AddedShape ==
    ASSUME IInv, NEW c, NEW v, NEW i, NEW new, NEW s, Adds(c, v, i, new, s)
    PROVE  Shape'
<1> USE DEF IInv
<1>1. DOMAIN history'[c] \subseteq Versions
  BY DEF Adds, Shape
<1>2. \A d \in Collections : DOMAIN history'[d] \subseteq Versions
  BY <1>1 DEF Adds, Shape
<1>3. \A d \in Collections : \A w \in DOMAIN history'[d] : history'[d][w] \in Made' \cup {NoFiles}
  BY AddedStatus DEF Adds, Shape
<1>4. lineage' \subseteq Edges
  <2>1. Current(s) \in Versions
    BY CurrentIs DEF Rows, Adds, Shape
  <2> QED BY <2>1 DEF Adds, Shape, Edges
<1>5. \A k \in Written : content'[k] \subseteq Made'
  BY DEF Adds, Shape
<1>6. files' \subseteq MadeFiles'
  BY AddedFiles DEF Adds, Shape, MadeFiles, NewFiles
<1>7. expired' \subseteq {d \in Collections : status'[d] \in {"soft", "gone"}}
  BY AddedStatus DEF Adds, Shape
<1> QED BY <1>2, <1>3, <1>4, <1>5, <1>6, <1>7, AddedStatus DEF Adds, Shape

LEMMA AddedCurrent ==
    ASSUME Shape, NEW c, NEW v, NEW i, NEW new, NEW s, Adds(c, v, i, new, s)
    PROVE  /\ Current(c)' = v
           /\ \A d \in Collections : d # c => Current(d)' = Current(d)
<1>1. DOMAIN history'[c] = DOMAIN history[c] \cup {v} /\ DOMAIN history[c] \subseteq Versions
      /\ v \in Versions /\ \A w \in DOMAIN history[c] : w < v
  BY DEF Adds, Shape
<1> DEFINE S == DOMAIN history[c] \cup {v}
<1>2. S \in SUBSET Versions /\ S # {} /\ v \in S /\ v \in Nat
      /\ \A w \in S : w \in Nat /\ w <= v
  BY <1>1, ConstantFacts
<1>3. Max(S) = v
  <2>1. Max(S) \in S /\ Max(S) \in Nat /\ \A w \in S : w <= Max(S)
    BY <1>2, LastVersion
  <2> QED BY <1>2, <2>1
<1>4. Current(c)' = v
  BY <1>1, <1>3 DEF Current
<1> QED BY <1>4 DEF Adds, Current

LEMMA AddedRows ==
    ASSUME IInv, NEW c, NEW v, NEW i, NEW new, NEW s, Adds(c, v, i, new, s)
    PROVE  Rows'
<1> USE DEF IInv
<1> SUFFICES ASSUME NEW d \in Collections
             PROVE  /\ status'[d] = "live" =>
                         /\ DOMAIN history'[d] # {}
                         /\ \A k \in Made' : k[1] = d => k[2] <= Current(d)'
                    /\ status'[d] = "absent" =>
                         /\ DOMAIN history'[d] = {}
                         /\ d \notin Sources(lineage)'
                         /\ \A k \in Made' : k[1] # d
                    /\ Exists(d)' /\ DOMAIN history'[d] = {} => d \in expired'
  BY DEF Rows
<1>1. CASE d = c
  <2>1. DOMAIN history'[c] # {} /\ status'[c] = "live"
    <3>1. v \in DOMAIN history'[c]
      BY DEF Adds
    <3> QED BY <3>1, AddedStatus
  <2>2. ASSUME NEW k \in Made', k[1] = c PROVE k[2] <= v
    <3>1. CASE k \in new
      BY <3>1, ConstantFacts DEF Adds
    <3>2. CASE k \in Made
      <4>1. status[c] = "live" /\ DOMAIN history[c] # {} /\ k[2] <= Current(c)
        BY <2>2, <3>2, AddedStatus DEF Rows, Adds
      <4>2. Current(c) \in DOMAIN history[c] /\ Current(c) \in Nat /\ Current(c) < v
        BY <4>1, CurrentIs DEF Adds, Shape
      <4>3. k[2] \in Nat /\ v \in Nat
        BY <3>2, ConstantFacts DEF Made, Written, Adds
      <4> QED BY <4>1, <4>2, <4>3
    <3> QED BY <3>1, <3>2 DEF Adds
  <2> QED BY <1>1, <2>1, <2>2, AddedCurrent
<1>2. CASE d # c
  <2>1. /\ status'[d] = status[d] /\ history'[d] = history[d] /\ Current(d)' = Current(d)
        /\ (Exists(d)' <=> Exists(d)) /\ expired' = expired
    <3>1. history'[d] = history[d] /\ expired' = expired
      BY <1>2 DEF Adds
    <3> QED BY <1>2, <3>1, AddedStatus, AddedCurrent
  <2>2. \A k \in Made' : k[1] = d => k \in Made
    BY <1>2 DEF Adds
  <2>3. status[d] = "absent" => d \notin Sources(lineage)'
    BY DEF Rows, Adds, Sources
  <2> QED BY <2>1, <2>2, <2>3 DEF Rows
<1> QED BY <1>1, <1>2

-----------------------------------------------------------------------------
(* Ancestors.                                                              *)

LEMMA AncestorGrows ==
    ASSUME NEW deps, NEW more, deps \subseteq more, NEW s, NEW c, Ancestor(deps, s, c)
    PROVE  Ancestor(more, s, c)
BY DEF Ancestor

LEMMA AncestorSelf ==
    ASSUME NEW deps, NEW c
    PROVE  Ancestor(deps, c, c)
BY DEF Ancestor

LEMMA AncestorStep ==
    ASSUME NEW deps, NEW e \in deps, NEW s, Ancestor(deps, s, e[1])
    PROVE  Ancestor(deps, s, e[3])
BY DEF Ancestor

(* A collection without forks is on no way to another one.                 *)
LEMMA AncestorWithout ==
    ASSUME NEW deps, NEW c, c \notin Sources(deps), NEW s, NEW t, t # c, Ancestor(deps, s, t)
    PROVE  Ancestor({d \in deps : d[3] # c}, s, t)
<1> SUFFICES ASSUME NEW S \in SUBSET Collections, t \in S,
                    \A d \in deps : d[3] # c /\ d[3] \in S => d[1] \in S
             PROVE  s \in S
  BY DEF Ancestor
<1> DEFINE T == S \ {c}
<1>1. T \in SUBSET Collections /\ t \in T
  OBVIOUS
<1>2. \A d \in deps : d[3] \in T => d[1] \in T
  BY DEF Sources
<1>3. s \in T
  BY <1>1, <1>2 DEF Ancestor
<1> QED BY <1>3

LEMMA AddedTree ==
    ASSUME IInv, NEW c, NEW v, NEW i, NEW new, NEW s, Adds(c, v, i, new, s)
    PROVE  Tree'
<1> USE DEF IInv
<1>1. CASE c = s /\ lineage' = lineage
  BY <1>1, AddedStatus, ConstantFacts DEF Tree, Exists, Adds
<1>2. CASE status[c] = "absent" /\ lineage' = lineage \cup {<<s, Current(s), c>>}
  <2> DEFINE e == <<s, Current(s), c>>
  <2>1. Targets(lineage)' = Targets(lineage) \cup {c}
    <3>1. e[3] = c
      OBVIOUS
    <3>2. lineage' = lineage \cup {e}
      BY <1>2
    <3> HIDE DEF e
    <3> QED BY <3>1, <3>2, Zenon DEF Targets
  <2>2. c # Root /\ Exists(c)' /\ c \in Collections /\ s \in Collections /\ Exists(s)
    <3>1. c \in Collections /\ s \in Collections /\ status[s] = "live"
      BY DEF Adds
    <3>2. status'[c] = "live"
      BY AddedStatus
    <3> QED BY <1>2, <3>1, <3>2 DEF Tree, Exists
  <2>3. \A d \in Targets(lineage) : Exists(d)'
    <3>1. \A d \in Targets(lineage) : d \in Collections
      BY DEF Shape, Edges, Targets
    <3> QED BY <3>1, AddedStatus DEF Tree
  <2>4. \A d \in Collections : Exists(d)' /\ d # Root => d \in Targets(lineage)'
    BY <2>1, AddedStatus DEF Tree
  <2>5. \A d \in Targets(lineage) : Ancestor(lineage', Root, d)
    BY <1>2, AncestorGrows DEF Tree
  <2>6. Ancestor(lineage', Root, s)
    BY <2>2, <2>5, AncestorSelf DEF Tree
  <2>7. Ancestor(lineage', Root, c)
    <3>1. e \in lineage' /\ e[1] = s /\ e[3] = c
      BY <1>2
    <3> HIDE DEF e
    <3> QED BY <2>6, <3>1, AncestorStep
  <2>8. status'[Root] # "absent"
    BY <2>2, AddedStatus, ConstantFacts DEF Tree
  <2>9. \A d \in Targets(lineage)' : Exists(d)' /\ d # Root /\ Ancestor(lineage', Root, d)
    BY <2>1, <2>2, <2>3, <2>5, <2>7 DEF Tree
  <2>10. \A d \in Targets(lineage)' : Ancestor(lineage, Root, d)'
    <3> SUFFICES ASSUME NEW d \in Targets(lineage)' PROVE Ancestor(lineage, Root, d)'
      OBVIOUS
    <3>1. Ancestor(lineage', Root, d)
      BY <2>9
    <3> QED BY <3>1 DEF Ancestor
  <2> QED BY <2>4, <2>8, <2>9, <2>10 DEF Tree
<1> QED BY <1>1, <1>2 DEF Adds

-----------------------------------------------------------------------------
(* The job while a collection gets a version.                              *)

(* Only a version file that is still to be read has the new version.       *)
LEMMA AddedVF ==
    ASSUME IInv, NEW c, NEW v, NEW i, NEW new, NEW s, Adds(c, v, i, new, s), NEW j \in Jobs
    PROVE  /\ job'[j] = job[j] /\ Unread(j)' = Unread(j)
           /\ DOMAIN VF(j)' = DOMAIN VF(j)
           /\ \A d \in DOMAIN VF(j) :
                 \/ VF(j)'[d] = VF(j)[d]
                 \/ /\ d = c /\ job[j].pc = "listed" /\ c \in Unread(j) /\ c # Root
                    /\ VF(j)[c] = history[c] /\ VF(j)'[c] = history'[c]
<1> USE DEF IInv
<1>1. job'[j] = job[j] /\ Unread(j)' = Unread(j)
  BY DEF Adds, Unread, Others, Sources, Targets
<1>2. CASE job[j].pc # "listed"
  BY <1>1, <1>2 DEF VF
<1>3. CASE job[j].pc = "listed"
  <2> DEFINE others == {o \in Others(job[j].deps, Root) : Exists(o)}
             later == {o \in Others(job[j].deps, Root) : Exists(o)'}
  <2>1. job[j].id = Root /\ DOMAIN job[j].version_files = {Root}
        /\ \A o \in Others(job[j].deps, Root) : o \in Collections /\ status[o] # "absent"
    BY <1>3 DEF JobInv, JobFits, Others
  <2>2. /\ DOMAIN VF(j) = {Root} \cup others
        /\ VF(j)[Root] = job[j].version_files[Root]
        /\ \A d \in others : d # Root /\ VF(j)[d] = history[d]
    BY <1>3, <2>1, ToRead
  <2>3. /\ DOMAIN VF(j)' = {Root} \cup later
        /\ VF(j)'[Root] = job[j].version_files[Root]
        /\ \A d \in later : d # Root /\ VF(j)'[d] = history'[d]
    BY <1>1, <1>3, <2>1 DEF VF, VersionFiles, Others, Sources, Targets
  <2>4. others = later
    <3> SUFFICES ASSUME NEW o \in Others(job[j].deps, Root) PROVE Exists(o) <=> Exists(o)'
      OBVIOUS
    <3>1. o \in Collections /\ status[o] # "absent"
      BY <2>1
    <3>2. CASE o = c
      BY <3>1, <3>2, AddedStatus DEF Exists
    <3>3. CASE o # c
      BY <3>1, <3>3, AddedStatus
    <3> QED BY <3>2, <3>3
  <2>5. \A d \in others : d # c => history'[d] = history[d]
    BY <2>1 DEF Adds
  <2>6. others \subseteq Unread(j)
    BY <1>3 DEF Unread
  <2> HIDE DEF others, later
  <2>7. ASSUME NEW d \in DOMAIN VF(j)
        PROVE  \/ VF(j)'[d] = VF(j)[d]
               \/ /\ d = c /\ job[j].pc = "listed" /\ c \in Unread(j) /\ c # Root
                  /\ VF(j)[c] = history[c] /\ VF(j)'[c] = history'[c]
    <3>1. CASE d = Root
      BY <3>1, <2>2, <2>3
    <3>2. CASE d \in others /\ d # c
      BY <3>2, <2>2, <2>3, <2>4, <2>5
    <3>3. CASE d \in others /\ d = c
      BY <1>3, <3>3, <2>2, <2>3, <2>4, <2>6
    <3> QED BY <2>2, <3>1, <3>2, <3>3
  <2> QED BY <1>1, <2>2, <2>3, <2>4, <2>7
<1> QED BY <1>2, <1>3, <1>1

LEMMA AddedDoom ==
    ASSUME OneCollector, IInv, NEW c, NEW v, NEW i, NEW new, NEW s, Adds(c, v, i, new, s),
           NEW j \in Jobs
    PROVE  /\ \A d : Doom(j, d) \subseteq Doom(j, d)'
           /\ \A d : d # c \/ c \notin Unread(j) => Doom(j, d)' = Doom(j, d)
           /\ v \notin Doom(j, c)'
<1> USE DEF IInv
<1> DEFINE early == job[j].pc \in {"listed", "graph"}
<1>1. /\ job'[j] = job[j] /\ DOMAIN VF(j)' = DOMAIN VF(j) /\ old' = old
      /\ \A d \in DOMAIN VF(j) :
            \/ VF(j)'[d] = VF(j)[d]
            \/ /\ d = c /\ job[j].pc = "listed" /\ c \in Unread(j) /\ c # Root
               /\ VF(j)[c] = history[c] /\ VF(j)'[c] = history'[c]
  <2>1. old' = old
    BY DEF Adds
  <2> QED BY <2>1, AddedVF
<1>2. DOMAIN history[c] \subseteq DOMAIN history'[c] /\ DOMAIN history'[c] \subseteq Versions
      /\ c \in Collections
  BY DEF Adds, Shape
<1>3. \A d : early /\ d \in DOMAIN VF(j) =>
          /\ Doom(j, d) = SpareOf(DOMAIN VF(j)[d], d, old)
          /\ Doom(j, d)' = SpareOf(DOMAIN VF(j)'[d], d, old)
  BY <1>1 DEF Doom, Spare, SpareOf
<1>4. \A d : ~(early /\ d \in DOMAIN VF(j)) => Doom(j, d)' = Doom(j, d)
  BY <1>1 DEF Doom, Chosen
<1>5. \A d : d # c \/ c \notin Unread(j) => Doom(j, d)' = Doom(j, d)
  BY <1>1, <1>3, <1>4
<1>6. Doom(j, c) \subseteq Doom(j, c)'
  <2>1. CASE early /\ c \in DOMAIN VF(j) /\ VF(j)[c] = history[c] /\ VF(j)'[c] = history'[c]
    BY <1>2, <1>3, <2>1, SpareGrows
  <2> QED BY <1>1, <1>3, <1>4, <2>1
<1>7. v \notin Doom(j, c)'
  <2>1. CASE early /\ c \in DOMAIN VF(j) /\ VF(j)'[c] = VF(j)[c]
    <3>1. DOMAIN VF(j)[c] \subseteq DOMAIN history[c]
      BY <2>1 DEF JobInv, FilesFit, Reads
    <3>2. Doom(j, c)' \subseteq DOMAIN VF(j)[c]
      BY <1>3, <2>1 DEF SpareOf
    <3>3. v \notin DOMAIN history[c]
      BY AddedStatus
    <3> QED BY <3>1, <3>2, <3>3
  <2>2. CASE early /\ c \in DOMAIN VF(j) /\ VF(j)'[c] = history'[c]
    <3>1. \A w \in DOMAIN history'[c] : ~(w > v)
      <4>1. v \in Nat /\ \A w \in DOMAIN history'[c] : w \in Nat /\ (w = v \/ w < v)
        BY <1>2, ConstantFacts DEF Adds
      <4> QED BY <4>1
    <3> QED BY <1>3, <2>2, <3>1, SpareIsNotLast
  <2>3. CASE ~(early /\ c \in DOMAIN VF(j)) /\ status[c] = "live"
    <3>1. DOMAIN history[c] # {}
      BY <1>2, <2>3 DEF Rows
    <3>2. \A w \in Doom(j, c) : w \in Nat /\ w < Current(c)
      BY <1>2, <2>3, <3>1, DoomIsSpare
    <3>3. Current(c) \in Nat /\ Current(c) < v /\ v \in Nat
      BY <1>2, <3>1, CurrentIs, ConstantFacts DEF Adds
    <3> QED BY <1>4, <2>3, <3>2, <3>3
  <2>4. CASE ~(early /\ c \in DOMAIN VF(j)) /\ status[c] = "absent"
    <3>1. Chosen(j) => c \notin DOMAIN job[j].doomed
      BY <1>2, <2>4 DEF JobInv, ChoiceFits, Exists
    <3> QED BY <1>4, <2>4, <3>1 DEF Doom
  <2>5. status[c] \in {"live", "absent"}
    BY AddedStatus
  <2> QED BY <1>1, <2>1, <2>2, <2>3, <2>4, <2>5
<1>8. \A d : Doom(j, d) \subseteq Doom(j, d)'
  BY <1>5, <1>6
<1> QED BY <1>5, <1>7, <1>8

LEMMA AddedJobFits ==
    ASSUME IInv, NEW c, NEW v, NEW i, NEW new, NEW s, Adds(c, v, i, new, s), NEW j \in Jobs
    PROVE  JobFits(j)'
<1> USE DEF IInv
<1>1. /\ job'[j] = job[j] /\ DOMAIN VF(j)' = DOMAIN VF(j) /\ JobFits(j)
  BY AddedVF DEF JobInv
<1>2. /\ c \in Collections /\ old' = old /\ expired' = expired /\ status[s] = "live"
      /\ \/ lineage' = lineage
         \/ lineage' = lineage \cup {<<s, Current(s), c>>}
  BY DEF Adds
<1>3. s \notin expired /\ c \notin expired
  BY <1>2, AddedStatus DEF Shape
<1>4. \A e \in lineage' : e \in lineage \/ e[1] = s
  BY <1>2
<1>5. \A e \in lineage' : e[1] \in expired => e \in lineage
  BY <1>3, <1>4
<1>6. lineage \subseteq lineage'
  BY <1>2
<1>7. \A d \in Collections : d \in expired /\ Exists(d)' => Exists(d)
  BY <1>3, AddedStatus
<1>8. \A d \in Collections : status[d] # "absent" => status'[d] # "absent"
  BY AddedStatus
<1> QED BY <1>1, <1>2, <1>5, <1>6, <1>7, <1>8 DEF JobFits, IsJob, Sources, Targets

LEMMA AddedFilesFit ==
    ASSUME IInv, NEW c, NEW v, NEW i, NEW new, NEW s, Adds(c, v, i, new, s), NEW j \in Jobs
    PROVE  FilesFit(j)'
<1> USE DEF IInv
<1>1. /\ job'[j] = job[j] /\ DOMAIN VF(j)' = DOMAIN VF(j) /\ FilesFit(j)
      /\ \A d \in DOMAIN VF(j) : VF(j)'[d] = VF(j)[d] \/ (d = c /\ VF(j)'[d] = history'[d])
  BY AddedVF DEF JobInv
<1>2. /\ c \in Collections /\ expired' = expired
      /\ \A d \in Collections : d # c => history'[d] = history[d]
  BY DEF Adds
<1>3. c \notin expired
  BY <1>2, AddedStatus DEF Shape
<1>4. SUFFICES ASSUME Reads(j), NEW d \in DOMAIN VF(j)
               PROVE  /\ d \in Collections /\ Exists(d)'
                      /\ d = Root \/ d \in Sources(job[j].deps) \cup Targets(job[j].deps)
                      /\ DOMAIN VF(j)'[d] \subseteq DOMAIN history'[d]
                      /\ \A w \in DOMAIN VF(j)'[d] : VF(j)'[d][w] = history'[d][w]
                      /\ d \in expired /\ job[j].pc # "list" => DOMAIN VF(j)'[d] = DOMAIN history'[d]
  BY <1>1, <1>2 DEF FilesFit, Reads, Sources, Targets
<1>5. /\ d \in Collections /\ Exists(d)
      /\ d = Root \/ d \in Sources(job[j].deps) \cup Targets(job[j].deps)
      /\ DOMAIN VF(j)[d] \subseteq DOMAIN history[d]
      /\ \A w \in DOMAIN VF(j)[d] : VF(j)[d][w] = history[d][w]
      /\ d \in expired /\ job[j].pc # "list" => DOMAIN VF(j)[d] = DOMAIN history[d]
  BY <1>1, <1>4 DEF FilesFit
<1>6. /\ Exists(d)' /\ DOMAIN history[d] \subseteq DOMAIN history'[d]
      /\ \A w \in DOMAIN history[d] : history'[d][w] = history[d][w]
  BY <1>5, AddedStatus
<1>7. CASE VF(j)'[d] = history'[d]
  BY <1>5, <1>6, <1>7
<1>8. CASE VF(j)'[d] = VF(j)[d]
  BY <1>2, <1>3, <1>5, <1>6, <1>8
<1> QED BY <1>1, <1>7, <1>8

LEMMA AddedChoice ==
    ASSUME OneCollector, IInv, NEW c, NEW v, NEW i, NEW new, NEW s, Adds(c, v, i, new, s),
           NEW j \in Jobs
    PROVE  ChoiceFits(j)'
<1> USE DEF IInv
<1> DEFINE r == job[j]
<1>1. /\ job'[j] = job[j] /\ ChoiceFits(j) /\ JobFits(j)
  BY AddedVF DEF JobInv
<1>2. /\ c \in Collections /\ old' = old /\ expired' = expired /\ s \in Collections
      /\ status[s] = "live" /\ status[c] \in {"live", "absent"} /\ status'[c] = "live"
      /\ \/ lineage' = lineage
         \/ lineage' = lineage \cup {<<s, Current(s), c>>}
      /\ \A d \in Collections : d # c => history'[d] = history[d]
  <2>1. status[c] \in {"live", "absent"} /\ status'[c] = "live"
    BY AddedStatus
  <2> QED BY <2>1 DEF Adds
<1>3. DOMAIN history'[c] = DOMAIN history[c] \cup {v} /\ v \in Nat
  BY ConstantFacts DEF Adds
<1>4. \A e \in lineage' : e \in lineage \/ e[1] = s
  BY <1>2
<1>5. /\ \A d \in Collections : d # c => status'[d] = status[d] /\ Current(d)' = Current(d)
      /\ \A d \in Collections : d # c => (Exists(d)' <=> Exists(d))
      /\ \A d \in Collections : Exists(d) => Exists(d)'
      /\ Current(c)' = v
  <2>1. \A d \in Collections : d # c => status'[d] = status[d] /\ Current(d)' = Current(d)
    BY AddedStatus, AddedCurrent
  <2> QED BY <2>1, AddedStatus, AddedCurrent
<1>6. /\ \A d : Chosen(j) => Doom(j, d)' = Doom(j, d)
      /\ v \notin Doom(j, c)'
      /\ \A d : Chosen(j) /\ d \in DOMAIN r.doomed => Doom(j, d) = r.doomed[d]
  <2>1. Chosen(j) => Unread(j) = {}
    BY DEF Chosen, Unread
  <2>2. \A d : Chosen(j) => Doom(j, d)' = Doom(j, d)
    BY <2>1, AddedDoom
  <2>3. v \notin Doom(j, c)'
    BY AddedDoom
  <2>4. \A d : Chosen(j) /\ d \in DOMAIN r.doomed => Doom(j, d) = r.doomed[d]
    BY DEF Chosen, Doom
  <2> QED BY <2>2, <2>3, <2>4
<1>7. r.pc = "list" => /\ DOMAIN r.doomed = DOMAIN r.version_files
                       /\ \A d \in DOMAIN r.doomed : r.doomed[d] \subseteq DOMAIN r.version_files[d]
                       /\ \E d \in DOMAIN r.version_files : r.version_files[d] # EmptyHistory
                       /\ r.soft \subseteq DOMAIN r.version_files
  BY <1>1 DEF ChoiceFits
<1>8. ASSUME Chosen(j)
      PROVE  /\ \A d \in DOMAIN r.doomed : d \in Collections /\ Exists(d)'
             /\ \A d \in DOMAIN r.doomed : status'[d] = "live" =>
                   /\ \A w \in r.doomed[d] : w \in Nat /\ w < Current(d)'
                   /\ r.doomed[d] \cap DOMAIN history'[d] \subseteq Spare(DOMAIN history[d], d)'
             /\ \A d \in r.soft : /\ d \in DOMAIN r.doomed /\ status'[d] = "soft" /\ d \in expired
                                  /\ DOMAIN history'[d] \subseteq r.doomed[d]
             /\ \A d \in Collections :
                    Exists(d)' /\ DOMAIN history'[d] \subseteq Doom(j, d)' => d \in r.soft
             /\ \A e \in lineage' : e[1] \in r.soft => e \in r.deps
  <2>1. \A d \in DOMAIN r.doomed : d \in Collections /\ Exists(d)
    BY <1>1, <1>8 DEF ChoiceFits
  <2>2. ASSUME NEW d \in DOMAIN r.doomed, status'[d] = "live"
        PROVE  /\ \A w \in r.doomed[d] : w \in Nat /\ w < Current(d)'
               /\ r.doomed[d] \cap DOMAIN history'[d] \subseteq SpareOf(DOMAIN history'[d], d, old)
    <3>1. CASE d # c
      <4>1. status[d] = "live" /\ Current(d)' = Current(d) /\ history'[d] = history[d]
        BY <1>2, <1>5, <2>1, <2>2, <3>1
      <4> QED BY <1>1, <1>8, <4>1 DEF ChoiceFits, Spare
    <3>2. CASE d = c
      <4>1. status[c] = "live"
        BY <1>2, <2>1, <3>2 DEF Exists
      <4>2. /\ \A w \in r.doomed[c] : w \in Nat /\ w < Current(c)
            /\ r.doomed[c] \cap DOMAIN history[c] \subseteq SpareOf(DOMAIN history[c], c, old)
        BY <1>1, <1>8, <3>2, <4>1 DEF ChoiceFits, Spare
      <4>3. Current(c) \in Nat /\ Current(c) < v
        BY <1>2, <4>1, CurrentIs DEF Adds, Shape, Rows
      <4>4. v \notin r.doomed[c]
        BY <1>6, <1>8, <3>2
      <4>5. SpareOf(DOMAIN history[c], c, old) \subseteq SpareOf(DOMAIN history'[c], c, old)
        <5>1. DOMAIN history[c] \subseteq DOMAIN history'[c] /\ DOMAIN history'[c] \subseteq Versions
          BY <1>2, <1>3 DEF Adds, Shape
        <5> QED BY <5>1, SpareGrows
      <4>6. \A w \in r.doomed[c] : w \in Nat /\ w < v
        BY <1>3, <4>2, <4>3
      <4>7. r.doomed[c] \cap DOMAIN history'[c] \subseteq r.doomed[c] \cap DOMAIN history[c]
        BY <1>3, <4>4
      <4> QED BY <1>5, <3>2, <4>2, <4>5, <4>6, <4>7
    <3> QED BY <3>1, <3>2
  <2>3. ASSUME NEW d \in r.soft
        PROVE  /\ d \in DOMAIN r.doomed /\ status'[d] = "soft" /\ d \in expired
               /\ DOMAIN history'[d] \subseteq r.doomed[d] /\ d # s
    <3>1. /\ d \in DOMAIN r.doomed /\ status[d] = "soft" /\ d \in expired
          /\ DOMAIN history[d] \subseteq r.doomed[d]
      BY <1>1, <1>8 DEF ChoiceFits
    <3> QED BY <1>2, <1>5, <2>1, <3>1
  <2>4. ASSUME NEW d \in Collections, Exists(d)', DOMAIN history'[d] \subseteq Doom(j, d)'
        PROVE  d \in r.soft
    <3>1. d # c
      BY <1>3, <1>6, <2>4
    <3>2. Exists(d) /\ DOMAIN history[d] \subseteq Doom(j, d)
      BY <1>2, <1>5, <1>6, <1>8, <2>4, <3>1
    <3> QED BY <1>1, <1>8, <3>2 DEF ChoiceFits
  <2>5. ASSUME NEW e \in lineage', e[1] \in r.soft PROVE e \in r.deps
    BY <1>1, <1>4, <1>8, <2>3, <2>5 DEF ChoiceFits
  <2>6. \A d \in DOMAIN r.doomed : Spare(DOMAIN history[d], d)' = SpareOf(DOMAIN history'[d], d, old)
    BY <1>2 DEF Spare, SpareOf
  <2> QED BY <1>5, <2>1, <2>2, <2>3, <2>4, <2>5, <2>6
<1>9. r.pc = "delete" => r.unused \subseteq MadeFiles'
  BY <1>1, AddedFiles DEF ChoiceFits
<1>10. ASSUME r.pc = "versions"
       PROVE  /\ r.pending \subseteq DOMAIN r.doomed
              /\ \A d \in DOMAIN r.doomed \ r.pending : r.doomed[d] \cap DOMAIN history'[d] = {}
  <2>1. Chosen(j)
    BY <1>10 DEF Chosen
  <2>2. /\ r.pending \subseteq DOMAIN r.doomed
        /\ \A d \in DOMAIN r.doomed \ r.pending : r.doomed[d] \cap DOMAIN history[d] = {}
        /\ \A d \in DOMAIN r.doomed : d \in Collections
    BY <1>1, <1>10, <2>1 DEF ChoiceFits
  <2> QED BY <1>2, <1>3, <1>6, <2>1, <2>2
<1>11. ASSUME r.pc = "hard"
       PROVE  /\ r.pending \subseteq r.soft
              /\ \A d \in r.pending : d \in Collections /\ status'[d] = "soft" /\ DOMAIN history'[d] = {}
              /\ \A e \in r.deps : e[1] \in r.pending => e[3] \in r.pending \/ status'[e[3]] = "gone"
              /\ \A e \in lineage' : e[1] \in r.pending => e \in r.deps
  <2>1. /\ r.pending \subseteq r.soft
        /\ \A d \in r.pending : d \in Collections /\ status[d] = "soft" /\ DOMAIN history[d] = {}
        /\ \A e \in r.deps : e[1] \in r.pending => e[3] \in r.pending \/ status[e[3]] = "gone"
        /\ \A e \in lineage : e[1] \in r.pending => e \in r.deps
    BY <1>1, <1>11 DEF ChoiceFits
  <2>2. \A d \in r.pending : d # c /\ d # s /\ status'[d] = "soft" /\ DOMAIN history'[d] = {}
    BY <1>2, <1>5, <2>1
  <2>3. \A e \in r.deps : e[3] \in Collections
    BY <1>1 DEF JobFits, Edges
  <2>4. \A e \in r.deps : status[e[3]] = "gone" => status'[e[3]] = "gone"
    BY <1>2, <1>5, <2>3
  <2> QED BY <1>4, <2>1, <2>2, <2>4
<1> QED BY <1>1, <1>2, <1>7, <1>8, <1>9, <1>10, <1>11 DEF ChoiceFits, Chosen

-----------------------------------------------------------------------------
(* The files while a collection gets a version.                            *)

LEMMA AddedOld ==
    ASSUME IInv, NEW c, NEW v, NEW i, NEW new, NEW s, Adds(c, v, i, new, s),
           NEW d \in Collections, NEW w \in DOMAIN history[d]
    PROVE  /\ w \in DOMAIN history'[d] /\ history'[d][w] = history[d][w]
           /\ history[d][w] \in Made \cup {NoFiles}
           /\ FilesOf(history[d][w])' = FilesOf(history[d][w])
           /\ FilesOf(history[d][w]) \subseteq MadeFiles
           /\ d \in Seen' => d \in Seen
<1> USE DEF IInv
<1>1. w \in DOMAIN history'[d] /\ history'[d][w] = history[d][w]
  BY AddedStatus
<1>2. history[d][w] \in Made \cup {NoFiles}
  BY DEF Shape
<1>3. FilesOf(history[d][w])' = FilesOf(history[d][w])
  <2>1. \A k \in Made \cup {NoFiles} : FilesOf(k)' = FilesOf(k)
    BY AddedFiles
  <2> QED BY <1>1, <1>2, <2>1 DEF FilesOf, BlocksOf
<1>4. FilesOf(history[d][w]) \subseteq MadeFiles
  BY <1>2, FilesAreMade
<1>5. d \in Seen' => d \in Seen
  <2>1. status[d] # "absent"
    BY DEF Rows
  <2>2. overlooked \subseteq overlooked'
    BY DEF Adds
  <2>3. status'[d] = "live" => status[d] = "live"
    BY <2>1, AddedStatus
  <2> QED BY <2>2, <2>3 DEF Seen
<1> QED BY <1>1, <1>2, <1>3, <1>4, <1>5

(* The new version of a collection that is seen.                           *)
LEMMA AddedNew ==
    ASSUME OneCollector, IInv, NEW c, NEW v, NEW i, NEW new, NEW s, Adds(c, v, i, new, s),
           c \in Seen'
    PROVE  /\ s \in Seen /\ Current(s) \in DOMAIN history[s]
           /\ DOMAIN history'[c] = DOMAIN history[c] \cup {v}
           /\ FilesOf(history[c][v])' \subseteq NewFiles(new) \cup FilesOf(history[s][Current(s)])
           /\ FilesOf(history[c][v])' \subseteq files'
           /\ \A j \in Jobs : /\ Current(s) \notin Doom(j, s)
                              /\ s \in Unread(j) => c \in Unread(j)
<1> USE DEF IInv
<1>1. /\ s \in Collections /\ status[s] = "live" /\ s \notin overlooked
      /\ DOMAIN history'[c] = DOMAIN history[c] \cup {v} /\ history'[c][v] = i
      /\ files' = files \cup NewFiles(new)
      /\ \A j \in Jobs : s \in Unread(j) => c = s
  BY DEF Adds, Seen
<1>2. s \in Seen /\ DOMAIN history[s] # {}
  BY <1>1 DEF Seen, Rows
<1>3. Current(s) \in DOMAIN history[s]
  BY <1>1, <1>2, CurrentIs DEF Shape
<1>4. FilesOf(history[s][Current(s)]) \subseteq files
  BY <1>2, LastIsThere
<1>5. FilesOf(history[c][v])' \subseteq NewFiles(new) \cup FilesOf(history[s][Current(s)])
  <2>1. FilesOf(i)' \subseteq NewFiles(new) \cup FilesOf(history[s][Current(s)])
    BY DEF Adds
  <2> QED BY <1>1, <2>1 DEF FilesOf, BlocksOf
<1>6. \A j \in Jobs : Current(s) \notin Doom(j, s)
  BY <1>1, <1>2, DoomIsSpare
<1> QED BY <1>1, <1>2, <1>3, <1>4, <1>5, <1>6

LEMMA AddedPresent ==
    ASSUME OneCollector, IInv, NEW c, NEW v, NEW i, NEW new, NEW s, Adds(c, v, i, new, s),
           NEW j \in Jobs
    PROVE  Present(j)'
<1> USE DEF IInv
<1>1. job'[j] = job[j] /\ \A d : Doom(j, d) \subseteq Doom(j, d)'
  BY AddedVF, AddedDoom
<1>2. files \subseteq files' /\ \A d \in Collections : d # c => history'[d] = history[d]
  BY DEF Adds
<1> SUFFICES ASSUME job[j].pc \in {"listed", "graph", "list", "delete", "versions"},
                    NEW d \in Seen', NEW w \in DOMAIN history'[d] \ Doom(j, d)'
             PROVE  FilesOf(history[d][w])' \subseteq files'
  BY <1>1 DEF Present
<1>3. d \in Collections
  BY DEF Seen
<1>4. CASE w \in DOMAIN history[d]
  <2>1. d \in Seen /\ FilesOf(history[d][w])' = FilesOf(history[d][w])
    BY <1>3, <1>4, AddedOld
  <2>2. FilesOf(history[d][w]) \subseteq files
    BY <1>1, <1>4, <2>1 DEF JobInv, Present
  <2> QED BY <1>2, <2>1, <2>2
<1>5. CASE w \notin DOMAIN history[d]
  <2>1. d = c
    BY <1>2, <1>3, <1>5
  <2>2. DOMAIN history'[c] = DOMAIN history[c] \cup {v} /\ FilesOf(history[c][v])' \subseteq files'
    BY <2>1, AddedNew
  <2> QED BY <1>5, <2>1, <2>2
<1> QED BY <1>4, <1>5

(* The files that may go are those that could, or new ones of a version    *)
(* that is still to be read.                                               *)
LEMMA AddedMayGo ==
    ASSUME OneCollector, IInv, NEW c, NEW v, NEW i, NEW new, NEW s, Adds(c, v, i, new, s),
           NEW j \in Jobs, NEW f, MayGo(j, f)'
    PROVE  /\ f \in MadeFiles => MayGo(j, f)
           /\ f \in MadeFiles \/ c \in Unread(j)
<1> USE DEF IInv
<1>1. /\ job'[j] = job[j] /\ DOMAIN VF(j)' = DOMAIN VF(j)
      /\ \A d \in DOMAIN VF(j) :
            \/ VF(j)'[d] = VF(j)[d]
            \/ /\ d = c /\ job[j].pc = "listed" /\ c \in Unread(j) /\ c # Root
               /\ VF(j)[c] = history[c] /\ VF(j)'[c] = history'[c]
  BY AddedVF
<1>2. \A k \in Made \cup {NoFiles} : FilesOf(k)' = FilesOf(k) /\ Listed(k)' = Listed(k)
  BY AddedFiles
<1>3. CASE job[j].pc = "delete"
  <2>1. f \in job[j].unused
    BY <1>1, <1>3 DEF MayGo, Reads
  <2> QED BY <1>3, <2>1 DEF MayGo, JobInv, ChoiceFits
<1>4. CASE Reads(j)
  <2>1. Refers(j, f)' /\ ~ Protects(j, f)'
    BY <1>1, <1>4 DEF MayGo, Reads
  <2>2. \A d \in DOMAIN VF(j) : /\ d \in Collections /\ Exists(d)
                                /\ \A w \in DOMAIN VF(j)[d] : VF(j)[d][w] \in Made \cup {NoFiles}
    BY <1>4 DEF JobInv, FilesFit, Shape
  <2>3. Protects(j, f) => Protects(j, f)'
    <3> SUFFICES ASSUME NEW d \in DOMAIN VF(j),
                        job[j].pc = "listed" => d = Root,
                        job[j].pc \in {"listed", "graph"} => d \notin job[j].grace,
                        NEW w \in DOMAIN VF(j)[d] \ Doom(j, d), f \in Listed(VF(j)[d][w])
                 PROVE  Protects(j, f)'
      BY DEF Protects
    <3>1. VF(j)'[d] = VF(j)[d]
      BY <1>1
    <3>2. d \notin Unread(j)
      BY DEF Unread, Others
    <3>3. Doom(j, d)' = Doom(j, d)
      BY <3>2, AddedDoom
    <3>4. f \in Listed(VF(j)[d][w])'
      BY <1>2, <2>2, <3>1 DEF Listed, BlocksOf
    <3> QED BY <1>1, <3>1, <3>3, <3>4 DEF Protects
  <2>9. PICK d \in DOMAIN VF(j) : \E w \in DOMAIN VF(j)'[d] : f \in FilesOf(VF(j)[d][w])'
    BY <1>1, <2>1 DEF Refers
  <2>4. PICK w \in DOMAIN VF(j)'[d] : f \in FilesOf(VF(j)[d][w])'
    BY <2>9
  <2>5. CASE w \in DOMAIN VF(j)[d] /\ VF(j)'[d][w] = VF(j)[d][w]
    <3>1. f \in FilesOf(VF(j)[d][w])
      BY <1>2, <2>2, <2>4, <2>5
    <3>2. Refers(j, f)
      BY <2>5, <3>1 DEF Refers
    <3>3. f \in MadeFiles
      BY <2>2, <2>5, <3>1, FilesAreMade
    <3> QED BY <1>4, <2>1, <2>3, <3>2, <3>3 DEF MayGo
  <2>6. CASE ~(w \in DOMAIN VF(j)[d] /\ VF(j)'[d][w] = VF(j)[d][w])
    <3>1. d = c /\ c \in Unread(j) /\ VF(j)[c] = history[c] /\ VF(j)'[c] = history'[c]
      BY <1>1, <2>4, <2>6
    <3>2. status[c] # "absent" /\ c \in Collections
      BY <2>2, <3>1 DEF Exists
    <3>3. /\ c = s /\ DOMAIN history'[c] = DOMAIN history[c] \cup {v}
          /\ \A u \in DOMAIN history[c] : history'[c][u] = history[c][u]
          /\ history'[c][v] = i /\ status[c] = "live"
      BY <3>2 DEF Adds
    <3>4. w = v
      BY <2>4, <2>6, <3>1, <3>3
    <3>5. f \in FilesOf(i)'
      BY <2>4, <3>1, <3>3, <3>4
    <3>6. f \in NewFiles(new) \cup FilesOf(history[c][Current(c)])
      BY <3>3, <3>5 DEF Adds
    <3>7. Current(c) \in DOMAIN history[c]
      BY <3>2, <3>3, CurrentIs DEF Shape, Rows
    <3>8. f \in MadeFiles => f \in FilesOf(history[c][Current(c)])
      BY <3>6, AddedFiles
    <3>9. f \in MadeFiles => Refers(j, f)
      BY <2>4, <3>1, <3>7, <3>8 DEF Refers
    <3> QED BY <1>4, <2>1, <2>3, <3>1, <3>9 DEF MayGo
  <2> QED BY <2>5, <2>6
<1>5. Reads(j)' <=> Reads(j)
  BY <1>1 DEF Reads
<1>6. job[j].pc = "delete" \/ Reads(j)
  BY <1>1, <1>5 DEF MayGo
<1> QED BY <1>3, <1>4, <1>6

LEMMA AddedUntouched ==
    ASSUME OneCollector, IInv, NEW c, NEW v, NEW i, NEW new, NEW s, Adds(c, v, i, new, s),
           NEW j \in Jobs
    PROVE  Untouched(j)'
<1> USE DEF IInv
<1>1. Unread(j)' = Unread(j) /\ \A d : Doom(j, d) \subseteq Doom(j, d)'
  BY AddedVF, AddedDoom
<1>2. \A d \in Collections : d # c => history'[d] = history[d]
  BY DEF Adds
<1> SUFFICES ASSUME NEW d \in Seen', d \notin Unread(j),
                    NEW w \in DOMAIN history'[d] \ Doom(j, d)',
                    NEW f \in FilesOf(history[d][w])', MayGo(j, f)'
             PROVE  FALSE
  BY <1>1 DEF Untouched
<1>3. d \in Collections
  BY DEF Seen
<1>4. /\ f \in MadeFiles => MayGo(j, f)
      /\ f \in MadeFiles \/ c \in Unread(j)
  BY AddedMayGo
<1>5. Untouched(j)
  BY DEF JobInv
<1>6. CASE w \in DOMAIN history[d]
  <2>1. d \in Seen /\ f \in FilesOf(history[d][w]) /\ f \in MadeFiles
    BY <1>3, <1>6, AddedOld
  <2> QED BY <1>1, <1>4, <1>5, <1>6, <2>1 DEF Untouched
<1>7. CASE w \notin DOMAIN history[d]
  <2>1. d = c
    BY <1>2, <1>3, <1>7
  <2>2. /\ s \in Seen /\ Current(s) \in DOMAIN history[s] /\ Current(s) \notin Doom(j, s)
        /\ DOMAIN history'[c] = DOMAIN history[c] \cup {v}
        /\ FilesOf(history[c][v])' \subseteq NewFiles(new) \cup FilesOf(history[s][Current(s)])
        /\ s \notin Unread(j)
    BY <2>1, AddedNew
  <2>3. f \in MadeFiles
    BY <1>4, <2>1
  <2>4. f \in NewFiles(new) \cup FilesOf(history[s][Current(s)])
    BY <1>7, <2>1, <2>2
  <2>5. f \in FilesOf(history[s][Current(s)])
    BY <2>3, <2>4, AddedFiles
  <2> QED BY <1>4, <1>5, <2>2, <2>3, <2>5 DEF Untouched
<1> QED BY <1>6, <1>7

LEMMA AddedFilesKept ==
    ASSUME OneCollector, IInv, NEW c, NEW v, NEW i, NEW new, NEW s, Adds(c, v, i, new, s)
    PROVE  FilesKept'
<1> USE DEF IInv
<1>1. /\ files \subseteq files' /\ old' = old
      /\ \A d \in Collections : d # c => history'[d] = history[d]
  BY DEF Adds
<1> SUFFICES ASSUME NEW d \in Collections \ overlooked', status'[d] = "live",
                    NEW w \in Readable(d)'
             PROVE  FilesOf(history[d][w])' \subseteq files'
  BY DEF FilesKept, HasFiles
<1>2. d \in Seen'
  BY DEF Seen
<1>3. DOMAIN history[d] \subseteq DOMAIN history'[d] /\ DOMAIN history'[d] \subseteq Versions
  BY AddedStatus, AddedShape DEF Shape
<1>4. w \in DOMAIN history'[d] \ SpareOf(DOMAIN history'[d], d, old)
  <2>1. Readable(d)' = DOMAIN history'[d] \ SpareOf(DOMAIN history'[d], d, old')
    BY <1>3, NotSpare DEF Readable
  <2> QED BY <1>1, <2>1
<1>5. CASE w \in DOMAIN history[d]
  <2>1. d \in Seen /\ FilesOf(history[d][w])' = FilesOf(history[d][w])
    BY <1>2, <1>5, AddedOld
  <2>2. w \notin Spare(DOMAIN history[d], d)
    BY <1>3, <1>4, SpareGrows DEF Spare
  <2>3. w \in Readable(d)
    BY <1>5, <2>2, ReadableIs
  <2>4. FilesOf(history[d][w]) \subseteq files
    BY <2>1, <2>3 DEF FilesKept, HasFiles, Seen
  <2> QED BY <1>1, <2>1, <2>4
<1>6. CASE w \notin DOMAIN history[d]
  <2>1. d = c
    BY <1>1, <1>4, <1>6
  <2>2. DOMAIN history'[c] = DOMAIN history[c] \cup {v} /\ FilesOf(history[c][v])' \subseteq files'
    BY <1>2, <2>1, AddedNew
  <2> QED BY <1>4, <1>6, <2>1, <2>2
<1> QED BY <1>5, <1>6

(* What the jobs are about to delete was made.                             *)
LEMMA GoneIsMade ==
    ASSUME IInv
    PROVE  Gone \subseteq MadeFiles
BY DEF IInv, JobInv, ChoiceFits, Gone

LEMMA AddedAccounted ==
    ASSUME OneCollector, IInv, NEW c, NEW v, NEW i, NEW new, NEW s, Adds(c, v, i, new, s)
    PROVE  Accounted' /\ Found'
<1> USE DEF IInv
<1>1. /\ orphans' = orphans /\ job' = job /\ files' = files \cup NewFiles(new)
      /\ c \in Collections /\ v \in DOMAIN history'[c] /\ history'[c][v] = i /\ new \subseteq {i}
      /\ \A k \in new : k \in Written /\ k \in content'[k]
  BY DEF Adds, failed
<1>2. Gone' = Gone
  BY <1>1 DEF Gone
<1>3. \A d : Dying(d)' = Dying(d)
  <2>1. \A j \in Jobs : job[j].pc \in {"delete", "versions"} =>
            \A d : Doom(j, d)' = Doom(j, d)
    <3> SUFFICES ASSUME NEW j \in Jobs, job[j].pc \in {"delete", "versions"}, NEW d
                 PROVE  Doom(j, d)' = Doom(j, d)
      OBVIOUS
    <3>1. Unread(j) = {}
      BY DEF Unread
    <3> QED BY <3>1, AddedDoom
  <2> QED BY <1>1, <2>1 DEF Dying
<1>4. v \notin Dying(c)'
  <2>1. \A j \in Jobs : v \notin Doom(j, c)'
    BY AddedDoom
  <2> QED BY <2>1 DEF Dying
<1>5. ASSUME NEW d \in Collections, NEW w \in DOMAIN history[d], NEW f \in FilesOf(history[d][w])
      PROVE  /\ w \in DOMAIN history'[d] /\ history'[d][w] = history[d][w]
             /\ f \in FilesOf(history[d][w])'
  <2>1. /\ w \in DOMAIN history'[d] /\ history'[d][w] = history[d][w]
        /\ FilesOf(history[d][w])' = FilesOf(history[d][w])
    BY <1>5, AddedOld
  <2> QED BY <1>5, <2>1
<1>6. ASSUME NEW f \in NewFiles(new)
      PROVE  /\ f \in FilesOf(history[c][v])'
             /\ Index(history'[c][v]) \in files' \ Gone
  <2>1. i \in new /\ (f = Index(i) \/ f = Block(i))
    BY <1>1, <1>6 DEF NewFiles
  <2>2. i # NoFiles
    BY <1>1, <2>1, NoFilesIsNone
  <2>3. Index(i) \in NewFiles(new) /\ Index(i) \notin Gone
    <3>1. Index(i) \in NewFiles(new)
      BY <2>1 DEF NewFiles
    <3> QED BY <3>1, AddedFiles, GoneIsMade
  <2>4. f \in FilesOf(history[c][v])'
    BY <1>1, <2>1, <2>2 DEF FilesOf, BlocksOf
  <2> QED BY <1>1, <2>3, <2>4
<1>7. Accounted'
  <2> SUFFICES ASSUME NEW f \in files' \ (Gone \cup orphans)
               PROVE  \E d \in Collections : \E w \in DOMAIN history'[d] \ Dying(d)' :
                         /\ f \in FilesOf(history[d][w])'
                         /\ Index(history'[d][w]) \in files' \ Gone
    BY <1>1, <1>2 DEF Accounted
  <2>1. CASE f \in files
    <3>1. PICK d \in Collections : \E w \in DOMAIN history[d] \ Dying(d) :
             f \in FilesOf(history[d][w]) /\ Index(history[d][w]) \in files \ Gone
      BY <2>1 DEF Accounted
    <3>2. PICK w \in DOMAIN history[d] \ Dying(d) :
             f \in FilesOf(history[d][w]) /\ Index(history[d][w]) \in files \ Gone
      BY <3>1
    <3> QED BY <1>1, <1>3, <1>5, <3>2
  <2>2. CASE f \in NewFiles(new)
    BY <1>1, <1>4, <1>6, <2>2
  <2> QED BY <1>1, <2>1, <2>2
<1>8. Found'
  <2> SUFFICES ASSUME NEW f \in files' \ orphans
               PROVE  \E d \in Collections : \E w \in DOMAIN history'[d] :
                         /\ f \in FilesOf(history[d][w])'
                         /\ Index(history'[d][w]) \in files'
    BY <1>1 DEF Found
  <2>1. CASE f \in files
    <3>1. PICK d \in Collections : \E w \in DOMAIN history[d] :
             f \in FilesOf(history[d][w]) /\ Index(history[d][w]) \in files
      BY <2>1 DEF Found
    <3>2. PICK w \in DOMAIN history[d] :
             f \in FilesOf(history[d][w]) /\ Index(history[d][w]) \in files
      BY <3>1
    <3> QED BY <1>1, <1>5, <3>2
  <2>2. CASE f \in NewFiles(new)
    BY <1>1, <1>6, <2>2
  <2> QED BY <1>1, <2>1, <2>2
<1> QED BY <1>7, <1>8

LEMMA AddedStranding ==
    ASSUME IInv, NEW c, NEW v, NEW i, NEW new, NEW s, Adds(c, v, i, new, s)
    PROVE  Stranding'
<1> USE DEF IInv
<1>1. interrupted' = interrupted /\ job' = job /\ v \in DOMAIN history'[c]
  BY DEF Adds, failed
<1>2. lineage \subseteq lineage'
  BY AddedStatus
<1> SUFFICES ASSUME NEW d \in Collections \ interrupted, Exists(d)', DOMAIN history'[d] = {}
             PROVE  \/ HasHeir(d)'
                    \/ \E j \in Jobs : \/ job[j].pc = "versions"
                                       \/ job[j].pc = "hard" /\ d \in job[j].pending
  BY <1>1 DEF Stranding
<1>3. Exists(d) /\ DOMAIN history[d] = {}
  BY <1>1, AddedStatus
<1>4. CASE HasHeir(d)
  <2>1. PICK e \in Descendants(d) : Exists(e) /\ DOMAIN history[e] # {}
    BY <1>4 DEF HasHeir
  <2>2. e \in Collections /\ Ancestor(lineage, d, e)
    BY DEF Descendants
  <2>3. Ancestor(lineage', d, e)
    BY <1>2, <2>2, AncestorGrows
  <2>4. e \in Descendants(d)'
    BY <2>2, <2>3 DEF Descendants, Ancestor
  <2>5. Exists(e)' /\ DOMAIN history'[e] # {}
    BY <2>1, <2>2, AddedStatus
  <2> QED BY <2>4, <2>5 DEF HasHeir
<1> QED BY <1>3, <1>4 DEF Stranding

LEMMA AddsKeeps ==
    ASSUME OneCollector, IInv, NEW c, NEW v, NEW i, NEW new, NEW s, Adds(c, v, i, new, s)
    PROVE  IInv'
<1>1. Shape' /\ Rows' /\ Tree'
  BY AddedShape, AddedRows, AddedTree
<1>2. \A j \in Jobs : JobInv(j)'
  <2> SUFFICES ASSUME NEW j \in Jobs PROVE JobInv(j)'
    OBVIOUS
  <2>1. JobFits(j)' /\ FilesFit(j)' /\ ChoiceFits(j)'
    BY AddedJobFits, AddedFilesFit, AddedChoice
  <2>2. Present(j)' /\ Untouched(j)'
    BY AddedPresent, AddedUntouched
  <2> QED BY <2>1, <2>2 DEF JobInv
<1>3. FilesKept' /\ Accounted' /\ Found' /\ Stranding'
  BY AddedFilesKept, AddedAccounted, AddedStranding
<1> QED BY <1>1, <1>2, <1>3 DEF IInv

-----------------------------------------------------------------------------
(* The users and the compactors.                                           *)

LEMMA FlushKeeps ==
    ASSUME OneCollector, IInv, NEW c \in Collections, NEW kept,
           FlushCollectionCompaction(c, kept)
    PROVE  IInv'
<1> USE DEF IInv
<1> SUFFICES ASSUME NEW v, v = Current(c) + 1, NEW i, i = <<c, v>>,
                    NEW last, last = history[c][Current(c)]
             PROVE  IInv'
  OBVIOUS
<1>1. /\ status[c] = "live" /\ Current(c) < MaxVersion /\ kept \subseteq OldBlocks(c)
      /\ compactions' = compactions + 1
      /\ content' = [content EXCEPT ![i] = kept \cup {i}]
      /\ files' = files \cup {Index(i), Block(i)}
      /\ history' = [history EXCEPT ![c] = AddVersion(@, v, i)]
      /\ UNCHANGED <<status, lineage, old, expired, job, faults, overlooked, failed>>
  BY DEF FlushCollectionCompaction
<1>2. /\ Current(c) \in DOMAIN history[c] /\ Current(c) \in Nat
      /\ \A w \in DOMAIN history[c] : w \in Nat /\ w <= Current(c)
  BY <1>1, CurrentIs DEF Shape, Rows
<1>3. v \in Versions /\ \A w \in DOMAIN history[c] : w < v
  BY <1>1, <1>2, ConstantFacts DEF Versions
<1>4. i \in Written /\ i[1] = c /\ i[2] = v
  BY <1>3 DEF Written
<1>5. i \notin Made
  <2>1. \A k \in Made : k[1] = c => k[2] <= Current(c)
    BY <1>1 DEF Rows
  <2> QED BY <1>2, <1>4, <2>1
<1>6. kept \subseteq Made /\ kept \subseteq Written
  <2>1. last # NoFiles => last \in Written
    BY <1>2 DEF Shape, Made
  <2> QED BY <1>1, <2>1 DEF OldBlocks, Shape, Made
<1>7. /\ content' \in [Written -> SUBSET Written] /\ content'[i] = kept \cup {i}
      /\ \A k \in Written : k # i => content'[k] = content[k]
  BY <1>1, <1>4, <1>6 DEF Shape
<1>8. Made' = Made \cup {i}
  BY <1>4, <1>7 DEF Made
<1>9. NewFiles({i}) = {Index(i), Block(i)}
  BY DEF NewFiles
<1>10. FilesOf(i)' \subseteq NewFiles({i}) \cup FilesOf(last)
  <2>1. i # NoFiles
    BY <1>4, NoFilesIsNone
  <2>2. \A k \in kept : Block(k) \in FilesOf(last)
    BY <1>1 DEF OldBlocks, FilesOf, BlocksOf
  <2>3. FilesOf(i)' = {Index(i)} \cup {Block(k) : k \in kept \cup {i}}
    BY <1>7, <2>1 DEF FilesOf, BlocksOf
  <2>4. \A f \in FilesOf(i)' : f = Index(i) \/ f = Block(i) \/ \E k \in kept : f = Block(k)
    BY <2>3
  <2> QED BY <1>9, <2>2, <2>4
<1>11. /\ DOMAIN history' = Collections /\ \A d \in Collections : d # c => history'[d] = history[d]
       /\ DOMAIN history'[c] = DOMAIN history[c] \cup {v} /\ history'[c][v] = i
       /\ \A w \in DOMAIN history[c] : history'[c][w] = history[c][w]
  <2>1. history'[c] = AddVersion(history[c], v, i)
    BY <1>1 DEF Shape
  <2>2. \A w \in DOMAIN history[c] : w # v
    BY <1>2
  <2>3. /\ DOMAIN history'[c] = DOMAIN history[c] \cup {v} /\ history'[c][v] = i
        /\ \A w \in DOMAIN history[c] : history'[c][w] = history[c][w]
    BY <2>1, <2>2 DEF AddVersion
  <2> QED BY <1>1, <2>3 DEF Shape
<1>12. status' = [status EXCEPT ![c] = "live"]
  BY <1>1 DEF Shape
<1>13. Adds(c, v, i, {i}, c)
  <2>1. compactions' \in Nat
    BY <1>1 DEF Shape
  <2>2. \A k \in {i} : k \in content'[k] /\ content'[k] \subseteq Made'
    BY <1>6, <1>7, <1>8
  <2>3. FilesOf(i)' \subseteq NewFiles({i}) \cup FilesOf(history[c][Current(c)])
    BY <1>10
  <2>4. {i} \subseteq Written /\ {i} \cap Made = {} /\ \A k \in {i} : k[1] = c /\ k[2] = v
    BY <1>4, <1>5
  <2>5. \A k \in Written : k \notin {i} => content'[k] = content[k]
    BY <1>7
  <2>6. files' = files \cup NewFiles({i})
    BY <1>1, <1>9
  <2> HIDE DEF IInv
  <2> QED BY <1>1, <1>3, <1>7, <1>8, <1>11, <1>12, <2>1, <2>2, <2>3, <2>4, <2>5, <2>6 DEF Adds
<1> QED BY <1>13, AddsKeeps

(* Nothing is written.                                                     *)
LEMMA SameFiles ==
    ASSUME UNCHANGED content
    PROVE  Made' = Made /\ MadeFiles' = MadeFiles /\ \A k : FilesOf(k)' = FilesOf(k)
<1>1. Made' = Made
  BY DEF Made
<1> QED BY <1>1 DEF MadeFiles, FilesOf, BlocksOf

LEMMA FlushNothingKeeps ==
    ASSUME OneCollector, IInv, NEW c \in Collections, FlushNothing(c)
    PROVE  IInv'
<1> USE DEF IInv
<1> DEFINE v == Current(c) + 1
           i == history[c][Current(c)]
<1>1. /\ status[c] = "live" /\ Current(c) < MaxVersion
      /\ compactions' = compactions + 1
      /\ history' = [history EXCEPT ![c] = AddVersion(@, v, i)]
      /\ UNCHANGED <<status, lineage, content, files, old, expired, job, faults, overlooked, failed>>
  BY DEF FlushNothing
<1>2. /\ Current(c) \in DOMAIN history[c] /\ Current(c) \in Nat
      /\ \A w \in DOMAIN history[c] : w \in Nat /\ w <= Current(c)
  BY <1>1, CurrentIs DEF Shape, Rows
<1>3. v \in Versions /\ \A w \in DOMAIN history[c] : w < v
  BY <1>1, <1>2, ConstantFacts DEF Versions
<1>4. i \in Made \cup {NoFiles}
  BY <1>2 DEF Shape
<1>5. Made' = Made
  BY <1>1, SameFiles
<1>6. NewFiles({}) = {}
  BY DEF NewFiles
<1>7. /\ DOMAIN history' = Collections /\ \A d \in Collections : d # c => history'[d] = history[d]
      /\ DOMAIN history'[c] = DOMAIN history[c] \cup {v} /\ history'[c][v] = i
      /\ \A w \in DOMAIN history[c] : history'[c][w] = history[c][w]
  <2>1. history'[c] = AddVersion(history[c], v, i)
    BY <1>1 DEF Shape
  <2>2. \A w \in DOMAIN history[c] : w # v
    BY <1>2
  <2> HIDE DEF i, v
  <2>3. /\ DOMAIN history'[c] = DOMAIN history[c] \cup {v} /\ history'[c][v] = i
        /\ \A w \in DOMAIN history[c] : history'[c][w] = history[c][w]
    BY <2>1, <2>2 DEF AddVersion
  <2> QED BY <1>1, <2>3 DEF Shape
<1>8. status' = [status EXCEPT ![c] = "live"]
  BY <1>1 DEF Shape
<1>9. ASSUME NEW k, k = i PROVE Adds(c, v, k, {}, c)
  <2>1. compactions' \in Nat
    BY <1>1 DEF Shape
  <2>2. FilesOf(k)' \subseteq NewFiles({}) \cup FilesOf(history[c][Current(c)])
    BY <1>1, <1>9, SameFiles
  <2>3. content' \in [Written -> SUBSET Written] /\ files' = files \cup {}
    BY <1>1 DEF Shape
  <2>4. k \in Made' \cup {NoFiles} /\ history'[c][v] = k
    BY <1>4, <1>5, <1>7, <1>9
  <2> HIDE DEF i, v
  <2> QED BY <1>1, <1>3, <1>5, <1>6, <1>7, <1>8, <2>1, <2>2, <2>3, <2>4 DEF Adds
<1>10. \E k : k = i
  OBVIOUS
<1> QED BY <1>9, <1>10, AddsKeeps

LEMMA ForkKeeps ==
    ASSUME OneCollector, IInv, NEW s \in Collections, NEW c \in Collections,
           ForkCollection(s, c)
    PROVE  IInv'
<1> USE DEF IInv
<1>1. /\ status[s] = "live" /\ status[c] = "absent"
      /\ status' = [status EXCEPT ![c] = "live"]
      /\ history' = [history EXCEPT ![c] = FirstVersion(history[s][Current(s)])]
      /\ lineage' = lineage \cup {<<s, Current(s), c>>}
      /\ overlooked' = IF NotSeen(s) THEN overlooked \cup {c} ELSE overlooked
      /\ UNCHANGED <<content, files, old, expired, job, faults, failed, compactions>>
  BY DEF ForkCollection
<1>2. Current(s) \in DOMAIN history[s]
  BY <1>1, CurrentIs DEF Shape, Rows
<1>3. 0 \in Versions /\ DOMAIN history[c] = {}
  BY <1>1, ConstantFacts DEF Versions, Rows
<1>4. NewFiles({}) = {}
  BY DEF NewFiles
<1>5. /\ DOMAIN history' = Collections /\ \A d \in Collections : d # c => history'[d] = history[d]
      /\ DOMAIN history'[c] = DOMAIN history[c] \cup {0}
      /\ history'[c][0] = history[s][Current(s)]
  BY <1>1, <1>3 DEF Shape, FirstVersion
<1>6. c \notin overlooked' => s \notin overlooked
  BY <1>1 DEF NotSeen
<1>7. \A j \in Jobs : s \in Unread(j) => c \in overlooked'
  <2>1. \A j \in Jobs : job[j].id = Root
    BY DEF JobInv, JobFits
  <2> QED BY <1>1, <2>1 DEF NotSeen, Unread
<1>8. overlooked \subseteq overlooked' /\ overlooked' \subseteq overlooked \cup {c}
  BY <1>1
<1>9. ASSUME NEW k, k = history[s][Current(s)] PROVE Adds(c, 0, k, {}, s)
  <2>1. FilesOf(k)' \subseteq NewFiles({}) \cup FilesOf(history[s][Current(s)])
    BY <1>1, <1>9, SameFiles
  <2>2. k \in Made \cup {NoFiles} /\ Made' = Made
    BY <1>1, <1>2, <1>9, SameFiles DEF Shape
  <2>3. content' \in [Written -> SUBSET Written] /\ files' = files \cup {} /\ compactions' \in Nat
    BY <1>1 DEF Shape
  <2> QED BY <1>1, <1>3, <1>4, <1>5, <1>6, <1>7, <1>8, <1>9, <2>1, <2>2, <2>3 DEF Adds
<1>10. \E k : k = history[s][Current(s)]
  OBVIOUS
<1> QED BY <1>9, <1>10, AddsKeeps

LEMMA SameJob ==
    ASSUME NEW j \in Jobs, job'[j] = job[j], UNCHANGED <<history, old, content, files>>,
           \A o \in Others(job[j].deps, job[j].id) : Exists(o)' <=> Exists(o)
    PROVE  /\ VF(j)' = VF(j) /\ Unread(j)' = Unread(j)
           /\ \A d : Doom(j, d)' = Doom(j, d)
           /\ \A f : MayGo(j, f)' <=> MayGo(j, f)
<1>1. {o \in Others(job[j].deps, job[j].id) : Exists(o)'}
        = {o \in Others(job[j].deps, job[j].id) : Exists(o)}
  OBVIOUS
<1>2. VersionFiles(j)' = VersionFiles(j)
  <2>1. Others(job[j].deps, job[j].id)' = Others(job[j].deps, job[j].id)
    BY DEF Others, Sources, Targets
  <2> QED BY <1>1, <2>1 DEF VersionFiles
<1>3. VF(j)' = VF(j)
  BY <1>2 DEF VF
<1>4. \A d : Doom(j, d)' = Doom(j, d)
  BY <1>3 DEF Doom, Spare, SpareOf, Chosen
<1>5. Unread(j)' = Unread(j)
  BY DEF Unread, Others, Sources, Targets
<1>6. \A f : MayGo(j, f)' <=> MayGo(j, f)
  <2> SUFFICES ASSUME NEW f PROVE MayGo(j, f)' <=> MayGo(j, f)
    OBVIOUS
  <2>1. Refers(j, f)' <=> Refers(j, f)
    BY <1>3 DEF Refers, FilesOf, BlocksOf
  <2>2. Protects(j, f)' <=> Protects(j, f)
    BY <1>3, <1>4 DEF Protects, Listed, BlocksOf
  <2> QED BY <2>1, <2>2 DEF MayGo, Reads
<1> QED BY <1>3, <1>4, <1>5, <1>6

LEMMA FoundStays ==
    ASSUME Found, UNCHANGED <<history, content, files, orphans>>
    PROVE  Found'
<1>1. \A d, v : FilesOf(history[d][v])' = FilesOf(history[d][v])
  BY DEF FilesOf, BlocksOf
<1> QED BY <1>1 DEF Found

LEMMA AccountedIsFound ==
    ASSUME Accounted', Gone' = {}
    PROVE  Found'
BY DEF Accounted, Found

LEMMA SoftDeleteKeeps ==
    ASSUME OneCollector, IInv, NEW c \in Collections, softDeleteCollection(c)
    PROVE  IInv'
<1> USE DEF IInv
<1>1. /\ status[c] = "live" /\ status' = [status EXCEPT ![c] = "soft"]
      /\ UNCHANGED <<history, lineage, content, files, old, expired, job, faults, overlooked,
                     orphans, interrupted, compactions>>
  BY DEF softDeleteCollection, failed
<1>2. /\ \A d \in Collections : d # c => status'[d] = status[d]
      /\ status'[c] = "soft"
      /\ status' \in [Collections -> {"absent", "live", "soft", "gone"}]
  BY <1>1 DEF Shape
<1>3. \A d \in Collections : (Exists(d)' <=> Exists(d)) /\ Current(d)' = Current(d)
  BY <1>1, <1>2 DEF Exists, Current
<1>4. Made' = Made /\ MadeFiles' = MadeFiles /\ \A k : FilesOf(k)' = FilesOf(k)
  BY <1>1, SameFiles
<1>5. Shape'
  BY <1>1, <1>2, <1>4 DEF Shape
<1>6. Rows'
  BY <1>1, <1>2, <1>3, <1>4 DEF Rows, Sources
<1>7. Tree'
  <2>1. \A d \in Targets(lineage) : d \in Collections
    BY DEF Shape, Edges, Targets
  <2>2. status'[Root] # "absent"
    BY <1>2, ConstantFacts DEF Tree
  <2>3. \A d \in Collections : Exists(d)' /\ d # Root => d \in Targets(lineage)
    BY <1>3 DEF Tree
  <2>4. \A d \in Targets(lineage) : Exists(d)' /\ d # Root /\ Ancestor(lineage, Root, d)
    BY <1>3, <2>1 DEF Tree
  <2>5. Targets(lineage)' = Targets(lineage)
        /\ \A d : Ancestor(lineage, Root, d)' <=> Ancestor(lineage, Root, d)
    BY <1>1 DEF Targets, Ancestor
  <2> QED BY <2>2, <2>3, <2>4, <2>5 DEF Tree
<1>8. Seen' \subseteq Seen
  BY <1>1, <1>2 DEF Seen
<1>9. \A j \in Jobs : JobInv(j)'
  <2> SUFFICES ASSUME NEW j \in Jobs PROVE JobInv(j)'
    OBVIOUS
  <2>1. JobInv(j) /\ job'[j] = job[j]
    BY <1>1
  <2>2. \A d \in Sources(job[j].deps) \cup Targets(job[j].deps) :
            d \in Collections /\ status[d] # "absent"
    BY <2>1 DEF JobInv, JobFits
  <2>3. /\ VF(j)' = VF(j) /\ Unread(j)' = Unread(j)
        /\ \A d : Doom(j, d)' = Doom(j, d)
        /\ \A f : MayGo(j, f)' <=> MayGo(j, f)
    <3>1. \A o \in Others(job[j].deps, job[j].id) : Exists(o)' <=> Exists(o)
      BY <1>3, <2>2 DEF Others
    <3> QED BY <1>1, <2>1, <3>1, SameJob
  <2>4. JobFits(j)'
    <3>1. \A d \in Sources(job[j].deps) \cup Targets(job[j].deps) : status'[d] # "absent"
      BY <1>2, <2>2
    <3> QED BY <1>1, <1>3, <2>1, <2>3, <3>1 DEF JobInv, JobFits, IsJob, Sources, Targets
  <2>5. FilesFit(j)'
    BY <1>1, <1>3, <2>1, <2>3 DEF JobInv, FilesFit, Reads, Sources, Targets
  <2>6. ChoiceFits(j)'
    <3> DEFINE r == job[j]
    <3>1. ChoiceFits(j) /\ JobFits(j)
      BY <2>1 DEF JobInv
    <3>2. Chosen(j) =>
            /\ \A d \in DOMAIN r.doomed : d \in Collections /\ Exists(d)'
            /\ \A d \in DOMAIN r.doomed : status'[d] = "live" =>
                  /\ \A v \in r.doomed[d] : v \in Nat /\ v < Current(d)'
                  /\ r.doomed[d] \cap DOMAIN history[d] \subseteq Spare(DOMAIN history[d], d)
      BY <1>2, <1>3, <3>1 DEF ChoiceFits
    <3>3. Chosen(j) =>
            /\ \A d \in r.soft : /\ d \in DOMAIN r.doomed /\ status'[d] = "soft" /\ d \in expired
                                 /\ DOMAIN history[d] \subseteq r.doomed[d]
            /\ \A d \in Collections : Exists(d)' /\ DOMAIN history[d] \subseteq Doom(j, d) => d \in r.soft
            /\ \A e \in lineage : e[1] \in r.soft => e \in r.deps
      BY <1>2, <1>3, <3>1, <3>2 DEF ChoiceFits
    <3>4. r.pc = "hard" =>
            /\ r.pending \subseteq r.soft
            /\ \A d \in r.pending : d \in Collections /\ status'[d] = "soft" /\ DOMAIN history[d] = {}
            /\ \A e \in r.deps : e[1] \in r.pending => e[3] \in r.pending \/ status'[e[3]] = "gone"
            /\ \A e \in lineage : e[1] \in r.pending => e \in r.deps
      <4>1. \A e \in r.deps : e[3] \in Collections
        BY <3>1 DEF JobFits, Edges
      <4> QED BY <1>1, <1>2, <3>1, <4>1 DEF ChoiceFits
    <3>5. \A d : Spare(DOMAIN history[d], d)' = Spare(DOMAIN history[d], d)
      BY <1>1 DEF Spare, SpareOf
    <3> QED BY <1>1, <1>4, <2>1, <2>3, <3>1, <3>2, <3>3, <3>4, <3>5 DEF ChoiceFits, Chosen
  <2>7. Present(j)' /\ Untouched(j)'
    <3>1. \A d \in Collections : \A v : FilesOf(history[d][v])' = FilesOf(history[d][v])
      BY <1>1, <1>4 DEF FilesOf, BlocksOf
    <3>2. Seen \subseteq Collections
      BY DEF Seen
    <3>3. Present(j)'
      BY <1>1, <1>8, <2>1, <2>3, <3>1, <3>2 DEF JobInv, Present
    <3>4. Untouched(j)'
      BY <1>1, <1>8, <2>1, <2>3, <3>1, <3>2 DEF JobInv, Untouched
    <3> QED BY <3>3, <3>4
  <2> QED BY <2>4, <2>5, <2>6, <2>7 DEF JobInv
<1>10. FilesKept'
  <2>1. \A d \in Collections : status'[d] = "live" => status[d] = "live"
    BY <1>2
  <2>2. \A d \in Collections : HasFiles(d)' <=> HasFiles(d)
    BY <1>1 DEF HasFiles, Readable, FilesOf, BlocksOf
  <2> QED BY <1>1, <2>1, <2>2 DEF FilesKept
<1>11. \A j \in Jobs : \A d : job[j].pc # "listed" => Doom(j, d)' = Doom(j, d)
  BY <1>1 DEF Doom, VF, Spare, SpareOf, Chosen
<1>12. Accounted' /\ Found'
  <2>1. Gone' = Gone /\ \A d : Dying(d)' = Dying(d)
    BY <1>1, <1>11 DEF Gone, Dying
  <2>2. \A d \in Collections : \A v : FilesOf(history[d][v])' = FilesOf(history[d][v])
    BY <1>1, <1>4 DEF FilesOf, BlocksOf
  <2>3. Accounted'
    BY <1>1, <2>1, <2>2 DEF Accounted
  <2> QED BY <1>1, <2>3, FoundStays
<1>13. Stranding'
  <2>1. \A d \in Collections : HasHeir(d)' <=> HasHeir(d)
    BY <1>1, <1>3 DEF HasHeir, Descendants, Ancestor
  <2> QED BY <1>1, <1>3, <2>1 DEF Stranding
<1> QED BY <1>5, <1>6, <1>7, <1>9, <1>10, <1>12, <1>13

-----------------------------------------------------------------------------
(* The steps of the job.                                                   *)

LEMMA IdleFits ==
    ASSUME NEW j \in Jobs, job'[j] = IdleJob
    PROVE  JobInv(j)'
<1>1. IdleJob.pc = "idle" /\ IdleJob.id = Root /\ IdleJob.deps = {}
  BY DEF IdleJob
<1>2. JobFits(j)'
  BY <1>1 DEF JobFits, IsJob, IdleJob, Sources, Targets
<1>3. FilesFit(j)' /\ ChoiceFits(j)' /\ Present(j)' /\ Untouched(j)'
  BY <1>1 DEF FilesFit, Reads, ChoiceFits, Chosen, Present, Untouched, MayGo
<1> QED BY <1>2, <1>3 DEF JobInv

(* Only the job has changed.                                               *)
LEMMA OnlyJobs ==
    ASSUME IInv, DOMAIN job' = Jobs, faults' \in Nat,
           UNCHANGED <<status, history, lineage, content, files, old, expired, overlooked,
                       compactions>>
    PROVE  Shape' /\ Rows' /\ Tree' /\ FilesKept'
<1> USE DEF IInv
<1>1. Made' = Made /\ MadeFiles' = MadeFiles /\ \A k : FilesOf(k)' = FilesOf(k)
  BY SameFiles
<1>2. \A d : (Exists(d)' <=> Exists(d)) /\ Current(d)' = Current(d)
  BY DEF Exists, Current
<1>3. Shape'
  BY <1>1 DEF Shape
<1>4. Rows'
  BY <1>1, <1>2 DEF Rows, Sources
<1>5. Tree'
  BY <1>2 DEF Tree, Targets, Ancestor
<1>6. FilesKept'
  BY DEF FilesKept, HasFiles, Readable, FilesOf, BlocksOf
<1> QED BY <1>3, <1>4, <1>5, <1>6

(* The job is in a phase that deletes nothing.                             *)
Quiet(r) == r.pc \notin {"delete", "versions", "hard"}

LEMMA QuietKeeps ==
    ASSUME OneCollector, IInv, NEW j \in Jobs, Quiet(job[j]), Quiet(job'[j]),
           UNCHANGED <<status, history, lineage, content, files, orphans, interrupted>>
    PROVE  Accounted' /\ Found' /\ Stranding'
<1> USE DEF IInv
<1>1. \A k \in Jobs : k = j
  BY DEF OneCollector
<1>2. Gone = {} /\ Gone' = {} /\ \A d : Dying(d) = {} /\ Dying(d)' = {}
  BY <1>1 DEF Quiet, Gone, Dying
<1>3. \A d, v : FilesOf(history[d][v])' = FilesOf(history[d][v])
  BY DEF FilesOf, BlocksOf
<1>4. Accounted'
  BY <1>2, <1>3 DEF Accounted
<1>5. \A d : (Exists(d)' <=> Exists(d)) /\ (HasHeir(d)' <=> HasHeir(d))
  BY DEF Exists, HasHeir, Descendants, Ancestor
<1>6. Stranding'
  BY <1>1, <1>5 DEF Stranding, Quiet
<1> QED BY <1>4, <1>6, FoundStays

(* What the job was going to delete still belongs to a version; what it   *)
(* has taken the versions of is soft-deleted, and interrupted.             *)
LEMMA JobFailsKeeps ==
    ASSUME OneCollector, IInv, NEW j \in Jobs, JobFails(j)
    PROVE  IInv'
<1> USE DEF IInv
<1>1. /\ faults' = faults + 1 /\ job' = [job EXCEPT ![j] = IdleJob]
      /\ UNCHANGED <<status, history, lineage, content, files, old, expired, overlooked,
                     orphans, compactions>>
  BY DEF JobFails, sysdb
<1>2. DOMAIN job' = Jobs /\ job'[j] = IdleJob /\ IdleJob.pc = "idle" /\ faults' \in Nat
  BY <1>1 DEF Shape, IdleJob
<1>3. Shape' /\ Rows' /\ Tree' /\ FilesKept'
  BY <1>1, <1>2, OnlyJobs
<1>4. \A k \in Jobs : k = j
  BY DEF OneCollector
<1>5. Found'
  BY <1>1, FoundStays
<1>6. Accounted'
  <2>1. Gone' = {} /\ \A d : Dying(d)' = {}
    BY <1>2, <1>4 DEF Gone, Dying
  <2> QED BY <1>5, <2>1 DEF Accounted, Found
<1>7. Stranding'
  <2>1. \A d : (Exists(d)' <=> Exists(d)) /\ (HasHeir(d)' <=> HasHeir(d))
    BY <1>1 DEF Exists, HasHeir, Descendants, Ancestor
  <2> SUFFICES ASSUME NEW d \in Collections \ interrupted', Exists(d), DOMAIN history[d] = {}
               PROVE  HasHeir(d)
    BY <1>1, <2>1 DEF Stranding
  <2>2. d \notin interrupted
    BY DEF JobFails
  <2>3. CASE job[j].pc \notin {"versions", "hard"}
    BY <1>4, <2>2, <2>3 DEF Stranding
  <2>4. CASE job[j].pc = "versions"
    <3>1. d \in job[j].soft
      BY <2>4 DEF JobInv, ChoiceFits, Chosen
    <3> QED BY <2>4, <3>1 DEF JobFails
  <2>5. CASE job[j].pc = "hard"
    <3>1. d \notin job[j].soft
      BY <2>5 DEF JobFails
    <3>2. d \notin job[j].pending
      BY <2>5, <3>1 DEF JobInv, ChoiceFits
    <3> QED BY <1>4, <2>2, <2>5, <3>2 DEF Stranding
  <2> QED BY <2>3, <2>4, <2>5
<1>8. \A k \in Jobs : JobInv(k)'
  BY <1>2, <1>4, IdleFits
<1> QED BY <1>3, <1>5, <1>6, <1>7, <1>8

(* A step of the job after which it is idle or still deletes nothing.      *)
LEMMA QuietStep ==
    ASSUME OneCollector, IInv, NEW j \in Jobs, Quiet(job[j]), NEW r, Quiet(r),
           job' = [job EXCEPT ![j] = r],
           UNCHANGED <<status, history, lineage, content, files, old, expired, faults, overlooked,
                       orphans, interrupted, compactions>>,
           JobInv(j)'
    PROVE  IInv'
<1>1. DOMAIN job' = Jobs /\ job'[j] = r /\ faults' \in Nat
  BY DEF IInv, Shape
<1>2. Shape' /\ Rows' /\ Tree' /\ FilesKept'
  BY <1>1, OnlyJobs
<1>3. Accounted' /\ Found' /\ Stranding'
  BY <1>1, QuietKeeps
<1>4. \A k \in Jobs : JobInv(k)'
  BY DEF OneCollector
<1> QED BY <1>2, <1>3, <1>4 DEF IInv

LEMMA ConstructKeeps ==
    ASSUME OneCollector, IInv, NEW j \in Jobs, ConstructVersionGraph(j)
    PROVE  IInv'
<1> USE DEF IInv
<1>1. /\ job[j].pc = "listed" /\ Quiet(job[j])
      /\ UNCHANGED <<status, history, lineage, content, files, old, expired, faults, overlooked,
                     orphans, interrupted, compactions>>
  BY DEF ConstructVersionGraph, sysdb, failed, Quiet
<1>2. CASE job' = [job EXCEPT ![j] = IdleJob]
  <2>1. Quiet(IdleJob)
    BY DEF Quiet, IdleJob
  <2>2. job'[j] = IdleJob
    BY <1>2 DEF Shape
  <2> QED BY <1>1, <1>2, <2>1, <2>2, IdleFits, QuietStep
<1>3. CASE job' = [job EXCEPT ![j] = [@ EXCEPT !.pc = "graph", !.version_files = VersionFiles(j)]]
  <2> SUFFICES ASSUME NEW x, x = job[j], NEW h, h = VersionFiles(j),
                      NEW r, r = [x EXCEPT !.pc = "graph", !.version_files = h]
               PROVE  IInv'
    OBVIOUS
  <2>1. JobInv(j) /\ IsJob(job[j]) /\ job[j].id = Root
    BY DEF JobInv, JobFits
  <2>2. /\ job'[j] = r /\ r.pc = "graph" /\ r.version_files = VersionFiles(j) /\ IsJob(r)
        /\ r.id = Root /\ r.cutoff = job[j].cutoff /\ r.grace = job[j].grace
        /\ r.deps = job[j].deps
    <3>1. job'[j] = r
      BY <1>3 DEF Shape
    <3>2. IsJob(x)
      BY <2>1
    <3>3. /\ r.pc = "graph" /\ r.version_files = h /\ IsJob(r)
          /\ r.id = x.id /\ r.cutoff = x.cutoff /\ r.grace = x.grace /\ r.deps = x.deps
      BY <3>2 DEF IsJob
    <3> QED BY <2>1, <3>1, <3>3
  <2>3. job' = [job EXCEPT ![j] = r] /\ Quiet(r)
    BY <1>3, <2>2 DEF Quiet
  <2>4. VF(j)' = VF(j) /\ VF(j) = VersionFiles(j)
    BY <1>1, <2>2 DEF VF
  <2>5. \A d : Doom(j, d)' = Doom(j, d)
    BY <1>1, <2>2, <2>4 DEF Doom, Spare, SpareOf, Chosen
  <2>6. \A d : Exists(d)' <=> Exists(d)
    BY <1>1 DEF Exists
  <2>7. JobFits(j)'
    BY <1>1, <2>1, <2>2, <2>4, <2>6 DEF JobInv, JobFits, IsJob, Sources, Targets
  <2>8. FilesFit(j)'
    BY <1>1, <2>1, <2>2, <2>4, <2>6 DEF JobInv, FilesFit, Reads, Sources, Targets
  <2>9. ChoiceFits(j)'
    BY <2>2 DEF ChoiceFits, Chosen
  <2>10. Seen' = Seen /\ \A d, v : FilesOf(history[d][v])' = FilesOf(history[d][v])
    BY <1>1 DEF Seen, FilesOf, BlocksOf
  <2>11. Present(j)'
    BY <1>1, <2>1, <2>2, <2>5, <2>10 DEF JobInv, Present
  <2>12. Untouched(j)'
    <3> SUFFICES ASSUME NEW c \in Seen, NEW v \in DOMAIN history[c] \ Doom(j, c),
                        NEW f \in FilesOf(history[c][v]), MayGo(j, f)'
                 PROVE  FALSE
      BY <1>1, <2>5, <2>10 DEF Untouched
    <3>1. Refers(j, f)' /\ ~ Protects(j, f)'
      BY <2>2 DEF MayGo
    <3>2. Refers(j, f)
      BY <1>1, <2>4, <3>1 DEF Refers, FilesOf, BlocksOf
    <3>3. \A d \in DOMAIN VF(j) : \A w :
             (d \notin job[j].grace /\ w \in DOMAIN VF(j)[d] \ Doom(j, d)) =>
                 f \notin Listed(VF(j)[d][w])
      BY <1>1, <2>2, <2>4, <2>5, <3>1 DEF Protects, Listed, BlocksOf
    <3>4. ~ Protects(j, f)
      BY <1>1, <3>3 DEF Protects
    <3>5. MayGo(j, f)
      BY <1>1, <3>2, <3>4 DEF MayGo, Reads
    <3>6. c \in Unread(j)
      BY <2>1, <3>5 DEF JobInv, Untouched
    <3>7. c \in Others(job[j].deps, Root) /\ c \in Collections /\ status[c] = "live" /\ Exists(c)
      BY <1>1, <3>6 DEF Unread, Seen, Exists
    <3>8. c \in DOMAIN VF(j) /\ VF(j)[c] = history[c]
      <4>1. DOMAIN job[j].version_files = {Root}
        BY <1>1, <2>1 DEF JobInv, JobFits
      <4> QED BY <1>1, <2>1, <3>7, <4>1, ToRead
    <3>9. c \notin job[j].grace
      BY <1>1, <2>1, <3>7 DEF JobInv, JobFits, Shape
    <3>10. f \in Listed(history[c][v])
      <4>1. FilesOf(history[c][v]) \subseteq files
        BY <1>1, <2>1 DEF JobInv, Present
      <4> QED BY <4>1, ListedIsFiles
    <3> QED BY <3>3, <3>8, <3>9, <3>10
  <2>13. JobInv(j)'
    BY <2>7, <2>8, <2>9, <2>11, <2>12 DEF JobInv
  <2> QED BY <1>1, <2>3, <2>13, QuietStep
<1> QED BY <1>2, <1>3 DEF ConstructVersionGraph

LEMMA ComputeKeeps ==
    ASSUME OneCollector, IInv, NEW j \in Jobs, ComputeVersionsToDelete(j)
    PROVE  IInv'
<1> USE DEF IInv
<1>1. /\ job[j].pc = "graph" /\ Quiet(job[j])
      /\ UNCHANGED <<status, history, lineage, content, files, old, expired, faults, overlooked,
                     orphans, interrupted, compactions>>
  BY DEF ComputeVersionsToDelete, sysdb, failed, Quiet
<1> SUFFICES ASSUME NEW vf, vf = job[j].version_files,
                    NEW soft, soft = {c \in DOMAIN vf : status[c] = "soft" /\ c \in job[j].grace},
                    NEW doomed, doomed = [c \in DOMAIN vf |-> ToDelete(j, c, soft)]
             PROVE  IInv'
  OBVIOUS
<1>2. CASE job' = [job EXCEPT ![j] = IdleJob]
  <2>1. Quiet(IdleJob)
    BY DEF Quiet, IdleJob
  <2>2. job'[j] = IdleJob
    BY <1>2 DEF Shape
  <2> QED BY <1>1, <1>2, <2>1, <2>2, IdleFits, QuietStep
<1>3. ASSUME \E c \in DOMAIN vf : vf[c] # EmptyHistory,
             NEW x, x = job[j],
             NEW r, r = [x EXCEPT !.pc = "list", !.soft = soft, !.cutoff = {}, !.grace = {},
                                  !.doomed = doomed],
             job' = [job EXCEPT ![j] = r]
      PROVE  IInv'
  <2>1. JobInv(j) /\ IsJob(x) /\ x.id = Root
    BY <1>3 DEF JobInv, JobFits
  <2>2. /\ r.pc = "list" /\ r.version_files = x.version_files /\ IsJob(r) /\ r.id = x.id
        /\ r.deps = x.deps /\ r.soft = soft /\ r.doomed = doomed
    BY <1>3, <2>1 DEF IsJob
  <2>3. job'[j] = r /\ Quiet(r)
    BY <1>3, <2>2 DEF Quiet, Shape
  <2>4. VF(j)' = vf /\ VF(j) = vf
    BY <1>1, <1>3, <2>2, <2>3 DEF VF
  <2>5. \A c \in DOMAIN vf : /\ c \in Collections /\ Exists(c)
                             /\ DOMAIN vf[c] \subseteq DOMAIN history[c]
                             /\ c \in expired => DOMAIN vf[c] = DOMAIN history[c]
    BY <1>1, <2>1, <2>4 DEF JobInv, FilesFit, Reads
  <2>6. job[j].cutoff = old /\ job[j].grace = expired
    BY <1>1, <2>1 DEF JobInv, JobFits
  <2>7. /\ DOMAIN doomed = DOMAIN vf
        /\ \A c \in DOMAIN vf : c \in soft => doomed[c] = DOMAIN vf[c]
        /\ \A c \in DOMAIN vf : c \notin soft => doomed[c] = SpareOf(DOMAIN vf[c], c, old)
    BY <2>6 DEF ToDelete, SpareOf
  <2>8. /\ \A c \in DOMAIN vf : Doom(j, c) = SpareOf(DOMAIN vf[c], c, old) /\ Doom(j, c)' = doomed[c]
        /\ \A c : c \notin DOMAIN vf => Doom(j, c) = {} /\ Doom(j, c)' = {}
    <3>1. \A c \in DOMAIN vf : Doom(j, c) = SpareOf(DOMAIN vf[c], c, old)
      BY <1>1, <2>4 DEF Doom, Spare
    <3>2. \A c : c \notin DOMAIN vf => Doom(j, c) = {}
      BY <1>1, <2>4 DEF Doom, Chosen
    <3>3. /\ \A c \in DOMAIN vf : Doom(j, c)' = doomed[c]
          /\ \A c : c \notin DOMAIN vf => Doom(j, c)' = {}
      BY <2>2, <2>3, <2>7 DEF Doom, Chosen
    <3> QED BY <3>1, <3>2, <3>3
  <2>9. /\ \A c : Doom(j, c) \subseteq Doom(j, c)'
        /\ \A c : c \notin soft => Doom(j, c)' = Doom(j, c)
    <3> SUFFICES ASSUME NEW c
                 PROVE  /\ Doom(j, c) \subseteq Doom(j, c)'
                        /\ c \notin soft => Doom(j, c)' = Doom(j, c)
      OBVIOUS
    <3>1. CASE c \in DOMAIN vf
      <4>1. Doom(j, c) \subseteq DOMAIN vf[c]
        BY <2>8, <3>1 DEF SpareOf
      <4>2. Doom(j, c) = SpareOf(DOMAIN vf[c], c, old) /\ Doom(j, c)' = doomed[c]
        BY <2>8, <3>1
      <4>3. CASE c \in soft
        <5>1. doomed[c] = DOMAIN vf[c]
          BY <2>7, <3>1, <4>3
        <5> QED BY <4>1, <4>2, <4>3, <5>1
      <4>4. CASE c \notin soft
        <5>1. doomed[c] = SpareOf(DOMAIN vf[c], c, old)
          BY <2>7, <3>1, <4>4
        <5> QED BY <4>2, <5>1
      <4> QED BY <4>3, <4>4
    <3>2. CASE c \notin DOMAIN vf
      BY <2>8, <3>2
    <3> QED BY <3>1, <3>2
  <2>10. \A d : (Exists(d)' <=> Exists(d)) /\ Current(d)' = Current(d)
    BY <1>1 DEF Exists, Current
  <2>11. JobFits(j)'
    BY <1>1, <1>3, <2>1, <2>2, <2>3 DEF JobInv, JobFits, Sources, Targets
  <2>12. FilesFit(j)'
    BY <1>1, <1>3, <2>1, <2>2, <2>3, <2>4, <2>10 DEF JobInv, FilesFit, Reads, Sources, Targets
  <2>13. ChoiceFits(j)'
    <3>1. /\ \A c \in DOMAIN doomed : doomed[c] \subseteq DOMAIN vf[c]
          /\ soft \subseteq DOMAIN vf
      BY <2>7 DEF SpareOf
    <3>2. ASSUME NEW c \in DOMAIN doomed, status[c] = "live"
          PROVE  /\ \A v \in doomed[c] : v \in Nat /\ v < Current(c)
                 /\ doomed[c] \cap DOMAIN history[c] \subseteq Spare(DOMAIN history[c], c)
      <4>1. c \in Collections /\ DOMAIN history[c] # {} /\ doomed[c] = Doom(j, c)
        BY <2>5, <2>7, <2>8, <3>2 DEF Rows
      <4> QED BY <2>1, <3>2, <4>1, DoomIsSpare
    <3>3. ASSUME NEW c \in soft
          PROVE  /\ c \in DOMAIN doomed /\ status[c] = "soft" /\ c \in expired
                 /\ DOMAIN history[c] \subseteq doomed[c]
      BY <2>5, <2>6, <2>7
    <3>4. ASSUME NEW c \in Collections, Exists(c), DOMAIN history[c] \subseteq Doom(j, c)'
          PROVE  c \in soft
      <4>1. CASE DOMAIN history[c] = {}
        <5>1. c \in expired
          BY <3>4, <4>1 DEF Rows
        <5>2. status[c] = "soft"
          BY <3>4, <5>1 DEF Shape, Exists
        <5>3. c \in DOMAIN vf
          BY <1>1, <2>1, <2>4, <3>4, <5>1 DEF JobInv, JobFits
        <5> QED BY <2>6, <5>1, <5>2, <5>3
      <4>2. CASE DOMAIN history[c] # {}
        <5>1. /\ Current(c) \in DOMAIN history[c] /\ Current(c) \in Nat
              /\ \A v \in DOMAIN history[c] : v \in Nat /\ v <= Current(c)
          BY <4>2, CurrentIs DEF Shape
        <5>2. SUFFICES ASSUME c \notin soft PROVE FALSE
          OBVIOUS
        <5>3. c \in DOMAIN vf /\ Current(c) \in SpareOf(DOMAIN vf[c], c, old)
          BY <2>7, <2>8, <3>4, <5>1, <5>2
        <5>4. PICK w \in DOMAIN vf[c] : w > Current(c)
          BY <5>3, SpareIsNotLast
        <5> QED BY <2>5, <5>1, <5>3, <5>4
      <4> QED BY <4>1, <4>2
    <3>5. ASSUME NEW e \in lineage, e[1] \in soft PROVE e \in r.deps
      BY <1>1, <1>3, <2>1, <2>2, <3>3, <3>5 DEF JobInv, JobFits
    <3>6. \A d : Spare(DOMAIN history[d], d)' = Spare(DOMAIN history[d], d)
      BY <1>1 DEF Spare, SpareOf
    <3>7. /\ \A c \in DOMAIN doomed : c \in Collections /\ Exists(c)'
          /\ \A c \in DOMAIN doomed : status'[c] = "live" =>
                /\ \A v \in doomed[c] : v \in Nat /\ v < Current(c)'
                /\ doomed[c] \cap DOMAIN history'[c] \subseteq Spare(DOMAIN history[c], c)'
      <4>1. DOMAIN doomed = DOMAIN vf
        BY <2>7
      <4>2. \A c \in DOMAIN doomed : c \in Collections /\ Exists(c)'
        BY <2>5, <2>10, <4>1
      <4>3. ASSUME NEW c \in DOMAIN doomed, status'[c] = "live"
            PROVE  /\ \A v \in doomed[c] : v \in Nat /\ v < Current(c)'
                   /\ doomed[c] \cap DOMAIN history'[c] \subseteq Spare(DOMAIN history[c], c)'
        <5>1. /\ \A v \in doomed[c] : v \in Nat /\ v < Current(c)
              /\ doomed[c] \cap DOMAIN history[c] \subseteq Spare(DOMAIN history[c], c)
          BY <1>1, <3>2, <4>3
        <5> QED BY <1>1, <2>10, <3>6, <5>1
      <4> QED BY <4>2, <4>3
    <3>8. /\ \A c \in soft : /\ c \in DOMAIN doomed /\ status'[c] = "soft" /\ c \in expired'
                             /\ DOMAIN history'[c] \subseteq doomed[c]
          /\ \A c \in Collections : Exists(c)' /\ DOMAIN history'[c] \subseteq Doom(j, c)' => c \in soft
          /\ \A e \in lineage' : e[1] \in soft => e \in r.deps
      BY <1>1, <2>10, <3>3, <3>4, <3>5
    <3>9. \E c \in DOMAIN r.version_files : r.version_files[c] # EmptyHistory
      BY <1>3, <2>2
    <3>10. r.version_files = vf
      BY <1>3, <2>2
    <3> QED BY <2>2, <2>3, <2>7, <3>1, <3>7, <3>8, <3>9, <3>10 DEF ChoiceFits
  <2>14. Seen' = Seen /\ \A d, v : FilesOf(history[d][v])' = FilesOf(history[d][v])
    BY <1>1 DEF Seen, FilesOf, BlocksOf
  <2>15. Present(j)'
    BY <1>1, <2>1, <2>2, <2>3, <2>9, <2>14 DEF JobInv, Present
  <2>16. Untouched(j)'
    <3> SUFFICES ASSUME NEW c \in Seen, NEW v \in DOMAIN history[c] \ Doom(j, c),
                        NEW f \in FilesOf(history[c][v]), MayGo(j, f)'
                 PROVE  FALSE
      BY <1>1, <2>9, <2>14 DEF Untouched
    <3>1. Refers(j, f)' /\ ~ Protects(j, f)'
      BY <2>2, <2>3 DEF MayGo
    <3>2. Refers(j, f)
      BY <1>1, <2>4, <3>1 DEF Refers, FilesOf, BlocksOf
    <3>3. \A d \in DOMAIN vf : \A w \in DOMAIN vf[d] \ Doom(j, d)' : f \notin Listed(vf[d][w])
      BY <1>1, <2>2, <2>3, <2>4, <3>1 DEF Protects, Listed, BlocksOf
    <3>4. \A d \in DOMAIN vf : d \notin job[j].grace => d \notin soft
      OBVIOUS
    <3>5. ~ Protects(j, f)
      BY <1>1, <2>4, <2>9, <3>3, <3>4 DEF Protects
    <3>6. MayGo(j, f) /\ Unread(j) = {}
      BY <1>1, <3>2, <3>5 DEF MayGo, Reads, Unread
    <3> QED BY <2>1, <3>6 DEF JobInv, Untouched
  <2>17. JobInv(j)'
    BY <2>11, <2>12, <2>13, <2>15, <2>16 DEF JobInv
  <2> QED BY <1>1, <1>3, <2>3, <2>17, QuietStep
<1>4. \/ job' = [job EXCEPT ![j] = IdleJob]
      \/ /\ \E c \in DOMAIN vf : vf[c] # EmptyHistory
         /\ job' = [job EXCEPT ![j] = [@ EXCEPT !.pc = "list", !.soft = soft, !.cutoff = {},
                                                !.grace = {}, !.doomed = doomed]]
  BY DEF ComputeVersionsToDelete
<1> QED BY <1>2, <1>3, <1>4

LEMMA StartKeeps ==
    ASSUME OneCollector, IInv, NEW j \in Jobs, Exists(Root), old \subseteq old',
           expired \subseteq expired', expired' \subseteq expired \cup SoftDeleted, Start(j, Root)
    PROVE  IInv'
<1> USE DEF IInv
<1> SUFFICES ASSUME NEW r, r = [IdleJob EXCEPT !.pc = "listed", !.id = Root, !.cutoff = old',
                                  !.grace = expired', !.deps = lineage,
                                  !.version_files = [d \in {Root} |-> history[d]]]
             PROVE  IInv'
  OBVIOUS
<1>1. /\ job[j].pc = "idle" /\ job' = [job EXCEPT ![j] = r]
      /\ UNCHANGED <<status, history, lineage, content, files, faults, overlooked, orphans,
                     interrupted, compactions>>
  BY DEF Start, sysdb, failed
<1>2. /\ r.pc = "listed" /\ r.id = Root /\ r.cutoff = old' /\ r.grace = expired'
      /\ r.deps = lineage /\ r.version_files = [d \in {Root} |-> history[d]] /\ IsJob(r)
  BY DEF IdleJob, IsJob
<1>3. job'[j] = r /\ DOMAIN job' = Jobs
  BY <1>1 DEF Shape
<1>4. Made' = Made /\ MadeFiles' = MadeFiles /\ \A d, v : FilesOf(history[d][v])' = FilesOf(history[d][v])
  BY <1>1, SameFiles DEF FilesOf, BlocksOf
<1>5. Seen' = Seen /\ \A d : (Exists(d)' <=> Exists(d)) /\ Current(d)' = Current(d)
  BY <1>1 DEF Seen, Exists, Current
<1>6. \A c \in expired' : c \in Collections /\ status[c] \in {"soft", "gone"}
  BY DEF SoftDeleted, Shape
<1>7. Shape'
  <2>1. expired' \subseteq {c \in Collections : status'[c] \in {"soft", "gone"}}
    BY <1>1, <1>6
  <2> QED BY <1>1, <1>3, <1>4, <2>1 DEF Shape
<1>8. Rows'
  BY <1>1, <1>4, <1>5 DEF Rows, Sources
<1>9. Tree'
  BY <1>1, <1>5 DEF Tree, Targets, Ancestor
<1>10. Accounted' /\ Found' /\ Stranding'
  BY <1>1, <1>2, <1>3, QuietKeeps DEF Quiet
<1>11. ASSUME NEW c \in Seen, NEW v \in DOMAIN history[c],
              v \notin SpareOf(DOMAIN history[c], c, old')
       PROVE  FilesOf(history[c][v]) \subseteq files
  <2>1. c \in Collections \ overlooked /\ status[c] = "live"
    BY DEF Seen
  <2>2. v \notin Spare(DOMAIN history[c], c)
    <3>1. DOMAIN history[c] \subseteq Versions
      BY <2>1 DEF Shape
    <3>2. SpareOf(DOMAIN history[c], c, old) \subseteq SpareOf(DOMAIN history[c], c, old')
      BY <3>1, SpareGrows
    <3> QED BY <1>11, <3>2 DEF Spare
  <2>3. v \in Readable(c)
    BY <2>1, <2>2, ReadableIs
  <2> QED BY <2>1, <2>3 DEF FilesKept, HasFiles
<1>12. FilesKept'
  <2> SUFFICES ASSUME NEW c \in Collections \ overlooked, status[c] = "live", NEW v \in Readable(c)'
               PROVE  FilesOf(history[c][v]) \subseteq files
    BY <1>1, <1>4 DEF FilesKept, HasFiles
  <2>1. Readable(c)' = DOMAIN history[c] \ SpareOf(DOMAIN history[c], c, old')
    <3>1. DOMAIN history[c] \in SUBSET Versions
      BY DEF Shape
    <3> QED BY <1>1, <3>1, NotSpare DEF Readable
  <2> QED BY <1>11, <2>1 DEF Seen
<1>13. /\ DOMAIN VF(j)' = {Root} \cup {o \in Others(lineage, Root) : Exists(o)}
       /\ \A c \in DOMAIN VF(j)' : VF(j)'[c] = history[c]
  <2>1. VF(j)' = VersionFiles(j)'
    BY <1>2, <1>3 DEF VF
  <2>2. Others(job[j].deps, job[j].id)' = Others(lineage, Root)
    BY <1>2, <1>3 DEF Others, Sources, Targets
  <2>3. {o \in Others(lineage, Root) : Exists(o)'} = {o \in Others(lineage, Root) : Exists(o)}
    BY <1>5
  <2> QED BY <1>1, <1>2, <1>3, <2>1, <2>2, <2>3 DEF VersionFiles
<1>14. \A c \in Collections : Exists(c) => c \in DOMAIN VF(j)'
  BY <1>13 DEF Tree, Others
<1>15. \A c \in Sources(lineage) \cup Targets(lineage) : c \in Collections /\ status[c] # "absent"
  <2>1. \A c \in Sources(lineage) \cup Targets(lineage) : c \in Collections
    BY DEF Shape, Edges, Sources, Targets
  <2>2. \A c \in Targets(lineage) : status[c] # "absent"
    BY DEF Tree, Exists
  <2> QED BY <2>1, <2>2 DEF Rows
<1>16. JobFits(j)'
  <2>1. lineage \subseteq Edges
    BY DEF Shape
  <2>2. \A c \in Sources(job[j].deps)' \cup Targets(job[j].deps)' : c \in Collections /\ status'[c] # "absent"
    BY <1>1, <1>2, <1>3, <1>15 DEF Sources, Targets
  <2>3. DOMAIN r.version_files = {Root}
    BY <1>2
  <2> QED BY <1>1, <1>2, <1>3, <1>5, <1>14, <2>1, <2>2, <2>3 DEF JobFits
<1>17. FilesFit(j)'
  <2>1. \A c \in DOMAIN VF(j)' : /\ c \in Collections /\ Exists(c)
                                 /\ c = Root \/ c \in Sources(lineage) \cup Targets(lineage)
    BY <1>13, <1>15, ConstantFacts DEF Others
  <2> QED BY <1>1, <1>2, <1>3, <1>5, <1>13, <2>1 DEF FilesFit, Sources, Targets
<1>18. ChoiceFits(j)'
  BY <1>2, <1>3 DEF ChoiceFits, Chosen
<1>19. \A c \in Seen : /\ c \in Collections /\ c \in DOMAIN VF(j)'
                       /\ Doom(j, c)' = SpareOf(DOMAIN history[c], c, old')
  <2>1. \A c \in Seen : c \in Collections /\ c \in DOMAIN VF(j)'
    BY <1>14 DEF Seen, Exists
  <2> QED BY <1>2, <1>3, <1>13, <2>1 DEF Doom, Spare, SpareOf
<1>20. Present(j)'
  BY <1>1, <1>4, <1>5, <1>11, <1>19 DEF Present
<1>21. Untouched(j)'
  <2> SUFFICES ASSUME NEW c \in Seen \ Unread(j)', NEW v \in DOMAIN history[c] \ Doom(j, c)',
                      NEW f \in FilesOf(history[c][v])
               PROVE  Protects(j, f)'
    BY <1>1, <1>2, <1>3, <1>4, <1>5 DEF Untouched, MayGo, Reads
  <2>1. c = Root
    BY <1>2, <1>3, <1>13, <1>19 DEF Unread, Others, Sources, Targets
  <2>2. c \notin expired'
    BY <1>6 DEF Seen
  <2>3. FilesOf(history[c][v]) \subseteq files
    BY <1>11, <1>19
  <2>4. f \in Listed(history[c][v])'
    BY <1>1, <2>3, ListedIsFiles DEF Listed, FilesOf, BlocksOf
  <2>5. f \in Listed(VF(j)[c][v])'
    BY <1>1, <1>13, <1>19, <2>4 DEF Listed, BlocksOf
  <2> QED BY <1>1, <1>2, <1>3, <1>13, <1>19, <2>1, <2>2, <2>5 DEF Protects
<1>22. JobInv(j)'
  BY <1>16, <1>17, <1>18, <1>20, <1>21 DEF JobInv
<1> QED BY <1>7, <1>8, <1>9, <1>10, <1>12, <1>22 DEF OneCollector

(* The row of the root is kept in the last phase if it is to be deleted:   *)
(* the graph is connected to it.                                           *)
LEMMA SoftInGraph ==
    ASSUME IInv, NEW j \in Jobs, job[j].pc = "list"
    PROVE  InGraph(j) = job[j].soft
<1> USE DEF IInv
<1> DEFINE vf == job[j].version_files
           deps == job[j].deps
<1>1. JobInv(j) /\ Chosen(j) /\ Reads(j) /\ VF(j) = vf
  BY DEF Chosen, Reads, VF
<1>2. /\ job[j].soft \subseteq DOMAIN vf /\ \E c \in DOMAIN vf : vf[c] # EmptyHistory
      /\ \A e \in lineage : e[1] \in job[j].soft => e \in deps
      /\ deps \subseteq lineage
  BY <1>1 DEF JobInv, ChoiceFits, JobFits
<1>3. \A c \in DOMAIN vf : c = Root \/ c \in Sources(deps) \cup Targets(deps)
  BY <1>1 DEF JobInv, FilesFit
<1> SUFFICES ASSUME NEW c \in job[j].soft
             PROVE  vf[c] # EmptyHistory \/ c \in Sources(deps) \cup Targets(deps)
  BY <1>2 DEF InGraph, GraphCollections
<1> SUFFICES ASSUME c = Root, vf[Root] = EmptyHistory
             PROVE  Root \in Sources(deps)
  BY <1>2, <1>3
<1>4. PICK d \in DOMAIN vf : vf[d] # EmptyHistory
  BY <1>2
<1>5. d \in Sources(deps) \cup Targets(deps)
  BY <1>3, <1>4
<1>6. PICK e \in lineage : TRUE
  BY <1>2, <1>5 DEF Sources, Targets
<1>7. e[3] \in Targets(lineage) /\ e[3] \in Collections
  BY DEF Targets, Shape, Edges
<1>8. e[3] # Root /\ Ancestor(lineage, Root, e[3])
  BY <1>7 DEF Tree
<1>9. PICK x \in lineage : x[1] \notin Collections \ {Root}
  <2> DEFINE S == Collections \ {Root}
  <2>1. S \in SUBSET Collections /\ e[3] \in S /\ Root \notin S
    BY <1>7, <1>8
  <2> HIDE DEF S
  <2>2. ~ \A x \in lineage : x[3] \in S => x[1] \in S
    BY <1>8, <2>1 DEF Ancestor
  <2> QED BY <2>2 DEF S
<1>10. x[1] = Root
  BY <1>9 DEF Shape, Edges
<1>11. x \in deps
  BY <1>2, <1>10
<1> QED BY <1>10, <1>11 DEF Sources

LEMMA UnusedIs ==
    ASSUME NEW j, NEW vf, vf = job[j].version_files, NEW doomed, doomed = job[j].doomed, NEW f
    PROVE  f \in Unused(j) <=>
              /\ \E c \in DOMAIN vf : \E v \in doomed[c] : f \in Listed(vf[c][v])
              /\ ~ \E c \in DOMAIN vf : \E v \in DOMAIN vf[c] \ doomed[c] : f \in Listed(vf[c][v])
<1> DEFINE at(c, S) == UNION {Listed(vf[c][v]) : v \in S}
<1>1. Unused(j) = (UNION {at(c, doomed[c]) : c \in DOMAIN vf})
                    \ (UNION {at(c, DOMAIN vf[c] \ doomed[c]) : c \in DOMAIN vf})
  BY DEF Unused
<1>2. \A c, S : f \in at(c, S) <=> \E v \in S : f \in Listed(vf[c][v])
  OBVIOUS
<1> HIDE DEF at
<1>3. f \in Unused(j) <=> /\ \E c \in DOMAIN vf : f \in at(c, doomed[c])
                          /\ ~ \E c \in DOMAIN vf : f \in at(c, DOMAIN vf[c] \ doomed[c])
  BY <1>1
<1> QED BY <1>2, <1>3, Zenon

(* A file that is not deleted, although its version is or its sparse index *)
(* is, is one of a version that is kept.                                   *)
LEMMA ListedAccounted ==
    ASSUME OneCollector, IInv, NEW j \in Jobs, job[j].pc = "list",
           NEW f \in files \ orphans, f \notin Unused(j)
    PROVE  \E c \in Collections : \E v \in DOMAIN history[c] \ Doom(j, c) :
              f \in FilesOf(history[c][v]) /\ Index(history[c][v]) \in files \ Unused(j)
<1> USE DEF IInv
<1> DEFINE vf == job[j].version_files
           doomed == job[j].doomed
           Kept(k) == \E c \in DOMAIN vf : \E v \in DOMAIN vf[c] \ doomed[c] : k \in Listed(vf[c][v])
           Dead(k) == \E c \in DOMAIN vf : \E v \in doomed[c] : k \in Listed(vf[c][v])
<1>1. JobInv(j) /\ Chosen(j) /\ Reads(j) /\ VF(j) = vf
  BY DEF Chosen, Reads, VF
<1>2. /\ DOMAIN doomed = DOMAIN vf
      /\ \A c \in DOMAIN vf : doomed[c] \subseteq DOMAIN vf[c]
  BY <1>1 DEF JobInv, ChoiceFits
<1>3. /\ \A c \in DOMAIN vf : c \in Collections /\ DOMAIN vf[c] \subseteq DOMAIN history[c]
      /\ \A c \in DOMAIN vf : \A v \in DOMAIN vf[c] : vf[c][v] = history[c][v]
  BY <1>1 DEF JobInv, FilesFit
<1>4. /\ \A c \in DOMAIN vf : Doom(j, c) = doomed[c]
      /\ \A c : c \notin DOMAIN vf => Doom(j, c) = {}
  BY <1>1, <1>2 DEF Doom
<1>5. \A k : k \in Unused(j) <=> Dead(k) /\ ~ Kept(k)
  BY UnusedIs
<1> HIDE DEF vf, doomed
<1>6. ASSUME Kept(f)
      PROVE  \E c \in Collections : \E v \in DOMAIN history[c] \ Doom(j, c) :
                f \in FilesOf(history[c][v]) /\ Index(history[c][v]) \in files \ Unused(j)
  <2>1. PICK c \in DOMAIN vf : \E v \in DOMAIN vf[c] \ doomed[c] : f \in Listed(vf[c][v])
    BY <1>6
  <2>2. PICK v \in DOMAIN vf[c] \ doomed[c] : f \in Listed(vf[c][v])
    BY <2>1
  <2>3. c \in Collections /\ v \in DOMAIN history[c] \ Doom(j, c) /\ vf[c][v] = history[c][v]
    BY <1>3, <1>4
  <2>4. vf[c][v] # NoFiles /\ f \in FilesOf(vf[c][v]) /\ Index(vf[c][v]) \in Listed(vf[c][v])
    BY <2>2, ListedIsFiles
  <2>5. Index(vf[c][v]) \in files
    BY <2>2, <2>4 DEF Listed
  <2>6. Index(vf[c][v]) \notin Unused(j)
    BY <1>5, <2>4
  <2> QED BY <2>3, <2>4, <2>5, <2>6
<1>7. PICK c \in Collections : \E v \in DOMAIN history[c] :
         f \in FilesOf(history[c][v]) /\ Index(history[c][v]) \in files
  BY DEF Found
<1>8. PICK v \in DOMAIN history[c] : f \in FilesOf(history[c][v]) /\ Index(history[c][v]) \in files
  BY <1>7
<1>9. history[c][v] # NoFiles /\ Listed(history[c][v]) = FilesOf(history[c][v])
  BY <1>8, ListedIsFiles DEF Listed, FilesOf
<1>10. CASE v \in Doom(j, c)
  <2>1. c \in DOMAIN vf /\ v \in doomed[c] /\ vf[c][v] = history[c][v]
    BY <1>2, <1>3, <1>4, <1>10
  <2>2. Dead(f)
    BY <1>8, <1>9, <2>1
  <2> QED BY <1>5, <1>6, <2>2
<1>11. CASE v \notin Doom(j, c) /\ Index(history[c][v]) \in Unused(j)
  <2>1. PICK d \in DOMAIN vf : \E w \in doomed[d] : Index(history[c][v]) \in Listed(vf[d][w])
    BY <1>5, <1>11
  <2>2. PICK w \in doomed[d] : Index(history[c][v]) \in Listed(vf[d][w])
    BY <2>1
  <2>3. vf[d][w] = history[c][v]
    BY <2>2, ListedIsFiles, IndexIsOwn
  <2>4. Dead(f)
    BY <1>8, <1>9, <2>3
  <2> QED BY <1>5, <1>6, <2>4
<1>12. CASE v \notin Doom(j, c) /\ Index(history[c][v]) \notin Unused(j)
  BY <1>8, <1>12
<1> QED BY <1>10, <1>11, <1>12

LEMMA ListFilesKeeps ==
    ASSUME OneCollector, IInv, NEW j \in Jobs, ListFilesAtVersions(j)
    PROVE  IInv'
<1> USE DEF IInv
<1>1. /\ job[j].pc = "list" /\ Quiet(job[j])
      /\ UNCHANGED <<status, history, lineage, content, files, old, expired, faults, overlooked,
                     orphans, interrupted, compactions>>
  BY DEF ListFilesAtVersions, sysdb, failed, Quiet
<1>2. CASE job' = [job EXCEPT ![j] = IdleJob]
  <2>1. Quiet(IdleJob)
    BY DEF Quiet, IdleJob
  <2>2. job'[j] = IdleJob
    BY <1>2 DEF Shape
  <2> QED BY <1>1, <1>2, <2>1, <2>2, IdleFits, QuietStep
<1>3. ASSUME NEW x, x = job[j], NEW unused, unused = Unused(j), NEW soft, soft = InGraph(j),
             NEW r, r = [x EXCEPT !.pc = "delete", !.unused = unused, !.version_files = << >>,
                                  !.soft = soft],
             job' = [job EXCEPT ![j] = r]
      PROVE  IInv'
  <2>1. JobInv(j) /\ IsJob(x) /\ x.id = Root /\ Chosen(j) /\ Reads(j) /\ VF(j) = x.version_files
    BY <1>1, <1>3 DEF JobInv, JobFits, Chosen, Reads, VF
  <2>2. /\ r.pc = "delete" /\ IsJob(r) /\ r.id = x.id
        /\ r.deps = x.deps /\ r.soft = soft /\ r.doomed = x.doomed /\ r.unused = unused
    BY <1>3, <2>1 DEF IsJob
  <2>3. job'[j] = r /\ DOMAIN job' = Jobs
    BY <1>3 DEF Shape
  <2>4. soft = x.soft
    BY <1>1, <1>3, SoftInGraph
  <2>5. \A c : Doom(j, c)' = Doom(j, c)
    BY <1>1, <1>3, <2>2, <2>3 DEF Doom, Chosen
  <2>6. Shape' /\ Rows' /\ Tree' /\ FilesKept'
    <3>1. faults' \in Nat
      BY <1>1 DEF Shape
    <3> QED BY <1>1, <2>3, <3>1, OnlyJobs
  <2>7. \A d : (Exists(d)' <=> Exists(d)) /\ Current(d)' = Current(d)
    BY <1>1 DEF Exists, Current
  <2>8. /\ Made' = Made /\ MadeFiles' = MadeFiles /\ Seen' = Seen
        /\ \A d, v : FilesOf(history[d][v])' = FilesOf(history[d][v])
    BY <1>1, SameFiles DEF Seen, FilesOf, BlocksOf
  <2>9. ASSUME NEW f \in unused PROVE Refers(j, f) /\ ~ Protects(j, f) /\ f \in MadeFiles
    <3>1. /\ DOMAIN x.doomed = DOMAIN x.version_files
          /\ \A c \in DOMAIN x.version_files : x.doomed[c] \subseteq DOMAIN x.version_files[c]
      BY <1>1, <1>3, <2>1 DEF JobInv, ChoiceFits
    <3>2. \A c \in DOMAIN x.version_files : Doom(j, c) = x.doomed[c]
      BY <1>1, <1>3, <2>1, <3>1 DEF Doom
    <3>3. /\ \E c \in DOMAIN x.version_files : \E v \in x.doomed[c] : f \in Listed(x.version_files[c][v])
          /\ ~ \E c \in DOMAIN x.version_files : \E v \in DOMAIN x.version_files[c] \ x.doomed[c] :
                  f \in Listed(x.version_files[c][v])
      BY <1>3, UnusedIs
    <3>4. Refers(j, f)
      BY <2>1, <3>1, <3>3, ListedIsFiles DEF Refers
    <3>5. ~ Protects(j, f)
      BY <2>1, <3>2, <3>3 DEF Protects
    <3>6. \A c \in DOMAIN VF(j) : \A v \in DOMAIN VF(j)[c] : VF(j)[c][v] \in Made \cup {NoFiles}
      BY <2>1 DEF JobInv, FilesFit, Shape
    <3>7. f \in MadeFiles
      BY <3>4, <3>6, FilesAreMade DEF Refers
    <3> QED BY <3>4, <3>5, <3>7
  <2>10. JobFits(j)'
    BY <1>1, <1>3, <2>1, <2>2, <2>3 DEF JobInv, JobFits, Sources, Targets
  <2>11. FilesFit(j)' /\ Unread(j)' = {} /\ Unread(j) = {}
    BY <1>1, <2>2, <2>3 DEF FilesFit, Reads, Unread
  <2>12. ChoiceFits(j)'
    <3>1. \A d : Spare(DOMAIN history[d], d)' = Spare(DOMAIN history[d], d)
      BY <1>1 DEF Spare, SpareOf
    <3>2. /\ \A c \in DOMAIN r.doomed : c \in Collections /\ Exists(c)'
          /\ \A c \in DOMAIN r.doomed : status'[c] = "live" =>
                /\ \A v \in r.doomed[c] : v \in Nat /\ v < Current(c)'
                /\ r.doomed[c] \cap DOMAIN history'[c] \subseteq Spare(DOMAIN history[c], c)'
      BY <1>1, <1>3, <2>1, <2>2, <2>7, <3>1 DEF JobInv, ChoiceFits
    <3>3. /\ \A c \in r.soft : /\ c \in DOMAIN r.doomed /\ status'[c] = "soft" /\ c \in expired'
                               /\ DOMAIN history'[c] \subseteq r.doomed[c]
          /\ \A c \in Collections : Exists(c)' /\ DOMAIN history'[c] \subseteq Doom(j, c)' => c \in r.soft
          /\ \A e \in lineage' : e[1] \in r.soft => e \in r.deps
      BY <1>1, <1>3, <2>1, <2>2, <2>4, <2>5, <2>7 DEF JobInv, ChoiceFits
    <3>4. r.unused \subseteq MadeFiles'
      BY <2>2, <2>8, <2>9
    <3> QED BY <2>2, <2>3, <3>2, <3>3, <3>4 DEF ChoiceFits
  <2>13. Present(j)'
    BY <1>1, <2>1, <2>5, <2>8 DEF JobInv, Present
  <2>14. Untouched(j)'
    <3>1. \A f : MayGo(j, f)' => MayGo(j, f)
      BY <2>1, <2>2, <2>3, <2>9 DEF MayGo, Reads
    <3> QED BY <1>1, <2>1, <2>5, <2>8, <2>11, <3>1 DEF JobInv, Untouched
  <2>15. JobInv(j)'
    BY <2>10, <2>11, <2>12, <2>13, <2>14 DEF JobInv
  <2>16. Accounted'
    <3>1. Gone' = unused /\ \A c : Dying(c)' = Doom(j, c)
      BY <2>2, <2>3, <2>5 DEF Gone, Dying, OneCollector
    <3>2. \A f \in files \ (unused \cup orphans) :
             \E c \in Collections : \E v \in DOMAIN history[c] \ Doom(j, c) :
                f \in FilesOf(history[c][v]) /\ Index(history[c][v]) \in files \ unused
      BY <1>1, <1>3, ListedAccounted
    <3> QED BY <1>1, <2>8, <3>1, <3>2 DEF Accounted
  <2>17. Stranding'
    <3>1. \A d : HasHeir(d)' <=> HasHeir(d)
      BY <1>1, <2>7 DEF HasHeir, Descendants, Ancestor
    <3>2. \A k \in Jobs : k = j
      BY DEF OneCollector
    <3> QED BY <1>1, <2>2, <2>3, <2>7, <3>1, <3>2 DEF Stranding
  <2>18. Found'
    BY <1>1, FoundStays
  <2> QED BY <2>6, <2>15, <2>16, <2>17, <2>18 DEF OneCollector
<1>4. \/ job' = [job EXCEPT ![j] = IdleJob]
      \/ job' = [job EXCEPT ![j] = [@ EXCEPT !.pc = "delete", !.unused = Unused(j),
                                             !.version_files = << >>, !.soft = InGraph(j)]]
  BY DEF ListFilesAtVersions
<1> QED BY <1>2, <1>3, <1>4

LEMMA DeleteFilesKeeps ==
    ASSUME OneCollector, IInv, NEW j \in Jobs, NEW left, DeleteUnusedFiles(j, left)
    PROVE  IInv'
<1> USE DEF IInv
<1> SUFFICES ASSUME NEW x, x = job[j],
                    NEW todo, todo = {c \in DOMAIN x.doomed : x.doomed[c] # {}},
                    NEW r, r = [x EXCEPT !.pc = "versions", !.pending = todo, !.unused = {}]
             PROVE  IInv'
  OBVIOUS
<1>1. /\ job[j].pc = "delete" /\ files' = files \ (x.unused \ left)
      /\ faults' = IF left = {} THEN faults ELSE faults + 1
      /\ orphans' = orphans \cup left
      /\ UNCHANGED <<status, history, lineage, content, old, expired, overlooked, interrupted,
                     compactions>>
  BY DEF DeleteUnusedFiles, sysdb
<1>2. \/ todo = {} /\ job' = [job EXCEPT ![j] = IdleJob]
      \/ job' = [job EXCEPT ![j] = r]
  BY DEF DeleteUnusedFiles
<1>3. JobInv(j) /\ IsJob(x) /\ x.id = Root /\ Chosen(j) /\ Unread(j) = {}
  BY <1>1 DEF JobInv, JobFits, Chosen, Unread
<1>4. /\ r.pc = "versions" /\ IsJob(r) /\ r.id = x.id /\ r.unused = {} /\ r.pending = todo
      /\ r.deps = x.deps /\ r.soft = x.soft /\ r.doomed = x.doomed
  BY <1>3 DEF IsJob
<1>5. DOMAIN job' = Jobs /\ ((todo = {} /\ job'[j] = IdleJob) \/ job'[j] = r)
  BY <1>2 DEF Shape
<1>6. \A k \in Jobs : k = j
  BY DEF OneCollector
<1>7. \A d : (Exists(d)' <=> Exists(d)) /\ Current(d)' = Current(d)
  BY <1>1 DEF Exists, Current
<1>8. /\ Made' = Made /\ MadeFiles' = MadeFiles /\ Seen' = Seen
      /\ \A d, v : FilesOf(history[d][v])' = FilesOf(history[d][v])
  BY <1>1, SameFiles DEF Seen, FilesOf, BlocksOf
<1>9. faults' \in Nat
  BY <1>1 DEF Shape
<1>10. Shape'
  BY <1>1, <1>5, <1>8, <1>9 DEF Shape
<1>11. Rows'
  BY <1>1, <1>7, <1>8 DEF Rows, Sources
<1>12. Tree'
  BY <1>1, <1>7 DEF Tree, Targets, Ancestor
<1>13. ASSUME NEW c \in Seen, NEW v \in DOMAIN history[c] \ Doom(j, c)
       PROVE  FilesOf(history[c][v]) \subseteq files'
  <2>1. FilesOf(history[c][v]) \subseteq files
    BY <1>1, <1>3 DEF JobInv, Present
  <2>2. \A f \in FilesOf(history[c][v]) : ~ MayGo(j, f)
    BY <1>3 DEF JobInv, Untouched
  <2>3. \A f \in FilesOf(history[c][v]) : f \notin x.unused
    BY <1>1, <2>2 DEF MayGo
  <2> QED BY <1>1, <2>1, <2>3
<1>14. FilesKept'
  <2> SUFFICES ASSUME NEW c \in Collections \ overlooked, status[c] = "live", NEW v \in Readable(c)
               PROVE  FilesOf(history[c][v]) \subseteq files'
    <3>1. \A c : Readable(c)' = Readable(c)
      BY <1>1 DEF Readable
    <3> QED BY <1>1, <1>8, <3>1 DEF FilesKept, HasFiles
  <2>1. DOMAIN history[c] # {} /\ c \in Seen
    BY DEF Rows, Seen
  <2>2. v \in DOMAIN history[c] \ Spare(DOMAIN history[c], c)
    BY ReadableIs
  <2>3. Doom(j, c) \cap DOMAIN history[c] \subseteq Spare(DOMAIN history[c], c)
    BY <1>3, <2>1, DoomIsSpare
  <2> QED BY <1>13, <2>1, <2>2, <2>3
<1>15. Accounted' /\ Found'
  <2>1. Gone = x.unused /\ Gone' = {}
    <3>1. job'[j].pc # "delete"
      <4>1. IdleJob.pc = "idle"
        BY DEF IdleJob
      <4> QED BY <1>4, <1>5, <4>1
    <3> QED BY <1>1, <1>6, <3>1 DEF Gone
  <2>2. \A c : Dying(c)' \subseteq Dying(c)
    <3>1. \A c : Dying(c) = Doom(j, c)
      BY <1>1, <1>6 DEF Dying
    <3>2. ASSUME job'[j] = r PROVE \A c : Dying(c)' = Doom(j, c)
      <4>1. \A c : Doom(j, c)' = Doom(j, c)
        BY <1>1, <1>3, <1>4, <3>2 DEF Doom, Chosen
      <4>2. job'[j].pc = "versions"
        BY <1>4, <3>2
      <4>3. \A c : Dying(c)' = Doom(j, c)'
        BY <1>6, <4>2 DEF Dying
      <4> QED BY <4>1, <4>3
    <3>3. job'[j] = IdleJob => \A c : Dying(c)' = {}
      BY <1>6 DEF Dying, IdleJob
    <3> QED BY <1>5, <3>1, <3>2, <3>3
  <2>3. /\ files' \ (Gone' \cup orphans') \subseteq files \ (Gone \cup orphans)
        /\ files \ Gone \subseteq files' \ Gone'
    BY <1>1, <2>1
  <2>4. Accounted'
    <3> SUFFICES ASSUME NEW f \in files' \ (Gone' \cup orphans')
                 PROVE  \E c \in Collections : \E v \in DOMAIN history[c] \ Dying(c)' :
                           f \in FilesOf(history[c][v]) /\ Index(history[c][v]) \in files' \ Gone'
      BY <1>1, <1>8 DEF Accounted
    <3>1. PICK c \in Collections : \E v \in DOMAIN history[c] \ Dying(c) :
             f \in FilesOf(history[c][v]) /\ Index(history[c][v]) \in files \ Gone
      BY <2>3 DEF Accounted
    <3> QED BY <2>2, <2>3, <3>1
  <2> QED BY <2>1, <2>4, AccountedIsFound
<1>16. Stranding'
  <2>1. \A d : HasHeir(d)' <=> HasHeir(d)
    BY <1>1, <1>7 DEF HasHeir, Descendants, Ancestor
  <2> QED BY <1>1, <1>6, <1>7, <2>1 DEF Stranding
<1>17. JobInv(j)'
  <2>1. CASE job'[j] = IdleJob
    BY <2>1, IdleFits
  <2>2. CASE job'[j] = r
    <3>1. \A c : Doom(j, c)' = Doom(j, c)
      BY <1>1, <1>3, <1>4, <2>2 DEF Doom, Chosen
    <3>2. JobFits(j)'
      BY <1>1, <1>3, <1>4, <2>2 DEF JobInv, JobFits, Sources, Targets
    <3>3. FilesFit(j)' /\ Unread(j)' = {}
      BY <1>4, <2>2 DEF FilesFit, Reads, Unread
    <3>4. ChoiceFits(j)'
      <4>1. \A d : Spare(DOMAIN history[d], d)' = Spare(DOMAIN history[d], d)
        BY <1>1 DEF Spare, SpareOf
      <4>2. /\ \A c \in DOMAIN r.doomed : c \in Collections /\ Exists(c)'
            /\ \A c \in DOMAIN r.doomed : status'[c] = "live" =>
                  /\ \A v \in r.doomed[c] : v \in Nat /\ v < Current(c)'
                  /\ r.doomed[c] \cap DOMAIN history'[c] \subseteq Spare(DOMAIN history[c], c)'
        BY <1>1, <1>3, <1>4, <1>7, <4>1 DEF JobInv, ChoiceFits
      <4>3. /\ \A c \in r.soft : /\ c \in DOMAIN r.doomed /\ status'[c] = "soft" /\ c \in expired'
                                 /\ DOMAIN history'[c] \subseteq r.doomed[c]
            /\ \A c \in Collections : Exists(c)' /\ DOMAIN history'[c] \subseteq Doom(j, c)' => c \in r.soft
            /\ \A e \in lineage' : e[1] \in r.soft => e \in r.deps
        BY <1>1, <1>3, <1>4, <1>7, <3>1 DEF JobInv, ChoiceFits
      <4>4. /\ r.pending \subseteq DOMAIN r.doomed
            /\ \A c \in DOMAIN r.doomed \ r.pending : r.doomed[c] \cap DOMAIN history'[c] = {}
        BY <1>4
      <4> QED BY <1>4, <2>2, <4>2, <4>3, <4>4 DEF ChoiceFits
    <3>5. Present(j)'
      BY <1>1, <1>8, <1>13, <3>1 DEF Present
    <3>6. Untouched(j)'
      BY <1>4, <2>2 DEF Untouched, MayGo, Reads
    <3> QED BY <3>2, <3>3, <3>4, <3>5, <3>6 DEF JobInv
  <2> QED BY <1>5, <2>1, <2>2
<1> QED BY <1>6, <1>10, <1>11, <1>12, <1>14, <1>15, <1>16, <1>17

LEMMA HardDeleteKeeps ==
    ASSUME OneCollector, IInv, NEW j \in Jobs, NEW c \in Collections, hardDeleteCollection(j, c)
    PROVE  IInv'
<1> USE DEF IInv
<1> SUFFICES ASSUME NEW x, x = job[j], NEW todo, todo = x.pending \ {c},
                    NEW r, r = [x EXCEPT !.pending = todo]
             PROVE  IInv'
  OBVIOUS
<1>1. /\ job[j].pc = "hard" /\ c \in x.pending
      /\ \A d \in x.deps : d[1] = c => d[3] \notin x.pending
      /\ UNCHANGED <<history, content, files, old, expired, faults, overlooked, orphans,
                     interrupted, compactions>>
  BY DEF hardDeleteCollection, ChildrenFirst, failed
<1>2. JobInv(j) /\ IsJob(x) /\ x.id = Root
  BY DEF JobInv, JobFits
<1>3. /\ x.pending \subseteq x.soft
      /\ \A d \in x.pending : d \in Collections /\ status[d] = "soft" /\ DOMAIN history[d] = {}
      /\ \A e \in x.deps : e[1] \in x.pending => e[3] \in x.pending \/ status[e[3]] = "gone"
      /\ \A e \in lineage : e[1] \in x.pending => e \in x.deps
  BY <1>1, <1>2 DEF JobInv, ChoiceFits
<1>4. c \notin Sources(lineage)
  <2> SUFFICES ASSUME NEW e \in lineage, e[1] = c PROVE FALSE
    BY DEF Sources
  <2>1. status[e[3]] = "gone"
    BY <1>1, <1>3
  <2>2. Exists(e[3])
    BY DEF Tree, Targets
  <2> QED BY <2>1, <2>2 DEF Exists
<1>5. /\ status' = [status EXCEPT ![c] = "gone"]
      /\ lineage' = {d \in lineage : d[3] # c}
      /\ job' = [job EXCEPT ![j] = IF todo = {} THEN IdleJob ELSE r]
  <2>1. status[c] = "soft"
    BY <1>1, <1>3
  <2> QED BY <1>4, <2>1 DEF hardDeleteCollection
<1>6. /\ DOMAIN job' = Jobs
      /\ (todo = {} /\ job'[j] = IdleJob) \/ (todo # {} /\ job'[j] = r)
  BY <1>5 DEF Shape
<1>7. /\ r.pc = x.pc /\ IsJob(r) /\ r.id = x.id /\ r.pending = todo
      /\ r.deps = x.deps /\ r.soft = x.soft
  BY <1>2 DEF IsJob
<1>8. \A k \in Jobs : k = j
  BY DEF OneCollector
<1>9. /\ status' \in [Collections -> {"absent", "live", "soft", "gone"}] /\ status'[c] = "gone"
      /\ \A d \in Collections : d # c => status'[d] = status[d] /\ (Exists(d)' <=> Exists(d))
      /\ ~ Exists(c)' /\ \A d : Current(d)' = Current(d)
  <2>1. /\ status' \in [Collections -> {"absent", "live", "soft", "gone"}] /\ status'[c] = "gone"
        /\ \A d \in Collections : d # c => status'[d] = status[d]
    BY <1>5 DEF Shape
  <2> QED BY <1>1, <2>1 DEF Exists, Current
<1>10. /\ Made' = Made /\ MadeFiles' = MadeFiles
       /\ \A d, v : FilesOf(history[d][v])' = FilesOf(history[d][v])
  BY <1>1, SameFiles DEF FilesOf, BlocksOf
<1>11. Shape'
  <2>1. expired \subseteq {d \in Collections : status'[d] \in {"soft", "gone"}}
    BY <1>9 DEF Shape
  <2> QED BY <1>1, <1>5, <1>6, <1>9, <1>10, <2>1 DEF Shape
<1>12. Rows'
  <2>1. Sources(lineage)' \subseteq Sources(lineage)
    BY <1>5 DEF Sources
  <2>2. \A d \in Collections : \/ d # c /\ status'[d] = status[d] /\ (Exists(d)' <=> Exists(d))
                               \/ d = c /\ status'[d] = "gone" /\ ~ Exists(d)'
    BY <1>9
  <2> QED BY <1>1, <1>9, <1>10, <2>1, <2>2 DEF Rows
<1>13. Tree'
  <2>1. Targets(lineage)' = Targets(lineage) \ {c}
    BY <1>5 DEF Targets
  <2>2. \A d \in Targets(lineage) : d \in Collections
    BY DEF Shape, Edges, Targets
  <2>3. status'[Root] # "absent"
    BY <1>9, ConstantFacts DEF Tree
  <2>4. \A d \in Collections : Exists(d)' /\ d # Root => d \in Targets(lineage)'
    BY <1>9, <2>1 DEF Tree
  <2>5. \A d \in Targets(lineage)' : Exists(d)' /\ d # Root
    BY <1>9, <2>1, <2>2 DEF Tree
  <2>6. \A d \in Targets(lineage)' : Ancestor(lineage', Root, d)
    BY <1>4, <1>5, <2>1, AncestorWithout DEF Tree
  <2>7. \A d \in Targets(lineage)' : Ancestor(lineage, Root, d)'
    <3> SUFFICES ASSUME NEW d \in Targets(lineage)' PROVE Ancestor(lineage, Root, d)'
      OBVIOUS
    <3>1. Ancestor(lineage', Root, d)
      BY <2>6
    <3> QED BY <3>1 DEF Ancestor
  <2> QED BY <2>3, <2>4, <2>5, <2>7 DEF Tree
<1>14. FilesKept'
  <2>1. \A d \in Collections : status'[d] = "live" => status[d] = "live"
    BY <1>9
  <2>2. \A d : HasFiles(d)' <=> HasFiles(d)
    BY <1>1 DEF HasFiles, Readable, FilesOf, BlocksOf
  <2> QED BY <1>1, <2>1, <2>2 DEF FilesKept
<1>15. Accounted' /\ Found'
  <2>1. job'[j].pc \in {"idle", "hard"}
    <3>1. IdleJob.pc = "idle"
      BY DEF IdleJob
    <3> QED BY <1>1, <1>6, <1>7, <3>1
  <2>2. Gone = {} /\ Gone' = {} /\ \A d : Dying(d) = {} /\ Dying(d)' = {}
    BY <1>1, <1>8, <2>1 DEF Gone, Dying
  <2>3. Accounted'
    BY <1>1, <1>10, <2>2 DEF Accounted
  <2> QED BY <2>2, <2>3, AccountedIsFound
<1>16. Stranding'
  <2> SUFFICES ASSUME NEW d \in Collections \ interrupted, Exists(d)', DOMAIN history[d] = {}
               PROVE  HasHeir(d)' \/ (job'[j].pc = "hard" /\ d \in job'[j].pending)
    BY <1>1 DEF Stranding
  <2>1. d # c /\ Exists(d)
    BY <1>9
  <2>2. CASE HasHeir(d)
    <3>1. PICK e \in Descendants(d) : Exists(e) /\ DOMAIN history[e] # {}
      BY <2>2 DEF HasHeir
    <3>2. e \in Collections /\ Ancestor(lineage, d, e) /\ e # c
      BY <1>1, <1>3, <3>1 DEF Descendants
    <3>3. Ancestor(lineage', d, e)
      BY <1>4, <1>5, <3>2, AncestorWithout
    <3>4. e \in Descendants(d)'
      BY <3>2, <3>3 DEF Descendants, Ancestor
    <3>5. Exists(e)' /\ DOMAIN history'[e] # {}
      BY <1>1, <1>9, <3>1, <3>2
    <3> QED BY <3>4, <3>5 DEF HasHeir
  <2>3. CASE ~ HasHeir(d)
    <3>1. d \in x.pending
      BY <1>1, <1>8, <2>1, <2>3 DEF Stranding
    <3> QED BY <1>1, <1>6, <1>7, <2>1, <3>1
  <2> QED BY <2>2, <2>3
<1>17. JobInv(j)'
  <2>1. CASE job'[j] = IdleJob
    BY <2>1, IdleFits
  <2>2. CASE job'[j] = r
    <3>1. r.pc = "hard"
      BY <1>1, <1>7
    <3>2. /\ r.deps \subseteq Edges
          /\ \A d \in Sources(r.deps) \cup Targets(r.deps) : d \in Collections /\ status[d] # "absent"
      BY <1>2, <1>7 DEF JobInv, JobFits
    <3>3. \A d \in Sources(r.deps) \cup Targets(r.deps) : d \in Collections /\ status'[d] # "absent"
      BY <1>9, <3>2
    <3>4. JobFits(j)'
      BY <1>2, <1>7, <2>2, <3>1, <3>2, <3>3 DEF JobFits, Sources, Targets
    <3>5. FilesFit(j)' /\ Present(j)' /\ Untouched(j)'
      BY <2>2, <3>1 DEF FilesFit, Reads, Present, Untouched, MayGo
    <3>6. ChoiceFits(j)'
      <4>1. \A d \in todo : d \in Collections /\ status'[d] = "soft" /\ DOMAIN history'[d] = {}
        BY <1>1, <1>3, <1>9
      <4>2. \A e \in r.deps : e[3] \in Collections
        BY <3>2 DEF Edges
      <4>3. \A e \in r.deps : e[1] \in todo => e[3] \in todo \/ status'[e[3]] = "gone"
        BY <1>3, <1>7, <1>9, <4>2
      <4>4. \A e \in lineage' : e[1] \in todo => e \in r.deps
        BY <1>3, <1>5, <1>7
      <4> QED BY <1>3, <1>7, <2>2, <3>1, <4>1, <4>3, <4>4 DEF ChoiceFits, Chosen
    <3> QED BY <3>4, <3>5, <3>6 DEF JobInv
  <2> QED BY <1>6, <2>1, <2>2
<1> QED BY <1>8, <1>11, <1>12, <1>13, <1>14, <1>15, <1>16, <1>17

(* The versions that remain are those the job did not choose.              *)
LEMMA RemovedVersions ==
    ASSUME OneCollector, IInv, NEW j \in Jobs, NEW c \in Collections,
           DeleteVersionEntriesForCollection(j, c)
    PROVE  /\ job[j].pc = "versions" /\ c \in job[j].pending /\ Exists(c)
           /\ c \in DOMAIN job[j].doomed /\ Doom(j, c) = job[j].doomed[c]
           /\ DOMAIN history' = Collections
           /\ DOMAIN history'[c] = DOMAIN history[c] \ job[j].doomed[c]
           /\ \A v \in DOMAIN history'[c] : history'[c][v] = history[c][v]
           /\ \A d \in Collections : d # c => history'[d] = history[d]
           /\ DOMAIN history'[c] = {} => c \in job[j].soft
           /\ job' = [job EXCEPT ![j] = AfterVersions(j, job[j].pending \ {c})]
           /\ UNCHANGED <<status, lineage, content, files, old, expired, faults, overlooked,
                          orphans, interrupted, compactions>>
<1> USE DEF IInv
<1> DEFINE left == DOMAIN history[c] \ job[j].doomed[c]
<1>1. job[j].pc = "versions" /\ c \in job[j].pending
  BY DEF DeleteVersionEntriesForCollection
<1>2. Chosen(j) /\ JobInv(j)
  BY <1>1 DEF Chosen
<1>3. /\ c \in DOMAIN job[j].doomed /\ Exists(c)
      /\ \A d \in Collections : Exists(d) /\ DOMAIN history[d] \subseteq Doom(j, d) => d \in job[j].soft
      /\ \A d \in job[j].soft : status[d] = "soft"
  BY <1>1, <1>2 DEF JobInv, ChoiceFits
<1>4. Doom(j, c) = job[j].doomed[c]
  BY <1>1, <1>2, <1>3 DEF Doom
<1>5. left = {} => c \in job[j].soft /\ status[c] = "soft"
  BY <1>3, <1>4
<1>6. /\ history' = [history EXCEPT ![c] = Restrict(@, left)]
      /\ job' = [job EXCEPT ![j] = AfterVersions(j, job[j].pending \ {c})]
      /\ UNCHANGED <<status, lineage, content, files, old, expired, faults, overlooked,
                     orphans, interrupted, compactions>>
  BY <1>3, <1>5 DEF DeleteVersionEntriesForCollection, failed
<1>7. history'[c] = Restrict(history[c], left) /\ DOMAIN history' = Collections
      /\ \A d \in Collections : d # c => history'[d] = history[d]
  BY <1>6 DEF Shape
<1>8. DOMAIN history'[c] = left /\ \A v \in left : history'[c][v] = history[c][v]
  BY <1>7 DEF Restrict
<1> QED BY <1>1, <1>3, <1>4, <1>5, <1>6, <1>7, <1>8

(* When a job has removed its versions, a soft-deleted collection without  *)
(* versions and without heirs is one whose row it deletes.                 *)
LEMMA NoHeirIsDeleted ==
    ASSUME IInv, NEW j \in Jobs, job[j].pc = "versions",
           UNCHANGED <<status, lineage>>,
           \A d \in Collections : Exists(d) /\ DOMAIN history'[d] = {} => d \in job[j].soft,
           NEW c \in Collections, Exists(c), ~ HasHeir(c)'
    PROVE  c \in ToHardDelete(j)
<1> USE DEF IInv
<1>1. \A d \in Collections : Ancestor(lineage, c, d)' <=> Ancestor(lineage, c, d)
  BY DEF Ancestor
<1>2. \A d \in Collections : Exists(d)' <=> Exists(d)
  BY DEF Exists
<1> DEFINE S == {d \in Collections : Ancestor(lineage, c, d) /\ Exists(d)}
<1>3. S \subseteq job[j].soft
  BY <1>1, <1>2 DEF HasHeir, Descendants
<1>4. c \in S
  BY AncestorSelf
<1>5. \A e \in job[j].deps : e[1] \in S => e[3] \in S
  <2> SUFFICES ASSUME NEW e \in job[j].deps, e[1] \in S PROVE e[3] \in S
    OBVIOUS
  <2>1. e \in lineage
    BY DEF JobInv, JobFits
  <2>2. e[3] \in Collections /\ Exists(e[3])
    BY <2>1 DEF Tree, Targets, Shape, Edges
  <2>3. Ancestor(lineage, c, e[3])
    BY <2>1, AncestorStep
  <2> QED BY <2>2, <2>3
<1> HIDE DEF S
<1> QED BY <1>3, <1>4, <1>5 DEF ToHardDelete

LEMMA DeleteVersionsKeeps ==
    ASSUME OneCollector, IInv, NEW j \in Jobs, NEW c \in Collections,
           DeleteVersionEntriesForCollection(j, c)
    PROVE  IInv'
<1> USE DEF IInv
<1> SUFFICES ASSUME NEW x, x = job[j], NEW todo, todo = x.pending \ {c},
                    NEW hard, hard = ToHardDelete(j),
                    NEW r, r = [x EXCEPT !.pending = todo],
                    NEW s, s = [x EXCEPT !.pc = "hard", !.pending = hard]
             PROVE  IInv'
  OBVIOUS
<1>1. /\ x.pc = "versions" /\ c \in x.pending /\ Exists(c)
      /\ c \in DOMAIN x.doomed /\ Doom(j, c) = x.doomed[c]
      /\ DOMAIN history' = Collections
      /\ DOMAIN history'[c] = DOMAIN history[c] \ x.doomed[c]
      /\ \A v \in DOMAIN history'[c] : history'[c][v] = history[c][v]
      /\ \A d \in Collections : d # c => history'[d] = history[d]
      /\ DOMAIN history'[c] = {} => c \in x.soft
  BY RemovedVersions
<1>2. UNCHANGED <<status, lineage, content, files, old, expired, faults, overlooked, orphans,
                  interrupted, compactions>>
  BY RemovedVersions
<1>3. /\ DOMAIN job' = Jobs
      /\ \/ todo # {} /\ job'[j] = r
         \/ todo = {} /\ hard # {} /\ job'[j] = s
         \/ todo = {} /\ hard = {} /\ job'[j] = IdleJob
  <2>1. job' = [job EXCEPT ![j] = AfterVersions(j, todo)]
    BY RemovedVersions
  <2>2. job'[j] = AfterVersions(j, todo) /\ DOMAIN job' = Jobs
    BY <2>1 DEF Shape
  <2> QED BY <2>2 DEF AfterVersions
<1>4. JobInv(j) /\ IsJob(x) /\ x.id = Root /\ Chosen(j)
  BY <1>1 DEF JobInv, JobFits, Chosen
<1>5. /\ r.pc = "versions" /\ IsJob(r) /\ r.id = x.id /\ r.pending = todo
      /\ r.deps = x.deps /\ r.soft = x.soft /\ r.doomed = x.doomed
  BY <1>1, <1>4 DEF IsJob
<1>6. /\ s.pc = "hard" /\ IsJob(s) /\ s.id = x.id /\ s.pending = hard
      /\ s.deps = x.deps /\ s.soft = x.soft
  BY <1>4 DEF IsJob
<1>7. \A k \in Jobs : k = j
  BY DEF OneCollector
<1>8. /\ \A d : Exists(d)' <=> Exists(d)
      /\ Made' = Made /\ MadeFiles' = MadeFiles /\ Seen' = Seen
      /\ \A k : FilesOf(k)' = FilesOf(k)
  BY <1>2, SameFiles DEF Exists, Seen
<1>9. /\ \A d \in Collections : DOMAIN history'[d] \subseteq DOMAIN history[d]
      /\ \A d \in Collections : \A v \in DOMAIN history'[d] : history'[d][v] = history[d][v]
  BY <1>1
<1>10. \A d \in Collections : \A v \in DOMAIN history'[d] :
          FilesOf(history[d][v])' = FilesOf(history[d][v])
  BY <1>2, <1>9 DEF FilesOf, BlocksOf
<1>11. /\ \A d \in DOMAIN x.doomed : d \in Collections /\ Exists(d)
       /\ \A d \in DOMAIN x.doomed : status[d] = "live" =>
             /\ \A v \in x.doomed[d] : v \in Nat /\ v < Current(d)
             /\ x.doomed[d] \cap DOMAIN history[d] \subseteq Spare(DOMAIN history[d], d)
       /\ \A d \in x.soft : /\ d \in DOMAIN x.doomed /\ status[d] = "soft" /\ d \in expired
                            /\ DOMAIN history[d] \subseteq x.doomed[d]
       /\ \A d \in Collections : Exists(d) /\ DOMAIN history[d] \subseteq Doom(j, d) => d \in x.soft
       /\ \A e \in lineage : e[1] \in x.soft => e \in x.deps
       /\ x.pending \subseteq DOMAIN x.doomed
       /\ \A d \in DOMAIN x.doomed \ x.pending : x.doomed[d] \cap DOMAIN history[d] = {}
  BY <1>1, <1>4 DEF JobInv, ChoiceFits
<1>12. \A d \in Collections : Exists(d) /\ DOMAIN history'[d] = {} => d \in x.soft
  BY <1>1, <1>11
<1>13. \A d \in Collections : status[d] = "live" =>
          Current(d)' = Current(d) /\ DOMAIN history'[d] # {}
  <2> SUFFICES ASSUME NEW d \in Collections, status[d] = "live"
               PROVE  Current(d)' = Current(d) /\ DOMAIN history'[d] # {}
    OBVIOUS
  <2>1. CASE d # c
    BY <1>1, <2>1 DEF Current, Rows
  <2>2. CASE d = c
    <3>1. /\ Current(c) \in DOMAIN history[c] /\ Current(c) \in Nat
          /\ \A v \in DOMAIN history[c] : v \in Nat /\ v <= Current(c)
      BY <2>2, CurrentIs DEF Shape, Rows
    <3>2. \A v \in x.doomed[c] : v \in Nat /\ v < Current(c)
      BY <1>1, <1>11, <2>2
    <3>3. Current(c) \in DOMAIN history'[c]
      BY <1>1, <3>1, <3>2
    <3> DEFINE T == DOMAIN history'[c]
    <3>4. T \in SUBSET Versions /\ T # {} /\ Current(c) \in T /\ \A v \in T : v \in Nat /\ v <= Current(c)
      BY <1>1, <3>1, <3>3 DEF Shape
    <3>5. Max(T) \in T /\ Max(T) \in Nat /\ \A v \in T : v <= Max(T)
      <4> HIDE DEF T
      <4> QED BY <3>4, LastVersion
    <3>6. Max(T) = Current(c)
      <4> HIDE DEF T
      <4> QED BY <3>1, <3>4, <3>5
    <3> QED BY <2>2, <3>3, <3>6 DEF Current
  <2> QED BY <2>1, <2>2
<1>14. Shape'
  <2>1. \A d \in Collections : /\ DOMAIN history'[d] \subseteq Versions
                               /\ \A v \in DOMAIN history'[d] : history'[d][v] \in Made \cup {NoFiles}
    BY <1>9 DEF Shape
  <2> QED BY <1>1, <1>2, <1>3, <1>8, <2>1 DEF Shape
<1>15. Rows'
  <2> SUFFICES ASSUME NEW d \in Collections
               PROVE  /\ status[d] = "live" =>
                           /\ DOMAIN history'[d] # {}
                           /\ \A k \in Made : k[1] = d => k[2] <= Current(d)'
                      /\ status[d] = "absent" =>
                           /\ DOMAIN history'[d] = {}
                           /\ d \notin Sources(lineage)
                           /\ \A k \in Made : k[1] # d
                      /\ Exists(d) /\ DOMAIN history'[d] = {} => d \in expired
    BY <1>2, <1>8 DEF Rows, Sources
  <2>1. status[d] = "absent" => DOMAIN history'[d] = {}
    BY <1>9 DEF Rows
  <2>2. Exists(d) /\ DOMAIN history'[d] = {} => d \in expired
    BY <1>11, <1>12
  <2> QED BY <1>13, <2>1, <2>2 DEF Rows
<1>16. Tree'
  BY <1>2, <1>8 DEF Tree, Targets, Ancestor
<1>17. ASSUME NEW d \in Seen, NEW v \in DOMAIN history'[d], v \notin Doom(j, d)
       PROVE  FilesOf(history[d][v])' \subseteq files'
  <2>1. d \in Collections
    BY DEF Seen
  <2>2. FilesOf(history[d][v]) \subseteq files
    BY <1>1, <1>4, <1>9, <1>17, <2>1 DEF JobInv, Present
  <2> QED BY <1>2, <1>10, <2>1, <2>2
<1>18. FilesKept'
  <2> SUFFICES ASSUME NEW d \in Collections \ overlooked, status[d] = "live", NEW v \in Readable(d)'
               PROVE  FilesOf(history[d][v])' \subseteq files'
    BY <1>2 DEF FilesKept, HasFiles
  <2>1. Readable(d)' = DOMAIN history'[d] \ SpareOf(DOMAIN history'[d], d, old)
    <3>1. DOMAIN history'[d] \in SUBSET Versions
      BY <1>14 DEF Shape
    <3> QED BY <1>2, <3>1, NotSpare DEF Readable
  <2>2. d \in Seen /\ DOMAIN history[d] # {}
    BY DEF Seen, Rows
  <2>3. CASE d = c
    BY <1>1, <1>17, <2>1, <2>2, <2>3
  <2>4. CASE d # c
    <3>1. Doom(j, d) \cap DOMAIN history[d] \subseteq Spare(DOMAIN history[d], d)
      BY <1>4, <2>2, DoomIsSpare
    <3>2. history'[d] = history[d]
      BY <1>1, <2>4
    <3> QED BY <1>17, <2>1, <2>2, <3>1, <3>2 DEF Spare
  <2> QED BY <2>3, <2>4
<1>19. job'[j].pc # "delete" /\ (job'[j].pc \in {"delete", "versions"} => job'[j] = r)
  <2>1. IdleJob.pc = "idle"
    BY DEF IdleJob
  <2> QED BY <1>3, <1>5, <1>6, <2>1
<1>20. job'[j] = r => \A d : Doom(j, d)' = Doom(j, d)
  BY <1>1, <1>4, <1>5 DEF Doom, Chosen
<1>21. Accounted' /\ Found'
  <2>1. Gone = {} /\ Gone' = {}
    BY <1>1, <1>7, <1>19 DEF Gone
  <2>2. \A d : Dying(d) = Doom(j, d)
    BY <1>1, <1>7 DEF Dying
  <2>3. \A d : Dying(d)' \subseteq Doom(j, d)
    BY <1>7, <1>19, <1>20 DEF Dying
  <2> SUFFICES ASSUME NEW f \in files \ orphans
               PROVE  \E d \in Collections : \E v \in DOMAIN history'[d] \ Dying(d)' :
                         f \in FilesOf(history[d][v])' /\ Index(history'[d][v]) \in files
    <3>1. Accounted' => Found'
      BY <2>1, AccountedIsFound
    <3> QED BY <1>2, <2>1, <3>1 DEF Accounted
  <2>4. PICK d \in Collections : \E v \in DOMAIN history[d] \ Doom(j, d) :
           f \in FilesOf(history[d][v]) /\ Index(history[d][v]) \in files
    BY <2>1, <2>2 DEF Accounted
  <2>5. PICK v \in DOMAIN history[d] \ Doom(j, d) :
           f \in FilesOf(history[d][v]) /\ Index(history[d][v]) \in files
    BY <2>4
  <2>6. v \in DOMAIN history'[d]
    BY <1>1
  <2> QED BY <1>9, <1>10, <2>3, <2>5, <2>6
<1>22. Stranding'
  <2> SUFFICES ASSUME NEW d \in Collections, Exists(d), ~ HasHeir(d)'
               PROVE  job'[j].pc = "versions" \/ (job'[j].pc = "hard" /\ d \in job'[j].pending)
    BY <1>8 DEF Stranding
  <2>1. d \in hard
    BY <1>1, <1>2, <1>12, NoHeirIsDeleted
  <2> QED BY <1>3, <1>5, <1>6, <2>1
<1>23. JobInv(j)'
  <2>1. CASE job'[j] = IdleJob
    BY <2>1, IdleFits
  <2>2. CASE job'[j] = r
    <3>1. \A d : Doom(j, d)' = Doom(j, d)
      BY <1>20, <2>2
    <3>2. JobFits(j)'
      BY <1>1, <1>2, <1>4, <1>5, <2>2 DEF JobInv, JobFits, Sources, Targets
    <3>3. FilesFit(j)' /\ Untouched(j)'
      BY <1>5, <2>2 DEF FilesFit, Reads, Untouched, MayGo
    <3>4. Present(j)'
      BY <1>8, <1>17, <3>1 DEF Present
    <3>5. ChoiceFits(j)'
      <4>1. ASSUME NEW d \in DOMAIN x.doomed, status[d] = "live"
            PROVE  /\ \A v \in x.doomed[d] : v \in Nat /\ v < Current(d)'
                   /\ x.doomed[d] \cap DOMAIN history'[d] \subseteq Spare(DOMAIN history[d], d)'
        <5>1. Current(d)' = Current(d) /\ d \in Collections
          BY <1>11, <1>13, <4>1
        <5>2. CASE d = c
          BY <1>1, <1>11, <4>1, <5>1, <5>2
        <5>3. CASE d # c
          <6>1. history'[d] = history[d]
            BY <1>1, <5>1, <5>3
          <6>2. Spare(DOMAIN history[d], d)' = Spare(DOMAIN history[d], d)
            BY <1>2, <6>1 DEF Spare, SpareOf
          <6> QED BY <1>11, <4>1, <5>1, <6>1, <6>2
        <5> QED BY <5>2, <5>3
      <4>2. ASSUME NEW d \in Collections, Exists(d), DOMAIN history'[d] \subseteq Doom(j, d)
            PROVE  d \in x.soft
        <5>1. CASE d = c
          <6>1. DOMAIN history'[c] = {}
            BY <1>1, <4>2, <5>1
          <6> QED BY <1>1, <5>1, <6>1
        <5>2. CASE d # c
          BY <1>1, <1>11, <4>2, <5>2
        <5> QED BY <5>1, <5>2
      <4>3. \A d \in x.soft : /\ d \in DOMAIN x.doomed /\ status[d] = "soft" /\ d \in expired
                              /\ DOMAIN history'[d] \subseteq x.doomed[d]
        BY <1>9, <1>11
      <4>4. /\ todo \subseteq DOMAIN x.doomed
            /\ \A d \in DOMAIN x.doomed \ todo : x.doomed[d] \cap DOMAIN history'[d] = {}
        <5>1. ASSUME NEW d \in DOMAIN x.doomed \ todo PROVE x.doomed[d] \cap DOMAIN history'[d] = {}
          <6>1. CASE d = c
            BY <1>1, <6>1
          <6>2. CASE d # c
            BY <1>1, <1>11, <5>1, <6>2
          <6> QED BY <6>1, <6>2
        <5> QED BY <1>11, <5>1
      <4>5. \A d \in DOMAIN r.doomed : d \in Collections /\ Exists(d)'
        BY <1>5, <1>8, <1>11
      <4>6. \A e \in lineage' : e[1] \in r.soft => e \in r.deps
        BY <1>2, <1>5, <1>11
      <4> QED BY <1>2, <1>5, <1>8, <2>2, <3>1, <4>1, <4>2, <4>3, <4>4, <4>5, <4>6 DEF ChoiceFits
    <3> QED BY <3>2, <3>3, <3>4, <3>5 DEF JobInv
  <2>3. CASE todo = {} /\ job'[j] = s
    <3>1. JobFits(j)'
      BY <1>1, <1>2, <1>4, <1>6, <2>3 DEF JobInv, JobFits, Sources, Targets
    <3>2. FilesFit(j)' /\ Untouched(j)' /\ Present(j)'
      BY <1>6, <2>3 DEF FilesFit, Reads, Untouched, MayGo, Present
    <3>3. ChoiceFits(j)'
      <4>1. hard \subseteq x.soft
        BY DEF ToHardDelete
      <4>2. ASSUME NEW d \in hard
            PROVE  d \in Collections /\ status[d] = "soft" /\ DOMAIN history'[d] = {}
        <5>1. /\ d \in Collections /\ d \in DOMAIN x.doomed /\ status[d] = "soft"
              /\ DOMAIN history[d] \subseteq x.doomed[d]
          BY <1>11, <4>1
        <5>2. CASE d = c
          BY <1>1, <5>1, <5>2
        <5>3. CASE d # c
          BY <1>1, <1>11, <2>3, <5>1, <5>3
        <5> QED BY <5>1, <5>2, <5>3
      <4>3. \A e \in x.deps : e[1] \in hard => e[3] \in hard
        BY DEF ToHardDelete
      <4>4. \A e \in lineage : e[1] \in hard => e \in x.deps
        BY <1>11, <4>1
      <4> QED BY <1>2, <1>6, <2>3, <4>1, <4>2, <4>3, <4>4 DEF ChoiceFits, Chosen
    <3> QED BY <3>1, <3>2, <3>3 DEF JobInv
  <2> QED BY <1>3, <2>1, <2>2, <2>3
<1> QED BY <1>7, <1>14, <1>15, <1>16, <1>18, <1>21, <1>22, <1>23

-----------------------------------------------------------------------------
(* The theorems.                                                           *)

LEMMA InitKeeps ==
    ASSUME OneCollector, Init
    PROVE  IInv
<1> USE DEF Init
<1>1. Made = {}
  BY DEF Made
<1>2. /\ DOMAIN history = Collections /\ history[Root] = FirstVersion(NoFiles)
      /\ \A c \in Collections : c # Root => history[c] = EmptyHistory
  BY ConstantFacts
<1>3. DOMAIN history[Root] = {0} /\ history[Root][0] = NoFiles
  BY <1>2 DEF FirstVersion
<1>4. \A c \in Collections : c # Root => DOMAIN history[c] = {}
  BY <1>2, EmptyHasNone
<1>5. status[Root] = "live" /\ \A c \in Collections : c # Root => status[c] = "absent"
  BY ConstantFacts
<1>6. 0 \in Versions
  BY ConstantFacts DEF Versions
<1>7. Shape
  <2>1. \A c \in Collections : /\ DOMAIN history[c] \subseteq Versions
                               /\ \A v \in DOMAIN history[c] : history[c][v] \in Made \cup {NoFiles}
    BY <1>3, <1>4, <1>6
  <2> QED BY <1>1, <1>2, <2>1 DEF Shape
<1>8. Rows
  BY <1>1, <1>3, <1>4, <1>5 DEF Rows, Exists, Sources
<1>9. Tree
  BY <1>5, ConstantFacts DEF Tree, Exists, Targets
<1>10. ASSUME NEW j \in Jobs PROVE JobInv(j)
  <2>1. job[j] = IdleJob /\ IdleJob.pc = "idle" /\ IdleJob.id = Root /\ IdleJob.deps = {}
    BY DEF IdleJob
  <2>2. JobFits(j)
    BY <2>1 DEF JobFits, IsJob, IdleJob, Sources, Targets
  <2>3. FilesFit(j) /\ ChoiceFits(j) /\ Present(j) /\ Untouched(j)
    BY <2>1 DEF FilesFit, Reads, ChoiceFits, Chosen, Present, Untouched, MayGo
  <2> QED BY <2>2, <2>3 DEF JobInv
<1>11. FilesKept
  <2>1. FilesOf(NoFiles) = {}
    BY ListedIsFiles
  <2> QED BY <1>3, <1>5, <2>1 DEF FilesKept, HasFiles, Readable
<1>12. Accounted /\ Found
  BY DEF Accounted, Found
<1>13. Stranding
  BY <1>3, <1>5 DEF Stranding, Exists
<1> QED BY <1>7, <1>8, <1>9, <1>10, <1>11, <1>12, <1>13 DEF IInv

LEMMA StutterKeeps ==
    ASSUME IInv, UNCHANGED vars
    PROVE  IInv'
<1> USE DEF IInv, vars
<1>1. Shape' /\ Rows' /\ Tree' /\ FilesKept'
  BY OnlyJobs DEF Shape
<1>2. ASSUME NEW j \in Jobs PROVE JobInv(j)'
  <2>1. \A d : (Exists(d)' <=> Exists(d)) /\ Current(d)' = Current(d)
    BY DEF Exists, Current
  <2>2. /\ VF(j)' = VF(j) /\ Unread(j)' = Unread(j)
        /\ \A d : Doom(j, d)' = Doom(j, d)
        /\ \A f : MayGo(j, f)' <=> MayGo(j, f)
    BY <2>1, SameJob
  <2>3. /\ Made' = Made /\ MadeFiles' = MadeFiles /\ Seen' = Seen
        /\ \A d, v : FilesOf(history[d][v])' = FilesOf(history[d][v])
    BY SameFiles DEF Seen, FilesOf, BlocksOf
  <2>4. \A d : Spare(DOMAIN history[d], d)' = Spare(DOMAIN history[d], d)
    BY DEF Spare, SpareOf
  <2>5. JobFits(j)' /\ FilesFit(j)'
    BY <2>1, <2>2 DEF JobInv, JobFits, IsJob, FilesFit, Reads, Sources, Targets
  <2>6. ChoiceFits(j)'
    BY <2>1, <2>2, <2>3, <2>4 DEF JobInv, ChoiceFits, Chosen
  <2>7. Present(j)' /\ Untouched(j)'
    BY <2>2, <2>3 DEF JobInv, Present, Untouched
  <2> QED BY <2>5, <2>6, <2>7 DEF JobInv
<1>3. Accounted' /\ Found'
  <2>1. \A j \in Jobs : \A d : Doom(j, d)' = Doom(j, d)
    BY SameJob DEF Exists
  <2>2. Gone' = Gone /\ \A d : Dying(d)' = Dying(d)
    BY <2>1 DEF Gone, Dying
  <2>3. \A d, v : FilesOf(history[d][v])' = FilesOf(history[d][v])
    BY DEF FilesOf, BlocksOf
  <2>4. Accounted'
    BY <2>2, <2>3 DEF Accounted
  <2> QED BY <2>4, FoundStays
<1>4. Stranding'
  <2>1. \A d : (Exists(d)' <=> Exists(d)) /\ (HasHeir(d)' <=> HasHeir(d))
    BY DEF Exists, HasHeir, Descendants, Ancestor
  <2> QED BY <2>1 DEF Stranding
<1> QED BY <1>1, <1>2, <1>3, <1>4

LEMMA NextKeeps ==
    ASSUME OneCollector, IInv, Next
    PROVE  IInv'
<1>1. ASSUME NEW c \in Collections, NEW kept, FlushCollectionCompaction(c, kept) PROVE IInv'
  BY <1>1, FlushKeeps
<1>2. ASSUME NEW c \in Collections, FlushNothing(c) PROVE IInv'
  BY <1>2, FlushNothingKeeps
<1>3. ASSUME NEW c \in Collections, softDeleteCollection(c) PROVE IInv'
  BY <1>3, SoftDeleteKeeps
<1>4. ASSUME NEW source \in Collections, NEW c \in Collections, ForkCollection(source, c) PROVE IInv'
  BY <1>4, ForkKeeps
<1>5. ASSUME NEW j \in Jobs, ListCollectionsToGc(j) PROVE IInv'
  <2>1. /\ Exists(Root) /\ Start(j, Root) /\ old \subseteq old'
        /\ expired \subseteq expired' /\ expired' \subseteq expired \cup SoftDeleted
    BY <1>5 DEF ListCollectionsToGc
  <2> QED BY <2>1, StartKeeps
<1>6. ASSUME NEW j \in Jobs, NEW c \in Collections, get_collection_to_gc(j, c) PROVE IInv'
  <2>1. c = Root
    BY <1>6 DEF get_collection_to_gc, OneCollector
  <2>2. /\ Exists(Root) /\ Start(j, Root) /\ old \subseteq old'
        /\ expired \subseteq expired' /\ expired' \subseteq expired \cup SoftDeleted
    BY <1>6, <2>1 DEF get_collection_to_gc, Exists
  <2> QED BY <2>2, StartKeeps
<1>7. ASSUME NEW j \in Jobs, ConstructVersionGraph(j) PROVE IInv'
  BY <1>7, ConstructKeeps
<1>8. ASSUME NEW j \in Jobs, ComputeVersionsToDelete(j) PROVE IInv'
  BY <1>8, ComputeKeeps
<1>9. ASSUME NEW j \in Jobs, ListFilesAtVersions(j) PROVE IInv'
  BY <1>9, ListFilesKeeps
<1>10. ASSUME NEW j \in Jobs, NEW left, DeleteUnusedFiles(j, left) PROVE IInv'
  BY <1>10, DeleteFilesKeeps
<1>11. ASSUME NEW j \in Jobs, NEW c \in Collections, DeleteVersionEntriesForCollection(j, c)
       PROVE  IInv'
  BY <1>11, DeleteVersionsKeeps
<1>12. ASSUME NEW j \in Jobs, NEW c \in Collections, hardDeleteCollection(j, c) PROVE IInv'
  BY <1>12, HardDeleteKeeps
<1>13. ASSUME NEW j \in Jobs, JobFails(j) PROVE IInv'
  BY <1>13, JobFailsKeeps
<1>14. ASSUME NEW j \in Jobs, JobStep(j) PROVE IInv'
  BY <1>5, <1>7, <1>8, <1>9, <1>10, <1>11, <1>12, <1>14 DEF JobStep
<1>15. ASSUME NEW j \in Jobs, Partly(j) PROVE IInv'
  BY <1>10, <1>15 DEF Partly
<1> QED BY <1>1, <1>2, <1>3, <1>4, <1>6, <1>13, <1>14, <1>15 DEF Next

(* The inductive invariant: a job of one collector on the root of a tree,  *)
(* with version files read in two steps while collections are compacted,   *)
(* forked and deleted, may delete no file that a kept version uses.        *)
THEOREM Invariant ==
    ASSUME OneCollector
    PROVE  Spec => []IInv
<1>1. Init => IInv
  BY InitKeeps
<1>2. IInv /\ [Next]_vars => IInv'
  BY NextKeeps, StutterKeeps
<1> QED BY <1>1, <1>2, PTL DEF Spec

(* DeleteUnusedFiles never takes a file from a version that a reader, a    *)
(* fork or the next compaction of a live collection may use, whatever runs *)
(* between the phases of the job and wherever it fails; the forks of a     *)
(* collection that was listed but not yet read are left out.               *)
THEOREM FilesAreKept ==
    ASSUME OneCollector
    PROVE  Spec => []FilesKept
<1>1. IInv => FilesKept
  BY DEF IInv
<1> QED BY <1>1, Invariant, PTL

(* Wherever a job is or has failed, every object in storage whose own      *)
(* deletion did not fail belongs to a version that some version file names *)
(* and is found through an index that is there: DeleteUnusedFiles runs     *)
(* before DeleteVersionEntriesForCollection and forgets no file of its     *)
(* versions.                                                               *)
THEOREM NoLeaks ==
    ASSUME OneCollector
    PROVE  Spec => []NothingLeaks
<1>1. IInv => NothingLeaks
  <2> SUFFICES ASSUME IInv, NEW f \in files \ orphans
               PROVE  \E x \in AllVersions :
                         /\ f \in FilesOf(history[x[1]][x[2]])
                         /\ Index(history[x[1]][x[2]]) \in files
    BY DEF NothingLeaks
  <2>1. PICK c \in Collections : \E v \in DOMAIN history[c] :
           f \in FilesOf(history[c][v]) /\ Index(history[c][v]) \in files
    BY DEF IInv, Found
  <2>2. PICK v \in DOMAIN history[c] : f \in FilesOf(history[c][v]) /\ Index(history[c][v]) \in files
    BY <2>1
  <2>3. <<c, v>> \in AllVersions
    BY DEF AllVersions, Written, IInv, Shape
  <2> QED BY <2>2, <2>3
<1> QED BY <1>1, Invariant, PTL

(* Between jobs a soft-deleted collection whose versions are all gone has  *)
(* a descendant with versions, unless the job that took its last version   *)
(* failed half-way: a job that goes on deletes the row when no descendant  *)
(* needs it, whatever jobs before it have left behind.                     *)
THEOREM NoneStranded ==
    ASSUME OneCollector
    PROVE  Spec => []NothingStranded
<1>1. IInv => NothingStranded
  <2> SUFFICES ASSUME IInv, \A j \in Jobs : job[j].pc = "idle",
                      NEW c \in Collections \ interrupted, status[c] = "soft",
                      history[c] = EmptyHistory
               PROVE  \E d \in Descendants(c) : Exists(d) /\ history[d] # EmptyHistory
    BY DEF NothingStranded
  <2>1. DOMAIN history[c] = {} /\ Exists(c)
    BY EmptyHasNone DEF Exists
  <2>2. HasHeir(c)
    BY <2>1 DEF IInv, Stranding
  <2> QED BY <2>2, EmptyHasNone DEF HasHeir
<1> QED BY <1>1, Invariant, PTL

=============================================================================

----------------------------- MODULE VersionGC -----------------------------
(***************************************************************************)
(* The versions of a fork tree of collections and their garbage            *)
(* collector.  Every compaction of a collection adds a version to its      *)
(* version file; a fork starts with the files of its source's current      *)
(* version, and the lineage file of the tree's root records that.  The     *)
(* collector lists the root of a tree, reads the version files of the      *)
(* tree, chooses the versions to delete, counts which files the kept       *)
(* versions still use, deletes the others, removes the versions from the   *)
(* version files and at last deletes the rows of collections that were     *)
(* soft-deleted long ago.  Users and compactors go on all the while.       *)
(*                                                                         *)
(* A version file and a lineage file are immutable objects whose name is   *)
(* swapped in the row of the sysdb, so each is modelled by its content at  *)
(* the time the name was read.  Sources: rust/garbage_collector and        *)
(* go/pkg/sysdb/coordinator/table_catalog.go.                              *)
(***************************************************************************)
EXTENDS Naturals, FiniteSets, FiniteSetsExt, Functions

CONSTANTS
    Collections,          \* the collections of the tree
    Root,                 \* the one that was created, the others are forks
    Jobs,                 \* the collector's jobs on this tree
    min_versions_to_keep, \* GarbageCollectorConfig
    ManualRequests,       \* the collections kickoff_garbage_collection is called for
    EmptyCompactions,     \* whether a compaction may leave a collection without files
    MaxVersion,           \* bound: the last version of a collection
    MaxCompactions,       \* bound: the compactions of all collections
    MaxFaults             \* bound: the failures of the collector

ASSUME VersionGCAssumption ==
    /\ Root \in Collections
    /\ min_versions_to_keep \in Nat
    /\ {MaxVersion, MaxCompactions, MaxFaults} \subseteq Nat
    /\ ManualRequests \subseteq Collections
    /\ EmptyCompactions \in BOOLEAN

VARIABLES
    status,     \* the row of a collection: "absent", "live", "soft" or "gone"
    history,    \* the version file a row names: the versions and their sparse index
    lineage,    \* the lineage file of the root: <<source, its version, target>>
    content,    \* the blocks a sparse index lists
    files,      \* the objects in storage
    old,        \* the versions that are older than version_cutoff_time
    expired,    \* the soft-deleted collections whose grace period is over
    collected,  \* whether oldest_version_ts of the root was set by a collection
    job,        \* the GarbageCollectorOrchestrator of each job
    compactions, \* the compactions so far
    faults,     \* the failures so far
    overlooked, \* the forks a job may not see (see ForkCollection)
    orphans,    \* the objects that DeleteUnusedFiles could not delete
    interrupted \* the collections without versions whose job failed (see JobFails)

vars == <<status, history, lineage, content, files, old, expired, collected,
          job, compactions, faults, overlooked, orphans, interrupted>>
sysdb == <<status, history, lineage, collected>>
failed == <<orphans, interrupted>>

-----------------------------------------------------------------------------
Versions == 0..MaxVersion

(* A sparse index, or a block, is named after the version that wrote it. *)
NoFiles == << >>
Written == Collections \X Versions
Index(i) == <<"index", i>>
Block(b) == <<"block", b>>
BlocksOf(i) == {Block(b) : b \in content[i]}

(* The objects that a version with sparse index i consists of. *)
FilesOf(i) == IF i = NoFiles THEN {} ELSE {Index(i)} \cup BlocksOf(i)

EmptyHistory == << >>
FirstVersion(i) == [v \in {0} |-> i]
AddVersion(h, v, i) == [w \in DOMAIN h \cup {v} |-> IF w = v THEN i ELSE h[w]]
Current(c) == Max(DOMAIN history[c])
Exists(c) == status[c] \in {"live", "soft"}

(* CollectionVersionDependency: the collections a lineage file names. *)
Sources(deps) == {d[1] : d \in deps}
Targets(deps) == {d[3] : d \in deps}
Others(deps, c) == (Sources(deps) \cup Targets(deps)) \ {c}

IdleJob ==
    [pc |-> "idle", id |-> Root, cutoff |-> {}, grace |-> {}, deps |-> {},
     version_files |-> << >>, soft |-> {}, doomed |-> << >>, unused |-> {},
     pending |-> {}]

(* The values the variables take. *)
TypeOK ==
    /\ status \in [Collections -> {"absent", "live", "soft", "gone"}]
    /\ \A c \in Collections :
          /\ DOMAIN history[c] \subseteq Versions
          /\ Range(history[c]) \subseteq Written \cup {NoFiles}
          /\ status[c] = "live" => DOMAIN history[c] # {}
    /\ lineage \subseteq Collections \X Versions \X Collections
    /\ content \in [Written -> SUBSET Written]
    /\ files \subseteq {Index(i) : i \in Written} \cup {Block(b) : b \in Written}
    /\ old \subseteq Written
    /\ expired \subseteq Collections
    /\ collected \in BOOLEAN
    /\ \A j \in Jobs : job[j].pc \in {"idle", "listed", "graph", "list", "delete",
                                      "versions", "hard"}
    /\ compactions \in 0..MaxCompactions /\ faults \in 0..MaxFaults
    /\ overlooked \cup interrupted \subseteq Collections
    /\ orphans \subseteq {Index(i) : i \in Written} \cup {Block(b) : b \in Written}

Init ==
    /\ status = [c \in Collections |-> IF c = Root THEN "live" ELSE "absent"]
    /\ history = [c \in Collections |-> IF c = Root THEN FirstVersion(NoFiles) ELSE EmptyHistory]
    /\ lineage = {}
    /\ content = [i \in Written |-> {}]
    /\ files = {}
    /\ old = {}
    /\ expired = {}
    /\ collected = FALSE
    /\ job = [j \in Jobs |-> IdleJob]
    /\ compactions = 0
    /\ faults = 0
    /\ overlooked = {}
    /\ orphans = {}
    /\ interrupted = {}

-----------------------------------------------------------------------------
(* The users, the compactors and the clock.                                *)

OldBlocks(c) ==
    IF status[c] = "live" /\ history[c][Current(c)] # NoFiles
    THEN content[history[c][Current(c)]] ELSE {}

(* A compaction registers version v + 1 with a sparse index of its own     *)
(* that lists a new block and the blocks of the old one it has kept.       *)
FlushCollectionCompaction(c, kept) ==
    LET v == Current(c)
        new == <<c, v + 1>>
    IN  /\ status[c] = "live"
        /\ v < MaxVersion /\ compactions < MaxCompactions
        /\ kept \subseteq OldBlocks(c)
        /\ compactions' = compactions + 1
        /\ content' = [content EXCEPT ![new] = kept \cup {new}]
        /\ files' = files \cup {Index(new), Block(new)}
        /\ history' = [history EXCEPT ![c] = AddVersion(@, v + 1, new)]
        /\ UNCHANGED <<status, lineage, old, expired, collected, job, faults, overlooked,
                       failed>>

(* A compaction that flushed no segment: the new version repeats the files *)
(* of the one before (modifyVersionFileInPlace with previousSegmentInfo).  *)
FlushNothing(c) ==
    LET v == Current(c) IN
    /\ status[c] = "live"
    /\ v < MaxVersion /\ compactions < MaxCompactions
    /\ history[c][v] # NoFiles \/ EmptyCompactions
    /\ compactions' = compactions + 1
    /\ history' = [history EXCEPT ![c] = AddVersion(@, v + 1, history[c][v])]
    /\ UNCHANGED <<status, lineage, content, files, old, expired, collected, job, faults,
                   overlooked, failed>>

(* A job that has listed the lineage but not yet read the version files    *)
(* does not learn of the fork c of another collection than the one it runs *)
(* on, and may read a version file in which the source has moved on.       *)
NotSeen(source) ==
    \/ source \in overlooked
    \/ \E j \in Jobs : job[j].pc = "listed" /\ source \in Others(job[j].deps, job[j].id)

ForkCollection(source, c) ==
    /\ status[source] = "live"
    /\ status[c] = "absent"
    /\ status' = [status EXCEPT ![c] = "live"]
    /\ history' = [history EXCEPT ![c] = FirstVersion(history[source][Current(source)])]
    /\ lineage' = lineage \cup {<<source, Current(source), c>>}
    /\ overlooked' = IF NotSeen(source) THEN overlooked \cup {c} ELSE overlooked
    /\ UNCHANGED <<content, files, old, expired, collected, job, faults, failed, compactions>>

softDeleteCollection(c) ==
    /\ status[c] = "live"
    /\ status' = [status EXCEPT ![c] = "soft"]
    /\ UNCHANGED <<history, lineage, content, files, old, expired, collected, job, faults,
                   overlooked, failed, compactions>>

-----------------------------------------------------------------------------
(* The collector.                                                          *)

(* Time only matters when a job takes its cutoff times: by then all        *)
(* versions there are may have become older than version_cutoff_time, and  *)
(* the grace period of all soft-deleted collections may have passed.       *)
AllVersions == {x \in Written : x[2] \in DOMAIN history[x[1]]}
SoftDeleted == {c \in Collections : status[c] = "soft"}

Start(j, c) ==
    /\ job[j].pc = "idle"
    /\ job' = [job EXCEPT ![j] =
                  [IdleJob EXCEPT !.pc = "listed", !.id = c, !.cutoff = old',
                                  !.grace = expired',
                                  !.deps = IF c = Root THEN lineage ELSE {},
                                  !.version_files = [d \in {c} |-> history[d]]]]
    /\ UNCHANGED <<sysdb, content, files, faults, overlooked, failed, compactions>>

(* The roots of trees are listed, with the names of their version file and *)
(* lineage file, when the oldest version of the root is old; the timestamp *)
(* is unset before the first collection and is kept when none is left.     *)
ListCollectionsToGc(j) ==
    /\ Exists(Root)
    /\ old' \in {old, old \cup AllVersions}
    /\ expired' \in {expired, expired \cup SoftDeleted}
    /\ \/ ~ collected
       \/ history[Root] = EmptyHistory
       \/ \E v \in DOMAIN history[Root] : <<Root, v>> \in old'
    /\ Start(j, Root)

(* A collection named in a manual request: only the row of a root has a    *)
(* lineage file.                                                           *)
get_collection_to_gc(j, c) ==
    /\ c \in ManualRequests
    /\ status[c] = "live"
    /\ old' \in {old, old \cup AllVersions}
    /\ expired' \in {expired, expired \cup SoftDeleted}
    /\ Start(j, c)

(* The graph has a node for every version in a version file and for the    *)
(* two ends of a dependency, and edges between the successive versions of  *)
(* a collection and along the dependencies.                                *)
GraphCollections(version_files, deps) ==
    {c \in DOMAIN version_files : version_files[c] # EmptyHistory}
        \cup Sources(deps) \cup Targets(deps)

Connected(nodes, deps) ==
    /\ nodes # {}
    /\ \A S \in (SUBSET nodes) \ {{}, nodes} :
          \E d \in deps : (d[1] \in S) # (d[3] \in S)

VersionFiles(j) ==
    LET read == job[j].version_files
        others == {o \in Others(job[j].deps, job[j].id) : Exists(o)}
    IN  [c \in DOMAIN read \cup others |-> IF c \in DOMAIN read THEN read[c] ELSE history[c]]

ConstructVersionGraph(j) ==
    /\ job[j].pc = "listed"
    /\ job' = [job EXCEPT ![j] =
                  IF Connected(GraphCollections(VersionFiles(j), job[j].deps), job[j].deps)
                  THEN [@ EXCEPT !.pc = "graph", !.version_files = VersionFiles(j)]
                  ELSE IdleJob]
    /\ UNCHANGED <<sysdb, content, files, old, expired, faults, overlooked, failed, compactions>>

(* The versions of collection c to delete. *)
ToDelete(j, c, soft) ==
    LET alive == DOMAIN job[j].version_files[c] IN
    IF c \in soft THEN alive
    ELSE {v \in alive : /\ Cardinality({w \in alive : w > v}) >= min_versions_to_keep
                        /\ <<c, v>> \in job[j].cutoff}

(* The soft-deleted collections among those of the graph are looked up,    *)
(* the versions are chosen and marked; the marks only pick the old version *)
(* files to delete (delete_version_files), which are not modelled.         *)
ComputeVersionsToDelete(j) ==
    LET known == DOMAIN job[j].version_files
        soft == {c \in known : status[c] = "soft" /\ c \in job[j].grace}
    IN  /\ job[j].pc = "graph"
        /\ job' = [job EXCEPT ![j] =
                      IF \A c \in known : job[j].version_files[c] = EmptyHistory
                      THEN IdleJob
                      ELSE [@ EXCEPT !.pc = "list", !.soft = soft, !.cutoff = {}, !.grace = {},
                                     !.doomed = [c \in known |-> ToDelete(j, c, soft)]]]
        /\ UNCHANGED <<sysdb, content, files, old, expired, faults, overlooked, failed, compactions>>

(* Mutant: the blocks are not listed. *)
ListedIndexOnly(i) == IF i = NoFiles THEN {} ELSE {Index(i)}

(* ListFilesAtVersionsOperator: an index that is no longer in storage is   *)
(* taken to have no blocks.                                                *)
Listed(i) ==
    IF i = NoFiles THEN {}
    ELSE {Index(i)} \cup (IF Index(i) \in files THEN BlocksOf(i) ELSE {})

(* The check of a version v of c without files: no version before it, on   *)
(* the way from the root, may have files.  The nodes of the way are looked *)
(* up by their version number in the version file of c, whatever           *)
(* collection they belong to.                                              *)
Ancestor(deps, s, c) ==
    \A S \in SUBSET Collections :
       (c \in S /\ \A d \in deps : d[3] \in S => d[1] \in S) => s \in S

OnTheWay(j, c, v) ==
    {w \in 0..(v - 1) : w \in DOMAIN job[j].version_files[c]}
    \cup UNION {{w \in 0..d[2] : \/ w = d[2]
                                 \/ /\ d[1] \in DOMAIN job[j].version_files
                                    /\ w \in DOMAIN job[j].version_files[d[1]]} :
               d \in {e \in job[j].deps : Ancestor(job[j].deps, e[3], c)}}

PathsMissing(j) ==
    \E c \in DOMAIN job[j].version_files :
       LET own == job[j].version_files[c] IN
       \E v \in DOMAIN own :
          /\ own[v] = NoFiles
          /\ \E w \in OnTheWay(j, c, v) \ {0} : w \in DOMAIN own /\ own[w] # NoFiles

(* Mutant: only the collection of the job holds references. *)
UnusedByRoot(j) ==
    LET vf == job[j].version_files
        at(c, S) == UNION {Listed(vf[c][v]) : v \in S}
    IN  (UNION {at(c, job[j].doomed[c]) : c \in DOMAIN vf})
            \ at(job[j].id, DOMAIN vf[job[j].id] \ job[j].doomed[job[j].id])

(* file_ref_counts: the files of no kept version. *)
Unused(j) ==
    LET vf == job[j].version_files
        at(c, S) == UNION {Listed(vf[c][v]) : v \in S}
    IN  (UNION {at(c, job[j].doomed[c]) : c \in DOMAIN vf})
            \ (UNION {at(c, DOMAIN vf[c] \ job[j].doomed[c]) : c \in DOMAIN vf})

(* What the last phase needs of the graph. *)
InGraph(j) ==
    job[j].soft \cap GraphCollections(job[j].version_files, job[j].deps)

ListFilesAtVersions(j) ==
    /\ job[j].pc = "list"
    /\ job' = [job EXCEPT ![j] = IF PathsMissing(j) THEN IdleJob
                                 ELSE [@ EXCEPT !.pc = "delete", !.unused = Unused(j),
                                                !.version_files = << >>,
                                                !.soft = InGraph(j)]]
    /\ UNCHANGED <<sysdb, content, files, old, expired, faults, overlooked, failed, compactions>>

(* The errors of single objects are only logged: the objects in left stay. *)
DeleteUnusedFiles(j, left) ==
    LET todo == {c \in DOMAIN job[j].doomed : job[j].doomed[c] # {}} IN
    /\ job[j].pc = "delete"
    /\ files' = files \ (job[j].unused \ left)
    /\ faults' = IF left = {} THEN faults ELSE faults + 1
    /\ job' = [job EXCEPT ![j] =
                  IF todo = {} THEN IdleJob
                  ELSE [@ EXCEPT !.pc = "versions", !.pending = todo, !.unused = {}]]
    /\ orphans' = orphans \cup left
    /\ UNCHANGED <<sysdb, content, old, expired, overlooked, interrupted, compactions>>

(* The soft-deleted collections of the graph all of whose descendants are  *)
(* soft-deleted too: the ones that can be deleted for good.                *)
ToHardDelete(j) ==
    {c \in job[j].soft :
       \E S \in SUBSET job[j].soft :
          c \in S /\ \A d \in job[j].deps : d[1] \in S => d[3] \in S}

(* The outputs of all tasks are there: the collections to delete for good  *)
(* are computed from the graph.                                            *)
AfterVersions(j, left) ==
    CASE left # {} -> [job[j] EXCEPT !.pending = left]
      [] left = {} /\ ToHardDelete(j) # {} ->
            [job[j] EXCEPT !.pc = "hard", !.pending = ToHardDelete(j)]
      [] OTHER -> IdleJob

DeleteVersionEntriesForCollection(j, c) ==
    LET left == DOMAIN history[c] \ job[j].doomed[c]
        refused == ~ Exists(c) \/ (left = {} /\ status[c] # "soft")
    IN  /\ job[j].pc = "versions"
        /\ c \in job[j].pending
        /\ IF refused
           THEN /\ job' = [job EXCEPT ![j] = IdleJob]
                /\ UNCHANGED <<history, collected>>
           ELSE /\ history' = [history EXCEPT ![c] = Restrict(@, left)]
                /\ collected' = (collected \/ (c = Root /\ left # {}))
                /\ job' = [job EXCEPT ![j] = AfterVersions(j, job[j].pending \ {c})]
        /\ UNCHANGED <<status, lineage, content, files, old, expired, faults, overlooked,
                       failed, compactions>>

(* Mutant: sources are deleted before their children. *)
SourcesFirst(j, c) ==
    /\ job[j].pc = "hard"
    /\ c \in job[j].pending
    /\ \A d \in job[j].deps : d[3] = c => d[1] \notin job[j].pending

(* Children are deleted before their sources; an error ends the job. *)
ChildrenFirst(j, c) ==
    /\ job[j].pc = "hard"
    /\ c \in job[j].pending
    /\ \A d \in job[j].deps : d[1] = c => d[3] \notin job[j].pending

hardDeleteCollection(j, c) ==
    LET todo == job[j].pending \ {c}
        refused == status[c] # "soft" \/ (c # Root /\ c \in Sources(lineage))
    IN  /\ ChildrenFirst(j, c)
        /\ IF refused
           THEN /\ job' = [job EXCEPT ![j] = IdleJob]
                /\ UNCHANGED <<status, lineage>>
           ELSE /\ status' = [status EXCEPT ![c] = "gone"]
                /\ lineage' = {d \in lineage : d[3] # c}
                /\ job' = [job EXCEPT ![j] = IF todo = {} THEN IdleJob
                                             ELSE [@ EXCEPT !.pending = todo]]
        /\ UNCHANGED <<history, collected, content, files, old, expired, faults, overlooked,
                       failed, compactions>>

(* A call fails, or the collector crashes: the job ends where it is.  If   *)
(* it had begun to remove versions, the next job need not come back to the *)
(* collections that have lost theirs.                                      *)
JobFails(j) ==
    /\ job[j].pc # "idle"
    /\ faults < MaxFaults
    /\ interrupted' = IF job[j].pc \in {"versions", "hard"}
                      THEN interrupted \cup {c \in job[j].soft : DOMAIN history[c] = {}}
                      ELSE interrupted
    /\ faults' = faults + 1
    /\ job' = [job EXCEPT ![j] = IdleJob]
    /\ UNCHANGED <<sysdb, content, files, old, expired, overlooked, orphans, compactions>>

Partly(j) ==
    /\ faults < MaxFaults
    /\ \E left \in (SUBSET (job[j].unused \cap files)) \ {{}} : DeleteUnusedFiles(j, left)

JobStep(j) ==
    \/ ListCollectionsToGc(j)
    \/ ConstructVersionGraph(j)
    \/ ComputeVersionsToDelete(j)
    \/ ListFilesAtVersions(j)
    \/ DeleteUnusedFiles(j, {})
    \/ \E c \in Collections :
          \/ DeleteVersionEntriesForCollection(j, c)
          \/ hardDeleteCollection(j, c)

Next ==
    \/ \E c \in Collections :
          \/ \E kept \in {{}, OldBlocks(c)} : FlushCollectionCompaction(c, kept)
          \/ FlushNothing(c)
          \/ softDeleteCollection(c)
          \/ \E source \in Collections : ForkCollection(source, c)
    \/ \E j \in Jobs :
          \/ JobStep(j)
          \/ JobFails(j)
          \/ Partly(j)
          \/ \E c \in Collections : get_collection_to_gc(j, c)

Spec == Init /\ [][Next]_vars

-----------------------------------------------------------------------------
(* The versions of c that someone may still read: the last ones, which     *)
(* min_versions_to_keep protects, and the ones younger than the cutoff.    *)
Readable(c) ==
    {v \in DOMAIN history[c] :
       \/ Cardinality({w \in DOMAIN history[c] : w > v}) < min_versions_to_keep
       \/ <<c, v>> \notin old}

HasFiles(c) == \A v \in Readable(c) : FilesOf(history[c][v]) \subseteq files

(* The files of every version of a live collection that a reader, a fork   *)
(* or the next compaction may use are in storage: the collector counts the *)
(* references of the whole tree, as it was read in several steps.  The     *)
(* forks that a job could not see are left out.                            *)
FilesKept ==
    \A c \in Collections \ overlooked : status[c] = "live" => HasFiles(c)

(* The same of all collections (check_invariants of the repository's       *)
(* property test: a file with references is on disk).                      *)
AllFilesKept ==
    \A c \in Collections : status[c] = "live" => HasFiles(c)

(* Nothing leaks, wherever the jobs fail: every object in storage belongs  *)
(* to a version that a version file names, and the index that lists it is  *)
(* there too, so that this job or a later one finds it.  Only the objects  *)
(* whose own deletion failed are left out.                                 *)
NothingLeaks ==
    \A f \in files \ orphans : \E x \in AllVersions :
        LET i == history[x[1]][x[2]] IN f \in FilesOf(i) /\ Index(i) \in files

Descendants(c) == {d \in Collections : Ancestor(lineage, c, d)}

(* No collection is stranded: between jobs a soft-deleted collection       *)
(* without versions has a descendant with versions left, unless the job    *)
(* that took its versions failed before it could delete the row.  A job    *)
(* that finds nothing to delete in a tree ends before the phase that       *)
(* deletes rows, so such a collection would stay for ever.                 *)
NothingStranded ==
    (\A j \in Jobs : job[j].pc = "idle") =>
        \A c \in Collections \ interrupted :
           (status[c] = "soft" /\ history[c] = EmptyHistory) =>
               \E d \in Descendants(c) : Exists(d) /\ history[d] # EmptyHistory
=============================================================================

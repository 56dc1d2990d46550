-------------------------------- MODULE Disk --------------------------------
(***************************************************************************)
(* The disk database of src/src/disk.zig: a frontier whose buckets and     *)
(* manifests are immutable files named by their content, a catalog that    *)
(* names the current manifest, and an owner that serializes its calls.     *)
(* The schedule and the merges are those of Frontier.tla.  A call of the   *)
(* owner is one action; what a failure or the end of the process leaves of *)
(* a call that did not complete is an action of its own.                   *)
(*                                                                         *)
(* The steps inside a put and a publication are those of Store.tla.  Here  *)
(* a put of per_blob is durable when it returns, a put of pre_publish when *)
(* a publication has synced what is noted as pending, and a publish that   *)
(* fails has replaced the catalog or has not.                              *)
(*                                                                         *)
(* Under format v2 the fresh bucket of a prepare and the empty bucket of a *)
(* first open are put by putBucketV2, which returns at once if the name is *)
(* there and notes nothing.  Merges and manifests always note what they    *)
(* put.  Under per_blob that early return only leaves out the sync of the  *)
(* directory, which the put of the manifest makes up for.                  *)
(***************************************************************************)
EXTENDS FrontierPlan, FiniteSets

CONSTANTS Metadata,
          NoMetadata,   \* the empty metadata of the genesis manifest
          Views,        \* slots for read views: max_read_views
          PerBlob,      \* durability: per_blob, or else pre_publish
          V2,           \* the bucket format: v2, or else v1
          None,         \* no manifest, no token, no view
          Batches,      \* bound: the batches that callers prepare
          MaxDebris,    \* bound: unreachable files the owner lets pile up
          MaxRetained   \* bound: references the application retains

ASSUME FlagsAssumption == PerBlob \in BOOLEAN /\ V2 \in BOOLEAN

ASSUME BoundsAssumption ==
    Batches \subseteq Buckets /\ MaxDebris \in Nat /\ MaxRetained \in Nat

VARIABLES
    files,     \* the names in the blob directory
    unsynced,  \* names that a loss of power may remove or tear
    torn,      \* names whose bytes are not their content
    pending,   \* noted under pre_publish since the last publication
    resumed,   \* history: a first open was resumed over an empty bucket that
               \* was left unsynced, and no barrier has synced it since
    catalog,   \* the manifest the catalog names, or None
    doubt,     \* the manifests a loss of power may leave in the catalog
    running,
    live,      \* the owner's frontier, metadata and reference
    token,     \* the prepared token: its manifest, and the offer it stands for
    poisoned,
    views,     \* per slot, the manifest that is pinned
    retained   \* the references the application passes to every collect

blobs == <<files, unsynced, torn, pending, resumed>>
catalogs == <<catalog, doubt>>

vars == <<blobs, catalogs, running, live, token, poisoned, views, retained>>

NoViews == [v \in Views |-> None]

-----------------------------------------------------------------------------
(* A manifest is a frontier and its metadata. *)
Manifest(list, metadata) ==
    [seq |-> list.seq, curr |-> list.curr, snap |-> list.snap, next |-> list.next,
     meta |-> metadata]

Genesis == Manifest(NewList, NoMetadata)

BucketFile(b) == <<"bucket", b>>

ManifestFile(m) == <<"manifest", m>>

BucketFiles(m) ==
    {BucketFile(m.curr[level]) : level \in Levels}
      \cup {BucketFile(m.snap[level]) : level \in Levels}
      \cup {BucketFile(m.next[level]) : level \in {i \in Levels : m.next[i] # NoMerge}}

(* Plausible defects: what is only an input of pending merges, or their    *)
(* result, is collected.                                                   *)
KeptOmittingSnapshots(m) ==
    {ManifestFile(m)}
      \cup {BucketFile(m.curr[level]) : level \in Levels}
      \cup {BucketFile(m.next[level]) : level \in {i \in Levels : m.next[i] # NoMerge}}

KeptOmittingPending(m) ==
    {ManifestFile(m)}
      \cup {BucketFile(m.curr[level]) : level \in Levels}
      \cup {BucketFile(m.snap[level]) : level \in Levels}

(* retainReference: what a collection keeps for a manifest. *)
Kept(m) == {ManifestFile(m)} \cup BucketFiles(m)

Whole == files \ torn

(* The merges that a restore repeats, to compare the pending results.      *)
PendingInputs(m) ==
    UNION {{BucketFile(MergeBase(m.seq, level, m.curr[level])),
            BucketFile(m.snap[level - 1])} :
           level \in {i \in Levels \ {0} : m.next[i] # NoMerge}}

(* load and validate: the manifest, every bucket it names, the schedule,   *)
(* and every pending result computed anew.                                 *)
Readable(m) ==
    /\ {ManifestFile(m)} \cup BucketFiles(m) \cup PendingInputs(m) \subseteq Whole
    /\ Valid(m)

-----------------------------------------------------------------------------
(* A plausible defect: a change is compared with the youngest bucket only. *)
NormalizedByYoungest(m, batch) ==
    [k \in Keys |->
       IF batch[k] # Absent /\ ValueOf(batch[k]) # ValueOf(m.curr[0][k])
       THEN batch[k] ELSE Absent]

(* normalize: the youngest record of an identity decides whether a change  *)
(* is one; a change that is none leaves the batch.                         *)
Normalized(m, batch) ==
    [k \in Keys |->
       IF batch[k] # Absent /\ ValueOf(batch[k]) # Get(m, k) THEN batch[k] ELSE Absent]

JobInputs(m, n, fresh) ==
    UNION {LET job == Job(m, n, fresh, level)
           IN  {BucketFile(job.older), BucketFile(job.newer)} :
           level \in JobLevels(n)}

Merged(m, n, fresh) ==
    [level \in JobLevels(n) |-> Result(Job(m, n, fresh, level))]

(* The manifest that prepare writes when every job has succeeded. *)
Successor(m, fresh, metadata) ==
    LET n == m.seq + 1
    IN  Manifest(Finished(Candidate(m, n), Merged(m, n, fresh)), metadata)

(* The files of a prepare: it puts the fresh bucket first, then the merges *)
(* put their results in any order, and the manifest comes last.            *)
Results(m, fresh) ==
    {BucketFile(Merged(m, m.seq + 1, fresh)[level]) : level \in JobLevels(m.seq + 1)}

Puts(m, fresh, metadata) ==
    Results(m, fresh) \cup {ManifestFile(Successor(m, fresh, metadata))}

(* An existing file must verify: a torn one is CorruptBlob. *)
Put(fresh, new) ==
    /\ (new \cup {BucketFile(fresh)}) \cap torn = {}
    /\ files' = files \cup new \cup {BucketFile(fresh)}
    /\ unsynced' = IF PerBlob THEN unsynced
                   ELSE unsynced \cup ((new \cup {BucketFile(fresh)}) \ files)
    /\ UNCHANGED <<torn, resumed>>

(* A plausible defect: no put notes a name that is there. *)
NotedIfNew(fresh, new) ==
    IF PerBlob THEN {} ELSE (new \cup {BucketFile(fresh)}) \ files

(* notePending; putBucketV2 does not note a name that is there. *)
Noted(fresh, new) ==
    IF PerBlob THEN {}
    ELSE IF V2 /\ BucketFile(fresh) \in files THEN new
    ELSE new \cup {BucketFile(fresh)}

(* A plausible defect: the pending files are not synced. *)
BarrierSkipped ==
    /\ pending' = {}
    /\ UNCHANGED <<files, unsynced, torn, resumed>>

(* The barrier of a publication. *)
Barrier ==
    /\ unsynced' = unsynced \ pending
    /\ pending' = {}
    /\ resumed' = (resumed /\ BucketFile(Empty) \notin pending)
    /\ UNCHANGED <<files, torn>>

(* publish returns: what was pending, and then the catalog, are durable.   *)
Published(m) ==
    /\ Barrier
    /\ catalog' = m
    /\ doubt' = {m}

(* A plausible defect: a replacement that failed is taken for none.        *)
PublishFailedInVain(m) ==
    \/ UNCHANGED <<blobs, catalogs>>
    \/ Barrier /\ catalog' = m /\ UNCHANGED doubt

(* publish fails: before the replacement, or after it and before the root  *)
(* directory is synced.                                                    *)
PublishFailed(m) ==
    \/ UNCHANGED <<blobs, catalogs>>
    \/ Barrier /\ catalog' = m /\ doubt' = doubt \cup {m}

-----------------------------------------------------------------------------
Init ==
    /\ files = {} /\ unsynced = {} /\ torn = {} /\ pending = {}
    /\ resumed = FALSE
    /\ catalog = None
    /\ doubt = {None}
    /\ running = FALSE
    /\ live = None
    /\ token = None
    /\ poisoned = FALSE
    /\ views = NoViews
    /\ retained = {}

(* A plausible defect: the visible catalog is trusted before it is durable.*)
OpenWithoutSync ==
    /\ ~ running
    /\ catalog # None /\ Readable(catalog)
    /\ running' = TRUE
    /\ live' = catalog
    /\ UNCHANGED <<blobs, catalogs, token, poisoned, views, retained>>

(* open: the store syncs its directories, the manifest is loaded and all   *)
(* that it refers to is verified.                                          *)
Open ==
    /\ ~ running
    /\ catalog # None /\ Readable(catalog)
    /\ running' = TRUE
    /\ live' = catalog
    /\ doubt' = {catalog}
    /\ UNCHANGED <<blobs, catalog, token, poisoned, views, retained>>

GenesisFiles == {BucketFile(Empty), ManifestFile(Genesis)}

(* A directory without a catalog is initialized if it holds nothing else;  *)
(* otherwise the open is refused (MissingManifest).                        *)
Initializable == files \subseteq GenesisFiles

(* What the barrier of a first open leaves unsynced: an empty bucket that  *)
(* an interrupted first open put and that putBucketV2 finds there.         *)
UnsyncedGenesis == IF V2 THEN {BucketFile(Empty)} \cap unsynced ELSE {}

Initialized ==
    /\ files' = GenesisFiles
    /\ unsynced' = UnsyncedGenesis
    /\ resumed' = (BucketFile(Empty) \in unsynced')
    /\ catalog' = Genesis

FirstOpen ==
    /\ ~ running
    /\ catalog = None /\ Initializable
    /\ GenesisFiles \cap torn = {}
    /\ Initialized
    /\ doubt' = {Genesis}
    /\ running' = TRUE
    /\ live' = Genesis
    /\ UNCHANGED <<torn, pending, token, poisoned, views, retained>>

(* The first open fails, or the process ends in it, after some of its      *)
(* steps: the empty bucket, the genesis manifest, the catalog.             *)
FirstOpenFails ==
    /\ ~ running
    /\ catalog = None /\ Initializable
    /\ \/ \E done \in {{BucketFile(Empty)}, GenesisFiles} :
            /\ done \cap torn = {}
            /\ files' = files \cup done
            /\ unsynced' = IF PerBlob THEN unsynced ELSE unsynced \cup (done \ files)
            /\ UNCHANGED <<resumed, catalogs>>
       \/ /\ GenesisFiles \cap torn = {}
          /\ Initialized
          /\ doubt' = {None, Genesis}
    /\ UNCHANGED <<torn, pending, running, live, token, poisoned, views, retained>>

-----------------------------------------------------------------------------
Roots == {live} \cup {views[v] : v \in {w \in Views : views[w] # None}} \cup retained

(* A plausible defect: collect ignores what it is told to retain.          *)
ReachableUnretained == UNION {Kept(m) : m \in Roots \ (retained \ {live})}

Reachable == UNION {Kept(m) : m \in Roots}

(* A new preparation is refused while one is open or after a failed commit.*)
Preparing ==
    /\ running /\ ~ poisoned
    /\ token = None
    /\ live.seq # MaxSeq
    /\ Cardinality(files \ Reachable) <= MaxDebris

Prepare(batch, metadata) ==
    LET fresh == Normalized(live, batch)
        new   == Puts(live, fresh, metadata)
    IN  /\ Preparing
        /\ JobInputs(live, live.seq + 1, fresh) \subseteq Whole \cup {BucketFile(fresh)}
        /\ Put(fresh, new)
        /\ pending' = pending \cup Noted(fresh, new)
        /\ token' = [manifest |-> Successor(live, fresh, metadata),
                     offer    |-> [batch |-> batch, metadata |-> metadata]]
        /\ UNCHANGED <<catalogs, running, live, poisoned, views, retained>>

(* A put or a merge fails, or a note for want of memory: some of the files *)
(* are there, and of those some are noted.                                 *)
PrepareFails(batch, metadata) ==
    LET fresh == Normalized(live, batch)
    IN  /\ Preparing
        /\ \E new \in {Puts(live, fresh, metadata)} \cup SUBSET Results(live, fresh) :
             /\ Put(fresh, new)
             /\ \E noted \in SUBSET Noted(fresh, new) : pending' = pending \cup noted
        /\ UNCHANGED <<catalogs, running, live, token, poisoned, views, retained>>

(* deinit of the token. *)
Drop ==
    /\ token # None
    /\ token' = None
    /\ UNCHANGED <<blobs, catalogs, running, live, poisoned, views, retained>>

Commit ==
    /\ token # None /\ ~ poisoned
    /\ Published(token.manifest)
    /\ live' = token.manifest
    /\ token' = None
    /\ UNCHANGED <<running, poisoned, views, retained>>

(* A plausible defect: the owner goes on after a failed publication. *)
CommitFailsUnpoisoned ==
    /\ token # None /\ ~ poisoned
    /\ PublishFailed(token.manifest)
    /\ UNCHANGED <<running, live, token, poisoned, views, retained>>

(* The caller keeps a token that it can only drop. *)
CommitFails ==
    /\ token # None /\ ~ poisoned
    /\ PublishFailed(token.manifest)
    /\ poisoned' = TRUE
    /\ UNCHANGED <<running, live, token, views, retained>>

-----------------------------------------------------------------------------
(* readView and its deinit; a poisoned owner still serves both. *)
OpenView(v) ==
    /\ running
    /\ views[v] = None
    /\ views' = [views EXCEPT ![v] = live]
    /\ UNCHANGED <<blobs, catalogs, running, live, token, poisoned, retained>>

CloseView(v) ==
    /\ views[v] # None
    /\ views' = [views EXCEPT ![v] = None]
    /\ UNCHANGED <<blobs, catalogs, running, live, token, poisoned, retained>>

(* The application notes the current reference, or forgets one; what it    *)
(* notes it keeps over a restart and passes to every collect.              *)
Retain ==
    /\ running
    /\ Cardinality(retained) < MaxRetained
    /\ retained' = retained \cup {live}
    /\ UNCHANGED <<blobs, catalogs, running, live, token, poisoned, views>>

Forget(m) ==
    /\ m \in retained
    /\ retained' = retained \ {m}
    /\ UNCHANGED <<blobs, catalogs, running, live, token, poisoned, views>>

(* Plausible defects: collect forgets the read views, or runs while a      *)
(* token is open.                                                          *)
KeepOnly(kept) ==
    /\ files' = files \cap kept
    /\ unsynced' = unsynced \cap kept
    /\ torn' = torn \cap kept
    /\ UNCHANGED <<pending, resumed, catalogs, running, live, token, poisoned, views, retained>>

CollectIgnoringViews ==
    /\ running /\ ~ poisoned
    /\ token = None
    /\ KeepOnly(UNION {Kept(m) : m \in {live} \cup retained})

CollectWhenPoisoned ==
    /\ running
    /\ token = None
    /\ KeepOnly(Reachable)

(* Every root is loaded and verified before anything is deleted. *)
Collecting ==
    /\ running /\ ~ poisoned
    /\ token = None
    /\ \A m \in Roots : Readable(m)

Collect == Collecting /\ KeepOnly(Reachable)

(* A deletion fails. *)
CollectFails ==
    /\ Collecting
    /\ \E left \in SUBSET (files \ Reachable) : KeepOnly(Reachable \cup left)

-----------------------------------------------------------------------------
Stopped ==
    /\ running' = FALSE
    /\ live' = None
    /\ token' = None
    /\ poisoned' = FALSE
    /\ views' = NoViews
    /\ pending' = {}

(* deinit, without a token or a view; or the process ends. *)
Stop ==
    /\ running
    /\ Stopped
    /\ UNCHANGED <<files, unsynced, torn, resumed, catalogs, retained>>

PowerLoss ==
    /\ Stopped
    /\ \E gone \in SUBSET unsynced :
         /\ files' = files \ gone
         /\ \E damaged \in SUBSET (unsynced \ gone) : torn' = (torn \ gone) \cup damaged
    /\ unsynced' = {}
    /\ catalog' \in doubt
    /\ doubt' = {catalog'}
    /\ UNCHANGED <<resumed, retained>>

Next ==
    \/ Open
    \/ FirstOpen
    \/ FirstOpenFails
    \/ \E batch \in Batches, metadata \in Metadata :
         Prepare(batch, metadata) \/ PrepareFails(batch, metadata)
    \/ Drop
    \/ Commit
    \/ CommitFails
    \/ \E v \in Views : OpenView(v) \/ CloseView(v)
    \/ Retain
    \/ \E m \in retained : Forget(m)
    \/ Collect
    \/ CollectFails
    \/ Stop
    \/ PowerLoss

Spec == Init /\ [][Next]_vars

-----------------------------------------------------------------------------
Manifests ==
    [seq  : 0..MaxSeq,
     curr : [Levels -> Buckets],
     snap : [Levels -> Buckets],
     next : [Levels -> Buckets \cup {NoMerge}],
     meta : Metadata \cup {NoMetadata}]

Offers == [batch : Buckets, metadata : Metadata]

(* None is no manifest, no token, no offer and no state of a database. *)
ASSUME NoneAssumption ==
    /\ None \notin Manifests
    /\ None \notin [manifest : Manifests, offer : Offers]
    /\ None \notin Offers
    /\ None \notin [seq : 0..MaxSeq, map : Buckets, metadata : Metadata \cup {NoMetadata}]

(***************************************************************************)
(* OwnerIsCurrent: the catalog that is read now is one that may be read    *)
(* after a loss of power; an owner that may still commit has that of the   *)
(* catalog, which no loss of power takes back, and an open token is the    *)
(* successor of that very frontier; so no commit builds on, or publishes   *)
(* over, a state that is not the stored one.                               *)
(***************************************************************************)
OwnerIsCurrent ==
    /\ catalog \in doubt
    /\ running /\ ~ poisoned => doubt = {live}
    /\ token # None =>
         token.manifest = Successor(live, Normalized(live, token.offer.batch),
                                    token.offer.metadata)

(***************************************************************************)
(* PinsReadable: collect, failed prepares and losses of power leave every  *)
(* pinned frontier complete: that of the owner, of each read view, of each *)
(* retained reference and of an open token; and no merge of the next       *)
(* advance lacks an input, the empty bucket included.  A store that is not *)
(* open keeps its retained references unless its empty bucket was never    *)
(* synced (resumed), which happens to nobody under v1 or per_blob.         *)
(***************************************************************************)
PinsReadable ==
    /\ ~ resumed => \A m \in retained : Readable(m)
    /\ running => /\ \A m \in Roots : Readable(m)
                  /\ JobInputs(live, live.seq + 1, Empty) \subseteq Whole
    /\ token # None => Readable(token.manifest)

(***************************************************************************)
(* CatalogReopens: whatever manifest a failed commit, a crash or a loss of *)
(* power leaves in the catalog, the next open accepts it, unless the store *)
(* was initialized over an empty bucket that nothing has synced (resumed). *)
(***************************************************************************)
CatalogReopens == ~ resumed => \A m \in doubt : m # None => Readable(m)

(***************************************************************************)
(* InitializationResumes: a first open that was interrupted can be         *)
(* repeated (docs/disk.md: "Initialization may resume when only the known  *)
(* empty bucket and deterministic genesis manifest remain from an          *)
(* interrupted first open"), and a store that was used never loses its     *)
(* catalog.                                                                *)
(***************************************************************************)
InitializationResumes ==
    None \in doubt => Initializable /\ (catalog = None => GenesisFiles \cap torn = {})

(***************************************************************************)
(* A commit is atomic: a batch, normalized or not, and its metadata appear *)
(* together, exactly once, or not at all.                                  *)
(***************************************************************************)
StateOf(m) ==
    IF m = None
    THEN [seq |-> 0, map |-> Empty, metadata |-> NoMetadata]
    ELSE [seq |-> m.seq, map |-> Contents(m), metadata |-> m.meta]

Atomic == INSTANCE AtomicDatabase WITH
            state    <- IF running THEN StateOf(live) ELSE None,
            possible <- {StateOf(m) : m \in doubt},
            offer    <- IF token = None THEN None ELSE token.offer,
            failed   <- poisoned

ImplementsDatabase == Atomic!Spec
=============================================================================

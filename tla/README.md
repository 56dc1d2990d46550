# A verification development for bucketlist-zig

This directory holds TLA+ models of the database library in `src/`, the TLC
configurations that check them on small instances, and proofs checked by TLAPS
that hold for every value of the constants. Source paths are those of the
repository.

## 1. The system

bucketlist-zig is a typed key-value database whose state is committed to
incrementally. Immutable sorted buckets are arranged in a list of levels; one
batch of changes advances the list by one sequence number. Around that core:

| Component | State it keeps | Operations | What makes it correct |
|---|---|---|---|
| Bucket (`bucket.zig`) | immutable records, reference count | merge, lookup, retain, release | newest record wins; a tombstone is dropped only when nothing older exists; a shared bucket is freed exactly once |
| BucketList (`list.zig`) | `seq`; per level `curr`, `snap`, `next` | `advance`, `get`, `clone`, `validate` | reads are those of a map; the shape is a function of `seq`; a restore accepts what an advance built; a failed advance changes nothing |
| Frontier (`frontier.zig`) | the same levels as bucket hashes | `plan`, merge jobs, `finish` | the jobs, run in any order on several threads, give what the in-memory list computes |
| Portable database (`database.zig`) | list, one open batch or prepared token | batch edits, prepare, commit, read views, checkpoint | a batch is applied whole or not at all; views are snapshots; checkpoints round-trip |
| Store (`store.zig`) | blob files, manifest file, pending set, read-index cache | `putBlob`, `putBucketV2`, `mergeBuckets`, `publish`, `collect`, `open`, lookups | a manifest never refers to bytes that may be lost; publication is old-or-new; cached indexes are never stale or freed in use |
| Disk database (`disk.zig`) | frontier, prepared flag, poison flag, read views | `open`, `prepare`, `commit`, `readView`, `collect`, proofs | commit is atomic and durable; an ambiguous failure stops the owner; collection spares what is pinned |
| Host (`host.zig`) | ring of entries, durable cache, flags, one worker | `trySubmit`, `wait`, `pause`, `resumeProcessing`, `deinit`, worker | accepted entries become durable in order and unaltered; no lost wakeup; shutdown drains; a failure is final |
| Checkpoints (`checkpoints.zig`) | a store, a poison flag | `save`, `load`, `current`, `collect` | as for the disk database |
| Proofs (`proofs*.zig`) | none | prove, verify, wire codec | a verified proof shows the visible state |
| Schema, codecs (`schema.zig`, `codec.zig`) | none | compile-time reflection, encodings | canonical encodings |
| SLCP examples (`examples/slcp-*`) | bridge state, journal | hand-off of agreed commands, recovery | no agreed command is skipped or applied twice |
| Reference model (`tools/reference.py`) | a `Model`: sequence, levels, the whole logical map | `advance`, the three hashes, the corpus of 128 advances | it says what the engine must compute, by other means |
| Stellar-core oracle (`tools/check-core-oracle.py`) | none | compares the geometry with the pinned C++ schedule | three formulas agree at every boundary |
| Version-two vectors (`tools/v2-vectors.py`) | none | frames, blocks, tree, bucket hash, chain digest | same digests as `proofs.zig`, ragged trees included |
| Schema toolchain (`tools/capnp_tool.py`) | package, cached generator and stamp, generated outputs | `bootstrap`, `gen`, `check`, `canonical` | a check that passes means the outputs are those of the schemas, whatever raced or died before |
| Guided fuzzing wrapper (`tools/guided-fuzz.py`) | campaign process, recovered inputs, replays | campaign, watchdog, recovery, replay, exit code | clean only if the campaign was; a failure is never lost |
| Disk benchmark and judge (`tools/disk-bench.zig`, `tools/compare-disk-bench.py`) | the rows written | five workloads twice; acceptance of one file, comparison of two | only a complete history is accepted, only equal work is compared |
| Release checks (`tools/check-rejections.py`, `tools/package-preflight.py`, ...) | none | compile or list once, compare | |

How they interact: the portable database owns a list; the disk database owns a
store and a frontier, runs the frontier's jobs with `mergeBuckets` on worker
threads and publishes each new frontier as the store's manifest; the host owns a
disk database and calls it from one thread, with clients on others; the
checkpoint manager owns a store and publishes snapshots of a portable database.
The reference model and the vectors generate the fixtures that the engine's
tests read; the oracle and the differential tests run the engine beside another
implementation after every advance. The other tools are processes of their own,
which share only files.

What is hard to test here: the schedule, whose mistakes reads notice only many
advances later; sharing of buckets between a half-rewritten list and readers;
merge jobs and clients on several threads; the one condition variable of the
host; failures and losses of power between any two file operations; an index
that is evicted while a lookup uses it; tools that race or die between two of
their file operations, and whose answer is trusted all the same.
`PROJECT.json` lists these hazards with their lines.

## 2. The modules

| Module | Models | Builds on / implements |
|---|---|---|
| `Bucket` | records and `merge` of `bucket.zig` | |
| `KeyValueMap` | abstract: batches applied in order to a map | |
| `ListValue` | `list.zig` as a value, without variables: the schedule, `advance`, `get`, `validate` | uses `Bucket` |
| `BucketList` | the list as a state machine: one action per advance | extends `ListValue`, implements `KeyValueMap` |
| `BucketListHistory`, `MCBucketList` | the list with the batches it was given, and the interval of them that each bucket holds; the symmetry set for TLC | extends `BucketList` |
| `ListAdvance` | `List.advance`, `clone`, `deinit` step by step over counted storage, with failing merges and readers | uses `ListValue`, implements `BucketList` |
| `FrontierPlan` | `frontier.zig` as values: `plan`, its jobs, `finish` | extends `ListValue` |
| `Frontier` | the planned advance, and the order-free merge jobs of `runMerges` in `disk.zig` | extends `FrontierPlan`; extends and implements `BucketList` |
| `Reference` | `Model` of `reference.py`, its hashes and its corpus | |
| `Differential` | lists of calls given to the frontier and to the reference side by side; the oracle's schedule; the chain digest | extends `Frontier`, uses `Reference`; implements `BucketList` |
| `AtomicDatabase` | abstract: offer, commit whole or not at all, ambiguous failure | |
| `Database` | batch and prepared handles of `database.zig` | uses `ListValue`; implements `AtomicDatabase` |
| `Disk` | the owner of `disk.zig` over a directory of immutable files | uses `FrontierPlan`; implements `AtomicDatabase` |
| `Store` | durability of `store.zig`, file operation by file operation | |
| `Lookup` | the read index of `store.zig`: its cache, lookups and scans on several threads | |
| `WriteBehindLog` | abstract: a log with a growing durable prefix | |
| `Host` | `host.zig`: clients, ring, worker, shutdown, restart | implements `WriteBehindLog` |
| `BlockTree` | blocks, tree and paths of `proofs.zig`, and the same in `v2-vectors.py` | |
| `Toolchain` | `capnp_tool.py`: concurrent processes that fail, are killed, lose power | |
| `GuidedFuzz` | `guided-fuzz.py` around a campaign that is external | |
| `DiskBench` | `disk-bench.zig` and its judge `compare-disk-bench.py` | |
| `MCMemory`, `MCDisk`, `MCStore`, `MCTools` | several instances for TLC, of which each behaviour chooses one | extend the modules above |
| `ListProofs` | lemmas about lists and plans as values | extends `FrontierPlan` |
| `BucketListProofs` | proofs about `BucketList`, `Frontier`, `Differential` and `BucketListHistory` | extends them and `ListProofs` |
| `ListAdvanceProofs`, `DatabaseProofs`, `DiskProofs` | proofs about the module of that name, `DiskProofs` also about `MCDisk` | extend it and `ListProofs` |
| `StoreProofs` | proofs about `Store` and `Lookup` | extends both |
| `HostProofs` | proofs about `Host` | extends it |
| `ToolsProofs` | proofs about `Toolchain`, `GuidedFuzz` and `BlockTree` | extends the three |

The operators introduced as "a plausible defect" stand beside the definition
they would replace; nothing in a specification uses them. They are the
mutations that `PROJECT.json` lists: for every property of every passing run,
one that makes TLC find that property violated.

### How state and actions correspond to the code

- **Bucket.** A bucket is a function from identities, the code's (table, key)
  pairs, to a value, a tombstone or nothing. Sorting, encoding and hashing are
  abstracted; equal hashes are equal buckets. `Merge` is `Bucket.merge`.
- **ListValue, BucketList.** `seq`, `curr`, `snap`, `next` are the fields of
  `List` and `Level`. `Advanced` is `advanceInPlace`, whose walk from the last level to the
  first is one simultaneous update here; `ListAdvance` has the walk and is
  shown to amount to this. `ShouldSpill`, `MergeWithEmpty` are the functions of
  the same names; `Valid` is `validate`, one conjunct per check. `input` is a
  history variable: the batch of the step, which the refinement compares with
  what became of it.
- **ListAdvance.** A bucket is a handle (`Null` is a bucket without storage);
  `refs` counts each storage as `retain` and `release` do, and storage whose
  count reaches zero is freed. `Begin` clones and builds the batch's bucket;
  `Spill`/`Skip` are one turn of the loop each; `Finish` merges level zero and
  swaps the list in; `SpillFails`/`FinishFails` are the `errdefer`s. `OpenView` and
  `CloseView` are a reader's clone and its release, between any two steps. A clone
  is atomic with respect to the swap: the application must order the two, as
  the code says.
- **FrontierPlan, Frontier.** `Plan` fixes the inputs of every job, `RunJob(level)` completes
  one in any order, `Finish` installs all results at once, `Abandon` is a failed
  job or a dropped plan.
- **Database.** The database's `batch_open` and `batch_token` are variables; each
  token has at most one batch handle (`batches`) and one prepared advance
  (`prepared`), which may be used in any order, late or never. Digests of the
  engine are the engine itself. A refused call (`BatchActive`, `ClosedBatch`,
  `StaleBase`, `WrongAdvance`, `OutOfMemory`) changes nothing and is no step.
- **Store.** For each blob: is its name in the directory (`visible`), would the
  entry survive a loss of power (`linked`), would the bytes (`synced`), are the
  bytes wrong (`torn`). A writer walks through `Stage`, `Link`,
  `SyncDirectory`, `SyncInstalled` (per_blob) or `NotePending` (pre_publish);
  `PutExisting` is the path of `putBlob` for a name that is there,
  `PutExistingV2` that of `putBucketV2`. The publisher walks through the
  barrier (`SyncPending`, `RemovePending`), `SyncBlobs`, `Replace`, `SyncRoot`,
  `Published`. Any call may fail at each step (`PutFails`, `PublishFails`).
  `candidates` are the manifests a loss of power may leave. `poisoned` and
  `Overlap` are the owner: the disk database and the checkpoint manager never
  run puts beside a publication (`Overlap = FALSE`), the store itself lets them.
  `delivered`, `returned`, `confirmed` record what callers were told.
- **Disk.** A manifest is a frontier with its metadata. `files` are the names in
  the blob directory, a bucket's or a manifest's. `Prepare` puts the fresh
  bucket, the merge results and the manifest; `PrepareFails` any legal part of
  them. `Commit` publishes; `CommitFails` replaced the catalog or did not, and
  poisons the owner. `Readable` is what `load` verifies of a manifest, the
  recomputed pending merges included. `Collect` keeps what the owner, the read
  views and the application's retained references reach. `FirstOpen` and
  `FirstOpenFails` are the initialization. Puts and publications are single
  steps here; what happens inside them is `Store`'s subject. What they leave
  unsynced is not: `Put` and `Noted` say which names a put notes as pending and
  `Barrier` what a publication syncs. Under format v2 `putBucketV2` notes only
  new names (`V2`), so a `FirstOpen` that finds the empty bucket of an earlier,
  interrupted one publishes without syncing it (`UnsyncedGenesis`); `resumed`
  remembers that until a publication has synced that bucket.
- **Lookup.** An index is a slot of memory with a reference count; `map`, and
  the pointers `newest`, `oldest`, `newer`, `older` in `list`, are the fields of
  the cache, and what happens under its mutex is one step. A lookup goes from
  `Acquire` (retain and touch) over `OpenAndStat` and `Release` to its answer,
  or over `Verify` to `InstallNothing`, `InstallExisting` or `Install`, which
  evicts at the end of the list. Slots are taken as memory is, so an index that
  was freed too early is found again as another bucket's. `recency` is the order
  of use, kept beside the list that should be it. A file is plain, compressed,
  cut short or absent; `CollectBuckets` leaves the cache as it is, `Reopen` is
  `deinit`, `open` and perhaps `enableCompression`. A compressed file may have any
  size, that of the plain one included (`CompressedSize`). `Walked` is what the loop of
  `deinit` reaches along the pointers: the least set that has the newest slot
  and, with a slot, the one its pointer names.
- **Reference.** A Python dictionary is a function over the keys it has, `None` a
  deletion. `Walk` is the loop of `Model.advance`, folded over the levels by a
  recursive function; `asserted` remembers whether every `assert` held. A hash is
  the tuple of what is hashed.
- **Differential.** A batch is a sequence of put and delete calls; `Staged` is
  what they leave, `Fresh` the part that differs from what is visible.
  `PlanBatch`, `CompleteJob`, `AbandonBatch` are the frontier's actions;
  `FinishBoth` finishes the plan and lets the reference advance with the same
  calls.
- **BlockTree.** A record is its framed size. `AppendRecord` is the block hasher
  with its binary counter of peaks; `BlockPath` and `FoldBlockPath` are the
  extraction and the verification, `VectorBucketHash` is the Python computation of
  the same digest. A loop is a recursive function from the number of turns, and a
  loop that stops early is one whose further turns change nothing. A count of
  leaves has the bits 0 to `MaxSlot`, 0 to 63 in the code.
- **Toolchain.** A process is a call of the tool with a place, what it holds, and
  what it has compared. The content of a file is the version it was made from, or
  torn. A package is renamed into place; the generator and its stamp are two
  files; outputs are compared one by one and replaced one by one over temporary
  files. `Kill` and `PowerLoss` may come at any step; nothing is synced, so a
  loss of power may tear what was written. `dirty` marks calls under which
  schemas or outputs changed.
- **GuidedFuzz.** The wrapper polls, reads the clock, kills the group, keeps the
  inputs, judges, replays and concludes, one action each. The campaign saves
  inputs, whole or not, prints their diagnostics or not, exits with any status
  and any report, or hangs.
- **DiskBench.** The benchmark writes its rows batch by batch and may stop after
  any of them; `Accepts` and `Comparable` are the judge's requirements, over the
  same rows. A measurement is one unit.
- **Host.** A section that holds the mutex is one action. `Take` moves the batch
  out of the head slot and leaves the slot counted; `Commit`/`CommitFails` run
  outside the mutex; `Publish` updates the durable cache and frees the slot;
  `Fail` and `AbandonNext` drain after an error. The condition is modelled as
  the code uses it: `Signal` wakes any one sleeper, worker or client, and a
  broadcast wakes all. `Deinit`/`Join` stop and reopen, `Crash` restarts from
  the disk at any point. `acked` records what a wait reported as durable.

## 3. The runs

| Run | Module, configuration | Distinct states | Question |
|---|---|---|---|
| `list` | `MCBucketList`, `BucketListDepth4` | 316,000 | Does every bucket hold the interval of the history the schedule assigns to it, are reads those of a map, does a restore accept every list? |
| `differential` | `Differential`, `DifferentialDepth3` | 293,000 | Do the in-memory list, the frontier with its jobs in any order, the reference and the oracle's schedule agree after every advance of any calls? |
| `memory` | `MCMemory`, `Memory` | 391,000 | Does the walk with sharing, failures and readers count exactly and implement the list? Is only the advance of the open batch ever committed, whatever handles are left over? |
| `disk` | `MCDisk`, `Disk` | 391,000 | Are commits atomic through failures, crashes and losses of power, and does collection spare what is pinned, under per_blob, and under pre_publish with format v1 and with v2? |
| `store` | `MCStore`, `Store` | 1,940,000 | Does what a put or a publication returned survive any loss of power, in both modes? Are indexes counted exactly, kept in the order of use and never used after they were freed? |
| `host` | `Host`, `HostSmall` | 263,000 | Is the host a log with a durable prefix, and do waits and shutdown end? |
| `tools` | `MCTools`, `Tools` | 1,060,000 | Can an answer of the tools around the library be trusted, whatever raced, died or stopped before it? |
| `v2_reput_not_synced`, `v2_reput_not_durable`, `collected_name_reput`, `torn_first_open`, `guided_ambiguous_target` | | | the five findings of section 6 |

`MCMemory`, `MCDisk`, `MCStore` and `MCTools` ask the same kind of question of instances that
share no state: a variable, fixed at the start, says which instance moves, and
the others stay as they begin. The modes of the store and of the disk are
checked by the same formulas.

**What they show.** The list, the frontier and both databases implement their
abstract specifications, so callers see only batches applied whole, in order.
`BucketsHoldTheirInterval` says more than reads can: a schedule that promotes
early or merges twice keeps giving right reads for a long time. The store's two
modes separate what `per_blob` promises (a returned put is durable) from what
`pre_publish` promises (a published manifest is). The early return of
`putBucketV2` keeps neither promise (section 6), so `ReturnedIsDurable` speaks of
all other returns (`returned`) and the run `store` serializes pre_publish without
it. Under `per_blob` it harms no manifest, because `publish` syncs the directory
itself.

`CommitmentsAgree` compares digests, so it fails where two engines have the same
readers and another shape, and `GeometryAgrees` compares three formulas that
look at the schedule from three sides. `BatchesTakeEffect` is the promise to the
application: what a committed batch did to its readers is what the last call for
each key says, though a call that changes nothing leaves no record.
`CountsAreExact` with `HeldIsItsBucket` says that an evicted index lives exactly
as long as it is used. `PathsBindTheIndex` is the fact an absence proof rests on:
at every leaf count a path that verifies for one position verifies for no other.
`EndedMeansCurrent` is what continuous integration trusts: a `check` that passes,
with nothing edited under it, has compared every output with the current
schemas. `VerdictIsRight` is the exit code of the fuzzing wrapper, in both
directions: clean only if nothing failed, and no failure lost. `JudgementIsRight`
contains an equivalence, so the judge's closed form of the history and the
benchmark's loop are shown to be the same, and nothing that stopped early passes.
`AlwaysReopens` is the disk's promise to the next open, whatever a failed commit,
a crash or a loss of power left; it and `PinsReadable` make one exception, for a
store initialized over an empty bucket that nothing has synced (section 6).

**Bounds, and why they are enough.**

- `list`: Depth 4 has a first, a last and two middle levels, so every case of
  the schedule; level 2 spills every 32 advances, so 72 sequence numbers contain
  two spills of it and a promotion into the last level. Merges work identity by
  identity, so one identity suffices; two writes are what it takes to lose,
  reorder or revive one, and they may fall on any two of the 72 batches. The
  two values are symmetric (no liveness is checked there).
- `differential`: Depth 3, 20 sequence numbers, one key, two values, and every
  batch of up to two calls: two spills of the middle level, and all batches, not
  only two. Two calls are what it takes to overwrite one another and to restore
  what was there.
- `memory`: the walk has Depth 3 up to sequence 8, where a level both hands over
  and receives, with batches that change one identity, for merges work identity
  by identity; 16 storages are more than are ever live, so allocation is never
  refused for the bound's sake. The handles have two identities, so that a filter
  can drop one change and keep another, and three advances, whose second spills,
  so that the filter must look below the youngest bucket; four tokens let two
  late handles meet a reopened one. Tokens and sequences run out, so the run may
  stop.
- `store`: two blobs and two writers race for one name and for two; three
  publications let a first one be confirmed, a second fail and a third follow.
  The read index has three buckets and room for two, so that the third evicts
  while two threads hold the others; the four slots are the two of the map and
  one that each thread may still hold after its eviction. The compressed file of
  one of the buckets has the size of the plain one. Threads, and the other two
  buckets, are only compared, hence the symmetry; no liveness is checked there.
- `disk`: two identities make a pending result differ from both its inputs,
  which is what a collection could lose; four advances at Depth 2 contain two
  spills and a promotion. Under pre_publish one identity and three advances, and
  under v2 one retained reference, which is what outlives a first open that left
  the empty bucket unsynced. `MaxDebris` bounds only how many unreachable files there
  may be before the next prepare; a collection is always possible then.
- `host`: a ring of two slots wraps within three sequences; two clients are the
  least for a signal to reach the wrong sleeper.
- `tools`: two processes and three calls of the schema tool, with one fault, one
  edit and two outputs: the shortest way to a generator or a mixture of outputs
  that a third call inherits from two others. Two inputs of a campaign, so that
  one is the reported failure and the other is not. Up to ten records of two
  sizes around the target of a block give every ragged tree of up to ten blocks;
  `MaxSlot` is 4, so that a count of 31 would still fit.
  Four and eight records in batches of one and three divide the workloads and do
  not. The corpus of the reference is run as it is: 128 advances at its four
  depths.

**Fairness.** `FairSpec` of `Host` assumes weak fairness of the worker's next step
and of every woken client's return to its loop: they are threads that hold the
mutex only for short sections, and the worker's call of the disk ends in success
or in an error. Nobody is assumed to submit, to resume, to stop or to crash. So
`WaitReturns` is conditional on the host not staying paused. `GuidedFuzz` assumes
weak fairness of the wrapper's own steps, a single thread that only sleeps for
bounded times and whose replays have a timeout, and of time passing; nothing is
assumed of the campaign, which may hang. All other specifications are without
fairness and make safety claims only.

**Environment assumed.** The disk honours a sync that succeeds; a failed sync
leaves the bytes unsynced and a later successful one makes them durable; the
rename that replaces the manifest is atomic; hashes do not collide; nobody
deletes files behind the owner's back; an owner's calls are serialized, and
`deinit` runs with no other call in progress, as the code requires; a file that
was cut short has another size than the whole one. The campaign under the fuzzing wrapper is modelled from what the
wrapper and `docs/fuzzing.md` say of it.

## 4. What is proved

Every safety invariant, action property and refinement that the runs check is a
theorem, but for `JudgementIsRight`, and for `AssertionHolds`, which is a theorem
of the reference beside the engine. The
theorems hold for every depth, key and value set, ring capacity, every set of
clients, writers, blobs and allocations, and every bound.

The assumptions are about constants, and TLC evaluates each of them on a run that
extends its module. Sentinels differ from values, or from the records they stand
in for (`SentinelAssumption`, `NoMergeAssumption`, `NoneAssumption`,
`HandlesAssumption`, `TombstoneAssumption`); the numbers are natural
(`DepthAssumption`, `MaxSeqAssumption`, `BoundsAssumption`,
`CapacityAssumption`, `MaxPublicationsAssumption`, `MaxOpsAssumption`,
`ToolchainAssumption`, `GuidedAssumption`); the flags are Boolean
(`FlagsAssumption`, `PerBlobAssumption`); readers, and the threads and buckets of
the read index, are finite (`ViewsAssumption`, `LookupAssumption`).
`HalfAssumption` has the only facts about the powers of two that the schedule
needs: each level's half is positive and four times that of the level above;
`PowerAssumption` relates them to the powers of four which the reference and the
oracle write. `BlockAssumption` says that framed records are not empty and that a
count of leaves fits its bits; `PowerOfTwoAssumption` that `2^0` is one and that
each further power, up to the last bit, is twice the one before: the only facts
about exponentiation in the proofs of the tree.

**`ListProofs`** holds the lemmas about lists as values that four of the other
modules rest on. `AdvancedValid`: a list that passes `validate` still does after
an advance. `AdvancedReads`: an advance applies its batch to what `get` returns,
and changes nothing else. `FinishedIsAdvanced`: a plan whose jobs all have their
results is the advance. `PendingExact` says that what a level is about to be
promoted is the merge of its own `curr` with the `snap` above it; so a promotion
moves records between places without changing which one a reader meets first
(`PromotionMoves`). The arithmetic is in `QuarterBoundary` and
`PendingMergeBase`: between the scheduling of a merge and its promotion the
recomputed base stays the one that was used.

**`BucketListProofs`.**

- *The list*: `TypeCorrect`, `AlwaysRestorable`, `ListImplementsMap`. `TypeOK` and
  `Valid` together are inductive: a restore's checks turn out to be exactly the
  strengthening that is needed.
- *The frontier*: `PlansStayExact` is inductive as it stands: every job is that of
  the committed base and each result that of its own job. From it a finished plan
  is one advance of the list (`FrontierImplementsList`), and with the theorems
  above the frontier is restorable and a map (`FrontierCorrect`).
- *The calls*: `CallsDriveFrontier`, `CallsImplementList`,
  `CommittedCallsTakeEffect`. While a plan exists the calls kept with it are
  those it was made from; so a finished plan is an advance by `Fresh` of those
  calls. `StagedIs` names the last call for a key, which exists because a batch is
  finite; what the readers find follows from `AdvancedReads`.
- *The reference*: `ReferenceStaysBeside`, `CommitmentsStayEqual`,
  `ReferenceAssertionHolds`, `SchedulesStayEqual`. The invariant `Beside` is an
  equality: the model of `reference.py` is at every moment `ModelOf` the list,
  level by level and with the whole logical map, so digests that agreed by
  accident would not satisfy it. `WalkedRows` shows that the walk, a loop over
  the levels that changes them in place, is the simultaneous advance;
  `VisibleRows` that searching the levels one after another finds what the engine's
  `get` finds, so the assertion that ends every advance of the model holds.
  `SchedulesAgree` derives that the three formulas for the schedule name the same
  levels at every sequence number. `AssertionHolds` is proved of
  `Differential`, for any depth and any batches; the run `tools` checks it of the
  reference by itself, on its corpus.
- *The intervals*: `IntervalsHeld`. A bucket is the merge, batch after batch, of
  an interval of the history (`SquashedOf`), whose ends are functions of the
  sequence number and the level. The invariant adds that the log has one batch
  per advance; a step then needs that adjacent intervals join (`SquashedMerge`)
  and that the ends move as the schedule says.

**`ListAdvanceProofs`**: `RefsStayExact`, `ViewsStayFrozen`,
`AdvanceImplementsList`. `IInv` says that every storage is counted as often as the
list, the candidate, the fresh bucket and all views together hold it: exactly,
for *at least* would let storage leak and *at most* let it be freed under a
reader. The lemmas say how `Held` changes when one level of a clone is rewritten.
For the refinement the candidate is compared, at every place of the walk, with
the advance of the list: the levels passed are those of the advance, the levels
to come still those of the list, though sharing and the reuse of storage have
gone on between.

**`DatabaseProofs`**: `TypeCorrect`, `OpenStaysCurrent`, `EngineStaysValid`,
`HandlesEnd`, `DatabaseImplementsAtomic`. The invariant adds that handles of
tokens not yet given do not exist; without it a new token could meet an old
handle. That the engine stays valid is what lets `AdvancedReads` speak of a
commit.

**`DiskProofs`**: `OwnerStaysCurrent`, `PinsStayReadable`, `StoreReopens`,
`InstancesReopen`, `NothingIsLost`, `OnlyTheEmptyBucketIsLost`,
`DiskImplementsAtomic`, under both durabilities and both formats. `Held` are the
manifests that somebody may still read: the owner's, those of views, retained
ones, and those a loss of power may leave in the catalog. The invariant says that
all files of all of them are `Safe`, whole *and* synced, but for the empty bucket
while `resumed` (`Exposed`, `Sure`). `resumed` needs v2 without per_blob, so
`NothingIsLost` has no exception in the other three configurations, and
`OnlyTheEmptyBucketIsLost` bounds it in the fourth. That they are readable
would not be inductive, since the next loss of power takes what is not synced. The
files of an open token need only be whole, and unsynced at most as far as the
publication syncs them. Readability asks also for the inputs of pending merges,
which `NamesEmpty` finds among the buckets a valid manifest names: a merge with
nothing needs the empty bucket, and the last level, which never spills, has it.

**`StoreProofs`.**

- *Durability*: `TypeCorrect`, `ConfirmedStays`; `ManifestsAreDurable` under
  `Covered`, which names the configurations in which the claim is true: per_blob,
  or pre_publish with serialized calls and puts by `putBlob`. The invariant says
  where every blob is on its way to being durable: installed by a writer and not
  yet noted, pending, being synced, or synced and linked; `SyncBlobs` turns the
  last into `Intact` for what the manifest refers to. `ReturnedStays` is the
  per_blob promise.
- *The read index*: `HeldStaysItsBucket`, `CountsStayExact`, `ListStaysRecency`
  and `WarmStaysPlain`, whatever sizes compressed files have. `HoldInv` says that the
  pointers, followed from either end, are the sequence `recency` (`InOrder`),
  whose entries are those of the map, and that every slot has exactly as many
  references as threads that hold it and map entries that name it. `Unlink`,
  `Push` and `Touch` are shown to remove, add and move one place of that sequence,
  and are used by every action that moves an entry. That `deinit` reaches every
  entry (`WalkedAll`) is shown by the last entry it would miss: the pointer of the
  one after it leads there.

**`HostProofs`**: `TypeCorrect`, `WakeupsReach`, `AcknowledgedStays`,
`JoinFindsNothing`, `FailureStays`, `HostImplementsLog`. `HostInv` has a part
for each relation: the ring is a window of the sequences after the cache's
(`WindowInv`), a batch is in a queued slot or nowhere (`BatchInv`), the active
entry is the head's (`ActiveInv`), the disk is at the cache's sequence or one
further (`DiskInv`), and nobody sleeps wrongly (`WorkerInv`, `ClientInv`). One
signal is enough for any number of clients: a worker that sleeps unpaused has
an empty ring, hence every accepted sequence is shown, hence no client sleeps
(`NobodyElseAsleep`). Where the log is compared, modular slot numbers are first
replaced by additions (`SlotFacts`, `SlotShift`), so that the provers need no
division.

**`ToolsProofs`.**

- *The schema tool*: `ToolTypeCorrect`, `ToolsStayWhole` (from
  `PackageStaysPinned` and `GeneratorStaysWhole`) and `EndedWellIsCurrent`, for
  any number of concurrent calls, faults and edits. `HeldInv` says what a call
  holds at each of its places, and that a stamp which matches is that of a
  complete build. `FollowInv` follows an undisturbed call: from its copy of the
  schemas on, its version is the current one, what it has compared and not found
  different is current, and it ends well only with every output compared;
  whatever makes an output older marks the call `dirty`.
- *The fuzzing wrapper*: `TruthfulVerdict`, for any number of inputs. `CampaignOK`
  says that once the wrapper has stopped waiting the campaign has ended, and that
  a campaign which ended by itself has printed a diagnostic for every input that
  fails. `ReplayOK` says that what was reproduced is real, and that an input with
  the reported failure is reproduced or still has its own test among those to be
  tried, unless its replay broke down.
- *The hash of a bucket*: `BlockSpecVectorsAgree`, for any sizes of records, any
  target and any number of blocks. `VectorsAgree` compares a hash kept record by
  record with one computed from the whole list, so it is not inductive. `BlockInv`
  is: what the hasher holds is the state of Python's loop after the same records
  (`Streamed`), and its peaks are those that Python builds over the closed blocks
  (`Reduced`). Each step follows from what one turn more of a loop does
  (`StateOfMore`, `PeaksOfMore`, `CarryPairs`).
- *The paths*: `BlockSpecPathsBindTheIndex`, for every index and every claimed index
  below the count. The verifier has no tree, only a count, so the proof has three
  parts. First, the peaks are the binary digits of the count: `Stacked` describes
  them while the last two may still be merged, `Settled` when none can, and
  `SlotIsBit`, `BitIsSlot` and `LowerBits` say that the bits of the count are
  exactly their spans and `Offset` exactly their starts. Second, the path
  leads to the root: `OnPath` follows a leaf through the merges with the
  place of its peak, one step for each level below it and each on the side that
  its place in the peak says (`MergeFollows`, `CarryFollows`, `LeafFollows`), and
  `PathSettles` joins the earlier and the later peaks. Third, another index forces
  other sides: two places that agree in every bit are one place (`BitsDecide`), and
  a path from an earlier peak is longer than one from a later peak (`SidesDiffer`).
  `PathInv` is `BlockInv` with the trace of every leaf (`Traced`) and the bound on
  the leaves (`Bounded`).

**How recursive definitions are reasoned about.** The reference's walk, the merge of
an interval and the loops of the tree are recursive functions. The induction theorems of the
library take an operator as a parameter, which the provers cannot instantiate;
instead a closed form is shown to satisfy the defining equation, and a function
that satisfies it to equal the closed form, by the least argument where they
would differ (`LeastExists`). What holds before a loop and is kept by each turn
holds after it by the same argument, on the set of the numbers of turns after
which it does (`CountUp`).

**Proved and not repeated in a run:** the types of the list, the portable database,
the store and the schema tool, the validity of the portable engine, and the
exactness of plans (`PlanExact`). They hold for every value of the constants, so a
small instance would add nothing.

**Only model-checked:** `JudgementIsRight`, which needs the sums that the
benchmark and its judge fold over whole histories and the number theory of the
stride; `AssertionHolds` on the corpus of the reference, whose 128 advances are
evaluated as they are (`ReferenceAssertionHolds` proves the same assertion for any
batches); the liveness properties (`WaitReturns`, `ShutdownEnds`, `WrapperEnds`),
because ENABLED and reasoning under fairness are out of this prover's reach; and
the findings.

## 5. What is not modelled

- *Bytes*: schema reflection, encodings, checksums, hashes, Merkle trees and the
  wire format of proofs: pure functions on byte strings.
- *Range scans, row iterators*, the merge cursors and `normalize`'s loop: planned as
  step machines; today `Merge`, `Get` and `Normalized` state their results. In
  `Lookup` the search of a span and of a bucket is one step.
- *Checkpoints*: the owner's flag and its serialization are in `Store`; references,
  parsing and retained roots are planned.
- *Proofs*: block paths are in `BlockTree`; the choice of runs and the verification
  of a whole visible-state proof are planned, its codec is not.
- *SLCP examples*: the hand-off from an agreed journal to the host is planned.
- *Tools*: `canonical` of the schema tool, which only reads; the release checks
  (`check-rejections.py`, `package-preflight.py`, `check-api.py`), which compile or
  list once and compare, and keep no state; the generators of the fuzzers; the
  compilation of the pinned C++ functions by the oracle; the texts of fixtures.
- In `Host`: a contended `tryLock`, `status` and `snapshot`, which change nothing.
  In `Disk`: the bounds on read views other than their number, and I/O statistics.

## 6. Where code and documentation disagree

1. **`v2_reput_not_synced`** (`store.zig:632`). `putBucketV2` of an existing name
   returns without noting it as pending. If an earlier put's note was lost, the
   bytes are never synced and the next manifest refers to them, against "A
   published manifest therefore never references non-durable bytes"
   (`store.zig:85`). `putBlob` re-arms the name. The owner in `disk.zig` meets it in one place: a
   first open that was interrupted and is resumed finds the empty bucket there
   (`disk.zig:106`) and publishes the genesis without syncing it. A loss of power
   before a later publication syncs that bucket leaves a catalog that no open
   accepts: without its guard `~ resumed` `CatalogReopens` fails in the run `disk`
   under pre_publish with v2. A fresh bucket that a repeated preparation puts
   again is not exposed: its merge results and its manifest are noted whether
   they are new or not, and the manifest names only those and files of the
   frontier before it.
2. **`v2_reput_not_durable`** (`store.zig:632`). The same early return under
   per_blob syncs the file and not the directory. After an earlier put whose own
   sync of the directory failed, or beside one that has not come to it, it returns
   although a loss of power may remove the entry, against "every
   `putBlob`/`putBucketV2`/`mergeBuckets` is individually durable before
   returning" (`docs/storage.md:93`) and "Durability barriers match putBlob"
   (`store.zig:623-624`).
3. **`collected_name_reput`** (`store.zig:543`). The barrier opens a pending name
   without the mutex and removes the name afterwards. If the name was collected,
   a put of the same content between the two has its new note removed unsynced.
   It needs a put beside a publication, which the store's comment allows and
   neither owner in the repository does.
4. **`torn_first_open`** (`disk.zig:106`). Under pre_publish a loss of power in the
   very first open can leave a torn empty bucket or genesis manifest, which every
   later open rejects, against `docs/disk.md:108`.
5. **`guided_ambiguous_target`** (`tools/guided-fuzz.py:279`). When the report does
   not list the test of a recovered input, the search tries codec, bucket and
   checkpoint and leaves out proof, so a proof failure that was recovered whole
   ends as not reproduced, against "Ambiguous identity: try every library target
   and require a match" (`guided-fuzz.py:278`).

One more disagreement was met and has no run of its own. `store.zig:499-500` and
`docs/storage.md:80-84` say that the read index is not installed for compressed
blobs, because span offsets lose their meaning under decompression. Scans keep to
it (`IndexedCursor.install`, `store.zig:354`); a cold lookup installs without
asking (`store.zig:807-810`), with the plain size. The next lookup compares that
size with the file's (`store.zig:758`), which nothing in the code keeps from being
equal: the framing adds sixteen bytes and deflate saves what the content allows.
`Lookup` has such a bucket, and `WarmReadsPlain` says exactly this: a span is read
from compressed bytes only if the compressed file of that bucket has the plain
size. Its lookups would then fail, or miss the key, until the index is evicted.

## 7. Plan

The order was: the schedule and the map (everything rests on them), the frontier
that must agree with it, the threads of the host, the durability of the store,
the owner that combines them, the handles of the portable database, the read
index, and then the other implementations and the tools whose word the tests
take. Left, in order of importance:

1. `Checkpoint`: `save`, `load`, `current`, `collect` of `checkpoints.zig` with the
   checkpoint and restore of `database.zig`, implementing `AtomicDatabase`.
2. `Cursors`: merge cursors, `normalize` over the sorted batch, row iterator and
   range scan as step machines, against `Merge`, `Normalized` and `Contents` as
   reference definitions over bounded inputs.
3. `Visible`: the choice of runs and the absence argument of `proofs.zig`, against
   `Get`, over the paths of `BlockTree`.
4. `Handoff`: the bridge of the SLCP example over `WriteBehindLog`, with its journal
   and its recovery.
5. `runMerges`: batches of worker threads, the first error, joining.
6. Proofs: `JudgementIsRight`, beginning with the stride, which visits every
   ordinal once, and the closed form of the benchmark's loop.

New questions join existing runs where a configuration can answer both, as in
`list`, `memory`, `host`, `disk`, `store` and `tools`.

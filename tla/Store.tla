------------------------------- MODULE Store -------------------------------
(***************************************************************************)
(* Durability of the content-addressed store, src/src/store.zig, under its *)
(* owner (the poison flag of src/src/disk.zig and src/src/checkpoints.zig).*)
(*                                                                         *)
(* A blob is named by its content, so what matters of a file is whether    *)
(* its name is in the directory, whether that entry and the bytes would    *)
(* survive a loss of power, and whether a loss of power has torn them.     *)
(* Writers put blobs concurrently, one publisher replaces the manifest,    *)
(* any call may fail at any step, and the process may end, with or without *)
(* the power, at any moment.  The disk honours sync, and the replacement   *)
(* of the manifest is atomic.                                              *)
(***************************************************************************)
EXTENDS Integers

CONSTANTS Blobs,
          Writers,          \* concurrent puts and merges
          PerBlob,          \* durability: per_blob, or else pre_publish
          V2,               \* fresh buckets are put by putBucketV2
          Overlap,          \* puts run while a publication is in progress
          MaxPublications   \* bound: calls of publish

ASSUME FlagsAssumption == {PerBlob, V2, Overlap} \subseteq BOOLEAN

ASSUME MaxPublicationsAssumption == MaxPublications \in Nat

VARIABLES
    visible,     \* names in the blobs directory
    linked,      \* names a loss of power does not remove
    synced,      \* names whose bytes a loss of power does not tear
    torn,        \* visible names whose bytes are not their content
    catalog,     \* the manifest as a reader finds it: [number, refs]
    candidates,  \* the manifests a loss of power may leave
    running,     \* the store is open
    pending,     \* put under pre_publish and not yet synced
    delivered,   \* puts that have returned since the store was opened
    returned,    \* history: under per_blob, those of them that took no early return
    writer,      \* per writer, [at, blob]
    publisher,   \* [at, refs, name]
    poisoned,    \* the owner saw publish fail
    attempts,    \* calls of publish so far
    confirmed    \* the last publication that returned without an error

files == <<visible, linked, synced, torn>>
manifests == <<catalog, candidates>>
memory == <<pending, delivered, returned, poisoned>>
counters == <<attempts, confirmed>>

vars == <<files, manifests, running, memory, writer, publisher, counters>>

NoWriter == [w \in Writers |-> [at |-> "idle", blob |-> {}]]

NoPublisher == [at |-> "idle", refs |-> {}, name |-> {}]

NoCatalog == [number |-> 0, refs |-> {}]

Init ==
    /\ visible = {} /\ linked = {} /\ synced = {} /\ torn = {}
    /\ catalog = NoCatalog
    /\ candidates = {NoCatalog}
    /\ running = TRUE
    /\ pending = {} /\ delivered = {} /\ returned = {} /\ poisoned = FALSE
    /\ writer = NoWriter
    /\ publisher = NoPublisher
    /\ attempts = 0 /\ confirmed = 0

-----------------------------------------------------------------------------
(* putBlob, putBucketV2 and mergeBuckets. *)
At(w, place) == running /\ writer[w].at = place

(* A new call.  The disk database and the checkpoint manager serialize     *)
(* their puts and their publications; the store allows them to overlap.    *)
Free(w) == At(w, "idle") /\ (Overlap \/ publisher.at = "idle")

Goto(w, place, blob) == writer' = [writer EXCEPT ![w] = [at |-> place, blob |-> blob]]

Return(w, blob) ==
    /\ delivered' = delivered \cup {blob}
    /\ Goto(w, "idle", {})

Installed == IF PerBlob THEN "entering" ELSE "noting"

(* The name is free, or the writer is a merge, which always writes a       *)
(* temporary file; under per_blob that file is synced.                     *)
Stage(w, blob) ==
    /\ Free(w)
    /\ Goto(w, "staged", blob)
    /\ UNCHANGED <<files, manifests, running, memory, publisher, counters>>

(* putBlob of a name that is there.  The file must verify; one that is     *)
(* torn is an error, never overwritten.                                    *)
PutExisting(w, blob) ==
    /\ Free(w)
    /\ blob \in visible \ torn
    /\ synced' = IF PerBlob THEN synced \cup {blob} ELSE synced
    /\ Goto(w, Installed, blob)
    /\ UNCHANGED <<visible, linked, torn, manifests, running, memory, publisher, counters>>

(* putBucketV2 of a name that is there returns at once. *)
PutExistingV2(w, blob) ==
    /\ V2
    /\ Free(w)
    /\ blob \in visible \ torn
    /\ synced' = IF PerBlob THEN synced \cup {blob} ELSE synced
    /\ Return(w, blob)
    /\ UNCHANGED <<visible, linked, torn, manifests, running, pending, returned, poisoned,
                   publisher, counters>>

(* The temporary file gets its name, unless another writer was faster; its *)
(* file must then verify, and putBlob syncs it where a merge does not.     *)
Link(w) ==
    /\ At(w, "staged")
    /\ LET blob == writer[w].blob
       IN  /\ \/ /\ blob \notin visible
                 /\ visible' = visible \cup {blob}
                 /\ linked' = linked \ {blob}
                 /\ torn' = torn \ {blob}
                 /\ synced' = IF PerBlob THEN synced \cup {blob} ELSE synced \ {blob}
              \/ /\ blob \in visible \ torn
                 /\ \/ UNCHANGED synced
                    \/ PerBlob /\ synced' = synced \cup {blob}
                 /\ UNCHANGED <<visible, linked, torn>>
           /\ Goto(w, Installed, blob)
    /\ UNCHANGED <<manifests, running, memory, publisher, counters>>

(* A plausible defect: the entry of the new file is not synced. *)
SyncDirectorySkipped(w) ==
    /\ At(w, "entering")
    /\ Goto(w, "entered", writer[w].blob)
    /\ UNCHANGED <<files, manifests, running, memory, publisher, counters>>

(* per_blob: the sync of the directory, then of the installed file.        *)
SyncDirectory(w) ==
    /\ At(w, "entering")
    /\ linked' = visible
    /\ Goto(w, "entered", writer[w].blob)
    /\ UNCHANGED <<visible, synced, torn, manifests, running, memory, publisher, counters>>

SyncInstalled(w) ==
    /\ At(w, "entered")
    /\ synced' = synced \cup {writer[w].blob}
    /\ Return(w, writer[w].blob)
    /\ returned' = returned \cup {writer[w].blob}
    /\ UNCHANGED <<visible, linked, torn, manifests, running, pending, poisoned,
                   publisher, counters>>

(* pre_publish: the next publication syncs it. *)
NotePending(w) ==
    /\ At(w, "noting")
    /\ pending' = pending \cup {writer[w].blob}
    /\ Return(w, writer[w].blob)
    /\ UNCHANGED <<files, manifests, running, returned, poisoned, publisher, counters>>

PutFails(w) ==
    /\ running
    /\ writer[w].at # "idle"
    /\ Goto(w, "idle", {})
    /\ UNCHANGED <<files, manifests, running, memory, publisher, counters>>

-----------------------------------------------------------------------------
(* publish: the caller has put every blob that the manifest refers to, or  *)
(* the current manifest refers to it already.                              *)
Publishing(place) == running /\ publisher.at = place

Begin(refs) ==
    /\ Publishing("idle")
    /\ Overlap \/ writer = NoWriter
    /\ ~ poisoned
    /\ attempts < MaxPublications
    /\ refs \subseteq delivered \cup catalog.refs
    /\ attempts' = attempts + 1
    /\ publisher' = [at |-> "barrier", refs |-> refs, name |-> {}]
    /\ UNCHANGED <<files, manifests, running, memory, writer, confirmed>>

(* The barrier: one pending file after the other, each leaving the set     *)
(* only after its sync; a name that collect deleted is skipped.            *)
SyncPending(blob) ==
    /\ Publishing("barrier")
    /\ blob \in pending
    /\ synced' = IF blob \in visible THEN synced \cup {blob} ELSE synced
    /\ publisher' = [publisher EXCEPT !.at = "removing", !.name = blob]
    /\ UNCHANGED <<visible, linked, torn, manifests, running, memory, writer, counters>>

RemovePending ==
    /\ Publishing("removing")
    /\ pending' = pending \ {publisher.name}
    /\ publisher' = [publisher EXCEPT !.at = "barrier", !.name = {}]
    /\ UNCHANGED <<files, manifests, running, delivered, returned, poisoned, writer, counters>>

(* A plausible defect: what is pending is not waited for. *)
SyncBlobsWithoutBarrier ==
    /\ Publishing("barrier")
    /\ linked' = visible
    /\ publisher' = [publisher EXCEPT !.at = "replacing"]
    /\ UNCHANGED <<visible, synced, torn, manifests, running, memory, writer, counters>>

(* syncDir of the blobs, when nothing is pending any more. *)
SyncBlobs ==
    /\ Publishing("barrier")
    /\ pending = {}
    /\ linked' = visible
    /\ publisher' = [publisher EXCEPT !.at = "replacing"]
    /\ UNCHANGED <<visible, synced, torn, manifests, running, memory, writer, counters>>

(* The new manifest is written, synced and renamed over the old one.       *)
Replace ==
    /\ Publishing("replacing")
    /\ catalog' = [number |-> attempts, refs |-> publisher.refs]
    /\ candidates' = candidates \cup {catalog'}
    /\ publisher' = [publisher EXCEPT !.at = "replaced"]
    /\ UNCHANGED <<files, running, memory, writer, counters>>

(* A plausible defect: success without the sync of the root directory.     *)
SyncRootSkipped ==
    /\ Publishing("replaced")
    /\ publisher' = [publisher EXCEPT !.at = "rooted"]
    /\ UNCHANGED <<files, manifests, running, memory, writer, counters>>

SyncRoot ==
    /\ Publishing("replaced")
    /\ candidates' = {catalog}
    /\ publisher' = [publisher EXCEPT !.at = "rooted"]
    /\ UNCHANGED <<files, catalog, running, memory, writer, counters>>

Published ==
    /\ Publishing("rooted")
    /\ confirmed' = attempts
    /\ publisher' = NoPublisher
    /\ UNCHANGED <<files, manifests, running, memory, writer, attempts>>

(* A plausible defect: the owner goes on after a failed publication. *)
PublishFailsUnpoisoned ==
    /\ running
    /\ publisher.at # "idle"
    /\ publisher' = NoPublisher
    /\ UNCHANGED <<files, manifests, running, memory, writer, counters>>

(* Whether the manifest was replaced is not known: the owner is poisoned   *)
(* until it opens the store again.                                         *)
PublishFails ==
    /\ running
    /\ publisher.at # "idle"
    /\ poisoned' = TRUE
    /\ publisher' = NoPublisher
    /\ UNCHANGED <<files, manifests, running, pending, delivered, returned, writer, counters>>

-----------------------------------------------------------------------------
(* collect of what is not reachable from the current manifest and what     *)
(* else the owner retains, with no call in progress.                       *)
Quiet == running /\ writer = NoWriter /\ publisher = NoPublisher

Remove(removed) ==
    /\ removed \cap catalog.refs = {}
    /\ removed # {}
    /\ visible' = visible \ removed
    /\ torn' = torn \ removed
    /\ delivered' = delivered \ removed
    /\ returned' = returned \ removed

Collect(removed) ==
    /\ Quiet
    /\ ~ poisoned
    /\ removed \subseteq visible
    /\ Remove(removed)
    /\ linked' = visible'
    /\ UNCHANGED <<synced, manifests, running, pending, poisoned, writer, publisher, counters>>

(* A deletion or the sync of the directory failed. *)
CollectFails(removed) ==
    /\ Quiet
    /\ ~ poisoned
    /\ removed \subseteq visible
    /\ Remove(removed)
    /\ UNCHANGED <<linked, synced, manifests, running, pending, poisoned, writer,
                   publisher, counters>>

-----------------------------------------------------------------------------
(* The process ends; open later syncs both directories. *)
Stopped ==
    /\ running' = FALSE
    /\ pending' = {} /\ delivered' = {} /\ returned' = {} /\ poisoned' = FALSE
    /\ writer' = NoWriter
    /\ publisher' = NoPublisher

Stop ==
    /\ running
    /\ Stopped
    /\ UNCHANGED <<files, manifests, counters>>

(* The power fails: entries that were not synced may go, or, when they     *)
(* were deleted, come back; bytes that were not synced may be torn.  What  *)
(* is read after that is what the disk holds.                              *)
PowerLoss ==
    /\ Stopped
    /\ \E kept \in SUBSET (linked \cup visible), lost \in SUBSET Blobs :
         /\ linked \cap visible \subseteq kept
         /\ lost \subseteq kept \ synced
         /\ visible' = kept
         /\ linked' = kept
         /\ synced' = kept
         /\ torn' = (torn \cap kept) \cup lost
    /\ catalog' \in candidates
    /\ candidates' = {catalog'}
    /\ UNCHANGED counters

Open ==
    /\ ~ running
    /\ running' = TRUE
    /\ linked' = visible
    /\ candidates' = {catalog}
    /\ UNCHANGED <<visible, synced, torn, catalog, memory, writer, publisher, counters>>

WriterNext(w) ==
    \/ \E blob \in Blobs : Stage(w, blob) \/ PutExisting(w, blob) \/ PutExistingV2(w, blob)
    \/ Link(w)
    \/ SyncDirectory(w)
    \/ SyncInstalled(w)
    \/ NotePending(w)
    \/ PutFails(w)

PublisherNext ==
    \/ \E refs \in SUBSET Blobs : Begin(refs)
    \/ \E blob \in Blobs : SyncPending(blob)
    \/ RemovePending
    \/ SyncBlobs
    \/ Replace
    \/ SyncRoot
    \/ Published
    \/ PublishFails

Next ==
    \/ \E w \in Writers : WriterNext(w)
    \/ PublisherNext
    \/ \E removed \in SUBSET Blobs : Collect(removed) \/ CollectFails(removed)
    \/ Stop
    \/ PowerLoss
    \/ Open

Spec == Init /\ [][Next]_vars

-----------------------------------------------------------------------------
(* The manifest that readers find is one that a loss of power may leave.   *)
TypeOK ==
    /\ visible \subseteq Blobs /\ linked \subseteq Blobs
    /\ synced \subseteq Blobs /\ torn \subseteq Blobs
    /\ pending \subseteq Blobs /\ delivered \subseteq Blobs /\ returned \subseteq delivered
    /\ candidates \subseteq [number : 0..MaxPublications, refs : SUBSET Blobs]
    /\ catalog \in candidates
    /\ running \in BOOLEAN /\ poisoned \in BOOLEAN
    /\ writer \in [Writers -> [at : {"idle", "staged", "entering", "entered", "noting"},
                              blob : Blobs \cup {{}}]]
    /\ publisher \in [at : {"idle", "barrier", "removing", "replacing", "replaced", "rooted"},
                      refs : SUBSET Blobs, name : Blobs \cup {{}}]
    /\ attempts \in 0..MaxPublications /\ confirmed \in 0..attempts

(* What a loss of power can neither remove nor tear. *)
Intact == (visible \cap linked \cap synced) \ torn

(***************************************************************************)
(* PublishedIsDurable: every blob that a manifest refers to, the visible   *)
(* one or any that a loss of power may leave, is in the directory with     *)
(* all of its bytes and stays there (store.zig 79-86: "A published         *)
(* manifest therefore never references non-durable bytes").                *)
(***************************************************************************)
PublishedIsDurable == \A c \in candidates \cup {catalog} : c.refs \subseteq Intact

(***************************************************************************)
(* ConfirmedIsKept: once publish has returned without an error, no loss of *)
(* power brings back an older manifest.                                    *)
(***************************************************************************)
ConfirmedIsKept == \A c \in candidates : c.number >= confirmed

(***************************************************************************)
(* ReturnedIsDurable: under per_blob what putBlob or a merge returned, and *)
(* what putBucketV2 returned of a new name, is already durable, bytes and  *)
(* entry (docs/storage.md 93-96).                                          *)
(***************************************************************************)
ReturnedIsDurable == returned \subseteq Intact

(***************************************************************************)
(* DeliveredIsDurable: the same of every put that returned, whichever way  *)
(* it took (docs/storage.md 93-96: "every putBlob/putBucketV2/mergeBuckets *)
(* is individually durable before returning"; store.zig 623-624:           *)
(* "Durability barriers match putBlob").                                   *)
(***************************************************************************)
DeliveredIsDurable == PerBlob => delivered \subseteq Intact
=============================================================================

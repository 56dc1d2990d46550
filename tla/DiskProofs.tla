----------------------------- MODULE DiskProofs -----------------------------
(***************************************************************************)
(* Proofs about Disk.tla for every depth, key set, number of views and     *)
(* bound, under both durabilities and formats: every manifest that         *)
(* somebody may still read is complete and durable, but for the empty      *)
(* bucket of a first open that was resumed, so the owner is current, what  *)
(* is pinned stays readable, whatever a failure leaves in the catalog      *)
(* opens again, and the whole implements the atomic database of            *)
(* AtomicDatabase.tla.                                                     *)
(***************************************************************************)
EXTENDS MCDisk, ListProofs

(* A manifest whose files are all among those of a set. *)
Complete(m, whole) == m \in Manifests /\ Valid(m) /\ Kept(m) \subseteq whole

(* The names that neither a reader nor a loss of power finds damaged. *)
Safe == (files \ torn) \ unsynced

(* The one name that may be unsynced although a manifest refers to it.     *)
Exposed == IF resumed THEN {BucketFile(Empty)} ELSE {}

Sure == Safe \cup Exposed

(* The manifests that somebody may still read. *)
Held == (doubt \cup retained \cup {live} \cup {views[v] : v \in Views}) \ {None}

TokenGood ==
    /\ running
    /\ live.seq # MaxSeq
    /\ token \in [manifest : Manifests, offer : Offers]
    /\ token.manifest = Successor(live, Normalized(live, token.offer.batch),
                                  token.offer.metadata)
    /\ Kept(token.manifest) \subseteq Whole
    /\ Kept(token.manifest) \cap unsynced \subseteq pending \cup Exposed

(***************************************************************************)
(* The inductive invariant.  What is held is safe and not only readable,   *)
(* or a loss of power could take it, except that the empty bucket may be   *)
(* exposed; it is whole as long as the owner runs.  What an open token     *)
(* will publish may be unsafe only as far as the publication syncs it.  A  *)
(* catalog without a manifest has seen nothing but an interrupted first    *)
(* open.                                                                   *)
(***************************************************************************)
Inv ==
    /\ running \in BOOLEAN /\ poisoned \in BOOLEAN /\ resumed \in BOOLEAN
    /\ resumed => V2 /\ ~ PerBlob
    /\ running => BucketFile(Empty) \in Whole
    /\ views \in [Views -> Manifests \cup {None}]
    /\ None \notin retained
    /\ PerBlob => unsynced = {} /\ torn = {}
    /\ catalog \in doubt
    /\ \A m \in Held : Complete(m, Sure)
    /\ running => live # None /\ None \notin doubt
    /\ running /\ ~ poisoned => doubt = {live}
    /\ ~ running => live = None /\ token = None /\ ~ poisoned /\ views = NoViews
    /\ token # None => TokenGood
    /\ catalog = None => doubt = {None}
    /\ None \in doubt => Initializable

-----------------------------------------------------------------------------
(* Manifests. *)

LEMMA ManifestsAreLists ==
    ASSUME NEW m \in Manifests
    PROVE  IsList(m)
  BY DEF Manifests, IsList

(* Every valid manifest names the empty bucket: the last level never       *)
(* spills, so its snap stays empty.                                        *)
LEMMA NamesEmpty ==
    ASSUME NEW m, Valid(m)
    PROVE  BucketFile(Empty) \in BucketFiles(m)
<1>1. m.snap[Last] = Empty /\ Last \in Levels
  BY LevelFacts DEF Valid, SnapShape
<1>2. QED
  BY <1>1 DEF BucketFiles

LEMMA PendingInputsNamed ==
    ASSUME NEW m, Valid(m)
    PROVE  PendingInputs(m) \subseteq BucketFiles(m)
<1>1. ASSUME NEW level \in Levels \ {0}
      PROVE  /\ BucketFile(MergeBase(m.seq, level, m.curr[level])) \in BucketFiles(m)
             /\ BucketFile(m.snap[level - 1]) \in BucketFiles(m)
  <2>1. BucketFile(m.curr[level]) \in BucketFiles(m)
    BY DEF BucketFiles
  <2>2. level - 1 \in Levels
    BY LevelFacts
  <2>3. BucketFile(m.snap[level - 1]) \in BucketFiles(m)
    BY <2>2 DEF BucketFiles
  <2>4. QED
    BY <2>1, <2>3, NamesEmpty DEF MergeBase
<1>2. QED
  BY <1>1 DEF PendingInputs

LEMMA CompleteIsReadable ==
    ASSUME NEW m, Complete(m, Whole)
    PROVE  Readable(m)
<1>1. BucketFiles(m) \subseteq Whole /\ ManifestFile(m) \in Whole /\ Valid(m)
  BY DEF Complete, Kept
<1>2. PendingInputs(m) \subseteq Whole
  BY <1>1, PendingInputsNamed
<1>3. QED
  BY <1>1, <1>2 DEF Readable

LEMMA CompleteGrows ==
    ASSUME NEW m, NEW one, NEW other, Complete(m, one), Kept(m) \cap one \subseteq other
    PROVE  Complete(m, other)
  BY DEF Complete

LEMMA GenesisComplete ==
    ASSUME NEW whole, GenesisFiles \subseteq whole
    PROVE  Complete(Genesis, whole)
<1>1. Genesis \in Manifests
  BY NewListType DEF Genesis, Manifest, Manifests, Lists
<1>2. Valid(Genesis)
  BY NewListValid, SameFields DEF Genesis, Manifest
<1>3. BucketFiles(Genesis) \subseteq {BucketFile(Empty)}
  BY DEF Genesis, Manifest, NewList, BucketFiles
<1>4. QED
  BY <1>1, <1>2, <1>3 DEF Complete, Kept, GenesisFiles

LEMMA PromotedFile ==
    ASSUME NEW m, Valid(m), NEW n, NEW level \in Levels
    PROVE  BucketFile(Promoted(m, n, level)) \in BucketFiles(m)
<1>1. CASE Receives(n, level) /\ m.next[level] # NoMerge
  BY <1>1 DEF Promoted, BucketFiles
<1>2. CASE ~ (Receives(n, level) /\ m.next[level] # NoMerge) /\ ShouldSpill(n, level)
  <2>1. Promoted(m, n, level) = Empty
    BY <1>2 DEF Promoted
  <2>2. QED
    BY <2>1, NamesEmpty
<1>3. CASE ~ (Receives(n, level) /\ m.next[level] # NoMerge) /\ ~ ShouldSpill(n, level)
  <2>1. Promoted(m, n, level) = m.curr[level]
    BY <1>3 DEF Promoted
  <2>2. QED
    BY <2>1 DEF BucketFiles
<1>4. QED
  BY <1>1, <1>2, <1>3

LEMMA JobInputsNamed ==
    ASSUME NEW m, Valid(m), NEW n, NEW fresh
    PROVE  JobInputs(m, n, fresh) \subseteq BucketFiles(m) \cup {BucketFile(fresh)}
<1>1. ASSUME NEW level \in JobLevels(n)
      PROVE  /\ BucketFile(Job(m, n, fresh, level).older) \in BucketFiles(m)
             /\ BucketFile(Job(m, n, fresh, level).newer)
                  \in BucketFiles(m) \cup {BucketFile(fresh)}
  <2>1. level \in Levels
    BY DEF JobLevels
  <2>2. BucketFile(MergeBase(n, level, Promoted(m, n, level))) \in BucketFiles(m)
    BY <2>1, NamesEmpty, PromotedFile DEF MergeBase
  <2>3. level # 0 => BucketFile(m.curr[level - 1]) \in BucketFiles(m)
    BY <2>1, LevelFacts DEF BucketFiles
  <2>4. QED
    BY <2>2, <2>3 DEF Job
<1>2. QED
  BY <1>1 DEF JobInputs

LEMMA NormalizedType ==
    ASSUME NEW m, NEW batch \in Buckets
    PROVE  Normalized(m, batch) \in Buckets
  BY DEF Normalized, Buckets, Records

(* The successor is the advance, with its metadata. *)
LEMMA SuccessorAdvances ==
    ASSUME NEW m \in Manifests, Valid(m), m.seq # MaxSeq,
           NEW fresh \in Buckets, NEW metadata \in Metadata,
           NEW after, after = Successor(m, fresh, metadata)
    PROVE  /\ after \in Manifests
           /\ Valid(after)
           /\ after.seq = m.seq + 1
           /\ after.meta = metadata
           /\ \A k \in Keys : Get(after, k) = IF fresh[k] = Absent THEN Get(m, k)
                                              ELSE ValueOf(fresh[k])
<1> DEFINE n == m.seq + 1
           advanced == Advanced(m, n, fresh)
           finished == Finished(Candidate(m, n), Merged(m, n, fresh))
<1>1. IsList(m)
  BY ManifestsAreLists
<1>2. finished = advanced
  BY FinishedIsAdvanced DEF Merged
<1>3. after = Manifest(advanced, metadata)
  BY <1>2 DEF Successor
<1>4. /\ after.seq = advanced.seq /\ after.curr = advanced.curr
      /\ after.snap = advanced.snap /\ after.next = advanced.next
      /\ after.meta = metadata
  BY <1>3 DEF Manifest
<1>5. IsList(advanced) /\ Valid(advanced)
  BY <1>1, AdvancedType, AdvancedValid
<1>6. after \in Manifests
  BY <1>3, <1>5 DEF Manifest, Manifests, IsList
<1>7. Valid(after) /\ Contents(after) = Contents(advanced)
  BY <1>4, <1>5, SameFields
<1>8. ASSUME NEW k \in Keys
      PROVE  Get(after, k) = IF fresh[k] = Absent THEN Get(m, k) ELSE ValueOf(fresh[k])
  <2>1. Get(after, k) = Get(advanced, k)
    BY <1>7 DEF Contents
  <2>2. QED
    BY <1>1, <2>1, AdvancedReads
<1>9. after.seq = n
  BY <1>4 DEF Advanced
<1>10. QED
  BY <1>4, <1>6, <1>7, <1>8, <1>9

(* The merges of a prepare and its manifest are every file of the          *)
(* successor that its base does not have; the fresh bucket is one of them  *)
(* only as the result of a merge.                                          *)
LEMMA SuccessorFiles ==
    ASSUME NEW m, Valid(m), NEW fresh, NEW metadata
    PROVE  Kept(Successor(m, fresh, metadata)) \subseteq Kept(m) \cup Puts(m, fresh, metadata)
<1> DEFINE n == m.seq + 1
           after == Successor(m, fresh, metadata)
           merged == Merged(m, n, fresh)
           named == BucketFiles(m) \cup Results(m, fresh)
<1>1. \A level \in JobLevels(n) : BucketFile(merged[level]) \in Results(m, fresh)
  BY DEF Results
<1>2. DOMAIN merged = JobLevels(n) /\ 0 \in JobLevels(n)
  BY LevelFacts DEF Merged, JobLevels
<1>3. ASSUME NEW level \in Levels
      PROVE  BucketFile(after.curr[level]) \in named
  <2>1. after.curr[level] = IF level = 0 THEN merged[0] ELSE Promoted(m, n, level)
    BY DEF Successor, Manifest, Finished, Candidate
  <2>2. QED
    BY <1>1, <1>2, <2>1, PromotedFile
<1>4. ASSUME NEW level \in Levels
      PROVE  BucketFile(after.snap[level]) \in named
  <2>1. after.snap[level] \in {m.curr[level], m.snap[level]}
    BY DEF Successor, Manifest, Finished, Candidate
  <2>2. QED
    BY <2>1 DEF BucketFiles
<1>5. ASSUME NEW level \in Levels, after.next[level] # NoMerge
      PROVE  BucketFile(after.next[level]) \in named
  <2>1. after.next[level] = IF level \in DOMAIN merged \ {0} THEN merged[level]
                            ELSE Candidate(m, n).next[level]
    BY DEF Successor, Manifest, Finished
  <2>2. CASE level \in DOMAIN merged \ {0}
    BY <1>1, <1>2, <2>1, <2>2
  <2>3. CASE level \notin DOMAIN merged \ {0}
    <3>1. after.next[level] = Candidate(m, n).next[level]
      BY <2>1, <2>3
    <3>2. after.next[level] = m.next[level]
      BY <1>5, <3>1 DEF Candidate
    <3>3. QED
      BY <1>5, <3>2 DEF BucketFiles
  <2>4. QED
    BY <2>2, <2>3
<1>6. BucketFiles(after) \subseteq named
  BY <1>3, <1>4, <1>5 DEF BucketFiles
<1>7. QED
  BY <1>6 DEF Kept, Puts

-----------------------------------------------------------------------------
(* The invariant. *)

LEMMA GenesisIsSome == Genesis \in Manifests /\ Genesis # None
  BY GenesisComplete, NoneAssumption DEF Complete

LEMMA SureIsWhole ==
    ASSUME Inv, running \/ ~ resumed
    PROVE  Sure \subseteq Whole
  BY DEF Inv, Sure, Safe, Exposed, Whole

LEMMA HeldIsGood ==
    ASSUME Inv, NEW m \in Held
    PROVE  /\ m \in Manifests /\ Valid(m) /\ m # None
           /\ running \/ ~ resumed => Readable(m) /\ Kept(m) \subseteq Whole
<1>1. Complete(m, Sure) /\ m # None
  BY DEF Inv, Held
<1>2. ASSUME running \/ ~ resumed
      PROVE  Complete(m, Whole)
    BY <1>1, <1>2, SureIsWhole DEF Complete
<1>3. QED
  BY <1>1, <1>2, CompleteIsReadable DEF Complete

(* What is held stays complete when nothing is added and nothing of it is  *)
(* taken away.                                                             *)
LEMMA HeldStays ==
    ASSUME Inv, Held' \subseteq Held,
           \A m \in Held : Kept(m) \cap Sure \subseteq Sure'
    PROVE  \A m \in Held' : Complete(m, Sure')
  BY CompleteGrows DEF Inv

LEMMA InitInv == Init => Inv
<1> SUFFICES ASSUME Init
             PROVE  Inv
  OBVIOUS
<1>1. Held = {}
  BY DEF Init, NoViews, Held
<1>2. views \in [Views -> Manifests \cup {None}]
  BY DEF Init, NoViews
<1>3. QED
  BY <1>1, <1>2 DEF Init, Inv, Initializable, GenesisFiles

(* A put adds names, none of them damaged, and takes nothing away. *)
LEMMA PutAdds ==
    ASSUME NEW fresh, NEW new, Put(fresh, new)
    PROVE  /\ Safe \subseteq Safe' /\ Sure \subseteq Sure' /\ Exposed' = Exposed
           /\ Whole \cup new \subseteq Whole'
           /\ torn' = torn /\ resumed' = resumed
           /\ PerBlob => unsynced' = unsynced
<1>1. /\ (new \cup {BucketFile(fresh)}) \cap torn = {}
      /\ files' = files \cup new \cup {BucketFile(fresh)}
      /\ unsynced' \subseteq unsynced \cup ((new \cup {BucketFile(fresh)}) \ files)
      /\ torn' = torn /\ resumed' = resumed
      /\ PerBlob => unsynced' = unsynced
  BY DEF Put
<1>2. Safe \subseteq Safe' /\ Whole \cup new \subseteq Whole'
  BY <1>1 DEF Safe, Whole
<1>3. Exposed' = Exposed
  BY <1>1 DEF Exposed
<1>4. QED
  BY <1>1, <1>2, <1>3 DEF Sure

LEMMA OpenInv ==
    ASSUME Inv, Open
    PROVE  Inv'
<1>1. catalog # None /\ catalog \in doubt /\ catalog \notin {None}
  BY DEF Open, Inv
<1>2. UNCHANGED <<files, unsynced, torn, pending, resumed>>
  BY DEF Open, blobs
<1>3. Held' \subseteq Held /\ Sure' = Sure /\ Whole' = Whole
  BY <1>1, <1>2 DEF Open, Held, Sure, Safe, Exposed, Whole, Inv, NoViews
<1>4. \A m \in Held' : Complete(m, Sure')
  BY <1>3, HeldStays
<1>5. BucketFile(Empty) \in Whole'
  <2>1. Valid(catalog) /\ BucketFiles(catalog) \subseteq Whole
    BY DEF Open, Readable
  <2>2. QED
    BY <1>3, <2>1, NamesEmpty
<1>6. QED
  BY <1>1, <1>2, <1>4, <1>5 DEF Open, Inv

(* An initialized store has its files, the empty bucket synced or exposed. *)
LEMMA InitializedInv ==
    ASSUME Inv, Initializable, GenesisFiles \cap torn = {}, Initialized, torn' = torn
    PROVE  /\ Sure \subseteq Sure' /\ GenesisFiles \subseteq Sure'
           /\ BucketFile(Empty) \in Whole'
           /\ resumed' \in BOOLEAN /\ (resumed' => V2 /\ ~ PerBlob)
           /\ PerBlob => unsynced' = {} /\ torn' = {}
           /\ Initializable'
<1>1. /\ files' = GenesisFiles
      /\ unsynced' = UnsyncedGenesis
      /\ resumed' = (BucketFile(Empty) \in unsynced')
  BY DEF Initialized
<1>2. unsynced' \subseteq {BucketFile(Empty)} \cap unsynced /\ (unsynced' # {} => V2)
  BY <1>1 DEF UnsyncedGenesis
<1>3. PerBlob => unsynced' = {} /\ torn' = {}
  BY <1>2 DEF Inv
<1>4. resumed' \in BOOLEAN /\ (resumed' => V2 /\ ~ PerBlob)
  <2>1. BucketFile(Empty) \in unsynced' => V2 /\ ~ PerBlob
    BY <1>2, <1>3
  <2>2. resumed' = (BucketFile(Empty) \in unsynced')
    BY <1>1
  <2>3. resumed' \in BOOLEAN
    BY <2>2
  <2>4. resumed' => V2 /\ ~ PerBlob
    BY <2>1, <2>2
  <2>5. QED
    BY <2>3, <2>4
<1>5. GenesisFiles = {BucketFile(Empty), ManifestFile(Genesis)}
      /\ BucketFile(Empty) # ManifestFile(Genesis)
  BY DEF GenesisFiles, BucketFile, ManifestFile
<1>6. GenesisFiles \subseteq Sure'
  <2>1. ManifestFile(Genesis) \in Safe'
    BY <1>1, <1>2, <1>5 DEF Safe
  <2>2. BucketFile(Empty) \in Safe' \/ resumed'
    BY <1>1, <1>5 DEF Safe
  <2>3. QED
    BY <1>5, <2>1, <2>2 DEF Sure, Exposed
<1>7. Sure \subseteq GenesisFiles
  BY <1>5 DEF Sure, Safe, Exposed, Initializable
<1>8. BucketFile(Empty) \in Whole'
  BY <1>1, <1>5 DEF Whole
<1>9. QED
  BY <1>1, <1>3, <1>4, <1>6, <1>7, <1>8 DEF Initializable

LEMMA FirstOpenInv ==
    ASSUME Inv, FirstOpen
    PROVE  Inv'
<1>1. /\ Sure \subseteq Sure' /\ GenesisFiles \subseteq Sure'
      /\ BucketFile(Empty) \in Whole'
      /\ resumed' \in BOOLEAN /\ (resumed' => V2 /\ ~ PerBlob)
      /\ PerBlob => unsynced' = {} /\ torn' = {}
  BY InitializedInv DEF FirstOpen
<1>2. Held' \subseteq Held \cup {Genesis}
  BY DEF FirstOpen, Held
<1>3. \A m \in Held' : Complete(m, Sure')
  BY <1>1, <1>2, GenesisComplete, CompleteGrows DEF Inv
<1>4. QED
  BY <1>1, <1>3, GenesisIsSome DEF FirstOpen, Initialized, Inv

LEMMA FirstOpenFailsInv ==
    ASSUME Inv, FirstOpenFails
    PROVE  Inv'
<1>1. /\ ~ running /\ catalog = None /\ Initializable
      /\ UNCHANGED <<torn, pending, running, live, token, poisoned, views, retained>>
  BY DEF FirstOpenFails
<1>2. CASE \E done \in {{BucketFile(Empty)}, GenesisFiles} :
             /\ done \cap torn = {}
             /\ files' = files \cup done
             /\ unsynced' = IF PerBlob THEN unsynced ELSE unsynced \cup (done \ files)
             /\ UNCHANGED <<resumed, catalogs>>
  <2>1. PICK done \in {{BucketFile(Empty)}, GenesisFiles} :
             /\ done \cap torn = {}
             /\ files' = files \cup done
             /\ unsynced' = IF PerBlob THEN unsynced ELSE unsynced \cup (done \ files)
             /\ UNCHANGED <<resumed, catalogs>>
    BY <1>2
  <2>2. Sure \subseteq Sure'
    BY <1>1, <2>1 DEF Sure, Safe, Exposed
  <2>3. Initializable'
    BY <1>1, <2>1 DEF Initializable, GenesisFiles
  <2>4. PerBlob => unsynced' = {} /\ torn' = {}
    BY <1>1, <2>1 DEF Inv
  <2>5. Held' \subseteq Held
    BY <1>1, <2>1 DEF Held, catalogs
  <2>6. \A m \in Held' : Complete(m, Sure')
    BY <2>2, <2>5, HeldStays
  <2>7. QED
    BY <1>1, <2>1, <2>3, <2>4, <2>6 DEF Inv, catalogs
<1>3. CASE GenesisFiles \cap torn = {} /\ Initialized /\ doubt' = {None, Genesis}
  <2>1. /\ Sure \subseteq Sure' /\ GenesisFiles \subseteq Sure'
        /\ resumed' \in BOOLEAN /\ (resumed' => V2 /\ ~ PerBlob)
        /\ PerBlob => unsynced' = {} /\ torn' = {}
        /\ Initializable'
    BY <1>1, <1>3, InitializedInv
  <2>2. Held' \subseteq Held \cup {Genesis} /\ catalog' = Genesis
    BY <1>1, <1>3 DEF Held, Initialized
  <2>3. \A m \in Held' : Complete(m, Sure')
    BY <2>1, <2>2, GenesisComplete, CompleteGrows DEF Inv
  <2>4. QED
    BY <1>1, <1>3, <2>1, <2>2, <2>3, GenesisIsSome DEF Inv
<1>4. QED
  BY <1>2, <1>3 DEF FirstOpenFails

LEMMA PrepareInv ==
    ASSUME Inv, NEW batch \in Batches, NEW metadata \in Metadata, Prepare(batch, metadata)
    PROVE  Inv'
<1> DEFINE fresh == Normalized(live, batch)
           after == Successor(live, fresh, metadata)
           new == Puts(live, fresh, metadata)
<1>1. /\ running /\ ~ poisoned /\ live.seq # MaxSeq
      /\ Put(fresh, new) /\ pending' = pending \cup Noted(fresh, new)
      /\ token' = [manifest |-> after, offer |-> [batch |-> batch, metadata |-> metadata]]
      /\ UNCHANGED <<catalogs, running, live, poisoned, views, retained>>
  BY DEF Prepare, Preparing
<1>2. live \in Held
  BY <1>1 DEF Inv, Held
<1>3. /\ live \in Manifests /\ Valid(live)
      /\ Kept(live) \subseteq Sure /\ Kept(live) \subseteq Whole
  BY <1>1, <1>2, HeldIsGood DEF Inv, Complete
<1>4. batch \in Buckets /\ fresh \in Buckets
  BY BoundsAssumption, NormalizedType
<1>5. after \in Manifests
  BY <1>1, <1>3, <1>4, SuccessorAdvances
<1>6. /\ Safe \subseteq Safe' /\ Sure \subseteq Sure' /\ Exposed' = Exposed
      /\ Whole \cup new \subseteq Whole'
      /\ torn' = torn /\ resumed' = resumed /\ (PerBlob => unsynced' = unsynced)
  BY <1>1, PutAdds
<1>7. Kept(after) \subseteq Kept(live) \cup new
  BY <1>3, SuccessorFiles
<1>8. Kept(after) \subseteq Whole'
  BY <1>3, <1>6, <1>7
<1>9. Kept(after) \cap unsynced' \subseteq pending' \cup Exposed'
  <2>1. CASE PerBlob
    BY <1>6, <2>1 DEF Inv
  <2>2. CASE ~ PerBlob
    <3>1. new \subseteq pending'
      BY <1>1, <2>2 DEF Noted
    <3>2. Safe' \cap unsynced' = {}
      BY DEF Safe
    <3>3. Kept(live) \cap unsynced' \subseteq Exposed'
      BY <1>3, <1>6, <3>2 DEF Sure
    <3>4. QED
      BY <1>7, <3>1, <3>3
  <2>3. QED
    BY <2>1, <2>2
<1>10. TokenGood'
  <2>1. [batch |-> batch, metadata |-> metadata] \in Offers
    BY <1>4 DEF Offers
  <2>2. /\ token' \in [manifest : Manifests, offer : Offers]
        /\ token'.manifest = after
        /\ token'.offer.batch = batch /\ token'.offer.metadata = metadata
    BY <1>1, <1>5, <2>1
  <2>3. running' = running /\ live' = live
    BY <1>1
  <2>4. QED
    BY <1>1, <1>8, <1>9, <2>2, <2>3 DEF TokenGood
<1>11. \A m \in Held' : Complete(m, Sure')
  <2>1. Held' = Held
    BY <1>1 DEF Held, catalogs
  <2>2. QED
    BY <1>6, <2>1, HeldStays
<1>12. None \notin doubt'
  BY <1>1 DEF Inv, catalogs
<1>13. QED
  BY <1>1, <1>6, <1>10, <1>11, <1>12 DEF Inv, catalogs

LEMMA PrepareFailsInv ==
    ASSUME Inv, NEW batch, NEW metadata, PrepareFails(batch, metadata)
    PROVE  Inv'
<1>1. PICK fresh, new : Put(fresh, new)
  BY DEF PrepareFails
<1>2. /\ running /\ token = None
      /\ UNCHANGED <<catalogs, running, live, token, poisoned, views, retained>>
  BY DEF PrepareFails, Preparing
<1>3. /\ Sure \subseteq Sure' /\ Whole \subseteq Whole' /\ torn' = torn
      /\ resumed' = resumed /\ (PerBlob => unsynced' = unsynced)
  BY <1>1, PutAdds
<1>4. Held' = Held
  BY <1>2 DEF Held, catalogs
<1>5. \A m \in Held' : Complete(m, Sure')
  BY <1>3, <1>4, HeldStays
<1>6. QED
  BY <1>2, <1>3, <1>5 DEF Inv, catalogs

LEMMA DropInv ==
    ASSUME Inv, Drop
    PROVE  Inv'
<1>1. /\ token' = None
      /\ UNCHANGED <<files, unsynced, torn, resumed, catalog, doubt, running, live, poisoned,
                     views, retained>>
  BY DEF Drop, blobs, catalogs
<1>2. /\ Held' = Held /\ Sure' = Sure /\ Whole' = Whole
      /\ Initializable' = Initializable
  BY <1>1 DEF Held, Sure, Safe, Exposed, Whole, Initializable
<1>3. QED
  BY <1>1, <1>2 DEF Inv

(* A publication syncs all that its manifest names, and that is exposed    *)
(* after it only if it was before.                                         *)
LEMMA PublishedIsSafe ==
    ASSUME Inv, TokenGood, Barrier, Valid(live), live \in Manifests
    PROVE  /\ Complete(token.manifest, Sure')
           /\ Sure \subseteq Sure' /\ Whole' = Whole
           /\ resumed' \in BOOLEAN /\ (resumed' => V2 /\ ~ PerBlob)
           /\ PerBlob => unsynced' = {} /\ torn' = {}
<1>1. /\ unsynced' = unsynced \ pending
      /\ resumed' = (resumed /\ BucketFile(Empty) \notin pending)
      /\ UNCHANGED <<files, torn>>
  BY DEF Barrier
<1>2. BucketFile(Empty) \in Whole
  BY DEF Inv, TokenGood
<1>3. Exposed \subseteq Sure' /\ Whole' = Whole /\ Safe \subseteq Safe'
  BY <1>1, <1>2 DEF Exposed, Sure, Safe, Whole
<1>4. Kept(token.manifest) \subseteq Sure'
  <2>1. Kept(token.manifest) \subseteq Whole
        /\ Kept(token.manifest) \cap unsynced \subseteq pending \cup Exposed
    BY DEF TokenGood
  <2>2. Whole \ unsynced' \subseteq Sure'
    BY <1>1 DEF Whole, Safe, Sure
  <2>3. QED
    BY <1>1, <1>3, <2>1, <2>2
<1>5. token.manifest \in Manifests /\ Valid(token.manifest)
  <2>1. token.offer.batch \in Buckets /\ token.offer.metadata \in Metadata
    BY DEF TokenGood, Offers
  <2>2. Normalized(live, token.offer.batch) \in Buckets
    BY <2>1, NormalizedType
  <2>3. QED
    BY <2>1, <2>2, SuccessorAdvances DEF TokenGood
<1>6. resumed' \in BOOLEAN /\ (resumed' => V2 /\ ~ PerBlob)
  BY <1>1 DEF Inv
<1>7. PerBlob => unsynced' = {} /\ torn' = {}
  BY <1>1 DEF Inv
<1>8. QED
  BY <1>3, <1>4, <1>5, <1>6, <1>7 DEF Complete, Sure

LEMMA CommitInv ==
    ASSUME Inv, Commit
    PROVE  Inv'
<1>1. /\ TokenGood /\ ~ poisoned
      /\ Barrier
      /\ catalog' = token.manifest /\ doubt' = {token.manifest}
      /\ live' = token.manifest /\ token' = None
      /\ UNCHANGED <<running, poisoned, views, retained>>
  BY DEF Commit, Published, Inv
<1>2. running /\ live \in Manifests /\ Valid(live)
  BY <1>1, HeldIsGood DEF TokenGood, Inv, Held
<1>3. /\ Complete(token.manifest, Sure')
      /\ Sure \subseteq Sure' /\ Whole' = Whole
      /\ resumed' \in BOOLEAN /\ (resumed' => V2 /\ ~ PerBlob)
      /\ PerBlob => unsynced' = {} /\ torn' = {}
  BY <1>1, <1>2, PublishedIsSafe
<1>4. token.manifest # None
  BY <1>3, NoneAssumption DEF Complete
<1>5. Held' \subseteq Held \cup {token.manifest}
  BY <1>1 DEF Held
<1>6. \A m \in Held' : Complete(m, Sure')
  BY <1>3, <1>5, CompleteGrows DEF Inv
<1>7. QED
  BY <1>1, <1>2, <1>3, <1>4, <1>6 DEF Inv

LEMMA CommitFailsInv ==
    ASSUME Inv, CommitFails
    PROVE  Inv'
<1>1. /\ TokenGood /\ ~ poisoned /\ token # None
      /\ PublishFailed(token.manifest)
      /\ poisoned' = TRUE
      /\ UNCHANGED <<running, live, token, views, retained>>
  BY DEF CommitFails, Inv
<1>2. running /\ live \in Manifests /\ Valid(live) /\ doubt = {live} /\ live # None
  BY <1>1, HeldIsGood DEF TokenGood, Inv, Held
<1>3. CASE UNCHANGED <<blobs, catalogs>>
  <2>1. UNCHANGED <<files, unsynced, torn, pending, resumed, catalog, doubt>>
    BY <1>3 DEF blobs, catalogs
  <2>2. Held' = Held /\ Sure' = Sure /\ Whole' = Whole
    BY <1>1, <2>1 DEF Held, Sure, Safe, Exposed, Whole
  <2>3. TokenGood'
    BY <1>1, <2>1 DEF TokenGood, Whole, Exposed
  <2>4. QED
    BY <1>1, <1>2, <2>1, <2>2, <2>3 DEF Inv
<1>4. CASE Barrier /\ catalog' = token.manifest /\ doubt' = doubt \cup {token.manifest}
  <2>1. /\ Complete(token.manifest, Sure')
        /\ Sure \subseteq Sure' /\ Whole' = Whole
        /\ resumed' \in BOOLEAN /\ (resumed' => V2 /\ ~ PerBlob)
        /\ PerBlob => unsynced' = {} /\ torn' = {}
    BY <1>1, <1>2, <1>4, PublishedIsSafe
  <2>2. token.manifest # None
    BY <2>1, NoneAssumption DEF Complete
  <2>3. Held' \subseteq Held \cup {token.manifest}
    BY <1>1, <1>4 DEF Held
  <2>4. \A m \in Held' : Complete(m, Sure')
    BY <2>1, <2>3, CompleteGrows DEF Inv
  <2>5. TokenGood'
    <3>1. Kept(token.manifest) \cap unsynced' \subseteq Exposed'
      BY <2>1 DEF Complete, Sure, Safe
    <3>2. QED
      BY <1>1, <2>1, <3>1 DEF TokenGood
  <2>6. QED
    BY <1>1, <1>2, <1>4, <2>1, <2>2, <2>4, <2>5 DEF Inv
<1>5. QED
  BY <1>1, <1>3, <1>4 DEF PublishFailed

(* Views and notes change no file. *)
LEMMA PinsInv ==
    ASSUME Inv, UNCHANGED <<blobs, catalogs, running, live, token, poisoned>>,
           views' \in [Views -> Manifests \cup {None}],
           Held' \subseteq Held, None \notin retained', running \/ views' = NoViews
    PROVE  Inv'
<1>1. UNCHANGED <<files, unsynced, torn, pending, resumed, catalog, doubt>>
  BY DEF blobs, catalogs
<1>2. Sure' = Sure /\ Whole' = Whole /\ Initializable' = Initializable
  BY <1>1 DEF Sure, Safe, Exposed, Whole, Initializable
<1>3. \A m \in Held' : Complete(m, Sure')
  BY <1>2, HeldStays
<1>4. TokenGood' = TokenGood
  BY <1>1 DEF TokenGood, Whole, Exposed
<1>5. QED
  BY <1>1, <1>2, <1>3, <1>4 DEF Inv

LEMMA OpenViewInv ==
    ASSUME Inv, NEW v \in Views, OpenView(v)
    PROVE  Inv'
<1>1. /\ running /\ views' = [views EXCEPT ![v] = live]
      /\ UNCHANGED <<blobs, catalogs, running, live, token, poisoned, retained>>
  BY DEF OpenView
<1>2. live \in Manifests
  BY <1>1 DEF Inv, Held, Complete
<1>3. views' \in [Views -> Manifests \cup {None}]
  BY <1>1, <1>2 DEF Inv
<1>4. Held' \subseteq Held
  BY <1>1 DEF Held, catalogs, Inv
<1>5. QED
  BY <1>1, <1>3, <1>4, PinsInv DEF Inv

LEMMA CloseViewInv ==
    ASSUME Inv, NEW v \in Views, CloseView(v)
    PROVE  Inv'
<1>1. /\ views[v] # None /\ views' = [views EXCEPT ![v] = None]
      /\ UNCHANGED <<blobs, catalogs, running, live, token, poisoned, retained>>
  BY DEF CloseView
<1>2. views' \in [Views -> Manifests \cup {None}]
  BY <1>1 DEF Inv
<1>3. Held' \subseteq Held
  BY <1>1 DEF Held, catalogs, Inv
<1>4. running
  BY <1>1 DEF Inv, NoViews
<1>5. QED
  BY <1>1, <1>2, <1>3, <1>4, PinsInv DEF Inv

LEMMA NotesInv ==
    ASSUME Inv, Retain \/ \E m \in retained : Forget(m)
    PROVE  Inv'
<1>1. /\ UNCHANGED <<blobs, catalogs, running, live, token, poisoned, views>>
      /\ \/ running /\ retained' = retained \cup {live}
         \/ \E m \in retained : retained' = retained \ {m}
  BY DEF Retain, Forget
<1>2. None \notin retained'
  BY <1>1 DEF Inv
<1>3. Held' \subseteq Held
  BY <1>1 DEF Held, catalogs
<1>4. QED
  BY <1>1, <1>2, <1>3, PinsInv DEF Inv

(* A collection deletes nothing that a root, and so nothing that anybody   *)
(* who holds a manifest, refers to.                                        *)
LEMMA CollectInv ==
    ASSUME Inv, Collect \/ CollectFails
    PROVE  Inv'
<1>1. PICK kept : Reachable \subseteq kept /\ KeepOnly(kept)
  BY DEF Collect, CollectFails
<1>2. /\ running /\ ~ poisoned /\ token = None
      /\ files' = files \cap kept /\ unsynced' = unsynced \cap kept /\ torn' = torn \cap kept
      /\ UNCHANGED <<pending, resumed, catalogs, running, live, token, poisoned, views, retained>>
  BY <1>1 DEF Collect, CollectFails, Collecting, KeepOnly
<1>3. Held' = Held
  BY <1>2 DEF Held, catalogs
<1>4. ASSUME NEW m \in Held
      PROVE  Kept(m) \subseteq kept
  <2>1. m \in Roots
    BY <1>2 DEF Held, Roots, Inv
  <2>2. QED
    BY <1>1, <2>1 DEF Reachable
<1>5. \A m \in Held : Kept(m) \cap Sure \subseteq Sure'
  BY <1>2, <1>4 DEF Sure, Safe, Exposed
<1>6. \A m \in Held' : Complete(m, Sure')
  BY <1>3, <1>5, HeldStays
<1>7. BucketFile(Empty) \in Whole'
  <2>1. live \in Held
    BY <1>2 DEF Inv, Held
  <2>2. BucketFile(Empty) \in Kept(live)
    BY <2>1, HeldIsGood, NamesEmpty DEF Kept
  <2>3. QED
    BY <1>2, <1>4, <2>1, <2>2 DEF Inv, Whole
<1>8. QED
  BY <1>2, <1>6, <1>7 DEF Inv, catalogs

LEMMA StopInv ==
    ASSUME Inv, Stop
    PROVE  Inv'
<1>1. /\ ~ running' /\ running' \in BOOLEAN /\ live' = None /\ token' = None
      /\ poisoned' = FALSE /\ views' = NoViews
      /\ UNCHANGED <<files, unsynced, torn, resumed, catalog, doubt, retained>>
  BY DEF Stop, Stopped, catalogs
<1>2. Held' \subseteq Held /\ Sure' = Sure /\ Initializable' = Initializable
  BY <1>1 DEF Held, Sure, Safe, Exposed, Initializable, NoViews
<1>3. \A m \in Held' : Complete(m, Sure')
  BY <1>2, HeldStays
<1>4. views' \in [Views -> Manifests \cup {None}]
  BY <1>1 DEF NoViews
<1>5. QED
  BY <1>1, <1>2, <1>3, <1>4 DEF Inv

LEMMA PowerLossInv ==
    ASSUME Inv, PowerLoss
    PROVE  Inv'
<1>1. /\ running' = FALSE /\ live' = None /\ token' = None
      /\ poisoned' = FALSE /\ views' = NoViews
      /\ unsynced' = {} /\ catalog' \in doubt /\ doubt' = {catalog'}
      /\ UNCHANGED <<resumed, retained>>
  BY DEF PowerLoss, Stopped
<1>2. PICK gone \in SUBSET unsynced, damaged \in SUBSET unsynced :
        files' = files \ gone /\ torn' = (torn \ gone) \cup damaged
  BY DEF PowerLoss
<1>3. Sure \subseteq Sure'
  BY <1>1, <1>2 DEF Sure, Safe, Exposed
<1>4. Held' \subseteq Held
  BY <1>1 DEF Held, NoViews
<1>5. \A m \in Held' : Complete(m, Sure')
  BY <1>3, <1>4, HeldStays
<1>6. views' \in [Views -> Manifests \cup {None}]
  BY <1>1 DEF NoViews
<1>7. PerBlob => unsynced' = {} /\ torn' = {}
  BY <1>1, <1>2 DEF Inv
<1>8. None \in doubt' => Initializable'
  BY <1>1, <1>2 DEF Inv, Initializable, GenesisFiles
<1>9. QED
  BY <1>1, <1>5, <1>6, <1>7, <1>8 DEF Inv

LEMMA StepInv == Inv /\ [Next]_vars => Inv'
<1> SUFFICES ASSUME Inv, [Next]_vars
             PROVE  Inv'
  OBVIOUS
<1>1. CASE Open \/ FirstOpen \/ FirstOpenFails
  BY <1>1, OpenInv, FirstOpenInv, FirstOpenFailsInv
<1>2. CASE \E batch \in Batches, metadata \in Metadata :
             Prepare(batch, metadata) \/ PrepareFails(batch, metadata)
  BY <1>2, PrepareInv, PrepareFailsInv
<1>3. CASE Drop \/ Commit \/ CommitFails
  BY <1>3, DropInv, CommitInv, CommitFailsInv
<1>4. CASE \E v \in Views : OpenView(v) \/ CloseView(v)
  BY <1>4, OpenViewInv, CloseViewInv
<1>5. CASE Retain \/ \E m \in retained : Forget(m)
  BY <1>5, NotesInv
<1>6. CASE Collect \/ CollectFails
  BY <1>6, CollectInv
<1>7. CASE Stop \/ PowerLoss
  BY <1>7, StopInv, PowerLossInv
<1>8. CASE UNCHANGED vars
  <2>1. UNCHANGED <<blobs, catalogs, running, live, token, poisoned, views, retained>>
    BY <1>8 DEF vars
  <2>2. Held' = Held
    BY <2>1 DEF Held, catalogs
  <2>3. running \/ views' = NoViews
    BY <2>1 DEF Inv
  <2>4. QED
    BY <2>1, <2>2, <2>3, PinsInv DEF Inv
<1>9. QED
  BY <1>1, <1>2, <1>3, <1>4, <1>5, <1>6, <1>7, <1>8 DEF Next

LEMMA Invariant == Spec => []Inv
  BY InitInv, StepInv, PTL DEF Spec

-----------------------------------------------------------------------------
(* Safety. *)

(* The owner has the stored state, and its token is that state's successor. *)
THEOREM OwnerStaysCurrent == Spec => []OwnerIsCurrent
<1>1. Inv => OwnerIsCurrent
  BY DEF Inv, OwnerIsCurrent, TokenGood
<1>2. QED
  BY <1>1, Invariant, PTL

(* Whatever is pinned stays complete, with all inputs of the next merges,  *)
(* through collections, failed calls and losses of power; but for the      *)
(* references of a store at rest whose empty bucket nothing has synced.    *)
THEOREM PinsStayReadable == Spec => []PinsReadable
<1>1. Inv => PinsReadable
  <2> SUFFICES ASSUME Inv
               PROVE  PinsReadable
    OBVIOUS
  <2>1. ASSUME ~ resumed, NEW m \in retained
        PROVE  Readable(m)
    BY <2>1, HeldIsGood DEF Inv, Held
  <2>2. ASSUME running, NEW m \in Roots
        PROVE  Readable(m)
    BY <2>2, HeldIsGood DEF Inv, Held, Roots
  <2>3. ASSUME running
        PROVE  JobInputs(live, live.seq + 1, Empty) \subseteq Whole
    <3>1. live \in Held
      BY <2>3 DEF Inv, Held
    <3>2. Valid(live) /\ BucketFiles(live) \subseteq Whole
      BY <2>3, <3>1, HeldIsGood DEF Kept
    <3>3. QED
      BY <3>2, JobInputsNamed, NamesEmpty
  <2>4. ASSUME token # None
        PROVE  Readable(token.manifest)
    <3>1. TokenGood /\ live \in Held
      BY <2>4 DEF Inv, TokenGood, Held
    <3>2. live \in Manifests /\ Valid(live)
      BY <3>1, HeldIsGood
    <3>3. Normalized(live, token.offer.batch) \in Buckets /\ token.offer.metadata \in Metadata
      BY <3>1, NormalizedType DEF TokenGood, Offers
    <3>4. token.manifest \in Manifests /\ Valid(token.manifest)
      BY <3>1, <3>2, <3>3, SuccessorAdvances DEF TokenGood
    <3>5. QED
      BY <3>1, <3>4, CompleteIsReadable DEF TokenGood, Complete
  <2>5. QED
    BY <2>1, <2>2, <2>3, <2>4 DEF PinsReadable
<1>2. QED
  BY <1>1, Invariant, PTL

(* Whatever a failed commit, a crash or a loss of power leaves in the      *)
(* catalog, the next open accepts, unless the store was initialized over   *)
(* an empty bucket that nothing has synced; and under per_blob an          *)
(* interrupted first open can be repeated.                                 *)
THEOREM StoreReopens == Spec => [](CatalogReopens /\ (PerBlob => InitializationResumes))
<1>1. Inv => CatalogReopens
  BY HeldIsGood DEF Held, CatalogReopens
<1>2. Inv => (PerBlob => InitializationResumes)
  BY DEF Inv, InitializationResumes
<1>3. QED
  BY <1>1, <1>2, Invariant, PTL

(* Under format v1, and under per_blob, without that exception: every      *)
(* manifest that the catalog may hold or the application retains is        *)
(* readable at any time, after any loss of power.                          *)
THEOREM NothingIsLost ==
    ASSUME PerBlob \/ ~ V2
    PROVE  Spec => [](\A m \in (doubt \cup retained) \ {None} : Readable(m))
<1>1. Inv => \A m \in (doubt \cup retained) \ {None} : Readable(m)
  <2> SUFFICES ASSUME Inv, NEW m \in (doubt \cup retained) \ {None}
               PROVE  Readable(m)
    OBVIOUS
  <2>1. ~ resumed /\ m \in Held
    BY DEF Inv, Held
  <2>2. QED
    BY <2>1, HeldIsGood
<1>2. QED
  BY <1>1, Invariant, PTL

(* Under format v2 and pre_publish only the empty bucket can be lost: all  *)
(* else that such a manifest refers to is there and intact.                *)
THEOREM OnlyTheEmptyBucketIsLost ==
    Spec => [](\A m \in (doubt \cup retained) \ {None} :
                  Kept(m) \subseteq Whole \cup {BucketFile(Empty)})
<1>1. Inv => \A m \in (doubt \cup retained) \ {None} :
                Kept(m) \subseteq Whole \cup {BucketFile(Empty)}
  <2> SUFFICES ASSUME Inv, NEW m \in (doubt \cup retained) \ {None}
               PROVE  Kept(m) \subseteq Whole \cup {BucketFile(Empty)}
    OBVIOUS
  <2>1. Kept(m) \subseteq Sure
    BY DEF Inv, Held, Complete
  <2>2. QED
    BY <2>1 DEF Sure, Safe, Exposed, Whole
<1>2. QED
  BY <1>1, Invariant, PTL

(* The same for any instance of MCDisk.tla: mode tells the durability.     *)
THEOREM InstancesReopen ==
    Spec /\ [](mode = "per_blob" <=> PerBlob) => []AlwaysReopens
<1>1. CatalogReopens /\ (PerBlob => InitializationResumes) /\ (mode = "per_blob" <=> PerBlob)
        => AlwaysReopens
  BY DEF AlwaysReopens
<1>2. QED
  BY <1>1, StoreReopens, PTL

-----------------------------------------------------------------------------
(* The refinement. *)

Observed == IF running THEN StateOf(live) ELSE None

Offering == IF token = None THEN None ELSE token.offer

LEMMA StateIsSome ==
    ASSUME NEW m \in Manifests
    PROVE  StateOf(m) # None
<1>1. Contents(m) \in Buckets /\ m.seq \in 0..MaxSeq /\ m.meta \in Metadata \cup {NoMetadata}
  BY ContentsType, ManifestsAreLists DEF Manifests
<1>2. m # None
  BY NoneAssumption
<1>3. StateOf(m) \in [seq : 0..MaxSeq, map : Buckets, metadata : Metadata \cup {NoMetadata}]
  BY <1>1, <1>2 DEF StateOf
<1>4. QED
  BY <1>3, NoneAssumption

LEMMA GenesisState == StateOf(Genesis) = Atomic!Initial /\ StateOf(None) = Atomic!Initial
<1>1. Contents(Genesis) = Empty
  <2>1. Contents(Genesis) = Contents(NewList)
    BY SameFields DEF Genesis, Manifest
  <2>2. Contents(NewList) = Empty
    BY NewListEmpty DEF Contents, Empty
  <2>3. QED
    BY <2>1, <2>2
<1>2. Genesis.seq = 0 /\ Genesis.meta = NoMetadata
  BY DEF Genesis, Manifest, NewList
<1>3. QED
  BY <1>1, <1>2, GenesisIsSome DEF StateOf, Atomic!Initial, Atomic!Empty, Empty

(* What the normalization leaves out has no effect. *)
LEMMA TokenState ==
    ASSUME Inv, token # None
    PROVE  /\ StateOf(token.manifest) = Atomic!After(StateOf(live), token.offer)
           /\ Offering # None
           /\ Observed = StateOf(live)
<1> DEFINE batch == token.offer.batch
           fresh == Normalized(live, batch)
<1>1. TokenGood /\ running /\ live \in Manifests /\ Valid(live) /\ live # None
  BY HeldIsGood DEF Inv, TokenGood, Held
<1>2. batch \in Buckets /\ token.offer.metadata \in Metadata /\ token.offer \in Offers
  BY <1>1 DEF TokenGood, Offers
<1>3. fresh \in Buckets
  BY <1>2, NormalizedType
<1>4. /\ token.manifest \in Manifests
      /\ token.manifest.seq = live.seq + 1
      /\ token.manifest.meta = token.offer.metadata
      /\ \A k \in Keys : Get(token.manifest, k) = IF fresh[k] = Absent THEN Get(live, k)
                                                  ELSE ValueOf(fresh[k])
  BY <1>1, <1>2, <1>3, SuccessorAdvances DEF TokenGood
<1>5. ASSUME NEW k \in Keys
      PROVE  Get(token.manifest, k) = IF batch[k] = Absent THEN Get(live, k)
                                      ELSE ValueOf(batch[k])
  <2>1. Get(token.manifest, k) = IF fresh[k] = Absent THEN Get(live, k) ELSE ValueOf(fresh[k])
    BY <1>4
  <2>2. QED
    BY <2>1 DEF Normalized
<1>6. Contents(token.manifest)
        = [k \in Keys |-> IF batch[k] = Absent THEN Contents(live)[k] ELSE ValueOf(batch[k])]
  BY <1>5 DEF Contents
<1>7. token.manifest # None
  BY <1>4, NoneAssumption
<1>8. StateOf(token.manifest) = Atomic!After(StateOf(live), token.offer)
  BY <1>1, <1>4, <1>6, <1>7 DEF StateOf, Atomic!After, Atomic!ValueOf, ValueOf
<1>9. QED
  BY <1>1, <1>2, <1>8, NoneAssumption DEF Offering, Observed

Possible == {StateOf(m) : m \in doubt}

LEMMA Stutters ==
    ASSUME Observed' = Observed, Possible' = Possible, Offering' = Offering,
           poisoned' = poisoned
    PROVE  UNCHANGED Atomic!vars
  BY DEF Observed, Possible, Offering, Atomic!vars

LEMMA OpenOpens ==
    ASSUME Inv, Open \/ FirstOpen
    PROVE  Atomic!Open
<1>1. PICK m \in Manifests : /\ live' = m /\ running' = TRUE /\ doubt' = {m}
                            /\ StateOf(m) \in Possible
  <2>1. CASE Open
    <3>1. catalog \in Held
      BY <2>1 DEF Open, Inv, Held
    <3>2. catalog \in Manifests /\ StateOf(catalog) \in Possible
      BY <3>1, HeldIsGood DEF Inv, Possible
    <3>3. QED
      BY <2>1, <3>2 DEF Open
  <2>2. CASE FirstOpen
    <3>1. None \in doubt
      BY <2>2 DEF FirstOpen, Inv
    <3>2. StateOf(Genesis) \in Possible
      BY <3>1, GenesisState DEF Possible
    <3>3. QED
      BY <2>2, <3>2, GenesisIsSome DEF FirstOpen
  <2>3. QED
    BY <2>1, <2>2
<1>2. ~ running /\ UNCHANGED <<token, poisoned>>
  BY DEF Open, FirstOpen
<1>3. Observed = None /\ Observed' = StateOf(live')
  BY <1>1, <1>2 DEF Observed
<1>4. Observed' = StateOf(live') /\ live' = m
  BY <1>1, <1>3
<1>5. Possible' = {Observed'}
  BY <1>1, <1>4 DEF Possible
<1>6. Observed' \in Possible
  BY <1>1, <1>4
<1>7. Offering' = Offering
  BY <1>2 DEF Offering
<1>8. QED
  BY <1>2, <1>3, <1>5, <1>6, <1>7 DEF Atomic!Open, Observed, Possible, Offering

LEMMA FirstOpenFailsStutters ==
    ASSUME Inv, FirstOpenFails
    PROVE  UNCHANGED Atomic!vars
<1>1. /\ UNCHANGED <<running, live, token, poisoned>>
      /\ doubt' = doubt \/ doubt' = {None, Genesis}
      /\ doubt = {None}
  BY DEF FirstOpenFails, catalogs, Inv
<1>2. Possible' = Possible
  BY <1>1, GenesisState DEF Possible
<1>3. QED
  BY <1>1, <1>2, Stutters DEF Observed, Offering

LEMMA PrepareOffers ==
    ASSUME Inv, NEW batch \in Batches, NEW metadata \in Metadata, Prepare(batch, metadata)
    PROVE  Atomic!Next
<1>1. /\ running /\ ~ poisoned /\ token = None /\ live.seq # MaxSeq
      /\ token'.offer = [batch |-> batch, metadata |-> metadata]
      /\ UNCHANGED <<doubt, running, live, poisoned>>
  BY DEF Prepare, Preparing, catalogs
<1>2. live \in Manifests /\ live # None
  BY <1>1 DEF Inv, Held, Complete
<1>3. Observed = StateOf(live) /\ Observed # None /\ Observed.seq < MaxSeq
  <2>1. live.seq \in 0..MaxSeq
    BY <1>2 DEF Manifests
  <2>2. live.seq < MaxSeq
    BY <1>1, <2>1, MaxSeqAssumption
  <2>3. QED
    BY <1>1, <1>2, <2>2, StateIsSome DEF Observed, StateOf
<1>4. Offering = None
  BY <1>1 DEF Offering
<1>5. token' # None
  <2>1. Successor(live, Normalized(live, batch), metadata) \in Manifests
    BY <1>1, <1>2, BoundsAssumption, NormalizedType, SuccessorAdvances DEF Inv, Held, Complete
  <2>2. token' \in [manifest : Manifests, offer : Offers]
    BY <2>1, BoundsAssumption DEF Prepare, Offers
  <2>3. QED
    BY <2>2, NoneAssumption
<1>6. Offering' = [batch |-> batch, metadata |-> metadata]
  BY <1>1, <1>5 DEF Offering
<1>7. Observed' = Observed /\ Possible' = Possible
  BY <1>1 DEF Observed, Possible
<1>8. Atomic!Offer(batch, metadata)
  BY <1>1, <1>3, <1>4, <1>6, <1>7 DEF Atomic!Offer, Observed, Possible, Offering
<1>9. batch \in Atomic!Buckets
  BY BoundsAssumption DEF Atomic!Buckets, Buckets, Atomic!Records, Records
<1>10. QED
  BY <1>8, <1>9 DEF Atomic!Next

LEMMA DropWithdraws ==
    ASSUME Inv, Drop
    PROVE  Atomic!Next
<1>1. /\ token # None /\ token' = None
      /\ UNCHANGED <<doubt, running, live, poisoned>>
  BY DEF Drop, catalogs
<1>2. Offering # None /\ Offering' = None
  BY <1>1, TokenState DEF Offering
<1>3. Observed' = Observed /\ Possible' = Possible
  BY <1>1 DEF Observed, Possible
<1>4. Atomic!Withdraw
  BY <1>1, <1>2, <1>3 DEF Atomic!Withdraw, Observed, Possible, Offering
<1>5. QED
  BY <1>4 DEF Atomic!Next

LEMMA CommitCommits ==
    ASSUME Inv, Commit
    PROVE  Atomic!Next
<1>1. /\ token # None /\ ~ poisoned /\ token' = None /\ running
      /\ live' = token.manifest /\ doubt' = {token.manifest}
      /\ UNCHANGED <<running, poisoned>>
  BY DEF Commit, Published, Inv
<1>2. /\ Observed' = Atomic!After(Observed, Offering)
      /\ Possible' = {Observed'}
      /\ Offering' = None /\ Offering # None
  BY <1>1, TokenState DEF Observed, Possible, Offering
<1>3. Atomic!Commit
  BY <1>1, <1>2 DEF Atomic!Commit, Observed, Possible, Offering
<1>4. QED
  BY <1>3 DEF Atomic!Next

LEMMA CommitFailsFails ==
    ASSUME Inv, CommitFails
    PROVE  Atomic!Next
<1>1. /\ token # None /\ ~ poisoned /\ poisoned' = TRUE
      /\ doubt' \in {doubt, doubt \cup {token.manifest}}
      /\ UNCHANGED <<running, live, token>>
  BY DEF CommitFails, PublishFailed, catalogs
<1>2. /\ StateOf(token.manifest) = Atomic!After(Observed, Offering)
      /\ Offering # None
  BY <1>1, TokenState DEF Offering
<1>3. Possible' \in {Possible, Possible \cup {Atomic!After(Observed, Offering)}}
  <2>1. CASE doubt' = doubt
    BY <2>1 DEF Possible
  <2>2. CASE doubt' = doubt \cup {token.manifest}
    BY <1>2, <2>2 DEF Possible
  <2>3. QED
    BY <1>1, <2>1, <2>2
<1>4. Observed' = Observed /\ Offering' = Offering
  BY <1>1 DEF Observed, Offering
<1>5. Atomic!CommitFails
  BY <1>1, <1>2, <1>3, <1>4 DEF Atomic!CommitFails, Observed, Possible, Offering
<1>6. QED
  BY <1>5 DEF Atomic!Next

LEMMA StopEnds ==
    ASSUME Inv, Stop \/ PowerLoss
    PROVE  Atomic!Next
<1>1. /\ running' = FALSE /\ token' = None /\ poisoned' = FALSE
      /\ doubt' \subseteq doubt /\ doubt' # {}
  BY DEF Stop, PowerLoss, Stopped, catalogs, Inv
<1>2. Observed' = None /\ Offering' = None
  BY <1>1 DEF Observed, Offering
<1>3. Possible' \in (SUBSET Possible) \ {{}}
  BY <1>1 DEF Possible
<1>4. Atomic!End
  BY <1>1, <1>2, <1>3 DEF Atomic!End, Observed, Possible, Offering
<1>5. QED
  BY <1>4 DEF Atomic!Next

(* The disk database implements the atomic one: a batch, normalized or     *)
(* not, and its metadata appear together, exactly once, or not at all,     *)
(* through every failure of a commit, crash and loss of power.             *)
THEOREM DiskImplementsAtomic == Spec => ImplementsDatabase
<1>1. Init => Atomic!Init
  <2> SUFFICES ASSUME Init
               PROVE  Atomic!Init
    OBVIOUS
  <2>1. Observed = None /\ Offering = None /\ poisoned = FALSE
    BY DEF Init, Observed, Offering
  <2>2. Possible = {Atomic!Initial}
    BY GenesisState DEF Init, Possible
  <2>3. QED
    BY <2>1, <2>2 DEF Atomic!Init, Observed, Possible, Offering
<1>2. Inv /\ [Next]_vars => [Atomic!Next]_Atomic!vars
  <2> SUFFICES ASSUME Inv, [Next]_vars
               PROVE  [Atomic!Next]_Atomic!vars
    OBVIOUS
  <2>1. CASE Open \/ FirstOpen
    BY <2>1, OpenOpens DEF Atomic!Next
  <2>2. CASE FirstOpenFails
    BY <2>2, FirstOpenFailsStutters
  <2>3. CASE \E batch \in Batches, metadata \in Metadata : Prepare(batch, metadata)
    BY <2>3, PrepareOffers
  <2>4. CASE Drop \/ Commit \/ CommitFails
    BY <2>4, DropWithdraws, CommitCommits, CommitFailsFails
  <2>5. CASE Stop \/ PowerLoss
    BY <2>5, StopEnds
  <2>6. CASE UNCHANGED <<doubt, running, live, token, poisoned>>
    BY <2>6, Stutters DEF Observed, Possible, Offering
  <2>7. CASE \E batch \in Batches, metadata \in Metadata : PrepareFails(batch, metadata)
    BY <2>6, <2>7 DEF PrepareFails, catalogs
  <2>8. CASE \E v \in Views : OpenView(v) \/ CloseView(v)
    BY <2>6, <2>8 DEF OpenView, CloseView, catalogs
  <2>9. CASE Retain \/ \E m \in retained : Forget(m)
    BY <2>6, <2>9 DEF Retain, Forget, catalogs
  <2>10. CASE Collect \/ CollectFails
    BY <2>6, <2>10 DEF Collect, CollectFails, KeepOnly, catalogs
  <2>11. CASE UNCHANGED vars
    BY <2>6, <2>11 DEF vars, catalogs
  <2>12. QED
    BY <2>1, <2>2, <2>3, <2>4, <2>5, <2>7, <2>8, <2>9, <2>10, <2>11 DEF Next
<1>3. QED
  BY <1>1, <1>2, Invariant, PTL DEF Spec, ImplementsDatabase, Atomic!Spec

=============================================================================

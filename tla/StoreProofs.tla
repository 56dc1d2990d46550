---------------------------- MODULE StoreProofs ----------------------------
(***************************************************************************)
(* Proofs about the content-addressed store.                               *)
(*                                                                         *)
(* Store.tla, for any blobs, writers and number of publications: what a    *)
(* manifest refers to survives every loss of power, under per_blob always, *)
(* and under pre_publish when buckets are put by putBlob and the owner     *)
(* serializes puts and publications; a confirmed manifest is never taken   *)
(* back; and under per_blob what putBlob returned is durable at once.      *)
(*                                                                         *)
(* Lookup.tla, for any finite sets of buckets and threads, any memory and  *)
(* any bound: the counts are exact, so an index is never freed or reused   *)
(* under a thread that holds it and never kept when nobody does; the list  *)
(* is in the order of the last uses and within its bound; and a warm       *)
(* lookup reads plain bytes.                                               *)
(***************************************************************************)
EXTENDS Store, Lookup, FiniteSetTheorems, SequenceTheorems, WellFoundedInduction, TLAPS

(* A writer past the installation of its file. *)
Installing == {"entering", "entered", "noting"}

-----------------------------------------------------------------------------
(* Types, and the numbers of the manifests. *)
NumberInv ==
    /\ TypeOK
    /\ \A w \in Writers : writer[w].at # "idle" => writer[w].blob \in Blobs
    /\ ConfirmedIsKept
    /\ publisher.at \in {"replaced", "rooted"} => catalog.number = attempts
    /\ publisher.at = "rooted" => candidates = {catalog}

LEMMA InitNumber == Init => NumberInv
<1> SUFFICES ASSUME Init
             PROVE  NumberInv
  OBVIOUS
<1>1. 0 \in 0..MaxPublications /\ 0 \in 0..0
  BY MaxPublicationsAssumption
<1>2. NoCatalog \in [number : 0..MaxPublications, refs : SUBSET Blobs]
  BY <1>1 DEF NoCatalog
<1>3. /\ NoWriter \in [Writers -> [at : {"idle", "staged", "entering", "entered", "noting"},
                                  blob : Blobs \cup {{}}]]
      /\ NoPublisher \in [at : {"idle", "barrier", "removing", "replacing", "replaced", "rooted"},
                          refs : SUBSET Blobs, name : Blobs \cup {{}}]
  BY DEF NoWriter, NoPublisher
<1>4. TypeOK
  BY <1>1, <1>2, <1>3 DEF Init, TypeOK
<1>5. QED
  BY <1>4 DEF Init, NumberInv, NoWriter, NoPublisher, NoCatalog, ConfirmedIsKept

(* A step of a writer touches the files, its own place and what it noted.  *)
LEMMA WriterNumber ==
    ASSUME NumberInv, NEW w \in Writers, WriterNext(w)
    PROVE  /\ NumberInv'
           /\ UNCHANGED <<manifests, running, poisoned, publisher, counters>>
<1> DEFINE Places == [at : {"idle", "staged", "entering", "entered", "noting"},
                      blob : Blobs \cup {{}}]
<1>1. UNCHANGED <<manifests, running, poisoned, publisher, counters>>
  BY DEF WriterNext, Stage, PutExisting, PutExistingV2, Link, SyncDirectory, SyncInstalled,
         NotePending, PutFails, memory
<1>2. PICK place \in {"idle", "staged", "entering", "entered", "noting"}, blob \in Blobs \cup {{}} :
        /\ place # "idle" => blob \in Blobs
        /\ writer' = [writer EXCEPT ![w] = [at |-> place, blob |-> blob]]
  <2>1. writer[w].at # "idle" => writer[w].blob \in Blobs
    BY DEF NumberInv
  <2>2. Installed \in {"entering", "noting"}
    BY DEF Installed
  <2>3. CASE \E blob \in Blobs : Stage(w, blob) \/ PutExisting(w, blob) \/ PutExistingV2(w, blob)
    BY <2>2, <2>3 DEF Stage, PutExisting, PutExistingV2, Goto, Return
  <2>4. CASE Link(w) \/ SyncDirectory(w) \/ SyncInstalled(w) \/ NotePending(w) \/ PutFails(w)
    BY <2>1, <2>2, <2>4 DEF Link, SyncDirectory, SyncInstalled, NotePending, PutFails,
                            At, Goto, Return
  <2>5. QED
    BY <2>3, <2>4 DEF WriterNext
<1>3. writer' \in [Writers -> Places]
  <2>1. writer \in [Writers -> Places]
    BY DEF NumberInv, TypeOK
  <2>2. [at |-> place, blob |-> blob] \in Places
    BY <1>2
  <2>3. QED
    BY <1>2, <2>1, <2>2
<1>4. \A v \in Writers : writer'[v].at # "idle" => writer'[v].blob \in Blobs
  <2>1. writer \in [Writers -> Places]
    BY DEF NumberInv, TypeOK
  <2>2. QED
    BY <1>2, <2>1 DEF NumberInv
<1>5. /\ visible' \subseteq Blobs /\ linked' \subseteq Blobs /\ synced' \subseteq Blobs
      /\ torn' \subseteq Blobs /\ pending' \subseteq Blobs
      /\ delivered' \subseteq Blobs /\ returned' \subseteq delivered'
  <2>1. \A v \in Writers : writer[v].at # "idle" => writer[v].blob \in Blobs
    BY DEF NumberInv
  <2>2. QED
    BY <2>1 DEF WriterNext, Stage, PutExisting, PutExistingV2, Link, SyncDirectory,
                SyncInstalled, NotePending, PutFails, At, Return, NumberInv, TypeOK,
                files, memory
<1>6. TypeOK'
  BY <1>1, <1>3, <1>5 DEF NumberInv, TypeOK, manifests, counters
<1>7. QED
  BY <1>1, <1>4, <1>6 DEF NumberInv, manifests, counters, ConfirmedIsKept

LEMMA PublisherNumber ==
    ASSUME NumberInv, PublisherNext
    PROVE  NumberInv'
<1> DEFINE Calls == [at : {"idle", "barrier", "removing", "replacing", "replaced", "rooted"},
                     refs : SUBSET Blobs, name : Blobs \cup {{}}]
<1>1. /\ publisher \in Calls
      /\ MaxPublications \in Nat /\ attempts \in Nat /\ confirmed \in Nat
      /\ attempts <= MaxPublications /\ confirmed <= attempts
      /\ catalog \in [number : 0..MaxPublications, refs : SUBSET Blobs]
      /\ \A c \in candidates : c.number >= confirmed
  BY MaxPublicationsAssumption DEF NumberInv, TypeOK, ConfirmedIsKept
<1>2. NoPublisher \in Calls
  BY DEF NoPublisher
<1>3. CASE \E refs \in SUBSET Blobs : Begin(refs)
  <2>1. PICK refs \in SUBSET Blobs : Begin(refs)
    BY <1>3
  <2>2. publisher' \in Calls /\ publisher'.at = "barrier"
    BY <2>1 DEF Begin
  <2>3. attempts' \in 0..MaxPublications /\ confirmed \in 0..attempts'
    BY <1>1, <2>1 DEF Begin
  <2>4. QED
    BY <2>1, <2>2, <2>3 DEF Begin, NumberInv, TypeOK, ConfirmedIsKept, files, manifests, memory
<1>4. CASE \E blob \in Blobs : SyncPending(blob)
  <2>1. PICK blob \in Blobs : SyncPending(blob)
    BY <1>4
  <2>2. publisher' \in Calls /\ publisher'.at = "removing"
    BY <1>1, <2>1 DEF SyncPending
  <2>3. QED
    BY <2>1, <2>2 DEF SyncPending, NumberInv, TypeOK, ConfirmedIsKept, manifests, memory, counters
<1>5. CASE RemovePending
  <2>1. publisher' \in Calls /\ publisher'.at = "barrier"
    BY <1>1, <1>5 DEF RemovePending
  <2>2. QED
    BY <1>5, <2>1 DEF RemovePending, NumberInv, TypeOK, ConfirmedIsKept, files, manifests, counters
<1>6. CASE SyncBlobs
  <2>1. publisher' \in Calls /\ publisher'.at = "replacing"
    BY <1>1, <1>6 DEF SyncBlobs
  <2>2. QED
    BY <1>6, <2>1 DEF SyncBlobs, NumberInv, TypeOK, ConfirmedIsKept, manifests, memory, counters
<1>7. CASE Replace
  <2>1. publisher' \in Calls /\ publisher'.at = "replaced" /\ publisher.refs \subseteq Blobs
    BY <1>1, <1>7 DEF Replace
  <2>2. catalog' \in [number : 0..MaxPublications, refs : SUBSET Blobs]
        /\ catalog'.number = attempts
    BY <1>1, <1>7, <2>1 DEF Replace
  <2>3. QED
    BY <1>1, <1>7, <2>1, <2>2 DEF Replace, NumberInv, TypeOK, ConfirmedIsKept, files, memory, counters
<1>8. CASE SyncRoot
  <2>1. publisher' \in Calls /\ publisher'.at = "rooted" /\ publisher.at = "replaced"
    BY <1>1, <1>8 DEF SyncRoot, Publishing
  <2>2. QED
    BY <1>1, <1>8, <2>1 DEF SyncRoot, NumberInv, TypeOK, ConfirmedIsKept, files, memory, counters
<1>9. CASE Published
  <2>1. candidates = {catalog} /\ catalog.number = attempts
    BY <1>9 DEF Published, Publishing, NumberInv
  <2>2. QED
    BY <1>1, <1>2, <1>9, <2>1
       DEF Published, NoPublisher, NumberInv, TypeOK, ConfirmedIsKept, files, manifests, memory
<1>10. CASE PublishFails
  BY <1>1, <1>2, <1>10
     DEF PublishFails, NoPublisher, NumberInv, TypeOK, ConfirmedIsKept, files, manifests, counters
<1>11. QED
  BY <1>3, <1>4, <1>5, <1>6, <1>7, <1>8, <1>9, <1>10 DEF PublisherNext

LEMMA StopType ==
    ASSUME Stopped
    PROVE  /\ writer' \in [Writers -> [at : {"idle", "staged", "entering", "entered", "noting"},
                                       blob : Blobs \cup {{}}]]
           /\ \A w \in Writers : writer'[w].at = "idle"
           /\ publisher' \in [at : {"idle", "barrier", "removing", "replacing", "replaced", "rooted"},
                              refs : SUBSET Blobs, name : Blobs \cup {{}}]
           /\ publisher'.at = "idle"
           /\ pending' = {} /\ delivered' = {} /\ returned' = {}
           /\ poisoned' = FALSE /\ running' = FALSE
  BY DEF Stopped, NoWriter, NoPublisher

LEMMA NextNumber ==
    ASSUME NumberInv, [Next]_vars
    PROVE  NumberInv'
<1>1. CASE \E w \in Writers : WriterNext(w)
  BY <1>1, WriterNumber
<1>2. CASE PublisherNext
  BY <1>2, PublisherNumber
<1>3. CASE \E removed \in SUBSET Blobs : Collect(removed) \/ CollectFails(removed)
  BY <1>3 DEF Collect, CollectFails, Remove, NumberInv, TypeOK, ConfirmedIsKept,
              manifests, counters
<1>4. CASE Stop
  BY <1>4, StopType DEF Stop, NumberInv, TypeOK, ConfirmedIsKept, files, manifests, counters
<1>5. CASE PowerLoss
  <2>1. /\ visible' \subseteq Blobs /\ linked' \subseteq Blobs
        /\ synced' \subseteq Blobs /\ torn' \subseteq Blobs
        /\ catalog' \in candidates /\ candidates' = {catalog'}
    BY <1>5 DEF PowerLoss, NumberInv, TypeOK
  <2>2. QED
    BY <1>5, <2>1, StopType DEF PowerLoss, NumberInv, TypeOK, ConfirmedIsKept, counters
<1>6. CASE Open
  BY <1>6 DEF Open, NumberInv, TypeOK, ConfirmedIsKept, memory, counters
<1>7. CASE UNCHANGED vars
  BY <1>7 DEF vars, files, manifests, memory, counters, NumberInv, TypeOK, ConfirmedIsKept
<1>8. QED
  BY <1>1, <1>2, <1>3, <1>4, <1>5, <1>6, <1>7 DEF Next

LEMMA NumberInvariant == Spec => []NumberInv
  BY InitNumber, NextNumber, PTL DEF Spec

(* Every reachable state is well typed. *)
THEOREM TypeCorrect == Spec => []TypeOK
  BY NumberInvariant, PTL DEF NumberInv

(* No loss of power takes a confirmed manifest back. *)
THEOREM ConfirmedStays == Spec => []ConfirmedIsKept
  BY NumberInvariant, PTL DEF NumberInv

-----------------------------------------------------------------------------
(* What a manifest refers to. *)

(* The configurations in which a manifest may be relied on. *)
Covered == PerBlob \/ (~ V2 /\ ~ Overlap)

(* Verified names, and those whose bytes are synced or will be by the next *)
(* publication.                                                            *)
Whole == visible \ torn

Promised == Whole \cap (synced \cup pending)

WriterInv ==
    /\ \A w \in Writers : writer[w].at \in Installing => writer[w].blob \in Whole
    /\ \A w \in Writers : PerBlob => writer[w].at # "noting"
    /\ delivered \subseteq Promised
    /\ PerBlob => pending = {}

PublisherInv ==
    /\ ~ Overlap /\ publisher.at # "idle" => writer = NoWriter
    /\ publisher.at \in {"barrier", "removing"} => publisher.refs \subseteq Promised
    /\ publisher.at = "removing" =>
         ~ PerBlob /\ (publisher.name \in visible => publisher.name \in synced)
    /\ publisher.at \in {"replacing", "replaced", "rooted"} => publisher.refs \subseteq Intact

(* A manifest other than the visible one may come back only while its      *)
(* replacement is in doubt, and then nothing is collected.                 *)
CatalogInv ==
    /\ PublishedIsDurable
    /\ running /\ ~ poisoned /\ publisher.at # "replaced" => candidates = {catalog}

DurableInv ==
    /\ NumberInv
    /\ WriterInv
    /\ PublisherInv
    /\ CatalogInv

LEMMA InitDurable == Init => DurableInv
<1> SUFFICES ASSUME Init
             PROVE  DurableInv
  OBVIOUS
<1>1. NumberInv
  BY InitNumber
<1>2. WriterInv /\ PublisherInv /\ CatalogInv
  BY DEF Init, WriterInv, PublisherInv, CatalogInv, PublishedIsDurable, NoWriter,
         NoPublisher, NoCatalog, Installing
<1>3. QED
  BY <1>1, <1>2 DEF DurableInv

(* A writer never harms what is verified, promised or intact: the name it  *)
(* links was free.                                                         *)
LEMMA WriterGrows ==
    ASSUME DurableInv, NEW w \in Writers, WriterNext(w)
    PROVE  /\ Whole \subseteq Whole'
           /\ Promised \subseteq Promised'
           /\ Intact \subseteq Intact'
           /\ \A b \in visible : b \in synced => b \in synced'
           /\ \A b \in Blobs : b \in visible' => b \in visible \/ PerBlob \/ writer[w].at = "staged"
<1>1. CASE Link(w)
  BY <1>1 DEF Link, Whole, Promised, Intact, files, memory, At
<1>2. CASE \E blob \in Blobs : Stage(w, blob) \/ PutExisting(w, blob) \/ PutExistingV2(w, blob)
  BY <1>2 DEF Stage, PutExisting, PutExistingV2, Whole, Promised, Intact, files, memory
<1>3. CASE SyncDirectory(w) \/ SyncInstalled(w) \/ NotePending(w) \/ PutFails(w)
  BY <1>3 DEF SyncDirectory, SyncInstalled, NotePending, PutFails, Whole, Promised, Intact,
              files, memory
<1>4. QED
  BY <1>1, <1>2, <1>3 DEF WriterNext

(* What a step of the writer leaves as the place and the result of its put. *)
LEMMA WriterPlaces ==
    ASSUME DurableInv, Covered, NEW w \in Writers, WriterNext(w)
    PROVE  WriterInv'
<1>1. /\ Whole \subseteq Whole' /\ Promised \subseteq Promised'
      /\ \A b \in visible : b \in synced => b \in synced'
  BY WriterGrows
<1>2. /\ writer \in [Writers -> [at : {"idle", "staged", "entering", "entered", "noting"},
                                 blob : Blobs \cup {{}}]]
      /\ \A v \in Writers : writer[v].at \in Installing => writer[v].blob \in Whole
      /\ \A v \in Writers : PerBlob => writer[v].at # "noting"
      /\ delivered \subseteq Promised
      /\ PerBlob => pending = {}
  BY DEF DurableInv, NumberInv, TypeOK, WriterInv
<1> DEFINE Moved(place, blob) ==
             /\ writer' = [writer EXCEPT ![w] = [at |-> place, blob |-> blob]]
             /\ place \in Installing => blob \in Whole'
             /\ PerBlob => place # "noting"
<1>3. PICK step, carried : Moved(step, carried)
  <2>1. ASSUME NEW blob \in Blobs, Stage(w, blob)
        PROVE  Moved("staged", blob)
    BY <2>1 DEF Stage, Goto, Installing
  <2>2. ASSUME NEW blob \in Blobs, PutExisting(w, blob)
        PROVE  Moved(Installed, blob)
    BY <2>2 DEF PutExisting, Goto, Installed, Whole
  <2>3. ASSUME NEW blob \in Blobs, PutExistingV2(w, blob)
        PROVE  Moved("idle", {})
    BY <2>3 DEF PutExistingV2, Return, Goto, Installing
  <2>4. CASE Link(w)
    <3>1. writer' = [writer EXCEPT ![w] = [at |-> Installed, blob |-> writer[w].blob]]
      BY <2>4 DEF Link, Goto
    <3>2. writer[w].blob \in Whole'
      BY <2>4 DEF Link, Whole, files
    <3>3. PerBlob => Installed # "noting"
      BY DEF Installed
    <3>4. QED
      BY <3>1, <3>2, <3>3
  <2>5. CASE SyncDirectory(w)
    <3>1. /\ writer' = [writer EXCEPT ![w] = [at |-> "entered", blob |-> writer[w].blob]]
          /\ writer[w].at \in Installing
      BY <2>5 DEF SyncDirectory, Goto, At, Installing
    <3>2. QED
      BY <1>1, <1>2, <3>1
  <2>6. ASSUME SyncInstalled(w) \/ NotePending(w) \/ PutFails(w)
        PROVE  Moved("idle", {})
    BY <2>6 DEF SyncInstalled, NotePending, PutFails, Return, Goto, Installing
  <2>7. CASE \E blob \in Blobs : Stage(w, blob) \/ PutExisting(w, blob) \/ PutExistingV2(w, blob)
    BY <2>1, <2>2, <2>3, <2>7
  <2>8. QED
    BY <2>4, <2>5, <2>6, <2>7 DEF WriterNext
<1>4. \A v \in Writers : writer'[v].at \in Installing => writer'[v].blob \in Whole'
  BY <1>1, <1>2, <1>3
<1>5. \A v \in Writers : PerBlob => writer'[v].at # "noting"
  BY <1>2, <1>3
<1>6. delivered' \subseteq Promised' /\ (PerBlob => pending' = {})
  <2>1. ASSUME NEW blob \in Blobs, PutExistingV2(w, blob)
        PROVE  delivered' \subseteq Promised' /\ pending' = pending
    <3>1. blob \in Promised'
      BY <2>1 DEF PutExistingV2, Covered, Promised, Whole
    <3>2. QED
      BY <1>1, <1>2, <2>1, <3>1 DEF PutExistingV2, Return
  <2>2. CASE SyncInstalled(w)
    <3>1. writer[w].blob \in Promised' /\ pending' = pending
      BY <1>2, <2>2 DEF SyncInstalled, At, Installing, Promised, Whole
    <3>2. QED
      BY <1>1, <1>2, <2>2, <3>1 DEF SyncInstalled, Return
  <2>3. CASE NotePending(w)
    <3>1. writer[w].blob \in Promised' /\ ~ PerBlob
      BY <1>2, <2>3 DEF NotePending, At, Installing, Promised, Whole, files
    <3>2. QED
      BY <1>1, <1>2, <2>3, <3>1 DEF NotePending, Return
  <2>4. CASE Link(w) \/ SyncDirectory(w) \/ PutFails(w)
    BY <1>1, <1>2, <2>4 DEF Link, SyncDirectory, PutFails, memory
  <2>5. ASSUME NEW blob \in Blobs, Stage(w, blob) \/ PutExisting(w, blob)
        PROVE  delivered' \subseteq Promised' /\ pending' = pending
    BY <1>1, <1>2, <2>5 DEF Stage, PutExisting, memory
  <2>6. QED
    BY <1>2, <2>1, <2>2, <2>3, <2>4, <2>5 DEF WriterNext
<1>7. QED
  BY <1>4, <1>5, <1>6 DEF WriterInv

(* Without overlap no put begins, and none is left, while one publishes.   *)
LEMMA WriterAlone ==
    ASSUME DurableInv, ~ Overlap, NEW w \in Writers, WriterNext(w)
    PROVE  publisher.at = "idle"
<1> SUFFICES ASSUME publisher.at # "idle"
             PROVE  FALSE
  OBVIOUS
<1>1. writer = NoWriter
  BY DEF DurableInv, PublisherInv
<1>2. writer[w].at = "idle"
  BY <1>1 DEF NoWriter
<1>3. QED
  BY <1>2 DEF WriterNext, Stage, PutExisting, PutExistingV2, Link, SyncDirectory,
              SyncInstalled, NotePending, PutFails, Free, At

LEMMA WriterDurable ==
    ASSUME DurableInv, Covered, NEW w \in Writers, WriterNext(w)
    PROVE  DurableInv'
<1>1. /\ NumberInv'
      /\ UNCHANGED <<catalog, candidates, running, poisoned, publisher>>
  BY WriterNumber DEF DurableInv, manifests
<1>2. /\ Promised \subseteq Promised' /\ Intact \subseteq Intact'
      /\ \A b \in visible : b \in synced => b \in synced'
  BY WriterGrows
<1>3. PublisherInv'
  <2>1. CASE publisher.at = "idle"
    BY <1>1, <2>1 DEF PublisherInv
  <2>2. CASE publisher.at # "idle"
    <3>1. Overlap /\ PerBlob
      BY <2>2, WriterAlone DEF Covered
    <3>2. QED
      BY <1>1, <1>2, <3>1 DEF DurableInv, PublisherInv
  <2>3. QED
    BY <2>1, <2>2
<1>4. CatalogInv'
  BY <1>1, <1>2 DEF DurableInv, CatalogInv, PublishedIsDurable
<1>5. QED
  BY <1>1, <1>3, <1>4, WriterPlaces DEF DurableInv

(* The barrier leaves nothing of the manifest unsynced, then unlinked.     *)
LEMMA PublisherDurable ==
    ASSUME DurableInv, Covered, PublisherNext
    PROVE  DurableInv'
<1> USE DEF DurableInv
<1>1. NumberInv' /\ publisher \in
        [at : {"idle", "barrier", "removing", "replacing", "replaced", "rooted"},
         refs : SUBSET Blobs, name : Blobs \cup {{}}]
  BY PublisherNumber DEF NumberInv, TypeOK
<1>2. CASE \E refs \in SUBSET Blobs : Begin(refs)
  <2>1. PICK refs \in SUBSET Blobs : Begin(refs)
    BY <1>2
  <2>2. refs \subseteq Promised
    <3>1. catalog.refs \subseteq Promised
      BY DEF CatalogInv, PublishedIsDurable, Intact, Promised, Whole
    <3>2. QED
      BY <2>1, <3>1 DEF Begin, WriterInv
  <2>3. /\ UNCHANGED <<files, manifests, running, memory, writer>>
        /\ publisher' = [at |-> "barrier", refs |-> refs, name |-> {}]
        /\ Overlap \/ writer = NoWriter
        /\ publisher.at = "idle"
    BY <2>1 DEF Begin, Publishing
  <2>4. Whole' = Whole /\ Promised' = Promised /\ Intact' = Intact
    BY <2>3 DEF Whole, Promised, Intact, files, memory
  <2>5. WriterInv'
    BY <2>3, <2>4 DEF WriterInv, memory, files
  <2>6. PublisherInv'
    BY <2>2, <2>3, <2>4 DEF PublisherInv
  <2>7. CatalogInv'
    BY <2>3, <2>4 DEF CatalogInv, PublishedIsDurable, manifests, memory
  <2>8. QED
    BY <1>1, <2>5, <2>6, <2>7
<1>3. CASE \E blob \in Blobs : SyncPending(blob)
  <2>1. PICK blob \in Blobs : SyncPending(blob)
    BY <1>3
  <2>2. /\ UNCHANGED <<visible, linked, torn, manifests, running, memory, writer>>
        /\ publisher.at = "barrier"
        /\ blob \in pending
        /\ synced' = IF blob \in visible THEN synced \cup {blob} ELSE synced
        /\ publisher' = [publisher EXCEPT !.at = "removing", !.name = blob]
    BY <2>1 DEF SyncPending, Publishing
  <2>3. ~ PerBlob
    BY <2>2 DEF WriterInv
  <2>4. Whole' = Whole /\ Promised \subseteq Promised' /\ Intact \subseteq Intact'
    BY <2>2 DEF Whole, Promised, Intact, memory
  <2>5. WriterInv'
    BY <2>2, <2>4 DEF WriterInv, memory
  <2>6. PublisherInv'
    BY <1>1, <2>2, <2>3, <2>4 DEF PublisherInv
  <2>7. CatalogInv'
    BY <1>1, <2>2, <2>4 DEF CatalogInv, PublishedIsDurable, manifests, memory
  <2>8. QED
    BY <1>1, <2>5, <2>6, <2>7
<1>4. CASE RemovePending
  <2>1. /\ UNCHANGED <<files, manifests, running, delivered, poisoned, writer>>
        /\ publisher.at = "removing"
        /\ pending' = pending \ {publisher.name}
        /\ publisher' = [publisher EXCEPT !.at = "barrier", !.name = {}]
    BY <1>4 DEF RemovePending, Publishing
  <2>2. ~ PerBlob /\ (publisher.name \in visible => publisher.name \in synced)
    BY <2>1 DEF PublisherInv
  <2>3. Whole' = Whole /\ Promised' = Promised /\ Intact' = Intact
    BY <2>1, <2>2 DEF Whole, Promised, Intact, files
  <2>4. WriterInv'
    BY <2>1, <2>2, <2>3 DEF WriterInv
  <2>5. PublisherInv'
    BY <1>1, <2>1, <2>3 DEF PublisherInv
  <2>6. CatalogInv'
    BY <1>1, <2>1, <2>3 DEF CatalogInv, PublishedIsDurable, manifests
  <2>7. QED
    BY <1>1, <2>4, <2>5, <2>6
<1>5. CASE SyncBlobs
  <2>1. /\ UNCHANGED <<visible, synced, torn, manifests, running, memory, writer>>
        /\ publisher.at = "barrier" /\ pending = {}
        /\ linked' = visible
        /\ publisher' = [publisher EXCEPT !.at = "replacing"]
    BY <1>5 DEF SyncBlobs, Publishing
  <2>2. Whole' = Whole /\ Promised' = Promised /\ Intact \subseteq Intact' /\ Promised \subseteq Intact'
    BY <2>1 DEF Whole, Promised, Intact, memory
  <2>3. WriterInv'
    BY <2>1, <2>2 DEF WriterInv, memory
  <2>4. PublisherInv'
    BY <1>1, <2>1, <2>2 DEF PublisherInv
  <2>5. CatalogInv'
    BY <1>1, <2>1, <2>2 DEF CatalogInv, PublishedIsDurable, manifests, memory
  <2>6. QED
    BY <1>1, <2>3, <2>4, <2>5
<1>6. CASE Replace
  <2>1. /\ UNCHANGED <<files, running, memory, writer>>
        /\ publisher.at = "replacing"
        /\ catalog'.refs = publisher.refs
        /\ candidates' = candidates \cup {catalog'}
        /\ publisher' = [publisher EXCEPT !.at = "replaced"]
    BY <1>6 DEF Replace, Publishing
  <2>2. Whole' = Whole /\ Promised' = Promised /\ Intact' = Intact
    BY <2>1 DEF Whole, Promised, Intact, files, memory
  <2>3. WriterInv'
    BY <2>1, <2>2 DEF WriterInv, files, memory
  <2>4. PublisherInv'
    BY <1>1, <2>1, <2>2 DEF PublisherInv
  <2>5. CatalogInv'
    BY <1>1, <2>1, <2>2 DEF CatalogInv, PublishedIsDurable, PublisherInv
  <2>6. QED
    BY <1>1, <2>3, <2>4, <2>5
<1>7. CASE SyncRoot
  <2>1. /\ UNCHANGED <<files, catalog, running, memory, writer>>
        /\ publisher.at = "replaced"
        /\ candidates' = {catalog}
        /\ publisher' = [publisher EXCEPT !.at = "rooted"]
    BY <1>7 DEF SyncRoot, Publishing
  <2>2. Whole' = Whole /\ Promised' = Promised /\ Intact' = Intact
    BY <2>1 DEF Whole, Promised, Intact, files, memory
  <2>3. WriterInv'
    BY <2>1, <2>2 DEF WriterInv, files, memory
  <2>4. PublisherInv'
    BY <1>1, <2>1, <2>2 DEF PublisherInv
  <2>5. CatalogInv'
    BY <1>1, <2>1, <2>2 DEF CatalogInv, PublishedIsDurable
  <2>6. QED
    BY <1>1, <2>3, <2>4, <2>5
<1>8. CASE Published \/ PublishFails
  <2>1. /\ UNCHANGED <<files, manifests, running, pending, delivered, writer>>
        /\ publisher' = NoPublisher
        /\ \/ publisher.at # "replaced" /\ poisoned' = poisoned
           \/ poisoned' = TRUE
    BY <1>8 DEF Published, PublishFails, Publishing, memory
  <2>2. Whole' = Whole /\ Promised' = Promised /\ Intact' = Intact
    BY <2>1 DEF Whole, Promised, Intact, files
  <2>3. WriterInv'
    BY <2>1, <2>2 DEF WriterInv, files
  <2>4. PublisherInv'
    BY <2>1 DEF PublisherInv, NoPublisher
  <2>5. CatalogInv'
    BY <2>1, <2>2 DEF CatalogInv, PublishedIsDurable, manifests
  <2>6. QED
    BY <1>1, <2>3, <2>4, <2>5
<1>9. QED
  BY <1>2, <1>3, <1>4, <1>5, <1>6, <1>7, <1>8 DEF PublisherNext

(* A collection takes what no manifest that may be read refers to.         *)
LEMMA CollectDurable ==
    ASSUME DurableInv, NEW removed \in SUBSET Blobs, Collect(removed) \/ CollectFails(removed)
    PROVE  NumberInv' => DurableInv'
<1> USE DEF DurableInv
<1>1. /\ UNCHANGED <<synced, catalog, candidates, running, pending, poisoned, writer, publisher>>
      /\ writer = NoWriter /\ publisher.at = "idle"
      /\ candidates = {catalog}
      /\ removed \cap catalog.refs = {}
      /\ visible' = visible \ removed /\ torn' = torn \ removed
      /\ delivered' = delivered \ removed
      /\ linked' \in {linked, visible'}
  BY DEF Collect, CollectFails, Remove, Quiet, CatalogInv, NoPublisher, manifests
<1>2. WriterInv'
  BY <1>1 DEF WriterInv, NoWriter, Installing, Promised, Whole
<1>3. PublisherInv'
  BY <1>1 DEF PublisherInv
<1>4. CatalogInv'
  BY <1>1 DEF CatalogInv, PublishedIsDurable, Intact
<1>5. QED
  BY <1>2, <1>3, <1>4

(* What is intact survives the end of the process and a loss of power.     *)
LEMMA StopDurable ==
    ASSUME DurableInv, Stop \/ PowerLoss \/ Open
    PROVE  NumberInv' => DurableInv'
<1> USE DEF DurableInv
<1>1. Intact \subseteq Intact' /\ candidates' \cup {catalog'} \subseteq candidates \cup {catalog}
  <2>1. CASE Stop
    BY <2>1 DEF Stop, Intact, files, manifests
  <2>2. CASE PowerLoss
    BY <2>2 DEF PowerLoss, Intact
  <2>3. CASE Open
    BY <2>3 DEF Open, Intact
  <2>4. QED
    BY <2>1, <2>2, <2>3
<1>2. PublishedIsDurable'
  BY <1>1 DEF CatalogInv, PublishedIsDurable
<1>3. CASE Stop \/ PowerLoss
  <2>1. Stopped
    BY <1>3 DEF Stop, PowerLoss
  <2>2. WriterInv' /\ PublisherInv'
    BY <2>1 DEF Stopped, NoWriter, NoPublisher, WriterInv, PublisherInv, Installing
  <2>3. CatalogInv'
    BY <1>2, <2>1 DEF Stopped, CatalogInv
  <2>4. QED
    BY <2>2, <2>3
<1>4. CASE Open
  <2>1. /\ UNCHANGED <<visible, synced, torn, memory, writer, publisher>>
        /\ candidates' = {catalog} /\ catalog' = catalog
    BY <1>4 DEF Open
  <2>2. WriterInv' /\ PublisherInv'
    BY <1>1, <2>1 DEF WriterInv, PublisherInv, Promised, Whole, memory
  <2>3. CatalogInv'
    BY <1>2, <2>1 DEF CatalogInv
  <2>4. QED
    BY <2>2, <2>3
<1>5. QED
  BY <1>3, <1>4

LEMMA NextDurable ==
    ASSUME DurableInv, Covered, [Next]_vars
    PROVE  DurableInv'
<1>1. NumberInv'
  BY NextNumber DEF DurableInv
<1>2. CASE UNCHANGED vars
  <2>1. /\ UNCHANGED <<visible, linked, synced, torn, catalog, candidates, running, pending,
                       delivered, poisoned, writer, publisher>>
    BY <1>2 DEF vars, files, manifests, memory
  <2>2. WriterInv' /\ PublisherInv' /\ CatalogInv'
    BY <2>1 DEF DurableInv, WriterInv, PublisherInv, CatalogInv, PublishedIsDurable,
                Whole, Promised, Intact
  <2>3. QED
    BY <1>1, <2>2 DEF DurableInv
<1>3. QED
  BY <1>1, <1>2, WriterDurable, PublisherDurable, CollectDurable, StopDurable DEF Next

(* Every blob of every manifest that may be found survives a loss of power:*)
(* under per_blob always, and under pre_publish when buckets are put by    *)
(* putBlob and puts do not overlap a publication.                          *)
THEOREM ManifestsAreDurable ==
    ASSUME Covered
    PROVE  Spec => []PublishedIsDurable
<1>1. DurableInv /\ [Next]_vars => DurableInv'
  BY NextDurable
<1>2. Spec => []DurableInv
  BY <1>1, InitDurable, PTL DEF Spec
<1>3. DurableInv => PublishedIsDurable
  BY DEF DurableInv, CatalogInv
<1>4. QED
  BY <1>2, <1>3, PTL

-----------------------------------------------------------------------------
(* What a put returned under per_blob. *)
ReturnedInv ==
    /\ DurableInv
    /\ returned \subseteq linked
    /\ \A w \in Writers : writer[w].at = "entered" => writer[w].blob \in linked

LEMMA NextReturned ==
    ASSUME ReturnedInv, PerBlob, [Next]_vars
    PROVE  ReturnedInv'
<1>1. DurableInv'
  BY NextDurable DEF ReturnedInv, Covered
<1>2. /\ writer \in [Writers -> [at : {"idle", "staged", "entering", "entered", "noting"},
                                 blob : Blobs \cup {{}}]]
      /\ returned \subseteq visible \cap linked
      /\ \A w \in Writers : writer[w].at \in Installing => writer[w].blob \in visible
      /\ \A w \in Writers : writer[w].at # "noting"
      /\ \A w \in Writers : writer[w].at = "entered" => writer[w].blob \in linked
  BY DEF ReturnedInv, DurableInv, NumberInv, TypeOK, WriterInv, Whole, Promised
<1>3. ASSUME NEW w \in Writers, WriterNext(w)
      PROVE  ReturnedInv'
  <2>1. CASE \E blob \in Blobs : Stage(w, blob) \/ PutExisting(w, blob) \/ PutExistingV2(w, blob)
    BY <1>1, <1>2, <2>1
       DEF Stage, PutExisting, PutExistingV2, Return, Goto, Installed, ReturnedInv, files, memory
  <2>2. CASE Link(w)
    BY <1>1, <1>2, <2>2 DEF Link, Goto, Installed, ReturnedInv, memory, Installing
  <2>3. CASE SyncDirectory(w)
    BY <1>1, <1>2, <2>3 DEF SyncDirectory, Goto, At, ReturnedInv, memory, Installing
  <2>4. CASE SyncInstalled(w)
    BY <1>1, <1>2, <2>4 DEF SyncInstalled, Return, Goto, At, ReturnedInv
  <2>5. CASE NotePending(w)
    BY <1>2, <2>5 DEF NotePending, At
  <2>6. CASE PutFails(w)
    BY <1>1, <1>2, <2>6 DEF PutFails, Goto, ReturnedInv, files, memory
  <2>7. QED
    BY <1>3, <2>1, <2>2, <2>3, <2>4, <2>5, <2>6 DEF WriterNext
<1>4. CASE PublisherNext
  <2>1. returned' = returned /\ writer' = writer /\ linked' \in {linked, visible}
    BY <1>4 DEF PublisherNext, Begin, SyncPending, RemovePending, SyncBlobs, Replace, SyncRoot,
                Published, PublishFails, files, memory
  <2>2. QED
    BY <1>1, <1>2, <2>1 DEF ReturnedInv, Installing
<1>5. ASSUME NEW removed \in SUBSET Blobs, Collect(removed) \/ CollectFails(removed)
      PROVE  ReturnedInv'
  <2>1. /\ writer' = writer /\ writer = NoWriter
        /\ returned' = returned \ removed /\ visible' = visible \ removed
        /\ linked' \in {linked, visible'}
    BY <1>5 DEF Collect, CollectFails, Remove, Quiet
  <2>2. QED
    BY <1>1, <1>2, <2>1 DEF ReturnedInv, NoWriter
<1>6. CASE Stop \/ PowerLoss
  BY <1>1, <1>6 DEF Stop, PowerLoss, Stopped, NoWriter, ReturnedInv
<1>7. CASE Open
  BY <1>1, <1>2, <1>7 DEF Open, ReturnedInv, memory, Installing
<1>8. CASE UNCHANGED vars
  BY <1>1, <1>2, <1>8 DEF vars, files, memory, ReturnedInv
<1>9. QED
  BY <1>3, <1>4, <1>5, <1>6, <1>7, <1>8 DEF Next

(* Under per_blob what putBlob, the merges and, of a new name, putBucketV2 *)
(* have returned is durable, bytes and entry, before any publication.      *)
THEOREM ReturnedStays ==
    ASSUME PerBlob
    PROVE  Spec => []ReturnedIsDurable
<1>1. Init => ReturnedInv
  BY InitDurable DEF Init, ReturnedInv, NoWriter
<1>2. ReturnedInv /\ [Next]_vars => ReturnedInv'
  BY NextReturned
<1>3. ReturnedInv => ReturnedIsDurable
  BY DEF ReturnedInv, DurableInv, NumberInv, TypeOK, WriterInv, Promised, Whole,
         ReturnedIsDurable, Intact
<1>4. QED
  BY <1>1, <1>2, <1>3, PTL DEF Spec

-----------------------------------------------------------------------------
(* The read index. *)

Pointers == Slots \cup {Nil}

Lists == [newest : Pointers, oldest : Pointers,
          newer : [Slots -> Pointers], older : [Slots -> Pointers]]

(* A sequence with an element in front, and one without its i-th.          *)
Put(q, x) == [j \in 1..(Len(q) + 1) |-> IF j = 1 THEN x ELSE q[j - 1]]

Cut(q, i) == [j \in 1..(Len(q) - 1) |-> IF j < i THEN q[j] ELSE q[j + 1]]

Distinct(q) == \A i, j \in 1..Len(q) : i # j => q[i] # q[j]

Elements(q) == {q[i] : i \in 1..Len(q)}

LEMMA PutIs ==
    ASSUME NEW S, NEW q \in Seq(S), NEW x \in S, Distinct(q), x \notin Elements(q)
    PROVE  /\ Put(q, x) \in Seq(S) /\ Len(Put(q, x)) = Len(q) + 1
           /\ Elements(Put(q, x)) = Elements(q) \cup {x}
           /\ Distinct(Put(q, x))
<1>1. Len(q) \in Nat
  OBVIOUS
<1>2. \A j \in 1..(Len(q) + 1) : Put(q, x)[j] = IF j = 1 THEN x ELSE q[j - 1]
  BY DEF Put
<1>3. Put(q, x) \in Seq(S) /\ Len(Put(q, x)) = Len(q) + 1
  <2>1. \A j \in 1..(Len(q) + 1) : (IF j = 1 THEN x ELSE q[j - 1]) \in S
    BY <1>1
  <2>2. Put(q, x) \in [1..(Len(q) + 1) -> S]
    BY <2>1 DEF Put
  <2>. QED
    BY <1>1, <2>2
<1>4. Elements(Put(q, x)) = Elements(q) \cup {x}
  <2>1. \A i \in 1..Len(q) : i + 1 \in 1..(Len(q) + 1) /\ Put(q, x)[i + 1] = q[i]
    BY <1>1, <1>2
  <2>2. 1 \in 1..(Len(q) + 1) /\ Put(q, x)[1] = x
    BY <1>1, <1>2
  <2>3. \A j \in 1..(Len(q) + 1) : j = 1 \/ j - 1 \in 1..Len(q)
    BY <1>1
  <2>4. ASSUME NEW y \in Elements(Put(q, x)) PROVE y \in Elements(q) \cup {x}
    BY <1>2, <1>3, <2>3 DEF Elements
  <2>5. ASSUME NEW y \in Elements(q) PROVE y \in Elements(Put(q, x))
    BY <1>3, <2>1 DEF Elements
  <2>6. x \in Elements(Put(q, x))
    BY <1>3, <2>2 DEF Elements
  <2>. QED
    BY <2>4, <2>5, <2>6
<1>5. Distinct(Put(q, x))
  <2> SUFFICES ASSUME NEW i \in 1..(Len(q) + 1), NEW j \in 1..(Len(q) + 1), i # j
               PROVE  Put(q, x)[i] # Put(q, x)[j]
    BY <1>3 DEF Distinct
  <2>1. /\ i = 1 \/ i - 1 \in 1..Len(q)
        /\ j = 1 \/ j - 1 \in 1..Len(q)
    BY <1>1
  <2>. QED
    BY <1>2, <2>1 DEF Distinct, Elements
<1>. QED
  BY <1>3, <1>4, <1>5

LEMMA PutInFront ==
    ASSUME NEW S, NEW q \in Seq(S), NEW x \in S, Distinct(q), x \notin Elements(q)
    PROVE  <<x>> \o q = Put(q, x)
<1>1. Len(q) \in Nat
  OBVIOUS
<1>2. \A j \in 1..(Len(q) + 1) : Put(q, x)[j] = IF j = 1 THEN x ELSE q[j - 1]
  BY DEF Put
<1>3. Put(q, x) \in Seq(S) /\ Len(Put(q, x)) = Len(q) + 1
  BY PutIs
<1>4. <<x>> \o q \in Seq(S) /\ Len(<<x>> \o q) = Len(q) + 1
  OBVIOUS
<1>5. ASSUME NEW j \in 1..(Len(q) + 1)
      PROVE  (<<x>> \o q)[j] = Put(q, x)[j]
  BY <1>1, <1>2
<1>6. Len(<<x>> \o q) = Len(Put(q, x))
  BY <1>3, <1>4
<1>7. \A j \in 1..Len(<<x>> \o q) : (<<x>> \o q)[j] = Put(q, x)[j]
  BY <1>4, <1>5
<1>. QED
  BY <1>3, <1>4, <1>6, <1>7, SeqEqual

LEMMA CutIs ==
    ASSUME NEW S, NEW q \in Seq(S), NEW i \in 1..Len(q), Distinct(q)
    PROVE  /\ Cut(q, i) \in Seq(S) /\ Len(Cut(q, i)) = Len(q) - 1
           /\ Elements(Cut(q, i)) = Elements(q) \ {q[i]}
           /\ Distinct(Cut(q, i))
<1>1. Len(q) \in Nat /\ Len(q) - 1 \in Nat /\ i \in Nat /\ i >= 1 /\ i <= Len(q)
  OBVIOUS
<1>2. \A j \in 1..(Len(q) - 1) : Cut(q, i)[j] = IF j < i THEN q[j] ELSE q[j + 1]
  BY DEF Cut
<1>3. Cut(q, i) \in Seq(S) /\ Len(Cut(q, i)) = Len(q) - 1
  <2>1. \A j \in 1..(Len(q) - 1) : (IF j < i THEN q[j] ELSE q[j + 1]) \in S
    BY <1>1
  <2>2. Cut(q, i) \in [1..(Len(q) - 1) -> S]
    BY <2>1 DEF Cut
  <2>. QED
    BY <1>1, <2>2
<1>4. Elements(Cut(q, i)) = Elements(q) \ {q[i]}
  <2>1. \A j \in 1..(Len(q) - 1) :
          /\ j < i => j \in 1..Len(q) /\ j # i
          /\ ~ (j < i) => j + 1 \in 1..Len(q) /\ j + 1 # i
    BY <1>1
  <2>2. \A j \in 1..Len(q) :
          /\ j < i => j \in 1..(Len(q) - 1)
          /\ j > i => j - 1 \in 1..(Len(q) - 1) /\ ~ (j - 1 < i) /\ (j - 1) + 1 = j
    BY <1>1
  <2>3. ASSUME NEW j \in 1..(Len(q) - 1)
        PROVE  Cut(q, i)[j] \in Elements(q) \ {q[i]}
    BY <1>2, <2>1 DEF Distinct, Elements
  <2>4. ASSUME NEW j \in 1..Len(q), q[j] # q[i]
        PROVE  q[j] \in Elements(Cut(q, i))
    <3>1. j < i \/ j > i
      BY <1>1, <2>4
    <3>. QED
      BY <1>2, <1>3, <2>2, <3>1 DEF Elements
  <2>. QED
    BY <1>3, <2>3, <2>4 DEF Elements
<1>5. Distinct(Cut(q, i))
  <2> SUFFICES ASSUME NEW j \in 1..(Len(q) - 1), NEW k \in 1..(Len(q) - 1), j # k
               PROVE  Cut(q, i)[j] # Cut(q, i)[k]
    BY <1>3 DEF Distinct
  <2> DEFINE from(n) == IF n < i THEN n ELSE n + 1
  <2>1. from(j) \in 1..Len(q) /\ from(k) \in 1..Len(q) /\ from(j) # from(k)
    BY <1>1
  <2>2. Cut(q, i)[j] = q[from(j)] /\ Cut(q, i)[k] = q[from(k)]
    BY <1>2
  <2> HIDE DEF from
  <2>. QED
    BY <2>1, <2>2 DEF Distinct
<1>. QED
  BY <1>3, <1>4, <1>5

(* What the history does when it takes a hash out. *)
LEMMA WithoutIs ==
    ASSUME NEW S, NEW q \in Seq(S), Distinct(q)
    PROVE  /\ \A i \in 1..Len(q) : Without(q, q[i]) = Cut(q, i)
           /\ \A x : x \notin Elements(q) => Without(q, x) = q
<1>1. ASSUME NEW i \in 1..Len(q)
      PROVE  Without(q, q[i]) = Cut(q, i)
  <2> DEFINE place == CHOOSE j \in DOMAIN q : q[j] = q[i]
             cut == SubSeq(q, 1, i - 1) \o SubSeq(q, i + 1, Len(q))
  <2>1. DOMAIN q = 1..Len(q) /\ Len(q) \in Nat
    OBVIOUS
  <2>2. place = i
    BY <2>1 DEF Distinct
  <2>3. Without(q, q[i]) = cut
    BY <2>1, <2>2 DEF Without
  <2> DEFINE front == SubSeq(q, 1, i - 1)
             rest == SubSeq(q, i + 1, Len(q))
  <2>4. /\ front \in Seq(S) /\ Len(front) = i - 1
        /\ \A j \in 1..(i - 1) : front[j] = q[j]
    <3>1. 1 \in Int /\ i - 1 \in Int /\ \A j \in 1..(i - 1) : q[j] \in S
      BY <2>1
    <3>2. /\ front \in Seq(S)
          /\ Len(front) = IF 1 <= i - 1 THEN (i - 1) - 1 + 1 ELSE 0
          /\ \A j \in 1..((i - 1) - 1 + 1) : front[j] = q[1 + j - 1]
      BY <3>1, SubSeqProperties
    <3> HIDE DEF front
    <3>. QED
      BY <2>1, <3>2
  <2>5. /\ rest \in Seq(S) /\ Len(rest) = Len(q) - i
        /\ \A j \in 1..(Len(q) - i) : rest[j] = q[i + j]
    <3>1. i + 1 \in Int /\ Len(q) \in Int /\ \A j \in (i + 1)..Len(q) : q[j] \in S
      BY <2>1
    <3>2. /\ rest \in Seq(S)
          /\ Len(rest) = IF i + 1 <= Len(q) THEN Len(q) - (i + 1) + 1 ELSE 0
          /\ \A j \in 1..(Len(q) - (i + 1) + 1) : rest[j] = q[(i + 1) + j - 1]
      BY <3>1, SubSeqProperties
    <3> HIDE DEF rest
    <3>4. Len(rest) = Len(q) - i
      <4>1. Len(rest) = IF i + 1 <= Len(q) THEN Len(q) - (i + 1) + 1 ELSE 0
        BY <3>2
      <4>2. i <= Len(q) /\ i \in Nat /\ Len(q) \in Nat
        BY <2>1
      <4>. QED
        BY <4>1, <4>2
    <3>5. ASSUME NEW j \in 1..(Len(q) - i)
          PROVE  rest[j] = q[i + j]
      <4>1. j \in 1..(Len(q) - (i + 1) + 1) /\ (i + 1) + j - 1 = i + j
        BY <2>1
      <4>. QED
        BY <3>2, <4>1
    <3>. QED
      BY <3>2, <3>4, <3>5
  <2>6. /\ cut \in Seq(S) /\ Len(cut) = Len(front) + Len(rest)
        /\ \A j \in 1..(Len(front) + Len(rest)) :
             cut[j] = IF j <= Len(front) THEN front[j] ELSE rest[j - Len(front)]
    <3> HIDE DEF front, rest
    <3>1. cut = front \o rest
      BY DEF front, rest
    <3> HIDE DEF cut
    <3>. QED
      BY <2>4, <2>5, <3>1, ConcatProperties
  <2> HIDE DEF cut, place, front, rest
  <2>7. Cut(q, i) \in Seq(S) /\ Len(Cut(q, i)) = Len(q) - 1
    BY CutIs
  <2>8. Len(cut) = Len(q) - 1
    BY <2>1, <2>4, <2>5, <2>6
  <2>9. ASSUME NEW j \in 1..Len(cut)
        PROVE  cut[j] = Cut(q, i)[j]
    <3>1. CASE j < i
      BY <2>1, <2>4, <2>5, <2>6, <2>8, <3>1 DEF Cut
    <3>2. CASE ~ (j < i)
      <4>1. cut[j] = rest[j - (i - 1)]
        BY <2>1, <2>4, <2>5, <2>6, <2>8, <3>2
      <4>2. j - (i - 1) \in 1..(Len(q) - i) /\ i + (j - (i - 1)) = j + 1
        BY <2>1, <2>8, <3>2
      <4>3. rest[j - (i - 1)] = q[j + 1]
        BY <2>5, <4>2
      <4>. QED
        BY <2>8, <3>2, <4>1, <4>3 DEF Cut
    <3>. QED
      BY <3>1, <3>2
  <2>10. cut = Cut(q, i)
    BY <2>6, <2>7, <2>8, <2>9, SeqEqual
  <2>. QED
    BY <2>3, <2>10
<1>2. ASSUME NEW x, x \notin Elements(q)
      PROVE  Without(q, x) = q
  <2>1. ~ \E i \in DOMAIN q : q[i] = x
    BY <1>2 DEF Elements
  <2>. QED
    BY <2>1 DEF Without
<1>. QED
  BY <1>1, <1>2

(***************************************************************************)
(* InOrder(l, q): the pointers of l, followed from either end, are the     *)
(* slots q, and a slot that is not in the list has no pointers.            *)
(***************************************************************************)
SlotAt(q, i) == IF i \in 1..Len(q) THEN q[i] ELSE Nil

InOrder(l, q) ==
    /\ l \in Lists
    /\ q \in Seq(Slots) /\ Distinct(q)
    /\ l.newest = SlotAt(q, 1) /\ l.oldest = SlotAt(q, Len(q))
    /\ \A i \in 1..Len(q) : /\ l.older[q[i]] = SlotAt(q, i + 1)
                            /\ l.newer[q[i]] = SlotAt(q, i - 1)
    /\ \A s \in Slots \ Elements(q) : l.newer[s] = Nil /\ l.older[s] = Nil

(* Taking a slot out links its two neighbours. *)
LEMMA UnlinkInOrder ==
    ASSUME NEW l, NEW q, InOrder(l, q), NEW i \in 1..Len(q)
    PROVE  InOrder(Unlink(l, q[i]), Cut(q, i))
<1> DEFINE slot == q[i]
           above == SlotAt(q, i - 1)
           below == SlotAt(q, i + 1)
           u == Unlink(l, slot)
           c == Cut(q, i)
<1>1. /\ Nil \notin Slots /\ Len(q) \in Nat /\ i \in Nat /\ i >= 1 /\ i <= Len(q)
      /\ q \in Seq(Slots) /\ Distinct(q) /\ slot \in Slots
      /\ \A j \in 1..Len(q) : q[j] \in Slots
  BY LookupAssumption DEF Nil, InOrder
<1>2. l.newer[slot] = above /\ l.older[slot] = below
  BY DEF InOrder
<1>3. above \in Pointers /\ below \in Pointers
      /\ (above = Nil <=> i = 1) /\ (below = Nil <=> i = Len(q))
  BY <1>1 DEF SlotAt, Pointers
<1>4. /\ u.newest = IF above = Nil THEN below ELSE l.newest
      /\ u.oldest = IF below = Nil THEN above ELSE l.oldest
      /\ \A s \in Slots : u.newer[s] = IF s = slot THEN Nil
                                       ELSE IF s = below THEN above ELSE l.newer[s]
      /\ \A s \in Slots : u.older[s] = IF s = slot THEN Nil
                                       ELSE IF s = above THEN below ELSE l.older[s]
  BY <1>2 DEF Unlink
<1>5. u \in Lists
  <2>1. l.newest \in Pointers /\ l.oldest \in Pointers
        /\ l.newer \in [Slots -> Pointers] /\ l.older \in [Slots -> Pointers]
    BY DEF InOrder, Lists
  <2>. QED
    BY <1>2, <1>3, <2>1 DEF Unlink, Lists, Pointers
<1>6. c \in Seq(Slots) /\ Len(c) = Len(q) - 1 /\ Distinct(c) /\ Elements(c) = Elements(q) \ {slot}
  BY <1>1, CutIs
<1>7. \A j \in 1..Len(c) : c[j] = IF j < i THEN q[j] ELSE q[j + 1]
  BY <1>6 DEF Cut
<1> HIDE DEF u, c
<1>8. /\ SlotAt(c, 1) = IF i = 1 THEN below ELSE SlotAt(q, 1)
      /\ SlotAt(c, Len(c)) = IF i = Len(q) THEN above ELSE SlotAt(q, Len(q))
  BY <1>1, <1>6, <1>7 DEF SlotAt
<1>9. u.newest = SlotAt(c, 1) /\ u.oldest = SlotAt(c, Len(c))
  BY <1>3, <1>4, <1>8 DEF InOrder
<1>10. ASSUME NEW j \in 1..Len(q), j # i
       PROVE  /\ q[j] # slot /\ (q[j] = below <=> j = i + 1) /\ (q[j] = above <=> j = i - 1)
  BY <1>1, <1>10 DEF SlotAt, Distinct
<1>11. ASSUME NEW j \in 1..Len(c)
       PROVE  u.older[c[j]] = SlotAt(c, j + 1) /\ u.newer[c[j]] = SlotAt(c, j - 1)
  <2> DEFINE m == IF j < i THEN j ELSE j + 1
  <2>1. m \in 1..Len(q) /\ m # i /\ c[j] = q[m] /\ q[m] \in Slots
    BY <1>1, <1>6, <1>7
  <2>2. SlotAt(c, j + 1) = IF m = i - 1 THEN below ELSE SlotAt(q, m + 1)
    BY <1>1, <1>6, <1>7 DEF SlotAt
  <2>3. SlotAt(c, j - 1) = IF m = i + 1 THEN above ELSE SlotAt(q, m - 1)
    BY <1>1, <1>6, <1>7 DEF SlotAt
  <2> HIDE DEF m
  <2>4. /\ u.older[q[m]] = IF m = i - 1 THEN below ELSE l.older[q[m]]
        /\ u.newer[q[m]] = IF m = i + 1 THEN above ELSE l.newer[q[m]]
    BY <1>4, <1>10, <2>1
  <2>5. l.older[q[m]] = SlotAt(q, m + 1) /\ l.newer[q[m]] = SlotAt(q, m - 1)
    BY <2>1 DEF InOrder
  <2>. QED
    BY <2>1, <2>2, <2>3, <2>4, <2>5
<1>12. ASSUME NEW s \in Slots \ Elements(c)
       PROVE  u.newer[s] = Nil /\ u.older[s] = Nil
  <2>1. CASE s = slot
    BY <1>4, <2>1
  <2>2. CASE s # slot
    <3>1. s \notin Elements(q)
      BY <1>6, <2>2
    <3>2. s # above /\ s # below
      BY <1>1, <3>1 DEF SlotAt, Elements
    <3>. QED
      BY <1>4, <2>2, <3>1, <3>2 DEF InOrder
  <2>. QED
    BY <2>1, <2>2
<1>13. InOrder(u, c)
  BY <1>5, <1>6, <1>9, <1>11, <1>12 DEF InOrder
<1>. QED
  BY <1>13 DEF u, c

(* A slot that is not in the list goes in front. *)
LEMMA PushInOrder ==
    ASSUME NEW l, NEW q, InOrder(l, q), NEW slot \in Slots, slot \notin Elements(q)
    PROVE  InOrder(Push(l, slot), Put(q, slot))
<1> DEFINE u == Push(l, slot)
           p == Put(q, slot)
<1>1. /\ Nil \notin Slots /\ Len(q) \in Nat
      /\ q \in Seq(Slots) /\ Distinct(q)
      /\ \A j \in 1..Len(q) : q[j] \in Slots /\ q[j] # slot
  BY LookupAssumption DEF Nil, InOrder, Elements
<1>2. l.newest = SlotAt(q, 1) /\ l.oldest = SlotAt(q, Len(q))
  BY DEF InOrder
<1>3. l.newest \in Pointers /\ l.oldest \in Pointers
      /\ l.newer \in [Slots -> Pointers] /\ l.older \in [Slots -> Pointers]
  BY DEF InOrder, Lists
<1>4. /\ u.newest = slot
      /\ u.oldest = IF l.oldest = Nil THEN slot ELSE l.oldest
      /\ \A s \in Slots : u.newer[s] = IF s = l.newest THEN slot ELSE l.newer[s]
      /\ \A s \in Slots : u.older[s] = IF s = slot THEN l.newest ELSE l.older[s]
  BY <1>3 DEF Push
<1>5. u \in Lists
  BY <1>3 DEF Push, Lists, Pointers
<1>6. p \in Seq(Slots) /\ Len(p) = Len(q) + 1 /\ Distinct(p) /\ Elements(p) = Elements(q) \cup {slot}
  <2>1. q \in Seq(Slots) /\ Distinct(q)
    BY <1>1
  <2>. QED
    BY <2>1, PutIs
<1>7. \A j \in 1..Len(p) : p[j] = IF j = 1 THEN slot ELSE q[j - 1]
  BY <1>6 DEF Put
<1> HIDE DEF u, p
<1>8. SlotAt(p, 1) = slot /\ SlotAt(p, Len(p)) = IF Len(q) = 0 THEN slot ELSE SlotAt(q, Len(q))
  BY <1>1, <1>6, <1>7 DEF SlotAt
<1>9. l.oldest = Nil <=> Len(q) = 0
  BY <1>1, <1>2 DEF SlotAt
<1>10. u.newest = SlotAt(p, 1) /\ u.oldest = SlotAt(p, Len(p))
  BY <1>2, <1>4, <1>8, <1>9
<1>11. ASSUME NEW j \in 1..Len(p)
       PROVE  u.older[p[j]] = SlotAt(p, j + 1) /\ u.newer[p[j]] = SlotAt(p, j - 1)
  <2>1. CASE j = 1
    <3>1. p[j] = slot /\ SlotAt(p, j + 1) = SlotAt(q, 1) /\ SlotAt(p, j - 1) = Nil
      BY <1>1, <1>6, <1>7, <2>1 DEF SlotAt
    <3>2. slot # l.newest /\ l.newer[slot] = Nil
      BY <1>1, <1>2 DEF SlotAt, InOrder
    <3>. QED
      BY <1>2, <1>4, <3>1, <3>2
  <2>2. CASE j # 1
    <3> DEFINE m == j - 1
    <3>1. m \in 1..Len(q) /\ p[j] = q[m] /\ q[m] \in Slots /\ q[m] # slot
      BY <1>1, <1>6, <1>7, <2>2
    <3>2. SlotAt(p, j + 1) = SlotAt(q, m + 1)
          /\ SlotAt(p, j - 1) = IF m = 1 THEN slot ELSE SlotAt(q, m - 1)
      BY <1>1, <1>6, <1>7, <2>2 DEF SlotAt
    <3> HIDE DEF m
    <3>3. q[m] = l.newest <=> m = 1
      BY <1>1, <1>2, <3>1 DEF SlotAt, Distinct
    <3>4. l.older[q[m]] = SlotAt(q, m + 1) /\ l.newer[q[m]] = SlotAt(q, m - 1)
      BY <3>1 DEF InOrder
    <3>. QED
      BY <1>4, <3>1, <3>2, <3>3, <3>4
  <2>. QED
    BY <2>1, <2>2
<1>12. ASSUME NEW s \in Slots \ Elements(p)
       PROVE  u.newer[s] = Nil /\ u.older[s] = Nil
  <2>1. s # slot /\ s \notin Elements(q)
    BY <1>6
  <2>2. s # l.newest
    BY <1>1, <1>2, <2>1 DEF SlotAt, Elements
  <2>. QED
    BY <1>4, <2>1, <2>2 DEF InOrder
<1>13. InOrder(u, p)
  BY <1>5, <1>6, <1>10, <1>11, <1>12 DEF InOrder
<1>. QED
  BY <1>13 DEF u, p

LEMMA TouchInOrder ==
    ASSUME NEW l, NEW q, InOrder(l, q), NEW i \in 1..Len(q)
    PROVE  InOrder(Touch(l, q[i]), Put(Cut(q, i), q[i]))
<1>1. /\ q \in Seq(Slots) /\ Distinct(q) /\ Len(q) \in Nat /\ q[i] \in Slots
      /\ l.newest = SlotAt(q, 1)
  BY DEF InOrder
<1>2. CASE l.newest = q[i]
  <2>1. i = 1
    BY <1>1, <1>2 DEF SlotAt, Distinct
  <2>2. Put(Cut(q, i), q[i]) = q
    <3>1. /\ Cut(q, i) \in Seq(Slots) /\ Len(Cut(q, i)) = Len(q) - 1
          /\ Distinct(Cut(q, i)) /\ q[i] \notin Elements(Cut(q, i))
      BY <1>1, CutIs
    <3>2. Put(Cut(q, i), q[i]) \in Seq(Slots) /\ Len(Put(Cut(q, i), q[i])) = Len(q)
      <4>1. /\ Put(Cut(q, i), q[i]) \in Seq(Slots)
            /\ Len(Put(Cut(q, i), q[i])) = Len(Cut(q, i)) + 1
        BY <1>1, <3>1, PutIs
      <4>. QED
        BY <1>1, <3>1, <4>1
    <3>3. ASSUME NEW j \in 1..Len(q)
          PROVE  Put(Cut(q, i), q[i])[j] = q[j]
      BY <1>1, <2>1, <3>1 DEF Put, Cut
    <3>. QED
      BY <1>1, <3>2, <3>3
  <2>. QED
    BY <1>2, <2>2 DEF Touch
<1>3. CASE l.newest # q[i]
  <2>1. InOrder(Unlink(l, q[i]), Cut(q, i))
    BY UnlinkInOrder
  <2>2. q[i] \notin Elements(Cut(q, i))
    BY <1>1, CutIs
  <2>3. InOrder(Push(Unlink(l, q[i]), q[i]), Put(Cut(q, i), q[i]))
    BY <1>1, <2>1, <2>2, PushInOrder
  <2>. QED
    BY <1>3, <2>3 DEF Touch
<1>. QED
  BY <1>2, <1>3

-----------------------------------------------------------------------------
(***************************************************************************)
(* The counts.  Counted(ix, m, hd): an index has one reference for each    *)
(* thread that holds it and one for the map.                               *)
(***************************************************************************)
Mapped(m) == {m[h] : h \in Hashes} \ {Nil}

Holders(hd, slot) == {t \in Threads : hd[t] = slot}

Indexes == [Slots -> [hash : Hashes \cup {NoHash}, refs : Nat]]

CountedAt(ix, m, hd, slot) ==
    ix[slot].refs = Cardinality(Holders(hd, slot)) + (IF slot \in Mapped(m) THEN 1 ELSE 0)

Counted(ix, m, hd) == \A slot \in Slots : CountedAt(ix, m, hd, slot)

Keyed(ix, m) == \A h \in Hashes : m[h] # Nil => ix[m[h]].hash = h

Named(ix, hd, sk) == \A t \in Threads : hd[t] # Nil => ix[hd[t]].hash = sk[t]

LEMMA HoldersCount ==
    ASSUME NEW hd, NEW slot
    PROVE  IsFiniteSet(Holders(hd, slot)) /\ Cardinality(Holders(hd, slot)) \in Nat
BY LookupAssumption, FS_Subset, FS_CardinalityType DEF Holders

(* A thread that held nothing takes an index. *)
LEMMA TakeCounted ==
    ASSUME NEW ix \in Indexes, NEW m, NEW hd \in [Threads -> Pointers], Counted(ix, m, hd),
           NEW t \in Threads, hd[t] = Nil, NEW slot \in Slots
    PROVE  Counted([ix EXCEPT ![slot].refs = @ + 1], m, [hd EXCEPT ![t] = slot])
<1> DEFINE ix2 == [ix EXCEPT ![slot].refs = @ + 1]
           hd2 == [hd EXCEPT ![t] = slot]
<1> SUFFICES ASSUME NEW s \in Slots PROVE CountedAt(ix2, m, hd2, s)
  BY DEF Counted
<1>1. CountedAt(ix, m, hd, s)
  BY DEF Counted
<1>2. Nil \notin Slots
  BY LookupAssumption DEF Nil
<1>3. CASE s = slot
  <2>1. Holders(hd2, s) = Holders(hd, s) \cup {t} /\ t \notin Holders(hd, s)
    BY <1>2, <1>3 DEF Holders
  <2>2. Cardinality(Holders(hd2, s)) = Cardinality(Holders(hd, s)) + 1
    BY <2>1, HoldersCount, FS_AddElement
  <2>3. ix2[s].refs = ix[s].refs + 1 /\ ix[s].refs \in Nat
    BY <1>3 DEF Indexes
  <2>. QED
    BY <1>1, <2>2, <2>3, HoldersCount DEF CountedAt
<1>4. CASE s # slot
  <2>1. Holders(hd2, s) = Holders(hd, s)
    BY <1>2, <1>4 DEF Holders
  <2>2. ix2[s] = ix[s]
    BY <1>4 DEF Indexes
  <2> HIDE DEF ix2, hd2
  <2>. QED
    BY <1>1, <2>1, <2>2 DEF CountedAt
<1>. QED
  BY <1>3, <1>4

(* What Released does to each index. *)
LEMMA ReleasedIs ==
    ASSUME NEW ix \in Indexes, NEW slot \in Slots
    PROVE  /\ Released(ix, slot) \in Indexes \/ ix[slot].refs = 0
           /\ \A s \in Slots : s # slot => Released(ix, slot)[s] = ix[s]
           /\ ix[slot].refs # 1 => /\ Released(ix, slot)[slot].refs = ix[slot].refs - 1
                                  /\ Released(ix, slot)[slot].hash = ix[slot].hash
           /\ ix[slot].refs = 1 => Released(ix, slot)[slot].refs = 0
<1>1. ix[slot] \in [hash : Hashes \cup {NoHash}, refs : Nat]
  BY DEF Indexes
<1>2. CASE ix[slot].refs = 1
  <2>1. Released(ix, slot) = [ix EXCEPT ![slot] = FreeSlot]
    BY <1>2 DEF Released
  <2>2. FreeSlot \in [hash : Hashes \cup {NoHash}, refs : Nat] /\ FreeSlot.refs = 0
    BY DEF FreeSlot
  <2>. QED
    BY <1>2, <2>1, <2>2 DEF Indexes
<1>3. CASE ix[slot].refs # 1
  <2>1. Released(ix, slot) = [ix EXCEPT ![slot].refs = @ - 1]
    BY <1>3 DEF Released
  <2>. QED
    BY <1>1, <1>3, <2>1 DEF Indexes
<1>. QED
  BY <1>2, <1>3

(* A thread lets an index go. *)
LEMMA LetGoCounted ==
    ASSUME NEW ix \in Indexes, NEW m, NEW hd \in [Threads -> Pointers], Counted(ix, m, hd),
           NEW t \in Threads, NEW slot \in Slots, hd[t] = slot
    PROVE  /\ ix[slot].refs > 0
           /\ Counted(Released(ix, slot), m, [hd EXCEPT ![t] = Nil])
           /\ ix[slot].refs = 1 =>
                Holders([hd EXCEPT ![t] = Nil], slot) = {} /\ slot \notin Mapped(m)
<1> DEFINE hd2 == [hd EXCEPT ![t] = Nil]
           ix2 == Released(ix, slot)
<1>1. Nil \notin Slots
  BY LookupAssumption DEF Nil
<1>2. Holders(hd2, slot) = Holders(hd, slot) \ {t} /\ t \in Holders(hd, slot)
  BY <1>1 DEF Holders
<1>3. Cardinality(Holders(hd, slot)) = Cardinality(Holders(hd2, slot)) + 1
  <2>1. Cardinality(Holders(hd2, slot)) = Cardinality(Holders(hd, slot)) - 1
    BY <1>2, HoldersCount, FS_RemoveElement
  <2>2. Cardinality(Holders(hd, slot)) \in Nat
    BY HoldersCount
  <2>. QED
    BY <2>1, <2>2
<1>4. CountedAt(ix, m, hd, slot) /\ ix[slot].refs \in Nat
  BY DEF Counted, Indexes
<1>5. ix[slot].refs > 0
  BY <1>3, <1>4, HoldersCount DEF CountedAt
<1>6. ix[slot].refs = 1 => Holders(hd2, slot) = {} /\ slot \notin Mapped(m)
  <2>1. ix[slot].refs = 1 => Cardinality(Holders(hd2, slot)) = 0 /\ slot \notin Mapped(m)
    BY <1>3, <1>4, HoldersCount DEF CountedAt
  <2>. QED
    BY <2>1, HoldersCount, FS_EmptySet
<1>7. ASSUME NEW s \in Slots PROVE CountedAt(ix2, m, hd2, s)
  <2>1. CASE s = slot
    <3>1. ix2[s].refs = ix[s].refs - 1
      BY <1>4, <2>1, ReleasedIs
    <3>. QED
      BY <1>3, <1>4, <2>1, <3>1, HoldersCount DEF CountedAt
  <2>2. CASE s # slot
    <3>1. Holders(hd2, s) = Holders(hd, s)
      BY <1>1, <2>2 DEF Holders
    <3>2. ix2[s] = ix[s]
      BY <2>2, ReleasedIs
    <3>3. CountedAt(ix, m, hd, s)
      BY DEF Counted
    <3>. QED
      BY <3>1, <3>2, <3>3 DEF CountedAt
  <2>. QED
    BY <2>1, <2>2
<1>. QED
  BY <1>5, <1>6, <1>7 DEF Counted

(* A new index, in memory that nobody uses. *)
LEMMA AddIndex ==
    ASSUME NEW ix \in Indexes, NEW m \in [Hashes -> Pointers], NEW hd \in [Threads -> Pointers],
           Counted(ix, m, hd), Keyed(ix, m),
           NEW h \in Hashes, m[h] = Nil, NEW slot \in Slots, ix[slot].refs = 0
    PROVE  LET ix2 == [ix EXCEPT ![slot] = [hash |-> h, refs |-> 1]]
               m2  == [m EXCEPT ![h] = slot]
           IN  /\ ix2 \in Indexes /\ m2 \in [Hashes -> Pointers]
               /\ Mapped(m2) = Mapped(m) \cup {slot} /\ slot \notin Mapped(m)
               /\ Holders(hd, slot) = {}
               /\ Counted(ix2, m2, hd) /\ Keyed(ix2, m2)
<1> DEFINE ix2 == [ix EXCEPT ![slot] = [hash |-> h, refs |-> 1]]
           m2 == [m EXCEPT ![h] = slot]
<1>1. Nil \notin Slots
  BY LookupAssumption DEF Nil
<1>2. Holders(hd, slot) = {} /\ slot \notin Mapped(m)
  <2>1. Cardinality(Holders(hd, slot)) = 0 /\ slot \notin Mapped(m)
    BY HoldersCount DEF Counted, CountedAt
  <2>. QED
    BY <2>1, HoldersCount, FS_EmptySet
<1>3. ix2 \in Indexes /\ m2 \in [Hashes -> Pointers]
  BY DEF Indexes, Pointers
<1>4. Mapped(m2) = Mapped(m) \cup {slot}
  BY <1>1 DEF Mapped
<1>5. ASSUME NEW s \in Slots PROVE CountedAt(ix2, m2, hd, s)
  <2>1. CASE s = slot
    <3>1. ix2[s].refs = 1
      BY <2>1 DEF Indexes
    <3>2. Cardinality(Holders(hd, s)) = 0
      BY <1>2, <2>1, FS_EmptySet
    <3>3. s \in Mapped(m2)
      BY <1>4, <2>1
    <3>. QED
      BY <3>1, <3>2, <3>3 DEF CountedAt
  <2>2. CASE s # slot
    <3>1. ix2[s] = ix[s] /\ (s \in Mapped(m2) <=> s \in Mapped(m))
      BY <1>4, <2>2 DEF Indexes
    <3>2. CountedAt(ix, m, hd, s)
      BY DEF Counted
    <3>. QED
      BY <3>1, <3>2 DEF CountedAt
  <2>. QED
    BY <2>1, <2>2
<1>6. ASSUME NEW g \in Hashes, m2[g] # Nil PROVE ix2[m2[g]].hash = g
  <2>1. CASE g = h
    BY <2>1 DEF Indexes
  <2>2. CASE g # h
    <3>1. m2[g] = m[g] /\ m[g] # slot /\ m[g] \in Slots
      BY <1>2, <1>6, <2>2 DEF Mapped, Pointers
    <3>2. ix2[m[g]] = ix[m[g]]
      BY <3>1 DEF Indexes
    <3>. QED
      BY <1>6, <3>1, <3>2 DEF Keyed
  <2>. QED
    BY <2>1, <2>2
<1>. QED
  BY <1>2, <1>3, <1>4, <1>5, <1>6 DEF Counted, Keyed

(* An eviction: the map lets its index go. *)
LEMMA EvictIndex ==
    ASSUME NEW ix \in Indexes, NEW m \in [Hashes -> Pointers], NEW hd \in [Threads -> Pointers],
           Counted(ix, m, hd), Keyed(ix, m),
           NEW victim \in Mapped(m)
    PROVE  LET ix2 == Released(ix, victim)
               m2  == [m EXCEPT ![ix[victim].hash] = Nil]
           IN  /\ ix[victim].hash \in Hashes /\ m[ix[victim].hash] = victim
               /\ ix2 \in Indexes /\ m2 \in [Hashes -> Pointers]
               /\ Mapped(m2) = Mapped(m) \ {victim}
               /\ Counted(ix2, m2, hd) /\ Keyed(ix2, m2)
               /\ ix[victim].refs = 1 => Holders(hd, victim) = {}
<1> DEFINE ix2 == Released(ix, victim)
           m2 == [m EXCEPT ![ix[victim].hash] = Nil]
<1>1. Nil \notin Slots /\ victim \in Slots
  BY LookupAssumption DEF Nil, Mapped, Pointers
<1>2. ix[victim].hash \in Hashes /\ m[ix[victim].hash] = victim
  BY DEF Mapped, Keyed
<1>3. ix[victim].refs \in Nat /\ ix[victim].refs = Cardinality(Holders(hd, victim)) + 1
  BY <1>1 DEF Indexes, Counted, CountedAt
<1>4. ix2 \in Indexes
  BY <1>1, <1>3, HoldersCount, ReleasedIs
<1>5. m2 \in [Hashes -> Pointers]
  BY DEF Pointers
<1>6. Mapped(m2) = Mapped(m) \ {victim}
  <2>1. \A g \in Hashes : m[g] = victim => g = ix[victim].hash
    BY <1>1 DEF Keyed
  <2>. QED
    BY <1>1, <1>2, <2>1 DEF Mapped
<1>7. ix[victim].refs = 1 => Holders(hd, victim) = {}
  <2>1. ix[victim].refs = 1 => Cardinality(Holders(hd, victim)) = 0
    BY <1>3, HoldersCount
  <2>. QED
    BY <2>1, HoldersCount, FS_EmptySet
<1>8. ASSUME NEW s \in Slots PROVE CountedAt(ix2, m2, hd, s)
  <2>1. CASE s = victim
    <3>1. ix2[s].refs = ix[s].refs - 1
      BY <2>1, ReleasedIs
    <3>2. s \notin Mapped(m2)
      BY <1>6, <2>1
    <3>. QED
      BY <1>3, <2>1, <3>1, <3>2, HoldersCount DEF CountedAt
  <2>2. CASE s # victim
    <3>1. ix2[s] = ix[s] /\ (s \in Mapped(m2) <=> s \in Mapped(m))
      BY <1>1, <1>6, <2>2, ReleasedIs
    <3>2. CountedAt(ix, m, hd, s)
      BY DEF Counted
    <3>. QED
      BY <3>1, <3>2 DEF CountedAt
  <2>. QED
    BY <2>1, <2>2
<1>9. ASSUME NEW g \in Hashes, m2[g] # Nil PROVE ix2[m2[g]].hash = g
  <2>1. g # ix[victim].hash /\ m2[g] = m[g] /\ m[g] \in Slots
    BY <1>9 DEF Pointers
  <2>2. m[g] # victim
    BY <1>9, <2>1 DEF Keyed
  <2>3. ix2[m[g]] = ix[m[g]]
    BY <1>1, <2>1, <2>2, ReleasedIs
  <2>. QED
    BY <1>9, <2>1, <2>3 DEF Keyed
<1>. QED
  BY <1>2, <1>4, <1>5, <1>6, <1>7, <1>8, <1>9 DEF Counted, Keyed

-----------------------------------------------------------------------------
(***************************************************************************)
(* Ordered(l, m, r): the list of the slots of m is in the order of r.      *)
(***************************************************************************)
Keys(m) == {h \in Hashes : m[h] # Nil}

SlotsOf(m, r) == [i \in 1..Len(r) |-> m[r[i]]]

Ordered(l, m, r) ==
    /\ r \in Seq(Hashes) /\ Distinct(r) /\ Elements(r) = Keys(m)
    /\ InOrder(l, SlotsOf(m, r))

(* A key that has an index is somewhere in the order, and so is its slot.  *)
LEMMA PlaceOf ==
    ASSUME NEW l, NEW m \in [Hashes -> Pointers], NEW r, Ordered(l, m, r),
           NEW h \in Hashes, m[h] # Nil
    PROVE  \E i \in 1..Len(r) : r[i] = h /\ SlotsOf(m, r)[i] = m[h]
<1>1. Len(r) \in Nat /\ r \in Seq(Hashes) /\ Elements(r) = Keys(m)
  BY DEF Ordered
<1>2. \A i \in 1..Len(r) : SlotsOf(m, r)[i] = m[r[i]]
  BY <1>1 DEF SlotsOf
<1>3. h \in Elements(r)
  BY <1>1 DEF Keys
<1>. QED
  BY <1>2, <1>3 DEF Elements

LEMMA OrderedSlots ==
    ASSUME NEW l, NEW m \in [Hashes -> Pointers], NEW r, Ordered(l, m, r)
    PROVE  /\ Elements(SlotsOf(m, r)) = Mapped(m) /\ Mapped(m) \in SUBSET Slots
           /\ Len(SlotsOf(m, r)) = Len(r) /\ Len(r) \in Nat
<1>1. Len(r) \in Nat /\ r \in Seq(Hashes) /\ Elements(r) = Keys(m)
  BY DEF Ordered
<1>2. Len(SlotsOf(m, r)) = Len(r)
  BY <1>1 DEF SlotsOf
<1>3. \A i \in 1..Len(r) : SlotsOf(m, r)[i] = m[r[i]] /\ r[i] \in Keys(m)
  BY <1>1 DEF SlotsOf, Elements
<1>4. ASSUME NEW h \in Hashes, m[h] # Nil
      PROVE  \E i \in 1..Len(r) : r[i] = h /\ SlotsOf(m, r)[i] = m[h]
  BY <1>4, PlaceOf
<1>5. Elements(SlotsOf(m, r)) = Mapped(m)
  <2>1. ASSUME NEW slot \in Elements(SlotsOf(m, r)) PROVE slot \in Mapped(m)
    BY <1>2, <1>3 DEF Elements, Mapped, Keys
  <2>2. ASSUME NEW slot \in Mapped(m) PROVE slot \in Elements(SlotsOf(m, r))
    <3>1. PICK h \in Hashes : m[h] = slot /\ slot # Nil
      BY DEF Mapped
    <3>. QED
      BY <1>2, <1>4, <3>1 DEF Elements
  <2>. QED
    BY <2>1, <2>2
<1>6. Mapped(m) \in SUBSET Slots
  BY DEF Mapped, Pointers
<1>. QED
  BY <1>1, <1>2, <1>5, <1>6

LEMMA TouchOrdered ==
    ASSUME NEW l, NEW m \in [Hashes -> Pointers], NEW r, Ordered(l, m, r),
           NEW h \in Hashes, m[h] # Nil
    PROVE  Ordered(Touch(l, m[h]), m, <<h>> \o Without(r, h))
<1> DEFINE q == SlotsOf(m, r)
<1>1. r \in Seq(Hashes) /\ Distinct(r) /\ Elements(r) = Keys(m) /\ InOrder(l, q)
  BY DEF Ordered
<1>2. PICK i \in 1..Len(r) : r[i] = h /\ q[i] = m[h]
  BY PlaceOf
<1>3. Len(q) = Len(r) /\ Len(r) \in Nat
  BY OrderedSlots
<1>4. /\ Cut(r, i) \in Seq(Hashes) /\ Len(Cut(r, i)) = Len(r) - 1
      /\ Elements(Cut(r, i)) = Keys(m) \ {h} /\ Distinct(Cut(r, i))
  BY <1>1, <1>2, CutIs
<1>5. /\ Put(Cut(r, i), h) \in Seq(Hashes) /\ Len(Put(Cut(r, i), h)) = Len(r)
      /\ Elements(Put(Cut(r, i), h)) = Keys(m) /\ Distinct(Put(Cut(r, i), h))
      /\ <<h>> \o Cut(r, i) = Put(Cut(r, i), h)
  <2>1. h \in Keys(m) /\ h \notin Elements(Cut(r, i))
    BY <1>4 DEF Keys
  <2>2. /\ Put(Cut(r, i), h) \in Seq(Hashes) /\ Len(Put(Cut(r, i), h)) = Len(Cut(r, i)) + 1
        /\ Elements(Put(Cut(r, i), h)) = Elements(Cut(r, i)) \cup {h}
        /\ Distinct(Put(Cut(r, i), h))
    BY <1>4, <2>1, PutIs
  <2>3. <<h>> \o Cut(r, i) = Put(Cut(r, i), h)
    BY <1>4, <2>1, PutInFront
  <2>. QED
    BY <1>3, <1>4, <2>1, <2>2, <2>3
<1>6. <<h>> \o Without(r, h) = Put(Cut(r, i), h)
  BY <1>1, <1>2, <1>5, WithoutIs
<1>7. SlotsOf(m, Put(Cut(r, i), h)) = Put(Cut(q, i), q[i])
  <2>1. Len(Cut(q, i)) = Len(r) - 1 /\ Len(Cut(r, i)) = Len(r) - 1
    BY <1>3, <1>4 DEF Cut
  <2>2. ASSUME NEW j \in 1..Len(r)
        PROVE  m[Put(Cut(r, i), h)[j]] = Put(Cut(q, i), q[i])[j]
    <3>1. CASE j = 1
      BY <1>2, <1>3, <2>1, <3>1 DEF Put
    <3>2. CASE j # 1
      <4>1. /\ Put(Cut(r, i), h)[j] = Cut(r, i)[j - 1]
            /\ Put(Cut(q, i), q[i])[j] = Cut(q, i)[j - 1]
        BY <1>3, <2>1, <3>2 DEF Put
      <4>2. m[Cut(r, i)[j - 1]] = Cut(q, i)[j - 1]
        BY <1>3, <3>2 DEF Cut, SlotsOf
      <4>. QED
        BY <4>1, <4>2
    <3>. QED
      BY <3>1, <3>2
  <2>3. Put(Cut(q, i), q[i]) = [j \in 1..Len(r) |-> Put(Cut(q, i), q[i])[j]]
    BY <1>3, <2>1 DEF Put
  <2>. QED
    BY <1>5, <2>2, <2>3 DEF SlotsOf
<1>8. InOrder(Touch(l, q[i]), Put(Cut(q, i), q[i]))
  BY <1>1, <1>2, <1>3, TouchInOrder
<1>. QED
  BY <1>2, <1>5, <1>6, <1>7, <1>8 DEF Ordered

LEMMA PushOrdered ==
    ASSUME NEW l, NEW m \in [Hashes -> Pointers], NEW r, Ordered(l, m, r),
           NEW h \in Hashes, m[h] = Nil, NEW slot \in Slots, slot \notin Mapped(m)
    PROVE  /\ Ordered(Push(l, slot), [m EXCEPT ![h] = slot], <<h>> \o Without(r, h))
           /\ Push(l, slot).oldest \in Mapped(m) \cup {slot}
<1> DEFINE q == SlotsOf(m, r)
           m2 == [m EXCEPT ![h] = slot]
           p == Put(r, h)
<1>1. /\ r \in Seq(Hashes) /\ Distinct(r) /\ Elements(r) = Keys(m) /\ InOrder(l, q)
      /\ Len(r) \in Nat /\ Len(q) = Len(r) /\ Elements(q) = Mapped(m) /\ slot # Nil
  BY OrderedSlots, LookupAssumption DEF Ordered, Nil
<1>2. h \notin Elements(r)
  BY <1>1 DEF Keys
<1>3. r \in Seq(Hashes) /\ Distinct(r)
  BY <1>1
<1>4. /\ p \in Seq(Hashes) /\ Len(p) = Len(r) + 1
      /\ Elements(p) = Keys(m) \cup {h} /\ Distinct(p)
      /\ <<h>> \o Without(r, h) = p
  <2>1. /\ Put(r, h) \in Seq(Hashes) /\ Len(Put(r, h)) = Len(r) + 1
        /\ Elements(Put(r, h)) = Elements(r) \cup {h} /\ Distinct(Put(r, h))
    BY <1>2, <1>3, PutIs
  <2>2. <<h>> \o r = Put(r, h)
    BY <1>2, <1>3, PutInFront
  <2>3. Without(r, h) = r
    BY <1>2, <1>3, WithoutIs
  <2>. QED
    BY <1>1, <2>1, <2>2, <2>3
<1>5. Keys(m2) = Keys(m) \cup {h}
  BY <1>1 DEF Keys
<1>6. SlotsOf(m2, p) = Put(q, slot)
  <2>1. ASSUME NEW j \in 1..(Len(r) + 1)
        PROVE  m2[p[j]] = Put(q, slot)[j]
    <3>1. CASE j = 1
      BY <1>1, <3>1 DEF Put
    <3>2. CASE j # 1
      <4>1. p[j] = r[j - 1] /\ Put(q, slot)[j] = q[j - 1] /\ j - 1 \in 1..Len(r)
        BY <1>1, <3>2 DEF Put
      <4>2. r[j - 1] # h /\ r[j - 1] \in Hashes
        BY <1>1, <1>2, <4>1 DEF Elements
      <4>3. m2[r[j - 1]] = m[r[j - 1]] /\ q[j - 1] = m[r[j - 1]]
        BY <4>1, <4>2 DEF SlotsOf
      <4>. QED
        BY <4>1, <4>3
    <3>. QED
      BY <3>1, <3>2
  <2>2. Put(q, slot) = [j \in 1..(Len(r) + 1) |-> Put(q, slot)[j]]
    BY <1>1 DEF Put
  <2> HIDE DEF p, m2
  <2>. QED
    BY <1>4, <2>1, <2>2 DEF SlotsOf
<1>7. InOrder(Push(l, slot), Put(q, slot))
  BY <1>1, PushInOrder
<1>8. Push(l, slot).oldest \in Mapped(m) \cup {slot}
  <2>1. l.oldest = SlotAt(q, Len(q))
    BY <1>1 DEF InOrder
  <2>2. l.oldest = Nil \/ l.oldest \in Elements(q)
    BY <2>1 DEF SlotAt, Elements
  <2>. QED
    BY <1>1, <2>2 DEF Push
<1> HIDE DEF p, m2
<1>9. Ordered(Push(l, slot), m2, p)
  BY <1>4, <1>5, <1>6, <1>7 DEF Ordered
<1>. QED
  BY <1>4, <1>8, <1>9 DEF p, m2

LEMMA UnlinkOrdered ==
    ASSUME NEW l, NEW m \in [Hashes -> Pointers], NEW r, Ordered(l, m, r),
           NEW h \in Hashes, m[h] # Nil
    PROVE  Ordered(Unlink(l, m[h]), [m EXCEPT ![h] = Nil], Without(r, h))
<1> DEFINE q == SlotsOf(m, r)
           m2 == [m EXCEPT ![h] = Nil]
<1>1. /\ r \in Seq(Hashes) /\ Distinct(r) /\ Elements(r) = Keys(m) /\ InOrder(l, q)
      /\ Len(r) \in Nat /\ Len(q) = Len(r)
  <2>1. Len(r) \in Nat /\ Len(q) = Len(r)
    BY OrderedSlots
  <2>. QED
    BY <2>1 DEF Ordered
<1>2. PICK i \in 1..Len(r) : r[i] = h /\ q[i] = m[h]
  BY PlaceOf
<1> DEFINE c == Cut(r, i)
<1>3. /\ c \in Seq(Hashes) /\ Len(c) = Len(r) - 1
      /\ Elements(c) = Keys(m) \ {h} /\ Distinct(c)
  BY <1>1, <1>2, CutIs
<1>4. Without(r, h) = c
  BY <1>1, <1>2, WithoutIs
<1>5. Keys(m2) = Keys(m) \ {h}
  BY DEF Keys
<1>6. SlotsOf(m2, c) = Cut(q, i)
  <2>1. ASSUME NEW j \in 1..(Len(r) - 1)
        PROVE  m2[c[j]] = Cut(q, i)[j]
    <3>1. c[j] \in Elements(c)
      BY <1>3 DEF Elements
    <3>2. c[j] # h /\ c[j] \in Hashes
      BY <1>3, <3>1 DEF Keys
    <3>3. m[c[j]] = Cut(q, i)[j]
      BY <1>1 DEF Cut, SlotsOf
    <3>. QED
      BY <3>2, <3>3
  <2>2. Cut(q, i) = [j \in 1..(Len(r) - 1) |-> Cut(q, i)[j]]
    BY <1>1 DEF Cut
  <2> HIDE DEF c, m2
  <2>. QED
    BY <1>3, <2>1, <2>2 DEF SlotsOf
<1>7. InOrder(Unlink(l, q[i]), Cut(q, i))
  BY <1>1, <1>2, UnlinkInOrder
<1> HIDE DEF c, m2
<1>8. Ordered(Unlink(l, m[h]), m2, c)
  BY <1>2, <1>3, <1>5, <1>6, <1>7 DEF Ordered
<1>. QED
  BY <1>4, <1>8 DEF m2

(* Following newer from the oldest comes through every slot of the list.   *)
LEMMA LastExists ==
    ASSUME NEW n \in Nat, NEW S \in SUBSET (1..n), S # {}
    PROVE  \E i \in S : \A j \in S : j <= i
<1> DEFINE back == {n - i : i \in S}
<1>1. back \subseteq Nat /\ back # {}
  <2>1. \A i \in S : n - i \in Nat
    OBVIOUS
  <2>. QED
    BY <2>1
<1>2. PICK least \in back : \A m \in back : ~ (<<m, least>> \in OpToRel(<, Nat))
  BY <1>1, WFMin, NatLessThanWellFounded
<1>3. PICK i \in S : least = n - i
  BY <1>2
<1>4. ASSUME NEW j \in S PROVE j <= i
  <2>1. n - j \in back /\ n - j \in Nat /\ least \in Nat
    BY <1>1, <1>2
  <2>2. ~ (n - j < least)
    BY <1>2, <2>1 DEF OpToRel
  <2>. QED
    BY <1>3, <2>2
<1>. QED
  BY <1>4

LEMMA WalkedAll ==
    ASSUME NEW q, InOrder(list, q)
    PROVE  Elements(q) \subseteq Walked
<1>1. q \in Seq(Slots) /\ Len(q) \in Nat /\ Elements(q) \subseteq Slots /\ Nil \notin Slots
  BY LookupAssumption DEF InOrder, Elements, Nil
<1> SUFFICES ASSUME NEW reached \in SUBSET Slots, Followed(reached),
                    NEW k \in 1..Len(q), q[k] \notin reached
             PROVE  FALSE
  BY <1>1 DEF Walked, Elements
<1> DEFINE missed == {j \in 1..Len(q) : q[j] \notin reached}
<1>2. PICK i \in missed : \A j \in missed : j <= i
  <2>1. missed \in SUBSET (1..Len(q)) /\ missed # {}
    OBVIOUS
  <2>. QED
    BY <1>1, <2>1, LastExists
<1>3. i \in 1..Len(q) /\ q[i] \notin reached /\ q[i] # Nil
  BY <1>1, <1>2
<1>4. CASE i = Len(q)
  BY <1>1, <1>3, <1>4 DEF InOrder, SlotAt, Followed
<1>5. CASE i # Len(q)
  <2>1. i + 1 \in 1..Len(q) /\ (i + 1) - 1 = i /\ ~ (i + 1 <= i)
    BY <1>1, <1>3, <1>5
  <2>2. q[i + 1] \in reached
    BY <1>2, <2>1
  <2>3. list.newer[q[i + 1]] = q[i]
    BY <1>3, <2>1 DEF InOrder, SlotAt
  <2>. QED
    BY <1>3, <2>2, <2>3 DEF Followed
<1>. QED
  BY <1>4, <1>5

-----------------------------------------------------------------------------
(***************************************************************************)
(* HoldInv: a thread holds an index exactly while it answers from one, and *)
(* that index is counted, linked and of the bucket the thread asks for.    *)
(***************************************************************************)
Answering == {"warm", "span", "mismatch", "failing"}

Places == Answering \cup {"idle", "acquire", "cold", "install"}

Files == {"absent", "plain", "compressed", "cut"}

TypesInv ==
    /\ file \in [Hashes -> Files]
    /\ index \in Indexes /\ map \in [Hashes -> Pointers]
    /\ held \in [Threads -> Pointers] /\ at \in [Threads -> Places]
    /\ seeks \in [Threads -> Hashes \cup {NoHash}]

PlaceInv ==
    \A t \in Threads : /\ at[t] \in Answering <=> held[t] # Nil
                       /\ at[t] # "idle" => seeks[t] \in Hashes

CacheInv ==
    /\ Ordered(list, map, recency) /\ Counted(index, map, held) /\ Keyed(index, map)
    /\ Cardinality(Keys(map)) <= MaxBuckets

HoldInv == TypesInv /\ PlaceInv /\ CacheInv /\ Named(index, held, seeks)

LEMMA KeysCount ==
    ASSUME NEW m
    PROVE  IsFiniteSet(Keys(m)) /\ Cardinality(Keys(m)) \in Nat
BY LookupAssumption, FS_Subset, FS_CardinalityType DEF Keys

LEMMA EmptyMap ==
    ASSUME NEW m, m = [h \in Hashes |-> Nil]
    PROVE  Mapped(m) = {} /\ Keys(m) = {} /\ Cardinality(Keys(m)) = 0
BY FS_EmptySet DEF Mapped, Keys

LEMMA NobodyHolds ==
    ASSUME NEW hd, \A t \in Threads : hd[t] = Nil, NEW slot \in Slots
    PROVE  Cardinality(Holders(hd, slot)) = 0
<1>1. Holders(hd, slot) = {}
  BY LookupAssumption DEF Holders, Nil
<1>. QED
  BY <1>1, FS_EmptySet

LEMMA EmptyList ==
    ASSUME NEW m, m = [h \in Hashes |-> Nil]
    PROVE  Ordered([newest |-> Nil, oldest |-> Nil,
                    newer |-> [slot \in Slots |-> Nil],
                    older |-> [slot \in Slots |-> Nil]], m, <<>>)
<1>1. <<>> \in Seq(Hashes) /\ Len(<<>>) = 0 /\ SlotsOf(m, <<>>) = <<>>
  BY DEF SlotsOf
<1>2. Distinct(<<>>) /\ Elements(<<>>) = {}
  BY DEF Distinct, Elements
<1>3. InOrder([newest |-> Nil, oldest |-> Nil,
               newer |-> [slot \in Slots |-> Nil], older |-> [slot \in Slots |-> Nil]], <<>>)
  BY <1>2 DEF InOrder, Lists, Pointers, SlotAt
<1>. QED
  BY <1>1, <1>2, <1>3, EmptyMap DEF Ordered

LEMMA HoldInit == LookupInit => HoldInv
<1> SUFFICES ASSUME LookupInit PROVE HoldInv
  OBVIOUS
<1>1. TypesInv
  BY DEF LookupInit, EmptyIndex, TypesInv, Files, Indexes, FreeSlot, Pointers, Places
<1>2. PlaceInv
  BY DEF LookupInit, PlaceInv, Answering
<1>3. Counted(index, map, held)
  <2>1. ASSUME NEW slot \in Slots
        PROVE  Cardinality(Holders(held, slot)) = 0 /\ slot \notin Mapped(map)
    BY EmptyMap, NobodyHolds DEF LookupInit, EmptyIndex
  <2>2. ASSUME NEW slot \in Slots PROVE index[slot].refs = 0
    BY DEF LookupInit, EmptyIndex, FreeSlot
  <2>. QED
    BY <2>1, <2>2 DEF Counted, CountedAt
<1>4. Cardinality(Keys(map)) <= MaxBuckets
  BY EmptyMap, LookupAssumption DEF LookupInit, EmptyIndex
<1>5. Ordered(list, map, recency)
  BY EmptyList DEF LookupInit, EmptyIndex
<1>6. Keyed(index, map) /\ Named(index, held, seeks)
  BY DEF LookupInit, EmptyIndex, Keyed, Named
<1>. QED
  BY <1>1, <1>2, <1>3, <1>4, <1>5, <1>6 DEF HoldInv, CacheInv

(* A thread goes on: only its own place, and what it seeks, change.        *)
LEMMA ProceedMoves ==
    ASSUME TypesInv, NEW t \in Threads, NEW place \in Places, Proceed(t, place)
    PROVE  /\ at' \in [Threads -> Places] /\ seeks' \in [Threads -> Hashes \cup {NoHash}]
           /\ at'[t] = place /\ (place # "idle" => seeks'[t] = seeks[t])
           /\ \A u \in Threads : u # t => at'[u] = at[u] /\ seeks'[u] = seeks[u]
BY DEF Proceed, TypesInv

(* A thread that neither takes nor lets go an index, and leaves the cache. *)
LEMMA MoveHolds ==
    ASSUME HoldInv, NEW t \in Threads, NEW place \in Places, Proceed(t, place),
           at[t] # "idle", at[t] \in Answering <=> place \in Answering,
           UNCHANGED <<file, index, map, held, list, recency>>
    PROVE  HoldInv'
<1>1. at'[t] = place /\ (place # "idle" => seeks'[t] = seeks[t])
      /\ \A u \in Threads : u # t => at'[u] = at[u] /\ seeks'[u] = seeks[u]
  BY ProceedMoves DEF HoldInv
<1>2. TypesInv'
  BY ProceedMoves DEF HoldInv, TypesInv
<1>3. PlaceInv'
  BY <1>1 DEF HoldInv, PlaceInv
<1>4. CacheInv'
  BY DEF HoldInv, CacheInv
<1>5. Named(index, held, seeks)'
  <2>1. held[t] # Nil => seeks'[t] = seeks[t]
    BY <1>1 DEF HoldInv, PlaceInv, Answering
  <2>. QED
    BY <1>1, <2>1 DEF HoldInv, Named
<1>. QED
  BY <1>2, <1>3, <1>4, <1>5 DEF HoldInv

LEMMA CallHolds ==
    ASSUME HoldInv, NEW t \in Threads, NEW h \in Hashes,
           StartLookup(t, h) \/ StartScan(t, h)
    PROVE  HoldInv'
<1>1. PICK place \in {"acquire", "cold"} :
        /\ at[t] = "idle"
        /\ at' = [at EXCEPT ![t] = place] /\ seeks' = [seeks EXCEPT ![t] = h]
        /\ UNCHANGED <<file, cache, held>>
  BY DEF StartLookup, StartScan, Call
<1>2. TypesInv'
  BY <1>1 DEF HoldInv, TypesInv, cache, Places
<1>3. PlaceInv'
  BY <1>1 DEF HoldInv, TypesInv, PlaceInv, Answering
<1>4. CacheInv'
  BY <1>1 DEF HoldInv, CacheInv, cache
<1>5. Named(index, held, seeks)'
  <2>1. held[t] = Nil
    BY <1>1 DEF HoldInv, PlaceInv, Answering
  <2>. QED
    BY <1>1, <2>1 DEF HoldInv, TypesInv, Named, cache
<1>. QED
  BY <1>2, <1>3, <1>4, <1>5 DEF HoldInv

LEMMA AcquireHolds ==
    ASSUME HoldInv, NEW t \in Threads, Acquire(t)
    PROVE  HoldInv'
<1> DEFINE h == seeks[t]
<1>1. at[t] = "acquire" /\ h \in Hashes /\ held[t] = Nil
  BY DEF Acquire, HoldInv, PlaceInv, Answering
<1>2. CASE map[h] = Nil
  <2>1. Proceed(t, "cold") /\ UNCHANGED <<file, index, map, held, list, recency>>
    BY <1>2 DEF Acquire, cache
  <2>. QED
    BY <1>1, <2>1, MoveHolds DEF Places, Answering
<1>3. CASE map[h] # Nil
  <2>1. /\ index' = [index EXCEPT ![map[h]].refs = @ + 1]
        /\ list' = Touch(list, map[h]) /\ recency' = <<h>> \o Without(recency, h)
        /\ held' = [held EXCEPT ![t] = map[h]]
        /\ Proceed(t, "warm") /\ UNCHANGED <<file, map>>
    BY <1>3 DEF Acquire, Retained, UsedNow
  <2>2. map[h] \in Slots /\ map[h] \in Mapped(map) /\ Mapped(map) \in SUBSET Slots
    BY <1>1, <1>3 DEF HoldInv, TypesInv, Mapped, Pointers
  <2>3. /\ at' \in [Threads -> Places] /\ seeks' \in [Threads -> Hashes \cup {NoHash}]
        /\ at'[t] = "warm" /\ seeks'[t] = seeks[t]
        /\ \A u \in Threads : u # t => at'[u] = at[u] /\ seeks'[u] = seeks[u]
    BY <2>1, ProceedMoves DEF HoldInv, Places, Answering
  <2>4. held' \in [Threads -> Pointers] /\ held'[t] = map[h]
        /\ \A u \in Threads : u # t => held'[u] = held[u]
    BY <2>1, <2>2 DEF HoldInv, TypesInv, Pointers
  <2>5. index' \in Indexes /\ \A s \in Slots : index'[s].hash = index[s].hash
    BY <2>1, <2>2 DEF HoldInv, TypesInv, Indexes
  <2>6. TypesInv'
    BY <2>1, <2>3, <2>4, <2>5 DEF HoldInv, TypesInv
  <2>7. PlaceInv'
    BY <1>1, <1>3, <2>3, <2>4 DEF HoldInv, PlaceInv, Answering
  <2>8. Counted(index', map', held')
    BY <1>1, <2>1, <2>2, TakeCounted DEF HoldInv, TypesInv, CacheInv
  <2>9. Ordered(list', map', recency')
    BY <1>1, <1>3, <2>1, TouchOrdered DEF HoldInv, TypesInv, CacheInv
  <2>10. Keyed(index', map')
    BY <2>1, <2>5 DEF HoldInv, TypesInv, CacheInv, Keyed, Pointers
  <2>11. Named(index', held', seeks')
    <3>1. ASSUME NEW u \in Threads, held'[u] # Nil PROVE index'[held'[u]].hash = seeks'[u]
      <4>1. CASE u = t
        BY <1>1, <1>3, <2>2, <2>3, <2>4, <2>5, <4>1 DEF HoldInv, CacheInv, Keyed
      <4>2. CASE u # t
        BY <2>3, <2>4, <2>5, <3>1, <4>2 DEF HoldInv, TypesInv, Named, Pointers
      <4>. QED
        BY <4>1, <4>2
    <3>. QED
      BY <3>1 DEF Named
  <2>. QED
    BY <2>1, <2>6, <2>7, <2>8, <2>9, <2>10, <2>11 DEF HoldInv, CacheInv
<1>. QED
  BY <1>2, <1>3

LEMMA ReleaseHolds ==
    ASSUME HoldInv, NEW t \in Threads, Release(t)
    PROVE  HoldInv'
<1> DEFINE slot == held[t]
<1>1. at[t] \in Answering /\ slot \in Slots
  BY DEF Release, HoldInv, PlaceInv, TypesInv, Pointers, Answering
<1>2. /\ index' = Released(index, slot)
      /\ held' = [held EXCEPT ![t] = Nil]
      /\ UNCHANGED <<file, map, list, recency>>
  BY DEF Release
<1>3. PICK place \in {"cold", "idle"} : Proceed(t, place)
  BY DEF Release
<1>4. /\ at' \in [Threads -> Places] /\ seeks' \in [Threads -> Hashes \cup {NoHash}]
      /\ at'[t] = place /\ (place # "idle" => seeks'[t] = seeks[t])
      /\ \A u \in Threads : u # t => at'[u] = at[u] /\ seeks'[u] = seeks[u]
  BY <1>3, ProceedMoves DEF HoldInv, Places
<1>5. held' \in [Threads -> Pointers] /\ held'[t] = Nil
      /\ \A u \in Threads : u # t => held'[u] = held[u]
  BY <1>2 DEF HoldInv, TypesInv, Pointers
<1>6. /\ index[slot].refs > 0 /\ Counted(index', map, held')
      /\ index[slot].refs = 1 => Holders(held', slot) = {} /\ slot \notin Mapped(map)
  BY <1>1, <1>2, LetGoCounted DEF HoldInv, TypesInv, CacheInv
<1>7. /\ index' \in Indexes
      /\ \A s \in Slots : s # slot => index'[s] = index[s]
      /\ index[slot].refs # 1 => index'[slot].hash = index[slot].hash
  BY <1>1, <1>2, <1>6, ReleasedIs DEF HoldInv, TypesInv
<1>8. TypesInv'
  BY <1>2, <1>4, <1>5, <1>7 DEF HoldInv, TypesInv
<1>9. PlaceInv'
  BY <1>1, <1>4, <1>5 DEF HoldInv, PlaceInv, Answering
<1>10. Keyed(index', map')
  <2>1. ASSUME NEW h \in Hashes, map[h] # Nil PROVE index'[map[h]].hash = h
    <3>1. map[h] \in Slots /\ map[h] \in Mapped(map)
      BY <2>1 DEF HoldInv, TypesInv, Mapped, Pointers
    <3>2. index'[map[h]].hash = index[map[h]].hash
      BY <1>6, <1>7, <3>1
    <3>. QED
      BY <2>1, <3>2 DEF HoldInv, CacheInv, Keyed
  <2>. QED
    BY <1>2, <2>1 DEF Keyed
<1>11. Named(index', held', seeks')
  <2>1. ASSUME NEW u \in Threads, held'[u] # Nil PROVE index'[held'[u]].hash = seeks'[u]
    <3>1. u # t /\ held'[u] = held[u] /\ seeks'[u] = seeks[u] /\ held[u] \in Slots
      BY <1>4, <1>5, <2>1 DEF HoldInv, TypesInv, Pointers
    <3>2. index'[held[u]].hash = index[held[u]].hash
      BY <1>6, <1>7, <3>1 DEF Holders
    <3>. QED
      BY <2>1, <3>1, <3>2 DEF HoldInv, Named
  <2>. QED
    BY <2>1 DEF Named
<1>. QED
  BY <1>2, <1>6, <1>8, <1>9, <1>10, <1>11 DEF HoldInv, CacheInv

LEMMA InstallExistingHolds ==
    ASSUME HoldInv, NEW t \in Threads, InstallExisting(t)
    PROVE  HoldInv'
<1>1. at[t] = "install" /\ seeks[t] \in Hashes /\ map[seeks[t]] # Nil /\ held[t] = Nil
  BY DEF InstallExisting, HoldInv, PlaceInv, Answering
<1>2. /\ list' = Touch(list, map[seeks[t]])
      /\ recency' = <<seeks[t]>> \o Without(recency, seeks[t])
      /\ Proceed(t, "idle") /\ UNCHANGED <<file, index, map, held>>
  BY DEF InstallExisting, UsedNow
<1>3. Ordered(list', map, recency')
  BY <1>1, <1>2, TouchOrdered DEF HoldInv, TypesInv, CacheInv
<1>4. /\ at' \in [Threads -> Places] /\ seeks' \in [Threads -> Hashes \cup {NoHash}]
      /\ at'[t] = "idle"
      /\ \A u \in Threads : u # t => at'[u] = at[u] /\ seeks'[u] = seeks[u]
  BY <1>2, ProceedMoves DEF HoldInv, Places
<1>5. TypesInv' /\ PlaceInv'
  BY <1>1, <1>2, <1>4 DEF HoldInv, TypesInv, PlaceInv, Answering
<1>6. CacheInv'
  BY <1>2, <1>3 DEF HoldInv, CacheInv
<1>7. Named(index, held, seeks)'
  BY <1>1, <1>2, <1>4 DEF HoldInv, Named
<1>. QED
  BY <1>5, <1>6, <1>7 DEF HoldInv

(* The memory of a new index is nobody's, and what is evicted is in the    *)
(* map, so its own reference is the one that goes.                         *)
LEMMA InstallHolds ==
    ASSUME HoldInv, NEW t \in Threads, NEW slot \in Slots, Install(t, slot)
    PROVE  HoldInv'
<1> DEFINE h == seeks[t]
           added == [index EXCEPT ![slot] = [hash |-> h, refs |-> 1]]
           mapped == [map EXCEPT ![h] = slot]
           pushed == Push(list, slot)
           victim == pushed.oldest
           used == <<h>> \o Without(recency, h)
<1>1. at[t] = "install" /\ h \in Hashes /\ map[h] = Nil /\ held[t] = Nil /\ index[slot].refs = 0
  BY DEF Install, HoldInv, PlaceInv, Answering
<1>2. held' = held /\ file' = file /\ Proceed(t, "idle")
  BY DEF Install
<1>3. /\ added \in Indexes /\ mapped \in [Hashes -> Pointers]
      /\ Mapped(mapped) = Mapped(map) \cup {slot} /\ slot \notin Mapped(map)
      /\ Holders(held, slot) = {}
      /\ Counted(added, mapped, held) /\ Keyed(added, mapped)
  BY <1>1, AddIndex DEF HoldInv, TypesInv, CacheInv
<1> HIDE DEF added, mapped, pushed, victim, h, used
<1>4. Mapped(mapped) \in SUBSET Slots
  BY <1>3 DEF HoldInv, TypesInv, Mapped, Pointers
<1>5. Ordered(pushed, mapped, used) /\ victim \in Mapped(mapped)
  <2>1. Ordered(list, map, recency) /\ map \in [Hashes -> Pointers]
    BY DEF HoldInv, TypesInv, CacheInv
  <2>2. /\ Ordered(Push(list, slot), [map EXCEPT ![h] = slot], <<h>> \o Without(recency, h))
        /\ Push(list, slot).oldest \in Mapped(map) \cup {slot}
    BY <1>1, <1>3, <2>1, PushOrdered
  <2>. QED
    BY <1>3, <2>2 DEF pushed, victim, mapped, used
<1>6. Keys(mapped) = Keys(map) \cup {h} /\ h \notin Keys(map)
  <2>1. slot # Nil
    BY LookupAssumption DEF Nil
  <2>. QED
    BY <1>1, <2>1 DEF HoldInv, TypesInv, Keys, mapped
<1>7. Cardinality(Keys(mapped)) = Cardinality(Keys(map)) + 1 /\ Cardinality(Keys(map)) \in Nat
  BY <1>6, KeysCount, FS_AddElement
<1>8. Count = Cardinality(Keys(map)) + 1
  BY DEF Count, Keys
<1>9. /\ index' \in Indexes /\ map' \in [Hashes -> Pointers]
      /\ Ordered(list', map', recency') /\ Counted(index', map', held) /\ Keyed(index', map')
      /\ Cardinality(Keys(map')) <= MaxBuckets
      /\ \A s \in Slots : Holders(held, s) # {} => index'[s].hash = index[s].hash
  <2>1. ASSUME NEW s \in Slots, Holders(held, s) # {} PROVE added[s].hash = index[s].hash
    BY <1>3, <2>1 DEF added, HoldInv, TypesInv, Indexes
  <2>2. CASE Overfull
    <3>1. /\ index' = Released(added, victim)
          /\ map' = [mapped EXCEPT ![added[victim].hash] = Nil]
          /\ list' = Unlink(pushed, victim)
          /\ recency' = Without(used, added[victim].hash)
      BY <2>2 DEF Install, Evicted, UsedNow, added, mapped, pushed, victim, used, h
    <3>2. /\ added[victim].hash \in Hashes /\ mapped[added[victim].hash] = victim
          /\ index' \in Indexes /\ map' \in [Hashes -> Pointers]
          /\ Mapped(map') = Mapped(mapped) \ {victim}
          /\ Counted(index', map', held) /\ Keyed(index', map')
          /\ added[victim].refs = 1 => Holders(held, victim) = {}
      <4>1. held \in [Threads -> Pointers]
        BY DEF HoldInv, TypesInv
      <4>2. LET ix2 == Released(added, victim)
                m2  == [mapped EXCEPT ![added[victim].hash] = Nil]
            IN  /\ added[victim].hash \in Hashes /\ mapped[added[victim].hash] = victim
                /\ ix2 \in Indexes /\ m2 \in [Hashes -> Pointers]
                /\ Mapped(m2) = Mapped(mapped) \ {victim}
                /\ Counted(ix2, m2, held) /\ Keyed(ix2, m2)
                /\ added[victim].refs = 1 => Holders(held, victim) = {}
        BY <1>3, <1>5, <4>1, EvictIndex
      <4>. QED
        BY <3>1, <4>2
    <3>3. Ordered(list', map', recency')
      <4> DEFINE gone == added[victim].hash
      <4>1. gone \in Hashes /\ mapped[gone] = victim /\ mapped[gone] # Nil
        BY <1>5, <3>2 DEF Mapped
      <4> HIDE DEF gone
      <4>2. mapped \in [Hashes -> Pointers] /\ Ordered(pushed, mapped, used)
        BY <1>3, <1>5
      <4>3. Ordered(Unlink(pushed, mapped[gone]), [mapped EXCEPT ![gone] = Nil],
                    Without(used, gone))
        BY <4>1, <4>2, UnlinkOrdered
      <4>. QED
        BY <3>1, <4>1, <4>3 DEF gone
    <3>4. Cardinality(Keys(map')) <= MaxBuckets
      <4>1. victim # Nil
        BY <1>5 DEF Mapped
      <4>2. Keys(map') = Keys(mapped) \ {added[victim].hash} /\ added[victim].hash \in Keys(mapped)
        BY <1>3, <3>1, <3>2, <4>1 DEF Keys
      <4>3. Cardinality(Keys(map')) = Cardinality(Keys(mapped)) - 1
        <5>1. IsFiniteSet(Keys(mapped)) /\ Cardinality(Keys(mapped)) \in Nat
          BY KeysCount
        <5> DEFINE before == Keys(mapped)
                   gone == added[victim].hash
        <5>2. IsFiniteSet(before) /\ gone \in before
          BY <4>2, <5>1
        <5> HIDE DEF before, gone
        <5>3. Cardinality(before \ {gone}) = Cardinality(before) - 1
          BY <5>2, FS_RemoveElement
        <5>. QED
          BY <4>2, <5>3 DEF before, gone
      <4>4. Cardinality(Keys(map)) <= MaxBuckets /\ MaxBuckets \in Nat
        BY LookupAssumption DEF HoldInv, CacheInv
      <4>. QED
        BY <1>7, <4>3, <4>4
    <3>5. ASSUME NEW s \in Slots, Holders(held, s) # {} PROVE index'[s].hash = index[s].hash
      <4>1. victim \in Slots
        BY <1>4, <1>5
      <4>2. index'[s].hash = added[s].hash
        BY <1>3, <3>1, <3>2, <3>5, <4>1, ReleasedIs
      <4>. QED
        BY <2>1, <3>5, <4>2
    <3>. QED
      BY <3>2, <3>3, <3>4, <3>5
  <2>3. CASE ~ Overfull
    <3>1. index' = added /\ map' = mapped /\ list' = pushed /\ recency' = used
      BY <2>3 DEF Install, UsedNow, added, mapped, pushed, victim, used, h
    <3>2. Cardinality(Keys(mapped)) <= MaxBuckets
      BY <1>7, <1>8, <2>3, LookupAssumption DEF Overfull
    <3>. QED
      BY <1>3, <1>5, <2>1, <3>1, <3>2
  <2>. QED
    BY <2>2, <2>3
<1>10. /\ at' \in [Threads -> Places] /\ seeks' \in [Threads -> Hashes \cup {NoHash}]
       /\ at'[t] = "idle"
       /\ \A u \in Threads : u # t => at'[u] = at[u] /\ seeks'[u] = seeks[u]
  BY <1>2, ProceedMoves DEF HoldInv, Places
<1>11. TypesInv' /\ PlaceInv'
  BY <1>1, <1>2, <1>9, <1>10 DEF HoldInv, TypesInv, PlaceInv, Answering
<1>12. CacheInv'
  BY <1>2, <1>9 DEF CacheInv
<1>13. Named(index', held', seeks')
  <2>1. ASSUME NEW u \in Threads, held[u] # Nil PROVE index'[held[u]].hash = seeks'[u]
    <3>1. held[u] \in Slots /\ u \in Holders(held, held[u]) /\ u # t
      BY <1>1, <2>1 DEF HoldInv, TypesInv, Pointers, Holders
    <3>. QED
      BY <1>9, <1>10, <2>1, <3>1 DEF HoldInv, Named
  <2>. QED
    BY <1>2, <2>1 DEF Named
<1>. QED
  BY <1>11, <1>12, <1>13 DEF HoldInv

(* deinit, with no call in progress.                                       *)
LEMMA ReopenHolds ==
    ASSUME HoldInv, NEW compress \in BOOLEAN, Reopen(compress)
    PROVE  HoldInv'
<1>1. \A t \in Threads : at[t] = "idle" /\ held[t] = Nil
  BY DEF Reopen, QuietThreads, HoldInv, PlaceInv, Answering
<1>2. /\ map' = [h \in Hashes |-> Nil] /\ UNCHANGED <<file, at, seeks, held>>
      /\ list' = [newest |-> Nil, oldest |-> Nil,
                  newer |-> [slot \in Slots |-> Nil], older |-> [slot \in Slots |-> Nil]]
      /\ recency' = <<>>
  BY DEF Reopen, threads
<1>3. index' \in Indexes
  BY DEF Reopen, HoldInv, TypesInv, Indexes, FreeSlot
<1>4. TypesInv' /\ PlaceInv'
  BY <1>2, <1>3 DEF HoldInv, TypesInv, PlaceInv, Pointers
<1>5. Mapped(map') = {} /\ Cardinality(Keys(map')) = 0
  BY <1>2, EmptyMap
<1>6. Counted(index', map', held')
  <2>1. ASSUME NEW slot \in Slots PROVE CountedAt(index', map', held', slot)
    <3>1. Cardinality(Holders(held', slot)) = 0
      BY <1>1, <1>2, NobodyHolds
    <3>2. index'[slot] = IF slot \in Walked THEN FreeSlot ELSE index[slot]
      BY DEF Reopen
    <3>3. slot \notin Walked => index[slot].refs = 0
      <4>1. Elements(SlotsOf(map, recency)) \subseteq Walked
        BY WalkedAll DEF HoldInv, CacheInv, Ordered
      <4>2. slot \notin Walked => slot \notin Mapped(map)
        BY <4>1, OrderedSlots DEF HoldInv, TypesInv, CacheInv
      <4>3. CountedAt(index, map, held, slot) /\ Cardinality(Holders(held, slot)) = 0
        BY <1>1, NobodyHolds DEF HoldInv, CacheInv, Counted
      <4>. QED
        BY <4>2, <4>3 DEF CountedAt
    <3>. QED
      BY <1>5, <3>1, <3>2, <3>3 DEF CountedAt, FreeSlot
  <2>. QED
    BY <2>1 DEF Counted
<1>7. Ordered(list', map', recency')
  BY <1>2, EmptyList
<1>8. Keyed(index', map') /\ Named(index', held', seeks')
  BY <1>1, <1>2 DEF Keyed, Named
<1>9. Cardinality(Keys(map')) <= MaxBuckets
  BY <1>5, LookupAssumption
<1>. QED
  BY <1>4, <1>6, <1>7, <1>8, <1>9 DEF HoldInv, CacheInv

LEMMA HoldStep == HoldInv /\ [LookupNext]_lookupVars => HoldInv'
<1> SUFFICES ASSUME HoldInv, [LookupNext]_lookupVars PROVE HoldInv'
  OBVIOUS
<1>1. ASSUME NEW t \in Threads, ThreadStep(t) PROVE HoldInv'
  <2>1. CASE \E h \in Hashes : StartLookup(t, h) \/ StartScan(t, h)
    BY <2>1, CallHolds
  <2>2. CASE Acquire(t)
    BY <2>2, AcquireHolds
  <2>3. CASE OpenAndStat(t)
    BY <2>3, MoveHolds DEF OpenAndStat, Answering, Places, cache
  <2>4. CASE Release(t)
    BY <2>4, ReleaseHolds
  <2>5. CASE Verify(t)
    <3>1. PICK place \in {"idle", "install"} : Proceed(t, place)
      <4>1. CASE file[seeks[t]] = "plain"
        BY <2>5, <4>1 DEF Verify
      <4>2. CASE file[seeks[t]] = "compressed"
        BY <2>5, <4>2 DEF Verify
      <4>3. CASE file[seeks[t]] \in {"absent", "cut"}
        BY <2>5, <4>3 DEF Verify
      <4>4. seeks[t] \in Hashes
        BY <2>5 DEF Verify, HoldInv, PlaceInv
      <4>. QED
        BY <4>1, <4>2, <4>3, <4>4 DEF HoldInv, TypesInv, Files
    <3>. QED
      BY <2>5, <3>1, MoveHolds DEF Verify, Answering, Places, cache
  <2>6. CASE InstallNothing(t)
    BY <2>6, MoveHolds DEF InstallNothing, Answering, Places, cache
  <2>7. CASE InstallExisting(t)
    BY <2>7, InstallExistingHolds
  <2>8. CASE \E slot \in Slots : Install(t, slot)
    BY <2>8, InstallHolds
  <2>. QED
    BY <1>1, <2>1, <2>2, <2>3, <2>4, <2>5, <2>6, <2>7, <2>8 DEF ThreadStep
<1>2. ASSUME file' \in [Hashes -> Files], UNCHANGED <<index, map, list, recency, at, seeks, held>>
      PROVE  HoldInv'
  BY <1>2 DEF HoldInv, TypesInv, PlaceInv, CacheInv
<1>3. CASE \E h \in Hashes : PutBucket(h) \/ CutShort(h)
  <2>1. file' \in [Hashes -> Files]
    BY <1>3 DEF PutBucket, CutShort, HoldInv, TypesInv, Files
  <2>. QED
    BY <1>2, <1>3, <2>1 DEF PutBucket, CutShort, cache, threads
<1>4. CASE \E kept \in SUBSET Hashes : CollectBuckets(kept)
  <2>1. file' \in [Hashes -> Files]
    BY <1>4 DEF CollectBuckets, HoldInv, TypesInv, Files
  <2>. QED
    BY <1>2, <1>4, <2>1 DEF CollectBuckets, cache, threads
<1>5. CASE \E compress \in BOOLEAN : Reopen(compress)
  BY <1>5, ReopenHolds
<1>6. CASE UNCHANGED lookupVars
  BY <1>2, <1>6 DEF lookupVars, cache, threads, HoldInv, TypesInv
<1>. QED
  BY <1>1, <1>3, <1>4, <1>5, <1>6 DEF LookupNext

(***************************************************************************)
(* The places, the list, the counts and the hashes agree, always.          *)
(***************************************************************************)
THEOREM HoldInvariant == LookupSpec => []HoldInv
BY HoldInit, HoldStep, PTL DEF LookupSpec

(***************************************************************************)
(* No lookup uses an index that was freed, or whose memory was given to    *)
(* another bucket, whatever was evicted meanwhile (store.zig 112-113,      *)
(* 751-769).                                                               *)
(***************************************************************************)
THEOREM HeldStaysItsBucket == LookupSpec => []HeldIsItsBucket
<1>1. HoldInv => HeldIsItsBucket
  <2> SUFFICES ASSUME HoldInv, NEW t \in Threads, held[t] # Nil
               PROVE  index[held[t]].refs > 0 /\ index[held[t]].hash = seeks[t]
    BY DEF HeldIsItsBucket
  <2>1. held[t] \in Slots
    BY DEF HoldInv, TypesInv, Pointers
  <2>2. index[held[t]].refs > 0
    BY <2>1, LetGoCounted DEF HoldInv, TypesInv, CacheInv
  <2>. QED
    BY <2>2 DEF HoldInv, Named
<1>. QED
  BY <1>1, HoldInvariant, PTL

(***************************************************************************)
(* Every index has one reference for the map and one for each thread that  *)
(* holds it, so none in use is freed and none that nobody uses is kept,    *)
(* through evictions, releases and a reopen (store.zig 112-113, 157-163,   *)
(* 184-192, 241-246).                                                      *)
(***************************************************************************)
THEOREM CountsStayExact == LookupSpec => []CountsAreExact
<1>1. HoldInv => CountsAreExact
  <2> SUFFICES ASSUME HoldInv, NEW slot \in Slots
               PROVE  index[slot].refs =
                        Cardinality({t \in Threads : held[t] = slot})
                        + (IF \E h \in Hashes : map[h] = slot THEN 1 ELSE 0)
    BY DEF CountsAreExact
  <2>1. CountedAt(index, map, held, slot)
    BY DEF HoldInv, CacheInv, Counted
  <2>2. slot \in Mapped(map) <=> \E h \in Hashes : map[h] = slot
    BY LookupAssumption DEF Mapped, Nil
  <2>. QED
    BY <2>1, <2>2 DEF CountedAt, Holders
<1>. QED
  BY <1>1, HoldInvariant, PTL

(***************************************************************************)
(* From either end the pointers are the entries of the map in the order of *)
(* their last use, and no more than max_buckets, so what is evicted is the *)
(* least recently used (store.zig 194-209, 237-246).                       *)
(***************************************************************************)
THEOREM ListStaysRecency == LookupSpec => []ListIsRecency
<1>1. HoldInv => ListIsRecency
  <2> SUFFICES ASSUME HoldInv
               PROVE  ListIsRecency
    OBVIOUS
  <2> DEFINE q == SlotsOf(map, recency)
  <2>1. /\ Ordered(list, map, recency) /\ map \in [Hashes -> Pointers]
        /\ Keyed(index, map) /\ CacheIsBounded
    BY DEF HoldInv, TypesInv, CacheInv, CacheIsBounded, Keys
  <2>2. /\ recency \in Seq(Hashes) /\ Len(recency) \in Nat /\ DOMAIN recency = 1..Len(recency)
        /\ Distinct(recency) /\ Elements(recency) = Keys(map) /\ InOrder(list, q)
    BY <2>1 DEF Ordered
  <2>3. Len(q) = Len(recency)
    BY <2>1, OrderedSlots
  <2>4. \A i : Ranked(i) = SlotAt(q, i)
    BY <2>2, <2>3 DEF Ranked, SlotAt, SlotsOf
  <2>5. ASSUME NEW i \in DOMAIN recency
        PROVE  /\ index[Ranked(i)].hash = recency[i]
               /\ list.older[Ranked(i)] = Ranked(i + 1)
               /\ list.newer[Ranked(i)] = Ranked(i - 1)
    <3>1. Ranked(i) = map[recency[i]] /\ recency[i] \in Keys(map)
      BY <2>2 DEF Ranked, Elements
    <3>2. Ranked(i) = q[i] /\ i \in 1..Len(q)
      BY <2>2, <2>3, <2>4 DEF SlotAt
    <3>3. list.older[q[i]] = SlotAt(q, i + 1) /\ list.newer[q[i]] = SlotAt(q, i - 1)
      BY <2>2, <3>2 DEF InOrder
    <3>. QED
      BY <2>1, <2>4, <3>1, <3>2, <3>3 DEF Keyed, Keys
  <2>6. list.newest = Ranked(1) /\ list.oldest = Ranked(Len(recency))
    BY <2>2, <2>3, <2>4 DEF InOrder
  <2>7. /\ {h \in Hashes : map[h] # Nil} = {recency[i] : i \in DOMAIN recency}
        /\ \A i, j \in DOMAIN recency : i # j => recency[i] # recency[j]
    BY <2>2 DEF Elements, Keys, Distinct
  <2>. QED
    BY <2>1, <2>5, <2>6, <2>7 DEF ListIsRecency
<1>. QED
  BY <1>1, HoldInvariant, PTL

(***************************************************************************)
(* Whatever the sizes of compressed files are, a warm lookup has parsed    *)
(* plain bytes, or the compressed file of that very bucket has the size of *)
(* the plain one (store.zig 754-766).                                      *)
(***************************************************************************)
THEOREM WarmStaysPlain == LookupSpec => []WarmReadsPlain
<1>1. LookupInit => WarmReadsPlain
  BY DEF LookupInit, WarmReadsPlain
<1>2. HoldInv /\ WarmReadsPlain /\ [LookupNext]_lookupVars => WarmReadsPlain'
  <2> SUFFICES ASSUME HoldInv, WarmReadsPlain, [LookupNext]_lookupVars PROVE WarmReadsPlain'
    OBVIOUS
  <2>. USE DEF WarmReadsPlain
  <2>1. ASSUME NEW t \in Threads, NEW place \in Places, Proceed(t, place), place # "span",
               UNCHANGED file
        PROVE  WarmReadsPlain'
    <3>1. at'[t] = place
          /\ \A u \in Threads : u # t => at'[u] = at[u] /\ seeks'[u] = seeks[u]
      BY <2>1, ProceedMoves DEF HoldInv
    <3>. QED
      BY <2>1, <3>1
  <2>2. ASSUME NEW t \in Threads, ThreadStep(t) PROVE WarmReadsPlain'
    <3>. USE DEF Places, Answering
    <3>1. CASE \E h \in Hashes : StartLookup(t, h) \/ StartScan(t, h)
      <4>1. PICK place \in {"acquire", "cold"}, h \in Hashes : Call(t, place, h, place = "cold")
        BY <3>1 DEF StartLookup, StartScan
      <4>. QED
        BY <4>1 DEF Call, HoldInv, TypesInv
    <3>2. CASE Acquire(t)
      BY <2>1, <3>2 DEF Acquire
    <3>3. CASE OpenAndStat(t)
      <4>1. CASE file[seeks[t]] # "absent" /\ SizeOf(seeks[t]) = PlainSize
        <5>1. seeks[t] \in Hashes
          BY <3>3 DEF OpenAndStat, HoldInv, PlaceInv
        <5>2. PlainOrUnseen(seeks[t], file[seeks[t]])
          BY <4>1, <5>1 DEF PlainOrUnseen, SizeOf, HoldInv, TypesInv, Files
        <5>3. Proceed(t, "span") /\ file' = file
          BY <3>3, <4>1 DEF OpenAndStat
        <5>4. seeks'[t] = seeks[t]
              /\ \A u \in Threads : u # t => at'[u] = at[u] /\ seeks'[u] = seeks[u]
          BY <5>3, ProceedMoves DEF HoldInv
        <5>. QED
          BY <5>2, <5>3, <5>4
      <4>2. CASE ~ (file[seeks[t]] # "absent" /\ SizeOf(seeks[t]) = PlainSize)
        BY <2>1, <3>3, <4>2 DEF OpenAndStat
      <4>. QED
        BY <4>1, <4>2
    <3>4. CASE Release(t)
      BY <2>1, <3>4 DEF Release
    <3>5. CASE Verify(t)
      <4>1. CASE file[seeks[t]] = "plain"
        BY <2>1, <3>5, <4>1 DEF Verify
      <4>2. CASE file[seeks[t]] = "compressed"
        BY <2>1, <3>5, <4>2 DEF Verify
      <4>3. CASE file[seeks[t]] \in {"absent", "cut"}
        BY <2>1, <3>5, <4>3 DEF Verify
      <4>4. seeks[t] \in Hashes
        BY <3>5 DEF Verify, HoldInv, PlaceInv
      <4>. QED
        BY <4>1, <4>2, <4>3, <4>4 DEF HoldInv, TypesInv, Files
    <3>6. CASE InstallNothing(t)
      BY <2>1, <3>6 DEF InstallNothing
    <3>7. CASE InstallExisting(t)
      BY <2>1, <3>7 DEF InstallExisting
    <3>8. CASE \E slot \in Slots : Install(t, slot)
      BY <2>1, <3>8 DEF Install
    <3>. QED
      BY <2>2, <3>1, <3>2, <3>3, <3>4, <3>5, <3>6, <3>7, <3>8 DEF ThreadStep
  <2>3. CASE \E h \in Hashes : PutBucket(h) \/ CutShort(h)
    <3>1. PICK h \in Hashes, kind \in Files :
            /\ file' = [file EXCEPT ![h] = kind]
            /\ kind # "cut" => file[h] = "absent"
            /\ UNCHANGED <<at, seeks>>
      BY <2>3 DEF PutBucket, CutShort, threads, Files
    <3>2. ASSUME NEW t \in Threads, at[t] = "span" PROVE PlainOrUnseen(seeks[t], file'[seeks[t]])
      <4>1. seeks[t] \in Hashes /\ PlainOrUnseen(seeks[t], file[seeks[t]])
        BY <3>2 DEF HoldInv, PlaceInv
      <4>2. file[seeks[t]] # "absent"
        BY <4>1 DEF PlainOrUnseen
      <4>3. file'[seeks[t]] \in {file[seeks[t]], "cut"}
        BY <3>1, <4>1, <4>2 DEF HoldInv, TypesInv
      <4>. QED
        BY <4>1, <4>3 DEF PlainOrUnseen
    <3>. QED
      BY <3>1, <3>2
  <2>4. CASE \E kept \in SUBSET Hashes : CollectBuckets(kept)
    BY <2>4 DEF CollectBuckets, QuietThreads, threads
  <2>5. CASE \E compress \in BOOLEAN : Reopen(compress)
    BY <2>5 DEF Reopen, threads
  <2>6. CASE UNCHANGED lookupVars
    BY <2>6 DEF lookupVars, threads
  <2>. QED
    BY <2>2, <2>3, <2>4, <2>5, <2>6 DEF LookupNext
<1>. QED
  BY <1>1, <1>2, HoldInvariant, PTL DEF LookupSpec

=============================================================================

----------------------------- MODULE HostProofs -----------------------------
(***************************************************************************)
(* Proofs about Host.tla, for any clients, batches, capacity and last      *)
(* sequence number: its safety properties, and that it implements the log  *)
(* with a durable prefix of WriteBehindLog.tla.  The invariant says what   *)
(* each slot of the ring holds and how the ring, the worker, the durable   *)
(* cache and the disk agree on the sequence that is being published.       *)
(***************************************************************************)
EXTENDS Host, TLAPS

(* The slot j places after another, and after the head, without a remainder. *)
Place(h, j) == IF h + j < Capacity THEN h + j ELSE h + j - Capacity

Slot(j) == Place(head, j)

(* The worker has taken the entry at the head and has not finished with it. *)
Working == worker \in {"publishing", "committed", "failing"}

FirstQueued == IF Working THEN 1 ELSE 0

-----------------------------------------------------------------------------
(* What the durable cache must show. *)
MetadataShown == IF cache.seq = 0 THEN None ELSE disk[cache.seq][2]

(* The accepted sequences beyond the durable one are the window of the ring. *)
WindowInv ==
    ~ failure =>
      /\ accepted = cache.seq + count
      /\ \A j \in 0..(count - 1) :
           /\ ring[Slot(j)].next = cache.seq + 1 + j
           /\ slots[Slot(j)] \in Metadata
           /\ j >= FirstQueued => ring[Slot(j)].batch \in Batches

(* A batch is in a queued slot or in none. *)
BatchInv ==
    \A i \in Slots :
      ring[i].batch # None => \E j \in FirstQueued..(count - 1) : i = Slot(j)

ActiveInv ==
    IF Working
    THEN /\ ~ failure
         /\ count > 0
         /\ active.index = head
         /\ active.batch \in Batches
         /\ active.next = cache.seq + 1
    ELSE active = NoActive

DiskInv ==
    /\ \A n \in 1..stored : disk[n] \in Entries
    /\ cache.metadata = MetadataShown
    /\ acked <= cache.seq
    /\ stored \in {cache.seq, cache.seq + 1}
    /\ stored <= accepted
    /\ worker = "committed" => stored # cache.seq
    /\ ~ failure /\ worker \notin {"committed", "failing"} => stored = cache.seq
    /\ Working /\ stored # cache.seq => disk[stored] = <<active.batch, slots[head]>>

WorkerInv ==
    /\ failure => worker \in {"abandoning", "exited"}
    /\ worker = "abandoning" => failure
    /\ worker = "exited" => count = 0 /\ (failure \/ stopping)
    /\ worker = "asleep" => ~ stopping /\ (count = 0 \/ paused)

ClientInv ==
    /\ stopping => ~ paused
    /\ \A c \in Clients :
         /\ target[c] <= accepted
         /\ client[c] = "asleep" => target[c] > cache.seq /\ ~ failure

HostInv ==
    /\ TypeOK
    /\ WindowInv
    /\ BatchInv
    /\ ActiveInv
    /\ DiskInv
    /\ WorkerInv
    /\ ClientInv

-----------------------------------------------------------------------------
(* The ring. *)

(* A place in the ring is the sum, or the sum less one turn. *)
LEMMA SlotMod ==
    ASSUME NEW h \in Slots, NEW j \in 0..Capacity
    PROVE  (h + j) % Capacity = Place(h, j)
<1>1. h \in Nat /\ h < Capacity /\ j \in Nat /\ j <= Capacity /\ Capacity \in Nat /\ Capacity > 0
  BY CapacityAssumption DEF Slots
<1>2. CASE h + j < Capacity
  BY <1>1, <1>2, SMTT(20) DEF Place
<1>3. CASE h + j >= Capacity
  <2>1. h + j - Capacity \in Nat /\ h + j - Capacity < Capacity
    BY <1>1, <1>3
  <2>2. (h + j) % Capacity = h + j - Capacity
    BY <1>1, <2>1, SMTT(20)
  <2>3. QED
    BY <1>1, <1>3, <2>2 DEF Place
<1>4. QED
  BY <1>1, <1>2, <1>3 DEF Place

LEMMA CapacityFacts ==
    /\ Capacity \in Nat
    /\ Capacity > 0
    /\ \A i : i \in Slots <=> i \in Int /\ 0 <= i /\ i < Capacity
  BY CapacityAssumption DEF Slots

(* The places of the window are slots, and no two of them are one. *)
LEMMA SlotFacts ==
    ASSUME TypeOK
    PROVE  /\ \A j \in 0..(Capacity - 1) : Slot(j) \in Slots
           /\ \A i, j \in 0..(Capacity - 1) : Slot(i) = Slot(j) => i = j
           /\ Slot(0) = head
           /\ Tail = Slot(count)
           /\ \A n : n - 1 - cache.seq \in 0..Capacity /\ n \in Int =>
                SlotOf(n) = Slot(n - 1 - cache.seq)
<1>1. /\ head \in Int /\ 0 <= head /\ head < Capacity
      /\ count \in 0..Capacity /\ cache.seq \in Int
  BY CapacityFacts, MaxSeqAssumption DEF TypeOK
<1>2. Tail = Slot(count)
  BY <1>1, SlotMod DEF Tail, Slot, TypeOK
<1>3. ASSUME NEW n \in Int, n - 1 - cache.seq \in 0..Capacity
      PROVE  SlotOf(n) = Slot(n - 1 - cache.seq)
  <2>1. head + n - 1 - cache.seq = head + (n - 1 - cache.seq)
    BY <1>1
  <2>2. (head + (n - 1 - cache.seq)) % Capacity = Slot(n - 1 - cache.seq)
    BY <1>3, SlotMod DEF Slot, TypeOK
  <2>3. QED
    BY <2>1, <2>2 DEF SlotOf
<1>4. QED
  BY <1>1, <1>2, <1>3, CapacityFacts DEF Slot, Place

(* The places after the next slot are the places after the slot, one on. *)
LEMMA PlaceShift ==
    ASSUME NEW h \in Slots
    PROVE  /\ (h + 1) % Capacity \in Slots
           /\ Place(h, 0) = h
           /\ \A j \in 0..(Capacity - 1) : Place((h + 1) % Capacity, j) = Place(h, j + 1)
           /\ \A j \in 1..(Capacity - 1) : Place(h, j) = Place((h + 1) % Capacity, j - 1)
<1>1. h \in Int /\ 0 <= h /\ h < Capacity /\ Capacity \in Nat /\ Capacity > 0
  BY CapacityFacts
<1>2. (h + 1) % Capacity = IF h + 1 < Capacity THEN h + 1 ELSE h + 1 - Capacity
  BY <1>1, SlotMod DEF Place
<1>3. QED
  BY <1>1, <1>2, CapacityFacts DEF Place

(* When the head moves on, the places follow. *)
LEMMA SlotShift ==
    ASSUME TypeOK, head' = (head + 1) % Capacity
    PROVE  /\ head' \in Slots
           /\ \A j \in 0..(Capacity - 1) : Slot(j)' = Slot(j + 1)
           /\ \A j \in 1..(Capacity - 1) : Slot(j) = Slot(j - 1)'
  BY PlaceShift DEF Slot, TypeOK

-----------------------------------------------------------------------------
(* The invariant. *)

(* What every step below needs of the numbers. *)
LEMMA Bounds ==
    ASSUME HostInv
    PROVE  /\ MaxSeq \in Nat /\ Capacity \in Nat /\ Capacity > 0
           /\ count \in Nat /\ count <= Capacity
           /\ accepted \in Nat /\ accepted <= MaxSeq
           /\ stored \in Nat /\ stored <= MaxSeq
           /\ cache.seq \in Nat /\ cache.seq <= MaxSeq
           /\ acked \in Nat /\ acked <= MaxSeq
  BY CapacityFacts, MaxSeqAssumption DEF HostInv, TypeOK

LEMMA InitInv == Init => HostInv
<1> SUFFICES ASSUME Init
             PROVE  HostInv
  OBVIOUS
<1>1. TypeOK
  <2>1. 0 \in 0..MaxSeq /\ 0 \in Slots /\ 0 \in 0..Capacity
    BY CapacityFacts, MaxSeqAssumption
  <2>2. ring \in [Slots -> [batch : Batches \cup {None}, next : 0..MaxSeq]]
    BY <2>1 DEF Init, EmptyRing
  <2>3. /\ slots \in [Slots -> Metadata \cup {None}]
        /\ cache \in [seq : 0..MaxSeq, metadata : Metadata \cup {None}]
        /\ active \in [index : Slots, batch : Batches \cup {None}, next : 0..MaxSeq]
        /\ disk \in [Positions -> Entries \cup {None}]
    BY <2>1 DEF Init, NoActive
  <2>4. QED
    BY <2>1, <2>2, <2>3 DEF Init, TypeOK
<1>2. WindowInv /\ BatchInv /\ ActiveInv
  BY DEF Init, WindowInv, BatchInv, ActiveInv, EmptyRing, Working
<1>3. DiskInv /\ WorkerInv /\ ClientInv
  BY DEF Init, DiskInv, WorkerInv, ClientInv, MetadataShown, Working
<1>4. QED
  BY <1>1, <1>2, <1>3 DEF HostInv

(* A host opened on what is stored has nothing to do. *)
LEMMA CreateKeeps ==
    ASSUME HostInv, Create
    PROVE  HostInv'
<1>1. stored = 0 \/ disk[stored] \in Entries
  BY Bounds DEF HostInv, DiskInv
<1>2. MetadataStored \in Metadata \cup {None}
  BY <1>1 DEF MetadataStored, Entries
<1>3. TypeOK'
  <2>1. 0 \in 0..MaxSeq /\ 0 \in Slots /\ 0 \in 0..Capacity /\ stored \in 0..MaxSeq
    BY Bounds, CapacityFacts
  <2>2. ring' \in [Slots -> [batch : Batches \cup {None}, next : 0..MaxSeq]]
    BY <2>1 DEF Create, EmptyRing
  <2>3. /\ slots' \in [Slots -> Metadata \cup {None}]
        /\ cache' \in [seq : 0..MaxSeq, metadata : Metadata \cup {None}]
        /\ active' \in [index : Slots, batch : Batches \cup {None}, next : 0..MaxSeq]
        /\ disk' \in [Positions -> Entries \cup {None}]
    BY <1>2, <2>1 DEF Create, NoActive, HostInv, TypeOK, diskVars
  <2>4. QED
    BY <2>1, <2>2, <2>3 DEF Create, HostInv, TypeOK, diskVars
<1>4. WindowInv' /\ BatchInv' /\ ActiveInv'
  BY Bounds DEF Create, WindowInv, BatchInv, ActiveInv, EmptyRing, Working
<1>5. DiskInv'
  BY Bounds DEF HostInv, Create, DiskInv, MetadataShown, MetadataStored, Working, diskVars
<1>6. WorkerInv' /\ ClientInv'
  BY Bounds DEF Create, WorkerInv, ClientInv
<1>7. QED
  BY <1>3, <1>4, <1>5, <1>6 DEF HostInv

(* With an empty window and no pause the worker may be asleep, but then no *)
(* client is: the signal of an admission reaches the worker.               *)
LEMMA NobodyElseAsleep ==
    ASSUME HostInv, worker = "asleep", ~ paused
    PROVE  count = 0 /\ Sleepers = {}
<1>1. count = 0 /\ ~ failure
  BY DEF HostInv, WorkerInv
<1>2. accepted = cache.seq
  BY <1>1, Bounds DEF HostInv, WindowInv
<1>3. QED
  BY <1>1, <1>2, Bounds DEF HostInv, ClientInv, Sleepers, TypeOK

LEMMA SignalWakes ==
    ASSUME HostInv, ~ paused, Signal
    PROVE  /\ worker' = WokenWorker
           /\ client' \in [Clients -> {"free", "asleep", "woken"}]
           /\ \A c \in Clients : client'[c] = "asleep" => client[c] = "asleep"
<1>1. CASE worker = "asleep"
  BY <1>1, NobodyElseAsleep DEF Signal, WokenWorker, HostInv, TypeOK
<1>2. CASE worker # "asleep"
  BY <1>2 DEF Signal, WokenWorker, HostInv, TypeOK, Sleepers
<1>3. QED
  BY <1>1, <1>2

LEMMA SubmitKeeps ==
    ASSUME HostInv, NEW batch \in Batches, NEW metadata \in Metadata, Submit(batch, metadata)
    PROVE  HostInv'
<1> USE DEF HostInv
<1>1. /\ ~ failure /\ ~ stopping /\ count # Capacity /\ accepted # MaxSeq
      /\ UNCHANGED <<head, cache, paused, stopping, failure, active, target, disk, stored, acked>>
      /\ count' = count + 1 /\ accepted' = accepted + 1
      /\ slots' = [slots EXCEPT ![Slot(count)] = metadata]
      /\ ring' = [ring EXCEPT ![Slot(count)] = [batch |-> batch, next |-> accepted + 1]]
  BY SlotFacts DEF Submit, Admits, flagVars, diskVars
<1>2. /\ worker' \in {worker, WokenWorker}
      /\ paused \/ worker' = WokenWorker
      /\ client' \in [Clients -> {"free", "asleep", "woken"}]
      /\ \A c \in Clients : client'[c] = "asleep" => client[c] = "asleep"
  <2>1. CASE paused
    BY <2>1 DEF Submit, TypeOK
  <2>2. CASE ~ paused
    BY <2>2, SignalWakes DEF Submit
  <2>3. QED
    BY <2>1, <2>2
<1>3. /\ worker' = worker \/ (worker = "asleep" /\ worker' = "looking")
      /\ Working' = Working /\ FirstQueued' = FirstQueued
  BY <1>2 DEF WokenWorker, Working, FirstQueued
<1>4. /\ \A j \in 0..(Capacity - 1) : Slot(j)' = Slot(j) /\ Slot(j) \in Slots
      /\ \A i, j \in 0..(Capacity - 1) : Slot(i) = Slot(j) => i = j
      /\ count \in 0..(Capacity - 1)
  BY <1>1, SlotFacts, Bounds DEF Slot
<1>5. TypeOK'
  <2>1. accepted + 1 \in 0..MaxSeq /\ count + 1 \in 0..Capacity
    BY <1>1, Bounds
  <2>2. ring' \in [Slots -> [batch : Batches \cup {None}, next : 0..MaxSeq]]
    BY <1>1, <1>4, <2>1 DEF TypeOK
  <2>3. slots' \in [Slots -> Metadata \cup {None}]
    BY <1>1, <1>4 DEF TypeOK
  <2>4. QED
    BY <1>1, <1>2, <1>3, <2>1, <2>2, <2>3 DEF TypeOK
<1>6. WindowInv'
  <2>1. accepted' = cache'.seq + count'
    BY <1>1, Bounds DEF WindowInv
  <2>2. ASSUME NEW j \in 0..(count' - 1)
        PROVE  /\ ring'[Slot(j)].next = cache.seq + 1 + j
               /\ slots'[Slot(j)] \in Metadata
               /\ j >= FirstQueued => ring'[Slot(j)].batch \in Batches
    <3>1. CASE j = count
      BY <1>1, <1>4, <3>1, Bounds DEF WindowInv, TypeOK
    <3>2. CASE j # count
      <4>1. j \in 0..(count - 1) /\ j \in 0..(Capacity - 1) /\ Slot(j) # Slot(count)
        BY <1>1, <1>4, <2>2, <3>2, Bounds
      <4>2. QED
        BY <1>1, <1>4, <4>1 DEF WindowInv, TypeOK
    <3>3. QED
      BY <3>1, <3>2
  <2>3. \A j \in 0..(count' - 1) : Slot(j)' = Slot(j)
    BY <1>1, <1>4, Bounds
  <2>4. QED
    BY <1>1, <1>3, <2>1, <2>2, <2>3 DEF WindowInv
<1>7. BatchInv'
  <2>1. ASSUME NEW i \in Slots, ring'[i].batch # None
        PROVE  \E j \in FirstQueued..(count' - 1) : i = Slot(j)
    <3>1. CASE i = Slot(count)
      <4>1. FirstQueued <= count
        BY Bounds DEF FirstQueued, ActiveInv
      <4>2. count \in FirstQueued..(count' - 1)
        BY <1>1, <4>1, Bounds DEF FirstQueued
      <4>3. QED
        BY <3>1, <4>2
    <3>2. CASE i # Slot(count)
      <4>1. ring[i].batch # None
        BY <1>1, <2>1, <3>2 DEF TypeOK
      <4>2. PICK j \in FirstQueued..(count - 1) : i = Slot(j)
        BY <4>1 DEF BatchInv
      <4>3. QED
        BY <1>1, <4>2, Bounds DEF FirstQueued
    <3>3. QED
      BY <3>1, <3>2
  <2>2. \A j \in FirstQueued..(count' - 1) : Slot(j)' = Slot(j)
    BY <1>1, <1>4, Bounds DEF FirstQueued
  <2>3. QED
    BY <1>3, <2>1, <2>2 DEF BatchInv
<1>8. ActiveInv'
  BY <1>1, <1>3, Bounds DEF ActiveInv
<1>9. DiskInv'
  <2>1. Working => head # Slot(count)
    BY <1>4, SlotFacts, Bounds DEF ActiveInv
  <2>2. Working => slots'[head] = slots[head]
    BY <1>1, <2>1 DEF TypeOK
  <2>3. QED
    BY <1>1, <1>3, <2>2, Bounds DEF DiskInv, MetadataShown
<1>10. WorkerInv' /\ ClientInv'
  BY <1>1, <1>2, <1>3, Bounds DEF WorkerInv, ClientInv, WokenWorker, TypeOK
<1>11. QED
  BY <1>5, <1>6, <1>7, <1>8, <1>9, <1>10

(* Steps that touch neither the ring, the disk nor the sequences.          *)
LEMMA FlagsKeep ==
    ASSUME HostInv, Pause \/ Resume \/ Deinit
    PROVE  HostInv'
<1> USE DEF HostInv
<1>1. /\ UNCHANGED <<queueVars, cache, failure, active, target, diskVars, acked>>
      /\ ~ stopping
      /\ worker' = worker \/ (worker = "asleep" /\ worker' = "looking")
  BY DEF Pause, Resume, Deinit, flagVars, clientVars, WokenWorker
<1>2. /\ paused' \in BOOLEAN /\ stopping' \in BOOLEAN
      /\ client' \in [Clients -> {"free", "asleep", "woken"}]
      /\ stopping' => ~ paused'
      /\ \A c \in Clients : client'[c] = "asleep" => client[c] = "asleep"
      /\ worker' = "asleep" => paused' /\ ~ stopping'
  <2>1. CASE Pause
    BY <2>1 DEF Pause, clientVars, TypeOK
  <2>2. CASE Resume
    BY <2>2 DEF Resume, WakeClients, WokenWorker, TypeOK
  <2>3. CASE Deinit
    BY <2>3 DEF Deinit, clientVars, WokenWorker, TypeOK
  <2>4. QED
    BY <2>1, <2>2, <2>3
<1>3. Working' = Working /\ FirstQueued' = FirstQueued /\ \A j \in Int : Slot(j)' = Slot(j)
  BY <1>1 DEF Working, FirstQueued, Slot, queueVars
<1>4. TypeOK'
  BY <1>1, <1>2 DEF TypeOK, queueVars, diskVars
<1>5. WindowInv'
  BY <1>1, <1>3 DEF WindowInv, queueVars
<1>6. BatchInv'
  <2>1. \A j \in FirstQueued..(count - 1) : Slot(j)' = Slot(j)
    BY <1>3 DEF FirstQueued
  <2>2. QED
    BY <1>1, <1>3, <2>1 DEF BatchInv, queueVars
<1>7. ActiveInv'
  BY <1>1, <1>3 DEF ActiveInv, queueVars
<1>8. DiskInv'
  BY <1>1, <1>3 DEF DiskInv, queueVars, diskVars, MetadataShown
<1>9. WorkerInv' /\ ClientInv'
  BY <1>1, <1>2 DEF WorkerInv, ClientInv, queueVars, WokenWorker
<1>10. QED
  BY <1>4, <1>5, <1>6, <1>7, <1>8, <1>9

(* A wait reads the cache and the failure and changes only its client.     *)
LEMMA DecideKeeps ==
    ASSUME HostInv, NEW c \in Clients, NEW sequence \in 0..accepted, Decide(c, sequence)
    PROVE  HostInv'
<1> USE DEF HostInv
<1>1. UNCHANGED <<ring, slots, head, count, accepted, cache, paused, stopping, failure,
                  worker, active, disk, stored>>
  BY DEF Decide, queueVars, flagVars, diskVars
<1>2. /\ client' \in [Clients -> {"free", "asleep", "woken"}]
      /\ target' \in [Clients -> 0..MaxSeq]
      /\ acked' \in 0..MaxSeq /\ acked' <= cache.seq
  <2>1. sequence \in 0..MaxSeq /\ 0 \in 0..MaxSeq
    BY Bounds
  <2>2. acked <= cache.seq
    BY DEF DiskInv
  <2>3. QED
    BY <2>1, <2>2, Bounds DEF Decide, TypeOK
<1>3. Working' = Working /\ FirstQueued' = FirstQueued /\ \A j \in Int : Slot(j)' = Slot(j)
  BY <1>1 DEF Working, FirstQueued, Slot
<1>4. TypeOK'
  BY <1>1, <1>2 DEF TypeOK
<1>5. WindowInv'
  BY <1>1, <1>3 DEF WindowInv
<1>6. BatchInv'
  <2>1. \A j \in FirstQueued..(count - 1) : Slot(j)' = Slot(j)
    BY <1>3 DEF FirstQueued
  <2>2. QED
    BY <1>1, <1>3, <2>1 DEF BatchInv
<1>7. ActiveInv'
  BY <1>1, <1>3 DEF ActiveInv
<1>8. DiskInv'
  BY <1>1, <1>2, <1>3 DEF DiskInv, MetadataShown
<1>9. WorkerInv'
  BY <1>1 DEF WorkerInv
<1>10. ClientInv'
  <2>1. ASSUME NEW d \in Clients
        PROVE  /\ target'[d] <= accepted
               /\ client'[d] = "asleep" => target'[d] > cache.seq /\ ~ failure
    <3>1. CASE d # c
      BY <3>1 DEF ClientInv, Decide, TypeOK
    <3>2. CASE d = c
      BY <3>2, Bounds DEF Decide, TypeOK
    <3>3. QED
      BY <3>1, <3>2
  <2>2. QED
    BY <1>1, <2>1 DEF ClientInv
<1>11. QED
  BY <1>4, <1>5, <1>6, <1>7, <1>8, <1>9, <1>10

(* The worker sleeps or exits, or takes the entry at the head. *)
LEMMA SleepKeeps ==
    ASSUME HostInv, Sleep
    PROVE  HostInv'
<1> USE DEF HostInv
<1>1. /\ UNCHANGED <<queueVars, cache, flagVars, active, clientVars, diskVars, acked>>
      /\ worker = "looking" /\ ~ failure
      /\ worker' = IF stopping /\ count = 0 THEN "exited" ELSE "asleep"
      /\ count = 0 \/ paused
  BY DEF Sleep, WorkerInv
<1>2. ~ Working /\ Working' = Working /\ FirstQueued' = FirstQueued
      /\ \A j \in Int : Slot(j)' = Slot(j)
  BY <1>1 DEF Working, FirstQueued, Slot, queueVars
<1>3. TypeOK'
  BY <1>1 DEF TypeOK, queueVars, flagVars, clientVars, diskVars
<1>4. WindowInv'
  BY <1>1, <1>2 DEF WindowInv, queueVars, flagVars
<1>5. BatchInv'
  <2>1. \A j \in FirstQueued..(count - 1) : Slot(j)' = Slot(j)
    BY <1>2 DEF FirstQueued
  <2>2. QED
    BY <1>1, <1>2, <2>1 DEF BatchInv, queueVars
<1>6. ActiveInv'
  BY <1>1, <1>2 DEF ActiveInv, queueVars, flagVars
<1>7. DiskInv'
  BY <1>1, <1>2 DEF DiskInv, queueVars, flagVars, diskVars, MetadataShown
<1>8. WorkerInv' /\ ClientInv'
  BY <1>1 DEF WorkerInv, ClientInv, queueVars, flagVars, clientVars
<1>9. QED
  BY <1>3, <1>4, <1>5, <1>6, <1>7, <1>8

LEMMA TakeKeeps ==
    ASSUME HostInv, Take
    PROVE  HostInv'
<1> USE DEF HostInv
<1>1. /\ UNCHANGED <<slots, head, count, accepted, cache, flagVars, clientVars, diskVars, acked>>
      /\ worker = "looking" /\ worker' = "publishing" /\ ~ failure /\ ~ paused
      /\ active' = [index |-> head, batch |-> ring[head].batch, next |-> ring[head].next]
      /\ ring' = [ring EXCEPT ![head].batch = None]
      /\ count > 0
  BY Bounds DEF Take, WorkerInv
<1>2. ~ Working /\ Working' /\ FirstQueued = 0 /\ FirstQueued' = 1
      /\ \A j \in Int : Slot(j)' = Slot(j)
  BY <1>1 DEF Working, FirstQueued, Slot
<1>3. /\ head \in Slots
      /\ Slot(0) = head
      /\ \A j \in 0..(count - 1) : Slot(j) \in Slots
      /\ \A j \in 1..(count - 1) : Slot(j) # head
  BY SlotFacts, Bounds DEF TypeOK
<1>4. /\ ring[head].next = cache.seq + 1
      /\ ring[head].batch \in Batches
      /\ accepted = cache.seq + count
  <2>1. 0 \in 0..(count - 1)
    BY <1>1, Bounds
  <2>2. QED
    BY <1>1, <1>2, <1>3, <2>1, Bounds DEF WindowInv
<1>5. TypeOK'
  <2>1. ring' \in [Slots -> [batch : Batches \cup {None}, next : 0..MaxSeq]]
    BY <1>1, <1>3 DEF TypeOK
  <2>2. active' \in [index : Slots, batch : Batches \cup {None}, next : 0..MaxSeq]
    BY <1>1, <1>3 DEF TypeOK
  <2>3. QED
    BY <1>1, <2>1, <2>2 DEF TypeOK, flagVars, clientVars, diskVars
<1>6. WindowInv'
  <2>1. \A j \in 0..(count - 1) :
           /\ ring'[Slot(j)].next = cache.seq + 1 + j
           /\ slots[Slot(j)] \in Metadata
           /\ j >= 1 => ring'[Slot(j)].batch \in Batches
    BY <1>1, <1>2, <1>3, Bounds DEF WindowInv, TypeOK
  <2>2. QED
    BY <1>1, <1>2, <1>4, <2>1 DEF WindowInv, flagVars
<1>7. BatchInv'
  <2>1. ASSUME NEW i \in Slots, ring'[i].batch # None
        PROVE  \E j \in 1..(count - 1) : i = Slot(j)
    <3>1. i # head /\ ring[i].batch # None
      BY <1>1, <2>1 DEF TypeOK
    <3>2. PICK j \in 0..(count - 1) : i = Slot(j)
      BY <1>2, <3>1 DEF BatchInv
    <3>3. j # 0
      BY <1>3, <3>1, <3>2
    <3>4. QED
      BY <3>2, <3>3
  <2>2. \A j \in 1..(count - 1) : Slot(j)' = Slot(j)
    BY <1>2
  <2>3. QED
    BY <1>1, <1>2, <2>1, <2>2 DEF BatchInv
<1>8. ActiveInv'
  BY <1>1, <1>2, <1>4 DEF ActiveInv, flagVars
<1>9. DiskInv'
  BY <1>1, <1>2 DEF DiskInv, flagVars, diskVars, MetadataShown
<1>10. WorkerInv' /\ ClientInv'
  BY <1>1 DEF WorkerInv, ClientInv, flagVars, clientVars
<1>11. QED
  BY <1>5, <1>6, <1>7, <1>8, <1>9, <1>10

(* The disk stores the active entry, or fails after or before it did.      *)
LEMMA CommitKeeps ==
    ASSUME HostInv, Commit \/ CommitFails
    PROVE  HostInv'
<1> USE DEF HostInv
<1>1. /\ UNCHANGED <<queueVars, cache, flagVars, active, clientVars, acked>>
      /\ worker = "publishing" /\ worker' \in {"committed", "failing"}
      /\ Store \/ (UNCHANGED diskVars /\ worker' = "failing")
  BY DEF Commit, CommitFails
<1>2. Working /\ Working' = Working /\ FirstQueued' = FirstQueued
      /\ \A j \in Int : Slot(j)' = Slot(j)
  BY <1>1 DEF Working, FirstQueued, Slot, queueVars
<1>3. /\ ~ failure /\ count > 0 /\ stored = cache.seq
      /\ active.index = head /\ active.batch \in Batches /\ active.next = stored + 1
      /\ accepted = cache.seq + count
  BY <1>1, <1>2 DEF ActiveInv, DiskInv, WindowInv
<1>4. slots[head] \in Metadata
  <2>1. 0 \in 0..(count - 1)
    BY <1>3, Bounds
  <2>2. QED
    BY <1>3, <2>1, SlotFacts DEF WindowInv
<1>5. stored + 1 \in Positions /\ stored + 1 <= accepted
  BY <1>3, Bounds DEF Positions
<1>6. /\ disk' \in [Positions -> Entries \cup {None}] /\ stored' \in 0..MaxSeq
      /\ \A n \in 1..stored' : disk'[n] \in Entries
      /\ \A n \in 1..stored : disk'[n] = disk[n]
      /\ stored' \in {stored, stored + 1}
      /\ worker' = "committed" => stored' = stored + 1
      /\ stored' # stored => disk'[stored'] = <<active.batch, slots[head]>>
  <2>1. CASE Store
    <3>1. /\ stored' = stored + 1
          /\ disk' = [disk EXCEPT ![stored + 1] = <<active.batch, slots[head]>>]
      BY <1>3, <2>1 DEF Store
    <3>2. <<active.batch, slots[head]>> \in Entries
      BY <1>3, <1>4 DEF Entries
    <3>3. disk' \in [Positions -> Entries \cup {None}]
      BY <1>5, <3>1, <3>2 DEF TypeOK
    <3>4. \A n \in 1..stored : disk'[n] = disk[n] /\ disk[n] \in Entries
      BY <3>1, Bounds DEF TypeOK, Positions, DiskInv
    <3>5. disk'[stored + 1] = <<active.batch, slots[head]>>
      BY <1>5, <3>1 DEF TypeOK
    <3>6. stored + 1 \in 0..MaxSeq
      BY <1>5, Bounds
    <3>7. \A n \in 1..(stored + 1) : n \in 1..stored \/ n = stored + 1
      BY Bounds
    <3>8. QED
      BY <3>1, <3>2, <3>3, <3>4, <3>5, <3>6, <3>7, Bounds
  <2>2. CASE UNCHANGED diskVars /\ worker' = "failing"
    BY <2>2 DEF diskVars, DiskInv, TypeOK
  <2>3. QED
    BY <1>1, <2>1, <2>2
<1>7. TypeOK'
  BY <1>1, <1>6 DEF TypeOK, queueVars, flagVars, clientVars
<1>8. WindowInv'
  BY <1>1, <1>2 DEF WindowInv, queueVars, flagVars
<1>9. BatchInv'
  <2>1. \A j \in FirstQueued..(count - 1) : Slot(j)' = Slot(j)
    BY <1>2 DEF FirstQueued
  <2>2. QED
    BY <1>1, <1>2, <2>1 DEF BatchInv, queueVars
<1>10. ActiveInv'
  BY <1>1, <1>2 DEF ActiveInv, queueVars, flagVars
<1>11. DiskInv'
  <2>1. cache.seq # 0 => disk'[cache.seq] = disk[cache.seq]
    BY <1>3, <1>6, Bounds
  <2>2. MetadataShown' = MetadataShown
    BY <1>1, <2>1 DEF MetadataShown
  <2>3. QED
    BY <1>1, <1>2, <1>3, <1>5, <1>6, <2>2, Bounds
       DEF DiskInv, queueVars, flagVars
<1>12. WorkerInv' /\ ClientInv'
  BY <1>1, <1>3 DEF WorkerInv, ClientInv, queueVars, flagVars, clientVars
<1>13. QED
  BY <1>7, <1>8, <1>9, <1>10, <1>11, <1>12

(* The slot of the head is free once its entry shows as durable. *)
LEMMA PublishKeeps ==
    ASSUME HostInv, Publish
    PROVE  HostInv'
<1> USE DEF HostInv
<1>1. /\ UNCHANGED <<ring, slots, accepted, flagVars, target, diskVars, acked>>
      /\ worker = "committed" /\ worker' = "looking"
      /\ cache' = [seq |-> active.next, metadata |-> slots[active.index]]
      /\ head' = (head + 1) % Capacity
      /\ count' = count - 1
      /\ active' = NoActive
      /\ client' = [c \in Clients |-> IF client[c] = "asleep" THEN "woken" ELSE client[c]]
  BY DEF Publish, WakeClients
<1>2. Working /\ ~ Working' /\ FirstQueued = 1 /\ FirstQueued' = 0
  BY <1>1 DEF Working, FirstQueued
<1>3. /\ ~ failure /\ count > 0 /\ stored = cache.seq + 1
      /\ active.index = head /\ active.next = cache.seq + 1
      /\ accepted = cache.seq + count
      /\ disk[stored] = <<active.batch, slots[head]>>
  BY <1>1, <1>2, Bounds DEF ActiveInv, DiskInv, WindowInv
<1>4. cache' = [seq |-> stored, metadata |-> slots[head]] /\ count' \in 0..(Capacity - 1)
  BY <1>1, <1>3, Bounds
<1>5. slots[head] \in Metadata
  <2>1. 0 \in 0..(count - 1)
    BY <1>3, Bounds
  <2>2. QED
    BY <1>3, <2>1, SlotFacts DEF WindowInv
<1>6. /\ head' \in Slots
      /\ \A j \in 0..(count' - 1) : Slot(j)' = Slot(j + 1) /\ j + 1 \in 1..(count - 1)
      /\ \A j \in 1..(count - 1) : Slot(j) = Slot(j - 1)' /\ j - 1 \in 0..(count' - 1)
  BY <1>1, <1>4, SlotShift, Bounds
<1>7. TypeOK'
  <2>1. /\ client' \in [Clients -> {"free", "asleep", "woken"}]
        /\ active' \in [index : Slots, batch : Batches \cup {None}, next : 0..MaxSeq]
    BY <1>1, CapacityFacts, MaxSeqAssumption DEF TypeOK, NoActive
  <2>2. cache' \in [seq : 0..MaxSeq, metadata : Metadata \cup {None}]
    BY <1>4, <1>5 DEF TypeOK
  <2>3. count' \in 0..Capacity
    BY <1>4, Bounds
  <2>4. QED
    BY <1>1, <1>6, <2>1, <2>2, <2>3 DEF TypeOK, flagVars, diskVars
<1>8. WindowInv'
  <2>1. accepted' = cache'.seq + count'
    BY <1>1, <1>3, <1>4, Bounds
  <2>2. ASSUME NEW j \in 0..(count' - 1)
        PROVE  /\ ring'[Slot(j)'].next = cache'.seq + 1 + j
               /\ slots'[Slot(j)'] \in Metadata
               /\ ring'[Slot(j)'].batch \in Batches
    <3>1. /\ Slot(j)' = Slot(j + 1) /\ j + 1 \in 0..(count - 1) /\ j + 1 >= FirstQueued
          /\ j \in Nat
      BY <1>2, <1>6, <2>2, Bounds
    <3>2. /\ ring[Slot(j + 1)].next = cache.seq + 1 + (j + 1)
          /\ slots[Slot(j + 1)] \in Metadata
          /\ ring[Slot(j + 1)].batch \in Batches
      BY <1>3, <3>1 DEF WindowInv
    <3>3. cache.seq + 1 + (j + 1) = cache'.seq + 1 + j
      BY <1>3, <1>4, <3>1, Bounds
    <3>4. QED
      BY <1>1, <3>1, <3>2, <3>3
  <2>3. QED
    BY <2>1, <2>2 DEF WindowInv
<1>9. BatchInv'
  <2>1. ASSUME NEW i \in Slots, ring'[i].batch # None
        PROVE  \E j \in 0..(count' - 1) : i = Slot(j)'
    <3>1. PICK j \in 1..(count - 1) : i = Slot(j)
      BY <1>1, <1>2, <2>1 DEF BatchInv
    <3>2. Slot(j) = Slot(j - 1)' /\ j - 1 \in 0..(count' - 1)
      BY <1>6
    <3>3. QED
      BY <3>1, <3>2
  <2>2. QED
    BY <1>2, <2>1 DEF BatchInv
<1>10. ActiveInv'
  BY <1>1, <1>2 DEF ActiveInv
<1>11. DiskInv'
  <2>1. MetadataShown' = slots[head]
    BY <1>1, <1>3, <1>4, Bounds DEF MetadataShown, diskVars
  <2>2. QED
    BY <1>1, <1>2, <1>3, <1>4, <2>1, Bounds DEF DiskInv, flagVars, diskVars
<1>12. WorkerInv' /\ ClientInv'
  BY <1>1, <1>3, <1>4 DEF WorkerInv, ClientInv, flagVars, TypeOK
<1>13. QED
  BY <1>7, <1>8, <1>9, <1>10, <1>11, <1>12

(* A section that abandons the queue takes the first batch of it, if any.  *)
LEMMA AbandonKeeps ==
    ASSUME TypeOK, NEW first \in Slots, NEW left \in 0..Capacity, Abandon(first, left),
           \A i \in Slots :
             ring[i].batch # None => \E j \in 0..(left - 1) : i = Place(first, j)
    PROVE  /\ worker' \in {"abandoning", "exited"}
           /\ worker' = "exited" => count' = 0
           /\ head' \in Slots /\ count' \in 0..Capacity
           /\ ring' \in [Slots -> [batch : Batches \cup {None}, next : 0..MaxSeq]]
           /\ BatchInv'
<1>1. left \in Nat /\ left <= Capacity /\ first \in Nat /\ first < Capacity
      /\ Capacity \in Nat /\ Capacity > 0
  BY CapacityFacts
<1>2. CASE left = 0
  <2>1. \A i \in Slots : ring[i].batch = None
    BY <1>2
  <2>2. QED
    BY <1>1, <1>2, <2>1 DEF Abandon, BatchInv, TypeOK
<1>3. CASE left # 0
  <2>1. /\ worker' = "abandoning" /\ count' = left - 1
        /\ head' = (first + 1) % Capacity
        /\ ring' = [ring EXCEPT ![first].batch = None]
    BY <1>3 DEF Abandon
  <2>2. /\ head' \in Slots
        /\ \A j \in 1..(Capacity - 1) : Place(first, j) = Place(head', j - 1)
        /\ Place(first, 0) = first
    BY <1>1, <2>1, PlaceShift
  <2>3. ring' \in [Slots -> [batch : Batches \cup {None}, next : 0..MaxSeq]]
    BY <2>1 DEF TypeOK
  <2>4. ASSUME NEW i \in Slots, ring'[i].batch # None
        PROVE  \E j \in 0..(count' - 1) : i = Slot(j)'
    <3>1. i # first /\ ring[i].batch # None
      BY <2>1, <2>4 DEF TypeOK
    <3>2. PICK j \in 0..(left - 1) : i = Place(first, j)
      BY <3>1
    <3>3. j # 0
      BY <2>2, <3>1, <3>2
    <3>4. j - 1 \in 0..(count' - 1) /\ j \in 1..(Capacity - 1)
      BY <1>1, <2>1, <3>2, <3>3
    <3>5. i = Slot(j - 1)'
      BY <2>2, <3>2, <3>4 DEF Slot
    <3>6. QED
      BY <3>4, <3>5
  <2>5. FirstQueued' = 0
    BY <2>1 DEF FirstQueued, Working
  <2>6. QED
    BY <1>1, <1>3, <2>1, <2>2, <2>3, <2>4, <2>5 DEF BatchInv
<1>4. QED
  BY <1>2, <1>3

LEMMA FailKeeps ==
    ASSUME HostInv, Fail
    PROVE  HostInv'
<1> USE DEF HostInv
<1>1. /\ UNCHANGED <<slots, accepted, cache, paused, stopping, target, diskVars, acked>>
      /\ worker = "failing" /\ failure' = TRUE
      /\ active' = NoActive
      /\ client' = [c \in Clients |-> IF client[c] = "asleep" THEN "woken" ELSE client[c]]
      /\ Abandon((head + 1) % Capacity, count - 1)
  BY DEF Fail, WakeClients
<1>2. Working /\ FirstQueued = 1 /\ count > 0
  BY <1>1 DEF Working, FirstQueued, ActiveInv
<1>3. /\ (head + 1) % Capacity \in Slots
      /\ \A j \in 1..(Capacity - 1) : Place(head, j) = Place((head + 1) % Capacity, j - 1)
      /\ count - 1 \in 0..Capacity
  BY <1>2, PlaceShift, Bounds DEF TypeOK
<1>4. ASSUME NEW i \in Slots, ring[i].batch # None
      PROVE  \E j \in 0..(count - 1 - 1) : i = Place((head + 1) % Capacity, j)
  <2>1. PICK j \in 1..(count - 1) : i = Place(head, j)
    BY <1>2, <1>4 DEF BatchInv, Slot
  <2>2. j - 1 \in 0..(count - 1 - 1) /\ j \in 1..(Capacity - 1)
    BY <2>1, Bounds
  <2>3. QED
    BY <1>3, <2>1, <2>2
<1>5. /\ worker' \in {"abandoning", "exited"}
      /\ worker' = "exited" => count' = 0
      /\ head' \in Slots /\ count' \in 0..Capacity
      /\ ring' \in [Slots -> [batch : Batches \cup {None}, next : 0..MaxSeq]]
      /\ BatchInv'
  BY <1>1, <1>3, <1>4, AbandonKeeps
<1>6. TypeOK'
  <2>1. /\ client' \in [Clients -> {"free", "asleep", "woken"}]
        /\ active' \in [index : Slots, batch : Batches \cup {None}, next : 0..MaxSeq]
    BY <1>1, CapacityFacts, MaxSeqAssumption DEF TypeOK, NoActive
  <2>2. QED
    BY <1>1, <1>5, <2>1 DEF TypeOK, diskVars
<1>7. WindowInv' /\ ActiveInv'
  BY <1>1, <1>5 DEF WindowInv, ActiveInv, Working
<1>8. DiskInv'
  BY <1>1, <1>2, <1>5 DEF DiskInv, diskVars, MetadataShown, Working
<1>9. WorkerInv' /\ ClientInv'
  BY <1>1, <1>5 DEF WorkerInv, ClientInv, TypeOK
<1>10. QED
  BY <1>5, <1>6, <1>7, <1>8, <1>9

LEMMA AbandonNextKeeps ==
    ASSUME HostInv, AbandonNext
    PROVE  HostInv'
<1> USE DEF HostInv
<1>1. /\ UNCHANGED <<slots, accepted, cache, flagVars, active, clientVars, diskVars, acked>>
      /\ worker = "abandoning" /\ failure
      /\ Abandon(head, count)
  BY DEF AbandonNext, WorkerInv
<1>2. ~ Working /\ FirstQueued = 0
  BY <1>1 DEF Working, FirstQueued
<1>3. \A i \in Slots : ring[i].batch # None => \E j \in 0..(count - 1) : i = Place(head, j)
  BY <1>2 DEF BatchInv, Slot
<1>4. /\ worker' \in {"abandoning", "exited"}
      /\ worker' = "exited" => count' = 0
      /\ head' \in Slots /\ count' \in 0..Capacity
      /\ ring' \in [Slots -> [batch : Batches \cup {None}, next : 0..MaxSeq]]
      /\ BatchInv'
  BY <1>1, <1>3, AbandonKeeps DEF TypeOK
<1>5. TypeOK'
  BY <1>1, <1>4 DEF TypeOK, flagVars, clientVars, diskVars
<1>6. WindowInv' /\ ActiveInv'
  BY <1>1, <1>2, <1>4 DEF WindowInv, ActiveInv, Working, flagVars
<1>7. DiskInv'
  BY <1>1, <1>2, <1>4 DEF DiskInv, flagVars, diskVars, MetadataShown, Working
<1>8. WorkerInv' /\ ClientInv'
  BY <1>1, <1>4 DEF WorkerInv, ClientInv, flagVars, clientVars
<1>9. QED
  BY <1>4, <1>5, <1>6, <1>7, <1>8

LEMMA StutterKeeps ==
    ASSUME HostInv, UNCHANGED vars
    PROVE  HostInv'
  BY DEF vars, queueVars, flagVars, clientVars, diskVars, HostInv, TypeOK, WindowInv,
         BatchInv, ActiveInv, DiskInv, MetadataShown, WorkerInv, ClientInv, Working,
         FirstQueued, Slot, Place

LEMMA NextKeeps ==
    ASSUME HostInv, Next
    PROVE  HostInv'
<1>1. ASSUME NEW c \in Clients, Wait(c) \/ Rewait(c)
      PROVE  HostInv'
  <2>1. CASE Wait(c)
    BY <2>1, DecideKeeps DEF Wait
  <2>2. CASE Rewait(c)
    <3>1. target[c] \in 0..accepted
      BY Bounds DEF HostInv, ClientInv, TypeOK
    <3>2. QED
      BY <2>2, <3>1, DecideKeeps DEF Rewait
  <2>3. QED
    BY <1>1, <2>1, <2>2
<1>2. CASE WorkerNext
  BY <1>2, SleepKeeps, TakeKeeps, CommitKeeps, PublishKeeps, FailKeeps, AbandonNextKeeps
     DEF WorkerNext
<1>3. CASE Pause \/ Resume \/ Deinit
  BY <1>3, FlagsKeep
<1>4. CASE Join \/ Crash
  BY <1>4, CreateKeeps DEF Join, Crash
<1>5. QED
  BY <1>1, <1>2, <1>3, <1>4, SubmitKeeps DEF Next

(* The invariant holds for any clients, batches and capacity. *)
THEOREM HostInvariant == Spec => []HostInv
<1>1. HostInv /\ [Next]_vars => HostInv'
  BY NextKeeps, StutterKeeps
<1>2. QED
  BY <1>1, InitInv, PTL DEF Spec

-----------------------------------------------------------------------------
(* The safety properties. *)

(* Every reachable state is well typed. *)
THEOREM TypeCorrect == Spec => []TypeOK
  BY HostInvariant, PTL DEF HostInv

(* Nobody sleeps through what it waits for: neither the worker, which one  *)
(* signal must reach among all who wait, nor a client.                     *)
THEOREM WakeupsReach == Spec => []NoLostWakeup
<1>1. HostInv => NoLostWakeup
  BY DEF HostInv, WorkerInv, ClientInv, NoLostWakeup, Sleepers
<1>2. QED
  BY <1>1, HostInvariant, PTL

(* What a wait reported as durable is on the disk, and stays there.        *)
THEOREM AcknowledgedStays == Spec => []AcknowledgedSurvives
<1>1. HostInv => AcknowledgedSurvives
  BY Bounds DEF HostInv, DiskInv, MetadataShown, AcknowledgedSurvives
<1>2. QED
  BY <1>1, HostInvariant, PTL

(* The thread that deinit joins leaves no batch in the ring.               *)
THEOREM JoinFindsNothing == Spec => []NothingLeftAtJoin
<1>1. HostInv => NothingLeftAtJoin
  <2> SUFFICES ASSUME HostInv, worker = "exited"
               PROVE  /\ count = 0
                      /\ \A i \in Slots : ring[i].batch = None
                      /\ failure \/ stored = accepted
    BY DEF NothingLeftAtJoin
  <2>1. count = 0 /\ ~ Working /\ FirstQueued = 0
    BY DEF HostInv, WorkerInv, Working, FirstQueued
  <2>2. \A i \in Slots : ring[i].batch = None
    BY <2>1 DEF HostInv, BatchInv
  <2>3. ~ failure => stored = accepted
    BY <2>1, Bounds DEF HostInv, DiskInv, WindowInv
  <2>4. QED
    BY <2>1, <2>2, <2>3
<1>2. QED
  BY <1>1, HostInvariant, PTL

(* A failure is final until the host is opened again.                      *)
THEOREM FailureStays == Spec => FailureIsFinal
<1>1. HostInv /\ [Next]_vars =>
        [failure /\ failure' => UNCHANGED <<accepted, cache, diskVars>>]_vars
  <2> SUFFICES ASSUME HostInv, Next, failure, failure'
               PROVE  UNCHANGED <<accepted, cache, diskVars>>
    OBVIOUS
  <2>1. worker \in {"abandoning", "exited"}
    BY DEF HostInv, WorkerInv
  <2>2. ASSUME NEW batch \in Batches, NEW metadata \in Metadata, Submit(batch, metadata)
        PROVE  FALSE
    BY <2>2 DEF Submit, Admits
  <2>3. ASSUME NEW c \in Clients, Wait(c) \/ Rewait(c)
        PROVE  UNCHANGED <<accepted, cache, diskVars>>
    BY <2>3 DEF Wait, Rewait, Decide, queueVars
  <2>4. CASE Pause \/ Resume \/ Deinit
    BY <2>4 DEF Pause, Resume, Deinit, queueVars
  <2>5. CASE WorkerNext
    BY <2>1, <2>5 DEF WorkerNext, Sleep, Take, Commit, CommitFails, Publish, Fail, AbandonNext
  <2>6. CASE Join \/ Crash
    BY <2>6 DEF Join, Crash, Create
  <2>7. QED
    BY <2>2, <2>3, <2>4, <2>5, <2>6 DEF Next
<1>2. QED
  BY <1>1, HostInvariant, PTL DEF Spec, FailureIsFinal

-----------------------------------------------------------------------------
(* Refinement. *)

(* What the log holds beyond the stored prefix. *)
LEMMA PendingSlots ==
    ASSUME HostInv, ~ failure
    PROVE  /\ accepted = cache.seq + count
           /\ \A n \in (stored + 1)..accepted :
                /\ n - 1 - cache.seq \in 0..(count - 1)
                /\ SlotOf(n) = Slot(n - 1 - cache.seq)
                /\ SlotOf(n) \in Slots
<1>1. accepted = cache.seq + count /\ stored \in {cache.seq, cache.seq + 1}
  BY DEF HostInv, WindowInv, DiskInv
<1>2. ASSUME NEW n \in (stored + 1)..accepted
      PROVE  /\ n - 1 - cache.seq \in 0..(count - 1)
             /\ SlotOf(n) = Slot(n - 1 - cache.seq)
             /\ SlotOf(n) \in Slots
  <2>1. n \in Int /\ n - 1 - cache.seq \in 0..(count - 1)
    BY <1>1, <1>2, Bounds
  <2>2. n - 1 - cache.seq \in 0..(Capacity - 1) /\ n - 1 - cache.seq \in 0..Capacity
    BY <2>1, Bounds
  <2>3. SlotOf(n) = Slot(n - 1 - cache.seq) /\ Slot(n - 1 - cache.seq) \in Slots
    BY <2>1, <2>2, SlotFacts DEF HostInv
  <2>4. QED
    BY <2>1, <2>3
<1>3. QED
  BY <1>1, <1>2

(* A host that is opened loses what is not stored. *)
LEMMA CreateLoses ==
    ASSUME HostInv, Create
    PROVE  Log!Lose
<1>1. /\ stored' = stored /\ accepted' = stored /\ failure' = FALSE /\ disk' = disk
  BY DEF Create, diskVars
<1>2. AcceptedLog' = [n \in Positions |-> IF n <= stored THEN disk[n] ELSE None]
  BY <1>1, Bounds DEF AcceptedLog, Positions
<1>3. Log!UpTo(stored) = [n \in Positions |-> IF n <= stored THEN disk[n] ELSE None]
  BY DEF Log!UpTo, Log!Positions, AcceptedLog, Positions
<1>4. QED
  BY <1>1, <1>2, <1>3 DEF Log!Lose

LEMMA FailLoses ==
    ASSUME HostInv, Fail
    PROVE  Log!Lose
<1>1. /\ stored' = stored /\ failure' = TRUE /\ disk' = disk
  BY DEF Fail, diskVars
<1>2. AcceptedLog' = [n \in Positions |-> IF n <= stored THEN disk[n] ELSE None]
  BY <1>1 DEF AcceptedLog
<1>3. Log!UpTo(stored) = [n \in Positions |-> IF n <= stored THEN disk[n] ELSE None]
  BY DEF Log!UpTo, Log!Positions, AcceptedLog, Positions
<1>4. QED
  BY <1>1, <1>2, <1>3 DEF Log!Lose

(* An admission is the next entry of the log. *)
LEMMA SubmitAccepts ==
    ASSUME HostInv, NEW batch \in Batches, NEW metadata \in Metadata, Submit(batch, metadata)
    PROVE  Log!Accept(<<batch, metadata>>)
<1>1. /\ ~ failure /\ count # Capacity /\ accepted # MaxSeq
      /\ UNCHANGED <<head, cache, failure, active, disk, stored>>
      /\ accepted' = accepted + 1
      /\ slots' = [slots EXCEPT ![Slot(count)] = metadata]
      /\ ring' = [ring EXCEPT ![Slot(count)] = [batch |-> batch, next |-> accepted + 1]]
  BY SlotFacts DEF HostInv, Submit, Admits, flagVars, diskVars
<1>2. /\ accepted = cache.seq + count
      /\ \A n \in (stored + 1)..accepted :
           /\ n - 1 - cache.seq \in 0..(count - 1)
           /\ SlotOf(n) = Slot(n - 1 - cache.seq)
           /\ SlotOf(n) \in Slots
  BY <1>1, PendingSlots
<1>3. stored <= accepted /\ active.next <= accepted
  BY <1>1, <1>2, Bounds DEF HostInv, DiskInv, ActiveInv, NoActive
<1>4. ASSUME NEW n \in (stored + 1)..accepted
      PROVE  Pending(n)' = Pending(n)
  <2>1. SlotOf(n)' = SlotOf(n)
    BY <1>1 DEF SlotOf
  <2>2. SlotOf(n) # Slot(count)
    BY <1>1, <1>2, SlotFacts, Bounds DEF HostInv
  <2>3. SlotOf(n) \in Slots
    BY <1>2
  <2>4. ring'[SlotOf(n)] = ring[SlotOf(n)] /\ slots'[SlotOf(n)] = slots[SlotOf(n)]
    BY <1>1, <2>2, <2>3 DEF HostInv, TypeOK
  <2>5. QED
    BY <1>1, <2>1, <2>4 DEF Pending
<1>5. ASSUME NEW n \in Positions, n = accepted + 1
      PROVE  Pending(n)' = <<batch, metadata>>
  <2>1. SlotOf(n) = Slot(count)
    <3>1. n \in Int /\ n - 1 - cache.seq = count /\ count \in 0..Capacity
      BY <1>2, <1>5, Bounds
    <3>2. QED
      BY <3>1, SlotFacts DEF HostInv
  <2>2. SlotOf(n)' = Slot(count)
    BY <1>1, <2>1 DEF SlotOf
  <2>3. Slot(count) \in Slots
    BY <1>1, SlotFacts, Bounds DEF HostInv
  <2>4. ring'[Slot(count)].batch = batch /\ slots'[Slot(count)] = metadata
    BY <1>1, <2>3 DEF HostInv, TypeOK
  <2>5. n # active'.next
    BY <1>1, <1>3, <1>5, Bounds DEF HostInv, TypeOK
  <2>6. QED
    BY <2>2, <2>4, <2>5 DEF Pending
<1>6. accepted + 1 \in Positions
  BY <1>1, Bounds DEF Positions
<1>7. AcceptedLog' = [AcceptedLog EXCEPT ![accepted + 1] = <<batch, metadata>>]
  <2>1. ASSUME NEW n \in Positions
        PROVE  AcceptedLog'[n] = IF n = accepted + 1 THEN <<batch, metadata>> ELSE AcceptedLog[n]
    <3>1. CASE n <= stored
      BY <1>1, <1>3, <3>1, Bounds DEF AcceptedLog, Positions
    <3>2. CASE n > stored /\ n <= accepted
      <4>1. n \in (stored + 1)..accepted /\ n # accepted + 1
        BY <3>2, Bounds DEF Positions
      <4>2. AcceptedLog[n] = Pending(n) /\ AcceptedLog'[n] = Pending(n)'
        BY <1>1, <3>2, <4>1, Bounds DEF AcceptedLog, Positions
      <4>3. QED
        BY <1>4, <4>1, <4>2
    <3>3. CASE n = accepted + 1
      BY <1>1, <1>3, <1>5, <3>3, Bounds DEF AcceptedLog, Positions
    <3>4. CASE n > accepted + 1
      BY <1>1, <1>3, <3>4, Bounds DEF AcceptedLog, Positions
    <3>5. QED
      BY <3>1, <3>2, <3>3, <3>4, Bounds DEF Positions
  <2>2. QED
    BY <1>6, <2>1 DEF AcceptedLog
<1>8. <<batch, metadata>> \in Entries
  BY DEF Entries
<1>9. QED
  BY <1>1, <1>7, Bounds DEF Log!Accept

(* The variables of the log, as a step of the host leaves them. *)
LogUnchanged ==
    /\ AcceptedLog' = AcceptedLog
    /\ stored' = stored
    /\ (IF failure THEN stored ELSE accepted)' = IF failure THEN stored ELSE accepted

(* What the disk stores is the next entry, as it was accepted.             *)
LEMMA StorePersists ==
    ASSUME HostInv, worker = "publishing", Store,
           UNCHANGED <<queueVars, cache, failure, active>>
    PROVE  Log!Persist
<1>1. /\ Working /\ ~ failure /\ count > 0 /\ stored = cache.seq
      /\ active.index = head /\ active.next = stored + 1
      /\ accepted = cache.seq + count
  BY DEF HostInv, Working, ActiveInv, DiskInv, WindowInv
<1>2. /\ stored' = stored + 1 /\ stored + 1 \in Positions /\ stored < accepted
      /\ disk' = [disk EXCEPT ![stored + 1] = <<active.batch, slots[head]>>]
      /\ UNCHANGED <<ring, slots, head, count, accepted>>
  BY <1>1, Bounds DEF Store, Positions, queueVars
<1>3. ASSUME NEW n \in Positions, n = stored + 1
      PROVE  Pending(n) = <<active.batch, slots[head]>>
  <2>1. n - 1 - cache.seq = 0 /\ n \in (stored + 1)..accepted
    BY <1>1, <1>3, Bounds
  <2>2. SlotOf(n) = Slot(n - 1 - cache.seq)
    BY <1>1, <2>1, PendingSlots
  <2>3. Slot(n - 1 - cache.seq) = head
    BY <2>1, CapacityFacts DEF Slot, Place, HostInv, TypeOK
  <2>4. QED
    BY <1>1, <1>3, <2>2, <2>3 DEF Pending
<1>4. ASSUME NEW n \in Positions
      PROVE  AcceptedLog'[n] = AcceptedLog[n]
  <2>1. CASE n <= stored
    BY <1>1, <1>2, <2>1, Bounds DEF AcceptedLog, Positions, HostInv, TypeOK
  <2>2. CASE n = stored + 1
    BY <1>1, <1>2, <1>3, <2>2, Bounds DEF AcceptedLog, HostInv, TypeOK
  <2>3. CASE n > stored + 1
    <3>1. Pending(n)' = Pending(n)
      BY <1>2 DEF Pending, SlotOf
    <3>2. QED
      BY <1>1, <1>2, <2>3, <3>1, Bounds DEF AcceptedLog, Positions
  <2>4. QED
    BY <2>1, <2>2, <2>3, Bounds DEF Positions
<1>5. AcceptedLog' = AcceptedLog
  BY <1>4 DEF AcceptedLog
<1>6. QED
  BY <1>1, <1>2, <1>5 DEF Log!Persist

(* The worker moves an entry out of the ring, and past it, unseen.         *)
LEMMA TakeUnseen ==
    ASSUME HostInv, Take
    PROVE  LogUnchanged
<1>1. /\ UNCHANGED <<slots, head, accepted, cache, failure, disk, stored>>
      /\ ~ Working /\ worker' = "publishing" /\ ~ failure /\ count > 0
      /\ active' = [index |-> head, batch |-> ring[head].batch, next |-> ring[head].next]
      /\ ring' = [ring EXCEPT ![head].batch = None]
  BY Bounds DEF Take, HostInv, WorkerInv, Working, flagVars, diskVars
<1>2. stored = cache.seq /\ active = NoActive /\ head \in Slots /\ Slot(0) = head
  BY <1>1, SlotFacts DEF HostInv, DiskInv, ActiveInv, Take, TypeOK
<1>3. ring[head].next = stored + 1
  <2>1. 0 \in 0..(count - 1)
    BY <1>1, Bounds
  <2>2. QED
    BY <1>1, <1>2, <2>1, Bounds DEF HostInv, WindowInv
<1>4. ASSUME NEW n \in (stored + 1)..accepted
      PROVE  Pending(n)' = Pending(n)
  <2>1. SlotOf(n)' = SlotOf(n)
    BY <1>1 DEF SlotOf
  <2>2. n - 1 - cache.seq \in 0..(count - 1) /\ SlotOf(n) = Slot(n - 1 - cache.seq)
        /\ SlotOf(n) \in Slots
    BY <1>1, PendingSlots
  <2>3. n # active.next
    BY <1>2, Bounds DEF NoActive
  <2>4. CASE n = stored + 1
    <3>1. SlotOf(n) = head
      BY <1>2, <2>2, <2>4, Bounds
    <3>2. QED
      BY <1>1, <1>3, <2>1, <2>3, <2>4, <3>1 DEF Pending
  <2>5. CASE n # stored + 1
    <3>1. SlotOf(n) # head
      <4>1. n - 1 - cache.seq # 0 /\ 0 \in 0..(Capacity - 1)
        BY <1>2, <2>5, Bounds
      <4>2. n - 1 - cache.seq \in 0..(Capacity - 1)
        BY <2>2, Bounds
      <4>3. QED
        BY <1>2, <2>2, <4>1, <4>2, SlotFacts DEF HostInv
    <3>2. ring'[SlotOf(n)] = ring[SlotOf(n)]
      BY <1>1, <2>2, <3>1 DEF HostInv, TypeOK
    <3>3. QED
      <4>1. n # active'.next /\ slots' = slots
        BY <1>1, <1>3, <2>5
      <4>2. Pending(n) = <<ring[SlotOf(n)].batch, slots[SlotOf(n)]>>
        BY <2>3 DEF Pending
      <4>3. Pending(n)' = <<ring'[SlotOf(n)].batch, slots'[SlotOf(n)]>>
        BY <2>1, <4>1 DEF Pending
      <4>4. QED
        BY <3>2, <4>1, <4>2, <4>3
  <2>6. QED
    BY <2>4, <2>5
<1>5. ASSUME NEW n \in Positions
      PROVE  AcceptedLog'[n] = AcceptedLog[n]
  <2>1. CASE n \in (stored + 1)..accepted
    BY <1>1, <1>4, <2>1 DEF AcceptedLog
  <2>2. CASE n \notin (stored + 1)..accepted
    BY <1>1, <2>2, Bounds DEF AcceptedLog, Positions
  <2>3. QED
    BY <2>1, <2>2
<1>6. QED
  BY <1>1, <1>5 DEF AcceptedLog, LogUnchanged

LEMMA PublishUnseen ==
    ASSUME HostInv, Publish
    PROVE  LogUnchanged
<1>1. /\ UNCHANGED <<ring, slots, accepted, failure, disk, stored>>
      /\ worker = "committed"
      /\ cache'.seq = active.next
      /\ head' = (head + 1) % Capacity
      /\ count' = count - 1
      /\ active' = NoActive
  BY DEF Publish, flagVars, diskVars
<1>2. ~ failure /\ stored = cache.seq + 1 /\ active.next = stored /\ count > 0
  BY <1>1 DEF HostInv, Working, ActiveInv, DiskInv
<1>3. ASSUME NEW n \in (stored + 1)..accepted
      PROVE  Pending(n)' = Pending(n)
  <2> DEFINE j == n - 1 - stored
  <2>1. /\ n \in Int /\ j + 1 = n - 1 - cache.seq /\ j + 1 \in 1..(Capacity - 1)
        /\ j \in 0..(Capacity - 1) /\ j \in 0..Capacity
        /\ SlotOf(n) = Place(head, j + 1)
    BY <1>2, PendingSlots, Bounds DEF Slot
  <2>2. head \in Slots /\ (head + 1) % Capacity \in Slots
        /\ Place((head + 1) % Capacity, j) = Place(head, j + 1)
    BY <2>1, PlaceShift DEF HostInv, TypeOK
  <2>3. head' \in Slots /\ head' \in Int /\ Place(head', j) = Place(head, j + 1)
    BY <1>1, <2>2, CapacityFacts
  <2>4. head' + n - 1 - cache'.seq = head' + j
    BY <1>1, <1>2, <2>1, <2>3, Bounds
  <2>5. (head' + j) % Capacity = Place(head', j)
    BY <2>1, <2>3, SlotMod
  <2>6. SlotOf(n)' = SlotOf(n)
    BY <2>1, <2>3, <2>4, <2>5 DEF SlotOf
  <2>7. n # active.next /\ n # active'.next
    BY <1>1, <1>2, Bounds DEF NoActive
  <2>8. QED
    BY <1>1, <2>6, <2>7 DEF Pending
<1>4. ASSUME NEW n \in Positions
      PROVE  AcceptedLog'[n] = AcceptedLog[n]
  <2>1. CASE n \in (stored + 1)..accepted
    BY <1>1, <1>3, <2>1 DEF AcceptedLog
  <2>2. CASE n \notin (stored + 1)..accepted
    BY <1>1, <2>2, Bounds DEF AcceptedLog, Positions
  <2>3. QED
    BY <2>1, <2>2
<1>5. QED
  BY <1>1, <1>4 DEF AcceptedLog, LogUnchanged

(* Every other step leaves all that the log is made of alone.              *)
LEMMA OthersUnseen ==
    ASSUME UNCHANGED <<slots, head, accepted, cache, failure, active, disk, stored>>,
           failure \/ ring' = ring
    PROVE  LogUnchanged
<1>1. ASSUME NEW n \in Positions
      PROVE  AcceptedLog'[n] = AcceptedLog[n]
  BY DEF AcceptedLog, Pending, SlotOf
<1>2. QED
  BY <1>1 DEF AcceptedLog, LogUnchanged

LEMMA AbandonUnseen ==
    ASSUME AbandonNext, failure
    PROVE  LogUnchanged
<1>1. UNCHANGED <<accepted, failure, disk, stored>>
  BY DEF AbandonNext, flagVars, diskVars
<1>2. QED
  BY <1>1 DEF AcceptedLog, LogUnchanged

LEMMA StepOfLog ==
    ASSUME HostInv, [Next]_vars
    PROVE  Log!Next \/ LogUnchanged
<1>1. ASSUME NEW batch \in Batches, NEW metadata \in Metadata, Submit(batch, metadata)
      PROVE  Log!Next
  <2>1. <<batch, metadata>> \in Entries
    BY DEF Entries
  <2>2. QED
    BY <1>1, <2>1, SubmitAccepts DEF Log!Next
<1>2. CASE Pause \/ Resume \/ Deinit
  BY <1>2, OthersUnseen DEF Pause, Resume, Deinit, queueVars, diskVars
<1>3. ASSUME NEW c \in Clients, Wait(c) \/ Rewait(c)
      PROVE  LogUnchanged
  BY <1>3, OthersUnseen DEF Wait, Rewait, Decide, queueVars, flagVars, diskVars
<1>4. CASE Sleep
  BY <1>4, OthersUnseen DEF Sleep, queueVars, flagVars, diskVars
<1>5. CASE Take
  BY <1>5, TakeUnseen
<1>6. CASE Commit
  BY <1>6, StorePersists DEF Commit, flagVars, Log!Next
<1>7. CASE CommitFails
  <2>1. CASE Store
    BY <1>7, <2>1, StorePersists DEF CommitFails, flagVars, Log!Next
  <2>2. CASE UNCHANGED diskVars
    BY <1>7, <2>2, OthersUnseen DEF CommitFails, queueVars, flagVars, diskVars
  <2>3. QED
    BY <1>7, <2>1, <2>2 DEF CommitFails
<1>8. CASE Publish
  BY <1>8, PublishUnseen
<1>9. CASE Fail
  BY <1>9, FailLoses DEF Log!Next
<1>10. CASE AbandonNext
  BY <1>10, AbandonUnseen DEF AbandonNext, HostInv, WorkerInv
<1>11. CASE Join \/ Crash
  BY <1>11, CreateLoses DEF Join, Crash, Log!Next
<1>12. CASE UNCHANGED vars
  BY <1>12, OthersUnseen DEF vars, queueVars, flagVars, diskVars
<1>13. QED
  BY <1>1, <1>2, <1>3, <1>4, <1>5, <1>6, <1>7, <1>8, <1>9, <1>10, <1>11, <1>12
     DEF Next, WorkerNext

(* The host implements the log with a durable prefix. *)
THEOREM HostImplementsLog == Spec => ImplementsLog
<1>1. Init => Log!Init
  <2> SUFFICES ASSUME Init
               PROVE  Log!Init
    OBVIOUS
  <2>1. AcceptedLog = [n \in Positions |-> None]
    BY MaxSeqAssumption DEF Init, AcceptedLog, Positions
  <2>2. QED
    BY <2>1 DEF Init, Log!Init, Log!Positions, Positions
<1>2. HostInv /\ [Next]_vars => [Log!Next]_Log!vars
  BY StepOfLog DEF LogUnchanged, Log!vars
<1>3. QED
  BY <1>1, <1>2, HostInvariant, PTL DEF Spec, ImplementsLog, Log!Spec

=============================================================================

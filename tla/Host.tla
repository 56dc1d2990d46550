-------------------------------- MODULE Host --------------------------------
(***************************************************************************)
(* The background publisher of src/src/host.zig.  Clients submit batches   *)
(* into a ring of Capacity slots without blocking; one worker thread takes *)
(* them in order, publishes each through the disk database and then shows  *)
(* it in the durable cache.  One mutex guards all of the state and one     *)
(* condition, changed, is waited on by the worker and by the clients that  *)
(* wait for a sequence.  A section that holds the mutex is one action; the *)
(* disk is used by the worker alone, outside the mutex.                    *)
(*                                                                         *)
(* A failed tryLock changes nothing but a counter and is left out, and so  *)
(* are status and snapshot, which only copy the durable cache.             *)
(***************************************************************************)
EXTENDS Integers

CONSTANTS Clients,    \* threads that wait for a sequence
          Batches,
          Metadata,
          Capacity,   \* slots of the ring
          MaxSeq,     \* the last sequence number, 2^64 - 1 in the code
          None        \* no batch, no metadata, no entry on the disk

ASSUME CapacityAssumption == Capacity \in Nat \ {0}

ASSUME MaxSeqAssumption == MaxSeq \in Nat

ASSUME NoneAssumption == None \notin Batches \cup Metadata

Slots == 0..(Capacity - 1)

Positions == 1..MaxSeq

Entries == Batches \X Metadata

VARIABLES
    ring,      \* per slot, [batch, next]
    slots,     \* per slot, its preallocated metadata bytes
    head,
    count,     \* slots in use, the active one included
    accepted,  \* the last sequence admitted
    cache,     \* the durable cache: [seq, metadata]
    paused,
    stopping,
    failure,
    worker,    \* where the worker is
    active,    \* the entry it moved out: [index, batch, next]
    client,    \* per client, where it is
    target,    \* per client, the sequence it waits for
    disk,      \* what is stored: an entry per sequence
    stored,    \* the last sequence stored
    acked      \* the last sequence a wait reported as durable

queueVars == <<ring, slots, head, count, accepted>>
flagVars == <<paused, stopping, failure>>
clientVars == <<client, target>>
diskVars == <<disk, stored>>

vars == <<queueVars, cache, flagVars, worker, active, clientVars, diskVars, acked>>

NoActive == [index |-> 0, batch |-> None, next |-> 0]

-----------------------------------------------------------------------------
(* create on a path whose disk holds what is stored. *)
EmptyRing == [i \in Slots |-> [batch |-> None, next |-> 0]]

MetadataStored == IF stored = 0 THEN None ELSE disk[stored][2]

Init ==
    /\ ring = EmptyRing
    /\ slots = [i \in Slots |-> None]
    /\ head = 0
    /\ count = 0
    /\ accepted = 0
    /\ cache = [seq |-> 0, metadata |-> None]
    /\ paused = FALSE
    /\ stopping = FALSE
    /\ failure = FALSE
    /\ worker = "looking"
    /\ active = NoActive
    /\ client = [c \in Clients |-> "free"]
    /\ target = [c \in Clients |-> 0]
    /\ disk = [n \in Positions |-> None]
    /\ stored = 0
    /\ acked = 0

Create ==
    /\ ring' = EmptyRing
    /\ slots' = [i \in Slots |-> None]
    /\ head' = 0
    /\ count' = 0
    /\ accepted' = stored
    /\ cache' = [seq |-> stored, metadata |-> MetadataStored]
    /\ paused' = FALSE
    /\ stopping' = FALSE
    /\ failure' = FALSE
    /\ worker' = "looking"
    /\ active' = NoActive
    /\ client' = [c \in Clients |-> "free"]
    /\ target' = [c \in Clients |-> 0]
    /\ UNCHANGED <<diskVars, acked>>

-----------------------------------------------------------------------------
(* Plausible defects: a section that forgets its broadcast. *)
WakeNoClient == UNCHANGED client

WorkerNotWoken == worker

(* broadcast wakes every thread that waits on changed. *)
WakeClients == client' = [c \in Clients |-> IF client[c] = "asleep" THEN "woken" ELSE client[c]]

WokenWorker == IF worker = "asleep" THEN "looking" ELSE worker

(* signal wakes one of them, whichever it is. *)
Sleepers == {c \in Clients : client[c] = "asleep"}

Signal ==
    \/ /\ worker = "asleep"
       /\ worker' = "looking"
       /\ UNCHANGED client
    \/ \E c \in Sleepers : client' = [client EXCEPT ![c] = "woken"] /\ UNCHANGED worker
    \/ worker # "asleep" /\ Sleepers = {} /\ UNCHANGED <<worker, client>>

(* Plausible defects of the admission. *)
TailFromStart == count % Capacity

AdmitsWhenFull == ~ stopping /\ ~ failure /\ accepted # MaxSeq

AdmitsAfterFailure == ~ stopping /\ count # Capacity /\ accepted # MaxSeq

Tail == (head + count) % Capacity

(* Not closed, failed, full or exhausted; every rejection changes nothing, *)
(* and so does that of a sequence other than the next.                     *)
Admits == ~ stopping /\ ~ failure /\ count # Capacity /\ accepted # MaxSeq

(* trySubmit of the next sequence. *)
Submit(batch, metadata) ==
    /\ Admits
    /\ slots' = [slots EXCEPT ![Tail] = metadata]
    /\ ring' = [ring EXCEPT ![Tail] = [batch |-> batch, next |-> accepted + 1]]
    /\ count' = count + 1
    /\ accepted' = accepted + 1
    /\ IF paused THEN UNCHANGED <<worker, client>> ELSE Signal
    /\ UNCHANGED <<head, cache, flagVars, active, target, diskVars, acked>>

Pause ==
    /\ ~ stopping
    /\ paused' = TRUE
    /\ UNCHANGED <<queueVars, cache, stopping, failure, worker, active, clientVars, diskVars, acked>>

Resume ==
    /\ ~ stopping
    /\ paused' = FALSE
    /\ worker' = WokenWorker
    /\ WakeClients
    /\ UNCHANGED <<queueVars, cache, stopping, failure, active, target, diskVars, acked>>

-----------------------------------------------------------------------------
(* The loop of wait: the outcome is decided anew each time it wakes.       *)
Decide(c, sequence) ==
    /\ \/ /\ sequence <= cache.seq
          /\ client' = [client EXCEPT ![c] = "free"]
          /\ target' = [target EXCEPT ![c] = 0]
          /\ acked' = IF sequence > acked THEN sequence ELSE acked
       \/ /\ sequence > cache.seq
          /\ failure
          /\ client' = [client EXCEPT ![c] = "free"]
          /\ target' = [target EXCEPT ![c] = 0]
          /\ UNCHANGED acked
       \/ /\ sequence > cache.seq
          /\ ~ failure
          /\ client' = [client EXCEPT ![c] = "asleep"]
          /\ target' = [target EXCEPT ![c] = sequence]
          /\ UNCHANGED acked
    /\ UNCHANGED <<queueVars, cache, flagVars, worker, active, diskVars>>

(* wait for an admitted sequence. *)
Wait(c) ==
    /\ ~ stopping
    /\ client[c] = "free"
    /\ \E sequence \in 0..accepted : Decide(c, sequence)

Rewait(c) == client[c] = "woken" /\ Decide(c, target[c])

-----------------------------------------------------------------------------
(* The worker waits for an entry, or exits when it is told to stop and     *)
(* nothing is left.                                                        *)
Sleep ==
    /\ worker = "looking"
    /\ count = 0 \/ paused
    /\ worker' = IF stopping /\ count = 0 THEN "exited" ELSE "asleep"
    /\ UNCHANGED <<queueVars, cache, flagVars, active, clientVars, diskVars, acked>>

(* It moves the batch out of the head slot and leaves the slot counted, so *)
(* that the metadata it points to stays pinned while it works.             *)
Take ==
    /\ worker = "looking"
    /\ count # 0 /\ ~ paused
    /\ worker' = "publishing"
    /\ active' = [index |-> head, batch |-> ring[head].batch, next |-> ring[head].next]
    /\ ring' = [ring EXCEPT ![head].batch = None]
    /\ UNCHANGED <<slots, head, count, accepted, cache, flagVars, clientVars, diskVars, acked>>

(* prepare and commit of the disk database, which refuses a sequence that  *)
(* is not the next one.                                                    *)
Store ==
    /\ active.next = stored + 1
    /\ disk' = [disk EXCEPT ![active.next] = <<active.batch, slots[active.index]>>]
    /\ stored' = active.next

Commit ==
    /\ worker = "publishing"
    /\ Store
    /\ worker' = "committed"
    /\ UNCHANGED <<queueVars, cache, flagVars, active, clientVars, acked>>

(* A plausible defect: an error of the disk taken for success. *)
CommitErrorIgnored ==
    /\ worker = "publishing"
    /\ Store \/ UNCHANGED diskVars
    /\ worker' = "committed"
    /\ UNCHANGED <<queueVars, cache, flagVars, active, clientVars, acked>>

(* An error of prepare or commit: the catalog was replaced or it was not.  *)
CommitFails ==
    /\ worker = "publishing"
    /\ Store \/ UNCHANGED diskVars
    /\ worker' = "failing"
    /\ UNCHANGED <<queueVars, cache, flagVars, active, clientVars, acked>>

(* The second half of publish: the durable cache, then the slot is free.   *)
Publish ==
    /\ worker = "committed"
    /\ cache' = [seq |-> active.next, metadata |-> slots[active.index]]
    /\ head' = (head + 1) % Capacity
    /\ count' = count - 1
    /\ worker' = "looking"
    /\ active' = NoActive
    /\ WakeClients
    /\ UNCHANGED <<ring, slots, accepted, flagVars, target, diskVars, acked>>

(* A plausible defect: the queue is forgotten when the worker fails. *)
AbandonWithoutDraining(first, left) ==
    /\ worker' = "exited"
    /\ head' = first
    /\ count' = left
    /\ UNCHANGED ring

(* One section of the loop that abandons what is queued from slot first:   *)
(* it takes the batch of one slot, or exits when there is none.            *)
Abandon(first, left) ==
    IF left = 0
    THEN /\ worker' = "exited"
         /\ head' = first
         /\ count' = 0
         /\ UNCHANGED ring
    ELSE /\ worker' = "abandoning"
         /\ head' = (first + 1) % Capacity
         /\ count' = left - 1
         /\ ring' = [ring EXCEPT ![first].batch = None]

Fail ==
    /\ worker = "failing"
    /\ failure' = TRUE
    /\ active' = NoActive
    /\ WakeClients
    /\ Abandon((head + 1) % Capacity, count - 1)
    /\ UNCHANGED <<slots, accepted, cache, paused, stopping, target, diskVars, acked>>

AbandonNext ==
    /\ worker = "abandoning"
    /\ Abandon(head, count)
    /\ UNCHANGED <<slots, accepted, cache, flagVars, active, clientVars, diskVars, acked>>

-----------------------------------------------------------------------------
(* deinit: no other caller may use the host meanwhile. *)
Deinit ==
    /\ ~ stopping
    /\ \A c \in Clients : client[c] = "free"
    /\ stopping' = TRUE
    /\ paused' = FALSE
    /\ worker' = WokenWorker
    /\ UNCHANGED <<queueVars, cache, failure, active, clientVars, diskVars, acked>>

(* The worker is joined, and the path may be opened again. *)
Join ==
    /\ stopping
    /\ worker = "exited"
    /\ Create

(* The process is killed at any point; only the disk survives. *)
Crash == Create

WorkerNext ==
    Sleep \/ Take \/ Commit \/ CommitFails \/ Publish \/ Fail \/ AbandonNext

Next ==
    \/ \E batch \in Batches, metadata \in Metadata : Submit(batch, metadata)
    \/ Pause
    \/ Resume
    \/ \E c \in Clients : Wait(c) \/ Rewait(c)
    \/ WorkerNext
    \/ Deinit
    \/ Join
    \/ Crash

(* The worker and the woken clients run; the disk answers one way or the   *)
(* other.  Nobody has to submit, resume, stop or crash.                    *)
Fairness == WF_vars(WorkerNext) /\ \A c \in Clients : WF_vars(Rewait(c))

Spec == Init /\ [][Next]_vars

FairSpec == Spec /\ Fairness

-----------------------------------------------------------------------------
TypeOK ==
    /\ ring \in [Slots -> [batch : Batches \cup {None}, next : 0..MaxSeq]]
    /\ slots \in [Slots -> Metadata \cup {None}]
    /\ head \in Slots
    /\ count \in 0..Capacity
    /\ accepted \in 0..MaxSeq
    /\ cache \in [seq : 0..MaxSeq, metadata : Metadata \cup {None}]
    /\ paused \in BOOLEAN
    /\ stopping \in BOOLEAN
    /\ failure \in BOOLEAN
    /\ worker \in {"looking", "asleep", "publishing", "committed",
                   "failing", "abandoning", "exited"}
    /\ active \in [index : Slots, batch : Batches \cup {None}, next : 0..MaxSeq]
    /\ client \in [Clients -> {"free", "asleep", "woken"}]
    /\ target \in [Clients -> 0..MaxSeq]
    /\ disk \in [Positions -> Entries \cup {None}]
    /\ stored \in 0..MaxSeq
    /\ acked \in 0..MaxSeq

(***************************************************************************)
(* NoLostWakeup: nobody sleeps through what it waits for.  The worker and  *)
(* the waiting clients share one condition and trySubmit signals only one  *)
(* of them, so this holds only because no client can be asleep when the    *)
(* worker has run out of entries.                                          *)
(***************************************************************************)
NoLostWakeup ==
    /\ worker = "asleep" => count = 0 \/ paused
    /\ worker = "asleep" => ~ stopping
    /\ \A c \in Sleepers : target[c] > cache.seq /\ ~ failure

(***************************************************************************)
(* AcknowledgedSurvives: a sequence that wait reported as durable, to any  *)
(* client at any time, is on the disk with the batch and the metadata it   *)
(* was submitted with; a later failure or restart does not take it back.   *)
(***************************************************************************)
AcknowledgedSurvives ==
    /\ acked <= stored
    /\ cache.seq <= stored
    /\ cache.metadata = IF cache.seq = 0 THEN None ELSE disk[cache.seq][2]

(***************************************************************************)
(* NothingLeftAtJoin: the assertion of deinit, and what its comment says:  *)
(* accepted work is drained unless a worker error prevents it.  Every      *)
(* batch that was moved into the queue has been moved out and freed.       *)
(***************************************************************************)
NothingLeftAtJoin ==
    worker = "exited" =>
        /\ count = 0
        /\ \A i \in Slots : ring[i].batch = None
        /\ failure \/ stored = accepted

(***************************************************************************)
(* FailureIsFinal: after a worker error nothing more is admitted, stored   *)
(* or shown as durable until the host is opened again.                     *)
(***************************************************************************)
FailureIsFinal ==
    [][failure /\ failure' => UNCHANGED <<accepted, cache, diskVars>>]_vars

(***************************************************************************)
(* ImplementsLog: from outside, the ring, the worker and the disk are a    *)
(* log with a durable prefix.  An accepted entry is what the disk stored   *)
(* for its sequence, and before that what its slot of the ring, the active *)
(* batch and the metadata bytes of the slot hold.                          *)
(***************************************************************************)
SlotOf(n) == (head + n - 1 - cache.seq) % Capacity

Pending(n) ==
    <<IF n = active.next THEN active.batch ELSE ring[SlotOf(n)].batch, slots[SlotOf(n)]>>

AcceptedLog ==
    [n \in Positions |-> IF n <= stored THEN disk[n]
                         ELSE IF n <= accepted /\ ~ failure THEN Pending(n)
                         ELSE None]

Log == INSTANCE WriteBehindLog WITH
         NoEntry <- None, log <- AcceptedLog, durable <- stored,
         accepted <- IF failure THEN stored ELSE accepted

ImplementsLog == Log!Spec

(***************************************************************************)
(* WaitReturns: unless the host stays paused, every wait returns, with     *)
(* success or with the failure.                                            *)
(***************************************************************************)
WaitReturns ==
    <>[](~ paused) => \A c \in Clients : client[c] # "free" ~> client[c] = "free"

(* ShutdownEnds: the thread that deinit joins exits. *)
ShutdownEnds == stopping ~> ~ stopping \/ worker = "exited"
=============================================================================

-------------------------- MODULE AtomicDatabase --------------------------
(***************************************************************************)
(* What a durable database with an opaque metadata field promises.  A      *)
(* batch and its metadata are offered first and then committed together or *)
(* not at all.  When a commit fails the owner keeps the old state, whether *)
(* the new one is stored is unknown, and nothing more can be offered; the  *)
(* next owner finds one of the two, whole.  The process may end at any     *)
(* time.                                                                   *)
(***************************************************************************)
EXTENDS Naturals, Bucket

CONSTANTS Metadata,
          NoMetadata,  \* the metadata of a database that was never committed to
          MaxSeq,
          None         \* the database is not open; nothing is offered

VARIABLES state,     \* what the owner and its readers see
          possible,  \* what the next owner may find
          offer,     \* the prepared batch, as the caller gave it
          failed

vars == <<state, possible, offer, failed>>

Initial == [seq |-> 0, map |-> Empty, metadata |-> NoMetadata]

(* The state after an offer: an identity without a record keeps its value. *)
After(old, new) ==
    [seq      |-> old.seq + 1,
     map      |-> [k \in Keys |-> IF new.batch[k] = Absent THEN old.map[k]
                                  ELSE ValueOf(new.batch[k])],
     metadata |-> new.metadata]

(* A database in memory starts open. *)
Init ==
    /\ state \in {None, Initial}
    /\ possible = {Initial}
    /\ offer = None
    /\ failed = FALSE

Open ==
    /\ state = None
    /\ state' \in possible
    /\ possible' = {state'}
    /\ UNCHANGED <<offer, failed>>

Offer(batch, metadata) ==
    /\ state # None
    /\ ~ failed /\ offer = None
    /\ state.seq < MaxSeq
    /\ offer' = [batch |-> batch, metadata |-> metadata]
    /\ UNCHANGED <<state, possible, failed>>

Withdraw ==
    /\ offer # None
    /\ offer' = None
    /\ UNCHANGED <<state, possible, failed>>

Commit ==
    /\ offer # None /\ ~ failed
    /\ state' = After(state, offer)
    /\ possible' = {state'}
    /\ offer' = None
    /\ UNCHANGED failed

CommitFails ==
    /\ offer # None /\ ~ failed
    /\ possible' \in {possible, possible \cup {After(state, offer)}}
    /\ failed' = TRUE
    /\ UNCHANGED <<state, offer>>

(* The owner ends, and a loss of power settles some of what is unknown.    *)
End ==
    /\ state' = None
    /\ possible' \in (SUBSET possible) \ {{}}
    /\ offer' = None
    /\ failed' = FALSE

Next ==
    \/ Open
    \/ \E batch \in Buckets, metadata \in Metadata : Offer(batch, metadata)
    \/ Withdraw
    \/ Commit
    \/ CommitFails
    \/ End

Spec == Init /\ [][Next]_vars
=============================================================================

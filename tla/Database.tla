------------------------------ MODULE Database ------------------------------
(***************************************************************************)
(* The portable database of src/src/database.zig: one writer, whose        *)
(* batches and prepared advances are separate handles.  A batch is the     *)
(* open one if its token is the database's and the flag is set; handles    *)
(* may be used, dropped or committed in any order, also when another batch *)
(* has been opened since.  Reads, views and checkpoints change nothing.    *)
(* A call that fails (ClosedBatch, StaleBase, BatchActive, WrongAdvance,   *)
(* OutOfMemory) leaves everything as it was and is no step.                *)
(***************************************************************************)
EXTENDS ListValue

CONSTANTS MaxToken,  \* the last batch token: 2^64 - 1 in the code
          None       \* no handle

ASSUME BoundsAssumption == MaxToken \in Nat

VARIABLES
    engine,      \* the list, whose commitment stands for it
    batch_open,
    batch_token,
    batches,     \* per token, the batch handle
    prepared     \* per token, the prepared advance

vars == <<engine, batch_open, batch_token, batches, prepared>>

Tokens == 1..MaxToken

Init ==
    /\ engine = NewList
    /\ batch_open = FALSE
    /\ batch_token = 0
    /\ batches = [t \in Tokens |-> None]
    /\ prepared = [t \in Tokens |-> None]

-----------------------------------------------------------------------------
(* A plausible defect: tokens are used again.                              *)
OpenBatchReusingToken ==
    /\ ~ batch_open
    /\ batch_token < MaxToken
    /\ batch_open' = TRUE
    /\ batch_token' = IF batch_token # 0 /\ batches[batch_token] = None
                      THEN batch_token ELSE batch_token + 1
    /\ batches' = [batches EXCEPT ![batch_token'] =
                     [base |-> engine, changes |-> Empty, sealed |-> FALSE]]
    /\ UNCHANGED <<engine, prepared>>

(* batch: refused while one is open (BatchActive).                         *)
OpenBatch ==
    /\ ~ batch_open
    /\ batch_token # MaxToken
    /\ batch_open' = TRUE
    /\ batch_token' = batch_token + 1
    /\ batches' = [batches EXCEPT ![batch_token'] =
                     [base |-> engine, changes |-> Empty, sealed |-> FALSE]]
    /\ UNCHANGED <<engine, prepared>>

(* check *)
Usable(t) ==
    /\ batches[t] # None /\ ~ batches[t].sealed
    /\ batch_open /\ batch_token = t
    /\ batches[t].base = engine

(* put and delete: the last change of an identity replaces the earlier one.*)
Change(t, k, record) ==
    /\ Usable(t)
    /\ batches' = [batches EXCEPT ![t].changes[k] = record]
    /\ UNCHANGED <<engine, batch_open, batch_token, prepared>>

(* A plausible defect: a batch that is dropped closes whatever is open. *)
DropBatchClosingAny(t) ==
    /\ batches[t] # None
    /\ batches' = [batches EXCEPT ![t] = None]
    /\ batch_open' = FALSE
    /\ UNCHANGED <<engine, batch_token, prepared>>

(* deinit of a batch closes only its own. *)
DropBatch(t) ==
    /\ batches[t] # None
    /\ batches' = [batches EXCEPT ![t] = None]
    /\ batch_open' = (batch_open /\ batch_token # t)
    /\ UNCHANGED <<engine, batch_token, prepared>>

-----------------------------------------------------------------------------
(* A plausible defect: a change is compared with the youngest bucket only. *)
ChangedFromYoungest(changes) ==
    [k \in Keys |->
       IF changes[k] # Absent /\ ValueOf(changes[k]) # ValueOf(engine.curr[0][k])
       THEN changes[k] ELSE Absent]

(* The filter of prepareAdvance: a put of the visible value and a deletion *)
(* of what is not there leave the batch.                                   *)
Changed(changes) ==
    [k \in Keys |->
       IF changes[k] # Absent /\ ValueOf(changes[k]) # Get(engine, k)
       THEN changes[k] ELSE Absent]

(* A plausible defect: the batch stays open for changes. *)
PrepareAdvanceUnsealed(t, n) ==
    /\ Usable(t)
    /\ prepared[t] = None
    /\ engine.seq # MaxSeq /\ n = engine.seq + 1
    /\ prepared' = [prepared EXCEPT ![t] =
                      [base  |-> batches[t].base,
                       state |-> Advanced(engine, n, Changed(batches[t].changes))]]
    /\ UNCHANGED <<engine, batch_open, batch_token, batches>>

(* prepareAdvance: a clone of the engine advances; the batch is sealed.    *)
PrepareAdvance(t, n) ==
    /\ Usable(t)
    /\ engine.seq # MaxSeq /\ n = engine.seq + 1
    /\ prepared' = [prepared EXCEPT ![t] =
                      [base  |-> batches[t].base,
                       state |-> Advanced(engine, n, Changed(batches[t].changes))]]
    /\ batches' = [batches EXCEPT ![t].sealed = TRUE]
    /\ UNCHANGED <<engine, batch_open, batch_token>>

(* deinit of a prepared advance leaves the batch sealed. *)
DropPrepared(t) ==
    /\ prepared[t] # None
    /\ prepared' = [prepared EXCEPT ![t] = None]
    /\ UNCHANGED <<engine, batch_open, batch_token, batches>>

(* Plausible defects of commit. *)
CommitWhateverIsOpen(t) ==
    /\ prepared[t] # None
    /\ batch_open
    /\ prepared[t].base = engine
    /\ engine' = prepared[t].state
    /\ prepared' = [prepared EXCEPT ![t] = None]
    /\ batch_open' = FALSE
    /\ UNCHANGED <<batch_token, batches>>

CommitLeavingOpen(t) ==
    /\ prepared[t] # None
    /\ batch_open /\ batch_token = t
    /\ prepared[t].base = engine
    /\ engine' = prepared[t].state
    /\ prepared' = [prepared EXCEPT ![t] = None]
    /\ UNCHANGED <<batch_open, batch_token, batches>>

(* commit: anything but the advance of the open batch is StaleBase.        *)
Commit(t) ==
    /\ prepared[t] # None
    /\ batch_open /\ batch_token = t
    /\ prepared[t].base = engine
    /\ engine' = prepared[t].state
    /\ prepared' = [prepared EXCEPT ![t] = None]
    /\ batch_open' = FALSE
    /\ UNCHANGED <<batch_token, batches>>

Next ==
    \/ OpenBatch
    \/ \E t \in Tokens :
         \/ \E k \in Keys, record \in Records \ {Absent} : Change(t, k, record)
         \/ DropBatch(t)
         \/ PrepareAdvance(t, engine.seq + 1)
         \/ DropPrepared(t)
         \/ Commit(t)

Spec == Init /\ [][Next]_vars

-----------------------------------------------------------------------------
BatchHandles == [base : Lists, changes : Buckets, sealed : BOOLEAN]

Preparations == [base : Lists, state : Lists]

(* None is no handle, no offer and no state of a database. *)
ASSUME NoneAssumption ==
    /\ None \notin BatchHandles \cup Preparations
    /\ \A batch \in Buckets : [batch |-> batch, metadata |-> None] # None
    /\ \A n \in 0..MaxSeq, map \in Buckets :
         [seq |-> n, map |-> map, metadata |-> None] # None

TypeOK ==
    /\ engine \in Lists
    /\ batch_open \in BOOLEAN
    /\ batch_token \in 0..MaxToken
    /\ batches \in [Tokens -> BatchHandles \cup {None}]
    /\ prepared \in [Tokens -> Preparations \cup {None}]

Open(t) == batch_open /\ batch_token = t

(***************************************************************************)
(* OpenHandlesAreCurrent: whatever is still open was begun on the engine   *)
(* as it is now, and what its commit would install is that engine advanced *)
(* by the changes its caller sees in the batch.  The tokens alone ensure   *)
(* it; the digests that check and commit compare (database.zig 133, 236)   *)
(* never differ for an open handle, so no caller loses a batch to them.    *)
(***************************************************************************)
OpenHandlesAreCurrent ==
    \A t \in Tokens : Open(t) =>
        /\ batches[t] # None /\ batches[t].base = engine
        /\ prepared[t] # None =>
             /\ batches[t].sealed
             /\ prepared[t].base = engine
             /\ prepared[t].state =
                  Advanced(engine, engine.seq + 1, Changed(batches[t].changes))

(***************************************************************************)
(* HandlesEndOnce: an open batch is closed only by its own deinit or by    *)
(* the commit of its own advance, never by a handle of an earlier batch    *)
(* that is dropped late; and a batch that is closed never opens again, so  *)
(* a late commit of its advance is refused for ever.                       *)
(***************************************************************************)
EndsOnce(t) ==
    /\ Open(t) /\ ~ Open(t)' =>
         \/ batches'[t] = None
         \/ prepared[t] # None /\ engine' = prepared[t].state
    /\ t <= batch_token /\ ~ Open(t) => ~ Open(t)'

HandlesEndOnce == [][\A t \in Tokens : EndsOnce(t)]_vars

(***************************************************************************)
(* ImplementsDatabase: exactly the changes of the open batch are committed *)
(* together, as its caller made them, although the filter leaves some of   *)
(* them out and the last change of an identity replaces the others.        *)
(***************************************************************************)
Offered == batch_open /\ prepared[batch_token] # None

Atomic == INSTANCE AtomicDatabase WITH
            Metadata   <- {None},
            NoMetadata <- None,
            state      <- [seq |-> engine.seq, map |-> Contents(engine), metadata |-> None],
            possible   <- {[seq |-> engine.seq, map |-> Contents(engine),
                            metadata |-> None]},
            offer      <- IF Offered
                          THEN [batch |-> batches[batch_token].changes, metadata |-> None]
                          ELSE None,
            failed     <- FALSE

ImplementsDatabase == Atomic!Spec
=============================================================================

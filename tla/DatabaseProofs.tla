--------------------------- MODULE DatabaseProofs ---------------------------
(***************************************************************************)
(* Proofs about Database.tla for every depth, bound and key set: the       *)
(* handles of a batch end once, what is open was begun on the current      *)
(* engine, and the whole implements the atomic database of                 *)
(* AtomicDatabase.tla.                                                     *)
(***************************************************************************)
EXTENDS Database, ListProofs

LEMMA ChangedType ==
    ASSUME NEW changes \in Buckets
    PROVE  Changed(changes) \in Buckets
  BY DEF Changed, Buckets, Records

(* What prepareAdvance and commit make of an engine. *)
LEMMA AdvancedEngine ==
    ASSUME engine \in Lists, Valid(engine), engine.seq # MaxSeq,
           NEW fresh \in Buckets,
           NEW after, after = Advanced(engine, engine.seq + 1, fresh)
    PROVE  /\ after \in Lists
           /\ Valid(after)
           /\ after.seq = engine.seq + 1
           /\ \A k \in Keys : Get(after, k) = IF fresh[k] = Absent THEN Get(engine, k)
                                              ELSE ValueOf(fresh[k])
<1>1. IsList(engine)
  BY ListsAreLists
<1>2. IsList(after) /\ Valid(after)
  BY <1>1, AdvancedType, AdvancedValid
<1>3. after \in Lists /\ after.seq = engine.seq + 1
  BY <1>2 DEF IsList, Lists, Advanced
<1>4. QED
  BY <1>1, <1>2, <1>3, AdvancedReads

-----------------------------------------------------------------------------
(* What the tokens ensure: handles of tokens not yet given do not exist;   *)
(* and the engine, which is advanced only from itself, stays valid.        *)
Inv ==
    /\ TypeOK
    /\ Valid(engine)
    /\ OpenHandlesAreCurrent
    /\ batch_open => batch_token \in Tokens
    /\ \A t \in Tokens : t > batch_token => batches[t] = None /\ prepared[t] = None

(* Handles are functions of their tokens. *)
LEMMA InitInv ==
    ASSUME Init
    PROVE  Inv
<1>1. engine \in Lists
  BY NewListType DEF Init
<1>2. TypeOK
  <2>1. batch_token \in 0..MaxToken
    BY BoundsAssumption DEF Init
  <2>2. batches \in [Tokens -> BatchHandles \cup {None}]
    BY DEF Init
  <2>3. prepared \in [Tokens -> Preparations \cup {None}]
    BY DEF Init
  <2>4. batch_open \in BOOLEAN
    BY DEF Init
  <2>5. QED
    BY <1>1, <2>1, <2>2, <2>3, <2>4 DEF TypeOK
<1>3. \A t \in Tokens : ~ Open(t)
  BY DEF Init, Open
<1>4. Valid(engine)
  BY NewListValid DEF Init
<1>5. QED
  BY <1>2, <1>3, <1>4 DEF Init, Inv, OpenHandlesAreCurrent

(* What would be committed depends on the engine and the changes only. *)
LEMMA SameAdvance ==
    ASSUME UNCHANGED engine, NEW changes
    PROVE  (Advanced(engine, engine.seq + 1, Changed(changes)))'
             = Advanced(engine, engine.seq + 1, Changed(changes))
<1>1. Changed(changes)' = Changed(changes)
  BY DEF Changed
<1>2. QED
  BY <1>1

LEMMA OpenBatchInv ==
    ASSUME Inv, OpenBatch
    PROVE  Inv'
<1> DEFINE fresh == [base |-> engine, changes |-> Empty, sealed |-> FALSE]
<1>1. batch_token + 1 \in Tokens /\ batch_token' = batch_token + 1
  BY BoundsAssumption DEF Inv, TypeOK, OpenBatch, Tokens
<1>2. fresh \in BatchHandles
  BY EmptyType DEF Inv, TypeOK, BatchHandles
<1>3. batches' = [batches EXCEPT ![batch_token + 1] = fresh]
  BY DEF OpenBatch
<1>4. TypeOK'
  <2>1. batches' \in [Tokens -> BatchHandles \cup {None}]
    BY <1>2, <1>3 DEF Inv, TypeOK, BatchHandles
  <2>2. QED
    BY <1>1, <2>1 DEF Inv, TypeOK, OpenBatch, BatchHandles, Tokens
<1>5. batches'[batch_token + 1] = fresh /\ prepared'[batch_token + 1] = None
  <2>1. batch_token + 1 > batch_token
    BY DEF Inv, TypeOK
  <2>2. QED
    BY <1>1, <1>3, <2>1 DEF Inv, TypeOK, OpenBatch
<1>6. OpenHandlesAreCurrent'
  <2>1. fresh # None /\ fresh.base = engine
    BY <1>2, NoneAssumption
  <2>2. UNCHANGED engine
    BY DEF OpenBatch
  <2>3. \A t \in Tokens : Open(t)' => t = batch_token + 1
    BY <1>1 DEF Open
  <2>4. QED
    BY <1>5, <2>1, <2>2, <2>3 DEF OpenHandlesAreCurrent
<1>7. \A t \in Tokens : t > batch_token' => batches'[t] = None /\ prepared'[t] = None
  <2>1. batch_token \in Nat
    BY DEF Inv, TypeOK
  <2>2. ASSUME NEW t \in Tokens, t > batch_token + 1
        PROVE  t > batch_token /\ t # batch_token + 1
    BY <2>1, <2>2 DEF Tokens
  <2>3. QED
    BY <1>1, <1>3, <2>2 DEF Inv, TypeOK, OpenBatch
<1>8. Valid(engine)' /\ batch_token' \in Tokens
  BY <1>1 DEF Inv, OpenBatch
<1>9. QED
  BY <1>4, <1>6, <1>7, <1>8 DEF Inv

(* put and delete are allowed only before the batch is prepared. *)
LEMMA ChangeInv ==
    ASSUME Inv, NEW t \in Tokens, NEW k \in Keys, NEW record \in Records,
           Change(t, k, record)
    PROVE  Inv'
<1> DEFINE after == [batches[t] EXCEPT !.changes = [@ EXCEPT ![k] = record]]
<1>1. /\ batches[t] \in BatchHandles /\ ~ batches[t].sealed
      /\ Open(t) /\ batches[t].base = engine
  BY DEF Inv, TypeOK, Change, Usable, Open
<1>2. /\ after \in BatchHandles
      /\ after.base = engine
  <2>1. [batches[t].changes EXCEPT ![k] = record] \in Buckets
    BY <1>1 DEF BatchHandles, Buckets
  <2>2. QED
    BY <1>1, <2>1 DEF BatchHandles
<1>3. batches' = [batches EXCEPT ![t] = after]
  BY DEF Change
<1>4. UNCHANGED <<engine, batch_open, batch_token, prepared>>
  BY DEF Change
<1>5. TypeOK'
  BY <1>2, <1>3, <1>4 DEF Inv, TypeOK
<1>6. prepared[t] = None
  BY <1>1 DEF Inv, OpenHandlesAreCurrent
<1>7. batches'[t] = after
  BY <1>3 DEF Inv, TypeOK
<1>8. OpenHandlesAreCurrent'
  <2>1. \A u \in Tokens : Open(u)' => u = t
    BY <1>1, <1>4 DEF Open
  <2>2. QED
    BY <1>2, <1>4, <1>6, <1>7, <2>1, NoneAssumption DEF OpenHandlesAreCurrent
<1>9. t <= batch_token
  BY <1>1 DEF Open, Inv, TypeOK
<1>10. QED
  BY <1>3, <1>4, <1>5, <1>8, <1>9 DEF Inv, TypeOK, Tokens

LEMMA DropBatchInv ==
    ASSUME Inv, NEW t \in Tokens, DropBatch(t)
    PROVE  Inv'
<1>1. /\ UNCHANGED <<engine, batch_token, prepared>>
      /\ batches' = [batches EXCEPT ![t] = None]
      /\ batch_open' = (batch_open /\ batch_token # t)
  BY DEF DropBatch
<1>2. TypeOK'
  BY <1>1 DEF Inv, TypeOK
<1>3. OpenHandlesAreCurrent'
  <2>1. ASSUME NEW u \in Tokens, Open(u)'
        PROVE  Open(u) /\ batches'[u] = batches[u]
    BY <1>1, <2>1 DEF Open, Inv, TypeOK
  <2>2. QED
    BY <1>1, <2>1, SameAdvance DEF Inv, OpenHandlesAreCurrent
<1>4. QED
  BY <1>1, <1>2, <1>3 DEF Inv, TypeOK

LEMMA PrepareAdvanceInv ==
    ASSUME Inv, NEW t \in Tokens, PrepareAdvance(t, engine.seq + 1)
    PROVE  Inv'
<1> DEFINE state == Advanced(engine, engine.seq + 1, Changed(batches[t].changes))
           handle == [base |-> batches[t].base, state |-> state]
           sealed == [batches[t] EXCEPT !.sealed = TRUE]
<1>1. /\ UNCHANGED <<engine, batch_open, batch_token>>
      /\ prepared' = [prepared EXCEPT ![t] = handle]
      /\ batches' = [batches EXCEPT ![t] = sealed]
      /\ Open(t) /\ batches[t] \in BatchHandles /\ batches[t].base = engine
      /\ engine.seq # MaxSeq /\ engine \in Lists
  BY DEF PrepareAdvance, Usable, Open, Inv, TypeOK
<1>2. state \in Lists
  BY <1>1, AdvancedEngine, ChangedType DEF BatchHandles, Inv
<1>3. handle \in Preparations /\ handle.base = engine /\ handle.state = state
  BY <1>1, <1>2 DEF Preparations
<1>4. /\ sealed \in BatchHandles /\ sealed.sealed /\ sealed.base = engine
      /\ sealed.changes = batches[t].changes
  BY <1>1 DEF BatchHandles
<1>5. TypeOK'
  BY <1>1, <1>3, <1>4 DEF Inv, TypeOK
<1>6. batches'[t] = sealed /\ prepared'[t] = handle
  BY <1>1 DEF Inv, TypeOK
<1>7. OpenHandlesAreCurrent'
  <2>1. \A u \in Tokens : Open(u)' => u = t
    BY <1>1 DEF Open
  <2>2. ASSUME NEW changes, changes = batches[t].changes
        PROVE  (Advanced(engine, engine.seq + 1, Changed(changes)))' = state
    BY <1>1, <2>2, SameAdvance
  <2>3. batches'[t].changes = batches[t].changes
    BY <1>4, <1>6
  <2>4. (Advanced(engine, engine.seq + 1, Changed(batches[t].changes)))' = state
    BY <2>2, <2>3
  <2>5. QED
    BY <1>1, <1>3, <1>4, <1>6, <2>1, <2>4, NoneAssumption DEF OpenHandlesAreCurrent
<1>8. t <= batch_token
  BY <1>1 DEF Open, Inv, TypeOK
<1>9. QED
  BY <1>1, <1>5, <1>7, <1>8 DEF Inv, TypeOK, Tokens

LEMMA DropPreparedInv ==
    ASSUME Inv, NEW t \in Tokens, DropPrepared(t)
    PROVE  Inv'
<1>1. /\ UNCHANGED <<engine, batch_open, batch_token, batches>>
      /\ prepared' = [prepared EXCEPT ![t] = None]
  BY DEF DropPrepared
<1>2. TypeOK'
  BY <1>1 DEF Inv, TypeOK
<1>3. OpenHandlesAreCurrent'
  <2>1. ASSUME NEW u \in Tokens, Open(u)'
        PROVE  Open(u) /\ prepared'[u] \in {None, prepared[u]}
    BY <1>1, <2>1 DEF Open, Inv, TypeOK
  <2>2. QED
    BY <1>1, <2>1, SameAdvance DEF Inv, OpenHandlesAreCurrent
<1>4. QED
  BY <1>1, <1>2, <1>3 DEF Inv, TypeOK

LEMMA CommitInv ==
    ASSUME Inv, NEW t \in Tokens, Commit(t)
    PROVE  Inv'
<1>1. /\ UNCHANGED <<batch_token, batches>>
      /\ prepared' = [prepared EXCEPT ![t] = None]
      /\ batch_open' = FALSE
      /\ engine' = prepared[t].state /\ prepared[t] # None
      /\ Open(t) /\ batches[t] \in BatchHandles
  BY DEF Commit, Open, Inv, TypeOK, OpenHandlesAreCurrent
<1>2. engine' \in Lists
  BY <1>1 DEF Inv, TypeOK, Preparations
<1>3. TypeOK'
  BY <1>1, <1>2 DEF Inv, TypeOK
<1>4. OpenHandlesAreCurrent'
  BY <1>1 DEF OpenHandlesAreCurrent, Open
<1>5. Valid(engine)'
  <2>1. engine' = Advanced(engine, engine.seq + 1, Changed(batches[t].changes))
    BY <1>1 DEF Inv, OpenHandlesAreCurrent
  <2>2. Changed(batches[t].changes) \in Buckets
    BY <1>1, ChangedType DEF BatchHandles
  <2>3. engine.seq # MaxSeq
    <3>1. engine'.seq = engine.seq + 1
      BY <2>1 DEF Advanced
    <3>2. engine'.seq <= MaxSeq /\ engine.seq \in Int /\ MaxSeq \in Int
      BY <1>2, MaxSeqAssumption DEF Inv, TypeOK, Lists
    <3>3. QED
      BY <3>1, <3>2
  <2>4. QED
    BY <2>1, <2>2, <2>3, AdvancedEngine DEF Inv, TypeOK
<1>6. QED
  BY <1>1, <1>3, <1>4, <1>5 DEF Inv, TypeOK

LEMMA NextInv ==
    ASSUME Inv, [Next]_vars
    PROVE  Inv'
<1>1. CASE OpenBatch
  BY <1>1, OpenBatchInv
<1>2. CASE \E t \in Tokens, k \in Keys, record \in Records \ {Absent} : Change(t, k, record)
  BY <1>2, ChangeInv
<1>3. CASE \E t \in Tokens :
             DropBatch(t) \/ PrepareAdvance(t, engine.seq + 1) \/ DropPrepared(t) \/ Commit(t)
  BY <1>3, DropBatchInv, PrepareAdvanceInv, DropPreparedInv, CommitInv
<1>4. CASE UNCHANGED vars
  <2>1. UNCHANGED <<engine, batch_open, batch_token, batches, prepared>>
    BY <1>4 DEF vars
  <2>2. TypeOK'
    BY <2>1 DEF Inv, TypeOK
  <2>3. OpenHandlesAreCurrent'
    BY <2>1, SameAdvance DEF Inv, OpenHandlesAreCurrent, Open
  <2>4. QED
    BY <2>1, <2>2, <2>3 DEF Inv
<1>5. QED
  BY <1>1, <1>2, <1>3, <1>4 DEF Next

LEMMA Invariant == Spec => []Inv
  BY InitInv, NextInv, PTL DEF Spec

-----------------------------------------------------------------------------
(* The engine and the handles stay well typed. *)
THEOREM TypeCorrect == Spec => []TypeOK
  BY Invariant, PTL DEF Inv

(* What is open was begun on the engine as it is, and a prepared advance   *)
(* that may still be committed is that engine's own.                       *)
THEOREM OpenStaysCurrent == Spec => []OpenHandlesAreCurrent
  BY Invariant, PTL DEF Inv

(* The engine can always be restored from what it is: whatever handles     *)
(* are committed or dropped, and in whatever order.                        *)
THEOREM EngineStaysValid == Spec => []Valid(engine)
  BY Invariant, PTL DEF Inv

(* A batch ends by its own deinit or its own commit, and for ever.         *)
THEOREM HandlesEnd == Spec => HandlesEndOnce
<1>1. ASSUME Inv, [Next]_vars
      PROVE  [\A t \in Tokens : EndsOnce(t)]_vars
  <2>1. batch_token \in Nat
    BY <1>1 DEF Inv, TypeOK
  <2>2. SUFFICES ASSUME Next, NEW t \in Tokens
                 PROVE  EndsOnce(t)
    BY <1>1
  <2>3. CASE OpenBatch
    BY <2>1, <2>3 DEF OpenBatch, EndsOnce, Open, Tokens
  <2>4. CASE \E u \in Tokens, k \in Keys, record \in Records \ {Absent} : Change(u, k, record)
    BY <2>4 DEF Change, EndsOnce, Open
  <2>5. CASE \E u \in Tokens : DropBatch(u)
    BY <1>1, <2>5 DEF DropBatch, EndsOnce, Open, Inv, TypeOK
  <2>6. CASE \E u \in Tokens : PrepareAdvance(u, engine.seq + 1) \/ DropPrepared(u)
    BY <2>6 DEF PrepareAdvance, DropPrepared, EndsOnce, Open
  <2>7. CASE \E u \in Tokens : Commit(u)
    BY <2>7 DEF Commit, EndsOnce, Open
  <2>8. QED
    BY <2>2, <2>3, <2>4, <2>5, <2>6, <2>7 DEF Next
<1>2. QED
  BY <1>1, Invariant, PTL DEF Spec, HandlesEndOnce

-----------------------------------------------------------------------------
(* The refinement.  What an application has on offer is the prepared       *)
(* advance of the open batch; its state is what get returns.               *)

State == [seq |-> engine.seq, map |-> Contents(engine), metadata |-> None]

OpenOffer ==
    IF Offered THEN [batch |-> batches[batch_token].changes, metadata |-> None] ELSE None

LEMMA StateIsSome ==
    ASSUME Inv
    PROVE  State # None
<1>1. Contents(engine) \in Buckets /\ engine.seq \in 0..MaxSeq
  BY ContentsType, ListsAreLists DEF Inv, TypeOK, IsList
<1>2. QED
  BY <1>1, NoneAssumption DEF State

LEMMA OfferIsSome ==
    ASSUME Inv, Offered
    PROVE  OpenOffer # None
<1>1. batches[batch_token] \in BatchHandles
  BY DEF Inv, TypeOK, Offered, OpenHandlesAreCurrent, Open
<1>2. batches[batch_token].changes \in Buckets
  BY <1>1 DEF BatchHandles
<1>3. QED
  BY <1>2, NoneAssumption DEF OpenOffer

(* Nothing that the promise speaks of moves. *)
LEMMA Stutters ==
    ASSUME UNCHANGED engine, OpenOffer' = OpenOffer
    PROVE  UNCHANGED Atomic!vars
<1>1. State' = State
  BY DEF State, Contents
<1>2. QED
  BY <1>1 DEF Atomic!vars, State, OpenOffer

LEMMA Withdraws ==
    ASSUME Inv, UNCHANGED engine, Offered, ~ Offered'
    PROVE  Atomic!Withdraw
<1>1. State' = State
  BY DEF State, Contents
<1>2. OpenOffer # None /\ OpenOffer' = None
  BY OfferIsSome DEF OpenOffer
<1>3. QED
  BY <1>1, <1>2 DEF Atomic!Withdraw, State, OpenOffer

LEMMA OpenBatchStutters ==
    ASSUME Inv, OpenBatch
    PROVE  UNCHANGED Atomic!vars
<1>1. batch_token' = batch_token + 1 /\ UNCHANGED <<engine, prepared>> /\ ~ Offered
  BY DEF OpenBatch, Offered
<1>2. prepared'[batch_token'] = None
  BY <1>1, BoundsAssumption DEF OpenBatch, Inv, TypeOK, Tokens
<1>3. QED
  BY <1>1, <1>2, Stutters DEF OpenOffer, Offered

LEMMA ChangeStutters ==
    ASSUME Inv, NEW t \in Tokens, NEW k \in Keys, NEW record \in Records,
           Change(t, k, record)
    PROVE  UNCHANGED Atomic!vars
<1>1. UNCHANGED <<engine, batch_open, batch_token, prepared>> /\ Open(t) /\ ~ batches[t].sealed
  BY DEF Change, Usable, Open
<1>2. ~ Offered /\ ~ Offered'
  BY <1>1 DEF Offered, Inv, OpenHandlesAreCurrent, Open
<1>3. QED
  BY <1>1, <1>2, Stutters DEF OpenOffer

LEMMA DropBatchMaps ==
    ASSUME Inv, NEW t \in Tokens, DropBatch(t)
    PROVE  [Atomic!Next]_Atomic!vars
<1>1. /\ UNCHANGED <<engine, batch_token, prepared>>
      /\ batches' = [batches EXCEPT ![t] = None]
      /\ batch_open' = (batch_open /\ batch_token # t)
  BY DEF DropBatch
<1>2. CASE Offered /\ batch_token = t
  <2>1. ~ Offered'
    BY <1>1, <1>2 DEF Offered
  <2>2. QED
    BY <1>1, <1>2, <2>1, Withdraws DEF Atomic!Next
<1>3. CASE ~ (Offered /\ batch_token = t)
  <2>1. Offered' = Offered
    BY <1>1, <1>3 DEF Offered
  <2>2. Offered => batches'[batch_token] = batches[batch_token]
    BY <1>1, <1>3 DEF Inv, TypeOK
  <2>3. QED
    BY <1>1, <2>1, <2>2, Stutters DEF OpenOffer
<1>4. QED
  BY <1>2, <1>3

(* To prepare is to offer the changes as the batch has them. *)
LEMMA PrepareOffers ==
    ASSUME Inv, NEW t \in Tokens, PrepareAdvance(t, engine.seq + 1)
    PROVE  Atomic!Next
<1>1. /\ Open(t) /\ ~ batches[t].sealed /\ batches[t] \in BatchHandles
      /\ engine.seq # MaxSeq
      /\ UNCHANGED <<engine, batch_open, batch_token>>
  BY DEF PrepareAdvance, Usable, Open, Inv, TypeOK
<1>2. ~ Offered
  BY <1>1 DEF Offered, Inv, OpenHandlesAreCurrent, Open
<1>3. batches'[t].changes = batches[t].changes
  BY <1>1 DEF PrepareAdvance, Inv, TypeOK, BatchHandles
<1>4. Offered'
  <2>1. Inv'
    BY PrepareAdvanceInv
  <2>2. prepared'[t] = [base  |-> batches[t].base,
                        state |-> Advanced(engine, engine.seq + 1, Changed(batches[t].changes))]
    BY DEF PrepareAdvance, Inv, TypeOK
  <2>3. prepared'[t] \in Preparations
    <3>1. Advanced(engine, engine.seq + 1, Changed(batches[t].changes)) \in Lists
      BY <1>1, AdvancedEngine, ChangedType DEF BatchHandles, Inv, TypeOK
    <3>2. QED
      BY <1>1, <2>2, <3>1 DEF Preparations, BatchHandles
  <2>4. QED
    BY <1>1, <2>3, NoneAssumption DEF Offered, Open
<1> DEFINE batch == batches[t].changes
<1>5. batch \in Buckets
  BY <1>1 DEF BatchHandles
<1>6. OpenOffer = None /\ OpenOffer' = [batch |-> batch, metadata |-> None]
  BY <1>1, <1>2, <1>3, <1>4 DEF OpenOffer, Open
<1>7. State' = State /\ State # None /\ State.seq < MaxSeq
  BY <1>1, StateIsSome, MaxSeqAssumption DEF State, Contents, Inv, TypeOK, Lists
<1>8. Atomic!Offer(batch, None)
  BY <1>6, <1>7 DEF Atomic!Offer, State, OpenOffer
<1>9. QED
  BY <1>5, <1>8 DEF Atomic!Next, Atomic!Buckets, Buckets, Atomic!Records, Records

LEMMA DropPreparedMaps ==
    ASSUME Inv, NEW t \in Tokens, DropPrepared(t)
    PROVE  [Atomic!Next]_Atomic!vars
<1>1. /\ UNCHANGED <<engine, batch_open, batch_token, batches>>
      /\ prepared' = [prepared EXCEPT ![t] = None]
  BY DEF DropPrepared
<1>2. CASE Offered /\ batch_token = t
  <2>1. ~ Offered'
    BY <1>1, <1>2 DEF Offered, Inv, TypeOK
  <2>2. QED
    BY <1>1, <1>2, <2>1, Withdraws DEF Atomic!Next
<1>3. CASE ~ (Offered /\ batch_token = t)
  <2>1. OpenOffer' = OpenOffer
    BY <1>1, <1>3 DEF OpenOffer, Offered, Inv, TypeOK
  <2>2. QED
    BY <1>1, <2>1, Stutters
<1>4. QED
  BY <1>2, <1>3

(* What the filter left out has no effect, so the state after a commit is  *)
(* the one after all changes of the batch.                                 *)
LEMMA CommitCommits ==
    ASSUME Inv, NEW t \in Tokens, Commit(t)
    PROVE  Atomic!Next
<1> DEFINE changes == batches[t].changes
<1>1. /\ Open(t) /\ prepared[t] # None /\ batch_token = t
      /\ batches[t] \in BatchHandles
      /\ engine' = prepared[t].state
      /\ batch_open' = FALSE
  BY DEF Commit, Open, Inv, TypeOK, OpenHandlesAreCurrent
<1>2. /\ engine' = Advanced(engine, engine.seq + 1, Changed(changes))
      /\ engine' \in Lists
  BY <1>1 DEF Inv, TypeOK, OpenHandlesAreCurrent, Preparations
<1>3. engine.seq # MaxSeq
  <2>1. engine'.seq = engine.seq + 1
    BY <1>2 DEF Advanced
  <2>2. engine'.seq <= MaxSeq /\ engine.seq \in Int /\ MaxSeq \in Int
    BY <1>2, MaxSeqAssumption DEF Inv, TypeOK, Lists
  <2>3. QED
    BY <2>1, <2>2
<1>4. changes \in Buckets /\ Changed(changes) \in Buckets
  BY <1>1, ChangedType DEF BatchHandles
<1>5. ASSUME NEW k \in Keys
      PROVE  Get(engine', k) = IF changes[k] = Absent THEN Get(engine, k)
                               ELSE ValueOf(changes[k])
  <2>1. Get(engine', k) = IF Changed(changes)[k] = Absent THEN Get(engine, k)
                          ELSE ValueOf(Changed(changes)[k])
    BY <1>2, <1>3, <1>4, AdvancedEngine DEF Inv, TypeOK
  <2>2. QED
    BY <2>1 DEF Changed
<1>6. State' = Atomic!After(State, [batch |-> changes, metadata |-> None])
  <2>1. Contents(engine') = [k \in Keys |-> IF changes[k] = Absent THEN Contents(engine)[k]
                                            ELSE ValueOf(changes[k])]
    BY <1>5 DEF Contents
  <2>2. engine'.seq = engine.seq + 1
    BY <1>2 DEF Advanced
  <2>3. QED
    BY <2>1, <2>2 DEF State, Atomic!After, Atomic!ValueOf, ValueOf
<1>7. Offered /\ OpenOffer = [batch |-> changes, metadata |-> None] /\ OpenOffer # None
  BY <1>1, OfferIsSome DEF Offered, OpenOffer, Open
<1>8. OpenOffer' = None
  BY <1>1 DEF Offered, OpenOffer
<1>9. Atomic!Commit
  BY <1>6, <1>7, <1>8 DEF Atomic!Commit, State, OpenOffer
<1>10. QED
  BY <1>9 DEF Atomic!Next

(* The database with its handles implements the atomic database: exactly   *)
(* the changes of the open batch are committed, together, as its caller    *)
(* made them, although the filter leaves some of them out.                 *)
THEOREM DatabaseImplementsAtomic == Spec => ImplementsDatabase
<1>1. Init => Atomic!Init
  <2> SUFFICES ASSUME Init
               PROVE  Atomic!Init
    OBVIOUS
  <2>1. Contents(engine) = Empty
    BY NewListEmpty DEF Init, Contents, Empty
  <2>2. engine.seq = 0 /\ ~ Offered
    BY DEF Init, NewList, Offered
  <2>3. QED
    BY <2>1, <2>2 DEF Atomic!Init, Atomic!Initial, Atomic!Empty, Empty
<1>2. Inv /\ [Next]_vars => [Atomic!Next]_Atomic!vars
  <2> SUFFICES ASSUME Inv, [Next]_vars
               PROVE  [Atomic!Next]_Atomic!vars
    OBVIOUS
  <2>1. CASE OpenBatch
    BY <2>1, OpenBatchStutters
  <2>2. CASE \E t \in Tokens, k \in Keys, record \in Records \ {Absent} : Change(t, k, record)
    BY <2>2, ChangeStutters
  <2>3. CASE \E t \in Tokens : DropBatch(t) \/ DropPrepared(t)
    BY <2>3, DropBatchMaps, DropPreparedMaps
  <2>4. CASE \E t \in Tokens : PrepareAdvance(t, engine.seq + 1) \/ Commit(t)
    BY <2>4, PrepareOffers, CommitCommits
  <2>5. CASE UNCHANGED vars
    BY <2>5, Stutters DEF vars, OpenOffer, Offered
  <2>6. QED
    BY <2>1, <2>2, <2>3, <2>4, <2>5 DEF Next
<1>3. QED
  BY <1>1, <1>2, Invariant, PTL DEF Spec, ImplementsDatabase, Atomic!Spec

=============================================================================

-------------------------- MODULE BucketListProofs --------------------------
(***************************************************************************)
(* Proofs about the engine as a state machine, for every depth, every set  *)
(* of identities and values, every last sequence number and batches of any *)
(* length: the list of BucketList.tla stays valid and implements the map   *)
(* of KeyValueMap.tla; the planned advance of Frontier.tla, its jobs in    *)
(* any order, implements the list; the engine driven by the calls of an    *)
(* application, as in Differential.tla, does what the calls say and stays  *)
(* equal to the reference model of Reference.tla; and every bucket holds   *)
(* its own interval of the history (BucketListHistory.tla).                *)
(* What one advance does to a list is proved in ListProofs.tla.            *)
(***************************************************************************)
EXTENDS Differential, BucketListHistory, ListProofs

-----------------------------------------------------------------------------
(* The list. *)

Inv == TypeOK /\ Valid(list)

LEMMA InitInv == Init => Inv
  BY NewListType, NewListValid, EmptyType DEF Init, Inv, TypeOK

LEMMA AdvanceInv ==
    ASSUME Inv, NEW batch \in Buckets, Advance(list.seq + 1, batch)
    PROVE  Inv'
<1>1. /\ IsList(list) /\ Valid(list) /\ list.seq # MaxSeq
      /\ list' = Advanced(list, list.seq + 1, batch) /\ input' = batch
  BY ListsAreLists DEF Inv, TypeOK, Advance
<1>2. IsList(list') /\ Valid(list')
  BY <1>1, AdvancedType, AdvancedValid
<1>3. list' \in Lists
  BY <1>1, <1>2 DEF IsList, Lists, Advanced
<1>4. QED
  BY <1>1, <1>2, <1>3 DEF Inv, TypeOK

LEMMA StepInv == Inv /\ [Next]_vars => Inv'
<1> SUFFICES ASSUME Inv, [Next]_vars
             PROVE  Inv'
  OBVIOUS
<1>1. CASE Next
  BY <1>1, AdvanceInv DEF Next
<1>2. CASE UNCHANGED vars
  BY <1>2 DEF Inv, TypeOK, vars
<1>3. QED
  BY <1>1, <1>2

(* Every reachable state is well typed. *)
THEOREM TypeCorrect == Spec => []TypeOK
  BY InitInv, StepInv, PTL DEF Spec, Inv

(* Every reachable list passes the validation that a restore runs. *)
THEOREM AlwaysRestorable == Spec => []Restorable
  BY InitInv, StepInv, PTL DEF Spec, Inv, Restorable

(* Every advance applies its batch to the map that reads see. *)
LEMMA AdvanceApplies ==
    ASSUME Inv, NEW batch \in Buckets, Advance(list.seq + 1, batch)
    PROVE  Map!Apply(batch)
<1>1. /\ IsList(list) /\ Valid(list)
      /\ list' = Advanced(list, list.seq + 1, batch) /\ input' = batch
  BY ListsAreLists DEF Inv, TypeOK, Advance
<1>2. ASSUME NEW k \in Keys
      PROVE  Get(list', k) = IF batch[k] = Absent THEN Get(list, k) ELSE ValueOf(batch[k])
  BY <1>1, AdvancedReads
<1>3. Contents(list)' = Map!Applied(Contents(list), batch)
  BY <1>2 DEF Contents, Map!Applied, Map!ValueOf, ValueOf
<1>4. QED
  BY <1>1, <1>3 DEF Map!Apply, Advanced

(* The BucketList implements the map, for every depth. *)
THEOREM ListImplementsMap == Spec => ImplementsMap
<1>1. Init => Map!Init
  <2> SUFFICES ASSUME Init
               PROVE  Map!Init
    OBVIOUS
  <2>1. ASSUME NEW k \in Keys
        PROVE  Get(list, k) = Absent
    BY NewListEmpty DEF Init
  <2>2. QED
    BY <2>1 DEF Init, NewList, Map!Init, Map!Empty, Empty, Contents
<1>2. Inv /\ [Next]_vars => [Map!Next]_Map!vars
  <2> SUFFICES ASSUME Inv, [Next]_vars
               PROVE  Map!Next \/ UNCHANGED Map!vars
    OBVIOUS
  <2>1. CASE Next
    <3>1. PICK batch \in Buckets : Advance(list.seq + 1, batch)
      BY <2>1 DEF Next
    <3>2. Map!Apply(batch)
      BY <3>1, AdvanceApplies
    <3>3. QED
      BY <3>2 DEF Map!Next, Map!Buckets, Buckets, Map!Records, Records
  <2>2. CASE UNCHANGED vars
    BY <2>2 DEF vars, Map!vars
  <2>3. QED
    BY <2>1, <2>2
<1>3. QED
  BY <1>1, <1>2, InitInv, StepInv, PTL DEF Spec, ImplementsMap, Map!Spec

-----------------------------------------------------------------------------
(* The frontier. *)

LEMMA RunJobKeeps ==
    ASSUME PlanExact, NEW level \in Levels, RunJob(level)
    PROVE  PlanExact'
<1> DEFINE n == list.seq + 1
<1>1. /\ planning /\ planning' /\ UNCHANGED <<list, candidate, jobs, planned>>
      /\ results' = [results EXCEPT ![level] = Result(jobs[level])]
  BY DEF RunJob, RunJobInto, vars
<1>2. /\ DOMAIN results = JobLevels(n)
      /\ \A l \in JobLevels(n) : results[l] \in {NoMerge, Result(jobs[l])}
  BY <1>1 DEF PlanExact
<1>3. ASSUME NEW l \in JobLevels(n)
      PROVE  results'[l] \in {NoMerge, Result(jobs[l])}
  <2>1. CASE l = level
    BY <1>1, <1>2, <2>1
  <2>2. CASE l # level
    BY <1>1, <1>2, <2>2
  <2>3. QED
    BY <2>1, <2>2
<1>4. DOMAIN results' = JobLevels(n)
  BY <1>1, <1>2
<1>5. list' = list /\ candidate' = candidate /\ jobs' = jobs /\ planned' = planned
  BY <1>1
<1>6. QED
  BY <1>1, <1>3, <1>4, <1>5 DEF PlanExact

(* Finishing is the advance with the batch of the plan. *)
LEMMA FinishAdvances ==
    ASSUME PlanExact, Finish
    PROVE  planned \in Buckets /\ Advance(list.seq + 1, planned)
<1> DEFINE n == list.seq + 1
<1>1. planning
  BY DEF Finish
<1>2. /\ list.seq # MaxSeq /\ planned \in Buckets
      /\ candidate = Candidate(list, n)
      /\ jobs = [level \in JobLevels(n) |-> Job(list, n, planned, level)]
      /\ DOMAIN results = JobLevels(n)
  BY <1>1 DEF PlanExact
<1>3. ASSUME NEW level \in JobLevels(n)
      PROVE  results[level] = Result(Job(list, n, planned, level))
  <2>1. results[level] # NoMerge
    BY <1>2 DEF Finish
  <2>2. results[level] \in {NoMerge, Result(jobs[level])}
    BY <1>1 DEF PlanExact
  <2>3. QED
    BY <1>2, <2>1, <2>2
<1>4. Finished(candidate, results) = Advanced(list, n, planned)
  BY <1>2, <1>3, FinishedIsAdvanced
<1>5. QED
  BY <1>2, <1>4 DEF Finish, Advance

LEMMA IdleExact == Idle' => PlanExact'
  BY DEF Idle, PlanExact

LEMMA FrontierStep ==
    ASSUME PlanExact, [FrontierNext]_frontierVars
    PROVE  PlanExact' /\ [Next]_vars
<1>1. ASSUME NEW fresh \in Buckets, Plan(list.seq + 1, fresh)
      PROVE  PlanExact' /\ UNCHANGED vars
  <2>1. list' = list /\ input' = input
    BY <1>1 DEF Plan, vars
  <2>2. QED
    BY <1>1, <2>1 DEF Plan, PlanExact, vars
<1>2. ASSUME NEW level \in Levels, RunJob(level)
      PROVE  PlanExact' /\ UNCHANGED vars
  BY <1>2, RunJobKeeps DEF RunJob, RunJobInto, vars
<1>3. CASE Abandon
  BY <1>3, IdleExact DEF Abandon, Discard, Idle
<1>4. CASE Finish
  <2>1. PlanExact'
    BY <1>4, IdleExact DEF Finish, Discard, Idle
  <2>2. Next
    BY <1>4, FinishAdvances DEF Next
  <2>3. QED
    BY <2>1, <2>2
<1>5. CASE UNCHANGED frontierVars
  <2>1. UNCHANGED vars /\ list' = list
    BY <1>5 DEF frontierVars, vars
  <2>2. /\ planning' = planning /\ candidate' = candidate /\ jobs' = jobs
        /\ results' = results /\ planned' = planned
    BY <1>5 DEF frontierVars, plan
  <2>3. QED
    BY <2>1, <2>2 DEF PlanExact, Idle
<1>6. QED
  BY <1>1, <1>2, <1>3, <1>4, <1>5 DEF FrontierNext

(* While an advance is planned, its work is that of the committed base. *)
THEOREM PlansStayExact == FrontierSpec => []PlanExact
<1>1. FrontierInit => PlanExact
  BY DEF FrontierInit, Idle, PlanExact
<1>2. PlanExact /\ [FrontierNext]_frontierVars => PlanExact'
  BY FrontierStep
<1>3. QED
  BY <1>1, <1>2, PTL DEF FrontierSpec

(* The hosted frontier implements the in-memory list. *)
THEOREM FrontierImplementsList == FrontierSpec => ImplementsList
<1>1. FrontierInit => Init
  BY DEF FrontierInit
<1>2. PlanExact /\ [FrontierNext]_frontierVars => [Next]_vars
  BY FrontierStep
<1>3. QED
  BY <1>1, <1>2, PlansStayExact, PTL DEF FrontierSpec, ImplementsList, Spec

(* So every committed frontier passes its validation and reads as the map. *)
COROLLARY FrontierCorrect == FrontierSpec => []Restorable /\ ImplementsMap
  BY FrontierImplementsList, AlwaysRestorable, ListImplementsMap DEF ImplementsList

-----------------------------------------------------------------------------
(* The calls of an application. *)

WritesFor(ops, k) == {i \in DOMAIN ops : ops[i].key = k}

(* What is staged for a key is the value of the last call for it.          *)
LEMMA StagedIs ==
    ASSUME NEW ops \in OperationLists, NEW k \in Keys
    PROVE  /\ WritesFor(ops, k) = {} => Staged(ops)[k] = Absent
           /\ WritesFor(ops, k) # {} =>
                \E i \in WritesFor(ops, k) :
                   /\ \A j \in WritesFor(ops, k) : j <= i
                   /\ Staged(ops)[k] = ops[i].value
                   /\ Staged(ops)[k] \in Values \cup {Tombstone}
<1>1. PICK n \in Nat : ops \in [1..n -> Operation]
  BY DEF OperationLists
<1>2. CASE WritesFor(ops, k) = {}
  BY <1>2 DEF WritesFor, Staged
<1>3. CASE WritesFor(ops, k) # {}
  <2>1. WritesFor(ops, k) \in SUBSET (1..n)
    BY <1>1 DEF WritesFor
  <2>2. \E i \in WritesFor(ops, k) : \A j \in WritesFor(ops, k) : j <= i
    BY <1>3, <2>1, LastExists
  <2> DEFINE i == Latest(WritesFor(ops, k))
  <2>3. i \in WritesFor(ops, k) /\ \A j \in WritesFor(ops, k) : j <= i
    BY <2>2 DEF Latest
  <2>4. Staged(ops)[k] = ops[i].value
    BY <1>3 DEF WritesFor, Staged
  <2>5. ops[i] \in Operation
    BY <1>1, <2>3 DEF WritesFor
  <2>. QED
    BY <1>3, <2>3, <2>4, <2>5 DEF Operation
<1>. QED
  BY <1>2, <1>3

LEMMA FreshType ==
    ASSUME NEW ops \in OperationLists
    PROVE  Fresh(ops) \in Buckets
<1>1. ASSUME NEW k \in Keys PROVE Staged(ops)[k] \in Records
  BY StagedIs DEF Records
<1>. QED
  BY <1>1 DEF Fresh, Buckets, Records

-----------------------------------------------------------------------------
(* A step of the two side by side is a step of the frontier.               *)
LEMMA DifferentialStep == [DifferentialNext]_differentialVars => [FrontierNext]_frontierVars
<1> SUFFICES ASSUME [DifferentialNext]_differentialVars
             PROVE  FrontierNext \/ UNCHANGED frontierVars
  OBVIOUS
<1>1. ASSUME NEW ops \in OperationLists, PlanBatch(ops) PROVE FrontierNext
  BY <1>1, FreshType DEF PlanBatch, FrontierNext
<1>2. ASSUME NEW level \in Levels, CompleteJob(level) PROVE FrontierNext
  BY <1>2 DEF CompleteJob, FrontierNext
<1>3. CASE AbandonBatch
  BY <1>3 DEF AbandonBatch, FrontierNext
<1>4. CASE FinishBoth
  BY <1>4 DEF FinishBoth, FrontierNext
<1>5. CASE UNCHANGED differentialVars
  BY <1>5 DEF differentialVars
<1>. QED
  BY <1>1, <1>2, <1>3, <1>4, <1>5 DEF DifferentialNext

(***************************************************************************)
(* Driven by the calls of an application, the engine is the hosted         *)
(* frontier ...                                                            *)
(***************************************************************************)
THEOREM CallsDriveFrontier == DifferentialSpec => FrontierSpec
<1>1. DifferentialInit => FrontierInit
  BY DEF DifferentialInit
<1>. QED
  BY <1>1, DifferentialStep, PTL DEF DifferentialSpec, FrontierSpec

(***************************************************************************)
(* ... and so the list of list.zig, whatever the order of its merge jobs   *)
(* (frontier.zig 67-80).                                                   *)
(***************************************************************************)
THEOREM CallsImplementList == DifferentialSpec => ImplementsList
  BY CallsDriveFrontier, FrontierImplementsList

-----------------------------------------------------------------------------
(* What is planned is what the calls that wait say to the committed list.  *)
Waiting == planning => operations \in OperationLists /\ planned = Fresh(operations)

LEMMA WaitingKept ==
    ASSUME Waiting, [DifferentialNext]_differentialVars
    PROVE  Waiting'
<1>1. ASSUME NEW ops \in OperationLists, PlanBatch(ops) PROVE Waiting'
  <2>1. operations' = ops /\ planned' = Fresh(ops) /\ list' = list
    BY <1>1 DEF PlanBatch, Plan, vars
  <2>2. Fresh(ops)' = Fresh(ops)
    BY <2>1 DEF Fresh
  <2>. QED
    BY <2>1, <2>2 DEF Waiting
<1>2. ASSUME UNCHANGED <<list, planning, planned, operations>> PROVE Waiting'
  <2>1. list' = list /\ planning' = planning /\ planned' = planned /\ operations' = operations
    BY <1>2
  <2>2. Fresh(operations)' = Fresh(operations)
    BY <2>1 DEF Fresh, Staged
  <2>. QED
    BY <2>1, <2>2 DEF Waiting
<1>3. ASSUME NEW level \in Levels, CompleteJob(level) PROVE Waiting'
  BY <1>2, <1>3 DEF CompleteJob, RunJob, RunJobInto, vars
<1>4. CASE AbandonBatch \/ FinishBoth
  BY <1>4 DEF AbandonBatch, FinishBoth, Abandon, Finish, Discard, Waiting
<1>5. CASE UNCHANGED differentialVars
  BY <1>2, <1>5 DEF differentialVars, frontierVars, plan, vars
<1>. QED
  BY <1>1, <1>3, <1>4, <1>5 DEF DifferentialNext

(* What a reader finds after the batch that the calls left.                *)
LEMMA FreshApplied ==
    ASSUME Inv, operations \in OperationLists,
           Advance(list.seq + 1, Fresh(operations)), NEW k \in Keys
    PROVE  Get(list', k) = IF Staged(operations)[k] = Absent THEN Get(list, k)
                           ELSE ValueOf(Staged(operations)[k])
<1>1. Fresh(operations) \in Buckets
  BY FreshType
<1>2. /\ IsList(list) /\ Valid(list)
      /\ list' = Advanced(list, list.seq + 1, Fresh(operations))
  BY ListsAreLists DEF Inv, TypeOK, Advance
<1>3. Get(list', k) = IF Fresh(operations)[k] = Absent THEN Get(list, k)
                      ELSE ValueOf(Fresh(operations)[k])
  BY <1>1, <1>2, AdvancedReads
<1>4. Fresh(operations)[k] = IF /\ Staged(operations)[k] # Absent
                                /\ ValueOf(Staged(operations)[k]) # Get(list, k)
                             THEN Staged(operations)[k] ELSE Absent
  BY DEF Fresh
<1>. QED
  BY <1>3, <1>4

(***************************************************************************)
(* Whatever list the engine has reached, committing a batch makes every    *)
(* reader find the value of the last call for a key, and what it found     *)
(* before where there was no call (database.zig 148-165, 214-226).         *)
(***************************************************************************)
THEOREM CommittedCallsTakeEffect == DifferentialSpec => BatchesTakeEffect
<1>1. DifferentialInit => Waiting
  BY DEF DifferentialInit, FrontierInit, Idle, Waiting
<1>2. Waiting /\ [DifferentialNext]_differentialVars => Waiting'
  BY WaitingKept
<1> DEFINE Effect(k) ==
             /\ (\A i \in DOMAIN operations : operations[i].key # k) =>
                  Get(list', k) = Get(list, k)
             /\ \A i \in DOMAIN operations :
                  LastCall(i, k) => Get(list', k) = ValueOf(operations[i].value)
<1>3. /\ Inv /\ PlanExact /\ Waiting
      /\ [DifferentialNext]_differentialVars
      => [list'.seq # list.seq => \A k \in Keys : Effect(k)]_differentialVars
  <2> SUFFICES ASSUME Inv, PlanExact, Waiting,
                      [DifferentialNext]_differentialVars, list'.seq # list.seq, NEW k \in Keys
               PROVE  Effect(k)
    OBVIOUS
  <2>1. FinishBoth
    BY DEF DifferentialNext, PlanBatch, Plan, CompleteJob, RunJob, RunJobInto, AbandonBatch,
           Abandon, differentialVars, frontierVars, vars
  <2>2. Advance(list.seq + 1, planned)
    BY <2>1, FinishAdvances DEF FinishBoth
  <2>3. operations \in OperationLists /\ planned = Fresh(operations)
    BY <2>1 DEF FinishBoth, Finish, Waiting
  <2>4. Get(list', k) = IF Staged(operations)[k] = Absent THEN Get(list, k)
                        ELSE ValueOf(Staged(operations)[k])
    BY <2>2, <2>3, FreshApplied
  <2>5. ASSUME \A i \in DOMAIN operations : operations[i].key # k
        PROVE  Get(list', k) = Get(list, k)
    BY <2>3, <2>4, <2>5, StagedIs DEF WritesFor
  <2>6. ASSUME NEW i \in DOMAIN operations, LastCall(i, k)
        PROVE  Get(list', k) = ValueOf(operations[i].value)
    <3>1. i \in WritesFor(operations, k) /\ \A j \in WritesFor(operations, k) : j <= i
      BY <2>6 DEF LastCall, WritesFor
    <3>2. PICK last \in WritesFor(operations, k) :
            /\ \A j \in WritesFor(operations, k) : j <= last
            /\ Staged(operations)[k] = operations[last].value
            /\ Staged(operations)[k] \in Values \cup {Tombstone}
      BY <2>3, <3>1, StagedIs
    <3>3. last = i
      <4>1. PICK n \in Nat : operations \in [1..n -> Operation]
        BY <2>3 DEF OperationLists
      <4>2. last \in Nat /\ i \in Nat
        BY <3>1, <3>2, <4>1 DEF WritesFor
      <4>3. last <= i /\ i <= last
        BY <3>1, <3>2
      <4>. QED
        BY <4>2, <4>3
    <3>4. Staged(operations)[k] # Absent
      BY <3>2, SentinelAssumption
    <3>. QED
      BY <2>4, <3>2, <3>3, <3>4
  <2>. QED
    BY <2>5, <2>6
<1>4. DifferentialSpec => []Inv
  <2>1. Spec => []Inv
    BY InitInv, StepInv, PTL DEF Spec
  <2>. QED
    BY <2>1, CallsImplementList DEF ImplementsList
<1>5. DifferentialSpec => []PlanExact
  BY CallsDriveFrontier, PlansStayExact
<1>. QED
  BY <1>1, <1>2, <1>3, <1>4, <1>5, PTL DEF DifferentialSpec, BatchesTakeEffect

-----------------------------------------------------------------------------
(* The reference beside the engine: dictionaries and schedules. *)

(* A bucket as a dictionary: its domain is the identities with a record.   *)
Rows(bucket) == [k \in {k \in Keys : bucket[k] # Absent} |-> bucket[k]]

PendingRows(next) == IF next = NoMerge THEN Tombstone ELSE Rows(next)

LEMMA RowsEmpty == Reference!EmptyRows = Rows(Empty)
  BY DEF Reference!EmptyRows, Rows, Empty

LEMMA RowsNotNone ==
    ASSUME NEW bucket \in Buckets
    PROVE  Rows(bucket) # Tombstone
<1> DEFINE keys == {k \in Keys : bucket[k] # Absent}
<1>1. Rows(bucket) \in [keys -> Values \cup {Tombstone}]
  BY DEF Rows, Buckets, Records
<1>2. keys \in SUBSET Keys
  OBVIOUS
<1>. QED
  BY <1>1, <1>2, TombstoneAssumption

LEMMA MergedRows ==
    ASSUME NEW older \in Buckets, NEW newer \in Buckets, NEW drop \in BOOLEAN
    PROVE  Reference!MergeRows(Rows(older), Rows(newer), drop) = Rows(Merge(older, newer, drop))
<1> DEFINE both == Reference!Updated(Rows(older), Rows(newer))
           keys == {k \in Keys : older[k] # Absent} \cup {k \in Keys : newer[k] # Absent}
<1>1. both = [k \in keys |-> IF newer[k] # Absent THEN newer[k] ELSE older[k]]
  BY DEF Reference!Updated, Rows
<1>2. CASE drop
  <2>1. Reference!MergeRows(Rows(older), Rows(newer), drop)
          = [k \in {k \in DOMAIN both : both[k] # Tombstone} |-> both[k]]
    BY <1>2 DEF Reference!MergeRows, Reference!Without, Reference!IsNone
  <2>2. {k \in DOMAIN both : both[k] # Tombstone}
          = {k \in Keys : Merge(older, newer, drop)[k] # Absent}
    BY <1>1, <1>2, SentinelAssumption DEF Merge, ValueOf, Buckets, Records
  <2>3. ASSUME NEW k \in DOMAIN both, both[k] # Tombstone
        PROVE  both[k] = Merge(older, newer, drop)[k]
    BY <1>1, <1>2, <2>3 DEF Merge, ValueOf
  <2>. QED
    BY <2>1, <2>2, <2>3 DEF Rows
<1>3. CASE ~ drop
  <2>1. Reference!MergeRows(Rows(older), Rows(newer), drop) = both
    BY <1>3 DEF Reference!MergeRows
  <2>2. keys = {k \in Keys : Merge(older, newer, drop)[k] # Absent}
    BY <1>3 DEF Merge
  <2>. QED
    BY <1>1, <1>3, <2>1, <2>2 DEF Rows, Merge
<1>. QED
  BY <1>2, <1>3

(* What the first calls of a batch leave staged. *)
StagedTo(ops, last) ==
    [k \in Keys |->
       LET writes == {i \in 1..last : ops[i].key = k}
       IN  IF writes = {} THEN Absent ELSE ops[Latest(writes)].value]

LEMMA LatestIs ==
    ASSUME NEW calls \in SUBSET Int, NEW i \in calls, \A j \in calls : j <= i
    PROVE  Latest(calls) = i
<1>1. Latest(calls) \in calls /\ \A j \in calls : j <= Latest(calls)
  BY DEF Latest
<1>2. Latest(calls) \in Int /\ i \in Int /\ i <= Latest(calls) /\ Latest(calls) <= i
  BY <1>1
<1>. QED
  BY <1>2

LEMMA StagedNext ==
    ASSUME NEW n \in Nat, NEW ops \in [1..n -> Operation], NEW i \in 1..n, NEW k \in Keys
    PROVE  /\ ops[i].key = k => StagedTo(ops, i)[k] = ops[i].value
           /\ ops[i].key # k => StagedTo(ops, i)[k] = StagedTo(ops, i - 1)[k]
<1> DEFINE writes == {j \in 1..i : ops[j].key = k}
           before == {j \in 1..(i - 1) : ops[j].key = k}
<1>1. CASE ops[i].key = k
  <2>1. writes \in SUBSET Int /\ i \in writes /\ \A j \in writes : j <= i
    BY <1>1
  <2>2. Latest(writes) = i
    BY <2>1, LatestIs
  <2>. QED
    BY <1>1, <2>1, <2>2 DEF StagedTo
<1>2. CASE ops[i].key # k
  <2>1. writes = before
    BY <1>2
  <2>. QED
    BY <1>2, <2>1 DEF StagedTo
<1>. QED
  BY <1>1, <1>2

LEMMA RowsNext ==
    ASSUME NEW n \in Nat, NEW ops \in [1..n -> Operation], NEW i \in 1..n
    PROVE  Rows(StagedTo(ops, i)) =
             Reference!Updated(Rows(StagedTo(ops, i - 1)), Reference!OneRow(ops[i]))
<1> DEFINE after == StagedTo(ops, i)
           before == StagedTo(ops, i - 1)
           key == ops[i].key
           value == ops[i].value
<1>1. key \in Keys /\ value # Absent
  BY SentinelAssumption DEF Operation
<1>2. \A k \in Keys : after[k] = IF k = key THEN value ELSE before[k]
  BY StagedNext
<1> HIDE DEF after, before
<1>3. Reference!Updated(Rows(before), Reference!OneRow(ops[i]))
        = [k \in {k \in Keys : before[k] # Absent} \cup {key} |->
             IF k = key THEN value ELSE before[k]]
  BY DEF Reference!Updated, Reference!OneRow, Rows
<1>4. {k \in Keys : after[k] # Absent} = {k \in Keys : before[k] # Absent} \cup {key}
  BY <1>1, <1>2
<1>5. Rows(after) = [k \in {k \in Keys : after[k] # Absent} |-> after[k]]
  BY DEF Rows
<1>6. ASSUME NEW k \in Keys PROVE after[k] = IF k = key THEN value ELSE before[k]
  BY <1>2
<1>7. Rows(after) = Reference!Updated(Rows(before), Reference!OneRow(ops[i]))
  BY <1>1, <1>3, <1>4, <1>5, <1>6
<1>. QED
  BY <1>7 DEF after, before

(* encode_operations, whose dictionary grows call by call. *)
LEMMA EncodedRows ==
    ASSUME NEW ops \in OperationLists
    PROVE  Reference!EncodeOperations(ops) = Rows(Staged(ops))
<1>1. PICK n \in Nat : ops \in [1..n -> Operation]
  BY DEF OperationLists
<1>2. Len(ops) = n
  BY <1>1
<1> DEFINE Grows(f) == f = [i \in 0..n |->
                              IF i = 0 THEN Reference!EmptyRows
                              ELSE Reference!Updated(f[i - 1], Reference!OneRow(ops[i]))]
           staged == [i \in 0..n |-> Rows(StagedTo(ops, i))]
<1>3. Rows(StagedTo(ops, 0)) = Reference!EmptyRows
  <2>1. StagedTo(ops, 0) = Empty
    BY DEF StagedTo, Empty
  <2>. QED
    BY <2>1, RowsEmpty
<1>4. ASSUME NEW i \in 1..n
      PROVE  staged[i] = Reference!Updated(staged[i - 1], Reference!OneRow(ops[i]))
  <2>1. i \in 0..n /\ i - 1 \in 0..n
    OBVIOUS
  <2>. QED
    BY <1>1, <2>1, RowsNext
<1>5. staged[0] = Reference!EmptyRows
  BY <1>3
<1>6. DOMAIN staged = 0..n /\ staged = [i \in 0..n |-> staged[i]]
  OBVIOUS
<1> HIDE DEF staged
<1>7. Grows(staged)
  <2>1. \A i \in 0..n : i # 0 => i \in 1..n
    OBVIOUS
  <2>2. \A i \in 0..n : staged[i] = IF i = 0 THEN Reference!EmptyRows
                          ELSE Reference!Updated(staged[i - 1], Reference!OneRow(ops[i]))
    BY <1>4, <1>5, <2>1
  <2>. QED
    BY <1>6, <2>2
<1>8. ASSUME NEW f, Grows(f) PROVE f[n] = staged[n]
  <2>1. f[0] = staged[0]
    BY <1>5, <1>8
  <2>2. ASSUME NEW i \in 1..n, f[i - 1] = staged[i - 1] PROVE f[i] = staged[i]
    <3>1. i \in 0..n /\ i # 0
      OBVIOUS
    <3>. QED
      BY <1>4, <1>8, <2>2, <3>1
  <2> HIDE DEF Grows
  <2>. QED
    BY <2>1, <2>2, SameFromZero
<1>9. Reference!EncodeOperations(ops) = (CHOOSE f : Grows(f))[n]
  BY <1>2 DEF Reference!EncodeOperations
<1>10. Grows(CHOOSE f : Grows(f))
  <2> HIDE DEF Grows
  <2>. QED
    BY <1>7
<1>11. (CHOOSE f : Grows(f))[n] = staged[n]
  BY <1>8, <1>10
<1>12. staged[n] = Rows(Staged(ops))
  <2>1. StagedTo(ops, n) = Staged(ops)
    BY <1>1 DEF StagedTo, Staged
  <2>. QED
    BY <2>1 DEF staged
<1>. QED
  BY <1>9, <1>11, <1>12

(* The sizes of stellar-core's levels, in halves. *)
LEMMA SizesAreHalves ==
    ASSUME NEW level \in Levels
    PROVE  /\ Half(level) \in Nat /\ Half(level) > 0
           /\ Size(level) \div 2 = Half(level)
           /\ 2 * 4^level = Half(level)
<1>1. Half(level) \in Nat /\ Half(level) > 0
  BY HalfAssumption
<1>2. 4^level \in Nat /\ 2 * 4^level = Half(level) /\ Size(level) = 4 * 4^level
  BY PowerAssumption DEF Size
<1>3. ASSUME NEW power \in Nat PROVE (4 * power) \div 2 = 2 * power
  OBVIOUS
<1>. QED
  BY <1>1, <1>2, <1>3

LEMMA SchedulesAgree ==
    ASSUME NEW n \in Nat, NEW level \in Levels
    PROVE  /\ ShouldSpill(n, level) <=> ExpectedSpill(n, level)
           /\ MergeWithEmpty(n, level) <=> ExpectedEmpty(n, level)
           /\ Receives(n, level) =>
                (MergeWithEmpty(n, level) <=> Reference!DestinationWillSpill(n, level, Depth))
<1>1. level \in Nat /\ level <= Last /\ Last = Depth - 1
  BY LevelFacts DEF Last
<1>2. Half(level) \in Nat /\ Half(level) > 0 /\ Size(level) \div 2 = Half(level)
      /\ 2 * 4^level = Half(level)
  BY SizesAreHalves
<1>3. ShouldSpill(n, level) <=> ExpectedSpill(n, level)
  <2>1. level # Last <=> level < Depth - 1
    BY <1>1, DepthAssumption
  <2>. QED
    BY <1>2, <2>1 DEF ShouldSpill, ExpectedSpill
<1>4. CASE level = 0
  BY <1>3, <1>4 DEF MergeWithEmpty, ExpectedEmpty, Receives
<1>5. CASE level > 0
  <2> DEFINE h == Half(level - 1)
  <2>1. level - 1 \in Levels /\ h \in Nat /\ h > 0 /\ Half(level) = 4 * h
    BY <1>5, LevelFacts, HalfAssumption
  <2>2. 2 * 4^(level - 1) = h
    BY <2>1, SizesAreHalves
  <2>3. (n \div h) % 4 = 3 <=> ((n \div h) * h + h) % (4 * h) = 0
    BY <2>1, NextIntervalBoundary
  <2>4. MergeWithEmpty(n, level) <=> level # Last /\ (n \div h) % 4 = 3
    BY <1>5 DEF MergeWithEmpty
  <2>5. ExpectedEmpty(n, level) <=> level # Last /\ ((n \div h) * h + h) % (4 * h) = 0
    <3>1. ExpectedEmpty(n, level)
            <=> /\ level # 0 /\ level # Depth - 1
                /\ ((n \div h) * h + h) % (Size(level) \div 2) = 0
      BY <2>2 DEF ExpectedEmpty
    <3>. QED
      BY <1>1, <1>2, <1>5, <2>1, <3>1
  <2>6. ASSUME Receives(n, level)
        PROVE  MergeWithEmpty(n, level) <=> Reference!DestinationWillSpill(n, level, Depth)
    <3>1. n % h = 0
      BY <2>6 DEF Receives, ShouldSpill
    <3>2. n = (n \div h) * h
      BY <2>1, <3>1, QuotientTimes
    <3>3. Reference!DestinationWillSpill(n, level, Depth)
            <=> level # Depth - 1 /\ (n + h) % (4 * h) = 0
      BY <1>2, <2>1, <2>2 DEF Reference!DestinationWillSpill, Reference!IncomingInterval
    <3>. QED
      BY <1>1, <2>3, <2>4, <3>2, <3>3
  <2>. QED
    BY <1>3, <2>3, <2>4, <2>5, <2>6
<1>. QED
  BY <1>1, <1>4, <1>5

(* A list as the reference has it. *)
Mirrored(value) ==
    [level \in Levels |->
       [curr |-> Rows(value.curr[level]), snap |-> Rows(value.snap[level]),
        next |-> PendingRows(value.next[level])]]

Incoming(value, n, level) ==
    Merge(MergeBase(n, level, Promoted(value, n, level)), value.curr[level - 1], level = Last)

(* A list when the loop of the reference has come down to a level. *)
Halfway(value, n, i) ==
    [curr |-> [level \in Levels |->
                 IF level >= i THEN Promoted(value, n, level)
                 ELSE IF level = i - 1 /\ ShouldSpill(n, level) THEN Empty
                 ELSE value.curr[level]],
     snap |-> [level \in Levels |->
                 IF level >= i - 1 /\ ShouldSpill(n, level)
                 THEN value.curr[level] ELSE value.snap[level]],
     next |-> [level \in Levels |->
                 IF level >= i /\ Receives(n, level) THEN Incoming(value, n, level)
                 ELSE value.next[level]]]

LEMMA HalfwayStart ==
    ASSUME NEW value, IsList(value), NEW n \in Nat
    PROVE  Mirrored(Halfway(value, n, Depth)) = Mirrored(value)
<1> DEFINE half == Halfway(value, n, Depth)
<1>1. ASSUME NEW level \in Levels
      PROVE  half.curr[level] = value.curr[level] /\ half.snap[level] = value.snap[level]
             /\ half.next[level] = value.next[level]
  <2>1. level < Depth /\ level \in Nat /\ (level = Depth - 1 => ~ ShouldSpill(n, level))
    BY LevelFacts, DepthAssumption DEF Last, ShouldSpill, Levels
  <2>2. ~ (level >= Depth) /\ ~ (level >= Depth - 1 /\ ShouldSpill(n, level))
    BY <2>1, DepthAssumption
  <2>. QED
    BY <2>1, <2>2 DEF Halfway
<1> HIDE DEF half
<1>2. Mirrored(half) = Mirrored(value)
  BY <1>1 DEF Mirrored
<1>. QED
  BY <1>2 DEF half

LEMMA HalfwaySkips ==
    ASSUME NEW value, IsList(value), NEW n \in Nat, NEW i \in 1..(Depth - 1), ~ Receives(n, i)
    PROVE  Mirrored(Halfway(value, n, i)) = Mirrored(Halfway(value, n, i + 1))
<1> DEFINE half == Halfway(value, n, i)
           before == Halfway(value, n, i + 1)
<1>1. ASSUME NEW level \in Levels
      PROVE  half.curr[level] = before.curr[level] /\ half.snap[level] = before.snap[level]
             /\ half.next[level] = before.next[level]
  <2>1. level \in Nat /\ ~ ShouldSpill(n, i - 1)
    BY LevelFacts DEF Receives
  <2>2. CASE level = i
    BY <2>1, <2>2 DEF Halfway, Promoted
  <2>3. CASE level # i
    <3>1. (level >= i <=> level >= i + 1) /\ level # (i + 1) - 1
      BY <2>1, <2>3
    <3>2. (level >= i - 1 /\ level # i - 1 <=> level >= (i + 1) - 1)
          /\ (level = i - 1 => ~ ShouldSpill(n, level))
      BY <2>1, <2>3
    <3>. QED
      BY <3>1, <3>2 DEF Halfway
  <2>. QED
    BY <2>2, <2>3
<1> HIDE DEF half, before
<1>2. Mirrored(half) = Mirrored(before)
  BY <1>1 DEF Mirrored
<1>. QED
  BY <1>2 DEF half, before

(* The fields of a level that a turn assigns. *)
LEMMA SpilledFields ==
    ASSUME NEW a, NEW b, NEW c, NEW one, NEW other, NEW level, NEW spilled, NEW received,
           level = [curr |-> a, snap |-> b, next |-> c],
           spilled = [level EXCEPT !.snap = one, !.curr = other],
           received = [level EXCEPT !.curr = one, !.next = other]
    PROVE  /\ spilled = [curr |-> other, snap |-> one, next |-> c]
           /\ received = [curr |-> one, snap |-> b, next |-> other]
<1>1. [level EXCEPT !.snap = one] = [curr |-> a, snap |-> one, next |-> c]
  OBVIOUS
<1>2. [level EXCEPT !.curr = one] = [curr |-> one, snap |-> b, next |-> c]
  OBVIOUS
<1>3. spilled = [[level EXCEPT !.snap = one] EXCEPT !.curr = other]
  OBVIOUS
<1>4. received = [[level EXCEPT !.curr = one] EXCEPT !.next = other]
  OBVIOUS
<1>5. [[curr |-> a, snap |-> one, next |-> c] EXCEPT !.curr = other]
        = [curr |-> other, snap |-> one, next |-> c]
  OBVIOUS
<1>6. [[curr |-> one, snap |-> b, next |-> c] EXCEPT !.next = other]
        = [curr |-> one, snap |-> b, next |-> other]
  OBVIOUS
<1>. QED
  BY <1>1, <1>2, <1>3, <1>4, <1>5, <1>6

(* One turn of the loop. *)
LEMMA HalfwaySpills ==
    ASSUME NEW value, IsList(value), NEW n \in Nat, NEW i \in 1..(Depth - 1), Receives(n, i)
    PROVE  Mirrored(Halfway(value, n, i)) =
             Reference!SpillInto(n, Mirrored(Halfway(value, n, i + 1)), i, Depth)
<1> DEFINE half == Halfway(value, n, i)
           before == Halfway(value, n, i + 1)
           levels == Mirrored(before)
           promoted == Promoted(value, n, i)
           source == value.curr[i - 1]
<1>1. /\ i \in Levels /\ i - 1 \in Levels /\ i \in Nat /\ i > 0 /\ ShouldSpill(n, i - 1)
      /\ (i = Depth - 1 <=> i = Last)
  BY LevelFacts, DepthAssumption DEF Levels, Receives, Last
<1>2. levels[i - 1].curr = Rows(source)
  <2>1. before.curr[i - 1] = source
    BY <1>1 DEF Halfway
  <2>. QED
    BY <1>1, <2>1 DEF Mirrored
<1>3. before.curr[i] = (IF ShouldSpill(n, i) THEN Empty ELSE value.curr[i])
      /\ before.next[i] = value.next[i]
  BY <1>1 DEF Halfway
<1>4. (IF levels[i].next # Tombstone THEN levels[i].next ELSE levels[i].curr) = Rows(promoted)
  <2>1. levels[i].next = PendingRows(value.next[i]) /\ levels[i].curr = Rows(before.curr[i])
    BY <1>1, <1>3 DEF Mirrored
  <2>2. CASE value.next[i] = NoMerge
    BY <1>1, <1>3, <2>1, <2>2 DEF PendingRows, Promoted
  <2>3. CASE value.next[i] # NoMerge
    <3>1. value.next[i] \in Buckets
      BY <1>1, <2>3 DEF IsList
    <3>2. Rows(value.next[i]) # Tombstone
      BY <3>1, RowsNotNone
    <3>. QED
      BY <1>1, <2>1, <2>3, <3>2 DEF PendingRows, Promoted
  <2>. QED
    BY <2>2, <2>3
<1>5. promoted \in Buckets /\ MergeBase(n, i, promoted) \in Buckets /\ source \in Buckets
  BY <1>1, PromotedType DEF IsList
<1>6. (IF Reference!DestinationWillSpill(n, i, Depth) THEN Reference!EmptyRows ELSE Rows(promoted))
        = Rows(MergeBase(n, i, promoted))
  <2>1. MergeWithEmpty(n, i) <=> Reference!DestinationWillSpill(n, i, Depth)
    BY <1>1, SchedulesAgree
  <2>. QED
    BY <2>1, RowsEmpty DEF MergeBase
<1>7. Reference!MergeRows(Rows(MergeBase(n, i, promoted)), Rows(source), i = Depth - 1)
        = Rows(Incoming(value, n, i))
  <2>1. (i = Depth - 1) \in BOOLEAN
    OBVIOUS
  <2>2. Reference!MergeRows(Rows(MergeBase(n, i, promoted)), Rows(source), i = Depth - 1)
          = Rows(Merge(MergeBase(n, i, promoted), source, i = Depth - 1))
    BY <1>5, <2>1, MergedRows
  <2>. QED
    BY <1>1, <2>2 DEF Incoming
<1> DEFINE above == [levels[i - 1] EXCEPT !.snap = Rows(source), !.curr = Reference!EmptyRows]
           into == [levels[i] EXCEPT !.curr = Rows(promoted), !.next = Rows(Incoming(value, n, i))]
           after == [levels EXCEPT ![i - 1] = above, ![i] = into]
<1>8. Reference!SpillInto(n, levels, i, Depth) = after
  <2>1. DOMAIN levels = Levels /\ i - 1 # i
    BY <1>1 DEF Mirrored
  <2> HIDE DEF levels, source, promoted
  <2>2. Reference!SpillInto(n, levels, i, Depth)
          = [levels EXCEPT ![i - 1] = [@ EXCEPT !.snap = Rows(source), !.curr = Reference!EmptyRows],
                           ![i] = [@ EXCEPT !.curr = Rows(promoted),
                                            !.next = Rows(Incoming(value, n, i))]]
    BY <1>2, <1>4, <1>6, <1>7 DEF Reference!SpillInto
  <2>. QED
    BY <1>1, <2>1, <2>2
<1>9. Incoming(value, n, i) # NoMerge
  <2>1. Incoming(value, n, i) \in Buckets
    BY <1>5, MergeType DEF Incoming
  <2>. QED
    BY <2>1, NoMergeAssumption
<1>13. /\ above = [curr |-> Reference!EmptyRows, snap |-> Rows(source),
                    next |-> PendingRows(before.next[i - 1])]
       /\ into = [curr |-> Rows(promoted), snap |-> Rows(before.snap[i]),
                  next |-> Rows(Incoming(value, n, i))]
  <2>1. levels[i - 1] = [curr |-> Rows(before.curr[i - 1]), snap |-> Rows(before.snap[i - 1]),
                         next |-> PendingRows(before.next[i - 1])]
    BY <1>1 DEF Mirrored
  <2>2. levels[i] = [curr |-> Rows(before.curr[i]), snap |-> Rows(before.snap[i]),
                     next |-> PendingRows(before.next[i])]
    BY <1>1 DEF Mirrored
  <2> DEFINE a == Rows(before.curr[i - 1])
             b == Rows(before.snap[i - 1])
             c == PendingRows(before.next[i - 1])
             d == Rows(before.curr[i])
             e == Rows(before.snap[i])
             f == PendingRows(before.next[i])
             level == levels[i - 1]
             next == levels[i]
             toSnap == Rows(source)
             toCurr == Rows(promoted)
             toNext == Rows(Incoming(value, n, i))
             empty == Reference!EmptyRows
  <2> HIDE DEF a, b, c, d, e, f, level, next, toSnap, toCurr, toNext, empty
  <2>3. above = [level EXCEPT !.snap = toSnap, !.curr = empty]
        /\ into = [next EXCEPT !.curr = toCurr, !.next = toNext]
    BY DEF level, next, toSnap, toCurr, toNext, empty
  <2>4. level = [curr |-> a, snap |-> b, next |-> c] /\ next = [curr |-> d, snap |-> e, next |-> f]
    BY <2>1, <2>2 DEF a, b, c, d, e, f, level, next
  <2> HIDE DEF above, into
  <2>5. above = [curr |-> empty, snap |-> toSnap, next |-> c]
    BY <2>3, <2>4, SpilledFields, Zenon
  <2>6. into = [curr |-> toCurr, snap |-> e, next |-> toNext]
    BY <2>3, <2>4, SpilledFields, Zenon
  <2>. QED
    BY <2>5, <2>6 DEF toSnap, toCurr, toNext, empty, c, e
<1>14. /\ after[i - 1] = above /\ after[i] = into
       /\ \A level \in Levels \ {i - 1, i} : after[level] = levels[level]
       /\ DOMAIN after = Levels /\ after = [level \in Levels |-> after[level]]
  <2>1. DOMAIN levels = Levels /\ i - 1 # i /\ levels = [level \in Levels |-> levels[level]]
    BY <1>1 DEF Mirrored
  <2> HIDE DEF levels, above, into
  <2>. QED
    BY <1>1, <2>1
<1>10. ASSUME NEW level \in Levels
       PROVE  after[level] = [curr |-> Rows(half.curr[level]), snap |-> Rows(half.snap[level]),
                              next |-> PendingRows(half.next[level])]
  <2>0. level \in Nat
    BY LevelFacts
  <2>1. levels[level] = [curr |-> Rows(before.curr[level]), snap |-> Rows(before.snap[level]),
                         next |-> PendingRows(before.next[level])]
    BY DEF Mirrored
  <2>3. CASE level = i
    <3>1. half.curr[i] = promoted /\ half.snap[i] = before.snap[i]
          /\ half.next[i] = Incoming(value, n, i)
      BY <1>1 DEF Halfway
    <3>2. after[i] = [curr |-> Rows(promoted), snap |-> Rows(before.snap[i]),
                      next |-> Rows(Incoming(value, n, i))]
      BY <1>13, <1>14, <2>3
    <3>. QED
      BY <1>9, <2>3, <3>1, <3>2 DEF PendingRows
  <2>4. CASE level = i - 1
    <3>1. half.curr[level] = Empty /\ half.snap[level] = source /\ half.next[level] = before.next[level]
      BY <1>1, <2>0, <2>4 DEF Halfway
    <3>2. after[level] = [curr |-> Reference!EmptyRows, snap |-> Rows(source),
                          next |-> PendingRows(before.next[level])]
      BY <1>13, <1>14, <2>4
    <3>. QED
      BY <3>1, <3>2, RowsEmpty
  <2>5. CASE level # i /\ level # i - 1
    <3>1. half.curr[level] = before.curr[level] /\ half.snap[level] = before.snap[level]
          /\ half.next[level] = before.next[level]
      <4>1. (level >= i <=> level >= i + 1) /\ (level >= i - 1 <=> level >= (i + 1) - 1)
            /\ level # (i + 1) - 1
        BY <1>1, <2>0, <2>5
      <4>. QED
        BY <2>5, <4>1 DEF Halfway
    <3>2. after[level] = levels[level]
      BY <1>13, <1>14, <2>5
    <3>. QED
      BY <2>1, <3>1, <3>2
  <2>. QED
    BY <2>3, <2>4, <2>5
<1>12. after = Mirrored(half)
  <2> HIDE DEF after, half
  <2>. QED
    BY <1>10, <1>14 DEF Mirrored
<1>. QED
  BY <1>8, <1>12

(* The loop of the reference, from the last level to level one. *)
LEMMA WalkedRows ==
    ASSUME NEW value, IsList(value), NEW n \in Nat
    PROVE  Reference!Walk(n, Mirrored(value), Depth) = Mirrored(Halfway(value, n, 1))
<1> DEFINE levels == Mirrored(value)
           Turns(f) == f = [i \in 1..Depth |->
                              IF i = Depth THEN levels
                              ELSE IF n % Reference!IncomingInterval(i) # 0 THEN f[i + 1]
                                   ELSE Reference!SpillInto(n, f[i + 1], i, Depth)]
           walked == [i \in 1..Depth |-> Mirrored(Halfway(value, n, i))]
<1>1. Depth \in Nat \ {0} /\ 1 \in 1..Depth /\ Depth \in 1..Depth
  BY DepthAssumption
<1>2. walked[Depth] = levels
  BY <1>1, HalfwayStart
<1>3. ASSUME NEW i \in 1..(Depth - 1)
      PROVE  walked[i] = IF n % Reference!IncomingInterval(i) # 0 THEN walked[i + 1]
                         ELSE Reference!SpillInto(n, walked[i + 1], i, Depth)
  <2>1. i \in 1..Depth /\ i + 1 \in 1..Depth /\ i - 1 \in Levels /\ i - 1 # Last /\ i > 0
    BY <1>1 DEF Levels, Last
  <2>2. walked[i] = Mirrored(Halfway(value, n, i)) /\ walked[i + 1] = Mirrored(Halfway(value, n, i + 1))
    BY <2>1
  <2>3. n % Reference!IncomingInterval(i) # 0 <=> ~ Receives(n, i)
    <3>1. Reference!IncomingInterval(i) = Half(i - 1)
      BY <2>1, SizesAreHalves DEF Reference!IncomingInterval
    <3>. QED
      BY <2>1, <3>1 DEF Receives, ShouldSpill
  <2> HIDE DEF walked
  <2>4. CASE Receives(n, i)
    BY <2>2, <2>3, <2>4, HalfwaySpills
  <2>5. CASE ~ Receives(n, i)
    BY <2>2, <2>3, <2>5, HalfwaySkips
  <2>. QED
    BY <2>4, <2>5
<1>4. walked = [i \in 1..Depth |-> walked[i]]
  OBVIOUS
<1>5. walked[1] = Mirrored(Halfway(value, n, 1))
  BY <1>1
<1> HIDE DEF walked, levels
<1>6. Turns(walked)
  <2>1. \A i \in 1..Depth : i # Depth => i \in 1..(Depth - 1)
    BY <1>1
  <2>2. ASSUME NEW i \in 1..Depth
        PROVE  walked[i] = IF i = Depth THEN levels
                           ELSE IF n % Reference!IncomingInterval(i) # 0 THEN walked[i + 1]
                                ELSE Reference!SpillInto(n, walked[i + 1], i, Depth)
    BY <1>2, <1>3, <2>1
  <2>. QED
    BY <1>4, <2>2
<1>7. ASSUME NEW f, Turns(f) PROVE f[1] = walked[1]
  <2>1. f[Depth] = walked[Depth]
    BY <1>1, <1>2, <1>7
  <2>2. ASSUME NEW i \in 1..(Depth - 1), f[i + 1] = walked[i + 1] PROVE f[i] = walked[i]
    <3>1. i \in 1..Depth /\ i # Depth
      BY <1>1
    <3>. QED
      BY <1>3, <1>7, <2>2, <3>1
  <2> HIDE DEF Turns
  <2>. QED
    BY <1>1, <2>1, <2>2, SameToOne
<1>8. Reference!Walk(n, levels, Depth) = (CHOOSE f : Turns(f))[1]
  BY DEF Reference!Walk
<1>9. Turns(CHOOSE f : Turns(f))
  <2> HIDE DEF Turns
  <2>. QED
    BY <1>6
<1>. QED
  BY <1>5, <1>7, <1>8, <1>9 DEF levels

(* The logical map has what a reader finds. *)
LEMMA LogicalRows ==
    ASSUME NEW k \in Keys
    PROVE  /\ Reference!Logical(Rows(Contents(list)), k)
                = IF Get(list, k) = Absent THEN Tombstone ELSE Get(list, k)
           /\ Get(list, k) # Tombstone
<1>1. Contents(list)[k] = Get(list, k)
  BY DEF Contents
<1>2. Get(list, k) # Tombstone
  BY SentinelAssumption DEF Get, ValueOf
<1>. QED
  BY <1>1, <1>2 DEF Reference!Logical, Rows

LEMMA ChangingRows ==
    ASSUME NEW ops \in OperationLists
    PROVE  Reference!Changing(Rows(Contents(list)), ops) = Rows(Fresh(ops))
<1> DEFINE rows == Rows(Staged(ops))
           logical == Rows(Contents(list))
           changed == {k \in DOMAIN rows : Reference!Logical(logical, k) # rows[k]}
           fresh == {k \in Keys : Fresh(ops)[k] # Absent}
<1>1. Reference!Changing(logical, ops) = [k \in changed |-> rows[k]]
  BY EncodedRows DEF Reference!Changing
<1>2. ASSUME NEW k \in Keys
      PROVE  /\ Staged(ops)[k] \in Values \cup {Tombstone, Absent}
             /\ Reference!Logical(logical, k)
                  = IF Get(list, k) = Absent THEN Tombstone ELSE Get(list, k)
             /\ Get(list, k) # Tombstone
             /\ Fresh(ops)[k] = IF /\ Staged(ops)[k] # Absent
                                   /\ ValueOf(Staged(ops)[k]) # Get(list, k)
                                THEN Staged(ops)[k] ELSE Absent
  BY StagedIs, LogicalRows DEF Fresh
<1>3. DOMAIN rows = {k \in Keys : Staged(ops)[k] # Absent}
      /\ \A k \in DOMAIN rows : rows[k] = Staged(ops)[k]
  BY DEF Rows
<1> HIDE DEF rows, logical
<1>4. ASSUME NEW k \in Keys PROVE k \in changed <=> k \in fresh
  BY <1>2, <1>3, SentinelAssumption DEF ValueOf
<1>5. changed = fresh
  BY <1>3, <1>4
<1>6. ASSUME NEW k \in changed PROVE rows[k] = Fresh(ops)[k]
  BY <1>2, <1>3, <1>5
<1>7. [k \in changed |-> rows[k]] = Rows(Fresh(ops))
  BY <1>5, <1>6 DEF Rows
<1>. QED
  BY <1>1, <1>7 DEF logical

(* The reference beside a list. *)
ModelOf(value) ==
    [depth    |-> Depth,
     sequence |-> value.seq,
     levels   |-> Mirrored(value),
     logical  |-> Rows(Contents(value))]

(* The levels after the batch went into level zero. *)
LEMMA AdvancedLevels ==
    ASSUME IsList(list), NEW n \in Nat, NEW fresh \in Buckets
    PROVE  [Mirrored(Halfway(list, n, 1)) EXCEPT
              ![0].curr = Reference!MergeRows(@, Rows(fresh), Depth = 1)]
             = Mirrored(Advanced(list, n, fresh))
<1> DEFINE half == Halfway(list, n, 1)
           after == Advanced(list, n, fresh)
           walked == Mirrored(half)
           merged == Reference!MergeRows(Rows(half.curr[0]), Rows(fresh), Depth = 1)
           full == [walked EXCEPT ![0].curr = merged]
<1>1. ASSUME NEW level \in Levels
      PROVE  /\ half.curr[level] = Promoted(list, n, level)
             /\ half.snap[level] = after.snap[level]
             /\ half.next[level] = after.next[level]
  <2>1. level \in Nat /\ (level = 0 => ~ Receives(n, level))
    BY LevelFacts DEF Receives
  <2>2. level >= 1 - 1 /\ (level >= 1 <=> level # 0) /\ (level = 1 - 1 <=> level = 0)
    BY <2>1
  <2>3. half.curr[level] = Promoted(list, n, level)
    BY <2>1, <2>2 DEF Halfway, Promoted
  <2>4. half.snap[level] = after.snap[level]
    BY <2>2 DEF Halfway, Advanced
  <2>5. half.next[level] = after.next[level]
    BY <2>1, <2>2 DEF Halfway, Advanced, Incoming
  <2>. QED
    BY <2>3, <2>4, <2>5
<1>2. 0 \in Levels
  BY LevelFacts
<1>3. \A level \in Levels : after.curr[level] =
        IF level = 0 THEN Merge(Promoted(list, n, 0), fresh, Depth = 1)
        ELSE Promoted(list, n, level)
  BY DEF Advanced
<1>4. merged = Rows(after.curr[0])
  <2>1. Promoted(list, n, 0) \in Buckets /\ (Depth = 1) \in BOOLEAN
    BY <1>2, PromotedType
  <2>2. half.curr[0] = Promoted(list, n, 0) /\ after.curr[0] = Merge(Promoted(list, n, 0), fresh, Depth = 1)
    BY <1>1, <1>2, <1>3
  <2> HIDE DEF half, after
  <2>3. Reference!MergeRows(Rows(Promoted(list, n, 0)), Rows(fresh), Depth = 1)
          = Rows(Merge(Promoted(list, n, 0), fresh, Depth = 1))
    BY <2>1, MergedRows
  <2>. QED
    BY <2>2, <2>3
<1> HIDE DEF half, after, merged
<1>5. walked = [level \in Levels |->
                  [curr |-> Rows(half.curr[level]), snap |-> Rows(half.snap[level]),
                   next |-> PendingRows(half.next[level])]]
  BY DEF Mirrored
<1>6. [walked EXCEPT ![0].curr = Reference!MergeRows(@, Rows(fresh), Depth = 1)] = full
  <2>1. walked[0].curr = Rows(half.curr[0])
    BY <1>2, <1>5
  <2> HIDE DEF walked
  <2>. QED
    BY <2>1 DEF merged
<1>7. ASSUME NEW level \in Levels
      PROVE  full[level] = [curr |-> Rows(after.curr[level]), snap |-> Rows(after.snap[level]),
                            next |-> PendingRows(after.next[level])]
  <2>1. CASE level = 0
    <3>1. full[0] = [curr |-> merged, snap |-> Rows(half.snap[0]), next |-> PendingRows(half.next[0])]
      BY <1>2, <1>5
    <3>. QED
      BY <1>1, <1>2, <1>4, <2>1, <3>1
  <2>2. CASE level # 0
    <3>1. full[level] = walked[level]
      BY <1>2, <1>5, <2>2
    <3>. QED
      BY <1>1, <1>3, <1>5, <2>2, <3>1
  <2>. QED
    BY <2>1, <2>2
<1>8. full = [level \in Levels |-> full[level]]
  BY <1>5
<1>9. full = Mirrored(after)
  <2> HIDE DEF full
  <2>. QED
    BY <1>7, <1>8 DEF Mirrored
<1>. QED
  BY <1>6, <1>9 DEF half, after

LEMMA LogicalAdvances ==
    ASSUME IsList(list), Valid(list), list.seq # MaxSeq, NEW fresh \in Buckets, NEW after,
           after = Advanced(list, list.seq + 1, fresh)
    PROVE  Reference!MergeRows(Rows(Contents(list)), Rows(fresh), TRUE) = Rows(Contents(after))
<1>1. Reference!MergeRows(Rows(Contents(list)), Rows(fresh), TRUE)
        = Rows(Merge(Contents(list), fresh, TRUE))
  BY ContentsType, MergedRows
<1>2. ASSUME NEW k \in Keys
      PROVE  Merge(Contents(list), fresh, TRUE)[k] = Contents(after)[k]
  <2>1. Get(after, k) = IF fresh[k] = Absent THEN Get(list, k) ELSE ValueOf(fresh[k])
    BY AdvancedReads
  <2>2. ValueOf(Get(list, k)) = Get(list, k)
    BY LogicalRows DEF ValueOf
  <2>3. Contents(after)[k] = Get(after, k) /\ Contents(list)[k] = Get(list, k)
    BY DEF Contents
  <2>4. Merge(Contents(list), fresh, TRUE)[k]
          = ValueOf(IF fresh[k] # Absent THEN fresh[k] ELSE Contents(list)[k])
    BY DEF Merge
  <2>. QED
    BY <2>1, <2>2, <2>3, <2>4
<1>3. Merge(Contents(list), fresh, TRUE) = Contents(after)
  BY <1>2 DEF Merge, Contents
<1>. QED
  BY <1>1, <1>3

(* An advance of the reference, beside one of the list. *)
LEMMA ModelAdvances ==
    ASSUME IsList(list), Valid(list), list.seq # MaxSeq, NEW ops \in OperationLists,
           NEW after, after = Advanced(list, list.seq + 1, Fresh(ops))
    PROVE  Reference!AdvanceModel(ModelOf(list), ops) = ModelOf(after)
<1> DEFINE n == list.seq + 1
           fresh == Fresh(ops)
           m == ModelOf(list)
           walked == Mirrored(Halfway(list, n, 1))
<1>1. n \in Nat /\ fresh \in Buckets
  BY FreshType, MaxSeqAssumption DEF IsList
<1>2. /\ m.depth = Depth /\ m.sequence = list.seq
      /\ m.levels = Mirrored(list) /\ m.logical = Rows(Contents(list))
      /\ m = [depth |-> m.depth, sequence |-> m.sequence, levels |-> m.levels, logical |-> m.logical]
  BY DEF ModelOf
<1> HIDE DEF m, fresh, walked
<1>3. Reference!Changing(m.logical, ops) = Rows(fresh)
  BY <1>2, ChangingRows DEF fresh
<1>4. Reference!Walk(m.sequence + 1, m.levels, m.depth) = walked
  BY <1>1, <1>2, WalkedRows DEF walked
<1>5. [walked EXCEPT ![0].curr = Reference!MergeRows(@, Rows(fresh), m.depth = 1)] = Mirrored(after)
  BY <1>1, <1>2, AdvancedLevels DEF walked, fresh
<1>6. Reference!MergeRows(m.logical, Rows(fresh), TRUE) = Rows(Contents(after))
  BY <1>1, <1>2, LogicalAdvances DEF fresh
<1>7. Reference!AdvanceModel(m, ops)
        = [m EXCEPT !.levels = Mirrored(after), !.logical = Rows(Contents(after)), !.sequence = n]
  BY <1>2, <1>3, <1>4, <1>5, <1>6 DEF Reference!AdvanceModel
<1>8. after.seq = n
  BY DEF Advanced
<1>9. Reference!AdvanceModel(m, ops)
        = [depth |-> Depth, sequence |-> n, levels |-> Mirrored(after),
           logical |-> Rows(Contents(after))]
  BY <1>2, <1>7
<1>. QED
  BY <1>8, <1>9 DEF ModelOf, m

-----------------------------------------------------------------------------
(* The first record of a key, over the first levels. *)
SeenTo(value, last) ==
    [k \in Keys |->
       LET holders == {level \in Holding(value, k) : level < last}
       IN  IF holders = {} THEN Absent ELSE Found(value, Youngest(holders), k)]

LEMMA SeenNext ==
    ASSUME NEW value, IsList(value), NEW i \in 1..Depth
    PROVE  SeenTo(value, i) =
             Merge(Merge(value.snap[i - 1], value.curr[i - 1], FALSE), SeenTo(value, i - 1), FALSE)
<1> SUFFICES ASSUME NEW k \in Keys
             PROVE  SeenTo(value, i)[k] = IF SeenTo(value, i - 1)[k] # Absent
                                          THEN SeenTo(value, i - 1)[k]
                                          ELSE Found(value, i - 1, k)
  BY DEF SeenTo, Merge, Found
<1> DEFINE holders == {level \in Holding(value, k) : level < i}
           before == {level \in Holding(value, k) : level < i - 1}
<1>1. /\ i - 1 \in Levels /\ holders \subseteq Levels /\ before \subseteq Levels
      /\ \A level \in Levels : level \in Nat
  BY DepthAssumption, LevelFacts DEF Levels, Holding
<1>2. /\ SeenTo(value, i)[k] = IF holders = {} THEN Absent ELSE Found(value, Youngest(holders), k)
      /\ SeenTo(value, i - 1)[k] = IF before = {} THEN Absent ELSE Found(value, Youngest(before), k)
  BY DEF SeenTo
<1>3. /\ i - 1 \in holders <=> Found(value, i - 1, k) # Absent
      /\ \A level \in holders : level = i - 1 \/ level \in before
      /\ \A level \in before : level \in holders /\ level < i - 1
  BY <1>1 DEF Holding
<1>4. CASE before = {}
  <2>1. CASE Found(value, i - 1, k) = Absent
    BY <1>2, <1>3, <1>4, <2>1
  <2>2. CASE Found(value, i - 1, k) # Absent
    <3>1. i - 1 \in holders /\ \A other \in holders : i - 1 <= other
      BY <1>1, <1>3, <1>4, <2>2
    <3>2. Youngest(holders) = i - 1
      BY <1>1, <3>1, YoungestIsLeast
    <3>. QED
      BY <1>2, <1>4, <3>1, <3>2
  <2>. QED
    BY <2>1, <2>2
<1>5. CASE before # {}
  <2>1. before \subseteq Nat
    BY <1>1
  <2>2. PICK least \in before : \A other \in before : least <= other
    <3> HIDE DEF before
    <3>. QED
      BY <1>5, <2>1, LeastExists
  <2>3. least \in holders /\ \A other \in holders : least <= other
    BY <1>1, <1>3, <2>1, <2>2
  <2> HIDE DEF holders, before
  <2>4. Youngest(before) = least /\ Youngest(holders) = least
    BY <1>1, <2>2, <2>3, YoungestIsLeast
  <2>5. Found(value, least, k) # Absent
    BY <2>2 DEF before, Holding
  <2>. QED
    BY <1>2, <1>5, <2>3, <2>4, <2>5
<1>. QED
  BY <1>4, <1>5

LEMMA SeenType ==
    ASSUME NEW value, IsList(value), NEW i \in 0..Depth
    PROVE  SeenTo(value, i) \in Buckets
<1>1. ASSUME NEW k \in Keys PROVE SeenTo(value, i)[k] \in Records
  <2> DEFINE holders == {level \in Holding(value, k) : level < i}
  <2>1. CASE holders = {}
    BY <2>1 DEF SeenTo, Records
  <2>2. CASE holders # {}
    <3>1. holders \subseteq Levels /\ holders \subseteq Nat
      BY LevelFacts DEF Holding
    <3>2. PICK least \in holders : \A other \in holders : least <= other
      <4> HIDE DEF holders
      <4>. QED
        BY <2>2, <3>1, LeastExists
    <3>3. Youngest(holders) = least
      <4> HIDE DEF holders
      <4>. QED
        BY <3>1, <3>2, YoungestIsLeast
    <3>4. SeenTo(value, i)[k] = Found(value, least, k)
      BY <2>2, <3>3 DEF SeenTo
    <3>5. least \in Levels
      BY <3>1, <3>2
    <3>6. value.curr[least] \in Buckets /\ value.snap[least] \in Buckets
      BY <3>5 DEF IsList
    <3>. QED
      BY <3>4, <3>6 DEF Found, Buckets
  <2>. QED
    BY <2>1, <2>2
<1>. QED
  BY <1>1 DEF SeenTo, Buckets

LEMMA UpdatedRows ==
    ASSUME NEW older \in Buckets, NEW newer \in Buckets
    PROVE  Reference!Updated(Rows(older), Rows(newer)) = Rows(Merge(older, newer, FALSE))
<1>1. Reference!MergeRows(Rows(older), Rows(newer), FALSE)
        = Reference!Updated(Rows(older), Rows(newer))
  BY DEF Reference!MergeRows
<1>. QED
  BY <1>1, MergedRows

(* What a reader of the reference finds is what one of the list finds. *)
LEMMA VisibleRows ==
    ASSUME NEW value, IsList(value)
    PROVE  Reference!Visible(Mirrored(value), Depth) = Rows(Contents(value))
<1> DEFINE levels == Mirrored(value)
           Sees(f) == f = [i \in 0..Depth |->
                             IF i = 0 THEN Reference!EmptyRows
                             ELSE Reference!Updated(Reference!Updated(levels[i - 1].snap, levels[i - 1].curr), f[i - 1])]
           seen == [i \in 0..Depth |-> Rows(SeenTo(value, i))]
<1>1. Depth \in Nat /\ 0 \in 0..Depth /\ Depth \in 0..Depth
  BY DepthAssumption
<1>2. seen[0] = Reference!EmptyRows
  <2>1. ASSUME NEW k \in Keys PROVE {level \in Holding(value, k) : level < 0} = {}
    BY LevelFacts DEF Holding
  <2>2. SeenTo(value, 0) = Empty
    BY <2>1 DEF SeenTo, Empty
  <2>. QED
    BY <1>1, <2>2, RowsEmpty
<1>3. ASSUME NEW i \in 1..Depth
      PROVE  seen[i] = Reference!Updated(Reference!Updated(levels[i - 1].snap, levels[i - 1].curr), seen[i - 1])
  <2>1. i - 1 \in Levels /\ i \in 0..Depth /\ i - 1 \in 0..Depth
    BY <1>1 DEF Levels
  <2>2. seen[i] = Rows(SeenTo(value, i)) /\ seen[i - 1] = Rows(SeenTo(value, i - 1))
    BY <2>1
  <2>3. levels[i - 1].snap = Rows(value.snap[i - 1]) /\ levels[i - 1].curr = Rows(value.curr[i - 1])
    BY <2>1 DEF Mirrored
  <2>4. value.snap[i - 1] \in Buckets /\ value.curr[i - 1] \in Buckets
        /\ SeenTo(value, i - 1) \in Buckets
    BY <2>1, SeenType DEF IsList
  <2> HIDE DEF seen, levels
  <2>5. Reference!Updated(Rows(value.snap[i - 1]), Rows(value.curr[i - 1]))
          = Rows(Merge(value.snap[i - 1], value.curr[i - 1], FALSE))
    BY <2>4, UpdatedRows
  <2>6. Merge(value.snap[i - 1], value.curr[i - 1], FALSE) \in Buckets
    BY <2>4, MergeType
  <2>7. Reference!Updated(Rows(Merge(value.snap[i - 1], value.curr[i - 1], FALSE)),
                          Rows(SeenTo(value, i - 1)))
          = Rows(Merge(Merge(value.snap[i - 1], value.curr[i - 1], FALSE), SeenTo(value, i - 1), FALSE))
    BY <2>4, <2>6, UpdatedRows
  <2>. QED
    BY <2>2, <2>3, <2>5, <2>7, SeenNext
<1>4. seen = [i \in 0..Depth |-> seen[i]] /\ seen[Depth] = Rows(SeenTo(value, Depth))
  BY <1>1
<1> HIDE DEF seen, levels
<1>5. Sees(seen)
  <2>1. \A i \in 0..Depth : i # 0 => i \in 1..Depth
    OBVIOUS
  <2>2. ASSUME NEW i \in 0..Depth
        PROVE  seen[i] = IF i = 0 THEN Reference!EmptyRows
                         ELSE Reference!Updated(Reference!Updated(levels[i - 1].snap, levels[i - 1].curr), seen[i - 1])
    BY <1>2, <1>3, <2>1
  <2>. QED
    BY <1>4, <2>2
<1>6. ASSUME NEW f, Sees(f) PROVE f[Depth] = seen[Depth]
  <2>1. f[0] = seen[0]
    BY <1>1, <1>2, <1>6
  <2>2. ASSUME NEW i \in 1..Depth, f[i - 1] = seen[i - 1] PROVE f[i] = seen[i]
    <3>1. i \in 0..Depth /\ i # 0
      OBVIOUS
    <3>. QED
      BY <1>3, <1>6, <2>2, <3>1
  <2> HIDE DEF Sees
  <2>. QED
    BY <1>1, <2>1, <2>2, SameFromZero
<1>7. Reference!Visible(levels, Depth)
        = Reference!Without((CHOOSE f : Sees(f))[Depth], Reference!IsNone)
  BY DEF Reference!Visible
<1>8. Sees(CHOOSE f : Sees(f))
  <2> HIDE DEF Sees
  <2>. QED
    BY <1>5
<1>9. (CHOOSE f : Sees(f))[Depth] = Rows(SeenTo(value, Depth))
  BY <1>4, <1>6, <1>8
<1>10. ASSUME NEW bucket \in Buckets
       PROVE  Reference!Without(Rows(bucket), Reference!IsNone) = Rows([k \in Keys |-> ValueOf(bucket[k])])
  BY SentinelAssumption DEF Reference!Without, Reference!IsNone, Rows, ValueOf
<1>11. [k \in Keys |-> ValueOf(SeenTo(value, Depth)[k])] = Contents(value)
  <2>1. ASSUME NEW k \in Keys PROVE ValueOf(SeenTo(value, Depth)[k]) = Get(value, k)
    <3>1. {level \in Holding(value, k) : level < Depth} = Holding(value, k)
      BY DepthAssumption DEF Holding, Levels
    <3>. QED
      BY <3>1, SentinelAssumption DEF SeenTo, Get, ValueOf
  <2>. QED
    BY <2>1 DEF Contents
<1>. QED
  BY <1>1, <1>7, <1>9, <1>10, <1>11, SeenType DEF levels

-----------------------------------------------------------------------------
(* The engine and the reference. *)

Beside == model = ModelOf(list) /\ asserted = TRUE

LEMMA BesideAtFirst == DifferentialInit => Beside
<1> SUFFICES ASSUME DifferentialInit PROVE Beside
  OBVIOUS
<1>1. list = NewList /\ model = Reference!NewModel(Depth) /\ asserted = TRUE
  BY DEF DifferentialInit, FrontierInit, Init, Reference!Start
<1>2. Mirrored(NewList) = Reference!NewModel(Depth).levels
  <2>1. ASSUME NEW level \in Levels
        PROVE  Mirrored(NewList)[level] =
                 [curr |-> Reference!EmptyRows, snap |-> Reference!EmptyRows, next |-> Tombstone]
    BY RowsEmpty DEF Mirrored, NewList, PendingRows
  <2>. QED
    BY <2>1 DEF Mirrored, Reference!NewModel, Levels
<1>3. Rows(Contents(NewList)) = Reference!EmptyRows
  <2>1. Contents(NewList) = Empty
    BY NewListEmpty DEF Contents, Empty
  <2>. QED
    BY <2>1, RowsEmpty
<1>4. Reference!NewModel(Depth) = ModelOf(NewList)
  BY <1>2, <1>3 DEF Reference!NewModel, ModelOf, NewList
<1>. QED
  BY <1>1, <1>4 DEF Beside

LEMMA BesideKept ==
    ASSUME Inv, PlanExact, Waiting, Beside, [DifferentialNext]_differentialVars
    PROVE  Beside'
<1>1. CASE FinishBoth
  <2>1. Advance(list.seq + 1, planned)
    BY <1>1, FinishAdvances DEF FinishBoth
  <2>2. operations \in OperationLists /\ planned = Fresh(operations) /\ list.seq # MaxSeq
    BY <1>1 DEF FinishBoth, Finish, Waiting, PlanExact
  <2>3. IsList(list) /\ Valid(list) /\ list' = Advanced(list, list.seq + 1, Fresh(operations))
    BY <2>1, <2>2, ListsAreLists DEF Inv, TypeOK, Advance
  <2>4. Reference!AdvanceModel(ModelOf(list), operations) = ModelOf(list')
    BY <2>2, <2>3, ModelAdvances
  <2>5. model' = ModelOf(list')
        /\ asserted' = (Reference!Visible(model'.levels, model'.depth) = model'.logical)
    BY <1>1, <2>4 DEF FinishBoth, Reference!ReferenceAdvance, Beside
  <2>6. IsList(list')
    BY <2>2, <2>3, FreshType, AdvancedType
  <2>7. Reference!Visible(Mirrored(list'), Depth) = Rows(Contents(list'))
    BY <2>6, VisibleRows
  <2>8. model'.levels = Mirrored(list') /\ model'.depth = Depth /\ model'.logical = Rows(Contents(list'))
    BY <2>5 DEF ModelOf
  <2>9. ModelOf(list)' = ModelOf(list')
    BY DEF ModelOf, Mirrored, Contents
  <2>. QED
    BY <2>5, <2>7, <2>8, <2>9 DEF Beside
<1>2. ASSUME UNCHANGED <<list, model, asserted>> PROVE Beside'
  BY <1>2 DEF Beside
<1>3. CASE ~ FinishBoth
  <2>1. UNCHANGED <<list, model, asserted>>
    BY <1>3 DEF DifferentialNext, PlanBatch, Plan, CompleteJob, RunJob, RunJobInto, AbandonBatch,
           Abandon, differentialVars, frontierVars, vars
  <2>. QED
    BY <1>2, <2>1
<1>. QED
  BY <1>1, <1>3

(* One record after another, in the order that neither side has fixed.     *)
LEMMA FramesAgree ==
    ASSUME NEW bucket
    PROVE  Identity(bucket) = Reference!Frame(Rows(bucket))
<1>1. DOMAIN Rows(bucket) = {k \in Keys : bucket[k] # Absent}
      /\ \A k \in DOMAIN Rows(bucket) : Rows(bucket)[k] = bucket[k]
  BY DEF Rows
<1>. QED
  BY <1>1 DEF Identity, Reference!Frame

LEMMA HashesAgree ==
    ASSUME IsList(list)
    PROVE  /\ Commitment = Reference!DatabaseHash(ModelOf(list))
           /\ Commitment = ChainDigest(list.seq, ChainLevels)
<1> DEFINE m == ModelOf(list)
           root == <<"list", Depth>> \o
                     [i \in 1..Depth |-> <<"level", i - 1, Identity(list.curr[i - 1]),
                                           Identity(list.snap[i - 1])>>]
           pending == [i \in 1..Depth |-> PendingHash(i - 1)]
           continuation == <<"continuation", Depth>> \o Reference!FlattenSeq(pending)
<1>0. ASSUME NEW i \in 1..Depth
      PROVE  i - 1 \in Levels
  BY DepthAssumption DEF Levels
<1>1. /\ m.depth = Depth /\ m.sequence = list.seq
      /\ \A level \in Levels :
           /\ m.levels[level].curr = Rows(list.curr[level])
           /\ m.levels[level].snap = Rows(list.snap[level])
           /\ m.levels[level].next = PendingRows(list.next[level])
  BY DEF ModelOf, Mirrored
<1> HIDE DEF m
<1>2. Commitment = <<"database", list.seq, root, continuation>>
  BY DEF Commitment, Root, ContinuationHash
<1>3. ASSUME NEW i \in 1..Depth
      PROVE  Reference!LevelHash(i - 1, m.levels[i - 1])
               = <<"level", i - 1, Identity(list.curr[i - 1]), Identity(list.snap[i - 1])>>
  <2>1. m.levels[i - 1].curr = Rows(list.curr[i - 1]) /\ m.levels[i - 1].snap = Rows(list.snap[i - 1])
    BY <1>0, <1>1
  <2>. QED
    BY <2>1, FramesAgree DEF Reference!LevelHash
<1>4. ASSUME NEW i \in 1..Depth
      PROVE  Reference!Pending(i - 1, m.levels[i - 1]) = PendingHash(i - 1)
  <2>1. m.levels[i - 1].next = PendingRows(list.next[i - 1])
    BY <1>0, <1>1
  <2>2. CASE list.next[i - 1] = NoMerge
    BY <2>1, <2>2 DEF Reference!Pending, PendingHash, PendingRows
  <2>3. CASE list.next[i - 1] # NoMerge
    <3>1. list.next[i - 1] \in Buckets
      BY <1>0, <2>3 DEF IsList
    <3>2. m.levels[i - 1].next = Rows(list.next[i - 1]) /\ Rows(list.next[i - 1]) # Tombstone
      BY <2>1, <2>3, <3>1, RowsNotNone DEF PendingRows
    <3>. QED
      BY <2>3, <3>2, FramesAgree DEF Reference!Pending, PendingHash
  <2>. QED
    BY <2>2, <2>3
<1>5. ASSUME NEW i \in 1..Depth
      PROVE  (IF ChainLevels[i].pending THEN <<i - 1, TRUE, ChainLevels[i].next>>
              ELSE <<i - 1, FALSE>>) = PendingHash(i - 1)
  BY DEF ChainLevels, PendingHash
<1>6. ASSUME NEW i \in 1..Depth
      PROVE  <<"level", i - 1, ChainLevels[i].curr, ChainLevels[i].snap>>
               = <<"level", i - 1, Identity(list.curr[i - 1]), Identity(list.snap[i - 1])>>
  BY DEF ChainLevels
<1>7. Reference!DatabaseHash(m) = <<"database", list.seq, root, continuation>>
  <2>1. [i \in 1..Depth |-> Reference!LevelHash(i - 1, m.levels[i - 1])]
          = [i \in 1..Depth |-> <<"level", i - 1, Identity(list.curr[i - 1]),
                                  Identity(list.snap[i - 1])>>]
    BY <1>3
  <2>2. [i \in 1..Depth |-> Reference!Pending(i - 1, m.levels[i - 1])] = pending
    BY <1>4
  <2>3. Reference!DatabaseHash(m)
          = <<"database", m.sequence,
              <<"list", m.depth>> \o
                [i \in 1..m.depth |-> Reference!LevelHash(i - 1, m.levels[i - 1])],
              <<"continuation", m.depth>> \o Reference!FlattenSeq(
                [i \in 1..m.depth |-> Reference!Pending(i - 1, m.levels[i - 1])])>>
    BY DEF Reference!DatabaseHash, Reference!Hashes
  <2> HIDE DEF pending
  <2>. QED
    BY <1>1, <2>1, <2>2, <2>3
<1>8. ChainDigest(list.seq, ChainLevels) = <<"database", list.seq, root, continuation>>
  <2>1. [i \in 1..Depth |-> <<"level", i - 1, ChainLevels[i].curr, ChainLevels[i].snap>>]
          = [i \in 1..Depth |-> <<"level", i - 1, Identity(list.curr[i - 1]),
                                  Identity(list.snap[i - 1])>>]
    BY <1>6
  <2>2. [i \in 1..Depth |-> IF ChainLevels[i].pending THEN <<i - 1, TRUE, ChainLevels[i].next>>
                            ELSE <<i - 1, FALSE>>] = pending
    BY <1>5
  <2>3. ChainDigest(list.seq, ChainLevels)
          = <<"database", list.seq,
              <<"list", Depth>> \o
                [i \in 1..Depth |-> <<"level", i - 1, ChainLevels[i].curr, ChainLevels[i].snap>>],
              <<"continuation", Depth>> \o Reference!FlattenSeq(
                [i \in 1..Depth |-> IF ChainLevels[i].pending THEN <<i - 1, TRUE, ChainLevels[i].next>>
                                    ELSE <<i - 1, FALSE>>])>>
    BY DEF ChainDigest
  <2> HIDE DEF pending
  <2>. QED
    BY <2>1, <2>2, <2>3
<1>. QED
  BY <1>2, <1>7, <1>8 DEF m

(***************************************************************************)
(* Side by side, the engine and the reference always correspond: the       *)
(* reference's levels are those of the list, its logical map is what the   *)
(* list's readers find, and its own assertion has held at every advance.   *)
(***************************************************************************)
THEOREM ReferenceStaysBeside == DifferentialSpec => []Beside
<1>1. DifferentialInit => Beside /\ Waiting
  BY BesideAtFirst DEF DifferentialInit, FrontierInit, Idle, Waiting
<1>2. Inv /\ PlanExact /\ Waiting /\ Beside /\ [DifferentialNext]_differentialVars
        => Waiting' /\ Beside'
  BY WaitingKept, BesideKept
<1>3. DifferentialSpec => []Inv
  <2>1. Spec => []Inv
    BY InitInv, StepInv, PTL DEF Spec
  <2>. QED
    BY <2>1, CallsImplementList DEF ImplementsList
<1>4. DifferentialSpec => []PlanExact
  BY CallsDriveFrontier, PlansStayExact
<1>. QED
  BY <1>1, <1>2, <1>3, <1>4, PTL DEF DifferentialSpec

(***************************************************************************)
(* So, for every depth, every set of identities, every batch and every     *)
(* order of the merge jobs, the engine, the reference and the recomputed   *)
(* chain commit to the same records at the same places                     *)
(* (tools/differential.zig 55, check-core-oracle.py 121).                  *)
(***************************************************************************)
THEOREM CommitmentsStayEqual == DifferentialSpec => []CommitmentsAgree
<1>1. DifferentialSpec => []Inv
  <2>1. Spec => []Inv
    BY InitInv, StepInv, PTL DEF Spec
  <2>. QED
    BY <2>1, CallsImplementList DEF ImplementsList
<1>2. Inv /\ Beside => CommitmentsAgree
  BY ListsAreLists, HashesAgree DEF Inv, TypeOK, Beside, CommitmentsAgree
<1>. QED
  BY <1>1, <1>2, ReferenceStaysBeside, PTL

(***************************************************************************)
(* Nor does the assertion that ends every advance of the reference fail    *)
(* (reference.py 163), for any batches and not only those of its corpus.   *)
(***************************************************************************)
THEOREM ReferenceAssertionHolds == DifferentialSpec => []Reference!AssertionHolds
<1>1. Beside => Reference!AssertionHolds
  BY DEF Beside, Reference!AssertionHolds
<1>. QED
  BY <1>1, ReferenceStaysBeside, PTL

(***************************************************************************)
(* The three statements of the schedule, of the engine, the reference and  *)
(* stellar-core, agree at every sequence number (list.zig 241-256,         *)
(* reference.py 144-152, check-core-oracle.py 83-98).                      *)
(***************************************************************************)
THEOREM SchedulesStayEqual == DifferentialSpec => []GeometryAgrees
<1>1. DifferentialSpec => []Inv
  <2>1. Spec => []Inv
    BY InitInv, StepInv, PTL DEF Spec
  <2>. QED
    BY <2>1, CallsImplementList DEF ImplementsList
<1>2. Inv => GeometryAgrees
  <2>1. Inv => list.seq \in Nat
    BY MaxSeqAssumption DEF Inv, TypeOK, Lists
  <2>. QED
    BY <2>1, SchedulesAgree DEF GeometryAgrees
<1>. QED
  BY <1>1, <1>2, PTL

-----------------------------------------------------------------------------
(* What every bucket holds. *)

(* Squashed, of any history. *)
Writes(batches, first, last, k) ==
    {n \in first..last \cap DOMAIN batches : batches[n][k] # Absent}

NewestRecord(batches, writes, k) ==
    LET newest == CHOOSE n \in writes : \A other \in writes : n >= other
    IN  IF writes = {} THEN Absent ELSE batches[newest][k]

SquashedOf(batches, first, last, drop) ==
    [k \in Keys |-> LET record == NewestRecord(batches, Writes(batches, first, last, k), k)
                    IN  IF drop THEN ValueOf(record) ELSE record]

LEMMA SquashedIsOf ==
    ASSUME NEW first, NEW last, NEW drop
    PROVE  Squashed(first, last, drop) = SquashedOf(log, first, last, drop)
  BY DEF Squashed, SquashedOf, NewestRecord, Writes

(* The newest write is the last one. *)
LEMMA NewestIs ==
    ASSUME NEW batches, NEW writes, writes \subseteq Int, NEW k,
           NEW n \in writes, \A other \in writes : n >= other
    PROVE  NewestRecord(batches, writes, k) = batches[n][k]
<1> DEFINE newest == CHOOSE m \in writes : \A other \in writes : m >= other
<1>1. newest \in writes /\ \A other \in writes : newest >= other
  OBVIOUS
<1>2. newest = n
  <2>1. newest >= n /\ n >= newest /\ newest \in Int /\ n \in Int
    BY <1>1
  <2>2. QED
    BY <2>1
<1>3. QED
  BY <1>2 DEF NewestRecord

(* A batch of the interval, and any interval of writes has a newest. *)
LEMMA WritesFacts ==
    ASSUME NEW batches \in Seq(Buckets), NEW first \in Int, NEW last \in Int, NEW k \in Keys
    PROVE  /\ Writes(batches, first, last, k)
                = {n \in 1..Len(batches) : first <= n /\ n <= last /\ batches[n][k] # Absent}
           /\ Writes(batches, first, last, k) # {} =>
                \E n \in Writes(batches, first, last, k) :
                  \A other \in Writes(batches, first, last, k) : n >= other
<1>1. Writes(batches, first, last, k)
        = {n \in 1..Len(batches) : first <= n /\ n <= last /\ batches[n][k] # Absent}
  BY DEF Writes
<1>2. Len(batches) \in Nat /\ Writes(batches, first, last, k) \in SUBSET (1..Len(batches))
  BY <1>1
<1>3. ASSUME Writes(batches, first, last, k) # {}
      PROVE  \E n \in Writes(batches, first, last, k) :
               \A other \in Writes(batches, first, last, k) : n >= other
  <2>1. PICK n \in Writes(batches, first, last, k) :
          \A other \in Writes(batches, first, last, k) : other <= n
    BY <1>2, <1>3, LastExists
  <2>2. QED
    BY <1>2, <2>1
<1>4. QED
  BY <1>1, <1>3

(* An interval without batches holds nothing. *)
LEMMA SquashedNothing ==
    ASSUME NEW batches \in Seq(Buckets), NEW first \in Int, NEW last \in Int, NEW drop \in BOOLEAN,
           last < first \/ last < 1
    PROVE  SquashedOf(batches, first, last, drop) = Empty
<1>1. ASSUME NEW k \in Keys
      PROVE  Writes(batches, first, last, k) = {}
  <2>1. \A n \in 1..Len(batches) : ~ (first <= n /\ n <= last)
    OBVIOUS
  <2>2. QED
    BY <2>1, WritesFacts
<1>2. QED
  BY <1>1, SentinelAssumption DEF SquashedOf, NewestRecord, ValueOf, Empty

(* A new batch is in no interval that ends before it. *)
LEMMA SquashedGrows ==
    ASSUME NEW batches \in Seq(Buckets), NEW batch \in Buckets,
           NEW first \in Int, NEW last \in Int, last <= Len(batches), NEW drop \in BOOLEAN
    PROVE  SquashedOf(Append(batches, batch), first, last, drop)
             = SquashedOf(batches, first, last, drop)
<1> DEFINE longer == Append(batches, batch)
<1>1. /\ longer \in Seq(Buckets) /\ Len(longer) = Len(batches) + 1 /\ Len(batches) \in Nat
      /\ \A n \in 1..Len(batches) : longer[n] = batches[n]
  OBVIOUS
<1> HIDE DEF longer
<1>2. ASSUME NEW k \in Keys
      PROVE  NewestRecord(longer, Writes(longer, first, last, k), k)
               = NewestRecord(batches, Writes(batches, first, last, k), k)
  <2>1. Writes(longer, first, last, k) = Writes(batches, first, last, k)
    <3>1. \A n : n \in 1..Len(longer) /\ n <= last <=> n \in 1..Len(batches) /\ n <= last
      BY <1>1
    <3>2. Writes(longer, first, last, k)
            = {n \in 1..Len(longer) : first <= n /\ n <= last /\ longer[n][k] # Absent}
      BY <1>1, WritesFacts
    <3>3. Writes(batches, first, last, k)
            = {n \in 1..Len(batches) : first <= n /\ n <= last /\ batches[n][k] # Absent}
      BY WritesFacts
    <3>4. ASSUME NEW n
          PROVE  n \in Writes(longer, first, last, k) <=> n \in Writes(batches, first, last, k)
      BY <1>1, <3>1, <3>2, <3>3
    <3>5. QED
      BY <3>4
  <2>2. \A n \in Writes(batches, first, last, k) : longer[n] = batches[n] /\ n \in Int
    BY <1>1, WritesFacts
  <2>3. CASE Writes(batches, first, last, k) = {}
    BY <2>1, <2>3 DEF NewestRecord
  <2>4. CASE Writes(batches, first, last, k) # {}
    <3>1. PICK n \in Writes(batches, first, last, k) :
            \A other \in Writes(batches, first, last, k) : n >= other
      BY <2>4, WritesFacts
    <3> DEFINE writes == Writes(batches, first, last, k)
    <3>2. writes \subseteq Int /\ n \in writes /\ \A other \in writes : n >= other
      BY <2>2, <3>1
    <3> HIDE DEF writes
    <3>3. /\ NewestRecord(longer, writes, k) = longer[n][k]
          /\ NewestRecord(batches, writes, k) = batches[n][k]
      BY <3>2, NewestIs
    <3>4. longer[n] = batches[n]
      BY <2>2, <3>2 DEF writes
    <3>5. QED
      BY <2>1, <3>3, <3>4 DEF writes
  <2>5. QED
    BY <2>3, <2>4
<1>3. QED
  BY <1>2 DEF SquashedOf, longer

(* The batch itself. *)
LEMMA SquashedOne ==
    ASSUME NEW batches \in Seq(Buckets), NEW batch \in Buckets
    PROVE  SquashedOf(Append(batches, batch), Len(batches) + 1, Len(batches) + 1, FALSE) = batch
<1> DEFINE longer == Append(batches, batch)
           m == Len(batches) + 1
<1>1. longer \in Seq(Buckets) /\ Len(longer) = m /\ m \in Int /\ m >= 1 /\ longer[m] = batch
  OBVIOUS
<1> HIDE DEF longer, m
<1>2. ASSUME NEW k \in Keys
      PROVE  NewestRecord(longer, Writes(longer, m, m, k), k) = batch[k]
  <2>1. Writes(longer, m, m, k) = IF batch[k] = Absent THEN {} ELSE {m}
    <3>1. \A n : n \in 1..Len(longer) /\ m <= n /\ n <= m <=> n = m
      BY <1>1
    <3>2. Writes(longer, m, m, k)
            = {n \in 1..Len(longer) : m <= n /\ n <= m /\ longer[n][k] # Absent}
      BY <1>1, WritesFacts
    <3>3. QED
      BY <1>1, <3>1, <3>2
  <2>2. CASE batch[k] = Absent
    BY <2>1, <2>2 DEF NewestRecord
  <2>3. CASE batch[k] # Absent
    <3>1. m \in Writes(longer, m, m, k) /\ Writes(longer, m, m, k) \subseteq Int
          /\ \A other \in Writes(longer, m, m, k) : m >= other
      BY <1>1, <2>1, <2>3
    <3>2. QED
      BY <1>1, <3>1, NewestIs
  <2>4. QED
    BY <2>2, <2>3
<1>3. batch = [k \in Keys |-> batch[k]]
  BY DEF Buckets
<1>4. SquashedOf(longer, m, m, FALSE) = batch
  BY <1>2, <1>3 DEF SquashedOf
<1>5. QED
  BY <1>4 DEF longer, m

(* Merging two consecutive intervals gives their union. *)
LEMMA SquashedMerge ==
    ASSUME NEW batches \in Seq(Buckets),
           NEW first \in Int, NEW middle \in Int, NEW last \in Int,
           first <= middle \/ first <= 1, middle <= last + 1,
           NEW drop \in BOOLEAN
    PROVE  Merge(SquashedOf(batches, first, middle - 1, drop),
                 SquashedOf(batches, middle, last, FALSE), drop)
             = SquashedOf(batches, first, last, drop)
<1> DEFINE older == SquashedOf(batches, first, middle - 1, drop)
           newer == SquashedOf(batches, middle, last, FALSE)
<1>1. ASSUME NEW k \in Keys
      PROVE  Merge(older, newer, drop)[k] = SquashedOf(batches, first, last, drop)[k]
  <2> DEFINE early == Writes(batches, first, middle - 1, k)
             late == Writes(batches, middle, last, k)
             all == Writes(batches, first, last, k)
  <2>1. all = early \cup late /\ all \subseteq Int
        /\ \A n \in early, m \in late : m >= n
    <3>1. /\ early = {n \in 1..Len(batches) :
                        first <= n /\ n <= middle - 1 /\ batches[n][k] # Absent}
          /\ late = {n \in 1..Len(batches) :
                        middle <= n /\ n <= last /\ batches[n][k] # Absent}
          /\ all = {n \in 1..Len(batches) :
                        first <= n /\ n <= last /\ batches[n][k] # Absent}
      BY WritesFacts
    <3>2. \A n \in 1..Len(batches) :
            first <= n /\ n <= last
              <=> (first <= n /\ n <= middle - 1) \/ (middle <= n /\ n <= last)
      OBVIOUS
    <3> HIDE DEF early, late, all
    <3>3. QED
      BY <3>1, <3>2
  <2>2. /\ older[k] = IF drop THEN ValueOf(NewestRecord(batches, early, k))
                      ELSE NewestRecord(batches, early, k)
        /\ newer[k] = NewestRecord(batches, late, k)
        /\ SquashedOf(batches, first, last, drop)[k]
              = IF drop THEN ValueOf(NewestRecord(batches, all, k))
                ELSE NewestRecord(batches, all, k)
    BY DEF SquashedOf
  <2>3. Merge(older, newer, drop)[k]
          = LET record == IF newer[k] # Absent THEN newer[k] ELSE older[k]
            IN  IF drop THEN ValueOf(record) ELSE record
    BY DEF Merge
  <2>4. CASE late = {}
    <3>1. newer[k] = Absent
      BY <2>2, <2>4 DEF NewestRecord
    <3>2. all = early
      BY <2>1, <2>4
    <3> HIDE DEF older, newer, early, late, all
    <3>3. QED
      BY <2>2, <2>3, <3>1, <3>2, SentinelAssumption DEF ValueOf
  <2>5. CASE late # {}
    <3>1. PICK n \in late : \A other \in late : n >= other
      BY <2>5, WritesFacts
    <3>2. late \subseteq Int /\ n \in all /\ \A other \in all : n >= other
      BY <2>1, <3>1
    <3>3. /\ NewestRecord(batches, late, k) = batches[n][k]
          /\ NewestRecord(batches, all, k) = batches[n][k]
      <4>1. all \subseteq Int
        BY <2>1
      <4> HIDE DEF late, all
      <4>2. NewestRecord(batches, late, k) = batches[n][k]
        BY <3>1, <3>2, NewestIs
      <4>3. NewestRecord(batches, all, k) = batches[n][k]
        BY <3>2, <4>1, NewestIs
      <4>4. QED
        BY <4>2, <4>3
    <3>4. batches[n][k] # Absent
      BY <3>1, WritesFacts
    <3> HIDE DEF older, newer, early, late, all
    <3>5. QED
      BY <2>2, <2>3, <3>3, <3>4
  <2>6. QED
    BY <2>4, <2>5
<1>2. QED
  BY <1>1 DEF Merge, SquashedOf

(* The schedule of the spills. *)
SpillBefore(n, level) == n - (n % Half(level))

LEMMA RemainderStep ==
    ASSUME NEW n \in Nat, NEW h \in Nat, h > 0
    PROVE  /\ n % h \in Nat /\ n % h <= n
           /\ n < h => n % h = n
           /\ (n + 1) % h = 0 => n % h = h - 1
           /\ (n + 1) % h # 0 => (n + 1) % h = (n % h) + 1
<1>1. PICK q \in Nat, r \in Nat : r = n % h /\ r < h /\ n = h * q + r
  BY QuotientRemainder
<1>2. h * q \in Nat /\ h * (q + 1) = h * q + h
  <2>1. h * q >= 0 /\ h * (q + 1) = h * q + h
    BY Z3
  <2>2. QED
    BY <2>1
<1>3. n < h => n % h = n
  BY SMTT(20)
<1>4. CASE r + 1 < h
  <2>1. n + 1 = h * q + (r + 1)
    BY <1>1, <1>2
  <2>2. r + 1 = (n + 1) % h
    BY <1>4, <2>1, QuotientUnique
  <2>3. QED
    BY <1>1, <1>2, <1>3, <2>2
<1>5. CASE r + 1 = h
  <2>1. n + 1 = h * (q + 1) /\ q + 1 \in Nat
    BY <1>1, <1>2, <1>5
  <2>2. (n + 1) % h = 0
    <3> DEFINE after == n + 1
               next == q + 1
    <3>1. after \in Nat /\ next \in Nat /\ after = h * next
      BY <2>1
    <3> HIDE DEF after, next
    <3>2. after % h = 0
      BY <3>1, MultipleQuotient
    <3>3. QED
      BY <3>2 DEF after
  <2>3. QED
    BY <1>1, <1>2, <1>3, <1>5, <2>2
<1>6. QED
  BY <1>1, <1>4, <1>5

LEMMA SpillBeforeStep ==
    ASSUME NEW n \in Nat, NEW level \in Levels
    PROVE  /\ SpillBefore(n, level) \in Nat /\ SpillBefore(n, level) <= n
           /\ n < Half(level) => SpillBefore(n, level) = 0
           /\ (n + 1) % Half(level) = 0 =>
                /\ SpillBefore(n + 1, level) = n + 1
                /\ SpillBefore(n, level) = n + 1 - Half(level)
           /\ (n + 1) % Half(level) # 0 => SpillBefore(n + 1, level) = SpillBefore(n, level)
<1> DEFINE h == Half(level)
<1>1. h \in Nat /\ h > 0
  BY HalfAssumption
<1>2. SpillBefore(n, level) = n - (n % h) /\ SpillBefore(n + 1, level) = n + 1 - ((n + 1) % h)
  <2>1. SpillBefore(n, level) = n - (n % h)
    BY <1>1 DEF SpillBefore
  <2>2. SpillBefore(n + 1, level) = n + 1 - ((n + 1) % h)
    BY <1>1 DEF SpillBefore
  <2>3. QED
    BY <2>1, <2>2
<1> HIDE DEF h
<1>3. /\ n % h \in Nat /\ n % h <= n
      /\ n < h => n % h = n
      /\ (n + 1) % h = 0 => n % h = h - 1
      /\ (n + 1) % h # 0 => (n + 1) % h = (n % h) + 1
  BY <1>1, RemainderStep
<1>4. CASE (n + 1) % h = 0
  <2> DEFINE r == n % h
  <2>1. r \in Nat /\ r <= n /\ (n < h => r = n) /\ r = h - 1
    BY <1>3, <1>4
  <2>2. SpillBefore(n, level) = n - r /\ SpillBefore(n + 1, level) = n + 1
    BY <1>2, <1>4
  <2> HIDE DEF r
  <2>3. /\ SpillBefore(n, level) \in Nat /\ SpillBefore(n, level) <= n
        /\ n < h => SpillBefore(n, level) = 0
        /\ SpillBefore(n, level) = n + 1 - h
    BY <1>1, <2>1, <2>2
  <2>4. QED
    BY <1>4, <2>2, <2>3 DEF h
<1>5. CASE (n + 1) % h # 0
  <2> DEFINE r == n % h
  <2>1. r \in Nat /\ r <= n /\ (n < h => r = n) /\ (n + 1) % h = r + 1
    BY <1>3, <1>5
  <2>2. SpillBefore(n, level) = n - r /\ SpillBefore(n + 1, level) = n + 1 - (r + 1)
    BY <1>2, <2>1
  <2> HIDE DEF r
  <2>3. /\ SpillBefore(n, level) \in Nat /\ SpillBefore(n, level) <= n
        /\ n < h => SpillBefore(n, level) = 0
        /\ SpillBefore(n + 1, level) = SpillBefore(n, level)
    BY <2>1, <2>2
  <2>4. QED
    BY <1>5, <2>3 DEF h
<1>6. QED
  BY <1>4, <1>5

(* A batch reaches a level two spills of the level above after that one.   *)
LEMMA LagFacts ==
    /\ Lag(0) = 0
    /\ \A level \in Levels : Lag(level) \in Nat
    /\ \A level \in Levels : level > 0 => Lag(level) = Lag(level - 1) + 2 * Half(level - 1)
<1> DEFINE bad == {level \in Levels : Half(level) % 3 # 2}
<1>1. bad = {}
  <2> SUFFICES ASSUME bad # {}
               PROVE  FALSE
    OBVIOUS
  <2>1. bad \subseteq Nat
    BY LevelFacts
  <2>2. PICK least \in bad : \A level \in bad : least <= level
    BY <2>1, LeastExists
  <2>3. least # 0
    BY <2>2, HalfAssumption
  <2>4. least \in Nat /\ least > 0 /\ least - 1 \in Levels
    BY <2>2, <2>3, LevelFacts
  <2>5. least - 1 \notin bad
    BY <2>2, <2>4
  <2>6. Half(least - 1) % 3 = 2 /\ Half(least) = 4 * Half(least - 1) /\ Half(least - 1) \in Nat
    BY <2>2, <2>4, <2>5, HalfAssumption
  <2>7. Half(least) % 3 = 2
    BY <2>6
  <2>8. QED
    BY <2>2, <2>7
<1>2. ASSUME NEW level \in Levels
      PROVE  /\ Half(level) \in Nat /\ Half(level) % 3 = 2
             /\ Lag(level) \in Nat /\ 3 * Lag(level) = 2 * Half(level) - 4
  <2>1. Half(level) \in Nat /\ Half(level) % 3 = 2
    BY <1>1, HalfAssumption
  <2>2. QED
    BY <2>1 DEF Lag
<1>3. Lag(0) = 0
  BY HalfAssumption DEF Lag
<1>4. ASSUME NEW level \in Levels, level > 0
      PROVE  Lag(level) = Lag(level - 1) + 2 * Half(level - 1)
  <2>1. level - 1 \in Levels /\ Half(level) = 4 * Half(level - 1)
    BY <1>4, LevelFacts, HalfAssumption
  <2>2. /\ Half(level - 1) \in Nat /\ Lag(level) \in Nat /\ Lag(level - 1) \in Nat
        /\ 3 * Lag(level) = 2 * Half(level) - 4
        /\ 3 * Lag(level - 1) = 2 * Half(level - 1) - 4
    BY <1>2, <2>1
  <2>3. QED
    BY <2>1, <2>2
<1>5. QED
  BY <1>2, <1>3, <1>4

(* The intervals of a list of sequence n. *)
Begins(n, level) == IF level = Last THEN 1 ELSE SpillBefore(n, level) - Lag(level)

Ends(n, level) ==
    IF level = 0 THEN n
    ELSE SpillBefore(n, level - 1) - Half(level - 1) - Lag(level - 1) - 1

SnapBegins(n, level) == SpillBefore(n, level) - Half(level) - Lag(level)

SnapEnds(n, level) == SpillBefore(n, level) - Lag(level) - 1

Intervals(l, batches) ==
    \A level \in Levels :
      /\ l.curr[level]
           = SquashedOf(batches, Begins(l.seq, level), Ends(l.seq, level), level = Last)
      /\ level # Last =>
           l.snap[level]
             = SquashedOf(batches, SnapBegins(l.seq, level), SnapEnds(l.seq, level), FALSE)

LEMMA IntervalTypes ==
    ASSUME NEW n \in Nat, NEW level \in Levels
    PROVE  /\ Begins(n, level) \in Int
           /\ Ends(n, level) \in Int /\ Ends(n, level) <= n
           /\ SnapBegins(n, level) \in Int
           /\ SnapEnds(n, level) \in Int /\ SnapEnds(n, level) <= n
<1>1. /\ SpillBefore(n, level) \in Nat /\ SpillBefore(n, level) <= n
      /\ Half(level) \in Nat /\ Lag(level) \in Nat
  BY SpillBeforeStep, HalfAssumption, LagFacts
<1>2. level # 0 => /\ SpillBefore(n, level - 1) \in Nat /\ SpillBefore(n, level - 1) <= n
                   /\ Half(level - 1) \in Nat /\ Lag(level - 1) \in Nat
  <2> SUFFICES ASSUME level # 0
               PROVE  /\ SpillBefore(n, level - 1) \in Nat /\ SpillBefore(n, level - 1) <= n
                      /\ Half(level - 1) \in Nat /\ Lag(level - 1) \in Nat
    OBVIOUS
  <2>1. level - 1 \in Levels
    BY LevelFacts
  <2>2. QED
    BY <2>1, SpillBeforeStep, HalfAssumption, LagFacts
<1>3. QED
  BY <1>1, <1>2 DEF Begins, Ends, SnapBegins, SnapEnds

(* How the intervals move in one advance. *)
LEMMA QuietLevel ==
    ASSUME NEW n \in Nat, NEW level \in Levels, level > 0, ~ Receives(n + 1, level)
    PROVE  /\ ~ ShouldSpill(n + 1, level)
           /\ Begins(n + 1, level) = Begins(n, level) /\ Ends(n + 1, level) = Ends(n, level)
           /\ level # Last => /\ SnapBegins(n + 1, level) = SnapBegins(n, level)
                              /\ SnapEnds(n + 1, level) = SnapEnds(n, level)
<1>1. level - 1 \in Levels /\ level - 1 # Last
  BY LevelFacts
<1>2. ~ ShouldSpill(n + 1, level - 1)
  BY DEF Receives
<1>3. ~ ShouldSpill(n + 1, level)
  BY <1>2, SpillsFromTheTop
<1>4. SpillBefore(n + 1, level - 1) = SpillBefore(n, level - 1)
  BY <1>1, <1>2, SpillBeforeStep DEF ShouldSpill
<1>5. level # Last => SpillBefore(n + 1, level) = SpillBefore(n, level)
  BY <1>3, SpillBeforeStep DEF ShouldSpill
<1>6. QED
  BY <1>3, <1>4, <1>5 DEF Begins, Ends, SnapBegins, SnapEnds

LEMMA SpillingLevel ==
    ASSUME NEW n \in Nat, NEW level \in Levels, ShouldSpill(n + 1, level)
    PROVE  /\ SnapBegins(n + 1, level) = Begins(n, level)
           /\ SnapEnds(n + 1, level) = Ends(n, level)
<1>1. /\ SpillBefore(n + 1, level) = n + 1
      /\ SpillBefore(n, level) = n + 1 - Half(level)
      /\ Half(level) \in Nat /\ Lag(level) \in Nat /\ level # Last
  BY SpillBeforeStep, HalfAssumption, LagFacts DEF ShouldSpill
<1>2. SnapBegins(n + 1, level) = Begins(n, level)
  BY <1>1 DEF SnapBegins, Begins
<1>3. CASE level = 0
  BY <1>1, <1>2, <1>3, LagFacts DEF SnapEnds, Ends
<1>4. CASE level # 0
  <2>1. level > 0 /\ level - 1 \in Levels
    BY <1>4, LevelFacts
  <2>2. ShouldSpill(n + 1, level - 1)
    BY <2>1, SpillsFromTheTop
  <2>3. /\ SpillBefore(n, level - 1) = n + 1 - Half(level - 1)
        /\ Half(level - 1) \in Nat /\ Lag(level - 1) \in Nat
        /\ Lag(level) = Lag(level - 1) + 2 * Half(level - 1)
    BY <2>1, <2>2, SpillBeforeStep, HalfAssumption, LagFacts DEF ShouldSpill
  <2>4. QED
    BY <1>1, <1>2, <1>4, <2>3 DEF SnapEnds, Ends
<1>5. QED
  BY <1>3, <1>4

LEMMA ReceivingLevel ==
    ASSUME NEW n \in Nat, NEW level \in Levels, level > 0, Receives(n + 1, level)
    PROVE  /\ SnapBegins(n, level - 1) - 1 = Ends(n, level)
           /\ SnapEnds(n, level - 1) = Ends(n + 1, level)
           /\ ShouldSpill(n + 1, level) => Begins(n + 1, level) = SnapBegins(n, level - 1)
           /\ ~ ShouldSpill(n + 1, level) => Begins(n + 1, level) = Begins(n, level)
           /\ Begins(n, level) <= SnapBegins(n, level - 1) \/ Begins(n, level) <= 1
           /\ SnapBegins(n, level - 1) <= SnapEnds(n, level - 1) + 1
           /\ n < Half(level - 1) => Ends(n, level) < 1 /\ Ends(n + 1, level) < 1
<1>1. level - 1 \in Levels /\ level - 1 # Last /\ level # 0
  BY LevelFacts
<1>2. /\ SpillBefore(n + 1, level - 1) = n + 1
      /\ SpillBefore(n, level - 1) = n + 1 - Half(level - 1)
      /\ n < Half(level - 1) => SpillBefore(n, level - 1) = 0
  BY <1>1, SpillBeforeStep DEF Receives, ShouldSpill
<1>3. /\ Half(level - 1) \in Nat /\ Lag(level - 1) \in Nat /\ Lag(level) \in Nat
      /\ Lag(level) = Lag(level - 1) + 2 * Half(level - 1)
  BY <1>1, HalfAssumption, LagFacts
<1>4. SpillBefore(n, level) \in Nat /\ SpillBefore(n, level) <= n
  BY SpillBeforeStep
<1>5. ShouldSpill(n + 1, level) => level # Last /\ SpillBefore(n + 1, level) = n + 1
  BY SpillBeforeStep DEF ShouldSpill
<1>6. ~ ShouldSpill(n + 1, level) /\ level # Last =>
        SpillBefore(n + 1, level) = SpillBefore(n, level)
  BY SpillBeforeStep DEF ShouldSpill
<1>7. /\ SnapBegins(n, level - 1) - 1 = Ends(n, level)
      /\ SnapEnds(n, level - 1) = Ends(n + 1, level)
      /\ SnapBegins(n, level - 1) <= SnapEnds(n, level - 1) + 1
      /\ n < Half(level - 1) => Ends(n, level) < 1 /\ Ends(n + 1, level) < 1
  BY <1>1, <1>2, <1>3 DEF SnapBegins, SnapEnds, Ends
<1>8. /\ ShouldSpill(n + 1, level) => Begins(n + 1, level) = SnapBegins(n, level - 1)
      /\ ~ ShouldSpill(n + 1, level) => Begins(n + 1, level) = Begins(n, level)
  BY <1>2, <1>3, <1>5, <1>6 DEF SnapBegins, Begins
<1>9. Begins(n, level) <= SnapBegins(n, level - 1) \/ Begins(n, level) <= 1
  BY <1>2, <1>3, <1>4 DEF SnapBegins, Begins
<1>10. QED
  BY <1>7, <1>8, <1>9

LEMMA TopLevel ==
    ASSUME NEW n \in Nat
    PROVE  /\ Ends(n, 0) = n
           /\ ShouldSpill(n + 1, 0) => Begins(n + 1, 0) = n + 1
           /\ ~ ShouldSpill(n + 1, 0) => Begins(n + 1, 0) = Begins(n, 0)
           /\ Begins(n, 0) <= n + 1 /\ Begins(n, 0) \in Int
<1>1. /\ SpillBefore(n, 0) \in Nat /\ SpillBefore(n, 0) <= n
      /\ ShouldSpill(n + 1, 0) => Last # 0 /\ SpillBefore(n + 1, 0) = n + 1
      /\ ~ ShouldSpill(n + 1, 0) /\ Last # 0 => SpillBefore(n + 1, 0) = SpillBefore(n, 0)
  BY LevelFacts, SpillBeforeStep DEF ShouldSpill
<1>2. QED
  BY <1>1, LagFacts DEF Ends, Begins

LEMMA IntervalsAdvance ==
    ASSUME NEW l, IsList(l), Valid(l), l.seq # MaxSeq,
           NEW batches \in Seq(Buckets), Len(batches) = l.seq, Intervals(l, batches),
           NEW batch \in Buckets,
           NEW after, after = Advanced(l, l.seq + 1, batch)
    PROVE  Intervals(after, Append(batches, batch))
<1> DEFINE n == l.seq
           longer == Append(batches, batch)
<1>1. /\ n \in Nat /\ after.seq = n + 1 /\ longer \in Seq(Buckets) /\ Len(batches) = n
      /\ n + 1 \in Nat
  BY MaxSeqAssumption DEF IsList, Advanced
<1>2. ASSUME NEW level \in Levels
      PROVE  /\ l.curr[level]
                  = SquashedOf(longer, Begins(n, level), Ends(n, level), level = Last)
             /\ level # Last =>
                  l.snap[level]
                    = SquashedOf(longer, SnapBegins(n, level), SnapEnds(n, level), FALSE)
  <2>1. /\ Begins(n, level) \in Int
        /\ Ends(n, level) \in Int /\ Ends(n, level) <= Len(batches)
        /\ SnapBegins(n, level) \in Int
        /\ SnapEnds(n, level) \in Int /\ SnapEnds(n, level) <= Len(batches)
    BY <1>1, IntervalTypes
  <2>2. /\ l.curr[level]
             = SquashedOf(batches, Begins(n, level), Ends(n, level), level = Last)
        /\ level # Last =>
             l.snap[level]
               = SquashedOf(batches, SnapBegins(n, level), SnapEnds(n, level), FALSE)
    BY DEF Intervals
  <2>3. SquashedOf(longer, Begins(n, level), Ends(n, level), level = Last)
          = SquashedOf(batches, Begins(n, level), Ends(n, level), level = Last)
    BY <2>1, SquashedGrows
  <2>4. SquashedOf(longer, SnapBegins(n, level), SnapEnds(n, level), FALSE)
          = SquashedOf(batches, SnapBegins(n, level), SnapEnds(n, level), FALSE)
    BY <2>1, SquashedGrows
  <2>5. QED
    BY <2>2, <2>3, <2>4
<1>3. batch = SquashedOf(longer, n + 1, n + 1, FALSE)
  BY <1>1, SquashedOne
<1> HIDE DEF n, longer
<1>4. ASSUME NEW level \in Levels, level # Last
      PROVE  after.snap[level]
               = SquashedOf(longer, SnapBegins(n + 1, level), SnapEnds(n + 1, level), FALSE)
  <2>1. after.snap[level] = IF ShouldSpill(n + 1, level) THEN l.curr[level] ELSE l.snap[level]
    BY DEF Advanced, n
  <2>2. CASE ShouldSpill(n + 1, level)
    BY <1>1, <1>2, <1>4, <2>1, <2>2, SpillingLevel
  <2>3. CASE ~ ShouldSpill(n + 1, level)
    <3>1. SpillBefore(n + 1, level) = SpillBefore(n, level)
      BY <1>1, <1>4, <2>3, SpillBeforeStep DEF ShouldSpill
    <3>2. QED
      BY <1>2, <1>4, <2>1, <2>3, <3>1 DEF SnapBegins, SnapEnds
  <2>4. QED
    BY <2>2, <2>3
<1>5. ASSUME NEW level \in Levels, level > 0, ~ Receives(n + 1, level)
      PROVE  after.curr[level]
               = SquashedOf(longer, Begins(n + 1, level), Ends(n + 1, level), level = Last)
  <2>1. after.curr[level] = l.curr[level]
    <3>1. ~ ShouldSpill(n + 1, level) /\ level # 0
      BY <1>1, <1>5, QuietLevel
    <3>2. after.curr[level] = Promoted(l, n + 1, level)
      BY <3>1 DEF Advanced, n
    <3>3. QED
      BY <1>5, <3>1, <3>2 DEF Promoted
  <2>2. QED
    BY <1>1, <1>2, <1>5, <2>1, QuietLevel
<1>6. ASSUME NEW level \in Levels, level > 0, Receives(n + 1, level)
      PROVE  after.curr[level]
               = SquashedOf(longer, Begins(n + 1, level), Ends(n + 1, level), level = Last)
  <2> DEFINE above == level - 1
  <2>1. above \in Levels /\ above # Last /\ level # 0
    BY <1>6, LevelFacts
  <2>2. after.curr[level] = Promoted(l, n + 1, level)
    BY <2>1 DEF Advanced, n
  <2>3. /\ SnapBegins(n, above) - 1 = Ends(n, level)
        /\ SnapEnds(n, above) = Ends(n + 1, level)
        /\ ShouldSpill(n + 1, level) => Begins(n + 1, level) = SnapBegins(n, above)
        /\ ~ ShouldSpill(n + 1, level) => Begins(n + 1, level) = Begins(n, level)
        /\ Begins(n, level) <= SnapBegins(n, above) \/ Begins(n, level) <= 1
        /\ SnapBegins(n, above) <= SnapEnds(n, above) + 1
        /\ n < Half(above) => Ends(n, level) < 1 /\ Ends(n + 1, level) < 1
    BY <1>1, <1>6, ReceivingLevel
  <2>4. /\ Begins(n, level) \in Int /\ Ends(n, level) \in Int
        /\ Begins(n + 1, level) \in Int /\ Ends(n + 1, level) \in Int
        /\ SnapBegins(n, above) \in Int /\ SnapEnds(n, above) \in Int
    BY <1>1, <2>1, IntervalTypes
  <2>5. l.snap[above] = SquashedOf(longer, SnapBegins(n, above), SnapEnds(n, above), FALSE)
    BY <1>2, <2>1
  <2>6. l.curr[level] = SquashedOf(longer, Begins(n, level), Ends(n, level), level = Last)
    BY <1>2
  <2>7. PendingExact(l) /\ PendingShape(l)
    BY DEF Valid
  <2>8. MergeWithEmpty(n, level) <=> ShouldSpill(n + 1, level)
    BY <1>1, <1>6, PromotedMergeBase
  <2>9. CASE l.next[level] # NoMerge
    <3>1. after.curr[level] = l.next[level]
      BY <1>6, <2>2, <2>9 DEF Promoted
    <3>2. l.next[level] = Merge(MergeBase(n, level, l.curr[level]), l.snap[above], level = Last)
      BY <2>1, <2>7, <2>9 DEF PendingExact, n
    <3>3. CASE ShouldSpill(n + 1, level)
      <4>1. level # Last
        BY <3>3 DEF ShouldSpill
      <4>2. MergeBase(n, level, l.curr[level]) = Empty
        BY <2>8, <3>3 DEF MergeBase
      <4>3. l.snap[above] \in Buckets
        BY <2>1 DEF IsList
      <4>4. Merge(Empty, l.snap[above], FALSE) = l.snap[above]
        BY <4>3 DEF Merge, Empty, Buckets
      <4>5. (level = Last) = FALSE
        BY <4>1
      <4>6. after.curr[level] = l.snap[above]
        BY <3>1, <3>2, <4>2, <4>4, <4>5
      <4>7. QED
        BY <2>3, <2>5, <3>3, <4>5, <4>6
    <3>4. CASE ~ ShouldSpill(n + 1, level)
      <4>1. MergeBase(n, level, l.curr[level]) = l.curr[level]
        BY <2>8, <3>4 DEF MergeBase
      <4> DEFINE first == Begins(n, level)
                 middle == SnapBegins(n, above)
                 last == SnapEnds(n, above)
                 terminal == level = Last
      <4>2. /\ first \in Int /\ middle \in Int /\ last \in Int /\ terminal \in BOOLEAN
            /\ first <= middle \/ first <= 1
            /\ middle <= last + 1
        BY <2>3, <2>4
      <4>3. l.curr[level] = SquashedOf(longer, first, middle - 1, terminal)
        BY <2>3, <2>6
      <4>4. l.snap[above] = SquashedOf(longer, middle, last, FALSE)
        BY <2>5
      <4>5. after.curr[level] = Merge(l.curr[level], l.snap[above], terminal)
        BY <3>1, <3>2, <4>1
      <4>6. first = Begins(n + 1, level) /\ last = Ends(n + 1, level)
        BY <2>3, <3>4
      <4> HIDE DEF first, middle, last, terminal
      <4>7. Merge(SquashedOf(longer, first, middle - 1, terminal),
                  SquashedOf(longer, middle, last, FALSE), terminal)
              = SquashedOf(longer, first, last, terminal)
        <5>1. longer \in Seq(Buckets)
          BY <1>1
        <5>2. QED
          BY <4>2, <5>1, SquashedMerge
      <4>8. after.curr[level] = SquashedOf(longer, first, last, terminal)
        BY <4>3, <4>4, <4>5, <4>7
      <4>9. QED
        BY <4>6, <4>8 DEF terminal
    <3>5. QED
      BY <3>3, <3>4
  <2>10. CASE l.next[level] = NoMerge
    <3>1. n < Half(above)
      <4>1. ~ (n >= Half(above)) /\ Half(above) \in Nat
        BY <2>1, <2>7, <2>10, HalfAssumption DEF PendingShape, n
      <4>2. QED
        BY <1>1, <4>1
    <3>2. SquashedOf(longer, Begins(n + 1, level), Ends(n + 1, level), level = Last) = Empty
      <4>1. longer \in Seq(Buckets) /\ (level = Last) \in BOOLEAN /\ Ends(n + 1, level) < 1
        BY <1>1, <2>3, <3>1
      <4>2. QED
        BY <2>4, <4>1, SquashedNothing
    <3>3. SquashedOf(longer, Begins(n, level), Ends(n, level), level = Last) = Empty
      <4>1. longer \in Seq(Buckets) /\ (level = Last) \in BOOLEAN /\ Ends(n, level) < 1
        BY <1>1, <2>3, <3>1
      <4>2. QED
        BY <2>4, <4>1, SquashedNothing
    <3>4. after.curr[level] = Empty
      BY <2>2, <2>6, <2>10, <3>3 DEF Promoted
    <3>5. QED
      BY <3>2, <3>4
  <2>11. QED
    BY <2>9, <2>10
<1>7. after.curr[0] = SquashedOf(longer, Begins(n + 1, 0), Ends(n + 1, 0), 0 = Last)
  <2>1. /\ Ends(n, 0) = n /\ Ends(n + 1, 0) = n + 1
        /\ ShouldSpill(n + 1, 0) => Begins(n + 1, 0) = n + 1
        /\ ~ ShouldSpill(n + 1, 0) => Begins(n + 1, 0) = Begins(n, 0)
        /\ Begins(n, 0) <= n + 1 /\ Begins(n, 0) \in Int
    BY <1>1, TopLevel
  <2>2. 0 \in Levels /\ (Depth = 1 <=> 0 = Last)
    BY LevelFacts, DepthAssumption DEF Last
  <2>3. after.curr[0] = Merge(Promoted(l, n + 1, 0), batch, Depth = 1)
    BY <2>2 DEF Advanced, n
  <2>4. Promoted(l, n + 1, 0) = IF ShouldSpill(n + 1, 0) THEN Empty ELSE l.curr[0]
    BY DEF Promoted, Receives
  <2>5. CASE ShouldSpill(n + 1, 0)
    <3>1. 0 # Last /\ Depth # 1
      BY <2>2, <2>5 DEF ShouldSpill
    <3>2. Merge(Empty, batch, FALSE) = batch
      BY DEF Merge, Empty, Buckets
    <3>3. (Depth = 1) = FALSE /\ (0 = Last) = FALSE
      BY <3>1
    <3>4. after.curr[0] = batch
      BY <2>3, <2>4, <2>5, <3>2, <3>3
    <3>5. QED
      BY <1>3, <2>1, <2>5, <3>3, <3>4
  <2>6. CASE ~ ShouldSpill(n + 1, 0)
    <3> DEFINE first == Begins(n, 0)
               middle == n + 1
               terminal == 0 = Last
    <3>1. /\ first \in Int /\ middle \in Int /\ first <= middle /\ middle <= middle + 1
          /\ terminal \in BOOLEAN /\ middle - 1 = n
      BY <1>1, <2>1
    <3>2. l.curr[0] = SquashedOf(longer, first, middle - 1, terminal)
      <4>1. l.curr[0] = SquashedOf(longer, Begins(n, 0), Ends(n, 0), 0 = Last)
        BY <1>2, <2>2
      <4>2. middle - 1 = Ends(n, 0)
        BY <2>1, <3>1
      <4>3. QED
        BY <4>1, <4>2
    <3>3. batch = SquashedOf(longer, middle, middle, FALSE)
      BY <1>3
    <3>4. (Depth = 1) = terminal
      BY <2>2
    <3>5. after.curr[0] = Merge(l.curr[0], batch, terminal)
      BY <2>3, <2>4, <2>6, <3>4
    <3>6. first = Begins(n + 1, 0) /\ middle = Ends(n + 1, 0)
      BY <2>1, <2>6
    <3> HIDE DEF first, middle, terminal
    <3>7. Merge(SquashedOf(longer, first, middle - 1, terminal),
                SquashedOf(longer, middle, middle, FALSE), terminal)
            = SquashedOf(longer, first, middle, terminal)
      <4>1. longer \in Seq(Buckets)
        BY <1>1
      <4>2. QED
        BY <3>1, <4>1, SquashedMerge
    <3>8. after.curr[0] = SquashedOf(longer, first, middle, terminal)
      BY <3>2, <3>3, <3>5, <3>7
    <3>9. QED
      BY <3>6, <3>8 DEF terminal
  <2>7. QED
    BY <2>5, <2>6
<1>8. ASSUME NEW level \in Levels
      PROVE  after.curr[level]
               = SquashedOf(longer, Begins(n + 1, level), Ends(n + 1, level), level = Last)
  <2>1. level = 0 \/ level > 0
    BY LevelFacts
  <2>2. QED
    BY <1>5, <1>6, <1>7, <2>1
<1>9. Intervals(after, longer)
  BY <1>1, <1>4, <1>8 DEF Intervals
<1>10. QED
  BY <1>9 DEF longer

HistoryInv ==
    /\ Inv
    /\ log \in Seq(Buckets)
    /\ Len(log) = list.seq
    /\ Intervals(list, log)

LEMMA HistoryInitInv == HistoryInit => HistoryInv
<1> SUFFICES ASSUME HistoryInit
             PROVE  HistoryInv
  OBVIOUS
<1>1. Inv /\ list = NewList /\ log = <<>>
  BY InitInv DEF HistoryInit, Init
<1>2. log \in Seq(Buckets) /\ Len(log) = 0 /\ list.seq = 0
  BY <1>1 DEF NewList
<1>3. ASSUME NEW first \in Int, NEW last \in Int, NEW drop \in BOOLEAN
      PROVE  SquashedOf(log, first, last, drop) = Empty
  <2>1. ASSUME NEW k \in Keys
        PROVE  Writes(log, first, last, k) = {}
    <3>1. DOMAIN log = {}
      BY <1>1
    <3>2. QED
      BY <3>1 DEF Writes
  <2>2. QED
    BY <2>1, SentinelAssumption DEF SquashedOf, NewestRecord, ValueOf, Empty
<1>4. ASSUME NEW level \in Levels
      PROVE  /\ list.curr[level]
                  = SquashedOf(log, Begins(0, level), Ends(0, level), level = Last)
             /\ list.snap[level]
                  = SquashedOf(log, SnapBegins(0, level), SnapEnds(0, level), FALSE)
  <2>1. list.curr[level] = Empty /\ list.snap[level] = Empty
    BY <1>1 DEF NewList
  <2>2. QED
    BY <1>3, <2>1, IntervalTypes
<1>5. QED
  BY <1>1, <1>2, <1>4 DEF HistoryInv, Intervals

(* At every sequence number every bucket holds exactly its own interval of *)
(* the history, squashed: the schedule of spills and promotions puts every *)
(* batch into one bucket, at every depth and for any number of batches.    *)
THEOREM IntervalsHeld == HistorySpec => []BucketsHoldTheirInterval
<1>1. ASSUME HistoryInv, [HistoryNext]_historyVars
      PROVE  HistoryInv'
  <2>1. CASE HistoryNext
    <3>1. PICK batch \in Buckets : Advance(list.seq + 1, batch) /\ log' = Append(log, batch)
      BY <2>1 DEF HistoryNext
    <3>2. Inv'
      BY <1>1, <3>1, AdvanceInv DEF HistoryInv
    <3>3. /\ IsList(list) /\ Valid(list) /\ list.seq # MaxSeq
          /\ list' = Advanced(list, list.seq + 1, batch)
      BY <1>1, <3>1, ListsAreLists DEF HistoryInv, Inv, TypeOK, Advance
    <3>4. Intervals(list', log')
      BY <1>1, <3>1, <3>3, IntervalsAdvance DEF HistoryInv
    <3>5. list'.seq = list.seq + 1
      BY <3>3 DEF Advanced
    <3>6. log' \in Seq(Buckets) /\ Len(log') = Len(log) + 1
      BY <1>1, <3>1 DEF HistoryInv
    <3>7. QED
      BY <1>1, <3>2, <3>4, <3>5, <3>6 DEF HistoryInv
  <2>2. CASE UNCHANGED historyVars
    BY <1>1, <2>2 DEF HistoryInv, Inv, TypeOK, historyVars, vars
  <2>3. QED
    BY <1>1, <2>1, <2>2
<1>2. HistoryInv => BucketsHoldTheirInterval
  <2> SUFFICES ASSUME Intervals(list, log), NEW level \in Levels
               PROVE  /\ list.curr[level]
                           = Squashed(CurrFirst(level), CurrLast(level), level = Last)
                      /\ level # Last =>
                           list.snap[level]
                             = Squashed(SnapFirst(level), SnapLast(level), FALSE)
    BY DEF HistoryInv, BucketsHoldTheirInterval
  <2>1. /\ CurrFirst(level) = Begins(list.seq, level) /\ CurrLast(level) = Ends(list.seq, level)
        /\ SnapFirst(level) = SnapBegins(list.seq, level)
        /\ SnapLast(level) = SnapEnds(list.seq, level)
    BY DEF CurrFirst, CurrLast, SnapFirst, SnapLast, LastSpill,
           Begins, Ends, SnapBegins, SnapEnds, SpillBefore
  <2>2. /\ list.curr[level]
              = SquashedOf(log, CurrFirst(level), CurrLast(level), level = Last)
        /\ level # Last =>
             list.snap[level] = SquashedOf(log, SnapFirst(level), SnapLast(level), FALSE)
    BY <2>1 DEF Intervals
  <2>3. /\ Squashed(CurrFirst(level), CurrLast(level), level = Last)
             = SquashedOf(log, CurrFirst(level), CurrLast(level), level = Last)
        /\ Squashed(SnapFirst(level), SnapLast(level), FALSE)
             = SquashedOf(log, SnapFirst(level), SnapLast(level), FALSE)
    BY SquashedIsOf
  <2>4. QED
    BY <2>2, <2>3
<1>3. QED
  BY <1>1, <1>2, HistoryInitInv, PTL DEF HistorySpec

=============================================================================

---------------------------- MODULE Differential ----------------------------
(***************************************************************************)
(* The engine and its reference side by side, as the differential tests    *)
(* run them: every batch of operations goes to the frontier, which plans   *)
(* its merges and runs them in any order, and to reference.py's Model, and *)
(* after every advance the two must have the same commitment.              *)
(* src/tools/check-core-oracle.py does the same with a third schedule.     *)
(***************************************************************************)
EXTENDS Frontier, Sequences

CONSTANTS MaxOps    \* operations in one batch

ASSUME MaxOpsAssumption == MaxOps \in Nat

(* The same powers, as the other two schedules write them. *)
ASSUME PowerAssumption ==
    \A level \in Levels :
        /\ 4^level \in Nat /\ 2 * 4^level = Half(level)
        /\ 4^(level + 1) = 4 * 4^level

VARIABLES model,     \* the reference
          asserted,
          operations \* the batch that is being advanced

(* Python's None, which stands for a deletion, is not a dictionary. *)
ASSUME TombstoneAssumption ==
    \A keys \in SUBSET Keys : Tombstone \notin [keys -> Values \cup {Tombstone}]

Reference == INSTANCE Reference WITH None <- Tombstone, Advances <- MaxSeq

differentialVars == <<frontierVars, model, asserted, operations>>

-----------------------------------------------------------------------------
(* Calls of put and delete, in the order of the application. *)
Operation == [key : Keys, value : Values \cup {Tombstone}]

OperationLists == UNION {[1..n -> Operation] : n \in 0..MaxOps}

Earliest(calls) == CHOOSE i \in calls : \A j \in calls : i <= j

Latest(calls) == CHOOSE i \in calls : \A j \in calls : j <= i

(* A plausible defect: the first call for a key stays. *)
StagedFirst(ops) ==
    [k \in Keys |->
       LET writes == {i \in DOMAIN ops : ops[i].key = k}
       IN  IF writes = {} THEN Absent ELSE ops[Earliest(writes)].value]

(* What put and delete leave staged: the last call for a key replaces the  *)
(* one before it.                                                          *)
Staged(ops) ==
    [k \in Keys |->
       LET writes == {i \in DOMAIN ops : ops[i].key = k}
       IN  IF writes = {} THEN Absent ELSE ops[Latest(writes)].value]

(* A plausible defect: a write that changes nothing is kept. *)
FreshUnfiltered(ops) == Staged(ops)

(* The batch's bucket: writes that change what a reader sees. *)
Fresh(ops) ==
    [k \in Keys |-> IF Staged(ops)[k] # Absent /\ ValueOf(Staged(ops)[k]) # Get(list, k)
                    THEN Staged(ops)[k] ELSE Absent]

-----------------------------------------------------------------------------
DifferentialInit ==
    /\ FrontierInit
    /\ Reference!Start(Depth)
    /\ operations = <<>>

PlanBatch(ops) ==
    /\ Plan(list.seq + 1, Fresh(ops))
    /\ operations' = ops
    /\ UNCHANGED <<model, asserted>>

CompleteJob(level) ==
    /\ RunJob(level)
    /\ UNCHANGED <<model, asserted, operations>>

AbandonBatch ==
    /\ Abandon
    /\ operations' = <<>>
    /\ UNCHANGED <<model, asserted>>

(* Both advance; what was staged is gone. *)
FinishBoth ==
    /\ Finish
    /\ Reference!ReferenceAdvance(operations)
    /\ operations' = <<>>

DifferentialNext ==
    \/ \E ops \in OperationLists : PlanBatch(ops)
    \/ \E level \in Levels : CompleteJob(level)
    \/ AbandonBatch
    \/ FinishBoth

DifferentialSpec == DifferentialInit /\ [][DifferentialNext]_differentialVars

-----------------------------------------------------------------------------
(***************************************************************************)
(* The commitments of the engine, frontier.zig 152-195, over the identity  *)
(* of its buckets.                                                         *)
(***************************************************************************)
Identity(bucket) ==
    {<<k, bucket[k]>> : k \in {k \in Keys : bucket[k] # Absent}}

Root ==
    <<"list", Depth>> \o
    [i \in 1..Depth |-> <<"level", i - 1, Identity(list.curr[i - 1]), Identity(list.snap[i - 1])>>]

PendingHash(level) ==
    IF list.next[level] = NoMerge THEN <<level, FALSE>>
    ELSE <<level, TRUE, Identity(list.next[level])>>

ContinuationHash ==
    <<"continuation", Depth>> \o Reference!FlattenSeq([i \in 1..Depth |-> PendingHash(i - 1)])

Commitment == <<"database", list.seq, Root, ContinuationHash>>

(***************************************************************************)
(* v2-vectors.py recomputes the same chain from the hashes a proof carries.*)
(***************************************************************************)
ChainLevels ==
    [i \in 1..Depth |->
       [curr |-> Identity(list.curr[i - 1]), snap |-> Identity(list.snap[i - 1]),
        pending |-> list.next[i - 1] # NoMerge,
        next |-> IF list.next[i - 1] = NoMerge THEN {} ELSE Identity(list.next[i - 1])]]

ChainDigest(sequence, levels) ==
    LET pending(i) == IF levels[i].pending THEN <<i - 1, TRUE, levels[i].next>>
                      ELSE <<i - 1, FALSE>>
    IN  <<"database", sequence,
          <<"list", Depth>> \o [i \in 1..Depth |->
                                  <<"level", i - 1, levels[i].curr, levels[i].snap>>],
          <<"continuation", Depth>> \o Reference!FlattenSeq([i \in 1..Depth |-> pending(i)])>>

(***************************************************************************)
(* check_geometry: how stellar-core's schedule is expected to answer, in   *)
(* sizes of levels.                                                        *)
(***************************************************************************)
Size(level) == 4^(level + 1)

ExpectedSpill(n, level) == level < Depth - 1 /\ n % (Size(level) \div 2) = 0

ExpectedEmpty(n, level) ==
    /\ level # 0 /\ level # Depth - 1
    /\ LET incoming == 2 * 4^(level - 1)
           start    == (n \div incoming) * incoming
       IN  (start + incoming) % (Size(level) \div 2) = 0

-----------------------------------------------------------------------------
(***************************************************************************)
(* CommitmentsAgree: whatever the batches and the order of the jobs, after *)
(* every advance the frontier, the reference model and the recomputation   *)
(* of the chain give one database digest.  As a hash stands for what it    *)
(* hashes, this is agreement on every record of every bucket at every      *)
(* level, pending results included (check_trace, check-core-oracle.py 121; *)
(* tools/differential.zig 55).                                             *)
(***************************************************************************)
CommitmentsAgree ==
    /\ Commitment = Reference!DatabaseHash(model)
    /\ Commitment = ChainDigest(list.seq, ChainLevels)

(***************************************************************************)
(* GeometryAgrees: the engine asks for a merge with the empty bucket by a  *)
(* quotient modulo four, the reference by looking one interval ahead, and  *)
(* stellar-core by the start of the interval and the size of the level;    *)
(* they agree for the current sequence at every level that receives, and   *)
(* the first and the last at every other level too, as restores rely on.   *)
(***************************************************************************)
GeometryAgrees ==
    \A level \in Levels :
        /\ ShouldSpill(list.seq, level) <=> ExpectedSpill(list.seq, level)
        /\ MergeWithEmpty(list.seq, level) <=> ExpectedEmpty(list.seq, level)
        /\ Receives(list.seq, level) =>
             (MergeWithEmpty(list.seq, level)
                <=> Reference!DestinationWillSpill(list.seq, level, Depth))

(***************************************************************************)
(* BatchesTakeEffect: when a batch is committed, every reader finds the    *)
(* value of the last call for a key, and what it found before for a key    *)
(* without one: replacing staged calls, leaving out those that change      *)
(* nothing, and merging what is left in any order of jobs, while the batch *)
(* waits, loses no call and adds none (database.zig 148-165, 214-226).     *)
(***************************************************************************)
LastCall(i, k) ==
    /\ operations[i].key = k
    /\ \A j \in DOMAIN operations : operations[j].key = k => j <= i

BatchesTakeEffect ==
    [][list'.seq # list.seq =>
         \A k \in Keys :
           /\ (\A i \in DOMAIN operations : operations[i].key # k) =>
                Get(list', k) = Get(list, k)
           /\ \A i \in DOMAIN operations :
                LastCall(i, k) =>
                  Get(list', k) = ValueOf(operations[i].value)]_differentialVars

=============================================================================

---------------------------- MODULE KeyValueMap ----------------------------
(***************************************************************************)
(* What a BucketList database promises its callers: a map from identities  *)
(* to values and the number of batches applied to it.  Each batch is       *)
(* applied whole, in sequence order, and a read returns the value of the   *)
(* last batch that wrote the identity, or nothing after a deletion.  No    *)
(* level, bucket or merge is visible.                                      *)
(***************************************************************************)
EXTENDS Naturals, Bucket

VARIABLES map,   \* the value of every identity
          seq,   \* the number of batches applied
          input  \* history: the last batch, as the caller gave it

vars == <<map, seq, input>>

(* The map after a batch: an identity without a record keeps its value.    *)
Applied(old, batch) ==
    [k \in Keys |-> IF batch[k] = Absent THEN old[k] ELSE ValueOf(batch[k])]

Init == map = Empty /\ seq = 0 /\ input = Empty

Apply(batch) ==
    /\ map' = Applied(map, batch)
    /\ seq' = seq + 1
    /\ input' = batch

Next == \E batch \in Buckets : Apply(batch)

Spec == Init /\ [][Next]_vars
=============================================================================

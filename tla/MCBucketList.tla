---------------------------- MODULE MCBucketList ----------------------------
(* An instance of the list and its history for TLC. *)
EXTENDS BucketListHistory, TLC

(* No definition looks into a value, so values may be exchanged. *)
ValueSymmetry == Permutations(Values)

=============================================================================

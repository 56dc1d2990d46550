----------------------------- MODULE BucketList -----------------------------
(***************************************************************************)
(* List of src/src/list.zig: one action advances the list by one batch and *)
(* one sequence number.  The list itself, its schedule and its reads are   *)
(* those of ListValue.tla.                                                 *)
(***************************************************************************)
EXTENDS ListValue

VARIABLES list,  \* the list: seq, curr, snap and next
          input  \* history: the last batch, as the caller gave it; so that
                 \* a batch is compared with what became of it

vars == <<list, input>>

-----------------------------------------------------------------------------
Init == list = NewList /\ input = Empty

(***************************************************************************)
(* advance.  A sequence other than the next one is refused                 *)
(* (InvalidSequence), and so is any after MaxSeq (SequenceExhausted).      *)
(***************************************************************************)
Advance(n, batch) ==
    /\ list.seq # MaxSeq
    /\ n = list.seq + 1
    /\ list' = Advanced(list, n, batch)
    /\ input' = batch

Next == \E batch \in Buckets : Advance(list.seq + 1, batch)

Spec == Init /\ [][Next]_vars

-----------------------------------------------------------------------------
TypeOK == list \in Lists /\ input \in Buckets

(***************************************************************************)
(* Restorable: every list the engine can build passes the validation that  *)
(* its own restore runs (list.zig 150-172).  The validation recomputes     *)
(* every pending merge from the list as it is now, up to Half(level - 1)   *)
(* advances after it was scheduled, and tells what may be non-empty from   *)
(* the sequence number alone; an off-by-one in any of these would make the *)
(* engine refuse its own checkpoint.                                       *)
(***************************************************************************)
Restorable == Valid(list)

(***************************************************************************)
(* ImplementsMap: each advance applies the batch it was given (input) to   *)
(* the map that get returns and changes nothing else: no promotion, merge  *)
(* or dropped tombstone at any level loses a write, reorders two writes or *)
(* revives a deleted identity.                                             *)
(***************************************************************************)
Map == INSTANCE KeyValueMap WITH map <- Contents(list), seq <- list.seq

ImplementsMap == Map!Spec

=============================================================================

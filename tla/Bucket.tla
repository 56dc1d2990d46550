------------------------------- MODULE Bucket -------------------------------
(***************************************************************************)
(* The immutable bucket of src/src/bucket.zig: a set of records with at    *)
(* most one record per (table, key) identity.  A record carries a value or *)
(* is a tombstone.  A bucket is a function from identities, so the sorted  *)
(* index, the canonical encoding and the hash of the code are abstracted:  *)
(* two buckets of the code have equal hashes iff the functions are equal.  *)
(***************************************************************************)

CONSTANTS Keys,      \* identities: the code's (table, key) pairs
          Values,    \* encoded values
          Tombstone, \* the record whose value is null
          Absent     \* no record for the identity; also get's null

ASSUME SentinelAssumption ==
    /\ Tombstone \notin Values
    /\ Absent \notin Values
    /\ Tombstone # Absent

Records == Values \cup {Tombstone, Absent}

Buckets == [Keys -> Records]

Empty == [k \in Keys |-> Absent]

(* The record of an identity, as a reader sees it: a tombstone is a miss.  *)
ValueOf(record) == IF record = Tombstone THEN Absent ELSE record

(* Plausible defects of merge, used to show which properties notice them.  *)
MergeOldestWins(older, newer, drop) ==
    [k \in Keys |-> LET record == IF older[k] # Absent THEN older[k] ELSE newer[k]
                    IN  IF drop THEN ValueOf(record) ELSE record]

MergeKeepingTombstones(older, newer, drop) ==
    [k \in Keys |-> IF newer[k] # Absent THEN newer[k] ELSE older[k]]

MergeAlwaysDropping(older, newer, drop) ==
    [k \in Keys |-> ValueOf(IF newer[k] # Absent THEN newer[k] ELSE older[k])]

(***************************************************************************)
(* The newest record of each identity wins; tombstones are dropped only on *)
(* request.  The two early returns of the code (one input empty and no     *)
(* dropping) return what the general case computes.                        *)
(***************************************************************************)
Merge(older, newer, drop) ==
    [k \in Keys |-> LET record == IF newer[k] # Absent THEN newer[k] ELSE older[k]
                    IN  IF drop THEN ValueOf(record) ELSE record]

=============================================================================

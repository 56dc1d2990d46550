------------------------------ MODULE MCStore ------------------------------
(***************************************************************************)
(* Instances of the store for TLC, one of them at a time: the writers and  *)
(* the publisher under per_blob, with everything the store allows to       *)
(* overlap; the same under pre_publish, serialized as the owners do and    *)
(* without putBucketV2; and the read index.  The properties of Store.tla   *)
(* are the same formulas in both of its modes, and the read index shares   *)
(* no state with the writers: neither deletes under the other's calls.     *)
(***************************************************************************)
EXTENDS Store, Lookup, TLC

CONSTANT Alike  \* the bucket whose compressed file has the size of the plain one

VARIABLE mode

Serial == INSTANCE Store WITH PerBlob <- FALSE, V2 <- FALSE, Overlap <- FALSE

Modes == {"per_blob", "pre_publish", "read_index"}

MCInit ==
    /\ mode \in Modes
    /\ Init
    /\ LookupInit /\ (mode # "read_index" => ~ compressing)

MCNext ==
    \/ mode = "per_blob" /\ Next /\ UNCHANGED <<mode, lookupVars>>
    \/ mode = "pre_publish" /\ Serial!Next /\ UNCHANGED <<mode, lookupVars>>
    \/ mode = "read_index" /\ LookupNext /\ UNCHANGED <<mode, vars>>

MCSpec == MCInit /\ [][MCNext]_<<mode, vars, lookupVars>>

Sizes == [h \in Hashes |-> IF h = Alike THEN PlainSize ELSE PlainSize - 1]

(* Threads, and buckets of one size, are only compared. *)
Symmetry == Permutations(Hashes \ {Alike}) \cup Permutations(Threads)

=============================================================================

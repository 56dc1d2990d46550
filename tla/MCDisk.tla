------------------------------- MODULE MCDisk -------------------------------
(***************************************************************************)
(* Three instances of the disk database for TLC, one of them at a time:    *)
(* the one of the cfg under per_blob, with batches of every identity; and  *)
(* two under pre_publish, of format v1 and v2, whose batches change a      *)
(* single identity, where a loss of power removes or tears files and       *)
(* debris piles up, and under v2 the application retains a reference.  The *)
(* properties are the same formulas for all of them.                       *)
(***************************************************************************)
EXTENDS Disk

VARIABLE mode

OneIdentity == CHOOSE k \in Keys : TRUE

SingleChanges == {batch \in Buckets : \A k \in Keys \ {OneIdentity} : batch[k] = Absent}

Deferred ==
    INSTANCE Disk WITH
      PerBlob <- FALSE, V2 <- FALSE, Batches <- SingleChanges,
      MaxSeq <- MaxSeq - 1, MaxDebris <- 1, MaxRetained <- 0

DeferredV2 ==
    INSTANCE Disk WITH
      PerBlob <- FALSE, V2 <- TRUE, Batches <- SingleChanges,
      MaxSeq <- MaxSeq - 1, MaxDebris <- 1, MaxRetained <- 1

MCInit == mode \in {"per_blob", "pre_publish", "pre_publish_v2"} /\ Init

MCNext ==
    \/ mode = "per_blob" /\ Next /\ UNCHANGED mode
    \/ mode = "pre_publish" /\ Deferred!Next /\ UNCHANGED mode
    \/ mode = "pre_publish_v2" /\ DeferredV2!Next /\ UNCHANGED mode

MCSpec == MCInit /\ [][MCNext]_<<mode, vars>>

(***************************************************************************)
(* AlwaysReopens: whatever is left behind in the catalog, the next open    *)
(* accepts it; and under per_blob a first open that was interrupted can be *)
(* repeated (CatalogReopens, InitializationResumes, disk.zig 100-115).     *)
(***************************************************************************)
AlwaysReopens == CatalogReopens /\ (mode = "per_blob" => InitializationResumes)

=============================================================================

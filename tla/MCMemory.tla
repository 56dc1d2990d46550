------------------------------ MODULE MCMemory ------------------------------
(***************************************************************************)
(* Instances of the database in memory for TLC, one of them at a time: the *)
(* level-by-level walk over reference-counted buckets, and the handles of  *)
(* batches and prepared advances.  The handles see an advance as one step, *)
(* which is what the walk is shown to implement; the two share no state.   *)
(***************************************************************************)
EXTENDS ListAdvance, Database

VARIABLE mode

mcVars == <<mode, advanceVars, vars>>

MCInit == mode \in {"walk", "database"} /\ AdvanceInit /\ Init

(* Bounds: the walk goes on for MaxSeq advances, whose batches change one  *)
(* identity; the handles go on for three, and change two.                  *)
OneKey == CHOOSE k \in Keys : TRUE

ChangesOneKey(batch) == \A k \in Keys \ {OneKey} : batch[k] = Absent

Short == INSTANCE Database WITH MaxSeq <- 3

MCNext ==
    \/ /\ mode = "walk" /\ AdvanceNext /\ ChangesOneKey(Stored(fresh)')
       /\ UNCHANGED <<mode, vars>>
    \/ mode = "database" /\ Short!Next /\ UNCHANGED <<mode, advanceVars>>

MCSpec == MCInit /\ [][MCNext]_mcVars

=============================================================================

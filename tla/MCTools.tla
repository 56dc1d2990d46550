------------------------------ MODULE MCTools ------------------------------
(***************************************************************************)
(* The tools around the library, one of them at a time: the schema tool,   *)
(* the fuzzing wrapper, the version-two vectors, the benchmark and its     *)
(* judge, and the reference model over its corpus.  They share no state;   *)
(* a behaviour chooses its tool at the start and the others stay as they   *)
(* begin.                                                                  *)
(***************************************************************************)
EXTENDS BlockTree, DiskBench, Toolchain, GuidedFuzz, Reference

VARIABLE tool

Tools == {"toolchain", "guided", "vectors", "bench", "corpus"}

MCInit ==
    /\ tool \in Tools
    /\ ToolchainInit /\ (tool # "toolchain" => ~ owned)
    /\ GuidedInit /\ (tool # "guided" => selfTest)
    /\ BlockInit
    /\ BenchInit /\ (tool # "bench" =>
                       config = [records |-> 4, batch_rows |-> 1, diverges |-> 6])
    /\ CorpusStart /\ (tool # "corpus" => model.depth = 1)

Uses(name) == tool = name /\ UNCHANGED tool

Guided(step) ==
    Uses("guided") /\ step /\ UNCHANGED <<toolVars, blockVars, benchVars, referenceVars>>

MCNext ==
    \/ /\ Uses("toolchain") /\ ToolchainNext
       /\ UNCHANGED <<guidedVars, blockVars, benchVars, referenceVars>>
    \/ Guided(GuidedNext)
    \/ /\ Uses("vectors") /\ BlockNext
       /\ UNCHANGED <<toolVars, guidedVars, benchVars, referenceVars>>
    \/ /\ Uses("bench") /\ BenchNext
       /\ UNCHANGED <<toolVars, guidedVars, blockVars, referenceVars>>
    \/ /\ Uses("corpus") /\ CorpusStep
       /\ UNCHANGED <<toolVars, guidedVars, blockVars, benchVars>>

mcVars == <<tool, toolVars, guidedVars, blockVars, benchVars, referenceVars>>

(* GuidedFairness, where the wrapper is the tool that runs. *)
MCSpec ==
    /\ MCInit /\ [][MCNext]_mcVars
    /\ WF_mcVars(Guided(WrapperStep)) /\ WF_mcVars(Guided(Late))

-----------------------------------------------------------------------------
(***************************************************************************)
(* WrapperEnds: the fuzzing wrapper ends whatever its campaign does        *)
(* (GuidedEnds, guided-fuzz.py 82-100).                                    *)
(***************************************************************************)
WrapperEnds == tool = "guided" => GuidedEnds

=============================================================================

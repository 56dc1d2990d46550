------------------------------ MODULE ToolsProofs ------------------------------
(***************************************************************************)
(* Proofs about the schema tool, for any number of calls at a time, any    *)
(* outputs and any bounds on calls, faults and edits; about the wrapper of *)
(* the guided fuzzing campaigns, for any inputs that one leaves; and about *)
(* the block tree of the second hash version, for any sizes of records and *)
(* any number of blocks: the hash that the tool computes, and the paths.   *)
(***************************************************************************)
EXTENDS Toolchain, GuidedFuzz, BlockTree,
        WellFoundedInduction, FiniteSetTheorems, TLAPS

(***************************************************************************)
(* Holding(p): what a call has in hand is what its place says, and from    *)
(* the moment a generator is stamped or trusted until it runs, the cached  *)
(* one is complete: it can only be torn by a loss of power, which ends     *)
(* every call.                                                             *)
(***************************************************************************)
Holding(p) ==
    /\ pc[p] = "unpacked" => held[p] \in {"pinned", "other"}
    /\ pc[p] = "install" => held[p] = "pinned"
    /\ pc[p] = "stamp?" => held[p] \in {"build", "torn"}
                           /\ (held[p] = "build" => binary = "build")
    /\ pc[p] \in {"replace", "stamp"} => held[p] = "build"
    /\ pc[p] \in {"digest", "stamp", "snapshot", "generate"} => binary = "build"

(* The package is never another one and the stamp never that of a torn     *)
(* generator: stronger than the types of the module.                       *)
SharedOK ==
    /\ package \in {"missing", "pinned", "damaged"}
    /\ binary \in {"none", "build", "torn"} /\ stamp \in {"none", "build", "partial"}
    /\ schema \in Nat \ {0}
    /\ outputs \in [Outputs -> Int]
    /\ abandoned \in BOOLEAN /\ owned \in BOOLEAN
    /\ runs \in 0..MaxRuns /\ faults \in 0..MaxFaults /\ edits \in 0..MaxEdits
    /\ abandoned => faults > 0

LocalOK ==
    /\ pc \in [Procs -> Places] /\ op \in [Procs -> Ops]
    /\ held \in [Procs -> {"none", "build", "torn", "pinned", "other"}]
    /\ version \in [Procs -> Nat]
    /\ compared \in [Procs -> SUBSET Outputs] /\ changed \in [Procs -> SUBSET Outputs]
    /\ dirty \in [Procs -> BOOLEAN]

HeldInv == SharedOK /\ LocalOK /\ \A p \in Procs : Holding(p)

LEMMA HeldInit == ToolchainInit => HeldInv
<1> SUFFICES ASSUME ToolchainInit PROVE HeldInv
  OBVIOUS
<1>1. SharedOK
  <2>1. outputs \in [Outputs -> Int] /\ schema \in Nat \ {0}
    BY DEF ToolchainInit
  <2>2. runs \in 0..MaxRuns /\ faults \in 0..MaxFaults /\ edits \in 0..MaxEdits
    BY ToolchainAssumption DEF ToolchainInit
  <2>3. abandoned = FALSE /\ owned \in BOOLEAN
    BY DEF ToolchainInit
  <2>. QED
    BY <2>1, <2>2, <2>3 DEF ToolchainInit, SharedOK
<1>2. LocalOK
  BY DEF ToolchainInit, LocalOK, Ops, Places, Done
<1>3. ASSUME NEW p \in Procs PROVE Holding(p)
  BY DEF ToolchainInit, Holding
<1>. QED
  BY <1>1, <1>2, <1>3 DEF HeldInv

LEMMA HeldStep == HeldInv /\ [ToolchainNext]_toolVars => HeldInv'
<1> SUFFICES ASSUME HeldInv, [ToolchainNext]_toolVars
             PROVE  HeldInv'
  OBVIOUS
<1> USE ToolchainAssumption DEF HeldInv
<1>1. ASSUME NEW p \in Procs, NEW operation \in Ops, Call(p, operation) PROVE HeldInv'
  <2>1. SharedOK'
    BY <1>1 DEF SharedOK, LocalOK, Holding, Places, Done, Call, Ops, Goto, Hold, NotPublishing, shared, counts
  <2>2. LocalOK'
    BY <1>1 DEF SharedOK, LocalOK, Holding, Places, Done, Call, Ops, Goto, Hold, NotPublishing, shared, counts
  <2>3. ASSUME NEW q \in Procs PROVE Holding(q)'
    BY <1>1 DEF SharedOK, LocalOK, Holding, Places, Done, Call, Ops, Goto, Hold, NotPublishing, shared, counts
  <2>. QED
    BY <2>1, <2>2, <2>3
<1>2. ASSUME NEW p \in Procs, CheckInstalled(p) PROVE HeldInv'
  <2>1. SharedOK'
    BY <1>2 DEF SharedOK, LocalOK, Holding, Places, Done, CheckInstalled, Goto, Hold, NotPublishing, shared, counts
  <2>2. LocalOK'
    BY <1>2 DEF SharedOK, LocalOK, Holding, Places, Done, CheckInstalled, Goto, Hold, NotPublishing, shared, counts
  <2>3. ASSUME NEW q \in Procs PROVE Holding(q)'
    BY <1>2 DEF SharedOK, LocalOK, Holding, Places, Done, CheckInstalled, Goto, Hold, NotPublishing, shared, counts
  <2>. QED
    BY <2>1, <2>2, <2>3
<1>3. ASSUME NEW p \in Procs, Fetch(p) PROVE HeldInv'
  <2>1. SharedOK'
    BY <1>3 DEF SharedOK, LocalOK, Holding, Places, Done, Fetch, Goto, Hold, NotPublishing, shared, counts
  <2>2. LocalOK'
    BY <1>3 DEF SharedOK, LocalOK, Holding, Places, Done, Fetch, Goto, Hold, NotPublishing, shared, counts
  <2>3. ASSUME NEW q \in Procs PROVE Holding(q)'
    BY <1>3 DEF SharedOK, LocalOK, Holding, Places, Done, Fetch, Goto, Hold, NotPublishing, shared, counts
  <2>. QED
    BY <2>1, <2>2, <2>3
<1>4. ASSUME NEW p \in Procs, VerifyUnpacked(p) PROVE HeldInv'
  <2>1. SharedOK'
    BY <1>4 DEF SharedOK, LocalOK, Holding, Places, Done, VerifyUnpacked, Goto, Hold, NotPublishing, shared, counts
  <2>2. LocalOK'
    BY <1>4 DEF SharedOK, LocalOK, Holding, Places, Done, VerifyUnpacked, Goto, Hold, NotPublishing, shared, counts
  <2>3. ASSUME NEW q \in Procs PROVE Holding(q)'
    BY <1>4 DEF SharedOK, LocalOK, Holding, Places, Done, VerifyUnpacked, Goto, Hold, NotPublishing, shared, counts
  <2>. QED
    BY <2>1, <2>2, <2>3
<1>5. ASSUME NEW p \in Procs, Install(p) PROVE HeldInv'
  <2>1. SharedOK'
    BY <1>5 DEF SharedOK, LocalOK, Holding, Places, Done, Install, Goto, Hold, NotPublishing, shared, counts
  <2>2. LocalOK'
    BY <1>5 DEF SharedOK, LocalOK, Holding, Places, Done, Install, Goto, Hold, NotPublishing, shared, counts
  <2>3. ASSUME NEW q \in Procs PROVE Holding(q)'
    BY <1>5 DEF SharedOK, LocalOK, Holding, Places, Done, Install, Goto, Hold, NotPublishing, shared, counts
  <2>. QED
    BY <2>1, <2>2, <2>3
<1>6. ASSUME NEW p \in Procs, VerifyInstalled(p) PROVE HeldInv'
  <2>1. SharedOK'
    BY <1>6 DEF SharedOK, LocalOK, Holding, Places, Done, VerifyInstalled, Strangers, Goto, Hold, NotPublishing, shared, counts
  <2>2. LocalOK'
    BY <1>6 DEF SharedOK, LocalOK, Holding, Places, Done, VerifyInstalled, Strangers, Goto, Hold, NotPublishing, shared, counts
  <2>3. ASSUME NEW q \in Procs PROVE Holding(q)'
    BY <1>6 DEF SharedOK, LocalOK, Holding, Places, Done, VerifyInstalled, Strangers, Goto, Hold, NotPublishing, shared, counts
  <2>. QED
    BY <2>1, <2>2, <2>3
<1>7. ASSUME NEW p \in Procs, ReadCached(p) PROVE HeldInv'
  <2>1. SharedOK'
    BY <1>7 DEF SharedOK, LocalOK, Holding, Places, Done, ReadCached, Goto, Hold, NotPublishing, shared, counts
  <2>2. LocalOK'
    BY <1>7 DEF SharedOK, LocalOK, Holding, Places, Done, ReadCached, Goto, Hold, NotPublishing, shared, counts
  <2>3. ASSUME NEW q \in Procs PROVE Holding(q)'
    BY <1>7 DEF SharedOK, LocalOK, Holding, Places, Done, ReadCached, Goto, Hold, NotPublishing, shared, counts
  <2>. QED
    BY <2>1, <2>2, <2>3
<1>8. ASSUME NEW p \in Procs, CompareStamp(p) PROVE HeldInv'
  <2>1. SharedOK'
    BY <1>8 DEF SharedOK, LocalOK, Holding, Places, Done, CompareStamp, Goto, Hold, NotPublishing, shared, counts
  <2>2. LocalOK'
    BY <1>8 DEF SharedOK, LocalOK, Holding, Places, Done, CompareStamp, Goto, Hold, NotPublishing, shared, counts
  <2>3. ASSUME NEW q \in Procs PROVE Holding(q)'
    BY <1>8 DEF SharedOK, LocalOK, Holding, Places, Done, CompareStamp, Goto, Hold, NotPublishing, shared, counts
  <2>. QED
    BY <2>1, <2>2, <2>3
<1>9. ASSUME NEW p \in Procs, BuildGenerator(p) PROVE HeldInv'
  <2>1. SharedOK'
    BY <1>9 DEF SharedOK, LocalOK, Holding, Places, Done, BuildGenerator, Goto, Hold, NotPublishing, shared, counts
  <2>2. LocalOK'
    BY <1>9 DEF SharedOK, LocalOK, Holding, Places, Done, BuildGenerator, Goto, Hold, NotPublishing, shared, counts
  <2>3. ASSUME NEW q \in Procs PROVE Holding(q)'
    BY <1>9 DEF SharedOK, LocalOK, Holding, Places, Done, BuildGenerator, Goto, Hold, NotPublishing, shared, counts
  <2>. QED
    BY <2>1, <2>2, <2>3
<1>10. ASSUME NEW p \in Procs, ReplaceGenerator(p) PROVE HeldInv'
  <2>1. SharedOK'
    BY <1>10 DEF SharedOK, LocalOK, Holding, Places, Done, ReplaceGenerator, Goto, Hold, NotPublishing, shared, counts
  <2>2. LocalOK'
    BY <1>10 DEF SharedOK, LocalOK, Holding, Places, Done, ReplaceGenerator, Goto, Hold, NotPublishing, shared, counts
  <2>3. ASSUME NEW q \in Procs PROVE Holding(q)'
    BY <1>10 DEF SharedOK, LocalOK, Holding, Places, Done, ReplaceGenerator, Goto, Hold, NotPublishing, shared, counts
  <2>. QED
    BY <2>1, <2>2, <2>3
<1>11. ASSUME NEW p \in Procs, DigestGenerator(p) PROVE HeldInv'
  <2>1. SharedOK'
    BY <1>11 DEF SharedOK, LocalOK, Holding, Places, Done, DigestGenerator, Goto, Hold, NotPublishing, shared, counts
  <2>2. LocalOK'
    BY <1>11 DEF SharedOK, LocalOK, Holding, Places, Done, DigestGenerator, Goto, Hold, NotPublishing, shared, counts
  <2>3. ASSUME NEW q \in Procs PROVE Holding(q)'
    BY <1>11 DEF SharedOK, LocalOK, Holding, Places, Done, DigestGenerator, Goto, Hold, NotPublishing, shared, counts
  <2>. QED
    BY <2>1, <2>2, <2>3
<1>12. ASSUME NEW p \in Procs, WriteStamp(p) PROVE HeldInv'
  <2>1. SharedOK'
    BY <1>12 DEF SharedOK, LocalOK, Holding, Places, Done, WriteStamp, Goto, Hold, NotPublishing, shared, counts
  <2>2. LocalOK'
    BY <1>12 DEF SharedOK, LocalOK, Holding, Places, Done, WriteStamp, Goto, Hold, NotPublishing, shared, counts
  <2>3. ASSUME NEW q \in Procs PROVE Holding(q)'
    BY <1>12 DEF SharedOK, LocalOK, Holding, Places, Done, WriteStamp, Goto, Hold, NotPublishing, shared, counts
  <2>. QED
    BY <2>1, <2>2, <2>3
<1>13. ASSUME NEW p \in Procs, Snapshot(p) PROVE HeldInv'
  <2>1. SharedOK'
    BY <1>13 DEF SharedOK, LocalOK, Holding, Places, Done, Snapshot, Goto, Hold, NotPublishing, shared, counts
  <2>2. LocalOK'
    BY <1>13 DEF SharedOK, LocalOK, Holding, Places, Done, Snapshot, Goto, Hold, NotPublishing, shared, counts
  <2>3. ASSUME NEW q \in Procs PROVE Holding(q)'
    BY <1>13 DEF SharedOK, LocalOK, Holding, Places, Done, Snapshot, Goto, Hold, NotPublishing, shared, counts
  <2>. QED
    BY <2>1, <2>2, <2>3
<1>14. ASSUME NEW p \in Procs, RunGenerator(p) PROVE HeldInv'
  <2>1. SharedOK'
    BY <1>14 DEF SharedOK, LocalOK, Holding, Places, Done, RunGenerator, Goto, Hold, NotPublishing, shared, counts
  <2>2. LocalOK'
    BY <1>14 DEF SharedOK, LocalOK, Holding, Places, Done, RunGenerator, Goto, Hold, NotPublishing, shared, counts
  <2>3. ASSUME NEW q \in Procs PROVE Holding(q)'
    BY <1>14 DEF SharedOK, LocalOK, Holding, Places, Done, RunGenerator, Goto, Hold, NotPublishing, shared, counts
  <2>. QED
    BY <2>1, <2>2, <2>3
<1>15. ASSUME NEW p \in Procs, NEW o \in Outputs, CompareOutput(p, o) PROVE HeldInv'
  <2>1. SharedOK'
    BY <1>15 DEF SharedOK, LocalOK, Holding, Places, Done, CompareOutput, Goto, Hold, NotPublishing, shared, counts
  <2>2. LocalOK'
    BY <1>15 DEF SharedOK, LocalOK, Holding, Places, Done, CompareOutput, Goto, Hold, NotPublishing, shared, counts
  <2>3. ASSUME NEW q \in Procs PROVE Holding(q)'
    BY <1>15 DEF SharedOK, LocalOK, Holding, Places, Done, CompareOutput, Goto, Hold, NotPublishing, shared, counts
  <2>. QED
    BY <2>1, <2>2, <2>3
<1>16. ASSUME NEW p \in Procs, NEW o \in Outputs, SwapOutput(p, o) PROVE HeldInv'
  <2>1. SharedOK'
    BY <1>16 DEF SharedOK, LocalOK, Holding, Places, Done, SwapOutput, Disturb, Goto, Hold, NotPublishing, shared, counts
  <2>2. LocalOK'
    BY <1>16 DEF SharedOK, LocalOK, Holding, Places, Done, SwapOutput, Disturb, Goto, Hold, NotPublishing, shared, counts
  <2>3. ASSUME NEW q \in Procs PROVE Holding(q)'
    BY <1>16 DEF SharedOK, LocalOK, Holding, Places, Done, SwapOutput, Disturb, Goto, Hold, NotPublishing, shared, counts
  <2>. QED
    BY <2>1, <2>2, <2>3
<1>17. ASSUME NEW p \in Procs, EndCompare(p) PROVE HeldInv'
  <2>1. SharedOK'
    BY <1>17 DEF SharedOK, LocalOK, Holding, Places, Done, EndCompare, Goto, Hold, NotPublishing, shared, counts
  <2>2. LocalOK'
    BY <1>17 DEF SharedOK, LocalOK, Holding, Places, Done, EndCompare, Goto, Hold, NotPublishing, shared, counts
  <2>3. ASSUME NEW q \in Procs PROVE Holding(q)'
    BY <1>17 DEF SharedOK, LocalOK, Holding, Places, Done, EndCompare, Goto, Hold, NotPublishing, shared, counts
  <2>. QED
    BY <2>1, <2>2, <2>3
<1>18. ASSUME NEW p \in Procs, WriteTemporary(p) PROVE HeldInv'
  <2>1. SharedOK'
    BY <1>18 DEF SharedOK, LocalOK, Holding, Places, Done, WriteTemporary, Goto, Hold, NotPublishing, shared, counts
  <2>2. LocalOK'
    BY <1>18 DEF SharedOK, LocalOK, Holding, Places, Done, WriteTemporary, Goto, Hold, NotPublishing, shared, counts
  <2>3. ASSUME NEW q \in Procs PROVE Holding(q)'
    BY <1>18 DEF SharedOK, LocalOK, Holding, Places, Done, WriteTemporary, Goto, Hold, NotPublishing, shared, counts
  <2>. QED
    BY <2>1, <2>2, <2>3
<1>19. ASSUME NEW p \in Procs, WriteFails(p) PROVE HeldInv'
  <2>1. SharedOK'
    BY <1>19 DEF SharedOK, LocalOK, Holding, Places, Done, WriteFails, Goto, Hold, NotPublishing, shared, counts
  <2>2. LocalOK'
    BY <1>19 DEF SharedOK, LocalOK, Holding, Places, Done, WriteFails, Goto, Hold, NotPublishing, shared, counts
  <2>3. ASSUME NEW q \in Procs PROVE Holding(q)'
    BY <1>19 DEF SharedOK, LocalOK, Holding, Places, Done, WriteFails, Goto, Hold, NotPublishing, shared, counts
  <2>. QED
    BY <2>1, <2>2, <2>3
<1>20. ASSUME NEW p \in Procs, SwapFails(p) PROVE HeldInv'
  <2>1. SharedOK'
    BY <1>20 DEF SharedOK, LocalOK, Holding, Places, Done, SwapFails, Goto, Hold, NotPublishing, shared, counts
  <2>2. LocalOK'
    BY <1>20 DEF SharedOK, LocalOK, Holding, Places, Done, SwapFails, Goto, Hold, NotPublishing, shared, counts
  <2>3. ASSUME NEW q \in Procs PROVE Holding(q)'
    BY <1>20 DEF SharedOK, LocalOK, Holding, Places, Done, SwapFails, Goto, Hold, NotPublishing, shared, counts
  <2>. QED
    BY <2>1, <2>2, <2>3
<1>21. ASSUME NEW p \in Procs, Kill(p) PROVE HeldInv'
  <2>1. SharedOK'
    BY <1>21 DEF SharedOK, LocalOK, Holding, Places, Done, Kill, Goto, Hold, NotPublishing, shared, counts
  <2>2. LocalOK'
    BY <1>21 DEF SharedOK, LocalOK, Holding, Places, Done, Kill, Goto, Hold, NotPublishing, shared, counts
  <2>3. ASSUME NEW q \in Procs PROVE Holding(q)'
    BY <1>21 DEF SharedOK, LocalOK, Holding, Places, Done, Kill, Goto, Hold, NotPublishing, shared, counts
  <2>. QED
    BY <2>1, <2>2, <2>3
<1>22. ASSUME PowerLoss PROVE HeldInv'
  <2>1. SharedOK'
    BY <1>22 DEF SharedOK, LocalOK, Holding, Places, Done, PowerLoss, Disturb, TornOutput, Goto, Hold, NotPublishing, shared, counts
  <2>2. LocalOK'
    BY <1>22 DEF SharedOK, LocalOK, Holding, Places, Done, PowerLoss, Disturb, TornOutput, Goto, Hold, NotPublishing, shared, counts
  <2>3. ASSUME NEW q \in Procs PROVE Holding(q)'
    BY <1>22 DEF SharedOK, LocalOK, Holding, Places, Done, PowerLoss, Disturb, TornOutput, Goto, Hold, NotPublishing, shared, counts
  <2>. QED
    BY <2>1, <2>2, <2>3
<1>23. ASSUME EditSchema PROVE HeldInv'
  <2>1. SharedOK'
    BY <1>23 DEF SharedOK, LocalOK, Holding, Places, Done, EditSchema, Disturb, Goto, Hold, NotPublishing, shared, counts
  <2>2. LocalOK'
    BY <1>23 DEF SharedOK, LocalOK, Holding, Places, Done, EditSchema, Disturb, Goto, Hold, NotPublishing, shared, counts
  <2>3. ASSUME NEW q \in Procs PROVE Holding(q)'
    BY <1>23 DEF SharedOK, LocalOK, Holding, Places, Done, EditSchema, Disturb, Goto, Hold, NotPublishing, shared, counts
  <2>. QED
    BY <2>1, <2>2, <2>3
<1>24. ASSUME NEW o \in Outputs, EditOutput(o) PROVE HeldInv'
  <2>1. SharedOK'
    BY <1>24 DEF SharedOK, LocalOK, Holding, Places, Done, EditOutput, Disturb, EditedOutput, Goto, Hold, NotPublishing, shared, counts
  <2>2. LocalOK'
    BY <1>24 DEF SharedOK, LocalOK, Holding, Places, Done, EditOutput, Disturb, EditedOutput, Goto, Hold, NotPublishing, shared, counts
  <2>3. ASSUME NEW q \in Procs PROVE Holding(q)'
    BY <1>24 DEF SharedOK, LocalOK, Holding, Places, Done, EditOutput, Disturb, EditedOutput, Goto, Hold, NotPublishing, shared, counts
  <2>. QED
    BY <2>1, <2>2, <2>3
<1>25. CASE UNCHANGED toolVars
  BY <1>25 DEF toolVars, shared, counts, local, SharedOK, LocalOK, Holding
<1>. QED
  BY <1>1, <1>2, <1>3, <1>4, <1>5, <1>6, <1>7, <1>8, <1>9, <1>10, <1>11, <1>12, <1>13, <1>14, <1>15, <1>16, <1>17, <1>18, <1>19, <1>20, <1>21, <1>22, <1>23, <1>24, <1>25
     DEF ToolchainNext, ToolStep

(***************************************************************************)
(* What a call holds is what its place says, wherever others are.          *)
(***************************************************************************)
THEOREM HeldInvariant == ToolchainSpec => []HeldInv
BY HeldInit, HeldStep, PTL DEF ToolchainSpec

(***************************************************************************)
(* The type invariant of the schema tool, for any number of calls.         *)
(***************************************************************************)
THEOREM ToolTypeCorrect == ToolchainSpec => []ToolchainTypeOK
<1>1. HeldInv => ToolchainTypeOK
  BY DEF HeldInv, SharedOK, LocalOK, ToolchainTypeOK
<1>. QED
  BY <1>1, HeldInvariant, PTL

(***************************************************************************)
(* However calls of bootstrap race, and wherever they are killed, nothing  *)
(* but the pinned package is installed (capnp_tool.py 160-169).            *)
(***************************************************************************)
THEOREM PackageStaysPinned == ToolchainSpec => []PackageIsPinned
<1>1. HeldInv => PackageIsPinned
  BY DEF HeldInv, SharedOK, PackageIsPinned
<1>. QED
  BY <1>1, HeldInvariant, PTL

(***************************************************************************)
(* A generator about to be run is a complete build: no stamp vouches for a *)
(* torn one, and no call replaces it by a part of one (capnp_tool.py 205,  *)
(* 234-235).                                                               *)
(***************************************************************************)
THEOREM GeneratorStaysWhole == ToolchainSpec => []GeneratorIsWhole
<1>1. HeldInv => GeneratorIsWhole
  BY DEF HeldInv, Holding, GeneratorIsWhole
<1>. QED
  BY <1>1, HeldInvariant, PTL

(***************************************************************************)
(* So the package and the generator are both what they should be, however  *)
(* many calls race (capnp_tool.py 160-169, 205, 234-235).                  *)
(***************************************************************************)
THEOREM ToolsStayWhole == ToolchainSpec => []ToolsAreWhole
BY PackageStaysPinned, GeneratorStaysWhole, PTL DEF ToolsAreWhole

(***************************************************************************)
(* Following(p): a call that generates or publishes, and under which       *)
(* nothing was changed, generated from the schemas as they are, and every  *)
(* output it has compared and not put on its list is up to date.  It ends  *)
(* well only with every output compared and none left on the list.         *)
(***************************************************************************)
EndedWell(p) == pc[p] = "ok" /\ op[p] # "bootstrap"

Following(p) ==
    /\ pc[p] \in {"installed?", "fetch", "unpacked", "install"} => op[p] = "bootstrap"
    /\ pc[p] \in {"verify", "cached?", "stamp?", "build", "replace", "digest",
                  "stamp", "snapshot", "generate"} => compared[p] = {}
    /\ /\ pc[p] \in {"generate", "compare", "write", "swap"} \/ EndedWell(p)
       /\ ~ dirty[p]
       => /\ version[p] = schema
          /\ \A o \in compared[p] \ changed[p] : outputs[o] = schema
    /\ pc[p] \in {"write", "swap"} \/ EndedWell(p) => compared[p] = Outputs
    /\ EndedWell(p) => changed[p] = {}

FollowInv == SharedOK /\ LocalOK /\ \A p \in Procs : Following(p)

LEMMA FollowInit == ToolchainInit => FollowInv
<1> SUFFICES ASSUME ToolchainInit PROVE FollowInv
  OBVIOUS
<1>1. SharedOK /\ LocalOK
  BY HeldInit DEF HeldInv
<1>2. ASSUME NEW p \in Procs PROVE Following(p)
  BY DEF ToolchainInit, Following, EndedWell
<1>. QED
  BY <1>1, <1>2 DEF FollowInv

LEMMA FollowStep ==
    FollowInv /\ SharedOK' /\ LocalOK' /\ [ToolchainNext]_toolVars => FollowInv'
<1> SUFFICES ASSUME FollowInv, [ToolchainNext]_toolVars, NEW q \in Procs
             PROVE  Following(q)'
  BY DEF FollowInv
<1> USE DEF FollowInv
<1>1. ASSUME NEW p \in Procs, NEW operation \in Ops, Call(p, operation) PROVE Following(q)'
  BY <1>1 DEF SharedOK, LocalOK, Following, EndedWell, Call, Ops, Goto, Hold, NotPublishing, shared, counts
<1>2. ASSUME NEW p \in Procs, CheckInstalled(p) PROVE Following(q)'
  BY <1>2 DEF SharedOK, LocalOK, Following, EndedWell, CheckInstalled, Goto, Hold, NotPublishing, shared, counts
<1>3. ASSUME NEW p \in Procs, Fetch(p) PROVE Following(q)'
  BY <1>3 DEF SharedOK, LocalOK, Following, EndedWell, Fetch, Goto, Hold, NotPublishing, shared, counts
<1>4. ASSUME NEW p \in Procs, VerifyUnpacked(p) PROVE Following(q)'
  BY <1>4 DEF SharedOK, LocalOK, Following, EndedWell, VerifyUnpacked, Goto, Hold, NotPublishing, shared, counts
<1>5. ASSUME NEW p \in Procs, Install(p) PROVE Following(q)'
  BY <1>5 DEF SharedOK, LocalOK, Following, EndedWell, Install, Goto, Hold, NotPublishing, shared, counts
<1>6. ASSUME NEW p \in Procs, VerifyInstalled(p) PROVE Following(q)'
  BY <1>6 DEF SharedOK, LocalOK, Following, EndedWell, VerifyInstalled, Strangers, Goto, Hold, NotPublishing, shared, counts
<1>7. ASSUME NEW p \in Procs, ReadCached(p) PROVE Following(q)'
  BY <1>7 DEF SharedOK, LocalOK, Following, EndedWell, ReadCached, Goto, Hold, NotPublishing, shared, counts
<1>8. ASSUME NEW p \in Procs, CompareStamp(p) PROVE Following(q)'
  BY <1>8 DEF SharedOK, LocalOK, Following, EndedWell, CompareStamp, Goto, Hold, NotPublishing, shared, counts
<1>9. ASSUME NEW p \in Procs, BuildGenerator(p) PROVE Following(q)'
  BY <1>9 DEF SharedOK, LocalOK, Following, EndedWell, BuildGenerator, Goto, Hold, NotPublishing, shared, counts
<1>10. ASSUME NEW p \in Procs, ReplaceGenerator(p) PROVE Following(q)'
  BY <1>10 DEF SharedOK, LocalOK, Following, EndedWell, ReplaceGenerator, Goto, Hold, NotPublishing, shared, counts
<1>11. ASSUME NEW p \in Procs, DigestGenerator(p) PROVE Following(q)'
  BY <1>11 DEF SharedOK, LocalOK, Following, EndedWell, DigestGenerator, Goto, Hold, NotPublishing, shared, counts
<1>12. ASSUME NEW p \in Procs, WriteStamp(p) PROVE Following(q)'
  BY <1>12 DEF SharedOK, LocalOK, Following, EndedWell, WriteStamp, Goto, Hold, NotPublishing, shared, counts
<1>13. ASSUME NEW p \in Procs, Snapshot(p) PROVE Following(q)'
  BY <1>13 DEF SharedOK, LocalOK, Following, EndedWell, Snapshot, Goto, Hold, NotPublishing, shared, counts
<1>14. ASSUME NEW p \in Procs, RunGenerator(p) PROVE Following(q)'
  BY <1>14 DEF SharedOK, LocalOK, Following, EndedWell, RunGenerator, Goto, Hold, NotPublishing, shared, counts
<1>15. ASSUME NEW p \in Procs, NEW o \in Outputs, CompareOutput(p, o) PROVE Following(q)'
  BY <1>15 DEF SharedOK, LocalOK, Following, EndedWell, CompareOutput, Goto, Hold, NotPublishing, shared, counts
<1>16. ASSUME NEW p \in Procs, NEW o \in Outputs, SwapOutput(p, o) PROVE Following(q)'
  BY <1>16 DEF SharedOK, LocalOK, Following, EndedWell, SwapOutput, Disturb, Goto, Hold, NotPublishing, shared, counts
<1>17. ASSUME NEW p \in Procs, EndCompare(p) PROVE Following(q)'
  BY <1>17 DEF SharedOK, LocalOK, Following, EndedWell, EndCompare, Goto, Hold, NotPublishing, shared, counts
<1>18. ASSUME NEW p \in Procs, WriteTemporary(p) PROVE Following(q)'
  BY <1>18 DEF SharedOK, LocalOK, Following, EndedWell, WriteTemporary, Goto, Hold, NotPublishing, shared, counts
<1>19. ASSUME NEW p \in Procs, WriteFails(p) PROVE Following(q)'
  BY <1>19 DEF SharedOK, LocalOK, Following, EndedWell, WriteFails, Goto, Hold, NotPublishing, shared, counts
<1>20. ASSUME NEW p \in Procs, SwapFails(p) PROVE Following(q)'
  BY <1>20 DEF SharedOK, LocalOK, Following, EndedWell, SwapFails, Goto, Hold, NotPublishing, shared, counts
<1>21. ASSUME NEW p \in Procs, Kill(p) PROVE Following(q)'
  BY <1>21 DEF SharedOK, LocalOK, Following, EndedWell, Kill, Goto, Hold, NotPublishing, shared, counts
<1>22. ASSUME PowerLoss PROVE Following(q)'
  BY <1>22 DEF SharedOK, LocalOK, Following, EndedWell, PowerLoss, Disturb, TornOutput, Goto, Hold, NotPublishing, shared, counts
<1>23. ASSUME EditSchema PROVE Following(q)'
  BY <1>23 DEF SharedOK, LocalOK, Following, EndedWell, EditSchema, Disturb, Goto, Hold, NotPublishing, shared, counts
<1>24. ASSUME NEW o \in Outputs, EditOutput(o) PROVE Following(q)'
  BY <1>24 DEF SharedOK, LocalOK, Following, EndedWell, EditOutput, Disturb, EditedOutput, Goto, Hold, NotPublishing, shared, counts
<1>25. CASE UNCHANGED toolVars
  BY <1>25 DEF toolVars, shared, counts, local, Following, EndedWell
<1>. QED
  BY <1>1, <1>2, <1>3, <1>4, <1>5, <1>6, <1>7, <1>8, <1>9, <1>10, <1>11, <1>12, <1>13, <1>14, <1>15, <1>16, <1>17, <1>18, <1>19, <1>20, <1>21, <1>22, <1>23, <1>24, <1>25
     DEF ToolchainNext, ToolStep

(***************************************************************************)
(* A gen or check that ended well, with nothing edited or torn since it    *)
(* copied the schemas, leaves every output the one of the schemas, however *)
(* many other calls ran beside it (capnp_tool.py 264-289).                 *)
(***************************************************************************)
THEOREM EndedWellIsCurrent == ToolchainSpec => []EndedMeansCurrent
<1>1. HeldInv => SharedOK /\ LocalOK
  BY DEF HeldInv
<1>2. FollowInv => EndedMeansCurrent
  BY DEF FollowInv, Following, EndedWell, EndedMeansCurrent
<1>. QED
  BY <1>1, <1>2, FollowInit, FollowStep, HeldInvariant, PTL DEF ToolchainSpec

-----------------------------------------------------------------------------
(***************************************************************************)
(* The wrapper.  Once it has stopped waiting the campaign has ended and    *)
(* its inputs and its log stay as they are; what was reproduced is real;   *)
(* and an input with the reported failure, until it is reproduced or its   *)
(* replay breaks down, still has its own test among those to be tried.     *)
(***************************************************************************)
Inputs == [test : 1..4, error : Errors \cup {NoError}, whole : BOOLEAN, diagnosed : BOOLEAN]

TestNames == {"none", "probe", "codec", "bucket", "proof", "checkpoint"}

Waits == {"poll", "clock", "kill"}

CampaignOK ==
    /\ selfTest \in BOOLEAN /\ forced \in TestNames /\ (forced = "none" => ~ selfTest)
    /\ late \in BOOLEAN /\ expired \in BOOLEAN /\ listed \in 0..1
    /\ inputs \in Seq(Inputs) /\ names \subseteq Errors
    /\ wrapper \in Waits \cup {"preserve", "verdict", "replay", "ended"}
    /\ process \in {"running", "zero", "nonzero", "killed"}
    /\ wrapper \notin Waits => process # "running"
    /\ process \in {"zero", "nonzero"} =>
         \A i \in 1..Len(inputs) : inputs[i].error # NoError => inputs[i].diagnosed

(* An input that fails, with what the log names. *)
Failing(i) ==
    /\ inputs[i].whole /\ inputs[i].error # NoError
    /\ Wanted \in {AnyError, inputs[i].error}

Pursued(i) ==
    /\ Failing(i) /\ forced = "none" /\ ~ spoilt
    /\ Tests[inputs[i].test] \in {"codec", "bucket", "checkpoint"}
    => \/ i \in reproduced
       \/ \E p \in 1..Len(queue[i]) : queue[i][p] = Tests[inputs[i].test]

ReplayOK ==
    /\ wrapper \notin {"replay", "ended"} => reproduced = {}
    /\ \A i \in reproduced : i \in 1..Len(inputs) /\ Failing(i)
    /\ wrapper \in {"verdict", "replay"} =>
         /\ DOMAIN queue = 1..Len(inputs)
         /\ \A i \in 1..Len(inputs) :
              /\ queue[i] \in Seq(TestNames)
              /\ queue[i] # <<>> => inputs[i].whole
              /\ Pursued(i)
    /\ wrapper = "replay" => FoundDiagnostics
    /\ wrapper # "ended" <=> verdict = "none"

WrapperInv == CampaignOK /\ ReplayOK /\ VerdictIsRight

LEMMA NoVerdict ==
    ASSUME verdict = "none"
    PROVE  VerdictIsRight
  BY DEF VerdictIsRight, FailClosed, FailuresSurface, FindingsAreReal, RecoveredIsReproduced,
         Recovered, Clean, FoundFailure

LEMMA WrapperInvInit == GuidedInit => WrapperInv
<1> SUFFICES ASSUME GuidedInit PROVE WrapperInv
  OBVIOUS
<1>1. CampaignOK
  <2>1. selfTest \in BOOLEAN /\ forced \in TestNames /\ (forced = "none" => ~ selfTest)
    BY DEF GuidedInit, TestNames
  <2>2. inputs \in Seq(Inputs) /\ Len(inputs) = 0
    BY DEF GuidedInit
  <2>3. late = FALSE /\ expired = FALSE /\ listed = 0 /\ names = {}
    BY DEF GuidedInit
  <2>4. wrapper \in Waits /\ process = "running"
    BY DEF GuidedInit, Waits
  <2>5. late \in BOOLEAN /\ expired \in BOOLEAN
    BY <2>3, Zenon
  <2>6. listed \in 0..1 /\ names \subseteq Errors
    <3>1. listed = 0 /\ names = {}
      BY <2>3, Zenon
    <3>. QED
      BY <3>1
  <2>7. /\ wrapper \in Waits \cup {"preserve", "verdict", "replay", "ended"}
        /\ process \in {"running", "zero", "nonzero", "killed"}
    BY <2>4
  <2>8. wrapper \notin Waits => process # "running"
    BY <2>4
  <2>9. process \in {"zero", "nonzero"} =>
          \A i \in 1..Len(inputs) : inputs[i].error # NoError => inputs[i].diagnosed
    BY <2>4
  <2>. QED
    BY <2>1, <2>2, <2>5, <2>6, <2>7, <2>8, <2>9 DEF CampaignOK
<1>2. ReplayOK
  BY DEF GuidedInit, ReplayOK
<1>3. VerdictIsRight
  BY NoVerdict DEF GuidedInit
<1>. QED
  BY <1>1, <1>2, <1>3 DEF WrapperInv

(* What the log names is the error of an input that failed. *)
LEMMA WantedIs ==
    ASSUME CampaignOK
    PROVE  /\ selfTest => Wanted = ProbeError
           /\ ~ selfTest /\ names = {} => Wanted = AnyError
           /\ ~ selfTest /\ names # {} => Wanted \in names
           /\ AnyError \notin Errors /\ ProbeError # AnyError
<1>1. names \subseteq Nat /\ AnyError \notin Errors
  BY GuidedAssumption DEF CampaignOK, AnyError
<1>2. ASSUME names # {} PROVE Min(names) \in names
  <2>1. PICK least \in names : \A n \in names : ~ (<<n, least>> \in OpToRel(<, Nat))
    BY <1>1, <1>2, WFMin, NatLessThanWellFounded
  <2>2. \A n \in names : ~ (n < least)
    BY <1>1, <2>1 DEF OpToRel
  <2>3. \A n \in names : least <= n
    <3>. SUFFICES ASSUME NEW n \in names PROVE least <= n
      OBVIOUS
    <3>1. n \in Nat /\ least \in Nat /\ ~ (n < least)
      BY <1>1, <2>2
    <3>. QED
      BY <3>1
  <2>. QED
    BY <2>3 DEF Min
<1>3. selfTest => Wanted = ProbeError
  BY DEF Wanted
<1>4. ~ selfTest /\ names = {} => Wanted = AnyError
  BY DEF Wanted
<1>5. ~ selfTest /\ names # {} => Wanted \in names
  BY <1>2, Zenon DEF Wanted
<1>6. ProbeError # AnyError
  BY DEF ProbeError, AnyError
<1>. QED
  BY <1>1, <1>3, <1>4, <1>5, <1>6

-----------------------------------------------------------------------------
(* While the campaign runs. *)
LEMMA CampaignKeeps ==
    ASSUME WrapperInv, CampaignStep
    PROVE  WrapperInv'
<1>1. /\ process = "running" /\ wrapper \in Waits /\ reproduced = {} /\ verdict = "none"
      /\ UNCHANGED <<selfTest, forced, late, wrapper, expired, queue, reproduced, spoilt, verdict>>
  <2>1. process = "running"
        /\ UNCHANGED <<selfTest, forced, late, wrapper, expired, queue, reproduced, spoilt, verdict>>
    BY DEF CampaignStep, Save, Diagnose, Exit
  <2>. QED
    BY <2>1 DEF WrapperInv, CampaignOK, ReplayOK, Waits
<1>2. CampaignOK'
  <2>1. ASSUME NEW test \in DOMAIN Tests, NEW error \in Errors \cup {NoError}, NEW whole \in BOOLEAN,
               Save(test, error, whole)
        PROVE  CampaignOK'
    <3>1. test \in 1..4
      BY DEF Tests
    <3>2. [test |-> test, error |-> error, whole |-> whole, diagnosed |-> FALSE] \in Inputs
      BY <3>1 DEF Inputs
    <3>3. inputs' \in Seq(Inputs)
      BY <2>1, <3>2 DEF Save, WrapperInv, CampaignOK
    <3>. QED
      BY <1>1, <2>1, <3>3 DEF Save, WrapperInv, CampaignOK
  <2>2. ASSUME NEW i \in 1..Len(inputs), NEW named \in BOOLEAN, Diagnose(i, named)
        PROVE  CampaignOK'
    <3>1. inputs \in Seq(Inputs) /\ inputs[i] \in Inputs /\ inputs[i].error # NoError
      BY <2>2 DEF Diagnose, WrapperInv, CampaignOK
    <3>2. [inputs[i] EXCEPT !.diagnosed = TRUE] \in Inputs
      BY <3>1 DEF Inputs
    <3>3. inputs' = [inputs EXCEPT ![i] = [inputs[i] EXCEPT !.diagnosed = TRUE]]
      BY <2>2 DEF Diagnose
    <3>4. inputs' \in Seq(Inputs)
      BY <3>1, <3>2, <3>3
    <3>5. names' \subseteq Errors
      BY <2>2, <3>1 DEF Diagnose, WrapperInv, CampaignOK, Inputs
    <3>. QED
      BY <1>1, <2>2, <3>4, <3>5 DEF Diagnose, WrapperInv, CampaignOK
  <2>3. ASSUME NEW status \in {"zero", "nonzero"}, NEW tests \in 0..1, Exit(status, tests)
        PROVE  CampaignOK'
    BY <1>1, <2>3 DEF Exit, WrapperInv, CampaignOK
  <2>. QED
    BY <2>1, <2>2, <2>3 DEF CampaignStep
<1>3. ReplayOK'
  BY <1>1 DEF ReplayOK, WrapperInv, Waits
<1>4. VerdictIsRight'
  <2>1. verdict' = "none"
    BY <1>1
  <2>. QED
    BY <2>1 DEF VerdictIsRight, FailClosed, FailuresSurface, FindingsAreReal, RecoveredIsReproduced,
         Recovered, Clean, FoundFailure
<1>. QED
  BY <1>2, <1>3, <1>4 DEF WrapperInv

-----------------------------------------------------------------------------
(* The wrapper waits. *)
LEMMA WaitingKeeps ==
    ASSUME WrapperInv, Late \/ Poll \/ Clock \/ KillGroup
    PROVE  WrapperInv'

<1>1. UNCHANGED <<selfTest, forced, inputs, names, listed, queue, reproduced, spoilt, verdict>>
  BY DEF Late, Poll, Clock, KillGroup, Waiting, campaign
<1>2. CampaignOK'
  BY <1>1 DEF Late, Poll, Clock, KillGroup, Waiting, campaign, WrapperInv, CampaignOK, Waits
<1>3. Wanted' = Wanted /\ Tests' = Tests /\ FoundDiagnostics' = FoundDiagnostics
  BY <1>1 DEF Wanted, Tests, FoundDiagnostics
<1>4. /\ wrapper' = "replay" <=> wrapper = "replay"
      /\ wrapper' = "ended" <=> wrapper = "ended"
      /\ wrapper' = "verdict" <=> wrapper = "verdict"
      /\ wrapper = "ended" => UNCHANGED <<process, expired>>
  BY DEF Late, Poll, Clock, KillGroup, Waiting, campaign
<1>5. ReplayOK'
  BY <1>1, <1>3, <1>4 DEF WrapperInv, ReplayOK, Pursued, Failing
<1>6. VerdictIsRight'
  <2>1. CASE wrapper = "ended"
    BY <1>1, <1>3, <1>4, <2>1 DEF WrapperInv, VerdictIsRight, FailClosed, FailuresSurface,
       FindingsAreReal, RecoveredIsReproduced, Recovered
  <2>2. CASE wrapper # "ended"
    <3>1. verdict' = "none"
      BY <1>1, <2>2 DEF WrapperInv, ReplayOK
    <3>. QED
      BY <3>1 DEF VerdictIsRight, FailClosed, FailuresSurface, FindingsAreReal,
         RecoveredIsReproduced, Recovered, Clean, FoundFailure
  <2>. QED
    BY <2>1, <2>2
<1>. QED
  BY <1>2, <1>5, <1>6 DEF WrapperInv

(* Every input keeps its own test among those to be tried. *)
LEMMA PreserveKeeps ==
    ASSUME WrapperInv, Preserve
    PROVE  WrapperInv'
<1>1. /\ UNCHANGED <<selfTest, forced, process, inputs, names, listed, late, expired, reproduced,
                     spoilt, verdict>>
      /\ wrapper = "preserve" /\ wrapper' = "verdict" /\ verdict = "none"
  BY DEF Preserve, campaign, WrapperInv, ReplayOK
<1>2. CampaignOK'
  BY <1>1 DEF WrapperInv, CampaignOK, Waits
<1>3. Wanted' = Wanted /\ Tests' = Tests
  BY <1>1 DEF Wanted, Tests
<1>4. ASSUME NEW i \in 1..Len(inputs)
      PROVE  /\ Candidates(inputs[i]) \in Seq(TestNames)
             /\ forced = "none" /\ Tests[inputs[i].test] \in {"codec", "bucket", "checkpoint"}
                => \E p \in 1..Len(Candidates(inputs[i])) :
                     Candidates(inputs[i])[p] = Tests[inputs[i].test]
  <2>. DEFINE target == ReplayTarget(inputs[i])
              own == Tests[inputs[i].test]
  <2>1. inputs[i].test \in 1..4
    <3>1. inputs \in Seq(Inputs)
      BY DEF WrapperInv, CampaignOK
    <3>2. inputs[i] \in Inputs
      BY <3>1
    <3>. QED
      BY <3>2 DEF Inputs
  <2>2. ~ selfTest => own \in TestNames
    BY <2>1 DEF Tests, TestNames
  <2>3. target \in TestNames
    BY <2>1, <2>2 DEF ReplayTarget, WrapperInv, CampaignOK, TestNames
  <2>4. forced = "none" => target \in {own, "none"}
    BY DEF ReplayTarget
  <2>5. CASE target = "none"
    <3>1. Candidates(inputs[i]) = Library
      BY <2>5 DEF Candidates
    <3>2. Library \in Seq(TestNames) /\ Len(Library) = 3
          /\ Library[1] = "codec" /\ Library[2] = "bucket" /\ Library[3] = "checkpoint"
      BY DEF Library, TestNames
    <3>3. own \in {"codec", "bucket", "checkpoint"} => \E p \in 1..3 : Library[p] = own
      BY <3>2
    <3>. QED
      BY <3>1, <3>2, <3>3
  <2>6. CASE target # "none"
    <3>1. Candidates(inputs[i]) = <<target>>
      BY <2>6 DEF Candidates
    <3>. HIDE DEF target, own
    <3>2. <<target>> \in Seq(TestNames) /\ Len(<<target>>) = 1 /\ <<target>>[1] = target
      BY <2>3
    <3>3. forced = "none" => \E p \in 1..1 : <<target>>[p] = own
      BY <2>4, <2>6, <3>2
    <3>. QED
      BY <3>1, <3>2, <3>3 DEF own
  <2>. QED
    BY <2>5, <2>6
<1>5. ReplayOK'
  <2>1. DOMAIN queue' = 1..Len(inputs')
    BY <1>1 DEF Preserve
  <2>2. ASSUME NEW i \in 1..Len(inputs)
        PROVE  queue'[i] \in Seq(TestNames) /\ (queue'[i] # <<>> => inputs'[i].whole) /\ Pursued(i)'
    <3>0. queue'[i] = IF inputs[i].whole THEN Candidates(inputs[i]) ELSE <<>>
      BY DEF Preserve
    <3>. HIDE DEF Candidates
    <3>1. queue'[i] \in Seq(TestNames)
      BY <1>4, <3>0
    <3>2. queue'[i] # <<>> => inputs'[i].whole
      BY <1>1, <3>0
    <3>3. inputs[i].whole /\ forced = "none" /\ Tests[inputs[i].test] \in {"codec", "bucket", "checkpoint"}
          => \E p \in 1..Len(queue'[i]) : queue'[i][p] = Tests[inputs[i].test]
      BY <1>4, <3>0
    <3>4. Pursued(i)'
      BY <1>1, <1>3, <3>3 DEF Pursued, Failing
    <3>. QED
      BY <3>1, <3>2, <3>4
  <2>3. reproduced' = {}
    BY <1>1 DEF WrapperInv, ReplayOK
  <2>. QED
    BY <1>1, <2>1, <2>2, <2>3 DEF ReplayOK
<1>6. VerdictIsRight'
  BY <1>1 DEF VerdictIsRight, FailClosed, FailuresSurface, FindingsAreReal,
     RecoveredIsReproduced, Recovered, Clean, FoundFailure
<1>. QED
  BY <1>2, <1>5, <1>6 DEF WrapperInv

-----------------------------------------------------------------------------
(* The verdict, and the replays. *)
LEMMA JudgeKeeps ==
    ASSUME WrapperInv, Judge
    PROVE  WrapperInv'
<1>1. /\ UNCHANGED <<selfTest, forced, process, inputs, names, listed, late, expired, queue,
                     reproduced, spoilt>>
      /\ wrapper = "verdict" /\ verdict = "none" /\ reproduced = {}
      /\ wrapper' \in {"replay", "ended"}
  BY DEF Judge, Finish, campaign, WrapperInv, ReplayOK
<1>2. CampaignOK'
  BY <1>1 DEF WrapperInv, CampaignOK, Waits
<1>3. Wanted' = Wanted /\ Tests' = Tests /\ FoundDiagnostics' = FoundDiagnostics
  BY <1>1 DEF Wanted, Tests, FoundDiagnostics
<1>4. wrapper' = "replay" <=> verdict' = "none"
  BY <1>1 DEF Judge, Finish, Watchdog, RecoveryFailed, BuildFailed, Misuse, Clean
<1>5. wrapper' = "replay" => FoundDiagnostics
  BY <1>1 DEF Judge, Finish
<1>6. ReplayOK'
  BY <1>1, <1>3, <1>4, <1>5 DEF WrapperInv, ReplayOK, Pursued, Failing
<1>7. VerdictIsRight'
  <2>1. verdict' # FoundFailure /\ (verdict' = Clean => ~ selfTest)
    BY <1>1 DEF Judge, Finish, Watchdog, RecoveryFailed, BuildFailed, Misuse, Clean, FoundFailure
  <2>2. verdict' = Clean => process = "zero" /\ ~ expired /\ ~ FoundDiagnostics
    BY <1>1 DEF Judge, Finish, Watchdog, RecoveryFailed, BuildFailed, Misuse, Clean
  <2>3. FailClosed'
    BY <1>1, <2>2 DEF FailClosed, WrapperInv, CampaignOK, FoundDiagnostics
  <2>4. verdict' # "none" /\ FoundDiagnostics
        => verdict' = RecoveryFailed /\ \A i \in 1..Len(inputs) : ~ inputs[i].whole
    BY <1>1 DEF Judge, Finish
  <2>5. FailuresSurface'
    BY <1>3, <2>4 DEF FailuresSurface
  <2>6. FindingsAreReal'
    BY <1>1, <2>1 DEF FindingsAreReal
  <2>7. RecoveredIsReproduced'
    BY <1>1, <1>3, <2>4 DEF RecoveredIsReproduced, Recovered
  <2>. QED
    BY <2>3, <2>5, <2>6, <2>7 DEF VerdictIsRight
<1>. QED
  BY <1>2, <1>6, <1>7 DEF WrapperInv

LEMMA ReplayKeeps ==
    ASSUME WrapperInv, NEW i \in 1..Len(inputs), Replay(i) \/ ReplayFails(i)
    PROVE  WrapperInv'
<1>1. /\ UNCHANGED <<selfTest, forced, process, inputs, names, listed, late, expired, wrapper,
                     verdict>>
      /\ wrapper = "replay" /\ verdict = "none" /\ queue[i] # <<>>
  BY DEF Replay, ReplayFails, Current, campaign, WrapperInv, ReplayOK
<1>2. CampaignOK'
  BY <1>1 DEF WrapperInv, CampaignOK, Waits
<1>3. Wanted' = Wanted /\ Tests' = Tests /\ FoundDiagnostics' = FoundDiagnostics
  BY <1>1 DEF Wanted, Tests, FoundDiagnostics
<1>4. /\ DOMAIN queue = 1..Len(inputs) /\ queue[i] \in Seq(TestNames) /\ inputs[i].whole
      /\ \A j \in 1..Len(inputs) : queue[j] \in Seq(TestNames) /\ (queue[j] # <<>> => inputs[j].whole)
                                   /\ Pursued(j)
      /\ \A j \in reproduced : j \in 1..Len(inputs) /\ Failing(j)
      /\ FoundDiagnostics
  BY <1>1 DEF WrapperInv, ReplayOK
<1>5. /\ DOMAIN queue' = 1..Len(inputs)
      /\ queue'[i] \in {<<>>, Tail(queue[i])}
      /\ \A j \in 1..Len(inputs) : j # i => queue'[j] = queue[j]
  BY <1>4 DEF Replay, ReplayFails
<1>6. queue'[i] \in Seq(TestNames)
  <2>1. <<>> \in Seq(TestNames)
    OBVIOUS
  <2>2. Tail(queue[i]) \in Seq(TestNames)
    BY <1>1, <1>4
  <2>. QED
    BY <1>5, <2>1, <2>2
<1>7. reproduced \subseteq reproduced' /\ reproduced' \subseteq reproduced \cup {i}
  BY DEF Replay, ReplayFails
<1>8. i \in reproduced' => Failing(i)
  <2>1. CASE i \in reproduced
    BY <1>4, <2>1
  <2>2. CASE i \notin reproduced
    BY <1>4, <2>2 DEF Replay, ReplayFails, Matches, Fails, Failing
  <2>. QED
    BY <2>1, <2>2
<1>9. ASSUME NEW j \in 1..Len(inputs)
      PROVE  Pursued(j)'
  <2>1. CASE j # i
    <3>1. Pursued(j) /\ queue'[j] = queue[j] /\ (spoilt => spoilt')
      BY <1>4, <1>5, <2>1 DEF Replay, ReplayFails
    <3>. QED
      BY <1>1, <1>3, <1>7, <3>1, SMTT(30) DEF Pursued, Failing
  <2>2. CASE j = i /\ ReplayFails(i)
    BY <2>2 DEF ReplayFails, Pursued
  <2>3. CASE j = i /\ Replay(i)
    <3>. DEFINE own == Tests[inputs[i].test]
    <3>1. CASE Matches(inputs[i], Head(queue[i]))
      BY <2>3, <3>1 DEF Replay, Pursued
    <3>2. CASE ~ Matches(inputs[i], Head(queue[i]))
      <4>. SUFFICES ASSUME Failing(i)', forced' = "none", ~ spoilt',
                           Tests'[inputs'[i].test] \in {"codec", "bucket", "checkpoint"}
                    PROVE  \/ i \in reproduced'
                           \/ \E p \in 1..Len(queue'[i]) : queue'[i][p] = own
        BY <1>1, <1>3, <2>3 DEF Pursued
      <4>1. Failing(i) /\ forced = "none" /\ ~ spoilt
            /\ own \in {"codec", "bucket", "checkpoint"}
        BY <1>1, <1>3, <2>3 DEF Failing, Replay
      <4>2. i \in reproduced \/ \E p \in 1..Len(queue[i]) : queue[i][p] = own
        BY <1>4, <4>1 DEF Pursued
      <4>3. Head(queue[i]) # own
        BY <3>2, <4>1 DEF Matches, Fails, Failing
      <4>4. queue'[i] = Tail(queue[i])
        BY <1>4, <2>3, <3>2 DEF Replay
      <4>. HIDE DEF own
      <4>5. ASSUME NEW p \in 1..Len(queue[i]), queue[i][p] = own
            PROVE  \E q \in 1..Len(Tail(queue[i])) : Tail(queue[i])[q] = own
        <5>1. p # 1 /\ Len(queue[i]) \in Nat
          BY <1>1, <1>4, <4>3, <4>5
        <5>2. p - 1 \in 1..Len(Tail(queue[i])) /\ Tail(queue[i])[p - 1] = queue[i][p]
          BY <1>1, <1>4, <5>1
        <5>. QED
          BY <4>5, <5>2
      <4>. QED
        BY <1>7, <4>2, <4>4, <4>5
    <3>. QED
      BY <3>1, <3>2
  <2>. QED
    BY <2>1, <2>2, <2>3
<1>10. ReplayOK'
  <2>1. ASSUME NEW j \in 1..Len(inputs)
        PROVE  queue'[j] \in Seq(TestNames) /\ (queue'[j] # <<>> => inputs[j].whole)
    BY <1>4, <1>5, <1>6
  <2>2. ASSUME NEW j \in reproduced'
        PROVE  j \in 1..Len(inputs) /\ Failing(j)
    BY <1>4, <1>7, <1>8
  <2>3. \A j : Failing(j)' <=> Failing(j)
    BY <1>1, <1>3 DEF Failing
  <2>. QED
    BY <1>1, <1>3, <1>4, <1>5, <1>9, <2>1, <2>2, <2>3 DEF ReplayOK
<1>11. VerdictIsRight'
  <2>1. verdict' = "none"
    BY <1>1
  <2>. QED
    BY <2>1 DEF VerdictIsRight, FailClosed, FailuresSurface, FindingsAreReal,
       RecoveredIsReproduced, Recovered, Clean, FoundFailure
<1>. QED
  BY <1>2, <1>10, <1>11 DEF WrapperInv

LEMMA ConcludeKeeps ==
    ASSUME WrapperInv, Conclude
    PROVE  WrapperInv'
<1>1. /\ UNCHANGED <<selfTest, forced, process, inputs, names, listed, late, expired, queue,
                     reproduced, spoilt>>
      /\ wrapper = "replay" /\ wrapper' = "ended" /\ FoundDiagnostics
      /\ \A i \in 1..Len(inputs) : queue[i] = <<>> /\ Pursued(i)
  BY DEF Conclude, Finish, campaign, WrapperInv, ReplayOK
<1>2. CampaignOK /\ CampaignOK'
  BY <1>1 DEF WrapperInv, CampaignOK, Waits
<1>3. Wanted' = Wanted /\ Tests' = Tests /\ FoundDiagnostics' = FoundDiagnostics
  BY <1>1 DEF Wanted, Tests, FoundDiagnostics
<1>4. /\ reproduced = {} => verdict' = NotReproduced
      /\ reproduced # {} => verdict' = IF selfTest THEN Clean ELSE FoundFailure
  BY DEF Conclude, Finish
<1>5. verdict' # "none"
  BY <1>4 DEF NotReproduced, Clean, FoundFailure
<1>6. ReplayOK'
  BY <1>1, <1>3, <1>5 DEF WrapperInv, ReplayOK, Failing
<1>7. FailClosed' /\ FailuresSurface'
  BY <1>1, <1>4 DEF FailClosed, FailuresSurface, NotReproduced, Clean, FoundFailure
<1>8. FindingsAreReal'
  <2>. SUFFICES ASSUME reproduced # {}
                PROVE  \E i \in 1..Len(inputs) :
                         /\ inputs[i].whole /\ inputs[i].error # NoError
                         /\ selfTest => inputs[i].error = ProbeError
                         /\ names = {} \/ selfTest \/ inputs[i].error \in names
    BY <1>1, <1>4 DEF FindingsAreReal, NotReproduced, Clean, FoundFailure
  <2>1. PICK i \in reproduced : i \in 1..Len(inputs) /\ Failing(i)
    BY DEF WrapperInv, ReplayOK
  <2>2. inputs[i].whole /\ inputs[i].error # NoError /\ Wanted \in {AnyError, inputs[i].error}
    BY <2>1 DEF Failing
  <2>3. selfTest => inputs[i].error = ProbeError
    BY <1>2, <2>2, WantedIs
  <2>4. names = {} \/ selfTest \/ inputs[i].error \in names
    BY <1>2, <2>2, WantedIs DEF CampaignOK
  <2>. QED
    BY <2>1, <2>2, <2>3, <2>4
<1>9. RecoveredIsReproduced'
  <2>. SUFFICES ASSUME Recovered({"codec", "bucket", "checkpoint"})'
                PROVE  verdict' = FoundFailure
    BY DEF RecoveredIsReproduced
  <2>1. PICK i \in 1..Len(inputs) :
          Failing(i) /\ Tests[inputs[i].test] \in {"codec", "bucket", "checkpoint"}
    BY <1>1, <1>3 DEF Recovered, Failing
  <2>2. forced = "none" /\ ~ spoilt
    BY <1>1 DEF Recovered
  <2>3. i \in reproduced
    BY <1>1, <2>1, <2>2 DEF Pursued
  <2>. QED
    BY <1>2, <1>4, <2>2, <2>3 DEF CampaignOK
<1>10. VerdictIsRight'
  BY <1>7, <1>8, <1>9 DEF VerdictIsRight
<1>. QED
  BY <1>2, <1>6, <1>10 DEF WrapperInv

(***************************************************************************)
(* TruthfulVerdict: for any number of inputs, however they are cut short   *)
(* and whatever is printed, the wrapper ends clean only if nothing failed, *)
(* reports a finding only if something fails again, and loses no failure   *)
(* that was printed or recovered (guided-fuzz.py 257-311).                 *)
(***************************************************************************)
THEOREM TruthfulVerdict == GuidedSpec => []VerdictIsRight
<1>1. ASSUME WrapperInv, [GuidedNext]_guidedVars
      PROVE  WrapperInv'
  <2>1. CASE UNCHANGED guidedVars
    <3>1. UNCHANGED <<selfTest, forced, process, inputs, names, listed, late, wrapper, expired,
                      queue, reproduced, spoilt, verdict>>
      BY <2>1 DEF guidedVars, campaign
    <3>2. Wanted' = Wanted /\ Tests' = Tests /\ FoundDiagnostics' = FoundDiagnostics
      BY <3>1 DEF Wanted, Tests, FoundDiagnostics
    <3>3. CampaignOK'
      BY <1>1, <3>1 DEF WrapperInv, CampaignOK
    <3>4. ReplayOK'
      BY <1>1, <3>1, <3>2 DEF WrapperInv, ReplayOK, Pursued, Failing
    <3>5. VerdictIsRight'
      BY <1>1, <3>1, <3>2 DEF WrapperInv, VerdictIsRight, FailClosed, FailuresSurface,
         FindingsAreReal, RecoveredIsReproduced, Recovered
    <3>. QED
      BY <3>3, <3>4, <3>5 DEF WrapperInv
  <2>. QED
    BY <1>1, <2>1, CampaignKeeps, WaitingKeeps, PreserveKeeps, JudgeKeeps, ReplayKeeps,
       ConcludeKeeps DEF GuidedNext, WrapperStep
<1>2. WrapperInv => VerdictIsRight
  BY DEF WrapperInv
<1>. QED
  BY <1>1, <1>2, WrapperInvInit, PTL DEF GuidedSpec

-----------------------------------------------------------------------------
(***************************************************************************)
(* The block tree.                                                         *)
(***************************************************************************)
(***************************************************************************)
(* Counting up from low, a property of low that each number hands to the   *)
(* next reaches every number.                                              *)
(***************************************************************************)
LEMMA CountUp ==
    ASSUME NEW low \in Nat, NEW S, low \in S, \A k \in S : k + 1 \in S,
           NEW n \in Nat, n >= low
    PROVE  n \in S
<1> DEFINE bad == {k \in Nat : k >= low /\ k \notin S}
<1>1. SUFFICES ASSUME bad # {} PROVE FALSE
  OBVIOUS
<1>2. PICK least \in bad : \A k \in bad : ~ (<<k, least>> \in OpToRel(<, Nat))
  <2>1. bad \subseteq Nat
    OBVIOUS
  <2> HIDE DEF bad
  <2>. QED
    BY <1>1, <2>1, WFMin, NatLessThanWellFounded
<1>3. least \in Nat /\ least > low /\ least - 1 \in Nat /\ least - 1 >= low
  OBVIOUS
<1>4. least - 1 \notin bad
  <2> HIDE DEF bad
  <2>1. least - 1 < least
    BY <1>3
  <2>. QED
    BY <1>2, <1>3, <2>1 DEF OpToRel
<1>5. least - 1 \in S
  BY <1>3, <1>4
<1>. QED
  BY <1>3, <1>5

(***************************************************************************)
(* The turns of each loop of the model, one after the other: a recursive   *)
(* function is used only through these facts.                              *)
(***************************************************************************)
LEMMA CarryTurns ==
    ASSUME NEW ps, Len(ps) \in Nat
    PROVE  \E turn : /\ turn[0] = ps
                     /\ \A i \in 1..Len(ps) : turn[i] = CarryOne(turn[i - 1])
                     /\ Carry(ps) = turn[Len(ps)]
<1> DEFINE Turns(t, k) ==
             t = [i \in 0..k |-> IF i = 0 THEN ps ELSE CarryOne(t[i - 1])]
           Can == {k \in Nat : \E t : Turns(t, k)}
           Turn == CHOOSE t : Turns(t, Len(ps))
<1>1. 0 \in Can
  <2>1. Turns([i \in 0..0 |-> ps], 0)
    OBVIOUS
  <2>2. 0 \in Nat
    OBVIOUS
  <2> HIDE DEF Turns
  <2>. QED
    BY <2>1, <2>2
<1>2. ASSUME NEW k \in Can PROVE k + 1 \in Can
  <2>1. PICK t : Turns(t, k)
    OBVIOUS
  <2> DEFINE more == CarryOne(t[k])
             longer == [i \in 0..(k + 1) |-> IF i = k + 1 THEN more ELSE t[i]]
  <2>2. \A i \in 0..k : t[i] = IF i = 0 THEN ps ELSE CarryOne(t[i - 1])
    BY <2>1
  <2>3. ASSUME NEW i \in 0..(k + 1)
        PROVE  longer[i] = IF i = 0 THEN ps ELSE CarryOne(longer[i - 1])
    <3>1. CASE i = k + 1
      <4>1. longer[i] = more /\ longer[i - 1] = t[k] /\ i # 0
        BY <3>1
      <4> HIDE DEF longer
      <4>. QED
        BY <3>1, <4>1
    <3>2. CASE i # k + 1
      <4>1. longer[i] = t[i] /\ i \in 0..k
        BY <3>2
      <4>2. i # 0 => longer[i - 1] = t[i - 1]
        BY <3>2
      <4> HIDE DEF longer
      <4>. QED
        BY <2>2, <4>1, <4>2
    <3>. QED
      BY <3>1, <3>2
  <2>4. longer = [i \in 0..(k + 1) |-> longer[i]]
    OBVIOUS
  <2> HIDE DEF longer
  <2>5. Turns(longer, k + 1)
    BY <2>3, <2>4
  <2>6. k + 1 \in Nat
    OBVIOUS
  <2> HIDE DEF Turns
  <2>. QED
    BY <2>5, <2>6
<1>3. Len(ps) \in Can
  <2> HIDE DEF Can
  <2>. QED
    BY <1>1, <1>2, CountUp
<1>4. Turns(Turn, Len(ps))
  <2> HIDE DEF Turns
  <2>. QED
    BY <1>3
<1>5. Carry(ps) = Turn[Len(ps)]
  BY DEF Carry
<1> HIDE DEF Turn
<1>6. Turn[0] = ps
  BY <1>4
<1>7. ASSUME NEW i \in 1..Len(ps)
      PROVE  Turn[i] = CarryOne(Turn[i - 1])
  BY <1>4
<1>. QED
  BY <1>5, <1>6, <1>7

LEMMA FollowTurns ==
    ASSUME NEW f, Len(f.peaks) \in Nat
    PROVE  \E turn : /\ turn[0] = f
                     /\ \A i \in 1..Len(f.peaks) : turn[i] = FollowOne(turn[i - 1])
                     /\ FollowCarry(f) = turn[Len(f.peaks)]
<1> DEFINE Turns(t, k) ==
             t = [i \in 0..k |-> IF i = 0 THEN f ELSE FollowOne(t[i - 1])]
           Can == {k \in Nat : \E t : Turns(t, k)}
           Turn == CHOOSE t : Turns(t, Len(f.peaks))
<1>1. 0 \in Can
  <2>1. Turns([i \in 0..0 |-> f], 0)
    OBVIOUS
  <2>2. 0 \in Nat
    OBVIOUS
  <2> HIDE DEF Turns
  <2>. QED
    BY <2>1, <2>2
<1>2. ASSUME NEW k \in Can PROVE k + 1 \in Can
  <2>1. PICK t : Turns(t, k)
    OBVIOUS
  <2> DEFINE more == FollowOne(t[k])
             longer == [i \in 0..(k + 1) |-> IF i = k + 1 THEN more ELSE t[i]]
  <2>2. \A i \in 0..k : t[i] = IF i = 0 THEN f ELSE FollowOne(t[i - 1])
    BY <2>1
  <2>3. ASSUME NEW i \in 0..(k + 1)
        PROVE  longer[i] = IF i = 0 THEN f ELSE FollowOne(longer[i - 1])
    <3>1. CASE i = k + 1
      <4>1. longer[i] = more /\ longer[i - 1] = t[k] /\ i # 0
        BY <3>1
      <4> HIDE DEF longer
      <4>. QED
        BY <3>1, <4>1
    <3>2. CASE i # k + 1
      <4>1. longer[i] = t[i] /\ i \in 0..k
        BY <3>2
      <4>2. i # 0 => longer[i - 1] = t[i - 1]
        BY <3>2
      <4> HIDE DEF longer
      <4>. QED
        BY <2>2, <4>1, <4>2
    <3>. QED
      BY <3>1, <3>2
  <2>4. longer = [i \in 0..(k + 1) |-> longer[i]]
    OBVIOUS
  <2> HIDE DEF longer
  <2>5. Turns(longer, k + 1)
    BY <2>3, <2>4
  <2>6. k + 1 \in Nat
    OBVIOUS
  <2> HIDE DEF Turns
  <2>. QED
    BY <2>5, <2>6
<1>3. Len(f.peaks) \in Can
  <2> HIDE DEF Can
  <2>. QED
    BY <1>1, <1>2, CountUp
<1>4. Turns(Turn, Len(f.peaks))
  <2> HIDE DEF Turns
  <2>. QED
    BY <1>3
<1>5. FollowCarry(f) = Turn[Len(f.peaks)]
  BY DEF FollowCarry
<1> HIDE DEF Turn
<1>6. Turn[0] = f
  BY <1>4
<1>7. ASSUME NEW i \in 1..Len(f.peaks)
      PROVE  Turn[i] = FollowOne(Turn[i - 1])
  BY <1>4
<1>. QED
  BY <1>5, <1>6, <1>7

LEMMA FollowedTurns ==
    ASSUME NEW ls, NEW index, Len(ls) \in Nat
    PROVE  \E turn : /\ turn[0] = [peaks |-> <<>>, ours |-> 0, steps |-> <<>>]
                     /\ \A i \in 1..Len(ls) : turn[i] = FollowLeaf(turn[i - 1], ls[i], i = index + 1)
                     /\ Followed(ls, index) = turn[Len(ls)]
<1> DEFINE Turns(t, k) ==
             t = [i \in 0..k |-> IF i = 0 THEN [peaks |-> <<>>, ours |-> 0, steps |-> <<>>] ELSE FollowLeaf(t[i - 1], ls[i], i = index + 1)]
           Can == {k \in Nat : \E t : Turns(t, k)}
           Turn == CHOOSE t : Turns(t, Len(ls))
<1>1. 0 \in Can
  <2>1. Turns([i \in 0..0 |-> [peaks |-> <<>>, ours |-> 0, steps |-> <<>>]], 0)
    OBVIOUS
  <2>2. 0 \in Nat
    OBVIOUS
  <2> HIDE DEF Turns
  <2>. QED
    BY <2>1, <2>2
<1>2. ASSUME NEW k \in Can PROVE k + 1 \in Can
  <2>1. PICK t : Turns(t, k)
    OBVIOUS
  <2> DEFINE more == FollowLeaf(t[k], ls[(k + 1)], (k + 1) = index + 1)
             longer == [i \in 0..(k + 1) |-> IF i = k + 1 THEN more ELSE t[i]]
  <2>2. \A i \in 0..k : t[i] = IF i = 0 THEN [peaks |-> <<>>, ours |-> 0, steps |-> <<>>] ELSE FollowLeaf(t[i - 1], ls[i], i = index + 1)
    BY <2>1
  <2>3. ASSUME NEW i \in 0..(k + 1)
        PROVE  longer[i] = IF i = 0 THEN [peaks |-> <<>>, ours |-> 0, steps |-> <<>>] ELSE FollowLeaf(longer[i - 1], ls[i], i = index + 1)
    <3>1. CASE i = k + 1
      <4>1. longer[i] = more /\ longer[i - 1] = t[k] /\ i # 0
        BY <3>1
      <4> HIDE DEF longer
      <4>. QED
        BY <3>1, <4>1
    <3>2. CASE i # k + 1
      <4>1. longer[i] = t[i] /\ i \in 0..k
        BY <3>2
      <4>2. i # 0 => longer[i - 1] = t[i - 1]
        BY <3>2
      <4> HIDE DEF longer
      <4>. QED
        BY <2>2, <4>1, <4>2
    <3>. QED
      BY <3>1, <3>2
  <2>4. longer = [i \in 0..(k + 1) |-> longer[i]]
    OBVIOUS
  <2> HIDE DEF longer
  <2>5. Turns(longer, k + 1)
    BY <2>3, <2>4
  <2>6. k + 1 \in Nat
    OBVIOUS
  <2> HIDE DEF Turns
  <2>. QED
    BY <2>5, <2>6
<1>3. Len(ls) \in Can
  <2> HIDE DEF Can
  <2>. QED
    BY <1>1, <1>2, CountUp
<1>4. Turns(Turn, Len(ls))
  <2> HIDE DEF Turns
  <2>. QED
    BY <1>3
<1>5. Followed(ls, index) = Turn[Len(ls)]
  BY DEF Followed
<1> HIDE DEF Turn
<1>6. Turn[0] = [peaks |-> <<>>, ours |-> 0, steps |-> <<>>]
  BY <1>4
<1>7. ASSUME NEW i \in 1..Len(ls)
      PROVE  Turn[i] = FollowLeaf(Turn[i - 1], ls[i], i = index + 1)
  BY <1>4
<1>. QED
  BY <1>5, <1>6, <1>7

LEMMA FoldTurns ==
    ASSUME NEW leaf, NEW path, Len(path) \in Nat
    PROVE  \E turn : /\ turn[0] = leaf
                     /\ \A i \in 1..Len(path) : turn[i] = Hop(turn[i - 1], path[i])
                     /\ FoldPath(leaf, path) = turn[Len(path)]
<1> DEFINE Turns(t, k) ==
             t = [i \in 0..k |-> IF i = 0 THEN leaf ELSE Hop(t[i - 1], path[i])]
           Can == {k \in Nat : \E t : Turns(t, k)}
           Turn == CHOOSE t : Turns(t, Len(path))
<1>1. 0 \in Can
  <2>1. Turns([i \in 0..0 |-> leaf], 0)
    OBVIOUS
  <2>2. 0 \in Nat
    OBVIOUS
  <2> HIDE DEF Turns
  <2>. QED
    BY <2>1, <2>2
<1>2. ASSUME NEW k \in Can PROVE k + 1 \in Can
  <2>1. PICK t : Turns(t, k)
    OBVIOUS
  <2> DEFINE more == Hop(t[k], path[(k + 1)])
             longer == [i \in 0..(k + 1) |-> IF i = k + 1 THEN more ELSE t[i]]
  <2>2. \A i \in 0..k : t[i] = IF i = 0 THEN leaf ELSE Hop(t[i - 1], path[i])
    BY <2>1
  <2>3. ASSUME NEW i \in 0..(k + 1)
        PROVE  longer[i] = IF i = 0 THEN leaf ELSE Hop(longer[i - 1], path[i])
    <3>1. CASE i = k + 1
      <4>1. longer[i] = more /\ longer[i - 1] = t[k] /\ i # 0
        BY <3>1
      <4> HIDE DEF longer
      <4>. QED
        BY <3>1, <4>1
    <3>2. CASE i # k + 1
      <4>1. longer[i] = t[i] /\ i \in 0..k
        BY <3>2
      <4>2. i # 0 => longer[i - 1] = t[i - 1]
        BY <3>2
      <4> HIDE DEF longer
      <4>. QED
        BY <2>2, <4>1, <4>2
    <3>. QED
      BY <3>1, <3>2
  <2>4. longer = [i \in 0..(k + 1) |-> longer[i]]
    OBVIOUS
  <2> HIDE DEF longer
  <2>5. Turns(longer, k + 1)
    BY <2>3, <2>4
  <2>6. k + 1 \in Nat
    OBVIOUS
  <2> HIDE DEF Turns
  <2>. QED
    BY <2>5, <2>6
<1>3. Len(path) \in Can
  <2> HIDE DEF Can
  <2>. QED
    BY <1>1, <1>2, CountUp
<1>4. Turns(Turn, Len(path))
  <2> HIDE DEF Turns
  <2>. QED
    BY <1>3
<1>5. FoldPath(leaf, path) = Turn[Len(path)]
  BY DEF FoldPath
<1> HIDE DEF Turn
<1>6. Turn[0] = leaf
  BY <1>4
<1>7. ASSUME NEW i \in 1..Len(path)
      PROVE  Turn[i] = Hop(Turn[i - 1], path[i])
  BY <1>4
<1>. QED
  BY <1>5, <1>6, <1>7

LEMMA ReduceTurns ==
    ASSUME NEW ps, Len(ps) \in Nat
    PROVE  \E turn : /\ turn[0] = ps
                     /\ \A i \in 1..Len(ps) : turn[i] = ReduceOne(turn[i - 1])
                     /\ ReduceRight(ps) = turn[Len(ps)]
<1> DEFINE Turns(t, k) ==
             t = [i \in 0..k |-> IF i = 0 THEN ps ELSE ReduceOne(t[i - 1])]
           Can == {k \in Nat : \E t : Turns(t, k)}
           Turn == CHOOSE t : Turns(t, Len(ps))
<1>1. 0 \in Can
  <2>1. Turns([i \in 0..0 |-> ps], 0)
    OBVIOUS
  <2>2. 0 \in Nat
    OBVIOUS
  <2> HIDE DEF Turns
  <2>. QED
    BY <2>1, <2>2
<1>2. ASSUME NEW k \in Can PROVE k + 1 \in Can
  <2>1. PICK t : Turns(t, k)
    OBVIOUS
  <2> DEFINE more == ReduceOne(t[k])
             longer == [i \in 0..(k + 1) |-> IF i = k + 1 THEN more ELSE t[i]]
  <2>2. \A i \in 0..k : t[i] = IF i = 0 THEN ps ELSE ReduceOne(t[i - 1])
    BY <2>1
  <2>3. ASSUME NEW i \in 0..(k + 1)
        PROVE  longer[i] = IF i = 0 THEN ps ELSE ReduceOne(longer[i - 1])
    <3>1. CASE i = k + 1
      <4>1. longer[i] = more /\ longer[i - 1] = t[k] /\ i # 0
        BY <3>1
      <4> HIDE DEF longer
      <4>. QED
        BY <3>1, <4>1
    <3>2. CASE i # k + 1
      <4>1. longer[i] = t[i] /\ i \in 0..k
        BY <3>2
      <4>2. i # 0 => longer[i - 1] = t[i - 1]
        BY <3>2
      <4> HIDE DEF longer
      <4>. QED
        BY <2>2, <4>1, <4>2
    <3>. QED
      BY <3>1, <3>2
  <2>4. longer = [i \in 0..(k + 1) |-> longer[i]]
    OBVIOUS
  <2> HIDE DEF longer
  <2>5. Turns(longer, k + 1)
    BY <2>3, <2>4
  <2>6. k + 1 \in Nat
    OBVIOUS
  <2> HIDE DEF Turns
  <2>. QED
    BY <2>5, <2>6
<1>3. Len(ps) \in Can
  <2> HIDE DEF Can
  <2>. QED
    BY <1>1, <1>2, CountUp
<1>4. Turns(Turn, Len(ps))
  <2> HIDE DEF Turns
  <2>. QED
    BY <1>3
<1>5. ReduceRight(ps) = Turn[Len(ps)]
  BY DEF ReduceRight
<1> HIDE DEF Turn
<1>6. Turn[0] = ps
  BY <1>4
<1>7. ASSUME NEW i \in 1..Len(ps)
      PROVE  Turn[i] = ReduceOne(Turn[i - 1])
  BY <1>4
<1>. QED
  BY <1>5, <1>6, <1>7

LEMMA PeaksTurns ==
    ASSUME NEW ls, Len(ls) \in Nat
    PROVE  \E turn : /\ turn[0] = <<>>
                     /\ \A i \in 1..Len(ls) : turn[i] = ReduceRight(Append(turn[i - 1], <<1, ls[i]>>))
                     /\ VectorPeaks(ls) = turn[Len(ls)]
<1> DEFINE Turns(t, k) ==
             t = [i \in 0..k |-> IF i = 0 THEN <<>> ELSE ReduceRight(Append(t[i - 1], <<1, ls[i]>>))]
           Can == {k \in Nat : \E t : Turns(t, k)}
           Turn == CHOOSE t : Turns(t, Len(ls))
<1>1. 0 \in Can
  <2>1. Turns([i \in 0..0 |-> <<>>], 0)
    OBVIOUS
  <2>2. 0 \in Nat
    OBVIOUS
  <2> HIDE DEF Turns
  <2>. QED
    BY <2>1, <2>2
<1>2. ASSUME NEW k \in Can PROVE k + 1 \in Can
  <2>1. PICK t : Turns(t, k)
    OBVIOUS
  <2> DEFINE more == ReduceRight(Append(t[k], <<1, ls[(k + 1)]>>))
             longer == [i \in 0..(k + 1) |-> IF i = k + 1 THEN more ELSE t[i]]
  <2>2. \A i \in 0..k : t[i] = IF i = 0 THEN <<>> ELSE ReduceRight(Append(t[i - 1], <<1, ls[i]>>))
    BY <2>1
  <2>3. ASSUME NEW i \in 0..(k + 1)
        PROVE  longer[i] = IF i = 0 THEN <<>> ELSE ReduceRight(Append(longer[i - 1], <<1, ls[i]>>))
    <3>1. CASE i = k + 1
      <4>1. longer[i] = more /\ longer[i - 1] = t[k] /\ i # 0
        BY <3>1
      <4> HIDE DEF longer
      <4>. QED
        BY <3>1, <4>1
    <3>2. CASE i # k + 1
      <4>1. longer[i] = t[i] /\ i \in 0..k
        BY <3>2
      <4>2. i # 0 => longer[i - 1] = t[i - 1]
        BY <3>2
      <4> HIDE DEF longer
      <4>. QED
        BY <2>2, <4>1, <4>2
    <3>. QED
      BY <3>1, <3>2
  <2>4. longer = [i \in 0..(k + 1) |-> longer[i]]
    OBVIOUS
  <2> HIDE DEF longer
  <2>5. Turns(longer, k + 1)
    BY <2>3, <2>4
  <2>6. k + 1 \in Nat
    OBVIOUS
  <2> HIDE DEF Turns
  <2>. QED
    BY <2>5, <2>6
<1>3. Len(ls) \in Can
  <2> HIDE DEF Can
  <2>. QED
    BY <1>1, <1>2, CountUp
<1>4. Turns(Turn, Len(ls))
  <2> HIDE DEF Turns
  <2>. QED
    BY <1>3
<1>5. VectorPeaks(ls) = Turn[Len(ls)]
  BY DEF VectorPeaks
<1> HIDE DEF Turn
<1>6. Turn[0] = <<>>
  BY <1>4
<1>7. ASSUME NEW i \in 1..Len(ls)
      PROVE  Turn[i] = ReduceRight(Append(Turn[i - 1], <<1, ls[i]>>))
  BY <1>4
<1>. QED
  BY <1>5, <1>6, <1>7

LEMMA StateTurns ==
    ASSUME NEW rs, Len(rs) \in Nat
    PROVE  \E turn : /\ turn[0] = [hashes |-> <<>>, cur |-> <<>>, bytes |-> 0]
                     /\ \A i \in 1..Len(rs) : turn[i] = VectorTake(turn[i - 1], rs[i])
                     /\ VectorState(rs) = turn[Len(rs)]
<1> DEFINE Turns(t, k) ==
             t = [i \in 0..k |-> IF i = 0 THEN [hashes |-> <<>>, cur |-> <<>>, bytes |-> 0] ELSE VectorTake(t[i - 1], rs[i])]
           Can == {k \in Nat : \E t : Turns(t, k)}
           Turn == CHOOSE t : Turns(t, Len(rs))
<1>1. 0 \in Can
  <2>1. Turns([i \in 0..0 |-> [hashes |-> <<>>, cur |-> <<>>, bytes |-> 0]], 0)
    OBVIOUS
  <2>2. 0 \in Nat
    OBVIOUS
  <2> HIDE DEF Turns
  <2>. QED
    BY <2>1, <2>2
<1>2. ASSUME NEW k \in Can PROVE k + 1 \in Can
  <2>1. PICK t : Turns(t, k)
    OBVIOUS
  <2> DEFINE more == VectorTake(t[k], rs[(k + 1)])
             longer == [i \in 0..(k + 1) |-> IF i = k + 1 THEN more ELSE t[i]]
  <2>2. \A i \in 0..k : t[i] = IF i = 0 THEN [hashes |-> <<>>, cur |-> <<>>, bytes |-> 0] ELSE VectorTake(t[i - 1], rs[i])
    BY <2>1
  <2>3. ASSUME NEW i \in 0..(k + 1)
        PROVE  longer[i] = IF i = 0 THEN [hashes |-> <<>>, cur |-> <<>>, bytes |-> 0] ELSE VectorTake(longer[i - 1], rs[i])
    <3>1. CASE i = k + 1
      <4>1. longer[i] = more /\ longer[i - 1] = t[k] /\ i # 0
        BY <3>1
      <4> HIDE DEF longer
      <4>. QED
        BY <3>1, <4>1
    <3>2. CASE i # k + 1
      <4>1. longer[i] = t[i] /\ i \in 0..k
        BY <3>2
      <4>2. i # 0 => longer[i - 1] = t[i - 1]
        BY <3>2
      <4> HIDE DEF longer
      <4>. QED
        BY <2>2, <4>1, <4>2
    <3>. QED
      BY <3>1, <3>2
  <2>4. longer = [i \in 0..(k + 1) |-> longer[i]]
    OBVIOUS
  <2> HIDE DEF longer
  <2>5. Turns(longer, k + 1)
    BY <2>3, <2>4
  <2>6. k + 1 \in Nat
    OBVIOUS
  <2> HIDE DEF Turns
  <2>. QED
    BY <2>5, <2>6
<1>3. Len(rs) \in Can
  <2> HIDE DEF Can
  <2>. QED
    BY <1>1, <1>2, CountUp
<1>4. Turns(Turn, Len(rs))
  <2> HIDE DEF Turns
  <2>. QED
    BY <1>3
<1>5. VectorState(rs) = Turn[Len(rs)]
  BY DEF VectorState
<1> HIDE DEF Turn
<1>6. Turn[0] = [hashes |-> <<>>, cur |-> <<>>, bytes |-> 0]
  BY <1>4
<1>7. ASSUME NEW i \in 1..Len(rs)
      PROVE  Turn[i] = VectorTake(Turn[i - 1], rs[i])
  BY <1>4
<1>. QED
  BY <1>5, <1>6, <1>7

LEMMA RootTurns ==
    ASSUME NEW ps, Len(ps) \in Nat \ {0}
    PROVE  \E turn : /\ turn[1] = ps[1].hash
                     /\ \A i \in 2..Len(ps) : turn[i] = Combine(turn[i - 1], ps[i].hash)
                     /\ TreeRoot(ps) = turn[Len(ps)]
<1> DEFINE Turns(t, k) ==
             t = [i \in 1..k |-> IF i = 1 THEN ps[1].hash ELSE Combine(t[i - 1], ps[i].hash)]
           Can == {k \in Nat \ {0} : \E t : Turns(t, k)}
           Turn == CHOOSE t : Turns(t, Len(ps))
<1>1. 1 \in Can
  <2>1. Turns([i \in 1..1 |-> ps[1].hash], 1)
    OBVIOUS
  <2>2. 1 \in Nat \ {0}
    OBVIOUS
  <2> HIDE DEF Turns
  <2>. QED
    BY <2>1, <2>2
<1>2. ASSUME NEW k \in Can PROVE k + 1 \in Can
  <2>1. PICK t : Turns(t, k)
    OBVIOUS
  <2> DEFINE more == Combine(t[k], ps[(k + 1)].hash)
             longer == [i \in 1..(k + 1) |-> IF i = k + 1 THEN more ELSE t[i]]
  <2>2. \A i \in 1..k : t[i] = IF i = 1 THEN ps[1].hash ELSE Combine(t[i - 1], ps[i].hash)
    BY <2>1
  <2>3. ASSUME NEW i \in 1..(k + 1)
        PROVE  longer[i] = IF i = 1 THEN ps[1].hash ELSE Combine(longer[i - 1], ps[i].hash)
    <3>1. CASE i = k + 1
      <4>1. longer[i] = more /\ longer[i - 1] = t[k] /\ i # 1
        BY <3>1
      <4> HIDE DEF longer
      <4>. QED
        BY <3>1, <4>1
    <3>2. CASE i # k + 1
      <4>1. longer[i] = t[i] /\ i \in 1..k
        BY <3>2
      <4>2. i # 1 => longer[i - 1] = t[i - 1]
        BY <3>2
      <4> HIDE DEF longer
      <4>. QED
        BY <2>2, <4>1, <4>2
    <3>. QED
      BY <3>1, <3>2
  <2>4. longer = [i \in 1..(k + 1) |-> longer[i]]
    OBVIOUS
  <2> HIDE DEF longer
  <2>5. Turns(longer, k + 1)
    BY <2>3, <2>4
  <2>6. k + 1 \in Nat \ {0}
    OBVIOUS
  <2> HIDE DEF Turns
  <2>. QED
    BY <2>5, <2>6
<1>3. Len(ps) \in Can
  <2> HIDE DEF Can
  <2>. QED
    BY <1>1, <1>2, CountUp
<1>4. Turns(Turn, Len(ps))
  <2> HIDE DEF Turns
  <2>. QED
    BY <1>3
<1>5. TreeRoot(ps) = Turn[Len(ps)]
  BY DEF TreeRoot
<1> HIDE DEF Turn
<1>6. Turn[1] = ps[1].hash
  BY <1>4
<1>7. ASSUME NEW i \in 2..Len(ps)
      PROVE  Turn[i] = Combine(Turn[i - 1], ps[i].hash)
  BY <1>4
<1>. QED
  BY <1>5, <1>6, <1>7

LEMMA VectorRootTurns ==
    ASSUME NEW ls, Len(VectorPeaks(ls)) \in Nat \ {0}
    PROVE  \E turn : /\ turn[1] = VectorPeaks(ls)[1][2]
                     /\ \A i \in 2..Len(VectorPeaks(ls)) : turn[i] = Combine(turn[i - 1], VectorPeaks(ls)[i][2])
                     /\ VectorTreeRoot(ls) = turn[Len(VectorPeaks(ls))]
<1> DEFINE Turns(t, k) ==
             t = [i \in 1..k |-> IF i = 1 THEN VectorPeaks(ls)[1][2] ELSE Combine(t[i - 1], VectorPeaks(ls)[i][2])]
           Can == {k \in Nat \ {0} : \E t : Turns(t, k)}
           Turn == CHOOSE t : Turns(t, Len(VectorPeaks(ls)))
<1>1. 1 \in Can
  <2>1. Turns([i \in 1..1 |-> VectorPeaks(ls)[1][2]], 1)
    OBVIOUS
  <2>2. 1 \in Nat \ {0}
    OBVIOUS
  <2> HIDE DEF Turns
  <2>. QED
    BY <2>1, <2>2
<1>2. ASSUME NEW k \in Can PROVE k + 1 \in Can
  <2>1. PICK t : Turns(t, k)
    OBVIOUS
  <2> DEFINE more == Combine(t[k], VectorPeaks(ls)[(k + 1)][2])
             longer == [i \in 1..(k + 1) |-> IF i = k + 1 THEN more ELSE t[i]]
  <2>2. \A i \in 1..k : t[i] = IF i = 1 THEN VectorPeaks(ls)[1][2] ELSE Combine(t[i - 1], VectorPeaks(ls)[i][2])
    BY <2>1
  <2>3. ASSUME NEW i \in 1..(k + 1)
        PROVE  longer[i] = IF i = 1 THEN VectorPeaks(ls)[1][2] ELSE Combine(longer[i - 1], VectorPeaks(ls)[i][2])
    <3>1. CASE i = k + 1
      <4>1. longer[i] = more /\ longer[i - 1] = t[k] /\ i # 1
        BY <3>1
      <4> HIDE DEF longer
      <4>. QED
        BY <3>1, <4>1
    <3>2. CASE i # k + 1
      <4>1. longer[i] = t[i] /\ i \in 1..k
        BY <3>2
      <4>2. i # 1 => longer[i - 1] = t[i - 1]
        BY <3>2
      <4> HIDE DEF longer
      <4>. QED
        BY <2>2, <4>1, <4>2
    <3>. QED
      BY <3>1, <3>2
  <2>4. longer = [i \in 1..(k + 1) |-> longer[i]]
    OBVIOUS
  <2> HIDE DEF longer
  <2>5. Turns(longer, k + 1)
    BY <2>3, <2>4
  <2>6. k + 1 \in Nat \ {0}
    OBVIOUS
  <2> HIDE DEF Turns
  <2>. QED
    BY <2>5, <2>6
<1>3. Len(VectorPeaks(ls)) \in Can
  <2> HIDE DEF Can
  <2>. QED
    BY <1>1, <1>2, CountUp
<1>4. Turns(Turn, Len(VectorPeaks(ls)))
  <2> HIDE DEF Turns
  <2>. QED
    BY <1>3
<1>5. VectorTreeRoot(ls) = Turn[Len(VectorPeaks(ls))]
  BY DEF VectorTreeRoot
<1> HIDE DEF Turn
<1>6. Turn[1] = VectorPeaks(ls)[1][2]
  BY <1>4
<1>7. ASSUME NEW i \in 2..Len(VectorPeaks(ls))
      PROVE  Turn[i] = Combine(Turn[i - 1], VectorPeaks(ls)[i][2])
  BY <1>4
<1>. QED
  BY <1>5, <1>6, <1>7

-----------------------------------------------------------------------------
(* Sequences of peaks, and of the pairs that stand for them in Python.     *)
PeakLists(H) == Seq([span : Nat, hash : H])

AsPairs(ps) == [i \in 1..Len(ps) |-> <<ps[i].span, ps[i].hash>>]

(***************************************************************************)
(* Facts about sequences: what they hold, a wider set of values, their     *)
(* fronts, one value more.                                                 *)
(***************************************************************************)
LEMMA SeqFacts ==
    ASSUME NEW P, NEW s \in Seq(P)
    PROVE  /\ Len(s) \in Nat /\ s = [i \in 1..Len(s) |-> s[i]]
           /\ \A i \in 1..Len(s) : s[i] \in P
  OBVIOUS

LEMMA SeqWithin ==
    ASSUME NEW P, NEW Q, P \subseteq Q, NEW s \in Seq(P)
    PROVE  s \in Seq(Q)
<1>1. Len(s) \in Nat /\ s = [i \in 1..Len(s) |-> s[i]] /\ \A i \in 1..Len(s) : s[i] \in Q
  BY SeqFacts
<1>2. s \in [1..Len(s) -> Q]
  BY <1>1
<1>. QED
  BY <1>1, <1>2

LEMMA FrontFacts ==
    ASSUME NEW P, NEW s \in Seq(P), NEW m \in Nat, m <= Len(s)
    PROVE  /\ SubSeq(s, 1, m) \in Seq(P) /\ Len(SubSeq(s, 1, m)) = m
           /\ \A i \in 1..m : SubSeq(s, 1, m)[i] = s[i]
<1>1. SubSeq(s, 1, m) = [i \in 1..m |-> s[i]]
  OBVIOUS
<1>2. \A i \in 1..m : s[i] \in P
  OBVIOUS
<1>3. SubSeq(s, 1, m) \in [1..m -> P]
  BY <1>1, <1>2
<1>. QED
  BY <1>1, <1>3

LEMMA AppendFacts ==
    ASSUME NEW P, NEW s \in Seq(P), NEW x \in P
    PROVE  /\ Append(s, x) \in Seq(P) /\ Len(Append(s, x)) = Len(s) + 1
           /\ Append(s, x) = [i \in 1..(Len(s) + 1) |-> IF i = Len(s) + 1 THEN x ELSE s[i]]
<1> DEFINE r == Append(s, x)
<1>1. r \in Seq(P) /\ Len(r) = Len(s) + 1 /\ Len(s) \in Nat
  OBVIOUS
<1>2. \A i \in 1..Len(s) : r[i] = s[i]
  OBVIOUS
<1>3. r[Len(s) + 1] = x
  OBVIOUS
<1> HIDE DEF r
<1>4. r = [i \in 1..(Len(s) + 1) |-> r[i]]
  BY <1>1
<1>5. ASSUME NEW i \in 1..(Len(s) + 1)
      PROVE  r[i] = IF i = Len(s) + 1 THEN x ELSE s[i]
  BY <1>1, <1>2, <1>3
<1>6. r = [i \in 1..(Len(s) + 1) |-> IF i = Len(s) + 1 THEN x ELSE s[i]]
  BY <1>4, <1>5
<1>. QED
  BY <1>1, <1>6 DEF r

(* Room for a hash that was not there. *)
LEMMA MoreHashes ==
    ASSUME NEW H, NEW G, H \subseteq G, NEW ps \in PeakLists(H)
    PROVE  ps \in PeakLists(G)
<1>1. [span : Nat, hash : H] \subseteq [span : Nat, hash : G]
  OBVIOUS
<1> DEFINE P == [span : Nat, hash : H]
           Q == [span : Nat, hash : G]
<1>2. ps \in Seq(P)
  BY DEF PeakLists
<1> HIDE DEF P, Q
<1>3. P \subseteq Q
  BY <1>1 DEF P, Q
<1>4. ps \in Seq(Q)
  BY <1>2, <1>3, SeqWithin
<1>. QED
  BY <1>4 DEF PeakLists, Q

(* A leaf is put on top of the peaks. *)
LEMMA PushLeaf ==
    ASSUME NEW H, NEW ps \in PeakLists(H), NEW leaf
    PROVE  /\ Append(ps, [span |-> 1, hash |-> leaf]) \in PeakLists(H \cup {leaf})
           /\ Len(Append(ps, [span |-> 1, hash |-> leaf])) = Len(ps) + 1
           /\ AsPairs(Append(ps, [span |-> 1, hash |-> leaf])) = Append(AsPairs(ps), <<1, leaf>>)
<1> DEFINE P == [span : Nat, hash : H \cup {leaf}]
           peak == [span |-> 1, hash |-> leaf]
           qs == Append(ps, peak)
<1>1. ps \in Seq(P)
  BY MoreHashes DEF PeakLists
<1>2. peak \in P
  OBVIOUS
<1>3. peak.span = 1 /\ peak.hash = leaf
  OBVIOUS
<1> HIDE DEF P, peak
<1>4. /\ qs \in Seq(P) /\ Len(qs) = Len(ps) + 1 /\ Len(ps) \in Nat
      /\ \A i \in 1..Len(ps) : qs[i] = ps[i]
      /\ qs[Len(ps) + 1] = peak
  BY <1>1, <1>2
<1> HIDE DEF qs
<1>5. AsPairs(qs) = Append(AsPairs(ps), <<1, leaf>>)
  <2> DEFINE L == AsPairs(qs)
             R == Append(AsPairs(ps), <<1, leaf>>)
             n == Len(ps)
  <2>1. AsPairs(ps) = [i \in 1..n |-> <<ps[i].span, ps[i].hash>>] /\ n \in Nat
    BY <1>4 DEF AsPairs
  <2>2. AsPairs(ps) \in Seq({<<ps[i].span, ps[i].hash>> : i \in 1..n}) /\ Len(AsPairs(ps)) = n
    BY <2>1
  <2>3. R = [i \in 1..(n + 1) |-> IF i = n + 1 THEN <<1, leaf>> ELSE AsPairs(ps)[i]]
    BY <2>2
  <2>4. L = [i \in 1..(n + 1) |-> <<qs[i].span, qs[i].hash>>]
    BY <1>4 DEF AsPairs
  <2>5. ASSUME NEW i \in 1..(n + 1)
        PROVE  <<qs[i].span, qs[i].hash>> = IF i = n + 1 THEN <<1, leaf>> ELSE AsPairs(ps)[i]
    BY <1>3, <1>4, <2>1
  <2>. QED
    BY <2>3, <2>4, <2>5
<1>. QED
  BY <1>4, <1>5 DEF qs, P, peak, PeakLists

(* One turn of the loop in Zig is one turn of the loop in Python. *)
LEMMA OneTurn ==
    ASSUME NEW H, NEW ps \in PeakLists(H)
    PROVE  /\ \E G : CarryOne(ps) \in PeakLists(G)
           /\ Len(CarryOne(ps)) <= Len(ps)
           /\ Len(ps) > 0 => Len(CarryOne(ps)) > 0
           /\ AsPairs(CarryOne(ps)) = ReduceOne(AsPairs(ps))
<1> DEFINE n == Len(ps)
           qs == AsPairs(ps)
           P == [span : Nat, hash : H]
<1>1. ps \in Seq(P) /\ n \in Nat
  BY DEF PeakLists
<1>2. /\ qs = [i \in 1..n |-> <<ps[i].span, ps[i].hash>>] /\ Len(qs) = n
      /\ \A i \in 1..n : qs[i][1] = ps[i].span /\ qs[i][2] = ps[i].hash
      /\ qs \in Seq({<<ps[i].span, ps[i].hash>> : i \in 1..n})
  BY <1>1 DEF AsPairs
<1>3. CASE ~ Mergeable(ps)
  <2>1. ASSUME n >= 2
        PROVE  qs[n][1] # qs[n - 1][1]
    <3>1. n \in 1..n /\ n - 1 \in 1..n
      BY <1>1, <2>1
    <3>. QED
      BY <1>2, <1>3, <2>1, <3>1 DEF Mergeable
  <2>2. ReduceOne(qs) = qs
    <3>1. Len(qs) = n
      BY <1>2
    <3> HIDE DEF qs, n
    <3>. QED
      BY <2>1, <3>1 DEF ReduceOne
  <2>. QED
    BY <1>1, <1>3, <2>2 DEF CarryOne
<1>4. CASE Mergeable(ps)
  <2> DEFINE s == 2 * ps[n].span
             h == Combine(ps[n - 1].hash, ps[n].hash)
             peak == [span |-> s, hash |-> h]
             Q == [span : Nat, hash : H \cup {h}]
             short == SubSeq(ps, 1, n - 2)
             rs == Append(short, peak)
  <2>1. n >= 2 /\ ps[n].span = ps[n - 1].span /\ n \in 1..n /\ n - 1 \in 1..n
    BY <1>1, <1>4 DEF Mergeable
  <2>2. ps \in Seq(Q) /\ peak \in Q
    <3>1. ps \in Seq(Q)
      <4>1. H \subseteq H \cup {h}
        OBVIOUS
      <4> HIDE DEF h
      <4>2. ps \in PeakLists(H \cup {h})
        BY <4>1, MoreHashes
      <4>. QED
        BY <4>2 DEF PeakLists
    <3>2. \A i \in 1..Len(ps) : ps[i] \in P
      <4> HIDE DEF P
      <4>. QED
        BY <1>1
    <3>3. ps[n].span \in Nat
      BY <2>1, <3>2
    <3>. QED
      BY <3>1, <3>3
  <2>3. peak.span = s /\ peak.hash = h
    OBVIOUS
  <2>4. CarryOne(ps) = rs
    BY <1>4 DEF CarryOne, Merged
  <2>5. ReduceOne(qs) = Append(SubSeq(qs, 1, n - 2), <<s, h>>)
    BY <1>2, <2>1 DEF ReduceOne
  <2> HIDE DEF s, h, peak, Q
  <2>6. short \in Seq(Q) /\ Len(short) = n - 2 /\ \A i \in 1..(n - 2) : short[i] = ps[i]
    <3>1. n - 2 \in Nat /\ n - 2 <= Len(ps)
      BY <1>1, <2>1
    <3>. QED
      BY <2>2, <3>1, FrontFacts
  <2> HIDE DEF short
  <2>7. /\ rs \in Seq(Q) /\ Len(rs) = n - 1
        /\ \A i \in 1..(n - 2) : rs[i] = ps[i]
        /\ rs[n - 1] = peak
    BY <1>1, <2>1, <2>2, <2>6
  <2> HIDE DEF rs
  <2>8. AsPairs(rs) = [i \in 1..(n - 1) |-> <<rs[i].span, rs[i].hash>>]
    BY <2>7 DEF AsPairs
  <2>9. Append(SubSeq(qs, 1, n - 2), <<s, h>>)
          = [i \in 1..(n - 1) |-> IF i = n - 1 THEN <<s, h>> ELSE qs[i]]
    <3> DEFINE T == {<<ps[i].span, ps[i].hash>> : i \in 1..n} \cup {<<s, h>>}
               front == SubSeq(qs, 1, n - 2)
    <3>1. qs \in Seq(T) /\ <<s, h>> \in T
      BY <1>2
    <3>2. n - 2 \in Nat /\ n - 2 <= Len(qs) /\ n - 1 = (n - 2) + 1
      BY <1>1, <1>2, <2>1
    <3> DEFINE pair == <<s, h>>
    <3> HIDE DEF qs, T, n
    <3>3. front \in Seq(T) /\ Len(front) = n - 2 /\ \A i \in 1..(n - 2) : front[i] = qs[i]
      BY <3>1, <3>2, FrontFacts
    <3> HIDE DEF front, pair
    <3>4. Append(front, pair)
            = [i \in 1..(n - 1) |-> IF i = n - 1 THEN pair ELSE front[i]]
      <4>1. pair \in T
        BY <3>1 DEF pair
      <4>2. Append(front, pair)
              = [i \in 1..(Len(front) + 1) |-> IF i = Len(front) + 1 THEN pair ELSE front[i]]
        BY <3>3, <4>1, AppendFacts
      <4>. QED
        BY <3>2, <3>3, <4>2
    <3>5. ASSUME NEW i \in 1..(n - 1)
          PROVE  (IF i = n - 1 THEN pair ELSE front[i]) = IF i = n - 1 THEN pair ELSE qs[i]
      <4>1. i = n - 1 \/ i \in 1..(n - 2)
        BY <3>2
      <4>. QED
        BY <3>3, <4>1
    <3>. QED
      BY <3>4, <3>5 DEF front, pair
  <2>10. ASSUME NEW i \in 1..(n - 1)
         PROVE  <<rs[i].span, rs[i].hash>> = IF i = n - 1 THEN <<s, h>> ELSE qs[i]
    <3>1. CASE i = n - 1
      BY <2>3, <2>7, <3>1
    <3>2. CASE i # n - 1
      <4>1. i \in 1..(n - 2) /\ i \in 1..n
        BY <1>1, <2>1, <3>2
      <4>. QED
        BY <1>2, <2>7, <3>2, <4>1
    <3>. QED
      BY <3>1, <3>2
  <2>11. AsPairs(rs) = ReduceOne(qs)
    BY <2>5, <2>8, <2>9, <2>10
  <2>12. rs \in PeakLists(H \cup {h})
    BY <2>7 DEF PeakLists, Q
  <2>. QED
    BY <1>1, <2>1, <2>4, <2>7, <2>11, <2>12
<1>. QED
  BY <1>3, <1>4

(* The whole loop in Zig is the whole loop in Python. *)
LEMMA CarryPairs ==
    ASSUME NEW H, NEW ps \in PeakLists(H)
    PROVE  /\ \E G : Carry(ps) \in PeakLists(G)
           /\ Len(ps) > 0 => Len(Carry(ps)) > 0
           /\ AsPairs(Carry(ps)) = ReduceRight(AsPairs(ps))
<1> DEFINE n == Len(ps)
<1>1. n \in Nat /\ Len(AsPairs(ps)) = n
  BY DEF PeakLists, AsPairs
<1>2. PICK f : /\ f[0] = ps
               /\ \A i \in 1..Len(ps) : f[i] = CarryOne(f[i - 1])
               /\ Carry(ps) = f[Len(ps)]
  <2>1. Len(ps) \in Nat
    BY <1>1
  <2>. QED
    BY <2>1, CarryTurns
<1>3. PICK g : /\ g[0] = AsPairs(ps)
               /\ \A i \in 1..n : g[i] = ReduceOne(g[i - 1])
               /\ ReduceRight(AsPairs(ps)) = g[n]
  <2> DEFINE qs == AsPairs(ps)
  <2>1. Len(qs) \in Nat
    BY <1>1
  <2> HIDE DEF qs
  <2>2. \E turn : /\ turn[0] = qs
                  /\ \A i \in 1..Len(qs) : turn[i] = ReduceOne(turn[i - 1])
                  /\ ReduceRight(qs) = turn[Len(qs)]
    BY <2>1, ReduceTurns
  <2>. QED
    BY <1>1, <2>2 DEF qs
<1> DEFINE Alike(i) == /\ \E G : f[i] \in PeakLists(G)
                       /\ Len(ps) > 0 => Len(f[i]) > 0
                       /\ g[i] = AsPairs(f[i])
           S == {i \in Nat : i <= n => Alike(i)}
<1>4. 0 \in S
  BY <1>2, <1>3
<1>5. ASSUME NEW i \in S PROVE i + 1 \in S
  <2>1. i \in Nat
    OBVIOUS
  <2>2. ASSUME i + 1 <= n PROVE Alike(i + 1)
    <3>1. Alike(i)
      BY <1>1, <2>1, <2>2
    <3>2. PICK G : f[i] \in PeakLists(G)
      BY <3>1
    <3>3. /\ \E K : CarryOne(f[i]) \in PeakLists(K)
          /\ Len(f[i]) > 0 => Len(CarryOne(f[i])) > 0
          /\ AsPairs(CarryOne(f[i])) = ReduceOne(AsPairs(f[i]))
      BY <3>2, OneTurn
    <3>4. i + 1 \in 1..n /\ (i + 1) - 1 = i
      BY <1>1, <2>1, <2>2
    <3>5. f[i + 1] = CarryOne(f[i]) /\ g[i + 1] = ReduceOne(g[i])
      BY <1>2, <1>3, <3>4
    <3>. QED
      BY <3>1, <3>3, <3>5
  <2> HIDE DEF Alike
  <2>. QED
    BY <2>1, <2>2
<1>6. n \in S
  <2> HIDE DEF S
  <2>. QED
    BY <1>1, <1>4, <1>5, CountUp
<1>7. Alike(n)
  <2> HIDE DEF Alike
  <2>. QED
    BY <1>1, <1>6
<1>. QED
  BY <1>2, <1>3, <1>7

(* A leaf is appended alike. *)
LEMMA LeafAlike ==
    ASSUME NEW H, NEW ps \in PeakLists(H), NEW leaf
    PROVE  /\ \E G : AppendLeaf(ps, leaf) \in PeakLists(G)
           /\ Len(AppendLeaf(ps, leaf)) > 0
           /\ AsPairs(AppendLeaf(ps, leaf)) = ReduceRight(Append(AsPairs(ps), <<1, leaf>>))
<1> DEFINE qs == Append(ps, [span |-> 1, hash |-> leaf])
<1>1. /\ qs \in PeakLists(H \cup {leaf}) /\ Len(qs) = Len(ps) + 1
      /\ AsPairs(qs) = Append(AsPairs(ps), <<1, leaf>>)
  BY PushLeaf
<1>2. AppendLeaf(ps, leaf) = Carry(qs)
  BY DEF AppendLeaf
<1>3. Len(qs) > 0
  BY <1>1 DEF PeakLists
<1> HIDE DEF qs
<1>4. /\ \E G : Carry(qs) \in PeakLists(G)
      /\ Len(qs) > 0 => Len(Carry(qs)) > 0
      /\ AsPairs(Carry(qs)) = ReduceRight(AsPairs(qs))
  BY <1>1, CarryPairs
<1>. QED
  BY <1>1, <1>2, <1>3, <1>4

-----------------------------------------------------------------------------
(* The peaks that Python builds for no leaves, and for one leaf more.      *)
LEMMA PeaksOfNone == VectorPeaks(<<>>) = <<>>
<1>1. Len(<<>>) = 0
  OBVIOUS
<1> DEFINE ls == <<>>
<1>2. Len(ls) = 0 /\ Len(ls) \in Nat
  BY <1>1
<1> HIDE DEF ls
<1>3. \E turn : /\ turn[0] = <<>>
                /\ \A i \in 1..Len(ls) : turn[i] = ReduceRight(Append(turn[i - 1], <<1, ls[i]>>))
                /\ VectorPeaks(ls) = turn[Len(ls)]
  BY <1>2, PeaksTurns
<1>. QED
  BY <1>2, <1>3 DEF ls

LEMMA PeaksOfMore ==
    ASSUME NEW L, NEW ls \in Seq(L), NEW leaf \in L
    PROVE  VectorPeaks(Append(ls, leaf)) = ReduceRight(Append(VectorPeaks(ls), <<1, leaf>>))
<1> DEFINE n == Len(ls)
           more == Append(ls, leaf)
<1>1. /\ Len(ls) \in Nat /\ Len(more) = Len(ls) + 1 /\ Len(more) \in Nat
      /\ more[Len(ls) + 1] = leaf /\ \A i \in 1..Len(ls) : more[i] = ls[i]
  OBVIOUS
<1> HIDE DEF more
<1>2. PICK f : /\ f[0] = <<>>
               /\ \A i \in 1..Len(ls) : f[i] = ReduceRight(Append(f[i - 1], <<1, ls[i]>>))
               /\ VectorPeaks(ls) = f[Len(ls)]
  BY <1>1, PeaksTurns
<1>3. PICK g : /\ g[0] = <<>>
               /\ \A i \in 1..Len(more) : g[i] = ReduceRight(Append(g[i - 1], <<1, more[i]>>))
               /\ VectorPeaks(more) = g[Len(more)]
  BY <1>1, PeaksTurns
<1> DEFINE S == {i \in Nat : i <= n => g[i] = f[i]}
<1>4. 0 \in S
  BY <1>2, <1>3
<1>5. ASSUME NEW i \in S PROVE i + 1 \in S
  <2>1. i \in Nat
    OBVIOUS
  <2>2. ASSUME i + 1 <= n PROVE g[i + 1] = f[i + 1]
    <3>1. g[i] = f[i]
      BY <1>1, <2>1, <2>2
    <3>2. i + 1 \in 1..Len(ls) /\ i + 1 \in 1..Len(more) /\ (i + 1) - 1 = i
      BY <1>1, <2>1, <2>2
    <3>3. g[i + 1] = ReduceRight(Append(g[i], <<1, more[i + 1]>>))
      BY <1>3, <3>2
    <3>4. f[i + 1] = ReduceRight(Append(f[i], <<1, ls[i + 1]>>))
      BY <1>2, <3>2
    <3>. QED
      BY <1>1, <3>1, <3>2, <3>3, <3>4
  <2>. QED
    BY <2>1, <2>2
<1>6. n \in S
  <2> HIDE DEF S
  <2>. QED
    BY <1>1, <1>4, <1>5, CountUp
<1>7. g[n] = f[n]
  BY <1>1, <1>6
<1>8. n + 1 \in 1..Len(more) /\ (n + 1) - 1 = n
  BY <1>1
<1>9. g[n + 1] = ReduceRight(Append(g[n], <<1, more[n + 1]>>))
  BY <1>3, <1>8
<1>. QED
  BY <1>1, <1>2, <1>3, <1>7, <1>9 DEF more

(* The state of Python's loop for no records, and for one record more.     *)
LEMMA StateOfNone == VectorState(<<>>) = [hashes |-> <<>>, cur |-> <<>>, bytes |-> 0]
<1>1. Len(<<>>) = 0
  OBVIOUS
<1> DEFINE rs == <<>>
<1>2. Len(rs) = 0 /\ Len(rs) \in Nat
  BY <1>1
<1> HIDE DEF rs
<1>3. \E turn : /\ turn[0] = [hashes |-> <<>>, cur |-> <<>>, bytes |-> 0]
                /\ \A i \in 1..Len(rs) : turn[i] = VectorTake(turn[i - 1], rs[i])
                /\ VectorState(rs) = turn[Len(rs)]
  BY <1>2, StateTurns
<1>. QED
  BY <1>2, <1>3 DEF rs

LEMMA StateOfMore ==
    ASSUME NEW L, NEW rs \in Seq(L), NEW size \in L
    PROVE  VectorState(Append(rs, size)) = VectorTake(VectorState(rs), size)
<1> DEFINE n == Len(rs)
           more == Append(rs, size)
           none == [hashes |-> <<>>, cur |-> <<>>, bytes |-> 0]
<1>1. /\ Len(rs) \in Nat /\ Len(more) = Len(rs) + 1 /\ Len(more) \in Nat
      /\ more[Len(rs) + 1] = size /\ \A i \in 1..Len(rs) : more[i] = rs[i]
  OBVIOUS
<1> HIDE DEF more
<1>2. PICK f : /\ f[0] = [hashes |-> <<>>, cur |-> <<>>, bytes |-> 0]
               /\ \A i \in 1..Len(rs) : f[i] = VectorTake(f[i - 1], rs[i])
               /\ VectorState(rs) = f[Len(rs)]
  BY <1>1, StateTurns
<1>3. PICK g : /\ g[0] = [hashes |-> <<>>, cur |-> <<>>, bytes |-> 0]
               /\ \A i \in 1..Len(more) : g[i] = VectorTake(g[i - 1], more[i])
               /\ VectorState(more) = g[Len(more)]
  BY <1>1, StateTurns
<1> DEFINE S == {i \in Nat : i <= n => g[i] = f[i]}
<1>4. 0 \in S
  BY <1>2, <1>3
<1>5. ASSUME NEW i \in S PROVE i + 1 \in S
  <2>1. i \in Nat
    OBVIOUS
  <2>2. ASSUME i + 1 <= n PROVE g[i + 1] = f[i + 1]
    <3>1. g[i] = f[i]
      BY <1>1, <2>1, <2>2
    <3>2. i + 1 \in 1..Len(rs) /\ i + 1 \in 1..Len(more) /\ (i + 1) - 1 = i
      BY <1>1, <2>1, <2>2
    <3>3. g[i + 1] = VectorTake(g[i], more[i + 1])
      BY <1>3, <3>2
    <3>4. f[i + 1] = VectorTake(f[i], rs[i + 1])
      BY <1>2, <3>2
    <3>. QED
      BY <1>1, <3>1, <3>2, <3>3, <3>4
  <2>. QED
    BY <2>1, <2>2
<1>6. n \in S
  <2> HIDE DEF S
  <2>. QED
    BY <1>1, <1>4, <1>5, CountUp
<1>7. g[n] = f[n]
  BY <1>1, <1>6
<1>8. n + 1 \in 1..Len(more) /\ (n + 1) - 1 = n
  BY <1>1
<1>9. g[n + 1] = VectorTake(g[n], more[n + 1])
  BY <1>3, <1>8
<1>. QED
  BY <1>1, <1>2, <1>3, <1>7, <1>9 DEF more

(* Peaks that stand for each other have the same root.                     *)
LEMMA RootPairs ==
    ASSUME NEW H, NEW ps \in PeakLists(H), Len(ps) > 0, NEW ls, VectorPeaks(ls) = AsPairs(ps)
    PROVE  VectorTreeRoot(ls) = TreeRoot(ps)
<1> DEFINE n == Len(ps)
           qs == VectorPeaks(ls)
<1>1. Len(ps) \in Nat \ {0}
  BY DEF PeakLists
<1>2. Len(qs) = n /\ Len(VectorPeaks(ls)) \in Nat \ {0}
  BY <1>1 DEF AsPairs
<1>3. \A i \in 1..n : qs[i][2] = ps[i].hash
  BY <1>1 DEF AsPairs
<1>4. PICK f : /\ f[1] = ps[1].hash
               /\ \A i \in 2..Len(ps) : f[i] = Combine(f[i - 1], ps[i].hash)
               /\ TreeRoot(ps) = f[Len(ps)]
  BY <1>1, RootTurns
<1>5. PICK g : /\ g[1] = VectorPeaks(ls)[1][2]
               /\ \A i \in 2..Len(VectorPeaks(ls)) :
                      g[i] = Combine(g[i - 1], VectorPeaks(ls)[i][2])
               /\ VectorTreeRoot(ls) = g[Len(VectorPeaks(ls))]
  BY <1>2, VectorRootTurns
<1> DEFINE S == {i \in Nat : i >= 1 /\ i <= n => g[i] = f[i]}
<1> HIDE DEF qs
<1>6. 1 \in S
  BY <1>1, <1>3, <1>4, <1>5 DEF qs
<1>7. ASSUME NEW i \in S PROVE i + 1 \in S
  <2>1. i \in Nat
    OBVIOUS
  <2>2. ASSUME i + 1 <= n PROVE g[i + 1] = f[i + 1]
    <3>1. CASE i = 0
      BY <1>6, <1>1, <3>1
    <3>2. CASE i # 0
      <4>1. g[i] = f[i]
        BY <1>1, <2>1, <2>2, <3>2
      <4>2. i + 1 \in 2..Len(ps) /\ i + 1 \in 2..Len(qs) /\ (i + 1) - 1 = i /\ i + 1 \in 1..n
        BY <1>1, <1>2, <2>1, <2>2, <3>2
      <4>3. g[i + 1] = Combine(g[i], qs[i + 1][2])
        BY <1>5, <4>2 DEF qs
      <4>4. f[i + 1] = Combine(f[i], ps[i + 1].hash)
        BY <1>4, <4>2
      <4>. QED
        BY <1>3, <4>1, <4>2, <4>3, <4>4
    <3>. QED
      BY <3>1, <3>2
  <2>. QED
    BY <2>1, <2>2
<1>8. n \in S
  <2> HIDE DEF S
  <2>1. 1 \in Nat /\ n \in Nat /\ n >= 1
    BY <1>1
  <2>. QED
    BY <1>6, <1>7, <2>1, CountUp
<1>9. g[n] = f[n]
  BY <1>1, <1>8
<1>. QED
  BY <1>2, <1>4, <1>5, <1>9 DEF qs

-----------------------------------------------------------------------------
BlockSpec == BlockInit /\ [][BlockNext]_blockVars

(***************************************************************************)
(* Streamed: what the incremental hasher holds is what Python's loop has   *)
(* after the same records: the closed blocks, the records of the open one  *)
(* and its size; and its peaks are those Python builds over those leaves.  *)
(***************************************************************************)
OpenBlock == IF block_open THEN block ELSE <<>>

OpenBytes == IF block_open THEN block_bytes ELSE 0

BlockTypes ==
    /\ records \in Seq(FrameSizes) /\ block \in Seq(FrameSizes)
    /\ \E L : leaves \in Seq(L)
    /\ \E H : peaks \in PeakLists(H)
    /\ block_bytes \in Nat /\ block_open \in BOOLEAN

Streamed ==
    /\ VectorState(records) = [hashes |-> leaves, cur |-> OpenBlock, bytes |-> OpenBytes]
    /\ block_open => block_bytes > 0

Reduced ==
    /\ VectorPeaks(leaves) = AsPairs(peaks)
    /\ Len(leaves) > 0 => Len(peaks) > 0

BlockInv == BlockTypes /\ Streamed /\ Reduced

(* The hasher starts alike. *)
LEMMA BlockInvInit == BlockInit => BlockInv
<1> SUFFICES ASSUME BlockInit PROVE BlockInv
  OBVIOUS
<1>1. /\ records = <<>> /\ leaves = <<>> /\ peaks = <<>>
      /\ block = <<>> /\ block_bytes = 0 /\ block_open = FALSE
  BY DEF BlockInit
<1>2. BlockTypes
  <2>1. leaves \in Seq({}) /\ peaks \in PeakLists({})
    BY <1>1 DEF PeakLists
  <2>2. /\ \E L : leaves \in Seq(L)
        /\ \E H : peaks \in PeakLists(H)
    BY <2>1
  <2>3. records \in Seq(FrameSizes) /\ block \in Seq(FrameSizes)
    BY <1>1
  <2>4. block_bytes \in Nat /\ block_open \in BOOLEAN
    BY <1>1
  <2>. QED
    BY <2>2, <2>3, <2>4 DEF BlockTypes
<1>3. Streamed
  BY <1>1, StateOfNone DEF Streamed, OpenBlock, OpenBytes
<1>4. Reduced
  <2>1. AsPairs(<<>>) = <<>>
    BY DEF AsPairs
  <2>. QED
    BY <1>1, <2>1, PeaksOfNone DEF Reduced
<1>. QED
  BY <1>2, <1>3, <1>4 DEF BlockInv

(* One leaf more, in the tree and in Python's list. *)
LEMMA LeafAppended ==
    ASSUME BlockTypes, Reduced, NEW leaf
    PROVE  /\ \E L : Append(leaves, leaf) \in Seq(L)
           /\ Len(Append(leaves, leaf)) = Len(leaves) + 1 /\ Len(leaves) \in Nat
           /\ \E H : AppendLeaf(peaks, leaf) \in PeakLists(H)
           /\ Len(AppendLeaf(peaks, leaf)) > 0
           /\ VectorPeaks(Append(leaves, leaf)) = AsPairs(AppendLeaf(peaks, leaf))
<1>1. PICK L : leaves \in Seq(L)
  BY DEF BlockTypes
<1>2. PICK H : peaks \in PeakLists(H)
  BY DEF BlockTypes
<1> DEFINE M == L \cup {leaf}
<1>3. leaves \in Seq(M) /\ leaf \in M
  <2>1. L \subseteq M /\ leaf \in M
    OBVIOUS
  <2> HIDE DEF M
  <2>. QED
    BY <1>1, <2>1, SeqWithin
<1> HIDE DEF M
<1>4. /\ Append(leaves, leaf) \in Seq(M)
      /\ Len(Append(leaves, leaf)) = Len(leaves) + 1 /\ Len(leaves) \in Nat
  BY <1>3
<1>5. /\ \E G : AppendLeaf(peaks, leaf) \in PeakLists(G)
      /\ Len(AppendLeaf(peaks, leaf)) > 0
      /\ AsPairs(AppendLeaf(peaks, leaf)) = ReduceRight(Append(AsPairs(peaks), <<1, leaf>>))
  BY <1>2, LeafAlike
<1>6. VectorPeaks(Append(leaves, leaf)) = ReduceRight(Append(VectorPeaks(leaves), <<1, leaf>>))
  BY <1>3, PeaksOfMore
<1>7. VectorPeaks(leaves) = AsPairs(peaks)
  BY DEF Reduced
<1>. QED
  BY <1>4, <1>5, <1>6, <1>7

(* Each record keeps the two hashers alike. *)
LEMMA BlockInvNext == BlockInv /\ [BlockNext]_blockVars => BlockInv'
<1> SUFFICES ASSUME BlockInv, [BlockNext]_blockVars PROVE BlockInv'
  OBVIOUS
<1>1. ASSUME NEW size \in FrameSizes, AppendRecord(size) PROVE BlockInv'
  <2>1. /\ records' = Append(records, size)
        /\ block' = Append(OpenBlock, size)
        /\ block_bytes' = OpenBytes + size
    BY <1>1 DEF AppendRecord, OpenBlock, OpenBytes
  <2>2. BlockTypes /\ Streamed /\ Reduced
    BY DEF BlockInv
  <2>3. size \in Nat /\ size > 0 /\ Target \in Nat \ {0}
    BY BlockAssumption
  <2>4. OpenBytes \in Nat /\ OpenBlock \in Seq(FrameSizes) /\ records \in Seq(FrameSizes)
    BY <2>2 DEF BlockTypes, OpenBytes, OpenBlock
  <2>5. block_bytes' \in Nat /\ block_bytes' > 0
    BY <2>1, <2>3, <2>4
  <2>6. records' \in Seq(FrameSizes) /\ block' \in Seq(FrameSizes)
    BY <2>1, <2>4
  <2>7. VectorState(records') = VectorTake(VectorState(records), size)
    BY <2>1, <2>4, StateOfMore
  <2>8. VectorState(records) = [hashes |-> leaves, cur |-> OpenBlock, bytes |-> OpenBytes]
    BY <2>2 DEF Streamed
  <2> DEFINE state == VectorState(records)
  <2>9. state.hashes = leaves /\ state.cur = OpenBlock /\ state.bytes = OpenBytes
    BY <2>8
  <2>10. VectorState(records')
          = IF block_bytes' >= Target
            THEN [hashes |-> Append(leaves, BlockHash(Len(leaves), block')),
                  cur |-> <<>>, bytes |-> 0]
            ELSE [hashes |-> leaves, cur |-> block', bytes |-> block_bytes']
    <3> HIDE DEF state
    <3>1. VectorState(records') = VectorTake(state, size)
      BY <2>7 DEF state
    <3>. QED
      BY <2>1, <2>9, <3>1 DEF VectorTake
  <2>11. CASE Full(block_bytes')
    <3> DEFINE leaf == BlockHash(Len(leaves), block')
    <3>1. /\ block_open' = FALSE /\ leaves' = Append(leaves, leaf)
          /\ peaks' = AppendLeaf(peaks, leaf)
      BY <1>1, <2>11 DEF AppendRecord, CloseBlock
    <3>2. block_bytes' >= Target
      BY <2>11 DEF Full
    <3>3. VectorState(records') = [hashes |-> leaves', cur |-> <<>>, bytes |-> 0]
      BY <2>10, <3>1, <3>2
    <3> HIDE DEF leaf
    <3>4. /\ \E L : Append(leaves, leaf) \in Seq(L)
          /\ Len(Append(leaves, leaf)) = Len(leaves) + 1 /\ Len(leaves) \in Nat
          /\ \E H : AppendLeaf(peaks, leaf) \in PeakLists(H)
          /\ Len(AppendLeaf(peaks, leaf)) > 0
          /\ VectorPeaks(Append(leaves, leaf)) = AsPairs(AppendLeaf(peaks, leaf))
      BY <2>2, LeafAppended
    <3>5. BlockTypes'
      BY <2>5, <2>6, <3>1, <3>4 DEF BlockTypes
    <3>6. Streamed'
      BY <3>1, <3>3 DEF Streamed, OpenBlock, OpenBytes
    <3>7. Reduced'
      BY <3>1, <3>4 DEF Reduced
    <3>. QED
      BY <3>5, <3>6, <3>7 DEF BlockInv
  <2>12. CASE ~ Full(block_bytes')
    <3>1. block_open' = TRUE /\ leaves' = leaves /\ peaks' = peaks
      BY <1>1, <2>12 DEF AppendRecord
    <3>2. ~ (block_bytes' >= Target)
      BY <2>12 DEF Full
    <3>3. VectorState(records') = [hashes |-> leaves, cur |-> block', bytes |-> block_bytes']
      BY <2>10, <3>2
    <3>4. BlockTypes'
      BY <2>2, <2>5, <2>6, <3>1 DEF BlockTypes
    <3>5. Streamed'
      BY <2>5, <3>1, <3>3 DEF Streamed, OpenBlock, OpenBytes
    <3>6. Reduced'
      BY <2>2, <3>1 DEF Reduced
    <3>. QED
      BY <3>4, <3>5, <3>6 DEF BlockInv
  <2>. QED
    BY <2>11, <2>12
<1>2. ASSUME UNCHANGED blockVars PROVE BlockInv'
  BY <1>2 DEF blockVars, BlockInv, BlockTypes, Streamed, Reduced, OpenBlock, OpenBytes
<1>. QED
  BY <1>1, <1>2 DEF BlockNext

(* Two hashers that are alike give one hash. *)
LEMMA InvAgrees == BlockInv => VectorsAgree
<1> SUFFICES ASSUME BlockInv PROVE VectorsAgree
  OBVIOUS
<1>1. BlockTypes /\ Streamed /\ Reduced
  BY DEF BlockInv
<1> DEFINE state == VectorState(records)
           hashes == VectorBlockHashes(records)
<1>2. /\ state.hashes = leaves /\ state.bytes = OpenBytes /\ state.cur = OpenBlock
  BY <1>1 DEF Streamed
<1>3. hashes = IF OpenBytes > 0 THEN Append(leaves, BlockHash(Len(leaves), OpenBlock))
               ELSE leaves
  <2> HIDE DEF state
  <2>1. hashes = IF state.bytes > 0
                 THEN Append(state.hashes, BlockHash(Len(state.hashes), state.cur))
                 ELSE state.hashes
    BY DEF VectorBlockHashes, state
  <2>. QED
    BY <1>2, <2>1
<1>4. Len(leaves) \in Nat
  BY <1>1 DEF BlockTypes
<1>5. CASE block_open
  <2> DEFINE leaf == BlockHash(Len(leaves), block)
  <2>1. OpenBytes > 0 /\ OpenBlock = block
    BY <1>1, <1>5 DEF Streamed, OpenBytes, OpenBlock
  <2>2. hashes = Append(leaves, leaf) /\ LeafCount = Len(leaves) + 1
        /\ Closed(peaks) = AppendLeaf(peaks, leaf)
    BY <1>3, <1>5, <2>1 DEF LeafCount, Closed
  <2> HIDE DEF leaf, hashes
  <2>3. /\ Len(Append(leaves, leaf)) = Len(leaves) + 1
        /\ \E H : AppendLeaf(peaks, leaf) \in PeakLists(H)
        /\ Len(AppendLeaf(peaks, leaf)) > 0
        /\ VectorPeaks(Append(leaves, leaf)) = AsPairs(AppendLeaf(peaks, leaf))
    BY <1>1, LeafAppended
  <2>4. VectorTreeRoot(hashes) = TreeRoot(Closed(peaks))
    <3>1. PICK H : AppendLeaf(peaks, leaf) \in PeakLists(H)
      BY <2>3
    <3>2. VectorTreeRoot(Append(leaves, leaf)) = TreeRoot(AppendLeaf(peaks, leaf))
      BY <2>3, <3>1, RootPairs
    <3>. QED
      BY <2>2, <3>2
  <2>5. Len(hashes) = LeafCount /\ LeafCount # 0 /\ hashes # <<>>
    <3>1. Len(hashes) = LeafCount /\ LeafCount # 0
      BY <1>4, <2>2, <2>3
    <3>. QED
      BY <3>1
  <2>. QED
    BY <2>4, <2>5 DEF VectorsAgree, Final, VectorBucketHash, hashes
<1>6. CASE ~ block_open
  <2>1. OpenBytes = 0
    BY <1>6 DEF OpenBytes
  <2>2. hashes = leaves /\ LeafCount = Len(leaves) /\ Closed(peaks) = peaks
    BY <1>3, <1>4, <1>6, <2>1 DEF LeafCount, Closed
  <2>3. CASE leaves = <<>>
    BY <2>2, <2>3 DEF VectorsAgree, Final, VectorBucketHash
  <2>4. CASE leaves # <<>>
    <3>1. Len(leaves) > 0
      <4>1. PICK L : leaves \in Seq(L)
        BY <1>1 DEF BlockTypes
      <4>. QED
        BY <2>4, <4>1
    <3>2. VectorPeaks(leaves) = AsPairs(peaks) /\ Len(peaks) > 0
      BY <1>1, <3>1 DEF Reduced
    <3>3. PICK H : peaks \in PeakLists(H)
      BY <1>1 DEF BlockTypes
    <3>4. VectorTreeRoot(leaves) = TreeRoot(peaks)
      BY <3>2, <3>3, RootPairs
    <3> HIDE DEF hashes
    <3>. QED
      BY <1>4, <2>2, <2>4, <3>1, <3>4 DEF VectorsAgree, Final, VectorBucketHash, hashes
  <2>. QED
    BY <2>3, <2>4
<1>. QED
  BY <1>1, <1>5, <1>6 DEF BlockTypes

(***************************************************************************)
(* For any sizes of records and any target, the incremental hasher gives,  *)
(* after every record, the hash that v2-vectors.py computes from the whole *)
(* list.                                                                   *)
(***************************************************************************)
THEOREM BlockSpecVectorsAgree == BlockSpec => []VectorsAgree
<1>1. BlockInit => BlockInv
  BY BlockInvInit
<1>2. BlockInv /\ [BlockNext]_blockVars => BlockInv'
  BY BlockInvNext
<1>3. BlockInv => VectorsAgree
  BY InvAgrees
<1>. QED
  BY <1>1, <1>2, <1>3, PTL DEF BlockSpec

-----------------------------------------------------------------------------
(* x is a multiple of d. *)
Multiple(x, d) == \E q \in Nat : x = q * d

(* The bit of x worth d is clear. *)
EvenAt(x, d) == (x \div d) % 2 = 0

(* Division by d, its remainder, and the bit worth d of a number. *)
LEMMA Divided ==
    ASSUME NEW q \in Nat, NEW d \in Nat \ {0}, NEW r \in 0..(d - 1)
    PROVE  (q * d + r) \div d = q
  OBVIOUS

LEMMA Quotient ==
    ASSUME NEW x \in Nat, NEW d \in Nat \ {0}
    PROVE  \E q \in Nat, r \in 0..(d - 1) : x = q * d + r
<1>1. x = (x \div d) * d + (x % d) /\ x % d \in 0..(d - 1) /\ x \div d \in Nat
  OBVIOUS
<1>. QED
  BY <1>1

LEMMA EvenSmall ==
    ASSUME NEW x \in Nat, NEW d \in Nat \ {0}, x < d
    PROVE  EvenAt(x, d)
<1>1. x \div d = 0
  OBVIOUS
<1>. QED
  BY <1>1 DEF EvenAt

LEMMA OddNext ==
    ASSUME NEW x \in Nat, NEW d \in Nat \ {0}, d <= x, x < 2 * d
    PROVE  ~ EvenAt(x, d)
<1>1. x \div d = 1
  OBVIOUS
<1>. QED
  BY <1>1 DEF EvenAt

LEMMA EvenAgain ==
    ASSUME NEW x \in Nat, NEW y \in Nat, NEW d \in Nat \ {0}, Multiple(y, 2 * d)
    PROVE  EvenAt(x + y, d) <=> EvenAt(x, d)
<1>1. PICK k \in Nat : y = k * (2 * d)
  BY DEF Multiple
<1>2. PICK q \in Nat, r \in 0..(d - 1) : x = q * d + r
  BY Quotient
<1>3. x \div d = q
  BY <1>2, Divided
<1> DEFINE p == q + 2 * k
<1>4. p \in Nat /\ p * d + r = x + y
  BY <1>1, <1>2
<1> HIDE DEF p
<1>5. (p * d + r) \div d = p
  BY <1>4, Divided
<1>6. (x + y) \div d = p
  BY <1>4, <1>5
<1>7. (q + 2 * k) % 2 = q % 2
  OBVIOUS
<1>. QED
  BY <1>3, <1>6, <1>7 DEF EvenAt, p

LEMMA WholeBlocks ==
    ASSUME NEW x \in Nat, NEW r \in Nat, NEW d \in Nat \ {0}, Multiple(x, d), r < d
    PROVE  d * ((x + r) \div d) = x
<1>1. PICK k \in Nat : x = k * d
  BY DEF Multiple
<1>2. (k * d + r) \div d = k
  BY Divided
<1>. QED
  BY <1>1, <1>2

LEMMA MultipleSum ==
    ASSUME NEW x \in Nat, NEW y \in Nat, NEW d \in Nat, Multiple(x, d), Multiple(y, d)
    PROVE  Multiple(x + y, d)
<1>1. PICK k \in Nat : x = k * d
  BY DEF Multiple
<1>2. PICK j \in Nat : y = j * d
  BY DEF Multiple
<1>3. x + y = (k + j) * d /\ k + j \in Nat
  BY <1>1, <1>2
<1>. QED
  BY <1>3 DEF Multiple

LEMMA MultipleOf ==
    ASSUME NEW x \in Nat, NEW y \in Nat, NEW d \in Nat, Multiple(x, y), Multiple(y, d)
    PROVE  Multiple(x, d)
<1>1. PICK k \in Nat : x = k * y
  BY DEF Multiple
<1>2. PICK j \in Nat : y = j * d
  BY DEF Multiple
<1>3. x = (k * j) * d /\ k * j \in Nat
  BY <1>1, <1>2
<1>. QED
  BY <1>3 DEF Multiple

LEMMA MultipleStep ==
    ASSUME NEW x \in Nat, NEW y \in Nat, NEW d \in Nat \ {0},
           Multiple(x, d), Multiple(y, d), x < y
    PROVE  x + d <= y
<1>1. PICK k \in Nat : x = k * d
  BY DEF Multiple
<1>2. PICK j \in Nat : y = j * d
  BY DEF Multiple
<1>3. k + 1 <= j
  <2>1. ASSUME j <= k PROVE j * d <= k * d
    BY <2>1
  <2>. QED
    BY <1>1, <1>2, <2>1
<1>4. (k + 1) * d <= j * d
  BY <1>3
<1>. QED
  BY <1>1, <1>2, <1>4

-----------------------------------------------------------------------------
(* A smaller power of two divides a larger one. *)
LEMMA PowersDivide ==
    ASSUME NEW low \in 0..(MaxSlot + 1), NEW high \in 0..(MaxSlot + 1), low <= high
    PROVE  Multiple(2^high, 2^low)
<1> DEFINE S == {k \in Nat : k >= low /\ (k <= MaxSlot + 1 => Multiple(2^k, 2^low))}
<1>1. MaxSlot \in Nat
  BY BlockAssumption
<1>2. low \in S
  <2>1. 2^low \in Nat
    BY PowerOfTwoAssumption DEF PowersOfTwo
  <2>2. Multiple(2^low, 2^low)
    <3>1. 2^low = 1 * 2^low
      BY <2>1
    <3>. QED
      BY <3>1 DEF Multiple
  <2>. QED
    BY <1>1, <2>2
<1>3. ASSUME NEW k \in S PROVE k + 1 \in S
  <2>1. k \in Nat /\ k >= low
    OBVIOUS
  <2>2. ASSUME k + 1 <= MaxSlot + 1 PROVE Multiple(2^(k + 1), 2^low)
    <3>1. Multiple(2^k, 2^low) /\ k \in 0..MaxSlot /\ k \in 0..(MaxSlot + 1)
      BY <1>1, <2>1, <2>2
    <3>2. 2^(k + 1) = 2 * 2^k /\ 2^k \in Nat /\ 2^low \in Nat
      BY <3>1, PowerOfTwoAssumption DEF PowersOfTwo
    <3>3. Multiple(2^k + 2^k, 2^low)
      BY <3>1, <3>2, MultipleSum
    <3>4. 2^k + 2^k = 2^(k + 1)
      BY <3>2
    <3>. QED
      BY <3>3, <3>4
  <2>. QED
    BY <2>1, <2>2
<1>4. high \in S
  <2> HIDE DEF S
  <2>1. low \in Nat /\ high \in Nat /\ high >= low
    BY <1>1
  <2>. QED
    BY <1>2, <1>3, <2>1, CountUp
<1>. QED
  BY <1>1, <1>4

(* A power of two is at least twice a smaller one. *)
LEMMA PowersGrow ==
    ASSUME NEW low \in 0..(MaxSlot + 1), NEW high \in 0..(MaxSlot + 1), low < high
    PROVE  2 * 2^low <= 2^high /\ 2^low < 2^high
<1>1. MaxSlot \in Nat
  BY BlockAssumption
<1>2. low \in 0..MaxSlot /\ low + 1 \in 0..(MaxSlot + 1) /\ low + 1 <= high
  BY <1>1
<1>3. /\ 2^(low + 1) = 2 * 2^low /\ 2^low \in Nat /\ 2^low > 0
      /\ 2^high \in Nat /\ 2^high > 0
  BY <1>2, PowerOfTwoAssumption DEF PowersOfTwo
<1>4. Multiple(2^high, 2^(low + 1))
  BY <1>2, PowersDivide
<1> DEFINE a == 2^low
           b == 2^high
<1>5. PICK q \in Nat : b = q * (2 * a)
  BY <1>3, <1>4 DEF Multiple
<1>6. a \in Nat /\ a > 0 /\ b > 0
  BY <1>3
<1> HIDE DEF a, b
<1>7. q >= 1
  BY <1>5, <1>6
<1>8. b >= 2 * a
  BY <1>5, <1>6, <1>7
<1>. QED
  BY <1>6, <1>8 DEF a, b

(* The last of the places that hold something that the first one holds.    *)
LEMMA LastOf ==
    ASSUME NEW n \in Nat \ {0}, NEW P, 1 \in P
    PROVE  \E i \in 1..n : i \in P /\ (i = n \/ i + 1 \notin P)
<1> SUFFICES ASSUME \A i \in 1..n : i \in P => i # n /\ i + 1 \in P
             PROVE  FALSE
  OBVIOUS
<1> DEFINE S == {k \in Nat : k >= 1 /\ (k <= n => k \in P)}
<1>1. 1 \in S
  OBVIOUS
<1>2. ASSUME NEW k \in S PROVE k + 1 \in S
  OBVIOUS
<1>3. n \in S
  <2> HIDE DEF S
  <2>1. n \in Nat /\ n >= 1 /\ 1 \in Nat
    OBVIOUS
  <2>. QED
    BY <1>1, <1>2, <2>1, CountUp
<1>. QED
  BY <1>3

(* What two peaks of one span become. *)
LEMMA MergedIs ==
    ASSUME NEW H, NEW ps \in PeakLists(H), Mergeable(ps)
    PROVE  /\ Len(ps) \in Nat /\ Len(ps) >= 2
           /\ ps[Len(ps)].span = ps[Len(ps) - 1].span /\ ps[Len(ps)].span \in Nat
           /\ \E G : Merged(ps) \in PeakLists(G)
           /\ Len(Merged(ps)) = Len(ps) - 1
           /\ \A i \in 1..(Len(ps) - 2) : Merged(ps)[i] = ps[i]
           /\ Merged(ps)[Len(ps) - 1].span = 2 * ps[Len(ps)].span
           /\ Merged(ps)[Len(ps) - 1].hash = Combine(ps[Len(ps) - 1].hash, ps[Len(ps)].hash)
<1> DEFINE n == Len(ps)
           P == [span : Nat, hash : H]
           s == 2 * ps[n].span
           h == Combine(ps[n - 1].hash, ps[n].hash)
           peak == [span |-> s, hash |-> h]
           Q == [span : Nat, hash : H \cup {h}]
           short == SubSeq(ps, 1, n - 2)
           rs == Append(short, peak)
<1>1. ps \in Seq(P) /\ n \in Nat
  BY DEF PeakLists
<1>2. n >= 2 /\ ps[n].span = ps[n - 1].span /\ n \in 1..n /\ n - 1 \in 1..n
  BY <1>1 DEF Mergeable
<1>3. ps \in Seq(Q)
  <2>1. H \subseteq H \cup {h}
    OBVIOUS
  <2> HIDE DEF h
  <2>2. ps \in PeakLists(H \cup {h})
    BY <2>1, MoreHashes
  <2>. QED
    BY <2>2 DEF PeakLists
<1>4. ps[n].span \in Nat
  <2>1. \A i \in 1..Len(ps) : ps[i] \in P
    <3> HIDE DEF P
    <3>. QED
      BY <1>1
  <2>. QED
    BY <1>2, <2>1
<1>5. peak \in Q /\ peak.span = s /\ peak.hash = h
  BY <1>4
<1>6. Merged(ps) = rs
  BY DEF Merged
<1> HIDE DEF s, h, peak, Q, P
<1>7. short \in Seq(Q) /\ Len(short) = n - 2 /\ \A i \in 1..(n - 2) : short[i] = ps[i]
  <2>1. n - 2 \in Nat /\ n - 2 <= Len(ps)
    BY <1>1, <1>2
  <2>. QED
    BY <1>3, <2>1, FrontFacts
<1> HIDE DEF short
<1>8. /\ rs \in Seq(Q) /\ Len(rs) = n - 1
      /\ \A i \in 1..(n - 2) : rs[i] = ps[i]
      /\ rs[n - 1] = peak
  BY <1>1, <1>2, <1>5, <1>7
<1> HIDE DEF rs
<1>9. rs \in PeakLists(H \cup {h})
  BY <1>8 DEF PeakLists, Q
<1>. QED
  BY <1>1, <1>2, <1>4, <1>5, <1>6, <1>8, <1>9 DEF s, h

-----------------------------------------------------------------------------
(***************************************************************************)
(* Stacked: the peaks of a count of leaves, each a power of two of leaves  *)
(* that starts where the one before it ends, at a multiple of twice its    *)
(* span.  Only the last two may have the same span: they are to be merged. *)
(***************************************************************************)
Stacked(ps, slot, start, count) ==
    LET n == Len(ps) IN
    /\ n \in Nat \ {0}
    /\ \A i \in 1..n : /\ slot[i] \in 0..MaxSlot /\ ps[i].span = 2^slot[i]
                       /\ start[i] \in Nat
    /\ start[1] = 0 /\ count = start[n] + 2^slot[n]
    /\ \A i \in 1..(n - 1) : /\ start[i + 1] = start[i] + 2^slot[i]
                             /\ Multiple(start[i], 2^(slot[i] + 1))
                             /\ start[n] < start[i] + 2^(slot[i] + 1)
                             /\ slot[i] >= slot[n] + (n - i) - 1
    /\ Multiple(start[n], 2^slot[n])
    /\ \A i, k \in 1..n : i < k => start[i] + 2^slot[i] <= start[k]
    /\ \A i, k \in 1..(n - 1) : i < k => slot[i] >= slot[k] + (k - i)

(* No two peaks have the same span. *)
Settled(ps, slot, start, count) ==
    LET n == Len(ps) IN
    /\ Stacked(ps, slot, start, count)
    /\ Multiple(start[n], 2^(slot[n] + 1))
    /\ \A i \in 1..n : count < start[i] + 2^(slot[i] + 1)
    /\ \A i, k \in 1..n : i < k => slot[i] >= slot[k] + (k - i)

(* Peaks that cannot be merged are settled: their spans strictly fall. *)
LEMMA StackedSettles ==
    ASSUME NEW ps, NEW slot, NEW start, NEW count \in Nat,
           Stacked(ps, slot, start, count), ~ Mergeable(ps)
    PROVE  Settled(ps, slot, start, count)
<1> DEFINE n == Len(ps)
<1>1. /\ n \in Nat \ {0} /\ MaxSlot \in Nat
      /\ \A i \in 1..n : slot[i] \in 0..MaxSlot /\ start[i] \in Nat
      /\ start[1] = 0 /\ count = start[n] + 2^slot[n]
  BY BlockAssumption DEF Stacked
<1> HIDE DEF n
<1>2. ASSUME NEW i \in 1..n
      PROVE  /\ 2^slot[i] \in Nat /\ 2^slot[i] > 0
             /\ 2^(slot[i] + 1) = 2 * 2^slot[i] /\ 2^(slot[i] + 1) \in Nat
             /\ slot[i] \in 0..(MaxSlot + 1) /\ slot[i] + 1 \in 0..(MaxSlot + 1)
             /\ slot[i] \in Nat
  <2>1. slot[i] \in 0..MaxSlot /\ slot[i] \in 0..(MaxSlot + 1)
        /\ slot[i] + 1 \in 0..(MaxSlot + 1)
    BY <1>1
  <2>. QED
    BY <2>1, PowerOfTwoAssumption DEF PowersOfTwo
<1>3. n \in 1..n
  BY <1>1
<1>4. CASE n = 1
  <2>1. Multiple(start[n], 2^(slot[n] + 1))
    <3>1. start[n] = 0 * 2^(slot[n] + 1)
      BY <1>1, <1>2, <1>3, <1>4
    <3>. QED
      BY <3>1 DEF Multiple
  <2>2. \A i \in 1..n : count < start[i] + 2^(slot[i] + 1)
    BY <1>1, <1>2, <1>3, <1>4
  <2>3. \A i, k \in 1..n : i < k => slot[i] >= slot[k] + (k - i)
    BY <1>1, <1>4
  <2>. QED
    BY <2>1, <2>2, <2>3 DEF Settled, n
<1>5. CASE n # 1
  <2>1. n >= 2 /\ n - 1 \in 1..n /\ n - 1 \in 1..(n - 1) /\ (n - 1) + 1 = n
    BY <1>1, <1>5
  <2>2. /\ start[n] = start[n - 1] + 2^slot[n - 1]
        /\ Multiple(start[n - 1], 2^(slot[n - 1] + 1))
        /\ slot[n - 1] >= slot[n] + (n - (n - 1)) - 1
    BY <2>1 DEF Stacked, n
  <2>3. slot[n - 1] # slot[n]
    <3>1. ps[n].span = 2^slot[n] /\ ps[n - 1].span = 2^slot[n - 1]
      BY <1>3, <2>1 DEF Stacked, n
    <3>. QED
      BY <1>1, <2>1, <3>1 DEF Mergeable, n
  <2>4. slot[n - 1] >= slot[n] + 1
    <3>1. slot[n - 1] \in Nat /\ slot[n] \in Nat
      BY <1>2, <1>3, <2>1
    <3>. QED
      BY <1>1, <2>2, <2>3, <3>1
  <2>5. Multiple(start[n], 2^(slot[n] + 1))
    <3>1. Multiple(2^(slot[n - 1] + 1), 2^slot[n - 1])
      BY <1>2, <2>1, PowersDivide
    <3>2. Multiple(start[n - 1], 2^slot[n - 1])
      <4>1. /\ start[n - 1] \in Nat /\ 2^(slot[n - 1] + 1) \in Nat /\ 2^slot[n - 1] \in Nat
            /\ Multiple(start[n - 1], 2^(slot[n - 1] + 1))
        BY <1>1, <1>2, <2>1, <2>2
      <4>. QED
        BY <3>1, <4>1, MultipleOf
    <3>3. Multiple(2^slot[n - 1], 2^slot[n - 1])
      BY <1>2, <2>1, PowersDivide
    <3>4. Multiple(start[n - 1] + 2^slot[n - 1], 2^slot[n - 1])
      BY <1>1, <1>2, <2>1, <3>2, <3>3, MultipleSum
    <3>5. Multiple(2^slot[n - 1], 2^(slot[n] + 1))
      BY <1>2, <1>3, <2>1, <2>4, PowersDivide
    <3>6. Multiple(start[n], 2^slot[n - 1])
      BY <2>2, <3>4
    <3>. QED
      BY <1>1, <1>2, <1>3, <2>1, <3>5, <3>6, MultipleOf
  <2>6. \A i, k \in 1..n : i < k => slot[i] >= slot[k] + (k - i)
    <3> SUFFICES ASSUME NEW i \in 1..n, NEW k \in 1..n, i < k
                 PROVE  slot[i] >= slot[k] + (k - i)
      OBVIOUS
    <3>1. CASE k # n
      <4>1. i \in 1..(n - 1) /\ k \in 1..(n - 1)
        BY <1>1, <3>1
      <4>. QED
        BY <4>1 DEF Stacked, n
    <3>2. CASE k = n /\ i = n - 1
      BY <1>1, <1>2, <2>1, <2>4, <3>2
    <3>3. CASE k = n /\ i # n - 1
      <4>1. i \in 1..(n - 1) /\ i < n - 1
        BY <1>1, <3>3
      <4>2. slot[i] >= slot[n - 1] + ((n - 1) - i)
        BY <2>1, <4>1 DEF Stacked, n
      <4>3. slot[i] \in Nat /\ slot[n - 1] \in Nat /\ slot[n] \in Nat
        BY <1>2, <1>3, <2>1
      <4>. QED
        BY <1>1, <2>4, <3>3, <4>2, <4>3
    <3>. QED
      BY <3>1, <3>2, <3>3
  <2>7. \A i \in 1..n : count < start[i] + 2^(slot[i] + 1)
    <3> SUFFICES ASSUME NEW i \in 1..n PROVE count < start[i] + 2^(slot[i] + 1)
      OBVIOUS
    <3>1. CASE i = n
      <4>1. 2^slot[n] \in Nat /\ 2^slot[n] > 0 /\ 2^(slot[n] + 1) = 2 * 2^slot[n]
        BY <1>2, <1>3
      <4>2. start[n] \in Nat
        BY <1>1, <1>3
      <4>. QED
        BY <1>1, <3>1, <4>1, <4>2
    <3>2. CASE i # n
      <4>1. i \in 1..(n - 1)
        BY <1>1, <3>2
      <4>2. Multiple(start[i], 2^(slot[i] + 1)) /\ start[n] < start[i] + 2^(slot[i] + 1)
        BY <4>1 DEF Stacked, n
      <4>3. slot[n] + 1 <= slot[i] + 1
        <5>1. slot[i] >= slot[n] + (n - i)
          BY <1>1, <1>3, <2>6, <4>1
        <5>2. slot[i] \in Nat /\ slot[n] \in Nat
          BY <1>2, <1>3
        <5>. QED
          BY <1>1, <4>1, <5>1, <5>2
      <4> DEFINE d == 2^(slot[n] + 1)
                 e == 2^(slot[i] + 1)
      <4>4. Multiple(e, d)
        BY <1>2, <1>3, <4>3, PowersDivide
      <4>5. d \in Nat \ {0} /\ e \in Nat /\ d = 2 * 2^slot[n] /\ 2^slot[n] \in Nat /\ 2^slot[n] > 0
        BY <1>2, <1>3
      <4>6. start[i] \in Nat /\ start[n] \in Nat
        BY <1>1, <1>3
      <4>7. Multiple(start[n], d) /\ Multiple(start[i], e) /\ start[n] < start[i] + e
        BY <2>5, <4>2
      <4> HIDE DEF d, e
      <4>8. Multiple(start[i], d)
        BY <4>4, <4>5, <4>6, <4>7, MultipleOf
      <4>9. Multiple(start[i] + e, d)
        BY <4>4, <4>5, <4>6, <4>8, MultipleSum
      <4>10. start[n] + d <= start[i] + e
        <5> DEFINE y == start[i] + e
        <5>1. y \in Nat /\ Multiple(y, d) /\ start[n] < y
          BY <4>5, <4>6, <4>7, <4>9
        <5> HIDE DEF y
        <5>2. start[n] + d <= y
          BY <4>5, <4>6, <4>7, <5>1, MultipleStep
        <5>. QED
          BY <5>2 DEF y
      <4>11. count < start[i] + e
        BY <1>1, <4>5, <4>6, <4>10
      <4>. QED
        BY <4>11 DEF e
    <3>. QED
      BY <3>1, <3>2
  <2>. QED
    BY <2>5, <2>6, <2>7 DEF Settled, n
<1>. QED
  BY <1>4, <1>5

-----------------------------------------------------------------------------
(* The powers that a slot of a stack needs. *)
LEMMA SlotPowers ==
    ASSUME NEW s \in 0..MaxSlot
    PROVE  /\ 2^s \in Nat /\ 2^s > 0 /\ 2^(s + 1) = 2 * 2^s /\ 2^(s + 1) \in Nat
           /\ s \in 0..(MaxSlot + 1) /\ s + 1 \in 0..(MaxSlot + 1) /\ s \in Nat
<1>1. s \in 0..(MaxSlot + 1) /\ s + 1 \in 0..(MaxSlot + 1) /\ MaxSlot \in Nat
  BY BlockAssumption
<1>. QED
  BY <1>1, PowerOfTwoAssumption DEF PowersOfTwo

(* The slots after a merge of the last two of n peaks. *)
MergedSlots(slot, n) == [i \in 1..(n - 1) |-> IF i = n - 1 THEN slot[n] + 1 ELSE slot[i]]

(* A merge of the last two peaks keeps the stack. *)
LEMMA MergeStacks ==
    ASSUME NEW H, NEW ps \in PeakLists(H), NEW slot, NEW start,
           NEW count \in Nat, count <= MaxRecords,
           Stacked(ps, slot, start, count), Mergeable(ps)
    PROVE  /\ slot[Len(ps) - 1] = slot[Len(ps)]
           /\ Stacked(Merged(ps), MergedSlots(slot, Len(ps)), start, count)
<1> DEFINE n == Len(ps)
           rs == Merged(ps)
           more == MergedSlots(slot, n)
<1>1. /\ n \in Nat /\ n >= 2 /\ ps[n].span = ps[n - 1].span
      /\ Len(rs) = n - 1 /\ \A i \in 1..(n - 2) : rs[i] = ps[i]
      /\ rs[n - 1].span = 2 * ps[n].span
  BY MergedIs
<1>2. /\ \A i \in 1..n : slot[i] \in 0..MaxSlot /\ ps[i].span = 2^slot[i] /\ start[i] \in Nat
      /\ start[1] = 0 /\ count = start[n] + 2^slot[n]
  BY DEF Stacked
<1>3. ASSUME NEW i \in 1..(n - 1)
      PROVE  /\ start[i + 1] = start[i] + 2^slot[i]
             /\ Multiple(start[i], 2^(slot[i] + 1))
             /\ start[n] < start[i] + 2^(slot[i] + 1)
             /\ slot[i] >= slot[n] + (n - i) - 1
  BY DEF Stacked
<1>4. /\ \A i, k \in 1..n : i < k => start[i] + 2^slot[i] <= start[k]
      /\ \A i, k \in 1..(n - 1) : i < k => slot[i] >= slot[k] + (k - i)
  BY DEF Stacked
<1> HIDE DEF n, rs
<1>5. n \in 1..n /\ n - 1 \in 1..n /\ n - 1 \in 1..(n - 1) /\ (n - 1) + 1 = n
  BY <1>1
<1> DEFINE a == slot[n - 1]
           z == slot[n]
<1>6. a \in 0..MaxSlot /\ z \in 0..MaxSlot
  BY <1>2, <1>5
<1>7. a = z
  <2>1. 2^a = 2^z
    BY <1>1, <1>2, <1>5
  <2>2. /\ a \in 0..(MaxSlot + 1) /\ z \in 0..(MaxSlot + 1)
        /\ a \in Nat /\ z \in Nat /\ 2^a \in Nat /\ 2^z \in Nat
    BY <1>6, SlotPowers
  <2> HIDE DEF a, z
  <2>3. a < z => 2^a < 2^z
    BY <2>2, PowersGrow
  <2>4. z < a => 2^z < 2^a
    BY <2>2, PowersGrow
  <2>. QED
    BY <2>1, <2>2, <2>3, <2>4
<1>8. /\ 2^z \in Nat /\ 2^z > 0 /\ 2^(z + 1) = 2 * 2^z /\ 2^(z + 1) \in Nat
      /\ z \in Nat /\ MaxSlot \in Nat
  <2> HIDE DEF z
  <2>. QED
    BY <1>6, SlotPowers, BlockAssumption
<1>9. count = start[n - 1] + 2^(z + 1) /\ start[n - 1] \in Nat
  <2>1. start[n] = start[n - 1] + 2^a /\ start[n - 1] \in Nat
    BY <1>2, <1>3, <1>5
  <2> HIDE DEF a
  <2>2. count = start[n - 1] + 2^z + 2^z
    <3>1. count = start[n] + 2^z
      BY <1>2
    <3>. QED
      BY <1>7, <2>1, <3>1
  <2> HIDE DEF z
  <2>. QED
    BY <1>8, <2>1, <2>2
<1>10. z + 1 \in 0..MaxSlot
  <2>1. z # MaxSlot
    <3>1. MaxRecords < 2^(MaxSlot + 1) /\ MaxRecords \in Nat
      BY BlockAssumption
    <3>2. 2^(z + 1) <= count
      BY <1>8, <1>9
    <3> HIDE DEF z
    <3>3. 2^(z + 1) < 2^(MaxSlot + 1)
      <4>1. 2^(MaxSlot + 1) \in Nat
        <5>1. MaxSlot + 1 \in 0..(MaxSlot + 1)
          BY <1>8
        <5>. QED
          BY <5>1, PowerOfTwoAssumption DEF PowersOfTwo
      <4>. QED
        BY <1>8, <3>1, <3>2, <4>1
    <3>. QED
      BY <1>8, <3>3
  <2> HIDE DEF z
  <2>. QED
    BY <1>6, <1>8, <2>1
<1>11. /\ more[n - 1] = z + 1
       /\ \A i \in 1..(n - 2) : more[i] = slot[i] /\ i \in 1..(n - 1) /\ i \in 1..n
  BY <1>1, <1>5 DEF MergedSlots
<1> HIDE DEF more
<1>12. ASSUME NEW i \in 1..(n - 1)
       PROVE  more[i] \in 0..MaxSlot /\ rs[i].span = 2^more[i] /\ start[i] \in Nat
  <2>1. i = n - 1 \/ i \in 1..(n - 2)
    BY <1>1
  <2>2. CASE i = n - 1
    <3>1. rs[n - 1].span = 2 * 2^z
      BY <1>1, <1>2, <1>5
    <3>. QED
      BY <1>8, <1>9, <1>10, <1>11, <2>2, <3>1
  <2>3. CASE i \in 1..(n - 2)
    BY <1>1, <1>2, <1>11, <2>3
  <2>. QED
    BY <2>1, <2>2, <2>3
<1>13. ASSUME NEW i \in 1..(n - 2)
       PROVE  /\ start[i + 1] = start[i] + 2^more[i]
              /\ Multiple(start[i], 2^(more[i] + 1))
              /\ start[n - 1] < start[i] + 2^(more[i] + 1)
              /\ more[i] >= more[n - 1] + ((n - 1) - i) - 1
  <2>1. i \in 1..(n - 1) /\ i \in 1..n /\ i < n - 1 /\ more[i] = slot[i]
    BY <1>1, <1>11
  <2>2. start[i + 1] = start[i] + 2^more[i] /\ Multiple(start[i], 2^(more[i] + 1))
    BY <1>3, <2>1
  <2>3. start[n - 1] < start[i] + 2^(more[i] + 1)
    <3>1. start[n - 1] + 2^a = start[n]
      BY <1>3, <1>5
    <3>2. start[n] < start[i] + 2^(slot[i] + 1)
      BY <1>3, <2>1
    <3>3. slot[i] \in 0..MaxSlot /\ start[i] \in Nat
      BY <1>2, <2>1
    <3>4. 2^(slot[i] + 1) \in Nat
      BY <3>3, SlotPowers
    <3> HIDE DEF a, z
    <3>. QED
      BY <1>7, <1>8, <1>9, <2>1, <3>1, <3>2, <3>3, <3>4
  <2>4. more[i] >= more[n - 1] + ((n - 1) - i) - 1
    <3>1. slot[i] >= a + ((n - 1) - i)
      BY <1>4, <1>5, <2>1
    <3>2. slot[i] \in Nat
      <4>1. slot[i] \in 0..MaxSlot
        BY <1>2, <2>1
      <4>. QED
        BY <4>1
    <3> HIDE DEF a, z
    <3>. QED
      BY <1>1, <1>7, <1>8, <1>11, <2>1, <3>1, <3>2
  <2>. QED
    BY <2>2, <2>3, <2>4
<1>14. Multiple(start[n - 1], 2^more[n - 1])
  <2>1. Multiple(start[n - 1], 2^(a + 1))
    BY <1>3, <1>5
  <2>. QED
    BY <1>7, <1>11, <2>1
<1>15. ASSUME NEW i \in 1..(n - 1), NEW k \in 1..(n - 1), i < k
       PROVE  start[i] + 2^more[i] <= start[k]
  <2>1. i \in 1..(n - 2) /\ i \in 1..n /\ k \in 1..n
    BY <1>1, <1>15
  <2>. QED
    BY <1>4, <1>11, <1>15, <2>1
<1>16. ASSUME NEW i \in 1..(n - 2), NEW k \in 1..(n - 2), i < k
       PROVE  more[i] >= more[k] + (k - i)
  <2>1. i \in 1..(n - 1) /\ k \in 1..(n - 1)
    BY <1>11
  <2>. QED
    BY <1>4, <1>11, <1>16, <2>1
<1>17. start[1] = 0 /\ count = start[n - 1] + 2^more[n - 1] /\ n - 1 \in Nat \ {0}
       /\ (n - 1) - 1 = n - 2
  BY <1>1, <1>2, <1>9, <1>11
<1>18. Stacked(rs, more, start, count)
  <2>1. Len(rs) = n - 1
    BY <1>1
  <2> DEFINE m == n - 1
  <2>2. /\ m \in Nat \ {0}
        /\ \A i \in 1..m : /\ more[i] \in 0..MaxSlot /\ rs[i].span = 2^more[i]
                           /\ start[i] \in Nat
        /\ start[1] = 0 /\ count = start[m] + 2^more[m]
    BY <1>12, <1>17
  <2>3. \A i \in 1..(m - 1) : /\ start[i + 1] = start[i] + 2^more[i]
                              /\ Multiple(start[i], 2^(more[i] + 1))
                              /\ start[m] < start[i] + 2^(more[i] + 1)
                              /\ more[i] >= more[m] + (m - i) - 1
    BY <1>13, <1>17
  <2>4. /\ Multiple(start[m], 2^more[m])
        /\ \A i, k \in 1..m : i < k => start[i] + 2^more[i] <= start[k]
    BY <1>14, <1>15
  <2>5. \A i, k \in 1..(m - 1) : i < k => more[i] >= more[k] + (k - i)
    BY <1>16, <1>17
  <2>6. Len(rs) = m
    BY <2>1
  <2> HIDE DEF m
  <2>. QED
    BY <2>2, <2>3, <2>4, <2>5, <2>6 DEF Stacked
<1>. QED
  BY <1>7, <1>18 DEF rs, more, n

(* The slots and the starts after one leaf more. *)
PushedSlots(slot, n) == [i \in 1..(n + 1) |-> IF i = n + 1 THEN 0 ELSE slot[i]]

PushedStarts(start, n, count) == [i \in 1..(n + 1) |-> IF i = n + 1 THEN count ELSE start[i]]

(* One leaf more keeps the stack. *)
LEMMA PushStacks ==
    ASSUME NEW H, NEW ps \in PeakLists(H), NEW slot, NEW start, NEW leaf,
           NEW count \in Nat, Len(ps) = 0 => count = 0,
           Len(ps) > 0 => Settled(ps, slot, start, count)
    PROVE  Stacked(Append(ps, [span |-> 1, hash |-> leaf]), PushedSlots(slot, Len(ps)),
                   PushedStarts(start, Len(ps), count), count + 1)
<1> DEFINE n == Len(ps)
           m == n + 1
           peak == [span |-> 1, hash |-> leaf]
           rs == Append(ps, peak)
           more == PushedSlots(slot, n)
           at == PushedStarts(start, n, count)
<1>1. n \in Nat
  BY DEF PeakLists
<1>2. Len(rs) = m /\ rs[m].span = 1 /\ \A i \in 1..n : rs[i] = ps[i]
  <2>1. peak.span = 1
    OBVIOUS
  <2>2. ps \in Seq([span : Nat, hash : H])
    BY DEF PeakLists
  <2> HIDE DEF peak
  <2>3. Len(rs) = m /\ rs[m] = peak /\ \A i \in 1..n : rs[i] = ps[i]
    BY <2>2
  <2>. QED
    BY <2>1, <2>3
<1>3. n > 0 => Settled(ps, slot, start, count)
  OBVIOUS
<1>4. n = 0 => count = 0
  OBVIOUS
<1>5. /\ more[m] = 0 /\ at[m] = count
      /\ \A i \in 1..n : more[i] = slot[i] /\ at[i] = start[i]
  BY <1>1 DEF PushedSlots, PushedStarts
<1>6. /\ \A i \in 1..n : slot[i] \in 0..MaxSlot /\ ps[i].span = 2^slot[i] /\ start[i] \in Nat
      /\ n > 0 => start[1] = 0 /\ count = start[n] + 2^slot[n]
      /\ \A i \in 1..(n - 1) : start[i + 1] = start[i] + 2^slot[i]
      /\ \A i \in 1..(n - 1) : Multiple(start[i], 2^(slot[i] + 1))
      /\ \A i, k \in 1..n : i < k => start[i] + 2^slot[i] <= start[k]
  <2>1. CASE n = 0
    BY <2>1
  <2>2. CASE n > 0
    <3>1. Stacked(ps, slot, start, count)
      BY <1>3, <2>2 DEF Settled
    <3>. QED
      BY <3>1 DEF Stacked
  <2>. QED
    BY <1>1, <2>1, <2>2
<1>7. /\ n > 0 => Multiple(start[n], 2^(slot[n] + 1))
      /\ \A i \in 1..n : count < start[i] + 2^(slot[i] + 1)
      /\ \A i, k \in 1..n : i < k => slot[i] >= slot[k] + (k - i)
  <2>1. CASE n = 0
    BY <2>1
  <2>2. CASE n > 0
    <3>1. Settled(ps, slot, start, count)
      BY <1>3, <2>2
    <3>. QED
      BY <3>1 DEF Settled
  <2>. QED
    BY <1>1, <2>1, <2>2
<1> HIDE DEF n, peak, rs, more, at
<1>8. 2^0 = 1 /\ MaxSlot \in Nat
  BY PowerOfTwoAssumption, BlockAssumption DEF PowersOfTwo
<1>9. ASSUME NEW i \in 1..n PROVE i \in 1..m /\ slot[i] \in Nat /\ (i # n => i \in 1..(n - 1))
  <2>1. slot[i] \in 0..MaxSlot
    BY <1>6
  <2>. QED
    BY <1>1, <2>1
<1>10. ASSUME NEW i \in 1..m PROVE i = m \/ i \in 1..n
  BY <1>1
<1>11. /\ m \in Nat \ {0}
       /\ \A i \in 1..m : /\ more[i] \in 0..MaxSlot /\ rs[i].span = 2^more[i]
                          /\ at[i] \in Nat
  <2>1. ASSUME NEW i \in 1..m
        PROVE  more[i] \in 0..MaxSlot /\ rs[i].span = 2^more[i] /\ at[i] \in Nat
    <3>1. CASE i = m
      <4>1. more[i] = 0 /\ rs[i].span = 1 /\ at[i] = count
        BY <1>2, <1>5, <3>1
      <4>2. 0 \in 0..MaxSlot
        BY <1>8
      <4>. QED
        BY <1>8, <4>1, <4>2
    <3>2. CASE i \in 1..n
      BY <1>2, <1>5, <1>6, <3>2
    <3>. QED
      BY <1>10, <3>1, <3>2
  <2>. QED
    BY <1>1, <2>1
<1>12. at[1] = 0 /\ count + 1 = at[m] + 2^more[m]
  <2>1. CASE n = 0
    BY <1>4, <1>5, <1>8, <2>1
  <2>2. CASE n > 0
    <3>1. 1 \in 1..n
      BY <1>1, <2>2
    <3>. QED
      BY <1>5, <1>6, <1>8, <2>2, <3>1
  <2>. QED
    BY <1>1, <2>1, <2>2
<1>13. ASSUME NEW i \in 1..(m - 1)
       PROVE  /\ at[i + 1] = at[i] + 2^more[i]
              /\ Multiple(at[i], 2^(more[i] + 1))
              /\ at[m] < at[i] + 2^(more[i] + 1)
              /\ more[i] >= more[m] + (m - i) - 1
  <2>1. i \in 1..n /\ n \in 1..n /\ n > 0
    BY <1>1
  <2>2. at[i] = start[i] /\ more[i] = slot[i] /\ slot[i] \in Nat
    BY <1>5, <1>9, <2>1
  <2>3. at[i + 1] = at[i] + 2^more[i]
    <3>1. CASE i = n
      BY <1>5, <1>6, <2>1, <2>2, <3>1
    <3>2. CASE i # n
      <4>1. i \in 1..(n - 1) /\ i + 1 \in 1..n
        BY <1>1, <2>1, <3>2
      <4>. QED
        BY <1>5, <1>6, <2>2, <4>1
    <3>. QED
      BY <3>1, <3>2
  <2>4. Multiple(at[i], 2^(more[i] + 1))
    <3>1. CASE i = n
      BY <1>7, <2>1, <2>2, <3>1
    <3>2. CASE i # n
      <4>1. i \in 1..(n - 1)
        BY <1>1, <2>1, <3>2
      <4>. QED
        BY <1>6, <2>2, <4>1
    <3>. QED
      BY <3>1, <3>2
  <2>5. at[m] < at[i] + 2^(more[i] + 1)
    BY <1>5, <1>7, <2>1, <2>2
  <2>6. more[i] >= more[m] + (m - i) - 1
    <3>1. slot[i] >= n - i
      <4>1. CASE i = n
        BY <1>1, <2>1, <2>2, <4>1
      <4>2. CASE i # n
        <5>1. slot[i] >= slot[n] + (n - i) /\ slot[n] \in Nat
          BY <1>1, <1>7, <1>9, <2>1, <4>2
        <5>. QED
          BY <1>1, <2>1, <2>2, <5>1
      <4>. QED
        BY <4>1, <4>2
    <3>. QED
      BY <1>1, <1>5, <2>1, <2>2, <3>1
  <2>. QED
    BY <2>3, <2>4, <2>5, <2>6
<1>14. Multiple(at[m], 2^more[m])
  <2>1. count = count * 1
    OBVIOUS
  <2>2. Multiple(count, 1)
    BY <2>1 DEF Multiple
  <2>. QED
    BY <1>5, <1>8, <2>2
<1>15. ASSUME NEW i \in 1..m, NEW k \in 1..m, i < k
       PROVE  at[i] + 2^more[i] <= at[k]
  <2>1. i \in 1..n /\ n \in 1..n /\ n > 0
    BY <1>1, <1>15
  <2>2. at[i] = start[i] /\ more[i] = slot[i]
    BY <1>5, <2>1
  <2>3. CASE k \in 1..n
    BY <1>5, <1>6, <1>15, <2>1, <2>2, <2>3
  <2>4. CASE k = m
    <3>1. /\ 2^slot[n] \in Nat /\ start[n] \in Nat /\ count = start[n] + 2^slot[n]
          /\ 2^slot[i] \in Nat /\ start[i] \in Nat
      BY <1>6, <2>1, SlotPowers
    <3>2. start[i] + 2^slot[i] <= count
      <4>1. CASE i = n
        BY <3>1, <4>1
      <4>2. CASE i # n
        <5>1. start[i] + 2^slot[i] <= start[n]
          <6>1. i \in 1..n /\ n \in 1..n /\ i < n
            BY <1>1, <2>1, <4>2
          <6>. QED
            BY <1>6, <6>1
        <5> DEFINE a == 2^slot[n]
                   b == 2^slot[i]
        <5>2. a \in Nat /\ start[n] \in Nat /\ count = start[n] + a
              /\ b \in Nat /\ start[i] \in Nat
          BY <3>1
        <5>3. start[i] + b <= start[n]
          BY <5>1
        <5> HIDE DEF a, b
        <5>4. start[i] + b <= count
          BY <5>2, <5>3
        <5>. QED
          BY <5>4 DEF b
      <4>. QED
        BY <4>1, <4>2
    <3>. QED
      BY <1>5, <2>2, <2>4, <3>2
  <2>. QED
    BY <1>10, <2>3, <2>4
<1>16. ASSUME NEW i \in 1..(m - 1), NEW k \in 1..(m - 1), i < k
       PROVE  more[i] >= more[k] + (k - i)
  <2>1. i \in 1..n /\ k \in 1..n
    BY <1>1
  <2>. QED
    BY <1>5, <1>7, <1>16, <2>1
<1>17. Stacked(rs, more, at, count + 1)
  <2>1. Len(rs) = m
    BY <1>2
  <2> HIDE DEF m
  <2>. QED
    BY <1>11, <1>12, <1>13, <1>14, <1>15, <1>16, <2>1 DEF Stacked
<1>. QED
  BY <1>17 DEF rs, more, at, n, peak

-----------------------------------------------------------------------------
StepLists(G) == Seq([hash : G, right : BOOLEAN])

(* An empty path folds to the leaf. *)
LEMMA FoldNone == ASSUME NEW leaf PROVE FoldPath(leaf, <<>>) = leaf
<1> DEFINE path == <<>>
<1>1. Len(path) = 0 /\ Len(path) \in Nat
  OBVIOUS
<1> HIDE DEF path
<1>2. \E turn : /\ turn[0] = leaf
                /\ \A i \in 1..Len(path) : turn[i] = Hop(turn[i - 1], path[i])
                /\ FoldPath(leaf, path) = turn[Len(path)]
  BY <1>1, FoldTurns
<1>. QED
  BY <1>1, <1>2 DEF path

Begins(path, short) ==
    /\ Len(path) \in Nat /\ Len(short) \in Nat /\ Len(short) <= Len(path)
    /\ \A i \in 1..Len(short) : path[i] = short[i]

(* A path that begins with another folds as far as that one at its end.    *)
LEMMA FoldFront ==
    ASSUME NEW leaf, NEW path, NEW short, Begins(path, short)
    PROVE  \E turn : /\ turn[Len(short)] = FoldPath(leaf, short)
                     /\ \A i \in 1..Len(path) : turn[i] = Hop(turn[i - 1], path[i])
                     /\ FoldPath(leaf, path) = turn[Len(path)]
<1> DEFINE n == Len(short)
<1>0. /\ Len(path) \in Nat /\ Len(short) \in Nat /\ Len(short) <= Len(path)
      /\ \A i \in 1..Len(short) : path[i] = short[i]
  BY DEF Begins
<1>1. PICK f : /\ f[0] = leaf
               /\ \A i \in 1..Len(short) : f[i] = Hop(f[i - 1], short[i])
               /\ FoldPath(leaf, short) = f[Len(short)]
  BY <1>0, FoldTurns
<1>2. PICK g : /\ g[0] = leaf
               /\ \A i \in 1..Len(path) : g[i] = Hop(g[i - 1], path[i])
               /\ FoldPath(leaf, path) = g[Len(path)]
  BY <1>0, FoldTurns
<1> DEFINE S == {i \in Nat : i <= n => g[i] = f[i]}
<1>3. 0 \in S
  BY <1>1, <1>2
<1>4. ASSUME NEW i \in S PROVE i + 1 \in S
  <2>1. i \in Nat
    OBVIOUS
  <2>2. ASSUME i + 1 <= n PROVE g[i + 1] = f[i + 1]
    <3>1. g[i] = f[i]
      BY <1>0, <2>1, <2>2
    <3>2. i + 1 \in 1..Len(short) /\ i + 1 \in 1..Len(path) /\ (i + 1) - 1 = i
      BY <1>0, <2>1, <2>2
    <3>3. g[i + 1] = Hop(g[i], path[i + 1])
      BY <1>2, <3>2
    <3>4. f[i + 1] = Hop(f[i], short[i + 1])
      BY <1>1, <3>2
    <3>. QED
      BY <1>0, <3>1, <3>2, <3>3, <3>4
  <2>. QED
    BY <2>1, <2>2
<1>5. n \in S
  <2> HIDE DEF S
  <2>. QED
    BY <1>0, <1>3, <1>4, CountUp
<1>6. g[n] = f[n]
  BY <1>0, <1>5
<1>. QED
  BY <1>1, <1>2, <1>6

(* One step more is one hop more. *)
LEMMA FoldMore ==
    ASSUME NEW leaf, NEW Q, NEW path \in Seq(Q), NEW step \in Q
    PROVE  FoldPath(leaf, Append(path, step)) = Hop(FoldPath(leaf, path), step)
<1> DEFINE more == Append(path, step)
           n == Len(path)
<1>1. /\ n \in Nat /\ Len(more) = n + 1 /\ more[n + 1] = step
      /\ \A i \in 1..n : more[i] = path[i]
  OBVIOUS
<1> HIDE DEF more
<1>2. PICK turn : /\ turn[Len(path)] = FoldPath(leaf, path)
                  /\ \A i \in 1..Len(more) : turn[i] = Hop(turn[i - 1], more[i])
                  /\ FoldPath(leaf, more) = turn[Len(more)]
  <2>1. Begins(more, path)
    BY <1>1 DEF Begins
  <2>. QED
    BY <2>1, FoldFront
<1>3. n + 1 \in 1..Len(more) /\ (n + 1) - 1 = n
  BY <1>1
<1>4. turn[n + 1] = Hop(turn[n], more[n + 1])
  BY <1>2, <1>3
<1>. QED
  BY <1>1, <1>2, <1>4 DEF more

-----------------------------------------------------------------------------
(* The side that the bit of x worth d calls for. *)
Side(x, d) == IF EvenAt(x, d) THEN TRUE ELSE FALSE

(***************************************************************************)
(* OnPath: what is followed of a leaf is the place of its peak, with one   *)
(* step for each level below it, on the side that the leaf's place in the  *)
(* peak says; the steps fold from the leaf to the hash of the peak.        *)
(***************************************************************************)
OnPath(f, slot, start, leaf, index) ==
    /\ f.ours \in 1..Len(f.peaks)
    /\ \E G : f.steps \in StepLists(G)
    /\ Len(f.steps) = slot[f.ours]
    /\ start[f.ours] <= index /\ index < start[f.ours] + 2^slot[f.ours]
    /\ \A j \in 1..Len(f.steps) :
           f.steps[j].right = Side(index - start[f.ours], 2^(j - 1))
    /\ FoldPath(leaf, f.steps) = f.peaks[f.ours].hash

(* One step more, with the sibling at the left or at the right. *)
Leftward(more, steps, hash, leaf) ==
    /\ \E K : more \in StepLists(K)
    /\ Len(more) = Len(steps) + 1 /\ Len(steps) \in Nat
    /\ \A j \in 1..Len(steps) : more[j] = steps[j]
    /\ more[Len(steps) + 1].right = FALSE
    /\ FoldPath(leaf, more) = Combine(hash, FoldPath(leaf, steps))

LEMMA StepLeft ==
    ASSUME NEW G, NEW steps \in StepLists(G), NEW hash, NEW leaf, NEW more,
           more = Append(steps, [hash |-> hash, right |-> FALSE])
    PROVE  Leftward(more, steps, hash, leaf)
<1> DEFINE step == [hash |-> hash, right |-> FALSE]
           P == [hash : G, right : BOOLEAN]
           Q == [hash : G \cup {hash}, right : BOOLEAN]
<1>1. step \in Q /\ step.right = FALSE /\ step.hash = hash
  OBVIOUS
<1>2. P \subseteq Q /\ steps \in Seq(P)
  BY DEF StepLists
<1> HIDE DEF P, Q, step
<1>3. steps \in Seq(Q)
  BY <1>2, SeqWithin
<1>4. more = Append(steps, step)
  BY DEF step
<1>5. /\ more \in Seq(Q) /\ Len(more) = Len(steps) + 1 /\ Len(steps) \in Nat
      /\ \A j \in 1..Len(steps) : more[j] = steps[j]
      /\ more[Len(steps) + 1] = step
  BY <1>1, <1>3, <1>4
<1>6. FoldPath(leaf, more) = Hop(FoldPath(leaf, steps), step)
  BY <1>1, <1>3, <1>4, FoldMore
<1>7. FoldPath(leaf, more) = Combine(hash, FoldPath(leaf, steps))
  BY <1>1, <1>6 DEF Hop
<1>8. \E K : more \in StepLists(K)
  BY <1>5 DEF StepLists, Q
<1>. QED
  BY <1>1, <1>5, <1>7, <1>8 DEF Leftward

Rightward(more, steps, hash, leaf) ==
    /\ \E K : more \in StepLists(K)
    /\ Len(more) = Len(steps) + 1 /\ Len(steps) \in Nat
    /\ \A j \in 1..Len(steps) : more[j] = steps[j]
    /\ more[Len(steps) + 1].right = TRUE
    /\ FoldPath(leaf, more) = Combine(FoldPath(leaf, steps), hash)

LEMMA StepRight ==
    ASSUME NEW G, NEW steps \in StepLists(G), NEW hash, NEW leaf, NEW more,
           more = Append(steps, [hash |-> hash, right |-> TRUE])
    PROVE  Rightward(more, steps, hash, leaf)
<1> DEFINE step == [hash |-> hash, right |-> TRUE]
           P == [hash : G, right : BOOLEAN]
           Q == [hash : G \cup {hash}, right : BOOLEAN]
<1>1. step \in Q /\ step.right = TRUE /\ step.hash = hash
  OBVIOUS
<1>2. P \subseteq Q /\ steps \in Seq(P)
  BY DEF StepLists
<1> HIDE DEF P, Q, step
<1>3. steps \in Seq(Q)
  BY <1>2, SeqWithin
<1>4. more = Append(steps, step)
  BY DEF step
<1>5. /\ more \in Seq(Q) /\ Len(more) = Len(steps) + 1 /\ Len(steps) \in Nat
      /\ \A j \in 1..Len(steps) : more[j] = steps[j]
      /\ more[Len(steps) + 1] = step
  BY <1>1, <1>3, <1>4
<1>6. FoldPath(leaf, more) = Hop(FoldPath(leaf, steps), step)
  BY <1>1, <1>3, <1>4, FoldMore
<1>7. FoldPath(leaf, more) = Combine(FoldPath(leaf, steps), hash)
  BY <1>1, <1>6 DEF Hop
<1>8. \E K : more \in StepLists(K)
  BY <1>5 DEF StepLists, Q
<1>. QED
  BY <1>1, <1>5, <1>7, <1>8 DEF Rightward

(***************************************************************************)
(* A merge of the last two peaks keeps our leaf under our peak, with the   *)
(* step it needs when ours is one of the two.                              *)
(***************************************************************************)
LEMMA MergeFollows ==
    ASSUME NEW f, NEW slot, NEW start, NEW H, f.peaks \in PeakLists(H),
           NEW count \in Nat, count <= MaxRecords, NEW leaf, NEW index \in Nat,
           Stacked(f.peaks, slot, start, count), Mergeable(f.peaks),
           OnPath(f, slot, start, leaf, index)
    PROVE  OnPath(FollowOne(f), MergedSlots(slot, Len(f.peaks)), start, leaf, index)
<1> DEFINE ps == f.peaks
           n == Len(ps)
           g == FollowOne(f)
           rs == Merged(ps)
           more == MergedSlots(slot, n)
           z == slot[n]
           d == 2^z
<1>1. /\ n \in Nat /\ n >= 2 /\ Len(rs) = n - 1
      /\ \A i \in 1..(n - 2) : rs[i] = ps[i]
      /\ rs[n - 1].hash = Combine(ps[n - 1].hash, ps[n].hash)
  BY MergedIs
<1>2. slot[n - 1] = z
  BY MergeStacks
<1>3. /\ \A i \in 1..n : slot[i] \in 0..MaxSlot /\ start[i] \in Nat
      /\ \A i \in 1..(n - 1) : start[i + 1] = start[i] + 2^slot[i]
  BY DEF Stacked
<1>4. /\ g.peaks = rs
      /\ g.ours = IF f.ours = n THEN n - 1 ELSE f.ours
      /\ g.steps = IF f.ours = n
                   THEN Append(f.steps, [hash |-> ps[n - 1].hash, right |-> FALSE])
                   ELSE IF f.ours = n - 1
                   THEN Append(f.steps, [hash |-> ps[n].hash, right |-> TRUE])
                   ELSE f.steps
  BY DEF FollowOne
<1>5. /\ f.ours \in 1..n
      /\ Len(f.steps) = slot[f.ours]
      /\ start[f.ours] <= index /\ index < start[f.ours] + 2^slot[f.ours]
      /\ \A j \in 1..Len(f.steps) :
             f.steps[j].right = Side(index - start[f.ours], 2^(j - 1))
      /\ FoldPath(leaf, f.steps) = ps[f.ours].hash
  BY DEF OnPath
<1>6. PICK G : f.steps \in StepLists(G)
  BY DEF OnPath
<1> HIDE DEF ps, n, g, rs
<1>7. /\ more[n - 1] = z + 1
      /\ \A i \in 1..(n - 2) : more[i] = slot[i]
  BY <1>1 DEF MergedSlots
<1> HIDE DEF more
<1>8. n \in 1..n /\ n - 1 \in 1..n /\ n - 1 \in 1..(n - 1) /\ (n - 1) + 1 = n
  BY <1>1
<1>9. /\ z \in 0..MaxSlot /\ start[n] = start[n - 1] + d
      /\ start[n - 1] \in Nat /\ start[n] \in Nat
  BY <1>2, <1>3, <1>8
<1> HIDE DEF z
<1>10. /\ d \in Nat /\ d > 0 /\ 2^(z + 1) = 2 * d /\ z \in Nat
       /\ z \in 0..(MaxSlot + 1) /\ MaxSlot \in Nat
  BY <1>9, SlotPowers, BlockAssumption
<1> HIDE DEF d
<1> SUFFICES OnPath(g, more, start, leaf, index)
  BY DEF g, more, n, ps
<1>11. CASE f.ours = n
  <2> DEFINE x == index - start[n]
             y == index - start[n - 1]
  <2>1. /\ Len(f.steps) = z /\ start[n] <= index /\ index < start[n] + d
        /\ \A j \in 1..z : f.steps[j].right = Side(x, 2^(j - 1))
        /\ FoldPath(leaf, f.steps) = ps[n].hash
    BY <1>5, <1>11 DEF z, d
  <2>2. /\ g.ours = n - 1
        /\ g.steps = Append(f.steps, [hash |-> ps[n - 1].hash, right |-> FALSE])
    BY <1>4, <1>11
  <2>3. /\ \E K : g.steps \in StepLists(K)
        /\ Len(g.steps) = z + 1
        /\ \A j \in 1..z : g.steps[j] = f.steps[j]
        /\ g.steps[z + 1].right = FALSE
        /\ FoldPath(leaf, g.steps) = Combine(ps[n - 1].hash, ps[n].hash)
    <3> DEFINE old == f.steps
               new == g.steps
               hash == ps[n - 1].hash
    <3>1. old \in StepLists(G) /\ new = Append(old, [hash |-> hash, right |-> FALSE])
      BY <1>6, <2>2
    <3> HIDE DEF old, new, hash
    <3>2. Leftward(new, old, hash, leaf)
      BY <3>1, StepLeft
    <3>3. Len(old) = z /\ FoldPath(leaf, old) = ps[n].hash
      BY <2>1 DEF old
    <3>4. /\ \E K : new \in StepLists(K)
          /\ Len(new) = z + 1
          /\ \A j \in 1..z : new[j] = old[j]
          /\ new[z + 1].right = FALSE
          /\ FoldPath(leaf, new) = Combine(ps[n - 1].hash, ps[n].hash)
      <4>1. /\ \E K : new \in StepLists(K)
            /\ Len(new) = Len(old) + 1
            /\ \A j \in 1..Len(old) : new[j] = old[j]
            /\ new[Len(old) + 1].right = FALSE
            /\ FoldPath(leaf, new) = Combine(hash, FoldPath(leaf, old))
        BY <3>2, Zenon DEF Leftward
      <4>. QED
        BY <3>3, <4>1, Zenon DEF hash
    <3>. QED
      BY <3>4, Zenon DEF old, new
  <2>4. x \in Nat /\ y = x + d /\ x < d /\ d <= y /\ y < 2 * d /\ y \in Nat
    <3>0. d \in Nat /\ d > 0
      BY <1>10
    <3>1. x \in Nat /\ x < d
      BY <1>9, <2>1, <3>0
    <3>2. y = x + d
      BY <1>9, <3>0
    <3> HIDE DEF x, y
    <3>. QED
      BY <3>0, <3>1, <3>2
  <2>5. start[n - 1] <= index /\ index < start[n - 1] + 2^(z + 1)
    <3> DEFINE p == 2^(z + 1)
    <3>1. p = 2 * d /\ d \in Nat /\ d > 0
      BY <1>10
    <3>2. start[n] <= index /\ index < start[n] + d
      BY <2>1
    <3> HIDE DEF p
    <3>3. start[n - 1] <= index /\ index < start[n - 1] + p
      BY <1>9, <3>1, <3>2
    <3>. QED
      BY <3>3 DEF p
  <2>6. ASSUME NEW j \in 1..(z + 1) PROVE g.steps[j].right = Side(y, 2^(j - 1))
    <3>1. CASE j = z + 1
      <4>1. j - 1 = z
        BY <1>10, <3>1
      <4> HIDE DEF x, y
      <4>2. ~ EvenAt(y, d)
        BY <1>10, <2>4, OddNext
      <4>3. 2^(j - 1) = d
        BY <4>1 DEF d
      <4>. QED
        BY <2>3, <3>1, <4>2, <4>3 DEF Side
    <3>2. CASE j # z + 1
      <4>1. j \in 1..z /\ j - 1 \in 0..MaxSlot /\ j \in 0..(MaxSlot + 1) /\ j <= z
            /\ (j - 1) + 1 = j
        BY <1>9, <1>10, <3>2
      <4> DEFINE e == 2^(j - 1)
      <4>2. e \in Nat /\ e > 0 /\ 2^j = 2 * e
        <5> DEFINE i == j - 1
        <5>1. i \in 0..MaxSlot /\ i + 1 = j
          BY <4>1
        <5> HIDE DEF i
        <5>2. 2^i \in Nat /\ 2^i > 0 /\ 2^(i + 1) = 2 * 2^i
          BY <5>1, SlotPowers
        <5>. QED
          BY <5>1, <5>2 DEF i
      <4>3. Multiple(d, 2^j)
        BY <1>10, <4>1, PowersDivide DEF d
      <4> HIDE DEF x, y, e
      <4>4. Multiple(d, 2 * e)
        BY <4>2, <4>3
      <4>5. EvenAt(x + d, e) <=> EvenAt(x, e)
        BY <1>10, <2>4, <4>2, <4>4, EvenAgain
      <4>6. g.steps[j].right = Side(x, e)
        BY <2>1, <2>3, <4>1 DEF e
      <4>7. Side(y, e) = Side(x, e)
        BY <2>4, <4>5 DEF Side
      <4>. QED
        BY <4>6, <4>7 DEF e
    <3>. QED
      BY <3>1, <3>2
  <2>7. g.peaks = rs /\ Len(rs) = n - 1 /\ g.ours \in 1..(n - 1)
        /\ more[g.ours] = z + 1 /\ start[g.ours] = start[n - 1]
        /\ g.peaks[g.ours].hash = Combine(ps[n - 1].hash, ps[n].hash)
    BY <1>1, <1>4, <1>7, <1>8, <2>2
  <2> HIDE DEF x, y
  <2>8. /\ g.ours \in 1..Len(g.peaks) /\ Len(g.steps) = more[g.ours]
        /\ start[g.ours] <= index /\ index < start[g.ours] + 2^more[g.ours]
        /\ FoldPath(leaf, g.steps) = g.peaks[g.ours].hash
    BY <2>3, <2>5, <2>7
  <2>9. \A j \in 1..Len(g.steps) :
            g.steps[j].right = Side(index - start[g.ours], 2^(j - 1))
    BY <2>3, <2>6, <2>7 DEF x, y
  <2>10. \E K : g.steps \in StepLists(K)
    BY <2>3
  <2>. QED
    BY <2>8, <2>9, <2>10, Zenon DEF OnPath
<1>12. CASE f.ours = n - 1
  <2> DEFINE x == index - start[n - 1]
  <2>1. /\ Len(f.steps) = z /\ start[n - 1] <= index /\ index < start[n - 1] + d
        /\ \A j \in 1..z : f.steps[j].right = Side(x, 2^(j - 1))
        /\ FoldPath(leaf, f.steps) = ps[n - 1].hash
    BY <1>2, <1>5, <1>12 DEF d
  <2>2. /\ g.ours = n - 1
        /\ g.steps = Append(f.steps, [hash |-> ps[n].hash, right |-> TRUE])
    <3>1. n - 1 # n
      BY <1>1
    <3>. QED
      BY <1>4, <1>12, <3>1
  <2>3. /\ \E K : g.steps \in StepLists(K)
        /\ Len(g.steps) = z + 1
        /\ \A j \in 1..z : g.steps[j] = f.steps[j]
        /\ g.steps[z + 1].right = TRUE
        /\ FoldPath(leaf, g.steps) = Combine(ps[n - 1].hash, ps[n].hash)
    <3> DEFINE old == f.steps
               new == g.steps
               hash == ps[n].hash
    <3>1. old \in StepLists(G) /\ new = Append(old, [hash |-> hash, right |-> TRUE])
      BY <1>6, <2>2
    <3> HIDE DEF old, new, hash
    <3>2. Rightward(new, old, hash, leaf)
      BY <3>1, StepRight
    <3>3. Len(old) = z /\ FoldPath(leaf, old) = ps[n - 1].hash
      BY <2>1 DEF old
    <3>4. /\ \E K : new \in StepLists(K)
          /\ Len(new) = z + 1
          /\ \A j \in 1..z : new[j] = old[j]
          /\ new[z + 1].right = TRUE
          /\ FoldPath(leaf, new) = Combine(ps[n - 1].hash, ps[n].hash)
      <4>1. /\ \E K : new \in StepLists(K)
            /\ Len(new) = Len(old) + 1
            /\ \A j \in 1..Len(old) : new[j] = old[j]
            /\ new[Len(old) + 1].right = TRUE
            /\ FoldPath(leaf, new) = Combine(FoldPath(leaf, old), hash)
        BY <3>2, Zenon DEF Rightward
      <4>. QED
        BY <3>3, <4>1, Zenon DEF hash
    <3>. QED
      BY <3>4, Zenon DEF old, new
  <2>4. x \in Nat /\ x < d
    BY <1>9, <1>10, <2>1
  <2>5. start[n - 1] <= index /\ index < start[n - 1] + 2^(z + 1)
    <3> DEFINE p == 2^(z + 1)
    <3>1. p = 2 * d /\ d \in Nat /\ d > 0
      BY <1>10
    <3>2. start[n - 1] <= index /\ index < start[n - 1] + d
      BY <2>1
    <3> HIDE DEF p
    <3>3. start[n - 1] <= index /\ index < start[n - 1] + p
      BY <1>9, <3>1, <3>2
    <3>. QED
      BY <3>3 DEF p
  <2>6. ASSUME NEW j \in 1..(z + 1) PROVE g.steps[j].right = Side(x, 2^(j - 1))
    <3>1. CASE j = z + 1
      <4>1. j - 1 = z
        BY <1>10, <3>1
      <4> HIDE DEF x
      <4>2. EvenAt(x, d)
        BY <1>10, <2>4, EvenSmall
      <4>3. 2^(j - 1) = d
        BY <4>1 DEF d
      <4>. QED
        BY <2>3, <3>1, <4>2, <4>3 DEF Side
    <3>2. CASE j # z + 1
      <4>1. j \in 1..z
        BY <1>9, <1>10, <3>2
      <4>. QED
        BY <2>1, <2>3, <4>1
    <3>. QED
      BY <3>1, <3>2
  <2>7. g.peaks = rs /\ Len(rs) = n - 1 /\ g.ours \in 1..(n - 1)
        /\ more[g.ours] = z + 1 /\ start[g.ours] = start[n - 1]
        /\ g.peaks[g.ours].hash = Combine(ps[n - 1].hash, ps[n].hash)
    BY <1>1, <1>4, <1>7, <1>8, <2>2
  <2> HIDE DEF x
  <2>8. /\ g.ours \in 1..Len(g.peaks) /\ Len(g.steps) = more[g.ours]
        /\ start[g.ours] <= index /\ index < start[g.ours] + 2^more[g.ours]
        /\ FoldPath(leaf, g.steps) = g.peaks[g.ours].hash
    BY <2>3, <2>5, <2>7
  <2>9. \A j \in 1..Len(g.steps) :
            g.steps[j].right = Side(index - start[g.ours], 2^(j - 1))
    BY <2>3, <2>6, <2>7 DEF x
  <2>10. \E K : g.steps \in StepLists(K)
    BY <2>3
  <2>. QED
    BY <2>8, <2>9, <2>10, Zenon DEF OnPath
<1>13. CASE f.ours # n /\ f.ours # n - 1
  <2>1. f.ours \in 1..(n - 2) /\ f.ours \in 1..(n - 1)
    BY <1>1, <1>5, <1>13
  <2>2. g.ours = f.ours /\ g.steps = f.steps /\ g.peaks = rs
    BY <1>4, <1>13
  <2>3. rs[f.ours] = ps[f.ours] /\ more[f.ours] = slot[f.ours] /\ Len(rs) = n - 1
    BY <1>1, <1>7, <2>1
  <2>4. /\ g.ours \in 1..Len(g.peaks) /\ Len(g.steps) = more[g.ours]
        /\ start[g.ours] <= index /\ index < start[g.ours] + 2^more[g.ours]
        /\ FoldPath(leaf, g.steps) = g.peaks[g.ours].hash
    BY <1>5, <2>1, <2>2, <2>3
  <2>5. \A j \in 1..Len(g.steps) :
            g.steps[j].right = Side(index - start[g.ours], 2^(j - 1))
    BY <1>5, <2>2
  <2>6. \E K : g.steps \in StepLists(K)
    BY <1>6, <2>2
  <2>. QED
    BY <2>4, <2>5, <2>6, Zenon DEF OnPath
<1>. QED
  BY <1>11, <1>12, <1>13

-----------------------------------------------------------------------------
(***************************************************************************)
(* Carrying: between two turns of the loop; a leaf not yet there is not    *)
(* followed.  Tracked: after the loop, for the leaves appended so far.   *)
(***************************************************************************)
Carrying(f, count, leaf, index) ==
    /\ \E H : f.peaks \in PeakLists(H)
    /\ \E slot, start : /\ Stacked(f.peaks, slot, start, count)
                        /\ index < count => OnPath(f, slot, start, leaf, index)
    /\ index >= count => f.ours = 0 /\ f.steps = <<>>

Tracked(f, ls, index) ==
    /\ \E H : f.peaks \in PeakLists(H)
    /\ Len(f.peaks) = 0 => Len(ls) = 0
    /\ \E slot, start :
           /\ Len(f.peaks) > 0 => Settled(f.peaks, slot, start, Len(ls))
           /\ index < Len(ls) => OnPath(f, slot, start, ls[index + 1], index)
    /\ index >= Len(ls) => f.ours = 0 /\ f.steps = <<>>

(* One turn of the loop, and the whole of it, carries our leaf along. *)
LEMMA TurnCarries ==
    ASSUME NEW f, NEW count \in Nat, count <= MaxRecords, NEW leaf, NEW index \in Nat,
           Carrying(f, count, leaf, index)
    PROVE  /\ Carrying(FollowOne(f), count, leaf, index)
           /\ FollowOne(f).peaks = CarryOne(f.peaks)
           /\ Mergeable(f.peaks) => Len(CarryOne(f.peaks)) = Len(f.peaks) - 1
           /\ ~ Mergeable(f.peaks) => FollowOne(f) = f
<1>1. PICK H : f.peaks \in PeakLists(H)
  BY DEF Carrying
<1>2. PICK slot, start : /\ Stacked(f.peaks, slot, start, count)
                         /\ index < count => OnPath(f, slot, start, leaf, index)
  BY DEF Carrying
<1>3. index >= count => f.ours = 0 /\ f.steps = <<>>
  BY DEF Carrying
<1>4. CASE ~ Mergeable(f.peaks)
  <2>1. FollowOne(f) = f /\ CarryOne(f.peaks) = f.peaks
    BY <1>4 DEF FollowOne, CarryOne
  <2>. QED
    BY <1>4, <2>1
<1>5. CASE Mergeable(f.peaks)
  <2> DEFINE n == Len(f.peaks)
             g == FollowOne(f)
             more == MergedSlots(slot, n)
  <2>1. /\ g.peaks = Merged(f.peaks)
        /\ g.ours = IF f.ours = n THEN n - 1 ELSE f.ours
        /\ (f.ours # n /\ f.ours # n - 1) => g.steps = f.steps
    BY <1>5 DEF FollowOne
  <2>2. CarryOne(f.peaks) = Merged(f.peaks)
    BY <1>5 DEF CarryOne
  <2> HIDE DEF g
  <2>3. n \in Nat /\ n >= 2 /\ Len(Merged(f.peaks)) = n - 1
    BY <1>1, <1>5, MergedIs
  <2>4. \E K : g.peaks \in PeakLists(K)
    <3>1. \E K : Merged(f.peaks) \in PeakLists(K)
      BY <1>1, <1>5, MergedIs
    <3>. QED
      BY <2>1, <3>1
  <2>5. Stacked(g.peaks, more, start, count)
    <3>1. Stacked(Merged(f.peaks), more, start, count)
      BY <1>1, <1>2, <1>5, MergeStacks
    <3>. QED
      BY <2>1, <3>1
  <2>6. index < count => OnPath(g, more, start, leaf, index)
    BY <1>1, <1>2, <1>5, MergeFollows DEF g
  <2>7. index >= count => g.ours = 0 /\ g.steps = <<>>
    <3> SUFFICES ASSUME index >= count PROVE g.ours = 0 /\ g.steps = <<>>
      OBVIOUS
    <3>1. f.ours = 0 /\ f.steps = <<>>
      BY <1>3
    <3>2. n # 0 /\ n - 1 # 0
      <4> HIDE DEF n
      <4>. QED
        BY <2>3
    <3>3. f.ours # n /\ f.ours # n - 1
      BY <3>1, <3>2
    <3>. QED
      BY <2>1, <3>1, <3>3
  <2>8. Carrying(g, count, leaf, index)
    BY <2>4, <2>5, <2>6, <2>7 DEF Carrying
  <2>. QED
    BY <1>5, <2>1, <2>2, <2>3, <2>8 DEF g
<1>. QED
  BY <1>4, <1>5

LEMMA CarryFollows ==
    ASSUME NEW f, NEW count \in Nat, count <= MaxRecords, NEW leaf, NEW index \in Nat,
           Carrying(f, count, leaf, index)
    PROVE  /\ Carrying(FollowCarry(f), count, leaf, index)
           /\ FollowCarry(f).peaks = Carry(f.peaks)
           /\ ~ Mergeable(Carry(f.peaks))
<1> DEFINE n == Len(f.peaks)
<1>1. Len(f.peaks) \in Nat
  <2>1. PICK H : f.peaks \in PeakLists(H)
    BY DEF Carrying
  <2>. QED
    BY <2>1 DEF PeakLists
<1>2. PICK t : /\ t[0] = f
               /\ \A i \in 1..Len(f.peaks) : t[i] = FollowOne(t[i - 1])
               /\ FollowCarry(f) = t[Len(f.peaks)]
  BY <1>1, FollowTurns
<1>3. PICK c : /\ c[0] = f.peaks
               /\ \A i \in 1..Len(f.peaks) : c[i] = CarryOne(c[i - 1])
               /\ Carry(f.peaks) = c[Len(f.peaks)]
  <2> DEFINE ps == f.peaks
  <2>1. Len(ps) \in Nat
    BY <1>1
  <2> HIDE DEF ps
  <2>2. \E c : /\ c[0] = ps
               /\ \A i \in 1..Len(ps) : c[i] = CarryOne(c[i - 1])
               /\ Carry(ps) = c[Len(ps)]
    BY <2>1, CarryTurns
  <2>. QED
    BY <2>2 DEF ps
<1> DEFINE Alike(i) == /\ Carrying(t[i], count, leaf, index)
                       /\ c[i] = t[i].peaks
                       /\ Mergeable(c[i]) => Len(c[i]) <= n - i
           S == {i \in Nat : i <= n => Alike(i)}
<1>4. 0 \in S
  <2>1. Alike(0)
    BY <1>1, <1>2, <1>3
  <2> HIDE DEF Alike
  <2>. QED
    BY <2>1
<1>5. ASSUME NEW i \in S PROVE i + 1 \in S
  <2>1. i \in Nat
    OBVIOUS
  <2>2. ASSUME i + 1 <= n PROVE Alike(i + 1)
    <3>1. Alike(i)
      <4> HIDE DEF Alike
      <4>. QED
        BY <1>1, <2>1, <2>2
    <3>2. i + 1 \in 1..Len(f.peaks) /\ (i + 1) - 1 = i
      BY <1>1, <2>1, <2>2
    <3>3. t[i + 1] = FollowOne(t[i]) /\ c[i + 1] = CarryOne(c[i])
      BY <1>2, <1>3, <3>2
    <3>4. /\ Carrying(FollowOne(t[i]), count, leaf, index)
          /\ FollowOne(t[i]).peaks = CarryOne(t[i].peaks)
          /\ Mergeable(t[i].peaks) => Len(CarryOne(t[i].peaks)) = Len(t[i].peaks) - 1
          /\ ~ Mergeable(t[i].peaks) => FollowOne(t[i]) = t[i]
      BY <3>1, TurnCarries
    <3>5. Carrying(t[i + 1], count, leaf, index) /\ c[i + 1] = t[i + 1].peaks
      BY <3>1, <3>3, <3>4
    <3>6. Mergeable(c[i + 1]) => Len(c[i + 1]) <= n - (i + 1)
      <4>1. CASE Mergeable(c[i])
        <5>1. Len(c[i + 1]) = Len(c[i]) - 1 /\ Len(c[i]) <= n - i
          BY <3>1, <3>3, <3>4, <4>1
        <5>2. Len(c[i]) \in Nat
          <6>1. PICK H : t[i].peaks \in PeakLists(H)
            BY <3>1 DEF Carrying
          <6>2. Len(t[i].peaks) \in Nat
            BY <6>1 DEF PeakLists
          <6>. QED
            BY <3>1, <6>2
        <5>. QED
          BY <1>1, <2>1, <5>1, <5>2
      <4>2. CASE ~ Mergeable(c[i])
        <5>1. t[i + 1] = t[i]
          BY <3>1, <3>3, <3>4, <4>2
        <5>2. c[i + 1] = c[i]
          BY <3>1, <3>5, <5>1
        <5>. QED
          BY <4>2, <5>2
      <4>. QED
        BY <4>1, <4>2
    <3>. QED
      BY <3>5, <3>6
  <2> HIDE DEF Alike
  <2>. QED
    BY <2>1, <2>2
<1>6. n \in S
  <2> HIDE DEF S
  <2>. QED
    BY <1>1, <1>4, <1>5, CountUp
<1>7. Alike(n)
  <2> HIDE DEF Alike
  <2>. QED
    BY <1>1, <1>6
<1>8. ~ Mergeable(c[n])
  <2>1. Mergeable(c[n]) => Len(c[n]) <= 0
    BY <1>1, <1>7
  <2>2. Mergeable(c[n]) => Len(c[n]) >= 2
    BY DEF Mergeable
  <2>3. Len(c[n]) \in Nat
    <3>1. PICK H : t[n].peaks \in PeakLists(H)
      BY <1>7 DEF Carrying
    <3>2. Len(t[n].peaks) \in Nat
      BY <3>1 DEF PeakLists
    <3>. QED
      BY <1>7, <3>2
  <2>. QED
    BY <2>1, <2>2, <2>3
<1>. QED
  BY <1>2, <1>3, <1>7, <1>8

(* A leaf is appended and followed alike. *)
LEMMA LeafFollows ==
    ASSUME NEW L, NEW ls \in Seq(L), NEW leaf \in L, Len(ls) + 1 <= MaxRecords,
           NEW index \in Nat, NEW f, Tracked(f, ls, index)
    PROVE  /\ Tracked(FollowLeaf(f, leaf, Len(ls) + 1 = index + 1), Append(ls, leaf), index)
           /\ FollowLeaf(f, leaf, Len(ls) + 1 = index + 1).peaks = AppendLeaf(f.peaks, leaf)
<1> DEFINE n == Len(f.peaks)
           count == Len(ls)
           more == Append(ls, leaf)
           peak == [span |-> 1, hash |-> leaf]
           rs == Append(f.peaks, peak)
           g == [peaks |-> rs, ours |-> IF count + 1 = index + 1 THEN Len(rs) ELSE f.ours,
                 steps |-> f.steps]
           own == more[index + 1]
<1>1. PICK H : f.peaks \in PeakLists(H)
  BY DEF Tracked
<1>2. PICK slot, start :
         /\ Len(f.peaks) > 0 => Settled(f.peaks, slot, start, Len(ls))
         /\ index < Len(ls) => OnPath(f, slot, start, ls[index + 1], index)
  BY DEF Tracked
<1>3. /\ Len(f.peaks) = 0 => Len(ls) = 0
      /\ index >= Len(ls) => f.ours = 0 /\ f.steps = <<>>
  BY DEF Tracked
<1>4. /\ count \in Nat /\ n \in Nat /\ Len(more) = count + 1 /\ more[count + 1] = leaf
      /\ \A i \in 1..count : more[i] = ls[i]
  BY <1>1 DEF PeakLists
<1>5. FollowLeaf(f, leaf, Len(ls) + 1 = index + 1) = FollowCarry(g)
  BY DEF FollowLeaf
<1> HIDE DEF more
<1>6. AppendLeaf(f.peaks, leaf) = Carry(rs)
  BY DEF AppendLeaf
<1>7. /\ g.peaks = rs /\ g.steps = f.steps
      /\ g.ours = IF count = index THEN Len(rs) ELSE f.ours
  BY <1>4
<1> HIDE DEF g
<1>8. /\ \E K : rs \in PeakLists(K)
      /\ Len(rs) = n + 1
  BY <1>1, PushLeaf
<1>9. rs[n + 1].hash = leaf /\ \A i \in 1..n : rs[i] = f.peaks[i]
  <2>1. peak.hash = leaf
    OBVIOUS
  <2>2. f.peaks \in Seq([span : Nat, hash : H])
    BY <1>1 DEF PeakLists
  <2> HIDE DEF peak
  <2>3. rs[n + 1] = peak /\ \A i \in 1..n : rs[i] = f.peaks[i]
    BY <2>2
  <2>. QED
    BY <2>1, <2>3
<1> DEFINE slot2 == PushedSlots(slot, n)
           start2 == PushedStarts(start, n, count)
<1>10. Stacked(rs, slot2, start2, count + 1)
  BY <1>1, <1>2, <1>3, <1>4, PushStacks
<1>11. /\ slot2[n + 1] = 0 /\ start2[n + 1] = count
       /\ \A i \in 1..n : slot2[i] = slot[i] /\ start2[i] = start[i]
  BY <1>4 DEF PushedSlots, PushedStarts
<1> HIDE DEF slot2, start2, rs
<1>12. ASSUME index < count + 1 PROVE OnPath(g, slot2, start2, own, index)
  <2>1. CASE index = count
    <3>1. f.ours = 0 /\ f.steps = <<>>
      BY <1>3, <1>4, <2>1
    <3>2. g.ours = n + 1 /\ g.steps = <<>> /\ own = leaf
      BY <1>4, <1>7, <1>8, <2>1, <3>1
    <3>3. FoldPath(own, g.steps) = g.peaks[g.ours].hash
      <4>1. FoldPath(leaf, <<>>) = leaf
        BY FoldNone
      <4>. QED
        BY <1>7, <1>9, <3>2, <4>1
    <3>4. g.ours \in 1..Len(g.peaks) /\ Len(g.steps) = 0 /\ slot2[g.ours] = 0
          /\ start2[g.ours] = count
      BY <1>4, <1>7, <1>8, <1>11, <3>2
    <3>5. <<>> \in StepLists({})
      BY DEF StepLists
    <3>6. \E K : g.steps \in StepLists(K)
      BY <3>2, <3>5
    <3>7. start2[g.ours] <= index /\ index < start2[g.ours] + 2^slot2[g.ours]
      <4>1. 2^slot2[g.ours] = 1
        BY <3>4, PowerOfTwoAssumption DEF PowersOfTwo
      <4>. QED
        BY <1>4, <2>1, <3>4, <4>1
    <3>8. \A j \in 1..Len(g.steps) :
              g.steps[j].right = Side(index - start2[g.ours], 2^(j - 1))
      BY <3>4
    <3>9. Len(g.steps) = slot2[g.ours]
      BY <3>4
    <3>. QED
      BY <3>3, <3>4, <3>6, <3>7, <3>8, <3>9, Zenon DEF OnPath
  <2>2. CASE index # count
    <3>1. index < count /\ index + 1 \in 1..count
      BY <1>4, <1>12, <2>2
    <3>2. OnPath(f, slot, start, ls[index + 1], index)
      BY <1>2, <3>1
    <3>3. own = ls[index + 1] /\ g.ours = f.ours /\ g.steps = f.steps /\ g.peaks = rs
      BY <1>4, <1>7, <2>2, <3>1
    <3>4. f.ours \in 1..n
      BY <3>2 DEF OnPath
    <3>5. rs[f.ours] = f.peaks[f.ours] /\ slot2[f.ours] = slot[f.ours]
          /\ start2[f.ours] = start[f.ours] /\ f.ours \in 1..Len(rs)
      BY <1>4, <1>8, <1>9, <1>11, <3>4
    <3>6. /\ g.ours \in 1..Len(g.peaks) /\ Len(g.steps) = slot2[g.ours]
          /\ start2[g.ours] <= index /\ index < start2[g.ours] + 2^slot2[g.ours]
          /\ FoldPath(own, g.steps) = g.peaks[g.ours].hash
      BY <3>2, <3>3, <3>5 DEF OnPath
    <3>7. \E K : g.steps \in StepLists(K)
      BY <3>2, <3>3 DEF OnPath
    <3>8. \A j \in 1..Len(g.steps) :
              g.steps[j].right = Side(index - start2[g.ours], 2^(j - 1))
      BY <3>2, <3>3, <3>5 DEF OnPath
    <3>. QED
      BY <3>6, <3>7, <3>8, Zenon DEF OnPath
  <2>. QED
    BY <2>1, <2>2
<1>13. ASSUME index >= count + 1 PROVE g.ours = 0 /\ g.steps = <<>>
  <2>1. index # count /\ index >= count
    BY <1>4, <1>13
  <2>. QED
    BY <1>3, <1>7, <2>1
<1>14. Carrying(g, count + 1, own, index)
  <2>1. \E K : g.peaks \in PeakLists(K)
    BY <1>7, <1>8
  <2>2. Stacked(g.peaks, slot2, start2, count + 1)
    BY <1>7, <1>10
  <2>. QED
    BY <1>12, <1>13, <2>1, <2>2 DEF Carrying
<1> DEFINE h == FollowCarry(g)
<1>15. /\ Carrying(h, count + 1, own, index) /\ h.peaks = Carry(rs) /\ ~ Mergeable(Carry(rs))
  <2>1. count + 1 \in Nat /\ count + 1 <= MaxRecords
    BY <1>4
  <2>2. /\ Carrying(h, count + 1, own, index) /\ h.peaks = Carry(g.peaks)
        /\ ~ Mergeable(Carry(g.peaks))
    BY <1>14, <2>1, CarryFollows
  <2>. QED
    BY <1>7, <2>2
<1> HIDE DEF h
<1>16. Tracked(h, more, index)
  <2>1. PICK slot3, start3 : /\ Stacked(h.peaks, slot3, start3, count + 1)
                             /\ index < count + 1 => OnPath(h, slot3, start3, own, index)
    BY <1>15 DEF Carrying
  <2>2. Settled(h.peaks, slot3, start3, Len(more))
    <3>1. count + 1 \in Nat /\ ~ Mergeable(h.peaks)
      BY <1>4, <1>15
    <3>2. Settled(h.peaks, slot3, start3, count + 1)
      BY <2>1, <3>1, StackedSettles
    <3>. QED
      BY <1>4, <3>2
  <2>3. index < Len(more) => OnPath(h, slot3, start3, more[index + 1], index)
    BY <1>4, <2>1
  <2>4. \E K : h.peaks \in PeakLists(K)
    BY <1>15 DEF Carrying
  <2>5. index >= Len(more) => h.ours = 0 /\ h.steps = <<>>
    BY <1>4, <1>15 DEF Carrying
  <2>6. Len(h.peaks) # 0
    BY <2>1 DEF Stacked
  <2>. QED
    BY <2>2, <2>3, <2>4, <2>5, <2>6 DEF Tracked
<1>. QED
  BY <1>5, <1>6, <1>15, <1>16 DEF h, more

-----------------------------------------------------------------------------
(* The slots of the peaks are bits of the count, and the leaves before a   *)
(* peak are those that the verifier counts.                                *)
LEMMA SlotIsBit ==
    ASSUME NEW ps, NEW slot, NEW start, NEW count \in Nat,
           Settled(ps, slot, start, count), NEW i \in 1..Len(ps)
    PROVE  slot[i] \in Bits(count) /\ Offset(count, slot[i]) = start[i]
<1> DEFINE n == Len(ps)
           s == slot[i]
           d == 2^s
           x == start[i]
           r == count - x
<1>1. Stacked(ps, slot, start, count) /\ n \in Nat \ {0}
  BY DEF Settled, Stacked
<1>2. s \in 0..MaxSlot /\ x \in Nat
  BY <1>1 DEF Stacked
<1>3. d \in Nat /\ d > 0 /\ 2^(s + 1) = 2 * d
  <2> HIDE DEF s
  <2>. QED
    BY <1>2, SlotPowers
<1>4. Multiple(x, 2^(s + 1))
  <2>1. CASE i = n
    BY <2>1 DEF Settled
  <2>2. CASE i # n
    <3>1. i \in 1..(n - 1)
      BY <1>1, <2>2
    <3>. QED
      BY <1>1, <3>1 DEF Stacked
  <2>. QED
    BY <2>1, <2>2
<1>5. count < x + 2^(s + 1)
  BY DEF Settled
<1>6. x + d <= count
  <2>1. count = start[n] + 2^slot[n]
    BY <1>1 DEF Stacked
  <2>2. CASE i = n
    BY <1>2, <1>3, <2>1, <2>2
  <2>3. CASE i # n
    <3>1. n \in 1..n /\ i < n
      BY <1>1, <2>3
    <3>2. x + d <= start[n] /\ start[n] \in Nat /\ slot[n] \in 0..MaxSlot
      BY <1>1, <3>1 DEF Stacked
    <3>3. 2^slot[n] \in Nat
      BY <3>2, SlotPowers
    <3> HIDE DEF n, s, d, x
    <3>. QED
      BY <1>2, <1>3, <2>1, <3>2, <3>3
  <2>. QED
    BY <2>2, <2>3
<1> HIDE DEF n, s, d, x
<1>7. r \in Nat /\ d <= r /\ r < 2 * d /\ r + x = count /\ x + r = count
  BY <1>2, <1>3, <1>5, <1>6
<1> HIDE DEF r
<1>8. ~ EvenAt(count, d)
  <2>1. ~ EvenAt(r, d)
    BY <1>3, <1>7, OddNext
  <2>2. Multiple(x, 2 * d)
    BY <1>3, <1>4
  <2>3. EvenAt(r + x, d) <=> EvenAt(r, d)
    BY <1>2, <1>3, <1>7, <2>2, EvenAgain
  <2>. QED
    BY <1>7, <2>1, <2>3
<1>9. (count \div d) % 2 = 1
  <2>1. count \div d \in Nat
    BY <1>3
  <2>2. (count \div d) % 2 # 0
    BY <1>8 DEF EvenAt
  <2>. QED
    BY <2>1, <2>2
<1>10. s \in Bits(count)
  BY <1>2, <1>9 DEF Bits, d
<1>11. Offset(count, s) = x
  <2> DEFINE e == 2^(s + 1)
  <2>1. e \in Nat \ {0} /\ r < e /\ Multiple(x, e)
    BY <1>3, <1>4, <1>7
  <2> HIDE DEF e
  <2>2. e * ((x + r) \div e) = x
    BY <1>2, <1>7, <2>1, WholeBlocks
  <2>3. Offset(count, s) = e * (count \div e)
    BY DEF Offset, e
  <2>. QED
    BY <1>7, <2>2, <2>3
<1>. QED
  BY <1>10, <1>11 DEF s, x

(* Each bit of the count is the slot of a peak. *)
LEMMA BitIsSlot ==
    ASSUME NEW ps, NEW slot, NEW start, NEW count \in Nat,
           Settled(ps, slot, start, count), NEW t \in Bits(count)
    PROVE  \E i \in 1..Len(ps) : slot[i] = t
<1> SUFFICES ASSUME \A i \in 1..Len(ps) : slot[i] # t PROVE FALSE
  OBVIOUS
<1> DEFINE n == Len(ps)
           d == 2^t
<1>1. Stacked(ps, slot, start, count) /\ n \in Nat \ {0}
  BY DEF Settled, Stacked
<1>2. /\ \A i \in 1..n : slot[i] \in 0..MaxSlot /\ start[i] \in Nat
      /\ \A i \in 1..n : count < start[i] + 2^(slot[i] + 1)
      /\ start[1] = 0 /\ count = start[n] + 2^slot[n]
  BY <1>1 DEF Settled, Stacked
<1>3. t \in 0..MaxSlot /\ (count \div d) % 2 = 1
  BY DEF Bits
<1>4. d \in Nat /\ d > 0 /\ 2^(t + 1) = 2 * d /\ t \in 0..(MaxSlot + 1)
      /\ t + 1 \in 0..(MaxSlot + 1) /\ t \in Nat
  BY <1>3, SlotPowers
<1>5. ~ EvenAt(count, d)
  BY <1>3 DEF EvenAt
<1> HIDE DEF n, d
<1>6. ASSUME NEW i \in 1..n
      PROVE  /\ slot[i] \in Nat /\ start[i] \in Nat
             /\ 2^slot[i] \in Nat /\ 2^(slot[i] + 1) = 2 * 2^slot[i] /\ 2^(slot[i] + 1) \in Nat
             /\ slot[i] \in 0..(MaxSlot + 1) /\ slot[i] + 1 \in 0..(MaxSlot + 1)
             /\ slot[i] # t
  <2>1. slot[i] \in 0..MaxSlot /\ start[i] \in Nat
    BY <1>2
  <2>2. slot[i] # t
    BY DEF n
  <2>. QED
    BY <2>1, <2>2, SlotPowers
(* Below a slot, what remains of the count is less than d. *)
<1>7. ASSUME NEW i \in 1..n, slot[i] < t PROVE count < start[i] + d
  <2>1. slot[i] + 1 <= t
    BY <1>4, <1>6, <1>7
  <2>2. 2^(slot[i] + 1) <= d
    <3>1. CASE slot[i] + 1 = t
      BY <1>4, <3>1 DEF d
    <3>2. CASE slot[i] + 1 # t
      <4>1. slot[i] + 1 < t
        BY <1>4, <1>6, <2>1, <3>2
      <4> DEFINE k == slot[i] + 1
      <4>2. k \in 0..(MaxSlot + 1) /\ k < t /\ 2^k \in Nat
        BY <1>6, <4>1
      <4> HIDE DEF k
      <4>3. 2^k < 2^t
        BY <1>4, <4>2, PowersGrow
      <4>. QED
        BY <1>4, <4>2, <4>3 DEF d, k
    <3>. QED
      BY <3>1, <3>2
  <2>3. count < start[i] + 2^(slot[i] + 1)
    BY <1>2
  <2>4. start[i] \in Nat /\ 2^(slot[i] + 1) \in Nat
    BY <1>6
  <2>. QED
    BY <1>4, <2>2, <2>3, <2>4
<1>8. 1 \in 1..n /\ n \in 1..n
  BY <1>1
<1>9. CASE slot[1] < t
  <2>1. count < d
    BY <1>2, <1>4, <1>7, <1>8, <1>9
  <2>2. EvenAt(count, d)
    BY <1>4, <2>1, EvenSmall
  <2>. QED
    BY <1>5, <2>2
<1>10. CASE ~ (slot[1] < t)
  <2>1. slot[1] > t
    BY <1>4, <1>6, <1>8, <1>10
  <2> DEFINE P == {i \in 1..n : slot[i] > t}
  <2>2. 1 \in P
    BY <1>8, <2>1
  <2>3. \E i \in 1..n : i \in P /\ (i = n \/ i + 1 \notin P)
    <3> HIDE DEF P
    <3>. QED
      BY <1>1, <2>2, LastOf
  <2>4. PICK i \in 1..n : slot[i] > t /\ (i = n \/ i + 1 \notin P)
    BY <2>3
  <2> DEFINE high == start[i] + 2^slot[i]
             rest == count - high
  <2>5. high \in Nat /\ rest \in Nat /\ rest < d
    <3>1. CASE i = n
      <4>1. count = high /\ high \in Nat
        BY <1>2, <1>6, <1>8, <3>1
      <4> HIDE DEF high
      <4>. QED
        BY <1>4, <4>1
    <3>2. CASE i # n
      <4>1. i \in 1..(n - 1) /\ i + 1 \in 1..n
        BY <1>1, <3>2
      <4>2. start[i + 1] = high
        BY <1>1, <4>1 DEF Stacked, n
      <4>3. slot[i + 1] < t
        <5>1. ~ (slot[i + 1] > t)
          BY <2>4, <3>2, <4>1
        <5>. QED
          BY <1>4, <1>6, <4>1, <5>1
      <4>4. count < start[i + 1] + d
        BY <1>7, <4>1, <4>3
      <4>5. start[i + 1] <= count
        <5> DEFINE k == i + 1
        <5>1. k \in 1..n
          BY <4>1
        <5> HIDE DEF k
        <5>2. start[k] <= count
          <6>1. CASE k = n
            <7>1. /\ start[n] \in Nat /\ 2^slot[n] \in Nat
                  /\ count = start[n] + 2^slot[n]
              BY <1>2, <1>6, <1>8
            <7>. QED
              BY <6>1, <7>1
          <6>2. CASE k # n
            <7>1. k < n
              BY <1>1, <5>1, <6>2
            <7>2. start[k] + 2^slot[k] <= start[n]
              BY <1>1, <1>8, <5>1, <7>1 DEF Stacked, n
            <7>3. /\ 2^slot[k] \in Nat /\ start[k] \in Nat /\ start[n] \in Nat
                  /\ 2^slot[n] \in Nat /\ count = start[n] + 2^slot[n]
              BY <1>2, <1>6, <1>8, <5>1
            <7> DEFINE a == 2^slot[n]
                       b == 2^slot[k]
            <7>4. a \in Nat /\ start[n] \in Nat /\ count = start[n] + a
                  /\ b \in Nat /\ start[k] \in Nat
              BY <7>3
            <7>5. start[k] + b <= start[n]
              BY <7>2
            <7> HIDE DEF a, b
            <7>. QED
              BY <7>4, <7>5
          <6>. QED
            BY <6>1, <6>2
        <5>. QED
          BY <5>2 DEF k
      <4>6. start[i + 1] \in Nat
        BY <1>6, <4>1
      <4> HIDE DEF high
      <4>. QED
        BY <1>4, <4>2, <4>4, <4>5, <4>6
    <3>. QED
      BY <3>1, <3>2
  <2>6. Multiple(high, 2 * d)
    <3> DEFINE a == 2^slot[i]
               e == 2 * d
    <3>1. Multiple(start[i], 2 * a) /\ a \in Nat /\ start[i] \in Nat
      <4>1. Multiple(start[i], 2^(slot[i] + 1))
        <5>1. CASE i = n
          BY <5>1 DEF Settled, n
        <5>2. CASE i # n
          <6>1. i \in 1..(n - 1)
            BY <1>1, <5>2
          <6>. QED
            BY <1>1, <6>1 DEF Stacked, n
        <5>. QED
          BY <5>1, <5>2
      <4>2. 2^(slot[i] + 1) = 2 * a /\ a \in Nat /\ start[i] \in Nat
        BY <1>6
      <4>. QED
        BY <4>1, <4>2
    <3>2. Multiple(a, e)
      <4>1. t + 1 <= slot[i] /\ slot[i] \in 0..(MaxSlot + 1)
        BY <1>4, <1>6, <2>4
      <4> DEFINE k == slot[i]
                 m == t + 1
      <4>2. m \in 0..(MaxSlot + 1) /\ k \in 0..(MaxSlot + 1) /\ m <= k
        BY <1>4, <4>1
      <4> HIDE DEF k, m
      <4>3. Multiple(2^k, 2^m)
        BY <4>2, PowersDivide
      <4>. QED
        BY <1>4, <4>3 DEF k, m
    <3> HIDE DEF a, e
    <3>3. e \in Nat
      BY <1>4 DEF e
    <3>4. Multiple(2 * a, e)
      <4>1. Multiple(a + a, e)
        BY <3>1, <3>2, <3>3, MultipleSum
      <4>2. a + a = 2 * a
        BY <3>1
      <4>. QED
        BY <4>1, <4>2
    <3>5. Multiple(start[i], e)
      <4> DEFINE b == 2 * a
                 x == start[i]
      <4>1. x \in Nat /\ b \in Nat /\ Multiple(x, b) /\ Multiple(b, e)
        BY <3>1, <3>4
      <4> HIDE DEF b, x
      <4>2. Multiple(x, e)
        BY <3>3, <4>1, MultipleOf
      <4>. QED
        BY <4>2 DEF x
    <3>6. Multiple(start[i] + a, e)
      <4> DEFINE x == start[i]
      <4>1. x \in Nat /\ Multiple(x, e)
        BY <3>1, <3>5
      <4> HIDE DEF x
      <4>2. Multiple(x + a, e)
        BY <3>1, <3>2, <3>3, <4>1, MultipleSum
      <4>. QED
        BY <4>2 DEF x
    <3>. QED
      BY <3>6 DEF a, e
  <2> HIDE DEF high
  <2>7. rest + high = count
    BY <2>5
  <2> HIDE DEF rest
  <2>8. EvenAt(rest, d)
    BY <1>4, <2>5, EvenSmall
  <2>9. EvenAt(rest + high, d) <=> EvenAt(rest, d)
    BY <1>4, <2>5, <2>6, EvenAgain
  <2>. QED
    BY <1>5, <2>7, <2>8, <2>9
<1>. QED
  BY <1>9, <1>10

-----------------------------------------------------------------------------
(* The later peaks are as many as the lower bits. *)
LEMMA LowerBits ==
    ASSUME NEW ps, NEW slot, NEW start, NEW count \in Nat,
           Settled(ps, slot, start, count), NEW i \in 1..Len(ps)
    PROVE  /\ Cardinality({u \in Bits(count) : u < slot[i]}) = Len(ps) - i
           /\ (\E u \in Bits(count) : u > slot[i]) <=> i > 1
<1> DEFINE n == Len(ps)
           m == n - i
           T == {u \in Bits(count) : u < slot[i]}
           f == [j \in 1..m |-> slot[i + j]]
<1>1. n \in Nat \ {0} /\ i \in 1..n /\ m \in Nat
  BY DEF Settled, Stacked
<1>2. \A k \in 1..n : slot[k] \in Bits(count)
  BY SlotIsBit
<1>3. \A u \in Bits(count) : \E k \in 1..n : slot[k] = u
  BY BitIsSlot
<1>4. \A k \in 1..n : slot[k] \in Nat
  <2>1. \A k \in 1..n : slot[k] \in 0..MaxSlot
    BY DEF Settled, Stacked
  <2>. QED
    BY <2>1
<1>5. \A j, k \in 1..n : j < k => slot[j] > slot[k]
  <2> SUFFICES ASSUME NEW j \in 1..n, NEW k \in 1..n, j < k PROVE slot[j] > slot[k]
    OBVIOUS
  <2>1. slot[j] >= slot[k] + (k - j)
    BY DEF Settled
  <2>2. slot[j] \in Nat /\ slot[k] \in Nat
    BY <1>4
  <2> HIDE DEF n
  <2>. QED
    BY <1>1, <2>1, <2>2
<1> HIDE DEF n
<1>6. ASSUME NEW k \in 1..n
      PROVE  /\ slot[k] < slot[i] <=> k > i
             /\ slot[k] > slot[i] <=> k < i
  <2>1. k < i => slot[k] > slot[i]
    BY <1>1, <1>5
  <2>2. i < k => slot[i] > slot[k]
    BY <1>1, <1>5
  <2>3. k = i => slot[k] = slot[i]
    OBVIOUS
  <2>4. slot[k] \in Nat /\ slot[i] \in Nat
    BY <1>1, <1>4
  <2>. QED
    BY <1>1, <2>1, <2>2, <2>3, <2>4
<1>7. f \in [1..m -> T]
  <2>1. ASSUME NEW j \in 1..m PROVE slot[i + j] \in T
    <3>1. i + j \in 1..n /\ i + j > i
      BY <1>1
    <3>2. slot[i + j] < slot[i]
      BY <1>6, <3>1
    <3>. QED
      BY <1>2, <3>1, <3>2
  <2> HIDE DEF T
  <2>. QED
    BY <2>1
<1>8. \A a, b \in 1..m : f[a] = f[b] => a = b
  <2> SUFFICES ASSUME NEW a \in 1..m, NEW b \in 1..m, f[a] = f[b], a < b \/ b < a
               PROVE  FALSE
    BY <1>1
  <2>1. i + a \in 1..n /\ i + b \in 1..n /\ slot[i + a] = slot[i + b]
    BY <1>1
  <2>2. i + a < i + b \/ i + b < i + a
    BY <1>1
  <2>3. slot[i + a] \in Nat /\ slot[i + b] \in Nat
    BY <1>4, <2>1
  <2>. QED
    BY <1>5, <2>1, <2>2, <2>3
<1>9. \A u \in T : \E j \in 1..m : f[j] = u
  <2> SUFFICES ASSUME NEW u \in T PROVE \E j \in 1..m : f[j] = u
    OBVIOUS
  <2>1. PICK k \in 1..n : slot[k] = u
    BY <1>3
  <2>2. slot[k] < slot[i]
    BY <2>1
  <2>3. k > i
    BY <1>6, <2>2
  <2>4. k - i \in 1..m /\ i + (k - i) = k
    BY <1>1, <2>3
  <2>. QED
    BY <2>1, <2>4
<1>10. Cardinality(T) = m
  <2>1. ExistsBijection(1..m, T)
    <3> HIDE DEF T, f, m
    <3>1. f \in Bijection(1..m, T)
      BY <1>7, <1>8, <1>9 DEF Bijection, Injection, Surjection, IsInjective
    <3>. QED
      BY <3>1 DEF ExistsBijection
  <2> HIDE DEF T, m
  <2>. QED
    BY <1>1, <2>1, FS_CountingElements
<1>11. (\E u \in Bits(count) : u > slot[i]) <=> i > 1
  <2>1. ASSUME NEW u \in Bits(count), u > slot[i] PROVE i > 1
    <3>1. PICK k \in 1..n : slot[k] = u
      BY <1>3
    <3>2. k < i
      BY <1>6, <2>1, <3>1
    <3>. QED
      BY <1>1, <3>2
  <2>2. ASSUME i > 1 PROVE \E u \in Bits(count) : u > slot[i]
    <3>1. 1 \in 1..n
      BY <1>1
    <3>2. slot[1] > slot[i] /\ slot[1] \in Bits(count)
      BY <1>2, <1>6, <2>2, <3>1
    <3>. QED
      BY <3>2
  <2>. QED
    BY <2>1, <2>2
<1>. QED
  BY <1>10, <1>11 DEF n

(* Each leaf is below one peak. *)
LEMMA BelowOne ==
    ASSUME NEW ps, NEW slot, NEW start, NEW count \in Nat,
           Settled(ps, slot, start, count), NEW index \in Nat, index < count
    PROVE  \E i \in 1..Len(ps) : start[i] <= index /\ index < start[i] + 2^slot[i]
<1> DEFINE n == Len(ps)
           P == {i \in 1..n : start[i] <= index}
<1>1. /\ n \in Nat \ {0} /\ start[1] = 0 /\ count = start[n] + 2^slot[n]
      /\ \A i \in 1..(n - 1) : start[i + 1] = start[i] + 2^slot[i]
      /\ \A i \in 1..n : start[i] \in Nat
  BY DEF Settled, Stacked
<1> HIDE DEF n
<1>2. 1 \in P
  BY <1>1
<1>3. PICK i \in 1..n : i \in P /\ (i = n \/ i + 1 \notin P)
  <2> HIDE DEF P
  <2>. QED
    BY <1>1, <1>2, LastOf
<1>4. CASE i = n
  BY <1>1, <1>3, <1>4 DEF n
<1>5. CASE i # n
  <2>1. i \in 1..(n - 1) /\ i + 1 \in 1..n
    BY <1>1, <1>5
  <2>2. ~ (start[i + 1] <= index)
    BY <1>3, <1>5, <2>1
  <2>3. start[i + 1] = start[i] + 2^slot[i] /\ start[i + 1] \in Nat
    BY <1>1, <2>1
  <2>4. index < start[i] + 2^slot[i]
    BY <2>2, <2>3
  <2>. QED
    BY <1>3, <2>4 DEF n
<1>. QED
  BY <1>4, <1>5

(* The peak the verifier counts as ours is the one above our leaf. *)
LEMMA OwnIsSlot ==
    ASSUME NEW ps, NEW slot, NEW start, NEW count \in Nat,
           Settled(ps, slot, start, count), NEW index \in Nat, NEW i \in 1..Len(ps),
           start[i] <= index, index < start[i] + 2^slot[i]
    PROVE  Own(index, count) = slot[i]
<1> DEFINE n == Len(ps)
<1>1. n \in Nat \ {0} /\ \A k \in 1..n : start[k] \in Nat /\ slot[k] \in 0..MaxSlot
  BY DEF Settled, Stacked
<1>2. \A j, k \in 1..n : j < k => start[j] + 2^slot[j] <= start[k]
  BY DEF Settled, Stacked
<1>3. slot[i] \in Bits(count) /\ Covers(count, slot[i], index)
  BY SlotIsBit DEF Covers
<1>4. ASSUME NEW t \in Bits(count), Covers(count, t, index) PROVE t = slot[i]
  <2>1. PICK k \in 1..n : slot[k] = t
    BY BitIsSlot
  <2>2. Offset(count, t) = start[k]
    BY <2>1, SlotIsBit
  <2>3. start[k] <= index /\ index < start[k] + 2^slot[k]
    BY <1>4, <2>1, <2>2 DEF Covers
  <2> DEFINE a == 2^slot[i]
             b == 2^slot[k]
  <2>4. start[k] \in Nat /\ start[i] \in Nat /\ a \in Nat /\ b \in Nat
    BY <1>1, SlotPowers
  <2>7. start[i] <= index /\ index < start[i] + a
    OBVIOUS
  <2>8. start[k] <= index /\ index < start[k] + b
    BY <2>3
  <2>5. ~ (k < i) /\ ~ (i < k)
    <3>1. k < i => start[k] + b <= start[i]
      BY <1>2
    <3>2. i < k => start[i] + a <= start[k]
      BY <1>2
    <3> HIDE DEF a, b
    <3>3. ~ (k < i)
      BY <2>4, <2>7, <2>8, <3>1
    <3>4. ~ (i < k)
      BY <2>4, <2>7, <2>8, <3>2
    <3>. QED
      BY <3>3, <3>4
  <2>6. k = i
    BY <1>1, <2>5
  <2>. QED
    BY <2>1, <2>6
<1>. QED
  BY <1>3, <1>4 DEF Own

-----------------------------------------------------------------------------
(* Numbers of so many bits that have the same bits are the same.           *)
LEMMA BitsDecide ==
    ASSUME NEW s \in 0..MaxSlot, NEW x \in Nat, NEW y \in Nat, x < 2^s, y < 2^s,
           \A j \in 1..s : Side(x, 2^(j - 1)) = Side(y, 2^(j - 1))
    PROVE  x = y
<1> DEFINE Same(k, a, b) == (\A j \in 1..k : EvenAt(a, 2^(j - 1)) <=> EvenAt(b, 2^(j - 1)))
           Decided(k) == \A a, b \in Nat : a < 2^k /\ b < 2^k /\ Same(k, a, b) => a = b
           S == {k \in Nat : k <= MaxSlot => Decided(k)}
<1>1. MaxSlot \in Nat
  BY BlockAssumption
<1>2. 0 \in S
  <2>1. Decided(0)
    BY PowerOfTwoAssumption DEF PowersOfTwo
  <2> HIDE DEF Decided
  <2>. QED
    BY <2>1
<1>3. ASSUME NEW k \in S PROVE k + 1 \in S
  <2>1. k \in Nat
    OBVIOUS
  <2>2. ASSUME k + 1 <= MaxSlot PROVE Decided(k + 1)
    <3>1. Decided(k)
      <4> HIDE DEF Decided
      <4>. QED
        BY <1>1, <2>1, <2>2
    <3>2. k \in 0..MaxSlot
      BY <1>1, <2>1, <2>2
    <3> DEFINE d == 2^k
    <3>3. d \in Nat /\ d > 0 /\ 2^(k + 1) = 2 * d
      BY <3>2, SlotPowers
    <3> HIDE DEF d
    <3> SUFFICES ASSUME NEW a \in Nat, NEW b \in Nat, a < 2 * d, b < 2 * d, Same(k + 1, a, b)
                 PROVE  a = b
      BY <3>3
    <3>4. EvenAt(a, d) <=> EvenAt(b, d)
      <4>1. k + 1 \in 1..(k + 1) /\ (k + 1) - 1 = k
        BY <2>1
      <4>2. EvenAt(a, 2^((k + 1) - 1)) <=> EvenAt(b, 2^((k + 1) - 1))
        BY <4>1
      <4>. QED
        BY <4>1, <4>2 DEF d
    <3>5. Same(k, a, b)
      <4>1. \A j \in 1..k : j \in 1..(k + 1)
        BY <2>1
      <4>. QED
        BY <4>1
    <3>6. CASE a < d
      <4>1. b < d
        <5>1. EvenAt(a, d)
          BY <3>3, <3>6, EvenSmall
        <5>2. d <= b => ~ EvenAt(b, d)
          BY <3>3, OddNext
        <5>. QED
          BY <3>3, <3>4, <5>1, <5>2
      <4>. QED
        BY <3>1, <3>5, <3>6, <4>1 DEF d
    <3>7. CASE d <= a
      <4>1. d <= b
        <5>1. ~ EvenAt(a, d)
          BY <3>3, <3>7, OddNext
        <5>2. b < d => EvenAt(b, d)
          BY <3>3, EvenSmall
        <5>. QED
          BY <3>3, <3>4, <5>1, <5>2
      <4> DEFINE p == a - d
                 q == b - d
      <4>2. p \in Nat /\ q \in Nat /\ p < d /\ q < d /\ p + d = a /\ q + d = b
        BY <3>3, <3>7, <4>1
      <4> HIDE DEF p, q, Same, Decided
      <4>3. Same(k, p, q)
        <5>1. ASSUME NEW j \in 1..k PROVE EvenAt(p, 2^(j - 1)) <=> EvenAt(q, 2^(j - 1))
          <6> DEFINE i == j - 1
                     e == 2^i
          <6>1. i \in 0..MaxSlot /\ i + 1 \in 0..(MaxSlot + 1) /\ i + 1 <= k
                /\ k \in 0..(MaxSlot + 1)
            BY <1>1, <2>1, <3>2
          <6> HIDE DEF i
          <6>2. e \in Nat /\ e > 0 /\ 2^(i + 1) = 2 * e
            BY <6>1, SlotPowers
          <6> DEFINE m == i + 1
          <6>3. m \in 0..(MaxSlot + 1) /\ m <= k /\ 2^m = 2 * e
            BY <6>1, <6>2
          <6> HIDE DEF m, e
          <6>4. Multiple(d, 2^m)
            BY <6>1, <6>3, PowersDivide DEF d
          <6>5. Multiple(d, 2 * e)
            BY <6>3, <6>4
          <6>6. EvenAt(p + d, e) <=> EvenAt(p, e)
            BY <3>3, <4>2, <6>2, <6>5, EvenAgain
          <6>7. EvenAt(q + d, e) <=> EvenAt(q, e)
            BY <3>3, <4>2, <6>2, <6>5, EvenAgain
          <6>8. EvenAt(a, e) <=> EvenAt(b, e)
            BY <3>5 DEF Same, e, i
          <6>9. EvenAt(p, e) <=> EvenAt(q, e)
            BY <4>2, <6>6, <6>7, <6>8
          <6>. QED
            BY <6>9 DEF e, i
        <5>. QED
          BY <5>1 DEF Same
      <4>4. p = q
        BY <3>1, <4>2, <4>3 DEF Decided, d
      <4>. QED
        BY <4>2, <4>4
    <3>. QED
      BY <3>3, <3>6, <3>7
  <2> HIDE DEF Decided
  <2>. QED
    BY <2>1, <2>2
<1>4. s \in S
  <2> HIDE DEF S
  <2>1. s \in Nat /\ s >= 0
    BY <1>1
  <2>. QED
    BY <1>2, <1>3, <2>1, CountUp
<1>5. Decided(s)
  <2> HIDE DEF Decided
  <2>. QED
    BY <1>1, <1>4
<1>6. Same(s, x, y)
  <2>1. ASSUME NEW j \in 1..s PROVE EvenAt(x, 2^(j - 1)) <=> EvenAt(y, 2^(j - 1))
    <3>1. Side(x, 2^(j - 1)) = Side(y, 2^(j - 1))
      OBVIOUS
    <3>. QED
      BY <3>1 DEF Side
  <2>. QED
    BY <2>1
<1> HIDE DEF Same
<1>. QED
  BY <1>5, <1>6

-----------------------------------------------------------------------------
LEMMA SecondPart ==
    ASSUME NEW P, NEW a \in Seq(P), NEW b \in Seq(P), NEW j \in 1..Len(b)
    PROVE  (a \o b)[Len(a) + j] = b[j]
  OBVIOUS

(* Three sequences, one after the other. *)
LEMMA ThreeParts ==
    ASSUME NEW P, NEW a \in Seq(P), NEW b \in Seq(P), NEW c \in Seq(P)
    PROVE  /\ (a \o b) \o c \in Seq(P)
           /\ Len((a \o b) \o c) = Len(a) + Len(b) + Len(c)
           /\ Len(a) \in Nat /\ Len(b) \in Nat /\ Len(c) \in Nat
           /\ \A j \in 1..Len(a) : ((a \o b) \o c)[j] = a[j]
           /\ \A j \in 1..Len(b) : ((a \o b) \o c)[Len(a) + j] = b[j]
           /\ \A j \in 1..Len(c) : ((a \o b) \o c)[Len(a) + Len(b) + j] = c[j]
<1> DEFINE s == Len(a)
           e == Len(b)
           l == Len(c)
           all == (a \o b) \o c
           ab == a \o b
<1>1. /\ all \in Seq(P) /\ Len(all) = s + e + l
      /\ s \in Nat /\ e \in Nat /\ l \in Nat
      /\ \A j \in 1..s : all[j] = a[j]
      /\ \A j \in 1..e : all[s + j] = b[j]
      /\ \A j \in 1..l : all[s + e + j] = c[j]
  <2>1. ab \in Seq(P) /\ Len(ab) = s + e /\ s \in Nat /\ e \in Nat /\ l \in Nat
    OBVIOUS
  <2>2. \A j \in 1..s : ab[j] = a[j]
    OBVIOUS
  <2>3. \A j \in 1..e : ab[s + j] = b[j]
    BY SecondPart, Zenon
  <2> HIDE DEF ab
  <2>4. all = ab \o c /\ Len(all) = Len(ab) + l /\ all \in Seq(P)
    <3>1. all = ab \o c
      BY DEF ab
    <3>0. ab \in Seq(P)
      BY <2>1
    <3> HIDE DEF s, e, l
    <3>2. Len(ab \o c) = Len(ab) + Len(c) /\ ab \o c \in Seq(P)
      BY <3>0
    <3> HIDE DEF all
    <3>. QED
      BY <3>1, <3>2 DEF l
  <2> HIDE DEF all
  <2>5. \A j \in 1..Len(ab) : all[j] = ab[j]
    BY <2>1, <2>4
  <2>6. \A j \in 1..l : all[Len(ab) + j] = c[j]
    <3>1. \A j \in 1..Len(c) : (ab \o c)[Len(ab) + j] = c[j]
      BY <2>1, SecondPart, Zenon
    <3>. QED
      BY <2>4, <3>1
  <2> HIDE DEF s, e, l
  <2>7. \A j \in 1..s : all[j] = a[j]
    BY <2>1, <2>2, <2>5
  <2>8. ASSUME NEW j \in 1..e PROVE all[s + j] = b[j]
    <3>1. s + j \in 1..Len(ab)
      BY <2>1
    <3>. QED
      BY <2>3, <2>5, <3>1
  <2>. QED
    BY <2>1, <2>4, <2>6, <2>7, <2>8
<1>. QED
  BY <1>1

(* The parts of a sequence of sides: any, all one side, all the other. *)
ThreeJoined(all, a, b, c, f, t, P) ==
    /\ all \in Seq(P)
    /\ Len(all) = Len(a) + Len(b) + Len(c)
    /\ \A j \in 1..(Len(a) + Len(b) + Len(c)) :
         all[j] = IF j <= Len(a) THEN a[j]
                  ELSE IF j <= Len(a) + Len(b) THEN f ELSE t

LEMMA ThreeSides ==
    ASSUME NEW P, NEW f, NEW t, NEW a \in Seq(P), NEW b \in Seq(P), NEW c \in Seq(P),
           \A j \in 1..Len(b) : b[j] = f, \A j \in 1..Len(c) : c[j] = t
    PROVE  ThreeJoined((a \o b) \o c, a, b, c, f, t, P)
<1> DEFINE s == Len(a)
           e == Len(b)
           l == Len(c)
           all == (a \o b) \o c
           w(j) == IF j <= s THEN a[j] ELSE IF j <= s + e THEN f ELSE t
<1>1. /\ all \in Seq(P) /\ Len(all) = s + e + l
      /\ s \in Nat /\ e \in Nat /\ l \in Nat
      /\ \A j \in 1..s : all[j] = a[j]
      /\ \A j \in 1..e : all[s + j] = b[j]
      /\ \A j \in 1..l : all[s + e + j] = c[j]
  BY ThreeParts
<1>2. /\ \A j \in 1..e : b[j] = f
      /\ \A j \in 1..l : c[j] = t
  OBVIOUS
<1> HIDE DEF all, s, e, l
<1>4. ASSUME NEW j \in 1..(s + e + l) PROVE all[j] = w(j)
  <2>1. CASE j <= s
    <3>1. j \in 1..s
      BY <1>1, <2>1
    <3>. QED
      BY <1>1, <2>1, <3>1
  <2>2. CASE j > s /\ j <= s + e
    <3>1. j - s \in 1..e /\ s + (j - s) = j
      BY <1>1, <2>2
    <3>2. all[j] = f
      BY <1>1, <1>2, <3>1
    <3>3. ~ (j <= s)
      BY <1>1, <2>2
    <3>. QED
      BY <2>2, <3>2, <3>3
  <2>3. CASE j > s + e
    <3>1. j - (s + e) \in 1..l /\ s + e + (j - (s + e)) = j
      BY <1>1, <2>3
    <3>2. all[j] = t
      BY <1>1, <1>2, <3>1
    <3>3. ~ (j <= s) /\ ~ (j <= s + e)
      BY <1>1, <2>3
    <3>. QED
      BY <3>2, <3>3
  <2>. QED
    BY <1>1, <2>1, <2>2, <2>3
<1>. QED
  BY <1>1, <1>4 DEF ThreeJoined, all, w, s, e, l

(***************************************************************************)
(* The sides of a path of own steps inside a peak, one step for the peaks  *)
(* before it if there are any (one more), and one for each later peak.     *)
(***************************************************************************)
PathSides(own, one, later, inner) ==
    [j \in 1..(own + one + later) |->
        IF j <= own THEN Side(inner, 2^(j - 1)) ELSE IF j <= own + one THEN FALSE ELSE TRUE]

One(i) == IF i > 1 THEN 1 ELSE 0

(* The sides that the verifier forces are those of the peak above our leaf. *)
LEMMA SidesAre ==
    ASSUME NEW ps, NEW slot, NEW start, NEW count \in Nat,
           Settled(ps, slot, start, count), NEW index \in Nat, NEW i \in 1..Len(ps),
           start[i] <= index, index < start[i] + 2^slot[i]
    PROVE  Sides(index, count)
             = PathSides(slot[i], One(i), Len(ps) - i, index - start[i])
<1> DEFINE n == Len(ps)
           s == slot[i]
           inner == index - start[i]
           a == [level \in 1..s |-> (inner \div 2^(level - 1)) % 2 = 0]
           b == IF i > 1 THEN <<FALSE>> ELSE <<>>
           c == [j \in 1..(n - i) |-> TRUE]
           all == (a \o b) \o c
<1>1. n \in Nat \ {0} /\ s \in 0..MaxSlot /\ s \in Nat
  BY DEF Settled, Stacked
<1>2. Own(index, count) = s
  BY OwnIsSlot
<1>3. /\ Offset(count, s) = start[i]
      /\ Cardinality({u \in Bits(count) : u < s}) = n - i
      /\ (\E u \in Bits(count) : u > s) <=> i > 1
  <2>1. Offset(count, slot[i]) = start[i]
    BY SlotIsBit
  <2>2. /\ Cardinality({u \in Bits(count) : u < slot[i]}) = Len(ps) - i
        /\ (\E u \in Bits(count) : u > slot[i]) <=> i > 1
    BY LowerBits
  <2>. QED
    BY <2>1, <2>2 DEF s, n
<1>4. Sides(index, count) = all
  <2> DEFINE own == Own(index, count)
             b1 == IF \E u \in Bits(count) : u > own THEN <<FALSE>> ELSE <<>>
             a1 == [level \in 1..own |->
                      ((index - Offset(count, own)) \div 2^(level - 1)) % 2 = 0]
             c1 == [j \in 1..Cardinality({u \in Bits(count) : u < own}) |-> TRUE]
  <2>1. Sides(index, count) = (a1 \o b1) \o c1
    BY DEF Sides
  <2>2. a1 = a
    <3>1. own = s /\ Offset(count, own) = start[i]
      BY <1>2, <1>3
    <3> HIDE DEF own, s
    <3>. QED
      BY <3>1
  <2>3. b1 = b
    <3>1. own = s
      BY <1>2
    <3>2. (\E u \in Bits(count) : u > own) <=> i > 1
      BY <1>3, <3>1
    <3> HIDE DEF own, s
    <3>. QED
      BY <3>2
  <2>4. c1 = c
    <3>1. own = s
      BY <1>2
    <3>2. Cardinality({u \in Bits(count) : u < own}) = n - i
      BY <1>3, <3>1
    <3> HIDE DEF own, s, n
    <3>. QED
      BY <3>2
  <2> HIDE DEF a1, b1, c1, a, b, c
  <2>. QED
    BY <2>1, <2>2, <2>3, <2>4
<1>5. a \in Seq(BOOLEAN) /\ Len(a) = s
  <2> HIDE DEF s, inner
  <2>1. a \in [1..s -> BOOLEAN]
    OBVIOUS
  <2>. QED
    BY <1>1, <2>1
<1>6. \A j \in 1..s : a[j] = Side(inner, 2^(j - 1))
  <2> HIDE DEF inner, s
  <2>. QED
    BY DEF Side, EvenAt
<1>7. b \in Seq(BOOLEAN) /\ Len(b) = One(i) /\ \A j \in 1..Len(b) : b[j] = FALSE
  <2>1. CASE i > 1
    <3>1. b = <<FALSE>> /\ One(i) = 1
      BY <2>1 DEF One
    <3> HIDE DEF b
    <3>2. b \in Seq(BOOLEAN) /\ Len(b) = 1 /\ b[1] = FALSE
      BY <3>1
    <3>3. \A j \in 1..Len(b) : b[j] = FALSE
      <4>1. \A j \in 1..Len(b) : j = 1
        BY <3>2
      <4>. QED
        BY <3>2, <4>1, Zenon
    <3>. QED
      BY <3>1, <3>2, <3>3, Zenon
  <2>2. CASE ~ (i > 1)
    <3>1. b = <<>> /\ One(i) = 0
      BY <2>2 DEF One
    <3> HIDE DEF b
    <3>. QED
      BY <3>1
  <2>. QED
    BY <2>1, <2>2
<1>8. c \in Seq(BOOLEAN) /\ Len(c) = n - i /\ \A j \in 1..Len(c) : c[j] = TRUE
  <2>1. n - i \in Nat
    BY <1>1 DEF n
  <2> DEFINE m == n - i
  <2> HIDE DEF m
  <2>2. c = [j \in 1..m |-> TRUE] /\ m \in Nat
    BY <2>1 DEF m
  <2> HIDE DEF c
  <2>3. c \in [1..m -> BOOLEAN]
    BY <2>2
  <2>4. c \in Seq(BOOLEAN) /\ Len(c) = m
    BY <2>2, <2>3
  <2>. QED
    BY <2>2, <2>4 DEF m
<1> HIDE DEF a, b, c
<1> DEFINE no == FALSE
           yes == TRUE
<1>9. /\ all \in Seq(BOOLEAN)
      /\ Len(all) = Len(a) + Len(b) + Len(c)
      /\ \A j \in 1..(Len(a) + Len(b) + Len(c)) :
           all[j] = IF j <= Len(a) THEN a[j] ELSE IF j <= Len(a) + Len(b) THEN no ELSE yes
  <2>1. a \in Seq(BOOLEAN) /\ b \in Seq(BOOLEAN) /\ c \in Seq(BOOLEAN)
    BY <1>5, <1>7, <1>8
  <2>2. \A j \in 1..Len(b) : b[j] = no
    BY <1>7
  <2>3. \A j \in 1..Len(c) : c[j] = yes
    BY <1>8
  <2> DEFINE P == BOOLEAN
  <2> HIDE DEF no, yes, P
  <2>4. a \in Seq(P) /\ b \in Seq(P) /\ c \in Seq(P)
    BY <2>1 DEF P
  <2>5. ThreeJoined(all, a, b, c, no, yes, P)
    BY <2>2, <2>3, <2>4, ThreeSides
  <2>. QED
    BY <2>5 DEF ThreeJoined, P
<1>10. Len(a) = s /\ Len(b) = One(i) /\ Len(c) = n - i
  BY <1>5, <1>7, <1>8
<1> DEFINE e == One(i)
           l == n - i
<1>11. e \in Nat /\ l \in Nat
  BY <1>1 DEF One
<1> HIDE DEF all, n, s, inner, e, l, no, yes
<1>12. all = [j \in 1..(s + e + l) |->
                IF j <= s THEN a[j] ELSE IF j <= s + e THEN no ELSE yes]
  <2>1. s = Len(a) /\ e = Len(b) /\ l = Len(c)
    BY <1>10 DEF e, l
  <2>2. Len(all) = s + e + l /\ all \in Seq(BOOLEAN)
    BY <1>9, <2>1
  <2>3. all = [j \in 1..(s + e + l) |-> all[j]]
    BY <2>2
  <2>4. \A j \in 1..(s + e + l) :
           all[j] = IF j <= s THEN a[j] ELSE IF j <= s + e THEN no ELSE yes
    BY <1>9, <2>1
  <2> HIDE DEF no, yes
  <2>. QED
    BY <2>3, <2>4
<1>13. ASSUME NEW j \in 1..(s + e + l)
       PROVE  (IF j <= s THEN a[j] ELSE IF j <= s + e THEN no ELSE yes)
                = (IF j <= s THEN Side(inner, 2^(j - 1)) ELSE IF j <= s + e THEN FALSE ELSE TRUE)
  <2>1. j <= s => j \in 1..s
    BY <1>1, <1>11
  <2>2. j <= s => a[j] = Side(inner, 2^(j - 1))
    BY <1>6, <2>1
  <2>. QED
    BY <2>2, Zenon DEF no, yes
<1>14. all = PathSides(s, e, l, inner)
  BY <1>12, <1>13, Zenon DEF PathSides
<1>. QED
  BY <1>4, <1>14 DEF s, e, l, n, inner

(* The sides decide the leaf. *)
LEMMA SidesDiffer ==
    ASSUME NEW ps, NEW slot, NEW start, NEW count \in Nat,
           Settled(ps, slot, start, count),
           NEW x \in Nat, x < count, NEW y \in Nat, y < count,
           Sides(x, count) = Sides(y, count)
    PROVE  x = y
<1> DEFINE n == Len(ps)
<1>1. /\ n \in Nat \ {0} /\ \A i \in 1..n : slot[i] \in 0..MaxSlot /\ start[i] \in Nat
      /\ MaxSlot \in Nat
  BY BlockAssumption DEF Settled, Stacked
<1>2. \A j, k \in 1..n : j < k => slot[j] >= slot[k] + (k - j)
  BY DEF Settled
<1>3. PICK i \in 1..n : start[i] <= x /\ x < start[i] + 2^slot[i]
  BY BelowOne
<1>4. PICK k \in 1..n : start[k] <= y /\ y < start[k] + 2^slot[k]
  BY BelowOne
<1> DEFINE a == PathSides(slot[i], One(i), n - i, x - start[i])
           b == PathSides(slot[k], One(k), n - k, y - start[k])
<1>5. a = b
  <2>1. Sides(x, count) = a
    BY <1>3, SidesAre
  <2>2. Sides(y, count) = b
    BY <1>4, SidesAre
  <2>. QED
    BY <2>1, <2>2
<1> HIDE DEF n
<1>6. slot[i] \in Nat /\ slot[k] \in Nat /\ slot[i] \in 0..MaxSlot /\ slot[k] \in 0..MaxSlot
      /\ start[i] \in Nat /\ start[k] \in Nat
  BY <1>1
<1>7. slot[i] + One(i) + (n - i) = slot[k] + One(k) + (n - k)
  <2> DEFINE p == slot[i] + One(i) + (n - i)
             q == slot[k] + One(k) + (n - k)
  <2>1. p \in Nat /\ q \in Nat
    BY <1>1, <1>6 DEF One
  <2>2. DOMAIN a = 1..p /\ DOMAIN b = 1..q
    BY DEF PathSides
  <2>3. 1..p = 1..q
    BY <1>5, <2>2
  <2> HIDE DEF p, q
  <2>4. p = q
    <3>1. CASE p > q
      <4>1. p \in 1..p /\ p \notin 1..q
        BY <2>1, <3>1
      <4>. QED
        BY <2>3, <4>1
    <3>2. CASE q > p
      <4>1. q \in 1..q /\ q \notin 1..p
        BY <2>1, <3>2
      <4>. QED
        BY <2>3, <4>1
    <3>. QED
      BY <2>1, <3>1, <3>2
  <2>. QED
    BY <2>4 DEF p, q
<1>8. i = k
  <2>1. i < k => slot[i] >= slot[k] + (k - i)
    BY <1>2
  <2>2. k < i => slot[k] >= slot[i] + (i - k)
    BY <1>2
  <2>3. ~ (i < k)
    BY <1>1, <1>6, <1>7, <2>1 DEF One
  <2>4. ~ (k < i)
    BY <1>1, <1>6, <1>7, <2>2 DEF One
  <2>. QED
    BY <1>1, <2>3, <2>4
<1> DEFINE s == slot[i]
           u == x - start[i]
           v == y - start[i]
<1>9. u \in Nat /\ v \in Nat /\ u < 2^s /\ v < 2^s /\ s \in 0..MaxSlot
  <2>1. 2^s \in Nat
    BY <1>6, SlotPowers
  <2>2. start[i] <= y /\ y < start[i] + 2^s
    BY <1>4, <1>8
  <2> HIDE DEF s
  <2>3. start[i] <= x /\ x < start[i] + 2^s /\ s \in 0..MaxSlot
    BY <1>3, <1>6 DEF s
  <2>. QED
    BY <1>6, <2>1, <2>2, <2>3
<1>10. ASSUME NEW j \in 1..s PROVE Side(u, 2^(j - 1)) = Side(v, 2^(j - 1))
  <2> DEFINE e == One(i)
             l == n - i
  <2>1. e \in Nat /\ l \in Nat /\ s \in Nat
    BY <1>1, <1>6 DEF One
  <2>2. PathSides(s, e, l, u) = PathSides(s, e, l, v)
    BY <1>5, <1>8
  <2> HIDE DEF s, u, v, e, l
  <2>3. j \in 1..(s + e + l) /\ j <= s
    BY <2>1
  <2>4. PathSides(s, e, l, u)[j] = Side(u, 2^(j - 1))
    BY <2>3 DEF PathSides
  <2>5. PathSides(s, e, l, v)[j] = Side(v, 2^(j - 1))
    BY <2>3 DEF PathSides
  <2>. QED
    BY <2>2, <2>4, <2>5
<1>11. u = v
  <2> HIDE DEF s, u, v
  <2>. QED
    BY <1>9, <1>10, BitsDecide
<1>. QED
  BY <1>6, <1>11

-----------------------------------------------------------------------------
(* The rest of a sequence after its first m values. *)
LEMMA BackFacts ==
    ASSUME NEW P, NEW s \in Seq(P), NEW m \in Nat, m <= Len(s)
    PROVE  /\ SubSeq(s, m + 1, Len(s)) \in Seq(P) /\ Len(SubSeq(s, m + 1, Len(s))) = Len(s) - m
           /\ \A i \in 1..(Len(s) - m) : SubSeq(s, m + 1, Len(s))[i] = s[m + i]
<1> DEFINE n == Len(s)
           r == SubSeq(s, m + 1, n)
<1>1. n \in Nat /\ n - m \in Nat /\ 1 + n - (m + 1) = n - m
  OBVIOUS
<1>2. r = [i \in 1..(1 + n - (m + 1)) |-> s[i + (m + 1) - 1]]
  OBVIOUS
<1> HIDE DEF r, n
<1>3. r = [i \in 1..(n - m) |-> s[i + (m + 1) - 1]]
  BY <1>1, <1>2
<1>4. \A i \in 1..(n - m) : r[i] = s[m + i] /\ s[m + i] \in P
  <2>1. ASSUME NEW i \in 1..(n - m) PROVE i + (m + 1) - 1 = m + i /\ m + i \in 1..n
    BY <1>1
  <2>. QED
    BY <1>3, <2>1 DEF n
<1>5. r \in [1..(n - m) -> P]
  BY <1>3, <1>4
<1>6. r \in Seq(P) /\ Len(r) = n - m
  <2> DEFINE d == n - m
  <2>1. r = [i \in 1..d |-> s[i + (m + 1) - 1]] /\ r \in [1..d -> P] /\ d \in Nat
    BY <1>1, <1>3, <1>5
  <2> HIDE DEF d
  <2>2. r \in Seq(P) /\ Len(r) = d
    <3>1. DOMAIN r = 1..d
      BY <2>1
    <3>. QED
      BY <2>1, <3>1
  <2>. QED
    BY <2>2 DEF d
<1>. QED
  BY <1>4, <1>6 DEF r, n

(* The root of a front of some peaks is met while theirs is folded.        *)
LEMMA RootFront ==
    ASSUME NEW ps, Len(ps) \in Nat \ {0}, NEW short, Len(short) \in 1..Len(ps),
           \A i \in 1..Len(short) : short[i] = ps[i]
    PROVE  \E turn : /\ turn[1] = ps[1].hash
                     /\ \A i \in 2..Len(ps) : turn[i] = Combine(turn[i - 1], ps[i].hash)
                     /\ TreeRoot(ps) = turn[Len(ps)]
                     /\ turn[Len(short)] = TreeRoot(short)
<1> DEFINE m == Len(short)
<1>1. PICK g : /\ g[1] = ps[1].hash
               /\ \A i \in 2..Len(ps) : g[i] = Combine(g[i - 1], ps[i].hash)
               /\ TreeRoot(ps) = g[Len(ps)]
  BY RootTurns
<1>0. Len(short) \in Nat \ {0}
  OBVIOUS
<1>2. PICK f : /\ f[1] = short[1].hash
               /\ \A i \in 2..Len(short) : f[i] = Combine(f[i - 1], short[i].hash)
               /\ TreeRoot(short) = f[Len(short)]
  BY <1>0, RootTurns
<1> DEFINE S == {i \in Nat : i >= 1 /\ (i <= m => g[i] = f[i])}
<1>3. 1 \in S
  BY <1>0, <1>1, <1>2
<1>4. ASSUME NEW i \in S PROVE i + 1 \in S
  <2>1. i \in Nat /\ i >= 1
    OBVIOUS
  <2>2. ASSUME i + 1 <= m PROVE g[i + 1] = f[i + 1]
    <3>1. g[i] = f[i]
      BY <1>0, <2>1, <2>2
    <3>2. i + 1 \in 2..Len(ps) /\ i + 1 \in 2..Len(short) /\ i + 1 \in 1..Len(short)
          /\ (i + 1) - 1 = i
      BY <1>0, <2>1, <2>2
    <3>3. g[i + 1] = Combine(g[i], ps[i + 1].hash)
      BY <1>1, <3>2
    <3>4. f[i + 1] = Combine(f[i], short[i + 1].hash)
      BY <1>2, <3>2
    <3>5. short[i + 1] = ps[i + 1]
      BY <3>2
    <3>. QED
      BY <3>1, <3>3, <3>4, <3>5
  <2>. QED
    BY <2>1, <2>2
<1>5. m \in S
  <2> HIDE DEF S
  <2>1. 1 \in Nat /\ m \in Nat /\ m >= 1
    BY <1>0
  <2>. QED
    BY <1>3, <1>4, <2>1, CountUp
<1>6. g[m] = f[m]
  BY <1>0, <1>5
<1>. QED
  BY <1>1, <1>2, <1>6

(***************************************************************************)
(* What a path is made of: the steps inside our peak, one step for the     *)
(* peaks before it, a step for each of those after it.                     *)
(***************************************************************************)
PathOf(path, f) ==
    LET n == Len(f.peaks)
        i == f.ours
        k == Len(f.steps)
    IN  /\ Len(path) = k + One(i) + (n - i) /\ k \in Nat
        /\ path = [j \in 1..Len(path) |-> path[j]]
        /\ \A j \in 1..k : path[j] = f.steps[j]
        /\ i > 1 => /\ path[k + 1].hash = TreeRoot(SubSeq(f.peaks, 1, i - 1))
                    /\ path[k + 1].right = FALSE
        /\ \A j \in 1..(n - i) : /\ path[k + One(i) + j].hash = f.peaks[i + j].hash
                                 /\ path[k + One(i) + j].right = TRUE

(* The path extracted for a leaf is made of these parts. *)
LEMMA PathParts ==
    ASSUME NEW H, NEW f, f.peaks \in PeakLists(H), f.ours \in 1..Len(f.peaks),
           NEW G, f.steps \in StepLists(G), NEW ls, NEW index, Followed(ls, index) = f
    PROVE  PathOf(BlockPath(ls, index), f)
<1> DEFINE ps == f.peaks
           i == f.ours
           a == f.steps
           n == Len(ps)
           earlier == SubSeq(ps, 1, i - 1)
           later == SubSeq(ps, i + 1, n)
           root == TreeRoot(earlier)
           K == G \cup H \cup {root}
           P == [hash : K, right : BOOLEAN]
           one == [hash |-> root, right |-> FALSE]
           b == IF earlier = <<>> THEN <<>> ELSE <<one>>
           c == [j \in 1..Len(later) |-> [hash |-> later[j].hash, right |-> TRUE]]
           path == (a \o b) \o c
<1>1. BlockPath(ls, index) = path
  BY DEF BlockPath
<1>2. n \in Nat /\ i \in 1..n /\ i - 1 \in Nat /\ n - i \in Nat /\ i \in Nat
      /\ ps \in Seq([span : Nat, hash : H])
  BY DEF PeakLists
<1> HIDE DEF n, i, ps
<1>3. Len(earlier) = i - 1 /\ (earlier = <<>> <=> i = 1)
  <2>1. i - 1 <= Len(ps)
    BY <1>2 DEF n
  <2>2. earlier \in Seq([span : Nat, hash : H]) /\ Len(earlier) = i - 1
    BY <1>2, <2>1, FrontFacts
  <2> HIDE DEF earlier
  <2>. QED
    BY <1>2, <2>2
<1>4. /\ Len(later) = n - i
      /\ \A j \in 1..(n - i) : later[j] = ps[i + j]
  <2>1. i <= Len(ps)
    BY <1>2 DEF n
  <2>. QED
    BY <1>2, <2>1, BackFacts DEF n
<1> HIDE DEF earlier, later, root
<1>5. a \in Seq(P)
  <2>1. [hash : G, right : BOOLEAN] \subseteq P
    OBVIOUS
  <2>2. a \in Seq([hash : G, right : BOOLEAN])
    BY DEF StepLists
  <2> HIDE DEF P, a
  <2>. QED
    BY <2>1, <2>2, SeqWithin
<1>6. b \in Seq(P) /\ Len(b) = One(i) /\ (i > 1 => b[1] = one)
  <2>1. one \in P
    OBVIOUS
  <2> HIDE DEF P, one
  <2>2. CASE i = 1
    <3>1. b = <<>> /\ One(i) = 0
      BY <1>3, <2>2 DEF One
    <3> HIDE DEF b
    <3>. QED
      BY <2>2, <3>1
  <2>3. CASE i # 1
    <3>1. b = <<one>> /\ One(i) = 1
      BY <1>2, <1>3, <2>3 DEF One
    <3> HIDE DEF b
    <3>. QED
      BY <2>1, <3>1
  <2>. QED
    BY <2>2, <2>3
<1>7. /\ c \in Seq(P) /\ Len(c) = n - i
      /\ \A j \in 1..(n - i) : c[j].hash = ps[i + j].hash /\ c[j].right = TRUE
  <2> DEFINE step(j) == [hash |-> later[j].hash, right |-> TRUE]
  <2>1. ASSUME NEW j \in 1..(n - i)
        PROVE  step(j) \in P /\ step(j).hash = ps[i + j].hash /\ step(j).right = TRUE
    <3>1. i + j \in 1..n
      BY <1>2
    <3>2. ps[i + j] \in [span : Nat, hash : H]
      <4>1. \A m \in 1..Len(ps) : ps[m] \in [span : Nat, hash : H]
        BY <1>2, SeqFacts
      <4>. QED
        BY <3>1, <4>1 DEF n
    <3>3. ps[i + j].hash \in H
      BY <3>2
    <3>4. later[j].hash \in K
      BY <1>4, <3>3
    <3> HIDE DEF K
    <3>5. later[j] = ps[i + j]
      BY <1>4
    <3>. QED
      BY <3>4, <3>5
  <2> HIDE DEF P, step
  <2>2. c = [j \in 1..(n - i) |-> step(j)]
    BY <1>4 DEF step
  <2> HIDE DEF c
  <2>3. c \in [1..(n - i) -> P]
    BY <2>1, <2>2
  <2>4. c \in Seq(P) /\ Len(c) = n - i
    BY <1>2, <2>2, <2>3
  <2>5. ASSUME NEW j \in 1..(n - i) PROVE c[j].hash = ps[i + j].hash /\ c[j].right = TRUE
    BY <2>1, <2>2
  <2>. QED
    BY <2>4, <2>5
<1>8. one.hash = root /\ one.right = FALSE
  OBVIOUS
<1> HIDE DEF a, b, c, P, one
<1>9. /\ path \in Seq(P)
      /\ Len(path) = Len(a) + Len(b) + Len(c)
      /\ Len(a) \in Nat /\ Len(b) \in Nat /\ Len(c) \in Nat
      /\ \A j \in 1..Len(a) : path[j] = a[j]
      /\ \A j \in 1..Len(b) : path[Len(a) + j] = b[j]
      /\ \A j \in 1..Len(c) : path[Len(a) + Len(b) + j] = c[j]
  <2>1. a \in Seq(P) /\ b \in Seq(P) /\ c \in Seq(P)
    BY <1>5, <1>6, <1>7
  <2>. QED
    BY <2>1, ThreeParts
<1> HIDE DEF path
<1>10. path = [j \in 1..Len(path) |-> path[j]]
  BY <1>9
<1> DEFINE k == Len(a)
<1>11. i > 1 => path[k + 1].hash = root /\ path[k + 1].right = FALSE
  <2>1. i > 1 => 1 \in 1..Len(b)
    BY <1>6 DEF One
  <2>2. i > 1 => path[k + 1] = one
    BY <1>6, <1>9, <2>1
  <2>. QED
    BY <1>8, <2>2
<1>12. ASSUME NEW j \in 1..(n - i)
       PROVE  path[k + One(i) + j].hash = ps[i + j].hash /\ path[k + One(i) + j].right = TRUE
  <2>1. path[k + One(i) + j] = c[j]
    BY <1>6, <1>7, <1>9
  <2>. QED
    BY <1>7, <2>1
<1>13. Len(path) = k + One(i) + (n - i) /\ k \in Nat /\ \A j \in 1..k : path[j] = a[j]
  BY <1>6, <1>7, <1>9
<1>14. PathOf(path, f)
  BY <1>10, <1>11, <1>12, <1>13 DEF PathOf, a, i, n, ps, root, earlier
<1>. QED
  BY <1>1, <1>14

-----------------------------------------------------------------------------
Rights(path) == [j \in DOMAIN path |-> path[j].right]

Leads(path, leaf, index, count, root) ==
    Rights(path) = Sides(index, count) /\ FoldPath(leaf, path) = root

(***************************************************************************)
(* The path of a leaf has the sides that its index and the count of leaves *)
(* call for, and folds to the root.                                        *)
(***************************************************************************)
LEMMA PathSettles ==
    ASSUME NEW f, NEW H, f.peaks \in PeakLists(H), NEW slot, NEW start, NEW count \in Nat,
           Settled(f.peaks, slot, start, count), NEW leaf, NEW index \in Nat,
           OnPath(f, slot, start, leaf, index), NEW path, PathOf(path, f)
    PROVE  Leads(path, leaf, index, count, TreeRoot(f.peaks))
<1> DEFINE ps == f.peaks
           n == Len(ps)
           i == f.ours
           k == Len(f.steps)
           e == One(i)
           l == n - i
           inner == index - start[i]
           earlier == SubSeq(ps, 1, i - 1)
<1>1. /\ Len(path) = k + e + l /\ k \in Nat
      /\ path = [j \in 1..Len(path) |-> path[j]]
      /\ \A j \in 1..k : path[j] = f.steps[j]
  BY DEF PathOf
<1>2. /\ i > 1 => path[k + 1].hash = TreeRoot(earlier) /\ path[k + 1].right = FALSE
      /\ \A j \in 1..l : path[k + e + j].hash = ps[i + j].hash /\ path[k + e + j].right = TRUE
  BY DEF PathOf
<1>3. /\ i \in 1..n /\ k = slot[i]
      /\ start[i] <= index /\ index < start[i] + 2^slot[i]
      /\ \A j \in 1..k : f.steps[j].right = Side(inner, 2^(j - 1))
      /\ FoldPath(leaf, f.steps) = ps[i].hash
  BY DEF OnPath
<1>4. n \in Nat \ {0} /\ i \in Nat /\ l \in Nat /\ e \in {0, 1}
  <2>1. n \in Nat \ {0}
    BY DEF Settled, Stacked
  <2> HIDE DEF n, i
  <2>. QED
    BY <1>3, <2>1 DEF One
<1>10. ps \in Seq([span : Nat, hash : H])
  BY DEF PeakLists
<1>5. Sides(index, count) = PathSides(k, e, l, inner)
  <2>1. Sides(index, count) = PathSides(slot[i], One(i), Len(ps) - i, index - start[i])
    <3>1. /\ Settled(ps, slot, start, count) /\ i \in 1..Len(ps)
          /\ start[i] <= index /\ index < start[i] + 2^slot[i]
      BY <1>3
    <3> HIDE DEF ps, i
    <3>. QED
      BY <3>1, SidesAre
  <2>. QED
    BY <1>3, <2>1
<1> HIDE DEF ps, n, i, k, e, l, inner, earlier
<1>6. DOMAIN path = 1..(k + e + l)
  BY <1>1
<1>7. ASSUME NEW j \in 1..(k + e + l)
      PROVE  path[j].right = IF j <= k THEN Side(inner, 2^(j - 1))
                             ELSE IF j <= k + e THEN FALSE ELSE TRUE
  <2>1. CASE j <= k
    <3>1. j \in 1..k
      BY <1>1, <2>1
    <3>2. path[j].right = Side(inner, 2^(j - 1))
      BY <1>1, <1>3, <3>1
    <3>. QED
      BY <2>1, <3>2, Zenon
  <2>2. CASE j > k /\ j <= k + e
    <3>1. j = k + 1 /\ i > 1 /\ ~ (j <= k)
      BY <1>1, <1>4, <2>2 DEF e, One
    <3>2. path[j].right = FALSE
      BY <1>2, <3>1
    <3>. QED
      BY <2>2, <3>1, <3>2, Zenon
  <2>3. CASE j > k + e
    <3>1. j - (k + e) \in 1..l /\ k + e + (j - (k + e)) = j /\ ~ (j <= k) /\ ~ (j <= k + e)
      BY <1>1, <1>4, <2>3
    <3>2. path[j].right = TRUE
      BY <1>2, <3>1
    <3>. QED
      BY <3>1, <3>2, Zenon
  <2>4. j <= k \/ (j > k /\ j <= k + e) \/ j > k + e
    BY <1>1, <1>4
  <2>. QED
    BY <2>1, <2>2, <2>3, <2>4, Zenon
<1>8. Rights(path) = PathSides(k, e, l, inner)
  BY <1>6, <1>7, Zenon DEF PathSides, Rights
<1>9. FoldPath(leaf, path) = TreeRoot(ps)
  <2>1. PICK turn : /\ turn[k] = ps[i].hash
                    /\ \A j \in 1..Len(path) : turn[j] = Hop(turn[j - 1], path[j])
                    /\ FoldPath(leaf, path) = turn[Len(path)]
    <3> DEFINE short == f.steps
    <3>1. Begins(path, short)
      BY <1>1, <1>4 DEF k, Begins
    <3>2. FoldPath(leaf, short) = ps[i].hash
      BY <1>3
    <3> HIDE DEF short
    <3>3. \E turn : /\ turn[Len(short)] = FoldPath(leaf, short)
                    /\ \A j \in 1..Len(path) : turn[j] = Hop(turn[j - 1], path[j])
                    /\ FoldPath(leaf, path) = turn[Len(path)]
      BY <3>1, FoldFront
    <3>. QED
      BY <3>2, <3>3 DEF k, short
  <2>2. \E r : /\ r[1] = ps[1].hash
               /\ \A j \in 2..n : r[j] = Combine(r[j - 1], ps[j].hash)
               /\ TreeRoot(ps) = r[n]
               /\ i > 1 => r[i - 1] = TreeRoot(earlier)
    <3>1. CASE i > 1
      <4>1. i - 1 \in Nat /\ i - 1 <= Len(ps) /\ i - 1 \in 1..Len(ps)
        BY <1>3, <1>4, <3>1 DEF n
      <4>2. /\ Len(earlier) = i - 1
            /\ \A j \in 1..(i - 1) : earlier[j] = ps[j]
        BY <1>10, <4>1, FrontFacts DEF earlier
      <4>3. Len(ps) \in Nat \ {0} /\ Len(earlier) \in 1..Len(ps)
        BY <1>4, <4>1, <4>2 DEF n
      <4>4. \A j \in 1..Len(earlier) : earlier[j] = ps[j]
        BY <4>2
      <4>5. \E r : /\ r[1] = ps[1].hash
                   /\ \A j \in 2..Len(ps) : r[j] = Combine(r[j - 1], ps[j].hash)
                   /\ TreeRoot(ps) = r[Len(ps)]
                   /\ r[Len(earlier)] = TreeRoot(earlier)
        BY <4>3, <4>4, RootFront
      <4>. QED
        BY <4>2, <4>5 DEF n
    <3>2. CASE ~ (i > 1)
      BY <1>4, <3>2, RootTurns DEF n
    <3>. QED
      BY <3>1, <3>2
  <2>3. PICK r : /\ r[1] = ps[1].hash
                 /\ \A j \in 2..n : r[j] = Combine(r[j - 1], ps[j].hash)
                 /\ TreeRoot(ps) = r[n]
                 /\ i > 1 => r[i - 1] = TreeRoot(earlier)
    BY <2>2
  <2>4. turn[k + e] = r[i]
    <3>1. CASE i = 1
      BY <1>1, <2>1, <2>3, <3>1 DEF e, One
    <3>2. CASE i > 1
      <4>1. e = 1 /\ k + 1 \in 1..Len(path) /\ (k + 1) - 1 = k /\ i \in 2..n
        <5>1. e = 1
          BY <3>2 DEF e, One
        <5>2. Len(path) = k + 1 + l /\ k \in Nat /\ l \in Nat
          BY <1>1, <1>4, <5>1
        <5>3. k + 1 \in 1..Len(path) /\ (k + 1) - 1 = k
          BY <5>2
        <5>4. i \in 2..n
          BY <1>3, <1>4, <3>2
        <5>. QED
          BY <5>1, <5>3, <5>4
      <4>2. turn[k + 1] = Hop(turn[k], path[k + 1])
        BY <2>1, <4>1
      <4>3. turn[k + 1] = Combine(TreeRoot(earlier), ps[i].hash)
        BY <1>2, <2>1, <3>2, <4>2 DEF Hop
      <4>4. r[i] = Combine(TreeRoot(earlier), ps[i].hash)
        BY <2>3, <3>2, <4>1
      <4>. QED
        BY <4>1, <4>3, <4>4
    <3>. QED
      BY <1>3, <1>4, <3>1, <3>2
  <2> DEFINE S == {j \in Nat : j <= l => turn[k + e + j] = r[i + j]}
  <2>5. 0 \in S
    BY <1>1, <1>4, <2>4
  <2>6. ASSUME NEW j \in S PROVE j + 1 \in S
    <3>1. j \in Nat
      OBVIOUS
    <3>2. ASSUME j + 1 <= l PROVE turn[k + e + (j + 1)] = r[i + (j + 1)]
      <4>1. turn[k + e + j] = r[i + j]
        BY <1>4, <3>1, <3>2
      <4>0. n = i + l /\ e \in Nat /\ i >= 1 /\ n \in Nat
        BY <1>3, <1>4 DEF l
      <4>6. k + e + (j + 1) \in 1..Len(path) /\ (k + e + (j + 1)) - 1 = k + e + j
        <5>1. Len(path) = k + e + l /\ k \in Nat /\ e \in Nat /\ l \in Nat
          BY <1>1, <1>4, <4>0
        <5> DEFINE m == k + e
        <5>2. m \in Nat /\ Len(path) = m + l
          BY <5>1
        <5> HIDE DEF m
        <5>3. m + (j + 1) \in 1..Len(path) /\ (m + (j + 1)) - 1 = m + j
          BY <3>1, <3>2, <5>1, <5>2
        <5>. QED
          BY <5>3 DEF m
      <4>7. i + (j + 1) \in 2..n /\ (i + (j + 1)) - 1 = i + j /\ j + 1 \in 1..l
        BY <1>4, <3>1, <3>2, <4>0
      <4>2. /\ k + e + (j + 1) \in 1..Len(path) /\ (k + e + (j + 1)) - 1 = k + e + j
            /\ i + (j + 1) \in 2..n /\ (i + (j + 1)) - 1 = i + j /\ j + 1 \in 1..l
        BY <4>6, <4>7
      <4>3. turn[k + e + (j + 1)] = Hop(turn[k + e + j], path[k + e + (j + 1)])
        BY <2>1, <4>2
      <4>4. turn[k + e + (j + 1)] = Combine(turn[k + e + j], ps[i + (j + 1)].hash)
        BY <1>2, <4>2, <4>3 DEF Hop
      <4>5. r[i + (j + 1)] = Combine(r[i + j], ps[i + (j + 1)].hash)
        BY <2>3, <4>2
      <4>. QED
        BY <4>1, <4>4, <4>5
    <3>. QED
      BY <3>1, <3>2
  <2>7. l \in S
    <3> HIDE DEF S
    <3>. QED
      BY <1>4, <2>5, <2>6, CountUp
  <2>8. turn[k + e + l] = r[i + l] /\ i + l = n
    BY <1>3, <1>4, <2>7 DEF l
  <2>. QED
    BY <1>1, <2>1, <2>3, <2>8
<1>. QED
  BY <1>5, <1>8, <1>9 DEF ps, Leads

-----------------------------------------------------------------------------
(***************************************************************************)
(* What is followed of a leaf before any leaf is appended, and after one   *)
(* more.                                                                   *)
(***************************************************************************)
LEMMA FollowedNone ==
    ASSUME NEW index
    PROVE  Followed(<<>>, index) = [peaks |-> <<>>, ours |-> 0, steps |-> <<>>]
<1> DEFINE ls == <<>>
<1>1. Len(ls) = 0 /\ Len(ls) \in Nat
  OBVIOUS
<1> HIDE DEF ls
<1>2. \E turn : /\ turn[0] = [peaks |-> <<>>, ours |-> 0, steps |-> <<>>]
                /\ \A i \in 1..Len(ls) : turn[i] = FollowLeaf(turn[i - 1], ls[i], i = index + 1)
                /\ Followed(ls, index) = turn[Len(ls)]
  BY <1>1, FollowedTurns
<1>. QED
  BY <1>1, <1>2 DEF ls

LEMMA FollowedMore ==
    ASSUME NEW L, NEW ls \in Seq(L), NEW leaf \in L, NEW index
    PROVE  Followed(Append(ls, leaf), index)
             = FollowLeaf(Followed(ls, index), leaf, Len(ls) + 1 = index + 1)
<1> DEFINE n == Len(ls)
           more == Append(ls, leaf)
<1>1. /\ Len(ls) \in Nat /\ Len(more) = Len(ls) + 1 /\ Len(more) \in Nat
      /\ more[Len(ls) + 1] = leaf /\ \A i \in 1..Len(ls) : more[i] = ls[i]
  OBVIOUS
<1> HIDE DEF more
<1>2. PICK f : /\ f[0] = [peaks |-> <<>>, ours |-> 0, steps |-> <<>>]
               /\ \A i \in 1..Len(ls) : f[i] = FollowLeaf(f[i - 1], ls[i], i = index + 1)
               /\ Followed(ls, index) = f[Len(ls)]
  BY <1>1, FollowedTurns
<1>3. PICK g : /\ g[0] = [peaks |-> <<>>, ours |-> 0, steps |-> <<>>]
               /\ \A i \in 1..Len(more) : g[i] = FollowLeaf(g[i - 1], more[i], i = index + 1)
               /\ Followed(more, index) = g[Len(more)]
  BY <1>1, FollowedTurns
<1> DEFINE S == {i \in Nat : i <= n => g[i] = f[i]}
<1>4. 0 \in S
  BY <1>2, <1>3
<1>5. ASSUME NEW i \in S PROVE i + 1 \in S
  <2>1. i \in Nat
    OBVIOUS
  <2>2. ASSUME i + 1 <= n PROVE g[i + 1] = f[i + 1]
    <3>1. g[i] = f[i]
      BY <1>1, <2>1, <2>2
    <3>2. i + 1 \in 1..Len(ls) /\ i + 1 \in 1..Len(more) /\ (i + 1) - 1 = i
      BY <1>1, <2>1, <2>2
    <3>3. g[i + 1] = FollowLeaf(g[i], more[i + 1], i + 1 = index + 1)
      BY <1>3, <3>2
    <3>4. f[i + 1] = FollowLeaf(f[i], ls[i + 1], i + 1 = index + 1)
      BY <1>2, <3>2
    <3>5. more[i + 1] = ls[i + 1]
      BY <1>1, <3>2
    <3>. QED
      BY <3>1, <3>3, <3>4, <3>5
  <2>. QED
    BY <2>1, <2>2
<1>6. n \in S
  <2> HIDE DEF S
  <2>. QED
    BY <1>1, <1>4, <1>5, CountUp
<1>7. g[n] = f[n]
  BY <1>1, <1>6
<1>8. n + 1 \in 1..Len(more) /\ (n + 1) - 1 = n
  BY <1>1
<1>9. g[n + 1] = FollowLeaf(g[n], more[n + 1], n + 1 = index + 1)
  BY <1>3, <1>8
<1>. QED
  BY <1>1, <1>2, <1>3, <1>7, <1>9 DEF more

(* A leaf that is tracked verifies at its own index and at no other. *)
LEMMA PathBinds ==
    ASSUME NEW ls, NEW count \in Nat, Len(ls) = count, NEW index \in Nat, index < count,
           Tracked(Followed(ls, index), ls, index), NEW claimed \in Nat, claimed < count
    PROVE  FoldBlockPath(ls[index + 1], claimed, count, BlockPath(ls, index))
             = IF claimed = index THEN TreeRoot(Followed(ls, index).peaks) ELSE InvalidPath
<1> DEFINE f == Followed(ls, index)
           path == BlockPath(ls, index)
           leaf == ls[index + 1]
<1>1. f = Followed(ls, index)
  OBVIOUS
<1>2. path = BlockPath(ls, index)
  OBVIOUS
<1>3. Tracked(f, ls, index)
  OBVIOUS
<1> HIDE DEF f, path, leaf
<1>4. PICK H : f.peaks \in PeakLists(H)
  BY <1>3 DEF Tracked
<1>5. Len(f.peaks) > 0
  <2>1. Len(f.peaks) \in Nat /\ Len(f.peaks) # 0
    <3>1. Len(f.peaks) \in Nat
      BY <1>4 DEF PeakLists
    <3>2. Len(f.peaks) = 0 => Len(ls) = 0
      BY <1>3 DEF Tracked
    <3>. QED
      BY <3>1, <3>2
  <2>. QED
    BY <2>1
<1>6. PICK slot, start : /\ Settled(f.peaks, slot, start, count)
                         /\ OnPath(f, slot, start, leaf, index)
  <2>1. \E slot, start :
           /\ Len(f.peaks) > 0 => Settled(f.peaks, slot, start, Len(ls))
           /\ index < Len(ls) => OnPath(f, slot, start, ls[index + 1], index)
    BY <1>3 DEF Tracked
  <2>. QED
    BY <1>5, <2>1 DEF leaf
<1>7. PathOf(path, f)
  <2>1. f.ours \in 1..Len(f.peaks)
    BY <1>6 DEF OnPath
  <2>2. PICK G : f.steps \in StepLists(G)
    BY <1>6 DEF OnPath
  <2>3. PathOf(BlockPath(ls, index), f)
    BY <1>1, <1>4, <2>1, <2>2, PathParts
  <2>. QED
    BY <1>2, <2>3
<1>8. /\ Rights(path) = Sides(index, count)
      /\ FoldPath(leaf, path) = TreeRoot(f.peaks)
  <2>1. Settled(f.peaks, slot, start, count)
    BY <1>6
  <2>2. OnPath(f, slot, start, leaf, index)
    BY <1>6
  <2>3. Leads(path, leaf, index, count, TreeRoot(f.peaks))
    BY <1>4, <1>7, <2>1, <2>2, PathSettles
  <2>. QED
    BY <2>3 DEF Leads
<1>9. ~ (count = 0 \/ claimed >= count)
  OBVIOUS
<1>10. CASE claimed = index
  <2>1. FoldBlockPath(leaf, index, count, path) = FoldPath(leaf, path)
    BY <1>8, <1>9, <1>10 DEF FoldBlockPath, Rights
  <2>. QED
    BY <1>1, <1>2, <1>8, <1>10, <2>1 DEF leaf
<1>11. CASE claimed # index
  <2>1. Sides(claimed, count) # Sides(index, count)
    BY <1>6, <1>11, SidesDiffer
  <2>2. FoldBlockPath(leaf, claimed, count, path) = InvalidPath
    BY <1>8, <1>9, <2>1 DEF FoldBlockPath, Rights
  <2>. QED
    BY <1>2, <1>11, <2>2 DEF leaf
<1>. QED
  BY <1>10, <1>11
-----------------------------------------------------------------------------
(***************************************************************************)
(* Traced: whichever leaf is followed through the reduction, what is held  *)
(* of it leads from that leaf to its peak, and its peaks are the tree's.   *)
(***************************************************************************)
Traced(ls, ps) ==
    \A index \in Nat : /\ Tracked(Followed(ls, index), ls, index)
                       /\ Followed(ls, index).peaks = ps

Bounded ==
    /\ Len(leaves) + (IF block_open THEN 1 ELSE 0) <= Len(records)
    /\ Len(records) <= MaxRecords

PathInv == BlockInv /\ Bounded /\ Traced(leaves, peaks)

(***************************************************************************)
(* No leaf is followed wrongly at the start, and a leaf appended keeps it  *)
(* so.                                                                     *)
(***************************************************************************)
LEMMA TracedNone == Traced(<<>>, <<>>)
<1> DEFINE f == [peaks |-> <<>>, ours |-> 0, steps |-> <<>>]
           ls == <<>>
<1>1. f.peaks = <<>> /\ f.ours = 0 /\ f.steps = <<>>
  OBVIOUS
<1>2. Len(<<>>) = 0
  OBVIOUS
<1>5. Len(ls) = 0
  BY <1>2
<1> HIDE DEF f, ls
<1>3. ASSUME NEW index \in Nat PROVE Tracked(f, ls, index)
  <2>1. \E H : f.peaks \in PeakLists(H)
    <3>1. f.peaks \in PeakLists({})
      BY <1>1 DEF PeakLists
    <3>. QED
      BY <3>1
  <2>2. Len(f.peaks) = 0 /\ ~ (Len(f.peaks) > 0)
    BY <1>1, <1>2
  <2>3. ~ (index < Len(ls))
    BY <1>5
  <2>. QED
    BY <1>1, <1>5, <2>1, <2>2, <2>3 DEF Tracked
<1>4. \A index \in Nat : Followed(<<>>, index) = f
  BY FollowedNone DEF f
<1>. QED
  BY <1>1, <1>3, <1>4 DEF Traced, ls

LEMMA TracedMore ==
    ASSUME NEW L, NEW ls \in Seq(L), NEW leaf \in L, NEW ps, Traced(ls, ps),
           Len(ls) + 1 <= MaxRecords
    PROVE  Traced(Append(ls, leaf), AppendLeaf(ps, leaf))
<1>1. SUFFICES ASSUME NEW index \in Nat
               PROVE  /\ Tracked(Followed(Append(ls, leaf), index), Append(ls, leaf), index)
                      /\ Followed(Append(ls, leaf), index).peaks = AppendLeaf(ps, leaf)
  BY DEF Traced
<1> DEFINE f == Followed(ls, index)
<1>2. Tracked(f, ls, index) /\ f.peaks = ps
  BY DEF Traced
<1>3. Followed(Append(ls, leaf), index) = FollowLeaf(f, leaf, Len(ls) + 1 = index + 1)
  BY FollowedMore
<1> HIDE DEF f
<1>4. /\ Tracked(FollowLeaf(f, leaf, Len(ls) + 1 = index + 1), Append(ls, leaf), index)
      /\ FollowLeaf(f, leaf, Len(ls) + 1 = index + 1).peaks = AppendLeaf(f.peaks, leaf)
  BY <1>2, LeafFollows
<1>. QED
  BY <1>2, <1>3, <1>4

(* One leaf more, of any shape. *)
LEMMA TracedLeaf ==
    ASSUME BlockTypes, Traced(leaves, peaks), Len(leaves) + 1 <= MaxRecords, NEW leaf
    PROVE  Traced(Append(leaves, leaf), AppendLeaf(peaks, leaf))
<1>1. PICK L : leaves \in Seq(L)
  BY DEF BlockTypes
<1> DEFINE M == L \cup {leaf}
<1>2. leaves \in Seq(M) /\ leaf \in M
  <2>1. L \subseteq M /\ leaf \in M
    OBVIOUS
  <2> HIDE DEF M
  <2>. QED
    BY <1>1, <2>1, SeqWithin
<1> HIDE DEF M
<1>. QED
  BY <1>2, TracedMore

(* The tree starts traced, and each record keeps it so. *)
LEMMA PathInvInit == BlockInit => PathInv
<1> SUFFICES ASSUME BlockInit PROVE PathInv
  OBVIOUS
<1>1. BlockInv
  BY BlockInvInit
<1>2. leaves = <<>> /\ peaks = <<>> /\ records = <<>> /\ block_open = FALSE
  BY DEF BlockInit
<1>3. Traced(leaves, peaks)
  BY <1>2, TracedNone
<1>4. Bounded
  <2>1. Len(leaves) = 0 /\ Len(records) = 0
    BY <1>2
  <2>. QED
    BY <1>2, <2>1, BlockAssumption DEF Bounded
<1>. QED
  BY <1>1, <1>3, <1>4 DEF PathInv

LEMMA PathInvNext == PathInv /\ [BlockNext]_blockVars => PathInv'
<1> SUFFICES ASSUME PathInv, [BlockNext]_blockVars PROVE PathInv'
  OBVIOUS
<1>1. BlockInv /\ Bounded /\ Traced(leaves, peaks) /\ BlockTypes
  BY DEF PathInv, BlockInv
<1>2. BlockInv'
  BY <1>1, BlockInvNext
<1>3. ASSUME NEW size \in FrameSizes, AppendRecord(size)
      PROVE  Bounded' /\ Traced(leaves', peaks')
  <2>1. /\ Len(records) < MaxRecords /\ records' = Append(records, size)
        /\ IF Full(block_bytes')
           THEN block_open' = FALSE /\ CloseBlock
           ELSE block_open' = TRUE /\ UNCHANGED <<leaves, peaks>>
    BY <1>3 DEF AppendRecord
  <2>2. /\ Len(records) \in Nat /\ Len(records') = Len(records) + 1 /\ MaxRecords \in Nat
        /\ Len(leaves) \in Nat
    <3>1. Len(records) \in Nat /\ Len(records') = Len(records) + 1
      BY <1>1, <2>1 DEF BlockTypes
    <3>2. PICK L : leaves \in Seq(L)
      BY <1>1 DEF BlockTypes
    <3>. QED
      BY <3>1, <3>2, BlockAssumption
  <2>3. Len(leaves) <= Len(records)
    BY <1>1, <2>2 DEF Bounded
  <2>4. CASE Full(block_bytes')
    <3> DEFINE leaf == BlockHash(Len(leaves), block')
    <3>1. /\ block_open' = FALSE /\ leaves' = Append(leaves, leaf)
          /\ peaks' = AppendLeaf(peaks, leaf)
      BY <2>1, <2>4 DEF CloseBlock
    <3> HIDE DEF leaf
    <3>2. Len(leaves) + 1 <= MaxRecords
      BY <2>1, <2>2, <2>3
    <3>3. Traced(leaves', peaks')
      BY <1>1, <3>1, <3>2, TracedLeaf
    <3>4. Len(Append(leaves, leaf)) = Len(leaves) + 1
      BY <1>1, LeafAppended DEF BlockInv
    <3>5. Bounded'
      BY <2>1, <2>2, <2>3, <3>1, <3>4 DEF Bounded
    <3>. QED
      BY <3>3, <3>5
  <2>5. CASE ~ Full(block_bytes')
    <3>1. block_open' = TRUE /\ leaves' = leaves /\ peaks' = peaks
      BY <2>1, <2>5
    <3>. QED
      BY <1>1, <2>1, <2>2, <2>3, <3>1 DEF Bounded
  <2>. QED
    BY <2>4, <2>5
<1>4. ASSUME UNCHANGED blockVars PROVE Bounded' /\ Traced(leaves', peaks')
  BY <1>1, <1>4 DEF blockVars, Bounded
<1>5. Bounded' /\ Traced(leaves', peaks')
  BY <1>3, <1>4 DEF BlockNext
<1>. QED
  BY <1>2, <1>5 DEF PathInv

(* A traced tree binds each path to its index. *)
LEMMA InvBinds == PathInv => PathsBindTheIndex
<1> SUFFICES ASSUME PathInv PROVE PathsBindTheIndex
  OBVIOUS
<1>1. BlockTypes /\ Bounded /\ Traced(leaves, peaks) /\ Reduced
  BY DEF PathInv, BlockInv
<1>2. Len(leaves) \in Nat /\ Len(records) \in Nat /\ MaxRecords \in Nat
  <2>1. PICK L : leaves \in Seq(L)
    BY <1>1 DEF BlockTypes
  <2>. QED
    BY <1>1, <2>1, BlockAssumption DEF BlockTypes
<1>3. Traced(AllLeaves, Closed(peaks)) /\ Len(AllLeaves) = LeafCount /\ LeafCount \in Nat
  <2>1. CASE block_open
    <3> DEFINE leaf == BlockHash(Len(leaves), block)
    <3>1. /\ AllLeaves = Append(leaves, leaf) /\ Closed(peaks) = AppendLeaf(peaks, leaf)
          /\ LeafCount = Len(leaves) + 1
      BY <2>1 DEF AllLeaves, Closed, LeafCount
    <3> HIDE DEF leaf
    <3>2. Len(leaves) + 1 <= MaxRecords
      BY <1>1, <1>2, <2>1 DEF Bounded
    <3>3. Traced(AllLeaves, Closed(peaks))
      BY <1>1, <3>1, <3>2, TracedLeaf
    <3>4. Len(AllLeaves) = Len(leaves) + 1
      BY <1>1, <3>1, LeafAppended
    <3>. QED
      BY <1>2, <3>1, <3>3, <3>4
  <2>2. CASE ~ block_open
    <3>1. AllLeaves = leaves /\ Closed(peaks) = peaks /\ LeafCount = Len(leaves)
      BY <1>2, <2>2 DEF AllLeaves, Closed, LeafCount
    <3>. QED
      BY <1>1, <1>2, <3>1
  <2>. QED
    BY <2>1, <2>2
<1>4. ASSUME NEW index \in 0..(LeafCount - 1), NEW claimed \in 0..(LeafCount - 1)
      PROVE  Verified(index, claimed)
               = IF claimed = index THEN TreeRoot(Closed(peaks)) ELSE InvalidPath
  <2> DEFINE ls == AllLeaves
             count == LeafCount
  <2>1. /\ Len(ls) = count /\ count \in Nat
        /\ index \in Nat /\ index < count /\ claimed \in Nat /\ claimed < count
    BY <1>3
  <2>2. /\ Tracked(Followed(ls, index), ls, index)
        /\ Followed(ls, index).peaks = Closed(peaks)
    BY <1>3, <2>1 DEF Traced
  <2> HIDE DEF ls, count
  <2>3. FoldBlockPath(ls[index + 1], claimed, count, BlockPath(ls, index))
          = IF claimed = index THEN TreeRoot(Followed(ls, index).peaks) ELSE InvalidPath
    BY <2>1, <2>2, PathBinds
  <2>. QED
    BY <2>2, <2>3 DEF Verified, ls, count
<1>. QED
  BY <1>4 DEF PathsBindTheIndex

(***************************************************************************)
(* For any sizes of records, any target and any number of blocks, the path *)
(* of each block verifies at its own index and at no other.                *)
(***************************************************************************)
THEOREM BlockSpecPathsBindTheIndex == BlockSpec => []PathsBindTheIndex
<1>1. BlockInit => PathInv
  BY PathInvInit
<1>2. PathInv /\ [BlockNext]_blockVars => PathInv'
  BY PathInvNext
<1>3. PathInv => PathsBindTheIndex
  BY InvBinds
<1>. QED
  BY <1>1, <1>2, <1>3, PTL DEF BlockSpec

=============================================================================

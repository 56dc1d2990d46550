----------------------------- MODULE Toolchain -----------------------------
(***************************************************************************)
(* The schema tool, src/tools/capnp_tool.py: bootstrap installs a pinned   *)
(* compiler package, gen regenerates the checked-in bindings from the      *)
(* schemas, check tells whether they have drifted.  Every call is a        *)
(* process of its own; they share the package, the cached generator, the   *)
(* schemas and the outputs, and there is no lock.  A process may fail or   *)
(* be killed at any step, and the machine may lose power: nothing here is  *)
(* synced, so any file may be torn afterwards.                             *)
(*                                                                         *)
(* A file's content is the version it was made from.                       *)
(***************************************************************************)
EXTENDS Integers, FiniteSets

CONSTANTS Procs,      \* calls of the tool that may run at the same time
          Outputs,    \* the generated files
          MaxRuns,    \* bound: calls
          MaxFaults,  \* bound: kills, failed writes and losses of power
          MaxEdits    \* bound: edits of the schemas and of the outputs

ASSUME ToolchainAssumption ==
    /\ MaxRuns \in Nat /\ MaxFaults \in Nat /\ MaxEdits \in Nat

VARIABLES package,   \* what is at the package's path
          binary,    \* the cached generator
          stamp,     \* and the digest beside it
          schema,    \* the version of the schema sources
          outputs,   \* per generated file, the version it was made from
          abandoned, \* temporary files were left beside the outputs
          owned,     \* the outputs' directory belongs to the tool
          runs, faults, edits

VARIABLES pc, op,    \* per process, where it is and what it was asked
          held,      \* the archive, generator or digest it has in hand
          version,   \* the schema version it generated from
          compared,  \* the outputs it has compared
          changed,   \* those it found different and has not replaced
          dirty      \* history: schemas or outputs changed under it

shared == <<package, binary, stamp, schema, outputs, abandoned, owned>>
counts == <<runs, faults, edits>>
local == <<pc, op, held, version, compared, changed, dirty>>

toolVars == <<shared, counts, local>>

(* The content of an output that a loss of power tore, or a hand edited.   *)
TornOutput == -1

EditedOutput == -2

Ops == {"bootstrap", "gen", "check"}

Done == {"idle", "ok", "failed"}

Places ==
    Done \cup {"installed?", "fetch", "unpacked", "install"}
         \cup {"verify", "cached?", "stamp?", "build", "replace", "digest", "stamp"}
         \cup {"snapshot", "generate", "compare", "write", "swap"}

-----------------------------------------------------------------------------
ToolchainInit ==
    /\ package = "missing" /\ binary = "none" /\ stamp = "none"
    /\ schema = 1 /\ outputs = [o \in Outputs |-> 1]
    /\ abandoned = FALSE /\ owned \in BOOLEAN
    /\ runs = 0 /\ faults = 0 /\ edits = 0
    /\ pc = [p \in Procs |-> "idle"] /\ op = [p \in Procs |-> "check"]
    /\ held = [p \in Procs |-> "none"] /\ version = [p \in Procs |-> 0]
    /\ compared = [p \in Procs |-> {}] /\ changed = [p \in Procs |-> {}]
    /\ dirty = [p \in Procs |-> FALSE]

Goto(p, label) == pc' = [pc EXCEPT ![p] = label]

Hold(p, value) == held' = [held EXCEPT ![p] = value]

(* Everybody else's view of the schemas and the outputs is old. *)
Disturb(others) == dirty' = [p \in Procs |-> dirty[p] \/ p \in others]

(* What a step of the part before publish leaves alone. *)
NotPublishing ==
    UNCHANGED <<schema, outputs, abandoned, owned, counts, op, version,
                compared, changed, dirty>>

Call(p, operation) ==
    /\ pc[p] \in Done /\ runs < MaxRuns
    /\ runs' = runs + 1
    /\ op' = [op EXCEPT ![p] = operation]
    /\ Goto(p, IF operation = "bootstrap" THEN "installed?" ELSE "verify")
    /\ Hold(p, "none")
    /\ version' = [version EXCEPT ![p] = 0]
    /\ compared' = [compared EXCEPT ![p] = {}]
    /\ changed' = [changed EXCEPT ![p] = {}]
    /\ dirty' = [dirty EXCEPT ![p] = FALSE]
    /\ UNCHANGED <<shared, faults, edits>>

-----------------------------------------------------------------------------
(* bootstrap.  What is installed is verified and never replaced.           *)
CheckInstalled(p) ==
    /\ pc[p] = "installed?"
    /\ Goto(p, CASE package = "missing" -> "fetch"
                 [] package = "pinned"  -> "ok"
                 [] OTHER               -> "failed")
    /\ UNCHANGED <<package, binary, stamp, held>> /\ NotPublishing

(* An archive with another digest is refused; one with the right digest    *)
(* may still not be the package that the rest of the lock file describes.  *)
Fetch(p) ==
    /\ pc[p] = "fetch"
    /\ \/ Hold(p, "pinned") /\ Goto(p, "unpacked")
       \/ Hold(p, "other") /\ Goto(p, "unpacked")
       \/ Hold(p, "none") /\ Goto(p, "failed")
    /\ UNCHANGED <<package, binary, stamp>> /\ NotPublishing

VerifyNothing(p) ==
    /\ pc[p] = "unpacked"
    /\ Goto(p, "install")
    /\ UNCHANGED <<package, binary, stamp, held>> /\ NotPublishing

VerifyUnpacked(p) ==
    /\ pc[p] = "unpacked"
    /\ Goto(p, IF held[p] = "pinned" THEN "install" ELSE "failed")
    /\ UNCHANGED <<package, binary, stamp, held>> /\ NotPublishing

(* The rename fails when another call was faster: a directory that is not  *)
(* empty is not replaced.                                                  *)
Install(p) ==
    /\ pc[p] = "install"
    /\ IF package = "missing"
       THEN package' = held[p] /\ Goto(p, "ok")
       ELSE package' = package /\ Goto(p, "failed")
    /\ UNCHANGED <<binary, stamp, held>> /\ NotPublishing

-----------------------------------------------------------------------------
(* generate: the package, the owned directory, the generator.              *)
Strangers == abandoned \/ \E q \in Procs : pc[q] = "swap"

VerifyInstalled(p) ==
    /\ pc[p] = "verify"
    /\ Goto(p, IF package = "pinned" /\ (owned => ~ Strangers)
               THEN "cached?" ELSE "failed")
    /\ UNCHANGED <<package, binary, stamp, held>> /\ NotPublishing

CachedIfPresent(p) ==
    /\ pc[p] = "cached?"
    /\ Goto(p, IF binary # "none" /\ stamp # "none" THEN "snapshot" ELSE "build")
    /\ UNCHANGED <<package, binary, stamp, held>> /\ NotPublishing

(* A plausible defect: the digest of the generator is what its stamp says. *)
ReadCachedStamp(p) ==
    /\ pc[p] = "cached?"
    /\ IF binary # "none" /\ stamp # "none"
       THEN Hold(p, stamp) /\ Goto(p, "stamp?")
       ELSE Hold(p, "none") /\ Goto(p, "build")
    /\ UNCHANGED <<package, binary, stamp>> /\ NotPublishing

ReadCached(p) ==
    /\ pc[p] = "cached?"
    /\ IF binary # "none" /\ stamp # "none"
       THEN Hold(p, binary) /\ Goto(p, "stamp?")
       ELSE Hold(p, "none") /\ Goto(p, "build")
    /\ UNCHANGED <<package, binary, stamp>> /\ NotPublishing

CompareStamp(p) ==
    /\ pc[p] = "stamp?"
    /\ Goto(p, IF held[p] = stamp THEN "snapshot" ELSE "build")
    /\ UNCHANGED <<package, binary, stamp, held>> /\ NotPublishing

(* A new generator is built aside; fetching or compiling may fail.         *)
BuildGenerator(p) ==
    /\ pc[p] = "build"
    /\ \/ Hold(p, "build") /\ Goto(p, "replace")
       \/ Hold(p, "none") /\ Goto(p, "failed")
    /\ UNCHANGED <<package, binary, stamp>> /\ NotPublishing

ReplaceGenerator(p) ==
    /\ pc[p] = "replace"
    /\ binary' = held[p]
    /\ Goto(p, "digest")
    /\ UNCHANGED <<package, stamp, held>> /\ NotPublishing

(* The digest is taken of what is there by now, and written in two steps.  *)
DigestGenerator(p) ==
    /\ pc[p] = "digest"
    /\ Hold(p, binary)
    /\ stamp' = "partial"
    /\ Goto(p, "stamp")
    /\ UNCHANGED <<package, binary>> /\ NotPublishing

WriteStamp(p) ==
    /\ pc[p] = "stamp"
    /\ stamp' = held[p]
    /\ Goto(p, "snapshot")
    /\ UNCHANGED <<package, binary, held>> /\ NotPublishing

-----------------------------------------------------------------------------
(* The schemas are copied; what is generated is generated from the copy.   *)
Snapshot(p) ==
    /\ pc[p] = "snapshot"
    /\ version' = [version EXCEPT ![p] = schema]
    /\ dirty' = [dirty EXCEPT ![p] = FALSE]
    /\ Goto(p, "generate")
    /\ UNCHANGED <<shared, counts, op, held, compared, changed>>

(* The launcher loads the cached generator now; one that is torn traps.    *)
RunGenerator(p) ==
    /\ pc[p] = "generate"
    /\ Goto(p, IF binary = "build" THEN "compare" ELSE "failed")
    /\ UNCHANGED <<package, binary, stamp, held>> /\ NotPublishing

(* publish: outputs are read one by one.                                   *)
CompareFirstOnly(p, o) ==
    /\ pc[p] = "compare" /\ o \notin compared[p]
    /\ compared' = [compared EXCEPT ![p] = Outputs]
    /\ changed' = [changed EXCEPT ![p] =
                     IF outputs[o] # version[p] THEN @ \cup {o} ELSE @]
    /\ UNCHANGED <<shared, counts, pc, op, held, version, dirty>>

CompareOutput(p, o) ==
    /\ pc[p] = "compare" /\ o \notin compared[p]
    /\ compared' = [compared EXCEPT ![p] = @ \cup {o}]
    /\ changed' = [changed EXCEPT ![p] =
                     IF outputs[o] # version[p] THEN @ \cup {o} ELSE @]
    /\ UNCHANGED <<shared, counts, pc, op, held, version, dirty>>

EndCompare(p) ==
    /\ pc[p] = "compare" /\ compared[p] = Outputs
    /\ Goto(p, CASE changed[p] = {}  -> "ok"
                 [] op[p] = "check" -> "failed"
                 [] OTHER           -> "write")
    /\ UNCHANGED <<shared, counts, op, held, version, compared, changed, dirty>>

(* A temporary file is written beside the output ...                       *)
WriteTemporary(p) ==
    /\ pc[p] = "write"
    /\ Goto(p, "swap")
    /\ UNCHANGED <<shared, counts, op, held, version, compared, changed, dirty>>

(* ... and is left there if writing it fails, ...                          *)
WriteFails(p) ==
    /\ pc[p] = "write" /\ faults < MaxFaults
    /\ faults' = faults + 1
    /\ abandoned' = TRUE
    /\ Goto(p, "failed")
    /\ UNCHANGED <<package, binary, stamp, schema, outputs, owned, runs, edits,
                   op, held, version, compared, changed, dirty>>

(* ... or it replaces the output, ...                                      *)
SwapOutput(p, o) ==
    /\ pc[p] = "swap" /\ o \in changed[p]
    /\ outputs' = [outputs EXCEPT ![o] = version[p]]
    /\ changed' = [changed EXCEPT ![p] = @ \ {o}]
    /\ Goto(p, IF changed[p] = {o} THEN "ok" ELSE "write")
    /\ Disturb(IF version[p] = schema THEN {} ELSE Procs \ {p})
    /\ UNCHANGED <<package, binary, stamp, schema, abandoned, owned, counts,
                   op, held, version, compared>>

SwapFails(p) ==
    /\ pc[p] = "swap"
    /\ Goto(p, "failed")
    /\ UNCHANGED <<shared, counts, op, held, version, compared, changed, dirty>>

ToolStep(p) ==
    \/ \E operation \in Ops : Call(p, operation)
    \/ CheckInstalled(p) \/ Fetch(p) \/ VerifyUnpacked(p) \/ Install(p)
    \/ VerifyInstalled(p) \/ ReadCached(p) \/ CompareStamp(p)
    \/ BuildGenerator(p) \/ ReplaceGenerator(p) \/ DigestGenerator(p) \/ WriteStamp(p)
    \/ Snapshot(p) \/ RunGenerator(p)
    \/ \E o \in Outputs : CompareOutput(p, o) \/ SwapOutput(p, o)
    \/ EndCompare(p) \/ WriteTemporary(p) \/ WriteFails(p) \/ SwapFails(p)

-----------------------------------------------------------------------------
(* A process is killed; its temporary files stay.                          *)
Kill(p) ==
    /\ pc[p] \notin Done /\ faults < MaxFaults
    /\ faults' = faults + 1
    /\ abandoned' = (abandoned \/ pc[p] = "swap")
    /\ Goto(p, "idle")
    /\ UNCHANGED <<package, binary, stamp, schema, outputs, owned, runs, edits,
                   op, held, version, compared, changed, dirty>>

(* Every process ends; files may be torn, the package among them.          *)
PowerLoss ==
    /\ faults < MaxFaults
    /\ faults' = faults + 1
    /\ abandoned' = (abandoned \/ \E p \in Procs : pc[p] = "swap")
    /\ pc' = [p \in Procs |-> "idle"]
    /\ package' \in {package} \cup (IF package = "pinned" THEN {"damaged"} ELSE {})
    /\ binary' \in {binary} \cup (IF binary # "none" THEN {"torn"} ELSE {})
    /\ stamp' \in {stamp} \cup (IF stamp # "none" THEN {"partial"} ELSE {})
    /\ \E torn \in SUBSET Outputs :
         outputs' = [o \in Outputs |-> IF o \in torn THEN TornOutput ELSE outputs[o]]
    /\ Disturb(Procs)
    /\ UNCHANGED <<schema, owned, runs, edits, op, held, version, compared, changed>>

(* The developer edits a schema, or an output by hand.                     *)
EditSchema ==
    /\ edits < MaxEdits
    /\ edits' = edits + 1
    /\ schema' = schema + 1
    /\ Disturb(Procs)
    /\ UNCHANGED <<package, binary, stamp, outputs, abandoned, owned, runs, faults,
                   pc, op, held, version, compared, changed>>

EditOutput(o) ==
    /\ edits < MaxEdits
    /\ edits' = edits + 1
    /\ outputs' = [outputs EXCEPT ![o] = EditedOutput]
    /\ Disturb(Procs)
    /\ UNCHANGED <<package, binary, stamp, schema, abandoned, owned, runs, faults,
                   pc, op, held, version, compared, changed>>

ToolchainNext ==
    \/ \E p \in Procs : ToolStep(p) \/ Kill(p)
    \/ PowerLoss
    \/ EditSchema
    \/ \E o \in Outputs : EditOutput(o)

ToolchainSpec == ToolchainInit /\ [][ToolchainNext]_toolVars

-----------------------------------------------------------------------------
ToolchainTypeOK ==
    /\ package \in {"missing", "pinned", "damaged", "other"}
    /\ binary \in {"none", "build", "torn"} /\ stamp \in {"none", "build", "torn", "partial"}
    /\ schema \in Nat \ {0}
    /\ outputs \in [Outputs -> Int]
    /\ abandoned \in BOOLEAN /\ owned \in BOOLEAN
    /\ runs \in 0..MaxRuns /\ faults \in 0..MaxFaults /\ edits \in 0..MaxEdits
    /\ pc \in [Procs -> Places] /\ op \in [Procs -> Ops]
    /\ held \in [Procs -> {"none", "build", "torn", "pinned", "other"}]
    /\ version \in [Procs -> Nat]
    /\ compared \in [Procs -> SUBSET Outputs] /\ changed \in [Procs -> SUBSET Outputs]
    /\ dirty \in [Procs -> BOOLEAN]

(***************************************************************************)
(* PackageIsPinned: whatever calls race and wherever they are killed, what *)
(* is at the package's path is the package the lock file describes, or one *)
(* that a loss of power damaged after it was installed                     *)
(* (capnp_tool.py 160-169).                                                *)
(***************************************************************************)
PackageIsPinned == package # "other"

(***************************************************************************)
(* EndedMeansCurrent: when a gen or a check has ended well and nobody has  *)
(* touched the schemas or the outputs since it copied the schemas, every   *)
(* output is the one of the schemas: after any mixture of outputs that a   *)
(* killed gen, a torn file or an edit by hand left behind (capnp_tool.py   *)
(* 264-289).  A check that ends well is what continuous integration trusts.*)
(***************************************************************************)
EndedMeansCurrent ==
    \A p \in Procs :
        pc[p] = "ok" /\ op[p] # "bootstrap" /\ ~ dirty[p] =>
            \A o \in Outputs : outputs[o] = schema

(***************************************************************************)
(* GeneratorIsWhole: a generator about to be run is a complete build: the  *)
(* stamp beside the cached one matches no file that a loss of power tore,  *)
(* and a call that replaces it under another's feet replaces it whole      *)
(* (capnp_tool.py 205, 234-235).                                           *)
(***************************************************************************)
GeneratorIsWhole ==
    \A p \in Procs : pc[p] \in {"snapshot", "generate"} => binary = "build"

(***************************************************************************)
(* ToolsAreWhole: what the schemas are compiled with is what was pinned    *)
(* and built, all of it.                                                   *)
(***************************************************************************)
ToolsAreWhole == PackageIsPinned /\ GeneratorIsWhole

=============================================================================

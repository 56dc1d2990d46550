----------------------------- MODULE GuidedFuzz -----------------------------
(***************************************************************************)
(* The wrapper around a fuzzing campaign, src/tools/guided-fuzz.py.  It    *)
(* starts the campaign, polls it under a watchdog, reads its log, keeps    *)
(* the inputs it left, replays them and ends with an exit code.            *)
(*                                                                         *)
(* The campaign is the build runner of the pinned compiler, modelled from  *)
(* what the wrapper and docs/fuzzing.md say of it: it may exit with zero   *)
(* after a failure, hang, be killed between saving an input and printing   *)
(* what it failed with, and leave inputs that are cut short.  Its report,  *)
(* if it prints one, names the first test only                             *)
(* (docs/research/zig-fuzzing.md 141-145).                                 *)
(***************************************************************************)
EXTENDS Integers, Sequences, FiniteSetsExt

CONSTANTS MaxInputs,   \* bound: inputs that the campaign leaves
          Errors       \* the names of errors, as numbers in their order

ASSUME GuidedAssumption == MaxInputs \in Nat /\ Errors \subseteq Nat \ {0}

VARIABLES selfTest, forced,    \* options: --self-test, --replay-target
          process,   \* the campaign: "running", or how it ended
          inputs,    \* the inputs it left, [test, error, whole, diagnosed]
          names,     \* the names of errors in its log
          listed,    \* how many tests its report lists
          late,      \* the deadline has passed
          wrapper,   \* where the wrapper is
          expired,   \* its watchdog has fired
          queue,     \* the replays it has still to do, per input
          reproduced,\* the inputs that failed again
          spoilt,    \* history: a replay broke down or ran out of time
          verdict    \* the exit code

campaign == <<process, inputs, names, listed>>
guidedVars == <<selfTest, forced, campaign, late, wrapper, expired, queue,
                reproduced, spoilt, verdict>>

(* In the order of their declaration, which the inputs' headers count in.  *)
Tests == IF selfTest THEN <<"probe">> ELSE <<"codec", "bucket", "proof", "checkpoint">>

Library == <<"codec", "bucket", "checkpoint">>

(* In place of an error: none happened; in place of a name: any will do.   *)
NoError == 0

AnyError == 0

ProbeError == 1

Clean == "clean"

Misuse == "misuse"

RecoveryFailed == "recovery failed"

Watchdog == "watchdog"

BuildFailed == "build failed"

NotReproduced == "not reproduced"

FoundFailure == "found failure"

GuidedInit ==
    /\ selfTest \in BOOLEAN
    /\ forced \in IF selfTest THEN {"probe"} ELSE {"none", "bucket"}
    /\ process = "running" /\ inputs = <<>> /\ names = {} /\ listed = 0
    /\ late = FALSE
    /\ wrapper = "poll" /\ expired = FALSE
    /\ queue = <<>> /\ reproduced = {} /\ spoilt = FALSE /\ verdict = "none"

-----------------------------------------------------------------------------
(* The campaign. *)
Save(test, error, whole) ==
    /\ process = "running" /\ Len(inputs) < MaxInputs
    /\ inputs' = Append(inputs, [test |-> test, error |-> error,
                                 whole |-> whole, diagnosed |-> FALSE])
    /\ UNCHANGED <<selfTest, forced, process, names, listed, late, wrapper, expired,
                   queue, reproduced, spoilt, verdict>>

(* A panic prints a diagnostic without a name. *)
Diagnose(i, named) ==
    /\ process = "running"
    /\ inputs[i].error # NoError /\ ~ inputs[i].diagnosed
    /\ inputs' = [inputs EXCEPT ![i].diagnosed = TRUE]
    /\ names' = IF named THEN names \cup {inputs[i].error} ELSE names
    /\ UNCHANGED <<selfTest, forced, process, listed, late, wrapper, expired, queue,
                   reproduced, spoilt, verdict>>

Exit(status, tests) ==
    /\ process = "running"
    /\ \A i \in 1..Len(inputs) : inputs[i].error # NoError => inputs[i].diagnosed
    /\ process' = status
    /\ listed' = tests
    /\ UNCHANGED <<selfTest, forced, inputs, names, late, wrapper, expired, queue,
                   reproduced, spoilt, verdict>>

Late ==
    /\ ~ late
    /\ late' = TRUE
    /\ UNCHANGED <<selfTest, forced, campaign, wrapper, expired, queue, reproduced,
                   spoilt, verdict>>

-----------------------------------------------------------------------------
(* wait_with_watchdog. *)
Waiting == <<selfTest, forced, inputs, names, listed, late, queue, reproduced,
             spoilt, verdict>>

PollWithoutDeadline ==
    /\ wrapper = "poll"
    /\ wrapper' = IF process # "running" THEN "preserve" ELSE "poll"
    /\ UNCHANGED <<process, expired>> /\ UNCHANGED Waiting

Poll ==
    /\ wrapper = "poll"
    /\ wrapper' = IF process # "running" THEN "preserve" ELSE "clock"
    /\ UNCHANGED <<process, expired>> /\ UNCHANGED Waiting

Clock ==
    /\ wrapper = "clock"
    /\ expired' = late
    /\ wrapper' = IF late THEN "kill" ELSE "poll"
    /\ UNCHANGED process /\ UNCHANGED Waiting

(* The campaign may have ended by itself since the poll. *)
KillGroup ==
    /\ wrapper = "kill"
    /\ process' = IF process = "running" THEN "killed" ELSE process
    /\ wrapper' = "preserve"
    /\ UNCHANGED expired /\ UNCHANGED Waiting

-----------------------------------------------------------------------------
(* The log is searched, and every input is kept before it is replayed.     *)
FoundDiagnostics == \E i \in 1..Len(inputs) : inputs[i].diagnosed

ReplayTarget(input) ==
    IF forced # "none" THEN forced
    ELSE IF input.test <= listed THEN Tests[input.test] ELSE "none"

(* A plausible defect: the test is taken to be the first one listed.       *)
CandidatesFirstListed(input) ==
    IF ReplayTarget(input) = "none" THEN <<Library[1]>> ELSE <<ReplayTarget(input)>>

Candidates(input) ==
    IF ReplayTarget(input) = "none" THEN Library ELSE <<ReplayTarget(input)>>

Wanted ==
    IF selfTest THEN ProbeError
    ELSE IF names = {} THEN AnyError ELSE Min(names)

Preserve ==
    /\ wrapper = "preserve"
    /\ queue' = [i \in 1..Len(inputs) |->
                   IF inputs[i].whole THEN Candidates(inputs[i]) ELSE <<>>]
    /\ wrapper' = "verdict"
    /\ UNCHANGED <<selfTest, forced, campaign, late, expired, reproduced, spoilt, verdict>>

Finish(code) ==
    /\ verdict' = code
    /\ wrapper' = "ended"

(* A plausible defect: an expired campaign is inconclusive in any case.    *)
JudgeExpiredFirst ==
    /\ wrapper = "verdict"
    /\ IF expired THEN Finish(Watchdog)
       ELSE IF FoundDiagnostics
            THEN IF \A i \in 1..Len(inputs) : ~ inputs[i].whole
                 THEN Finish(RecoveryFailed)
                 ELSE wrapper' = "replay" /\ UNCHANGED verdict
       ELSE IF process # "zero" THEN Finish(BuildFailed)
       ELSE Finish(IF selfTest THEN Misuse ELSE Clean)
    /\ UNCHANGED <<selfTest, forced, campaign, late, expired, queue, reproduced, spoilt>>

(* A plausible defect: a zero exit is believed. *)
JudgeTrustingExit ==
    /\ wrapper = "verdict"
    /\ IF process = "zero" THEN Finish(IF selfTest THEN Misuse ELSE Clean)
       ELSE IF FoundDiagnostics
            THEN IF \A i \in 1..Len(inputs) : ~ inputs[i].whole
                 THEN Finish(RecoveryFailed)
                 ELSE wrapper' = "replay" /\ UNCHANGED verdict
       ELSE Finish(IF expired THEN Watchdog ELSE BuildFailed)
    /\ UNCHANGED <<selfTest, forced, campaign, late, expired, queue, reproduced, spoilt>>

Judge ==
    /\ wrapper = "verdict"
    /\ IF expired /\ ~ FoundDiagnostics THEN Finish(Watchdog)
       ELSE IF FoundDiagnostics
            THEN IF \A i \in 1..Len(inputs) : ~ inputs[i].whole
                 THEN Finish(RecoveryFailed)
                 ELSE wrapper' = "replay" /\ UNCHANGED verdict
       ELSE IF process # "zero" THEN Finish(BuildFailed)
       ELSE Finish(IF selfTest THEN Misuse ELSE Clean)
    /\ UNCHANGED <<selfTest, forced, campaign, late, expired, queue, reproduced, spoilt>>

-----------------------------------------------------------------------------
(* replay_reproduces, input by input and candidate by candidate.  An input *)
(* fails only under the test that it was found by.                         *)
Fails(input, target) == input.error # NoError /\ Tests[input.test] = target

(* A plausible defect: any failure of the replay is the reported one.      *)
MatchesAnyError(input, target) == Fails(input, target)

Matches(input, target) ==
    Fails(input, target) /\ Wanted \in {AnyError, input.error}

(* The first input that is not dealt with; the rest of the candidates is   *)
(* dropped when one reproduces.                                            *)
Current(i) ==
    /\ wrapper = "replay"
    /\ queue[i] # <<>>
    /\ \A j \in 1..(i - 1) : queue[j] = <<>>

Replay(i) ==
    /\ Current(i)
    /\ IF Matches(inputs[i], Head(queue[i]))
       THEN /\ reproduced' = reproduced \cup {i}
            /\ queue' = [queue EXCEPT ![i] = <<>>]
       ELSE /\ reproduced' = reproduced
            /\ queue' = [queue EXCEPT ![i] = Tail(@)]
    /\ UNCHANGED <<selfTest, forced, campaign, late, wrapper, expired, spoilt, verdict>>

(* The build of the replay fails, or its watchdog fires. *)
ReplayFails(i) ==
    /\ Current(i)
    /\ queue' = [queue EXCEPT ![i] = Tail(@)]
    /\ spoilt' = TRUE
    /\ UNCHANGED <<selfTest, forced, campaign, late, wrapper, expired, reproduced, verdict>>

(* A plausible defect: the self-test asks only for the diagnostics.        *)
ConcludeTrustingSelfTest ==
    /\ wrapper = "replay"
    /\ \A i \in DOMAIN queue : queue[i] = <<>>
    /\ Finish(IF selfTest THEN Clean
              ELSE IF reproduced = {} THEN NotReproduced ELSE FoundFailure)
    /\ UNCHANGED <<selfTest, forced, campaign, late, expired, queue, reproduced, spoilt>>

Conclude ==
    /\ wrapper = "replay"
    /\ \A i \in DOMAIN queue : queue[i] = <<>>
    /\ Finish(IF reproduced = {} THEN NotReproduced
              ELSE IF selfTest THEN Clean ELSE FoundFailure)
    /\ UNCHANGED <<selfTest, forced, campaign, late, expired, queue, reproduced, spoilt>>

-----------------------------------------------------------------------------
WrapperStep ==
    \/ Poll \/ Clock \/ KillGroup \/ Preserve \/ Judge \/ Conclude
    \/ \E i \in 1..Len(inputs) : Replay(i) \/ ReplayFails(i)

CampaignStep ==
    \/ \E test \in DOMAIN Tests, error \in Errors \cup {NoError}, whole \in BOOLEAN :
         Save(test, error, whole)
    \/ \E i \in 1..Len(inputs), named \in BOOLEAN : Diagnose(i, named)
    \/ \E status \in {"zero", "nonzero"}, tests \in 0..1 : Exit(status, tests)

GuidedNext == WrapperStep \/ CampaignStep \/ Late

(* The wrapper runs and time passes; nothing is asked of the campaign.     *)
GuidedFairness == WF_guidedVars(WrapperStep) /\ WF_guidedVars(Late)

GuidedSpec == GuidedInit /\ [][GuidedNext]_guidedVars /\ GuidedFairness

-----------------------------------------------------------------------------
(***************************************************************************)
(* FailClosed: the wrapper ends clean, outside its self-test, only if the  *)
(* campaign ended by itself with zero and found no failure, whatever it    *)
(* saved, printed or raced with the watchdog (guided-fuzz.py 257-311 and   *)
(* its heading, "0 clean bounded campaign (no failure diagnostics, build   *)
(* exit 0, no expiry)").                                                   *)
(***************************************************************************)
FailClosed ==
    verdict = Clean /\ ~ selfTest =>
        /\ process = "zero" /\ ~ expired
        /\ \A i \in 1..Len(inputs) : inputs[i].error = NoError

(***************************************************************************)
(* FailuresSurface: a failure that the campaign printed is never reported  *)
(* as a timeout, as a failed build or as nothing at all; the exit code     *)
(* says that it was reproduced, not reproduced, or lost (257-303).         *)
(***************************************************************************)
FailuresSurface ==
    verdict # "none" /\ FoundDiagnostics =>
        \/ verdict \in {RecoveryFailed, NotReproduced, FoundFailure}
        \/ selfTest /\ verdict = Clean

(***************************************************************************)
(* FindingsAreReal: a finding, and a self-test that passes, stand on an    *)
(* input that was saved whole and fails again with an error that the log   *)
(* names (or, in a log without names, with any), under a test that the     *)
(* campaign ran (268-302).                                                 *)
(***************************************************************************)
FindingsAreReal ==
    verdict = FoundFailure \/ (selfTest /\ verdict = Clean) =>
        \E i \in 1..Len(inputs) :
            /\ inputs[i].whole /\ inputs[i].error # NoError
            /\ selfTest => inputs[i].error = ProbeError
            /\ names = {} \/ selfTest \/ inputs[i].error \in names

(* An input with the reported failure was recovered whole and nothing went *)
(* wrong with its replay.                                                  *)
Recovered(tests) ==
    /\ verdict # "none" /\ FoundDiagnostics /\ ~ spoilt /\ forced = "none"
    /\ \E i \in 1..Len(inputs) :
         /\ inputs[i].whole /\ inputs[i].error # NoError
         /\ Wanted \in {AnyError, inputs[i].error}
         /\ Tests[inputs[i].test] \in tests

(***************************************************************************)
(* RecoveredIsReproduced: the failure of a codec, bucket or checkpoint     *)
(* test is reproduced and reported as a finding when its input was         *)
(* recovered, although the report lists one test or none and the input's   *)
(* own test must be searched for (246-250, 276-288).                       *)
(***************************************************************************)
RecoveredIsReproduced ==
    Recovered({"codec", "bucket", "checkpoint"}) => verdict = FoundFailure

(***************************************************************************)
(* VerdictIsRight: the exit code tells the truth in both directions: clean *)
(* only if nothing failed, a finding only if something fails again, and no *)
(* failure that was printed or recovered is lost.                          *)
(***************************************************************************)
VerdictIsRight ==
    FailClosed /\ FailuresSurface /\ FindingsAreReal /\ RecoveredIsReproduced

(***************************************************************************)
(* EveryTargetIsTried: the same for every test of the library, "Ambiguous  *)
(* identity: try every library target and require a match"                 *)
(* (guided-fuzz.py 278).                                                   *)
(***************************************************************************)
EveryTargetIsTried ==
    Recovered({"codec", "bucket", "proof", "checkpoint"}) => verdict = FoundFailure

(***************************************************************************)
(* GuidedEnds: the wrapper ends, though the campaign may hang for ever     *)
(* (82-100).                                                               *)
(***************************************************************************)
GuidedEnds == <>(verdict # "none")

=============================================================================

------------------------------ MODULE Frontier ------------------------------
(***************************************************************************)
(* The frontier of src/src/frontier.zig: the levels of a BucketList as the *)
(* identities of immutable buckets.  An advance is planned first, as merge *)
(* jobs with fixed inputs; the host runs the jobs in any order, on several *)
(* threads, and every result is needed before the plan is finished and the *)
(* frontier replaced.  A bucket stands for its identity: equal hashes are  *)
(* equal buckets.                                                          *)
(*                                                                         *)
(* The plan is that of FrontierPlan.tla; list is the committed frontier.   *)
(***************************************************************************)
EXTENDS BucketList, FrontierPlan

VARIABLES planning,   \* an advance has been planned
          candidate,  \* the planned levels, without the results of the jobs
          jobs,       \* per level with a job, the inputs of its merge
          results,    \* per level with a job, its result or NoMerge
          planned     \* history: the batch of the plan, like the list's input

plan == <<planning, candidate, jobs, results, planned>>

frontierVars == <<vars, plan>>

-----------------------------------------------------------------------------
Idle ==
    /\ planning = FALSE /\ candidate = <<>> /\ jobs = <<>> /\ results = <<>>
    /\ planned = <<>>

(* The plan goes out of scope. *)
Discard ==
    /\ planning' = FALSE /\ candidate' = <<>> /\ jobs' = <<>> /\ results' = <<>>
    /\ planned' = <<>>

FrontierInit == Init /\ Idle

(* plan: the committed frontier is only read. *)
Plan(n, fresh) ==
    /\ ~ planning
    /\ list.seq # MaxSeq
    /\ n = list.seq + 1
    /\ planning' = TRUE
    /\ candidate' = Candidate(list, n)
    /\ jobs' = [level \in JobLevels(n) |-> Job(list, n, fresh, level)]
    /\ results' = [level \in JobLevels(n) |-> NoMerge]
    /\ planned' = fresh
    /\ UNCHANGED vars

RunJobInto(level, slot) ==
    /\ planning
    /\ level \in DOMAIN jobs /\ results[level] = NoMerge
    /\ results' = [results EXCEPT ![slot] = Result(jobs[level])]
    /\ UNCHANGED <<vars, planning, candidate, jobs, planned>>

(* A plausible defect: results stored in the order they complete. *)
RunJobInCompletionOrder(level) ==
    RunJobInto(level, Youngest({slot \in DOMAIN results : results[slot] = NoMerge}))

(* One job completes, in any order; its result belongs to its own index.   *)
RunJob(level) == RunJobInto(level, level)

(* A job fails, or the host drops the candidate: the base is untouched.    *)
Abandon == planning /\ Discard /\ UNCHANGED vars

(* A plausible defect: not waiting for the slowest job. *)
FinishEarly ==
    /\ planning
    /\ results[0] # NoMerge
    /\ list' = Finished(candidate, results)
    /\ input' = planned
    /\ Discard

(* finish, and the assignment of the committed frontier. *)
Finish ==
    /\ planning
    /\ \A level \in DOMAIN results : results[level] # NoMerge
    /\ list' = Finished(candidate, results)
    /\ input' = planned
    /\ Discard

FrontierNext ==
    \/ \E fresh \in Buckets : Plan(list.seq + 1, fresh)
    \/ \E level \in Levels : RunJob(level)
    \/ Abandon
    \/ Finish

FrontierSpec == FrontierInit /\ [][FrontierNext]_frontierVars

-----------------------------------------------------------------------------
(***************************************************************************)
(* PlanExact: while an advance is planned, its candidate and every job are *)
(* those of the committed base, whatever has completed in the meantime,    *)
(* and each result in is that of the job at its index.  It relates the     *)
(* work in flight to a base that planning must not have touched            *)
(* (frontier.zig 67-69, 79-80).                                            *)
(***************************************************************************)
PlanExact ==
    IF planning
    THEN LET n == list.seq + 1
         IN  /\ list.seq # MaxSeq
             /\ planned \in Buckets
             /\ candidate = Candidate(list, n)
             /\ jobs = [level \in JobLevels(n) |-> Job(list, n, planned, level)]
             /\ DOMAIN results = JobLevels(n)
             /\ \A level \in JobLevels(n) : results[level] \in {NoMerge, Result(jobs[level])}
    ELSE Idle

(***************************************************************************)
(* The planned advance, with its jobs in any order, abandoned or finished, *)
(* is the advance of the in-memory list: the hosted frontier and list.zig  *)
(* agree on every level after every batch.                                 *)
(***************************************************************************)
ImplementsList == Spec

=============================================================================

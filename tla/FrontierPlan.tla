---------------------------- MODULE FrontierPlan ----------------------------
(***************************************************************************)
(* The plan of an advance in src/src/frontier.zig, as a value: the levels  *)
(* that have a merge job, the inputs of each job, the planned levels       *)
(* without the results of the jobs, and the levels once all results are    *)
(* in.  The schedule is that of ListValue.tla, which frontier.zig repeats  *)
(* at 226-238.  Frontier.tla and Disk.tla both plan their advances so.     *)
(***************************************************************************)
EXTENDS ListValue

(* Each level that receives has a job, and level zero always has one.      *)
JobLevels(n) == {level \in Levels : level = 0 \/ Receives(n, level)}

Candidate(list, n) ==
    [seq  |-> n,
     curr |-> [level \in Levels |-> Promoted(list, n, level)],
     snap |-> [level \in Levels |->
                 IF ShouldSpill(n, level) THEN list.curr[level] ELSE list.snap[level]],
     next |-> [level \in Levels |->
                 IF Receives(n, level) THEN NoMerge ELSE list.next[level]]]

(* Plausible defects: the newer input read after the level above received  *)
(* its own promotion, and the older one before this level did.             *)
JobFromPromotedSource(list, n, fresh, level) ==
    [older |-> MergeBase(n, level, Promoted(list, n, level)),
     newer |-> IF level = 0 THEN fresh ELSE Promoted(list, n, level - 1),
     drop  |-> level = Last]

JobFromUnpromotedBase(list, n, fresh, level) ==
    [older |-> MergeBase(n, level, list.curr[level]),
     newer |-> IF level = 0 THEN fresh ELSE list.curr[level - 1],
     drop  |-> level = Last]

(* The inputs of one merge, all taken from the base and the fresh bucket.  *)
Job(list, n, fresh, level) ==
    [older |-> MergeBase(n, level, Promoted(list, n, level)),
     newer |-> IF level = 0 THEN fresh ELSE list.curr[level - 1],
     drop  |-> level = Last]

(* One merge. *)
Result(job) == Merge(job.older, job.newer, job.drop)

(* finish: the planned levels with a result for every job. *)
Finished(candidate, results) ==
    [seq  |-> candidate.seq,
     curr |-> [candidate.curr EXCEPT ![0] = results[0]],
     snap |-> candidate.snap,
     next |-> [level \in Levels |->
                 IF level \in DOMAIN results \ {0} THEN results[level]
                 ELSE candidate.next[level]]]

=============================================================================

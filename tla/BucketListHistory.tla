-------------------------- MODULE BucketListHistory --------------------------
(***************************************************************************)
(* BucketList.tla with the batches it was given, and a closed form of what *)
(* every bucket holds: one interval of the history, squashed.  The code    *)
(* never computes these intervals; they are what its schedule amounts to.  *)
(***************************************************************************)
EXTENDS BucketList, Sequences, FiniteSets

CONSTANT MaxWrites  \* bound: batches of the history that are not empty

VARIABLE log  \* every batch so far; log[n] is the batch of sequence n

historyVars == <<vars, log>>

Written == {n \in DOMAIN log : log[n] # Empty}

HistoryInit == Init /\ log = <<>>

HistoryNext ==
    \E batch \in Buckets :
      /\ batch # Empty => Cardinality(Written) < MaxWrites
      /\ Advance(list.seq + 1, batch)
      /\ log' = Append(log, batch)

HistorySpec == HistoryInit /\ [][HistoryNext]_historyVars

-----------------------------------------------------------------------------
(* The newest record of each identity in batches first..last. *)
Squashed(first, last, drop) ==
    [k \in Keys |->
       LET writes == {n \in first..last \cap DOMAIN log : log[n][k] # Absent}
           newest == CHOOSE n \in writes : \A other \in writes : n >= other
           record == IF writes = {} THEN Absent ELSE log[newest][k]
       IN  IF drop THEN ValueOf(record) ELSE record]

(* The last sequence at which a level could spill. *)
LastSpill(level) == list.seq - (list.seq % Half(level))

(* How long a batch travels before its level: two spills of each above.    *)
Lag(level) == (2 * Half(level) - 4) \div 3

CurrFirst(level) == IF level = Last THEN 1 ELSE LastSpill(level) - Lag(level)

CurrLast(level) ==
    IF level = 0 THEN list.seq
    ELSE LastSpill(level - 1) - Half(level - 1) - Lag(level - 1) - 1

SnapFirst(level) == LastSpill(level) - Half(level) - Lag(level)

SnapLast(level) == LastSpill(level) - Lag(level) - 1

(***************************************************************************)
(* At every sequence number every bucket holds exactly the newest records  *)
(* of its own interval of the history, tombstones included except in the   *)
(* last level.  The intervals are consecutive, youngest first, so no batch *)
(* is in two buckets or in none.  A schedule that promotes a level one     *)
(* spill early or late, or merges a level's own hand-over into it again,   *)
(* gives the right reads for a long time and the wrong buckets at once     *)
(* (list.zig 75-95 and 184-189).                                           *)
(***************************************************************************)
BucketsHoldTheirInterval ==
    \A level \in Levels :
      /\ list.curr[level] = Squashed(CurrFirst(level), CurrLast(level), level = Last)
      /\ level # Last =>
           list.snap[level] = Squashed(SnapFirst(level), SnapLast(level), FALSE)

=============================================================================

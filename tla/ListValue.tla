----------------------------- MODULE ListValue -----------------------------
(***************************************************************************)
(* The factor-four BucketList with delayed promotion, src/src/list.zig, as *)
(* a value: Depth levels of two visible buckets, curr and snap, a pending  *)
(* merge result next, and a sequence number.  A list is a record with      *)
(* these fields, and it may have more: a manifest of the disk database is  *)
(* a list with metadata.                                                   *)
(*                                                                         *)
(* The code walks the levels from the last to the first.  Every level      *)
(* reads only its own buckets and the curr of the level above it before    *)
(* that level is rewritten, so the walk is stated here as one simultaneous *)
(* update; ListAdvance.tla has the walk itself, step by step, and is shown *)
(* to implement it.                                                        *)
(***************************************************************************)
EXTENDS Integers, Bucket

CONSTANTS Depth,    \* number of levels, 1..31 in the code
          MaxSeq,   \* the last sequence number, 2^64 - 1 in the code
          NoMerge   \* no merge is scheduled: the null of ?Bucket

(* Levels and the schedule: Half(level) is 4^(level+1) / 2. *)
Levels == 0..(Depth - 1)

Last == Depth - 1

Half(level) == 2^(2 * level + 1)

ASSUME DepthAssumption == Depth \in Nat \ {0}

ASSUME MaxSeqAssumption == MaxSeq \in Nat

ASSUME NoMergeAssumption == NoMerge \notin Buckets

(* The only facts about exponentiation that the proofs use. *)
ASSUME HalfAssumption ==
    /\ Half(0) = 2
    /\ \A level \in Levels : Half(level) \in Nat /\ Half(level) > 0
    /\ \A level \in Levels : level > 0 => Half(level) = 4 * Half(level - 1)

-----------------------------------------------------------------------------
(* Plausible defects of the schedule. *)
SpillOneLate(n, level) == level # Last /\ (n - 1) % Half(level) = 0

MergeWithEmptyNever(n, level) == FALSE

(* A level hands its curr to the next level; the last one has no next.     *)
ShouldSpill(n, level) == level # Last /\ n % Half(level) = 0

(* The merge being scheduled will be promoted exactly when the level       *)
(* spills, so it must not repeat what the level is about to hand over.     *)
MergeWithEmpty(n, level) ==
    level \notin {0, Last} /\ (n \div Half(level - 1)) % 4 = 3

(* The level above spills into this one. *)
Receives(n, level) == level > 0 /\ ShouldSpill(n, level - 1)

(* The older input of a merge scheduled, or recomputed, at sequence n. *)
MergeBase(n, level, current) ==
    IF MergeWithEmpty(n, level) THEN Empty ELSE current

(* A plausible defect: a promotion without a pending merge. *)
PromotedUnchecked(list, n, level) ==
    IF Receives(n, level)
    THEN list.next[level]
    ELSE IF ShouldSpill(n, level) THEN Empty ELSE list.curr[level]

(* The curr of a level after its spill and its promotion. *)
Promoted(list, n, level) ==
    IF Receives(n, level) /\ list.next[level] # NoMerge
    THEN list.next[level]
    ELSE IF ShouldSpill(n, level) THEN Empty ELSE list.curr[level]

-----------------------------------------------------------------------------
NewList ==
    [seq  |-> 0,
     curr |-> [level \in Levels |-> Empty],
     snap |-> [level \in Levels |-> Empty],
     next |-> [level \in Levels |-> NoMerge]]

(* Plausible defects of the advance: a level that spills hands over what   *)
(* it was just promoted; a merge starts from the level before promotion.   *)
AdvancedPromotingBeforeSnap(list, n, batch) ==
    [seq  |-> n,
     curr |-> [level \in Levels |->
                 IF level = 0
                 THEN Merge(Promoted(list, n, 0), batch, Depth = 1)
                 ELSE Promoted(list, n, level)],
     snap |-> [level \in Levels |->
                 IF ShouldSpill(n, level) THEN Promoted(list, n, level)
                 ELSE list.snap[level]],
     next |-> [level \in Levels |->
                 IF Receives(n, level)
                 THEN Merge(MergeBase(n, level, Promoted(list, n, level)),
                            list.curr[level - 1], level = Last)
                 ELSE list.next[level]]]

AdvancedMergingBeforePromotion(list, n, batch) ==
    [seq  |-> n,
     curr |-> [level \in Levels |->
                 IF level = 0
                 THEN Merge(Promoted(list, n, 0), batch, Depth = 1)
                 ELSE Promoted(list, n, level)],
     snap |-> [level \in Levels |->
                 IF ShouldSpill(n, level) THEN list.curr[level] ELSE list.snap[level]],
     next |-> [level \in Levels |->
                 IF Receives(n, level)
                 THEN Merge(MergeBase(n, level, list.curr[level]),
                            list.curr[level - 1], level = Last)
                 ELSE list.next[level]]]

(* advanceInPlace: the list after a batch. *)
Advanced(list, n, batch) ==
    [seq  |-> n,
     curr |-> [level \in Levels |->
                 IF level = 0
                 THEN Merge(Promoted(list, n, 0), batch, Depth = 1)
                 ELSE Promoted(list, n, level)],
     snap |-> [level \in Levels |->
                 IF ShouldSpill(n, level) THEN list.curr[level] ELSE list.snap[level]],
     next |-> [level \in Levels |->
                 IF Receives(n, level)
                 THEN Merge(MergeBase(n, level, Promoted(list, n, level)),
                            list.curr[level - 1], level = Last)
                 ELSE list.next[level]]]

-----------------------------------------------------------------------------
(* The level's record of an identity, curr before snap. *)
Found(list, level, k) ==
    IF list.curr[level][k] # Absent THEN list.curr[level][k] ELSE list.snap[level][k]

Holding(list, k) == {level \in Levels : Found(list, level, k) # Absent}

Youngest(levels) == CHOOSE level \in levels : \A other \in levels : level <= other

Oldest(levels) == CHOOSE level \in levels : \A other \in levels : level >= other

(* A plausible defect: the deepest level decides. *)
GetOldest(list, k) ==
    IF Holding(list, k) = {} THEN Absent
    ELSE ValueOf(Found(list, Oldest(Holding(list, k)), k))

(* The first level that holds a record decides; a tombstone is a miss. *)
Get(list, k) ==
    IF Holding(list, k) = {} THEN Absent
    ELSE ValueOf(Found(list, Youngest(Holding(list, k)), k))

(* The abstract map: what get returns for every identity. *)
Contents(list) == [k \in Keys |-> Get(list, k)]

(***************************************************************************)
(* validate: the checks a restore makes before it trusts a list.           *)
(***************************************************************************)
CurrShape(list) ==
    \A level \in Levels :
        list.seq = 0 \/ (level > 0 /\ list.seq < 2 * Half(level - 1))
          => list.curr[level] = Empty

SnapShape(list) ==
    \A level \in Levels :
        level = Last \/ list.seq < Half(level) => list.snap[level] = Empty

PendingShape(list) ==
    \A level \in Levels :
        list.next[level] # NoMerge <=> level # 0 /\ list.seq >= Half(level - 1)

NoTerminalTombstone(list) == \A k \in Keys : list.curr[Last][k] # Tombstone

PendingExact(list) ==
    \A level \in Levels \ {0} :
        list.next[level] # NoMerge =>
            list.next[level] = Merge(MergeBase(list.seq, level, list.curr[level]),
                                     list.snap[level - 1], level = Last)

Valid(list) ==
    /\ CurrShape(list)
    /\ SnapShape(list)
    /\ PendingShape(list)
    /\ NoTerminalTombstone(list)
    /\ PendingExact(list)

-----------------------------------------------------------------------------
(* Every bucket is a bucket and a pending result may be absent. *)
Lists ==
    [seq  : 0..MaxSeq,
     curr : [Levels -> Buckets],
     snap : [Levels -> Buckets],
     next : [Levels -> Buckets \cup {NoMerge}]]

=============================================================================

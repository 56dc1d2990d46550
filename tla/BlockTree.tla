----------------------------- MODULE BlockTree -----------------------------
(***************************************************************************)
(* The version-two hash of a bucket: records are streamed into blocks, the *)
(* blocks into a tree whose peaks are merged as they come, and a proof     *)
(* carries a block with its path to the root.  The engine's incremental    *)
(* hasher (src/src/proofs.zig, repeated in store.zig), its path extraction *)
(* and its path verifier, and the independent src/tools/v2-vectors.py.     *)
(*                                                                         *)
(* A hash is the tuple of what is hashed; a record is its framed size.     *)
(***************************************************************************)
EXTENDS Integers, Sequences, FiniteSets

CONSTANTS FrameSizes,  \* the sizes a framed record may have
          Target,      \* target_block_bytes
          MaxRecords,  \* bound: records in one bucket
          MaxSlot      \* the last bit of a count of leaves, 63 in the code

ASSUME BlockAssumption ==
    /\ FrameSizes \subseteq Nat \ {0}
    /\ Target \in Nat \ {0} /\ MaxRecords \in Nat /\ MaxSlot \in Nat
    /\ MaxRecords < 2^(MaxSlot + 1)

(* The only facts about exponentiation that the proofs use. *)
PowersOfTwo ==
    /\ 2^0 = 1
    /\ \A slot \in 0..(MaxSlot + 1) : 2^slot \in Nat /\ 2^slot > 0
    /\ \A slot \in 0..MaxSlot : 2^(slot + 1) = 2 * 2^slot

ASSUME PowerOfTwoAssumption == PowersOfTwo

VARIABLES records,     \* history: the records appended
          leaves,      \* history: the hashes of the closed blocks
          peaks,       \* BlockTree: subtrees [span, hash], largest first
          block,       \* the records of the open block
          block_bytes, \* its size
          block_open

blockVars == <<records, leaves, peaks, block, block_bytes, block_open>>

-----------------------------------------------------------------------------
BlockHash(index, bytes) == <<"block", index, bytes>>

Combine(left, right) == <<"node", left, right>>

EmptyLeaf == <<"empty">>

BucketHash(count, blocks, root) == <<"bucket", count, blocks, root>>

(* The two peaks at the right have the same span. *)
Mergeable(ps) == Len(ps) >= 2 /\ ps[Len(ps)].span = ps[Len(ps) - 1].span

(* A plausible defect: the halves are combined in the wrong order. *)
MergedSwapped(ps) ==
    Append(SubSeq(ps, 1, Len(ps) - 2),
           [span |-> 2 * ps[Len(ps)].span,
            hash |-> Combine(ps[Len(ps)].hash, ps[Len(ps) - 1].hash)])

Merged(ps) ==
    Append(SubSeq(ps, 1, Len(ps) - 2),
           [span |-> 2 * ps[Len(ps)].span,
            hash |-> Combine(ps[Len(ps) - 1].hash, ps[Len(ps)].hash)])

(* One turn of the loop; there are fewer turns than peaks.                 *)
CarryOne(ps) == IF Mergeable(ps) THEN Merged(ps) ELSE ps

Carry(ps) ==
    LET turn[i \in 0..Len(ps)] == IF i = 0 THEN ps ELSE CarryOne(turn[i - 1])
    IN  turn[Len(ps)]

(* BlockTree.append and root. *)
AppendLeaf(ps, leaf) == Carry(Append(ps, [span |-> 1, hash |-> leaf]))

TreeRoot(ps) ==
    LET acc[i \in 1..Len(ps)] ==
          IF i = 1 THEN ps[1].hash ELSE Combine(acc[i - 1], ps[i].hash)
    IN  acc[Len(ps)]

(* Plausible defects: blocks without their position; a block closed one    *)
(* byte late.                                                              *)
CloseWithoutIndex ==
    /\ leaves' = Append(leaves, BlockHash(0, block'))
    /\ peaks' = AppendLeaf(peaks, BlockHash(0, block'))

CloseBlock ==
    /\ leaves' = Append(leaves, BlockHash(Len(leaves), block'))
    /\ peaks' = AppendLeaf(peaks, BlockHash(Len(leaves), block'))

FullLate(bytes) == bytes > Target

Full(bytes) == bytes >= Target

(* appendRecord: a block is opened for its first record and closed by the  *)
(* one that reaches the target.                                            *)
AppendRecord(size) ==
    /\ Len(records) < MaxRecords
    /\ records' = Append(records, size)
    /\ block' = Append(IF block_open THEN block ELSE <<>>, size)
    /\ block_bytes' = (IF block_open THEN block_bytes ELSE 0) + size
    /\ IF Full(block_bytes')
       THEN block_open' = FALSE /\ CloseBlock
       ELSE block_open' = TRUE /\ UNCHANGED <<leaves, peaks>>

(* final: the open block, if there is one, is closed as it is.             *)
Closed(ps) ==
    IF block_open THEN AppendLeaf(ps, BlockHash(Len(leaves), block)) ELSE ps

LeafCount == Len(leaves) + (IF block_open THEN 1 ELSE 0)

Final ==
    BucketHash(Len(records), LeafCount,
               IF LeafCount = 0 THEN EmptyLeaf ELSE TreeRoot(Closed(peaks)))

BlockInit ==
    /\ records = <<>> /\ leaves = <<>> /\ peaks = <<>>
    /\ block = <<>> /\ block_bytes = 0 /\ block_open = FALSE

BlockNext == \E size \in FrameSizes : AppendRecord(size)

-----------------------------------------------------------------------------
(***************************************************************************)
(* blockPath: the same reduction, with the slot of our leaf followed       *)
(* through it and the sibling noted whenever our peak is merged.           *)
(***************************************************************************)
(* Our peak is merged into the one before it, or with the one after it.    *)
FollowOne(f) ==
    LET n    == Len(f.peaks)
        left == n - 1
    IN  IF ~ Mergeable(f.peaks) THEN f
        ELSE [peaks |-> Merged(f.peaks),
              ours  |-> IF f.ours = n THEN left ELSE f.ours,
              steps |-> IF f.ours = n
                        THEN Append(f.steps, [hash |-> f.peaks[left].hash, right |-> FALSE])
                        ELSE IF f.ours = left
                        THEN Append(f.steps, [hash |-> f.peaks[n].hash, right |-> TRUE])
                        ELSE f.steps]

FollowCarry(f) ==
    LET turn[i \in 0..Len(f.peaks)] == IF i = 0 THEN f ELSE FollowOne(turn[i - 1])
    IN  turn[Len(f.peaks)]

FollowLeaf(f, leaf, isOurs) ==
    LET ps == Append(f.peaks, [span |-> 1, hash |-> leaf])
    IN  FollowCarry([peaks |-> ps, ours |-> IF isOurs THEN Len(ps) ELSE f.ours,
                     steps |-> f.steps])

Followed(ls, index) ==
    LET after[i \in 0..Len(ls)] ==
          IF i = 0 THEN [peaks |-> <<>>, ours |-> 0, steps |-> <<>>]
          ELSE FollowLeaf(after[i - 1], ls[i], i = index + 1)
    IN  after[Len(ls)]

BlockPathLaterFirst(ls, index) ==
    LET f == Followed(ls, index)
        earlier == SubSeq(f.peaks, 1, f.ours - 1)
        later   == SubSeq(f.peaks, f.ours + 1, Len(f.peaks))
    IN  f.steps
        \o [i \in 1..Len(later) |-> [hash |-> later[i].hash, right |-> TRUE]]
        \o (IF earlier = <<>> THEN <<>>
            ELSE <<[hash |-> TreeRoot(earlier), right |-> FALSE]>>)

(* Earlier peaks are one step, folded; later ones a step each. *)
BlockPath(ls, index) ==
    LET f == Followed(ls, index)
        earlier == SubSeq(f.peaks, 1, f.ours - 1)
        later   == SubSeq(f.peaks, f.ours + 1, Len(f.peaks))
    IN  f.steps
        \o (IF earlier = <<>> THEN <<>>
            ELSE <<[hash |-> TreeRoot(earlier), right |-> FALSE]>>)
        \o [i \in 1..Len(later) |-> [hash |-> later[i].hash, right |-> TRUE]]

(***************************************************************************)
(* foldBlockPath: the verifier has only the count of leaves.  The peaks    *)
(* are its binary digits; the sides of the path are forced by the index.   *)
(***************************************************************************)
(* The slots of the bits of a count, one for each peak.                    *)
Bits(count) == {slot \in 0..MaxSlot : (count \div 2^slot) % 2 = 1}

(* How many leaves the peaks before that of a slot cover: the higher bits. *)
Offset(count, slot) == 2^(slot + 1) * (count \div 2^(slot + 1))

Covers(count, slot, index) ==
    Offset(count, slot) <= index /\ index < Offset(count, slot) + 2^slot

Own(index, count) == CHOOSE slot \in Bits(count) : Covers(count, slot, index)

(* The sides the steps must have, from the leaf to the root. *)
Sides(index, count) ==
    LET own   == Own(index, count)
        local == index - Offset(count, own)
        later == Cardinality({slot \in Bits(count) : slot < own})
    IN  [level \in 1..own |-> (local \div 2^(level - 1)) % 2 = 0]
        \o (IF \E slot \in Bits(count) : slot > own THEN <<FALSE>> ELSE <<>>)
        \o [i \in 1..later |-> TRUE]

InvalidPath == <<"InvalidPath">>

Hop(hash, step) ==
    IF step.right THEN Combine(hash, step.hash) ELSE Combine(step.hash, hash)

FoldPath(leaf, path) ==
    LET hash[i \in 0..Len(path)] == IF i = 0 THEN leaf ELSE Hop(hash[i - 1], path[i])
    IN  hash[Len(path)]

(* A plausible defect: the sides are taken from the path itself. *)
FoldBlockPathTrusting(leaf, index, count, path) ==
    IF count = 0 \/ index >= count THEN InvalidPath ELSE FoldPath(leaf, path)

FoldBlockPath(leaf, index, count, path) ==
    IF count = 0 \/ index >= count THEN InvalidPath
    ELSE IF [i \in DOMAIN path |-> path[i].right] # Sides(index, count) THEN InvalidPath
    ELSE FoldPath(leaf, path)

-----------------------------------------------------------------------------
(***************************************************************************)
(* v2-vectors.py: bucket_hash and tree_root over a whole list of records.  *)
(***************************************************************************)
ReduceOne(ps) ==
    LET n == Len(ps)
    IN  IF n >= 2 /\ ps[n][1] = ps[n - 1][1]
        THEN Append(SubSeq(ps, 1, n - 2), <<2 * ps[n][1], Combine(ps[n - 1][2], ps[n][2])>>)
        ELSE ps

ReduceRight(ps) ==
    LET turn[i \in 0..Len(ps)] == IF i = 0 THEN ps ELSE ReduceOne(turn[i - 1])
    IN  turn[Len(ps)]

VectorPeaks(ls) ==
    LET after[i \in 0..Len(ls)] ==
          IF i = 0 THEN <<>> ELSE ReduceRight(Append(after[i - 1], <<1, ls[i]>>))
    IN  after[Len(ls)]

VectorTreeRoot(ls) ==
    LET ps == VectorPeaks(ls)
        acc[i \in 1..Len(ps)] == IF i = 1 THEN ps[1][2] ELSE Combine(acc[i - 1], ps[i][2])
    IN  acc[Len(ps)]

VectorTake(state, size) ==
    LET cur   == Append(state.cur, size)
        bytes == state.bytes + size
    IN  IF bytes >= Target
        THEN [hashes |-> Append(state.hashes, BlockHash(Len(state.hashes), cur)),
              cur |-> <<>>, bytes |-> 0]
        ELSE [hashes |-> state.hashes, cur |-> cur, bytes |-> bytes]

VectorState(rs) ==
    LET after[i \in 0..Len(rs)] ==
          IF i = 0 THEN [hashes |-> <<>>, cur |-> <<>>, bytes |-> 0]
          ELSE VectorTake(after[i - 1], rs[i])
    IN  after[Len(rs)]

VectorBlockHashes(rs) ==
    LET state == VectorState(rs)
    IN  IF state.bytes > 0
        THEN Append(state.hashes, BlockHash(Len(state.hashes), state.cur))
        ELSE state.hashes

VectorBucketHash(rs) ==
    LET hashes == VectorBlockHashes(rs)
    IN  BucketHash(Len(rs), Len(hashes),
                   IF hashes = <<>> THEN EmptyLeaf ELSE VectorTreeRoot(hashes))

-----------------------------------------------------------------------------
(***************************************************************************)
(* VectorsAgree: wherever the blocks end, the incremental hasher gives the *)
(* hash that the independent model computes from the whole list.           *)
(***************************************************************************)
VectorsAgree == Final = VectorBucketHash(records)

AllLeaves ==
    IF block_open THEN Append(leaves, BlockHash(Len(leaves), block)) ELSE leaves

Verified(index, claimed) ==
    FoldBlockPath(AllLeaves[index + 1], claimed, LeafCount, BlockPath(AllLeaves, index))

(***************************************************************************)
(* PathsBindTheIndex: at every count of leaves, ragged ones included, the  *)
(* path extracted for a block verifies against the root at the block's own *)
(* index and is refused at any other, although its hashes would fold to    *)
(* the same root: absence proofs rest on which blocks are neighbours       *)
(* (proofs.zig 203-260).                                                   *)
(***************************************************************************)
PathsBindTheIndex ==
    \A index, claimed \in 0..(LeafCount - 1) :
        Verified(index, claimed) =
            IF claimed = index THEN TreeRoot(Closed(peaks)) ELSE InvalidPath

=============================================================================

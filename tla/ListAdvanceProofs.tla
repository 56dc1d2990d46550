-------------------------- MODULE ListAdvanceProofs --------------------------
(***************************************************************************)
(* Proofs about ListAdvance.tla for every depth, any storage, any finite   *)
(* number of readers and any bound: the reference counts are exact on      *)
(* every path, a view never changes, and the walk, with its sharing and    *)
(* its failures, implements the simultaneous update of BucketList.tla.     *)
(***************************************************************************)
EXTENDS ListAdvance, ListProofs, FiniteSetTheorems

-----------------------------------------------------------------------------
(* Counting. *)

(* levels has a reference to a storage. *)
Points(levels, id) ==
    \E level \in Levels :
        levels.curr[level] = id \/ levels.snap[level] = id \/ levels.next[level] = id

LEMMA LevelsFinite == IsFiniteSet(Levels)
  BY FS_Interval, DepthAssumption DEF Levels

LEMMA CountType ==
    ASSUME NEW buckets, NEW id
    PROVE  /\ Count(buckets, id) \in Nat
           /\ (\E level \in Levels : buckets[level] = id) => Count(buckets, id) >= 1
<1> DEFINE S == {level \in Levels : buckets[level] = id}
<1>1. IsFiniteSet(S)
  BY LevelsFinite, FS_Subset
<1>2. Cardinality(S) \in Nat /\ (Cardinality(S) = 0 <=> S = {})
  BY <1>1, FS_CardinalityType, FS_EmptySet
<1>3. QED
  BY <1>2 DEF Count

(* What a list holds at a place. *)
Slots == Handles \cup {NoMerge}

LEMMA CountUpdate ==
    ASSUME NEW buckets \in [Levels -> Slots], NEW after \in [Levels -> Slots],
           NEW place \in Levels, after = [buckets EXCEPT ![place] = after[place]], NEW id
    PROVE  Count(after, id) = Count(buckets, id) - (IF buckets[place] = id THEN 1 ELSE 0)
                                                 + (IF after[place] = id THEN 1 ELSE 0)
<1> DEFINE S == {level \in Levels : buckets[level] = id}
           T == {level \in Levels : after[level] = id}
<1>1. IsFiniteSet(S) /\ Cardinality(S) \in Nat
  BY LevelsFinite, FS_Subset, FS_CardinalityType
<1>2. T = IF after[place] = id THEN S \cup {place} ELSE S \ {place}
  OBVIOUS
<1>3. place \in S <=> buckets[place] = id
  OBVIOUS
<1>4. Cardinality(S) = Count(buckets, id) /\ Cardinality(T) = Count(after, id)
  BY DEF Count
<1> HIDE DEF S, T
<1>5. CASE after[place] = id
  <2>1. Cardinality(T) = IF place \in S THEN Cardinality(S) ELSE Cardinality(S) + 1
    BY <1>1, <1>2, <1>5, FS_AddElement
  <2>2. QED
    BY <1>1, <1>3, <1>4, <1>5, <2>1
<1>6. CASE after[place] # id
  <2>1. Cardinality(T) = IF place \in S THEN Cardinality(S) - 1 ELSE Cardinality(S)
    BY <1>1, <1>2, <1>6, FS_RemoveElement
  <2>2. QED
    BY <1>1, <1>3, <1>4, <1>6, <2>1
<1>7. QED
  BY <1>5, <1>6

LEMMA HeldType ==
    ASSUME NEW levels, NEW id
    PROVE  /\ Held(levels, id) \in Nat
           /\ levels # NoList /\ Points(levels, id) => Held(levels, id) >= 1
<1>1. CASE levels = NoList
  BY <1>1 DEF Held
<1>2. CASE levels # NoList
  <2>1. /\ Count(levels.curr, id) \in Nat
        /\ Count(levels.snap, id) \in Nat
        /\ Count(levels.next, id) \in Nat
    BY CountType
  <2>2. Points(levels, id) => \/ Count(levels.curr, id) >= 1
                              \/ Count(levels.snap, id) >= 1
                              \/ Count(levels.next, id) >= 1
    BY CountType DEF Points
  <2>3. QED
    BY <1>2, <2>1, <2>2 DEF Held
<1>3. QED
  BY <1>1, <1>2

(* A view has as many pairs as levels. *)
LEMMA RowCount ==
    ASSUME NEW v, NEW S, IsFiniteSet(S)
    PROVE  IsFiniteSet({v} \X S) /\ Cardinality({v} \X S) = Cardinality(S)
<1>1. IsFiniteSet({v}) /\ Cardinality({v}) = 1
  BY FS_Singleton
<1>2. Cardinality(S) \in Nat
  BY FS_CardinalityType
<1>3. IsFiniteSet({v} \X S) /\ Cardinality({v} \X S) = Cardinality({v}) * Cardinality(S)
  BY <1>1, FS_Product
<1>4. QED
  BY <1>1, <1>2, <1>3

LEMMA DisjointCount ==
    ASSUME NEW A, NEW B, IsFiniteSet(A), IsFiniteSet(B), A \cap B = {}
    PROVE  Cardinality(A \cup B) = Cardinality(A) + Cardinality(B)
<1>1. Cardinality(A \cup B) = Cardinality(A) + Cardinality(B) - Cardinality(A \cap B)
  BY FS_Union
<1>2. Cardinality(A \cap B) = 0
  BY FS_EmptySet
<1>3. Cardinality(A) \in Nat /\ Cardinality(B) \in Nat
  BY FS_CardinalityType
<1>4. QED
  BY <1>1, <1>2, <1>3

(* The pairs of an open view and a level where its list has the storage.   *)
CurrPairs(vs, id) ==
    {place \in {v \in Views : vs[v] # NoList} \X Levels : vs[place[1]].curr[place[2]] = id}

SnapPairs(vs, id) ==
    {place \in {v \in Views : vs[v] # NoList} \X Levels : vs[place[1]].snap[place[2]] = id}

NextPairs(vs, id) ==
    {place \in {v \in Views : vs[v] # NoList} \X Levels : vs[place[1]].next[place[2]] = id}

Pinned(vs, id) ==
    Cardinality(CurrPairs(vs, id)) + Cardinality(SnapPairs(vs, id))
    + Cardinality(NextPairs(vs, id))

LEMMA HeldByViewsIsPinned ==
    ASSUME NEW id
    PROVE  HeldByViews(id) = Pinned(views, id) /\ HeldByViews(id)' = Pinned(views', id)
  BY DEF HeldByViews, Pinned, OpenViews, CurrPairs, SnapPairs, NextPairs

LEMMA PairsFinite ==
    ASSUME NEW vs, NEW id
    PROVE  /\ IsFiniteSet(CurrPairs(vs, id)) /\ Cardinality(CurrPairs(vs, id)) \in Nat
           /\ IsFiniteSet(SnapPairs(vs, id)) /\ Cardinality(SnapPairs(vs, id)) \in Nat
           /\ IsFiniteSet(NextPairs(vs, id)) /\ Cardinality(NextPairs(vs, id)) \in Nat
<1> DEFINE all == {v \in Views : vs[v] # NoList} \X Levels
<1>1. IsFiniteSet({v \in Views : vs[v] # NoList})
  BY ViewsAssumption, FS_Subset
<1>2. IsFiniteSet(all)
  BY <1>1, LevelsFinite, FS_Product
<1>3. /\ CurrPairs(vs, id) \subseteq all
      /\ SnapPairs(vs, id) \subseteq all
      /\ NextPairs(vs, id) \subseteq all
  BY DEF CurrPairs, SnapPairs, NextPairs
<1>4. QED
  BY <1>2, <1>3, FS_Subset, FS_CardinalityType

LEMMA PinnedType ==
    ASSUME NEW vs, NEW id
    PROVE  /\ Pinned(vs, id) \in Nat
           /\ (\E v \in Views : vs[v] # NoList /\ Points(vs[v], id)) => Pinned(vs, id) >= 1
<1>1. Pinned(vs, id) \in Nat
  BY PairsFinite DEF Pinned
<1>2. ASSUME NEW v \in Views, vs[v] # NoList, Points(vs[v], id)
      PROVE  Pinned(vs, id) >= 1
  <2>1. PICK level \in Levels : \/ vs[v].curr[level] = id
                               \/ vs[v].snap[level] = id
                               \/ vs[v].next[level] = id
    BY <1>2 DEF Points
  <2>2. \/ <<v, level>> \in CurrPairs(vs, id)
        \/ <<v, level>> \in SnapPairs(vs, id)
        \/ <<v, level>> \in NextPairs(vs, id)
    BY <1>2, <2>1 DEF CurrPairs, SnapPairs, NextPairs
  <2>3. \/ Cardinality(CurrPairs(vs, id)) # 0
        \/ Cardinality(SnapPairs(vs, id)) # 0
        \/ Cardinality(NextPairs(vs, id)) # 0
    BY <2>2, PairsFinite, FS_EmptySet
  <2>4. QED
    BY <2>3, PairsFinite DEF Pinned
<1>3. QED
  BY <1>1, <1>2

(* Opening a view adds what its list holds; closing it takes that away.    *)
LEMMA PinnedGrows ==
    ASSUME NEW other \in [Views -> Clones \cup {NoList}], NEW v \in Views, NEW id,
           other[v] # NoList,
           NEW vs, vs = [other EXCEPT ![v] = NoList]
    PROVE  Pinned(other, id) = Pinned(vs, id) + Held(other[v], id)
<1>1. vs[v] = NoList /\ \A w \in Views \ {v} : other[w] = vs[w]
  OBVIOUS
<1> DEFINE levels == other[v]
           C == {level \in Levels : levels.curr[level] = id}
           S == {level \in Levels : levels.snap[level] = id}
           N == {level \in Levels : levels.next[level] = id}
<1>2. IsFiniteSet(C) /\ IsFiniteSet(S) /\ IsFiniteSet(N)
  BY LevelsFinite, FS_Subset
<1> DEFINE CV == {v} \X C
           SV == {v} \X S
           NV == {v} \X N
<1>3. CurrPairs(other, id) = CurrPairs(vs, id) \cup CV /\ CurrPairs(vs, id) \cap CV = {}
  BY <1>1 DEF CurrPairs
<1>4. SnapPairs(other, id) = SnapPairs(vs, id) \cup SV /\ SnapPairs(vs, id) \cap SV = {}
  BY <1>1 DEF SnapPairs
<1>5. NextPairs(other, id) = NextPairs(vs, id) \cup NV /\ NextPairs(vs, id) \cap NV = {}
  BY <1>1 DEF NextPairs
<1> HIDE DEF C, S, N
<1>6. Cardinality(CurrPairs(other, id)) = Cardinality(CurrPairs(vs, id)) + Cardinality(C)
  <2>1. IsFiniteSet(CV) /\ Cardinality(CV) = Cardinality(C)
    BY <1>2, RowCount
  <2>2. IsFiniteSet(CurrPairs(vs, id))
    BY PairsFinite
  <2> HIDE DEF CV
  <2>3. CurrPairs(vs, id) \cap CV = {}
    BY <1>3
  <2>4. Cardinality(CurrPairs(vs, id) \cup CV) = Cardinality(CurrPairs(vs, id)) + Cardinality(CV)
    BY <2>1, <2>2, <2>3, DisjointCount
  <2>5. QED
    BY <1>3, <2>1, <2>4
<1>7. Cardinality(SnapPairs(other, id)) = Cardinality(SnapPairs(vs, id)) + Cardinality(S)
  <2>1. IsFiniteSet(SV) /\ Cardinality(SV) = Cardinality(S)
    BY <1>2, RowCount
  <2>2. IsFiniteSet(SnapPairs(vs, id))
    BY PairsFinite
  <2> HIDE DEF SV
  <2>3. SnapPairs(vs, id) \cap SV = {}
    BY <1>4
  <2>4. Cardinality(SnapPairs(vs, id) \cup SV) = Cardinality(SnapPairs(vs, id)) + Cardinality(SV)
    BY <2>1, <2>2, <2>3, DisjointCount
  <2>5. QED
    BY <1>4, <2>1, <2>4
<1>8. Cardinality(NextPairs(other, id)) = Cardinality(NextPairs(vs, id)) + Cardinality(N)
  <2>1. IsFiniteSet(NV) /\ Cardinality(NV) = Cardinality(N)
    BY <1>2, RowCount
  <2>2. IsFiniteSet(NextPairs(vs, id))
    BY PairsFinite
  <2> HIDE DEF NV
  <2>3. NextPairs(vs, id) \cap NV = {}
    BY <1>5
  <2>4. Cardinality(NextPairs(vs, id) \cup NV) = Cardinality(NextPairs(vs, id)) + Cardinality(NV)
    BY <2>1, <2>2, <2>3, DisjointCount
  <2>5. QED
    BY <1>5, <2>1, <2>4
<1>9. Held(levels, id) = Cardinality(C) + Cardinality(S) + Cardinality(N)
  BY DEF Held, Count, C, S, N
<1>10. /\ Cardinality(C) \in Nat /\ Cardinality(S) \in Nat /\ Cardinality(N) \in Nat
  BY <1>2, FS_CardinalityType
<1>11. QED
  BY <1>6, <1>7, <1>8, <1>9, <1>10, PairsFinite DEF Pinned

-----------------------------------------------------------------------------
(* The invariant. *)

Types ==
    /\ seq \in 0..MaxSeq
    /\ list \in Clones
    /\ refs \in [StorageIds -> Int]
    /\ rows \in [StorageIds -> Buckets]
    /\ at \in 0..Depth
    /\ cand \in Clones \cup {NoList}
    /\ at = Depth <=> cand = NoList
    /\ at = Depth => fresh = Null
    /\ at # Depth => seq # MaxSeq
    /\ fresh \in Handles
    /\ views \in [Views -> Clones \cup {NoList}]
    /\ input \in Buckets

(* Every storage is counted as often as a list l, a candidate c, a fresh   *)
(* bucket f and views vs hold it.                                          *)
Exact(counts, l, c, f, vs) ==
    \A id \in StorageIds :
      counts[id] = Held(l, id) + Held(c, id) + (IF f = id THEN 1 ELSE 0) + Pinned(vs, id)

IInv == Types /\ Exact(refs, list, cand, fresh, views)

(* One of them holds the storage. *)
Alive(id, l, c, f, vs) ==
    \/ l # NoList /\ Points(l, id)
    \/ c # NoList /\ Points(c, id)
    \/ f = id
    \/ \E v \in Views : vs[v] # NoList /\ Points(vs[v], id)

LEMMA AliveIsCounted ==
    ASSUME NEW counts, NEW l, NEW c, NEW f, NEW vs, Exact(counts, l, c, f, vs),
           NEW id \in StorageIds
    PROVE  counts[id] \in Nat /\ (Alive(id, l, c, f, vs) => counts[id] >= 1)
<1>1. counts[id] = Held(l, id) + Held(c, id) + (IF f = id THEN 1 ELSE 0) + Pinned(vs, id)
  BY DEF Exact
<1>2. Held(l, id) \in Nat /\ Held(c, id) \in Nat /\ Pinned(vs, id) \in Nat
  BY HeldType, PinnedType
<1>3. Alive(id, l, c, f, vs) => \/ Held(l, id) >= 1
                               \/ Held(c, id) >= 1
                               \/ f = id
                               \/ Pinned(vs, id) >= 1
  BY HeldType, PinnedType DEF Alive
<1>4. QED
  BY <1>1, <1>2, <1>3

(* Retaining and releasing. *)
LEMMA RetainFacts ==
    ASSUME NEW counts \in [StorageIds -> Int], NEW handle
    PROVE  /\ Retain(counts, handle) \in [StorageIds -> Int]
           /\ Release(counts, handle) \in [StorageIds -> Int]
           /\ \A id \in StorageIds :
                /\ Retain(counts, handle)[id] = counts[id] + (IF handle = id THEN 1 ELSE 0)
                /\ Release(counts, handle)[id] = counts[id] - (IF handle = id THEN 1 ELSE 0)
  BY DEF Retain, Release

LEMMA RetainAllFacts ==
    ASSUME NEW counts \in [StorageIds -> Int], NEW levels
    PROVE  /\ RetainAll(counts, levels) \in [StorageIds -> Int]
           /\ ReleaseAll(counts, levels) \in [StorageIds -> Int]
           /\ \A id \in StorageIds :
                /\ RetainAll(counts, levels)[id] = counts[id] + Held(levels, id)
                /\ ReleaseAll(counts, levels)[id] = counts[id] - Held(levels, id)
  BY HeldType DEF RetainAll, ReleaseAll

(* Merging. *)
LEMMA StoredType ==
    ASSUME rows \in [StorageIds -> Buckets], NEW handle
    PROVE  Stored(handle) \in Buckets
  BY EmptyType DEF Stored

LEMMA MergedType ==
    ASSUME rows \in [StorageIds -> Buckets], NEW older, NEW newer, NEW drop \in BOOLEAN
    PROVE  Merged(older, newer, drop) \in Buckets
  BY StoredType, MergeType DEF Merged

(* A merge returns a storage nobody holds, or one of its inputs, or none.  *)
LEMMA MergeResultFacts ==
    ASSUME NEW counts, NEW older \in Handles, NEW newer \in Handles, NEW drop \in BOOLEAN,
           Allocates(older, newer, drop) => Room(counts)
    PROVE  /\ MergeResult(counts, older, newer, drop) \in Handles
           /\ Allocates(older, newer, drop) =>
                /\ MergeResult(counts, older, newer, drop) \in StorageIds
                /\ counts[MergeResult(counts, older, newer, drop)] = 0
           /\ ~ Allocates(older, newer, drop) =>
                MergeResult(counts, older, newer, drop) \in {older, newer, Null}
  BY DEF Handles, Allocates, MergeResult, Room

(* Its records are the merge of the records of the inputs. *)
LEMMA MergeResultRecords ==
    ASSUME rows \in [StorageIds -> Buckets],
           NEW counts, NEW older \in Handles, NEW newer \in Handles, NEW drop \in BOOLEAN,
           ~ Allocates(older, newer, drop)
    PROVE  Stored(MergeResult(counts, older, newer, drop)) = Merged(older, newer, drop)
<1>1. Stored(older) \in Buckets /\ Stored(newer) \in Buckets
  BY StoredType
<1>2. Stored(Null) = Empty
  BY HandlesAssumption DEF Stored
<1>3. CASE Shared(older, newer, drop)
  <2>1. ~ drop
    BY <1>3 DEF Shared
  <2>2. CASE Stored(newer) = Empty
    <3>1. MergeResult(counts, older, newer, drop) = older
      BY <1>3, <2>2 DEF MergeResult
    <3>2. Merge(Stored(older), Empty, drop) = Stored(older)
      BY <1>1, <2>1 DEF Merge, Empty, Buckets
    <3>3. QED
      BY <2>2, <3>1, <3>2 DEF Merged
  <2>3. CASE Stored(newer) # Empty
    <3>1. MergeResult(counts, older, newer, drop) = newer /\ Stored(older) = Empty
      BY <1>3, <2>3 DEF MergeResult, Shared
    <3>2. Merge(Empty, Stored(newer), drop) = Stored(newer)
      BY <1>1, <2>1 DEF Merge, Empty, Buckets
    <3>3. QED
      BY <3>1, <3>2 DEF Merged
  <2>4. QED
    BY <2>2, <2>3
<1>4. CASE ~ Shared(older, newer, drop)
  BY <1>2, <1>4 DEF Allocates, MergeResult
<1>5. QED
  BY <1>3, <1>4

(* The records behind a handle, given those of every storage. *)
Behind(contents, handle) == IF handle \in StorageIds THEN contents[handle] ELSE Empty

(* They are the merge if the new storage, if there is one, has been filled.*)
LEMMA MergeResultFilled ==
    ASSUME rows \in [StorageIds -> Buckets],
           NEW counts, NEW older \in Handles, NEW newer \in Handles, NEW drop \in BOOLEAN,
           Allocates(older, newer, drop) => Room(counts),
           NEW handle, handle = MergeResult(counts, older, newer, drop), NEW after,
           handle \in StorageIds =>
             after[handle] = IF Allocates(older, newer, drop) THEN Merged(older, newer, drop)
                             ELSE rows[handle]
    PROVE  Behind(after, handle) = Merged(older, newer, drop)
<1>1. CASE Allocates(older, newer, drop)
  <2>1. handle \in StorageIds
    BY <1>1, MergeResultFacts
  <2>2. QED
    BY <1>1, <2>1 DEF Behind
<1>2. CASE ~ Allocates(older, newer, drop)
  <2>1. Stored(handle) = Merged(older, newer, drop)
    BY <1>2, MergeResultRecords
  <2>2. QED
    BY <1>2, <2>1 DEF Behind, Stored
<1>3. QED
  BY <1>1, <1>2

LEMMA LiveType ==
    ASSUME NEW counts, NEW contents \in [StorageIds -> Buckets]
    PROVE  /\ Live(counts, contents) \in [StorageIds -> Buckets]
           /\ \A id \in StorageIds : counts[id] # 0 => Live(counts, contents)[id] = contents[id]
  BY EmptyType DEF Live

-----------------------------------------------------------------------------
(* Handing over. *)

LEMMA HandedOverFields ==
    ASSUME cand \in Clones, at \in 1..Last
    PROVE  /\ HandedOver \in Clones
           /\ HandedOver.snap = [cand.snap EXCEPT ![at - 1] = cand.curr[at - 1]]
           /\ HandedOver.curr = [[cand.curr EXCEPT ![at - 1] = Null] EXCEPT ![at] =
                                   IF cand.next[at] # NoMerge THEN cand.next[at]
                                   ELSE cand.curr[at]]
           /\ HandedOver.next = [cand.next EXCEPT ![at] = NoMerge]
<1>1. at \in Levels /\ at - 1 \in Levels /\ at # at - 1
  BY LevelFacts, DepthAssumption DEF Levels, Last
<1>2. /\ cand.curr \in [Levels -> Handles]
      /\ cand.snap \in [Levels -> Handles]
      /\ cand.next \in [Levels -> Handles \cup {NoMerge}]
      /\ Null \in Handles
  BY DEF Clones, Handles
<1>3. [cand.curr EXCEPT ![at - 1] = Null][at] = cand.curr[at]
  BY <1>1, <1>2
<1>4. (IF cand.next[at] # NoMerge THEN cand.next[at] ELSE cand.curr[at]) \in Handles
  BY <1>1, <1>2
<1>5. /\ HandedOver.snap = [cand.snap EXCEPT ![at - 1] = cand.curr[at - 1]]
      /\ HandedOver.next = [cand.next EXCEPT ![at] = NoMerge]
      /\ HandedOver.curr = [[cand.curr EXCEPT ![at - 1] = Null] EXCEPT ![at] =
                              IF cand.next[at] # NoMerge THEN cand.next[at]
                              ELSE cand.curr[at]]
  BY <1>3 DEF HandedOver
<1>6. QED
  BY <1>1, <1>2, <1>4, <1>5 DEF Clones, HandedOver

LEMMA HandedOverCounts ==
    ASSUME Types, Exact(refs, list, cand, fresh, views), at \in 1..Last
    PROVE  /\ HandedOverRefs \in [StorageIds -> Int]
           /\ Exact(HandedOverRefs, list, HandedOver, fresh, views)
<1>1. at \in Levels /\ at - 1 \in Levels /\ at # at - 1 /\ at # Depth
  BY LevelFacts, DepthAssumption DEF Levels, Last
<1>2. /\ cand \in Clones /\ refs \in [StorageIds -> Int] /\ cand # NoList
      /\ cand.curr \in [Levels -> Handles]
      /\ cand.snap \in [Levels -> Handles]
      /\ cand.next \in [Levels -> Handles \cup {NoMerge}]
  BY <1>1 DEF Types, Clones
<1> DEFINE step1 == Release(refs, cand.snap[at - 1])
           cleared == [cand.curr EXCEPT ![at - 1] = Null]
           shown == IF cand.next[at] # NoMerge THEN cand.next[at] ELSE cand.curr[at]
<1>3. /\ HandedOver \in Clones
      /\ HandedOver.snap = [cand.snap EXCEPT ![at - 1] = cand.curr[at - 1]]
      /\ HandedOver.curr = [cleared EXCEPT ![at] = shown]
      /\ HandedOver.next = [cand.next EXCEPT ![at] = NoMerge]
  BY <1>2, HandedOverFields
<1>4. step1 \in [StorageIds -> Int]
  BY <1>2, RetainFacts
<1>5. HandedOverRefs = IF cand.next[at] # NoMerge THEN Release(step1, cand.curr[at]) ELSE step1
  BY DEF HandedOverRefs
<1>6. HandedOverRefs \in [StorageIds -> Int]
  BY <1>4, <1>5, RetainFacts
<1>7. HandedOver # NoList
  BY <1>3, HandlesAssumption
<1>8. /\ cand.curr \in [Levels -> Slots] /\ cand.snap \in [Levels -> Slots]
       /\ cand.next \in [Levels -> Slots] /\ cleared \in [Levels -> Slots]
       /\ HandedOver.curr \in [Levels -> Slots] /\ HandedOver.snap \in [Levels -> Slots]
       /\ HandedOver.next \in [Levels -> Slots]
  BY <1>1, <1>2, <1>3 DEF Slots, Handles, Clones
<1> HIDE DEF step1
<1>9. ASSUME NEW id \in StorageIds
      PROVE  HandedOverRefs[id] - Held(HandedOver, id) = refs[id] - Held(cand, id)
  <2>1. Null # id /\ NoMerge # id
    BY HandlesAssumption DEF Handles
  <2>2. /\ step1[id] = refs[id] - (IF cand.snap[at - 1] = id THEN 1 ELSE 0)
        /\ Release(step1, cand.curr[at])[id] = step1[id] - (IF cand.curr[at] = id THEN 1 ELSE 0)
    BY <1>2, <1>4, RetainFacts DEF step1
  <2>3. Count(HandedOver.snap, id)
          = Count(cand.snap, id) - (IF cand.snap[at - 1] = id THEN 1 ELSE 0)
                                 + (IF cand.curr[at - 1] = id THEN 1 ELSE 0)
    <3>1. HandedOver.snap = [cand.snap EXCEPT ![at - 1] = HandedOver.snap[at - 1]]
          /\ HandedOver.snap[at - 1] = cand.curr[at - 1]
      BY <1>1, <1>2, <1>3
    <3>2. QED
      BY <1>1, <1>8, <3>1, CountUpdate
  <2>4. Count(cleared, id)
          = Count(cand.curr, id) - (IF cand.curr[at - 1] = id THEN 1 ELSE 0)
    <3>1. cleared = [cand.curr EXCEPT ![at - 1] = cleared[at - 1]] /\ cleared[at - 1] = Null
      BY <1>1, <1>2
    <3>2. Count(cand.curr, id) \in Nat
      BY CountType
    <3> HIDE DEF cleared
    <3>3. QED
      BY <1>1, <1>8, <2>1, <3>1, <3>2, CountUpdate
  <2>5. cleared[at] = cand.curr[at]
    BY <1>1, <1>2
  <2>6. Count(HandedOver.curr, id)
          = Count(cleared, id) - (IF cand.curr[at] = id THEN 1 ELSE 0) + (IF shown = id THEN 1 ELSE 0)
    <3>1. HandedOver.curr = [cleared EXCEPT ![at] = HandedOver.curr[at]]
          /\ HandedOver.curr[at] = shown
      BY <1>1, <1>2, <1>3
    <3> HIDE DEF cleared, shown
    <3>2. QED
      BY <1>1, <1>8, <2>5, <3>1, CountUpdate
  <2>7. Count(HandedOver.next, id)
          = Count(cand.next, id) - (IF cand.next[at] = id THEN 1 ELSE 0)
    <3>1. HandedOver.next = [cand.next EXCEPT ![at] = HandedOver.next[at]]
          /\ HandedOver.next[at] = NoMerge
      BY <1>1, <1>2, <1>3
    <3>2. Count(cand.next, id) \in Nat
      BY CountType
    <3>3. QED
      BY <1>1, <1>8, <2>1, <3>1, <3>2, CountUpdate
  <2>8. /\ Held(HandedOver, id) = Count(HandedOver.curr, id) + Count(HandedOver.snap, id)
                                     + Count(HandedOver.next, id)
        /\ Held(cand, id) = Count(cand.curr, id) + Count(cand.snap, id) + Count(cand.next, id)
    BY <1>2, <1>7 DEF Held
  <2>9. /\ Count(cand.curr, id) \in Nat /\ Count(cand.snap, id) \in Nat
        /\ Count(cand.next, id) \in Nat /\ refs[id] \in Int
    BY <1>2, CountType
  <2> HIDE DEF cleared
  <2>10. CASE cand.next[at] # NoMerge
    <3>1. HandedOverRefs[id] = step1[id] - (IF cand.curr[at] = id THEN 1 ELSE 0)
      BY <1>5, <2>2, <2>10
    <3>2. shown = cand.next[at]
      BY <2>10
    <3> HIDE DEF shown
    <3>3. QED
      BY <2>1, <2>2, <2>3, <2>4, <2>5, <2>6, <2>7, <2>8, <2>9, <3>1, <3>2
  <2>11. CASE cand.next[at] = NoMerge
    <3>1. HandedOverRefs[id] = step1[id]
      BY <1>5, <2>11
    <3>2. shown = cand.curr[at]
      BY <2>11
    <3> HIDE DEF shown
    <3>3. QED
      BY <2>1, <2>2, <2>3, <2>4, <2>5, <2>6, <2>7, <2>8, <2>9, <2>11, <3>1, <3>2
  <2>12. QED
    BY <2>10, <2>11
<1>10. ASSUME NEW id \in StorageIds
      PROVE  HandedOverRefs[id] = Held(list, id) + Held(HandedOver, id)
                                    + (IF fresh = id THEN 1 ELSE 0) + Pinned(views, id)
  <2>1. refs[id] = Held(list, id) + Held(cand, id) + (IF fresh = id THEN 1 ELSE 0)
                     + Pinned(views, id)
    BY DEF Exact
  <2>2. /\ Held(list, id) \in Nat /\ Held(cand, id) \in Nat /\ Held(HandedOver, id) \in Nat
        /\ Pinned(views, id) \in Nat /\ HandedOverRefs[id] \in Int
    BY <1>6, HeldType, PinnedType
  <2>3. QED
    BY <1>9, <2>1, <2>2
<1>11. QED
  BY <1>6, <1>10 DEF Exact

-----------------------------------------------------------------------------
(* The counts stay exact. *)

LEMMA InitCounts == AdvanceInit => IInv
<1> SUFFICES ASSUME AdvanceInit
             PROVE  IInv
  OBVIOUS
<1>1. EmptyList \in Clones
  BY DEF EmptyList, Clones, Handles
<1>2. Types
  BY <1>1, EmptyType, DepthAssumption, MaxSeqAssumption, HandlesAssumption
  DEF AdvanceInit, Types, Handles
<1>3. ASSUME NEW id \in StorageIds
      PROVE  refs[id] = Held(list, id) + Held(cand, id) + (IF fresh = id THEN 1 ELSE 0)
                          + Pinned(views, id)
  <2>1. Null # id /\ NoMerge # id
    BY HandlesAssumption DEF Handles
  <2>2. ASSUME NEW buckets, \A level \in Levels : buckets[level] # id
        PROVE  Count(buckets, id) = 0
    <3>1. {level \in Levels : buckets[level] = id} = {}
      BY <2>2
    <3>2. QED
      BY <3>1, FS_EmptySet DEF Count
  <2>3. Held(list, id) = 0
    BY <2>1, <2>2 DEF AdvanceInit, EmptyList, Held
  <2>4. Pinned(views, id) = 0
    <3>1. CurrPairs(views, id) = {} /\ SnapPairs(views, id) = {} /\ NextPairs(views, id) = {}
      BY DEF AdvanceInit, CurrPairs, SnapPairs, NextPairs
    <3>2. QED
      BY <3>1, FS_EmptySet DEF Pinned
  <2>5. QED
    BY <2>1, <2>3, <2>4 DEF AdvanceInit, Held
<1>4. QED
  BY <1>2, <1>3 DEF IInv, Exact

LEMMA BeginCounts ==
    ASSUME IInv, NEW batch \in Buckets, Begin(batch)
    PROVE  /\ IInv'
           /\ \A id \in StorageIds : refs[id] # 0 => rows'[id] = rows[id]
<1> DEFINE id0 == CHOOSE id \in StorageIds : refs[id] = 0
<1>1. /\ at' = Last /\ cand' = list /\ cand = NoList /\ fresh = Null
      /\ seq # MaxSeq /\ UNCHANGED <<seq, list, views, input>>
  BY DEF IInv, Types, Begin
<1>2. refs \in [StorageIds -> Int] /\ RetainAll(refs, list) \in [StorageIds -> Int]
  BY RetainAllFacts DEF IInv, Types
<1>3. at' \in 0..Depth /\ at' # Depth /\ cand' # NoList
  BY <1>1, DepthAssumption, HandlesAssumption DEF Last, IInv, Types
<1>4. ASSUME NEW id \in StorageIds
      PROVE  /\ refs[id] = Held(list, id) + Pinned(views, id)
             /\ RetainAll(refs, list)[id] = refs[id] + Held(list, id)
             /\ Held(list, id) \in Nat /\ Pinned(views, id) \in Nat
             /\ RetainAll(refs, list)[id] = Held(list', id) + Held(cand', id) + Pinned(views', id)
  <2>1. refs[id] = Held(list, id) + Held(cand, id) + (IF fresh = id THEN 1 ELSE 0)
                     + Pinned(views, id)
    BY DEF IInv, Exact
  <2>2. Held(cand, id) = 0 /\ fresh # id
    BY <1>1, HandlesAssumption DEF Held
  <2>3. Held(list, id) \in Nat /\ Pinned(views, id) \in Nat
    BY HeldType, PinnedType
  <2>4. RetainAll(refs, list)[id] = refs[id] + Held(list, id)
    BY <1>2, RetainAllFacts
  <2>5. list' = list /\ cand' = list /\ views' = views
    BY <1>1
  <2>6. QED
    BY <2>1, <2>2, <2>3, <2>4, <2>5
<1>5. CASE batch = Empty
  <2>1. fresh' = Null /\ refs' = RetainAll(refs, list) /\ rows' = rows
    BY <1>5 DEF Begin
  <2>2. Types'
    BY <1>1, <1>2, <1>3, <2>1 DEF IInv, Types, Handles
  <2>3. ASSUME NEW id \in StorageIds
        PROVE  refs'[id] = Held(list', id) + Held(cand', id) + (IF fresh' = id THEN 1 ELSE 0)
                             + Pinned(views', id)
    <3>1. Held(list', id) \in Nat /\ Held(cand', id) \in Nat /\ Pinned(views', id) \in Nat
      BY HeldType, PinnedType
    <3>2. fresh' # id
      BY <2>1, HandlesAssumption
    <3>3. QED
      BY <1>4, <2>1, <3>1, <3>2
  <2>4. QED
    BY <2>1, <2>2, <2>3 DEF IInv, Exact
<1>6. CASE batch # Empty
  <2>1. id0 \in StorageIds /\ refs[id0] = 0
    BY <1>6 DEF Begin, Room
  <2>2. /\ fresh' = id0 /\ refs' = Retain(RetainAll(refs, list), id0)
        /\ rows' = [rows EXCEPT ![id0] = batch]
    BY <1>6 DEF Begin
  <2> HIDE DEF id0
  <2>3. /\ refs' \in [StorageIds -> Int]
        /\ \A id \in StorageIds :
             refs'[id] = RetainAll(refs, list)[id] + (IF id0 = id THEN 1 ELSE 0)
    BY <1>2, <2>2, RetainFacts
  <2>4. Types'
    BY <1>1, <1>3, <2>1, <2>2, <2>3 DEF IInv, Types, Handles
  <2>5. ASSUME NEW id \in StorageIds
        PROVE  refs'[id] = Held(list', id) + Held(cand', id) + (IF fresh' = id THEN 1 ELSE 0)
                             + Pinned(views', id)
    <3>1. Held(list', id) \in Nat /\ Held(cand', id) \in Nat /\ Pinned(views', id) \in Nat
      BY HeldType, PinnedType
    <3>2. refs'[id] = RetainAll(refs, list)[id] + (IF fresh' = id THEN 1 ELSE 0)
      BY <2>2, <2>3
    <3>3. QED
      BY <1>4, <3>1, <3>2
  <2>6. \A id \in StorageIds : refs[id] # 0 => rows'[id] = rows[id]
    BY <2>1, <2>2 DEF IInv, Types
  <2>7. QED
    BY <2>4, <2>5, <2>6 DEF IInv, Exact
<1>7. QED
  BY <1>5, <1>6

LEMMA UnwindCounts ==
    ASSUME IInv, NEW counts \in [StorageIds -> Int], NEW levels,
           Exact(counts, list, levels, fresh, views), Unwind(counts, levels)
    PROVE  /\ IInv'
           /\ \A id \in StorageIds : refs'[id] # 0 => rows'[id] = rows[id]
<1>1. /\ at' = Depth /\ cand' = NoList /\ fresh' = Null
      /\ UNCHANGED <<seq, list, views, input>>
  BY DEF Unwind
<1>2. ReleaseAll(counts, levels) \in [StorageIds -> Int]
  BY RetainAllFacts
<1>3. /\ refs' \in [StorageIds -> Int]
      /\ \A id \in StorageIds :
           refs'[id] = ReleaseAll(counts, levels)[id] - (IF fresh = id THEN 1 ELSE 0)
  BY <1>2, RetainFacts DEF Unwind
<1>4. /\ rows' \in [StorageIds -> Buckets]
      /\ \A id \in StorageIds : refs'[id] # 0 => rows'[id] = rows[id]
  BY LiveType DEF Unwind, IInv, Types
<1>5. Types'
  BY <1>1, <1>3, <1>4, DepthAssumption DEF IInv, Types, Handles
<1>6. ASSUME NEW id \in StorageIds
      PROVE  refs'[id] = Held(list', id) + Held(cand', id) + (IF fresh' = id THEN 1 ELSE 0)
                           + Pinned(views', id)
  <2>1. counts[id] = Held(list, id) + Held(levels, id) + (IF fresh = id THEN 1 ELSE 0)
                       + Pinned(views, id)
    BY DEF Exact
  <2>2. Held(list, id) \in Nat /\ Held(levels, id) \in Nat /\ Pinned(views, id) \in Nat
    BY HeldType, PinnedType
  <2>3. ReleaseAll(counts, levels)[id] = counts[id] - Held(levels, id)
    BY RetainAllFacts
  <2>4. Held(cand', id) = 0 /\ fresh' # id
    BY <1>1, HandlesAssumption DEF Held
  <2>5. list' = list /\ views' = views
    BY <1>1
  <2>6. QED
    BY <1>3, <2>1, <2>2, <2>3, <2>4, <2>5
<1>7. QED
  BY <1>4, <1>5, <1>6 DEF IInv, Exact

(* The inputs of the merge that a spill schedules. *)
LEMMA SpillInputs ==
    ASSUME Types, at \in 1..Last
    PROVE  /\ Older \in Handles
           /\ HandedOver.snap[at - 1] \in Handles
           /\ (at = Last) \in BOOLEAN
<1>1. at \in Levels /\ at - 1 \in Levels /\ at # Depth
  BY LevelFacts, DepthAssumption DEF Levels, Last
<1>2. HandedOver \in Clones
  BY <1>1, HandedOverFields DEF Types
<1>3. QED
  BY <1>1, <1>2 DEF Clones, Older, Handles

LEMMA SpillCounts ==
    ASSUME IInv, Spill
    PROVE  /\ IInv'
           /\ \A id \in StorageIds : HandedOverRefs[id] # 0 => rows'[id] = rows[id]
           /\ cand'.next[at] # NoMerge
           /\ Behind(rows', cand'.next[at]) = Merged(Older, HandedOver.snap[at - 1], at = Last)
<1>1. /\ Types /\ Exact(refs, list, cand, fresh, views)
      /\ at \in 1..Last /\ at' = at - 1 /\ UNCHANGED <<seq, list, fresh, views, input>>
  BY DEF IInv, Spill
<1>2. at \in Levels /\ at - 1 \in Levels /\ at # Depth /\ at' # Depth /\ at' \in 0..Depth
  BY <1>1, LevelFacts, DepthAssumption DEF Levels, Last
<1>3. /\ HandedOverRefs \in [StorageIds -> Int]
      /\ Exact(HandedOverRefs, list, HandedOver, fresh, views)
  BY <1>1, HandedOverCounts
<1>4. /\ HandedOver \in Clones
      /\ HandedOver.next = [cand.next EXCEPT ![at] = NoMerge]
  BY <1>1, <1>2, HandedOverFields DEF Types
<1> DEFINE newer == HandedOver.snap[at - 1]
           drop == at = Last
           alloc == Allocates(Older, newer, drop)
           handle == MergeResult(HandedOverRefs, Older, newer, drop)
<1>5. /\ cand' = [HandedOver EXCEPT !.next[at] = handle]
      /\ refs' = Retain(HandedOverRefs, handle)
      /\ rows' = Live(refs', IF alloc THEN [rows EXCEPT ![handle] = Merged(Older, newer, drop)]
                             ELSE rows)
      /\ alloc => Room(HandedOverRefs)
  BY DEF Spill
<1>6. Older \in Handles /\ newer \in Handles /\ drop \in BOOLEAN
  BY <1>1, SpillInputs
<1>7. handle \in Handles /\ (alloc => handle \in StorageIds /\ HandedOverRefs[handle] = 0)
  <2> HIDE DEF newer, drop
  <2>1. QED
    BY <1>5, <1>6, MergeResultFacts
<1>8. Merged(Older, newer, drop) \in Buckets
  <2> HIDE DEF newer, drop
  <2>1. QED
    BY <1>1, <1>6, MergedType DEF Types
<1> HIDE DEF newer, drop, alloc, handle
<1>9. /\ refs' \in [StorageIds -> Int]
      /\ \A id \in StorageIds :
           refs'[id] = HandedOverRefs[id] + (IF handle = id THEN 1 ELSE 0)
  BY <1>3, <1>5, RetainFacts
<1>10. (IF alloc THEN [rows EXCEPT ![handle] = Merged(Older, newer, drop)] ELSE rows)
         \in [StorageIds -> Buckets]
  BY <1>1, <1>7, <1>8 DEF Types
<1>11. /\ rows' \in [StorageIds -> Buckets]
       /\ \A id \in StorageIds : refs'[id] # 0 =>
            rows'[id] = (IF alloc THEN [rows EXCEPT ![handle] = Merged(Older, newer, drop)]
                         ELSE rows)[id]
  <2> DEFINE contents == IF alloc THEN [rows EXCEPT ![handle] = Merged(Older, newer, drop)] ELSE rows
  <2>1. contents \in [StorageIds -> Buckets]
    BY <1>10
  <2>2. rows' = Live(refs', contents)
    BY <1>5
  <2> HIDE DEF contents
  <2>3. /\ Live(refs', contents) \in [StorageIds -> Buckets]
        /\ \A id \in StorageIds : refs'[id] # 0 => Live(refs', contents)[id] = contents[id]
    BY <2>1, LiveType
  <2>4. /\ rows' \in [StorageIds -> Buckets]
        /\ \A id \in StorageIds : refs'[id] # 0 => rows'[id] = contents[id]
    BY <2>2, <2>3
  <2>5. QED
    BY <2>4 DEF contents
<1>12. cand' \in Clones /\ cand' # NoList
  BY <1>2, <1>4, <1>5, <1>7, HandlesAssumption DEF Clones
<1>13. Types'
  BY <1>1, <1>2, <1>9, <1>11, <1>12 DEF Types
<1>14. ASSUME NEW id \in StorageIds
       PROVE  refs'[id] = Held(list', id) + Held(cand', id) + (IF fresh' = id THEN 1 ELSE 0)
                            + Pinned(views', id)
  <2>1. HandedOverRefs[id] = Held(list, id) + Held(HandedOver, id)
                               + (IF fresh = id THEN 1 ELSE 0) + Pinned(views, id)
    BY <1>3 DEF Exact
  <2>2. Held(cand', id) = Held(HandedOver, id) + (IF handle = id THEN 1 ELSE 0)
    <3>1. /\ cand'.curr = HandedOver.curr /\ cand'.snap = HandedOver.snap
          /\ cand'.next = [HandedOver.next EXCEPT ![at] = cand'.next[at]]
          /\ cand'.next[at] = handle
          /\ HandedOver.next[at] = NoMerge
      BY <1>2, <1>4, <1>5, <1>1 DEF Clones, Types
    <3>2. HandedOver.next \in [Levels -> Slots] /\ cand'.next \in [Levels -> Slots]
      BY <1>4, <1>12 DEF Clones, Slots
    <3>3. NoMerge # id /\ HandedOver # NoList
      BY <1>4, HandlesAssumption DEF Handles
    <3>4. Count(cand'.next, id) = Count(HandedOver.next, id) - (IF HandedOver.next[at] = id THEN 1 ELSE 0)
                                                           + (IF cand'.next[at] = id THEN 1 ELSE 0)
      BY <1>2, <3>1, <3>2, CountUpdate
    <3>5. /\ Count(HandedOver.curr, id) \in Nat /\ Count(HandedOver.snap, id) \in Nat
          /\ Count(HandedOver.next, id) \in Nat
      BY CountType
    <3>6. /\ Held(cand', id) = Count(cand'.curr, id) + Count(cand'.snap, id) + Count(cand'.next, id)
          /\ Held(HandedOver, id) = Count(HandedOver.curr, id) + Count(HandedOver.snap, id)
                                       + Count(HandedOver.next, id)
      BY <1>12, <3>3 DEF Held
    <3>7. Count(cand'.next, id) = Count(HandedOver.next, id) + (IF handle = id THEN 1 ELSE 0)
      BY <3>1, <3>3, <3>4, <3>5
    <3>8. Count(cand'.curr, id) = Count(HandedOver.curr, id)
          /\ Count(cand'.snap, id) = Count(HandedOver.snap, id)
      BY <3>1
    <3>9. QED
      BY <3>5, <3>6, <3>7, <3>8
  <2>3. /\ Held(list, id) \in Nat /\ Held(HandedOver, id) \in Nat /\ Pinned(views, id) \in Nat
    BY HeldType, PinnedType
  <2>4. list' = list /\ views' = views /\ fresh' = fresh
    BY <1>1
  <2>5. QED
    BY <1>9, <2>1, <2>2, <2>3, <2>4
<1>15. ASSUME NEW id \in StorageIds, HandedOverRefs[id] # 0
       PROVE  rows'[id] = rows[id]
  <2>1. HandedOverRefs[id] \in Nat
    BY <1>3, AliveIsCounted
  <2>2. refs'[id] # 0
    BY <1>9, <1>15, <2>1
  <2>3. alloc => id # handle
    BY <1>7, <1>15
  <2>4. QED
    BY <1>1, <1>11, <2>2, <2>3 DEF Types
<1>16. cand'.next[at] = handle /\ handle # NoMerge
  BY <1>2, <1>4, <1>5, <1>7, HandlesAssumption DEF Clones
<1>17. Behind(rows', handle) = Merged(Older, newer, drop)
  <2>1. ASSUME handle \in StorageIds
        PROVE  rows'[handle] = IF alloc THEN Merged(Older, newer, drop) ELSE rows[handle]
    <3>1. HandedOverRefs[handle] \in Nat
      BY <1>3, <2>1, AliveIsCounted
    <3>2. refs'[handle] # 0
      BY <1>9, <2>1, <3>1
    <3>3. QED
      BY <1>1, <1>11, <2>1, <3>2 DEF Types
  <2>2. rows \in [StorageIds -> Buckets]
    BY <1>1 DEF Types
  <2>3. QED
    BY <1>5, <1>6, <2>1, <2>2, MergeResultFilled DEF alloc, handle
<1>18. Behind(rows', cand'.next[at]) = Merged(Older, HandedOver.snap[at - 1], at = Last)
  BY <1>16, <1>17 DEF newer, drop
<1>19. QED
  BY <1>13, <1>14, <1>15, <1>16, <1>18 DEF IInv, Exact

LEMMA FinishCounts ==
    ASSUME IInv, Finish
    PROVE  /\ IInv'
           /\ \A id \in StorageIds : refs[id] # 0 /\ refs'[id] # 0 => rows'[id] = rows[id]
           /\ Behind(rows', list'.curr[0]) = Merged(cand.curr[0], fresh, Depth = 1)
<1>1. /\ Types /\ Exact(refs, list, cand, fresh, views)
      /\ at = 0 /\ at' = Depth /\ cand' = NoList /\ fresh' = Null /\ seq' = seq + 1
      /\ views' = views /\ input' = Stored(fresh)
  BY DEF IInv, Finish
<1>2. 0 \in Levels /\ at # Depth /\ cand \in Clones /\ cand # NoList
      /\ refs \in [StorageIds -> Int] /\ rows \in [StorageIds -> Buckets]
  BY <1>1, LevelFacts, DepthAssumption DEF Types
<1> DEFINE older == cand.curr[0]
           drop == Depth = 1
           alloc == Allocates(older, fresh, drop)
           handle == MergeResult(refs, older, fresh, drop)
           kept == Retain(refs, handle)
           shown == Release(kept, older)
           counts == Release(shown, fresh)
<1>3. /\ list' = [cand EXCEPT !.curr[0] = handle]
      /\ refs' = ReleaseAll(counts, list)
      /\ rows' = Live(refs', IF alloc THEN [rows EXCEPT ![handle] = Merged(older, fresh, drop)]
                             ELSE rows)
      /\ alloc => Room(refs)
  BY DEF Finish
<1>4. older \in Handles /\ fresh \in Handles /\ drop \in BOOLEAN
  BY <1>1, <1>2 DEF Types, Clones
<1>5. handle \in Handles /\ (alloc => handle \in StorageIds /\ refs[handle] = 0)
  <2> HIDE DEF older, drop
  <2>1. QED
    BY <1>3, <1>4, MergeResultFacts
<1>6. Merged(older, fresh, drop) \in Buckets
  <2> HIDE DEF older, drop
  <2>1. QED
    BY <1>2, <1>4, MergedType
<1>7. Stored(fresh) \in Buckets
  BY <1>2, StoredType
<1>8. cand.curr[0] = older
  OBVIOUS
<1> HIDE DEF older, drop, alloc, handle
<1>9. /\ kept \in [StorageIds -> Int]
      /\ \A id \in StorageIds : kept[id] = refs[id] + (IF handle = id THEN 1 ELSE 0)
  BY <1>2, RetainFacts
<1> HIDE DEF kept
<1>10. /\ shown \in [StorageIds -> Int]
       /\ \A id \in StorageIds : shown[id] = kept[id] - (IF older = id THEN 1 ELSE 0)
  BY <1>9, RetainFacts
<1> HIDE DEF shown
<1>11. /\ counts \in [StorageIds -> Int]
       /\ \A id \in StorageIds : counts[id] = shown[id] - (IF fresh = id THEN 1 ELSE 0)
  BY <1>10, RetainFacts
<1> HIDE DEF counts
<1>12. /\ refs' \in [StorageIds -> Int]
       /\ \A id \in StorageIds : refs'[id] = counts[id] - Held(list, id)
  BY <1>3, <1>11, RetainAllFacts
<1>13. (IF alloc THEN [rows EXCEPT ![handle] = Merged(older, fresh, drop)] ELSE rows)
         \in [StorageIds -> Buckets]
  BY <1>2, <1>5, <1>6
<1>14. /\ rows' \in [StorageIds -> Buckets]
       /\ \A id \in StorageIds : refs'[id] # 0 =>
            rows'[id] = (IF alloc THEN [rows EXCEPT ![handle] = Merged(older, fresh, drop)]
                         ELSE rows)[id]
  <2> DEFINE contents == IF alloc THEN [rows EXCEPT ![handle] = Merged(older, fresh, drop)] ELSE rows
  <2>1. contents \in [StorageIds -> Buckets]
    BY <1>13
  <2>2. rows' = Live(refs', contents)
    BY <1>3
  <2> HIDE DEF contents
  <2>3. /\ Live(refs', contents) \in [StorageIds -> Buckets]
        /\ \A id \in StorageIds : refs'[id] # 0 => Live(refs', contents)[id] = contents[id]
    BY <2>1, LiveType
  <2>4. /\ rows' \in [StorageIds -> Buckets]
        /\ \A id \in StorageIds : refs'[id] # 0 => rows'[id] = contents[id]
    BY <2>2, <2>3
  <2>5. QED
    BY <2>4 DEF contents
<1>15. list' \in Clones
  BY <1>2, <1>3, <1>5 DEF Clones
<1>16. seq' \in 0..MaxSeq
  BY <1>1, <1>2, MaxSeqAssumption DEF Types
<1>17. Types'
  BY <1>1, <1>7, <1>12, <1>14, <1>15, <1>16, DepthAssumption DEF Types, Handles
<1>18. ASSUME NEW id \in StorageIds
       PROVE  refs'[id] = Held(list', id) + Held(cand', id) + (IF fresh' = id THEN 1 ELSE 0)
                            + Pinned(views', id)
  <2>1. refs[id] = Held(list, id) + Held(cand, id) + (IF fresh = id THEN 1 ELSE 0)
                     + Pinned(views, id)
    BY <1>1 DEF Exact
  <2>2. Held(list', id) = Held(cand, id) - (IF older = id THEN 1 ELSE 0)
                                         + (IF handle = id THEN 1 ELSE 0)
    <3>1. /\ list'.snap = cand.snap /\ list'.next = cand.next
          /\ list'.curr = [cand.curr EXCEPT ![0] = list'.curr[0]]
          /\ list'.curr[0] = handle
      BY <1>2, <1>3 DEF Clones
    <3>2. cand.curr \in [Levels -> Slots] /\ list'.curr \in [Levels -> Slots]
      BY <1>2, <1>15 DEF Clones, Slots
    <3>3. Count(list'.curr, id) = Count(cand.curr, id) - (IF cand.curr[0] = id THEN 1 ELSE 0)
                                                       + (IF list'.curr[0] = id THEN 1 ELSE 0)
      BY <1>2, <3>1, <3>2, CountUpdate
    <3>4. /\ Count(cand.curr, id) \in Nat /\ Count(cand.snap, id) \in Nat
          /\ Count(cand.next, id) \in Nat
      BY CountType
    <3>5. /\ Held(list', id) = Count(list'.curr, id) + Count(list'.snap, id) + Count(list'.next, id)
          /\ Held(cand, id) = Count(cand.curr, id) + Count(cand.snap, id) + Count(cand.next, id)
      BY <1>2, <1>15, HandlesAssumption DEF Held
    <3>6. Count(list'.curr, id) = Count(cand.curr, id) - (IF older = id THEN 1 ELSE 0)
                                                       + (IF handle = id THEN 1 ELSE 0)
      BY <1>8, <3>1, <3>3
    <3>7. Count(list'.snap, id) = Count(cand.snap, id)
          /\ Count(list'.next, id) = Count(cand.next, id)
      BY <3>1
    <3>8. QED
      BY <3>4, <3>5, <3>6, <3>7
  <2>3. Held(cand', id) = 0 /\ fresh' # id
    BY <1>1, HandlesAssumption DEF Held
  <2>4. Held(list, id) \in Nat /\ Held(cand, id) \in Nat /\ Pinned(views, id) \in Nat
    BY HeldType, PinnedType
  <2>5. refs'[id] = refs[id] + (IF handle = id THEN 1 ELSE 0) - (IF older = id THEN 1 ELSE 0)
                      - (IF fresh = id THEN 1 ELSE 0) - Held(list, id)
    <3>1. refs[id] \in Int /\ Held(list, id) \in Int
      BY <1>2, <2>4
    <3>2. /\ kept[id] = refs[id] + (IF handle = id THEN 1 ELSE 0)
          /\ shown[id] = kept[id] - (IF older = id THEN 1 ELSE 0)
          /\ counts[id] = shown[id] - (IF fresh = id THEN 1 ELSE 0)
          /\ refs'[id] = counts[id] - Held(list, id)
      BY <1>9, <1>10, <1>11, <1>12
    <3>3. QED
      BY <3>1, <3>2
  <2>6. Pinned(views', id) = Pinned(views, id)
    BY <1>1
  <2>7. QED
    BY <2>1, <2>2, <2>3, <2>4, <2>5, <2>6
<1>19. ASSUME NEW id \in StorageIds, refs[id] # 0, refs'[id] # 0
       PROVE  rows'[id] = rows[id]
  BY <1>2, <1>5, <1>14, <1>19
<1>20. IInv'
  BY <1>17, <1>18 DEF IInv, Exact
<1>21. list'.curr[0] = handle /\ list' # NoList
  BY <1>2, <1>3, <1>15, HandlesAssumption DEF Clones
<1>22. Behind(rows', handle) = Merged(older, fresh, drop)
  <2>1. ASSUME handle \in StorageIds
        PROVE  rows'[handle] = IF alloc THEN Merged(older, fresh, drop) ELSE rows[handle]
    <3>1. Alive(handle, list', cand', fresh', views')
      BY <1>2, <1>21 DEF Alive, Points
    <3>2. Exact(refs', list', cand', fresh', views')
      BY <1>20 DEF IInv
    <3>3. refs'[handle] # 0
      BY <2>1, <3>1, <3>2, AliveIsCounted
    <3>4. QED
      BY <1>2, <1>14, <2>1, <3>3
  <2>2. QED
    BY <1>2, <1>3, <1>4, <2>1, MergeResultFilled DEF alloc, handle
<1>23. Behind(rows', list'.curr[0]) = Merged(cand.curr[0], fresh, Depth = 1)
  BY <1>21, <1>22 DEF older, drop
<1>24. QED
  BY <1>19, <1>20, <1>23

LEMMA OpenCounts ==
    ASSUME IInv, NEW v \in Views, OpenView(v)
    PROVE  IInv' /\ rows' = rows
<1>1. /\ Types /\ Exact(refs, list, cand, fresh, views)
      /\ views[v] = NoList /\ views' = [views EXCEPT ![v] = list]
      /\ refs' = RetainAll(refs, list) /\ UNCHANGED <<seq, list, rows, at, cand, fresh, input>>
  BY DEF IInv, OpenView
<1>2. Types'
  BY <1>1, RetainAllFacts DEF Types
<1>3. views'[v] = list /\ list # NoList /\ \A w \in Views \ {v} : views'[w] = views[w]
  BY <1>1, HandlesAssumption DEF Types
<1>4. ASSUME NEW id \in StorageIds
      PROVE  refs'[id] = Held(list', id) + Held(cand', id) + (IF fresh' = id THEN 1 ELSE 0)
                           + Pinned(views', id)
  <2>1. Pinned(views', id) = Pinned(views, id) + Held(views'[v], id)
    <3>1. views = [views' EXCEPT ![v] = NoList] /\ views' \in [Views -> Clones \cup {NoList}]
      BY <1>1 DEF Types
    <3>2. QED
      BY <1>3, <3>1, PinnedGrows
  <2>2. refs'[id] = refs[id] + Held(list, id)
    BY <1>1, RetainAllFacts DEF Types
  <2>3. /\ Held(list, id) \in Nat /\ Held(cand, id) \in Nat /\ Pinned(views, id) \in Nat
    BY HeldType, PinnedType
  <2>4. refs[id] = Held(list, id) + Held(cand, id) + (IF fresh = id THEN 1 ELSE 0)
                     + Pinned(views, id)
    BY <1>1 DEF Exact
  <2>5. list' = list /\ cand' = cand /\ fresh' = fresh
    BY <1>1
  <2>6. QED
    BY <1>3, <2>1, <2>2, <2>3, <2>4, <2>5
<1>5. QED
  BY <1>1, <1>2, <1>4 DEF IInv, Exact

LEMMA CloseCounts ==
    ASSUME IInv, NEW v \in Views, CloseView(v)
    PROVE  /\ IInv'
           /\ \A id \in StorageIds : refs'[id] # 0 => rows'[id] = rows[id]
<1>1. /\ Types /\ Exact(refs, list, cand, fresh, views)
      /\ views[v] # NoList /\ views' = [views EXCEPT ![v] = NoList]
      /\ refs' = ReleaseAll(refs, views[v]) /\ rows' = Live(refs', rows)
      /\ UNCHANGED <<seq, list, at, cand, fresh, input>>
  BY DEF IInv, CloseView
<1>2. /\ rows' \in [StorageIds -> Buckets]
      /\ \A id \in StorageIds : refs'[id] # 0 => rows'[id] = rows[id]
  BY <1>1, LiveType DEF Types
<1>3. refs' \in [StorageIds -> Int]
  BY <1>1, RetainAllFacts DEF Types
<1>4. Types'
  BY <1>1, <1>2, <1>3 DEF Types
<1>5. views'[v] = NoList /\ \A w \in Views \ {v} : views[w] = views'[w]
  BY <1>1 DEF Types
<1>6. ASSUME NEW id \in StorageIds
      PROVE  refs'[id] = Held(list', id) + Held(cand', id) + (IF fresh' = id THEN 1 ELSE 0)
                           + Pinned(views', id)
  <2>1. Pinned(views, id) = Pinned(views', id) + Held(views[v], id)
    <3>1. views' = [views EXCEPT ![v] = NoList] /\ views \in [Views -> Clones \cup {NoList}]
      BY <1>1 DEF Types
    <3>2. views[v] # NoList
      BY <1>1
    <3>3. QED
      BY <3>1, <3>2, PinnedGrows
  <2>2. refs'[id] = refs[id] - Held(views[v], id)
    BY <1>1, RetainAllFacts DEF Types
  <2>3. /\ Held(list, id) \in Nat /\ Held(cand, id) \in Nat /\ Pinned(views', id) \in Nat
        /\ Held(views[v], id) \in Nat
    BY HeldType, PinnedType
  <2>4. refs[id] = Held(list, id) + Held(cand, id) + (IF fresh = id THEN 1 ELSE 0)
                     + Pinned(views, id)
    BY <1>1 DEF Exact
  <2>5. list' = list /\ cand' = cand /\ fresh' = fresh
    BY <1>1
  <2>6. QED
    BY <2>1, <2>2, <2>3, <2>4, <2>5
<1>7. QED
  BY <1>2, <1>4, <1>6 DEF IInv, Exact

LEMMA SkipCounts ==
    ASSUME IInv, Skip
    PROVE  IInv' /\ rows' = rows
<1>1. at' \in 0..Depth /\ at' # Depth /\ at # Depth
  BY DepthAssumption DEF Skip, Last
<1>2. Types'
  BY <1>1 DEF Skip, IInv, Types
<1>3. Exact(refs, list, cand, fresh, views)'
  BY DEF Skip, IInv, Exact
<1>4. QED
  BY <1>2, <1>3 DEF Skip, IInv

LEMMA FailureCounts ==
    ASSUME IInv, SpillFails \/ FinishFails
    PROVE  /\ IInv'
           /\ \A id \in StorageIds : refs'[id] # 0 => rows'[id] = rows[id]
<1>1. CASE SpillFails
  <2>1. at \in 1..Last /\ Unwind(HandedOverRefs, HandedOver)
    BY <1>1 DEF SpillFails
  <2>2. /\ HandedOverRefs \in [StorageIds -> Int]
        /\ Exact(HandedOverRefs, list, HandedOver, fresh, views)
    BY <2>1, HandedOverCounts DEF IInv
  <2>3. QED
    BY <2>1, <2>2, UnwindCounts
<1>2. CASE FinishFails
  <2>1. Unwind(refs, cand)
    BY <1>2 DEF FinishFails
  <2>2. refs \in [StorageIds -> Int] /\ Exact(refs, list, cand, fresh, views)
    BY DEF IInv, Types
  <2>3. QED
    BY <2>1, <2>2, UnwindCounts
<1>3. QED
  BY <1>1, <1>2

LEMMA StepCounts == IInv /\ [AdvanceNext]_advanceVars => IInv'
<1> SUFFICES ASSUME IInv, [AdvanceNext]_advanceVars
             PROVE  IInv'
  OBVIOUS
<1>1. CASE \E batch \in Buckets : Begin(batch)
  BY <1>1, BeginCounts
<1>2. CASE Skip
  BY <1>2, SkipCounts
<1>3. CASE Spill
  BY <1>3, SpillCounts
<1>4. CASE SpillFails \/ FinishFails
  BY <1>4, FailureCounts
<1>5. CASE Finish
  BY <1>5, FinishCounts
<1>6. CASE \E v \in Views : OpenView(v)
  BY <1>6, OpenCounts
<1>7. CASE \E v \in Views : CloseView(v)
  BY <1>7, CloseCounts
<1>8. CASE UNCHANGED advanceVars
  <2>1. Types'
    BY <1>8 DEF advanceVars, IInv, Types
  <2>2. Exact(refs, list, cand, fresh, views)'
    BY <1>8 DEF advanceVars, IInv, Exact
  <2>3. QED
    BY <2>1, <2>2 DEF IInv
<1>9. QED
  BY <1>1, <1>2, <1>3, <1>4, <1>5, <1>6, <1>7, <1>8 DEF AdvanceNext

(* Types and exact counts hold in every state of the walk, for any readers and *)
(* clones, and every failure of a clone or a merge (list.zig 60-98).           *)
THEOREM CountsInvariant == AdvanceSpec => []IInv
<1>1. QED
  BY InitCounts, StepCounts, PTL DEF AdvanceSpec

(* Every storage is counted exactly as often as the list, the candidate,   *)
(* the fresh bucket and the views hold it, on every path of advance, its   *)
(* failures included: nothing held is freed and nothing is leaked.         *)
THEOREM RefsStayExact == AdvanceSpec => []RefsExact
<1>1. IInv => RefsExact
  BY HeldByViewsIsPinned DEF IInv, Exact, RefsExact
<1>2. QED
  BY <1>1, CountsInvariant, PTL

-----------------------------------------------------------------------------
(* What is held does not change. *)

(* The storage is in the list, or in a view, before and after the step. *)
Stays(id) ==
    \/ list' = list /\ Points(list, id)
    \/ \E v \in Views : views[v] # NoList /\ views'[v] = views[v] /\ Points(views[v], id)

LEMMA RowsStay ==
    ASSUME IInv, AdvanceNext, NEW id \in StorageIds, Stays(id)
    PROVE  rows'[id] = rows[id]
<1>1. IInv' /\ list # NoList /\ list' # NoList
  BY StepCounts, HandlesAssumption DEF IInv, Types
<1>2. refs[id] # 0
  <2>1. Alive(id, list, cand, fresh, views)
    BY <1>1 DEF Stays, Alive
  <2>2. QED
    BY <2>1, AliveIsCounted DEF IInv
<1>3. refs'[id] # 0
  <2>1. Alive(id, list', cand', fresh', views')
    BY <1>1 DEF Stays, Alive
  <2>2. Exact(refs', list', cand', fresh', views')
    BY <1>1 DEF IInv
  <2>3. QED
    BY <2>1, <2>2, AliveIsCounted
<1>4. CASE \E batch \in Buckets : Begin(batch)
  BY <1>2, <1>4, BeginCounts
<1>5. CASE Skip
  BY <1>5, SkipCounts
<1>6. CASE Spill
  <2>1. Alive(id, list, HandedOver, fresh, views)
    BY <1>1 DEF Stays, Alive
  <2>2. Exact(HandedOverRefs, list, HandedOver, fresh, views)
    BY <1>6, HandedOverCounts DEF IInv, Spill
  <2>3. HandedOverRefs[id] # 0
    BY <2>1, <2>2, AliveIsCounted
  <2>4. QED
    BY <1>6, <2>3, SpillCounts
<1>7. CASE SpillFails \/ FinishFails
  BY <1>3, <1>7, FailureCounts
<1>8. CASE Finish
  BY <1>2, <1>3, <1>8, FinishCounts
<1>9. CASE \E v \in Views : OpenView(v)
  BY <1>9, OpenCounts
<1>10. CASE \E v \in Views : CloseView(v)
  BY <1>3, <1>10, CloseCounts
<1>11. QED
  BY <1>4, <1>5, <1>6, <1>7, <1>8, <1>9, <1>10 DEF AdvanceNext

LEMMA SameRecords ==
    ASSUME NEW before, NEW after, NEW levels, NEW level \in Levels,
           \A id \in StorageIds : Points(levels, id) => after[id] = before[id]
    PROVE  /\ Behind(after, levels.curr[level]) = Behind(before, levels.curr[level])
           /\ Behind(after, levels.snap[level]) = Behind(before, levels.snap[level])
           /\ Behind(after, levels.next[level]) = Behind(before, levels.next[level])
<1>1. Behind(after, levels.curr[level]) = Behind(before, levels.curr[level])
  BY DEF Behind, Points
<1>2. Behind(after, levels.snap[level]) = Behind(before, levels.snap[level])
  BY DEF Behind, Points
<1>3. Behind(after, levels.next[level]) = Behind(before, levels.next[level])
  BY DEF Behind, Points
<1>4. QED
  BY <1>1, <1>2, <1>3

(* An open view keeps its clone. *)
LEMMA ViewsStay ==
    ASSUME IInv, AdvanceNext, NEW v \in Views, views[v] # NoList, views'[v] # NoList
    PROVE  views'[v] = views[v]
<1>1. CASE \E w \in Views : OpenView(w) \/ CloseView(w)
  BY <1>1 DEF OpenView, CloseView, IInv, Types
<1>2. CASE ~ \E w \in Views : OpenView(w) \/ CloseView(w)
  BY <1>2 DEF AdvanceNext, Begin, Skip, Spill, SpillFails, Finish, FinishFails, Unwind
<1>3. QED
  BY <1>1, <1>2

(* The records behind an open view do not change until it is closed,       *)
(* whatever advance, its failures and the other readers do: the storage it *)
(* shares is neither freed nor reused.                                     *)
THEOREM ViewsStayFrozen == AdvanceSpec => ViewsFrozen
<1> DEFINE Frozen(v) == views[v] # NoList /\ views'[v] # NoList => Seen(v)' = Seen(v)
<1>1. ASSUME IInv, AdvanceNext, NEW v \in Views, views[v] # NoList, views'[v] # NoList
      PROVE  Seen(v)' = Seen(v)
  <2>1. views'[v] = views[v]
    BY <1>1, ViewsStay
  <2>2. \A id \in StorageIds : Points(views[v], id) => rows'[id] = rows[id]
    BY <1>1, <2>1, RowsStay DEF Stays
  <2>3. ASSUME NEW level \in Levels
        PROVE  /\ Behind(rows', views[v].curr[level]) = Behind(rows, views[v].curr[level])
               /\ Behind(rows', views[v].snap[level]) = Behind(rows, views[v].snap[level])
               /\ Behind(rows', views[v].next[level]) = Behind(rows, views[v].next[level])
    BY <2>2, SameRecords
  <2>4. QED
    BY <2>1, <2>3 DEF Seen, Stored, Behind
<1>2. ASSUME IInv, [AdvanceNext]_advanceVars
      PROVE  [\A v \in Views : Frozen(v)]_advanceVars
  BY <1>1, <1>2
<1>3. QED
  BY <1>2, CountsInvariant, PTL DEF AdvanceSpec, ViewsFrozen

-----------------------------------------------------------------------------
(* The walk. *)

(* The list that handles stand for, given a sequence number and the        *)
(* records of every storage.                                               *)
Of(contents, n, levels) ==
    [seq  |-> n,
     curr |-> [level \in Levels |-> Behind(contents, levels.curr[level])],
     snap |-> [level \in Levels |-> Behind(contents, levels.snap[level])],
     next |-> [level \in Levels |-> IF levels.next[level] = NoMerge THEN NoMerge
                                    ELSE Behind(contents, levels.next[level])]]

LEMMA ValueIsOf ==
    /\ Value(list) = Of(rows, seq, list)
    /\ Value(list)' = Of(rows', seq', list')
    /\ Value(cand) = Of(rows, seq, cand)
    /\ Value(cand)' = Of(rows', seq', cand')
  BY DEF Value, Of, Stored, Behind

LEMMA SameValue ==
    ASSUME NEW before, NEW after, NEW n, NEW levels,
           \A id \in StorageIds : Points(levels, id) => after[id] = before[id]
    PROVE  Of(after, n, levels) = Of(before, n, levels)
<1>1. ASSUME NEW level \in Levels
      PROVE  Behind(after, levels.curr[level]) = Behind(before, levels.curr[level])
  BY SameRecords
<1>2. ASSUME NEW level \in Levels
      PROVE  Behind(after, levels.snap[level]) = Behind(before, levels.snap[level])
  BY SameRecords
<1>3. ASSUME NEW level \in Levels
      PROVE  Behind(after, levels.next[level]) = Behind(before, levels.next[level])
  BY SameRecords
<1>4. QED
  BY <1>1, <1>2, <1>3 DEF Of

LEMMA OfType ==
    ASSUME NEW contents \in [StorageIds -> Buckets], NEW n \in 0..MaxSeq, NEW levels \in Clones
    PROVE  IsList(Of(contents, n, levels))
<1>1. \A handle : Behind(contents, handle) \in Buckets
  BY EmptyType DEF Behind
<1>2. QED
  BY <1>1 DEF IsList, Of

(* How far the advance of a list is when the walk is at a level: the       *)
(* levels behind it are done, and the level itself has handed over its     *)
(* curr.                                                                   *)
Partway(from, n, reached) ==
    [seq  |-> from.seq,
     curr |-> [level \in Levels |->
                 IF level > reached THEN Promoted(from, n, level)
                 ELSE IF level = reached /\ ShouldSpill(n, level) THEN Empty
                 ELSE from.curr[level]],
     snap |-> [level \in Levels |->
                 IF level >= reached /\ ShouldSpill(n, level) THEN from.curr[level]
                 ELSE from.snap[level]],
     next |-> [level \in Levels |->
                 IF level > reached /\ Receives(n, level)
                 THEN Merge(MergeBase(n, level, Promoted(from, n, level)),
                            from.curr[level - 1], level = Last)
                 ELSE from.next[level]]]

(* At the last level nothing has happened yet. *)
LEMMA PartwayStart ==
    ASSUME NEW contents, NEW m, NEW levels, NEW n
    PROVE  Partway(Of(contents, m, levels), n, Last) = Of(contents, m, levels)
<1> DEFINE from == Of(contents, m, levels)
<1>1. ASSUME NEW level \in Levels
      PROVE  ~ (level > Last) /\ (level >= Last => level = Last)
  BY DepthAssumption DEF Levels, Last
<1>2. ~ ShouldSpill(n, Last)
  BY DEF ShouldSpill
<1>3. ASSUME NEW level \in Levels
      PROVE  /\ Partway(from, n, Last).curr[level] = from.curr[level]
             /\ Partway(from, n, Last).snap[level] = from.snap[level]
             /\ Partway(from, n, Last).next[level] = from.next[level]
  <2> HIDE DEF from
  <2>1. QED
    BY <1>1, <1>2 DEF Partway
<1>4. QED
  BY <1>3 DEF Partway, Of

(* A level that receives nothing is done. *)
LEMMA PartwaySkip ==
    ASSUME NEW from, NEW n, NEW reached \in 1..Last, ~ ShouldSpill(n, reached - 1)
    PROVE  Partway(from, n, reached - 1) = Partway(from, n, reached)
<1>1. ASSUME NEW level \in Levels
      PROVE  /\ Partway(from, n, reached - 1).curr[level] = Partway(from, n, reached).curr[level]
             /\ Partway(from, n, reached - 1).snap[level] = Partway(from, n, reached).snap[level]
             /\ Partway(from, n, reached - 1).next[level] = Partway(from, n, reached).next[level]
  <2>1. level \in Nat /\ reached \in Nat
    BY LevelFacts DEF Last
  <2>2. CASE level = reached
    BY <2>1, <2>2 DEF Partway, Promoted, Receives
  <2>3. CASE level = reached - 1
    BY <2>1, <2>3 DEF Partway
  <2>4. CASE level # reached /\ level # reached - 1
    <3>1. /\ level > reached - 1 <=> level > reached
          /\ level >= reached - 1 <=> level >= reached
      BY <2>1, <2>4
    <3>2. QED
      BY <2>4, <3>1 DEF Partway
  <2>5. QED
    BY <2>2, <2>3, <2>4
<1>2. QED
  BY <1>1 DEF Partway

(* The buckets that a level hands over, promotes and schedules. *)
LEMMA PartwaySpill ==
    ASSUME NEW from, NEW n, NEW reached \in 1..Last, ShouldSpill(n, reached - 1),
           NEW was, was = Partway(from, n, reached),
           NEW now, now.seq = was.seq,
           now = [seq |-> now.seq, curr |-> now.curr, snap |-> now.snap, next |-> now.next],
           now.curr = [was.curr EXCEPT ![reached - 1] = Empty,
                                       ![reached] = Promoted(from, n, reached)],
           now.snap = [was.snap EXCEPT ![reached - 1] = was.curr[reached - 1]],
           now.next = [was.next EXCEPT ![reached] =
                         Merge(MergeBase(n, reached, Promoted(from, n, reached)),
                               was.curr[reached - 1], reached = Last)]
    PROVE  now = Partway(from, n, reached - 1)
<1>1. reached \in Nat /\ reached - 1 \in Levels /\ reached \in Levels
      /\ \A level \in Levels : level \in Nat
  BY LevelFacts, DepthAssumption DEF Levels, Last
<1> DEFINE next == Partway(from, n, reached - 1)
<1>2. was.curr[reached - 1] = from.curr[reached - 1]
  BY <1>1 DEF Partway
<1>3. ASSUME NEW level \in Levels
      PROVE  now.curr[level] = next.curr[level]
  <2>1. now.curr[level] = IF level = reached THEN Promoted(from, n, reached)
                          ELSE IF level = reached - 1 THEN Empty ELSE was.curr[level]
    BY <1>1 DEF Partway
  <2>2. QED
    BY <1>1, <2>1 DEF Partway
<1>4. ASSUME NEW level \in Levels
      PROVE  now.snap[level] = next.snap[level]
  <2>1. now.snap[level] = IF level = reached - 1 THEN from.curr[level] ELSE was.snap[level]
    BY <1>1, <1>2 DEF Partway
  <2>2. QED
    BY <1>1, <2>1 DEF Partway
<1>5. ASSUME NEW level \in Levels
      PROVE  now.next[level] = next.next[level]
  <2>1. now.next[level] = IF level = reached
                          THEN Merge(MergeBase(n, reached, Promoted(from, n, reached)),
                                     from.curr[reached - 1], reached = Last)
                          ELSE was.next[level]
    BY <1>1, <1>2 DEF Partway
  <2>2. QED
    BY <1>1, <2>1 DEF Partway, Receives
<1>6. /\ now.curr = [level \in Levels |-> now.curr[level]]
      /\ now.snap = [level \in Levels |-> now.snap[level]]
      /\ now.next = [level \in Levels |-> now.next[level]]
  BY DEF Partway
<1>7. /\ now.curr = next.curr /\ now.snap = next.snap /\ now.next = next.next
  <2>1. /\ next.curr = [level \in Levels |-> next.curr[level]]
        /\ next.snap = [level \in Levels |-> next.snap[level]]
        /\ next.next = [level \in Levels |-> next.next[level]]
    BY DEF Partway
  <2> HIDE DEF next
  <2>2. now.curr = next.curr
    BY <1>3, <1>6, <2>1
  <2>3. now.snap = next.snap
    BY <1>4, <1>6, <2>1
  <2>4. now.next = next.next
    BY <1>5, <1>6, <2>1
  <2>5. QED
    BY <2>2, <2>3, <2>4
<1>8. now.seq = next.seq
  BY DEF Partway
<1>9. next = [seq |-> next.seq, curr |-> next.curr, snap |-> next.snap, next |-> next.next]
  BY DEF Partway
<1> HIDE DEF next
<1>10. now = next
  BY <1>7, <1>8, <1>9
<1>11. QED
  BY <1>10 DEF next

(* Level zero takes the batch: the advance is complete. *)
LEMMA PartwayEnd ==
    ASSUME NEW from, NEW n, NEW batch,
           NEW was, was = Partway(from, n, 0),
           NEW now, now = [seq  |-> n,
                           curr |-> [was.curr EXCEPT ![0] =
                                       Merge(was.curr[0], batch, Depth = 1)],
                           snap |-> was.snap,
                           next |-> was.next]
    PROVE  now = Advanced(from, n, batch)
<1>1. 0 \in Levels /\ \A level \in Levels : level \in Nat
  BY LevelFacts
<1>2. was.curr[0] = Promoted(from, n, 0)
  BY <1>1 DEF Partway, Promoted, Receives
<1>3. ASSUME NEW level \in Levels
      PROVE  now.curr[level] = Advanced(from, n, batch).curr[level]
  <2>1. now.curr[level] = IF level = 0 THEN Merge(Promoted(from, n, 0), batch, Depth = 1)
                          ELSE was.curr[level]
    BY <1>1, <1>2 DEF Partway
  <2>2. QED
    BY <1>1, <2>1 DEF Partway, Advanced
<1>4. now.curr = Advanced(from, n, batch).curr
  <2>1. now.curr = [level \in Levels |-> now.curr[level]]
    BY DEF Partway
  <2>2. Advanced(from, n, batch).curr
          = [level \in Levels |-> Advanced(from, n, batch).curr[level]]
    BY DEF Advanced
  <2>3. QED
    BY <1>3, <2>1, <2>2
<1>5. now.snap = Advanced(from, n, batch).snap
  BY <1>1 DEF Partway, Advanced
<1>6. now.next = Advanced(from, n, batch).next
  BY <1>1 DEF Partway, Advanced, Receives
<1>7. QED
  BY <1>4, <1>5, <1>6 DEF Advanced

-----------------------------------------------------------------------------
(* The walk implements the simultaneous update. *)

Walk == at # Depth => Value(cand) = Partway(Value(list), seq + 1, at)

LEMMA ListStays ==
    ASSUME IInv, AdvanceNext, list' = list, seq' = seq
    PROVE  Value(list)' = Value(list)
<1>1. \A id \in StorageIds : Points(list, id) => rows'[id] = rows[id]
  BY RowsStay DEF Stays
<1>2. Of(rows', seq, list) = Of(rows, seq, list)
  BY <1>1, SameValue
<1>3. QED
  BY <1>2, ValueIsOf

LEMMA BeginWalk ==
    ASSUME IInv, NEW batch \in Buckets, Begin(batch)
    PROVE  Walk'
<1>1. /\ at' = Last /\ cand' = list /\ seq' = seq /\ list' = list
      /\ AdvanceNext
  BY DEF Begin, AdvanceNext
<1>2. Value(cand)' = Value(list)'
  BY <1>1, ValueIsOf
<1>3. Partway(Value(list)', seq' + 1, at') = Value(list)'
  BY <1>1, PartwayStart, ValueIsOf
<1>4. QED
  BY <1>2, <1>3 DEF Walk

LEMMA SkipWalk ==
    ASSUME IInv, Walk, Skip
    PROVE  Walk'
<1>1. /\ at \in 1..Last /\ ~ ShouldSpill(seq + 1, at - 1) /\ at' = at - 1 /\ at # Depth
      /\ UNCHANGED <<seq, list, rows, cand>>
  BY DepthAssumption DEF Skip, Last
<1>2. Value(list)' = Value(list) /\ Value(cand)' = Value(cand)
  BY <1>1, ValueIsOf
<1>3. Partway(Value(list), seq + 1, at - 1) = Partway(Value(list), seq + 1, at)
  BY <1>1, PartwaySkip
<1>4. QED
  BY <1>1, <1>2, <1>3 DEF Walk

LEMMA ReaderWalk ==
    ASSUME IInv, Walk, NEW v \in Views, OpenView(v) \/ CloseView(v)
    PROVE  Walk'
<1>1. /\ UNCHANGED <<seq, list, at, cand>> /\ AdvanceNext
  BY DEF OpenView, CloseView, AdvanceNext
<1>2. Value(list)' = Value(list)
  BY <1>1, ListStays
<1>3. ASSUME at # Depth
      PROVE  Value(cand)' = Value(cand)
  <2>1. IInv' /\ cand # NoList /\ \A id \in StorageIds : refs'[id] # 0 => rows'[id] = rows[id]
    BY <1>3, OpenCounts, CloseCounts DEF IInv, Types
  <2>2. ASSUME NEW id \in StorageIds, Points(cand, id)
        PROVE  rows'[id] = rows[id]
    <3>1. Alive(id, list', cand', fresh', views')
      BY <1>1, <2>1, <2>2 DEF Alive
    <3>2. Exact(refs', list', cand', fresh', views')
      BY <2>1 DEF IInv
    <3>3. refs'[id] # 0
      BY <3>1, <3>2, AliveIsCounted
    <3>4. QED
      BY <2>1, <3>3
  <2>3. Of(rows', seq, cand) = Of(rows, seq, cand)
    BY <2>2, SameValue
  <2>4. QED
    BY <1>1, <2>3, ValueIsOf
<1>4. QED
  BY <1>1, <1>2, <1>3 DEF Walk

LEMMA SpillWalk ==
    ASSUME IInv, Walk, Spill
    PROVE  Walk'
<1>1. /\ Types /\ at \in 1..Last /\ at' = at - 1 /\ ShouldSpill(seq + 1, at - 1)
      /\ UNCHANGED <<seq, list, fresh, views>> /\ AdvanceNext
      /\ cand' = [HandedOver EXCEPT !.next[at] = cand'.next[at]]
  <2>1. HandedOver \in Clones
    BY HandedOverFields, DepthAssumption DEF IInv, Types, Spill, Last
  <2>2. QED
    BY <2>1 DEF IInv, Spill, AdvanceNext, Clones
<1>2. /\ at \in Levels /\ at - 1 \in Levels /\ at # at - 1 /\ at # Depth
      /\ 0 < at
  BY <1>1, LevelFacts, DepthAssumption DEF Levels, Last
<1>3. /\ HandedOver \in Clones
      /\ HandedOver.snap = [cand.snap EXCEPT ![at - 1] = cand.curr[at - 1]]
      /\ HandedOver.curr = [[cand.curr EXCEPT ![at - 1] = Null] EXCEPT ![at] =
                              IF cand.next[at] # NoMerge THEN cand.next[at]
                              ELSE cand.curr[at]]
      /\ HandedOver.next = [cand.next EXCEPT ![at] = NoMerge]
      /\ cand \in Clones /\ HandedOver # NoList
  BY <1>1, <1>2, HandedOverFields, HandlesAssumption DEF Types
<1> DEFINE from == Value(list)
           n == seq + 1
           was == Value(cand)
           kept == Of(rows, seq, HandedOver)
           now == Value(cand)'
<1>4. was = Partway(from, n, at)
  BY <1>2 DEF Walk
<1>5. ASSUME NEW id \in StorageIds, Points(HandedOver, id)
      PROVE  rows'[id] = rows[id]
  <2>1. Alive(id, list, HandedOver, fresh, views)
    BY <1>3, <1>5 DEF Alive
  <2>2. Exact(HandedOverRefs, list, HandedOver, fresh, views)
    BY <1>1, HandedOverCounts DEF IInv
  <2>3. HandedOverRefs[id] # 0
    BY <2>1, <2>2, AliveIsCounted
  <2>4. QED
    BY <2>3, SpillCounts
<1>6. Of(rows', seq, HandedOver) = kept
  BY <1>5, SameValue
<1>7. /\ cand'.next[at] # NoMerge
      /\ Behind(rows', cand'.next[at]) = Merged(Older, HandedOver.snap[at - 1], at = Last)
  BY SpillCounts
<1>8. was = Of(rows, seq, cand) /\ now = Of(rows', seq, cand')
  BY <1>1, ValueIsOf
<1>9. IsList(from)
  BY <1>1, ValueIsOf, OfType DEF Types
<1>10. Behind(rows, Null) = Empty
  BY HandlesAssumption DEF Behind
<1>11. HandedOver.snap[at - 1] = cand.curr[at - 1]
  BY <1>2, <1>3 DEF Clones
<1>12. Behind(rows, cand.curr[at - 1]) = was.curr[at - 1]
  BY <1>2, <1>8 DEF Of
<1>13. Behind(rows, HandedOver.curr[at]) = Promoted(from, n, at)
  <2>1. HandedOver.curr[at] = IF cand.next[at] # NoMerge THEN cand.next[at] ELSE cand.curr[at]
    BY <1>2, <1>3 DEF Clones
  <2>2. /\ was.curr[at] = Behind(rows, cand.curr[at])
        /\ was.next[at] = IF cand.next[at] = NoMerge THEN NoMerge ELSE Behind(rows, cand.next[at])
    BY <1>2, <1>8 DEF Of
  <2>3. Behind(rows, cand.next[at]) # NoMerge
    BY <1>1, EmptyType, NoMergeAssumption DEF Behind, Types
  <2>4. /\ was.curr[at] = IF ShouldSpill(n, at) THEN Empty ELSE from.curr[at]
        /\ was.next[at] = from.next[at]
    <3> HIDE DEF from, n, was
    <3>1. ~ (at > at)
      BY <1>1
    <3>2. QED
      BY <1>2, <1>4, <3>1 DEF Partway
  <2>5. Receives(n, at)
    BY <1>1, <1>2 DEF Receives
  <2> HIDE DEF from, n, was
  <2>6. CASE cand.next[at] # NoMerge
    BY <2>1, <2>2, <2>3, <2>4, <2>5, <2>6 DEF Promoted
  <2>7. CASE cand.next[at] = NoMerge
    BY <2>1, <2>2, <2>4, <2>5, <2>7 DEF Promoted
  <2>8. QED
    BY <2>6, <2>7
<1>14. Merged(Older, HandedOver.snap[at - 1], at = Last)
         = Merge(MergeBase(n, at, Promoted(from, n, at)), was.curr[at - 1], at = Last)
  BY <1>10, <1>11, <1>12, <1>13 DEF Merged, Older, MergeBase, Stored, Behind
<1> DEFINE merged == Merge(MergeBase(n, at, Promoted(from, n, at)), was.curr[at - 1], at = Last)
           promoted == Promoted(from, n, at)
<1>15. Behind(rows', cand'.next[at]) = merged
  BY <1>7, <1>14
<1>16. /\ cand'.curr = HandedOver.curr /\ cand'.snap = HandedOver.snap
       /\ \A level \in Levels \ {at} : cand'.next[level] = HandedOver.next[level]
  BY <1>1, <1>2, <1>3 DEF Clones
<1> HIDE DEF from, merged, promoted
<1>17. /\ now.curr = kept.curr /\ now.snap = kept.snap
       /\ \A level \in Levels \ {at} : now.next[level] = kept.next[level]
  <2>1. now.curr = Of(rows', seq, HandedOver).curr /\ now.snap = Of(rows', seq, HandedOver).snap
    BY <1>8, <1>16 DEF Of
  <2>2. \A level \in Levels \ {at} : now.next[level] = Of(rows', seq, HandedOver).next[level]
    BY <1>8, <1>16 DEF Of
  <2>3. QED
    BY <1>6, <2>1, <2>2
<1>18. now.curr = [was.curr EXCEPT ![at - 1] = Empty, ![at] = promoted]
  <2>1. kept.curr = [level \in Levels |->
                       IF level = at THEN promoted ELSE IF level = at - 1 THEN Empty
                       ELSE was.curr[level]]
    BY <1>2, <1>3, <1>8, <1>10, <1>13 DEF Of, promoted, Clones
  <2>2. was.curr = [level \in Levels |-> was.curr[level]]
    BY <1>8 DEF Of
  <2>3. QED
    BY <1>2, <1>17, <2>1, <2>2
<1>19. now.snap = [was.snap EXCEPT ![at - 1] = was.curr[at - 1]]
  <2>1. kept.snap = [level \in Levels |->
                       IF level = at - 1 THEN was.curr[at - 1] ELSE was.snap[level]]
    BY <1>2, <1>3, <1>8, <1>12 DEF Of, Clones
  <2>2. was.snap = [level \in Levels |-> was.snap[level]]
    BY <1>8 DEF Of
  <2>3. QED
    BY <1>2, <1>17, <2>1, <2>2
<1>20. now.next = [was.next EXCEPT ![at] = merged]
  <2>1. \A level \in Levels \ {at} : kept.next[level] = was.next[level]
    BY <1>2, <1>3, <1>8 DEF Of, Clones
  <2>2. now.next[at] = merged
    BY <1>2, <1>7, <1>8, <1>15 DEF Of
  <2>3. /\ now.next = [level \in Levels |-> now.next[level]]
        /\ was.next = [level \in Levels |-> was.next[level]]
    BY <1>8 DEF Of
  <2>4. QED
    BY <1>2, <1>17, <2>1, <2>2, <2>3
<1>21. /\ now.seq = was.seq
       /\ now = [seq |-> now.seq, curr |-> now.curr, snap |-> now.snap, next |-> now.next]
  BY <1>8 DEF Of
<1>22. now = Partway(from, n, at - 1)
  <2> HIDE DEF was, now, n
  <2>1. QED
    BY <1>1, <1>4, <1>18, <1>19, <1>20, <1>21, PartwaySpill DEF merged, promoted, n
<1>23. Value(list)' = Value(list)
  BY <1>1, ListStays
<1>24. QED
  BY <1>1, <1>22, <1>23 DEF Walk, from

LEMMA FinishAdvances ==
    ASSUME IInv, Walk, Finish
    PROVE  Value(list)' = Advanced(Value(list), seq + 1, Stored(fresh))
<1>1. /\ Types /\ at = 0 /\ seq' = seq + 1 /\ at # Depth /\ 0 \in Levels
      /\ \A id \in StorageIds : refs[id] # 0 /\ refs'[id] # 0 => rows'[id] = rows[id]
      /\ Behind(rows', list'.curr[0]) = Merged(cand.curr[0], fresh, Depth = 1)
      /\ IInv'
  BY FinishCounts, LevelFacts, DepthAssumption DEF IInv, Finish
<1>2. cand \in Clones /\ cand # NoList /\ list' \in Clones /\ list' # NoList
  BY <1>1, HandlesAssumption DEF Types, IInv
<1>3. /\ list'.snap = cand.snap /\ list'.next = cand.next
      /\ \A level \in Levels \ {0} : list'.curr[level] = cand.curr[level]
  BY <1>1, <1>2 DEF Finish, Clones
<1>4. ASSUME NEW id \in StorageIds, Points(cand, id), Points(list', id)
      PROVE  rows'[id] = rows[id]
  <2>1. Alive(id, list, cand, fresh, views) /\ Alive(id, list', cand', fresh', views')
    BY <1>2, <1>4 DEF Alive
  <2>2. Exact(refs, list, cand, fresh, views) /\ Exact(refs', list', cand', fresh', views')
    BY <1>1 DEF IInv
  <2>3. refs[id] # 0 /\ refs'[id] # 0
    BY <2>1, <2>2, AliveIsCounted
  <2>4. QED
    BY <1>1, <2>3
<1> DEFINE from == Value(list)
           n == seq + 1
           was == Value(cand)
           now == Value(list)'
           merged == Merge(was.curr[0], Stored(fresh), Depth = 1)
<1>5. was = Of(rows, seq, cand) /\ now = Of(rows', n, list')
  BY <1>1, ValueIsOf
<1>6. was = Partway(from, n, 0)
  BY <1>1 DEF Walk
<1>7. Behind(rows', list'.curr[0]) = merged
  <2>1. was.curr[0] = Stored(cand.curr[0])
    BY <1>1 DEF Value
  <2>2. QED
    BY <1>1, <2>1 DEF Merged
<1> HIDE DEF from, was, now, n, merged
<1>8. now.curr = [was.curr EXCEPT ![0] = merged]
  <2>1. ASSUME NEW level \in Levels, level # 0
        PROVE  now.curr[level] = was.curr[level]
    <3>1. list'.curr[level] \in StorageIds =>
            Points(cand, list'.curr[level]) /\ Points(list', list'.curr[level])
      BY <1>3, <2>1 DEF Points
    <3>2. Behind(rows', list'.curr[level]) = Behind(rows, cand.curr[level])
      BY <1>3, <1>4, <2>1, <3>1 DEF Behind
    <3>3. QED
      BY <1>5, <3>2 DEF Of
  <2>2. now.curr[0] = merged
    BY <1>1, <1>5, <1>7 DEF Of
  <2>3. /\ now.curr = [level \in Levels |-> now.curr[level]]
        /\ was.curr = [level \in Levels |-> was.curr[level]]
    BY <1>5 DEF Of
  <2>4. QED
    BY <1>1, <2>1, <2>2, <2>3
<1>9. ASSUME NEW level \in Levels
      PROVE  now.snap[level] = was.snap[level] /\ now.next[level] = was.next[level]
  <2>1. /\ list'.snap[level] \in StorageIds =>
             Points(cand, list'.snap[level]) /\ Points(list', list'.snap[level])
        /\ list'.next[level] \in StorageIds =>
             Points(cand, list'.next[level]) /\ Points(list', list'.next[level])
    BY <1>3 DEF Points
  <2>2. Behind(rows', list'.snap[level]) = Behind(rows, cand.snap[level])
    BY <1>3, <1>4, <2>1 DEF Behind
  <2>3. Behind(rows', list'.next[level]) = Behind(rows, cand.next[level])
    BY <1>3, <1>4, <2>1 DEF Behind
  <2>4. QED
    BY <1>3, <1>5, <2>2, <2>3 DEF Of
<1>10. now.snap = was.snap /\ now.next = was.next
  <2>1. /\ now.snap = [level \in Levels |-> now.snap[level]]
        /\ was.snap = [level \in Levels |-> was.snap[level]]
        /\ now.next = [level \in Levels |-> now.next[level]]
        /\ was.next = [level \in Levels |-> was.next[level]]
    BY <1>5 DEF Of
  <2>2. now.snap = was.snap
    BY <1>9, <2>1
  <2>3. now.next = was.next
    BY <1>9, <2>1
  <2>4. QED
    BY <2>2, <2>3
<1>11. now = [seq |-> n, curr |-> [was.curr EXCEPT ![0] = merged],
              snap |-> was.snap, next |-> was.next]
  <2>1. now = [seq |-> n, curr |-> now.curr, snap |-> now.snap, next |-> now.next]
    BY <1>5 DEF Of
  <2>2. QED
    BY <1>8, <1>10, <2>1
<1>12. now = Advanced(from, n, Stored(fresh))
  BY <1>6, <1>11, PartwayEnd DEF merged
<1>13. QED
  BY <1>12 DEF from, now, n

LEMMA StepWalk == IInv /\ Walk /\ [AdvanceNext]_advanceVars => Walk'
<1> SUFFICES ASSUME IInv, Walk, [AdvanceNext]_advanceVars
             PROVE  Walk'
  OBVIOUS
<1>1. CASE \E batch \in Buckets : Begin(batch)
  BY <1>1, BeginWalk
<1>2. CASE Skip
  BY <1>2, SkipWalk
<1>3. CASE Spill
  BY <1>3, SpillWalk
<1>4. CASE SpillFails \/ Finish \/ FinishFails
  BY <1>4 DEF Walk, SpillFails, Finish, FinishFails, Unwind
<1>5. CASE \E v \in Views : OpenView(v) \/ CloseView(v)
  BY <1>5, ReaderWalk
<1>6. CASE UNCHANGED advanceVars
  BY <1>6 DEF Walk, Value, Stored, advanceVars
<1>7. QED
  BY <1>1, <1>2, <1>3, <1>4, <1>5, <1>6 DEF AdvanceNext

(* The definitions of the abstract list are those of this one. *)
LEMMA SameSchedule ==
    /\ List!Levels = Levels /\ List!Last = Last
    /\ \A level : List!Half(level) = Half(level)
    /\ \A n, level : /\ List!ShouldSpill(n, level) = ShouldSpill(n, level)
                     /\ List!Receives(n, level) = Receives(n, level)
                     /\ List!MergeWithEmpty(n, level) = MergeWithEmpty(n, level)
  BY DEF List!Levels, List!Last, List!Half, List!ShouldSpill, List!Receives,
         List!MergeWithEmpty, Levels, Last, Half, ShouldSpill, Receives, MergeWithEmpty

LEMMA SameMerge ==
    /\ List!Empty = Empty /\ List!Buckets = Buckets
    /\ \A older, newer, drop : List!Merge(older, newer, drop) = Merge(older, newer, drop)
    /\ \A n, level, current : List!MergeBase(n, level, current) = MergeBase(n, level, current)
  BY SameSchedule
  DEF List!Empty, List!Buckets, List!Records, List!Merge, List!ValueOf, List!MergeBase,
      Empty, Buckets, Records, Merge, ValueOf, MergeBase

LEMMA SameAdvance ==
    ASSUME NEW l, NEW n, NEW batch
    PROVE  List!Advanced(l, n, batch) = Advanced(l, n, batch)
<1>1. \A level : List!Promoted(l, n, level) = Promoted(l, n, level)
  BY SameSchedule, SameMerge DEF List!Promoted, Promoted
<1>2. QED
  BY <1>1, SameSchedule, SameMerge DEF List!Advanced, Advanced

(* advance, with its sharing of storage, its failures at any level and its *)
(* readers, applies the batch to the whole list in one step or leaves the  *)
(* list as it was.                                                         *)
THEOREM AdvanceImplementsList == AdvanceSpec => ImplementsList
<1>1. AdvanceInit => List!Init /\ Walk
  <2> SUFFICES ASSUME AdvanceInit
               PROVE  List!Init /\ Walk
    OBVIOUS
  <2>1. Stored(Null) = Empty
    BY HandlesAssumption DEF Stored
  <2>2. Value(list) = NewList
    BY <2>1, DepthAssumption DEF AdvanceInit, EmptyList, Value, NewList, Levels
  <2>3. List!NewList = NewList
    BY SameSchedule, SameMerge DEF List!NewList, NewList
  <2>4. QED
    BY <2>2, <2>3, SameMerge DEF AdvanceInit, List!Init, Walk
<1>2. ASSUME IInv, Walk, [AdvanceNext]_advanceVars
      PROVE  [List!Next]_(List!vars)
  <2>1. CASE Finish
    <3>1. Value(list)' = List!Advanced(Value(list), seq + 1, Stored(fresh))
      BY <1>2, <2>1, FinishAdvances, SameAdvance
    <3>2. Stored(fresh) \in Buckets /\ input' = Stored(fresh) /\ seq # MaxSeq
      BY <1>2, <2>1, StoredType, DepthAssumption DEF IInv, Types, Finish
    <3>3. Value(list).seq = seq
      BY DEF Value
    <3>4. List!Advance(Value(list).seq + 1, Stored(fresh))
      BY <3>1, <3>2, <3>3 DEF List!Advance
    <3>5. QED
      BY <3>2, <3>4, SameMerge DEF List!Next
  <2>2. CASE AdvanceNext /\ ~ Finish
    <3>1. list' = list /\ seq' = seq /\ input' = input
      BY <2>2 DEF AdvanceNext, Begin, Skip, Spill, SpillFails, FinishFails, Unwind, OpenView, CloseView
    <3>2. Value(list)' = Value(list)
      BY <1>2, <2>2, <3>1, ListStays
    <3>3. QED
      BY <3>1, <3>2 DEF List!vars
  <2>3. CASE UNCHANGED advanceVars
    BY <2>3 DEF Value, Stored, advanceVars, List!vars
  <2>4. QED
    BY <1>2, <2>1, <2>2, <2>3
<1>3. QED
  BY <1>1, <1>2, StepWalk, CountsInvariant, PTL DEF AdvanceSpec, ImplementsList, List!Spec

=============================================================================

----------------------------- MODULE ListProofs -----------------------------
(***************************************************************************)
(* Proofs about lists as values (ListValue.tla) and about plans of their   *)
(* advances (FrontierPlan.tla), for every depth, every set of identities   *)
(* and values and every last sequence number.  The modules of proofs about *)
(* the list, the databases and the walk of list.zig all rest on these:     *)
(*   - NewListValid, AdvancedValid: a list that passes validate still does *)
(*     after an advance;                                                   *)
(*   - AdvancedReads: an advance applies its batch to what get returns;    *)
(*   - FinishedIsAdvanced: a plan whose jobs all have their results is the *)
(*     advance.                                                            *)
(***************************************************************************)
EXTENDS FrontierPlan, WellFoundedInduction, TLAPS

-----------------------------------------------------------------------------
(* Division. *)

(* The quotient and the remainder are the unique ones. *)
LEMMA QuotientUnique ==
    ASSUME NEW n \in Nat, NEW h \in Nat, h > 0,
           NEW q \in Nat, NEW r \in Nat, n = h * q + r, r < h
    PROVE  q = n \div h /\ r = n % h
  BY SMTT(20)

LEMMA QuotientRemainder ==
    ASSUME NEW n \in Nat, NEW h \in Nat, h > 0
    PROVE  /\ n \div h \in Nat
           /\ n % h \in Nat
           /\ n % h < h
           /\ n = h * (n \div h) + (n % h)
  BY SMTT(20)

LEMMA MultipleQuotient ==
    ASSUME NEW n \in Nat, NEW h \in Nat, h > 0, NEW q \in Nat, n = h * q
    PROVE  q = n \div h /\ n % h = 0
  BY SMTT(20)

(* Between two multiples of h the quotient does not change. *)
LEMMA QuotientStable ==
    ASSUME NEW n \in Nat, NEW h \in Nat, h > 0, (n + 1) % h # 0
    PROVE  (n + 1) \div h = n \div h
<1> DEFINE q == (n + 1) \div h
           r == (n + 1) % h
<1>1. q \in Nat /\ r \in Nat /\ r < h /\ n + 1 = h * q + r
  BY QuotientRemainder
<1>2. r - 1 \in Nat /\ n = h * q + (r - 1) /\ r - 1 < h
  BY <1>1
<1>3. QED
  BY <1>1, <1>2, QuotientUnique

(* A multiple of 4h is a multiple of h, and one before it the quotient by  *)
(* h is 3 modulo 4; of the other multiples of h that is false.             *)
LEMMA QuarterBoundary ==
    ASSUME NEW n \in Nat, NEW h \in Nat, h > 0, (n + 1) % h = 0
    PROVE  (n \div h) % 4 = 3 <=> (n + 1) % (4 * h) = 0
<1> DEFINE q == (n + 1) \div h
           t == (n + 1) \div (4 * h)
<1>1. q \in Nat /\ n + 1 = h * q
  BY QuotientRemainder
<1>2. q > 0
  BY <1>1
<1>3. n \div h = q - 1
  <2>1. q - 1 \in Nat /\ h - 1 \in Nat /\ h - 1 < h
    BY <1>1, <1>2
  <2>2. n = h * (q - 1) + (h - 1)
    <3>1. h * (q - 1) = h * q - h
      BY <1>1, Z3
    <3>2. QED
      BY <1>1, <3>1
  <2>3. QED
    BY <2>1, <2>2, QuotientUnique
<1>4. (q - 1) % 4 = 3 <=> q % 4 = 0
  BY <1>1, <1>2
<1>5. q % 4 = 0 => (n + 1) % (4 * h) = 0
  <2> SUFFICES ASSUME q % 4 = 0
               PROVE  (n + 1) % (4 * h) = 0
    OBVIOUS
  <2>1. q = 4 * (q \div 4) /\ q \div 4 \in Nat
    BY <1>1
  <2>2. n + 1 = (4 * h) * (q \div 4)
    <3>1. h * (4 * (q \div 4)) = (4 * h) * (q \div 4)
      BY <2>1, Z3
    <3>2. QED
      BY <1>1, <2>1, <3>1
  <2>3. 4 * h \in Nat /\ 4 * h > 0 /\ n + 1 \in Nat
    OBVIOUS
  <2>4. QED
    BY <2>1, <2>2, <2>3, MultipleQuotient
<1>6. (n + 1) % (4 * h) = 0 => q % 4 = 0
  <2> SUFFICES ASSUME (n + 1) % (4 * h) = 0
               PROVE  q % 4 = 0
    OBVIOUS
  <2>1. t \in Nat /\ n + 1 = (4 * h) * t
    BY QuotientRemainder
  <2>2. n + 1 = h * (4 * t)
    <3>1. h * (4 * t) = (4 * h) * t
      BY <2>1, Z3
    <3>2. QED
      BY <2>1, <3>1
  <2>3. 4 * t = q
    BY <2>1, <2>2, MultipleQuotient
  <2>4. QED
    BY <2>1, <2>3
<1>7. QED
  BY <1>3, <1>4, <1>5, <1>6

(* The next multiple of h after the interval of n is one of 4h exactly     *)
(* when the quotient of n is 3 modulo 4.                                   *)
LEMMA NextIntervalBoundary ==
    ASSUME NEW n \in Nat, NEW h \in Nat, h > 0
    PROVE  (n \div h) % 4 = 3 <=> ((n \div h) * h + h) % (4 * h) = 0
<1> DEFINE q == n \div h
           end == q * h + (h - 1)
<1>1. q \in Nat
  BY QuotientRemainder
<1>2. end \in Nat /\ h - 1 \in Nat /\ h - 1 < h
  <2>1. q * h \in Nat
    BY <1>1
  <2>. QED
    BY <2>1
<1>3. end = h * q + (h - 1)
  BY <1>1, Z3
<1>4. q = end \div h
  BY <1>1, <1>2, <1>3, QuotientUnique
<1>5. end + 1 = h * (q + 1)
  <2>1. h * (q + 1) = h * q + h
    BY <1>1, Z3
  <2>2. h * q \in Nat
    BY <1>1
  <2>. QED
    BY <1>3, <2>1, <2>2
<1>6. (end + 1) % h = 0
  <2>1. q + 1 \in Nat /\ end + 1 \in Nat
    BY <1>1, <1>2
  <2>. QED
    BY <1>5, <2>1, MultipleQuotient
<1>7. (end \div h) % 4 = 3 <=> (end + 1) % (4 * h) = 0
  BY <1>2, <1>6, QuarterBoundary
<1>8. end + 1 = q * h + h
  <2>1. q * h \in Nat
    BY <1>1
  <2>. QED
    BY <2>1
<1>. QED
  BY <1>4, <1>7, <1>8

LEMMA QuotientTimes ==
    ASSUME NEW n \in Nat, NEW h \in Nat, h > 0, n % h = 0
    PROVE  n = (n \div h) * h
<1> DEFINE q == n \div h
<1>1. q \in Nat /\ n % h \in Nat /\ n = h * q + (n % h)
  BY QuotientRemainder
<1>2. h * q = q * h /\ h * q \in Nat
  BY <1>1, Z3
<1>. QED
  BY <1>1, <1>2

-----------------------------------------------------------------------------
(* The schedule. *)

(* A level spills only when every level above it spills too. *)
LEMMA SpillsFromTheTop ==
    ASSUME NEW n \in Nat, NEW level \in Levels, level > 0, ShouldSpill(n, level)
    PROVE  ShouldSpill(n, level - 1)
<1>1. level - 1 \in Levels /\ level - 1 # Last
  BY DepthAssumption DEF Levels, Last
<1>2. Half(level - 1) \in Nat /\ Half(level - 1) > 0 /\ Half(level) = 4 * Half(level - 1)
  BY <1>1, HalfAssumption
<1>3. n % (4 * Half(level - 1)) = 0
  BY <1>2 DEF ShouldSpill
<1> DEFINE h == Half(level - 1)
           t == n \div (4 * h)
<1>4. t \in Nat /\ n = (4 * h) * t
  BY <1>2, <1>3, QuotientRemainder
<1>5. n = h * (4 * t)
  <2>1. h * (4 * t) = (4 * h) * t
    BY <1>2, <1>4, Z3
  <2>2. QED
    BY <1>4, <2>1
<1>6. n % h = 0
  <2>1. 4 * t \in Nat /\ h \in Nat /\ h > 0
    BY <1>2, <1>4
  <2> HIDE DEF h, t
  <2>2. QED
    BY <2>1, <1>5, MultipleQuotient
<1>7. QED
  BY <1>1, <1>6 DEF ShouldSpill

(* A pending result is promoted into a spilling level exactly when it was  *)
(* merged with the empty bucket.                                           *)
LEMMA PromotedMergeBase ==
    ASSUME NEW n \in Nat, NEW level \in Levels, Receives(n + 1, level)
    PROVE  MergeWithEmpty(n, level) <=> ShouldSpill(n + 1, level)
<1>1. level > 0 /\ level - 1 \in Levels
  BY DepthAssumption DEF Levels, Receives
<1>2. Half(level - 1) \in Nat /\ Half(level - 1) > 0 /\ Half(level) = 4 * Half(level - 1)
  BY <1>1, HalfAssumption
<1>3. (n + 1) % Half(level - 1) = 0
  BY DEF Receives, ShouldSpill
<1>4. (n \div Half(level - 1)) % 4 = 3 <=> (n + 1) % (4 * Half(level - 1)) = 0
  BY <1>2, <1>3, QuarterBoundary
<1>5. QED
  BY <1>1, <1>2, <1>4 DEF MergeWithEmpty, ShouldSpill

(* Until it is promoted, a pending result is recomputed from the same base.*)
LEMMA PendingMergeBase ==
    ASSUME NEW n \in Nat, NEW level \in Levels, level > 0, ~ Receives(n + 1, level)
    PROVE  MergeWithEmpty(n + 1, level) <=> MergeWithEmpty(n, level)
<1>1. level - 1 \in Levels /\ level - 1 # Last
  BY DepthAssumption DEF Levels, Last
<1>2. Half(level - 1) \in Nat /\ Half(level - 1) > 0
  BY <1>1, HalfAssumption
<1>3. (n + 1) % Half(level - 1) # 0
  BY <1>1 DEF Receives, ShouldSpill
<1>4. (n + 1) \div Half(level - 1) = n \div Half(level - 1)
  BY <1>2, <1>3, QuotientStable
<1>5. QED
  BY <1>4 DEF MergeWithEmpty

(* A level receives first when the level above reaches its half, and then  *)
(* not before twice that.                                                  *)
LEMMA ReceivesAtMultiples ==
    ASSUME NEW n \in Nat, NEW level \in Levels, level > 0
    PROVE  /\ Half(level - 1) \in Nat /\ Half(level - 1) > 0
           /\ Receives(n + 1, level) => n + 1 >= Half(level - 1)
           /\ n + 1 = Half(level - 1) => Receives(n + 1, level)
           /\ Receives(n + 1, level) /\ n >= Half(level - 1) => n + 1 >= 2 * Half(level - 1)
<1>1. level - 1 \in Levels /\ level - 1 # Last
  BY DepthAssumption DEF Levels, Last
<1> DEFINE h == Half(level - 1)
           q == (n + 1) \div h
<1>2. h \in Nat /\ h > 0
  BY <1>1, HalfAssumption
<1>3. Receives(n + 1, level) <=> (n + 1) % h = 0
  BY <1>1 DEF Receives, ShouldSpill
<1>4. n + 1 = h => (n + 1) % h = 0
  <2>1. h = h * 1
    BY <1>2
  <2>2. QED
    BY <1>2, <2>1, MultipleQuotient
<1>5. ASSUME (n + 1) % h = 0
      PROVE  n + 1 >= h /\ (n >= h => n + 1 >= 2 * h)
  <2>1. q \in Nat /\ n + 1 = h * q
    BY <1>2, <1>5, QuotientRemainder
  <2> HIDE DEF h, q
  <2>2. q = 0 \/ q = 1 \/ q >= 2
    BY <2>1
  <2>3. CASE q = 0
    BY <2>1, <2>3, <1>2
  <2>4. CASE q = 1
    <3>1. h * q = h
      BY <2>4, <1>2, Z3
    <3>2. QED
      BY <2>1, <3>1, <1>2
  <2>5. CASE q >= 2
    <3>1. q - 2 \in Nat /\ h * q = (2 * h) + (h * (q - 2))
      BY <2>1, <2>5, <1>2, Z3
    <3>2. h * (q - 2) >= 0
      BY <3>1, <1>2, Z3
    <3>3. h * (q - 2) \in Nat
      BY <3>1, <1>2
    <3>4. QED
      BY <2>1, <3>1, <3>2, <3>3, <1>2
  <2>6. QED
    BY <2>2, <2>3, <2>4, <2>5
<1>6. QED
  BY <1>2, <1>3, <1>4, <1>5

-----------------------------------------------------------------------------
(* Types. *)

(* What the proofs need of a list.  It may have fields beyond these.       *)
IsList(list) ==
    /\ list.seq \in 0..MaxSeq
    /\ list.curr \in [Levels -> Buckets]
    /\ list.snap \in [Levels -> Buckets]
    /\ list.next \in [Levels -> Buckets \cup {NoMerge}]

LEMMA LevelFacts ==
    /\ 0 \in Levels
    /\ Last \in Levels
    /\ \A level \in Levels : level \in Nat /\ level <= Last
    /\ \A level \in Levels : level > 0 => level - 1 \in Levels /\ level - 1 # Last
  BY DepthAssumption DEF Levels, Last

LEMMA EmptyType == Empty \in Buckets
  BY DEF Empty, Buckets, Records

LEMMA MergeType ==
    ASSUME NEW older \in Buckets, NEW newer \in Buckets, NEW drop \in BOOLEAN
    PROVE  Merge(older, newer, drop) \in Buckets
  BY DEF Merge, Buckets, Records, ValueOf

LEMMA PromotedType ==
    ASSUME NEW list, IsList(list), NEW n \in Nat, NEW level \in Levels
    PROVE  Promoted(list, n, level) \in Buckets /\ MergeBase(n, level, Promoted(list, n, level)) \in Buckets
  BY EmptyType DEF IsList, Promoted, MergeBase

LEMMA NewListType == NewList \in Lists
  BY EmptyType, MaxSeqAssumption DEF NewList, Lists

LEMMA ListsAreLists ==
    ASSUME NEW list \in Lists
    PROVE  IsList(list)
  BY DEF Lists, IsList

LEMMA AdvancedType ==
    ASSUME NEW list, IsList(list), list.seq # MaxSeq, NEW batch \in Buckets,
           NEW after, after = Advanced(list, list.seq + 1, batch)
    PROVE  IsList(after)
<1>1. list.seq \in Nat /\ list.seq + 1 \in Nat
  BY MaxSeqAssumption DEF IsList
<1>2. after.seq \in 0..MaxSeq
  BY MaxSeqAssumption DEF IsList, Advanced
<1>3. after.snap \in [Levels -> Buckets]
  BY DEF IsList, Advanced
<1>4. after.curr \in [Levels -> Buckets]
  <2>1. \A level \in Levels : Promoted(list, list.seq + 1, level) \in Buckets
    BY <1>1, PromotedType
  <2>2. Merge(Promoted(list, list.seq + 1, 0), batch, Depth = 1) \in Buckets
    BY <2>1, LevelFacts, MergeType
  <2>3. QED
    BY <2>1, <2>2 DEF Advanced
<1>5. after.next \in [Levels -> Buckets \cup {NoMerge}]
  <2>1. ASSUME NEW level \in Levels, Receives(list.seq + 1, level)
        PROVE  Merge(MergeBase(list.seq + 1, level, Promoted(list, list.seq + 1, level)),
                     list.curr[level - 1], level = Last) \in Buckets
    <3>1. list.curr[level - 1] \in Buckets
      BY <2>1, LevelFacts DEF Receives, IsList
    <3>2. QED
      BY <1>1, <3>1, PromotedType, MergeType
  <2>2. QED
    BY <2>1 DEF Advanced, IsList
<1>6. QED
  BY <1>2, <1>3, <1>4, <1>5 DEF IsList

-----------------------------------------------------------------------------
(* Validity. *)

LEMMA NewListValid == Valid(NewList)
<1>1. CurrShape(NewList) /\ SnapShape(NewList)
  BY DEF NewList, CurrShape, SnapShape
<1>2. PendingShape(NewList)
  <2>1. \A level \in Levels : level # 0 => Half(level - 1) > 0 /\ Half(level - 1) \in Nat
    BY LevelFacts, HalfAssumption
  <2>2. QED
    BY <2>1 DEF NewList, PendingShape
<1>3. NoTerminalTombstone(NewList)
  BY LevelFacts, SentinelAssumption DEF NewList, NoTerminalTombstone, Empty
<1>4. PendingExact(NewList)
  BY DEF NewList, PendingExact
<1>5. QED
  BY <1>1, <1>2, <1>3, <1>4 DEF Valid

LEMMA AdvancedShapes ==
    ASSUME NEW list, IsList(list), CurrShape(list), SnapShape(list), PendingShape(list),
           NEW batch \in Buckets,
           NEW after, after = Advanced(list, list.seq + 1, batch)
    PROVE  CurrShape(after) /\ SnapShape(after) /\ PendingShape(after)
<1>1. list.seq \in Nat /\ after.seq = list.seq + 1
  BY MaxSeqAssumption DEF IsList, Advanced
<1>2. CurrShape(after)
  <2> SUFFICES ASSUME NEW level \in Levels, level > 0, list.seq + 1 < 2 * Half(level - 1)
               PROVE  after.curr[level] = Empty
    BY <1>1 DEF CurrShape
  <2>1. Half(level - 1) \in Nat /\ Half(level - 1) > 0
    BY <1>1, ReceivesAtMultiples
  <2>2. list.curr[level] = Empty
    BY <1>1, <2>1 DEF CurrShape
  <2>3. ~ (Receives(list.seq + 1, level) /\ list.next[level] # NoMerge)
    BY <1>1, <2>1, ReceivesAtMultiples DEF PendingShape
  <2>4. after.curr[level] = Promoted(list, list.seq + 1, level)
    BY LevelFacts DEF Advanced
  <2>5. QED
    BY <2>2, <2>3, <2>4 DEF Promoted
<1>3. SnapShape(after)
  <2> SUFFICES ASSUME NEW level \in Levels, level = Last \/ list.seq + 1 < Half(level)
               PROVE  after.snap[level] = Empty
    BY <1>1 DEF SnapShape
  <2>1. ~ ShouldSpill(list.seq + 1, level)
    <3> SUFFICES ASSUME level # Last
                 PROVE  ~ ShouldSpill(list.seq + 1, level)
      BY DEF ShouldSpill
    <3>1. level + 1 \in Levels /\ level + 1 > 0 /\ (level + 1) - 1 = level
      BY DepthAssumption DEF Levels, Last
    <3>2. Half(level) \in Nat /\ (Receives(list.seq + 1, level + 1) => list.seq + 1 >= Half(level))
      BY <1>1, <3>1, ReceivesAtMultiples
    <3>3. QED
      BY <1>1, <3>1, <3>2 DEF Receives
  <2>2. level = Last \/ list.seq < Half(level)
    <3>1. Half(level) \in Nat
      BY HalfAssumption
    <3>2. QED
      BY <1>1, <3>1
  <2>3. QED
    BY <2>1, <2>2 DEF Advanced, SnapShape
<1>4. PendingShape(after)
  <2> SUFFICES ASSUME NEW level \in Levels
               PROVE  after.next[level] # NoMerge <=> level # 0 /\ list.seq + 1 >= Half(level - 1)
    BY <1>1 DEF PendingShape
  <2>1. CASE Receives(list.seq + 1, level)
    <3>1. level > 0 /\ list.seq + 1 >= Half(level - 1)
      BY <1>1, <2>1, ReceivesAtMultiples DEF Receives
    <3>2. list.curr[level - 1] \in Buckets
      BY <3>1, LevelFacts DEF IsList
    <3>3. MergeBase(list.seq + 1, level, Promoted(list, list.seq + 1, level)) \in Buckets
      BY <1>1, PromotedType
    <3>4. Merge(MergeBase(list.seq + 1, level, Promoted(list, list.seq + 1, level)),
                list.curr[level - 1], level = Last) \in Buckets
      BY <3>2, <3>3, MergeType
    <3>5. after.next[level] \in Buckets
      BY <2>1, <3>4 DEF Advanced
    <3>6. QED
      BY <3>1, <3>5, NoMergeAssumption
  <2>2. CASE ~ Receives(list.seq + 1, level)
    <3>1. after.next[level] = list.next[level]
      BY <2>2 DEF Advanced
    <3>2. CASE level = 0
      BY <3>1, <3>2 DEF PendingShape
    <3>3. CASE level # 0
      <4>1. level > 0
        BY <3>3, LevelFacts
      <4>2. Half(level - 1) \in Nat /\ list.seq + 1 # Half(level - 1)
        BY <1>1, <2>2, <4>1, ReceivesAtMultiples
      <4>3. QED
        BY <1>1, <3>1, <4>2 DEF PendingShape
    <3>4. QED
      BY <3>2, <3>3
  <2>3. QED
    BY <2>1, <2>2
<1>5. QED
  BY <1>2, <1>3, <1>4

LEMMA DroppedTombstones ==
    ASSUME NEW older, NEW newer, NEW drop \in BOOLEAN, drop, NEW k \in Keys
    PROVE  Merge(older, newer, drop)[k] # Tombstone
  BY SentinelAssumption DEF Merge, ValueOf

LEMMA AdvancedTerminal ==
    ASSUME NEW list, IsList(list), NoTerminalTombstone(list), PendingExact(list),
           NEW batch \in Buckets,
           NEW after, after = Advanced(list, list.seq + 1, batch)
    PROVE  NoTerminalTombstone(after)
<1> SUFFICES ASSUME NEW k \in Keys
             PROVE  after.curr[Last][k] # Tombstone
  BY DEF NoTerminalTombstone
<1>1. CASE Last = 0
  <2>1. Depth = 1
    BY <1>1, DepthAssumption DEF Last
  <2>2. after.curr[Last] = Merge(Promoted(list, list.seq + 1, 0), batch, Depth = 1)
    BY <1>1, <2>1, LevelFacts DEF Advanced
  <2>3. Merge(Promoted(list, list.seq + 1, 0), batch, Depth = 1)[k] # Tombstone
    BY <2>1, DroppedTombstones
  <2>4. QED
    BY <2>2, <2>3
<1>2. CASE Last # 0
  <2>1. after.curr[Last] = Promoted(list, list.seq + 1, Last)
    BY <1>2, LevelFacts DEF Advanced
  <2>2. ~ ShouldSpill(list.seq + 1, Last)
    BY DEF ShouldSpill
  <2>3. list.next[Last] # NoMerge => list.next[Last][k] # Tombstone
    <3>1. Merge(MergeBase(list.seq, Last, list.curr[Last]), list.snap[Last - 1], Last = Last)[k] # Tombstone
      BY DroppedTombstones
    <3>2. QED
      BY <1>2, <3>1, LevelFacts DEF PendingExact
  <2>4. QED
    BY <2>1, <2>2, <2>3 DEF Promoted, NoTerminalTombstone
<1>3. QED
  BY <1>1, <1>2

LEMMA AdvancedPending ==
    ASSUME NEW list, IsList(list), PendingExact(list), NEW batch \in Buckets,
           NEW after, after = Advanced(list, list.seq + 1, batch)
    PROVE  PendingExact(after)
<1>1. list.seq \in Nat /\ after.seq = list.seq + 1
  BY MaxSeqAssumption DEF IsList, Advanced
<1> SUFFICES ASSUME NEW level \in Levels \ {0}, after.next[level] # NoMerge
             PROVE  after.next[level] = Merge(MergeBase(list.seq + 1, level, after.curr[level]),
                                         after.snap[level - 1], level = Last)
  BY <1>1 DEF PendingExact, MergeBase, MergeWithEmpty
<1>2. level > 0 /\ level - 1 \in Levels
  BY LevelFacts
<1>3. after.curr[level] = Promoted(list, list.seq + 1, level)
  BY DEF Advanced
<1>4. CASE Receives(list.seq + 1, level)
  <2>1. after.snap[level - 1] = list.curr[level - 1]
    BY <1>2, <1>4 DEF Receives, Advanced
  <2>2. QED
    BY <1>3, <1>4, <2>1 DEF Advanced
<1>5. CASE ~ Receives(list.seq + 1, level)
  <2>1. ~ ShouldSpill(list.seq + 1, level - 1)
    BY <1>2, <1>5 DEF Receives
  <2>2. ~ ShouldSpill(list.seq + 1, level)
    BY <1>1, <1>2, <2>1, SpillsFromTheTop
  <2>3. after.next[level] = list.next[level] /\ after.snap[level - 1] = list.snap[level - 1]
    BY <1>2, <1>5, <2>1 DEF Advanced
  <2>4. after.curr[level] = list.curr[level]
    BY <1>3, <1>5, <2>2 DEF Promoted
  <2>5. MergeWithEmpty(list.seq + 1, level) <=> MergeWithEmpty(list.seq, level)
    BY <1>1, <1>2, <1>5, PendingMergeBase
  <2>6. QED
    BY <2>3, <2>4, <2>5 DEF PendingExact, MergeBase
<1>6. QED
  BY <1>4, <1>5

(* A list that passes the validation of a restore passes it after an       *)
(* advance.                                                                *)
LEMMA AdvancedValid ==
    ASSUME NEW list, IsList(list), Valid(list), NEW batch \in Buckets,
           NEW after, after = Advanced(list, list.seq + 1, batch)
    PROVE  Valid(after)
  BY AdvancedShapes, AdvancedTerminal, AdvancedPending DEF Valid

-----------------------------------------------------------------------------
(* Reads. *)

LEMMA LeastExists ==
    ASSUME NEW S, S \subseteq Nat, S # {}
    PROVE  \E least \in S : \A n \in S : least <= n
<1>1. PICK least \in S : \A n \in S : ~ (<<n, least>> \in OpToRel(<, Nat))
  BY WFMin, NatLessThanWellFounded
<1>2. \A n \in S : ~ (n < least)
  BY <1>1 DEF OpToRel
<1>3. least \in Nat /\ (\A n \in S : n \in Nat)
  OBVIOUS
<1>4. \A n \in S : least <= n
  BY <1>2, <1>3
<1>5. QED
  BY <1>4

(* A non-empty set of positions has a last one. *)
LEMMA LastExists ==
    ASSUME NEW n \in Nat, NEW S \in SUBSET (1..n), S # {}
    PROVE  \E i \in S : \A j \in S : j <= i
<1> DEFINE back == {n - i : i \in S}
<1>1. back \subseteq Nat /\ back # {}
  <2>1. \A i \in S : i \in 1..n
    OBVIOUS
  <2>2. \A i \in S : n - i \in Nat
    BY <2>1
  <2>. QED
    BY <2>2
<1>2. PICK least \in back : \A m \in back : least <= m
  BY <1>1, LeastExists
<1>3. PICK i \in S : least = n - i
  BY <1>2
<1>4. ASSUME NEW j \in S PROVE j <= i
  <2>1. n - j \in back
    OBVIOUS
  <2>2. n - i <= n - j
    BY <1>2, <1>3, <2>1
  <2>. QED
    BY <2>2
<1>. QED
  BY <1>4

(* Two functions that begin alike and go on alike end alike. *)
LEMMA SameFromZero ==
    ASSUME NEW n \in Nat, NEW f, NEW g, f[0] = g[0],
           \A i \in 1..n : f[i - 1] = g[i - 1] => f[i] = g[i]
    PROVE  \A i \in 0..n : f[i] = g[i]
<1> DEFINE wrong == {i \in 0..n : f[i] # g[i]}
<1> SUFFICES wrong = {}
  OBVIOUS
<1> SUFFICES ASSUME wrong # {} PROVE FALSE
  OBVIOUS
<1>1. wrong \subseteq Nat
  OBVIOUS
<1>2. PICK least \in wrong : \A i \in wrong : least <= i
  <2> HIDE DEF wrong
  <2>. QED
    BY <1>1, LeastExists
<1>3. least \in 1..n /\ least - 1 \in 0..n
  OBVIOUS
<1>4. least - 1 \notin wrong
  BY <1>2, <1>3
<1>. QED
  BY <1>3, <1>4

(* The same, counting down to one. *)
LEMMA SameToOne ==
    ASSUME NEW n \in Nat \ {0}, NEW f, NEW g, f[n] = g[n],
           \A i \in 1..(n - 1) : f[i + 1] = g[i + 1] => f[i] = g[i]
    PROVE  f[1] = g[1]
<1> DEFINE up(h) == [i \in 0..(n - 1) |-> h[n - i]]
<1>1. n - 1 \in Nat /\ up(f)[0] = up(g)[0]
  OBVIOUS
<1>2. ASSUME NEW i \in 1..(n - 1), up(f)[i - 1] = up(g)[i - 1]
      PROVE  up(f)[i] = up(g)[i]
  <2>1. n - i \in 1..(n - 1) /\ i - 1 \in 0..(n - 1) /\ i \in 0..(n - 1) /\ n - (i - 1) = (n - i) + 1
    OBVIOUS
  <2>2. f[(n - i) + 1] = g[(n - i) + 1]
    BY <1>2, <2>1
  <2>. QED
    BY <2>1, <2>2
<1>3. n - 1 \in 0..(n - 1) /\ up(f)[n - 1] = f[1] /\ up(g)[n - 1] = g[1]
  <2>1. n - (n - 1) = 1 /\ n - 1 \in 0..(n - 1)
    OBVIOUS
  <2>. QED
    BY <2>1
<1>4. \A i \in 0..(n - 1) : up(f)[i] = up(g)[i]
  <2> HIDE DEF up
  <2>. QED
    BY <1>1, <1>2, SameFromZero
<1>. QED
  BY <1>3, <1>4

LEMMA YoungestIsLeast ==
    ASSUME NEW levels, levels \subseteq Levels,
           NEW level \in levels, \A other \in levels : level <= other
    PROVE  Youngest(levels) = level
<1>1. \A one, other \in levels : one \in Nat /\ other \in Nat
  BY LevelFacts
<1>2. Youngest(levels) \in levels /\ \A other \in levels : Youngest(levels) <= other
  BY DEF Youngest
<1>3. QED
  BY <1>1, <1>2

(* The deciding level of an identity, if any level holds it. *)
LEMMA DecidingLevel ==
    ASSUME NEW list, NEW k \in Keys, NEW holder \in Levels, Found(list, holder, k) # Absent
    PROVE  \E level \in Levels :
             /\ Found(list, level, k) # Absent
             /\ \A above \in Levels : above < level => Found(list, above, k) = Absent
<1>1. Holding(list, k) \subseteq Nat /\ Holding(list, k) # {}
  BY LevelFacts DEF Holding
<1>2. PICK level \in Holding(list, k) : \A other \in Holding(list, k) : level <= other
  BY <1>1, LeastExists
<1>3. level \in Levels /\ Found(list, level, k) # Absent
  BY <1>2 DEF Holding
<1>4. ASSUME NEW above \in Levels, above < level
      PROVE  Found(list, above, k) = Absent
  BY <1>1, <1>2, <1>4, LevelFacts DEF Holding
<1>5. QED
  BY <1>3, <1>4

LEMMA GetDecided ==
    ASSUME NEW list, NEW k \in Keys, NEW level \in Levels, Found(list, level, k) # Absent,
           \A above \in Levels : above < level => Found(list, above, k) = Absent
    PROVE  Get(list, k) = ValueOf(Found(list, level, k))
<1>1. level \in Holding(list, k) /\ Holding(list, k) \subseteq Levels
  BY DEF Holding
<1>2. \A other \in Holding(list, k) : level <= other
  BY LevelFacts DEF Holding
<1>3. Youngest(Holding(list, k)) = level
  BY <1>1, <1>2, YoungestIsLeast
<1>4. QED
  BY <1>1, <1>3 DEF Get

LEMMA GetMissing ==
    ASSUME NEW list, NEW k \in Keys, \A level \in Levels : Found(list, level, k) = Absent
    PROVE  Get(list, k) = Absent
  BY DEF Get, Holding

LEMMA ContentsType ==
    ASSUME NEW list, IsList(list)
    PROVE  Contents(list) \in Buckets
<1>1. ASSUME NEW k \in Keys
      PROVE  Get(list, k) \in Records
  <2>1. CASE \A level \in Levels : Found(list, level, k) = Absent
    BY <2>1, GetMissing DEF Records
  <2>2. CASE \E level \in Levels : Found(list, level, k) # Absent
    <3>1. PICK level \in Levels :
                 /\ Found(list, level, k) # Absent
                 /\ \A above \in Levels : above < level => Found(list, above, k) = Absent
      BY <2>2, DecidingLevel
    <3>2. Found(list, level, k) \in Records
      BY DEF Found, IsList, Buckets
    <3>3. QED
      BY <3>1, <3>2, GetDecided DEF ValueOf, Records
  <2>3. QED
    BY <2>1, <2>2
<1>2. QED
  BY <1>1 DEF Contents, Buckets

(* Reads and validity are about the four fields of a list. *)
LEMMA SameFields ==
    ASSUME NEW one, NEW other,
           one.seq = other.seq, one.curr = other.curr,
           one.snap = other.snap, one.next = other.next
    PROVE  /\ Valid(one) <=> Valid(other)
           /\ Contents(one) = Contents(other)
           /\ \A n, batch : Advanced(one, n, batch) = Advanced(other, n, batch)
<1>1. \A level \in Levels, k \in Keys : Found(one, level, k) = Found(other, level, k)
  BY DEF Found
<1>2. \A k \in Keys : Holding(one, k) = Holding(other, k)
  BY <1>1 DEF Holding
<1>3. \A k \in Keys : Get(one, k) = Get(other, k)
  BY <1>2 DEF Get, Found
<1>4. Contents(one) = Contents(other)
  BY <1>3 DEF Contents
<1>5. CurrShape(one) <=> CurrShape(other)
  BY DEF CurrShape
<1>6. SnapShape(one) <=> SnapShape(other)
  BY DEF SnapShape
<1>7. PendingShape(one) <=> PendingShape(other)
  BY DEF PendingShape
<1>8. NoTerminalTombstone(one) <=> NoTerminalTombstone(other)
  BY DEF NoTerminalTombstone
<1>9. PendingExact(one) <=> PendingExact(other)
  BY DEF PendingExact
<1>10. Valid(one) <=> Valid(other)
  BY <1>5, <1>6, <1>7, <1>8, <1>9 DEF Valid
<1>11. ASSUME NEW n, NEW batch
       PROVE  Advanced(one, n, batch) = Advanced(other, n, batch)
  <2>1. \A level \in Levels : Promoted(one, n, level) = Promoted(other, n, level)
    BY DEF Promoted
  <2>2. Promoted(one, n, 0) = Promoted(other, n, 0)
    BY DEF Promoted
  <2>3. QED
    BY <2>1, <2>2 DEF Advanced
<1>12. QED
  BY <1>4, <1>10, <1>11

LEMMA NewListEmpty ==
    ASSUME NEW k \in Keys
    PROVE  Get(NewList, k) = Absent
<1>1. \A level \in Levels : Found(NewList, level, k) = Absent
  BY DEF NewList, Found, Empty
<1>2. QED
  BY <1>1, GetMissing

-----------------------------------------------------------------------------
(* Where an advance moves the records of one identity. *)

LEMMA MergeEmptyBase ==
    ASSUME NEW newer \in Buckets, NEW drop \in BOOLEAN, ~ drop, NEW k \in Keys
    PROVE  Merge(Empty, newer, drop)[k] = newer[k]
  BY DEF Merge, Empty

LEMMA MergeEmpties ==
    ASSUME NEW drop \in BOOLEAN, NEW k \in Keys
    PROVE  Merge(Empty, Empty, drop)[k] = Absent
  BY SentinelAssumption DEF Merge, Empty, ValueOf

(* A level that spills holds what its upper neighbour had in snap; one     *)
(* that only receives merges it below its own curr.                        *)
LEMMA PromotionMoves ==
    ASSUME NEW list, IsList(list), Valid(list), NEW level \in Levels, Receives(list.seq + 1, level), NEW k \in Keys
    PROVE  /\ level > 0 /\ level - 1 \in Levels
           /\ ShouldSpill(list.seq + 1, level) =>
                Promoted(list, list.seq + 1, level)[k] = list.snap[level - 1][k]
           /\ ~ ShouldSpill(list.seq + 1, level) =>
                Promoted(list, list.seq + 1, level)[k] =
                  Merge(list.curr[level], list.snap[level - 1], level = Last)[k]
<1>1. level > 0 /\ level - 1 \in Levels /\ list.seq \in Nat
  BY LevelFacts, MaxSeqAssumption DEF Receives, IsList
<1>2. list.snap[level - 1] \in Buckets /\ list.curr[level] \in Buckets
  BY <1>1 DEF IsList
<1>3. CASE list.next[level] = NoMerge
  <2>1. Half(level - 1) \in Nat /\ Half(level - 1) > 0
    BY <1>1, ReceivesAtMultiples
  <2>2. list.seq < Half(level - 1)
    BY <1>1, <1>3, <2>1 DEF Valid, PendingShape
  <2>3. list.snap[level - 1] = Empty /\ list.curr[level] = Empty
    BY <1>1, <2>1, <2>2 DEF Valid, SnapShape, CurrShape
  <2>4. Promoted(list, list.seq + 1, level) = Empty
    BY <1>3, <2>3 DEF Promoted
  <2>5. Merge(list.curr[level], list.snap[level - 1], level = Last)[k] = Absent
    BY <2>3, MergeEmpties
  <2>6. QED
    BY <1>1, <2>3, <2>4, <2>5 DEF Empty
<1>4. CASE list.next[level] # NoMerge
  <2>1. Promoted(list, list.seq + 1, level) = list.next[level]
    BY <1>4 DEF Promoted
  <2>2. list.next[level] = Merge(MergeBase(list.seq, level, list.curr[level]), list.snap[level - 1], level = Last)
    BY <1>1, <1>4 DEF Valid, PendingExact
  <2>3. MergeWithEmpty(list.seq, level) <=> ShouldSpill(list.seq + 1, level)
    BY <1>1, PromotedMergeBase
  <2>4. CASE ShouldSpill(list.seq + 1, level)
    <3>1. list.next[level] = Merge(Empty, list.snap[level - 1], level = Last) /\ level # Last
      BY <2>2, <2>3, <2>4 DEF MergeBase, ShouldSpill
    <3>2. Merge(Empty, list.snap[level - 1], level = Last)[k] = list.snap[level - 1][k]
      BY <1>2, <3>1, MergeEmptyBase
    <3>3. QED
      BY <1>1, <2>1, <2>4, <3>1, <3>2
  <2>5. CASE ~ ShouldSpill(list.seq + 1, level)
    BY <1>1, <2>1, <2>2, <2>3, <2>5 DEF MergeBase
  <2>6. QED
    BY <2>4, <2>5
<1>5. QED
  BY <1>3, <1>4

LEMMA SnapMoves ==
    ASSUME NEW list, NEW batch,
           NEW after, after = Advanced(list, list.seq + 1, batch), NEW level \in Levels
    PROVE  after.snap[level] = IF ShouldSpill(list.seq + 1, level)
                               THEN list.curr[level] ELSE list.snap[level]
  BY DEF Advanced

(* The deeper levels, whatever the batch.  Only the last level drops       *)
(* tombstones, and nothing lies below it.                                  *)
LEMMA DeepCurrMoves ==
    ASSUME NEW list, IsList(list), Valid(list), NEW batch, NEW after, after = Advanced(list, list.seq + 1, batch),
           NEW level \in Levels, level > 0, NEW k \in Keys
    PROVE  after.curr[level][k] =
             IF ShouldSpill(list.seq + 1, level) THEN list.snap[level - 1][k]
             ELSE IF Receives(list.seq + 1, level) /\ list.snap[level - 1][k] # Absent
             THEN IF level = Last THEN ValueOf(list.snap[level - 1][k]) ELSE list.snap[level - 1][k]
             ELSE list.curr[level][k]
<1>1. after.curr[level] = Promoted(list, list.seq + 1, level)
  BY DEF Advanced
<1>2. list.seq + 1 \in Nat /\ level - 1 \in Levels
  BY LevelFacts, MaxSeqAssumption DEF IsList
<1>3. CASE Receives(list.seq + 1, level)
  <2>1. CASE ShouldSpill(list.seq + 1, level)
    BY <1>1, <1>3, <2>1, PromotionMoves
  <2>2. CASE ~ ShouldSpill(list.seq + 1, level)
    <3>1. after.curr[level][k] = Merge(list.curr[level], list.snap[level - 1], level = Last)[k]
      BY <1>1, <1>3, <2>2, PromotionMoves
    <3>2. level = Last => ValueOf(list.curr[level][k]) = list.curr[level][k]
      BY DEF Valid, NoTerminalTombstone, ValueOf
    <3>3. QED
      BY <1>3, <2>2, <3>1, <3>2 DEF Merge
  <2>3. QED
    BY <2>1, <2>2
<1>4. CASE ~ Receives(list.seq + 1, level)
  <2>1. ~ ShouldSpill(list.seq + 1, level)
    BY <1>2, <1>4, SpillsFromTheTop DEF Receives
  <2>2. QED
    BY <1>1, <1>4, <2>1 DEF Promoted
<1>5. QED
  BY <1>3, <1>4

LEMMA FirstCurrMoves ==
    ASSUME NEW list, IsList(list), Valid(list), NEW batch \in Buckets,
           NEW after, after = Advanced(list, list.seq + 1, batch), NEW k \in Keys
    PROVE  /\ batch[k] = Absent =>
                after.curr[0][k] = IF ShouldSpill(list.seq + 1, 0) THEN Absent ELSE list.curr[0][k]
           /\ batch[k] # Absent =>
                after.curr[0][k] = IF Depth = 1 THEN ValueOf(batch[k]) ELSE batch[k]
<1>1. after.curr[0] = Merge(Promoted(list, list.seq + 1, 0), batch, Depth = 1)
  BY LevelFacts DEF Advanced
<1>2. Promoted(list, list.seq + 1, 0)[k] = IF ShouldSpill(list.seq + 1, 0) THEN Absent ELSE list.curr[0][k]
  BY DEF Promoted, Receives, Empty
<1>3. Depth = 1 => ~ ShouldSpill(list.seq + 1, 0) /\ ValueOf(list.curr[0][k]) = list.curr[0][k]
  BY DEF ShouldSpill, Last, Valid, NoTerminalTombstone, ValueOf
<1>4. QED
  BY <1>1, <1>2, <1>3 DEF Merge

(* A batch that writes the identity decides the next read of it. *)
LEMMA GetWritten ==
    ASSUME NEW list, IsList(list), Valid(list), NEW batch \in Buckets,
           NEW after, after = Advanced(list, list.seq + 1, batch),
           SnapShape(after), NEW k \in Keys, batch[k] # Absent
    PROVE  Get(after, k) = ValueOf(batch[k])
<1>1. after.curr[0][k] = IF Depth = 1 THEN ValueOf(batch[k]) ELSE batch[k]
  BY FirstCurrMoves
<1>2. CASE after.curr[0][k] # Absent
  <2>1. Found(after, 0, k) = after.curr[0][k]
    BY <1>2 DEF Found
  <2>2. Get(after, k) = ValueOf(Found(after, 0, k))
    BY <1>2, <2>1, LevelFacts, GetDecided
  <2>3. QED
    BY <1>1, <2>1, <2>2 DEF ValueOf
<1>3. CASE after.curr[0][k] = Absent
  <2>1. Depth = 1 /\ ValueOf(batch[k]) = Absent
    BY <1>1, <1>3
  <2>2. Levels = {0} /\ Last = 0
    BY <2>1 DEF Levels, Last
  <2>3. after.snap[0][k] = Absent
    BY <2>2, LevelFacts DEF SnapShape, Empty
  <2>4. Found(after, 0, k) = Absent
    BY <1>3, <2>3 DEF Found
  <2>5. QED
    BY <2>1, <2>2, <2>4, GetMissing
<1>4. QED
  BY <1>2, <1>3

(* A batch that does not write the identity does not change what it reads. *)
LEMMA GetUnwritten ==
    ASSUME NEW list, IsList(list), Valid(list), NEW batch \in Buckets,
           NEW after, after = Advanced(list, list.seq + 1, batch),
           SnapShape(after), NEW k \in Keys, batch[k] = Absent
    PROVE  Get(after, k) = Get(list, k)
<1> DEFINE c(l) == list.curr[l][k]
           s(l) == list.snap[l][k]
           spills(l) == ShouldSpill(list.seq + 1, l)
<1>1. ASSUME NEW l \in Levels
      PROVE  /\ after.snap[l][k] = IF spills(l) THEN c(l) ELSE s(l)
             /\ l = 0 => after.curr[l][k] = IF spills(l) THEN Absent ELSE c(l)
             /\ l > 0 => after.curr[l][k] =
                  IF spills(l) THEN s(l - 1)
                  ELSE IF Receives(list.seq + 1, l) /\ s(l - 1) # Absent
                  THEN IF l = Last THEN ValueOf(s(l - 1)) ELSE s(l - 1)
                  ELSE c(l)
  <2>1. after.snap[l][k] = IF spills(l) THEN c(l) ELSE s(l)
    BY SnapMoves
  <2>2. l = 0 => after.curr[l][k] = IF spills(l) THEN Absent ELSE c(l)
    BY FirstCurrMoves
  <2>3. QED
    BY <2>1, <2>2, DeepCurrMoves
<1>2. \A l \in Levels :
        /\ (Found(list, l, k) = Absent) <=> (c(l) = Absent /\ s(l) = Absent)
        /\ (Found(after, l, k) = Absent) <=> (after.curr[l][k] = Absent /\ after.snap[l][k] = Absent)
  BY DEF Found
<1>3. \A l \in Levels : l \in Nat /\ l <= Last /\ (l > 0 => l - 1 \in Levels)
  BY LevelFacts
(* Above a level that has nothing above it, nothing appears. *)
<1>4. ASSUME NEW l \in Levels, \A m \in Levels : m < l => Found(list, m, k) = Absent
      PROVE  /\ \A m \in Levels : m < l => Found(after, m, k) = Absent
             /\ l > 0 => s(l - 1) = Absent
  <2>1. l > 0 => s(l - 1) = Absent
    BY <1>2, <1>3, <1>4
  <2>2. ASSUME NEW m \in Levels, m < l
        PROVE  Found(after, m, k) = Absent
    <3>1. c(m) = Absent /\ s(m) = Absent
      BY <1>2, <1>4, <2>2
    <3>2. ASSUME m > 0
          PROVE  s(m - 1) = Absent
      <4>1. m - 1 \in Levels /\ m - 1 < l
        BY <1>3, <2>2, <3>2
      <4>2. Found(list, m - 1, k) = Absent
        BY <1>4, <4>1
      <4>3. QED
        BY <1>2, <4>1, <4>2
    <3>3. QED
      BY <1>1, <1>2, <1>3, <3>1, <3>2
  <2>3. QED
    BY <2>1, <2>2
<1>5. CASE \A l \in Levels : Found(list, l, k) = Absent
  <2>1. ASSUME NEW l \in Levels
        PROVE  Found(after, l, k) = Absent
    BY <1>1, <1>2, <1>3, <1>5
  <2>2. QED
    BY <1>5, <2>1, GetMissing
<1>6. CASE \E l \in Levels : Found(list, l, k) # Absent
  <2>1. PICK l \in Levels : /\ Found(list, l, k) # Absent
                            /\ \A m \in Levels : m < l => Found(list, m, k) = Absent
    BY <1>6, DecidingLevel
  <2>2. Get(list, k) = ValueOf(Found(list, l, k))
    BY <2>1, GetDecided
  <2>3. \A m \in Levels : m < l => Found(after, m, k) = Absent
    BY <1>4, <2>1
  <2>4. l > 0 => s(l - 1) = Absent
    BY <1>4, <2>1
  <2>5. CASE c(l) # Absent \/ ~ spills(l)
    <3>1. Found(after, l, k) = Found(list, l, k)
      BY <1>1, <1>3, <2>1, <2>4, <2>5 DEF Found
    <3>2. QED
      BY <2>1, <2>2, <2>3, <3>1, GetDecided
  <2>6. CASE c(l) = Absent /\ spills(l)
    <3> DEFINE below == l + 1
    <3>1. s(l) # Absent /\ Found(list, l, k) = s(l)
      BY <2>1, <2>6 DEF Found
    <3>2. below \in Levels /\ below > 0 /\ below - 1 = l /\ Receives(list.seq + 1, below)
      BY <2>6, DepthAssumption DEF Levels, Last, ShouldSpill, Receives
    <3>3. after.curr[below][k] = IF below = Last THEN ValueOf(s(l)) ELSE s(l)
      BY <1>1, <3>1, <3>2 DEF ShouldSpill
    <3>4. after.curr[l][k] = Absent /\ after.snap[l][k] = Absent
      BY <1>1, <1>3, <2>4, <2>6
    <3>5. ASSUME NEW m \in Levels, m < below
          PROVE  Found(after, m, k) = Absent
      <4>1. m < l \/ m = l
        <5>1. m \in Nat /\ l \in Nat
          BY <1>3
        <5>2. QED
          BY <3>5, <5>1
      <4>2. CASE m < l
        BY <2>3, <4>2
      <4>3. CASE m = l
        BY <1>2, <3>4, <4>3
      <4>4. QED
        BY <4>1, <4>2, <4>3
    <3>6. CASE after.curr[below][k] # Absent
      <4>1. Found(after, below, k) = after.curr[below][k]
        BY <3>6 DEF Found
      <4>2. Get(after, k) = ValueOf(after.curr[below][k])
        BY <3>2, <3>5, <3>6, <4>1, GetDecided
      <4>3. QED
        BY <2>2, <3>1, <3>3, <4>2 DEF ValueOf
    <3>7. CASE after.curr[below][k] = Absent
      <4>1. below = Last /\ ValueOf(s(l)) = Absent
        BY <3>1, <3>3, <3>7
      <4>2. after.snap[below][k] = Absent
        BY <3>2, <4>1 DEF SnapShape, Empty
      <4>3. ASSUME NEW m \in Levels
            PROVE  Found(after, m, k) = Absent
        <5>1. m < below \/ m = below
          BY <1>3, <3>2, <4>1
        <5>2. CASE m = below
          BY <1>2, <3>7, <4>2, <5>2
        <5>3. QED
          BY <3>5, <5>1, <5>2
      <4>4. QED
        BY <2>2, <3>1, <4>1, <4>3, GetMissing
    <3>8. QED
      BY <3>6, <3>7
  <2>7. QED
    BY <2>5, <2>6
<1>7. QED
  BY <1>5, <1>6

(* Every advance applies its batch to the map that reads see. *)
LEMMA AdvancedReads ==
    ASSUME NEW list, IsList(list), Valid(list), NEW batch \in Buckets,
           NEW after, after = Advanced(list, list.seq + 1, batch), NEW k \in Keys
    PROVE  Get(after, k) = IF batch[k] = Absent THEN Get(list, k) ELSE ValueOf(batch[k])
<1>1. SnapShape(after)
  BY AdvancedShapes DEF Valid
<1>2. QED
  BY <1>1, GetWritten, GetUnwritten

-----------------------------------------------------------------------------
(* Plans. *)

(* With the result of every job, the plan is the advance. *)
LEMMA FinishedIsAdvanced ==
    ASSUME NEW list, NEW n, NEW fresh, NEW results,
           DOMAIN results = JobLevels(n),
           \A level \in JobLevels(n) : results[level] = Result(Job(list, n, fresh, level))
    PROVE  Finished(Candidate(list, n), results) = Advanced(list, n, fresh)
<1> DEFINE candidate == Candidate(list, n)
<1>1. 0 \in JobLevels(n)
  BY LevelFacts DEF JobLevels
<1>2. results[0] = Merge(Promoted(list, n, 0), fresh, Depth = 1)
  <2>1. results[0] = Merge(MergeBase(n, 0, Promoted(list, n, 0)), fresh, 0 = Last)
    BY <1>1 DEF Job, Result
  <2>2. MergeBase(n, 0, Promoted(list, n, 0)) = Promoted(list, n, 0)
    BY DEF MergeBase, MergeWithEmpty
  <2>3. (0 = Last) = (Depth = 1)
    BY DepthAssumption DEF Last
  <2>4. QED
    BY <2>1, <2>2, <2>3
<1>3. [candidate.curr EXCEPT ![0] = results[0]]
        = [level \in Levels |-> IF level = 0 THEN Merge(Promoted(list, n, 0), fresh, Depth = 1)
                                ELSE Promoted(list, n, level)]
  BY <1>2, LevelFacts DEF Candidate
<1>4. [level \in Levels |-> IF level \in DOMAIN results \ {0} THEN results[level]
                            ELSE candidate.next[level]]
        = [level \in Levels |->
             IF Receives(n, level)
             THEN Merge(MergeBase(n, level, Promoted(list, n, level)),
                        list.curr[level - 1], level = Last)
             ELSE list.next[level]]
  <2>1. ASSUME NEW level \in Levels
        PROVE  /\ level \in DOMAIN results \ {0} <=> Receives(n, level)
               /\ Receives(n, level) =>
                    results[level] = Merge(MergeBase(n, level, Promoted(list, n, level)),
                                           list.curr[level - 1], level = Last)
               /\ ~ Receives(n, level) => candidate.next[level] = list.next[level]
    <3>1. level \in DOMAIN results \ {0} <=> Receives(n, level)
      BY DEF JobLevels, Receives
    <3>2. Receives(n, level) => level \in JobLevels(n) /\ level # 0
      BY DEF JobLevels, Receives
    <3>3. QED
      BY <3>1, <3>2 DEF Job, Result, Candidate
  <2>2. QED
    BY <2>1
<1>5. candidate.seq = n
      /\ candidate.snap = [level \in Levels |->
            IF ShouldSpill(n, level) THEN list.curr[level] ELSE list.snap[level]]
  BY DEF Candidate
<1>6. QED
  BY <1>3, <1>4, <1>5 DEF Finished, Advanced

=============================================================================

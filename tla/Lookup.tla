------------------------------- MODULE Lookup -------------------------------
(***************************************************************************)
(* The read index of the store, src/src/store.zig: lookups and scans on    *)
(* several threads share a cache of sampled indexes that is bounded, kept  *)
(* in the order of use by a doubly linked list, and counted, so that an    *)
(* index which is evicted while a lookup uses it lives until that lookup   *)
(* lets it go.  Files come, are collected and come back, plain or          *)
(* compressed, while no call is in progress; one may be cut short on the   *)
(* disk at any time.                                                       *)
(*                                                                         *)
(* A bucket's content is its hash, so an answer is right when the bytes it *)
(* was parsed from are the plain bytes of the bucket.  What a step does    *)
(* under the cache's mutex is one step.                                    *)
(***************************************************************************)
EXTENDS Integers, Sequences, FiniteSets

CONSTANTS Hashes,          \* buckets
          Threads,         \* callers of lookupBucketIndexed and of scans
          MaxBuckets,      \* max_buckets, at least one
          Slots,           \* bound: indexes in memory at the same time
          CompressedSize,  \* of each bucket's compressed file; a plain one has PlainSize
          NoHash           \* of free memory, and of a thread without a call

ASSUME LookupAssumption ==
    /\ MaxBuckets \in Nat \ {0}
    /\ Slots \subseteq Nat \ {0}
    /\ CompressedSize \in [Hashes -> Nat]
    /\ IsFiniteSet(Hashes) /\ IsFiniteSet(Threads)
    /\ NoHash \notin Hashes

VARIABLES
    file,        \* what is stored under each name
    compressing, \* enableCompression was called
    index,       \* per slot of memory, [hash, refs]; no references: free
    map,         \* from hashes to slots
    list,        \* [newest, oldest, newer, older]
    recency,     \* history: the hashes in the map, last used first
    at, seeks, held, scans   \* per thread

cache == <<index, map, list, recency>>

threads == <<at, seeks, held, scans>>

lookupVars == <<file, compressing, cache, threads>>

Nil == 0

PlainSize == 3

(* What the content of a bucket leaves of its compressed form is any size, *)
(* the plain one included.                                                 *)
SizeOf(h) ==
    CASE file[h] = "plain" -> PlainSize
      [] file[h] = "compressed" -> CompressedSize[h]
      [] file[h] = "cut" -> 0

FreeSlot == [hash |-> NoHash, refs |-> 0]

EmptyIndex ==
    /\ index = [slot \in Slots |-> FreeSlot]
    /\ map = [h \in Hashes |-> Nil]
    /\ list = [newest |-> Nil, oldest |-> Nil,
               newer |-> [slot \in Slots |-> Nil], older |-> [slot \in Slots |-> Nil]]
    /\ recency = <<>>

LookupInit ==
    /\ file = [h \in Hashes |-> "absent"]
    /\ compressing \in BOOLEAN
    /\ EmptyIndex
    /\ at = [t \in Threads |-> "idle"]
    /\ seeks = [t \in Threads |-> NoHash]
    /\ held = [t \in Threads |-> Nil]
    /\ scans = [t \in Threads |-> FALSE]

-----------------------------------------------------------------------------
(* The list, and a plausible defect of it. *)
UnlinkLeavingOldest(l, slot) ==
    LET above == l.newer[slot]
        below == l.older[slot]
    IN  [newest |-> IF above = Nil THEN below ELSE l.newest,
         oldest |-> l.oldest,
         newer  |-> [s \in Slots |-> IF s = slot THEN Nil
                                     ELSE IF s = below THEN above ELSE l.newer[s]],
         older  |-> [s \in Slots |-> IF s = slot THEN Nil
                                     ELSE IF s = above THEN below ELSE l.older[s]]]

Unlink(l, slot) ==
    LET above == l.newer[slot]
        below == l.older[slot]
    IN  [newest |-> IF above = Nil THEN below ELSE l.newest,
         oldest |-> IF below = Nil THEN above ELSE l.oldest,
         newer  |-> [s \in Slots |-> IF s = slot THEN Nil
                                     ELSE IF s = below THEN above ELSE l.newer[s]],
         older  |-> [s \in Slots |-> IF s = slot THEN Nil
                                     ELSE IF s = above THEN below ELSE l.older[s]]]

Push(l, slot) ==
    [newest |-> slot,
     oldest |-> IF l.oldest = Nil THEN slot ELSE l.oldest,
     newer  |-> [s \in Slots |-> IF s = l.newest THEN slot ELSE l.newer[s]],
     older  |-> [l.older EXCEPT ![slot] = l.newest]]

Touch(l, slot) == IF l.newest = slot THEN l ELSE Push(Unlink(l, slot), slot)

(* A sequence of distinct hashes, one of them taken out. *)
Without(hashes, h) ==
    LET place == CHOOSE i \in DOMAIN hashes : hashes[i] = h
    IN  IF \E i \in DOMAIN hashes : hashes[i] = h
        THEN SubSeq(hashes, 1, place - 1) \o SubSeq(hashes, place + 1, Len(hashes))
        ELSE hashes

UsedNow(h) == <<h>> \o Without(recency, h)

Retained(slot) == [index EXCEPT ![slot].refs = @ + 1]

(* The last release frees the memory. *)
Released(indexes, slot) ==
    IF indexes[slot].refs = 1 THEN [indexes EXCEPT ![slot] = FreeSlot]
                              ELSE [indexes EXCEPT ![slot].refs = @ - 1]

-----------------------------------------------------------------------------
(* A thread goes on with its call; what it needs no longer is dropped.     *)
Proceed(t, place) ==
    /\ at' = [at EXCEPT ![t] = place]
    /\ seeks' = [seeks EXCEPT ![t] = IF place = "idle" THEN NoHash ELSE @]
    /\ scans' = [scans EXCEPT ![t] = scans[t] /\ place \notin {"idle", "install"}]

Call(t, place, h, scan) ==
    /\ at[t] = "idle"
    /\ at' = [at EXCEPT ![t] = place]
    /\ seeks' = [seeks EXCEPT ![t] = h]
    /\ scans' = [scans EXCEPT ![t] = scan]
    /\ UNCHANGED <<file, compressing, cache, held>>

(* lookupBucketIndexed, or a scan, which does not look at the index.       *)
StartLookup(t, h) == Call(t, "acquire", h, FALSE)

StartScan(t, h) == Call(t, "cold", h, TRUE)

(* A plausible defect: an index that is found is used uncounted. *)
AcquireUncounted(t) ==
    /\ at[t] = "acquire"
    /\ LET h == seeks[t]
       IN  IF map[h] = Nil
           THEN Proceed(t, "cold") /\ UNCHANGED <<cache, held>>
           ELSE /\ index' = index
                /\ list' = Touch(list, map[h])
                /\ recency' = UsedNow(h)
                /\ held' = [held EXCEPT ![t] = map[h]]
                /\ Proceed(t, "warm")
                /\ UNCHANGED map
    /\ UNCHANGED <<file, compressing>>

Acquire(t) ==
    /\ at[t] = "acquire"
    /\ LET h == seeks[t]
       IN  IF map[h] = Nil
           THEN Proceed(t, "cold") /\ UNCHANGED <<cache, held>>
           ELSE /\ index' = Retained(map[h])
                /\ list' = Touch(list, map[h])
                /\ recency' = UsedNow(h)
                /\ held' = [held EXCEPT ![t] = map[h]]
                /\ Proceed(t, "warm")
                /\ UNCHANGED map
    /\ UNCHANGED <<file, compressing>>

(* A plausible defect: the size is not compared. *)
OpenAndTrust(t) ==
    /\ at[t] = "warm"
    /\ Proceed(t, IF file[seeks[t]] = "absent" THEN "failing" ELSE "span")
    /\ UNCHANGED <<file, compressing, cache, held>>

(* The file is opened; only one of the verified size is trusted.  An index *)
(* has the plain size also when the file it was made from is compressed.   *)
OpenAndStat(t) ==
    /\ at[t] = "warm"
    /\ Proceed(t, IF file[seeks[t]] = "absent" THEN "failing"
               ELSE IF SizeOf(seeks[t]) = PlainSize THEN "span"
               ELSE "mismatch")
    /\ UNCHANGED <<file, compressing, cache, held>>

(* lookupSpan has read, and the index is let go; after a mismatch the      *)
(* whole bucket is verified.                                               *)
Release(t) ==
    /\ at[t] \in {"span", "mismatch", "failing"}
    /\ index' = Released(index, held[t])
    /\ held' = [held EXCEPT ![t] = Nil]
    /\ Proceed(t, IF at[t] = "mismatch" THEN "cold" ELSE "idle")
    /\ UNCHANGED <<file, compressing, map, list, recency>>

(* The whole bucket is read and verified. *)
Verify(t) ==
    /\ at[t] = "cold"
    /\ Proceed(t, CASE file[seeks[t]] \in {"absent", "cut"} -> "idle"
                 [] file[seeks[t]] = "plain" -> "install"
                 [] file[seeks[t]] = "compressed" ->
                      IF scans[t] THEN "idle" ELSE "install")
    /\ UNCHANGED <<file, compressing, cache, held>>

(* A bucket without records has no samples, and there may be no memory.    *)
InstallNothing(t) ==
    /\ at[t] = "install"
    /\ Proceed(t, "idle")
    /\ UNCHANGED <<file, compressing, cache, held>>

InstallExisting(t) ==
    /\ at[t] = "install" /\ map[seeks[t]] # Nil
    /\ list' = Touch(list, map[seeks[t]])
    /\ recency' = UsedNow(seeks[t])
    /\ Proceed(t, "idle")
    /\ UNCHANGED <<file, compressing, index, map, held>>

(* How many entries the map has once one is added. *)
Count == Cardinality({h \in Hashes : map[h] # Nil}) + 1

OverfullLate == Count > MaxBuckets + 1

Overfull == Count > MaxBuckets

(* Plausible defects of an eviction: the memory is freed whoever uses it;  *)
(* or the reference of the map is kept.                                    *)
EvictedFreeing(indexes, slot) == [indexes EXCEPT ![slot] = FreeSlot]

EvictedKeeping(indexes, slot) == indexes

Evicted(indexes, slot) == Released(indexes, slot)

(* A new index; the least recently used one goes when there are too many.  *)
Install(t, slot) ==
    /\ at[t] = "install" /\ map[seeks[t]] = Nil /\ index[slot].refs = 0
    /\ \A other \in Slots : index[other].refs = 0 => slot <= other
    /\ LET h      == seeks[t]
           added  == [index EXCEPT ![slot] = [hash |-> h, refs |-> 1]]
           mapped == [map EXCEPT ![h] = slot]
           pushed == Push(list, slot)
           victim == pushed.oldest
       IN  IF Overfull
           THEN /\ index' = Evicted(added, victim)
                /\ map' = [mapped EXCEPT ![added[victim].hash] = Nil]
                /\ list' = Unlink(pushed, victim)
                /\ recency' = Without(UsedNow(h), added[victim].hash)
           ELSE index' = added /\ map' = mapped /\ list' = pushed /\ recency' = UsedNow(h)
    /\ Proceed(t, "idle")
    /\ UNCHANGED <<file, compressing, held>>

-----------------------------------------------------------------------------
(* A bucket is put where there is none. *)
PutBucket(h) ==
    /\ file[h] = "absent"
    /\ file' = [file EXCEPT ![h] = IF compressing THEN "compressed" ELSE "plain"]
    /\ UNCHANGED <<compressing, cache, threads>>

(* The disk loses the end of a file. *)
CutShort(h) ==
    /\ file[h] # "absent"
    /\ file' = [file EXCEPT ![h] = "cut"]
    /\ UNCHANGED <<compressing, cache, threads>>

QuietThreads == \A t \in Threads : at[t] = "idle"

(* collect needs a store without calls in progress; it leaves the index.   *)
CollectBuckets(kept) ==
    /\ QuietThreads
    /\ \E h \in Hashes \ kept : file[h] # "absent"
    /\ file' = [h \in Hashes |-> IF h \in kept THEN file[h] ELSE "absent"]
    /\ UNCHANGED <<compressing, cache, threads>>

(* The slots that destroy comes through: the oldest, and the newer of each.*)
Followed(reached) ==
    /\ list.oldest # Nil => list.oldest \in reached
    /\ \A slot \in reached : list.newer[slot] # Nil => list.newer[slot] \in reached

Walked ==
    {slot \in Slots : \A reached \in SUBSET Slots : Followed(reached) => slot \in reached}

(* deinit destroys the cache; open and enableCompression follow.           *)
Reopen(compress) ==
    /\ QuietThreads
    /\ index' = [slot \in Slots |-> IF slot \in Walked THEN FreeSlot ELSE index[slot]]
    /\ map' = [h \in Hashes |-> Nil]
    /\ list' = [newest |-> Nil, oldest |-> Nil,
                newer |-> [slot \in Slots |-> Nil], older |-> [slot \in Slots |-> Nil]]
    /\ recency' = <<>>
    /\ compressing' = compress
    /\ UNCHANGED <<file, threads>>

ThreadStep(t) ==
    \/ \E h \in Hashes : StartLookup(t, h) \/ StartScan(t, h)
    \/ Acquire(t) \/ OpenAndStat(t) \/ Release(t) \/ Verify(t)
    \/ InstallNothing(t) \/ InstallExisting(t) \/ \E slot \in Slots : Install(t, slot)

LookupNext ==
    \/ \E t \in Threads : ThreadStep(t)
    \/ \E h \in Hashes : PutBucket(h) \/ CutShort(h)
    \/ \E kept \in SUBSET Hashes : CollectBuckets(kept)
    \/ \E compress \in BOOLEAN : Reopen(compress)

LookupSpec == LookupInit /\ [][LookupNext]_lookupVars

-----------------------------------------------------------------------------
(***************************************************************************)
(* CountsAreExact: the references of an index in memory are one for the    *)
(* map, if it is there, and one for every thread that holds it.  So an     *)
(* evicted index that is in use is not freed, and one that nobody uses is  *)
(* (store.zig 112-113, 174-192, 241-246).                                  *)
(***************************************************************************)
CountsAreExact ==
    \A slot \in Slots :
        index[slot].refs =
            Cardinality({t \in Threads : held[t] = slot})
            + (IF \E h \in Hashes : map[h] = slot THEN 1 ELSE 0)

(***************************************************************************)
(* HeldIsItsBucket: what a thread holds is the index of the bucket that it *)
(* looks up, though the memory it was found in may since have left the     *)
(* map, been freed and been given to another (store.zig 751-769).          *)
(***************************************************************************)
HeldIsItsBucket ==
    \A t \in Threads :
        held[t] # Nil => index[held[t]].refs > 0 /\ index[held[t]].hash = seeks[t]

(***************************************************************************)
(* CacheIsBounded: no more indexes are kept than the options allow.        *)
(***************************************************************************)
CacheIsBounded == Cardinality({h \in Hashes : map[h] # Nil}) <= MaxBuckets

(***************************************************************************)
(* ListIsRecency: the pointers, followed from either end, are the entries  *)
(* of the map in the order of their last use, through touches in the       *)
(* middle and evictions at the end, and no more than the options allow; so *)
(* the one evicted is the least recently used (store.zig 194-209,          *)
(* 237-246).                                                               *)
(***************************************************************************)
Ranked(i) == IF i \in DOMAIN recency THEN map[recency[i]] ELSE Nil

ListIsRecency ==
    /\ CacheIsBounded
    /\ {h \in Hashes : map[h] # Nil} = {recency[i] : i \in DOMAIN recency}
    /\ \A i, j \in DOMAIN recency : i # j => recency[i] # recency[j]
    /\ list.newest = Ranked(1) /\ list.oldest = Ranked(Len(recency))
    /\ \A i \in DOMAIN recency :
         /\ index[Ranked(i)].hash = recency[i]
         /\ list.older[Ranked(i)] = Ranked(i + 1)
         /\ list.newer[Ranked(i)] = Ranked(i - 1)

(***************************************************************************)
(* WarmReadsPlain: a lookup that was answered from a span has parsed plain *)
(* bytes, whatever was collected and put again in another form since the   *)
(* index was made, though cold lookups of compressed files make indexes    *)
(* too (store.zig 758, 807-810).  The one exception is what the comparison *)
(* of sizes cannot see: a compressed file of exactly the plain size.       *)
(***************************************************************************)
PlainOrUnseen(h, kind) ==
    \/ kind \in {"plain", "cut"}
    \/ kind = "compressed" /\ CompressedSize[h] = PlainSize

WarmReadsPlain ==
    \A t \in Threads : at[t] = "span" => PlainOrUnseen(seeks[t], file[seeks[t]])

=============================================================================

----------------------------- MODULE ListAdvance -----------------------------
(***************************************************************************)
(* List.advance of src/src/list.zig as it runs: a candidate clone of the   *)
(* list is rewritten level by level, from the last to the first, sharing   *)
(* reference-counted bucket storage (src/src/bucket.zig) with the list and *)
(* with the clones that readers hold; any merge may fail for want of       *)
(* memory, and then the candidate is dropped as far as it got.  Readers    *)
(* open and close their views between any two steps.                       *)
(*                                                                         *)
(* The schedule is that of ListValue.tla; the list it is shown to advance  *)
(* has the records behind the handles for its buckets.                     *)
(***************************************************************************)
EXTENDS ListValue, FiniteSets

CONSTANTS StorageIds,  \* bound: allocations that may be live at once
          Null,        \* the handle of a bucket without storage
          Views,       \* readers
          NoList       \* no candidate, or a view that is not open

(* The buckets of a list share storage: handles instead of buckets. *)
Handles == StorageIds \cup {Null}

Clones ==
    [curr : [Levels -> Handles],
     snap : [Levels -> Handles],
     next : [Levels -> Handles \cup {NoMerge}]]

ASSUME HandlesAssumption ==
    /\ Null \notin StorageIds
    /\ NoMerge \notin Handles
    /\ NoList \notin Clones

ASSUME ViewsAssumption == IsFiniteSet(Views)

VARIABLES seq,    \* of the list
          list,   \* [curr, snap, next] of handles, per level
          refs,   \* reference count of each storage
          rows,   \* its records
          at,     \* the level the walk is at; Depth when no advance runs
          cand,   \* the candidate clone
          fresh,  \* the handle of the bucket built from the batch
          views,  \* per reader, its clone
          input   \* history: the batch of the last advance that finished

advanceVars == <<seq, list, refs, rows, at, cand, fresh, views, input>>

(* The records behind a handle. *)
Stored(handle) == IF handle \in StorageIds THEN rows[handle] ELSE Empty

(* The list that the handles stand for. *)
Value(levels) ==
    [seq  |-> seq,
     curr |-> [level \in Levels |-> Stored(levels.curr[level])],
     snap |-> [level \in Levels |-> Stored(levels.snap[level])],
     next |-> [level \in Levels |-> IF levels.next[level] = NoMerge THEN NoMerge
                                    ELSE Stored(levels.next[level])]]

List == INSTANCE BucketList WITH list <- Value(list)

-----------------------------------------------------------------------------
(* Reference counts. *)

(* A plausible defect: a clone, or a merge that returns one of its inputs, *)
(* that forgets to count the new reference.                                *)
RetainNothing(counts, handle) == counts

Retain(counts, handle) ==
    IF handle \in StorageIds THEN [counts EXCEPT ![handle] = @ + 1] ELSE counts

Release(counts, handle) ==
    IF handle \in StorageIds THEN [counts EXCEPT ![handle] = @ - 1] ELSE counts

(* The references a list, a candidate or a view holds on a storage. *)
Count(buckets, id) == Cardinality({level \in Levels : buckets[level] = id})

Held(levels, id) ==
    IF levels = NoList THEN 0
    ELSE Count(levels.curr, id) + Count(levels.snap, id) + Count(levels.next, id)

(* A plausible defect: a clone that does not retain what is pending. *)
RetainAllButPending(counts, levels) ==
    [id \in StorageIds |-> counts[id] + Count(levels.curr, id) + Count(levels.snap, id)]

(* clone and deinit of a whole list. *)
RetainAll(counts, levels) == [id \in StorageIds |-> counts[id] + Held(levels, id)]

ReleaseAll(counts, levels) == [id \in StorageIds |-> counts[id] - Held(levels, id)]

(* Storage whose last reference is dropped is freed. *)
Live(counts, contents) ==
    [id \in StorageIds |-> IF counts[id] = 0 THEN Empty ELSE contents[id]]

(* The handle merge returns: an input, no storage, or a new storage.       *)
Merged(older, newer, drop) == Merge(Stored(older), Stored(newer), drop)

Shared(older, newer, drop) ==
    /\ ~ drop
    /\ Stored(newer) = Empty \/ Stored(older) = Empty

MergeResult(counts, older, newer, drop) ==
    IF Shared(older, newer, drop)
    THEN IF Stored(newer) = Empty THEN older ELSE newer
    ELSE IF Merged(older, newer, drop) = Empty THEN Null
    ELSE CHOOSE id \in StorageIds : counts[id] = 0

Allocates(older, newer, drop) ==
    ~ Shared(older, newer, drop) /\ Merged(older, newer, drop) # Empty

(* The bound on live allocations. *)
Room(counts) == {id \in StorageIds : counts[id] = 0} # {}

-----------------------------------------------------------------------------
EmptyList == [curr |-> [level \in Levels |-> Null],
              snap |-> [level \in Levels |-> Null],
              next |-> [level \in Levels |-> NoMerge]]

AdvanceInit ==
    /\ seq = 0
    /\ list = EmptyList
    /\ refs = [id \in StorageIds |-> 0]
    /\ rows = [id \in StorageIds |-> Empty]
    /\ at = Depth
    /\ cand = NoList
    /\ fresh = Null
    /\ views = [v \in Views |-> NoList]
    /\ input = Empty

(* clone, and fromSorted on the batch.  If that allocation fails, the      *)
(* clone is dropped and nothing has changed.                               *)
Begin(batch) ==
    /\ at = Depth
    /\ seq # MaxSeq
    /\ batch # Empty => Room(refs)
    /\ at' = Last
    /\ cand' = list
    /\ LET id == CHOOSE id \in StorageIds : refs[id] = 0
       IN  IF batch = Empty
           THEN /\ fresh' = Null
                /\ refs' = RetainAll(refs, list)
                /\ UNCHANGED rows
           ELSE /\ fresh' = id
                /\ refs' = Retain(RetainAll(refs, list), id)
                /\ rows' = [rows EXCEPT ![id] = batch]
    /\ UNCHANGED <<seq, list, views, input>>

(* The level has nothing to receive. *)
Skip ==
    /\ at \in 1..Last
    /\ ~ ShouldSpill(seq + 1, at - 1)
    /\ at' = at - 1
    /\ UNCHANGED <<seq, list, refs, rows, cand, fresh, views, input>>

(* The candidate after a level handed over its curr and the next promoted  *)
(* its pending result, and the counts after the handles they replace.      *)
HandedOver ==
    [curr |-> [cand.curr EXCEPT ![at - 1] = Null,
                                ![at] = IF cand.next[at] # NoMerge THEN cand.next[at] ELSE @],
     snap |-> [cand.snap EXCEPT ![at - 1] = cand.curr[at - 1]],
     next |-> [cand.next EXCEPT ![at] = NoMerge]]

HandedOverRefs ==
    LET counts == Release(refs, cand.snap[at - 1])
    IN  IF cand.next[at] # NoMerge THEN Release(counts, cand.curr[at]) ELSE counts

OlderAlwaysCurrent == HandedOver.curr[at]

(* The older input of the merge: what the level shows now, or nothing.     *)
Older == IF MergeWithEmpty(seq + 1, at) THEN Null ELSE HandedOver.curr[at]

Spill ==
    /\ at \in 1..Last
    /\ ShouldSpill(seq + 1, at - 1)
    /\ LET newer == HandedOver.snap[at - 1]
           drop == at = Last
           handle == MergeResult(HandedOverRefs, Older, newer, drop)
           counts == Retain(HandedOverRefs, handle)
       IN  /\ Allocates(Older, newer, drop) => Room(HandedOverRefs)
           /\ cand' = [HandedOver EXCEPT !.next[at] = handle]
           /\ refs' = counts
           /\ rows' = Live(counts, IF Allocates(Older, newer, drop)
                                   THEN [rows EXCEPT ![handle] = Merged(Older, newer, drop)]
                                   ELSE rows)
    /\ at' = at - 1
    /\ UNCHANGED <<seq, list, fresh, views, input>>

(* The errdefer and the defer of a failed advance: the candidate and the   *)
(* fresh bucket are released, the list is as it was.                       *)
Unwind(counts, levels) ==
    /\ refs' = Release(ReleaseAll(counts, levels), fresh)
    /\ rows' = Live(refs', rows)
    /\ at' = Depth
    /\ cand' = NoList
    /\ fresh' = Null
    /\ UNCHANGED <<seq, list, views, input>>

SpillFails ==
    /\ at \in 1..Last
    /\ ShouldSpill(seq + 1, at - 1)
    /\ Allocates(Older, HandedOver.snap[at - 1], at = Last)
    /\ Unwind(HandedOverRefs, HandedOver)

(* Level zero takes the batch; the candidate replaces the list.  The old   *)
(* list and the local fresh handle are released.                           *)
Finish ==
    /\ at = 0
    /\ LET older == cand.curr[0]
           handle == MergeResult(refs, older, fresh, Depth = 1)
           counts == Release(Release(Retain(refs, handle), older), fresh)
       IN  /\ Allocates(older, fresh, Depth = 1) => Room(refs)
           /\ list' = [cand EXCEPT !.curr[0] = handle]
           /\ refs' = ReleaseAll(counts, list)
           /\ rows' = Live(refs', IF Allocates(older, fresh, Depth = 1)
                                  THEN [rows EXCEPT ![handle] = Merged(older, fresh, Depth = 1)]
                                  ELSE rows)
    /\ seq' = seq + 1
    /\ input' = Stored(fresh)
    /\ at' = Depth
    /\ cand' = NoList
    /\ fresh' = Null
    /\ UNCHANGED views

FinishFails ==
    /\ at = 0
    /\ Allocates(cand.curr[0], fresh, Depth = 1)
    /\ Unwind(refs, cand)

(* A reader clones the list, or drops its clone, from another thread. *)
OpenView(v) ==
    /\ views[v] = NoList
    /\ views' = [views EXCEPT ![v] = list]
    /\ refs' = RetainAll(refs, list)
    /\ UNCHANGED <<seq, list, rows, at, cand, fresh, input>>

CloseView(v) ==
    /\ views[v] # NoList
    /\ views' = [views EXCEPT ![v] = NoList]
    /\ refs' = ReleaseAll(refs, views[v])
    /\ rows' = Live(refs', rows)
    /\ UNCHANGED <<seq, list, at, cand, fresh, input>>

AdvanceNext ==
    \/ \E batch \in Buckets : Begin(batch)
    \/ Skip
    \/ Spill
    \/ SpillFails
    \/ Finish
    \/ FinishFails
    \/ \E v \in Views : OpenView(v) \/ CloseView(v)

AdvanceSpec == AdvanceInit /\ [][AdvanceNext]_advanceVars

-----------------------------------------------------------------------------
(***************************************************************************)
(* RefsExact: every storage is counted exactly as often as the list, the   *)
(* candidate, the fresh bucket and the views hold it.  So nothing that is  *)
(* held is freed and nothing that is not held leaks, on any path: shared   *)
(* merge results, promotions, views that outlive the list they cloned, and *)
(* a failure at any merge of a half-rewritten candidate.                   *)
(***************************************************************************)
OpenViews == {v \in Views : views[v] # NoList}

HeldByViews(id) ==
    Cardinality({place \in OpenViews \X Levels : views[place[1]].curr[place[2]] = id})
    + Cardinality({place \in OpenViews \X Levels : views[place[1]].snap[place[2]] = id})
    + Cardinality({place \in OpenViews \X Levels : views[place[1]].next[place[2]] = id})

RefsExact ==
    \A id \in StorageIds :
      refs[id] = Held(list, id) + Held(cand, id)
               + (IF fresh = id THEN 1 ELSE 0)
               + HeldByViews(id)

(***************************************************************************)
(* ViewsFrozen: whatever the writer and the other readers do, the records  *)
(* behind an open view do not change until the view is closed.             *)
(***************************************************************************)
Seen(v) ==
    [level \in Levels |-> <<Stored(views[v].curr[level]), Stored(views[v].snap[level]),
                            Stored(views[v].next[level])>>]

ViewsFrozen ==
    [][\A v \in Views : views[v] # NoList /\ views'[v] # NoList => Seen(v)' = Seen(v)]_advanceVars

(***************************************************************************)
(* ImplementsList: the walk, with its sharing, its failures and its        *)
(* readers, is the simultaneous update of BucketList.tla, or no step.      *)
(***************************************************************************)
ImplementsList == List!Spec
=============================================================================

----------------------------- MODULE Reference -----------------------------
(***************************************************************************)
(* The independent executable specification of src/tools/reference.py:     *)
(* class Model, which generates the fixtures that the Zig engine is tested *)
(* against.  A dictionary is a function over the keys it has; its None is  *)
(* a deletion.  Where the engine has one formula for the schedule and one  *)
(* cursor for a merge, the reference walks the levels with an explicit     *)
(* lookahead and keeps the whole logical map beside them.                  *)
(***************************************************************************)
EXTENDS Integers, Sequences, SequencesExt

CONSTANTS None,      \* a deleted value, and the absence of a pending merge
          Advances   \* how many batches the corpus has

VARIABLES model,     \* the Model: depth, sequence, levels, logical
          asserted   \* the assertion that ends every advance held

referenceVars == <<model, asserted>>

EmptyRows == <<>>

(* dict(older) with update(newer). *)
Updated(older, newer) ==
    [k \in DOMAIN older \cup DOMAIN newer |->
       IF k \in DOMAIN newer THEN newer[k] ELSE older[k]]

(* A dictionary of one row. *)
OneRow(op) == [k \in {op.key} |-> op.value]

Without(rows, dropped(_)) ==
    [k \in {k \in DOMAIN rows : ~ dropped(rows[k])} |-> rows[k]]

IsNone(v) == v = None

-----------------------------------------------------------------------------
(* merge, and a plausible defect of it. *)
MergeRowsOlderFirst(older, newer, terminal) ==
    IF terminal THEN Without(Updated(newer, older), IsNone) ELSE Updated(newer, older)

MergeRows(older, newer, terminal) ==
    IF terminal THEN Without(Updated(older, newer), IsNone) ELSE Updated(older, newer)

EncodeFirstWriteWins(ops) ==
    LET rows[i \in 0..Len(ops)] ==
          IF i = 0 THEN EmptyRows ELSE Updated(OneRow(ops[i]), rows[i - 1])
    IN  rows[Len(ops)]

(* encode_operations: the last write of a key wins, whatever it was.       *)
EncodeOperations(ops) ==
    LET rows[i \in 0..Len(ops)] ==
          IF i = 0 THEN EmptyRows ELSE Updated(rows[i - 1], OneRow(ops[i]))
    IN  rows[Len(ops)]

(* self.logical.get(key): a key that is not there is None. *)
Logical(logical, k) == IF k \in DOMAIN logical THEN logical[k] ELSE None

(* What a batch changes: rows whose value differs from the logical map. *)
Changing(logical, ops) ==
    LET rows == EncodeOperations(ops)
    IN  [k \in {k \in DOMAIN rows : Logical(logical, k) # rows[k]} |-> rows[k]]

-----------------------------------------------------------------------------
(* One turn of the loop over the levels, and its plausible defects. *)
IncomingInterval(i) == 2 * 4^(i - 1)

WillSpillOneEarly(n, i, depth) == i # depth - 1 /\ n % (2 * 4^i) = 0

(* The destination spills when the next result comes in.                   *)
DestinationWillSpill(n, i, depth) ==
    i # depth - 1 /\ (n + IncomingInterval(i)) % (2 * 4^i) = 0

SpillIntoDelayed(n, levels, i, depth) ==
    LET source  == levels[i - 1]
        dest    == levels[i]
        older   == IF DestinationWillSpill(n, i, depth) THEN EmptyRows ELSE dest.curr
    IN  [levels EXCEPT
           ![i - 1] = [@ EXCEPT !.snap = source.curr, !.curr = EmptyRows],
           ![i] = [@ EXCEPT !.curr = IF dest.next # None THEN dest.next ELSE dest.curr,
                            !.next = MergeRows(older, source.curr, i = depth - 1)]]

SpillInto(n, levels, i, depth) ==
    LET source  == levels[i - 1]
        dest    == levels[i]
        current == IF dest.next # None THEN dest.next ELSE dest.curr
        older   == IF DestinationWillSpill(n, i, depth) THEN EmptyRows ELSE current
    IN  [levels EXCEPT
           ![i - 1] = [@ EXCEPT !.snap = source.curr, !.curr = EmptyRows],
           ![i] = [@ EXCEPT !.curr = current,
                            !.next = MergeRows(older, source.curr, i = depth - 1)]]

(* The loop: from the last level to level one. *)
Walk(n, levels, depth) ==
    LET after[i \in 1..depth] ==
          IF i = depth THEN levels
          ELSE IF n % IncomingInterval(i) # 0 THEN after[i + 1]
               ELSE SpillInto(n, after[i + 1], i, depth)
    IN  after[1]

(* What a reader finds: the first record of a key, level by level, curr    *)
(* before snap.                                                            *)
Visible(levels, depth) ==
    LET seen[i \in 0..depth] ==
          IF i = 0 THEN EmptyRows
          ELSE Updated(Updated(levels[i - 1].snap, levels[i - 1].curr), seen[i - 1])
    IN  Without(seen[depth], IsNone)

-----------------------------------------------------------------------------
NewModel(depth) ==
    [depth    |-> depth,
     sequence |-> 0,
     levels   |-> [i \in 0..(depth - 1) |->
                     [curr |-> EmptyRows, snap |-> EmptyRows, next |-> None]],
     logical  |-> EmptyRows]

(* advance *)
AdvanceModel(m, ops) ==
    LET n      == m.sequence + 1
        rows   == Changing(m.logical, ops)
        walked == Walk(n, m.levels, m.depth)
    IN  [m EXCEPT !.levels  = [walked EXCEPT ![0].curr = MergeRows(@, rows, m.depth = 1)],
                  !.logical = MergeRows(@, rows, TRUE),
                  !.sequence = n]

Start(depth) == model = NewModel(depth) /\ asserted = TRUE

(* One advance of the reference, its assertion evaluated at the end. *)
ReferenceAdvance(ops) ==
    /\ model.sequence < Advances
    /\ model' = AdvanceModel(model, ops)
    /\ asserted' = (Visible(model'.levels, model'.depth) = model'.logical)

-----------------------------------------------------------------------------
(***************************************************************************)
(* The commitments, with a hash as the tuple of what is hashed; a bucket's *)
(* frame is its set of rows, which the code sorts.                         *)
(***************************************************************************)
Frame(rows) == {<<k, rows[k]>> : k \in DOMAIN rows}

LevelHash(i, level) == <<"level", i, Frame(level.curr), Frame(level.snap)>>

Pending(i, level) ==
    IF level.next = None THEN <<i, FALSE>> ELSE <<i, TRUE, Frame(level.next)>>

(* What is hashed of every level follows without separators.               *)
Hashes(m) ==
    [root |-> <<"list", m.depth>> \o
              [i \in 1..m.depth |-> LevelHash(i - 1, m.levels[i - 1])],
     continuation |-> <<"continuation", m.depth>> \o
              FlattenSeq([i \in 1..m.depth |-> Pending(i - 1, m.levels[i - 1])])]

DatabaseHash(m) == <<"database", m.sequence, Hashes(m).root, Hashes(m).continuation>>

-----------------------------------------------------------------------------
(***************************************************************************)
(* The operations of the corpus.  Names are numbered; Least and Greatest   *)
(* stand for the extreme values of the code's 64-bit fields.               *)
(***************************************************************************)
Greatest == 1000000

Least == -1000000

(* Names: "a\0" with a digit are 0..4. *)
Nothing == 10
Missing == 11
OnlyA == 12
A0 == 13
A255 == 14
AtoH == 15

Account(key, balance, active) == [key |-> <<1, key>>, value |-> <<balance, active>>]

DeleteAccount(key) == [key |-> <<1, key>>, value |-> None]

Name(key, owner) == [key |-> <<2, key>>, value |-> <<owner>>]

DeleteName(key) == [key |-> <<2, key>>, value |-> None]

Operations(n) ==
    CASE n % 10 = 0 -> <<>>
      [] n % 10 = 1 -> <<Account(-(n % 17), n * 100, n % 3 # 0), Name(n % 5, n)>>
      [] n % 10 = 2 -> <<Account(-((n - 1) % 17), -n, FALSE), Name(Nothing, 0)>>
      [] n % 10 = 3 -> <<DeleteAccount(-((n - 2) % 17)), DeleteName((n - 2) % 5)>>
      [] n % 10 = 4 -> <<Account(n % 17, 1, TRUE), DeleteAccount(n % 17),
                         Account(0, n, TRUE)>>
      [] n % 10 = 5 -> <<Account(0, n - 1, TRUE), DeleteName(Missing)>>
      [] n % 10 = 6 -> <<Name(OnlyA, n), Name(A0, n + 1), Name(A255, n + 2)>>
      [] n % 10 = 7 -> <<Account(-32768, Least, TRUE), Account(32767, Greatest, FALSE),
                         Name(AtoH, Greatest)>>
      [] n % 10 = 8 -> <<DeleteAccount(-32768), Account(-32768, Least, TRUE),
                         DeleteName(Nothing)>>
      [] n % 10 = 9 -> <<DeleteAccount(32767), Name(OnlyA, n), DeleteAccount(0),
                         Account(0, n, FALSE)>>

(* corpus: a trace for each depth, over the same operations.               *)
CorpusStart == \E depth \in {1, 2, 3, 11} : Start(depth)

CorpusStep == ReferenceAdvance(Operations(model.sequence + 1))

-----------------------------------------------------------------------------
(***************************************************************************)
(* AssertionHolds: the assertion in Model.advance (reference.py 163) never *)
(* fails: what a reader finds through curr and snap, level by level, is    *)
(* the logical map that was kept beside the levels.  It is the reference   *)
(* that fails when the schedule of the fixtures is wrong, not the engine.  *)
(***************************************************************************)
AssertionHolds == asserted

=============================================================================

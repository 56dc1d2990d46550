----------------------------- MODULE DiskBench -----------------------------
(***************************************************************************)
(* A disk benchmark and the judgement of its output.  disk-bench.zig runs  *)
(* one workload twice, with one merge worker and with two, and writes a    *)
(* row for every phase; src/tools/compare-disk-bench.py accepts a file     *)
(* only as the complete history of such runs, and compares two of them     *)
(* only when they did the same work.  The run may stop at any row.         *)
(*                                                                         *)
(* A measurement is one unit of time and of reads per phase; a digest is   *)
(* what it commits to: the advance and the contents.                       *)
(***************************************************************************)
EXTENDS Integers, Sequences, FiniteSets, SequencesExt

CONSTANTS BenchRecords,   \* record counts, multiples of four
          BenchBatches,   \* rows in a batch
          Samples         \* reads per read phase

ASSUME BenchAssumption ==
    /\ \A n \in BenchRecords : n \in Nat /\ n % 4 = 0 /\ n > 0
    /\ BenchBatches \subseteq Nat \ {0} /\ Samples \in Nat

VARIABLES config,   \* the configuration, with the build's behaviour
          log,      \* the rows written
          before,   \* the accepted rows of an earlier run, or <<>>
          contents, \* the benchmark's database: key to revision
          at,       \* where the run is: worker, workload, offset, step
          proofs    \* the digests of the first worker, by advance

benchVars == <<config, log, before, contents, at, proofs>>

Workloads == <<"load", "update", "noop", "delete", "insert">>

WorkerCounts == {1, 2}

-----------------------------------------------------------------------------
(* The benchmark: what one batch writes. *)
Count(c, workload) == IF workload = "load" THEN c.records ELSE c.records \div 4

(* A plausible defect: a stride that is not a permutation. *)
OrdinalSquared(i, count) == (i * i * 4051) % count

(* A stride that is coprime to the count visits every ordinal once.        *)
Ordinal(i, count) == (i * 4051) % count

KeyOf(c, workload, ordinal) ==
    CASE workload = "load" -> ordinal
      [] workload \in {"update", "noop"} -> 4 * ordinal
      [] workload = "delete" -> 4 * ordinal + 1
      [] workload = "insert" -> c.records + ordinal

Revision(workload) ==
    CASE workload = "load" -> 1
      [] workload \in {"update", "noop"} -> 2
      [] workload \in {"delete", "insert"} -> 3

BatchSize(c, workload, offset) ==
    LET left == Count(c, workload) - offset
    IN  IF c.batch_rows < left THEN c.batch_rows ELSE left

BatchKeys(c, workload, offset) ==
    {KeyOf(c, workload, Ordinal(offset + i, Count(c, workload))) :
       i \in 0..(BatchSize(c, workload, offset) - 1)}

Written(c, workload, offset) ==
    LET keys == BatchKeys(c, workload, offset)
    IN  IF workload = "delete"
        THEN [k \in DOMAIN contents \ keys |-> contents[k]]
        ELSE [k \in DOMAIN contents \cup keys |->
                IF k \in keys THEN Revision(workload) ELSE contents[k]]

(* A build that commits to something else from some advance on. *)
Digest(c, advance, map) ==
    <<advance, IF advance >= c.diverges THEN "other" ELSE "same", map>>

(* The five classes of keys that a read phase samples.                     *)
SampleHolds(c, i) ==
    LET ordinal == Ordinal(i \div 5, c.records \div 4)
        key == CASE i % 5 = 0 -> 4 * ordinal
                 [] i % 5 = 1 -> 4 * ordinal + 2
                 [] i % 5 = 2 -> 4 * ordinal + 1
                 [] i % 5 = 3 -> c.records + ordinal
                 [] i % 5 = 4 -> c.records + c.records \div 4 + ordinal
    IN  CASE i % 5 = 0 -> key \in DOMAIN contents /\ contents[key] = 2
          [] i % 5 = 1 -> key \in DOMAIN contents /\ contents[key] = 1
          [] i % 5 = 3 -> key \in DOMAIN contents /\ contents[key] = 3
          [] OTHER     -> key \notin DOMAIN contents

-----------------------------------------------------------------------------
Row(phase, workload, advance, operations, digest) ==
    [phase |-> phase, worker |-> at.worker, workload |-> workload,
     advance |-> advance, operations |-> operations, digest |-> digest,
     measurement |-> 1]

Marker(phase) ==
    [phase |-> phase, worker |-> 0, workload |-> "", advance |-> 0,
     operations |-> 0, digest |-> <<>>, measurement |-> 0]

Emit(row) == log' = Append(log, row)

(* The phases after the workloads, and what each reports as workload. *)
Closing == <<"get", "close", "reopen", "get_reopened", "collect",
             "get_after_collect", "close">>

Reported == <<"verify_formula", "before_reopen", "authenticated_warm_cache",
              "verify_formula", "current_root", "verify_formula", "final">>

ReadPhases == {1, 4, 6}

StartWorker(worker) ==
    [worker |-> worker, part |-> "open", workload |-> 1, offset |-> 0,
     step |-> "stage", advance |-> 0]

BenchStart(c) ==
    /\ config = c
    /\ log = <<Marker("provenance"), Marker("configuration")>>
    /\ contents = <<>> /\ proofs = <<>> /\ at = StartWorker(1)

Configurations ==
    [records : BenchRecords, batch_rows : BenchBatches, diverges : {6, 1000}]

BenchInit == before = <<>> /\ \E c \in Configurations : BenchStart(c)

Open ==
    /\ at.part = "open"
    /\ Emit(Row("open", "genesis", 0, 0, Digest(config, 0, <<>>)))
    /\ at' = [at EXCEPT !.part = "write"]
    /\ contents' = <<>>
    /\ UNCHANGED <<config, before, proofs>>

(* writes: after a batch the next one, or the next workload, or the reads. *)
AfterBatch(size) ==
    IF at.offset + size < Count(config, Workloads[at.workload])
    THEN [at EXCEPT !.offset = @ + size, !.step = "stage"]
    ELSE IF at.workload < Len(Workloads)
    THEN [at EXCEPT !.workload = @ + 1, !.offset = 0, !.step = "stage"]
    ELSE [at EXCEPT !.part = "close", !.workload = 1, !.offset = 0]

Write ==
    /\ at.part = "write"
    /\ LET workload == Workloads[at.workload]
           size     == BatchSize(config, workload, at.offset)
           after    == Written(config, workload, at.offset)
           digest   == Digest(config, at.advance + 1, after)
       IN  CASE at.step = "stage" ->
                  /\ Emit(Row("stage", workload, at.advance, size, <<>>))
                  /\ at' = [at EXCEPT !.step = "prepare"]
                  /\ UNCHANGED <<contents, proofs>>
             [] at.step = "prepare" ->
                  /\ Emit(Row("prepare", workload, at.advance + 1, size, <<>>))
                  /\ at' = [at EXCEPT !.step = "commit"]
                  /\ UNCHANGED <<contents, proofs>>
             [] at.step = "commit" ->
                  /\ at.worker = 2 => proofs[at.advance + 1] = digest
                  /\ contents' = after
                  /\ proofs' = IF at.worker = 1 THEN Append(proofs, digest) ELSE proofs
                  /\ Emit(Row("commit", workload, at.advance + 1, size, digest))
                  /\ at' = [at EXCEPT !.step = "cleanup", !.advance = @ + 1]
             [] at.step = "cleanup" ->
                  /\ Emit(Row("cleanup", workload, at.advance, size, <<>>))
                  /\ at' = AfterBatch(size)
                  /\ UNCHANGED <<contents, proofs>>
    /\ UNCHANGED <<config, before>>

(* The reads, the reopening and the collection; a wrong record or a wrong  *)
(* count of advances ends the program with an error.  The count of live    *)
(* rows, a sum of batch sizes, is always the one of the configuration.     *)
Ceiling(a, b) == (a + b - 1) \div b

Allotted(c) ==
    Ceiling(c.records, c.batch_rows) + 4 * Ceiling(c.records \div 4, c.batch_rows)

WorkloadSizeHolds == at.workload = 1 => at.advance = Allotted(config)

SamplesHold == \A i \in 0..(Samples - 1) : SampleHolds(config, i)

Close ==
    /\ at.part = "close"
    /\ WorkloadSizeHolds
    /\ at.workload \in ReadPhases => SamplesHold
    /\ Emit(Row(Closing[at.workload], Reported[at.workload], at.advance,
                IF at.workload \in ReadPhases THEN Samples ELSE 0, <<>>))
    /\ at' = IF at.workload < Len(Closing)
             THEN [at EXCEPT !.workload = @ + 1]
             ELSE [at EXCEPT !.part = "summary"]
    /\ UNCHANGED <<config, before, contents, proofs>>

(* The totals that the program itself adds up, row by row. *)
Summarise ==
    /\ at.part = "summary"
    /\ Emit([Row("summary", "", at.advance, config.records,
                 Digest(config, at.advance, contents))
             EXCEPT !.measurement =
               Cardinality({i \in DOMAIN log : log[i].worker = at.worker})])
    /\ at' = IF at.worker = 1 THEN StartWorker(2) ELSE [at EXCEPT !.part = "done"]
    /\ UNCHANGED <<config, before, contents, proofs>>

(* Another build or another configuration is run, to be compared.          *)
RunAgain(c) ==
    /\ at.part = "done" /\ before = <<>>
    /\ before' = <<config, log>>
    /\ config' = c
    /\ log' = <<Marker("provenance"), Marker("configuration")>>
    /\ contents' = <<>> /\ proofs' = <<>> /\ at' = StartWorker(1)

BenchNext ==
    \/ Open
    \/ Write
    \/ Close
    \/ Summarise
    \/ \E c \in Configurations : RunAgain(c)

-----------------------------------------------------------------------------
(***************************************************************************)
(* compare-disk-bench.py: expected_phases.                                 *)
(***************************************************************************)
Shape(row) == <<row.phase, row.workload, row.advance, row.operations>>

(* A plausible defect: a last batch that is not full is forgotten. *)
WholeBatchShapes(c, workload, first) ==
    FoldLeft(LAMBDA shapes, i :
               shapes \o [p \in 1..4 |->
                 <<<<"stage", "prepare", "commit", "cleanup">>[p], workload,
                   IF p = 1 THEN first + i - 1 ELSE first + i, c.batch_rows>>],
             <<>>, [i \in 1..(Count(c, workload) \div c.batch_rows) |-> i])

BatchShapes(c, workload, first) ==
    LET count == Count(c, workload)
        batch(i) ==
          LET offset == c.batch_rows * (i - 1)
              ops == IF c.batch_rows < count - offset THEN c.batch_rows ELSE count - offset
          IN  <<<<"stage", workload, first + i - 1, ops>>>>
              \o [p \in 1..3 |-> <<<<"prepare", "commit", "cleanup">>[p],
                                  workload, first + i, ops>>]
    IN  FoldLeft(LAMBDA shapes, i : shapes \o batch(i), <<>>,
                 [i \in 1..Ceiling(count, c.batch_rows) |-> i])

ExpectedPhases(c) ==
    LET writes == FoldLeft(LAMBDA state, workload :
                      [advance |-> state.advance + Ceiling(Count(c, workload), c.batch_rows),
                       shapes  |-> state.shapes \o BatchShapes(c, workload, state.advance)],
                    [advance |-> 0, shapes |-> <<<<"open", "genesis", 0, 0>>>>], Workloads)
    IN  writes.shapes \o
        [p \in DOMAIN Closing |->
           <<Closing[p], Reported[p], writes.advance,
             IF p \in ReadPhases THEN Samples ELSE 0>>]

(* read: what a file must be. *)
ExpectedAdvances(c) ==
    Ceiling(c.records, c.batch_rows) + 4 * Ceiling(c.records \div 4, c.batch_rows)

Rows(rows, phase) == {i \in DOMAIN rows : rows[i].phase = phase}

Measured(rows, worker) ==
    SelectSeq(rows, LAMBDA row : row.worker = worker /\ row.phase # "summary")

CommitOf(rows, worker, advance) ==
    {i \in Rows(rows, "commit") : rows[i].worker = worker /\ rows[i].advance = advance}

OneCommitEach(c, rows) ==
    /\ \A worker \in WorkerCounts, advance \in 1..ExpectedAdvances(c) :
         Cardinality(CommitOf(rows, worker, advance)) = 1
    /\ \A i \in Rows(rows, "commit") : rows[i].advance \in 1..ExpectedAdvances(c)
    /\ \A advance \in 1..ExpectedAdvances(c) :
         \A i \in CommitOf(rows, 1, advance), j \in CommitOf(rows, 2, advance) :
           rows[i].digest = rows[j].digest

(* A plausible defect: a second summary replaces the first. *)
LastSummaryEach(rows) ==
    \A worker \in WorkerCounts : \E i \in Rows(rows, "summary") : rows[i].worker = worker

OneSummaryEach(rows) ==
    \A worker \in WorkerCounts :
        Cardinality({i \in Rows(rows, "summary") : rows[i].worker = worker}) = 1

SummaryHolds(c, rows, i) ==
    LET phases == Measured(rows, rows[i].worker)
    IN  /\ rows[i].operations = c.records
        /\ [p \in DOMAIN phases |-> Shape(phases[p])] = ExpectedPhases(c)
        /\ rows[i].advance = ExpectedAdvances(c)
        /\ \A j \in CommitOf(rows, rows[i].worker, ExpectedAdvances(c)) :
             rows[i].digest = rows[j].digest
        /\ rows[i].measurement =
             FoldLeft(LAMBDA sum, row : sum + row.measurement, 0, phases)

Accepts(c, rows) ==
    /\ Cardinality(Rows(rows, "configuration")) = 1
    /\ Cardinality(Rows(rows, "provenance")) = 1
    /\ OneSummaryEach(rows)
    /\ OneCommitEach(c, rows)
    /\ \A i \in Rows(rows, "summary") : SummaryHolds(c, rows, i)

(* A plausible defect: the work is compared, not what it committed to.     *)
ComparableWork(c1, rows1, c2, rows2) ==
    /\ Accepts(c1, rows1) /\ Accepts(c2, rows2)
    /\ c1.records = c2.records /\ c1.batch_rows = c2.batch_rows

(* compare: two accepted files of the same work with the same history.     *)
Comparable(c1, rows1, c2, rows2) ==
    /\ Accepts(c1, rows1) /\ Accepts(c2, rows2)
    /\ c1.records = c2.records /\ c1.batch_rows = c2.batch_rows
    /\ [i \in Rows(rows1, "commit") |-> rows1[i].digest]
         = [i \in Rows(rows2, "commit") |-> rows2[i].digest]
    /\ \A worker \in WorkerCounts :
         [p \in DOMAIN Measured(rows1, worker) |-> Shape(Measured(rows1, worker)[p])]
           = [p \in DOMAIN Measured(rows2, worker) |-> Shape(Measured(rows2, worker)[p])]

-----------------------------------------------------------------------------
(***************************************************************************)
(* OnlyWholeRunsAccepted: the judge accepts the file of a run exactly when *)
(* the run has finished: the phases that Python expects, computed from the *)
(* configuration alone, are those the benchmark goes through batch by      *)
(* batch, and a run that stopped anywhere is refused.                      *)
(***************************************************************************)
OnlyWholeRunsAccepted == Accepts(config, log) <=> at.part = "done"

(***************************************************************************)
(* NoRowCanGo: of a complete file no row may be missing or be there twice. *)
(***************************************************************************)
Repeated(rows, i) == SubSeq(rows, 1, i) \o SubSeq(rows, i, Len(rows))

NoRowCanGo ==
    at.part = "done" =>
        \A i \in DOMAIN log :
            /\ ~ Accepts(config, RemoveAt(log, i))
            /\ ~ Accepts(config, Repeated(log, i))

(***************************************************************************)
(* FormulaHolds: when the reads begin, every sampled key has what the      *)
(* formula says, and as many rows are there as were counted: the stride    *)
(* visits every ordinal of every workload once (disk-bench.zig 228, 338).  *)
(* Otherwise the benchmark would stop with an error of its own making, or  *)
(* report rows that are not there.                                         *)
(***************************************************************************)
FormulaHolds ==
    at.part = "close" =>
        /\ WorkloadSizeHolds /\ SamplesHold
        /\ Cardinality(DOMAIN contents) = config.records

(***************************************************************************)
(* ComparedAlike: two finished runs are compared exactly when they did the *)
(* same work and committed to the same digests at every advance.           *)
(***************************************************************************)
ComparedAlike ==
    at.part = "done" /\ before # <<>> =>
        (Comparable(before[1], before[2], config, log) <=> before[1] = config)

(***************************************************************************)
(* JudgementIsRight: what is accepted is a complete history, each of whose *)
(* rows counts; what its rows say of the contents is so; and two histories *)
(* are compared exactly when the same was done.                            *)
(***************************************************************************)
JudgementIsRight ==
    OnlyWholeRunsAccepted /\ NoRowCanGo /\ FormulaHolds /\ ComparedAlike

=============================================================================

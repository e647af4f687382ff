----------------------------- MODULE Benchmark ------------------------------
(***************************************************************************)
(* aggregate_benchmark.py: the graded runs of an iteration, with the skill *)
(* and without, are averaged and compared.                                 *)
(*                                                                         *)
(* A run passes or fails as a whole; its time and its tokens are averaged  *)
(* in the same way and left out.                                           *)
(*                                                                         *)
(* A definition whose comment starts with "Mutant:" is a faulty variant of *)
(* the definition below it; no specification uses it.                      *)
(***************************************************************************)
EXTENDS Integers, FiniteSets, Sequences

CONSTANTS
  EvalIds,   \* bound: the evaluations, 1 .. n
  Configs,   \* the configurations in the order of their names
  RunsEach   \* bound: runs of each

ASSUME BenchmarkAssumption ==
  EvalIds \in Nat /\ RunsEach \in Nat /\ Len(Configs) = 2 /\ Configs[1] # Configs[2]

RunDir == (1 .. EvalIds) \X {1, 2} \X (1 .. RunsEach)

VARIABLES
  runDirs,    \* of each run directory: "absent", "ungraded", "broken", "failed" or "passed"
  benchmark   \* what was written: empty, or the delta in hundredths

benchmarkVars == <<runDirs, benchmark>>
-----------------------------------------------------------------------------
BenchmarkInit == runDirs = [d \in RunDir |-> "absent"] /\ benchmark = <<>>

(* A run is made, then graded, by others.                                  *)
MakeRun(d) ==
  /\ benchmark = <<>> /\ runDirs[d] = "absent"
  /\ runDirs' = [runDirs EXCEPT ![d] = "ungraded"]
  /\ UNCHANGED benchmark

GradeRun(d, grade) ==
  /\ benchmark = <<>> /\ runDirs[d] = "ungraded"
  /\ runDirs' = [runDirs EXCEPT ![d] = grade]
  /\ UNCHANGED benchmark

HasRuns(e, c) == \E n \in 1 .. RunsEach : runDirs[<<e, c, n>>] # "absent"

(* How many runs of an evaluation have such a grade: one without a         *)
(* grading.json, or with one that does not parse, is passed over.          *)
Graded(e, c, grades) == Cardinality({n \in 1 .. RunsEach : runDirs[<<e, c, n>>] \in grades})

(* Of the runs listed for a configuration, their number and that of those  *)
(* that passed.                                                            *)
NoRuns(c) == [key |-> c, passed |-> 0, number |-> 0]

(* Mutant: each evaluation starts the list of a configuration again.       *)
EntryOfLast(entry, e) ==
  [key |-> entry.key, passed |-> Graded(e, entry.key, {"passed"}),
   number |-> Graded(e, entry.key, {"failed", "passed"})]
Entry(entry, e) ==
  [key |-> entry.key, passed |-> entry.passed + Graded(e, entry.key, {"passed"}),
   number |-> entry.number + Graded(e, entry.key, {"failed", "passed"})]

(* results, a dict: a sequence of entries in the order in which their keys *)
(* came up.  A directory without runs is none of a configuration.          *)
Add(results, e, c) ==
  IF ~HasRuns(e, c) THEN results
  ELSE IF \E k \in DOMAIN results : results[k].key = c
  THEN [k \in DOMAIN results |-> IF results[k].key = c THEN Entry(results[k], e) ELSE results[k]]
  ELSE Append(results, Entry(NoRuns(c), e))

ResultsUpTo[e \in 0 .. EvalIds] ==
  IF e = 0 THEN <<>> ELSE Add(Add(ResultsUpTo[e - 1], e, 1), e, 2)

LoadRunResults == ResultsUpTo[EvalIds]

(* round, and the format of a number: a half goes either way.              *)
Rounded(a, b) == {m \in (a \div b) .. (a \div b) + 1 : 2 * (m * b - a) \in -b .. b}

(* calculate_stats: the mean to four digits, in units of the last; 0 of    *)
(* nothing, or if there is no such configuration.                          *)
Means(results, k) ==
  IF k \in DOMAIN results /\ results[k].number > 0
  THEN Rounded(10000 * results[k].passed, results[k].number) ELSE {0}

(* aggregate_results: the first configuration minus the second one, to two *)
(* digits, in units of the last.                                           *)
GenerateBenchmark ==
  /\ benchmark = <<>>
  /\ \E mine \in Means(LoadRunResults, 1), other \in Means(LoadRunResults, 2) :
       \E delta \in Rounded(mine - other, 100) : benchmark' = <<delta>>
  /\ UNCHANGED runDirs

BenchmarkNext ==
  \/ \E d \in RunDir : MakeRun(d) \/ \E grade \in {"broken", "failed", "passed"} : GradeRun(d, grade)
  \/ GenerateBenchmark
-----------------------------------------------------------------------------
(* The runs of a configuration with such a grade, over all evaluations.    *)
Counted(c, grades) == Cardinality({d \in RunDir : d[2] = c /\ runDirs[d] \in grades})
AllGraded(c) == Counted(c, {"failed", "passed"})

(* The first evaluation that has any run has runs of both.                 *)
FirstHasBoth ==
  \E e \in 1 .. EvalIds :
    /\ HasRuns(e, 1) /\ HasRuns(e, 2)
    /\ \A f \in 1 .. e - 1 : ~HasRuns(f, 1) /\ ~HasRuns(f, 2)

(* The delta that is written is the share of passed runs with the skill    *)
(* less that of the other configuration, over all evaluations, and off by  *)
(* no more than two roundings make it, 0.0051, if the first evaluation     *)
(* that has any run has runs of both and each has a graded run.  Else the  *)
(* order of the two may be the other way round, or an empty one counts 0.  *)
DeltaIsOfSkill ==
  LET units == AllGraded(1) * AllGraded(2)
      shares == Counted(1, {"passed"}) * AllGraded(2) - Counted(2, {"passed"}) * AllGraded(1)
  IN benchmark # <<>> /\ AllGraded(1) > 0 /\ AllGraded(2) > 0 /\ FirstHasBoth
     => 100 * benchmark[1] * units - 10000 * shares \in -51 * units .. 51 * units

(* The types of the tool's variables.                                      *)
BenchmarkTyped ==
  /\ runDirs \in [RunDir -> {"absent", "ungraded", "broken", "failed", "passed"}]
  /\ Len(benchmark) <= 1 /\ \A k \in DOMAIN benchmark : benchmark[k] \in Int
=============================================================================

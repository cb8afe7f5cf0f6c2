---------------------------- MODULE BenchmarkRuns -----------------------------
(***************************************************************************)
(* The benchmark routes of the admin API (api.py) and FactorBenchRunner    *)
(* (evaluation/runner.py): a dataset is looked at, opened and copied while *)
(* other processes change the file system, its cases are resolved one by   *)
(* one, and the run is kept in a cache bounded by count and by bytes.      *)
(*                                                                         *)
(* The handlers run on one event loop and change places only at an await,  *)
(* which is where a case is resolved.  Every look at the file system is a  *)
(* choice: between two looks anything may have been replaced.  A node is   *)
(* [file, symlink, dataset], a place "inside" or "outside" the configured  *)
(* roots.  The digest of a dataset is its name.  A metric is a pair of a   *)
(* numerator and a denominator.                                            *)
(***************************************************************************)
EXTENDS Integers, SequencesExt, FiniteSetsExt

CONSTANTS Calls,         \* requests that are served at the same time
          Scopes,        \* pairs of tenant and project
          Nodes,         \* what may be found at a path
          Answers,       \* what a resolution may show: [status, identity, top, choices, fields, latency]
          FailureLatencies, \* how long a resolution that raises may take
          MaxRuns, MaxCacheBytes, MaxDatasetBytes,
          MinCases,      \* 40 in the code
          ERROR,         \* the status of a case whose resolution failed
          Nothing

ASSUME BoundsAssumption ==
    /\ MaxRuns \in Nat \ {0} /\ MaxCacheBytes \in Nat /\ MaxDatasetBytes \in Nat
    /\ MinCases \in Nat \ {0} /\ FailureLatencies \subseteq Nat

ASSUME NodesAssumption ==
    \A n \in Nodes : n.dataset.cases \in Seq(ToSet(n.dataset.cases))

VARIABLES call,   \* per call: [pc, scope, seen, place, opened, results, answer]
          temps,  \* calls whose temporary copy exists
          leaked, \* a copy could not be written, and stayed
          runs    \* the cache: a sequence of [scope, id, run], the oldest first

vars == <<call, temps, leaked, runs>>

-----------------------------------------------------------------------------
(* aggregate_metrics.  A result is [case, status, identity, top, choices,  *)
(* fields, latency]; fields counts the evidence fields that the first      *)
(* candidate has, of EvidenceFields.                                       *)

EvidenceFields == 9

\* A resolution that answers with an error, because the input cannot be normalised, has
\* no candidates.
ASSUME AnswersAssumption ==
    \A a \in Answers :
        /\ a.top \in Seq(ToSet(a.top)) /\ (a.status = ERROR => a.top = <<>>)
        /\ a.fields \in 0..EvidenceFields /\ a.latency \in Nat

Found(r, k) == \E i \in 1..k : i <= Len(r.top) /\ r.top[i] \in r.case.relevant

Count(results, P(_)) == Cardinality({i \in DOMAIN results : P(results[i])})

\* _mean: zero where there is nothing to divide by.
Fraction(n, d) == IF d = 0 THEN <<0, 1>> ELSE <<n, d>>

\* The rate of P among the results with Q.
Rate(results, P(_), Q(_)) ==
    Fraction(Count(results, LAMBDA r : Q(r) /\ P(r)), Count(results, Q))

\* Faulty variant: a case that failed is left out.
retrieval_case_Answered(r) == r.case.relevant # {} /\ r.status # ERROR

retrieval_case(r) == r.case.relevant # {}

\* The reciprocal of the rank of the first relevant id, in sixtieths.
reciprocal_rank(r) ==
    IF ~Found(r, Len(r.top)) THEN 0
    ELSE 60 \div Min({i \in DOMAIN r.top : r.top[i] \in r.case.relevant})

Total(results, F(_), Q(_)) ==
    SumFunction([i \in {j \in DOMAIN results : Q(results[j])} |-> F(results[i])])

confusable(r) == r.case.exclusions # {} \/ "confusable" \in r.case.tags

more_input_case(r) == r.case.status = "MORE_INPUT_NEEDED" \/ "more_input" \in r.case.tags

abstention_case(r) ==
    "abstention" \in r.case.tags
    \/ (r.case.relevant = {} /\ r.case.status # "MORE_INPUT_NEEDED")

\* The i-th of the latencies in order.
Ordered(results, i) ==
    CHOOSE v \in {results[j].latency : j \in DOMAIN results} :
        /\ Count(results, LAMBDA r : r.latency < v) < i
        /\ Count(results, LAMBDA r : r.latency <= v) >= i

\* _percentile: the index is rounded to the nearest.
p95_index(n) == ((n - 1) * 95 + 50) \div 100 + 1

\* Twice the median.
median2(results) ==
    LET n == Len(results) IN Ordered(results, (n + 1) \div 2) + Ordered(results, n \div 2 + 1)

aggregate_metrics(results) ==
    LET retrieved == Count(results, retrieval_case)
        recall(k) == Rate(results, LAMBDA r : Found(r, k), retrieval_case)
    IN  [entity_accuracy |-> Rate(results, LAMBDA r : r.identity = r.case.identity,
                                           LAMBDA r : r.case.identity # Nothing),
         recall_at_1 |-> recall(1), recall_at_3 |-> recall(3), recall_at_5 |-> recall(5),
         mrr |-> Fraction(Total(results, reciprocal_rank, retrieval_case), 60 * retrieved),
         false_positive_rate |-> Rate(results, LAMBDA r : r.case.exclusions \cap ToSet(r.top) # {},
                                               confusable),
         precision |-> Fraction(Total(results, LAMBDA r : Cardinality(r.case.relevant \cap ToSet(r.top)),
                                      retrieval_case),
                                Total(results, LAMBDA r : Len(r.top), retrieval_case)),
         completeness |-> Fraction(Total(results, LAMBDA r : r.fields, retrieval_case),
                                   EvidenceFields * retrieved),
         more_input |-> Rate(results, LAMBDA r : /\ r.status = "MORE_INPUT_NEEDED"
                                                 /\ r.case.choices \subseteq r.choices,
                                      more_input_case),
         abstention |-> Rate(results, LAMBDA r : r.status = r.case.status /\ r.top = <<>>,
                                      abstention_case),
         external_retrieval |-> Rate(results, LAMBDA r : r.status = r.case.status /\ Found(r, Len(r.top)),
                                              LAMBDA r : r.case.external),
         p50 |-> <<median2(results), 2>>,
         p95 |-> <<Ordered(results, p95_index(Len(results))), 1>>]

\* compare_runs: candidate minus baseline, metric by metric.
Difference(a, b) == <<b[1] * a[2] - a[1] * b[2], a[2] * b[2]>>

compare_runs(base, candidate) ==
    LET a == aggregate_metrics(base.results)
        b == aggregate_metrics(candidate.results)
    IN  [key \in DOMAIN b |-> Difference(a[key], b[key])]

-----------------------------------------------------------------------------
(* Runs.                                                                   *)

\* The id covers the dataset and the anchors of the cases that were answered.
run_id(dataset, results) ==
    <<dataset.name, {r.case.fixture : r \in {s \in ToSet(results) : s.status # ERROR}}>>

\* The owner is not in the code: it says for whom a run was made.
Run(dataset, results, owner) ==
    [id |-> run_id(dataset, results), name |-> dataset.name, results |-> results, owner |-> owner]

\* The length of the serialised run.
result_bytes(run) == SumFunction([i \in DOMAIN run.results |-> 1 + Len(run.results[i].top)])

\* Faulty variant: runs are kept by their id alone.
SameKey_IdOnly(e, scope, id) == e.id = id

SameKey(e, scope, id) == e.scope = scope /\ e.id = id

Stored(scope, id) == \E i \in DOMAIN runs : SameKey(runs[i], scope, id)

Bytes(cache) == SumFunction([i \in DOMAIN cache |-> result_bytes(cache[i].run)])

Fits(cache) == Len(cache) <= MaxRuns /\ Bytes(cache) <= MaxCacheBytes

\* Assignment to a key of an OrderedDict: a key that is there keeps its place.
Put(cache, entry) ==
    IF \E i \in DOMAIN cache : SameKey(cache[i], entry.scope, entry.id)
    THEN [i \in DOMAIN cache |-> IF SameKey(cache[i], entry.scope, entry.id) THEN entry
                                 ELSE cache[i]]
    ELSE Append(cache, entry)

\* Faulty variant: the newest are dropped.
Evict_Newest(cache) ==
    SubSeq(cache, 1, Max({n \in 0..Len(cache) : Fits(SubSeq(cache, 1, n))}))

\* popitem(last=False) until the rest fits.
Evict(cache) ==
    LET n == Min({k \in 0..Len(cache) : Fits(SubSeq(cache, k + 1, Len(cache)))})
    IN  SubSeq(cache, n + 1, Len(cache))

-----------------------------------------------------------------------------
(* create_benchmark_run.                                                   *)

Idle == [pc |-> "idle", scope |-> Nothing, seen |-> Nothing, opened |-> Nothing,
         place |-> Nothing, results |-> <<>>, answer |-> [kind |-> "none"]]

Error == [kind |-> "error"]

Done(scope, answer) == [Idle EXCEPT !.pc = "done", !.scope = scope, !.answer = answer]

\* The call ends with an error.
Refuse(c) == call' = [call EXCEPT ![c] = Done(call[c].scope, Error)]

\* is_file, is_symlink and lstat of the submitted path.
Look(c, scope, node) ==
    /\ call[c].pc = "idle"
    /\ call' = [call EXCEPT ![c] =
                   IF node = Nothing \/ node.symlink
                   THEN Done(scope, Error)
                   ELSE [Idle EXCEPT !.pc = "resolve", !.scope = scope, !.seen = node.file]]
    /\ UNCHANGED <<temps, leaked, runs>>

\* The path is resolved, to a place that must be under a root.
Resolve(c, place) ==
    /\ call[c].pc = "resolve"
    /\ IF place = "inside"
       THEN call' = [call EXCEPT ![c].pc = "open", ![c].place = place]
       ELSE Refuse(c)
    /\ UNCHANGED <<temps, leaked, runs>>

\* O_NOFOLLOW, the same file as before, and not too large.
Acceptable(c, node) ==
    node # Nothing /\ ~node.symlink /\ node.file = call[c].seen
    /\ node.dataset.bytes <= MaxDatasetBytes

\* What is at that place is opened and read.
Open(c, node) ==
    /\ call[c].pc = "open"
    /\ IF Acceptable(c, node)
       THEN call' = [call EXCEPT ![c].pc = "copy", ![c].opened = node]
       ELSE Refuse(c)
    /\ UNCHANGED <<temps, leaked, runs>>

\* The temporary copy is written; the path is known only once it is.
Copy(c) ==
    /\ call[c].pc = "copy"
    /\ call' = [call EXCEPT ![c].pc = "run"] /\ temps' = temps \cup {c}
    /\ UNCHANGED <<leaked, runs>>

CopyFails(c) ==
    /\ call[c].pc = "copy"
    /\ Refuse(c) /\ leaked' = TRUE
    /\ UNCHANGED <<temps, runs>>

-----------------------------------------------------------------------------
(* FactorBenchRunner.run on the copy.                                      *)

dataset(c) == call[c].opened.dataset

\* FactorBenchCase.from_mapping: no frozen field is missing or empty.
Valid(case) == case.complete

\* load_cases: every case is valid, the ids differ, and there are enough.
Loadable(d) ==
    /\ \A i \in DOMAIN d.cases : Valid(d.cases[i])
    /\ \A i, j \in DOMAIN d.cases : d.cases[i].id = d.cases[j].id => i = j
    /\ Len(d.cases) >= MinCases

Case(c) == dataset(c).cases[Len(call[c].results) + 1]

Pending(c) == Len(call[c].results) < Len(dataset(c).cases)

\* The handler awaits the resolution of a case.
Awaiting(c) ==
    call[c].pc = "run" /\ Loadable(dataset(c)) /\ Pending(c) /\ Case(c).fixture # Nothing

\* The copy is removed, however the run ends.
Unlink(c) == temps' = temps \ {c}

\* Faulty variant: the copy is removed after a run that succeeds.
RunFails_KeepsCopy(c) ==
    /\ call[c].pc = "run"
    /\ ~Loadable(dataset(c)) \/ (Pending(c) /\ Case(c).fixture = Nothing)
    /\ Refuse(c) /\ UNCHANGED <<temps, leaked, runs>>

\* The dataset is not valid, or a fixture of a case cannot be read.
RunFails(c) ==
    /\ call[c].pc = "run"
    /\ ~Loadable(dataset(c)) \/ (Pending(c) /\ Case(c).fixture = Nothing)
    /\ Refuse(c) /\ Unlink(c)
    /\ UNCHANGED <<leaked, runs>>

\* _result
result(case, a) ==
    [case |-> case, status |-> a.status, identity |-> a.identity, top |-> a.top,
     choices |-> a.choices, fields |-> IF a.top = <<>> THEN 0 ELSE a.fields,
     latency |-> a.latency]

\* The result of a case whose resolution raised: "one bad case must remain visible".
failed_result(case, latency) ==
    [case |-> case, status |-> ERROR, identity |-> Nothing, top |-> <<>>, choices |-> {},
     fields |-> 0, latency |-> latency]

\* A case is resolved.
RunCase(c, a) ==
    /\ Awaiting(c)
    /\ call' = [call EXCEPT ![c].results = Append(@, result(Case(c), a))]
    /\ UNCHANGED <<temps, leaked, runs>>

\* The resolution of a case raises.
CaseFails(c, latency) ==
    /\ Awaiting(c)
    /\ call' = [call EXCEPT ![c].results = Append(@, failed_result(Case(c), latency))]
    /\ UNCHANGED <<temps, leaked, runs>>

\* The run is complete: the copy is removed, and the run kept and answered.
Store(c) ==
    /\ call[c].pc = "run" /\ Loadable(dataset(c)) /\ ~Pending(c)
    /\ Unlink(c)
    /\ LET scope == call[c].scope
           run   == Run(dataset(c), call[c].results, scope)
       IN  IF result_bytes(run) > MaxCacheBytes
           THEN Refuse(c) /\ UNCHANGED runs
           ELSE /\ runs' = Evict(Put(runs, [scope |-> scope, id |-> run.id, run |-> run]))
                /\ call' = [call EXCEPT ![c] = Done(call[c].scope, [kind |-> "run", run |-> run])]
    /\ UNCHANGED leaked

\* The request is cancelled at an await of the runner.
Cancel(c) ==
    /\ Awaiting(c)
    /\ Refuse(c) /\ Unlink(c)
    /\ UNCHANGED <<leaked, runs>>

-----------------------------------------------------------------------------
(* get_benchmark_run and compare_benchmark_runs.                           *)

Lookup(scope, id) == CHOOSE i \in DOMAIN runs : SameKey(runs[i], scope, id)

Ids == {runs[i].id : i \in DOMAIN runs}

Get(c, scope, id) ==
    /\ call[c].pc = "idle"
    /\ call' = [call EXCEPT ![c] = Done(scope,
                   IF Stored(scope, id) THEN [kind |-> "run", run |-> runs[Lookup(scope, id)].run]
                   ELSE Error)]
    /\ UNCHANGED <<temps, leaked, runs>>

Compare(c, scope, base, candidate) ==
    /\ call[c].pc = "idle"
    /\ call' = [call EXCEPT ![c] = Done(scope,
                   IF Stored(scope, base) /\ Stored(scope, candidate)
                   THEN LET a == runs[Lookup(scope, base)].run
                            b == runs[Lookup(scope, candidate)].run
                        IN  [kind |-> "comparison", delta |-> compare_runs(a, b),
                             owners |-> {a.owner, b.owner}]
                   ELSE Error)]
    /\ UNCHANGED <<temps, leaked, runs>>

\* The response is taken.
Return(c) ==
    /\ call[c].pc = "done"
    /\ call' = [call EXCEPT ![c] = Idle]
    /\ UNCHANGED <<temps, leaked, runs>>

-----------------------------------------------------------------------------

Init ==
    /\ call = [c \in Calls |-> Idle]
    /\ temps = {} /\ leaked = FALSE /\ runs = <<>>

Create(c) ==
    \/ \E scope \in Scopes, node \in Nodes \cup {Nothing} : Look(c, scope, node)
    \/ \E place \in {"inside", "outside"} : Resolve(c, place)
    \/ \E node \in Nodes \cup {Nothing} : Open(c, node)
    \/ Copy(c) \/ CopyFails(c) \/ RunFails(c)
    \/ \E a \in Answers : RunCase(c, a)
    \/ \E latency \in FailureLatencies : CaseFails(c, latency)
    \/ Store(c) \/ Cancel(c)

Read(c) ==
    \/ \E scope \in Scopes, id \in Ids : Get(c, scope, id)
    \/ \E scope \in Scopes, base, candidate \in Ids : Compare(c, scope, base, candidate)

\* No other handler is between two awaits.
Scheduled(c) ==
    \A d \in Calls \ {c} : call[d].pc \in {"idle", "done"} \/ Awaiting(d)

Next == \E c \in Calls : Scheduled(c) /\ (Create(c) \/ Read(c) \/ Return(c))

Spec == Init /\ [][Next]_vars

-----------------------------------------------------------------------------
(* Properties.                                                             *)

\* Types.
TypeOK ==
    /\ temps \subseteq Calls /\ leaked \in BOOLEAN
    /\ \A c \in Calls :
          /\ call[c].pc \in {"idle", "resolve", "open", "copy", "run", "done"}
          /\ IF call[c].pc = "idle" THEN call[c] = Idle ELSE call[c].scope \in Scopes
    /\ \A i \in DOMAIN runs : runs[i].scope \in Scopes /\ runs[i].id = runs[i].run.id

\* What is copied and run is the regular file that was looked at, and its path was resolved
\* to a place under a root in between, whatever file is swapped between the looks
\* (checked_dataset).  A file has no location of its own here: that a directory of the
\* resolved path is itself replaced before the file is opened is not told apart.
DatasetIsChecked ==
    \A c \in Calls :
        call[c].pc \in {"copy", "run"} =>
            call[c].place = "inside" /\ call[c].opened.file = call[c].seen

\* A copy outlives no call, unless it could not even be written (the finally clause of
\* create_benchmark_run).
CopiesAreRemoved == \A c \in temps : call[c].pc = "run"

\* A run that is kept has a result for every case of its dataset, in order, also when
\* resolutions failed (FactorBenchRunner.run).
RunsAreComplete ==
    \A i \in DOMAIN runs :
        LET run == runs[i].run
        IN  \E n \in Nodes :
                /\ n.dataset.name = run.name
                /\ Len(run.results) = Len(n.dataset.cases)
                /\ \A j \in DOMAIN run.results : run.results[j].case = n.dataset.cases[j]

\* A case that failed counts as one that was not found, a better rank never lowers a
\* recall, and no rate exceeds one (aggregate_metrics).
RatesAreHonest ==
    \A i \in DOMAIN runs :
        LET results  == runs[i].run.results
            a        == aggregate_metrics(results)
            asked    == Count(results, LAMBDA r : r.case.relevant # {})
            answered == Count(results, LAMBDA r : r.case.relevant # {} /\ r.status # ERROR)
        IN  asked > 0 =>
                /\ a.recall_at_5[1] * asked <= answered * a.recall_at_5[2]
                /\ a.recall_at_1[1] <= a.recall_at_3[1] /\ a.recall_at_3[1] <= a.recall_at_5[1]
                /\ 60 * a.recall_at_1[1] <= a.mrr[1] /\ a.mrr[1] <= 60 * answered
                /\ a.completeness[1] * asked <= answered * a.completeness[2]
                /\ a.precision[1] <= a.precision[2]

\* The 95th percentile is not below the median (_percentile, median).
PercentilesAreOrdered ==
    \A i \in DOMAIN runs :
        LET a == aggregate_metrics(runs[i].run.results) IN a.p50[1] <= 2 * a.p95[1]

\* The cache keeps within both bounds (create_benchmark_run).
CacheIsBounded == Len(runs) <= MaxRuns /\ Bytes(runs) <= MaxCacheBytes

\* A scope is only ever answered with runs and comparisons of its own runs, although
\* the same dataset has the same run id in every scope (the key of the cache).
AnswersAreOwn ==
    \A c \in Calls :
        LET answer == call[c].answer
        IN  /\ answer.kind = "run" => answer.run.owner = call[c].scope
            /\ answer.kind = "comparison" => answer.owners = {call[c].scope}

\* A create replaces no run of another scope, evicts the oldest first, and a run under a
\* new id can be read right after it was created (popitem(last=False)).
CreatesAreKept ==
    [][\A c \in Calls :
          call[c].pc = "run" /\ call'[c].answer.kind = "run" =>
              LET scope == call[c].scope
                  run   == call'[c].answer.run
              IN  /\ \A e \in ToSet(runs') : e.scope # scope => e \in ToSet(runs)
                  /\ \A i, j \in DOMAIN runs :
                        i < j /\ runs[i] \in ToSet(runs') /\ runs[j].id # run.id =>
                            runs[j] \in ToSet(runs')
                  /\ ~Stored(scope, run.id) =>
                        \E e \in ToSet(runs') : e.scope = scope /\ e.run = run]_vars

\* A dataset is run from a copy of the file that was checked, and the copy goes with its
\* call (checked_dataset, create_benchmark_run).
DatasetIsSafe == DatasetIsChecked /\ CopiesAreRemoved

\* A run says what happened: every case has its result, failures count against the rates,
\* and the percentiles are in order (FactorBenchRunner.run, aggregate_metrics).
RunsAreHonest == RunsAreComplete /\ RatesAreHonest /\ PercentilesAreOrdered

\* The cache keeps both bounds, and answers a scope with its own runs (create, read and
\* compare of benchmark runs).
CacheIsSound == TypeOK /\ CacheIsBounded /\ AnswersAreOwn
=============================================================================

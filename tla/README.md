# Formal verification of the Carbon Factor Resolver

TLA+ models of the Carbon Factor Resolver (`src/src/a1_factor_engine`), checked
with TLC on small instances and, where it says so, proved with TLAPS for every
instance. `PROJECT.json` lists components, runs, mutants, theorems, findings and
hazards, and maps each definition to the source lines it models. Paths below are
relative to `src/src/a1_factor_engine` unless they start with `docs/`, which is
`src/docs/`.

## 1. The system

A client submits a material activity; the engine runs a graph of stages
(retrieval from a factor catalogue, qualification, gap analysis, resolution
strategies, ranking, TopK) that ends with a recommendation. A human reviewer
approves or rejects candidates and locks one; the lock freezes the evidence. The
process is one asyncio event loop: tasks interleave at `await` only.

| Component | State it keeps | Operations | What makes it correct |
|---|---|---|---|
| Resolution store (`adapters.py` 843-1186, port in `ports.py`) | recommendations, live traces, decisions, locks | `save_resolution_run`, `save_trace`, `save_approval`, `save_locked`, reads | traces append-only, one approved candidate, decision and event stored together, lock bound to the stored approval |
| Review workflow (`engine.py` 455-944) | none between calls; a call's locals | `resolve`, `resolve_debug`, `approve`, `reject`, `lock`, `_append_trace` | strict explicit revision, bounded retries, duplicates converge, gates of approve imply gates of lock |
| Resolution routes (`api.py` 415-543, 795-816) | owner per id, fingerprint and lock per key | `POST /resolve`, `POST /debug/resolve`, reads | one execution per key, replay of the same input only, ownership partitioned by scope |
| Review routes (`api.py` 682-793) | none | decision, lock | call the review workflow for the owner of the id |
| Benchmark routes and runner (`api.py` 818-955, `evaluation/`) | bounded cache of runs, temporary copies of datasets | create, read, compare; load, run, aggregate | what runs was checked, no copy outlives its call, both bounds hold, scope partition, a failed case counts |
| Resolution graph (`graph.py`, `engine.py` 60-440, `nodes.py`) | `GraphState` of one resolution | one node per stage | stage order, no eligible candidate under a request gap or unit error, status agrees with lists |
| Qualification, gap analysis, planner | none (pure) | functions of request and record | tiers never exceed the evidence; plan order |
| Strategies (`unit_resolution.py`, `reference_flow_resolution.py`, `process_adjustment.py`, `grade_resolution.py`, `derived_factor.py`) and units (`units.py`) | the candidate | conversions, mass per unit, process difference, grade interpolation | total, factor, activity and mass agree; a conversion is physical; an adjustment is a difference |
| Catalogue repository (`adapters.py` 130-700, `catalog_policy.py`, `integrity.py`, `semantic_index.py`) | cached converted index | `search` | no record enters before the integrity checks; the cache is transparent up to the order of a response; approvals are earned |
| Material registry (`material_registry.py`) | rules and grade schemas | resolve, enrich, intent | the longest mention wins; a qualifier is not lost |
| External connectors (`external_connectors.py`, `connector_security.py`, `engine.py` 160-235) | none between calls | discover, fetch, extract | pinned digest, validated routes, bounded redirects, one failure costs only itself |
| Energy evidence database (`energy_database.py`, `tools/import_refractory_energy_standard.py`) | a SQLite file, its temporary file, the anchor | build, open, search | an answer comes from one whole build; evidence of one profile stays together |
| Serialisation, CLI, release tools, dashboard | data files | parsing, formatting | see section 8 |

Interactions: a route calls the engine; the engine calls the graph and the
store; the graph calls repositories and connectors. Shared state is the store
(all calls), the route dictionaries (all submissions), the catalogue cache
(all resolutions), the cache of benchmark runs, and, between processes, the energy
database, the snapshot files and the datasets. What is hard: interleaving at each
`await`, objects built from reads that other calls have outdated, retries and
duplicate calls, cancellation in the middle of a handler, two routes with different
disciplines writing one dictionary, files that are replaced between two looks at
them, an importer that is killed, and numbers that several steps derive from each
other.

## 2. Plan

Done, in this order:

1. `ResolutionStore`, `ReviewWorkflow`, `ReviewAbstract`: store and review, proved.
2. `ResolveApi`: idempotent submission, proved.
3. `ResolutionGraph`: admission, request gaps, strategies, proxies, ambiguity and the
   TopK cascade, proved.
4. `MaterialRegistry`, `CatalogSearch`: names, integrity checks in order, policy gating
   and the index cache under concurrent searches, proved in part.
5. `ExternalDiscovery`: discovery, fetch, pinned digest, redirects, timeouts and
   partial failure, proved.
6. `EnergyEvidence`, `EnergyDatabase`: import, overlapping and killed builds, reads,
   precedence of evidence, proved.
7. `BenchmarkRuns`: datasets, runs, metrics, cache, proved.
8. `UnitSystem`, `FactorArithmetic`: the numbers of a candidate.

All safety properties that the passing runs check are theorems, with the
action properties; liveness is checked by TLC alone.

Left: that the recommendations `ResolutionGraph` reaches are
contents of `ReviewWorkflow`; the importer of the workbook beyond its marks; the release
tools.

## 3. Modules

| Module | Role |
|---|---|
| `ResolutionStore` | store variables; each save as a verdict (the checks, in the order of the code) and a commit (the assignments) |
| `ReviewWorkflow` | engine operations as concurrent calls over the store; properties |
| `ReviewAbstract` | the review state machine a client may rely on |
| `ReviewWorkflow_proofs` | theorems: types, the store's invariants and the refinement; gates and answers of calls |
| `ResolveApi`, `ResolveApi_proofs` | the two routes that start resolutions; properties; theorems |
| `ResolutionGraph`, `ResolutionGraph_proofs` | one resolution, from the normalised request to the recommendation; properties; theorems |
| `MaterialRegistry` | what a name resolves to, and the retrieval intent (operators) |
| `CatalogSearch`, `CatalogSearch_proofs` | searches of a catalogue, the policy, the index and its cache; theorems |
| `ExternalDiscovery`, `ExternalDiscovery_proofs` | the discovery loop, connectors and the outbound policy; theorems |
| `EnergyEvidence` | records, workbook rows, tables and what a search of them returns (operators) |
| `EnergyDatabase`, `EnergyDatabase_proofs` | the database as a file: builders, crashes, readers; theorems |
| `BenchmarkRuns`, `BenchmarkRuns_proofs` | benchmark routes, runner, metrics and cache; theorems |
| `UnitSystem` | unit tables, plans and refusals of conversions (operators) |
| `FactorArithmetic`, `FactorArithmetic_proofs` | the numbers of one candidate through the strategies; properties; theorems |
| `MC...` | a small instance of each |

### ResolutionStore and ReviewWorkflow

`recommendations`, `traces`, `approvals` and `locked` are the dictionaries of
`InMemoryResolutionStore`. A save holds the store's lock and contains no other
suspension, so it is one step. `Save...Verdict` returns what the save does in the
current state: commit, return the object stored earlier, or raise; the errors
keep the order of the code's checks. Digests are assumed collision-free: the
digest of a value is that value. A trace entry's hash covers its timestamp,
hence an event carries the call that wrote it, and the chain hash at a revision
is the prefix of the trace.

The store port is asynchronous, so the engine may not assume that a read and the
next read see one state. `pc` names the `await` a call has reached:

| label | code |
|---|---|
| `has_run` | `resolve`: duplicate check, then the graph (a choice of content) |
| `recommendation` | `approve`, `reject`: read and gates |
| `revision` | comparison with `expected_trace_revision` before anything else |
| `existing` | a stored decision ends the call: replay or conflict |
| `locked`, `approval`, `candidate` | the reads of `lock` and its gates |
| `trace` | head of the commit loop |
| `commit` | the save, and the handling of a stale revision |

`seen` holds the locals of a call, `outcome` and `answer` how it ended. `Cancel`
ends a call at any `await`. The reads of `save_approval` and `save_locked` that
compare the caller's recommendation with the stored one, the appended event with
the one a decision must have, and the stored approval with the embedded one are
all kept. Left out: wording, timestamps, the reviewer identity checks on blank
strings (`Reviewers` are valid ones), and deep copies.

`_append_trace` has no caller in the package besides tests; it is modelled
because it is the one writer that does not use compare-and-set.

### ResolveApi

A submission suspends at the key's lock and while the graph runs; between these
points it calls only the in-memory store, which does not suspend, so `Enter` and
`Complete` are single steps. `queue[key]` is the `asyncio.Lock`: its holder first,
then the waiters in arrival order. `Verdict` is the decision made under the lock.
The public app has no authorizer and one scope, `PublicScope`; its submissions
reserve no owner. The admin app and the public app are separate processes or at
least separate engines in the repository: `AppAssumption` says that the callers of an app
all have a scope or none has, and that only an app with scopes has `/debug/resolve`; one
engine shared by both apps is not modelled. `Cancel` is the cancellation of the handler's
task, on any route and at any of its suspensions: `asyncio.CancelledError` passes by
`except Exception`, so only the `async with` is unwound.

### ResolutionGraph

`A1ResolutionGraph.run` as a machine whose `stage` is the next node. Resolutions
share no state, so there is one; its nondeterminism is what the ports answer: any
small set of records, refusals by the semantic assessment, reference-flow
scenarios, process parameters or none, grade series, or an exception that the
graph does not contain (`PortFails`).

| Variable | Code |
|---|---|
| `candidates`, `kept` | `resolution_candidates`, and the local ones set aside while proxies are resolved (`local_resolved`) |
| `external`, `proxies`, `ranked` | `external_candidates`, `proxy_candidates`, `ranked_candidates` |
| `phase` | which origin the resolution loop works on |
| `request_gaps`, `required_fields` | the same |
| `observed`, `qualifications` | the unit, hash and duplicate reasons of all qualifications and exclusions; whether each was eligible |

A source record is described by how it compares with the request, field by field
(the header of the module lists them): names, values, scores and severities are
not computed but chosen, with every combination that an instance's records name.
Kept in full: the order of the gates and of the nodes, what each strategy does to
the resolution type, the gaps and the tier and in which order it does it (a
strategy's tier is computed before its own gap is removed), the entry conditions
of discovery and proxies, and the TopK cascade test by test. One missing field
`mass` stands for the fields a reference flow may lack; `MissingMassIsAsked` follows this
field only, of the others the model shows their union and the status. `GRADE_ADJUSTED` is left
out: nothing produces it. `normalized is None` (`engine.py` 336) is left out:
`NormalizeNode` always sets it. Left out besides: accounting assignments,
questions, confidence, limitations as texts, and the audit events.

### MaterialRegistry and CatalogSearch

A text is a sequence of words and a set of numbers; each number carries the contexts
in which the parser's patterns find it (percent, formula, prefix, bare, and the
negative ones: grit, alloy, year, ...). `material_matches` selects mentions as the
code's sort and occupation do. The shipped rule table is data; the instance's rules
are of the same kinds (an alias inside another, a product of a material, a composite,
short symbols).

A search suspends while the catalogue is fetched in a thread (`Search` begins,
`Answer` or `FetchFails` ends it); everything after the fetch is one step. The order
of the checks is that of `search`: shape, canonical records, policy (date, content,
signature, verification of approving bundles), manifest, expected digest; then the
cache key, the conversion and the duplicate test of the index. `Configure` exchanges
policy, verifiers, date and registry between any two steps. A digest is the value it
covers: that of a response is the set of its records, since `canonical_catalog_records`
sorts them. What the order decides beside it is modelled with it: a skipped record
without an id is labelled by its position (`adapters.py` 339), and a record found has the
rank that its `rrf_score` tells (`semantic_index.py` 215-232). Both are kept with the
index (`order`), so an answer from the cache has those of the response the index was
built from. The list of the in-memory repository may be reordered under its digest too,
which sorts stably by source id (`MemoryIntact`). Lexical observations are never admitted
and are left out, and one field stands for those that a policy may supply.

### ExternalDiscovery

The engine asks the connectors in turn (`at`), with a step per `await`: listing,
fetch, and for OpenEPD requests resolution, transport and consumption of every hop.
`ChangeFile` replaces a snapshot file at any time; the resolver, the transport and
the fetcher are external and answer anything of the instance's sets. `sent` and
`offered` are histories: what was handed to the transport, and what discovery saw.
`RequestFails` is an error of a request or the total timeout at any of its awaits.
Redaction of texts and `InMemoryExternalCache`, which nothing uses, are left out.

### EnergyEvidence and EnergyDatabase

`files` are inodes and `target`, `temp` directory entries, so a connection keeps its
file when the entry is replaced. A build is: look at the target, unlink the temporary
file, create it, fill it in one transaction (schema, rows, metadata), replace, hash
for the anchor; `Crash` may end it between any two of these. A reader opens the path,
reads the metadata, hashes the path if a digest is expected, and queries. A build's
number stands for the digest of its file. `EnergyEvidence` has the constructors'
checks, the rows that the importer derives from a workbook with its ambiguity marks,
and the search: profile, quotas, conversions, scoped and generic parameters and
emissions, with their precedence, and the composite repository.

### BenchmarkRuns

Handlers change places only where a case is resolved (`Scheduled`, `Awaiting`). Every
look at the file system is a choice, so a dataset may be swapped between `lstat`,
`resolve`, `open` and `fstat`. A file has no location of its own, so a directory of the
resolved path that is replaced before `open` (`O_NOFOLLOW` covers the last component only)
is not told apart. `aggregate_metrics` has every metric as numerator and
denominator. The cache is a sequence in insertion order.

### UnitSystem and FactorArithmetic

Units are the keys of the code's tables; decimals are exact fractions in lowest terms
(`Fractions`, reduced by the recursive function `gcd`), so equal numbers are equal
values, and the model shows what the formulas do and not how floats round. A plan is a reason code with a
multiplier. `FactorArithmetic` follows one candidate: `Evaluate` (normalisation, the
plan, `_candidate`, gaps), then `resolve_unit_scale`, `resolve_reference_flow`,
`resolve_process_variant` and `resolve_grade` in the order the source declares, each
with what its repository may answer. `defect` stands for what makes process evidence
unusable by itself (duplicates, units, non-positive values). `raised` is an exception
that leaves the resolution. One series name stands for what the grade-anchor policy
compares besides units.

## 4. Runs

| Run | Instance | Shows |
|---|---|---|
| `review` | 1 request, 2 candidates, 2 attempts; 4 racing calls with 2 formal candidates and 2 reviewers, or 3 calls with 6 kinds of recommendation, every mode and note; fair | types, one approved candidate, audit trail, seals, answers, refusals, strict revision, immutability, refinement; approve's gates imply lock's, override reasons are sealed; every call ends |
| `api_resolve` | 4 submissions by 2 scopes, 2 inputs, or 3 with `/debug/resolve`; cancellation; fair | the idempotency contract, what both routes guarantee together, every submission is answered |
| `api_cancelled_replay` | 3 submissions by both routes, cancellation | finding, section 7 |
| `api_debug_owner` | 3 submissions | finding, section 7 |
| `graph` | 8 requests with up to 3 of 12 local, 5 external records and a proxy; 12 requests with up to 2 of 4 local records, anchors, scenarios, proxies; fair | lists and status agree; strategies in both orders leave no conflict selectable; a missing mass stays asked; every resolution ends |
| `graph_review_only` | up to 2 records | finding, section 7 |
| `catalog` | 2 searches, 9 payloads, 8 configurations, 2 registries, 2 requests; or 1 search, 10 requests, 2 payloads, 2 registries | the cache is whole, and transparent up to the order of a response; answers anchored, approvals earned; names resolved by the longest mention, related records of one material, qualifiers kept |
| `catalog_publisher` | that of `catalog` | finding, section 7 |
| `connectors` | 4 connectors, 3 files, 4 fetcher answers, 6 envelopes, 8 bodies, 3 resolutions, 2 redirects; fair | validated routes, credentials and redirects stay home, pinned evidence, contained failures, disputed ids, every discovery ends |
| `energy` | 2 importers that overlap and crash, 2 builds of 4 inputs, 1 reader, 5 searches | whole evidence, atomic builds, recovery, checked anchors, coherent evidence |
| `benchmark` | 2 calls, 2 scopes, 6 nodes, 2 answers, cache of 2 runs and 7 bytes | checked dataset, no leftover copy, complete runs, honest metrics, bounds, scopes |
| `arithmetic` | 8 units, 7 targets, 4 evidences, 60 records, 5 anchors, 4 masses, 12 parameter sets | physical and agreeing totals, conditioned volumes, bounded interpolation, exact adjustment, what raises |

Bounds. Requests do not interact in the store (every check and assignment is
local to a request), so one request is enough; two candidates are needed for
conflicting approvals; of four calls one resolves and three race, which is
enough for a decision, a competitor and a lock or a retry to overlap, and two
attempts let a call succeed after one retry and fail after two. Scopes, inputs
and calls of the API runs are chosen so that a holder, an identical waiter, a
conflicting waiter and another scope meet. Where `/debug/resolve` is used the run has at
most three submissions (`MaxWithDebug`), enough for a cancelled `/resolve`, a debug run and
a retry; the theorems have no such bound, and cover the public app, which has no owners and
no run. Searches of the catalogue are interchangeable, hence the symmetry of that run, whose
properties are invariants and action properties; no run with a liveness property has one.
The calls of the review run are interchangeable too, and are numbered in a fixed order of
their operations instead (`Sorted`): `Invoke` touches no shared state, so that it is no
restriction that the calls of a behaviour begin in that order.

The records of the graph runs are variations of a plain admitted record, each with
one or two differences, so that every test of a gate or of the cascade is decided
both ways; three records at once are needed for two candidates that disagree and
one that is refused, and `TopK` = 2 so that a list can overflow. Three runs have two
families of inputs in one specification (`Racing` and `Gated`, `WithinFamily`,
`NamesOnly`): they exercise different parts of the module, and mixing them would only
multiply the states.

Catalogue payloads differ from one another in one respect each (order, signature,
manifest, digest, duplicate ids, duplicate identities), and so do configurations; two
searches let one fetch end during another. The requests of the names have each kind
of qualifier once: a process or a form, in the name or in its field, a number that is
bound as a grade, left unresolved or classified away, and a grade in the composition; an
unqualified name and a composite stand beside them, and three records are related to one
material. A name is resolved within one search, so one search is enough there. A chain of two redirects is the least that
distinguishes its first hop from the bound. Two builds and a crash are enough for
one to find what the other left; the theorems of section 6 cover any number. `MinCases`
is 1 (40 in the code), since a metric over two cases already has every branch of
its formulas; 7 bytes hold two of the smaller runs and not two of the larger. The
arithmetic run uses the ratios of the code's tables; each unit stands for one kind
(scaled, conditioned, counting, of another dimension, unparseable).

Deadlock checking is off where all calls may have ended or a resolution is finished;
that none is stuck is the liveness properties' business. It is on for `catalog`,
`energy` and `benchmark`.

Fairness. `WF(Step(k))` and `WF(Proceed(k))`: the event loop runs every task that
is ready. `WF(MCNext)` in the graph: a port returns or raises. In `ExternalDiscovery`
weak fairness of the engine's own steps, and of `RequestFails`: the total timeout ends
a request that nothing else ends. That a public fetcher answers is assumed, because
its call has no timeout. Nothing is assumed of clients, cancellation, resolvers or
transports.

## 5. Properties

Each property is stated in words above its definition, and each has a mutant: a
definition `Name_Variant` next to the one it spoils, such as a retry that re-sends
its old objects, a cache key without the signature status, a redirect that is not
compared with its origin, or a total that is kept when its factor changes.

A property with parts is a conjunction of named definitions, each with its own comment.

| Module | Properties, with their parts |
|---|---|
| `ReviewWorkflow` | `TypeOK`; `AtMostOneApproved`; `DecisionsMatchTrace`; `LockSealsApproval`; `CallsEndRightly` (`AnswersAreStored`, `RefusalsAreEarned`, `ExplicitRevisionIsStrict`); `GatesAgree` (`ApprovedIsLockable`, `OverrideReasonIsSealed`); `HistoryIsImmutable`; `ImplementsReview`; `EveryCallEnds` |
| `ResolveApi` | `SubmissionsAreIdempotent` (`OneExecution`, `AnswersOwnInput`, `ValidSubmissionsAreServed`); `OwnershipIsSound` (`OwnershipIsPartitioned`, `ResolvedRunsStayReachable`, `BindingsAreEarned`); `EverySubmissionEnds` |
| `ResolutionGraph` | `SelectableIsClean`; `ResultIsConsistent` (`EveryCandidateIsShown`, `StatusHasItsCause`); `OriginsStayApart` (`ProxiesComeLast`, `ExternalEvidenceIsSeparate`); `MissingMassIsAsked`; `EveryResolutionEnds` |
| `CatalogSearch` | `IndexIsSound` (`CacheIsWhole`, `AnswerIsAnchored`); `CacheIsTransparent`; `PolicyIsObeyed` (`ApprovalIsEarned`, `PolicyOnlyFillsGaps`); `NamesAreResolved` (`LongestMentionWins`, `RelatedIsOneMaterial`); `QualifiersAreKept` |
| `ExternalDiscovery` | `RequestsStayOnRoute` (`RoutesAreValidated`, `CredentialsStayHome`, `RedirectsStayHome`); `EvidenceIsPinned`; `FailuresStayLocal` (`FailuresAreContained`, `DisputedIsExcluded`); `EveryDiscoveryEnds` |
| `EnergyDatabase` | `ReadsAreSound` (`EvidenceIsWhole`, `AnchorIsChecked`); `BuildsRecover` (`BuildsAreAtomic`, `FailuresAreEarned`); `EvidenceIsCoherent` (`SharesBelongTogether`, `DuplicatesStayOut`, `ZeroIsQuestioned`, `GenericIsUndisputed`); `CommittedIsFinal` |
| `BenchmarkRuns` | `DatasetIsSafe` (`DatasetIsChecked`, `CopiesAreRemoved`); `RunsAreHonest` (`RunsAreComplete`, `RatesAreHonest`, `PercentilesAreOrdered`); `CacheIsSound` (`CacheIsBounded`, `AnswersAreOwn`); `CreatesAreKept` |
| `FactorArithmetic` | `UnitDefectsStopCandidates`; `TotalIsPhysical`; `TotalsAgree`; `UnitsAreNotConfused` (`MassIsOfTheUnit`, `ConditionedNeedsEvidence`); `GradesAreSound` (`InterpolationIsBounded`, `RaisesAreConditioned`); `AdjustmentIsTheDifference` |

The type invariant `TypeOK` of each module but the first is one more part of
`SubmissionsAreIdempotent`, `ResultIsConsistent`, `IndexIsSound`, `FailuresStayLocal`,
`BuildsRecover`, `CacheIsSound` and `UnitsAreNotConfused`.

## 6. Proofs

The first eight theorems are about `ReviewWorkflow!Spec`, for arbitrary sets of requests,
candidates, reviewers, contents, operations and calls and any number of attempts;
assumptions are the typing of the constants (`ContentsAssumption`,
`NoContentAssumption`, `OperationsAssumption`, `NoOperationAssumption`,
`MaxAttemptsAssumption`), which TLC evaluates in the review run.

- `TypeCorrect`: `TypeOK` is not inductive, since a step builds records from
  what the call has read; `TypeInv` adds `CallShape`, which says for each label
  which locals a call has filled in.
- `OneApprovedCandidate`, `DecisionsAreAudited`, `LocksAreSealed`, `HistoryIsKept`:
  every step either leaves the store alone or is one of four effects (a run opened,
  an annotation, a decision stored, a lock stored). Each effect's lemma states what
  the save's checks guarantee at the moment of the commit, so the invariant is
  proved per effect and not per action. The inductive invariant `Inv` is
  `TypeInv`, the invariants on the store, and `CallKnows`: what a call remembers
  (a content, an approval) is still what the store holds, because the store never
  rewrites it. Without `CallKnows` a lock could not be shown to embed the stored
  approval.
- `WorkflowImplementsReview`: under the mapping of `AuditTrail`, `DecisionOn` and
  the locked pairs, each effect is one action of `ReviewAbstract`, everything else
  a stutter.
- `GatesHold`, `CallsAreAnswered`: `CallsInv` adds to `Inv` what the stored records
  themselves carry (`DecisionsAreGated`, `LocksAreGated`: a decision and a lock passed
  the gates under the override their event records), who wrote an event
  (`EventsAreAnswered`: a call that is answered, with the revision it named) and, per
  call, what it has seen and where it is in its commit loop (`CallInv`: the content and
  the approval it read are the stored ones, the trace is longer than the attempts it has
  lost, it has written nothing before its answer). That a call is stale after its last
  attempt only beside more than `MaxAttempts` events follows from the loop's part.

The others, each for any value of the constants of its module:

- `IndexSound`, `CacheTransparent`, `PolicyObeyed` (`CatalogSearch`): the inductive
  invariant `CacheInv` says that the cached index is what its key names and has no two
  records with one id. What a search reads off the index is a function of the key, and
  a key is current only for a payload that has just passed the checks under the policy
  in force; so a search finds in the cache the records that a new repository would find,
  and its approvals are earned by the policy of now. Ranks and position labels are not a
  function of the key: they are those of one response with the fetched content, the one
  the index was built from, and that is what `CacheIsTransparent` says of them. A record
  is converted only if the policies that apply supply at most one value, hence what it
  inherits is what each of them says.
- `NamesResolved`, `QualifiersKept` (`CatalogSearch`): `material_matches` selects mentions
  by a recursion over a finite set of candidates. It has a solution because a finite set
  of mentions has a last one in the order of the sort (`PrecedesOrders`, `LastMention`,
  `SelectionExists`), and what it selects is what the occupation in the code keeps
  (`MatchesAreASelection`): an occurrence is left out only beside one that overlaps it
  and came first, so the longest of overlapping mentions wins (`LongestWins`). What a
  text resolves to is the constituents of what it mentions (`IdentityIsParts`); as a
  single material has one constituent and a composite lists two, related records share
  theirs (`RelatedStep`). A request whose aliases are searched has no qualifier of any kind
  (`AliasesNeedNoQualifier`): where `best_rule_match` finds nothing, no rule of a process or
  form is mentioned at all, since of those that are one has the longest alias and then the
  least id (`NoRuleIsMentioned`). `IntentInv` says that what is asked was resolved by the
  registry of some configuration: a deployment may exchange registries while the
  catalogue is fetched, hence `QualifiersAreKept` speaks of every registry and request the
  intent may come from (`Resolutions`). Assumption: `RegistryAssumption` (texts are sequences of words; rule ids are
  distinct, a rule is not `NoRule`, and only a composite's rule lists constituents, more
  than one, as in the built-in table of `material_registry.py`).
- `KeysAreIdempotent`, `OwnersAreSound` (`ResolveApi`), for all behaviours of an app, with
  `/debug/resolve` and cancellation in any mixture. `ApiInv` adds to the properties
  the lock (`QueueInv`: a queue holds the submissions under way with its key, only the
  first runs), what a running submission holds (`RunningInv`: its key is bound to its
  input and the id is its own, or a run of `/debug/resolve` has come between; if the
  reservation is not its own, a cancelled submission of the key made it, and if it is, no
  other scope has a binding of the id), what a stored run keeps (`StoredInv`: the binding
  and the owner of a run of `/resolve`; beside a run of `/debug/resolve` only submissions
  that still run or were cancelled have bindings), that an id without an owner is bound to
  nothing in an app with scopes (`FreeInv`) and the cause of every refusal (`EndInv`).
  `RunningInv` is what makes the undo of a failure harmless: no other submission can run
  with that id, and a stored run of `/resolve` excludes it. With `FreeInv` a replay of a
  debug run stays within its scope; that it may answer another input, and only under a
  binding which a cancelled submission left, is the exception in `AnswersOwnInput`.
  Assumptions: `NoValueAssumption`, `RoutesAssumption`, `AppAssumption` (`OneApp`, what the
  last says of the submissions, is a lemma).
- `SelectableCandidatesAreClean`, `RecommendationAgrees`, `OriginsAreSeparate`,
  `MissingMassStaysAsked` (`ResolutionGraph`): `WorkInv` says what each node finds when
  its turn comes. Every candidate in the state comes from a qualified record
  (`SourcesInv`); none has an open reference flow after the node that closes them
  (`FlowInv`); the loop has a candidate to work on (`TurnInv`); what is still empty, and
  that a request gap has become a field asked for once discovery is over (`StageInv`);
  what the candidates of each phase are (`LocalPhase`, `ExternalPhase`, `ProxyPhase`: the
  last carries the reason for which proxies were sought through their own resolution,
  in `kept`); that a tier above `REFERENCE_ONLY` was earned (`TierInv`); and one ranked
  candidate per id (`PoolInv`). The lemmas on the strategies say that each keeps a
  candidate's identity, adds no gap and takes its source from qualified records only
  (`Follows`). The recommendation is then read off the ranking in one step: a list is
  its whole pool or holds `TopK`, since there are finitely many candidates
  (`CandidateFinite`), and the tests of the cascade are gone through one by one.
  Assumption: `GraphAssumption` (finitely many records; the kinds of recall and of unit
  comparison are those the module lists).
- `OnRoute`, `EvidencePinned`, `FailuresLocal` (`ExternalDiscovery`): `RouteInv` adds to the first that the
  request under way is within its hops and at the origin where it began; `PinInv` adds
  to the second that every reference left was offered with the item its digest names,
  and that a connector other than OpenEPD always pins one. `LocalInv` says at every
  place of the engine's loop that the references offered so far are those tried and those
  left of the connector being asked, so nothing is lost when a connector or a fetch
  fails, and that the result is computed once all connectors have been asked. Assumptions:
  `LimitsAssumption`, `FilesAssumption` (no digest is the missing one),
  `ConnectorsAssumption`.
- `ReadsSound`, `CommittedStays`, `BuildsRecovered` (`EnergyDatabase`): a file that an
  importer is filling carries no metadata and has one writer, whatever happens to its directory entry;
  hence a file with metadata is whole and final. What a reader has checked stays true
  of its file. `RecoverInv` adds, while no builds have overlapped, that at most one
  importer is at work, on the file the temporary entry names, and what it has found at
  each step; so what it renames and hashes is its own whole file, whatever a crash left
  behind before. Assumption: `MaxBuildsAssumption`.
- `EvidenceFits` (`EnergyDatabase`): `SheetsInv` says that the inputs of every build passed
  the constructors, `EvidenceInv` that the evidence a reader was given is what the search
  of the rows of its file yields (`Answer`): the file is committed by then, so it cannot
  change under the answer. The rest is about one workbook and one search. A profile in the
  tables is that of one line at one level with its marks (`ProfileRow`), twins are marked
  on both sides (`TwinsAreMarked`) and the shares of a profile close (`SharesClose`). A
  side has one profile, or a lookup raises (`OneProfile`), so what comes from the workbook
  has one item per name (`OneItemPerName`), and nothing that is appended later replaces it
  (`FoundItems`); the composite repository drops an item only for one with its id
  (`FoundIsKept`). `SharesTogether`, `TwinsStayOut`, `ZeroAsks` and `GenericAgrees` are the
  four parts of the property. Assumption: `WorkbooksAssumption` (finitely many rows, one
  per line).
- `DatasetsAreSafe`, `CacheIsKeptSound`, `MetricsAreHonest`, `NothingElseIsEvicted`
  (`BenchmarkRuns`): `CallsInv` says what a call has at each step (`Good`: the
  place it resolved is below a root, the file it opened is the one it looked at there,
  its results so far are those of the dataset's first cases), `TempsInv` that a temporary
  copy belongs to a call that still runs its cases, `RunsInv` that the cache holds whole
  runs (`Kept`), one per key (`Alone`), within its bounds (`Fits`). The metrics and the
  sizes are sums over sequences of any length, so their bounds need induction, which the
  module takes from the well-foundedness of `Nat` as facts about sets (`LeastNat`,
  `Climbing`, `Reaching`): `SumAtMost`, `SumAtLeast` and `SumIsMonotone` bound a sum by
  its terms, `OrderedIsMonotone` that the ordered latencies ascend. Eviction drops the
  fewest of the oldest entries that let the rest fit (`EvictKeeps`), hence a new run that
  fits by itself stays. Assumptions: `BoundsAssumption`, `NodesAssumption` (a
  dataset's cases are a sequence), `AnswersAssumption` (a resolution that ends with an
  error has no candidates; counts and latencies are numbers).
- `TotalsArePhysical`, `LockAcceptsTotals`, `UnitsAreKept`, `GradesStayBounded`,
  `AdjustmentsAreDifferences` (`FactorArithmetic`). A recursive function equals its body
  only if some function solves the recursion; `SolutionSolves` shows that the greatest
  common divisor does, from the well-foundedness of `Nat`. Hence `Reduced` gives one
  form to all pairs of a ratio (`ReducedForm`), and sum, product, quotient and order of
  fractions are those of the ratios (`PlusRatios`, `TimesRatios`, `OverRatios`,
  `AtMostRatios`), with the laws the formulas need. `Measure` is a unit in base units,
  by the evidence where it has one, `Rate` a factor unit in base units: a planned
  conversion keeps amount times measure and factor times rate
  (`ActivityPlanMeasures`, `FactorPlanRates`), whatever the tables hold. A total alone is
  not inductive; `ArithmeticInv` says of a candidate and the steps ahead of it that its
  units convert into each other and its factor is its record's as long as it rests on that
  alone (`Sound`), that activity, mass and total are those of the request (`Aligned`), or that
  it still waits for a mass per unit and the reference-flow step is ahead (`Waiting`),
  and that the record is the recalled one until the grade step replaces it. An adjustment
  has no clamp because the decomposition is refused if the upstream is negative
  (`AdjustedDifference`). Assumptions: `TableAssumption` and `InputAssumption`, which TLC
  evaluates for the instance. The code justifies them: ratios in the tables and the multiplier
  of evidence are positive (`units.py` 103), a canonical unit is a key, the same unit,
  and Nm3 the only conditioned one (`units.py` 165), conversion coefficients
  without a defect are positive (`process_adjustment.py` 222-228), and the grade step keeps one
  record per id, the candidate's first (`grade_resolution.py` 54-57).
- `UnitSafety` (`FactorArithmetic`): `UnitInv` says that a request with a candidate, or with
  a strategy's step ahead, has no unit reason code; `UnitDefectsStopCandidates` alone
  is not inductive, since it says nothing of the steps that would bring a candidate
  back. Assumption: `TableAssumption`.

Only model-checked: liveness, since fairness and ENABLED are out of the prover's reach.

## 7. Findings

- `api_debug_owner`: `/debug/resolve` stores a run and sets its owner while a
  `/resolve` of the same id runs; the latter then fails as a duplicate and removes
  the owner entry, because its reservation was new. The run exists, nobody can read
  or review it, and its id is used up. It needs the debug route of the admin app on an
  id that `/resolve` uses too; with `/resolve` alone the documented contract holds.
- `api_cancelled_replay`: a `/resolve` cancelled while the graph runs leaves its
  fingerprint behind (`api.py` 498); if `/debug/resolve` then stores a run of another input
  under the id, a retry of the cancelled request is answered with that run, where the
  documentation promises the result of the same input or a conflict. `AnswersOwnInput`
  names this case and is checked and proved with it; `ReplaysOwnInput`, the sentence
  without the exception, is what this run refutes.
- `graph_review_only`: the cascade tests the unit reasons of all qualified records,
  admitted or not, before it looks at what may be reviewed; one recalled record with
  a bad unit turns a review into a refusal, and the engine accepts no approval under
  the status unresolved. By the same order a request gap may end as a refusal and not
  as the question that the comment at `engine.py` 350-352 announces.
- `catalog_publisher`: the cache key holds neither the publisher nor whether its
  signature was verified, while the converted records carry both; an unsigned response
  with the same digest and records is answered with records that call their publisher
  verified, beside an anchor that says it is not.

Observations made while modelling:

- Graph. Proxies are sought beside a sufficient direct candidate when a related record
  was recalled with it (`engine.py` 394); a missing reference flow overwrites the
  fields asked for before (`nodes.py` 1093); a generic class proxy becomes usable when a
  reference flow converts it, since its type is replaced; the `elif` branches of
  `gap_analysis.py` for unspecified values cannot be reached where `_different` already
  holds for them.
- Catalogue. No digest covers the order of a response, so a reordered one is answered
  from the cached index with the ranks, `rrf_score` and position labels of the earlier
  order; the records found, their channels and the diagnostics of records with an id do
  not depend on it. No document promises more, hence it is no finding.
- Registry. A bare number outside 70, 80, 90 and every schema is no token, so aliases
  are kept; the aliases of a composite request include those of each constituent; the
  rule of bauxite names `mat.ore.bauxite` and its grade schema `mat.mineral.bauxite`,
  which never match.
- Connectors. The thread of a request that timed out runs on, but nobody listens to
  it; a public fetcher may return a document with a reference of its own, while the
  content stays pinned.
- Energy. The digest is that of the path and the rows are those of the connection: a
  replacement in between labels evidence with another build (the condition of
  `AnchorIsChecked`). Overlapping importers share one temporary file: a half-built one
  may become the target, which readers refuse until the next build; an anchor may
  carry the other build's digest; `overwrite=False` can be bypassed. Of several scoped
  or conversion rows with one name the last id wins silently. With
  `allow_review_profiles` the emissions of rows marked ambiguous are summed. The
  composite repository skips an item whose id it has seen without comparing values;
  a quota that serves both sides has one id, so it drops the target's total. It is
  exported but not used.
- Benchmarks. Storing an existing key keeps its old position, so a run that was just
  created again may be evicted at once; retention is shared by the scopes; a temporary
  copy stays behind when its own write fails (`api.py` 896-898, `leaked`).
- Arithmetic. In the default order the process step precedes the grade step, which
  takes its factor from the raw anchors (`grade_resolution.py` 70-121): an exact,
  interpolated or nearest grade replaces an adjusted factor, while the closed process
  gap and the recorded step remain. `resolve_grade` converts anchors without the
  request's evidence and without a handler, so a standard-volume target with anchors
  per actual cubic metre raises (`RaisesAreConditioned` bounds this). Evidence for other
  units is reported as unsupported syntax.

## 8. Not modelled

- Serialisation, DTOs, error envelopes, request ids, health probes: formatting and I/O.
- Command line, dashboard: printing and rendering around the engine.
- Release and data tools (`tools/`), besides the importer's rows and the build of the
  energy database: offline scripts over files. The PDF parser and the expected row
  counts of the importer are not modelled.
- The computation of scores (that one is too low is a field of a record, `low`),
  `source_quality`, `resolution_strength` and `accounting.py`, which order candidates
  or annotate the trace. `convert_mass` and
  `is_mass_unit` are compatibility helpers that the resolution does not use.
- Rounding: floats and decimals are exact fractions, tolerances are zero.
- Field validation of the dataclasses in `models.py`, where no gate depends on it.
- Reuse of inode numbers, and a commit of SQLite that is not atomic: the database's
  transaction is trusted, also for a file that was renamed meanwhile.
- Several worker processes: the repository states that they need a shared idempotency
  store; the model of the routes, like the code, has one process.

--------------------------- MODULE ResolutionGraph ----------------------------
(***************************************************************************)
(* One resolution: A1ResolutionGraph.run over the GraphState of a request. *)
(* An action is one node, or one iteration of the engine's loop over the   *)
(* candidates.  What the repositories, connectors and the material         *)
(* understanding port answer is a choice; what they answer with are source *)
(* records, described by how they compare with the request.                *)
(*                                                                         *)
(* Fields of a record: id; strategy (how it was recalled); gates (the      *)
(* identity, kind, indicator, declared product, boundary and quality gates *)
(* of qualify_record pass); hashed (its document hash is not missing);     *)
(* subject; unit (against the target factor unit); place (geography and    *)
(* year, where a conflict rejects; where the request leaves them open it   *)
(* stands for process and form too, the other decisive attributes); route; *)
(* formal (declared product, boundary, kind and indicator are stated);     *)
(* capped (governance cap); low (score below min_score); process, grade,   *)
(* other (differences from the request; other is boundary, geography, year *)
(* or form of severity 0.5 or more); kin (shares the material's name or    *)
(* head); technical (proxy with a similar process); series; grade_first    *)
(* (resolution_order names grade before process).                          *)
(***************************************************************************)
EXTENDS Naturals, FiniteSets, Sequences

CONSTANTS Requests,         \* the requests a behaviour may start with
          LocalRecords,     \* what the catalogue may answer with
          ExternalRecords,  \* what the connectors' documents may yield
          ProxyRecords,     \* what the proxy repository may answer with
          SeriesRecords,    \* what the grade series repository may answer with
          Scenarios,        \* reference flow records
          TopK,             \* request.top_k
          MaxRecall,        \* bound: records per answer
          NoPlace

Records == LocalRecords \cup ExternalRecords \cup ProxyRecords \cup SeriesRecords

\* The repositories and the documents hold finitely many records; the other
\* fields of a record or a request are only compared.
ASSUME GraphAssumption ==
    /\ TopK \in Nat \ {0} /\ MaxRecall \in Nat
    /\ IsFiniteSet(Records) /\ IsFiniteSet(Scenarios)
    /\ \A r \in Records : r.strategy \in {"exact", "synonym", "related"} /\ r.low \in BOOLEAN
    /\ \A q \in Requests : q.units \in {"consistent", "bridged", "mismatched",
                                       "bad_target", "bad_quantity"}

Answers(S) == {R \in SUBSET S : Cardinality(R) <= MaxRecall}

Duplicated(R) == {r \in R : \E s \in R : s # r /\ s.id = r.id}

VARIABLES request, stage, phase, records, candidates, kept, external, proxies,
          request_gaps, required_fields, observed, qualifications, ranked,
          recommendation

results == <<external, proxies, ranked, recommendation>>
findings == <<observed, qualifications>>
asks == <<request_gaps, required_fields>>
vars == <<request, stage, phase, records, candidates, kept, results, findings, asks>>

UnitCodes == {"UNIT_SYNTAX_UNSUPPORTED", "CATALOG_FACTOR_UNIT_INVALID",
              "UNIT_DIMENSION_MISMATCH", "UNIT_CONVERSION_EVIDENCE_REQUIRED"}
Conflict == "conflicting_duplicate_source_id"
HashRequired == "SOURCE_DOCUMENT_HASH_REQUIRED"

GapType == {"UNIT_SCALE", "REFERENCE_FLOW", "PROCESS_VARIANT", "GRADE_COMPOSITION",
            "GRADE_CONFLICT", "MATERIAL_ABSENT", "OTHER"}

DirectTypes == {"DIRECT_EXACT", "DIRECT_ALIAS", "UNIT_CONVERTED"}
AdjustedTypes == {"REFERENCE_FLOW_CONVERTED", "PROCESS_ADJUSTED",
                  "GRADE_INTERPOLATED", "CLASS_TECHNICAL_PROXY"}
ReferenceTypes == {"GRADE_PROXY", "UNADJUSTED_PROCESS_PROXY", "CLASS_GENERIC_PROXY"}
ResolutionType == DirectTypes \cup {"GRADE_EXACT_ANCHOR"} \cup AdjustedTypes \cup ReferenceTypes

TYPE_PRIORITY ==
    [t \in ResolutionType |->
        CASE t = "DIRECT_EXACT" -> 0
          [] t = "DIRECT_ALIAS" -> 1
          [] t = "UNIT_CONVERTED" -> 2
          [] t = "REFERENCE_FLOW_CONVERTED" -> 3
          [] t \in {"PROCESS_ADJUSTED", "GRADE_EXACT_ANCHOR"} -> 4
          [] t = "GRADE_INTERPOLATED" -> 5
          [] t = "GRADE_PROXY" -> 6
          [] t = "UNADJUSTED_PROCESS_PROXY" -> 7
          [] t = "CLASS_TECHNICAL_PROXY" -> 8
          [] t = "CLASS_GENERIC_PROXY" -> 9]

ResultTier == {"PRIMARY_RECOMMENDATION", "USABLE_WITH_ASSUMPTIONS", "REFERENCE_ONLY"}

Router == {"PROCESS_VARIANT", "GRADE_COMPOSITION"}

Candidate ==
    [base : {r.id : r \in Records}, source : Records, origin : {"local", "external", "proxy"},
     scenario : Scenarios \cup {0}, type : ResolutionType, gaps : SUBSET GapType,
     incomplete : BOOLEAN, low : BOOLEAN, tier : ResultTier,
     routers : {<<>>} \cup {<<a>> : a \in Router} \cup {<<a, b>> : a \in Router, b \in Router}]

\* candidate_id: the record it started from (a grade anchor may replace the
\* source) and the scenario; the other derivation suffixes add nothing.
Id(c) == <<c.origin, c.base, c.scenario>>

NoRecommendation ==
    [status |-> "none", candidates |-> {}, reviewable |-> {}, diagnostics |-> {},
     reason_codes |-> {}, exhausted |-> FALSE]

-----------------------------------------------------------------------------
(* Qualification of a record.                                              *)

\* unit_reason_codes of NormalizeNode: the quantity unit or the target does not
\* parse, or they have different dimensions.
unit_reason_codes ==
    CASE request.units \in {"bad_target", "bad_quantity"} -> {"UNIT_SYNTAX_UNSUPPORTED"}
      [] request.units = "mismatched" -> {"UNIT_DIMENSION_MISMATCH"}
      [] request.units \in {"consistent", "bridged"} -> {}

\* Unit dimension of qualify_record.  A request in pieces (or in a volume of a
\* stated form) without target unit may be bridged to a mass factor.
UnitMismatch(r) ==
    CASE r.unit = "invalid" -> {"CATALOG_FACTOR_UNIT_INVALID"}
      [] r.unit # "invalid" /\ request.units = "bad_target" -> {"UNIT_SYNTAX_UNSUPPORTED"}
      [] r.unit = "conditioned" /\ request.units # "bad_target"
            -> {"UNIT_CONVERSION_EVIDENCE_REQUIRED"}
      [] r.unit = "other_dimension" /\ request.units \in {"consistent", "mismatched", "bad_quantity"}
            -> {"UNIT_DIMENSION_MISMATCH"}
      [] OTHER -> {}

\* A non-material factor needs a request that states its subject.
SubjectUnstated(r) == r.subject = "operational" /\ ~request.subject_stated

PlaceConflict(r) == request.place # NoPlace /\ r.place \notin {NoPlace, request.place}

qualify_record(r) ==
    /\ r.gates
    /\ r.hashed
    /\ ~SubjectUnstated(r)
    /\ ~PlaceConflict(r)
    /\ UnitMismatch(r) = {}

\* The grade anchor policy: nothing may be unknown, so the request must state
\* the place and the anchor must have it.
grade_anchor(r, reference) ==
    /\ qualify_record(r)
    /\ r.formal = "complete"
    /\ request.place # NoPlace /\ r.place = request.place
    /\ r.series = reference.series /\ r.series # "none"

\* Reasons qualification leaves in the state, whatever else rejects the record.
Noted(R) ==
    (UNION {UnitMismatch(r) : r \in R})
    \cup {h \in {HashRequired} : \E r \in R : ~r.hashed}

-----------------------------------------------------------------------------
(* Candidates: creation, tier, gaps.                                       *)

Severe == GapType \ {"UNIT_SCALE"}

tier_for(c) ==
    CASE c.incomplete \/ c.source.formal # "complete" -> "REFERENCE_ONLY"
      [] ~c.incomplete /\ c.source.formal = "complete" /\ c.type \in DirectTypes
            -> IF c.gaps \cap Severe # {} THEN "USABLE_WITH_ASSUMPTIONS"
                                          ELSE "PRIMARY_RECOMMENDATION"
      [] ~c.incomplete /\ c.source.formal = "complete" /\ c.type = "GRADE_EXACT_ANCHOR"
            -> "PRIMARY_RECOMMENDATION"
      [] ~c.incomplete /\ c.source.formal = "complete" /\ c.type \in AdjustedTypes
            -> "USABLE_WITH_ASSUMPTIONS"
      [] ~c.incomplete /\ c.source.formal = "complete" /\ c.type \in ReferenceTypes
            -> "REFERENCE_ONLY"

\* Faulty variant: the score threshold is never applied.
finalize_candidate_NoThreshold(c, thresholded) ==
    [c EXCEPT !.tier = IF c.source.capped THEN "REFERENCE_ONLY" ELSE tier_for(c)]

\* The threshold is applied by the re-evaluation only.
finalize_candidate(c, thresholded) ==
    [c EXCEPT !.tier = IF (thresholded /\ c.low) \/ c.source.capped
                       THEN "REFERENCE_ONLY" ELSE tier_for(c)]

InitialType(r, origin) ==
    CASE origin = "proxy" -> IF r.technical THEN "CLASS_TECHNICAL_PROXY" ELSE "CLASS_GENERIC_PROXY"
      [] origin # "proxy" /\ r.strategy = "synonym" -> "DIRECT_ALIAS"
      [] origin # "proxy" /\ r.strategy = "related" -> "CLASS_GENERIC_PROXY"
      [] origin # "proxy" /\ r.strategy = "exact"
            -> IF r.unit = "scaled" THEN "UNIT_CONVERTED" ELSE "DIRECT_EXACT"

new_candidate(r, origin) ==
    finalize_candidate(
        [base |-> r.id, source |-> r, origin |-> origin, scenario |-> 0, type |-> InitialType(r, origin),
         gaps |-> {}, incomplete |-> r.formal = "incomplete", low |-> r.low,
         tier |-> "REFERENCE_ONLY", routers |-> <<>>], FALSE)

\* evaluate_records: qualified, not refused by the semantic assessment, and
\* convertible to the requested quantity.
evaluate_records(R, refused, origin) ==
    {new_candidate(r, origin) : r \in
        {s \in R : qualify_record(s) /\ s \notin refused /\ unit_reason_codes = {}}}

GradeGap(r) ==
    IF request.grade = "none" \/ r.grade = "target" THEN {}
    ELSE IF request.grade = "numeric" THEN {"GRADE_CONFLICT"} ELSE {"GRADE_COMPOSITION"}

analyze_candidate_gaps(c) ==
    LET r == c.source
        technical == {g \in {"PROCESS_VARIANT"} : r.process = "different"} \cup GradeGap(r)
    IN  technical
        \cup {g \in {"UNIT_SCALE"} : r.unit = "scaled"}
        \cup {g \in {"REFERENCE_FLOW"} : r.unit = "other_dimension"}
        \cup {g \in {"MATERIAL_ABSENT"} :
                 \/ c.origin = "proxy"
                 \/ r.strategy = "related" /\ (~r.kin \/ technical = {})}
        \cup {g \in {"OTHER"} : r.other \/ (request.place # NoPlace /\ r.place = NoPlace)}

\* candidate_hard_rejection_reasons
process_conflict(c) ==
    c.type = "UNADJUSTED_PROCESS_PROXY" \/ "PROCESS_VARIANT" \in c.gaps

grade_conflict(c) == "GRADE_CONFLICT" \in c.gaps

hard(c) == process_conflict(c) \/ grade_conflict(c)

-----------------------------------------------------------------------------
(* Up to the local candidates.                                             *)

Init ==
    /\ request \in Requests
    /\ stage = "normalize"
    /\ phase = "local"
    /\ records = {} /\ candidates = {} /\ kept = {} /\ external = {} /\ proxies = {}
    /\ request_gaps = {} /\ required_fields = {}
    /\ observed = {} /\ qualifications = {}
    /\ ranked = {}
    /\ recommendation = NoRecommendation

Normalize ==
    /\ stage = "normalize"
    /\ request_gaps' = {f \in {"specification"} : request.underspecified}
    /\ stage' = "local_retrieval"
    /\ UNCHANGED <<request, phase, records, candidates, kept, results, findings, required_fields>>

\* The catalogue answers, is unavailable (no records), or holds two records
\* with one id.  A digest or signature failure is raised: PortFails.
LocalRetrieval ==
    /\ stage = "local_retrieval"
    /\ \/ /\ records' \in Answers(LocalRecords) /\ Duplicated(records') = {}
          /\ UNCHANGED observed
       \/ records' = {} /\ observed' = observed \cup {Conflict}
    /\ stage' = "local_evaluate"
    /\ UNCHANGED <<request, phase, candidates, kept, results, qualifications, asks>>

SubjectGap(R) == {f \in {"subject_type"} : \E r \in R : SubjectUnstated(r)}

\* The product's route is asked for; the local stage asks only if the material
\* itself is identified.
RouteGap(C, asking) ==
    {f \in {"route"} : /\ request.route \in asking
                       /\ \E c, d \in C : c.source.route # d.source.route
                                          /\ "none" \notin {c.source.route, d.source.route}}

LocalEvaluate ==
    /\ stage = "local_evaluate"
    /\ \E refused \in SUBSET records :
          candidates' = evaluate_records(records, refused, "local")
    /\ qualifications' = {qualify_record(r) : r \in records}
    /\ observed' = observed \cup Noted(records)
    /\ request_gaps' = request_gaps \cup SubjectGap(records) \cup RouteGap(candidates', {"open"})
    /\ stage' = IF request_gaps' # {} THEN "external_discovery" ELSE "gap_analysis"
    /\ UNCHANGED <<request, phase, records, kept, results, required_fields>>

-----------------------------------------------------------------------------
(* External discovery: under a request gap its candidates are evidence     *)
(* only; without local candidates they enter the resolution.               *)

\* A connector that fails contributes nothing; records that share an id but
\* differ are all dropped.
Discover ==
    \E R \in Answers(ExternalRecords) :
       LET unique == R \ Duplicated(R) IN
       /\ records' = unique
       /\ \E refused \in SUBSET unique :
             external' = evaluate_records(unique, refused, "external")
       /\ qualifications' = qualifications \cup {qualify_record(r) : r \in unique}
       /\ observed' = observed \cup Noted(unique)
                      \cup {x \in {Conflict} : Duplicated(R) # {}}
       /\ request_gaps' = request_gaps \cup SubjectGap(unique) \cup RouteGap(external', {"open", "unidentified"})

DiscoverForGaps ==
    /\ stage = "external_discovery"
    /\ request_gaps # {}
    /\ Discover
    /\ required_fields' = request_gaps'
    /\ stage' = "gap_analysis"
    /\ UNCHANGED <<request, phase, candidates, kept, proxies, ranked, recommendation>>

\* Faulty variant: proxies are sought although the request has open fields.
NextAfterMaterial_AnyFields(C, E, fields) ==
    IF E = {} /\ (C = {} \/ \E c \in C : "MATERIAL_ABSENT" \in c.gaps)
    THEN "material_resolution" ELSE "re_evaluate"

\* needs_class_proxy
NextAfterMaterial(C, E, fields) ==
    IF /\ fields = {}
       /\ E = {}
       /\ C = {} \/ \E c \in C : "MATERIAL_ABSENT" \in c.gaps
    THEN "material_resolution" ELSE "re_evaluate"

\* Faulty variant: the fields of the discovery replace those asked for before.
AskAlso_Forgets(gaps) == gaps

AskAlso(gaps) == required_fields \cup gaps

DiscoverForLack ==
    /\ stage = "external_discovery"
    /\ request_gaps = {}
    /\ Discover
    /\ required_fields' = AskAlso(request_gaps')
    /\ IF external' # {}
       THEN /\ candidates' = external'
            /\ phase' = "external"
            /\ stage' = "gap_analysis"
       ELSE /\ stage' = NextAfterMaterial(candidates, external', required_fields')
            /\ UNCHANGED <<candidates, phase>>
    /\ UNCHANGED <<request, kept, proxies, ranked, recommendation>>

-----------------------------------------------------------------------------
(* Solve-first resolution of the current candidates.                       *)

GapAnalysis ==
    /\ stage = "gap_analysis"
    /\ candidates' = {finalize_candidate([c EXCEPT !.gaps = analyze_candidate_gaps(c)], FALSE) :
                         c \in candidates}
    /\ stage' = IF candidates = {} THEN "resolved" ELSE "unit_scale_resolution"
    /\ UNCHANGED <<request, phase, records, kept, results, findings, asks>>

resolve_unit_scale(c) ==
    IF c.source.unit = "scaled" /\ c.type \in DirectTypes
    THEN finalize_candidate([c EXCEPT !.type = "UNIT_CONVERTED"], FALSE)
    ELSE c

UnitScale ==
    /\ stage = "unit_scale_resolution"
    /\ candidates' = {resolve_unit_scale(c) : c \in candidates}
    /\ stage' = "reference_flow_resolution"
    /\ UNCHANGED <<request, phase, records, kept, results, findings, asks>>

\* _technical_order
technical_order(c) ==
    IF c.source.grade_first THEN <<"GRADE_COMPOSITION", "PROCESS_VARIANT">>
                            ELSE <<"PROCESS_VARIANT", "GRADE_COMPOSITION">>

resolve_reference_flow(c, s) ==
    LET converted == finalize_candidate(
            [c EXCEPT !.type = "REFERENCE_FLOW_CONVERTED", !.scenario = s], FALSE)
    IN  [converted EXCEPT !.gaps = @ \ {"REFERENCE_FLOW"}]

\* Each compatible record gives a scenario; a candidate with none is dropped and
\* its missing mass becomes the required field.
ReferenceFlow ==
    /\ stage = "reference_flow_resolution"
    /\ LET needing == {c \in candidates : "REFERENCE_FLOW" \in c.gaps} IN
       \E compatible \in [needing -> SUBSET Scenarios] :
          LET output == (candidates \ needing) \cup
                  UNION {{resolve_reference_flow(c, s) : s \in compatible[c]} : c \in needing}
          IN  /\ candidates' = {[c EXCEPT !.routers = technical_order(c)] : c \in output}
              /\ required_fields' = IF \E c \in needing : compatible[c] = {}
                                    THEN {"mass"} ELSE required_fields
              /\ stage' = IF output = {} THEN "resolved" ELSE "technical_resolution"
    /\ UNCHANGED <<request, phase, records, kept, results, findings, request_gaps>>

\* Sourced parameters rebuild or adjust the factor; none, or inconsistent ones,
\* leave an unadjusted proxy.  An adjustment improves the process score.
resolve_process_variant(c) ==
    {finalize_candidate([c EXCEPT !.type = "UNADJUSTED_PROCESS_PROXY"], FALSE)}
    \cup {[finalize_candidate([c EXCEPT !.type = "PROCESS_ADJUSTED"], FALSE)
              EXCEPT !.gaps = @ \ {"PROCESS_VARIANT"}, !.low = l] : l \in {c.low, FALSE}}

ProcessOutcomes(c) ==
    IF "PROCESS_VARIANT" \in c.gaps THEN resolve_process_variant(c) ELSE {c}

\* Exact grade of the series, interpolation between two, or the nearest one.
GradeGaps == {"GRADE_COMPOSITION", "GRADE_CONFLICT"}

resolve_grade(c, series) ==
    LET known == {r \in series : r.grade # "unstated"}
        target == request.grade \in {"percent", "numeric"}
        exact == {r \in known : r.grade = "target"}
        between == {"low", "high"} \subseteq {r.grade : r \in known}
        nearest == IF target /\ known # {} THEN known ELSE {c.source}
        Derived(r, type) == finalize_candidate([c EXCEPT !.source = r, !.type = type], FALSE)
        Closed(d) == [d EXCEPT !.gaps = @ \ GradeGaps]
    IN  IF target /\ exact # {} THEN {Closed(Derived(r, "GRADE_EXACT_ANCHOR")) : r \in exact}
        ELSE IF target /\ between THEN {Closed(Derived(c.source, "GRADE_INTERPOLATED"))}
        ELSE {Derived(r, "GRADE_PROXY") : r \in nearest}

GradeOutcomes(c, answer) ==
    IF c.gaps \cap GradeGaps # {}
    THEN resolve_grade(c, {r \in answer : grade_anchor(r, c.source)})
    ELSE {c}

\* The candidate whose turn it is in the engine's loop.
Current == CHOOSE c \in candidates : c.routers # <<>>

Replace(c, d) == (candidates \ {c}) \cup {[d EXCEPT !.routers = Tail(c.routers)]}

AfterTechnical == IF \A c \in candidates' : c.routers = <<>> THEN "resolved" ELSE stage

ProcessVariant ==
    /\ stage = "technical_resolution"
    /\ Head(Current.routers) = "PROCESS_VARIANT"
    /\ \E d \in ProcessOutcomes(Current) : candidates' = Replace(Current, d)
    /\ stage' = AfterTechnical
    /\ UNCHANGED <<request, phase, records, kept, results, findings, asks>>

\* Anchors are qualified too, and their reasons stay in the state.
GradeComposition ==
    /\ stage = "technical_resolution"
    /\ Head(Current.routers) = "GRADE_COMPOSITION"
    /\ \E A \in SUBSET SeriesRecords :
          LET recalled == IF Current.gaps \cap GradeGaps # {}
                          THEN {Current.source} \cup A ELSE {} IN
          /\ \E d \in GradeOutcomes(Current, recalled) : candidates' = Replace(Current, d)
          /\ qualifications' = qualifications \cup
                 {grade_anchor(r, Current.source) : r \in recalled}
          /\ observed' = observed \cup Noted(recalled)
    /\ stage' = AfterTechnical
    /\ UNCHANGED <<request, phase, records, kept, results, asks>>

\* Faulty variant: discovery is repeated while it leads to nothing.
NeedsDiscovery_Again == phase # "proxy" /\ candidates = {} /\ request_gaps = {}

\* No local candidate is left and the request is complete.
NeedsDiscovery == phase = "local" /\ candidates = {} /\ request_gaps = {}

\* What the engine does when a resolution of candidates has ended.
LeaveResolution ==
    /\ stage = "resolved"
    /\ \/ /\ phase = "proxy"
          /\ proxies' = candidates /\ candidates' = kept /\ kept' = {}
          /\ stage' = "re_evaluate"
       \/ /\ NeedsDiscovery
          /\ stage' = "external_discovery"
          /\ UNCHANGED <<proxies, candidates, kept>>
       \/ /\ phase # "proxy" /\ ~NeedsDiscovery
          /\ stage' = NextAfterMaterial(candidates, external, required_fields)
          /\ UNCHANGED <<proxies, candidates, kept>>
    /\ UNCHANGED <<request, phase, records, external, ranked, recommendation, findings, asks>>

-----------------------------------------------------------------------------
(* Class proxies.                                                          *)

\* No material class, no proxy search.
ProxyResolution ==
    /\ stage = "material_resolution"
    /\ records' \in Answers(ProxyRecords)
    /\ stage' = "proxy_evaluate"
    /\ UNCHANGED <<request, phase, candidates, kept, results, findings, asks>>

ProxyEvaluate ==
    /\ stage = "proxy_evaluate"
    /\ \E refused \in SUBSET records :
          LET found == evaluate_records(records, refused, "proxy") IN
          IF found # {}
          THEN /\ kept' = candidates /\ candidates' = found
               /\ phase' = "proxy" /\ stage' = "gap_analysis"
          ELSE /\ stage' = "re_evaluate"
               /\ UNCHANGED <<kept, candidates, phase>>
    /\ qualifications' = qualifications \cup {qualify_record(r) : r \in records}
    /\ observed' = observed \cup Noted(records)
    /\ UNCHANGED <<request, records, results, asks>>

-----------------------------------------------------------------------------
(* Re-evaluation, ranking and the TopK cascade.                            *)

CapUnderGaps(c) ==
    IF request_gaps # {} THEN [c EXCEPT !.tier = "REFERENCE_ONLY"] ELSE c

ReEvaluate ==
    /\ stage = "re_evaluate"
    /\ candidates' = {CapUnderGaps(finalize_candidate(c, TRUE)) : c \in candidates}
    /\ proxies' = {finalize_candidate(c, TRUE) : c \in proxies}
    /\ stage' = "rank"
    /\ UNCHANGED <<request, phase, records, kept, external, ranked, recommendation, findings, asks>>

\* One candidate of each id; which one depends on its strength.
Pools(C) ==
    {P \in SUBSET C : /\ {Id(c) : c \in P} = {Id(c) : c \in C}
                     /\ \A c, d \in P : Id(c) = Id(d) => c = d}

PoolAndRank ==
    /\ stage = "rank"
    /\ ranked' \in Pools(candidates \cup proxies)
    /\ stage' = "top_k"
    /\ UNCHANGED <<request, phase, records, candidates, kept, external, proxies,
                   recommendation, findings, asks>>

sufficient == {c \in ranked : ~hard(c) /\ c.tier # "REFERENCE_ONLY"}
soft == {c \in ranked : ~hard(c) /\ c.tier = "REFERENCE_ONLY"}
diagnostic == {c \in ranked : hard(c)}

\* A decisive attribute the request leaves open and the candidates disagree on.
ambiguous ==
    /\ request_gaps = {}
    /\ request.place = NoPlace
    /\ \E c, d \in sufficient \cup soft : c.source.place # d.source.place
                                          /\ NoPlace \notin {c.source.place, d.source.place}

eligible ==
    IF ambiguous \/ request_gaps # {} \/ unit_reason_codes # {} THEN {} ELSE sufficient

reviewable ==
    IF unit_reason_codes # {} THEN {}
    ELSE IF ambiguous THEN {[c EXCEPT !.tier = "REFERENCE_ONLY"] : c \in sufficient \cup soft}
    ELSE soft

unit_codes == unit_reason_codes \cup (observed \cap UnitCodes)

admission_rejected == qualifications = {FALSE}

required ==
    required_fields
    \cup {f \in {"unit_conversion_evidence"} : "UNIT_CONVERSION_EVIDENCE_REQUIRED" \in unit_codes}
    \cup {f \in {"geography"} : ambiguous}

\* Faulty variant: only units, hashes and duplicates are reported as reasons.
reason_codes_SourcesOnly == unit_codes \cup (observed \cap {HashRequired, Conflict})

reason_codes ==
    unit_codes
    \cup (observed \cap {HashRequired, Conflict})
    \cup {x \in {"ADMISSION_REJECTED"} : admission_rejected /\ request_gaps = {}
                                         /\ unit_codes = {} /\ HashRequired \notin observed}
    \cup {x \in {"GRADE_SPECIFICATION_CONFLICT"} : \E c \in ranked : grade_conflict(c)}
    \cup {x \in {"ATTRIBUTE_REQUIRED"} : ambiguous}

\* The order of the tests is the contract: the first that holds decides.
follow_up_status ==
    IF "UNIT_CONVERSION_EVIDENCE_REQUIRED" \in unit_codes THEN "more_input_needed"
    ELSE IF unit_codes # {} \/ Conflict \in observed THEN "unresolved"
    ELSE IF required # {} THEN "more_input_needed"
    ELSE IF reviewable # {} THEN "reference_review_required"
    ELSE IF \E c \in ranked : process_conflict(c) THEN "process_model_required"
    ELSE IF \E c \in ranked : grade_conflict(c) THEN "unresolved"
    ELSE IF admission_rejected THEN "unresolved"
    ELSE "supplier_data_required"

\* The first TopK of a ranking whose leading key is the resolution type; under
\* an ambiguity the formerly eligible candidates stand first.
Standing(c) ==
    <<IF ambiguous /\ \E d \in sufficient : Id(d) = Id(c) THEN 0 ELSE 1, TYPE_PRIORITY[c.type]>>

Before(k, l) == k[1] < l[1] \/ (k[1] = l[1] /\ k[2] < l[2])

Leading(S) ==
    {T \in SUBSET S :
        /\ Cardinality(T) = IF Cardinality(S) <= TopK THEN Cardinality(S) ELSE TopK
        /\ \A c \in S \ T, d \in T : ~Before(Standing(c), Standing(d))}

TopKNode ==
    /\ stage = "top_k"
    /\ \E E \in Leading(eligible), R \in Leading(reviewable), D \in Leading(diagnostic) :
          recommendation' =
             [status |-> IF eligible # {} THEN "recommendation_ready" ELSE follow_up_status,
              candidates |-> E, reviewable |-> R, diagnostics |-> D,
              reason_codes |-> reason_codes,
              exhausted |-> eligible = {} /\ required = {} /\ reviewable = {}]
    /\ required_fields' = required
    /\ stage' = "terminal"
    /\ UNCHANGED <<request, phase, records, candidates, kept, external, proxies, ranked,
                   findings, request_gaps>>

\* An exception of a port that the graph does not contain ends the resolution.
PortStages == {"normalize", "local_retrieval", "local_evaluate", "external_discovery",
               "reference_flow_resolution", "technical_resolution",
               "material_resolution", "proxy_evaluate"}

PortFails ==
    /\ stage \in PortStages
    /\ stage = "reference_flow_resolution" => \E c \in candidates : "REFERENCE_FLOW" \in c.gaps
    /\ stage = "technical_resolution" =>
          Current.gaps \cap (GradeGaps \cup {"PROCESS_VARIANT"}) # {}
    /\ stage' = "raised"
    /\ UNCHANGED <<request, phase, records, candidates, kept, results, findings, asks>>

Step ==
    \/ Normalize \/ LocalRetrieval \/ LocalEvaluate
    \/ DiscoverForGaps \/ DiscoverForLack
    \/ GapAnalysis \/ UnitScale \/ ReferenceFlow \/ ProcessVariant \/ GradeComposition
    \/ LeaveResolution \/ ProxyResolution \/ ProxyEvaluate
    \/ ReEvaluate \/ PoolAndRank \/ TopKNode

Next == Step \/ PortFails

Spec == Init /\ [][Next]_vars

-----------------------------------------------------------------------------
(* Properties.                                                             *)

Ended == stage = "terminal"

Lists == {recommendation.candidates, recommendation.reviewable, recommendation.diagnostics}

\* Types of the graph state.
TypeOK ==
    /\ request \in Requests
    /\ stage \in PortStages \cup {"gap_analysis", "unit_scale_resolution", "resolved",
                                "re_evaluate", "rank", "top_k", "terminal", "raised"}
    /\ phase \in {"local", "external", "proxy"}
    /\ records \subseteq Records
    /\ candidates \subseteq Candidate /\ kept \subseteq Candidate
    /\ external \subseteq Candidate /\ proxies \subseteq Candidate /\ ranked \subseteq Candidate
    /\ request_gaps \subseteq {"specification", "subject_type", "route"}
    /\ required_fields \subseteq {"specification", "subject_type", "route", "mass",
                                  "unit_conversion_evidence", "geography"}
    /\ observed \subseteq UnitCodes \cup {Conflict, HashRequired}
    /\ qualifications \subseteq BOOLEAN
    /\ UNION Lists \subseteq Candidate

\* A candidate offered for ordinary approval answers a complete request, comes
\* from a source that passed qualification, and has no open reference flow,
\* process or grade conflict, missing evidence or score below the threshold
\* (nodes.py TopKNode, graph.py candidate_is_sufficient; the approval gates of
\* the engine rely on it).
SelectableIsClean ==
    Ended => \A c \in recommendation.candidates :
                /\ request_gaps = {} /\ unit_reason_codes = {}
                /\ qualify_record(c.source)
                /\ c.gaps \cap {"REFERENCE_FLOW", "PROCESS_VARIANT", "GRADE_CONFLICT"} = {}
                /\ ~c.incomplete /\ c.source.formal = "complete" /\ ~c.low /\ ~c.source.capped

\* The three lists are a contract: whatever was ranked is shown as selectable,
\* reviewable or diagnostic, in exactly one of them, unless its list is full;
\* and nothing with a hard reason is selectable or reviewable (nodes.py 1489-1561).
EveryCandidateIsShown ==
    Ended /\ unit_reason_codes = {} =>
        /\ \A c \in ranked : \E L \in Lists :
              \/ \E d \in L : Id(d) = Id(c)
              \/ Cardinality(L) = TopK
        /\ \A K, L \in Lists : K # L => {Id(c) : c \in K} \cap {Id(c) : c \in L} = {}
        /\ \A c \in recommendation.reviewable : ~hard(c) /\ c.tier = "REFERENCE_ONLY"

\* The terminal status names a cause that the rest of the answer shows: a
\* question has a field, a review has candidates, a process model has a ranked
\* candidate that needs it and nothing to review, a refusal has a reason code,
\* and supplier data are asked for only if no candidate was found
\* (nodes.py 1641-1684).
StatusHasItsCause ==
    Ended =>
        LET s == recommendation.status IN
        /\ s = "recommendation_ready" <=> recommendation.candidates # {}
        /\ s = "more_input_needed" => required_fields # {}
        /\ s = "reference_review_required" => recommendation.reviewable # {} /\ required_fields = {}
        /\ s = "process_model_required" => /\ recommendation.reviewable = {}
                                           /\ recommendation.diagnostics # {}
                                           /\ \E c \in ranked : process_conflict(c)
        /\ s = "unresolved" => recommendation.reason_codes # {}
        /\ s = "supplier_data_required" => ranked = {} /\ recommendation.reason_codes \subseteq {HashRequired}
        /\ recommendation.exhausted => s \in {"process_model_required", "unresolved",
                                              "supplier_data_required"}

\* Class proxies are the last resort: they are ranked only if the request is
\* complete, no external evidence was admitted, and no local candidate or one for an
\* absent material is left beside them (engine.py 394-416).
ProxiesComeLast ==
    proxies # {} =>
        /\ request_gaps = {} /\ external = {}
        /\ \A c \in proxies : c.origin = "proxy"
        /\ \A c \in candidates : c.origin = "local"
        /\ candidates = {} \/ \E c \in candidates : "MATERIAL_ABSENT" \in c.gaps

\* External evidence found for an incomplete request is shown in the trace and
\* never ranked; found for want of local candidates it is ranked alone, and a
\* source id with conflicting contents is not among it (engine.py 349-392).
ExternalEvidenceIsSeparate ==
    stage \in {"rank", "top_k", "terminal"} =>
        \A c \in candidates \cup ranked :
            c.origin = "external" =>
                /\ phase = "external"
                /\ \A d \in candidates \cup ranked :
                      d.origin = "external" /\ (Id(d) = Id(c) => d = c)
                /\ \E e \in external : Id(e) = <<"external", c.base, 0>>

\* A mass that the reference flow lacks is asked for until the end: no later
\* stage forgets it, and without a selectable candidate the answer is a
\* question unless units or a conflict refuse it (nodes.py 1093, 1660).
MissingMassIsAsked ==
    [][/\ "mass" \in required_fields => "mass" \in required_fields'
       /\ (stage' = "terminal" /\ "mass" \in required_fields)
             => recommendation'.status \in {"recommendation_ready", "more_input_needed", "unresolved"}]_vars

\* The graph has no cycle: every resolution ends with a recommendation or an
\* exception, whatever the ports answer (docs/CFR_TECHNICAL_DOCUMENT.md 3.4).
EveryResolutionEnds == <>(stage \in {"terminal", "raised"})

-----------------------------------------------------------------------------
(* Statements of the documentation that the code does not keep.            *)

\* docs/CFR_PROXY_RESOLUTION_V1_TECHNICAL_UPDATE.md 401: a path with
\* reviewable candidates only ends as REFERENCE_REVIEW_REQUIRED.
ReviewableOnlyIsReviewed ==
    Ended /\ recommendation.candidates = {} /\ recommendation.reviewable # {}
          /\ required_fields = {} =>
        recommendation.status = "reference_review_required"

\* The recommendation agrees with itself: every candidate is in one of the lists, and the
\* status has a cause in the lists and reasons (TopKNode.run).
ResultIsConsistent == TypeOK /\ EveryCandidateIsShown /\ StatusHasItsCause

\* Origins keep their place: proxies are used only where nothing else is, and external
\* evidence neither hides nor repeats local evidence (A1ResolutionGraph.run).
OriginsStayApart == ProxiesComeLast /\ ExternalEvidenceIsSeparate
=============================================================================

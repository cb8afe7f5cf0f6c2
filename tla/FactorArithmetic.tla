-------------------------- MODULE FactorArithmetic ---------------------------
(***************************************************************************)
(* The numbers of one candidate on its way through the resolution: the     *)
(* factor is converted to the requested unit (nodes.py, _candidate), the   *)
(* activity is aligned with its denominator (unit_resolution.py) or turned *)
(* into a mass (reference_flow_resolution.py), and the factor is adjusted  *)
(* to the requested process (process_adjustment.py) and grade              *)
(* (grade_resolution.py), in the order the source declares.  At the end    *)
(* the lock compares the total with the factor (engine.py).                *)
(*                                                                         *)
(* One candidate is followed: after the reference flow the graph takes     *)
(* them one by one.  What the repositories answer is an input of the step  *)
(* that asks.  Scores, tiers and texts are left out; floats are exact.     *)
(***************************************************************************)
EXTENDS UnitSystem, Sequences, FiniteSets

CONSTANTS Requests,     \* [quantity, unit, target, form, evidence, grade]
          Sources,      \* [id, value, unit, grade, series, basis, route, order]
          Anchors,      \* further records of a grade series: [id, value, unit, grade, series]
          Flows,        \* reference-flow records: [unit, mass, compatible]
          Parameters,   \* answers of the process-parameter repository
          NoValue, NoUnit, NoGrade, NoSeries, NoCandidate, NoParameters

FactorUnits == [impact : STRING, activity : STRING]

Grades == Int \cup {NoGrade}

\* An energy profile of a process, and the answers that are not defective.
Sides ==
    [total : Fractions, electricity : Fractions, gas : Fractions,
     explicit : Fractions \cup {NoValue},
     consumable : [mass : Fractions, carbon : Fractions, oxidation : Fractions] \cup {NoValue},
     required : BOOLEAN]

SoundParameters ==
    [mode : {"full"}, defect : BOOLEAN, includes : BOOLEAN, reference : Sides, target : Sides,
     kwh_kgce : Positive, kwh_ef : Fractions, nm3_kgce : Positive, nm3_ef : Fractions]
    \cup [mode : {"delta"}, defect : BOOLEAN, includes : BOOLEAN,
          removed : Fractions, added : Fractions, other : Fractions]

\* Values are numbers, evidence has a positive multiplier.  An id stands for one record: the
\* grade step drops a second record of an id.
ASSUME InputAssumption ==
    /\ NoValue \notin Fractions \cup Flows /\ NoUnit \notin DOMAIN Activity \cup FactorUnits
    /\ Requests \subseteq
          [quantity : Fractions, unit : STRING, target : FactorUnits \cup {NoUnit}, form : BOOLEAN,
           evidence : [source : STRING, target : STRING, multiplier : Positive] \cup {NoEvidence},
           grade : Grades]
    /\ Sources \subseteq
          [id : Nat, value : Fractions, unit : FactorUnits, grade : Grades,
           series : STRING \cup {NoSeries}, basis : STRING, route : STRING, order : STRING]
    /\ Anchors \subseteq
          [id : Nat, value : Fractions, unit : FactorUnits, grade : Grades, series : STRING]
    /\ Flows \subseteq [unit : STRING, mass : Fractions, compatible : BOOLEAN]
    /\ \A p \in Parameters : p.defect \/ p \in SoundParameters
    /\ \A a \in Anchors : /\ \A s \in Sources : a.id # s.id
                          /\ \A b \in Anchors : a.id = b.id => a = b

VARIABLES request,
          candidate,
          todo,        \* the steps ahead
          parameters,  \* what the process step was given
          raised       \* an exception left the resolution

vars == <<request, candidate, todo, parameters, raised>>

-----------------------------------------------------------------------------
(* Normalisation.                                                          *)

Parsed(r) == r.unit \in DOMAIN Activity

activity_dimension(r) == IF Parsed(r) THEN parse_activity_unit(r.unit).dimension ELSE "NONE"

\* The requested factor unit, or one per unit of the activity.
effective_target(r) ==
    IF r.target # NoUnit THEN r.target
    ELSE [impact |-> "kgCO2e",
          activity |-> IF Parsed(r) THEN parse_activity_unit(r.unit).canonical ELSE r.unit]

unit_reason_codes(r) ==
    IF ~Parsed(r) \/ ~parses(effective_target(r)) THEN {"UNIT_SYNTAX_UNSUPPORTED"}
    ELSE IF denominator(effective_target(r)).dimension # activity_dimension(r)
         THEN {"UNIT_DIMENSION_MISMATCH"}
    ELSE {}

quantity_kg(r) ==
    IF activity_dimension(r) = "MASS"
    THEN Convert(r.quantity, plan_activity_conversion(r.unit, "kg", r.evidence))
    ELSE NoValue

-----------------------------------------------------------------------------
(* A factor applied to an activity.                                        *)

PerDenominator(unit) == [impact |-> "kgCO2e", activity |-> denominator(unit).canonical]

application_total(value, unit, activity) ==
    Times(convert_factor(value, unit, PerDenominator(unit)), activity)

\* Faulty variant: the total of the base candidate is kept.
effective_total_Kept(base, value) == base.total

effective_total(base, value) ==
    IF base.activity # NoValue THEN application_total(value, base.unit, base.activity)
    ELSE IF base.kg # NoValue THEN Times(convert_factor(value, base.unit, PerKg), base.kg)
    ELSE NoValue

derive_candidate(base, kind, value, steps, bases) ==
    [base EXCEPT !.kind = kind, !.value = value,
                 !.steps = @ \cup steps, !.bases = @ \cup {base.source.id} \cup bases,
                 !.total = effective_total(base, value)]

\* validate_mass_quantity_kg.
MassIsConsistent(c) ==
    c.kg # NoValue /\ c.activity # NoValue =>
        /\ denominator(c.unit).dimension = "MASS"
        /\ c.kg = Convert(c.activity, plan_activity_conversion(c.activity_unit, "kg", NoEvidence))

\* expected_total_emissions and the comparison of the lock.
TotalIsExpected(c) ==
    /\ MassIsConsistent(c)
    /\ c.activity # NoValue =>
          /\ c.activity_unit = denominator(c.unit).canonical
          /\ c.total = application_total(c.value, c.unit, c.activity)
    /\ c.activity = NoValue /\ c.kg # NoValue =>
          /\ denominator(c.unit).dimension = "MASS"
          /\ c.total = Times(convert_factor(c.value, c.unit, PerKg), c.kg)

-----------------------------------------------------------------------------
(* The candidate of a record.                                              *)

FactorPlan(r, unit) == plan_factor_conversion(unit, effective_target(r), r.evidence)

ActivityPlan(r) ==
    plan_activity_conversion(r.unit, denominator(effective_target(r)).canonical, r.evidence)

\* Faulty variant: also for a unit the caller asked for.
reference_flow_bridge_Explicit(r, unit) ==
    /\ FactorPlan(r, unit).code = "UNIT_DIMENSION_MISMATCH"
    /\ activity_dimension(r) = "COUNT" \/ (activity_dimension(r) = "VOLUME" /\ r.form)
    /\ denominator(unit).dimension = "MASS"

\* Pieces, and volumes of a product form, may wait for a mass per unit.
reference_flow_bridge(r, unit) ==
    /\ FactorPlan(r, unit).code = "UNIT_DIMENSION_MISMATCH"
    /\ r.target = NoUnit
    /\ activity_dimension(r) = "COUNT" \/ (activity_dimension(r) = "VOLUME" /\ r.form)
    /\ denominator(unit).dimension = "MASS"

Admitted(r, unit) ==
    \/ reference_flow_bridge(r, unit)
    \/ FactorPlan(r, unit).code = "ok" /\ ActivityPlan(r).code = "ok"

Kind(source, unit) == IF source.unit = unit THEN "DIRECT" ELSE "UNIT_CONVERTED"

Fresh(r, s, value, unit, activity, activity_unit) ==
    [source |-> s, value |-> value, unit |-> unit, kind |-> Kind(s, unit), gaps |-> {},
     activity |-> activity, activity_unit |-> activity_unit, kg |-> quantity_kg(r),
     flow |-> NoValue, steps |-> {}, bases |-> {s.id},
     total |-> IF activity = NoValue THEN NoValue ELSE application_total(value, unit, activity)]

_candidate(r, s) ==
    IF reference_flow_bridge(r, s.unit)
    THEN Fresh(r, s, s.value, s.unit, NoValue, NoUnit)
    ELSE Fresh(r, s, Convert(s.value, FactorPlan(r, s.unit)), effective_target(r),
               Convert(r.quantity, ActivityPlan(r)), denominator(effective_target(r)).canonical)

\* The gaps that a step of this module works on.
analyze_candidate_gaps(r, c) ==
    {g \in {"REFERENCE_FLOW", "PROCESS_VARIANT", "GRADE_COMPOSITION"} :
        CASE g = "REFERENCE_FLOW" -> activity_dimension(r) # denominator(c.unit).dimension
          [] g = "PROCESS_VARIANT" -> c.source.route # "requested"
          [] g = "GRADE_COMPOSITION" ->
                \/ c.source.basis # "requested"
                \/ r.grade # NoGrade /\ c.source.grade # r.grade}

\* The order of the technical routers; the source may put grade first.
technical_order(s) ==
    IF s.order = "grade_first" THEN <<"grade", "process">> ELSE <<"process", "grade">>

\* The steps of a candidate.
Routers(s) == <<"unit_scale", "reference_flow", technical_order(s)[1], technical_order(s)[2]>>

Evaluate(s) ==
    /\ todo = <<"evaluate">>
    /\ \/ /\ Admitted(request, s.unit)
          /\ LET c == _candidate(request, s)
             IN  candidate' = [c EXCEPT !.gaps = analyze_candidate_gaps(request, c)]
          /\ todo' = Routers(s)
       \/ /\ ~Admitted(request, s.unit)
          /\ todo' = <<>>
          /\ UNCHANGED candidate
    /\ UNCHANGED <<request, parameters, raised>>

-----------------------------------------------------------------------------
Step(name) ==
    /\ todo # <<>> /\ Head(todo) = name
    /\ UNCHANGED request

Continue(c) == candidate' = c /\ todo' = Tail(todo)

Pass == Continue(candidate) /\ UNCHANGED <<parameters, raised>>

Closed(c, gap) == [c EXCEPT !.gaps = @ \ {gap}]

\* The values are those of _candidate; the step records how they came about.
resolve_unit_scale ==
    /\ Step("unit_scale")
    /\ LET scales == /\ candidate.activity # NoValue
                     /\ \/ request.unit # candidate.activity_unit
                        \/ candidate.source.unit # candidate.unit
       IN  IF scales
           THEN Continue([derive_candidate(candidate, "UNIT_CONVERTED", candidate.value,
                                           {"UNIT_SCALE"}, {}) EXCEPT !.total = candidate.total])
           ELSE Continue(candidate)
    /\ UNCHANGED <<parameters, raised>>

\* Faulty variant: any counting unit will do.
record_is_compatible_AnyCount(f) ==
    /\ f.compatible /\ {f.unit, request.unit} \subseteq DOMAIN Activity
    /\ parse_activity_unit(f.unit).canonical = parse_activity_unit(request.unit).canonical

\* The same unit, a counting unit by its own name, and the same product.
record_is_compatible(f) ==
    /\ f.compatible /\ {f.unit, request.unit} \subseteq DOMAIN Activity
    /\ parse_activity_unit(f.unit).canonical = parse_activity_unit(request.unit).canonical
    /\ parse_activity_unit(f.unit).dimension = "COUNT" => f.unit = request.unit

WithMass(c, f) ==
    LET mass == Times(request.quantity, f.mass)
        unit == denominator(c.unit).canonical
    IN  [derive_candidate(c, "REFERENCE_FLOW_CONVERTED", c.value, {"REFERENCE_FLOW"}, {})
            EXCEPT !.activity = Convert(mass, plan_activity_conversion("kg", unit, NoEvidence)),
                   !.activity_unit = unit, !.kg = mass, !.flow = f,
                   !.total = Times(mass, convert_factor(c.value, c.unit, PerKg))]

\* Without a compatible record the candidate is dropped, and input is asked for.
resolve_reference_flow(records) ==
    /\ Step("reference_flow") /\ "REFERENCE_FLOW" \in candidate.gaps
    /\ \/ \E f \in records :
             /\ record_is_compatible(f)
             /\ Continue(Closed(WithMass(candidate, f), "REFERENCE_FLOW"))
       \/ /\ \A f \in records : ~record_is_compatible(f)
          /\ candidate' = NoCandidate /\ todo' = <<>>
    /\ UNCHANGED <<parameters, raised>>

-----------------------------------------------------------------------------
(* The process: p is [mode, ...], "full" with two energy profiles, "delta" *)
(* with the removed and the added factor.  "defect" stands for what makes  *)
(* the evidence unusable by itself: duplicates, units, values not positive.*)

Per1000(a) == Over(a, <<1000, 1>>)

\* Emissions per kg of one carrier: energy in kgce per t, its share, kgce and kgCO2e per unit.
Carrier(total, share, kgce, ef) == Per1000(Times(Over(Times(total, share), kgce), ef))

Share(v) == AtMost(Zero, v) /\ AtMost(v, One)

\* Carbon of a consumable that is oxidised, kg per t of product, as CO2 (44/12) per kg.
stoichiometric_carbon_emission(c) ==
    Per1000(Times(Times(Times(c.mass, c.carbon), c.oxidation), <<11, 3>>))

\* A complete set of consumable, carbon and oxidation comes before an explicit value.
additional_process_value(side) ==
    IF side.consumable # NoValue THEN stoichiometric_carbon_emission(side.consumable)
    ELSE side.explicit

\* What must be calculated has what it takes.
AdditionalIsUsable(side) ==
    IF side.consumable = NoValue THEN ~side.required
    ELSE Share(side.consumable.carbon) /\ Share(side.consumable.oxidation)

OrZero(v) == IF v = NoValue THEN Zero ELSE v

process_emissions(p, side) ==
    Plus(Plus(Carrier(side.total, side.electricity, p.kwh_kgce, p.kwh_ef),
              Carrier(side.total, side.gas, p.nm3_kgce, p.nm3_ef)),
         OrZero(additional_process_value(side)))

ValidShares(side) ==
    /\ Share(side.electricity) /\ Share(side.gas)
    /\ Plus(side.electricity, side.gas) = One

Removed(p) == IF p.mode = "full" THEN process_emissions(p, p.reference) ELSE p.removed
Added(p) == IF p.mode = "full" THEN process_emissions(p, p.target) ELSE p.added
Other(p) == IF p.mode = "full" THEN Zero ELSE p.other

\* Faulty variant: an upstream below zero is accepted.
DecomposesTo_Negative(p, upstream) == TRUE

\* What remains after the reference process is removed is not negative.
DecomposesTo(p, upstream) ==
    /\ AtMost(Zero, upstream) /\ AtMost(Zero, Added(p)) /\ AtMost(Zero, Removed(p))
    /\ AtMost(Zero, Plus(Plus(upstream, Added(p)), Other(p)))

Upstream(c, p) == Minus(convert_factor(c.value, c.unit, PerKg), Removed(p))

\* resolve_process_variant ends in an adjusted factor, not in a ValueError.
Adjusts(c, p) ==
    /\ p # NoParameters
    /\ ~p.defect
    /\ p.mode = "full" =>
          /\ AdditionalIsUsable(p.reference) /\ AdditionalIsUsable(p.target)
          /\ (additional_process_value(p.reference) = NoValue)
                <=> (additional_process_value(p.target) = NoValue)
          /\ ValidShares(p.reference) /\ ValidShares(p.target)
    /\ p.includes
    /\ factor_converts(c.unit, PerKg)
    /\ DecomposesTo(p, Upstream(c, p))

AdjustedFactor(c, p) ==
    LET upstream == Upstream(c, p)
        kept == IF AtMost(Zero, upstream) THEN upstream ELSE Zero
    IN  convert_factor(Plus(Plus(kept, Added(p)), Other(p)), PerKg, c.unit)

resolve_process_variant(p) ==
    /\ Step("process") /\ "PROCESS_VARIANT" \in candidate.gaps
    /\ parameters' = p
    /\ IF Adjusts(candidate, p)
       THEN Continue(Closed(derive_candidate(candidate, "PROCESS_ADJUSTED",
                                AdjustedFactor(candidate, p), {"PROCESS_VARIANT"}, {}),
                            "PROCESS_VARIANT"))
       ELSE Continue(derive_candidate(candidate, "UNADJUSTED_PROCESS_PROXY", candidate.value, {}, {}))
    /\ UNCHANGED raised

-----------------------------------------------------------------------------
(* The grade.                                                              *)

\* qualify_record for a grade anchor.  One series stands for the same product, series,
\* provider, process and grade schema.
IsAnchor(r, reference, a) ==
    /\ a.series = reference.series /\ a.series # NoSeries
    /\ reference_flow_bridge(r, a.unit) \/ FactorPlan(r, a.unit).code = "ok"
    /\ factor_converts(a.unit, reference.unit)

\* Records of the series that have a grade, the source's own included.
GradeAnchors(records) ==
    {a \in {candidate.source} \cup records :
        a.grade # NoGrade /\ IsAnchor(request, candidate.source, a)}

Distance(a) == IF a.grade < request.grade THEN request.grade - a.grade ELSE a.grade - request.grade

First(anchors) == CHOOSE a \in anchors : \A b \in anchors : a.id <= b.id

Nearest(anchors) ==
    First({a \in anchors : \A b \in anchors : Distance(a) <= Distance(b)})

LowerAnchors(anchors) ==
    LET below == {a \in anchors : a.grade <= request.grade}
    IN  {a \in below : \A b \in below : b.grade <= a.grade}

UpperAnchors(anchors) ==
    LET above == {a \in anchors : a.grade >= request.grade}
    IN  {a \in above : \A b \in above : b.grade >= a.grade}

\* Faulty variant: the slope has the wrong sign.
Interpolated_Sign(low, high, unit) ==
    LET f == convert_factor(low.value, low.unit, unit)
        g == convert_factor(high.value, high.unit, unit)
        ratio == Reduced(request.grade - low.grade, high.grade - low.grade)
    IN  Plus(f, Times(ratio, Minus(f, g)))

Interpolated(low, high, unit) ==
    LET f == convert_factor(low.value, low.unit, unit)
        g == convert_factor(high.value, high.unit, unit)
        ratio == Reduced(request.grade - low.grade, high.grade - low.grade)
    IN  Plus(f, Times(ratio, Minus(g, f)))

\* The candidate with another record as its source.
Replaced(c, a) ==
    [c EXCEPT !.source = [c.source EXCEPT !.id = a.id, !.value = a.value, !.unit = a.unit,
                                          !.grade = a.grade],
              !.value = convert_factor(a.value, a.unit, c.unit), !.bases = {a.id}]

\* Anchors are converted without the evidence of the request; nobody catches the error.
RaisesOn(anchors) == \E a \in anchors : ~factor_converts(a.unit, candidate.unit)

Raise == raised' = TRUE /\ todo' = <<>> /\ UNCHANGED <<candidate, parameters>>

GradeFrom(anchors, c) ==
    IF RaisesOn(anchors) THEN Raise
    ELSE Continue(c) /\ UNCHANGED <<parameters, raised>>

GradeExact(anchors) ==
    /\ request.grade # NoGrade
    /\ LET exact == {a \in anchors : a.grade = request.grade}
       IN  /\ exact # {}
           /\ LET c == Replaced(candidate, First(exact))
              IN  GradeFrom({First(exact)},
                     Closed(derive_candidate(c, "GRADE_EXACT_ANCHOR", c.value, {}, {}),
                            "GRADE_COMPOSITION"))

\* Between anchors of one grade the order of the repository decides.
GradeInterpolated(anchors) ==
    /\ request.grade # NoGrade
    /\ \A a \in anchors : a.grade # request.grade
    /\ \E low \in LowerAnchors(anchors), high \in UpperAnchors(anchors) :
          /\ low.grade # high.grade
          /\ GradeFrom({low, high},
                Closed(derive_candidate(candidate, "GRADE_INTERPOLATED",
                           Interpolated(low, high, candidate.unit),
                           {"GRADE_COMPOSITION"}, {low.id, high.id}),
                       "GRADE_COMPOSITION"))

\* The nearest grade, or the source itself, with its factor unchanged.
GradeProxy(anchors) ==
    \/ /\ request.grade # NoGrade /\ anchors # {}
       /\ LowerAnchors(anchors) = {} \/ UpperAnchors(anchors) = {}
       /\ LET a == Nearest(anchors)
              c == Replaced(candidate, a)
          IN  IF a.id = candidate.source.id
              THEN GradeFrom({}, derive_candidate(candidate, "GRADE_PROXY", candidate.value, {}, {}))
              ELSE GradeFrom({a}, derive_candidate(c, "GRADE_PROXY", c.value, {}, {}))
    \/ /\ request.grade = NoGrade \/ anchors = {}
       /\ GradeFrom({}, derive_candidate(candidate, "GRADE_PROXY", candidate.value, {}, {}))

resolve_grade(records) ==
    /\ Step("grade") /\ "GRADE_COMPOSITION" \in candidate.gaps
    /\ LET anchors == GradeAnchors(records)
       IN  GradeExact(anchors) \/ GradeInterpolated(anchors) \/ GradeProxy(anchors)

-----------------------------------------------------------------------------
\* A step whose gap the candidate does not have.
Skip ==
    \/ Step("reference_flow") /\ "REFERENCE_FLOW" \notin candidate.gaps /\ Pass
    \/ Step("process") /\ "PROCESS_VARIANT" \notin candidate.gaps /\ Pass
    \/ Step("grade") /\ "GRADE_COMPOSITION" \notin candidate.gaps /\ Pass

Init ==
    /\ request \in Requests
    /\ candidate = NoCandidate
    /\ todo = <<"evaluate">>
    /\ parameters = NoParameters
    /\ raised = FALSE

Next ==
    \/ \E s \in Sources : Evaluate(s)
    \/ resolve_unit_scale
    \/ \E records \in SUBSET Flows : resolve_reference_flow(records)
    \/ \E p \in Parameters \cup {NoParameters} : resolve_process_variant(p)
    \/ \E records \in SUBSET Anchors : resolve_grade(records)
    \/ Skip

Spec == Init /\ [][Next]_vars

-----------------------------------------------------------------------------
(* Properties.                                                             *)

Exists == candidate # NoCandidate

Finished == Exists /\ todo = <<>> /\ ~raised

Records ==
    [id : Nat, value : Fractions, unit : FactorUnits, grade : Grades,
     series : STRING \cup {NoSeries}, basis : STRING, route : STRING, order : STRING]

ParsedUnits == [impact : DOMAIN Impact, activity : DOMAIN Activity]

Kinds == {"DIRECT", "UNIT_CONVERTED", "REFERENCE_FLOW_CONVERTED", "PROCESS_ADJUSTED",
          "UNADJUSTED_PROCESS_PROXY", "GRADE_EXACT_ANCHOR", "GRADE_INTERPOLATED", "GRADE_PROXY"}

Gaps == {"REFERENCE_FLOW", "PROCESS_VARIANT", "GRADE_COMPOSITION"}

Candidates ==
    [source : Records, value : Fractions, unit : ParsedUnits, kind : Kinds,
     gaps : SUBSET Gaps, steps : SUBSET (Gaps \cup {"UNIT_SCALE"}), bases : SUBSET Nat,
     activity : Fractions \cup {NoValue}, activity_unit : DOMAIN Activity \cup {NoUnit},
     kg : Fractions \cup {NoValue}, total : Fractions \cup {NoValue}, flow : Flows \cup {NoValue}]

\* Types of the state.
TypeOK ==
    /\ request \in Requests
    /\ raised \in BOOLEAN
    /\ parameters \in Parameters \cup {NoParameters}
    /\ todo \in Seq({"evaluate", "unit_scale", "reference_flow", "process", "grade"})
    /\ Exists => /\ candidate \in Candidates
                 /\ candidate.activity = NoValue <=> candidate.activity_unit = NoUnit

\* A request whose units have a reason code never gets a candidate: the steps after
\* _candidate parse its units without a handler, and top-k drops what it would show.
UnitDefectsStopCandidates == unit_reason_codes(request) # {} => ~Exists

\* One unit in the base unit of its dimension.  The evidence of the request says what
\* a conditioned cubic metre is.
Measure(unit, e) ==
    LET u == parse_activity_unit(unit)
        ratio(v) == Activity[v].ratio
    IN  IF ~u.conditioned \/ e = NoEvidence \/ ~({e.source, e.target} \subseteq DOMAIN Activity)
        THEN u.ratio
        ELSE IF e.target = u.canonical THEN Over(ratio(e.source), e.multiplier)
        ELSE Times(ratio(e.target), e.multiplier)

PhysicalTotal(r, c) ==
    LET amount == IF c.flow = NoValue THEN Times(r.quantity, Measure(r.unit, r.evidence))
                  ELSE Times(r.quantity, c.flow.mass)
        factor == Over(Times(c.source.value, Impact[c.source.unit.impact]),
                       Measure(c.source.unit.activity, r.evidence))
    IN  Times(amount, factor)

\* Whatever units request, target and record use, and however often the factor and the
\* activity are converted, a candidate that rests on one record and on no process
\* adjustment has that record's factor times the requested quantity as its total
\* (_candidate, resolve_reference_flow, derive_candidate).
TotalIsPhysical ==
    Exists /\ candidate.total # NoValue /\ candidate.bases = {candidate.source.id}
    /\ "PROCESS_VARIANT" \notin candidate.steps
    => candidate.total = PhysicalTotal(request, candidate)

\* A mass per bag is used for bags only: counting units share one canonical unit and
\* would convert into each other (_record_is_compatible).
MassIsOfTheUnit ==
    Exists /\ candidate.flow # NoValue =>
        /\ Parsed(request) /\ Parsed(candidate.flow)
        /\ Measure(candidate.flow.unit, request.evidence) = Measure(request.unit, request.evidence)
        /\ activity_dimension(request) = "COUNT" => candidate.flow.unit = request.unit

\* A candidate at the end of its steps has a total, and the lock's check of the total
\* against factor, activity and mass accepts it: no step leaves a stale total, mass or
\* denominator behind (expected_total_emissions, validate_mass_quantity_kg).
TotalsAgree == Finished => candidate.total # NoValue /\ TotalIsExpected(candidate)

\* A standard volume is not set equal to an actual one: the request and the record
\* differ in their reference state only with evidence for the conversion.
ConditionedNeedsEvidence ==
    Exists /\ candidate.activity # NoValue /\ candidate.flow = NoValue
    /\ parse_activity_unit(request.unit).conditioned # denominator(candidate.source.unit).conditioned
    => request.evidence # NoEvidence

\* The records a candidate rests on, and a record's factor in the candidate's unit.
Basis(c) == {a \in {c.source} \cup Anchors : a.id \in c.bases}

FactorIn(c, a) == convert_factor(a.value, a.unit, c.unit)

\* An interpolated factor lies between the factors of a record of a lower and one of a
\* higher grade, whatever their units are ("BOUNDED_SAME_SERIES_INTERPOLATION").
InterpolationIsBounded ==
    Exists /\ candidate.kind = "GRADE_INTERPOLATED" =>
        \E a, b \in Basis(candidate) :
            LET low == FactorIn(candidate, a)
                high == FactorIn(candidate, b)
            IN  /\ a.grade # NoGrade /\ b.grade # NoGrade
                /\ a.grade < request.grade /\ request.grade < b.grade
                /\ \/ AtMost(low, candidate.value) /\ AtMost(candidate.value, high)
                   \/ AtMost(high, candidate.value) /\ AtMost(candidate.value, low)

\* A process step that adjusts changes the factor by the emissions of the target
\* process less those of the reference process, nothing else: the clamp of the common
\* upstream to zero never hides a deficit ("common_upstream = reference - removed >= 0").
AdjustmentIsTheDifference ==
    [][ Exists /\ todo # <<>> /\ Head(todo) = "process" /\ "PROCESS_VARIANT" \in candidate.gaps
        /\ candidate'.kind = "PROCESS_ADJUSTED"
        => Minus(convert_factor(candidate'.value, candidate.unit, PerKg),
                 convert_factor(candidate.value, candidate.unit, PerKg))
           = Plus(Minus(Added(parameters'), Removed(parameters')), Other(parameters')) ]_vars

\* The arithmetic of the routers raises only for grade anchors of a conditioned volume,
\* which are converted without the evidence of the request (resolve_grade): anchors are
\* qualified against the record, so that every other conversion has a multiplier.
RaisesAreConditioned ==
    raised => denominator(candidate.source.unit).conditioned # denominator(candidate.unit).conditioned

\* No unit is taken for another: a mass per bag is for bags, and a standard volume is an
\* actual one only by evidence (_record_is_compatible, plan_activity_conversion).
UnitsAreNotConfused == TypeOK /\ MassIsOfTheUnit /\ ConditionedNeedsEvidence

\* The grade step interpolates within its anchors, and raises only for the anchors of a
\* conditioned volume (resolve_grade).
GradesAreSound == InterpolationIsBounded /\ RaisesAreConditioned
=============================================================================

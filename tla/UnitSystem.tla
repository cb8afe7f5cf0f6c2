------------------------------ MODULE UnitSystem ------------------------------
(***************************************************************************)
(* The unit system (units.py): the tables of controlled activity and       *)
(* impact units, the plan of a conversion and its refusals.                *)
(*                                                                         *)
(* Decimals are exact fractions <<n, d>>.  A unit is named by the key that *)
(* spelling, case, blanks and parentheses are reduced to; a factor unit is *)
(* [impact, activity].                                                     *)
(***************************************************************************)
EXTENDS Integers

CONSTANTS Activity,   \* _ACTIVITY_ALIASES: key -> [canonical, dimension, ratio, conditioned]
          Impact,     \* _IMPACT_ALIASES: key -> ratio to kgCO2e
          NoEvidence  \* no UnitConversionEvidence: [source, target, multiplier]

-----------------------------------------------------------------------------
(* Fractions in lowest terms.                                              *)

gcd[p \in Nat \X Nat] == IF p[2] = 0 THEN p[1] ELSE gcd[<<p[2], p[1] % p[2]>>]

Reduced(n, d) ==
    LET g == gcd[<<IF n < 0 THEN -n ELSE n, d>>] IN <<n \div g, d \div g>>

Fractions == {q \in Int \X (Nat \ {0}) : Reduced(q[1], q[2]) = q}

Positive == {q \in Fractions : q[1] > 0}

One == <<1, 1>>
Zero == <<0, 1>>

Times(a, b) == Reduced(a[1] * b[1], a[2] * b[2])

Over(a, b) == Times(a, <<b[2], b[1]>>)

Plus(a, b) == Reduced(a[1] * b[2] + b[1] * a[2], a[2] * b[2])

Minus(a, b) == Plus(a, <<-b[1], b[2]>>)

AtMost(a, b) == a[1] * b[2] <= b[1] * a[2]

-----------------------------------------------------------------------------
\* Ratios are positive.  A canonical unit is a key itself, and the same unit; of conditioned
\* units, volumes all, there is one.  Masses have kg and impacts kgCO2e as their base.
ASSUME TableAssumption ==
    /\ \A u \in DOMAIN Activity :
          /\ Activity[u].canonical \in DOMAIN Activity
          /\ Activity[Activity[u].canonical] = Activity[u]
          /\ Activity[u].ratio \in Positive
          /\ Activity[u].conditioned \in BOOLEAN
          /\ Activity[u].conditioned => Activity[u].dimension = "VOLUME"
    /\ \A u, v \in DOMAIN Activity :
          Activity[u].conditioned /\ Activity[v].conditioned
          => Activity[u].canonical = Activity[v].canonical
    /\ \A u \in DOMAIN Impact : Impact[u] \in Positive
    /\ "kgCO2e" \in DOMAIN Impact /\ Impact["kgCO2e"] = One
    /\ "kg" \in DOMAIN Activity /\ Activity["kg"].canonical = "kg"
    /\ Activity["kg"].dimension = "MASS" /\ Activity["kg"].ratio = One

-----------------------------------------------------------------------------
(* Parsing.                                                                *)

parse_activity_unit(u) == Activity[u]

parses(unit) == unit.impact \in DOMAIN Impact /\ unit.activity \in DOMAIN Activity

\* The activity unit of a factor unit that parses.
denominator(unit) == parse_activity_unit(unit.activity)

-----------------------------------------------------------------------------
(* Plans: a reason code, and the multiplier where the code is "ok".        *)
(* "DIRECTION" is the plain ValueError of evidence for other units.        *)

Planned(multiplier) == [code |-> "ok", multiplier |-> multiplier]

NotPlanned(code) == [code |-> code, multiplier |-> Zero]

is_conditioned_volume_pair(s, t) ==
    s.dimension = "VOLUME" /\ t.dimension = "VOLUME" /\ s.conditioned # t.conditioned

\* Faulty variant: evidence is used in either direction.
matching_evidence_Either(e, s, t) == {e.source, e.target} = {s.canonical, t.canonical}

matching_evidence(e, s, t) == e.source = s.canonical /\ e.target = t.canonical

plan_activity(s, t, e) ==
    IF s.dimension # t.dimension THEN NotPlanned("UNIT_DIMENSION_MISMATCH")
    ELSE IF s.canonical = t.canonical THEN Planned(One)
    ELSE IF ~is_conditioned_volume_pair(s, t) THEN Planned(Over(s.ratio, t.ratio))
    ELSE IF e = NoEvidence THEN NotPlanned("UNIT_CONVERSION_EVIDENCE_REQUIRED")
    ELSE IF ~matching_evidence(e, s, t) THEN NotPlanned("DIRECTION")
    ELSE Planned(e.multiplier)

plan_activity_conversion(source, target, e) ==
    IF {source, target} \subseteq DOMAIN Activity
    THEN plan_activity(parse_activity_unit(source), parse_activity_unit(target), e)
    ELSE NotPlanned("UNIT_SYNTAX_UNSUPPORTED")

factor_multiplier(source, target, activity) ==
    Over(Over(Impact[source.impact], Impact[target.impact]), activity)

plan_factor_conversion(source, target, e) ==
    IF ~parses(source) \/ ~parses(target) THEN NotPlanned("UNIT_SYNTAX_UNSUPPORTED")
    ELSE LET plan == plan_activity_conversion(denominator(source).canonical,
                                              denominator(target).canonical, e)
         IN  IF plan.code = "ok"
             THEN Planned(factor_multiplier(source, target, plan.multiplier))
             ELSE plan

\* convert; the plan must be one.
Convert(value, plan) == Times(value, plan.multiplier)

\* convert_factor: without evidence.
convert_factor(value, source, target) ==
    Convert(value, plan_factor_conversion(source, target, NoEvidence))

factor_converts(source, target) == plan_factor_conversion(source, target, NoEvidence).code = "ok"

PerKg == [impact |-> "kgCO2e", activity |-> "kg"]
=============================================================================

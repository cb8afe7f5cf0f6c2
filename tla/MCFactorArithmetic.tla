------------------------- MODULE MCFactorArithmetic --------------------------
(***************************************************************************)
(* A small instance of FactorArithmetic with ratios of the code's tables.  *)
(***************************************************************************)
EXTENDS FactorArithmetic

Unit(canonical, dimension, ratio) ==
    [canonical |-> canonical, dimension |-> dimension, ratio |-> ratio, conditioned |-> FALSE]

MCActivity ==
    [u \in {"kg", "t", "kWh", "MJ", "m3", "L", "Nm3", "item", "bag"} |->
        CASE u = "kg" -> Unit("kg", "MASS", <<1, 1>>)
          [] u = "t" -> Unit("t", "MASS", <<1000, 1>>)
          [] u = "kWh" -> Unit("kWh", "ENERGY", <<1, 1>>)
          [] u = "MJ" -> Unit("MJ", "ENERGY", <<5, 18>>)
          [] u = "m3" -> Unit("m3", "VOLUME", <<1, 1>>)
          [] u = "L" -> Unit("L", "VOLUME", <<1, 1000>>)
          [] u = "Nm3" -> [Unit("Nm3", "VOLUME", <<1, 1>>) EXCEPT !.conditioned = TRUE]
          [] u \in {"item", "bag"} -> Unit("item", "COUNT", <<1, 1>>)]

MCImpact == [u \in {"kgCO2e", "tCO2e"} |-> IF u = "kgCO2e" THEN <<1, 1>> ELSE <<1000, 1>>]

Per(impact, activity) == [impact |-> impact, activity |-> activity]

Evidence(source, target, multiplier) ==
    [source |-> source, target |-> target, multiplier |-> multiplier]

\* Only volumes have a form or evidence that matters.
MCRequests ==
    {r \in [quantity : {<<3, 1>>},
            unit : {"kg", "t", "MJ", "m3", "L", "Nm3", "bag", "furlong"},
            target : {NoUnit, Per("kgCO2e", "t"), Per("tCO2e", "t"), Per("kgCO2e", "kWh"),
                      Per("kgCO2e", "m3"), Per("kgCO2e", "Nm3"), Per("kgCO2e", "furlong")},
            form : BOOLEAN,
            evidence : {NoEvidence, Evidence("m3", "Nm3", <<9, 10>>),
                        Evidence("Nm3", "m3", <<6, 5>>), Evidence("L", "Nm3", <<1, 1250>>)},
            grade : {NoGrade, 80}] :
        r.unit \in {"m3", "L", "Nm3"} \/ (r.form = FALSE /\ r.evidence = NoEvidence)}

Source(value, unit, grade, series, basis, route, order) ==
    [id |-> 1, value |-> value, unit |-> unit, grade |-> grade, series |-> series,
     basis |-> basis, route |-> route, order |-> order]

\* Records that fit, that differ in one way, and that differ in both, in either order.
MCSources ==
    UNION {{Source(value, unit, 80, "S", "requested", "requested", "default"),
            Source(value, unit, NoGrade, NoSeries, "other", "requested", "default"),
            Source(value, unit, 80, "S", "other", "other", "default"),
            Source(value, unit, 75, "S", "requested", "other", "default"),
            Source(value, unit, 75, "S", "requested", "other", "grade_first")} :
           value \in {<<1, 2>>, <<5, 1>>},
           unit \in {Per("kgCO2e", "kg"), Per("tCO2e", "t"), Per("kgCO2e", "kWh"),
                     Per("kgCO2e", "m3"), Per("kgCO2e", "Nm3"), Per("kgCO2e", "item")}}

Anchor(id, value, unit, grade) ==
    [id |-> id, value |-> value, unit |-> unit, grade |-> grade, series |-> "S"]

MCAnchors ==
    {Anchor(2, <<4, 1>>, Per("kgCO2e", "kg"), 70), Anchor(3, <<6000, 1>>, Per("kgCO2e", "t"), 90),
     Anchor(4, <<2, 1>>, Per("kgCO2e", "m3"), 85), Anchor(5, <<3, 1>>, Per("kgCO2e", "item"), 90),
     Anchor(6, <<7, 1>>, Per("tCO2e", "t"), 80)}

MCFlows ==
    {[unit |-> "bag", mass |-> <<25, 1>>, compatible |-> TRUE],
     [unit |-> "item", mass |-> <<2, 1>>, compatible |-> TRUE],
     [unit |-> "L", mass |-> <<5, 4>>, compatible |-> TRUE],
     [unit |-> "bag", mass |-> <<40, 1>>, compatible |-> FALSE]}

Energy(total, electricity, gas, explicit) ==
    [total |-> total, electricity |-> electricity, gas |-> gas, explicit |-> explicit,
     consumable |-> NoValue, required |-> FALSE]

Full(reference, target, defect, includes) ==
    [mode |-> "full", defect |-> defect, includes |-> includes,
     reference |-> reference, target |-> target,
     kwh_kgce |-> <<1, 8>>, kwh_ef |-> <<1, 2>>, nm3_kgce |-> <<6, 5>>, nm3_ef |-> <<3, 1>>]

Delta(removed, added, other) ==
    [mode |-> "delta", defect |-> FALSE, includes |-> TRUE,
     removed |-> removed, added |-> added, other |-> other]

MCParameters ==
    LET gas == Energy(<<200, 1>>, Zero, One, NoValue)
        electric == Energy(<<400, 1>>, One, Zero, NoValue)
        mixed == Energy(<<200, 1>>, <<1, 2>>, <<1, 2>>, <<1, 10>>)
        carbon == [mixed EXCEPT !.required = TRUE,
                    !.consumable = [mass |-> <<30, 1>>, carbon |-> <<1, 2>>, oxidation |-> One]]
        short == Energy(<<200, 1>>, <<1, 2>>, Zero, NoValue)
    IN  {Full(gas, electric, FALSE, TRUE), Full(electric, gas, FALSE, TRUE),
         Full(mixed, mixed, FALSE, TRUE), Full(gas, mixed, FALSE, TRUE), Full(mixed, carbon, FALSE, TRUE),
         Full(mixed, [mixed EXCEPT !.required = TRUE], FALSE, TRUE),
         Full(gas, short, FALSE, TRUE), Full(gas, electric, TRUE, TRUE),
         Full(gas, electric, FALSE, FALSE),
         Delta(<<1, 4>>, One, Zero), Delta(<<1, 4>>, Zero, <<-1, 2>>), Delta(<<2, 1>>, One, Zero)}

=============================================================================

--------------------------- MODULE MCEnergyDatabase ---------------------------
(* Fused mullite against sintered mullite, in four imports.                *)
EXTENDS EnergyDatabase, TLC

MCCasefold == [w \in {"mullite", "Mullite", "fused", "Fused", "sintered"} |->
                  CASE w = "Mullite" -> "mullite" [] w = "Fused" -> "fused" [] OTHER -> w]

Quota(id, process, value) ==
    [id |-> id, name |-> process \o <<"Mullite">>, canonical |-> <<>>, head |-> <<"Mullite">>,
     process |-> process, level |-> 1, value |-> value, active |-> TRUE]

Conversion(id, quantity, min, max) ==
    [id |-> id, name |-> <<"any", quantity>>, min |-> min, max |-> max, active |-> TRUE]

Parameter(id, name, value, source, includes) ==
    [id |-> id, name |-> name, value |-> value, source |-> source, includes |-> includes,
     reference_head |-> <<"mullite">>, reference_process |-> <<"sintered">>,
     target_head |-> <<"Mullite">>, target_process |-> <<"Fused">>, active |-> TRUE]

Row(line, process, share, fuel, trigger, emission) ==
    [line |-> line, canonical |-> process \o <<"mullite">>, head |-> <<"mullite">>,
     process |-> process, review |-> FALSE, trigger |-> trigger,
     levels |-> [l \in Levels |->
                    [total |-> 10 * l, share |-> share, fuel |-> fuel, emission |-> emission]]]

Quotas == {Quota(1, <<"fused">>, 9), Quota(2, <<"sintered">>, 5)}

Sintered == Row(7, <<"sintered">>, 40, "gas", FALSE, 3)
Fused    == Row(8, <<"fused">>, 100, "gas", TRUE, NoCell)
FusedToo == Row(9, <<"Fused">>, 80, "gas", TRUE, 0)

Parameters ==
    {Parameter(1, <<"target", "electricity_share">>, 10, "", FALSE),
     Parameter(2, <<"any", "natural_gas_ef_kgco2e_per_nm3">>, 2, "s2", TRUE)}

Disputed == {Parameter(3, <<"any", "natural_gas_ef_kgco2e_per_nm3">>, 4, "s2", FALSE)}

Input(quotas, parameters, workbook, overwrite) ==
    [quotas |-> quotas, parameters |-> parameters, workbook |-> workbook,
     conversions |-> {Conversion(1, "electricity_kgce_per_kwh", 1, 1),
                      Conversion(2, "natural_gas_kgce_per_nm3", 1, 2)},
     overwrite |-> overwrite]

MCInputs ==
    {Input(Quotas, Parameters, {Sintered, Fused}, FALSE),
     Input(Quotas, Parameters \cup Disputed, {Sintered, Fused, FusedToo}, TRUE),
     Input(Quotas \cup {Quota(2, <<"fused">>, 7)}, {}, {}, TRUE),
     Input(Quotas, {}, {Row(7, <<"sintered">>, 120, "gas", FALSE, 3)}, TRUE)}

Fused_(name) == [name |-> name, process |-> <<"fused">>, head |-> <<"mullite">>, route |-> <<>>]

Reference(process, source) ==
    [name |-> <<"Mullite">>, process |-> process, head |-> <<>>, route |-> <<>>,
     source |-> source, lifecycle |-> TRUE, proxy |-> FALSE]

Search(reference, review, wide, others) ==
    [activity |-> Fused_(<<"Fused", "Mullite">>), reference |-> reference,
     options |-> [level |-> 1, review |-> review, generic |-> wide, assume |-> wide],
     others |-> others]

MCSearches ==
    {Search(Reference(<<"sintered">>, "s1"), FALSE, FALSE, {}),
     Search(Reference(<<"sintered">>, "s1"), FALSE, TRUE, {}),
     Search(Reference(<<"sintered">>, "s2"), TRUE, FALSE,
            {Item(6, "scoped", 2, <<"any", "natural_gas_ef_kgco2e_per_nm3">>, 2)}),
     Search(Reference(<<"sintered">>, "s1"), FALSE, FALSE,
            {Item(6, "scoped", 9, <<"target", "total">>, 1)}),
     Search(Reference(<<>>, "s1"), FALSE, FALSE, {})}

BuilderSymmetry == Permutations(Builders)
=============================================================================

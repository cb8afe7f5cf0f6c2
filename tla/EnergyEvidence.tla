---------------------------- MODULE EnergyEvidence ----------------------------
(***************************************************************************)
(* What an energy database holds and what a search of it returns: the      *)
(* records and their checks, the rows of the enterprise workbook           *)
(* (tools/import_refractory_energy_standard.py), the tables, and           *)
(* SqliteEnergyProcessParameterRepository.search (energy_database.py).     *)
(*                                                                         *)
(* A name is a sequence of words.  Shares are percentages, and emissions   *)
(* grams per kilogram, which is the stored unit of kilograms per tonne.    *)
(* The name of an energy parameter is a pair of the side it is about       *)
(* ("reference", "target" or "any") and a quantity.                        *)
(***************************************************************************)
EXTENDS Integers, Sequences, FiniteSets, FiniteSetsExt

CONSTANTS Casefold, \* per word: the word in its folded form
          NoCell    \* an empty cell of the workbook

Levels == 1..3

\* _norm
norm(name) == [i \in DOMAIN name |-> Casefold[name[i]]]

-----------------------------------------------------------------------------
(* Records.                                                                *)

\* EnergyQuotaRecord, EnergyConversionRecord, ScopedProcessParameterRecord,
\* EnterpriseEnergyProfileRecord and EnterpriseProcessEmissionRecord: the checks of
\* their constructors.
quota_valid(q) == q.name # <<>> /\ q.head # <<>> /\ q.level \in Levels /\ q.value > 0

conversion_valid(c) == c.min > 0 /\ c.max >= c.min

parameter_valid(p) ==
    /\ p.reference_head # <<>> /\ p.reference_process # <<>>
    /\ p.target_head # <<>> /\ p.target_process # <<>>

profile_valid(p) ==
    /\ p.level \in Levels /\ p.total > 0
    /\ p.electricity \in 0..100 /\ p.remainder \in 0..100
    /\ p.electricity + p.remainder = 100

emission_valid(e) == e.process # <<>> /\ e.level \in Levels /\ e.value >= 0

-----------------------------------------------------------------------------
(* The enterprise workbook.  A row has a line, a name, the canonical name  *)
(* under which its product is known, what the registry makes of the name,  *)
(* a review marker, the emission trigger of its remark, and per level      *)
(* [total, share, fuel, emission].                                         *)

\* The carrier of what is not electricity, from the cells the formula refers to.
carrier(cell) ==
    CASE cell.share = 100 -> "none"
      [] cell.share # 100 /\ cell.fuel = "coal" -> "standard_coal"
      [] cell.share # 100 /\ cell.fuel = "gas" -> "natural_gas"
      [] OTHER -> "unresolved"

level_profile(row, level) ==
    LET cell == row.levels[level]
    IN  [row |-> row.line, level |-> level, product |-> row.canonical,
         head |-> row.head, process |-> row.process, total |-> cell.total,
         electricity |-> cell.share, remainder |-> 100 - cell.share,
         carrier |-> carrier(cell),
         eligible |-> carrier(cell) \in {"none", "natural_gas"} /\ ~row.review,
         ambiguous |-> FALSE]

level_profiles(workbook) == {level_profile(row, level) : row \in workbook, level \in Levels}

Twin(p, q) == p.row # q.row /\ p.level = q.level /\ norm(p.product) = norm(q.product)

\* Another row of the workbook has the same product and level.
Ambiguous(p, profiles) == \E q \in profiles : Twin(p, q)

\* extract_enterprise_profiles: what is ambiguous is not eligible.
extract_enterprise_profiles(workbook) ==
    LET profiles == level_profiles(workbook)
    IN  {[p EXCEPT !.eligible = @ /\ ~Ambiguous(p, profiles),
                   !.ambiguous = Ambiguous(p, profiles)] : p \in profiles}

\* interpret_process_emission_observation with blank_means_zero: a blank is zero, and
\* a zero beside a trigger asks for a calculation.
interpret_process_emission_observation(cell, trigger) ==
    LET value == IF cell = NoCell THEN 0 ELSE cell
    IN  [value |-> value, calculation |-> trigger /\ value = 0]

\* extract_enterprise_process_emissions
extract_enterprise_process_emissions(workbook) ==
    LET emission(p) ==
            LET row == CHOOSE r \in workbook : r.line = p.row
                seen == interpret_process_emission_observation(
                            row.levels[p.level].emission, row.trigger)
            IN  [row |-> p.row, level |-> p.level, product |-> p.product,
                 process |-> p.process, eligible |-> p.eligible,
                 trigger |-> row.trigger, value |-> seen.value,
                 calculation |-> seen.calculation]
    IN  {emission(p) : p \in {q \in extract_enterprise_profiles(workbook) : q.process # <<>>}}

-----------------------------------------------------------------------------
(* The tables.                                                             *)

\* The canonical product of a quota: its own, or the route, or the name.
quota_product(q) ==
    norm(IF q.canonical # <<>> THEN q.canonical
         ELSE IF q.process # <<>> THEN q.process \o q.head ELSE q.name)

quota_row(q) ==
    [id |-> q.id, product |-> quota_product(q), head |-> norm(q.head),
     process |-> norm(q.process), level |-> q.level, value |-> q.value, active |-> q.active]

parameter_row(p) ==
    [p EXCEPT !.reference_head = norm(@), !.reference_process = norm(@),
              !.target_head = norm(@), !.target_process = norm(@)]

product_row(r) == [r EXCEPT !.product = norm(@)]

\* The rows that create_energy_database inserts for what the importer passes.
Tables(input) ==
    [quotas      |-> {quota_row(q) : q \in input.quotas},
     conversions |-> input.conversions,
     parameters  |-> {parameter_row(p) : p \in input.parameters},
     profiles    |-> {product_row(p) : p \in extract_enterprise_profiles(input.workbook)},
     emissions   |-> {product_row(e) : e \in extract_enterprise_process_emissions(input.workbook)}]

\* The tables after the script that creates them.
EmptyTables ==
    [quotas |-> {}, conversions |-> {}, parameters |-> {}, profiles |-> {}, emissions |-> {}]

\* Every record passes its constructor.
WellFormed(input) ==
    /\ \A q \in input.quotas : quota_valid(q)
    /\ \A c \in input.conversions : conversion_valid(c)
    /\ \A p \in input.parameters : parameter_valid(p)
    /\ \A p \in extract_enterprise_profiles(input.workbook) : profile_valid(p)
    /\ \A e \in extract_enterprise_process_emissions(input.workbook) : emission_valid(e)

\* No primary key occurs twice.
Insertable(input) ==
    \A table \in {input.quotas, input.conversions, input.parameters} :
        \A x, y \in table : x.id = y.id => x = y

-----------------------------------------------------------------------------
(* The lookups of a search, for a party (the activity or the reference)    *)
(* under options [level, review, generic, assume].                         *)

\* _identity: what the registry resolved, or else what was said.
identity(party) ==
    [head    |-> norm(IF party.head # <<>> THEN party.head ELSE party.name),
     process |-> norm(IF party.route # <<>> THEN party.route ELSE party.process)]

product_keys(party) ==
    {norm(party.name), identity(party).process \o identity(party).head} \ {<<>>}

ActiveRows(table) == {row \in table : row.active}

\* _quota: by product, or else by route.
quota_rows(t, o, party) ==
    LET level == {q \in ActiveRows(t.quotas) : q.level = o.level}
        exact == {q \in level : q.product \in product_keys(party)}
    IN  IF exact # {} THEN exact
        ELSE {q \in level : /\ q.head = identity(party).head
                            /\ q.process = identity(party).process}

Usable(row, o) == o.review \/ row.eligible

\* _enterprise_profile
profile_rows(t, o, party) ==
    {p \in t.profiles : /\ p.product \in product_keys(party) /\ p.level = o.level
                        /\ ~p.ambiguous /\ Usable(p, o)}

\* _enterprise_process_emissions
emission_rows(t, o, party) ==
    {e \in t.emissions : /\ e.product \in product_keys(party) /\ e.level = o.level
                         /\ Usable(e, o)}

\* A lookup raises: more than one row, or emissions of more than one product.
Raises(t, o, party) ==
    \/ Cardinality(quota_rows(t, o, party)) > 1
    \/ Cardinality(profile_rows(t, o, party)) > 1
    \/ Cardinality({e.product : e \in emission_rows(t, o, party)}) > 1

Party(search, side) == IF side = "reference" THEN search.reference ELSE search.activity

Sides == {"reference", "target"}

\* The two parties have one head material and each a process.
Comparable(search) ==
    LET r == identity(search.reference)
        a == identity(search.activity)
    IN  r.process # <<>> /\ a.process # <<>> /\ r.head = a.head

-----------------------------------------------------------------------------
(* The evidence.  An item has the stage at which search appends it and the *)
(* id by which its stage is ordered.                                       *)

Item(stage, origin, id, name, value) ==
    [stage |-> stage, origin |-> origin, id |-> id, name |-> name, value |-> value,
     calculation |-> FALSE]

\* The total of a side: of its profile, or else of its quota.
total_evidence(t, s, side) ==
    LET profiles == profile_rows(t, s.options, Party(s, side))
    IN  IF profiles # {}
        THEN {Item(1, "enterprise", p.row, <<side, "total">>, p.total) : p \in profiles}
        ELSE {Item(1, "quota", q.id, <<side, "total">>, q.value) :
                 q \in quota_rows(t, s.options, Party(s, side))}

shares(side, p) ==
    {Item(2, "enterprise", p.row, <<side, "electricity_share">>, p.electricity),
     Item(2, "enterprise", p.row, <<side, "natural_gas_share">>, p.remainder)}

\* The shares, when both sides have a profile with electricity and gas only.
share_evidence(t, s) ==
    LET of(side) == profile_rows(t, s.options, Party(s, side))
    IN  IF \A side \in Sides : \E p \in of(side) : p.carrier \in {"natural_gas", "none"}
        THEN UNION {UNION {shares(side, p) : p \in of(side)} : side \in Sides}
        ELSE {}

calculation_required(rows) == \E e \in rows : e.calculation

\* _process_emission_evidence: the sum of the rows.
emission_evidence(t, s, side) ==
    LET rows == emission_rows(t, s.options, Party(s, side))
    IN  IF rows = {} THEN {}
        ELSE {[Item(3, "enterprise", Min({e.row : e \in rows}), <<side, "process_emission">>,
                    MapThenSumSet(LAMBDA e : e.value, rows))
               EXCEPT !.calculation = calculation_required(rows)]}

\* Exact conversions of electricity and gas.
conversion_evidence(t) ==
    {Item(4, "conversion", c.id, c.name, c.min) :
        c \in {d \in ActiveRows(t.conversions) :
                  /\ d.min = d.max
                  /\ d.name \in {<<"any", "electricity_kgce_per_kwh">>,
                                 <<"any", "natural_gas_kgce_per_nm3">>}}}

GENERIC_ENERGY_PARAMETER_NAMES ==
    {<<"any", "natural_gas_kgce_per_nm3">>, <<"any", "electricity_ef_kgco2e_per_kwh">>,
     <<"any", "natural_gas_ef_kgco2e_per_nm3">>}

\* A carrier parameter of any route, if all of that name agree.
generic_evidence(t, s) ==
    IF ~s.options.generic THEN {}
    ELSE {Item(5, "generic", p.id, p.name, p.value) :
             p \in {q \in ActiveRows(t.parameters) :
                       /\ q.name \in GENERIC_ENERGY_PARAMETER_NAMES
                       /\ \A r \in ActiveRows(t.parameters) :
                              r.name = q.name => q.id <= r.id /\ q.value = r.value}}

\* The parameters of this edge.
scoped_rows(t, s) ==
    LET r == identity(s.reference)
        a == identity(s.activity)
    IN  {p \in ActiveRows(t.parameters) :
            /\ p.reference_head = r.head /\ p.reference_process = r.process
            /\ p.target_head = a.head /\ p.target_process = a.process
            /\ p.source \in {"", s.reference.source}}

scoped_evidence(t, s) ==
    {Item(6, "scoped", p.id, p.name, p.value) : p \in scoped_rows(t, s)}

\* That the reference includes the process: a scoped row says so, or the policy
\* assumes it of a lifecycle factor that is no proxy, between two profiles.
inclusion_evidence(t, s) ==
    LET witnesses == {p \in scoped_rows(t, s) : p.includes}
        name == <<"reference", "process_inclusion">>
    IN  IF witnesses # {} THEN {Item(7, "witness", Min({p.id : p \in witnesses}), name, 1)}
        ELSE IF /\ s.options.assume /\ s.reference.lifecycle /\ ~s.reference.proxy
                /\ \A side \in Sides : profile_rows(t, s.options, Party(s, side)) # {}
        THEN {Item(7, "policy", 0, name, 1)}
        ELSE {}

\* Everything that search appends.
appended(t, s) ==
    (UNION {total_evidence(t, s, side) \cup emission_evidence(t, s, side) : side \in Sides})
    \cup share_evidence(t, s) \cup conversion_evidence(t) \cup generic_evidence(t, s)
    \cup scoped_evidence(t, s) \cup inclusion_evidence(t, s)

After(i, j) == i.stage > j.stage \/ (i.stage = j.stage /\ i.id > j.id)

\* Faulty variant: the last item of a name wins, whatever its origin.
by_name_Last(items) == {i \in items : \A j \in items : j.name = i.name => ~After(j, i)}

\* The last item of a name wins, but nothing replaces enterprise evidence.
by_name(items) ==
    {i \in items :
        \A j \in items \ {i} :
            j.name = i.name =>
                IF i.origin = "enterprise" THEN j.origin = "enterprise" => After(j, i)
                ELSE j.origin # "enterprise" /\ After(i, j)}

\* search, once the lookups have not raised.
search_evidence(t, s) ==
    IF \E side \in Sides : total_evidence(t, s, side) = {} THEN {}
    ELSE by_name(appended(t, s))

-----------------------------------------------------------------------------
(* CompositeProcessParameterRepository, behind another repository: an item *)
(* with an id that was seen is skipped, one with a name that was seen      *)
(* raises.  The id of a quota does not name the side.                      *)

SameId(i, j) ==
    i.origin = j.origin /\ i.id = j.id /\ (i.origin = "enterprise" => i.name = j.name)

Skipped(i, others, found) ==
    \/ \E j \in others : SameId(i, j)
    \/ /\ i.name = <<"target", "total">>
       /\ \E j \in found : j.name = <<"reference", "total">> /\ SameId(i, j)

Fresh(others, found) == {i \in found : ~Skipped(i, others, found)}

Conflict(others, found) == \E i \in Fresh(others, found), j \in others : i.name = j.name

composite(others, found) == others \cup Fresh(others, found)
=============================================================================

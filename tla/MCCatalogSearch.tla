--------------------------- MODULE MCCatalogSearch ----------------------------
(***************************************************************************)
(* A small instance of CatalogSearch with six rules of materials.  Two     *)
(* families of behaviours in one specification: two requests meet nine     *)
(* payloads and eight configurations, for the cache; ten requests of every *)
(* kind meet two catalogues, for the names.                                *)
(***************************************************************************)
EXTENDS CatalogSearch, TLC

CONSTANTS Alumina, Aluminium, Zirconia, Mullite, White, Primary

-----------------------------------------------------------------------------
(* Registries.                                                             *)

Rule(id, entity, aliases) ==
    [id |-> id, entity |-> entity, aliases |-> aliases, active |-> TRUE,
     product |-> NoEntity, family |-> "minerals", composite |-> FALSE, constituents |-> {}]

Rules ==
    {[Rule(1, Aluminium, {<<"aluminium">>, <<"al">>}) EXCEPT !.family = "metals"],
     Rule(2, Alumina, {<<"alumina">>, <<"aluminium", "oxide">>}),
     [Rule(3, Alumina, {<<"white", "alumina">>}) EXCEPT !.product = White],
     Rule(4, Zirconia, {<<"zirconia">>}), Rule(5, Mullite, {<<"mullite">>}),
     [Rule(6, Mullite, {<<"zircon", "mullite">>})
         EXCEPT !.composite = TRUE, !.constituents = {Zirconia, Mullite}]}

Named(id, word) == [id |-> id, aliases |-> {<<word>>}, active |-> TRUE]

Schema(id, prefixes, priority) ==
    [id |-> id, entities |-> {Alumina}, basis |-> Alumina, labels |-> {90, 95},
     prefixes |-> prefixes, priority |-> priority, active |-> TRUE]

Registry ==
    [version |-> 1, materials |-> Rules, processes |-> {Named(1, "fused")},
     forms |-> {Named(1, "brick")}, schemas |-> {Schema(1, {"ar"}, 100), Schema(2, {}, 10)}]

\* The rule of alumina is withdrawn.
Withdrawn ==
    [Registry EXCEPT !.version = 2,
        !.materials = {IF r.id = 2 THEN [r EXCEPT !.active = FALSE] ELSE r : r \in Rules}]

MCRegistries == <<Registry, Withdrawn>>

MCShortWords == {<<"al">>}
MCShortSuffixes == {"brick"}
MCOpenFamily == [entity |-> Aluminium, family |-> "metals", products |-> {Primary}]

-----------------------------------------------------------------------------
(* Names and requests.                                                     *)

Number(value, contexts) ==
    [value |-> value, contexts |-> contexts, at |-> 1, component |-> NoEntity, prefix |-> "ar"]

Query(text) == [text |-> text, process |-> <<>>, form |-> <<>>, composition |-> {}]

Oxide == Query(Text(<<"aluminium", "oxide">>))
Mixed == Query(Text(<<"zirconia", "mullite">>))

\* Alumina with a number in its name.
Numbered(number) == Query([words |-> <<"alumina">>, numbers |-> {number}])
Grit == Numbered(Number(80, {"negative", "bare"}))

CacheQueries == {Oxide, Grit}

\* Every qualifier once: a process or a form in the name or in a field, a number that is
\* bound as the grade, left unresolved or classified away, and a grade in the composition.
NameQueries ==
    {Oxide, Mixed, Grit,
     Query(Text(<<"fused", "alumina">>)), Query(Text(<<"alumina", "brick">>)),
     [Oxide EXCEPT !.process = <<"fused">>], [Oxide EXCEPT !.form = <<"unknown">>],
     Numbered(Number(90, {"bare"})), Numbered(Number(80, {"bare"})),
     [Oxide EXCEPT !.composition = {Number(95, {"bare"})}]}

-----------------------------------------------------------------------------
(* Catalogues.                                                             *)

Item(id, words) ==
    [identity |-> id, id |-> id, text |-> Text(words), aliases |-> {}, composition |-> {},
     defect |-> "none", known |-> TRUE, category |-> "mineral", field |-> NoValue,
     rank |-> NoValue, edition |-> "other", draft |-> FALSE]

Draft == [Item("a", <<"alumina">>) EXCEPT !.draft = TRUE]
Stated == [Item("z", <<"zirconia">>) EXCEPT !.field = "stated", !.category = "oxide", !.rank = 5]
Composite ==
    [Item("m", <<"zircon", "mullite", "brick">>) EXCEPT !.category = "oxide", !.edition = "3.10"]
Other == [Item("o", <<"clinker">>) EXCEPT !.aliases = {Text(<<"alumina">>)}]
Broken == [Item("b", <<"alumina", "brick">>) EXCEPT !.defect = "primary_unit_missing"]
Unnamed == [Item("u", <<"white", "alumina">>) EXCEPT !.id = NoId]
\* Its own identity, but the converted id of Draft.
Twin == [Item("t", <<"alumina", "fused">>) EXCEPT !.id = "a"]


Catalogue == <<Draft, Stated, Composite, Other, Broken, Unnamed>>
\* The same records in another order.
Reordered == <<Unnamed, Other, Draft, Stated, Composite, Broken>>

Manifest(records) == [declared |-> Range(records), publisher |-> "p", signature |-> "none"]

Payload(records) ==
    [wellformed |-> TRUE, records |-> records, manifest |-> Manifest(records),
     database |-> "d1", version |-> "v1"]

CachePayloads ==
    {Payload(Catalogue), Payload(Reordered),
     [Payload(Catalogue) EXCEPT !.manifest.signature = "good"],
     [Payload(Catalogue) EXCEPT !.manifest.signature = "bad"],
     [Payload(Catalogue) EXCEPT !.manifest = NoManifest, !.database = NoValue],
     [Payload(<<Draft>>) EXCEPT !.database = "d2"],
     [Payload(<<Draft, Stated>>) EXCEPT !.manifest.declared = {Draft}],
     Payload(<<Draft, Twin>>), Payload(<<Draft, Draft>>)}

-----------------------------------------------------------------------------
(* Policies and configurations.                                            *)

Policy(field, approval, categories) ==
    [field |-> field, approval |-> approval, categories |-> categories, rank |-> 10]

Bundle(policies, signature) ==
    [policies |-> policies, signature |-> signature, approved |-> Range(Catalogue),
     effective_from |-> 1, effective_until |-> 2]

Defaults == Bundle({Policy("x", NoId, {}), Policy("y", NoId, {"oxide"})}, "good")
Approving == Bundle({Policy("x", "approval", {"mineral"})}, "good")

Plain ==
    [dataset_policies |-> FALSE, bundle |-> NoBundle, effective_on |-> NoDate,
     policy_verifier |-> FALSE, verifier |-> TRUE, expected |-> NoValue, registry |-> 1]

With(bundle, date, verifier) ==
    [Plain EXCEPT !.bundle = bundle, !.effective_on = date, !.policy_verifier = verifier]

CacheConfigs ==
    {Plain, [Plain EXCEPT !.dataset_policies = TRUE],
     [Plain EXCEPT !.registry = 2, !.expected = "d1", !.verifier = FALSE],
     With(Defaults, 1, FALSE), With(Defaults, 1, TRUE), With(Defaults, 3, TRUE),
     With(Approving, 2, TRUE), With(Approving, 2, FALSE)}

Symmetry == Permutations(Searches)

CacheMemory == {<<Draft, Composite>>, <<Draft, Stated, Other>>}

-----------------------------------------------------------------------------
(* Names.                                                                  *)

\* Products and forms of one material.
White1 == Item("w", <<"white", "alumina">>)
Fused == Item("f", <<"alumina", "fused">>)

NamePayloads == {Payload(Catalogue \o <<White1, Fused>>), Payload(<<Draft, Stated>>)}

NameConfigs == {Plain, [Plain EXCEPT !.registry = 2]}

NameMemory == {<<Draft, White1, Fused>>, <<Fused, Draft, White1>>, <<Composite, Draft>>}

-----------------------------------------------------------------------------
(* Both families in one specification.  The list of the in-memory          *)
(* repository tells them apart.                                            *)

MCQueries == CacheQueries \cup NameQueries
MCPayloads == CachePayloads \cup NamePayloads
MCConfigs == CacheConfigs \cup NameConfigs
MCMemory == CacheMemory \cup NameMemory

NamesOnly == memory.records \in NameMemory

Family(names, searches) == IF NamesOnly THEN names ELSE searches

\* One search at a time meets the names.
OneSearch == \A s, t \in Searches : intent[s] # NoIntent /\ intent[t] # NoIntent => s = t

MCInit == Init /\ config \in Family(NameConfigs, CacheConfigs)

\* The steps of Next with the inputs of the family.
MCNext ==
    /\ \/ \E c \in Family(NameConfigs, CacheConfigs) : Configure(c)
       \/ \E s \in Searches :
             \/ \E q \in Family(NameQueries, CacheQueries) : Search(s, q)
             \/ \E p \in Family(NamePayloads, CachePayloads) : Answer(s, p)
             \/ FetchFails(s)
       \/ \E records \in Family(NameMemory, CacheMemory) : ChangeList(records)
       \/ \E q \in Family(NameQueries, CacheQueries) : SearchMemory(q)
    /\ NamesOnly => OneSearch'

MCSpec == MCInit /\ [][MCNext]_vars
=============================================================================

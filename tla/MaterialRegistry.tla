--------------------------- MODULE MaterialRegistry ---------------------------
(***************************************************************************)
(* VersionedMaterialSemanticRegistry (material_registry.py): what a name   *)
(* is resolved to, and the retrieval intent that the catalogue is searched *)
(* with.  Operators only; CatalogSearch uses them for requests and for the *)
(* records of the catalogue.                                               *)
(*                                                                         *)
(* A normalised text is a sequence of words and a set of numbers.  A       *)
(* number carries its position and the contexts in which the parser's      *)
(* patterns find it: "negative" (grit, model, alloy, standard, year,       *)
(* particle, packaging), "percent", "formula", "prefixed", "bare".         *)
(***************************************************************************)
EXTENDS Integers, Sequences, FiniteSets

CONSTANTS ShortWords,    \* one-character aliases, which may stand inside other words
          ShortSuffixes, \* words after which a short alias is a material
          MetalWord,     \* the word before which it is one
          OpenFamily,    \* [entity, family, products]: aluminium, whose route is open
          NoEntity, NoRule, NoGrade

\* A registry is a record of its version, material rules, process rules, form
\* rules and grade schemas.  sha256 covers all of them: the record itself.
Active(rules) == {r \in rules : r.active}

\* What is assumed of material rules.
SoundRules(rules) ==
    /\ IsFiniteSet(rules)
    /\ \A r \in rules :
          /\ r.id \in Nat /\ r.aliases \subseteq Seq(STRING)
          /\ IsFiniteSet(r.constituents)
          /\ r.constituents # {} => r.composite /\ Cardinality(r.constituents) > 1
    /\ \A r, t \in rules : r.id = t.id => r = t

Text(words) == [words |-> words, numbers |-> {}]

-----------------------------------------------------------------------------
(* Occurrences of aliases and their selection.                             *)

\* A one-character alias is an entity only alone, after "metal" or before a form.
ShortAllowed(words, i) ==
    \/ Len(words) = 1
    \/ i > 1 /\ words[i - 1] = MetalWord
    \/ i < Len(words) /\ words[i + 1] \in ShortSuffixes

\* Where an alias stands in a text.
positions(words, alias) ==
    {i \in 1..(Len(words) - Len(alias) + 1) : SubSeq(words, i, i + Len(alias) - 1) = alias}

\* _material_occurrences: where it stands as a material.
material_occurrences(words, alias) ==
    {i \in positions(words, alias) : alias \in ShortWords => ShortAllowed(words, i)}

Occurrences(registry, words) ==
    UNION {UNION {{[rule |-> r, start |-> i, end |-> i + Len(a) - 1] :
                      i \in material_occurrences(words, a)} : a \in r.aliases} :
              r \in Active(registry.materials)}

Length(m) == m.end - m.start + 1

Overlap(l, m) == l.start <= m.end /\ m.start <= l.end

\* Faulty variant: the leftmost occurrence comes first, not the longest.
Precedes_Leftmost(l, m) ==
    \/ l.start < m.start
    \/ l.start = m.start /\ l.rule.id < m.rule.id

\* Longest first, then leftmost, then by rule id.
Precedes(l, m) ==
    \/ Length(l) > Length(m)
    \/ Length(l) = Length(m) /\ l.start < m.start
    \/ Length(l) = Length(m) /\ l.start = m.start /\ l.rule.id < m.rule.id

\* _material_matches: an occurrence is selected unless a selected one before it
\* occupies a word of it.
material_matches(registry, words) ==
    LET found == Occurrences(registry, words)
        selected[m \in found] ==
            ~\E l \in found : Precedes(l, m) /\ Overlap(l, m) /\ selected[l]
    IN  {m \in found : selected[m]}

\* _best_rule_match: the longest alias in the text, then the least rule id.
best_rule_match(words, rules) ==
    LET found == UNION {{[rule |-> r, length |-> Len(a)] :
                            a \in {b \in r.aliases : positions(words, b) # {}}} :
                           r \in Active(rules)}
        Better(k, l) == k.length > l.length \/ (k.length = l.length /\ k.rule.id < l.rule.id)
    IN  IF found = {} THEN NoRule
        ELSE (CHOOSE k \in found : \A l \in found : l.rule = k.rule \/ Better(k, l)).rule

-----------------------------------------------------------------------------
(* Identity: a base entity is the set of the entities it is made of; two   *)
(* or more are a composite, none is an unknown material.                   *)

Constituents(rule) == IF rule.constituents # {} THEN rule.constituents ELSE {rule.entity}

\* Several materials are a composite of their constituents, if these are at least
\* two; one rule gives its entity; several rules of one entity give none.
identity(registry, words) ==
    LET matches == material_matches(registry, words)
        rules == {m.rule : m \in matches}
        explicit == {m \in matches : m.rule.composite}
        parts == UNION {Constituents(r) : r \in rules}
        deciding == IF explicit # {} THEN explicit
                    ELSE IF Cardinality(rules) = 1 THEN matches ELSE {}
        rule == (CHOOSE m \in deciding : \A l \in deciding : m.start <= l.start).rule
    IN  IF (explicit # {} \/ Cardinality(rules) > 1) /\ Cardinality(parts) >= 2
        THEN [base |-> parts, family |-> "composite",
              product |-> IF explicit # {} THEN rule.product ELSE NoEntity]
        ELSE IF deciding # {}
        THEN [base |-> {rule.entity}, product |-> rule.product, family |-> rule.family]
        ELSE [base |-> {}, product |-> NoEntity, family |-> NoEntity]

-----------------------------------------------------------------------------
(* Numbers: every number is classified before one of them is bound as the  *)
(* purity grade of the entity.                                             *)

GradeLike == {70, 80, 90}

\* _grade_schemas_for
grade_schemas_for(registry, base) ==
    {s \in Active(registry.schemas) : \E e \in s.entities : base = {e}}

\* Negative contexts are taken out first.
Free(numbers, context) ==
    {n \in numbers : context \in n.contexts /\ "negative" \notin n.contexts}

First(numbers) == {n \in numbers : \A m \in numbers : n.at <= m.at}

Percentage(n) == 0 < n.value /\ n.value <= 100

Grade(n, basis) == [value |-> n.value, basis |-> basis]

\* The schemas that bind a number without a prefix.
bare_schemas(registry, base) == {s \in grade_schemas_for(registry, base) : s.prefixes = {}}

\* The first percentage, of the component it names or of the only bare schema.
explicit(registry, numbers, base) ==
    LET bare == bare_schemas(registry, base)
        bases(n) == IF n.component # NoEntity THEN {n.component}
                    ELSE IF Cardinality(bare) = 1 THEN {s.basis : s \in bare} ELSE {}
    IN  UNION {{Grade(n, c) : c \in bases(n)} :
                  n \in {k \in First(Free(numbers, "percent")) : Percentage(k)}}

\* The first formula that is followed by a value.
formula_grade(numbers) ==
    {Grade(n, n.component) : n \in {k \in First(Free(numbers, "formula")) : Percentage(k)}}

\* The registered prefixes: the first schema, by priority and then by id, whose first
\* prefixed number is a label of it.
prefixed_grade(registry, numbers, base) ==
    LET Prefixed(x) == First({k \in Free(numbers, "prefixed") : k.prefix = x})
        Labelled(s) == {n \in UNION {Prefixed(x) : x \in s.prefixes} : n.value \in s.labels}
        matching == {s \in grade_schemas_for(registry, base) : Labelled(s) # {}}
        Ahead(s, t) == s.priority > t.priority \/ (s.priority = t.priority /\ s.id <= t.id)
    IN  UNION {{Grade(n, s.basis) : n \in First(Labelled(s))} :
                  s \in {t \in matching : \A q \in matching : Ahead(t, q)}}

\* The bare numbers that are a label of exactly one schema.
candidates(registry, numbers, base) ==
    {n \in Free(numbers, "bare") :
        Cardinality({s \in bare_schemas(registry, base) : n.value \in s.labels}) = 1}

standalone_grade(registry, numbers, base) ==
    IF Cardinality(candidates(registry, numbers, base)) # 1 THEN {}
    ELSE UNION {{Grade(n, s.basis) :
                     s \in {t \in bare_schemas(registry, base) : n.value \in t.labels}} :
                   n \in candidates(registry, numbers, base)}

\* The bare numbers that are like a grade but bound to none.
unresolved(registry, numbers, base) ==
    LET single == candidates(registry, numbers, base)
    IN  {n \in Free(numbers, "bare") \ single : n.value \in GradeLike}
        \cup (IF Cardinality(single) = 1 THEN {} ELSE single)

\* _parse_numeric_grade: a percentage is preferred to a formula with a value, that to
\* a registered prefix, and that to a bare number.
parse_numeric_grade(registry, numbers, base) ==
    LET percent == explicit(registry, numbers, base)
        formula == formula_grade(numbers)
        prefixed == prefixed_grade(registry, numbers, base)
        standalone == standalone_grade(registry, numbers, base)
        grades == IF percent # {} THEN percent
                  ELSE IF formula # {} THEN formula
                  ELSE IF prefixed # {} THEN prefixed ELSE standalone
    IN  [grade |-> IF grades = {} THEN NoGrade ELSE CHOOSE g \in grades : TRUE,
         unresolved |-> IF percent \cup formula \cup prefixed # {} THEN {}
                        ELSE unresolved(registry, numbers, base)]

\* A number of the name got a role: negative, bound as grade or unresolved.
has_numeric_tokens(registry, numbers, base) ==
    LET parsed == parse_numeric_grade(registry, numbers, base)
    IN  \/ \E n \in numbers : "negative" \in n.contexts
        \/ parsed.unresolved # {}
        \/ parsed.grade # NoGrade

\* "A structured composition field is stronger than a grade embedded in the name."
numeric_grade(registry, query, base) ==
    LET composition == parse_numeric_grade(registry, query.composition, base).grade
    IN  IF composition # NoGrade THEN composition
        ELSE parse_numeric_grade(registry, query.text.numbers, base).grade

-----------------------------------------------------------------------------
(* resolve: identity, qualifiers and retrieval intent.                     *)

\* A name's own words decide before the fields beside it.
Qualifier(name, field, rules) ==
    LET inName == best_rule_match(name, rules)
    IN  IF inName # NoRule THEN inName ELSE best_rule_match(field, rules)

Qualified(registry, query) ==
    \/ Qualifier(query.text.words, query.process, registry.processes) # NoRule
    \/ Qualifier(query.text.words, query.form, registry.forms) # NoRule
    \/ query.process # <<>> \/ query.form # <<>>
    \/ numeric_grade(registry, query, identity(registry, query.text.words).base) # NoGrade

\* Faulty variant: only process, form and a bound grade count as qualifiers.
has_request_qualifier_NoNumbers(registry, query) == Qualified(registry, query)

\* "Base aliases must not erase any request qualifier."
has_request_qualifier(registry, query) ==
    \/ Qualified(registry, query)
    \/ has_numeric_tokens(registry, query.text.numbers,
                          identity(registry, query.text.words).base)

\* The aliases of the selected rules, as texts.
registry_aliases(registry, words) ==
    {Text(a) : a \in UNION {m.rule.aliases : m \in material_matches(registry, words)}}

\* The products among which a related record may be.
allowed_product_entity_ids(id) ==
    IF id.base = {OpenFamily.entity} /\ id.family = OpenFamily.family /\ id.product = NoEntity
    THEN OpenFamily.products
    ELSE {id.product} \ {NoEntity}

\* RetrievalIntent of a query [text, process, form, composition].
retrieval_intent(registry, query) ==
    LET id == identity(registry, query.text.words)
    IN  [name |-> query.text,
         base |-> id.base,
         allowed |-> allowed_product_entity_ids(id),
         aliases |-> IF has_request_qualifier(registry, query) THEN {}
                     ELSE registry_aliases(registry, query.text.words) \ {query.text}]

\* enrich_source: what a catalogue record is indexed under.
enrich_source(registry, item) ==
    LET id == identity(registry, item.text.words)
    IN  [base |-> id.base, product |-> id.product,
         grade |-> numeric_grade(registry, item, id.base)]
=============================================================================

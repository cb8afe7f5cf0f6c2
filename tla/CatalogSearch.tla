---------------------------- MODULE CatalogSearch ----------------------------
(***************************************************************************)
(* HttpCatalogFactorRepository.search (adapters.py) with the policy bundle *)
(* (catalog_policy.py), the content digest (integrity.py) and the semantic *)
(* index (semantic_index.py), and beside it InMemoryFactorRepository.      *)
(*                                                                         *)
(* A search suspends only while the catalogue is fetched in a thread; then *)
(* the checks, the conversion, the cache and the query are one step.  The  *)
(* searches of a process share the cached index, and a deployment may      *)
(* exchange the policy bundle, the verifiers, the evaluation date and the  *)
(* registry of the repository between any two steps.                       *)
(*                                                                         *)
(* A digest is the value it covers: the digest of a catalogue is the set   *)
(* of its records, that of a bundle the bundle itself; registries are      *)
(* named by their digests.  The order of a response is in no digest, but   *)
(* labels skipped records and ranks those found: the index keeps it.       *)
(*                                                                         *)
(* One field stands for those a dataset policy may supply (indicator,      *)
(* boundary, modules, geography, year).                                    *)
(***************************************************************************)
EXTENDS MaterialRegistry, Functions

CONSTANTS Payloads,       \* what the endpoint may serve
          Configs,        \* settings of the repository
          Registries,     \* the registries, by their digest
          Queries,        \* requests: [text, process, form, composition]
          MemoryContents, \* the lists that an in-memory repository may hold
          Searches,       \* concurrent searches
          NoId, NoBundle, NoDate, NoPolicy, NoManifest, NoValue, NoCache, NoIntent, NoAnswer

\* Rules of processes or of forms.
SoundNames(rules) ==
    /\ NoRule \notin rules
    /\ \A r, t \in rules :
          r.id \in Nat /\ r.aliases \subseteq Seq(STRING) /\ (r.id = t.id => r = t)

\* Texts are words.  A registry's rules are told apart by their ids, and only the rule of a
\* composite lists what it is made of, more than one material.
ASSUME RegistryAssumption ==
    /\ \A q \in Queries : q.text.words \in Seq(STRING)
    /\ \A p \in Payloads : \A i \in DOMAIN p.records : p.records[i].text.words \in Seq(STRING)
    /\ \A m \in MemoryContents : \A i \in DOMAIN m : m[i].text.words \in Seq(STRING)
    /\ \A c \in Configs : /\ SoundRules(Registries[c.registry].materials)
                           /\ SoundNames(Registries[c.registry].processes)
                           /\ SoundNames(Registries[c.registry].forms)

VARIABLES config,   \* settings of the repository
          cache,    \* _cached_index_key, _cached_index and the conversion diagnostics
          memory,   \* the list of the in-memory repository, now and when it was anchored
          intent,   \* per search: the intent it is asked with, NoIntent when idle
          answer    \* what the search that the last step ended was given, if it ended one

vars == <<config, cache, memory, intent, answer>>

Statuses == {"not_configured", "unsigned", "unverified", "verified"}

-----------------------------------------------------------------------------
(* Content and policy.                                                     *)

\* canonical_catalog_records accepts a record set: known fields only, every record
\* with an identity (record_id, source_id or code), no identity twice.
Canonical(records) ==
    /\ \A i \in DOMAIN records : records[i].known /\ records[i].identity # NoId
    /\ \A i, j \in DOMAIN records : records[i].identity = records[j].identity => i = j

\* catalog_content_sha256: the order of the records does not matter.
catalog_content_sha256(records) == Range(records)

\* require_effective_on
Effective(bundle, date) ==
    date # NoDate /\ bundle.effective_from <= date /\ date <= bundle.effective_until

\* CatalogPolicyBundle.signature_status; "invalid" raises.
signature_status(bundle, verifier) ==
    IF bundle.signature = "none" THEN "unsigned"
    ELSE IF ~verifier THEN "unverified"
    ELSE IF bundle.signature = "good" THEN "verified"
    ELSE "invalid"

authorizes_production_approval(bundle) == \E p \in bundle.policies : p.approval # NoId

\* Faulty variant: an approving bundle need not be verified.
PolicyRefusal_AnySignature(c, content) ==
    LET bundle == c.bundle
    IN  IF bundle = NoBundle THEN "none"
        ELSE IF ~Effective(bundle, c.effective_on) THEN "not_effective"
        ELSE IF bundle.approved # content THEN "policy_content"
        ELSE IF signature_status(bundle, c.policy_verifier) = "invalid" THEN "policy_signature"
        ELSE "none"

\* Why the policy bundle of the repository refuses a content.
PolicyRefusal(c, content) ==
    LET bundle == c.bundle
        status == signature_status(bundle, c.policy_verifier)
    IN  IF bundle = NoBundle THEN "none"
        ELSE IF ~Effective(bundle, c.effective_on) THEN "not_effective"
        ELSE IF bundle.approved # content THEN "policy_content"
        ELSE IF status = "invalid" THEN "policy_signature"
        ELSE IF authorizes_production_approval(bundle) /\ status # "verified"
        THEN "policy_unverified"
        ELSE "none"

\* Why the manifest of a payload is refused; none is a legacy catalogue.
ManifestRefusal(c, m, content) ==
    IF m = NoManifest THEN "none"
    ELSE IF m.declared # content THEN "declared_digest"
    ELSE IF m.publisher = NoId THEN "publisher"
    ELSE IF m.signature # "none" /\ ~c.verifier THEN "no_verifier"
    ELSE IF m.signature = "bad" THEN "publisher_signature"
    ELSE "none"

\* The checks of search() in their order.
Refusal(c, p) ==
    IF ~p.wellformed \/ ~Canonical(p.records) THEN "malformed"
    ELSE LET content == catalog_content_sha256(p.records)
             policy == PolicyRefusal(c, content)
             manifest == ManifestRefusal(c, p.manifest, content)
         IN  IF policy # "none" THEN policy
             ELSE IF manifest # "none" THEN manifest
             ELSE IF c.expected # NoValue /\ p.database # c.expected THEN "database_digest"
             ELSE "none"

\* DatabaseVersionAnchor
anchor(p) ==
    [version |-> p.version, database |-> p.database,
     content |-> catalog_content_sha256(p.records),
     publisher |-> IF p.manifest = NoManifest THEN NoId ELSE p.manifest.publisher,
     verified |-> p.manifest # NoManifest /\ p.manifest.signature = "good"]

\* DatabaseVersionAnchor.identity
identity_of(a) == IF a.database # NoValue THEN a.database ELSE a.version

\* The policy a conversion applies, with the audit fields of its bundle.
PolicyOf(c) ==
    IF c.bundle = NoBundle THEN NoPolicy
    ELSE [bundle |-> c.bundle, effective_on |-> c.effective_on,
          status |-> signature_status(c.bundle, c.policy_verifier)]

\* Faulty variant: the key forgets the signature status.
cache_key_NoStatus(c, p) ==
    [catalogue |-> identity_of(anchor(p)), registry |-> c.registry,
     policy |-> IF c.bundle = NoBundle THEN NoPolicy
                ELSE [bundle |-> c.bundle, effective_on |-> c.effective_on, status |-> "unsigned"],
     content |-> catalog_content_sha256(p.records)]

\* The key of the cached index.
cache_key(c, p) ==
    [catalogue |-> identity_of(anchor(p)), registry |-> c.registry,
     policy |-> PolicyOf(c), content |-> catalog_content_sha256(p.records)]

-----------------------------------------------------------------------------
(* Conversion of a catalogue record under a policy.                        *)

\* CatalogDatasetPolicy.applies; its digest is the bundle's, which was compared.
applies(p, item) == p.categories = {} \/ item.category \in p.categories

applied_policies(policy, item) ==
    IF policy = NoPolicy THEN {} ELSE {p \in policy.bundle.policies : applies(p, item)}

\* The values that the policies supply for a field the record leaves open.
Supplied(policy, item) == {p.field : p \in applied_policies(policy, item)} \ {NoValue}

inherited(policy, item) ==
    IF item.field # NoValue \/ Supplied(policy, item) = {} THEN item.field
    ELSE CHOOSE v \in Supplied(policy, item) : TRUE

approved_dataset_ids(policy, item) ==
    {p.approval : p \in applied_policies(policy, item)} \ {NoId}

\* inferred_source_priority_rank: the least of the policies applied, else the rank of
\* the edition of ecoinvent that the record names.
inferred_rank(policy, item) ==
    LET ranks == {p.rank : p \in applied_policies(policy, item)}
    IN  IF ranks # {} THEN CHOOSE r \in ranks : \A q \in ranks : r <= q
        ELSE IF item.edition = "3.10" THEN 10
        ELSE IF item.edition = "3.12" THEN 20
        ELSE 100

\* The record's own rank if it is in range.
source_priority_rank(policy, item) ==
    IF item.rank \in 0..1000 THEN item.rank ELSE inferred_rank(policy, item)

\* Why a record is not converted.  Policies that disagree on an open field, and a
\* record known by its source_id only, fail alone; the catalogue stays usable.
ConversionReason(policy, item) ==
    IF item.defect # "none" THEN item.defect
    ELSE IF item.id = NoId THEN "adapter_returned_none"
    ELSE IF item.field = NoValue /\ \E v, w \in Supplied(policy, item) : v # w
    THEN "record_validation_failed"
    ELSE "none"

\* _to_source_record and enrich_source.  A draft is capped to reference use unless a
\* policy approves its dataset.
to_source_record(policy, registry, item) ==
    [id |-> item.id, text |-> item.text, aliases |-> item.aliases,
     field |-> inherited(policy, item),
     rank |-> source_priority_rank(policy, item),
     approvals |-> approved_dataset_ids(policy, item),
     draft |-> item.draft,
     capped |-> item.draft /\ approved_dataset_ids(policy, item) = {},
     entity |-> enrich_source(Registries[registry], item)]

Sources(content, policy, registry) ==
    {to_source_record(policy, registry, item) :
        item \in {i \in content : ConversionReason(policy, i) = "none"}}

\* A record is labelled by its id, and by its position in the response if it has none.
conversion_diagnostics(records, policy) ==
    [n \in DOMAIN records |->
        [id |-> records[n].id, position |-> IF records[n].id = NoId THEN n ELSE 0,
         reason |-> ConversionReason(policy, records[n])]]

\* SemanticFactorIndex refuses two different records with one source id.
Conflicting(sources) == \E r, s \in sources : r.id = s.id /\ r # s

-----------------------------------------------------------------------------
(* SemanticFactorIndex.query                                               *)

exact(sources, i) == {r \in sources : r.text = i.name}

synonym(sources, i) ==
    {r \in sources \ exact(sources, i) :
        i.name \in r.aliases \/ r.text \in i.aliases \/ i.aliases \cap r.aliases # {}}

related(sources, i) ==
    {r \in sources \ (exact(sources, i) \cup synonym(sources, i)) :
        /\ i.base # {} /\ r.entity.base = i.base
        /\ i.allowed = {} \/ r.entity.product \in i.allowed}

query(sources, i) ==
    [exact |-> exact(sources, i), synonym |-> synonym(sources, i),
     related |-> related(sources, i)]

\* Where a record of the index comes first among the records it was built from.
Place(records, policy, r) ==
    LET places == {n \in DOMAIN records :
                      records[n].id = r.id /\ ConversionReason(policy, records[n]) = "none"}
    IN  CHOOSE n \in places : \A m \in places : n <= m

\* The rank of a record in the answer, which its rrf_score tells: exact matches come first,
\* then synonyms, then related records, each in the order of the index.
ranks(records, policy, hits) ==
    LET found == hits.exact \cup hits.synonym \cup hits.related
        channel(r) == IF r \in hits.exact THEN 1 ELSE IF r \in hits.synonym THEN 2 ELSE 3
        Ahead(r, t) ==
            \/ channel(r) < channel(t)
            \/ /\ channel(r) = channel(t)
               /\ Place(records, policy, r) < Place(records, policy, t)
    IN  [r \in found |-> 1 + Cardinality({t \in found : Ahead(t, r)})]

-----------------------------------------------------------------------------
(* The repository.                                                         *)

Refuse(reason) == answer' = [outcome |-> "refused", reason |-> reason]

Configure(c) ==
    /\ c # config
    /\ config' = c /\ answer' = NoAnswer
    /\ UNCHANGED <<cache, memory, intent>>

\* The request is resolved with the registry and the search begins.
Search(s, q) ==
    /\ intent[s] = NoIntent
    /\ IF config.dataset_policies
       THEN Refuse("dataset_policies") /\ UNCHANGED intent
       ELSE /\ intent' = [intent EXCEPT ![s] = retrieval_intent(Registries[config.registry], q)]
            /\ answer' = NoAnswer
    /\ UNCHANGED <<config, cache, memory>>

\* _fetch fails: a timeout, or no JSON object.
FetchFails(s) ==
    /\ intent[s] # NoIntent
    /\ Refuse("fetch")
    /\ intent' = [intent EXCEPT ![s] = NoIntent]
    /\ UNCHANGED <<config, cache, memory>>

\* The index as it is built from a payload.
Built(c, p) ==
    [key |-> cache_key(c, p),
     sources |-> Sources(catalog_content_sha256(p.records), PolicyOf(c), c.registry),
     order |-> p.records,
     diagnostics |-> conversion_diagnostics(p.records, PolicyOf(c)),
     policy |-> PolicyOf(c), anchor |-> anchor(p)]

\* What a search finds in the index.  The records carry the policy and the anchor
\* they were converted with; the answer names the anchor of its own payload.  Ranks and
\* diagnostics follow the response from which the index was built.
Found(index, i, own) ==
    [outcome |-> "answered", hits |-> query(index.sources, i),
     ranks |-> ranks(index.order, index.policy, query(index.sources, i)),
     diagnostics |-> index.diagnostics, policy |-> index.policy,
     registry |-> index.key.registry, converted_from |-> index.anchor, anchor |-> own]

Current(c, p) == cache # NoCache /\ cache.key = cache_key(c, p)

\* Faulty variant: the key is stored before the index is built.
FailToBuild_KeyFirst(c, p) ==
    cache' = IF cache = NoCache THEN NoCache ELSE [cache EXCEPT !.key = cache_key(c, p)]

\* An index that cannot be built leaves the cached one in place.
FailToBuild(c, p) == UNCHANGED cache

\* The catalogue was fetched: check it, convert it unless the cached index is
\* current, and query.
Answer(s, p) ==
    /\ intent[s] # NoIntent
    /\ intent' = [intent EXCEPT ![s] = NoIntent]
    /\ LET refusal == Refusal(config, p)
           built == Built(config, p)
       IN  \/ /\ refusal # "none"
              /\ Refuse(refusal) /\ UNCHANGED cache
           \/ /\ refusal = "none" /\ Current(config, p)
              /\ answer' = Found(cache, intent[s], anchor(p))
              /\ UNCHANGED cache
           \/ /\ refusal = "none" /\ ~Current(config, p) /\ Conflicting(built.sources)
              /\ Refuse("duplicate_source_id") /\ FailToBuild(config, p)
           \/ /\ refusal = "none" /\ ~Current(config, p) /\ ~Conflicting(built.sources)
              /\ cache' = built
              /\ answer' = Found(built, intent[s], anchor(p))
    /\ UNCHANGED <<config, memory>>

-----------------------------------------------------------------------------
(* InMemoryFactorRepository: the index is built by every search, after the *)
(* records, which need no conversion, have been compared with the anchored *)
(* digest.                                                                 *)

\* The caller changes or reorders the list.
ChangeList(records) ==
    /\ records # memory.records
    /\ memory' = [memory EXCEPT !.records = records] /\ answer' = NoAnswer
    /\ UNCHANGED <<config, cache, intent>>

\* _content_digest sorts by source_id, stably: the list holds the records it was anchored
\* with, and those of one id in the same order.
MemoryIntact ==
    \E moved \in Bijection(DOMAIN memory.records, DOMAIN memory.anchored) :
        /\ \A n \in DOMAIN memory.records : memory.records[n] = memory.anchored[moved[n]]
        /\ \A n, k \in DOMAIN memory.records :
              n < k /\ memory.records[n].id = memory.records[k].id => moved[n] < moved[k]

SearchMemory(q) ==
    LET sources == Sources(Range(memory.records), NoPolicy, config.registry)
        found == query(sources, retrieval_intent(Registries[config.registry], q))
        own == [version |-> NoValue, database |-> NoValue, content |-> Range(memory.anchored),
                publisher |-> NoId, verified |-> FALSE]
    IN  /\ IF ~MemoryIntact THEN Refuse("memory_digest")
           ELSE IF Conflicting(sources) THEN Refuse("duplicate_source_id")
           ELSE answer' = [outcome |-> "answered", hits |-> found,
                           ranks |-> ranks(memory.records, NoPolicy, found),
                           diagnostics |-> <<>>, policy |-> NoPolicy,
                           registry |-> config.registry, converted_from |-> own, anchor |-> own]
        /\ UNCHANGED <<config, cache, memory, intent>>

Init ==
    /\ config \in Configs
    /\ cache = NoCache
    /\ \E records \in MemoryContents : memory = [records |-> records, anchored |-> records]
    /\ intent = [s \in Searches |-> NoIntent]
    /\ answer = NoAnswer

Next ==
    \/ \E c \in Configs : Configure(c)
    \/ \E s \in Searches :
          \/ \E q \in Queries : Search(s, q)
          \/ \E p \in Payloads : Answer(s, p)
          \/ FetchFails(s)
    \/ \E records \in MemoryContents : ChangeList(records)
    \/ \E q \in Queries : SearchMemory(q)

Spec == Init /\ [][Next]_vars

-----------------------------------------------------------------------------
(* Properties.                                                             *)

Answered == answer # NoAnswer /\ answer.outcome = "answered"

Hits == answer.hits.exact \cup answer.hits.synonym \cup answer.hits.related

\* Types, and the index: no two of its records share a source id
\* (SemanticFactorIndex.__post_init__).
TypeOK ==
    /\ config \in Configs
    /\ cache # NoCache => \A r, s \in cache.sources : r.id = s.id => r = s
    /\ memory \in [records : MemoryContents, anchored : MemoryContents]
    /\ DOMAIN intent = Searches
    /\ answer = NoAnswer \/ answer.outcome \in {"answered", "refused"}

\* The cached index is whole: whatever searches failed, were refused or met another
\* configuration in between, its records are those of the content, policy and registry
\* that its key names, and its diagnostics and their labels are those of one and the same
\* response with that content (adapters.py 325-381).
CacheIsWhole ==
    cache # NoCache =>
        /\ cache.policy = cache.key.policy
        /\ cache.sources = Sources(cache.key.content, cache.key.policy, cache.key.registry)
        /\ \E p \in Payloads : cache.order = p.records
        /\ catalog_content_sha256(cache.order) = cache.key.content
        /\ cache.diagnostics = conversion_diagnostics(cache.order, cache.key.policy)

Ends(s) == intent[s] # NoIntent /\ intent'[s] = NoIntent /\ answer'.outcome = "answered"

\* The cache is transparent up to the order of records: a search that ends finds, as
\* exact, synonymous and related, the records that a new repository would find in the
\* catalogue it has just fetched, under the policy, the signature status, the date and the
\* registry in force now, whatever other searches have left in the cache (cache_key in
\* search()).  Its ranks and diagnostics, of which those of records without an id are
\* labelled by position, are together what a new repository gives for a response of the
\* fetched content, if not always for the one just fetched: no digest covers the order
\* (canonical_catalog_records), so it may be that of an earlier response.
CacheIsTransparent ==
    [][\A s \in Searches : Ends(s) =>
          LET content == answer'.anchor.content
              policy == PolicyOf(config)
          IN  /\ answer'.hits = query(Sources(content, policy, config.registry), intent[s])
              /\ answer'.policy = policy
              /\ \E p \in Payloads :
                    /\ catalog_content_sha256(p.records) = content
                    /\ answer'.ranks = ranks(p.records, policy, answer'.hits)
                    /\ answer'.diagnostics = conversion_diagnostics(p.records, policy)]_vars

\* Every record of an answer stands in the content whose digest the answer is
\* anchored to, also when the list of an in-memory repository is changed behind its
\* anchor; and two records never claim one id (CatalogIntegrityError).
AnswerIsAnchored ==
    Answered =>
        /\ \A r \in Hits : \E item \in answer.anchor.content :
              item.id = r.id /\ item.text = r.text
        /\ \A r, t \in Hits : r.id = t.id => r = t

\* A dataset approval, which lifts the reference-only cap of a draft, reaches a
\* record only from a bundle that is signed and verified, in effect on the audited
\* date and approved for exactly the answered content (catalog_policy.py; search()
\* "production approval policy requires a verified bundle signature").
ApprovalIsEarned ==
    Answered => \A r \in Hits :
        /\ r.approvals # {} =>
              /\ answer.policy # NoPolicy
              /\ answer.policy.status = "verified"
              /\ answer.policy.bundle.approved = answer.anchor.content
              /\ Effective(answer.policy.bundle, answer.policy.effective_on)
        /\ r.draft /\ ~r.capped => r.approvals # {}

\* A policy supplies only what a record leaves open, and only where the policies
\* that apply to it agree (inherited in _to_source_record).
PolicyOnlyFillsGaps ==
    Answered => \A r \in Hits : \E item \in answer.anchor.content :
        /\ item.id = r.id /\ item.text = r.text
        /\ item.field # NoValue => r.field = item.field
        /\ r.field # item.field =>
              \A p \in applied_policies(answer.policy, item) : p.field \in {NoValue, r.field}

\* The longest mention wins: selected mentions of materials do not overlap, and one
\* that is passed over gives way to one that is at least as long
\* (_material_matches): "aluminium oxide" is not aluminium.
LongestMentionWins ==
    \A s \in Searches : intent[s] # NoIntent =>
        LET words == intent[s].name.words
            found == Occurrences(Registries[config.registry], words)
            selected == material_matches(Registries[config.registry], words)
        IN  /\ \A l, m \in selected : Overlap(l, m) => l = m
            /\ \A m \in found \ selected :
                  \E l \in selected : Overlap(l, m) /\ Length(l) >= Length(m)

\* The requests as each registry of the repository resolves them.
Resolutions ==
    {[registry |-> Registries[c.registry], query |-> q,
      intent |-> retrieval_intent(Registries[c.registry], q)] : c \in Configs, q \in Queries}

\* No active rule is mentioned.
MentionsNone(words, rules) == \A r \in Active(rules) : \A a \in r.aliases : positions(words, a) = {}

\* A request that says nothing but which material it is about.
Unqualified(registry, q) ==
    LET base == identity(registry, q.text.words).base
        named == parse_numeric_grade(registry, q.text.numbers, base)
    IN  /\ q.process = <<>> /\ MentionsNone(q.text.words, registry.processes)
        /\ q.form = <<>> /\ MentionsNone(q.text.words, registry.forms)
        /\ \A n \in q.text.numbers : "negative" \notin n.contexts
        /\ named.grade = NoGrade /\ named.unresolved = {}
        /\ parse_numeric_grade(registry, q.composition, base).grade = NoGrade

\* The registry's aliases do not erase a qualifier: where the name of a request mentions a
\* process or a form, has a number that is classified away, bound as a grade or left
\* unresolved, or where the request has a process, a form or a grade in its own fields, a
\* record is its synonym only if the catalogue itself lists the requested name (resolve(),
\* has_request_qualifier: "Base aliases must not erase any request qualifier").  Whatever
\* request and registry of the repository have led to the intent that was searched with.
QualifiersAreKept ==
    [][\A s \in Searches : Ends(s) =>
          /\ \E a \in Resolutions : a.intent = intent[s]
          /\ \A r \in answer'.hits.synonym :
                \/ intent[s].name \in r.aliases
                \/ \A a \in Resolutions :
                      a.intent = intent[s] => Unqualified(a.registry, a.query)]_vars

Parts(r) ==
    UNION {Constituents(m.rule) : m \in material_matches(Registries[answer.registry], r.text.words)}

\* What is recalled as related is one material: all such records name the same
\* entities, so a composite is never mixed with one of its constituents, nor an
\* unresolved request with anything (resolve(), SemanticFactorIndex.query).
RelatedIsOneMaterial ==
    Answered => \A r, t \in answer.hits.related : Parts(r) = Parts(t) /\ Parts(r) # {}

\* The index and what is answered from it: the index is what its key names, its records
\* have ids of their own, and every record of an answer stands in the anchored content
\* (search(), SemanticFactorIndex.__post_init__, InMemoryFactorRepository.search).
IndexIsSound == TypeOK /\ CacheIsWhole /\ AnswerIsAnchored

\* What a policy does to an answer: it approves only what it has earned to approve and
\* fills only what a record leaves open (catalog_policy.py, _to_source_record).
PolicyIsObeyed == ApprovalIsEarned /\ PolicyOnlyFillsGaps

\* A name stands for the longest mention in it, and what is recalled as related for one
\* material (_material_matches, SemanticFactorIndex.query).
NamesAreResolved == LongestMentionWins /\ RelatedIsOneMaterial

\* docs/CFR_CATALOG_LOCK_INTEGRITY_V3.md 34-37: publisher identity becomes verified
\* only when a signature is present and accepted.  A record that says its publisher
\* is verified comes with a catalogue whose publisher was.
VerifiedPublisherIsOwn ==
    Answered /\ Hits # {} => (answer.converted_from.verified => answer.anchor.verified)
=============================================================================

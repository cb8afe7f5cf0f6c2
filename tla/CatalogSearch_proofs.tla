------------------------ MODULE CatalogSearch_proofs --------------------------
(***************************************************************************)
(* For every set of payloads, configurations, registries and queries and   *)
(* any number of concurrent searches: the cached index is always whole,    *)
(* which makes the cache transparent; and the approvals of an answer are   *)
(* earned.  The argument: everything a search reads off the index is a     *)
(* function of the key, and a key is current only for a payload that has   *)
(* passed the checks under the policy that the key names.                  *)
(*                                                                         *)
(* And names stand for their longest mentions: the recursion that selects  *)
(* them has a solution, since a finite set of mentions has a last one, and *)
(* what a text is resolved to are the constituents of what it mentions.    *)
(***************************************************************************)
EXTENDS CatalogSearch, FiniteSetTheorems, WellFoundedInduction, TLAPS

\* intent is a function on Searches.
IntentIsFunction == intent = [s \in Searches |-> intent[s]]

\* The bundle is in effect, is approved for the content, and is verified if it approves
\* any dataset.
Accepted(policy, content) ==
    policy # NoPolicy =>
        /\ Effective(policy.bundle, policy.effective_on)
        /\ policy.bundle.approved = content
        /\ authorizes_production_approval(policy.bundle) => policy.status = "verified"

\* No two records of the index share an id.
CacheIsUnambiguous == cache # NoCache => ~Conflicting(cache.sources)

CacheInv == IntentIsFunction /\ CacheIsWhole /\ CacheIsUnambiguous

\* A payload that search() does not refuse is accepted by the policy in force.
LEMMA RefusalGuards ==
    ASSUME NEW c, NEW p, Refusal(c, p) = "none"
    PROVE  Accepted(PolicyOf(c), catalog_content_sha256(p.records))
<1>1. PolicyRefusal(c, catalog_content_sha256(p.records)) = "none"
  BY DEF Refusal
<1>2. CASE c.bundle = NoBundle
  BY <1>2 DEF Accepted, PolicyOf
<1>3. CASE c.bundle # NoBundle
  <2>1. /\ Effective(c.bundle, c.effective_on)
        /\ c.bundle.approved = catalog_content_sha256(p.records)
        /\ authorizes_production_approval(c.bundle) =>
              signature_status(c.bundle, c.policy_verifier) = "verified"
    BY <1>1, <1>3 DEF PolicyRefusal
  <2>2. /\ PolicyOf(c).bundle = c.bundle
        /\ PolicyOf(c).effective_on = c.effective_on
        /\ PolicyOf(c).status = signature_status(c.bundle, c.policy_verifier)
    BY <1>3 DEF PolicyOf
  <2> QED BY <2>1, <2>2 DEF Accepted
<1> QED BY <1>2, <1>3

\* What the index built from a payload holds is a function of its key.
LEMMA BuiltIsWhole ==
    ASSUME NEW c, NEW p
    PROVE  /\ Built(c, p).key.policy = PolicyOf(c)
           /\ Built(c, p).key.registry = c.registry
           /\ Built(c, p).key.content = catalog_content_sha256(p.records)
           /\ Built(c, p).policy = PolicyOf(c)
           /\ Built(c, p).sources =
                 Sources(catalog_content_sha256(p.records), PolicyOf(c), c.registry)
           /\ Built(c, p).order = p.records
           /\ Built(c, p).diagnostics = conversion_diagnostics(p.records, PolicyOf(c))
BY DEF Built, cache_key

\* CacheInv holds initially and is preserved by every step.
LEMMA CacheInvInit == Init => CacheInv
BY DEF Init, CacheInv, IntentIsFunction, CacheIsWhole, CacheIsUnambiguous

\* No step changes what the key of the cached index says of it.
LEMMA CacheInvStep == CacheInv /\ [Next]_vars => CacheInv'
<1> SUFFICES ASSUME CacheInv, [Next]_vars PROVE CacheInv'
  OBVIOUS
<1> USE DEF CacheInv
<1>1. ASSUME UNCHANGED <<cache, intent>> PROVE CacheInv'
  BY <1>1 DEF IntentIsFunction, CacheIsWhole, CacheIsUnambiguous, Conflicting
<1>2. ASSUME NEW c \in Configs, Configure(c) PROVE CacheInv'
  BY <1>1, <1>2 DEF Configure
<1>3. ASSUME NEW s \in Searches, NEW q \in Queries, Search(s, q) PROVE CacheInv'
  <2>1. IntentIsFunction'
    BY <1>3 DEF Search, IntentIsFunction
  <2>2. cache' = cache
    BY <1>3 DEF Search
  <2> QED BY <2>1, <2>2 DEF CacheIsWhole, CacheIsUnambiguous, Conflicting
<1>4. ASSUME NEW s \in Searches, FetchFails(s) PROVE CacheInv'
  <2>1. IntentIsFunction'
    BY <1>4 DEF FetchFails, IntentIsFunction
  <2>2. cache' = cache
    BY <1>4 DEF FetchFails
  <2> QED BY <2>1, <2>2 DEF CacheIsWhole, CacheIsUnambiguous, Conflicting
<1>5. ASSUME NEW s \in Searches, NEW p \in Payloads, Answer(s, p) PROVE CacheInv'
  <2>1. IntentIsFunction'
    BY <1>5 DEF Answer, IntentIsFunction
  <2>2. CASE cache' = cache
    BY <2>1, <2>2 DEF CacheIsWhole, CacheIsUnambiguous, Conflicting
  <2>3. CASE cache' = Built(config, p) /\ ~Conflicting(Built(config, p).sources)
    <3>1. CacheIsWhole'
      BY <2>3, BuiltIsWhole DEF CacheIsWhole
    <3>2. CacheIsUnambiguous'
      BY <2>3 DEF CacheIsUnambiguous, Conflicting
    <3> QED BY <2>1, <3>1, <3>2
  <2> QED BY <1>5, <2>2, <2>3 DEF Answer, FailToBuild
<1>6. ASSUME NEW records \in MemoryContents, ChangeList(records) PROVE CacheInv'
  BY <1>1, <1>6 DEF ChangeList
<1>7. ASSUME NEW q \in Queries, SearchMemory(q) PROVE CacheInv'
  BY <1>1, <1>7 DEF SearchMemory
<1>8. CASE UNCHANGED vars
  BY <1>1, <1>8 DEF vars
<1> QED BY <1>2, <1>3, <1>4, <1>5, <1>6, <1>7, <1>8 DEF Next

\* So it holds in every state.
LEMMA CacheInvInvariant == Spec => []CacheInv
BY CacheInvInit, CacheInvStep, PTL DEF Spec

-----------------------------------------------------------------------------
\* The ranks and the diagnostics of an answer are those of a response of the content.
OfOneResponse(given, content, policy) ==
    \E p \in Payloads :
        /\ catalog_content_sha256(p.records) = content
        /\ given.ranks = ranks(p.records, policy, given.hits)
        /\ given.diagnostics = conversion_diagnostics(p.records, policy)

\* One search that ends: what it was given.
LEMMA AnswerStep ==
    ASSUME CacheInv, NEW s \in Searches, NEW p \in Payloads, Answer(s, p),
           answer'.outcome = "answered"
    PROVE  LET content == catalog_content_sha256(p.records)
           IN  /\ Refusal(config, p) = "none"
               /\ ~Conflicting(Sources(content, PolicyOf(config), config.registry))
               /\ answer'.anchor.content = content
               /\ answer'.hits = query(Sources(content, PolicyOf(config), config.registry), intent[s])
               /\ answer'.policy = PolicyOf(config)
               /\ answer'.registry = config.registry
               /\ OfOneResponse(answer', content, PolicyOf(config))
<1> DEFINE content == catalog_content_sha256(p.records)
<1>1. anchor(p).content = content
  BY DEF anchor
<1>2. CASE Refusal(config, p) # "none"
  BY <1>2 DEF Answer, Refuse
<1>3. CASE Refusal(config, p) = "none" /\ Current(config, p)
  <2>1. answer' = Found(cache, intent[s], anchor(p))
    BY <1>3 DEF Answer
  <2>2. /\ cache.key.policy = PolicyOf(config)
        /\ cache.key.content = content
        /\ cache.key.registry = config.registry
    BY <1>3 DEF Current, cache_key
  <2>3. /\ cache.sources = Sources(content, PolicyOf(config), config.registry)
        /\ cache.policy = PolicyOf(config)
        /\ ~Conflicting(cache.sources)
    BY <1>3, <2>2 DEF CacheInv, CacheIsWhole, CacheIsUnambiguous, Current
  <2>4. PICK b \in Payloads : /\ cache.order = b.records
                              /\ catalog_content_sha256(b.records) = content
                              /\ cache.diagnostics = conversion_diagnostics(b.records, PolicyOf(config))
    BY <1>3, <2>2 DEF CacheInv, CacheIsWhole, Current
  <2>5. OfOneResponse(answer', content, PolicyOf(config))
    BY <2>1, <2>3, <2>4 DEF Found, OfOneResponse
  <2> QED BY <1>1, <1>3, <2>1, <2>2, <2>3, <2>5 DEF Found
<1>4. CASE Refusal(config, p) = "none" /\ ~Current(config, p) /\ Conflicting(Built(config, p).sources)
  BY <1>4 DEF Answer, Refuse
<1>5. CASE Refusal(config, p) = "none" /\ ~Current(config, p) /\ ~Conflicting(Built(config, p).sources)
  <2>1. answer' = Found(Built(config, p), intent[s], anchor(p))
    BY <1>5 DEF Answer
  <2>2. OfOneResponse(answer', content, PolicyOf(config))
    BY <2>1, BuiltIsWhole DEF Found, OfOneResponse
  <2> QED BY <1>1, <1>5, <2>1, <2>2, BuiltIsWhole DEF Found
<1> QED BY <1>2, <1>3, <1>4, <1>5

\* A step that ends a search gives it what an empty cache would, up to the order.
LEMMA TransparentStep ==
    ASSUME CacheInv, [Next]_vars, NEW s \in Searches, Ends(s)
    PROVE  LET content == answer'.anchor.content
               policy == PolicyOf(config)
           IN  /\ answer'.hits = query(Sources(content, policy, config.registry), intent[s])
               /\ answer'.policy = policy
               /\ OfOneResponse(answer', content, policy)
<1>1. intent'[s] # intent[s] /\ answer'.outcome = "answered"
  BY DEF Ends
<1>2. PICK t \in Searches : (\E q \in Queries : Search(t, q)) \/ (\E p \in Payloads : Answer(t, p))
                            \/ FetchFails(t)
  BY <1>1 DEF Next, vars, Configure, ChangeList, SearchMemory
<1>3. ~FetchFails(t)
  BY <1>1 DEF FetchFails, Refuse
<1>4. ~\E q \in Queries : Search(t, q)
  BY DEF Search, Ends, CacheInv, IntentIsFunction
<1>5. PICK p \in Payloads : Answer(t, p)
  BY <1>2, <1>3, <1>4
<1>6. s = t
  BY <1>1, <1>5 DEF Answer, CacheInv, IntentIsFunction
<1> QED BY <1>1, <1>5, <1>6, AnswerStep

\* The cache is transparent up to the order of records: whatever the searches,
\* configurations and failures before it, a search finds the records that a repository with
\* an empty cache would find, with the ranks and the diagnostics that such a repository
\* gives for a response of the fetched content, in the order of that or of an earlier one
\* (search(), canonical_catalog_records).
THEOREM CacheTransparent == Spec => CacheIsTransparent
<1>1. CacheInv /\ [Next]_vars =>
        [\A s \in Searches : Ends(s) =>
          LET content == answer'.anchor.content
              policy == PolicyOf(config)
          IN  /\ answer'.hits = query(Sources(content, policy, config.registry), intent[s])
              /\ answer'.policy = policy
              /\ \E p \in Payloads :
                    /\ catalog_content_sha256(p.records) = content
                    /\ answer'.ranks = ranks(p.records, policy, answer'.hits)
                    /\ answer'.diagnostics = conversion_diagnostics(p.records, policy)]_vars
  BY TransparentStep DEF OfOneResponse
<1> QED BY CacheInvInvariant, <1>1, PTL DEF Spec, CacheIsTransparent

-----------------------------------------------------------------------------
\* An intact list holds the records it was anchored with.
LEMMA IntactList == MemoryIntact => Range(memory.records) = Range(memory.anchored)
<1> SUFFICES ASSUME MemoryIntact PROVE Range(memory.records) = Range(memory.anchored)
  OBVIOUS
<1>1. PICK moved \in Bijection(DOMAIN memory.records, DOMAIN memory.anchored) :
          \A n \in DOMAIN memory.records : memory.records[n] = memory.anchored[moved[n]]
  BY DEF MemoryIntact
<1>2. /\ \A n \in DOMAIN memory.records : moved[n] \in DOMAIN memory.anchored
      /\ \A k \in DOMAIN memory.anchored : \E n \in DOMAIN memory.records : moved[n] = k
  BY DEF Bijection, Injection, Surjection
<1> QED BY <1>1, <1>2 DEF Range

\* A record converted under a policy is approved by the policy's bundle only, and a
\* draft without approval is capped.
LEMMA ApprovalsComeFromTheBundle ==
    ASSUME NEW content, NEW policy, NEW registry, NEW r \in Sources(content, policy, registry)
    PROVE  /\ r.approvals # {} => policy # NoPolicy /\ authorizes_production_approval(policy.bundle)
           /\ r.draft /\ ~r.capped => r.approvals # {}
<1>1. PICK item : r = to_source_record(policy, registry, item)
  BY DEF Sources
<1>2. r.approvals = approved_dataset_ids(policy, item)
  BY <1>1 DEF to_source_record
<1>3. r.draft /\ ~r.capped => r.approvals # {}
  BY <1>1 DEF to_source_record
<1>4. ASSUME r.approvals # {}
      PROVE  policy # NoPolicy /\ authorizes_production_approval(policy.bundle)
  BY <1>2, <1>4 DEF approved_dataset_ids, applied_policies, authorizes_production_approval
<1> QED BY <1>3, <1>4

\* What a query returns are records of the index.
LEMMA QueryReturnsSources ==
    ASSUME NEW sources, NEW i
    PROVE  query(sources, i).exact \cup query(sources, i).synonym \cup query(sources, i).related
              \subseteq sources
BY DEF query, exact, synonym, related

\* An answer whose records were converted under an accepted policy has earned approvals.
LEMMA AcceptedIsEarned ==
    ASSUME NEW content, NEW policy, NEW registry, NEW i, Accepted(policy, content),
           answer'.hits = query(Sources(content, policy, registry), i),
           answer'.policy = policy, answer'.anchor.content = content
    PROVE  ApprovalIsEarned'
<1> SUFFICES ASSUME NEW r \in Hits'
             PROVE  /\ r.approvals # {} =>
                          /\ policy # NoPolicy
                          /\ policy.status = "verified"
                          /\ policy.bundle.approved = content
                          /\ Effective(policy.bundle, policy.effective_on)
                    /\ r.draft /\ ~r.capped => r.approvals # {}
  BY DEF ApprovalIsEarned
<1>1. r \in Sources(content, policy, registry)
  BY QueryReturnsSources DEF Hits
<1> QED BY <1>1, ApprovalsComeFromTheBundle DEF Accepted

\* Approvals stay earned.
LEMMA EarnedStep ==
    ASSUME CacheInv, ApprovalIsEarned, [Next]_vars
    PROVE  ApprovalIsEarned'
<1>1. ASSUME answer' = NoAnswer \/ answer'.outcome # "answered" PROVE ApprovalIsEarned'
  BY <1>1 DEF ApprovalIsEarned, Answered
<1>2. ASSUME NEW s \in Searches, NEW p \in Payloads, Answer(s, p) PROVE ApprovalIsEarned'
  <2>1. CASE answer'.outcome # "answered"
    BY <1>1, <2>1
  <2>2. CASE answer'.outcome = "answered"
    <3>1. Accepted(PolicyOf(config), catalog_content_sha256(p.records))
      BY <1>2, <2>2, AnswerStep, RefusalGuards
    <3> QED BY <1>2, <2>2, <3>1, AnswerStep, AcceptedIsEarned
  <2> QED BY <2>1, <2>2
<1>3. ASSUME NEW q \in Queries, SearchMemory(q) PROVE ApprovalIsEarned'
  <2>1. CASE answer'.outcome # "answered"
    BY <1>1, <2>1
  <2>2. CASE answer'.outcome = "answered"
    <3>1. /\ answer'.hits = query(Sources(Range(memory.records), NoPolicy, config.registry),
                                  retrieval_intent(Registries[config.registry], q))
          /\ answer'.policy = NoPolicy /\ answer'.anchor.content = Range(memory.records)
      BY <1>3, <2>2, IntactList DEF SearchMemory, Refuse
    <3>2. Accepted(NoPolicy, Range(memory.records))
      BY DEF Accepted
    <3> QED BY <3>1, <3>2, AcceptedIsEarned
  <2> QED BY <2>1, <2>2
<1>4. ASSUME NEW s \in Searches, NEW q \in Queries, Search(s, q) PROVE ApprovalIsEarned'
  BY <1>1, <1>4 DEF Search, Refuse
<1>5. ASSUME NEW s \in Searches, FetchFails(s) PROVE ApprovalIsEarned'
  BY <1>1, <1>5 DEF FetchFails, Refuse
<1>6. ASSUME NEW c \in Configs, Configure(c) PROVE ApprovalIsEarned'
  BY <1>1, <1>6 DEF Configure
<1>7. ASSUME NEW records \in MemoryContents, ChangeList(records) PROVE ApprovalIsEarned'
  BY <1>1, <1>7 DEF ChangeList
<1>8. CASE UNCHANGED vars
  BY <1>8 DEF vars, ApprovalIsEarned, Answered, Hits
<1> QED BY <1>2, <1>3, <1>4, <1>5, <1>6, <1>7, <1>8 DEF Next

-----------------------------------------------------------------------------
\* A record of the index stands for an item of the content.
LEMMA SourceHasItem ==
    ASSUME NEW content, NEW policy, NEW registry, NEW r \in Sources(content, policy, registry)
    PROVE  \E item \in content :
              /\ item.id = r.id /\ item.text = r.text
              /\ r.field = inherited(policy, item)
              /\ ConversionReason(policy, item) = "none"
<1>1. PICK item \in content : /\ r = to_source_record(policy, registry, item)
                              /\ ConversionReason(policy, item) = "none"
  BY DEF Sources
<1> QED BY <1>1 DEF to_source_record

\* Records of an index without conflicting ids are anchored.
LEMMA AnchoredAnswer ==
    ASSUME NEW content, NEW policy, NEW registry, NEW i,
           ~Conflicting(Sources(content, policy, registry)),
           answer'.hits = query(Sources(content, policy, registry), i),
           answer'.anchor.content = content
    PROVE  AnswerIsAnchored'
<1>1. Hits' \subseteq Sources(content, policy, registry)
  BY QueryReturnsSources DEF Hits
<1>2. ASSUME NEW r \in Hits'
      PROVE  \E item \in content : item.id = r.id /\ item.text = r.text
  BY <1>1, SourceHasItem
<1>3. ASSUME NEW r \in Hits', NEW t \in Hits', r.id = t.id PROVE r = t
  BY <1>1, <1>3 DEF Conflicting
<1> QED BY <1>2, <1>3 DEF AnswerIsAnchored

\* Answers stay anchored.
LEMMA AnchoredStep ==
    ASSUME CacheInv, AnswerIsAnchored, [Next]_vars
    PROVE  AnswerIsAnchored'
<1>1. ASSUME answer' = NoAnswer \/ answer'.outcome # "answered" PROVE AnswerIsAnchored'
  BY <1>1 DEF AnswerIsAnchored, Answered
<1>2. ASSUME NEW s \in Searches, NEW p \in Payloads, Answer(s, p) PROVE AnswerIsAnchored'
  <2>1. CASE answer'.outcome # "answered"
    BY <1>1, <2>1
  <2>2. CASE answer'.outcome = "answered"
    BY <1>2, <2>2, AnswerStep, AnchoredAnswer
  <2> QED BY <2>1, <2>2
<1>3. ASSUME NEW q \in Queries, SearchMemory(q) PROVE AnswerIsAnchored'
  <2>1. CASE answer'.outcome # "answered"
    BY <1>1, <2>1
  <2>2. CASE answer'.outcome = "answered"
    <3>1. /\ answer'.hits = query(Sources(Range(memory.records), NoPolicy, config.registry),
                                  retrieval_intent(Registries[config.registry], q))
          /\ ~Conflicting(Sources(Range(memory.records), NoPolicy, config.registry))
          /\ answer'.anchor.content = Range(memory.records)
      BY <1>3, <2>2, IntactList DEF SearchMemory, Refuse
    <3> QED BY <3>1, AnchoredAnswer
  <2> QED BY <2>1, <2>2
<1>4. ASSUME NEW s \in Searches, NEW q \in Queries, Search(s, q) PROVE AnswerIsAnchored'
  BY <1>1, <1>4 DEF Search, Refuse
<1>5. ASSUME NEW s \in Searches, FetchFails(s) PROVE AnswerIsAnchored'
  BY <1>1, <1>5 DEF FetchFails, Refuse
<1>6. ASSUME NEW c \in Configs, Configure(c) PROVE AnswerIsAnchored'
  BY <1>1, <1>6 DEF Configure
<1>7. ASSUME NEW records \in MemoryContents, ChangeList(records) PROVE AnswerIsAnchored'
  BY <1>1, <1>7 DEF ChangeList
<1>8. CASE UNCHANGED vars
  BY <1>8 DEF vars, AnswerIsAnchored, Answered, Hits
<1> QED BY <1>2, <1>3, <1>4, <1>5, <1>6, <1>7, <1>8 DEF Next

-----------------------------------------------------------------------------
\* The policies that apply to a converted record and supply anything supply one value, and
\* it is used where the record has none.
LEMMA InheritedAgrees ==
    ASSUME NEW policy, NEW item, ConversionReason(policy, item) = "none"
    PROVE  /\ item.field # NoValue => inherited(policy, item) = item.field
           /\ inherited(policy, item) # item.field =>
                 \A p \in applied_policies(policy, item) : p.field \in {NoValue, inherited(policy, item)}
<1>1. item.field # NoValue => inherited(policy, item) = item.field
  BY DEF inherited
<1>2. ASSUME inherited(policy, item) # item.field, NEW p \in applied_policies(policy, item),
             p.field # NoValue
      PROVE  p.field = inherited(policy, item)
  <2>1. item.field = NoValue /\ Supplied(policy, item) # {}
    BY <1>2 DEF inherited
  <2>2. inherited(policy, item) \in Supplied(policy, item)
    BY <2>1 DEF inherited
  <2>3. \A v, w \in Supplied(policy, item) : v = w
    BY <2>1 DEF ConversionReason
  <2>4. p.field \in Supplied(policy, item)
    BY <1>2 DEF Supplied
  <2> QED BY <2>2, <2>3, <2>4
<1> QED BY <1>1, <1>2

\* What a conversion inherits comes from policies that agree.
LEMMA FilledAnswer ==
    ASSUME NEW content, NEW policy, NEW registry, NEW i,
           answer'.hits = query(Sources(content, policy, registry), i),
           answer'.policy = policy, answer'.anchor.content = content
    PROVE  PolicyOnlyFillsGaps'
<1> SUFFICES ASSUME NEW r \in Hits'
             PROVE  \E item \in content :
                        /\ item.id = r.id /\ item.text = r.text
                        /\ item.field # NoValue => r.field = item.field
                        /\ r.field # item.field =>
                              \A p \in applied_policies(policy, item) : p.field \in {NoValue, r.field}
  BY DEF PolicyOnlyFillsGaps
<1>1. r \in Sources(content, policy, registry)
  BY QueryReturnsSources DEF Hits
<1>2. PICK item \in content :
          /\ item.id = r.id /\ item.text = r.text
          /\ r.field = inherited(policy, item)
          /\ ConversionReason(policy, item) = "none"
  BY <1>1, SourceHasItem
<1> QED BY <1>2, InheritedAgrees

\* Policies go on filling only what is open.
LEMMA FillsStep ==
    ASSUME CacheInv, PolicyOnlyFillsGaps, [Next]_vars
    PROVE  PolicyOnlyFillsGaps'
<1>1. ASSUME answer' = NoAnswer \/ answer'.outcome # "answered" PROVE PolicyOnlyFillsGaps'
  BY <1>1 DEF PolicyOnlyFillsGaps, Answered
<1>2. ASSUME NEW s \in Searches, NEW p \in Payloads, Answer(s, p) PROVE PolicyOnlyFillsGaps'
  <2>1. CASE answer'.outcome # "answered"
    BY <1>1, <2>1
  <2>2. CASE answer'.outcome = "answered"
    BY <1>2, <2>2, AnswerStep, FilledAnswer
  <2> QED BY <2>1, <2>2
<1>3. ASSUME NEW q \in Queries, SearchMemory(q) PROVE PolicyOnlyFillsGaps'
  <2>1. CASE answer'.outcome # "answered"
    BY <1>1, <2>1
  <2>2. CASE answer'.outcome = "answered"
    <3>1. /\ answer'.hits = query(Sources(Range(memory.records), NoPolicy, config.registry),
                                  retrieval_intent(Registries[config.registry], q))
          /\ answer'.policy = NoPolicy /\ answer'.anchor.content = Range(memory.records)
      BY <1>3, <2>2, IntactList DEF SearchMemory, Refuse
    <3> QED BY <3>1, FilledAnswer
  <2> QED BY <2>1, <2>2
<1>4. ASSUME NEW s \in Searches, NEW q \in Queries, Search(s, q) PROVE PolicyOnlyFillsGaps'
  BY <1>1, <1>4 DEF Search, Refuse
<1>5. ASSUME NEW s \in Searches, FetchFails(s) PROVE PolicyOnlyFillsGaps'
  BY <1>1, <1>5 DEF FetchFails, Refuse
<1>6. ASSUME NEW c \in Configs, Configure(c) PROVE PolicyOnlyFillsGaps'
  BY <1>1, <1>6 DEF Configure
<1>7. ASSUME NEW records \in MemoryContents, ChangeList(records) PROVE PolicyOnlyFillsGaps'
  BY <1>1, <1>7 DEF ChangeList
<1>8. CASE UNCHANGED vars
  BY <1>8 DEF vars, PolicyOnlyFillsGaps, Answered, Hits
<1> QED BY <1>2, <1>3, <1>4, <1>5, <1>6, <1>7, <1>8 DEF Next

-----------------------------------------------------------------------------
(* Types.                                                                  *)

\* No step leaves the types.
LEMMA TypeStep ==
    ASSUME CacheInv, TypeOK, [Next]_vars
    PROVE  TypeOK'
<1>1. \/ answer' = NoAnswer \/ answer' = answer
      \/ answer'.outcome = "answered" \/ answer'.outcome = "refused"
  BY DEF Next, vars, Configure, Search, FetchFails, Answer, ChangeList, SearchMemory, Refuse, Found
<1>2. answer' = NoAnswer \/ answer'.outcome \in {"answered", "refused"}
  BY <1>1 DEF TypeOK
<1>3. config' \in Configs
  BY DEF TypeOK, Next, vars, Configure, Search, FetchFails, Answer, ChangeList, SearchMemory
<1>4. memory' \in [records : MemoryContents, anchored : MemoryContents]
  BY DEF TypeOK, Next, vars, Configure, Search, FetchFails, Answer, ChangeList, SearchMemory
<1>5. CacheInv'
  BY CacheInvStep
<1>6. DOMAIN intent' = Searches
  BY <1>5 DEF CacheInv, IntentIsFunction
<1>7. cache' # NoCache => \A r, s \in cache'.sources : r.id = s.id => r = s
  BY <1>5 DEF CacheInv, CacheIsUnambiguous, Conflicting
<1> QED BY <1>2, <1>3, <1>4, <1>6, <1>7 DEF TypeOK

-----------------------------------------------------------------------------
\* The cached index is the one its key names, whatever searches are refused, fail or run
\* at the same time, and every record of an answer stands in the anchored content under an
\* id of its own, also when the list behind an anchor is changed (search(),
\* InMemoryFactorRepository.search).
THEOREM IndexSound == Spec => []IndexIsSound
<1> DEFINE I == CacheInv /\ TypeOK /\ AnswerIsAnchored
<1>1. Init => I
  <2>1. Init => TypeOK
    BY DEF Init, TypeOK
  <2>2. Init => AnswerIsAnchored
    BY DEF Init, AnswerIsAnchored, Answered
  <2> QED BY <2>1, <2>2, CacheInvInit
<1>2. I /\ [Next]_vars => I'
  BY CacheInvStep, TypeStep, AnchoredStep
<1>3. I => IndexIsSound
  BY DEF IndexIsSound, CacheInv
<1> QED BY <1>1, <1>2, <1>3, PTL DEF Spec

\* An approval, which lifts the cap of a draft, comes only from a bundle that is verified,
\* in effect and approved for exactly the content of the answer; and a policy fills only
\* what a record leaves open, where the policies agree (search(), catalog_policy.py).
THEOREM PolicyObeyed == Spec => []PolicyIsObeyed
<1>1. Init => PolicyIsObeyed
  BY DEF Init, PolicyIsObeyed, ApprovalIsEarned, PolicyOnlyFillsGaps, Answered
<1>2. CacheInv /\ PolicyIsObeyed /\ [Next]_vars => PolicyIsObeyed'
  BY EarnedStep, FillsStep DEF PolicyIsObeyed
<1> QED BY CacheInvInvariant, <1>1, <1>2, PTL DEF Spec

-----------------------------------------------------------------------------
(* Names: the selection of mentions.                                       *)

\* The order that the induction is on.
Under == {ss \in Nat \X Nat : ss[1] < ss[2]}

\* A set of numbers that is not empty has a least one.
LEMMA LeastNat ==
    ASSUME NEW T \in SUBSET Nat, T # {}
    PROVE \E x \in T : \A y \in T : x <= y
<1>1. OpToRel(<, Nat) = Under
  BY Zenon DEF OpToRel, Under
<1>2. IsWellFoundedOn(Under, Nat)
  BY <1>1, NatLessThanWellFounded, Zenon
<1>3. PICK x \in T : \A y \in T : ~ (<<y, x>> \in Under)
  BY <1>2, WFMin
<1>4. ASSUME NEW y \in T PROVE x <= y
  <2>1. <<y, x>> \notin Under
    BY <1>3
  <2>2. QED
    BY <2>1 DEF Under
<1>5. QED
  BY <1>4

\* What holds of 0 and of every next number holds of all.
LEMMA Counting ==
    ASSUME NEW T \in SUBSET Nat, 0 \in T, \A n \in Nat : n \in T => n + 1 \in T
    PROVE  T = Nat
<1>1. SUFFICES ASSUME Nat \ T # {} PROVE FALSE
  OBVIOUS
<1>2. PICK x \in Nat \ T : \A y \in Nat \ T : x <= y
  BY <1>1, LeastNat
<1>3. x - 1 \in Nat /\ x - 1 \in T
  BY <1>2
<1>4. QED
  BY <1>2, <1>3

\* A set without one of its elements.
LEMMA Shrinks ==
    ASSUME NEW F, NEW x \in F, IsFiniteSet(F), NEW n \in Nat, Cardinality(F) = n + 1
    PROVE  IsFiniteSet(F \ {x}) /\ Cardinality(F \ {x}) = n
<1>1. /\ IsFiniteSet(F \ {x})
      /\ Cardinality(F \ {x}) = IF x \in F THEN Cardinality(F) - 1 ELSE Cardinality(F)
  BY FS_RemoveElement
<1>2. QED
  BY <1>1

\* What an occurrence of a rule's alias is.
Mentions(rules) == [rule : rules, start : Nat, end : Nat]

\* A selection of F by Precedes and Overlap.
Selection(F, S) ==
    /\ S \subseteq F
    /\ \A m \in F : m \in S <=> ~\E l \in S : Precedes(l, m) /\ Overlap(l, m)

\* Longest, leftmost, least id: a strict total order.
LEMMA PrecedesOrders ==
    ASSUME NEW rules, SoundRules(rules),
           NEW k \in Mentions(rules), NEW l \in Mentions(rules), NEW m \in Mentions(rules)
    PROVE  /\ ~Precedes(k, k)
           /\ Precedes(k, l) /\ Precedes(l, m) => Precedes(k, m)
           /\ k = l \/ Precedes(k, l) \/ Precedes(l, k)
<1>1. /\ \A x \in {k, l, m} : x.start \in Nat /\ x.end \in Nat /\ x.rule \in rules /\ x.rule.id \in Nat
      /\ k.rule.id = l.rule.id => k.rule = l.rule
  BY DEF Mentions, SoundRules
<1>2. ~Precedes(k, k)
  BY <1>1 DEF Precedes, Length
<1>3. Precedes(k, l) /\ Precedes(l, m) => Precedes(k, m)
  BY <1>1 DEF Precedes, Length
<1>4. k.rule = l.rule /\ k.start = l.start /\ k.end = l.end => k = l
  BY DEF Mentions
<1>5. k = l \/ Precedes(k, l) \/ Precedes(l, k)
  BY <1>1, <1>4 DEF Precedes, Length
<1>6. QED
  BY <1>2, <1>3, <1>5

\* Finitely many mentions have a last one.
LEMMA LastMention ==
    ASSUME NEW rules, SoundRules(rules), NEW found, found \subseteq Mentions(rules)
    PROVE  \A n \in Nat : \A F \in SUBSET found :
              IsFiniteSet(F) /\ Cardinality(F) = n + 1 =>
                  \E x \in F : \A y \in F : ~Precedes(x, y)
<1> DEFINE Has(F) == \E x \in F : \A y \in F : ~Precedes(x, y)
           T == {n \in Nat : \A F \in SUBSET found :
                                IsFiniteSet(F) /\ Cardinality(F) = n + 1 => Has(F)}
<1>1. 0 \in T
  <2>1. ASSUME NEW F \in SUBSET found, IsFiniteSet(F), Cardinality(F) = 0 + 1 PROVE Has(F)
    <3>0. Cardinality(F) = 1
      BY <2>1
    <3>1. PICK x : F = {x}
      BY <2>1, <3>0, FS_Singleton, Zenon
    <3>2. ~Precedes(x, x)
      BY <3>1, PrecedesOrders
    <3>3. QED
      BY <3>1, <3>2
  <2>2. QED
    BY <2>1
<1>2. ASSUME NEW n \in Nat, n \in T PROVE n + 1 \in T
  <2>1. ASSUME NEW F \in SUBSET found, IsFiniteSet(F), Cardinality(F) = (n + 1) + 1
        PROVE  Has(F)
    <3>1. PICK z \in F : TRUE
      BY <2>1, FS_EmptySet
    <3>2. IsFiniteSet(F \ {z}) /\ Cardinality(F \ {z}) = n + 1
      BY <2>1, <3>1, Shrinks
    <3>3. F \ {z} \in SUBSET found
      OBVIOUS
    <3>4. Has(F \ {z})
      BY <1>2, <3>2, <3>3
    <3>5. PICK x \in F \ {z} : \A y \in F \ {z} : ~Precedes(x, y)
      BY <3>4
    <3>6. CASE Precedes(x, z)
      <4>1. ASSUME NEW y \in F, Precedes(z, y) PROVE FALSE
        <5>1. x \in Mentions(rules) /\ y \in Mentions(rules) /\ z \in Mentions(rules)
          BY <2>1, <3>1, <3>5
        <5>2. y # z
          BY <4>1, <5>1, PrecedesOrders
        <5>3. Precedes(x, y)
          BY <3>6, <4>1, <5>1, PrecedesOrders
        <5>4. QED
          BY <3>5, <5>2, <5>3
      <4>2. QED
        BY <3>1, <4>1
    <3>7. CASE ~Precedes(x, z)
      BY <3>5, <3>7
    <3>8. QED
      BY <3>6, <3>7
  <2>2. QED
    BY <2>1
<1>3. T = Nat
  <2> HIDE DEF T
  <2>1. T \in SUBSET Nat
    BY DEF T
  <2>2. QED
    BY <1>1, <1>2, <2>1, Counting
<1>4. QED
  BY <1>3

\* So there is a selection: add the last mention to that of the others, if it is free.
LEMMA SelectionExists ==
    ASSUME NEW rules, SoundRules(rules), NEW found, found \subseteq Mentions(rules),
           IsFiniteSet(found)
    PROVE  \E S : Selection(found, S)
<1> DEFINE T == {n \in Nat : \A F \in SUBSET found :
                                IsFiniteSet(F) /\ Cardinality(F) = n => \E S : Selection(F, S)}
<1>1. 0 \in T
  <2>1. ASSUME NEW F \in SUBSET found, IsFiniteSet(F), Cardinality(F) = 0
        PROVE  \E S : Selection(F, S)
    <3>1. F = {}
      BY <2>1, FS_EmptySet
    <3>2. Selection(F, {})
      BY <3>1 DEF Selection
    <3>3. QED
      BY <3>2
  <2>2. QED
    BY <2>1
<1>2. ASSUME NEW n \in Nat, n \in T PROVE n + 1 \in T
  <2>1. ASSUME NEW F \in SUBSET found, IsFiniteSet(F), Cardinality(F) = n + 1
        PROVE  \E S : Selection(F, S)
    <3>1. PICK x \in F : \A y \in F : ~Precedes(x, y)
      BY <2>1, LastMention
    <3>2. IsFiniteSet(F \ {x}) /\ Cardinality(F \ {x}) = n /\ F \ {x} \in SUBSET found
      BY <2>1, <3>1, Shrinks
    <3>3. PICK S : Selection(F \ {x}, S)
      BY <1>2, <3>2
    <3>4. CASE \E l \in S : Precedes(l, x) /\ Overlap(l, x)
      <4>1. Selection(F, S)
        BY <3>1, <3>3, <3>4, Zenon DEF Selection
      <4>2. QED
        BY <4>1
    <3>5. CASE ~\E l \in S : Precedes(l, x) /\ Overlap(l, x)
      <4>1. Selection(F, S \cup {x})
        BY <3>1, <3>3, <3>5 DEF Selection
      <4>2. QED
        BY <4>1
    <3>6. QED
      BY <3>4, <3>5
  <2>2. QED
    BY <2>1
<1>3. T = Nat
  <2> HIDE DEF T
  <2>1. T \in SUBSET Nat
    BY DEF T
  <2>2. QED
    BY <1>1, <1>2, <2>1, Counting
<1>4. Cardinality(found) \in T
  BY <1>3, FS_CardinalityType
<1>5. QED
  BY <1>4

\* There are finitely many occurrences, and they are mentions.
LEMMA OccurrencesAreMentions ==
    ASSUME NEW registry, SoundRules(registry.materials), NEW words \in Seq(STRING)
    PROVE  /\ Occurrences(registry, words) \subseteq Mentions(registry.materials)
           /\ IsFiniteSet(Occurrences(registry, words))
<1> DEFINE rules == registry.materials
           found == Occurrences(registry, words)
           n == Len(words)
           Box == rules \X ((0 .. n + 1) \X (0 .. n))
<1>1. n \in Nat
  OBVIOUS
<1>2. ASSUME NEW m \in found
      PROVE  /\ m \in Mentions(rules)
             /\ m.start \in 0 .. n + 1 /\ m.end \in 0 .. n
  <2>1. PICK r \in Active(rules) : \E a \in r.aliases : \E i \in material_occurrences(words, a) :
           m = [rule |-> r, start |-> i, end |-> i + Len(a) - 1]
    BY DEF Occurrences
  <2>2. PICK a \in r.aliases : \E i \in material_occurrences(words, a) :
           m = [rule |-> r, start |-> i, end |-> i + Len(a) - 1]
    BY <2>1
  <2>8. PICK i \in material_occurrences(words, a) :
           m = [rule |-> r, start |-> i, end |-> i + Len(a) - 1]
    BY <2>2
  <2>3. r \in rules
    BY DEF Active
  <2>4. Len(a) \in Nat
    BY <2>3 DEF SoundRules
  <2>5. i \in 1 .. n - Len(a) + 1
    BY DEF material_occurrences, positions
  <2>6. i \in 0 .. n + 1 /\ i + Len(a) - 1 \in 0 .. n
    BY <1>1, <2>4, <2>5
  <2>7. QED
    BY <2>8, <2>3, <2>6 DEF Mentions
<1> HIDE DEF found, n
<1> DEFINE f == [m \in found |-> <<m.rule, <<m.start, m.end>>>>]
<1>3. f \in Injection(found, Box)
  <2>1. f \in [found -> Box]
    BY <1>2 DEF Mentions
  <2>2. ASSUME NEW l \in found, NEW m \in found, f[l] = f[m] PROVE l = m
    BY <1>2, <2>2 DEF Mentions
  <2>3. QED
    BY <2>1, <2>2 DEF Injection, IsInjective
<1>4. IsFiniteSet(Box)
  <2>1. IsFiniteSet(0 .. n + 1) /\ IsFiniteSet(0 .. n)
    BY <1>1, FS_Interval
  <2>2. IsFiniteSet((0 .. n + 1) \X (0 .. n))
    BY <2>1, FS_Product
  <2>3. IsFiniteSet(rules)
    BY DEF SoundRules
  <2>4. QED
    BY <2>2, <2>3, FS_Product
<1>5. IsFiniteSet(found)
  BY <1>3, <1>4, FS_Injection
<1>6. QED
  BY <1>2, <1>5 DEF found

\* The equation that defines selected, as one of sets.
Solves(F, g) == g = [m \in F |-> ~\E l \in F : Precedes(l, m) /\ Overlap(l, m) /\ g[l]]

\* _material_matches selects by its equation, which has a solution.
LEMMA MatchesAreASelection ==
    ASSUME NEW registry, SoundRules(registry.materials), NEW words \in Seq(STRING)
    PROVE  Selection(Occurrences(registry, words), material_matches(registry, words))
<1> DEFINE F == Occurrences(registry, words)
           g == CHOOSE h : Solves(F, h)
<1>1. PICK S : Selection(F, S)
  BY OccurrencesAreMentions, SelectionExists
<1>2. Solves(F, [m \in F |-> m \in S])
  <2> HIDE DEF F
  <2>1. ASSUME NEW m \in F
        PROVE  (m \in S) = ~\E l \in F : Precedes(l, m) /\ Overlap(l, m) /\ l \in S
    BY <1>1 DEF Selection
  <2>2. QED
    BY <2>1 DEF Solves
<1>3. Solves(F, g)
  BY <1>2, Zenon
<1>4. material_matches(registry, words) = {m \in F : g[m]}
  BY Zenon DEF material_matches, Solves
<1> HIDE DEF F, g
<1>5. \A m \in F : g[m] <=> ~\E l \in F : Precedes(l, m) /\ Overlap(l, m) /\ g[l]
  BY <1>3, Zenon DEF Solves
<1>6. Selection(F, {m \in F : g[m]})
  BY <1>5, Zenon DEF Selection
<1>7. QED
  BY <1>4, <1>6 DEF F

\* The longest mention wins.
LEMMA LongestWins ==
    ASSUME NEW registry, SoundRules(registry.materials), NEW words \in Seq(STRING)
    PROVE  /\ \A l, m \in material_matches(registry, words) : Overlap(l, m) => l = m
           /\ \A m \in Occurrences(registry, words) \ material_matches(registry, words) :
                 \E l \in material_matches(registry, words) : Overlap(l, m) /\ Length(l) >= Length(m)
<1> DEFINE F == Occurrences(registry, words)
           S == material_matches(registry, words)
<1>1. Selection(F, S) /\ F \subseteq Mentions(registry.materials)
  BY MatchesAreASelection, OccurrencesAreMentions
<1> HIDE DEF F, S
<1>2. ASSUME NEW l \in S, NEW m \in S, Overlap(l, m) PROVE l = m
  <2>1. l \in F /\ m \in F
    BY <1>1 DEF Selection
  <2>2. Overlap(m, l)
    BY <1>2, <2>1, <1>1 DEF Overlap
  <2>3. ~Precedes(l, m) /\ ~Precedes(m, l)
    BY <1>1, <1>2, <2>1, <2>2 DEF Selection
  <2>4. QED
    BY <1>1, <2>1, <2>3, PrecedesOrders
<1>3. ASSUME NEW m \in F \ S PROVE \E l \in S : Overlap(l, m) /\ Length(l) >= Length(m)
  <2>1. PICK l \in S : Precedes(l, m) /\ Overlap(l, m)
    BY <1>1, <1>3 DEF Selection
  <2>2. l \in F
    BY <1>1 DEF Selection
  <2>3. /\ l.start \in Nat /\ l.end \in Nat
        /\ m.start \in Nat /\ m.end \in Nat
    BY <1>1, <2>2 DEF Mentions
  <2>4. Length(l) >= Length(m)
    BY <2>1, <2>3 DEF Precedes, Length
  <2>5. QED
    BY <2>1, <2>4
<1>4. QED
  BY <1>2, <1>3 DEF F, S

\* A leftmost one of a set of mentions.
LEMMA Leftmost ==
    ASSUME NEW rules, NEW D, D \subseteq Mentions(rules), D # {}
    PROVE  (CHOOSE m \in D : \A l \in D : m.start <= l.start) \in D
<1>1. {m.start : m \in D} \in SUBSET Nat /\ {m.start : m \in D} # {}
  BY DEF Mentions
<1>2. PICK x \in {m.start : m \in D} : \A y \in {m.start : m \in D} : x <= y
  BY <1>1, LeastNat
<1>3. \E m \in D : \A l \in D : m.start <= l.start
  BY <1>2
<1>4. QED
  BY <1>3

\* The materials that a text mentions, composites taken apart.
PartsOf(registry, words) == UNION {Constituents(m.rule) : m \in material_matches(registry, words)}

\* A text that is resolved is resolved to the constituents of what it mentions.
LEMMA IdentityIsParts ==
    ASSUME NEW registry, SoundRules(registry.materials), NEW words \in Seq(STRING),
           identity(registry, words).base # {}
    PROVE  identity(registry, words).base = PartsOf(registry, words)
<1> DEFINE matches == material_matches(registry, words)
           rules == {m.rule : m \in matches}
           composites == {m \in matches : m.rule.composite}
           parts == UNION {Constituents(r) : r \in rules}
           deciding == IF composites # {} THEN composites
                       ELSE IF Cardinality(rules) = 1 THEN matches ELSE {}
           chosen == CHOOSE m \in deciding : \A l \in deciding : m.start <= l.start
           joined == (composites # {} \/ Cardinality(rules) > 1) /\ Cardinality(parts) >= 2
<1>1. /\ joined => identity(registry, words).base = parts
      /\ ~joined /\ deciding # {} => identity(registry, words).base = {chosen.rule.entity}
      /\ ~joined /\ deciding = {} => identity(registry, words).base = {}
  BY DEF identity
<1>2. parts = PartsOf(registry, words)
  BY DEF PartsOf
<1>3. /\ matches \subseteq Mentions(registry.materials)
      /\ rules \subseteq registry.materials /\ IsFiniteSet(registry.materials)
      /\ \A r \in rules : /\ IsFiniteSet(r.constituents)
                          /\ r.constituents # {} => r.composite /\ Cardinality(r.constituents) > 1
  <2>1. matches \subseteq Mentions(registry.materials)
    BY MatchesAreASelection, OccurrencesAreMentions DEF Selection
  <2>2. rules \subseteq registry.materials
    BY <2>1 DEF Mentions
  <2>3. QED
    BY <2>1, <2>2 DEF SoundRules
<1> HIDE DEF matches, composites
<1>4. ASSUME ~joined, composites # {}
      PROVE  identity(registry, words).base = parts
  <2>1. chosen \in composites
    <3>1. composites \subseteq Mentions(registry.materials)
      BY <1>3 DEF composites
    <3>2. (CHOOSE m \in composites : \A l \in composites : m.start <= l.start) \in composites
      BY <1>4, <3>1, Leftmost
    <3>3. QED
      BY <1>4, <3>2
  <2>2. identity(registry, words).base = {chosen.rule.entity}
    BY <1>1, <1>4
  <2> HIDE DEF chosen
  <2>3. chosen.rule \in rules
    BY <2>1 DEF composites
  <2>4. IsFiniteSet(parts) /\ Cardinality(parts) \in Nat
    <3> DEFINE f == [r \in rules |-> Constituents(r)]
               image == {Constituents(r) : r \in rules}
    <3>1. IsFiniteSet(rules)
      BY <1>3, FS_Subset
    <3>2. f \in Surjection(rules, image)
      BY DEF Surjection
    <3>3. IsFiniteSet(image)
      BY <3>1, <3>2, FS_Surjection
    <3>4. \A T \in image : IsFiniteSet(T)
      BY <1>3, FS_Singleton DEF Constituents
    <3>5. IsFiniteSet(parts)
      BY <3>3, <3>4, FS_UNION
    <3>6. QED
      BY <3>5, FS_CardinalityType
  <2>5. Constituents(chosen.rule) \subseteq parts
    BY <2>3
  <2>6. ~(Cardinality(parts) >= 2)
    BY <1>4
  <2> HIDE DEF parts, rules
  <2>7. chosen.rule.constituents = {}
    <3>1. SUFFICES ASSUME chosen.rule.constituents # {} PROVE FALSE
      OBVIOUS
    <3>2. chosen.rule.constituents \in SUBSET parts
      BY <2>5, <3>1 DEF Constituents
    <3>3. Cardinality(chosen.rule.constituents) <= Cardinality(parts)
      BY <2>4, <3>2, FS_Subset
    <3>4. /\ Cardinality(chosen.rule.constituents) > 1
          /\ Cardinality(chosen.rule.constituents) \in Nat
      BY <1>3, <2>3, <3>1, FS_CardinalityType
    <3>5. QED
      BY <2>4, <2>6, <3>3, <3>4
  <2>8. chosen.rule.entity \in parts
    BY <2>5, <2>7 DEF Constituents
  <2>9. Cardinality(parts) = 1
    <3>1. Cardinality(parts) # 0
      BY <2>4, <2>8, FS_EmptySet
    <3>2. QED
      BY <2>4, <2>6, <3>1
  <2>10. PICK x : parts = {x}
    BY <2>4, <2>9, FS_Singleton, Zenon
  <2>11. QED
    BY <2>2, <2>8, <2>10
<1>5. ASSUME ~joined, composites = {}, deciding # {}
      PROVE  identity(registry, words).base = parts
  <2>1. Cardinality(rules) = 1 /\ matches # {}
    BY <1>5
  <2>2. IsFiniteSet(rules)
    BY <1>3, FS_Subset
  <2>3. PICK r : rules = {r}
    <3> HIDE DEF rules
    <3>1. QED
      BY <2>1, <2>2, FS_Singleton, Zenon
  <2>4. PICK m \in matches : m.rule = r
    BY <2>3
  <2>5. ~r.composite
    BY <1>5, <2>4 DEF composites
  <2>6. r.constituents = {}
    BY <1>3, <2>3, <2>5
  <2>7. parts = {r.entity}
    <3>1. parts = UNION {Constituents(r)}
      BY <2>3
    <3>2. QED
      BY <2>6, <3>1 DEF Constituents
  <2>8. chosen \in matches
    <3>1. (CHOOSE k \in matches : \A l \in matches : k.start <= l.start) \in matches
      BY <1>3, <2>1, Leftmost
    <3>2. QED
      BY <1>5, <2>1, <3>1
  <2>9. identity(registry, words).base = {chosen.rule.entity}
    BY <1>1, <1>5
  <2> HIDE DEF chosen
  <2>10. chosen.rule = r
    BY <2>3, <2>8
  <2>11. QED
    BY <2>7, <2>9, <2>10
<1>6. QED
  BY <1>1, <1>2, <1>4, <1>5

-----------------------------------------------------------------------------
(* Names: requests and records.                                            *)

\* A request was resolved to the intent with the registry.
ResolvedWith(registry, i) == \E q \in Queries : i = retrieval_intent(registry, q)

\* A search under way was resolved with the registry of some configuration.
IntentInv ==
    /\ config \in Configs
    /\ \A s \in Searches : intent[s] # NoIntent =>
          \E c \in Configs : ResolvedWith(Registries[c.registry], intent[s])

\* It holds initially and after every step.
LEMMA IntentInvInit == Init => IntentInv
BY DEF Init, IntentInv

\* A search keeps its intent until it ends.
LEMMA IntentInvStep ==
    ASSUME IntentIsFunction, IntentInv, [Next]_vars
    PROVE  IntentInv'
<1>1. config' \in Configs
  BY DEF IntentInv, Next, vars, Configure, Search, FetchFails, Answer, ChangeList, SearchMemory
<1>2. ASSUME NEW s \in Searches, intent'[s] # NoIntent
      PROVE  \E c \in Configs : ResolvedWith(Registries[c.registry], intent'[s])
  <2>1. CASE intent'[s] = intent[s]
    BY <1>2, <2>1 DEF IntentInv
  <2>2. CASE intent'[s] # intent[s]
    <3>1. PICK t \in Searches : (\E q \in Queries : Search(t, q)) \/ (\E p \in Payloads : Answer(t, p))
                                \/ FetchFails(t)
      BY <2>2 DEF Next, vars, Configure, ChangeList, SearchMemory
    <3>2. ~FetchFails(t) /\ ~\E p \in Payloads : Answer(t, p)
      BY <1>2, <2>2 DEF IntentIsFunction, FetchFails, Answer
    <3>3. PICK q \in Queries : Search(t, q)
      BY <3>1, <3>2
    <3>4. intent' = [intent EXCEPT ![t] = retrieval_intent(Registries[config.registry], q)]
      BY <2>2, <3>3 DEF Search
    <3>5. intent'[s] = retrieval_intent(Registries[config.registry], q)
      BY <2>2, <3>4 DEF IntentIsFunction
    <3>6. QED
      BY <3>5 DEF IntentInv, ResolvedWith
  <2>3. QED
    BY <2>1, <2>2
<1>3. QED
  BY <1>1, <1>2 DEF IntentInv

\* The longest mention wins in the name of every search.
LEMMA LongestInv == IntentInv => LongestMentionWins
<1> SUFFICES ASSUME IntentInv, NEW s \in Searches, intent[s] # NoIntent
             PROVE  /\ \A l, m \in material_matches(Registries[config.registry], intent[s].name.words) :
                          Overlap(l, m) => l = m
                    /\ \A m \in Occurrences(Registries[config.registry], intent[s].name.words)
                                \ material_matches(Registries[config.registry], intent[s].name.words) :
                          \E l \in material_matches(Registries[config.registry], intent[s].name.words) :
                              Overlap(l, m) /\ Length(l) >= Length(m)
  BY DEF LongestMentionWins
<1>1. PICK c \in Configs, q \in Queries : intent[s] = retrieval_intent(Registries[c.registry], q)
  BY DEF IntentInv, ResolvedWith
<1>2. intent[s].name.words \in Seq(STRING)
  BY <1>1, RegistryAssumption DEF retrieval_intent
<1>3. SoundRules(Registries[config.registry].materials)
  BY RegistryAssumption DEF IntentInv
<1>4. QED
  BY <1>2, <1>3, LongestWins

\* Records related to one intent mention the same materials.
LEMMA RelatedAnswer ==
    ASSUME NEW content, NEW policy, NEW c \in Configs, NEW i,
           \A item \in content : item.text.words \in Seq(STRING),
           answer'.hits = query(Sources(content, policy, c.registry), i),
           answer'.registry = c.registry
    PROVE  RelatedIsOneMaterial'
<1> DEFINE registry == Registries[c.registry]
<1>1. ASSUME NEW r \in answer'.hits.related
      PROVE  PartsOf(registry, r.text.words) = i.base /\ i.base # {}
  <2>1. r \in related(Sources(content, policy, c.registry), i)
    BY DEF query
  <2>2. r \in Sources(content, policy, c.registry) /\ r.entity.base = i.base /\ i.base # {}
    BY <2>1 DEF related
  <2>3. PICK item \in content : r = to_source_record(policy, c.registry, item)
    BY <2>2 DEF Sources
  <2>4. r.text = item.text /\ r.entity = enrich_source(registry, item)
    BY <2>3 DEF to_source_record
  <2>5. r.entity.base = identity(registry, item.text.words).base
    BY <2>4 DEF enrich_source
  <2>6. SoundRules(registry.materials) /\ item.text.words \in Seq(STRING)
    BY RegistryAssumption
  <2> HIDE DEF registry
  <2>7. QED
    BY <2>2, <2>4, <2>5, <2>6, IdentityIsParts
<1>2. ASSUME NEW r PROVE Parts(r)' = PartsOf(registry, r.text.words)
  BY DEF Parts, PartsOf
<1>3. QED
  BY <1>1, <1>2 DEF RelatedIsOneMaterial

\* What an answer relates is one material after every step.
LEMMA RelatedStep ==
    ASSUME CacheInv, TypeOK, RelatedIsOneMaterial, [Next]_vars
    PROVE  RelatedIsOneMaterial'
<1>1. ASSUME answer' = NoAnswer \/ answer'.outcome # "answered" PROVE RelatedIsOneMaterial'
  BY <1>1 DEF RelatedIsOneMaterial, Answered
<1>2. ASSUME NEW s \in Searches, NEW p \in Payloads, Answer(s, p) PROVE RelatedIsOneMaterial'
  <2>1. CASE answer'.outcome # "answered"
    BY <1>1, <2>1
  <2>2. CASE answer'.outcome = "answered"
    <3>1. \A item \in catalog_content_sha256(p.records) : item.text.words \in Seq(STRING)
      BY RegistryAssumption DEF catalog_content_sha256, Range
    <3>2. /\ answer'.hits = query(Sources(catalog_content_sha256(p.records), PolicyOf(config),
                                          config.registry), intent[s])
          /\ answer'.registry = config.registry
      BY <1>2, <2>2, AnswerStep
    <3>3. config \in Configs
      BY DEF TypeOK
    <3>4. QED
      BY <3>1, <3>2, <3>3, RelatedAnswer
  <2>3. QED
    BY <2>1, <2>2
<1>3. ASSUME NEW q \in Queries, SearchMemory(q) PROVE RelatedIsOneMaterial'
  <2>1. CASE answer'.outcome # "answered"
    BY <1>1, <2>1
  <2>2. CASE answer'.outcome = "answered"
    <3>1. /\ answer'.hits = query(Sources(Range(memory.records), NoPolicy, config.registry),
                                  retrieval_intent(Registries[config.registry], q))
          /\ answer'.registry = config.registry
      BY <1>3, <2>2 DEF SearchMemory, Refuse
    <3>2. memory.records \in MemoryContents /\ config \in Configs
      BY DEF TypeOK
    <3>3. \A item \in Range(memory.records) : item.text.words \in Seq(STRING)
      BY <3>2, RegistryAssumption DEF Range
    <3>4. QED
      BY <3>1, <3>2, <3>3, RelatedAnswer
  <2>3. QED
    BY <2>1, <2>2
<1>4. ASSUME NEW s \in Searches, NEW q \in Queries, Search(s, q) PROVE RelatedIsOneMaterial'
  BY <1>1, <1>4 DEF Search, Refuse
<1>5. ASSUME NEW s \in Searches, FetchFails(s) PROVE RelatedIsOneMaterial'
  BY <1>1, <1>5 DEF FetchFails, Refuse
<1>6. ASSUME NEW c \in Configs, Configure(c) PROVE RelatedIsOneMaterial'
  BY <1>1, <1>6 DEF Configure
<1>7. ASSUME NEW records \in MemoryContents, ChangeList(records) PROVE RelatedIsOneMaterial'
  BY <1>1, <1>7 DEF ChangeList
<1>8. CASE UNCHANGED vars
  BY <1>8 DEF vars, RelatedIsOneMaterial, Answered, Parts
<1> QED BY <1>2, <1>3, <1>4, <1>5, <1>6, <1>7, <1>8 DEF Next

\* A text in which no rule is found mentions none: of the rules that are mentioned one has
\* the longest alias and, of those, the least id.
LEMMA NoRuleIsMentioned ==
    ASSUME NEW rules, SoundNames(rules), NEW words \in Seq(STRING),
           best_rule_match(words, rules) = NoRule
    PROVE  MentionsNone(words, rules)
<1> DEFINE found == UNION {{[rule |-> r, length |-> Len(a)] :
                               a \in {b \in r.aliases : positions(words, b) # {}}} :
                              r \in Active(rules)}
           Better(k, l) == k.length > l.length \/ (k.length = l.length /\ k.rule.id < l.rule.id)
           Best(k) == \A l \in found : l.rule = k.rule \/ Better(k, l)
<1>1. \A k \in found : /\ k.rule \in rules /\ k.rule.id \in Nat
                       /\ k.length \in Nat /\ Len(words) - k.length \in Nat
  <2>1. SUFFICES ASSUME NEW r \in Active(rules), NEW a \in r.aliases, positions(words, a) # {}
                 PROVE  /\ r \in rules /\ r.id \in Nat
                        /\ Len(a) \in Nat /\ Len(words) - Len(a) \in Nat
    OBVIOUS
  <2>2. r \in rules /\ r.id \in Nat /\ a \in Seq(STRING)
    BY DEF SoundNames, Active
  <2>3. PICK n : n \in 1..(Len(words) - Len(a) + 1)
    BY <2>1 DEF positions
  <2>4. Len(a) \in Nat /\ Len(words) \in Nat
    BY <2>2
  <2> QED BY <2>2, <2>3, <2>4
<1>2. \A k, l \in found : k.rule.id = l.rule.id => k.rule = l.rule
  BY <1>1 DEF SoundNames
<1>3. found # {} => best_rule_match(words, rules) = (CHOOSE k \in found : Best(k)).rule
  BY Zenon DEF best_rule_match
<1> HIDE DEF found
<1>4. ASSUME found # {} PROVE \E k \in found : Best(k)
  <2>1. PICK d \in {Len(words) - k.length : k \in found} :
            \A e \in {Len(words) - k.length : k \in found} : d <= e
    <3>1. /\ {Len(words) - k.length : k \in found} \in SUBSET Nat
          /\ {Len(words) - k.length : k \in found} # {}
      BY <1>1, <1>4
    <3> QED BY <3>1, LeastNat
  <2> DEFINE longest == {k \in found : Len(words) - k.length = d}
  <2>2. PICK n \in {k.rule.id : k \in longest} : \A m \in {k.rule.id : k \in longest} : n <= m
    <3>1. {k.rule.id : k \in longest} \in SUBSET Nat /\ {k.rule.id : k \in longest} # {}
      BY <1>1, <2>1
    <3> QED BY <3>1, LeastNat
  <2>3. PICK k \in found : Len(words) - k.length = d /\ k.rule.id = n
    BY <2>2
  <2>4. ASSUME NEW l \in found, l.rule # k.rule PROVE Better(k, l)
    <3>1. /\ k.length \in Nat /\ l.length \in Nat /\ Len(words) \in Nat
          /\ k.rule.id \in Nat /\ l.rule.id \in Nat
      BY <1>1
    <3>2. d <= Len(words) - l.length
      BY <2>1
    <3>3. CASE Len(words) - l.length = d
      <4>1. n <= l.rule.id
        BY <2>2, <3>3
      <4>2. k.rule.id # l.rule.id
        BY <1>2, <2>4
      <4> QED BY <2>3, <3>1, <3>3, <4>1, <4>2
    <3>4. CASE Len(words) - l.length # d
      BY <2>3, <3>1, <3>2, <3>4
    <3> QED BY <3>3, <3>4
  <2> QED BY <2>3, <2>4
<1>5. found = {}
  <2>1. SUFFICES ASSUME found # {} PROVE FALSE
    OBVIOUS
  <2>2. (CHOOSE k \in found : Best(k)) \in found
    BY <1>4, <2>1
  <2>3. best_rule_match(words, rules) \in rules
    BY <1>1, <1>3, <2>1, <2>2
  <2> QED BY <2>3 DEF SoundNames
<1> USE DEF found
<1>6. ASSUME NEW r \in Active(rules), NEW a \in r.aliases, positions(words, a) # {} PROVE FALSE
  <2>1. [rule |-> r, length |-> Len(a)] \in found
    BY <1>6
  <2> HIDE DEF found
  <2> QED BY <1>5, <2>1
<1> QED BY <1>6 DEF MentionsNone

\* A record that the registry's aliases make a synonym answers a request without qualifiers.
LEMMA AliasesNeedNoQualifier ==
    ASSUME NEW c \in Configs, NEW q \in Queries, NEW sources,
           NEW r \in synonym(sources, retrieval_intent(Registries[c.registry], q)),
           q.text \notin r.aliases
    PROVE  Unqualified(Registries[c.registry], q)
<1> DEFINE registry == Registries[c.registry]
           base == identity(registry, q.text.words).base
           named == parse_numeric_grade(registry, q.text.numbers, base)
           composition == parse_numeric_grade(registry, q.composition, base)
<1>1. retrieval_intent(registry, q).name = q.text
  BY DEF retrieval_intent
<1>2. retrieval_intent(registry, q).aliases # {}
  BY <1>1 DEF synonym
<1>3. ~has_request_qualifier(registry, q)
  BY <1>2 DEF retrieval_intent
<1>4. /\ \A n \in q.text.numbers : "negative" \notin n.contexts
      /\ named.grade = NoGrade /\ named.unresolved = {}
  BY <1>3 DEF has_request_qualifier, has_numeric_tokens
<1>5. ~Qualified(registry, q)
  BY <1>3 DEF has_request_qualifier
<1>6. /\ q.process = <<>> /\ q.form = <<>>
      /\ Qualifier(q.text.words, q.process, registry.processes) = NoRule
      /\ Qualifier(q.text.words, q.form, registry.forms) = NoRule
      /\ numeric_grade(registry, q, base) = NoGrade
  BY <1>5 DEF Qualified
<1>7. composition.grade = NoGrade
  BY <1>6 DEF numeric_grade
<1>8. /\ MentionsNone(q.text.words, registry.processes)
      /\ MentionsNone(q.text.words, registry.forms)
  <2>1. /\ best_rule_match(q.text.words, registry.processes) = NoRule
        /\ best_rule_match(q.text.words, registry.forms) = NoRule
    BY <1>6 DEF Qualifier
  <2>2. /\ SoundNames(registry.processes) /\ SoundNames(registry.forms)
        /\ q.text.words \in Seq(STRING)
    BY RegistryAssumption
  <2> QED BY <2>1, <2>2, NoRuleIsMentioned
<1> QED BY <1>4, <1>6, <1>7, <1>8 DEF Unqualified

\* The intent and the synonyms of a search that ends.
LEMMA QualifiersStep ==
    ASSUME CacheInv, IntentInv, [Next]_vars, NEW s \in Searches, Ends(s)
    PROVE  /\ \E a \in Resolutions : a.intent = intent[s]
           /\ \A r \in answer'.hits.synonym :
                 \/ intent[s].name \in r.aliases
                 \/ \A a \in Resolutions :
                       a.intent = intent[s] => Unqualified(a.registry, a.query)
<1>1. PICK c \in Configs : ResolvedWith(Registries[c.registry], intent[s])
  BY DEF IntentInv, Ends
<1>2. PICK sources : answer'.hits = query(sources, intent[s])
  BY TransparentStep
<1>3. \E a \in Resolutions : a.intent = intent[s]
  <2>1. PICK q \in Queries : intent[s] = retrieval_intent(Registries[c.registry], q)
    BY <1>1 DEF ResolvedWith
  <2> DEFINE a == [registry |-> Registries[c.registry], query |-> q,
                   intent |-> retrieval_intent(Registries[c.registry], q)]
  <2>2. a \in Resolutions
    BY DEF Resolutions
  <2>3. a.intent = intent[s]
    BY <2>1
  <2> QED BY <2>2, <2>3
<1>4. ASSUME NEW r \in answer'.hits.synonym, intent[s].name \notin r.aliases,
             NEW a \in Resolutions, a.intent = intent[s]
      PROVE  Unqualified(a.registry, a.query)
  <2>1. PICK d \in Configs, q \in Queries :
            a = [registry |-> Registries[d.registry], query |-> q,
                 intent |-> retrieval_intent(Registries[d.registry], q)]
    BY DEF Resolutions
  <2>2. intent[s] = retrieval_intent(Registries[d.registry], q)
    BY <1>4, <2>1
  <2>3. q.text \notin r.aliases
    BY <1>4, <2>2 DEF retrieval_intent
  <2>4. r \in synonym(sources, retrieval_intent(Registries[d.registry], q))
    BY <1>2, <1>4, <2>2 DEF query
  <2>5. Unqualified(Registries[d.registry], q)
    BY <2>3, <2>4, AliasesNeedNoQualifier
  <2> QED BY <2>1, <2>5
<1> QED BY <1>3, <1>4

\* A name stands for the longest mention in it, and what is recalled as related to it is
\* one material, whatever the registries, the requests and the catalogues are
\* (_material_matches, resolve(), SemanticFactorIndex.query).
THEOREM NamesResolved == Spec => []NamesAreResolved
<1> DEFINE I == CacheInv /\ TypeOK /\ IntentInv /\ RelatedIsOneMaterial
<1>1. Init => I
  <2>1. Init => TypeOK
    BY DEF Init, TypeOK
  <2>2. Init => RelatedIsOneMaterial
    BY DEF Init, RelatedIsOneMaterial, Answered
  <2> QED BY <2>1, <2>2, CacheInvInit, IntentInvInit
<1>2. I /\ [Next]_vars => I'
  BY CacheInvStep, TypeStep, IntentInvStep, RelatedStep DEF CacheInv
<1>3. I => NamesAreResolved
  BY LongestInv DEF NamesAreResolved
<1> QED BY <1>1, <1>2, <1>3, PTL DEF Spec

\* Aliases of the registry make no record a synonym of a request with a qualifier: a
\* process or form in its name or field, a number classified away, bound or unresolved, or
\* a grade in its composition (resolve(), has_request_qualifier).
THEOREM QualifiersKept == Spec => QualifiersAreKept
<1> DEFINE I == CacheInv /\ IntentInv
<1>1. Init => I
  BY CacheInvInit, IntentInvInit
<1>2. I /\ [Next]_vars => I'
  BY CacheInvStep, IntentInvStep DEF CacheInv
<1>3. I /\ [Next]_vars =>
        [\A s \in Searches : Ends(s) =>
          /\ \E a \in Resolutions : a.intent = intent[s]
          /\ \A r \in answer'.hits.synonym :
                \/ intent[s].name \in r.aliases
                \/ \A a \in Resolutions :
                      a.intent = intent[s] => Unqualified(a.registry, a.query)]_vars
  BY QualifiersStep
<1> QED BY <1>1, <1>2, <1>3, PTL DEF Spec, QualifiersAreKept
=============================================================================

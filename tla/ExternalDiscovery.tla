-------------------------- MODULE ExternalDiscovery ---------------------------
(***************************************************************************)
(* A1ResolutionGraph._discover_external (engine.py), the connectors and    *)
(* the extractor (external_connectors.py) and the outbound request policy  *)
(* (connector_security.py).                                                *)
(*                                                                         *)
(* The engine asks its connectors in turn, fetches what each one refers to *)
(* and extracts records.  Meanwhile snapshot files are replaced, and an    *)
(* OpenEPD request is resolved, sent, redirected, answered or timed out,   *)
(* with a step for every await.                                            *)
(*                                                                         *)
(* A digest is the value it covers: that of a document is its content,     *)
(* that of a snapshot the file.  The resolver, the transport and the       *)
(* fetcher are external: what they return is a choice.                     *)
(***************************************************************************)
EXTENDS Integers, Sequences, FiniteSets

CONSTANTS Connectors,      \* the connectors, in the order in which they are asked
          Intent,          \* [name, aliases]: what is asked for; a name is a sequence of words
          Files,           \* what a snapshot file may hold: a set of items, or Missing
          Answers,         \* what the fetcher of a public connector may return
          Envelopes,       \* responses of the transport: [chain, redirect, final, peer]
          Listings,        \* bodies that answer an OpenEPD discovery
          Documents,       \* bodies that answer an OpenEPD document request
          Resolutions,     \* the sets of addresses that a host may resolve to
          PublicAddresses, \* the global ones
          BaseUrl,         \* [scheme, userinfo, host, port, path]
          AllowedHosts,
          Limits,          \* ConnectorLimits
          Missing, Pending, NoRef, NoUrl, NoDigest, NoId, NoRequest

ASSUME ConnectorsAssumption == Len(Connectors) \in Nat
ASSUME LimitsAssumption == Limits.max_redirects \in Nat
ASSUME FilesAssumption == \A contents \in Files : contents # Missing => NoDigest \notin contents

VARIABLES file,      \* per connector: its snapshot file
          at,        \* the connector that is asked
          refs,      \* the references it gave that are not yet fetched; none before it has answered
          request,   \* the OpenEPD request under way
          offered,   \* references given so far, with the item that discovery read
          tried,     \* references that were fetched or rejected
          extracted, \* records extracted so far
          external,  \* external_records, Pending until the end
          sent       \* requests handed to the transport

vars == <<file, at, refs, request, offered, tried, extracted, external, sent>>

Kinds == {"fixture_factor", "structured_epd", "openepd"}

-----------------------------------------------------------------------------
(* Names.                                                                  *)

\* A phrase of two or more words that stands inside another.
Inside(s, l) ==
    Len(s) >= 2 /\ \E i \in 1..(Len(l) - Len(s) + 1) : SubSeq(l, i, i + Len(s) - 1) = s

terms_overlap(left, right) ==
    \/ left \cap right # {}
    \/ \E l \in left, r \in right : Inside(l, r) \/ Inside(r, l)

intent_terms == {Intent.name} \cup Intent.aliases

Names(item) == {item.name} \cup item.aliases

-----------------------------------------------------------------------------
(* OutboundRequestPolicy.                                                  *)

\* HTTPS without user info, an allowed host, the configured port; a literal address
\* must be global.
validate_url(u) ==
    /\ u.scheme = "https" /\ ~u.userinfo
    /\ u.host \in {BaseUrl.host} \cup AllowedHosts
    /\ u.port = BaseUrl.port
    /\ u.host \in UNION Resolutions => u.host \in PublicAddresses

origin(u) == <<u.scheme, u.host, u.port>>

\* resolve_route
Routable(u, resolved) ==
    validate_url(u) /\ resolved # {} /\ resolved \subseteq PublicAddresses

\* request_headers: whether Authorization is attached.
request_headers(u) == origin(u) = origin(BaseUrl)

\* Faulty variant: a redirect may lead to any permitted origin.
validate_response_route_AnyOrigin(r, e) ==
    /\ ~e.chain
    /\ e.redirect = NoUrl => e.final \in {NoUrl, r.url}
    /\ e.peer \in r.addresses /\ e.peer \in PublicAddresses
    /\ \A u \in {e.redirect, e.final} \ {NoUrl} : validate_url(u)

\* The transport followed nothing by itself and was bound to the route; a redirect
\* and the final URL stay at the origin of the request.
validate_response_route(r, e) ==
    /\ validate_url(r.url)
    /\ ~e.chain
    /\ e.redirect = NoUrl => e.final \in {NoUrl, r.url}
    /\ e.peer \in r.addresses /\ e.peer \in PublicAddresses
    /\ \A u \in {e.redirect, e.final} \ {NoUrl} :
          validate_url(u) /\ origin(u) = origin(r.url)

\* consume_structured_response and validate_json_complexity
Consumable(body) ==
    /\ body.json
    /\ body.bytes <= Limits.max_response_bytes
    /\ body.depth <= Limits.max_json_depth
    /\ body.records <= Limits.max_records
    /\ body.documents <= Limits.max_documents

-----------------------------------------------------------------------------
(* References, documents and records.                                      *)

Ref(id, provider, locator, kind, expected, snapshot) ==
    [id |-> id, provider |-> provider, locator |-> locator, kind |-> kind,
     expected |-> expected, snapshot |-> snapshot]

\* Faulty variant: neither the document nor the snapshot is pinned.
snapshot_ref_Unpinned(c, contents, item) ==
    Ref(item.id, c.provider, NoUrl, item.kind, NoDigest, NoDigest)

\* The reference to an item of a snapshot pins the item and the file.
snapshot_ref(c, contents, item) ==
    Ref(item.id, c.provider, NoUrl, item.kind, item, contents)

\* The items that SnapshotExternalConnector.discover refers to.
Matching(contents) ==
    {item \in contents : item.id # NoId /\ terms_overlap(intent_terms, Names(item))}

\* The references of an OpenEPD listing.
listing_refs(rows) ==
    {Ref(row.id, "OpenEPD", row.url, "openepd", row.sha, NoDigest) :
        row \in {r \in rows : r.id # NoId /\ r.url # NoUrl}}

Document(ref, content, claimed, snapshot) ==
    [ref |-> ref, content |-> content, claimed |-> claimed, snapshot |-> snapshot]

\* The extractor accepts a document: a structured kind, the claimed digest and the
\* pins reproduced, every required field valid.
Acceptable(d) ==
    /\ d.ref.kind \in Kinds
    /\ d.claimed = d.content
    /\ d.ref.expected # NoDigest => d.content = d.ref.expected
    /\ d.ref.snapshot # NoDigest => d.snapshot = d.ref.snapshot
    /\ d.content.valid

match_strategy(item) ==
    IF Intent.name = item.name THEN "exact_link"
    ELSE IF Intent.name \in item.aliases THEN "synonym_link"
    ELSE "related_candidate_recall"

\* extract: a document that is not about the request yields nothing.
extract(d) ==
    IF terms_overlap(intent_terms, Names(d.content))
    THEN {[id |-> IF d.content.id = NoId THEN d.ref.id ELSE d.content.id,
           provider |-> d.ref.provider, locator |-> d.ref.locator, content |-> d.content,
           snapshot |-> d.snapshot, strategy |-> match_strategy(d.content)]}
    ELSE {}

-----------------------------------------------------------------------------
(* The loop of the engine.                                                 *)

Connector == Connectors[at]

Asking(kinds) == at <= Len(Connectors) /\ refs = {} /\ request = NoRequest
                 /\ Connector.kind \in kinds

\* The next reference of the connector, in the order of the ids.
Fetching(ref, kinds) ==
    /\ request = NoRequest
    /\ Connector.kind \in kinds
    /\ ref \in refs /\ \A other \in refs : ref.id <= other.id

\* A connector is done when no reference is left; the next one is asked.
Continue(left) ==
    refs' = left /\ at' = IF left = {} THEN at + 1 ELSE at

\* discover returned: [ref, item] for every reference.
Offer(found) ==
    /\ offered' = offered \cup {[connector |-> at, ref |-> f.ref, item |-> f.item] : f \in found}
    /\ Continue({f.ref : f \in found})
    /\ UNCHANGED <<tried, extracted>>

\* discover failed: "external connector discovery unavailable".
DiscoveryFails == Offer({})

Tried(ref) == tried' = tried \cup {[connector |-> at, ref |-> ref]}

\* Faulty variant: a rejected reference is fetched again.
Reject_Retries(ref) ==
    Tried(ref) /\ Continue(refs) /\ UNCHANGED <<offered, extracted>>

\* "external evidence rejected": the other references are still fetched.
Reject(ref) ==
    Tried(ref) /\ Continue(refs \ {ref}) /\ UNCHANGED <<offered, extracted>>

\* A document was fetched for a reference, and is extracted.
Extract(ref, d) ==
    IF ~Acceptable(d) THEN Reject(ref)
    ELSE /\ extracted' = extracted \cup
                {[connector |-> at, ref |-> ref, record |-> r] : r \in extract(d)}
         /\ Tried(ref) /\ Continue(refs \ {ref}) /\ UNCHANGED offered

-----------------------------------------------------------------------------
(* SnapshotExternalConnector and PublicStructuredEPDConnector.             *)

\* A snapshot is replaced, removed or restored by another process; after its
\* connector has been left the file is not read again.
ChangeFile(i, contents) ==
    /\ Connectors[i].kind # "openepd" /\ at <= i /\ contents # file[i]
    /\ file' = [file EXCEPT ![i] = contents]
    /\ UNCHANGED <<at, refs, request, offered, tried, extracted, external, sent>>

DiscoverSnapshot ==
    /\ Asking({"snapshot", "public"})
    /\ IF file[at] = Missing THEN DiscoveryFails
       ELSE Offer({[ref |-> snapshot_ref(Connector, file[at], item), item |-> item] :
                      item \in Matching(file[at])})
    /\ UNCHANGED <<file, request, external, sent>>

\* The file is gone, another one, or without the item.
Lost(ref) ==
    IF file[at] = Missing THEN TRUE
    ELSE \/ ref.snapshot # NoDigest /\ file[at] # ref.snapshot
         \/ \A item \in file[at] : item.id # ref.id

\* fetch reloads the file and takes the first item with the id.
FetchSnapshot(ref) ==
    /\ Fetching(ref, {"snapshot"})
    /\ IF Lost(ref) THEN Reject(ref)
       ELSE \E item \in file[at] :
               /\ item.id = ref.id
               /\ \A other \in file[at] : other.id = ref.id => item.row <= other.row
               /\ IF ref.expected # NoDigest /\ item # ref.expected THEN Reject(ref)
                  ELSE Extract(ref, Document(ref, item, item, file[at]))
    /\ UNCHANGED <<file, request, external, sent>>

\* The fetcher returns a content, or a document of its own with claims.
FetchPublic(ref, a) ==
    /\ Fetching(ref, {"public"})
    /\ LET d == IF a.own THEN Document(a.ref, a.content, a.claimed, a.snapshot)
                ELSE Document(ref, a.content, a.content, ref.snapshot)
       IN  IF \/ a.fails
              \/ d.content # d.claimed
              \/ ref.expected # NoDigest /\ d.claimed # ref.expected
              \/ ref.snapshot # NoDigest /\ d.snapshot # ref.snapshot
           THEN Reject(ref)
           ELSE Extract(ref, d)
    /\ UNCHANGED <<file, request, external, sent>>

-----------------------------------------------------------------------------
(* OpenEPDConnector.                                                       *)

\* health: credentials, a permitted base URL and bound transports.
health(c) == c.api_key /\ validate_url(BaseUrl) /\ c.bound_transports

\* A request for a reference (none for a discovery) that began at the URL first.
Request(ref, first, url, hop, stage, addresses) ==
    [ref |-> ref, first |-> first, url |-> url, hop |-> hop, stage |-> stage,
     addresses |-> addresses]

Start(ref, url) == request' = Request(ref, url, url, 0, "resolve", {})

DiscoverOpenEPD ==
    /\ Asking({"openepd"})
    /\ IF health(Connector)
       THEN Start(NoRef, BaseUrl) /\ UNCHANGED <<at, refs, offered, tried, extracted>>
       ELSE Offer({}) /\ UNCHANGED request
    /\ UNCHANGED <<file, external, sent>>

FetchOpenEPD(ref) ==
    /\ Fetching(ref, {"openepd"})
    /\ Start(ref, ref.locator)
    /\ UNCHANGED <<file, at, refs, offered, tried, extracted, external, sent>>

\* The request is for the listing, and not for a document.
Listing == refs = {}

\* The request ends with an error.
Fail ==
    /\ request' = NoRequest
    /\ IF Listing THEN DiscoveryFails ELSE Reject(request.ref)
    /\ UNCHANGED sent

\* A hop is resolved in a thread, validated and handed to the transport.
ResolveRoute(resolved) ==
    /\ request # NoRequest /\ request.stage = "resolve"
    /\ IF Routable(request.url, resolved)
       THEN /\ request' = Request(request.ref, request.first, request.url, request.hop, "fetch", resolved)
            /\ sent' = sent \cup
                   {[first |-> request.first, url |-> request.url, hop |-> request.hop,
                     addresses |-> resolved, authorized |-> request_headers(request.url)]}
            /\ UNCHANGED <<at, refs, offered, tried, extracted>>
       ELSE Fail
    /\ UNCHANGED <<file, external>>

MayFollow == request.hop < Limits.max_redirects

\* The transport responds; a redirect is followed by CFR, as a new hop.
Respond(e) ==
    /\ request # NoRequest /\ request.stage = "fetch"
    /\ IF /\ validate_response_route(request, e)
          /\ e.redirect # NoUrl => MayFollow
       THEN /\ request' =
                   IF e.redirect = NoUrl
                   THEN Request(request.ref, request.first, request.url, request.hop, "consume",
                                request.addresses)
                   ELSE Request(request.ref, request.first, e.redirect, request.hop + 1, "resolve", {})
            /\ UNCHANGED <<at, refs, offered, tried, extracted, sent>>
       ELSE Fail
    /\ UNCHANGED <<file, external>>

\* The results are a list of at most max_documents rows, with permitted URLs.
ReadListing(body) ==
    /\ request # NoRequest /\ request.stage = "consume" /\ Listing
    /\ IF /\ Consumable(body) /\ body.list
          /\ \A ref \in listing_refs(body.rows) : validate_url(ref.locator)
       THEN /\ Offer({[ref |-> ref, item |-> ref.expected] : ref \in listing_refs(body.rows)})
            /\ request' = NoRequest /\ UNCHANGED sent
       ELSE Fail
    /\ UNCHANGED <<file, external>>

ReadDocument(body) ==
    /\ request # NoRequest /\ request.stage = "consume" /\ ~Listing
    /\ LET ref == request.ref
       IN  IF Consumable(body) /\ (ref.expected # NoDigest => body.content = ref.expected)
           THEN /\ Extract(ref, Document(ref, body.content, body.content, NoDigest))
                /\ request' = NoRequest /\ UNCHANGED sent
           ELSE Fail
    /\ UNCHANGED <<file, external>>

\* The transport raises, or the total timeout, which covers every hop, expires; a
\* thread that still runs is no longer listened to.
RequestFails ==
    /\ request # NoRequest
    /\ Fail
    /\ UNCHANGED <<file, external>>

-----------------------------------------------------------------------------

\* Faulty variant: of conflicting records one is kept.
Disputed_FirstWins(e) ==
    \E f \in extracted :
        f.record.id = e.record.id /\ f.record # e.record /\ f.connector < e.connector

\* Another extracted record has the same id and another content.
Disputed(e) == \E f \in extracted : f.record.id = e.record.id /\ f.record # e.record

\* "external evidence extraction completed"
Finish ==
    /\ at > Len(Connectors) /\ external = Pending
    /\ external' = {e.record : e \in {f \in extracted : ~Disputed(f)}}
    /\ UNCHANGED <<file, at, refs, request, offered, tried, extracted, sent>>

Init ==
    /\ file \in [1..Len(Connectors) -> Files]
    /\ \A i \in 1..Len(Connectors) : Connectors[i].kind = "openepd" => file[i] = Missing
    /\ at = 1 /\ refs = {} /\ request = NoRequest
    /\ offered = {} /\ tried = {} /\ extracted = {} /\ external = Pending /\ sent = {}

Fetch ==
    \E ref \in refs :
        \/ FetchSnapshot(ref)
        \/ \E a \in Answers : FetchPublic(ref, a)
        \/ FetchOpenEPD(ref)

Transport ==
    \/ \E resolved \in Resolutions : ResolveRoute(resolved)
    \/ \E e \in Envelopes : Respond(e)
    \/ \E body \in Listings : ReadListing(body)
    \/ \E body \in Documents : ReadDocument(body)

Next ==
    \/ DiscoverSnapshot \/ DiscoverOpenEPD \/ Fetch \/ Transport \/ RequestFails \/ Finish
    \/ \E i \in 1..Len(Connectors), contents \in Files : ChangeFile(i, contents)

Spec == Init /\ [][Next]_vars

\* The engine goes on, and the total timeout ends a request that nothing else ends.
\* That a public fetcher answers is assumed: its call has no timeout.
FairSpec ==
    /\ Spec
    /\ WF_vars(DiscoverSnapshot \/ DiscoverOpenEPD \/ Fetch \/ Finish)
    /\ WF_vars(RequestFails)

-----------------------------------------------------------------------------
(* Properties.                                                             *)

\* Types; a request makes at most max_redirects further hops (_request).
TypeOK ==
    /\ at \in 1..(Len(Connectors) + 1)
    /\ request # NoRequest =>
          /\ request.hop \in 0..Limits.max_redirects
          /\ request.stage \in {"resolve", "fetch", "consume"}
    /\ external # Pending => at = Len(Connectors) + 1 /\ request = NoRequest

\* Whatever a listing or a redirect names, a request is only handed to the transport
\* for a permitted URL whose host was resolved for this hop to global addresses
\* (OutboundRequestPolicy.resolve_route).
RoutesAreValidated ==
    \A s \in sent :
        /\ s.url.scheme = "https" /\ ~s.url.userinfo /\ s.url.port = BaseUrl.port
        /\ s.url.host \in {BaseUrl.host} \cup AllowedHosts
        /\ s.addresses # {} /\ s.addresses \subseteq PublicAddresses

\* The credentials never leave the configured origin, also not to an allowed document
\* host or along redirects (request_headers).
CredentialsStayHome == \A s \in sent : s.authorized => origin(s.url) = origin(BaseUrl)

\* A chain of redirects ends within the configured number of hops and never leaves
\* the origin of its first request (validate_response_route, _request).
RedirectsStayHome ==
    \A s \in sent : origin(s.url) = origin(s.first) /\ s.hop <= Limits.max_redirects

\* A record stands on the very document that discovery offered under its reference,
\* although the file is replaced and a fetcher may return anything in between
\* (SnapshotExternalConnector.fetch, PublicStructuredEPDConnector.fetch, extract).
EvidenceIsPinned ==
    \A e \in extracted :
        \/ e.ref.expected = NoDigest /\ Connectors[e.connector].kind = "openepd"
        \/ \E o \in offered : o.connector = e.connector /\ o.ref = e.ref
                              /\ o.item = e.record.content

\* A connector, a request or a document that fails costs nothing but itself: at the
\* end every reference that was offered has been tried (_discover_external).
FailuresAreContained ==
    external # Pending =>
        {[connector |-> o.connector, ref |-> o.ref] : o \in offered} = tried

\* A record is admitted exactly if every record extracted under its id agrees with
\* it; which connector came first does not matter (conflicting_ids).
DisputedIsExcluded ==
    external # Pending =>
        \A e \in extracted :
            e.record \in external <=>
                \A f \in extracted : f.record.id = e.record.id => f.record = e.record

\* Whatever listings, redirects and resolvers say, a request goes to a permitted URL at
\* addresses resolved for this hop, stays at the origin of its chain and within its
\* hops, and takes the credentials home only (OutboundRequestPolicy, _request).
RequestsStayOnRoute == RoutesAreValidated /\ CredentialsStayHome /\ RedirectsStayHome

\* What fails or is disputed costs nothing but itself (_discover_external).
FailuresStayLocal == TypeOK /\ FailuresAreContained /\ DisputedIsExcluded

\* Every discovery ends, whatever fails, redirects or stays silent
\* (run_with_total_timeout; the loops of _discover_external).
EveryDiscoveryEnds == <>(external # Pending)
=============================================================================

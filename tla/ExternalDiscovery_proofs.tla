----------------------- MODULE ExternalDiscovery_proofs -----------------------
(***************************************************************************)
(* For any connectors, files, answers, redirects and limits: requests stay *)
(* on validated routes and at their origin, evidence is pinned, and what   *)
(* fails or is disputed costs nothing but itself.                          *)
(***************************************************************************)
EXTENDS ExternalDiscovery, TLAPS

-----------------------------------------------------------------------------
(* Outgoing requests.                                                      *)

\* The request under way is within its hops and at the origin where it began.
RequestInv ==
    request # NoRequest =>
        /\ request.hop \in 0..Limits.max_redirects
        /\ origin(request.url) = origin(request.first)

RouteInv == RequestInv /\ RoutesAreValidated /\ CredentialsStayHome /\ RedirectsStayHome

\* A failed request is gone and has sent nothing more.
LEMMA FailSendsNothing == Fail => request' = NoRequest /\ sent' = sent
BY DEF Fail

\* Initially nothing was sent.
LEMMA RouteInvInit == Init => RouteInv
BY DEF Init, RouteInv, RequestInv, RoutesAreValidated, CredentialsStayHome, RedirectsStayHome

\* Steps that leave the request and the history of sends alone.
LEMMA RouteInvKept ==
    ASSUME RouteInv, sent' = sent, request' = request \/ request' = NoRequest
    PROVE  RouteInv'
BY DEF RouteInv, RequestInv, RoutesAreValidated, CredentialsStayHome, RedirectsStayHome

\* The first request of a chain is at its origin.
LEMMA StartKeepsRoutes ==
    ASSUME RouteInv, sent' = sent, NEW ref, NEW url, Start(ref, url)
    PROVE  RouteInv'
BY LimitsAssumption
   DEF Start, Request, RouteInv, RequestInv, RoutesAreValidated, CredentialsStayHome,
       RedirectsStayHome

\* The hop that is sent has just been validated, and carries credentials only home.
LEMMA ResolveKeepsRoutes ==
    ASSUME RouteInv, NEW resolved, ResolveRoute(resolved)
    PROVE  RouteInv'
<1>1. CASE ~Routable(request.url, resolved)
  BY <1>1, FailSendsNothing, RouteInvKept DEF ResolveRoute
<1>2. CASE Routable(request.url, resolved)
  <2> DEFINE hop == [first |-> request.first, url |-> request.url, hop |-> request.hop,
                     addresses |-> resolved, authorized |-> request_headers(request.url)]
  <2>1. /\ request # NoRequest
        /\ request' = Request(request.ref, request.first, request.url, request.hop, "fetch", resolved)
        /\ sent' = sent \cup {hop}
    BY <1>2 DEF ResolveRoute
  <2>2. /\ request.hop \in 0..Limits.max_redirects
        /\ origin(request.url) = origin(request.first)
    BY <2>1 DEF RouteInv, RequestInv
  <2>3. RequestInv'
    BY <2>1, <2>2 DEF RequestInv, Request
  <2>4. /\ hop.url.scheme = "https" /\ ~hop.url.userinfo /\ hop.url.port = BaseUrl.port
        /\ hop.url.host \in {BaseUrl.host} \cup AllowedHosts
        /\ hop.addresses # {} /\ hop.addresses \subseteq PublicAddresses
    BY <1>2 DEF Routable, validate_url
  <2>5. hop.authorized => origin(hop.url) = origin(BaseUrl)
    BY DEF request_headers
  <2>6. origin(hop.url) = origin(hop.first) /\ hop.hop <= Limits.max_redirects
    BY <2>2, LimitsAssumption
  <2> HIDE DEF hop
  <2>7. RoutesAreValidated'
    BY <2>1, <2>4 DEF RouteInv, RoutesAreValidated
  <2>8. CredentialsStayHome'
    BY <2>1, <2>5 DEF RouteInv, CredentialsStayHome
  <2>9. RedirectsStayHome'
    BY <2>1, <2>6 DEF RouteInv, RedirectsStayHome
  <2> QED BY <2>3, <2>7, <2>8, <2>9 DEF RouteInv
<1> QED BY <1>1, <1>2

\* A redirect is followed at the origin of the request only, and within the bound.
LEMMA RespondKeepsRoutes ==
    ASSUME RouteInv, NEW e, Respond(e)
    PROVE  RouteInv'
<1>1. CASE ~(validate_response_route(request, e) /\ (e.redirect # NoUrl => MayFollow))
  BY <1>1, FailSendsNothing, RouteInvKept DEF Respond
<1>2. CASE validate_response_route(request, e) /\ (e.redirect # NoUrl => MayFollow)
  <2>1. request # NoRequest /\ sent' = sent
    BY <1>2 DEF Respond
  <2>2. request.hop \in 0..Limits.max_redirects /\ origin(request.url) = origin(request.first)
    BY <2>1 DEF RouteInv, RequestInv
  <2>3. CASE e.redirect = NoUrl
    <3>1. request' = Request(request.ref, request.first, request.url, request.hop, "consume",
                             request.addresses)
      BY <1>2, <2>3 DEF Respond
    <3> QED BY <2>1, <2>2, <3>1
            DEF RouteInv, RequestInv, Request, RoutesAreValidated, CredentialsStayHome,
                RedirectsStayHome
  <2>4. CASE e.redirect # NoUrl
    <3>1. request' = Request(request.ref, request.first, e.redirect, request.hop + 1, "resolve", {})
      BY <1>2, <2>4 DEF Respond
    <3>2. origin(e.redirect) = origin(request.url)
      BY <1>2, <2>4 DEF validate_response_route
    <3>3. request.hop + 1 \in 0..Limits.max_redirects
      BY <1>2, <2>2, <2>4, LimitsAssumption DEF MayFollow
    <3>4. RequestInv'
      BY <2>2, <3>1, <3>2, <3>3 DEF RequestInv, Request
    <3> QED BY <2>1, <3>4
            DEF RouteInv, RoutesAreValidated, CredentialsStayHome, RedirectsStayHome
  <2> QED BY <2>3, <2>4
<1> QED BY <1>1, <1>2

\* Every step keeps the routes.
LEMMA RouteInvStep == RouteInv /\ [Next]_vars => RouteInv'
<1> SUFFICES ASSUME RouteInv, [Next]_vars PROVE RouteInv'
  OBVIOUS
<1>1. CASE DiscoverSnapshot
  BY <1>1, RouteInvKept DEF DiscoverSnapshot
<1>2. CASE DiscoverOpenEPD
  BY <1>2, RouteInvKept, StartKeepsRoutes DEF DiscoverOpenEPD
<1>3. CASE Fetch
  <2>1. PICK ref \in refs : \/ FetchSnapshot(ref)
                            \/ \E a \in Answers : FetchPublic(ref, a)
                            \/ FetchOpenEPD(ref)
    BY <1>3 DEF Fetch
  <2>2. CASE FetchSnapshot(ref)
    BY <2>2, RouteInvKept DEF FetchSnapshot
  <2>3. CASE \E a \in Answers : FetchPublic(ref, a)
    BY <2>3, RouteInvKept DEF FetchPublic
  <2>4. CASE FetchOpenEPD(ref)
    BY <2>4, StartKeepsRoutes DEF FetchOpenEPD
  <2> QED BY <2>1, <2>2, <2>3, <2>4
<1>4. CASE Transport
  <2>1. CASE \E resolved \in Resolutions : ResolveRoute(resolved)
    BY <2>1, ResolveKeepsRoutes
  <2>2. CASE \E e \in Envelopes : Respond(e)
    BY <2>2, RespondKeepsRoutes
  <2>3. CASE \E body \in Listings : ReadListing(body)
    BY <2>3, FailSendsNothing, RouteInvKept DEF ReadListing
  <2>4. CASE \E body \in Documents : ReadDocument(body)
    BY <2>4, FailSendsNothing, RouteInvKept DEF ReadDocument
  <2> QED BY <1>4, <2>1, <2>2, <2>3, <2>4 DEF Transport
<1>5. CASE RequestFails
  BY <1>5, FailSendsNothing, RouteInvKept DEF RequestFails
<1>6. CASE Finish
  BY <1>6, RouteInvKept DEF Finish
<1>7. CASE \E i \in 1..Len(Connectors), contents \in Files : ChangeFile(i, contents)
  BY <1>7, RouteInvKept DEF ChangeFile
<1>8. CASE UNCHANGED vars
  BY <1>8, RouteInvKept DEF vars
<1> QED BY <1>1, <1>2, <1>3, <1>4, <1>5, <1>6, <1>7, <1>8 DEF Next

\* So the routes are kept in every state.
LEMMA RouteInvInvariant == Spec => []RouteInv
BY RouteInvInit, RouteInvStep, PTL DEF Spec

\* Every request goes to a permitted URL at addresses resolved for this hop, stays at the
\* origin of its chain and within max_redirects hops, for any value of it, and carries
\* credentials to the configured origin only (OutboundRequestPolicy, _request).
THEOREM OnRoute == Spec => []RequestsStayOnRoute
<1>1. RouteInv => RequestsStayOnRoute
  BY DEF RouteInv, RequestsStayOnRoute
<1> QED BY <1>1, RouteInvInvariant, PTL

-----------------------------------------------------------------------------
(* Evidence.                                                               *)

\* A connector offered a reference for this content.
Offered(connector, ref, content) ==
    \E o \in offered : o.connector = connector /\ o.ref = ref /\ o.item = content

\* The references that are left were offered for what they pin, and a snapshot pins
\* all of them.
RefsInv ==
    \A ref \in refs :
        /\ Offered(at, ref, ref.expected)
        /\ Connectors[at].kind # "openepd" => ref.expected # NoDigest

\* Only OpenEPD makes requests, for a reference that is left.
RequestRefInv ==
    request # NoRequest =>
        /\ Connectors[at].kind = "openepd"
        /\ ~Listing => request.ref \in refs

PinInv ==
    /\ at \in Nat \ {0}
    /\ file \in [1..Len(Connectors) -> Files]
    /\ RefsInv /\ RequestRefInv /\ EvidenceIsPinned

\* Initially no reference was offered.
LEMMA PinInvInit == Init => PinInv
BY DEF Init, PinInv, RefsInv, RequestRefInv, EvidenceIsPinned

\* Discovery offers references for what they pin.
LEMMA OfferKeepsPins ==
    ASSUME PinInv, file' = file, request' = NoRequest, NEW found, Offer(found),
           \A f \in found : /\ f.item = f.ref.expected
                            /\ Connectors[at].kind # "openepd" => f.ref.expected # NoDigest
    PROVE  PinInv'
<1>1. offered' = offered \cup {[connector |-> at, ref |-> f.ref, item |-> f.item] : f \in found}
  BY DEF Offer
<1>2. EvidenceIsPinned'
  BY <1>1 DEF PinInv, EvidenceIsPinned, Offer
<1>3. at' \in Nat \ {0}
  <2>1. Continue({f.ref : f \in found})
    BY DEF Offer
  <2>2. at' = at \/ at' = at + 1
    BY <2>1, Zenon DEF Continue
  <2> QED BY <2>2 DEF PinInv
<1>4. ASSUME NEW ref \in {f.ref : f \in found}
      PROVE  /\ \E o \in offered' : o.connector = at /\ o.ref = ref /\ o.item = ref.expected
             /\ Connectors[at].kind # "openepd" => ref.expected # NoDigest
  <2>1. PICK f \in found : ref = f.ref
    BY <1>4
  <2>2. [connector |-> at, ref |-> f.ref, item |-> f.item] \in offered'
    BY <1>1
  <2> QED BY <2>1, <2>2
<1>5. RefsInv'
  <2>1. CASE {f.ref : f \in found} = {}
    BY <2>1 DEF Offer, Continue, RefsInv
  <2>2. CASE {f.ref : f \in found} # {}
    <3>1. refs' = {f.ref : f \in found} /\ at' = at
      BY <2>2 DEF Offer, Continue
    <3> QED BY <3>1, <1>4 DEF RefsInv, Offered
  <2> QED BY <2>1, <2>2
<1> QED BY <1>2, <1>3, <1>5 DEF PinInv, RequestRefInv

\* A reference leaves the list, and with it at most its own evidence comes.
LEMMA TryKeepsPins ==
    ASSUME PinInv, file' = file, request' = NoRequest, offered' = offered,
           NEW ref, ref \in refs, Continue(refs \ {ref}),
           \A e \in extracted' \ extracted :
               /\ e.connector = at /\ e.ref = ref
               /\ \/ e.record.content = ref.expected
                  \/ ref.expected = NoDigest /\ Connectors[at].kind = "openepd"
    PROVE  PinInv'
<1>1. at' \in Nat \ {0}
  <2>1. at' = at \/ at' = at + 1
    BY Zenon DEF Continue
  <2> QED BY <2>1 DEF PinInv
<1>2. RefsInv'
  <2>1. CASE refs \ {ref} = {}
    BY <2>1 DEF Continue, RefsInv
  <2>2. CASE refs \ {ref} # {}
    <3>1. refs' = refs \ {ref} /\ at' = at
      BY <2>2 DEF Continue
    <3> QED BY <3>1 DEF PinInv, RefsInv, Offered
  <2> QED BY <2>1, <2>2
<1>3. ASSUME NEW e \in extracted'
      PROVE  \/ e.ref.expected = NoDigest /\ Connectors[e.connector].kind = "openepd"
             \/ \E o \in offered' : o.connector = e.connector /\ o.ref = e.ref
                                    /\ o.item = e.record.content
  <2>1. CASE e \in extracted
    BY <2>1 DEF PinInv, EvidenceIsPinned
  <2>2. CASE e \notin extracted
    BY <2>2 DEF PinInv, RefsInv, Offered
  <2> QED BY <2>1, <2>2
<1>4. EvidenceIsPinned'
  BY <1>3 DEF EvidenceIsPinned
<1> QED BY <1>1, <1>2, <1>4 DEF PinInv, RequestRefInv

\* A reference that is rejected was pinned like the others.
LEMMA RejectKeepsPins ==
    ASSUME PinInv, file' = file, request' = NoRequest, NEW ref, ref \in refs,
           Reject(ref)
    PROVE  PinInv'
BY TryKeepsPins DEF Reject

\* A document that is extracted is the one its reference names.
LEMMA ExtractKeepsPins ==
    ASSUME PinInv, file' = file, request' = NoRequest, NEW ref, ref \in refs,
           NEW d, Extract(ref, d),
           d.content = ref.expected \/ (ref.expected = NoDigest /\ Connectors[at].kind = "openepd")
    PROVE  PinInv'
<1>1. CASE ~Acceptable(d)
  BY <1>1, RejectKeepsPins DEF Extract
<1>2. CASE Acceptable(d)
  <2>1. \A r \in extract(d) : r.content = d.content
    BY DEF extract
  <2>2. /\ extracted' = extracted \cup
               {[connector |-> at, ref |-> ref, record |-> r] : r \in extract(d)}
        /\ Continue(refs \ {ref}) /\ offered' = offered
    BY <1>2 DEF Extract
  <2>3. \A e \in extracted' \ extracted :
            e.connector = at /\ e.ref = ref /\ e.record.content = d.content
    BY <2>1, <2>2
  <2> QED BY <2>2, <2>3, TryKeepsPins
<1> QED BY <1>1, <1>2

\* A failure leaves the references as they were, less those of its connector.
LEMMA FailKeepsPins ==
    ASSUME PinInv, file' = file, request # NoRequest, Fail
    PROVE  PinInv'
<1>1. request' = NoRequest
  BY DEF Fail
<1>2. CASE Listing
  BY <1>1, <1>2, OfferKeepsPins DEF Fail, DiscoveryFails
<1>3. CASE ~Listing
  BY <1>1, <1>3, RejectKeepsPins DEF Fail, PinInv, RequestRefInv
<1> QED BY <1>2, <1>3

\* Steps within a request, and those that touch only files.
LEMMA QuietKeepsPins ==
    ASSUME PinInv, file' \in [1..Len(Connectors) -> Files],
           UNCHANGED <<at, refs, offered, extracted>>,
           request' # NoRequest =>
               /\ Connectors[at].kind = "openepd"
               /\ ~Listing => request'.ref \in refs
    PROVE  PinInv'
BY DEF PinInv, RefsInv, RequestRefInv, EvidenceIsPinned, Offered, Listing

\* Every step keeps the pins.
LEMMA PinInvStep == PinInv /\ [Next]_vars => PinInv'
<1> SUFFICES ASSUME PinInv, [Next]_vars PROVE PinInv'
  OBVIOUS
<1>1. CASE DiscoverSnapshot
  <2>1. /\ file' = file /\ request' = NoRequest
        /\ at <= Len(Connectors) /\ Connectors[at].kind # "openepd"
    BY <1>1 DEF DiscoverSnapshot, Asking, Connector
  <2>2. CASE file[at] = Missing
    BY <1>1, <2>1, <2>2, OfferKeepsPins DEF DiscoverSnapshot, DiscoveryFails
  <2>3. CASE file[at] # Missing
    <3> DEFINE found == {[ref |-> snapshot_ref(Connector, file[at], item), item |-> item] :
                            item \in Matching(file[at])}
    <3>1. Offer(found)
      BY <1>1, <2>3 DEF DiscoverSnapshot
    <3>2. NoDigest \notin file[at]
      <4>1. at \in 1..Len(Connectors)
        BY <1>1, <2>1 DEF PinInv, Asking, DiscoverSnapshot
      <4> QED BY <2>3, <4>1, FilesAssumption DEF PinInv
    <3>3. \A f \in found : f.item = f.ref.expected /\ f.ref.expected # NoDigest
      BY <3>2 DEF snapshot_ref, Ref, Matching
    <3> HIDE DEF found
    <3> QED BY <2>1, <3>1, <3>3, OfferKeepsPins
  <2> QED BY <2>2, <2>3
<1>2. CASE DiscoverOpenEPD
  <2>1. CASE health(Connector)
    BY <1>2, <2>1, QuietKeepsPins
       DEF DiscoverOpenEPD, Start, Request, Asking, Connector, Listing, PinInv
  <2>2. CASE ~health(Connector)
    <3>1. Offer({}) /\ request' = NoRequest /\ file' = file
      BY <1>2, <2>2 DEF DiscoverOpenEPD, Asking
    <3> QED BY <3>1, OfferKeepsPins
  <2> QED BY <2>1, <2>2
<1>3. CASE Fetch
  <2>1. PICK ref \in refs : \/ FetchSnapshot(ref)
                            \/ \E a \in Answers : FetchPublic(ref, a)
                            \/ FetchOpenEPD(ref)
    BY <1>3 DEF Fetch
  <2>3. CASE FetchSnapshot(ref)
    <3>1. /\ file' = file /\ request' = NoRequest /\ ref.expected # NoDigest
      BY <2>3 DEF FetchSnapshot, Fetching, PinInv, RefsInv, Connector
    <3>2. CASE Lost(ref)
      BY <2>3, <3>1, <3>2, RejectKeepsPins DEF FetchSnapshot
    <3>3. CASE ~Lost(ref)
      <4>1. PICK item \in file[at] :
                IF ref.expected # NoDigest /\ item # ref.expected THEN Reject(ref)
                ELSE Extract(ref, Document(ref, item, item, file[at]))
        BY <2>3, <3>3 DEF FetchSnapshot
      <4>2. CASE item # ref.expected
        BY <3>1, <4>1, <4>2, RejectKeepsPins
      <4>3. CASE item = ref.expected
        <5>1. Document(ref, item, item, file[at]).content = ref.expected
          BY <4>3 DEF Document
        <5> QED BY <3>1, <4>1, <4>3, <5>1, ExtractKeepsPins
      <4> QED BY <4>2, <4>3
    <3> QED BY <3>2, <3>3
  <2>4. CASE \E a \in Answers : FetchPublic(ref, a)
    <3>1. PICK a \in Answers : FetchPublic(ref, a)
      BY <2>4
    <3> DEFINE d == IF a.own THEN Document(a.ref, a.content, a.claimed, a.snapshot)
                    ELSE Document(ref, a.content, a.content, ref.snapshot)
    <3>2. /\ file' = file /\ request' = NoRequest /\ ref.expected # NoDigest
      BY <3>1 DEF FetchPublic, Fetching, PinInv, RefsInv, Connector
    <3>3. \/ Reject(ref)
          \/ Extract(ref, d) /\ d.content = d.claimed /\ d.claimed = ref.expected
      BY <3>1, <3>2 DEF FetchPublic
    <3> HIDE DEF d
    <3> QED BY <3>2, <3>3, RejectKeepsPins, ExtractKeepsPins
  <2>5. CASE FetchOpenEPD(ref)
    BY <2>5, QuietKeepsPins DEF FetchOpenEPD, Fetching, Connector, Start, Request, PinInv
  <2> QED BY <2>1, <2>3, <2>4, <2>5
<1>4. CASE Transport
  <2>1. CASE \E resolved \in Resolutions : ResolveRoute(resolved)
    <3>1. PICK resolved \in Resolutions : ResolveRoute(resolved)
      BY <2>1
    <3>2. CASE Routable(request.url, resolved)
      BY <3>1, <3>2, QuietKeepsPins DEF ResolveRoute, Request, PinInv, RequestRefInv
    <3>3. CASE ~Routable(request.url, resolved)
      BY <3>1, <3>3, FailKeepsPins DEF ResolveRoute
    <3> QED BY <3>2, <3>3
  <2>2. CASE \E e \in Envelopes : Respond(e)
    <3>1. PICK e \in Envelopes : Respond(e)
      BY <2>2
    <3> DEFINE ok == validate_response_route(request, e) /\ (e.redirect # NoUrl => MayFollow)
    <3>2. CASE ok
      BY <3>1, <3>2, QuietKeepsPins DEF Respond, Request, PinInv, RequestRefInv
    <3>3. CASE ~ok
      BY <3>1, <3>3, FailKeepsPins DEF Respond
    <3> QED BY <3>2, <3>3
  <2>3. CASE \E body \in Listings : ReadListing(body)
    <3>1. PICK body \in Listings : ReadListing(body)
      BY <2>3
    <3> DEFINE found == {[ref |-> ref, item |-> ref.expected] : ref \in listing_refs(body.rows)}
    <3>2. file' = file /\ request # NoRequest /\ Connectors[at].kind = "openepd"
      BY <3>1 DEF ReadListing, PinInv, RequestRefInv
    <3>3. Fail \/ (Offer(found) /\ request' = NoRequest)
      BY <3>1 DEF ReadListing
    <3>4. \A f \in found : f.item = f.ref.expected
      OBVIOUS
    <3> HIDE DEF found
    <3> QED BY <3>2, <3>3, <3>4, FailKeepsPins, OfferKeepsPins
  <2>4. CASE \E body \in Documents : ReadDocument(body)
    <3>1. PICK body \in Documents : ReadDocument(body)
      BY <2>4
    <3> DEFINE d == Document(request.ref, body.content, body.content, NoDigest)
    <3>2. /\ file' = file /\ request # NoRequest /\ Connectors[at].kind = "openepd"
          /\ request.ref \in refs
      BY <3>1 DEF ReadDocument, PinInv, RequestRefInv
    <3>3. d.content = body.content
      BY DEF Document
    <3>4. \/ Fail
          \/ /\ Extract(request.ref, d) /\ request' = NoRequest
             /\ request.ref.expected # NoDigest => d.content = request.ref.expected
      BY <3>1, <3>3 DEF ReadDocument
    <3> HIDE DEF d
    <3> QED BY <3>2, <3>4, FailKeepsPins, ExtractKeepsPins
  <2> QED BY <1>4, <2>1, <2>2, <2>3, <2>4 DEF Transport
<1>5. CASE RequestFails
  BY <1>5, FailKeepsPins DEF RequestFails
<1>6. CASE Finish
  BY <1>6, QuietKeepsPins DEF Finish, PinInv, RequestRefInv
<1>7. CASE \E i \in 1..Len(Connectors), contents \in Files : ChangeFile(i, contents)
  BY <1>7, QuietKeepsPins DEF ChangeFile, PinInv, RequestRefInv
<1>8. CASE UNCHANGED vars
  BY <1>8, QuietKeepsPins DEF vars, PinInv, RequestRefInv
<1> QED BY <1>1, <1>2, <1>3, <1>4, <1>5, <1>6, <1>7, <1>8 DEF Next

\* So references are pinned in every state.
LEMMA PinInvInvariant == Spec => []PinInv
BY PinInvInit, PinInvStep, PTL DEF Spec

\* A record always stands on the document that discovery offered, for any files,
\* fetchers and answers (SnapshotExternalConnector.fetch and its kin).
THEOREM EvidencePinned == Spec => []EvidenceIsPinned
<1>1. PinInv => EvidenceIsPinned
  BY DEF PinInv
<1> QED BY <1>1, PinInvInvariant, PTL

-----------------------------------------------------------------------------
(* Failures.                                                               *)

Pair(connector, ref) == [connector |-> connector, ref |-> ref]

\* What was offered was tried or is left.
BooksInv == {Pair(o.connector, o.ref) : o \in offered} = tried \cup {Pair(at, ref) : ref \in refs}

Admitted == {e.record : e \in {f \in extracted : ~Disputed(f)}}

PlaceInv ==
    /\ at \in 1..(Len(Connectors) + 1)
    /\ refs # {} \/ request # NoRequest => at <= Len(Connectors) /\ external = Pending
    /\ request # NoRequest => request.stage \in {"resolve", "fetch", "consume"}
    /\ external # Pending => at = Len(Connectors) + 1 /\ external = Admitted

LocalInv == BooksInv /\ PlaceInv

\* Initially every connector is still to be asked.
LEMMA LocalInvInit == Init => LocalInv
BY ConnectorsAssumption DEF Init, LocalInv, BooksInv, PlaceInv, Pair

\* The connector that is asked answers, or fails to.
LEMMA OfferKeepsLocal ==
    ASSUME LocalInv, refs = {}, at <= Len(Connectors), external' = external,
           request' = NoRequest, NEW found, Offer(found)
    PROVE  LocalInv'
<1> DEFINE given == {f.ref : f \in found}
           new == {[connector |-> at, ref |-> f.ref, item |-> f.item] : f \in found}
<1>1. offered' = offered \cup new /\ tried' = tried
      /\ refs' = given /\ at' = IF given = {} THEN at + 1 ELSE at
  BY DEF Offer, Continue
<1>2. {Pair(o.connector, o.ref) : o \in new} = {Pair(at, ref) : ref \in given}
  <2>1. \A o \in new : o.connector = at /\ o.ref \in given
    OBVIOUS
  <2>2. \A ref \in given : \E o \in new : o.connector = at /\ o.ref = ref
    <3> SUFFICES ASSUME NEW f \in found
                 PROVE  \E o \in new : o.connector = at /\ o.ref = f.ref
      OBVIOUS
    <3>1. [connector |-> at, ref |-> f.ref, item |-> f.item] \in new
      OBVIOUS
    <3> HIDE DEF new
    <3> QED BY <3>1
  <2> HIDE DEF given, new
  <2>3. \A o \in new : Pair(o.connector, o.ref) \in {Pair(at, ref) : ref \in given}
    BY <2>1
  <2>4. \A ref \in given : Pair(at, ref) \in {Pair(o.connector, o.ref) : o \in new}
    BY <2>2
  <2> QED BY <2>3, <2>4
<1>3. tried = {Pair(o.connector, o.ref) : o \in offered}
  BY DEF LocalInv, BooksInv
<1>4. at \in 1..Len(Connectors) /\ external = Pending
  BY ConnectorsAssumption DEF LocalInv, PlaceInv
<1> HIDE DEF given, new
<1>5. {Pair(o.connector, o.ref) : o \in offered'} =
          {Pair(o.connector, o.ref) : o \in offered} \cup {Pair(o.connector, o.ref) : o \in new}
  BY <1>1
<1>6. {Pair(at', ref) : ref \in refs'} = {Pair(at, ref) : ref \in given}
  BY <1>1
<1>7. BooksInv'
  BY <1>1, <1>2, <1>3, <1>5, <1>6 DEF BooksInv
<1>8. PlaceInv'
  BY <1>1, <1>4, ConnectorsAssumption DEF PlaceInv
<1> QED BY <1>7, <1>8 DEF LocalInv

\* A reference is tried, with or without success.
LEMMA TryKeepsLocal ==
    ASSUME LocalInv, external' = external, request' = NoRequest, offered' = offered,
           NEW ref \in refs, Tried(ref), Continue(refs \ {ref})
    PROVE  LocalInv'
<1>1. /\ tried' = tried \cup {Pair(at, ref)} /\ refs' = refs \ {ref}
      /\ at' = IF refs \ {ref} = {} THEN at + 1 ELSE at
  BY DEF Tried, Continue, Pair
<1>2. at \in 1..Len(Connectors) /\ external = Pending
  BY ConnectorsAssumption DEF LocalInv, PlaceInv
<1>3. {Pair(at', r) : r \in refs'} = {Pair(at, r) : r \in refs \ {ref}}
  BY <1>1
<1>4. {Pair(at, r) : r \in refs} = {Pair(at, ref)} \cup {Pair(at, r) : r \in refs \ {ref}}
  OBVIOUS
<1>5. BooksInv'
  BY <1>1, <1>3, <1>4 DEF LocalInv, BooksInv
<1>6. PlaceInv'
  BY <1>1, <1>2, ConnectorsAssumption DEF PlaceInv
<1> QED BY <1>5, <1>6 DEF LocalInv

\* A rejected reference has been tried.
LEMMA RejectKeepsLocal ==
    ASSUME LocalInv, external' = external, request' = NoRequest, NEW ref \in refs, Reject(ref)
    PROVE  LocalInv'
BY TryKeepsLocal DEF Reject

\* So has one whose document was extracted.
LEMMA ExtractKeepsLocal ==
    ASSUME LocalInv, external' = external, request' = NoRequest, NEW ref \in refs, NEW d,
           Extract(ref, d)
    PROVE  LocalInv'
BY TryKeepsLocal, RejectKeepsLocal DEF Extract

\* A failure ends one connector or one reference, nothing else.
LEMMA FailKeepsLocal ==
    ASSUME LocalInv, PinInv, external' = external, request # NoRequest, Fail
    PROVE  LocalInv'
<1>1. request' = NoRequest
  BY DEF Fail
<1>2. CASE Listing
  BY <1>1, <1>2, OfferKeepsLocal DEF Fail, Listing, DiscoveryFails, LocalInv, PlaceInv
<1>3. CASE ~Listing
  BY <1>1, <1>3, RejectKeepsLocal DEF Fail, PinInv, RequestRefInv
<1> QED BY <1>2, <1>3

\* Steps within a request, and those that touch only files.
LEMMA QuietKeepsLocal ==
    ASSUME LocalInv, UNCHANGED <<at, refs, offered, tried, extracted, external>>,
           request' # NoRequest =>
               /\ at <= Len(Connectors)
               /\ request'.stage \in {"resolve", "fetch", "consume"}
    PROVE  LocalInv'
<1>1. Admitted' = Admitted
  BY DEF Admitted, Disputed
<1>2. BooksInv'
  BY DEF LocalInv, BooksInv
<1>3. request' # NoRequest => external = Pending
  BY ConnectorsAssumption DEF LocalInv, PlaceInv
<1> QED BY <1>1, <1>2, <1>3 DEF LocalInv, PlaceInv

\* No step loses a reference.
LEMMA LocalInvStep == LocalInv /\ PinInv /\ [Next]_vars => LocalInv'
<1> SUFFICES ASSUME LocalInv, PinInv, [Next]_vars PROVE LocalInv'
  OBVIOUS
<1>0. request # NoRequest => at <= Len(Connectors)
  BY DEF LocalInv, PlaceInv
<1>1. CASE DiscoverSnapshot
  BY <1>1, OfferKeepsLocal DEF DiscoverSnapshot, Asking, DiscoveryFails
<1>2. CASE DiscoverOpenEPD
  <2>1. CASE health(Connector)
    BY <1>2, <2>1, QuietKeepsLocal DEF DiscoverOpenEPD, Asking, Start, Request
  <2>2. CASE ~health(Connector)
    BY <1>2, <2>2, OfferKeepsLocal DEF DiscoverOpenEPD, Asking
  <2> QED BY <2>1, <2>2
<1>3. CASE Fetch
  <2>1. PICK ref \in refs : \/ FetchSnapshot(ref)
                            \/ \E a \in Answers : FetchPublic(ref, a)
                            \/ FetchOpenEPD(ref)
    BY <1>3 DEF Fetch
  <2>2. CASE FetchSnapshot(ref)
    <3>1. external' = external /\ request' = NoRequest
      BY <2>2 DEF FetchSnapshot, Fetching
    <3>2. Reject(ref) \/ \E d : Extract(ref, d)
      BY <2>2 DEF FetchSnapshot
    <3> QED BY <3>1, <3>2, RejectKeepsLocal, ExtractKeepsLocal
  <2>3. CASE \E a \in Answers : FetchPublic(ref, a)
    <3>1. external' = external /\ request' = NoRequest
      BY <2>3 DEF FetchPublic, Fetching
    <3>2. Reject(ref) \/ \E d : Extract(ref, d)
      BY <2>3 DEF FetchPublic
    <3> QED BY <3>1, <3>2, RejectKeepsLocal, ExtractKeepsLocal
  <2>4. CASE FetchOpenEPD(ref)
    BY <2>4, QuietKeepsLocal DEF FetchOpenEPD, Start, Request, LocalInv, PlaceInv
  <2> QED BY <2>1, <2>2, <2>3, <2>4
<1>4. CASE Transport
  <2>1. CASE \E resolved \in Resolutions : ResolveRoute(resolved)
    <3>1. PICK resolved \in Resolutions : ResolveRoute(resolved)
      BY <2>1
    <3>2. CASE Routable(request.url, resolved)
      BY <1>0, <3>1, <3>2, QuietKeepsLocal DEF ResolveRoute, Request
    <3>3. CASE ~Routable(request.url, resolved)
      BY <3>1, <3>3, FailKeepsLocal DEF ResolveRoute
    <3> QED BY <3>2, <3>3
  <2>2. CASE \E e \in Envelopes : Respond(e)
    <3>1. PICK e \in Envelopes : Respond(e)
      BY <2>2
    <3> DEFINE ok == validate_response_route(request, e) /\ (e.redirect # NoUrl => MayFollow)
    <3>2. CASE ok
      <4>1. request'.stage \in {"resolve", "consume"}
        BY <3>1, <3>2 DEF Respond, Request
      <4>2. request # NoRequest /\ UNCHANGED <<at, refs, offered, tried, extracted, external>>
        BY <3>1, <3>2 DEF Respond
      <4> QED BY <1>0, <4>1, <4>2, QuietKeepsLocal
    <3>3. CASE ~ok
      BY <3>1, <3>3, FailKeepsLocal DEF Respond
    <3> QED BY <3>2, <3>3
  <2>3. CASE \E body \in Listings : ReadListing(body)
    <3>1. PICK body \in Listings : ReadListing(body)
      BY <2>3
    <3>2. external' = external /\ request # NoRequest /\ refs = {}
      BY <3>1 DEF ReadListing, Listing
    <3>3. Fail \/ (request' = NoRequest /\ \E found : Offer(found))
      BY <3>1 DEF ReadListing
    <3> QED BY <1>0, <3>2, <3>3, FailKeepsLocal, OfferKeepsLocal
  <2>4. CASE \E body \in Documents : ReadDocument(body)
    <3>1. PICK body \in Documents : ReadDocument(body)
      BY <2>4
    <3>2. external' = external /\ request # NoRequest /\ request.ref \in refs
      BY <3>1 DEF ReadDocument, PinInv, RequestRefInv
    <3>3. Fail \/ (request' = NoRequest /\ \E d : Extract(request.ref, d))
      BY <3>1 DEF ReadDocument
    <3> QED BY <3>2, <3>3, FailKeepsLocal, ExtractKeepsLocal
  <2> QED BY <1>4, <2>1, <2>2, <2>3, <2>4 DEF Transport
<1>5. CASE RequestFails
  BY <1>5, FailKeepsLocal DEF RequestFails
<1>6. CASE Finish
  <2>1. /\ UNCHANGED <<at, refs, request, offered, tried, extracted>>
        /\ at > Len(Connectors) /\ external' = Admitted
    BY <1>6 DEF Finish, Admitted
  <2>2. at = Len(Connectors) + 1 /\ refs = {} /\ request = NoRequest
    BY <2>1, ConnectorsAssumption DEF LocalInv, PlaceInv
  <2>3. Admitted' = Admitted /\ BooksInv'
    BY <2>1 DEF Admitted, Disputed, LocalInv, BooksInv
  <2> QED BY <2>1, <2>2, <2>3, ConnectorsAssumption DEF LocalInv, PlaceInv
<1>7. CASE \E i \in 1..Len(Connectors), contents \in Files : ChangeFile(i, contents)
  BY <1>0, <1>7, QuietKeepsLocal DEF ChangeFile, LocalInv, PlaceInv
<1>8. CASE UNCHANGED vars
  BY <1>0, <1>8, QuietKeepsLocal DEF vars, LocalInv, PlaceInv
<1> QED BY <1>1, <1>2, <1>3, <1>4, <1>5, <1>6, <1>7, <1>8 DEF Next

\* What fails costs nothing but itself: whatever connectors, requests and documents fail,
\* every reference that was offered has been tried when the discovery ends, and a record
\* is admitted exactly if no other of its id disagrees (_discover_external).
THEOREM FailuresLocal == Spec => []FailuresStayLocal
<1>1. RouteInv /\ LocalInv => TypeOK
  <2> SUFFICES ASSUME RouteInv, LocalInv PROVE TypeOK
    OBVIOUS
  <2>1. external # Pending => request = NoRequest
    BY DEF LocalInv, PlaceInv
  <2> QED BY <2>1 DEF RouteInv, RequestInv, LocalInv, PlaceInv, TypeOK
<1>2. LocalInv => FailuresAreContained
  <2> SUFFICES ASSUME LocalInv, external # Pending
               PROVE  {[connector |-> o.connector, ref |-> o.ref] : o \in offered} = tried
    BY DEF FailuresAreContained
  <2>1. refs = {}
    BY DEF LocalInv, PlaceInv
  <2> QED BY <2>1 DEF LocalInv, BooksInv, Pair
<1>3. LocalInv => DisputedIsExcluded
  <2> SUFFICES ASSUME LocalInv, external # Pending, NEW e \in extracted
               PROVE  e.record \in external <=>
                          \A f \in extracted : f.record.id = e.record.id => f.record = e.record
    BY DEF DisputedIsExcluded
  <2>1. external = Admitted
    BY DEF LocalInv, PlaceInv
  <2> QED BY <2>1 DEF Admitted, Disputed
<1>4. RouteInv /\ LocalInv => FailuresStayLocal
  BY <1>1, <1>2, <1>3 DEF FailuresStayLocal
<1> QED BY <1>4, RouteInvInvariant, PinInvInvariant, LocalInvInit, LocalInvStep, PTL DEF Spec
=============================================================================

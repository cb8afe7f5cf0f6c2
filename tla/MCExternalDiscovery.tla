------------------------- MODULE MCExternalDiscovery --------------------------
(***************************************************************************)
(* OpenEPD without credentials, a snapshot, a public snapshot with a       *)
(* fetcher, and OpenEPD with one allowed document host.                    *)
(***************************************************************************)
EXTENDS ExternalDiscovery

Url(host) ==
    [scheme |-> "https", userinfo |-> FALSE, host |-> host, port |-> 443, path |-> "/"]

MCBaseUrl == Url("base")
MCAllowedHosts == {"docs"}
Documented == Url("docs")
Moved == [MCBaseUrl EXCEPT !.path = "/moved"]
Elsewhere == Url("other")

MCConnectors ==
    <<[kind |-> "openepd", provider |-> "OpenEPD", api_key |-> FALSE, bound_transports |-> TRUE],
      [kind |-> "snapshot", provider |-> "fixture"],
      [kind |-> "public", provider |-> "public"],
      [kind |-> "openepd", provider |-> "OpenEPD", api_key |-> TRUE, bound_transports |-> TRUE]>>

MCIntent == [name |-> <<"fused", "alumina">>, aliases |-> {<<"corundum">>}]

Item(row, id, name, value) ==
    [row |-> row, id |-> id, name |-> name, aliases |-> {}, kind |-> "structured_epd",
     valid |-> TRUE, value |-> value]

Fused == Item(1, 1, <<"fused", "alumina">>, "x")
White == Item(2, 2, <<"white", "fused", "alumina">>, "x")
Twin == Item(3, 1, <<"corundum">>, "y")
Clay == Item(4, 3, <<"clay">>, "x")
Broken == [Item(5, 4, <<"corundum">>, "x") EXCEPT !.valid = FALSE]

MCFiles == {Missing, {Fused, White, Clay}, {Fused, Twin, Broken}}

Answer(content) ==
    [fails |-> FALSE, own |-> FALSE, ref |-> NoRef, content |-> content, claimed |-> content,
     snapshot |-> NoDigest]

MCAnswers ==
    {Answer(Fused), Answer(Twin), [Answer(Fused) EXCEPT !.fails = TRUE],
     [Answer(White) EXCEPT !.own = TRUE, !.ref = Ref(2, "public", NoUrl, "search", NoDigest, NoDigest),
                           !.snapshot = {Fused, White, Clay}]}

Envelope(redirect, final, peer) ==
    [chain |-> FALSE, redirect |-> redirect, final |-> final, peer |-> peer]

MCEnvelopes ==
    {Envelope(NoUrl, NoUrl, "ip1"), Envelope(Moved, NoUrl, "ip1"), Envelope(Documented, NoUrl, "ip1"),
     Envelope(NoUrl, NoUrl, "ip2"), Envelope(NoUrl, Moved, "ip1"),
     [Envelope(NoUrl, NoUrl, "ip1") EXCEPT !.chain = TRUE]}

Body ==
    [json |-> TRUE, bytes |-> 1, depth |-> 1, records |-> 1, documents |-> 1, list |-> TRUE,
     rows |-> {}, content |-> Fused]

Row(id, url, sha) == [id |-> id, url |-> url, sha |-> sha]

MCListings ==
    {[Body EXCEPT !.rows = {Row(1, Documented, Fused), Row(2, Moved, NoDigest), Row(NoId, Moved, NoDigest)}],
     [Body EXCEPT !.rows = {Row(5, Elsewhere, NoDigest)}],
     [Body EXCEPT !.documents = 3], [Body EXCEPT !.list = FALSE]}

MCDocuments ==
    {Body, [Body EXCEPT !.content = [White EXCEPT !.id = NoId]], [Body EXCEPT !.bytes = 2],
     [Body EXCEPT !.json = FALSE]}

MCResolutions == {{}, {"ip1"}, {"ip1", "private"}}
MCPublicAddresses == {"ip1", "ip2"}

MCLimits ==
    [max_response_bytes |-> 1, max_json_depth |-> 2, max_records |-> 2, max_documents |-> 2,
     max_redirects |-> 2]
=============================================================================

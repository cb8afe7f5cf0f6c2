-------------------------- MODULE MCResolutionGraph ---------------------------
(***************************************************************************)
(* Small instances of ResolutionGraph.  A record is a variation of a plain *)
(* one, so that each family of records exercises one part of the graph.    *)
(***************************************************************************)
EXTENDS ResolutionGraph

Plain(id) ==
    [id |-> id, strategy |-> "exact", gates |-> TRUE, hashed |-> TRUE,
     subject |-> "material", unit |-> "target", place |-> NoPlace, route |-> "none",
     formal |-> "complete", capped |-> FALSE, low |-> FALSE, process |-> "same",
     grade |-> "unstated", other |-> FALSE, kin |-> TRUE, technical |-> FALSE,
     series |-> "none", grade_first |-> FALSE]

Complete ==
    [units |-> "consistent", place |-> NoPlace, underspecified |-> FALSE,
     subject_stated |-> TRUE, route |-> "fixed", grade |-> "none"]

\* Admission, request gaps, units and ambiguity.
AdmissionRequests ==
    {Complete, [Complete EXCEPT !.underspecified = TRUE],
     [Complete EXCEPT !.subject_stated = FALSE, !.route = "open"],
     [Complete EXCEPT !.route = "unidentified"],
     [Complete EXCEPT !.place = "p1"], [Complete EXCEPT !.units = "bad_target"],
     [Complete EXCEPT !.units = "mismatched"], [Complete EXCEPT !.units = "bad_quantity"]}

AdmissionLocal ==
    {Plain("direct"), [Plain("alias") EXCEPT !.strategy = "synonym", !.unit = "scaled"],
     [Plain("related") EXCEPT !.strategy = "related"],
     [Plain("rejected") EXCEPT !.gates = FALSE], [Plain("unhashed") EXCEPT !.hashed = FALSE],
     [Plain("energy") EXCEPT !.subject = "operational"],
     [Plain("primary") EXCEPT !.route = "primary", !.place = "p1"],
     [Plain("secondary") EXCEPT !.route = "secondary", !.place = "p2"],
     [Plain("incomplete") EXCEPT !.formal = "incomplete"],
     [Plain("unclassified") EXCEPT !.formal = "unclassified", !.other = TRUE],
     [Plain("invalid") EXCEPT !.unit = "invalid"],
     [Plain("gas") EXCEPT !.unit = "conditioned"]}

AdmissionExternal ==
    {Plain("document"), [Plain("document") EXCEPT !.capped = TRUE],
     [Plain("epd") EXCEPT !.low = TRUE, !.route = "primary"],
     [Plain("recycled") EXCEPT !.route = "secondary"],
     [Plain("tariff") EXCEPT !.subject = "operational"]}

AdmissionProxies == {[Plain("class") EXCEPT !.technical = TRUE]}

\* Reference flows, process and grade resolution, proxies.
StrategyRequests ==
    {[Complete EXCEPT !.units = u, !.grade = g, !.place = "p1", !.underspecified = s] :
        u \in {"consistent", "bridged"}, g \in {"percent", "numeric", "text"}, s \in BOOLEAN}

Graded(id, grade) ==
    [Plain(id) EXCEPT !.grade = grade, !.series = "s", !.place = "p1"]

StrategyLocal ==
    {[Plain("piece") EXCEPT !.unit = "other_dimension"],
     [Graded("low", "low") EXCEPT !.process = "different"],
     [Graded("ordered", "low") EXCEPT !.process = "different", !.grade_first = TRUE, !.low = TRUE],
     [Plain("variant") EXCEPT !.strategy = "related", !.process = "different",
                              !.unit = "other_dimension"]}

StrategySeries ==
    {Graded("anchor", "target"), [Graded("high", "high") EXCEPT !.capped = TRUE],
     [Graded("broken", "high") EXCEPT !.unit = "invalid"]}

StrategyExternal == {[Plain("found") EXCEPT !.unit = "other_dimension"]}

StrategyProxies ==
    {[Plain("bulk") EXCEPT !.unit = "other_dimension"],
     [Plain("similar") EXCEPT !.technical = TRUE, !.process = "different"]}

NoRecords == {}

\* Both families in one specification.  A request of a family meets its own records
\* only: the families exercise different parts of the graph, and mixing them would
\* only multiply the states.
Family(admission, strategy) == IF request \in AdmissionRequests THEN admission ELSE strategy

WithinFamily ==
    /\ records \subseteq Family(AdmissionLocal \cup AdmissionExternal \cup AdmissionProxies,
                               StrategyLocal \cup StrategyExternal \cup StrategyProxies)
    /\ Cardinality(records) <= Family(3, 2)
    /\ \A c \in candidates : c.source \in SeriesRecords => request \in StrategyRequests

MCNext == Next /\ WithinFamily'

MCSpec == Init /\ [][MCNext]_vars /\ WF_vars(MCNext)

MCRequests == AdmissionRequests \cup StrategyRequests
MCLocal == AdmissionLocal \cup StrategyLocal
MCExternal == AdmissionExternal \cup StrategyExternal
MCProxies == AdmissionProxies \cup StrategyProxies
=============================================================================

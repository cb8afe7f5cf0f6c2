-------------------------- MODULE MCReviewWorkflow ---------------------------
(***************************************************************************)
(* A small instance of ReviewWorkflow.  The contents are what the TopK     *)
(* stage can produce: formal candidates are PRIMARY or USABLE_WITH_        *)
(* ASSUMPTIONS, reviewable ones REFERENCE_ONLY, and the tier of a          *)
(* candidate without mandatory evidence is capped to REFERENCE_ONLY.       *)
(*                                                                         *)
(* Two families of behaviours in one specification: many calls that race   *)
(* for a content with two formal candidates, and fewer calls that meet     *)
(* every content, mode and note.                                           *)
(***************************************************************************)
EXTENDS ReviewWorkflow, TLC

CONSTANTS c1, c2, r1, v1, v2

Item(listed, tier, incomplete) ==
    [listed |-> listed, tier |-> tier, incomplete |-> incomplete,
     hard |-> FALSE, total_consistent |-> TRUE]

Primary == Item("candidates", "PRIMARY_RECOMMENDATION", FALSE)
Assumed == Item("candidates", "USABLE_WITH_ASSUMPTIONS", FALSE)
Reference == Item("reviewable_candidates", "REFERENCE_ONLY", FALSE)
Incomplete == Item("reviewable_candidates", "REFERENCE_ONLY", TRUE)
Missing == Item("nowhere", "REFERENCE_ONLY", FALSE)

Result(status, i1, i2, anchored) ==
    [status |-> status, item |-> (c1 :> i1 @@ c2 :> i2), anchored |-> anchored]

\* Two formal candidates: the content in which decisions race.
RaceContents == {Result("recommendation_ready", Primary, Primary, TRUE)}

\* One content per gate that approve() and lock() apply.
GateContents ==
    {Result("recommendation_ready", Primary, Assumed, TRUE),
     Result("recommendation_ready", Assumed, Reference, TRUE),
     Result("reference_review_required", Reference, Incomplete, TRUE),
     Result("more_input_needed", Reference, Missing, TRUE),
     Result("unresolved", Missing, Missing, TRUE),
     Result("recommendation_ready", Primary, Missing, FALSE)}

Op(kind, c, v, note, mode, expected) ==
    [kind |-> kind, request |-> r1, candidate |-> c, reviewer |-> v,
     note |-> note, mode |-> mode, expected |-> expected]

Plain(kind, c, v, expected) == Op(kind, c, v, "blank", "standard", expected)

RaceOperations ==
    {Plain("resolve", c1, v1, AnyRevision), Plain("annotate", c1, v1, AnyRevision),
     Plain("approve", c1, v1, AnyRevision), Plain("approve", c1, v2, AnyRevision),
     Plain("approve", c2, v1, AnyRevision), Plain("approve", c2, v1, 1),
     Plain("reject", c1, v1, AnyRevision), Plain("reject", c2, v1, AnyRevision),
     Plain("lock", c1, v1, AnyRevision), Plain("lock", c1, v2, 2),
     Plain("lock", c2, v1, AnyRevision)}

GateOperations ==
    {Plain("resolve", c1, v1, AnyRevision), Plain("lock", c1, v1, AnyRevision),
     Plain("lock", c2, v1, AnyRevision), Plain("reject", c2, v1, AnyRevision)}
    \cup {Op("approve", c, v1, note, mode, AnyRevision) :
             c \in {c1, c2}, note \in Notes, mode \in ApprovalMode}

-----------------------------------------------------------------------------
MCContents == RaceContents \cup GateContents
MCOperations == RaceOperations \cup GateOperations

\* Calls of the second family.
MaxGateCalls == 3

Made == {k \in Calls : op[k] # NoOperation}

Racing ==
    /\ \A k \in Made : op[k] \in RaceOperations
    /\ \A r \in Requests : get_recommendation(r) \in RaceContents \cup {NoContent}

Gated ==
    /\ Made \subseteq 1 .. MaxGateCalls
    /\ \A k \in Made : op[k] \in GateOperations
    /\ \A r \in Requests : get_recommendation(r) \in GateContents \cup {NoContent}

\* Calls are interchangeable, and Invoke touches no shared state: it is enough that they
\* begin in a fixed order of their operations.
Kinds == [resolve |-> 1, annotate |-> 2, approve |-> 3, reject |-> 4, lock |-> 5]

One(b) == IF b THEN 1 ELSE 0

Modes == [standard |-> 0, assumption_acceptance |-> 1, reference_override |-> 2]

Rank(o) == 100 * Kinds[o.kind] + 10 * Modes[o.mode] + 8 * One(o.candidate = c2)
           + 4 * One(o.reviewer = v2) + 2 * One(o.note = "reason") + One(o.expected # AnyRevision)

Sorted ==
    \A k \in Made : \A j \in 1 .. k - 1 : j \in Made /\ Rank(op[j]) <= Rank(op[k])

MCSpec == Init /\ [][Next /\ (Sorted /\ (Racing \/ Gated))']_vars /\ Fairness

=============================================================================

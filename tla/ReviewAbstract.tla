--------------------------- MODULE ReviewAbstract ----------------------------
(***************************************************************************)
(* What human review of a resolution promises (the state machine of        *)
(* CFR_REVIEW_WORKFLOW_STATE_MACHINE_V1, as the store enforces it): a      *)
(* request is opened once; each candidate gets at most one decision; at    *)
(* most one candidate is approved; the approved candidate may be locked,   *)
(* after which only annotations follow.  Every step appends exactly one    *)
(* entry to the request's audit trail, and a step that only reads, retries *)
(* or refuses changes nothing.                                             *)
(***************************************************************************)
EXTENDS Sequences

CONSTANTS Requests, Candidates

VARIABLES audit,     \* per request: the kinds of its audit entries, in order
          decision,  \* per request and candidate: its decision, if any
          sealed     \* the pairs of a request and its locked candidate

vars == <<audit, decision, sealed>>

Init ==
    /\ audit = [r \in Requests |-> <<>>]
    /\ decision = [r \in Requests |-> [c \in Candidates |-> "undecided"]]
    /\ sealed = {}

Locked(r) == \E c \in Candidates : <<r, c>> \in sealed

Selected(r) == \E c \in Candidates : decision[r][c] = "approved"

Record(r, kind) == audit' = [audit EXCEPT ![r] = Append(@, kind)]

Open(r) ==
    /\ audit[r] = <<>>
    /\ Record(r, "resolution")
    /\ UNCHANGED <<decision, sealed>>

Annotate(r) ==
    /\ audit[r] # <<>>
    /\ Record(r, "annotation")
    /\ UNCHANGED <<decision, sealed>>

Decide(r, c, status) ==
    /\ audit[r] # <<>>
    /\ ~Locked(r)
    /\ decision[r][c] = "undecided"
    /\ status = "approved" => ~Selected(r)
    /\ decision' = [decision EXCEPT ![r][c] = status]
    /\ Record(r, "human_approval")
    /\ UNCHANGED sealed

Lock(r, c) ==
    /\ ~Locked(r)
    /\ decision[r][c] = "approved"
    /\ sealed' = sealed \cup {<<r, c>>}
    /\ Record(r, "lock")
    /\ UNCHANGED decision

Next ==
    \E r \in Requests :
        \/ Open(r)
        \/ Annotate(r)
        \/ \E c \in Candidates :
              Decide(r, c, "approved") \/ Decide(r, c, "rejected") \/ Lock(r, c)

Spec == Init /\ [][Next]_vars

=============================================================================

--------------------------- MODULE ResolutionStore ---------------------------
(***************************************************************************)
(* The resolution store of the Carbon Factor Resolver                      *)
(* (adapters.InMemoryResolutionStore, the reference implementation of      *)
(* ports.ResolutionStorePort): recommendations, live traces, human         *)
(* decisions and locks, with the checks every save performs before it      *)
(* commits.  Each save holds an asyncio lock and does not suspend between  *)
(* its first check and its last assignment, so it is one atomic step; what *)
(* calls it, and what happens between two saves, is in ReviewWorkflow.     *)
(*                                                                         *)
(* Digests are collision-free: the digest of a value is the value itself.  *)
(* An entry's hash covers its time, so an entry also carries the call that *)
(* wrote it, and the chain hash of a trace prefix is that prefix.          *)
(***************************************************************************)
EXTENDS Integers, Sequences

CONSTANTS Requests,    \* request identifiers
          Candidates,  \* candidate identifiers
          Reviewers,   \* verified reviewer identities
          Calls,       \* client calls; a call is one invocation of the engine
          Contents,    \* the contents a finished resolution run may have
          NoContent    \* marks a request without a stored run

VARIABLES recommendations,  \* per request: the stored content and its trace
          traces,           \* per request: the live, appendable trace
          approvals,        \* the stored human decisions
          locked            \* the stored locks

storeVars == <<recommendations, traces, approvals, locked>>

-----------------------------------------------------------------------------
(* Values                                                                  *)

\* The statuses that review tells apart; "unresolved" stands for every status
\* that cannot be approved and asks the caller for nothing.
ResolutionStatus == {"recommendation_ready", "reference_review_required",
                     "more_input_needed", "unresolved"}
ResultTier == {"PRIMARY_RECOMMENDATION", "USABLE_WITH_ASSUMPTIONS", "REFERENCE_ONLY"}
ApprovalMode == {"standard", "assumption_acceptance", "reference_override"}
DecisionStatus == {"approved", "rejected"}
Notes == {"blank", "reason"}

\* What approval and locking read of a candidate: the list that offers it, its
\* tier, whether mandatory formal evidence is missing, whether a hard gap blocks
\* it, whether its total equals factor times quantity.
Candidate == [listed : {"candidates", "reviewable_candidates", "nowhere"},
              tier : ResultTier, incomplete : BOOLEAN, hard : BOOLEAN,
              total_consistent : BOOLEAN]

\* A recommendation without its trace; "anchored" says that the catalogue anchor
\* was recorded, so that all three integrity anchors exist.
Content == [status : ResolutionStatus, item : [Candidates -> Candidate],
            anchored : BOOLEAN]

Event == [stage : {"resolution", "human_approval", "lock", "annotation"},
          by : Calls, status : DecisionStatus \cup {"locked", "none"},
          candidate : Candidates, reviewer : Reviewers, note : Notes,
          mode : ApprovalMode]

ApprovalRecord == [request : Requests, candidate : Candidates,
                   reviewer : Reviewers, status : DecisionStatus, note : Notes,
                   mode : ApprovalMode, content : Contents,
                   trace_revision : Nat, trace_chain : Seq(Event)]

\* A lock embeds the stored decision (in the code with status LOCKED, which the
\* record type implies here) and freezes the trace as its evidence snapshot.
LockedResolution == [request : Requests, candidate : Candidates,
                     reviewer : Reviewers, approval : ApprovalRecord,
                     content : Contents, snapshot : Seq(Event)]

ASSUME ContentsAssumption == Contents \subseteq Content
ASSUME NoContentAssumption == NoContent \notin Contents

-----------------------------------------------------------------------------
(* Reads                                                                   *)

has_resolution_run(r) == recommendations[r].content # NoContent

get_recommendation(r) == recommendations[r].content

get_approval(r, c) == {a \in approvals : a.request = r /\ a.candidate = c}

get_locked(r) == {l \in locked : l.request = r}

Listed(content, c) == content.item[c].listed # "nowhere"

\* The immutable prefix of a trace that a decision was bound to.
Prefix(trace, revision) == SubSeq(trace, 1, revision)

matches_decision(a, b) ==
    /\ a.status = b.status
    /\ a.reviewer = b.reviewer
    /\ a.note = b.note
    /\ a.mode = b.mode

-----------------------------------------------------------------------------
(* Writes.  A verdict names what a save does in the current state: "commit",*)
(* "existing" (return the object stored before) or the error it raises.    *)

StoreTrace(r, trace) ==
    /\ traces' = [traces EXCEPT ![r] = trace]
    /\ recommendations' = [recommendations EXCEPT ![r].trace = trace]

\* Faulty variant: the duplicate check is not repeated inside the save.
SaveRunVerdict_Unchecked(r) == "commit"

SaveRunVerdict(r) == IF has_resolution_run(r) THEN "ValueError" ELSE "commit"

CommitRun(r, content, trace) ==
    /\ recommendations' = [recommendations EXCEPT
                             ![r] = [content |-> content, trace |-> trace]]
    /\ traces' = [traces EXCEPT ![r] = trace]
    /\ UNCHANGED <<approvals, locked>>

\* Faulty variant: the incoming trace need not extend the stored one.
SaveTraceVerdict_NoPrefix(r, trace) ==
    IF ~has_resolution_run(r) \/ Len(trace) < Len(traces[r])
    THEN "ValueError" ELSE "commit"

SaveTraceVerdict(r, trace) ==
    IF \/ ~has_resolution_run(r)
       \/ Len(trace) < Len(traces[r])
       \/ Prefix(trace, Len(traces[r])) # traces[r]
    THEN "ValueError" ELSE "commit"

CommitTrace(r, trace) == StoreTrace(r, trace) /\ UNCHANGED <<approvals, locked>>

\* The incoming trace is the stored one plus one event.
AppendsOne(r, trace, revision) ==
    /\ Len(trace) = revision + 1
    /\ Prefix(trace, revision) = traces[r]

\* The event that a decision must have appended.
DecisionEvent(a, call) ==
    [stage |-> "human_approval", by |-> call, status |-> a.status,
     candidate |-> a.candidate, reviewer |-> a.reviewer, note |-> a.note,
     mode |-> a.mode]

\* The event that a lock must have appended; an override's reason is repeated.
LockEvent(a, reviewer, call) ==
    [stage |-> "lock", by |-> call, status |-> "locked",
     candidate |-> a.candidate, reviewer |-> reviewer,
     note |-> IF a.mode = "reference_override" THEN a.note ELSE "blank",
     mode |-> a.mode]

ApprovalBound(a, trace) ==
    /\ trace[Len(trace)] = DecisionEvent(a, trace[Len(trace)].by)
    /\ Listed(get_recommendation(a.request), a.candidate)
    /\ a.content = get_recommendation(a.request)
    /\ a.trace_revision = Len(trace)
    /\ a.trace_chain = trace

\* Faulty variant: the commit does not look for another approved candidate.
OneApproved_Unchecked(r) == FALSE

OneApproved(r) == \E b \in approvals : b.request = r /\ b.status = "approved"

SaveApprovalVerdict(a, trace, content, revision) ==
    LET r == a.request
        existing == get_approval(r, a.candidate)
    IN  IF ~has_resolution_run(r) THEN "Conflict"
        ELSE IF Len(traces[r]) # revision THEN "Stale"
        ELSE IF \E b \in existing : ~matches_decision(b, a) THEN "Conflict"
        ELSE IF \E b \in existing : b.content # a.content THEN "Integrity"
        ELSE IF existing # {} THEN "existing"
        ELSE IF get_locked(r) # {} THEN "Conflict"
        ELSE IF get_recommendation(r) # content THEN "Conflict"
        ELSE IF ~AppendsOne(r, trace, revision) THEN "Integrity"
        ELSE IF a.status = "rejected" /\ a.mode # "standard" THEN "Conflict"
        ELSE IF a.status = "approved" /\ OneApproved(r) THEN "Conflict"
        ELSE IF ~ApprovalBound(a, trace) THEN "Integrity"
        ELSE "commit"

\* Faulty variant: the decision is stored and its trace event is lost.
CommitApproval_NoTrace(a, trace) ==
    /\ approvals' = (approvals \ get_approval(a.request, a.candidate)) \cup {a}
    /\ UNCHANGED <<recommendations, traces, locked>>

CommitApproval(a, trace) ==
    /\ approvals' = (approvals \ get_approval(a.request, a.candidate)) \cup {a}
    /\ StoreTrace(a.request, trace)
    /\ UNCHANGED locked

LockBound(l, trace) ==
    /\ Listed(get_recommendation(l.request), l.candidate)
    /\ l.content = get_recommendation(l.request)
    /\ l.snapshot = trace
    /\ trace[Len(trace)] = LockEvent(l.approval, l.reviewer, trace[Len(trace)].by)

SaveLockedVerdict(l, trace, content, revision) ==
    LET r == l.request
        existing == get_locked(r)
    IN  IF ~has_resolution_run(r) THEN "Conflict"
        ELSE IF Len(traces[r]) # revision THEN "Stale"
        ELSE IF \E m \in existing : m.candidate # l.candidate THEN "Conflict"
        ELSE IF existing # {} THEN "existing"
        ELSE IF get_recommendation(r) # content THEN "Conflict"
        ELSE IF ~AppendsOne(r, trace, revision) THEN "Integrity"
        ELSE IF get_approval(r, l.candidate) # {l.approval} THEN "Integrity"
        ELSE IF ~LockBound(l, trace) THEN "Integrity"
        ELSE "commit"

CommitLock(l, trace) ==
    /\ locked' = (locked \ get_locked(l.request)) \cup {l}
    /\ StoreTrace(l.request, trace)
    /\ UNCHANGED approvals

-----------------------------------------------------------------------------
StoreInit ==
    /\ recommendations = [r \in Requests |-> [content |-> NoContent, trace |-> <<>>]]
    /\ traces = [r \in Requests |-> <<>>]
    /\ approvals = {}
    /\ locked = {}

StoreTypeOK ==
    /\ recommendations \in [Requests -> [content : Contents \cup {NoContent},
                                         trace : Seq(Event)]]
    /\ traces \in [Requests -> Seq(Event)]
    /\ approvals \subseteq ApprovalRecord
    /\ locked \subseteq LockedResolution

=============================================================================

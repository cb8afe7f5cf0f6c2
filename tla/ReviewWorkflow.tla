--------------------------- MODULE ReviewWorkflow ----------------------------
(***************************************************************************)
(* The engine's operations on the resolution store: resolve, approve,      *)
(* reject, lock and trace annotation (engine.A1FactorResolutionEngine), as *)
(* calls that run concurrently.  ResolutionStorePort is asynchronous, so   *)
(* every await on it is a point where other calls may run: a call takes    *)
(* one step per await, keeps what it has read in local variables ("seen"), *)
(* and may be cancelled between two steps.  The engine keeps no review     *)
(* state of its own, so rebuilding it over the same store changes nothing. *)
(***************************************************************************)
EXTENDS ResolutionStore

CONSTANTS Operations,   \* what clients may ask for
          NoOperation,  \* the operation of a call that was not made yet
          MaxAttempts   \* attempts to commit against a moving trace (8 in the code)

VARIABLES pc,       \* per call: the await it has reached
          op,       \* per call: the operation it executes
          seen,     \* per call: what it has read from the store so far
          outcome,  \* per call: how it ended
          answer    \* per call: the object it returned, if any

callVars == <<pc, op, seen, outcome, answer>>
vars == <<storeVars, callVars>>

AnyRevision == -1  \* no expected_trace_revision was supplied

Operation == [kind : {"resolve", "approve", "reject", "lock", "annotate"},
              request : Requests, candidate : Candidates, reviewer : Reviewers,
              note : Notes, mode : ApprovalMode, expected : Nat \cup {AnyRevision}]

ASSUME OperationsAssumption == Operations \subseteq Operation
ASSUME NoOperationAssumption == NoOperation \notin Operations
ASSUME MaxAttemptsAssumption == MaxAttempts \in Nat \ {0}

Decisions == {"approve", "reject"}
Errors == {"KeyError", "ValueError", "Conflict", "Stale", "Integrity"}
Labels == {"idle", "has_run", "recommendation", "revision", "existing",
           "locked", "approval", "candidate", "trace", "commit", "done", "cancelled"}

\* The locals of a call: the recommendation, approval and trace it has read, and
\* the number of failed attempts to commit.
Locals == [content : Contents \cup {NoContent}, approval : SUBSET ApprovalRecord,
           trace : Seq(Event), attempt : 0 .. MaxAttempts - 1]

\* The locals of a call that has read nothing.
Blank == [content |-> NoContent, approval |-> {}, trace |-> <<>>, attempt |-> 0]

-----------------------------------------------------------------------------
(* Eligibility gates                                                       *)

RequiresOverride(content, c) ==
    \/ content.item[c].listed = "reviewable_candidates"
    \/ content.status = "reference_review_required"

\* The error approve() raises on what it has read, or "none".
ApproveError(content, o) ==
    IF content = NoContent THEN "KeyError"
    ELSE IF content.status \notin {"recommendation_ready", "reference_review_required"}
         THEN "ValueError"
    ELSE IF ~Listed(content, o.candidate) THEN "KeyError"
    ELSE LET item == content.item[o.candidate] IN
         IF \/ RequiresOverride(content, o.candidate) /\ o.mode # "reference_override"
            \/ item.incomplete
            \/ item.hard
            \/ /\ item.tier = "REFERENCE_ONLY"
               /\ o.mode # "reference_override" \/ o.note = "blank"
            \/ item.tier = "USABLE_WITH_ASSUMPTIONS" /\ o.mode = "standard"
         THEN "ValueError" ELSE "none"

RejectError(content, o) ==
    IF content = NoContent THEN "KeyError"
    ELSE IF ~Listed(content, o.candidate) THEN "KeyError" ELSE "none"

\* Faulty variant: accepted assumptions are recognised by one mode only, although
\* approve() also admits an override.
LockError_OneMode(content, o, approval) ==
    IF content = NoContent THEN "KeyError"
    ELSE IF ~Listed(content, o.candidate) THEN "KeyError"
    ELSE LET item == content.item[o.candidate] IN
         IF \/ item.incomplete
            \/ item.hard
            \/ item.tier = "REFERENCE_ONLY" /\ approval.mode # "reference_override"
            \/ /\ item.tier = "USABLE_WITH_ASSUMPTIONS"
               /\ approval.mode # "assumption_acceptance"
            \/ ~item.total_consistent
         THEN "ValueError"
         ELSE IF approval.content # content THEN "Integrity" ELSE "none"

\* The error lock() raises for the approval and the recommendation it has read.
LockError(content, o, approval) ==
    IF content = NoContent THEN "KeyError"
    ELSE IF ~Listed(content, o.candidate) THEN "KeyError"
    ELSE LET item == content.item[o.candidate] IN
         IF \/ item.incomplete
            \/ item.hard
            \/ item.tier = "REFERENCE_ONLY" /\ approval.mode # "reference_override"
            \/ item.tier = "USABLE_WITH_ASSUMPTIONS" /\ approval.mode = "standard"
            \/ ~item.total_consistent
         THEN "ValueError"
         ELSE IF approval.content # content THEN "Integrity" ELSE "none"

-----------------------------------------------------------------------------
(* The objects a call builds from what it has read                         *)

SeenApproval(k) == CHOOSE a \in seen[k].approval : TRUE

\* The decision of a call; reject() always decides in standard mode.
Decided(k) == IF op[k].kind = "approve" THEN "approved" ELSE "rejected"
DecidedMode(k) == IF op[k].kind = "approve" THEN op[k].mode ELSE "standard"

PlainEvent(k, stage) ==
    [stage |-> stage, by |-> k, status |-> "none", candidate |-> op[k].candidate,
     reviewer |-> op[k].reviewer, note |-> op[k].note, mode |-> op[k].mode]

DecisionTrace(k) ==
    Append(seen[k].trace,
           [stage |-> "human_approval", by |-> k, status |-> Decided(k),
            candidate |-> op[k].candidate, reviewer |-> op[k].reviewer,
            note |-> op[k].note, mode |-> DecidedMode(k)])

bound_approval(k) ==
    [request |-> op[k].request, candidate |-> op[k].candidate,
     reviewer |-> op[k].reviewer, status |-> Decided(k), note |-> op[k].note,
     mode |-> DecidedMode(k), content |-> seen[k].content,
     trace_revision |-> Len(DecisionTrace(k)), trace_chain |-> DecisionTrace(k)]

LockTrace(k) ==
    Append(seen[k].trace, LockEvent(SeenApproval(k), op[k].reviewer, k))

locked_resolution(k) ==
    [request |-> op[k].request, candidate |-> op[k].candidate,
     reviewer |-> op[k].reviewer, approval |-> SeenApproval(k),
     content |-> seen[k].content, snapshot |-> LockTrace(k)]

\* The decision a call asks for is the one already stored.
SameDecision(k, a) ==
    matches_decision(a, [status |-> Decided(k), reviewer |-> op[k].reviewer,
                         note |-> op[k].note, mode |-> DecidedMode(k)])

-----------------------------------------------------------------------------
(* Steps of a call                                                         *)

At(k, label) == pc[k] = label

Goto(k, label) ==
    /\ pc' = [pc EXCEPT ![k] = label]
    /\ UNCHANGED <<op, outcome, answer>>

\* The call ends: it raises an error, or returns an object.
Finish(k, how, objects) ==
    /\ pc' = [pc EXCEPT ![k] = "done"]
    /\ outcome' = [outcome EXCEPT ![k] = how]
    /\ answer' = [answer EXCEPT ![k] = objects]
    /\ seen' = [seen EXCEPT ![k] = Blank]
    /\ UNCHANGED op

Raise(k, error) == Finish(k, error, {}) /\ UNCHANGED storeVars

FirstLabel(o) ==
    CASE o.kind = "resolve" -> "has_run"
      [] o.kind \in Decisions -> "recommendation"
      [] o.kind = "annotate" -> "trace"
      [] o.kind = "lock" -> IF o.expected = AnyRevision THEN "locked" ELSE "revision"

Invoke(k, o) ==
    /\ At(k, "idle")
    /\ pc' = [pc EXCEPT ![k] = FirstLabel(o)]
    /\ op' = [op EXCEPT ![k] = o]
    /\ UNCHANGED <<storeVars, seen, outcome, answer>>

\* resolve(): refuse a used request id, then run the graph, which ends with some
\* recommendation content.
CheckNewRun(k) ==
    /\ At(k, "has_run")
    /\ \/ has_resolution_run(op[k].request) /\ Raise(k, "ValueError")
       \/ /\ ~has_resolution_run(op[k].request)
          /\ \E content \in Contents :
                seen' = [seen EXCEPT ![k].content = content]
          /\ Goto(k, "commit")
          /\ UNCHANGED storeVars

\* approve() and reject(): read the recommendation and apply the gates.
ReadRecommendation(k) ==
    /\ At(k, "recommendation")
    /\ LET content == get_recommendation(op[k].request)
           error == IF op[k].kind = "approve" THEN ApproveError(content, op[k])
                                              ELSE RejectError(content, op[k])
       IN \/ error # "none" /\ Raise(k, error)
          \/ /\ error = "none"
             /\ seen' = [seen EXCEPT ![k].content = content]
             /\ Goto(k, IF op[k].expected = AnyRevision THEN "existing" ELSE "revision")
             /\ UNCHANGED storeVars

\* An explicit expected_trace_revision is compared before anything else.
CheckRevision(k) ==
    /\ At(k, "revision")
    /\ \/ ~has_resolution_run(op[k].request) /\ Raise(k, "KeyError")
       \/ /\ has_resolution_run(op[k].request)
          /\ Len(traces[op[k].request]) # op[k].expected
          /\ Raise(k, "Stale")
       \/ /\ has_resolution_run(op[k].request)
          /\ Len(traces[op[k].request]) = op[k].expected
          /\ Goto(k, IF op[k].kind = "lock" THEN "locked" ELSE "existing")
          /\ UNCHANGED <<storeVars, seen>>

\* A stored decision for the candidate ends the call: replay or conflict.
ReadExisting(k) ==
    /\ At(k, "existing")
    /\ LET existing == get_approval(op[k].request, op[k].candidate)
       IN \/ /\ existing = {}
             /\ Goto(k, "trace")
             /\ UNCHANGED <<storeVars, seen>>
          \/ /\ existing # {}
             /\ \A a \in existing : SameDecision(k, a)
             /\ Finish(k, "returned", existing)
             /\ UNCHANGED storeVars
          \/ /\ \E a \in existing : ~SameDecision(k, a)
             /\ Raise(k, "Conflict")

\* lock(): a stored lock ends the call, whoever the reviewer is.
ReadLocked(k) ==
    /\ At(k, "locked")
    /\ LET existing == get_locked(op[k].request)
       IN \/ /\ existing = {}
             /\ Goto(k, "approval")
             /\ UNCHANGED <<storeVars, seen>>
          \/ /\ existing # {}
             /\ \A l \in existing : l.candidate = op[k].candidate
             /\ Finish(k, "returned", existing)
             /\ UNCHANGED storeVars
          \/ /\ \E l \in existing : l.candidate # op[k].candidate
             /\ Raise(k, "Conflict")

\* Faulty variant: any stored decision lets the candidate be locked.
ReadApproval_AnyStatus(k) ==
    /\ At(k, "approval")
    /\ LET approval == get_approval(op[k].request, op[k].candidate)
       IN \/ approval = {} /\ Raise(k, "Conflict")
          \/ /\ approval # {}
             /\ seen' = [seen EXCEPT ![k].approval = approval]
             /\ Goto(k, "candidate")
             /\ UNCHANGED storeVars

ReadApproval(k) ==
    /\ At(k, "approval")
    /\ LET approval == get_approval(op[k].request, op[k].candidate)
       IN \/ /\ ~\E a \in approval : a.status = "approved"
             /\ Raise(k, "Conflict")
          \/ /\ \E a \in approval : a.status = "approved"
             /\ seen' = [seen EXCEPT ![k].approval = approval]
             /\ Goto(k, "candidate")
             /\ UNCHANGED storeVars

CheckCandidate(k) ==
    /\ At(k, "candidate")
    /\ LET content == get_recommendation(op[k].request)
           error == LockError(content, op[k], SeenApproval(k))
       IN IF error # "none" THEN Raise(k, error)
          ELSE /\ seen' = [seen EXCEPT ![k].content = content]
               /\ Goto(k, "trace")
               /\ UNCHANGED storeVars

\* Faulty variant: the loop trusts the comparison made before it.
TraceError_NoRevision(k, trace) ==
    IF ~has_resolution_run(op[k].request) THEN "KeyError"
    ELSE IF op[k].kind \in Decisions /\ ~seen[k].content.anchored THEN "ValueError"
    ELSE "none"

\* A decision needs all three anchors; a lock needs the approval's trace prefix.
TraceError(k, trace) ==
    IF ~has_resolution_run(op[k].request) THEN "KeyError"
    ELSE IF op[k].expected # AnyRevision /\ Len(trace) # op[k].expected THEN "Stale"
    ELSE IF op[k].kind \in Decisions /\ ~seen[k].content.anchored THEN "ValueError"
    ELSE IF op[k].kind # "lock" THEN "none"
    ELSE IF LET a == SeenApproval(k)
            IN  /\ a.trace_revision \in 1 .. Len(trace)
                /\ a.trace_chain = Prefix(trace, a.trace_revision)
         THEN "none" ELSE "Integrity"

\* The head of the commit loop: read the live trace and build the new objects.
GetTrace(k) ==
    /\ At(k, "trace")
    /\ LET trace == traces[op[k].request]
           error == TraceError(k, trace)
       IN \/ error # "none" /\ Raise(k, error)
          \/ /\ error = "none"
             /\ seen' = [seen EXCEPT ![k].trace = trace]
             /\ Goto(k, "commit")
             /\ UNCHANGED storeVars

Retries_Unbounded(k) == op[k].expected = AnyRevision

Retry_WithoutRead(k) == Goto(k, "commit") /\ UNCHANGED <<storeVars, seen>>

\* The store saw another revision: go round again, unless the caller named the
\* revision or this was the last attempt.
Retries(k) == op[k].expected = AnyRevision /\ seen[k].attempt < MaxAttempts - 1

Retry(k) ==
    /\ seen' = [seen EXCEPT ![k] = [content |-> @.content, approval |-> @.approval,
                                    trace |-> <<>>, attempt |-> @.attempt + 1]]
    /\ Goto(k, "trace")
    /\ UNCHANGED storeVars

CommitDecision(k) ==
    /\ At(k, "commit") /\ op[k].kind \in Decisions
    /\ LET a == bound_approval(k)
           verdict == SaveApprovalVerdict(a, DecisionTrace(k), seen[k].content,
                                          Len(seen[k].trace))
       IN \/ verdict = "Stale" /\ Retries(k) /\ Retry(k)
          \/ /\ verdict \in Errors /\ ~(verdict = "Stale" /\ Retries(k))
             /\ Raise(k, verdict)
          \/ /\ verdict = "existing"
             /\ Finish(k, "returned", get_approval(a.request, a.candidate))
             /\ UNCHANGED storeVars
          \/ /\ verdict = "commit"
             /\ CommitApproval(a, DecisionTrace(k))
             /\ Finish(k, "returned", {a})

CommitLocked(k) ==
    /\ At(k, "commit") /\ op[k].kind = "lock"
    /\ LET l == locked_resolution(k)
           verdict == SaveLockedVerdict(l, LockTrace(k), seen[k].content,
                                        Len(seen[k].trace))
       IN \/ verdict = "Stale" /\ Retries(k) /\ Retry(k)
          \/ /\ verdict \in Errors /\ ~(verdict = "Stale" /\ Retries(k))
             /\ Raise(k, verdict)
          \/ /\ verdict = "existing"
             /\ Finish(k, "returned", get_locked(l.request))
             /\ UNCHANGED storeVars
          \/ /\ verdict = "commit"
             /\ CommitLock(l, LockTrace(k))
             /\ Finish(k, "returned", {l})

CommitResolution(k) ==
    /\ At(k, "commit") /\ op[k].kind = "resolve"
    /\ LET verdict == SaveRunVerdict(op[k].request)
       IN \/ verdict # "commit" /\ Raise(k, verdict)
          \/ /\ verdict = "commit"
             /\ CommitRun(op[k].request, seen[k].content,
                          <<PlainEvent(k, "resolution")>>)
             /\ Finish(k, "returned", {})

\* _append_trace() saves its clone once and does not retry.
CommitAnnotation(k) ==
    /\ At(k, "commit") /\ op[k].kind = "annotate"
    /\ LET trace == Append(seen[k].trace, PlainEvent(k, "annotation"))
           verdict == SaveTraceVerdict(op[k].request, trace)
       IN \/ verdict # "commit" /\ Raise(k, verdict)
          \/ /\ verdict = "commit"
             /\ CommitTrace(op[k].request, trace)
             /\ Finish(k, "returned", {})

\* The task of a call is cancelled at an await; the store keeps what it has.
Cancel(k) ==
    /\ pc[k] \notin {"idle", "done", "cancelled"}
    /\ pc' = [pc EXCEPT ![k] = "cancelled"]
    /\ seen' = [seen EXCEPT ![k] = Blank]
    /\ UNCHANGED <<storeVars, op, outcome, answer>>

-----------------------------------------------------------------------------
Init ==
    /\ StoreInit
    /\ pc = [k \in Calls |-> "idle"]
    /\ op = [k \in Calls |-> NoOperation]
    /\ seen = [k \in Calls |-> Blank]
    /\ outcome = [k \in Calls |-> "none"]
    /\ answer = [k \in Calls |-> {}]

Step(k) ==
    \/ CheckNewRun(k)
    \/ ReadRecommendation(k)
    \/ CheckRevision(k)
    \/ ReadExisting(k)
    \/ ReadLocked(k)
    \/ ReadApproval(k)
    \/ CheckCandidate(k)
    \/ GetTrace(k)
    \/ CommitDecision(k)
    \/ CommitLocked(k)
    \/ CommitResolution(k)
    \/ CommitAnnotation(k)

Next == \E k \in Calls : (\E o \in Operations : Invoke(k, o)) \/ Step(k) \/ Cancel(k)

Spec == Init /\ [][Next]_vars

\* The event loop keeps running every call that can take a step; clients need
\* not call, and no call need be cancelled.
Fairness == \A k \in Calls : WF_vars(Step(k))

FairSpec == Spec /\ Fairness

-----------------------------------------------------------------------------
(* Properties                                                              *)

\* Types, and the bound on the attempts of a call (range(8) in the commit loops).
TypeOK ==
    /\ StoreTypeOK
    /\ pc \in [Calls -> Labels]
    /\ op \in [Calls -> Operations \cup {NoOperation}]
    /\ seen \in [Calls -> Locals]
    /\ outcome \in [Calls -> {"none", "returned"} \cup Errors]
    /\ answer \in [Calls -> SUBSET (ApprovalRecord \cup LockedResolution)]

\* A request never has two approved candidates, however approvals race
\* (save_approval's check runs inside the commit, not before it).
AtMostOneApproved ==
    \A a, b \in approvals :
        a.request = b.request /\ a.status = "approved" /\ b.status = "approved"
            => a = b

\* The audit trail and the decisions agree: every stored decision is the event
\* at its trace revision and its bound prefix is still the history of the live
\* trace; every decision event has its stored decision; and the recommendation
\* carries the live trace.  No interleaving, replay or retry writes one without
\* the other (save_approval commits both together).
DecisionsMatchTrace ==
    /\ \A a \in approvals :
          /\ a.trace_revision \in DOMAIN traces[a.request]
          /\ a.trace_chain = Prefix(traces[a.request], a.trace_revision)
          /\ \E k \in Calls :
                traces[a.request][a.trace_revision] = DecisionEvent(a, k)
    /\ \A r \in Requests : \A i \in DOMAIN traces[r] :
          traces[r][i].stage = "human_approval" =>
              \E a \in approvals : a.request = r /\ a.trace_revision = i
    /\ \A r \in Requests : recommendations[r].trace = traces[r]

\* A lock seals the one approved candidate: it embeds the stored approval, its
\* evidence is the history up to and including its own event, the approval is
\* part of that evidence, and no decision or second lock follows in the trace
\* (lock() and save_locked()).
LockSealsApproval ==
    \A l \in locked :
        /\ l.approval \in approvals
        /\ l.approval.status = "approved"
        /\ l.approval.request = l.request /\ l.approval.candidate = l.candidate
        /\ l.approval.trace_revision < Len(l.snapshot)
        /\ l.snapshot = Prefix(traces[l.request], Len(l.snapshot))
        /\ \A i \in DOMAIN traces[l.request] :
              /\ i > Len(l.snapshot) => traces[l.request][i].stage = "annotation"
              /\ traces[l.request][i].stage = "lock" => i = Len(l.snapshot)

\* The gates of approve() imply the gates of lock(): an approved candidate with
\* a consistent total is never refused later, so no request is stuck with an
\* approval that cannot be locked.
ApprovedIsLockable ==
    \A a \in approvals :
        /\ a.status = "approved"
        /\ a.content.item[a.candidate].total_consistent
        => LockError(get_recommendation(a.request), a, a) = "none"

\* A candidate outside the formal recommendation is locked only by an explicit
\* override, and the reason is part of the sealed evidence: approve() demands
\* it, the decision keeps it, and lock() copies it into the event it seals.
OverrideReasonIsSealed ==
    \A l \in locked :
        l.content.item[l.candidate].tier = "REFERENCE_ONLY" =>
            /\ ~l.content.item[l.candidate].incomplete
            /\ \E i \in DOMAIN l.snapshot :
                  /\ l.snapshot[i].stage = "lock"
                  /\ l.snapshot[i].mode = "reference_override"
                  /\ l.snapshot[i].note = "reason"

\* What a call returns is what the store holds, and what the caller asked for:
\* duplicates of a decision get the one stored record and retries of a lock the
\* canonical lock, whichever of them committed it.
AnswersAreStored ==
    \A k \in Calls :
        outcome[k] = "returned" =>
            /\ op[k].kind \in Decisions =>
                  /\ answer[k] = get_approval(op[k].request, op[k].candidate)
                  /\ \E a \in answer[k] :
                        /\ a.status = Decided(k) /\ a.mode = DecidedMode(k)
                        /\ a.reviewer = op[k].reviewer /\ a.note = op[k].note
            /\ op[k].kind = "lock" =>
                  /\ answer[k] = get_locked(op[k].request)
                  /\ \E l \in answer[k] : l.candidate = op[k].candidate

\* Refusals are earned.  No call made by the engine fails an integrity check of
\* the store; a decision is refused as a conflict only by a different decision
\* on its candidate, another approved candidate or a lock; a refused or cancelled
\* call has left no event behind; and a call that named no revision gives up as
\* stale only when others have written more than MaxAttempts events.
RefusalsAreEarned ==
    \A k \in Calls :
        /\ outcome[k] # "Integrity"
        /\ outcome[k] = "Conflict" /\ op[k].kind \in Decisions =>
              \/ \E a \in get_approval(op[k].request, op[k].candidate) : ~SameDecision(k, a)
              \/ op[k].kind = "approve" /\ OneApproved(op[k].request)
              \/ get_locked(op[k].request) # {}
        /\ outcome[k] = "Stale" /\ op[k].expected = AnyRevision =>
              Len(traces[op[k].request]) > MaxAttempts
        /\ outcome[k] # "returned" =>
              \A r \in Requests : \A i \in DOMAIN traces[r] : traces[r][i].by # k

\* A caller that names the trace revision it has seen commits on exactly that
\* revision or not at all (CFR_REVIEW_WORKFLOW_STATE_MACHINE_V1: "An explicit
\* expected revision is strict").
ExplicitRevisionIsStrict ==
    \A r \in Requests : \A i \in DOMAIN traces[r] :
        /\ traces[r][i].stage \in {"human_approval", "lock"}
        /\ op[traces[r][i].by].expected # AnyRevision
        => i = op[traces[r][i].by].expected + 1

\* Nothing that was committed is ever rewritten: traces only grow, decisions,
\* locks and recommendation contents stay (save_trace, save_approval,
\* save_locked and save_resolution_run).
HistoryIsImmutable ==
    [][/\ \A r \in Requests :
             /\ Len(traces[r]) <= Len(traces'[r])
             /\ Prefix(traces'[r], Len(traces[r])) = traces[r]
             /\ has_resolution_run(r) =>
                   recommendations'[r].content = recommendations[r].content
       /\ approvals \subseteq approvals'
       /\ locked \subseteq locked']_vars

\* The audit trail, decisions and locks, with everything else forgotten.
Stages(trace) == [i \in 1 .. Len(trace) |-> trace[i].stage]

AuditTrail == [r \in Requests |-> Stages(traces[r])]

DecisionOn(r, c) ==
    IF get_approval(r, c) = {} THEN "undecided"
    ELSE (CHOOSE a \in get_approval(r, c) : TRUE).status

Review == INSTANCE ReviewAbstract WITH
    audit <- AuditTrail,
    decision <- [r \in Requests |-> [c \in Candidates |-> DecisionOn(r, c)]],
    sealed <- {<<l.request, l.candidate>> : l \in locked}

\* The concurrent engine and store implement the abstract review state machine:
\* every step is one legal transition with its one audit entry, or is invisible.
ImplementsReview == Review!Spec

\* Every call ends: the commit loop is bounded and no call waits for another.  A call is
\* made once and there are finitely many, so that from some time on none is under way.
EveryCallEnds ==
    <>[](\A k \in Calls : pc[k] \in {"idle", "done", "cancelled"})

\* How calls end: an answer is what the store holds, a refusal has a cause in what the
\* call saw, and an explicit revision is never committed to a later one (_decide, lock).
CallsEndRightly == AnswersAreStored /\ RefusalsAreEarned /\ ExplicitRevisionIsStrict

\* The gates of approve() and lock(): what may be approved may be locked, and the reason
\* of an override reaches the lock.
GatesAgree == ApprovedIsLockable /\ OverrideReasonIsSealed
=============================================================================

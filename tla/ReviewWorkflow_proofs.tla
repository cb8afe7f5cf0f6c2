------------------------ MODULE ReviewWorkflow_proofs ------------------------
(***************************************************************************)
(* The types and the safety invariants of ReviewWorkflow, and that it      *)
(* implements ReviewAbstract, for any set of requests, candidates,         *)
(* reviewers, calls and contents, any set of operations, any number of     *)
(* racing calls and any bound on the attempts.                             *)
(*                                                                         *)
(* Every step either leaves the store alone or has one of four effects on  *)
(* it; the inductive invariant is preserved by each effect, and each       *)
(* effect is one transition of ReviewAbstract. What the calls know while   *)
(* they run, and that their gates and answers are right, is the last part. *)
(***************************************************************************)
EXTENDS ReviewWorkflow, SequenceTheorems, TLAPS

-----------------------------------------------------------------------------
(* Types                                                                   *)

\* What type correctness needs of a call: once started it has an operation, and
\* a resolve goes straight from its check to a commit with a content to store.
CallShape(k) ==
    /\ pc[k] # "idle" => op[k] \in Operations
    /\ pc[k] # "idle" /\ op[k].kind = "resolve" =>
          pc[k] \in {"has_run", "commit", "done", "cancelled"}
    /\ pc[k] = "commit" /\ op[k].kind = "resolve" => seen[k].content \in Contents

TypeInv == TypeOK /\ \A k \in Calls : CallShape(k)

-----------------------------------------------------------------------------
(* The values that calls build                                             *)

\* The events of resolve() and of annotations are events.
LEMMA PlainEventType ==
    ASSUME NEW k \in Calls, op[k] \in Operation,
           NEW stage \in {"resolution", "annotation"}
    PROVE  /\ PlainEvent(k, stage) \in Event
           /\ PlainEvent(k, stage).stage = stage
BY DEF PlainEvent, Event, Operation

\* A decision's trace is the trace read plus the decision event.
LEMMA DecisionTraceType ==
    ASSUME NEW k \in Calls, op[k] \in Operation, op[k].kind \in Decisions,
           seen[k].trace \in Seq(Event)
    PROVE  /\ DecisionEvent(bound_approval(k), k) \in Event
           /\ DecisionTrace(k) = Append(seen[k].trace, DecisionEvent(bound_approval(k), k))
           /\ DecisionTrace(k) \in Seq(Event)
           /\ Len(DecisionTrace(k)) = Len(seen[k].trace) + 1
<1>1. /\ DecisionEvent(bound_approval(k), k) \in Event
      /\ DecisionTrace(k) = Append(seen[k].trace, DecisionEvent(bound_approval(k), k))
  BY DEF DecisionEvent, bound_approval, DecisionTrace, Event, Operation, Decisions,
         Decided, DecidedMode, DecisionStatus, ApprovalMode
<1>2. QED
  BY <1>1

\* The record a decision builds is an approval record.
LEMMA BoundApprovalType ==
    ASSUME NEW k \in Calls, op[k] \in Operation, op[k].kind \in Decisions,
           seen[k].trace \in Seq(Event), seen[k].content \in Contents
    PROVE  bound_approval(k) \in ApprovalRecord
<1>1. /\ DecisionTrace(k) \in Seq(Event)
      /\ Len(DecisionTrace(k)) \in Nat
  BY DecisionTraceType
<1>2. Decided(k) \in DecisionStatus /\ DecidedMode(k) \in ApprovalMode
  BY DEF Decided, DecidedMode, DecisionStatus, ApprovalMode, Operation
<1>3. QED
  BY <1>1, <1>2 DEF bound_approval, ApprovalRecord, Operation

\* A lock's trace is the trace read plus the lock event.
LEMMA LockTraceType ==
    ASSUME NEW k \in Calls, op[k] \in Operation,
           seen[k].trace \in Seq(Event), SeenApproval(k) \in ApprovalRecord
    PROVE  /\ LockEvent(SeenApproval(k), op[k].reviewer, k) \in Event
           /\ LockTrace(k) \in Seq(Event)
           /\ Len(LockTrace(k)) = Len(seen[k].trace) + 1
<1>1. LockEvent(SeenApproval(k), op[k].reviewer, k) \in Event
  BY DEF LockEvent, Event, Operation, ApprovalRecord, Notes
<1>2. QED
  BY <1>1 DEF LockTrace

\* The object a lock builds is a locked resolution.
LEMMA LockedResolutionType ==
    ASSUME NEW k \in Calls, op[k] \in Operation, seen[k].trace \in Seq(Event),
           SeenApproval(k) \in ApprovalRecord, seen[k].content \in Contents
    PROVE  locked_resolution(k) \in LockedResolution
BY LockTraceType DEF locked_resolution, LockedResolution, Operation

-----------------------------------------------------------------------------
(* What a save has checked when it commits                                 *)

\* save_approval() commits a decision only on the current revision, next to no
\* other decision on its candidate, lock or approved candidate.
LEMMA SaveApprovalCommits ==
    ASSUME NEW a, NEW trace, NEW content, NEW revision,
           SaveApprovalVerdict(a, trace, content, revision) = "commit"
    PROVE  /\ has_resolution_run(a.request)
           /\ Len(traces[a.request]) = revision
           /\ get_approval(a.request, a.candidate) = {}
           /\ get_locked(a.request) = {}
           /\ get_recommendation(a.request) = content
           /\ AppendsOne(a.request, trace, revision)
           /\ a.status = "approved" => ~OneApproved(a.request)
           /\ ApprovalBound(a, trace)
BY DEF SaveApprovalVerdict

\* save_locked() commits a lock only on the current revision, for the stored
\* approval, and only if the request has none.
LEMMA SaveLockedCommits ==
    ASSUME NEW l, NEW trace, NEW content, NEW revision,
           SaveLockedVerdict(l, trace, content, revision) = "commit"
    PROVE  /\ has_resolution_run(l.request)
           /\ Len(traces[l.request]) = revision
           /\ get_locked(l.request) = {}
           /\ get_recommendation(l.request) = content
           /\ AppendsOne(l.request, trace, revision)
           /\ get_approval(l.request, l.candidate) = {l.approval}
           /\ LockBound(l, trace)
BY DEF SaveLockedVerdict

-----------------------------------------------------------------------------
(* Type correctness                                                        *)

\* The call ends and nothing else of the calls changes.
LEMMA FinishType ==
    ASSUME TypeInv, NEW k \in Calls, pc[k] # "idle",
           NEW how \in {"returned"} \cup Errors,
           NEW objects \in SUBSET (ApprovalRecord \cup LockedResolution),
           Finish(k, how, objects), StoreTypeOK'
    PROVE  TypeInv'
<1>1. Blank \in Locals
  BY MaxAttemptsAssumption DEF Blank, Locals
<1>2. /\ pc' \in [Calls -> Labels]
      /\ op' \in [Calls -> Operations \cup {NoOperation}]
      /\ outcome' \in [Calls -> {"none", "returned"} \cup Errors]
  BY DEF Finish, TypeInv, TypeOK, Labels
<1>3. seen' \in [Calls -> Locals]
  BY <1>1 DEF Finish, TypeInv, TypeOK
<1>4. answer' \in [Calls -> SUBSET (ApprovalRecord \cup LockedResolution)]
  BY DEF Finish, TypeInv, TypeOK
<1>5. \A j \in Calls : CallShape(j)'
  BY DEF Finish, TypeInv, TypeOK, CallShape
<1>6. QED
  BY <1>2, <1>3, <1>4, <1>5 DEF TypeInv, TypeOK

\* A step that only moves a call on and updates what it has seen.
LEMMA GotoType ==
    ASSUME TypeInv, NEW k \in Calls, pc[k] # "idle", NEW label \in Labels,
           Goto(k, label), UNCHANGED storeVars,
           NEW locals \in Locals, seen' = [seen EXCEPT ![k] = locals],
           op[k].kind = "resolve" => label = "commit" /\ locals.content \in Contents
    PROVE  TypeInv'
<1>1. TypeOK'
  BY DEF Goto, TypeInv, TypeOK, StoreTypeOK, storeVars
<1>2. \A j \in Calls : CallShape(j)'
  BY DEF Goto, TypeInv, TypeOK, CallShape
<1>3. QED
  BY <1>1, <1>2 DEF TypeInv

\* Every step of a started call preserves type correctness.
LEMMA StepType ==
    ASSUME TypeInv, NEW k \in Calls, Step(k)
    PROVE  TypeInv'
<1> DEFINE r == op[k].request
           c == op[k].candidate
<1>1. pc[k] # "idle" /\ op[k] \in Operations
  BY DEF TypeInv, CallShape, Step, At, CheckNewRun, ReadRecommendation, CheckRevision,
         ReadExisting, ReadLocked, ReadApproval, CheckCandidate, GetTrace,
         CommitDecision, CommitLocked, CommitResolution, CommitAnnotation
<1>2. op[k] \in Operation /\ r \in Requests /\ c \in Candidates
  BY <1>1, OperationsAssumption DEF Operation
<1>3. /\ seen[k] \in Locals
      /\ seen[k].content \in Contents \cup {NoContent}
      /\ seen[k].trace \in Seq(Event)
      /\ seen[k].approval \in SUBSET ApprovalRecord
      /\ seen[k].attempt \in 0 .. MaxAttempts - 1
  BY DEF TypeInv, TypeOK, Locals
<1>4. /\ get_recommendation(r) \in Contents \cup {NoContent}
      /\ has_resolution_run(r) => get_recommendation(r) \in Contents
      /\ traces[r] \in Seq(Event)
  BY <1>2 DEF TypeInv, TypeOK, StoreTypeOK, get_recommendation, has_resolution_run
<1>5. /\ get_approval(r, c) \in SUBSET ApprovalRecord
      /\ get_locked(r) \in SUBSET LockedResolution
  BY DEF TypeInv, TypeOK, StoreTypeOK, get_approval, get_locked
<1>6. ASSUME NEW error \in Errors, Raise(k, error)
      PROVE  TypeInv'
  <2>1. StoreTypeOK'
    BY <1>6 DEF Raise, storeVars, TypeInv, TypeOK, StoreTypeOK
  <2>2. QED
    BY <1>1, <1>6, <2>1, FinishType DEF Raise
<1>7. ASSUME NEW objects \in SUBSET (ApprovalRecord \cup LockedResolution),
             Finish(k, "returned", objects), UNCHANGED storeVars
      PROVE  TypeInv'
  <2>1. StoreTypeOK'
    BY <1>7 DEF storeVars, TypeInv, TypeOK, StoreTypeOK
  <2>2. QED
    BY <1>1, <1>7, <2>1, FinishType
<1>8. ASSUME NEW label \in Labels, Goto(k, label), UNCHANGED <<storeVars, seen>>,
             op[k].kind # "resolve"
      PROVE  TypeInv'
  <2>1. seen' = [seen EXCEPT ![k] = seen[k]]
    BY <1>8 DEF TypeInv, TypeOK
  <2>2. QED
    BY <1>1, <1>3, <1>8, <2>1, GotoType DEF storeVars
<1>9. ASSUME Retry(k), Retries(k), op[k].kind # "resolve"
      PROVE  TypeInv'
  <2> DEFINE locals == [content |-> seen[k].content, approval |-> seen[k].approval,
                        trace |-> <<>>, attempt |-> seen[k].attempt + 1]
  <2>1. locals \in Locals
    BY <1>3, <1>9, MaxAttemptsAssumption DEF Locals, Retries
  <2>2. seen' = [seen EXCEPT ![k] = locals]
    BY <1>3, <1>9 DEF Retry, TypeInv, TypeOK
  <2>3. Goto(k, "trace") /\ UNCHANGED storeVars /\ "trace" \in Labels
    BY <1>9 DEF Retry, Labels
  <2>4. QED
    BY <1>1, <1>9, <2>1, <2>2, <2>3, GotoType
<1>0. pc[k] \notin {"has_run", "commit"} => op[k].kind # "resolve"
  BY <1>1 DEF TypeInv, CallShape, Step, At, CheckNewRun, ReadRecommendation, CheckRevision,
         ReadExisting, ReadLocked, ReadApproval, CheckCandidate, GetTrace,
         CommitDecision, CommitLocked, CommitResolution, CommitAnnotation
<1>10. CASE CheckNewRun(k)
  <2>1. CASE Raise(k, "ValueError")
    BY <2>1, <1>6 DEF Errors
  <2>2. ASSUME NEW content \in Contents,
               seen' = [seen EXCEPT ![k].content = content],
               Goto(k, "commit"), UNCHANGED storeVars
        PROVE  TypeInv'
    <3> DEFINE locals == [seen[k] EXCEPT !.content = content]
    <3>1. locals \in Locals /\ locals.content \in Contents
      BY <1>3, <2>2 DEF Locals
    <3>2. seen' = [seen EXCEPT ![k] = locals]
      BY <2>2 DEF TypeInv, TypeOK
    <3>3. QED
      BY <1>1, <2>2, <3>1, <3>2, GotoType DEF Labels
  <2>3. QED
    BY <1>10, <2>1, <2>2 DEF CheckNewRun
<1>11. CASE ReadRecommendation(k)
  <2> DEFINE content == get_recommendation(r)
             error == IF op[k].kind = "approve" THEN ApproveError(content, op[k])
                                                ELSE RejectError(content, op[k])
             label == IF op[k].expected = AnyRevision THEN "existing" ELSE "revision"
  <2>0. op[k].kind # "resolve"
    BY <1>0, <1>11 DEF ReadRecommendation, At
  <2>1. error \in Errors \cup {"none"}
    BY DEF ApproveError, RejectError, Errors
  <2>2. CASE error # "none" /\ Raise(k, error)
    BY <2>1, <2>2, <1>6
  <2>3. CASE /\ seen' = [seen EXCEPT ![k].content = content]
             /\ Goto(k, label)
             /\ UNCHANGED storeVars
    <3> DEFINE locals == [seen[k] EXCEPT !.content = content]
    <3>1. locals \in Locals
      BY <1>3, <1>4 DEF Locals
    <3>2. seen' = [seen EXCEPT ![k] = locals]
      BY <2>3 DEF TypeInv, TypeOK
    <3>3. label \in Labels /\ label # "commit"
      BY DEF Labels
    <3>4. QED
      BY <1>1, <2>0, <2>3, <3>1, <3>2, <3>3, GotoType
  <2>4. QED
    BY <1>11, <2>2, <2>3 DEF ReadRecommendation
<1>12. CASE CheckRevision(k)
  BY <1>0, <1>12, <1>6, <1>8 DEF CheckRevision, At, Errors, Labels
<1>13. CASE ReadExisting(k)
  BY <1>0, <1>13, <1>5, <1>6, <1>7, <1>8 DEF ReadExisting, At, Errors, Labels
<1>14. CASE ReadLocked(k)
  BY <1>0, <1>14, <1>5, <1>6, <1>7, <1>8 DEF ReadLocked, At, Errors, Labels
<1>15. CASE ReadApproval(k)
  <2>0. op[k].kind # "resolve"
    BY <1>0, <1>15 DEF ReadApproval, At
  <2>1. CASE Raise(k, "Conflict")
    BY <2>1, <1>6 DEF Errors
  <2>2. CASE /\ seen' = [seen EXCEPT ![k].approval = get_approval(r, c)]
             /\ Goto(k, "candidate")
             /\ UNCHANGED storeVars
    <3> DEFINE locals == [seen[k] EXCEPT !.approval = get_approval(r, c)]
    <3>1. locals \in Locals
      BY <1>3, <1>5 DEF Locals
    <3>2. seen' = [seen EXCEPT ![k] = locals]
      BY <2>2 DEF TypeInv, TypeOK
    <3>3. QED
      BY <1>1, <2>0, <2>2, <3>1, <3>2, GotoType DEF Labels
  <2>3. QED
    BY <1>15, <2>1, <2>2 DEF ReadApproval
<1>16. CASE CheckCandidate(k)
  <2> DEFINE content == get_recommendation(r)
             error == LockError(content, op[k], SeenApproval(k))
  <2>0. op[k].kind # "resolve"
    BY <1>0, <1>16 DEF CheckCandidate, At
  <2>1. error \in Errors \cup {"none"}
    BY DEF LockError, Errors
  <2>2. CASE error # "none" /\ Raise(k, error)
    BY <2>1, <2>2, <1>6
  <2>3. CASE /\ seen' = [seen EXCEPT ![k].content = content]
             /\ Goto(k, "trace")
             /\ UNCHANGED storeVars
    <3> DEFINE locals == [seen[k] EXCEPT !.content = content]
    <3>1. locals \in Locals
      BY <1>3, <1>4 DEF Locals
    <3>2. seen' = [seen EXCEPT ![k] = locals]
      BY <2>3 DEF TypeInv, TypeOK
    <3>3. QED
      BY <1>1, <2>0, <2>3, <3>1, <3>2, GotoType DEF Labels
  <2>4. QED
    BY <1>16, <2>2, <2>3 DEF CheckCandidate
<1>17. CASE GetTrace(k)
  <2> DEFINE error == TraceError(k, traces[r])
  <2>0. op[k].kind # "resolve"
    BY <1>0, <1>17 DEF GetTrace, At
  <2>1. error \in Errors \cup {"none"}
    BY DEF TraceError, Errors
  <2>2. CASE error # "none" /\ Raise(k, error)
    BY <2>1, <2>2, <1>6
  <2>3. CASE /\ seen' = [seen EXCEPT ![k].trace = traces[r]]
             /\ Goto(k, "commit")
             /\ UNCHANGED storeVars
    <3> DEFINE locals == [seen[k] EXCEPT !.trace = traces[r]]
    <3>1. locals \in Locals
      BY <1>3, <1>4 DEF Locals
    <3>2. seen' = [seen EXCEPT ![k] = locals]
      BY <2>3 DEF TypeInv, TypeOK
    <3>3. QED
      BY <1>1, <2>0, <2>3, <3>1, <3>2, GotoType DEF Labels
  <2>4. QED
    BY <1>17, <2>2, <2>3 DEF GetTrace
<1>18. CASE CommitDecision(k)
  <2> DEFINE a == bound_approval(k)
             verdict == SaveApprovalVerdict(a, DecisionTrace(k), seen[k].content,
                                            Len(seen[k].trace))
  <2>1. op[k].kind \in Decisions /\ op[k].kind # "resolve"
    BY <1>18 DEF CommitDecision, Decisions
  <2>2. a.request = r /\ a.candidate = c
    BY DEF bound_approval
  <2>3. CASE Retries(k) /\ Retry(k)
    BY <1>9, <2>1, <2>3
  <2>4. CASE verdict \in Errors /\ Raise(k, verdict)
    BY <1>6, <2>4
  <2>5. CASE Finish(k, "returned", get_approval(a.request, a.candidate)) /\ UNCHANGED storeVars
    BY <1>5, <1>7, <2>2, <2>5
  <2>6. CASE /\ verdict = "commit"
             /\ CommitApproval(a, DecisionTrace(k))
             /\ Finish(k, "returned", {a})
    <3>1. seen[k].content \in Contents
      BY <1>4, <2>2, <2>6, SaveApprovalCommits
    <3>2. a \in ApprovalRecord /\ DecisionTrace(k) \in Seq(Event)
      BY <1>2, <1>3, <2>1, <3>1, BoundApprovalType, DecisionTraceType
    <3>3. StoreTypeOK'
      BY <1>2, <2>2, <2>6, <3>2 DEF TypeInv, TypeOK, StoreTypeOK, CommitApproval, StoreTrace
    <3>4. QED
      BY <1>1, <2>6, <3>2, <3>3, FinishType
  <2>7. QED
    BY <1>18, <2>3, <2>4, <2>5, <2>6 DEF CommitDecision
<1>19. CASE CommitLocked(k)
  <2> DEFINE l == locked_resolution(k)
             verdict == SaveLockedVerdict(l, LockTrace(k), seen[k].content,
                                          Len(seen[k].trace))
  <2>1. op[k].kind # "resolve"
    BY <1>19 DEF CommitLocked
  <2>2. l.request = r /\ l.candidate = c /\ l.approval = SeenApproval(k)
    BY DEF locked_resolution
  <2>3. CASE Retries(k) /\ Retry(k)
    BY <1>9, <2>1, <2>3
  <2>4. CASE verdict \in Errors /\ Raise(k, verdict)
    BY <1>6, <2>4
  <2>5. CASE Finish(k, "returned", get_locked(l.request)) /\ UNCHANGED storeVars
    BY <1>5, <1>7, <2>2, <2>5
  <2>6. CASE /\ verdict = "commit"
             /\ CommitLock(l, LockTrace(k))
             /\ Finish(k, "returned", {l})
    <3>0. /\ has_resolution_run(l.request)
          /\ get_recommendation(l.request) = seen[k].content
          /\ get_approval(l.request, l.candidate) = {l.approval}
      BY <2>6, SaveLockedCommits
    <3>1. seen[k].content \in Contents /\ get_approval(r, c) = {SeenApproval(k)}
      BY <1>4, <2>2, <3>0
    <3>2. SeenApproval(k) \in ApprovalRecord
      BY <1>5, <3>1
    <3>3. l \in LockedResolution /\ LockTrace(k) \in Seq(Event)
      BY <1>2, <1>3, <3>1, <3>2, LockedResolutionType, LockTraceType
    <3>4. StoreTypeOK'
      BY <1>2, <2>2, <2>6, <3>3 DEF TypeInv, TypeOK, StoreTypeOK, CommitLock, StoreTrace
    <3>5. QED
      BY <1>1, <2>6, <3>3, <3>4, FinishType
  <2>7. QED
    BY <1>19, <2>3, <2>4, <2>5, <2>6 DEF CommitLocked
<1>20. CASE CommitResolution(k)
  <2> DEFINE e == PlainEvent(k, "resolution")
  <2>1. SaveRunVerdict(r) # "commit" => SaveRunVerdict(r) \in Errors
    BY DEF SaveRunVerdict, Errors
  <2>2. CASE SaveRunVerdict(r) # "commit" /\ Raise(k, SaveRunVerdict(r))
    BY <1>6, <2>1, <2>2
  <2>3. CASE CommitRun(r, seen[k].content, <<e>>) /\ Finish(k, "returned", {})
    <3>1. seen[k].content \in Contents /\ <<e>> \in Seq(Event)
      BY <1>2, <1>20, PlainEventType DEF TypeInv, CallShape, CommitResolution, At
    <3>2. StoreTypeOK'
      BY <1>2, <2>3, <3>1 DEF TypeInv, TypeOK, StoreTypeOK, CommitRun
    <3>3. QED
      BY <1>1, <2>3, <3>2, FinishType
  <2>4. QED
    BY <1>20, <2>2, <2>3 DEF CommitResolution
<1>21. CASE CommitAnnotation(k)
  <2> DEFINE trace == Append(seen[k].trace, PlainEvent(k, "annotation"))
             verdict == SaveTraceVerdict(r, trace)
  <2>1. verdict # "commit" => verdict \in Errors
    BY DEF SaveTraceVerdict, Errors
  <2>2. CASE verdict # "commit" /\ Raise(k, verdict)
    BY <1>6, <2>1, <2>2
  <2>3. CASE CommitTrace(r, trace) /\ Finish(k, "returned", {})
    <3>1. trace \in Seq(Event)
      BY <1>2, <1>3, PlainEventType
    <3>2. StoreTypeOK'
      BY <1>2, <2>3, <3>1 DEF TypeInv, TypeOK, StoreTypeOK, CommitTrace, StoreTrace
    <3>3. QED
      BY <1>1, <2>3, <3>2, FinishType
  <2>4. QED
    BY <1>21, <2>2, <2>3 DEF CommitAnnotation
<1>22. QED
  BY <1>10, <1>11, <1>12, <1>13, <1>14, <1>15, <1>16, <1>17, <1>18, <1>19, <1>20,
     <1>21 DEF Step

\* The type invariant holds initially.
LEMMA TypeInvInit == Init => TypeInv
<1>1. Blank \in Locals
  BY MaxAttemptsAssumption DEF Blank, Locals
<1>2. ASSUME Init PROVE TypeInv
  BY <1>1, <1>2 DEF Init, StoreInit, TypeInv, TypeOK, StoreTypeOK, CallShape, Labels
<1>3. QED
  BY <1>2

\* Every step preserves the type invariant.
LEMMA TypeInvStep == TypeInv /\ [Next]_vars => TypeInv'
<1>1. ASSUME TypeInv, NEW k \in Calls, NEW o \in Operations, Invoke(k, o)
      PROVE  TypeInv'
  <2>1. FirstLabel(o) \in Labels \ {"commit"}
    BY OperationsAssumption DEF FirstLabel, Labels, Operation, Decisions
  <2>2. o.kind = "resolve" => FirstLabel(o) = "has_run"
    BY DEF FirstLabel, Decisions
  <2>3. QED
    BY <1>1, <2>1, <2>2
    DEF Invoke, storeVars, TypeInv, TypeOK, StoreTypeOK, CallShape
<1>2. ASSUME TypeInv, NEW k \in Calls, Cancel(k)
      PROVE  TypeInv'
  <2>1. Blank \in Locals
    BY MaxAttemptsAssumption DEF Blank, Locals
  <2>2. QED
    BY <1>2, <2>1
    DEF Cancel, storeVars, TypeInv, TypeOK, StoreTypeOK, CallShape, Labels
<1>3. ASSUME TypeInv, UNCHANGED vars
      PROVE  TypeInv'
  BY <1>3 DEF vars, storeVars, callVars, TypeInv, TypeOK, StoreTypeOK, CallShape
<1>4. QED
  BY <1>1, <1>2, <1>3, StepType DEF Next

\* Every value stays in its type (TypeOK), whatever calls race: the store never
\* holds a decision, lock or trace entry that the models do not admit.
THEOREM TypeCorrect == Spec => []TypeOK
<1>1. TypeInv => TypeOK
  BY DEF TypeInv
<1>2. QED
  BY <1>1, TypeInvInit, TypeInvStep, PTL DEF Spec

-----------------------------------------------------------------------------
(* The effects a step can have on the store                                *)

Opened(r, content, e) ==
    /\ ~has_resolution_run(r)
    /\ e.stage = "resolution"
    /\ CommitRun(r, content, <<e>>)

Annotated(r, e) ==
    /\ has_resolution_run(r)
    /\ e.stage = "annotation"
    /\ CommitTrace(r, Append(traces[r], e))

DecisionStored(a, k) ==
    LET r == a.request
        trace == Append(traces[r], DecisionEvent(a, k))
    IN  /\ has_resolution_run(r)
        /\ get_approval(r, a.candidate) = {}
        /\ get_locked(r) = {}
        /\ a.status = "approved" => ~OneApproved(r)
        /\ a.trace_revision = Len(traces[r]) + 1
        /\ a.trace_chain = trace
        /\ StoreTrace(r, trace)
        /\ approvals' = approvals \cup {a}
        /\ UNCHANGED locked

LockStored(l, k) ==
    LET r == l.request
        trace == Append(traces[r], LockEvent(l.approval, l.reviewer, k))
    IN  /\ has_resolution_run(r)
        /\ get_locked(r) = {}
        /\ get_approval(r, l.candidate) = {l.approval}
        /\ l.approval.status = "approved"
        /\ l.snapshot = trace
        /\ StoreTrace(r, trace)
        /\ locked' = locked \cup {l}
        /\ UNCHANGED approvals

StoreEffect ==
    \/ UNCHANGED storeVars
    \/ \E r \in Requests, content \in Contents, e \in Event : Opened(r, content, e)
    \/ \E r \in Requests, e \in Event : Annotated(r, e)
    \/ \E a \in ApprovalRecord, k \in Calls : DecisionStored(a, k)
    \/ \E l \in LockedResolution, k \in Calls : LockStored(l, k)

-----------------------------------------------------------------------------
(* The inductive invariant                                                 *)

\* A call that holds a trace to annotate, or an approval to lock, has read them
\* from the store: the trace is not ahead of it, the approval is an approval.
CallKnows(k) ==
    /\ pc[k] # "idle" /\ op[k].kind = "lock" =>
          pc[k] \notin {"has_run", "recommendation", "existing"}
    /\ pc[k] # "idle" /\ op[k].kind = "annotate" => pc[k] # "has_run"
    /\ pc[k] = "commit" /\ op[k].kind = "annotate" =>
          Len(seen[k].trace) <= Len(traces[op[k].request])
    /\ pc[k] \in {"candidate", "trace", "commit"} /\ op[k].kind = "lock" =>
          /\ seen[k].approval # {}
          /\ \A a \in seen[k].approval : a.status = "approved"

\* A request has a trace exactly when it has a run, and the run carries it.
RunsHaveTraces ==
    \A r \in Requests :
        /\ recommendations[r].trace = traces[r]
        /\ has_resolution_run(r) <=> traces[r] # <<>>

OneDecision ==
    \A a, b \in approvals :
        a.request = b.request /\ a.candidate = b.candidate => a = b

DecisionsAreBound ==
    \A a \in approvals :
        /\ a.trace_revision \in 1 .. Len(traces[a.request])
        /\ a.trace_chain = Prefix(traces[a.request], a.trace_revision)
        /\ \E k \in Calls :
              traces[a.request][a.trace_revision] = DecisionEvent(a, k)

EventsAreStored ==
    \A r \in Requests : \A i \in 1 .. Len(traces[r]) :
        /\ traces[r][i].stage = "human_approval" =>
              \E a \in approvals : a.request = r /\ a.trace_revision = i
        /\ traces[r][i].stage = "lock" => get_locked(r) # {}

LocksAreInTrace ==
    \A l \in locked : Len(l.snapshot) \in 1 .. Len(traces[l.request])

StoreInv ==
    /\ RunsHaveTraces
    /\ OneDecision
    /\ AtMostOneApproved
    /\ DecisionsAreBound
    /\ EventsAreStored
    /\ LocksAreInTrace
    /\ LockSealsApproval

Inv == TypeInv /\ StoreInv /\ \A k \in Calls : CallKnows(k)

-----------------------------------------------------------------------------
(* Prefixes of a growing trace                                             *)

\* Appending an event leaves every earlier prefix of the trace as it was.
LEMMA PrefixOfAppend ==
    ASSUME NEW s \in Seq(Event), NEW e \in Event, NEW n \in 0 .. Len(s)
    PROVE  Prefix(Append(s, e), n) = Prefix(s, n)
<1> DEFINE t == Append(s, e)
<1>1. /\ t \in Seq(Event) /\ Len(s) \in Nat /\ Len(t) = Len(s) + 1
      /\ \A i \in 1 .. Len(s) : t[i] = s[i] /\ s[i] \in Event
  OBVIOUS
<1>2. \A i \in 1 .. n : t[i] = s[i] /\ s[i] \in Event /\ t[i] \in Event
  BY <1>1
<1> HIDE DEF t
<1>3. /\ Prefix(s, n) \in Seq(Event)
      /\ Len(Prefix(s, n)) = n
      /\ \A i \in 1 .. n : Prefix(s, n)[i] = s[i]
  BY <1>2, SubSeqProperties DEF Prefix
<1>4. /\ Prefix(t, n) \in Seq(Event)
      /\ Len(Prefix(t, n)) = n
      /\ \A i \in 1 .. n : Prefix(t, n)[i] = t[i]
  BY <1>2, SubSeqProperties DEF Prefix
<1>5. Prefix(t, n) = Prefix(s, n)
  BY <1>2, <1>3, <1>4, SeqEqual
<1>6. QED
  BY <1>5 DEF t

\* A trace is its own longest prefix.
LEMMA PrefixFull ==
    ASSUME NEW s \in Seq(Event)
    PROVE  Prefix(s, Len(s)) = s
BY SubSeqFull DEF Prefix

\* A save that appends one event to the trace it read has read the live trace.
LEMMA AppendsToLive ==
    ASSUME NEW r, NEW s \in Seq(Event), NEW e \in Event,
           AppendsOne(r, Append(s, e), Len(s))
    PROVE  s = traces[r]
<1>1. Prefix(Append(s, e), Len(s)) = s
  BY PrefixOfAppend, PrefixFull
<1>2. QED
  BY <1>1 DEF AppendsOne

-----------------------------------------------------------------------------
(* Every step has one of the effects                                       *)

\* What a committing save of call k does to the store.
OwnDecision(k) ==
    /\ pc[k] = "commit" /\ op[k].kind \in Decisions
    /\ Finish(k, "returned", {bound_approval(k)})
    /\ bound_approval(k) \in ApprovalRecord
    /\ DecisionStored(bound_approval(k), k)
    /\ seen[k].trace = traces[op[k].request]
    /\ seen[k].content = get_recommendation(op[k].request)

OwnLock(k) ==
    /\ pc[k] = "commit" /\ op[k].kind = "lock"
    /\ Finish(k, "returned", {locked_resolution(k)})
    /\ locked_resolution(k) \in LockedResolution
    /\ LockStored(locked_resolution(k), k)
    /\ seen[k].trace = traces[op[k].request]
    /\ seen[k].content = get_recommendation(op[k].request)

OwnRun(k) ==
    /\ pc[k] = "commit" /\ op[k].kind = "resolve"
    /\ Finish(k, "returned", {})
    /\ op[k].request \in Requests /\ seen[k].content \in Contents
    /\ PlainEvent(k, "resolution") \in Event
    /\ Opened(op[k].request, seen[k].content, PlainEvent(k, "resolution"))

OwnAnnotation(k) ==
    /\ pc[k] = "commit" /\ op[k].kind = "annotate"
    /\ Finish(k, "returned", {})
    /\ op[k].request \in Requests
    /\ PlainEvent(k, "annotation") \in Event
    /\ Annotated(op[k].request, PlainEvent(k, "annotation"))

\* A committed decision: the approval record appears together with its event.
LEMMA DecisionCommits ==
    ASSUME Inv, NEW k \in Calls, At(k, "commit"), op[k].kind \in Decisions,
           SaveApprovalVerdict(bound_approval(k), DecisionTrace(k), seen[k].content,
                               Len(seen[k].trace)) = "commit",
           CommitApproval(bound_approval(k), DecisionTrace(k)),
           Finish(k, "returned", {bound_approval(k)})
    PROVE  OwnDecision(k)
<1> DEFINE a == bound_approval(k)
           e == DecisionEvent(a, k)
<1>1. /\ op[k] \in Operation
      /\ seen[k].trace \in Seq(Event)
      /\ op[k].request \in Requests
  BY OperationsAssumption DEF At, Inv, TypeInv, TypeOK, CallShape, Locals, Operation
<1>2. a.request = op[k].request
  BY DEF bound_approval
<1>3. /\ has_resolution_run(a.request)
      /\ get_approval(a.request, a.candidate) = {}
      /\ get_locked(a.request) = {}
      /\ get_recommendation(a.request) = seen[k].content
      /\ AppendsOne(a.request, DecisionTrace(k), Len(seen[k].trace))
      /\ a.status = "approved" => ~OneApproved(a.request)
  BY SaveApprovalCommits
<1>4. seen[k].content \in Contents
  BY <1>1, <1>2, <1>3
  DEF Inv, TypeInv, TypeOK, StoreTypeOK, has_resolution_run, get_recommendation
<1>5. a \in ApprovalRecord
  BY <1>1, <1>4, BoundApprovalType
<1>6. /\ e \in Event
      /\ DecisionTrace(k) = Append(seen[k].trace, e)
      /\ Len(DecisionTrace(k)) = Len(seen[k].trace) + 1
  BY <1>1, DecisionTraceType
<1>7. seen[k].trace = traces[a.request]
  BY <1>1, <1>3, <1>6, AppendsToLive
<1>8. a.trace_revision = Len(DecisionTrace(k)) /\ a.trace_chain = DecisionTrace(k)
  BY DEF bound_approval
<1>9. /\ approvals' = approvals \cup {a}
      /\ StoreTrace(a.request, DecisionTrace(k))
      /\ UNCHANGED locked
  BY <1>3 DEF CommitApproval
<1>10. DecisionStored(a, k)
  BY <1>3, <1>6, <1>7, <1>8, <1>9 DEF DecisionStored
<1>11. QED
  BY <1>2, <1>3, <1>5, <1>7, <1>10 DEF At, OwnDecision

\* A committed lock: it appears together with its event.
LEMMA LockCommits ==
    ASSUME Inv, NEW k \in Calls, At(k, "commit"), op[k].kind = "lock",
           SaveLockedVerdict(locked_resolution(k), LockTrace(k), seen[k].content,
                             Len(seen[k].trace)) = "commit",
           CommitLock(locked_resolution(k), LockTrace(k)),
           Finish(k, "returned", {locked_resolution(k)})
    PROVE  OwnLock(k)
<1> DEFINE l == locked_resolution(k)
           e == LockEvent(SeenApproval(k), op[k].reviewer, k)
<1>1. /\ op[k] \in Operation
      /\ seen[k].trace \in Seq(Event)
      /\ op[k].request \in Requests
  BY OperationsAssumption DEF At, Inv, TypeInv, TypeOK, CallShape, Locals, Operation
<1>2. /\ l.request = op[k].request /\ l.approval = SeenApproval(k)
      /\ l.reviewer = op[k].reviewer /\ l.snapshot = LockTrace(k)
  BY DEF locked_resolution
<1>3. /\ has_resolution_run(l.request)
      /\ get_locked(l.request) = {}
      /\ get_recommendation(l.request) = seen[k].content
      /\ AppendsOne(l.request, LockTrace(k), Len(seen[k].trace))
      /\ get_approval(l.request, l.candidate) = {l.approval}
  BY SaveLockedCommits
<1>4. seen[k].content \in Contents
  BY <1>1, <1>2, <1>3
  DEF Inv, TypeInv, TypeOK, StoreTypeOK, has_resolution_run, get_recommendation
<1>5. SeenApproval(k) \in ApprovalRecord
  BY <1>2, <1>3 DEF Inv, TypeInv, TypeOK, StoreTypeOK, get_approval
<1>6. l \in LockedResolution
  BY <1>1, <1>4, <1>5, LockedResolutionType
<1>7. e \in Event /\ LockTrace(k) = Append(seen[k].trace, e)
  BY <1>1, <1>5, LockTraceType DEF LockTrace
<1>8. seen[k].trace = traces[l.request]
  BY <1>1, <1>3, <1>7, AppendsToLive
<1>9. SeenApproval(k).status = "approved"
  BY DEF At, Inv, CallKnows, SeenApproval
<1>10. /\ locked' = locked \cup {l}
       /\ StoreTrace(l.request, LockTrace(k))
       /\ UNCHANGED approvals
  BY <1>3 DEF CommitLock
<1>11. LockStored(l, k)
  BY <1>2, <1>3, <1>7, <1>8, <1>9, <1>10 DEF LockStored
<1>12. QED
  BY <1>2, <1>3, <1>6, <1>8, <1>11 DEF At, OwnLock

\* A stored run: its one entry is the first of the request's trace.
LEMMA ResolutionCommits ==
    ASSUME Inv, NEW k \in Calls, At(k, "commit"), op[k].kind = "resolve",
           SaveRunVerdict(op[k].request) = "commit",
           CommitRun(op[k].request, seen[k].content, <<PlainEvent(k, "resolution")>>),
           Finish(k, "returned", {})
    PROVE  OwnRun(k)
<1> DEFINE r == op[k].request
           e == PlainEvent(k, "resolution")
<1>1. /\ op[k] \in Operation /\ r \in Requests
      /\ seen[k].content \in Contents
  BY OperationsAssumption DEF At, Inv, TypeInv, CallShape, Operation
<1>2. e \in Event /\ e.stage = "resolution"
  BY <1>1, PlainEventType
<1>3. ~has_resolution_run(r)
  BY DEF SaveRunVerdict
<1>4. QED
  BY <1>1, <1>2, <1>3 DEF At, Opened, OwnRun

\* A saved annotation: the clone that was read is the live trace, or one entry
\* behind it, in which case saving it changes nothing.
LEMMA AnnotationCommits ==
    ASSUME Inv, NEW k \in Calls, At(k, "commit"), op[k].kind = "annotate",
           SaveTraceVerdict(op[k].request,
                            Append(seen[k].trace, PlainEvent(k, "annotation"))) = "commit",
           CommitTrace(op[k].request, Append(seen[k].trace, PlainEvent(k, "annotation"))),
           Finish(k, "returned", {})
    PROVE  UNCHANGED storeVars \/ OwnAnnotation(k)
<1> DEFINE r == op[k].request
           s == seen[k].trace
           e == PlainEvent(k, "annotation")
           trace == Append(s, e)
<1>1. /\ op[k] \in Operation /\ r \in Requests
      /\ s \in Seq(Event) /\ traces[r] \in Seq(Event)
      /\ Len(s) <= Len(traces[r])
  BY OperationsAssumption
  DEF At, Inv, TypeInv, TypeOK, StoreTypeOK, CallShape, CallKnows, Locals, Operation
<1>2. e \in Event /\ e.stage = "annotation"
  BY <1>1, PlainEventType
<1>3. /\ has_resolution_run(r)
      /\ Len(trace) >= Len(traces[r])
      /\ Prefix(trace, Len(traces[r])) = traces[r]
  BY <1>1, <1>2 DEF SaveTraceVerdict
<1>4. /\ trace \in Seq(Event) /\ Len(trace) = Len(s) + 1
      /\ Len(s) \in Nat /\ Len(traces[r]) \in Nat
  BY <1>1, <1>2
<1>5. CASE Len(s) = Len(traces[r])
  <2>1. Prefix(trace, Len(s)) = s
    BY <1>1, <1>2, <1>4, PrefixOfAppend, PrefixFull
  <2>2. s = traces[r]
    BY <1>3, <1>5, <2>1
  <2>3. QED
    BY <1>1, <1>2, <1>3, <2>2 DEF At, Annotated, OwnAnnotation
<1>6. CASE Len(s) # Len(traces[r])
  <2>1. Len(trace) = Len(traces[r])
    BY <1>1, <1>3, <1>4, <1>6
  <2>2. trace = traces[r]
    BY <1>3, <1>4, <2>1, PrefixFull
  <2>3. recommendations[r].trace = trace
    BY <1>1, <2>2 DEF Inv, StoreInv, RunsHaveTraces
  <2>4. UNCHANGED <<traces, approvals, locked>>
    BY <1>1, <2>2 DEF CommitTrace, StoreTrace, Inv, TypeInv, TypeOK, StoreTypeOK
  <2>5. recommendations' = [recommendations EXCEPT ![r].trace = trace]
    BY DEF CommitTrace, StoreTrace
  <2>6. recommendations' = recommendations
    BY <1>1, <2>3, <2>5 DEF Inv, TypeInv, TypeOK, StoreTypeOK
  <2>7. QED
    BY <2>4, <2>6 DEF storeVars
<1>7. QED
  BY <1>5, <1>6

\* What a step of call k may do to the store.
EffectOf(k) ==
    UNCHANGED storeVars \/ OwnDecision(k) \/ OwnLock(k) \/ OwnRun(k) \/ OwnAnnotation(k)

\* A step of a call leaves the store alone or has its own effect on it.
LEMMA StepHasEffect ==
    ASSUME Inv, NEW k \in Calls, Step(k)
    PROVE  EffectOf(k)
<1>1. CASE \/ CheckNewRun(k) \/ ReadRecommendation(k) \/ CheckRevision(k)
           \/ ReadExisting(k) \/ ReadLocked(k) \/ ReadApproval(k)
           \/ CheckCandidate(k) \/ GetTrace(k)
  BY <1>1 DEF CheckNewRun, ReadRecommendation, CheckRevision, ReadExisting,
              ReadLocked, ReadApproval, CheckCandidate, GetTrace, Raise, EffectOf
<1>2. CASE CommitDecision(k)
  BY <1>2, DecisionCommits DEF CommitDecision, Retry, Raise, EffectOf
<1>3. CASE CommitLocked(k)
  BY <1>3, LockCommits DEF CommitLocked, Retry, Raise, EffectOf
<1>4. CASE CommitResolution(k)
  BY <1>4, ResolutionCommits DEF CommitResolution, Raise, EffectOf
<1>5. CASE CommitAnnotation(k)
  BY <1>5, AnnotationCommits DEF CommitAnnotation, Raise, EffectOf
<1>6. QED
  BY <1>1, <1>2, <1>3, <1>4, <1>5 DEF Step

\* Every step of the system has one of the effects.
LEMMA EveryStepHasEffect ==
    ASSUME Inv, [Next]_vars
    PROVE  StoreEffect
<1>1. ASSUME NEW k \in Calls, Step(k)
      PROVE  StoreEffect
  BY <1>1, StepHasEffect
  DEF EffectOf, StoreEffect, OwnDecision, OwnLock, OwnRun, OwnAnnotation
<1>2. ASSUME NEW k \in Calls, NEW o \in Operations, Invoke(k, o)
      PROVE  StoreEffect
  BY <1>2 DEF Invoke, StoreEffect, storeVars
<1>3. ASSUME NEW k \in Calls, Cancel(k)
      PROVE  StoreEffect
  BY <1>3 DEF Cancel, StoreEffect, storeVars
<1>4. CASE UNCHANGED vars
  BY <1>4 DEF vars, storeVars, StoreEffect
<1>5. QED
  BY <1>1, <1>2, <1>3, <1>4 DEF Next

-----------------------------------------------------------------------------
(* What the effects preserve                                               *)

\* Appending one event: the new trace, entry by entry.
LEMMA AppendGrows ==
    ASSUME NEW s \in Seq(Event), NEW e \in Event
    PROVE  /\ Append(s, e) \in Seq(Event)
           /\ Len(s) \in Nat
           /\ Len(Append(s, e)) = Len(s) + 1
           /\ \A i \in 1 .. Len(s) : Append(s, e)[i] = s[i]
           /\ Append(s, e)[Len(s) + 1] = e
           /\ \A n \in 0 .. Len(s) : Prefix(Append(s, e), n) = Prefix(s, n)
<1>1. \A n \in 0 .. Len(s) : Prefix(Append(s, e), n) = Prefix(s, n)
  BY PrefixOfAppend
<1>2. QED
  BY <1>1

\* Storing an extended trace touches one request and keeps its content.
LEMMA StoreTraceChanges ==
    ASSUME StoreTypeOK, NEW r \in Requests, NEW trace, StoreTrace(r, trace)
    PROVE  /\ traces'[r] = trace
           /\ \A q \in Requests \ {r} : traces'[q] = traces[q]
           /\ recommendations'[r].trace = trace
           /\ \A q \in Requests \ {r} : recommendations'[q] = recommendations[q]
           /\ \A q \in Requests : recommendations'[q].content = recommendations[q].content
BY DEF StoreTypeOK, StoreTrace

\* What was committed stays: traces grow at their end, contents, decisions and
\* locks are kept.
Grows ==
    /\ \A r \in Requests :
          /\ Len(traces[r]) <= Len(traces'[r])
          /\ \A i \in 1 .. Len(traces[r]) : traces'[r][i] = traces[r][i]
          /\ \A n \in 0 .. Len(traces[r]) : Prefix(traces'[r], n) = Prefix(traces[r], n)
          /\ has_resolution_run(r) =>
                recommendations'[r].content = recommendations[r].content
    /\ approvals \subseteq approvals'
    /\ locked \subseteq locked'

\* Every effect keeps what was committed.
LEMMA EffectGrows ==
    ASSUME Inv, StoreEffect
    PROVE  Grows
<1>1. StoreTypeOK /\ \A r \in Requests : traces[r] \in Seq(Event)
  BY DEF Inv, TypeInv, TypeOK, StoreTypeOK
<1>2. ASSUME NEW r \in Requests, NEW e \in Event, StoreTrace(r, Append(traces[r], e)),
             approvals \subseteq approvals', locked \subseteq locked'
      PROVE  Grows
  <2>1. /\ traces'[r] = Append(traces[r], e)
        /\ \A q \in Requests \ {r} : traces'[q] = traces[q]
        /\ \A q \in Requests : recommendations'[q].content = recommendations[q].content
    BY <1>1, <1>2, StoreTraceChanges
  <2>2. /\ Len(traces[r]) <= Len(traces'[r])
        /\ \A i \in 1 .. Len(traces[r]) : traces'[r][i] = traces[r][i]
        /\ \A n \in 0 .. Len(traces[r]) : Prefix(traces'[r], n) = Prefix(traces[r], n)
    BY <1>1, <2>1, AppendGrows
  <2>3. \A q \in Requests : Len(traces[q]) <= Len(traces[q])
    BY <1>1
  <2>4. QED
    BY <1>2, <2>1, <2>2, <2>3 DEF Grows
<1>3. CASE UNCHANGED storeVars
  <2>1. \A q \in Requests : Len(traces[q]) <= Len(traces[q])
    BY <1>1
  <2>2. QED
    BY <1>3, <2>1 DEF storeVars, Grows
<1>4. ASSUME NEW r \in Requests, NEW content \in Contents, NEW e \in Event,
             Opened(r, content, e)
      PROVE  Grows
  <2>1. traces[r] = <<>> /\ ~has_resolution_run(r)
    BY <1>4 DEF Opened, Inv, StoreInv, RunsHaveTraces
  <2>2. /\ traces'[r] = Append(traces[r], e)
        /\ \A q \in Requests \ {r} : traces'[q] = traces[q]
        /\ \A q \in Requests \ {r} : recommendations'[q] = recommendations[q]
        /\ UNCHANGED <<approvals, locked>>
    BY <1>1, <1>4, <2>1 DEF Opened, CommitRun, StoreTypeOK
  <2>3. /\ Len(traces[r]) <= Len(traces'[r])
        /\ \A i \in 1 .. Len(traces[r]) : traces'[r][i] = traces[r][i]
        /\ \A n \in 0 .. Len(traces[r]) : Prefix(traces'[r], n) = Prefix(traces[r], n)
    BY <1>1, <2>2, AppendGrows
  <2>4. \A q \in Requests : Len(traces[q]) <= Len(traces[q])
    BY <1>1
  <2>5. QED
    BY <2>1, <2>2, <2>3, <2>4 DEF Grows
<1>5. ASSUME NEW r \in Requests, NEW e \in Event, Annotated(r, e)
      PROVE  Grows
  BY <1>2, <1>5 DEF Annotated, CommitTrace
<1>6. ASSUME NEW a \in ApprovalRecord, NEW k \in Calls, DecisionStored(a, k)
      PROVE  Grows
  <2>1. a.request \in Requests /\ DecisionEvent(a, k) \in Event
    BY DEF ApprovalRecord, DecisionEvent, Event
  <2>2. QED
    BY <1>2, <1>6, <2>1 DEF DecisionStored
<1>7. ASSUME NEW l \in LockedResolution, NEW k \in Calls, LockStored(l, k)
      PROVE  Grows
  <2>1. l.request \in Requests /\ LockEvent(l.approval, l.reviewer, k) \in Event
    BY DEF LockedResolution, ApprovalRecord, LockEvent, Event, Notes
  <2>2. QED
    BY <1>2, <1>7, <2>1 DEF LockStored
<1>8. QED
  BY <1>3, <1>4, <1>5, <1>6, <1>7 DEF StoreEffect

\* One event was appended to the trace of r.
Extends(r, e) ==
    /\ traces'[r] = Append(traces[r], e)
    /\ \A q \in Requests \ {r} : traces'[q] = traces[q]
    /\ \A q \in Requests : recommendations'[q].trace = traces'[q]
    /\ \A q \in Requests : has_resolution_run(q)' <=> has_resolution_run(q) \/ q = r

\* Storing a trace that is one event longer, for a request with a run.
LEMMA StoreTraceExtends ==
    ASSUME Inv, NEW r \in Requests, NEW e, has_resolution_run(r),
           StoreTrace(r, Append(traces[r], e))
    PROVE  Extends(r, e)
<1>1. StoreTypeOK
  BY DEF Inv, TypeInv, TypeOK
<1>2. \A q \in Requests : recommendations[q].trace = traces[q]
  BY DEF Inv, StoreInv, RunsHaveTraces
<1>3. QED
  BY <1>1, <1>2, StoreTraceChanges DEF Extends, has_resolution_run

\* Storing a run starts the trace of a request that had none.
LEMMA OpenedExtends ==
    ASSUME Inv, NEW r \in Requests, NEW content \in Contents, NEW e \in Event,
           Opened(r, content, e)
    PROVE  Extends(r, e)
<1>1. traces[r] = <<>>
  BY DEF Opened, Inv, StoreInv, RunsHaveTraces
<1>2. /\ traces'[r] = Append(traces[r], e)
      /\ recommendations'[r] = [content |-> content, trace |-> <<e>>]
      /\ \A q \in Requests \ {r} : /\ traces'[q] = traces[q]
                                  /\ recommendations'[q] = recommendations[q]
  BY <1>1 DEF Opened, CommitRun, Inv, TypeInv, TypeOK, StoreTypeOK
<1>3. traces'[r] = <<e>>
  BY <1>1, <1>2
<1>4. recommendations'[r].trace = traces'[r] /\ has_resolution_run(r)'
  BY <1>2, <1>3, NoContentAssumption DEF has_resolution_run
<1>5. QED
  BY <1>2, <1>4 DEF Extends, has_resolution_run, Inv, StoreInv, RunsHaveTraces

\* An appended event: what it leaves true of runs, decisions and locks.
LEMMA ExtensionKeeps ==
    ASSUME Inv, Grows, NEW r \in Requests, NEW e \in Event, Extends(r, e)
    PROVE  /\ RunsHaveTraces'
           /\ \A a \in approvals :
                 /\ a.trace_revision \in 1 .. Len(traces'[a.request])
                 /\ a.trace_chain = Prefix(traces'[a.request], a.trace_revision)
                 /\ \E k \in Calls :
                       traces'[a.request][a.trace_revision] = DecisionEvent(a, k)
           /\ \A q \in Requests : \A i \in 1 .. Len(traces'[q]) :
                 \/ i \in 1 .. Len(traces[q]) /\ traces'[q][i] = traces[q][i]
                 \/ q = r /\ i = Len(traces[r]) + 1 /\ traces'[q][i] = e
           /\ \A l \in locked : Len(l.snapshot) \in 1 .. Len(traces'[l.request])
<1>1. \A q \in Requests : traces[q] \in Seq(Event) /\ Len(traces[q]) \in Nat
  BY DEF Inv, TypeInv, TypeOK, StoreTypeOK
<1>2. /\ Append(traces[r], e) # <<>>
      /\ Len(traces'[r]) = Len(traces[r]) + 1
      /\ traces'[r][Len(traces[r]) + 1] = e
  BY <1>1, AppendGrows DEF Extends
<1>3. RunsHaveTraces'
  BY <1>2 DEF Inv, StoreInv, RunsHaveTraces, Extends
<1>4. \A q \in Requests : Len(traces'[q]) \in Nat /\ Len(traces[q]) <= Len(traces'[q])
  BY <1>1, <1>2 DEF Extends, Grows
<1>5. ASSUME NEW a \in approvals
      PROVE  /\ a.trace_revision \in 1 .. Len(traces'[a.request])
             /\ a.trace_chain = Prefix(traces'[a.request], a.trace_revision)
             /\ \E k \in Calls :
                   traces'[a.request][a.trace_revision] = DecisionEvent(a, k)
  <2>1. a.request \in Requests /\ a.trace_revision \in 1 .. Len(traces[a.request])
    BY DEF Inv, TypeInv, TypeOK, StoreTypeOK, StoreInv, DecisionsAreBound, ApprovalRecord
  <2>2. a.trace_revision \in 0 .. Len(traces[a.request])
    BY <1>1, <2>1
  <2>3. /\ Prefix(traces'[a.request], a.trace_revision)
               = Prefix(traces[a.request], a.trace_revision)
        /\ traces'[a.request][a.trace_revision] = traces[a.request][a.trace_revision]
    BY <2>1, <2>2 DEF Grows
  <2>4. a.trace_revision \in 1 .. Len(traces'[a.request])
    BY <1>1, <1>4, <2>1
  <2>5. QED
    BY <2>3, <2>4 DEF Inv, StoreInv, DecisionsAreBound
<1>6. ASSUME NEW q \in Requests, NEW i \in 1 .. Len(traces'[q])
      PROVE  \/ i \in 1 .. Len(traces[q]) /\ traces'[q][i] = traces[q][i]
             \/ q = r /\ i = Len(traces[r]) + 1 /\ traces'[q][i] = e
  <2>1. CASE i \in 1 .. Len(traces[q])
    BY <2>1 DEF Grows
  <2>2. CASE i \notin 1 .. Len(traces[q])
    <3>1. q = r
      BY <2>2 DEF Extends
    <3>2. i = Len(traces[r]) + 1
      BY <1>1, <1>2, <2>2, <3>1
    <3>3. QED
      BY <1>2, <3>1, <3>2
  <2>3. QED
    BY <2>1, <2>2
<1>7. ASSUME NEW l \in locked
      PROVE  Len(l.snapshot) \in 1 .. Len(traces'[l.request])
  <2>1. l.request \in Requests /\ Len(l.snapshot) \in 1 .. Len(traces[l.request])
    BY DEF Inv, TypeInv, TypeOK, StoreTypeOK, StoreInv, LocksAreInTrace, LockedResolution
  <2>2. QED
    BY <1>1, <1>4, <2>1
<1>8. QED
  BY <1>3, <1>5, <1>6, <1>7

\* A lock stays sealed when only an annotation can follow in its trace.
LEMMA LockStaysSealed ==
    ASSUME Inv, TypeInv', Grows, NEW r \in Requests, NEW e \in Event, Extends(r, e),
           NEW l \in locked, l.request = r => e.stage = "annotation"
    PROVE  /\ l.approval \in approvals'
           /\ l.approval.status = "approved"
           /\ l.approval.request = l.request /\ l.approval.candidate = l.candidate
           /\ l.approval.trace_revision < Len(l.snapshot)
           /\ l.snapshot = Prefix(traces'[l.request], Len(l.snapshot))
           /\ \A i \in DOMAIN traces'[l.request] :
                 /\ i > Len(l.snapshot) => traces'[l.request][i].stage = "annotation"
                 /\ traces'[l.request][i].stage = "lock" => i = Len(l.snapshot)
<1>1. /\ l.request \in Requests /\ traces[l.request] \in Seq(Event)
      /\ traces'[l.request] \in Seq(Event)
      /\ Len(l.snapshot) \in 1 .. Len(traces[l.request])
  BY DEF Inv, TypeInv, TypeOK, StoreTypeOK, StoreInv, LocksAreInTrace, LockedResolution
<1>2. /\ l.approval \in approvals
      /\ l.approval.status = "approved"
      /\ l.approval.request = l.request /\ l.approval.candidate = l.candidate
      /\ l.approval.trace_revision < Len(l.snapshot)
      /\ l.snapshot = Prefix(traces[l.request], Len(l.snapshot))
      /\ \A i \in DOMAIN traces[l.request] :
            /\ i > Len(l.snapshot) => traces[l.request][i].stage = "annotation"
            /\ traces[l.request][i].stage = "lock" => i = Len(l.snapshot)
  BY DEF Inv, StoreInv, LockSealsApproval
<1>3. l.approval \in approvals' /\ l.snapshot = Prefix(traces'[l.request], Len(l.snapshot))
  <2>1. Len(l.snapshot) \in 0 .. Len(traces[l.request])
    BY <1>1
  <2>2. QED
    BY <1>1, <1>2, <2>1 DEF Grows
<1>4. ASSUME NEW i \in DOMAIN traces'[l.request]
      PROVE  /\ i > Len(l.snapshot) => traces'[l.request][i].stage = "annotation"
             /\ traces'[l.request][i].stage = "lock" => i = Len(l.snapshot)
  <2>1. i \in 1 .. Len(traces'[l.request])
    BY <1>1
  <2>2. \/ i \in 1 .. Len(traces[l.request])
           /\ traces'[l.request][i] = traces[l.request][i]
        \/ l.request = r /\ traces'[l.request][i] = e
    BY <1>1, <2>1, ExtensionKeeps
  <2>3. QED
    BY <1>1, <1>2, <2>2
<1>5. QED
  BY <1>2, <1>3, <1>4

\* Locks and decisions that stay stored keep accounting for the trace's events.
LEMMA EventsStayStored ==
    ASSUME Inv, Grows, NEW r \in Requests, NEW e \in Event, Extends(r, e),
           e.stage = "human_approval" =>
               \E a \in approvals' : a.request = r /\ a.trace_revision = Len(traces[r]) + 1,
           e.stage = "lock" => get_locked(r)' # {}
    PROVE  EventsAreStored'
<1>1. SUFFICES ASSUME NEW q \in Requests, NEW i \in 1 .. Len(traces'[q])
               PROVE  /\ traces'[q][i].stage = "human_approval" =>
                            \E a \in approvals' : a.request = q /\ a.trace_revision = i
                      /\ traces'[q][i].stage = "lock" => get_locked(q)' # {}
  BY DEF EventsAreStored
<1>2. CASE i \in 1 .. Len(traces[q]) /\ traces'[q][i] = traces[q][i]
  <2>1. /\ traces[q][i].stage = "human_approval" =>
              \E a \in approvals : a.request = q /\ a.trace_revision = i
        /\ traces[q][i].stage = "lock" => get_locked(q) # {}
    BY <1>2 DEF Inv, StoreInv, EventsAreStored
  <2>2. approvals \subseteq approvals' /\ get_locked(q) \subseteq get_locked(q)'
    BY DEF Grows, get_locked
  <2>3. QED
    BY <1>2, <2>1, <2>2
<1>3. CASE q = r /\ i = Len(traces[r]) + 1 /\ traces'[q][i] = e
  BY <1>3
<1>4. QED
  BY <1>2, <1>3, ExtensionKeeps

\* Opening a request or annotating one keeps the store invariant.
LEMMA PlainEventKeepsStoreInv ==
    ASSUME Inv, TypeInv', Grows, NEW r \in Requests, NEW e \in Event, Extends(r, e),
           e.stage \in {"resolution", "annotation"},
           get_locked(r) # {} => e.stage = "annotation",
           UNCHANGED <<approvals, locked>>
    PROVE  StoreInv'
<1>1. RunsHaveTraces' /\ DecisionsAreBound' /\ LocksAreInTrace'
  BY ExtensionKeeps DEF DecisionsAreBound, LocksAreInTrace
<1>2. OneDecision' /\ AtMostOneApproved'
  BY DEF Inv, StoreInv, OneDecision, AtMostOneApproved
<1>3. EventsAreStored'
  BY EventsStayStored
<1>4. \A l \in locked : l.request = r => e.stage = "annotation"
  BY DEF get_locked
<1>5. LockSealsApproval'
  BY <1>4, LockStaysSealed DEF LockSealsApproval
<1>6. QED
  BY <1>1, <1>2, <1>3, <1>5 DEF StoreInv

\* Storing a decision keeps the store invariant.
LEMMA DecisionKeepsStoreInv ==
    ASSUME Inv, TypeInv', Grows, NEW a \in ApprovalRecord, NEW k \in Calls,
           DecisionStored(a, k)
    PROVE  StoreInv'
<1> DEFINE r == a.request
           e == DecisionEvent(a, k)
<1>1. r \in Requests /\ e \in Event /\ e.stage = "human_approval"
  BY DEF ApprovalRecord, DecisionEvent, Event
<1>2. Extends(r, e)
  BY <1>1, StoreTraceExtends DEF DecisionStored
<1>3. /\ get_approval(r, a.candidate) = {}
      /\ get_locked(r) = {}
      /\ a.status = "approved" => ~OneApproved(r)
      /\ a.trace_revision = Len(traces[r]) + 1
      /\ a.trace_chain = Append(traces[r], e)
      /\ approvals' = approvals \cup {a}
      /\ UNCHANGED locked
  BY DEF DecisionStored
<1>4. traces[r] \in Seq(Event)
  BY <1>1 DEF Inv, TypeInv, TypeOK, StoreTypeOK
<1> HIDE DEF e
<1>5. RunsHaveTraces' /\ LocksAreInTrace'
  BY <1>1, <1>2, <1>3, ExtensionKeeps DEF LocksAreInTrace
<1>6. OneDecision'
  BY <1>3 DEF Inv, StoreInv, OneDecision, get_approval
<1>7. AtMostOneApproved'
  BY <1>3 DEF Inv, StoreInv, AtMostOneApproved, OneApproved
<1>8. DecisionsAreBound'
  <2>1. traces'[r] = Append(traces[r], e)
    BY <1>2 DEF Extends
  <2>2. /\ a.trace_revision \in 1 .. Len(traces'[r])
        /\ a.trace_chain = Prefix(traces'[r], a.trace_revision)
        /\ traces'[r][a.trace_revision] = e
    <3>1. /\ Append(traces[r], e) \in Seq(Event) /\ Len(traces[r]) \in Nat
          /\ Len(Append(traces[r], e)) = Len(traces[r]) + 1
          /\ Append(traces[r], e)[Len(traces[r]) + 1] = e
      BY <1>1, <1>4, AppendGrows
    <3>2. Prefix(Append(traces[r], e), Len(traces[r]) + 1) = Append(traces[r], e)
      BY <3>1, PrefixFull
    <3>3. QED
      BY <1>3, <2>1, <3>1, <3>2
  <2>3. \E j \in Calls : traces'[r][a.trace_revision] = DecisionEvent(a, j)
    BY <2>2 DEF e
  <2>4. \A b \in approvals :
           /\ b.trace_revision \in 1 .. Len(traces'[b.request])
           /\ b.trace_chain = Prefix(traces'[b.request], b.trace_revision)
           /\ \E j \in Calls : traces'[b.request][b.trace_revision] = DecisionEvent(b, j)
    BY <1>1, <1>2, ExtensionKeeps
  <2>5. QED
    BY <1>3, <2>2, <2>3, <2>4 DEF DecisionsAreBound
<1>9. EventsAreStored'
  BY <1>1, <1>2, <1>3, EventsStayStored
<1>10. LockSealsApproval'
  <2>1. \A l \in locked : l.request # r
    BY <1>3 DEF get_locked
  <2>2. QED
    BY <1>1, <1>2, <1>3, <2>1, LockStaysSealed DEF LockSealsApproval
<1>11. QED
  BY <1>5, <1>6, <1>7, <1>8, <1>9, <1>10 DEF StoreInv

\* Storing a lock keeps the store invariant.
LEMMA LockKeepsStoreInv ==
    ASSUME Inv, TypeInv', Grows, NEW l \in LockedResolution, NEW k \in Calls,
           LockStored(l, k)
    PROVE  StoreInv'
<1> DEFINE r == l.request
           e == LockEvent(l.approval, l.reviewer, k)
<1>1. r \in Requests /\ e \in Event /\ e.stage = "lock"
  BY DEF LockedResolution, ApprovalRecord, LockEvent, Event, Notes
<1>2. Extends(r, e)
  BY <1>1, StoreTraceExtends DEF LockStored
<1>3. /\ get_locked(r) = {}
      /\ get_approval(r, l.candidate) = {l.approval}
      /\ l.approval.status = "approved"
      /\ l.snapshot = Append(traces[r], e)
      /\ locked' = locked \cup {l}
      /\ UNCHANGED approvals
  BY DEF LockStored
<1> HIDE DEF e
<1>4. /\ traces[r] \in Seq(Event) /\ Len(traces[r]) \in Nat
      /\ traces'[r] = l.snapshot /\ l.snapshot \in Seq(Event)
      /\ Len(l.snapshot) = Len(traces[r]) + 1
  <2>1. traces[r] \in Seq(Event)
    BY <1>1 DEF Inv, TypeInv, TypeOK, StoreTypeOK
  <2>2. QED
    BY <1>1, <1>2, <1>3, <2>1, AppendGrows DEF Extends
<1>5. RunsHaveTraces' /\ DecisionsAreBound'
  BY <1>1, <1>2, <1>3, ExtensionKeeps DEF DecisionsAreBound
<1>6. LocksAreInTrace'
  <2>1. Len(l.snapshot) \in 1 .. Len(traces'[r])
    BY <1>4
  <2>2. QED
    BY <1>1, <1>2, <1>3, <2>1, ExtensionKeeps DEF LocksAreInTrace
<1>7. OneDecision' /\ AtMostOneApproved'
  BY <1>3 DEF Inv, StoreInv, OneDecision, AtMostOneApproved
<1>8. EventsAreStored'
  <2>1. get_locked(r)' # {}
    BY <1>3 DEF get_locked
  <2>2. QED
    BY <1>1, <1>2, <2>1, EventsStayStored
<1>9. LockSealsApproval'
  <2>1. /\ l.approval \in approvals'
        /\ l.approval.request = r /\ l.approval.candidate = l.candidate
    BY <1>3 DEF get_approval
  <2>2. l.approval.trace_revision < Len(l.snapshot)
    BY <1>3, <1>4, <2>1 DEF Inv, StoreInv, DecisionsAreBound
  <2>3. l.snapshot = Prefix(traces'[r], Len(l.snapshot))
    BY <1>4, PrefixFull
  <2>4. ASSUME NEW i \in DOMAIN traces'[r]
        PROVE  /\ ~(i > Len(l.snapshot))
               /\ traces'[r][i].stage = "lock" => i = Len(l.snapshot)
    <3>1. i \in 1 .. Len(l.snapshot)
      BY <1>4
    <3>2. CASE i \in 1 .. Len(traces[r]) /\ traces'[r][i] = traces[r][i]
      <4>1. traces[r][i].stage # "lock"
        BY <1>1, <1>3, <3>2 DEF Inv, StoreInv, EventsAreStored
      <4>2. QED
        BY <1>4, <3>1, <3>2, <4>1
    <3>3. CASE i = Len(traces[r]) + 1
      BY <1>4, <3>3
    <3>4. QED
      BY <1>1, <1>2, <1>4, <3>1, <3>2, <3>3, ExtensionKeeps
  <2>5. \A m \in locked : m.request # r
    BY <1>3 DEF get_locked
  <2>6. QED
    BY <1>1, <1>2, <1>3, <2>1, <2>2, <2>3, <2>4, <2>5, LockStaysSealed
    DEF LockSealsApproval
<1>10. QED
  BY <1>5, <1>6, <1>7, <1>8, <1>9 DEF StoreInv

-----------------------------------------------------------------------------
(* The inductive invariant is inductive                                    *)

\* A call that does not move keeps what it knows while the store grows.
LEMMA OthersKnow ==
    ASSUME Inv, Grows, TypeInv', NEW j \in Calls,
           pc'[j] = pc[j], op'[j] = op[j], seen'[j] = seen[j]
    PROVE  CallKnows(j)'
<1>1. CallKnows(j)
  BY DEF Inv
<1>2. pc[j] = "commit" /\ op[j].kind = "annotate" =>
          Len(seen[j].trace) <= Len(traces'[op[j].request])
  <2>1. SUFFICES ASSUME pc[j] = "commit", op[j].kind = "annotate"
                 PROVE  Len(seen[j].trace) <= Len(traces'[op[j].request])
    OBVIOUS
  <2>2. op[j].request \in Requests /\ seen[j].trace \in Seq(Event)
    BY <2>1, OperationsAssumption DEF Inv, TypeInv, TypeOK, CallShape, Operation, Locals
  <2>3. Len(seen[j].trace) <= Len(traces[op[j].request])
    BY <1>1, <2>1 DEF CallKnows
  <2>4. /\ Len(traces[op[j].request]) <= Len(traces'[op[j].request])
        /\ traces[op[j].request] \in Seq(Event) /\ traces'[op[j].request] \in Seq(Event)
    BY <2>2 DEF Grows, Inv, TypeInv, TypeOK, StoreTypeOK
  <2>5. QED
    BY <2>2, <2>3, <2>4
<1>3. QED
  BY <1>1, <1>2 DEF CallKnows

\* The call that moves knows what it has just read.
LEMMA StepKnows ==
    ASSUME Inv, Grows, TypeInv', NEW k \in Calls, Step(k)
    PROVE  CallKnows(k)'
<1> DEFINE r == op[k].request
           c == op[k].candidate
<1>1. CallKnows(k) /\ pc \in [Calls -> Labels] /\ seen \in [Calls -> Locals]
  BY DEF Inv, TypeInv, TypeOK
<1>2. op'[k] = op[k]
  BY DEF Step, CheckNewRun, ReadRecommendation, CheckRevision, ReadExisting, ReadLocked,
         ReadApproval, CheckCandidate, GetTrace, CommitDecision, CommitLocked,
         CommitResolution, CommitAnnotation, Raise, Finish, Goto, Retry
<1>3. ASSUME NEW how, NEW objects, Finish(k, how, objects)
      PROVE  CallKnows(k)'
  BY <1>1, <1>2, <1>3 DEF Finish, CallKnows
<1>4. ASSUME NEW error, Raise(k, error)
      PROVE  CallKnows(k)'
  BY <1>3, <1>4 DEF Raise
<1>5. ASSUME NEW label, Goto(k, label)
      PROVE  pc'[k] = label
  BY <1>1, <1>5 DEF Goto
<1>6. CASE CheckNewRun(k)
  BY <1>1, <1>2, <1>4, <1>5, <1>6 DEF CheckNewRun, At, CallKnows
<1>7. CASE ReadRecommendation(k)
  <2>1. CASE \E error : Raise(k, error)
    BY <1>4, <2>1
  <2>2. CASE Goto(k, IF op[k].expected = AnyRevision THEN "existing" ELSE "revision")
    BY <1>1, <1>2, <1>5, <1>7, <2>2 DEF ReadRecommendation, At, CallKnows
  <2>3. QED
    BY <1>7, <2>1, <2>2 DEF ReadRecommendation
<1>8. CASE CheckRevision(k)
  BY <1>1, <1>2, <1>4, <1>5, <1>8 DEF CheckRevision, At, CallKnows
<1>9. CASE ReadExisting(k)
  BY <1>1, <1>2, <1>3, <1>4, <1>5, <1>9 DEF ReadExisting, At, CallKnows
<1>10. CASE ReadLocked(k)
  BY <1>1, <1>2, <1>3, <1>4, <1>5, <1>10 DEF ReadLocked, At, CallKnows
<1>11. CASE ReadApproval(k)
  <2>1. CASE Raise(k, "Conflict")
    BY <1>4, <2>1
  <2>2. CASE /\ \E a \in get_approval(r, c) : a.status = "approved"
             /\ seen' = [seen EXCEPT ![k].approval = get_approval(r, c)]
             /\ Goto(k, "candidate")
    <3>1. seen'[k].approval = get_approval(r, c)
      BY <1>1, <2>2 DEF Locals
    <3>2. \A a \in get_approval(r, c) : a.status = "approved"
      BY <2>2 DEF get_approval, Inv, StoreInv, OneDecision
    <3>3. QED
      BY <1>2, <1>5, <2>2, <3>1, <3>2 DEF CallKnows
  <2>3. QED
    BY <1>11, <2>1, <2>2 DEF ReadApproval
<1>12. CASE CheckCandidate(k)
  <2>1. CASE \E error : Raise(k, error)
    BY <1>4, <2>1
  <2>2. CASE /\ seen' = [seen EXCEPT ![k].content = get_recommendation(r)]
             /\ Goto(k, "trace")
    <3>1. seen'[k].approval = seen[k].approval
      BY <1>1, <2>2 DEF Locals
    <3>2. QED
      BY <1>1, <1>2, <1>5, <1>12, <2>2, <3>1 DEF CheckCandidate, At, CallKnows
  <2>3. QED
    BY <1>12, <2>1, <2>2 DEF CheckCandidate
<1>13. CASE GetTrace(k)
  <2>1. CASE \E error : Raise(k, error)
    BY <1>4, <2>1
  <2>2. CASE /\ seen' = [seen EXCEPT ![k].trace = traces[r]]
             /\ Goto(k, "commit")
             /\ UNCHANGED storeVars
    <3>1. seen'[k].approval = seen[k].approval /\ seen'[k].trace = traces[r]
      BY <1>1, <2>2 DEF Locals
    <3>2. r \in Requests /\ traces[r] \in Seq(Event) /\ traces' = traces
      BY <1>13, <2>2, OperationsAssumption
      DEF GetTrace, At, Inv, TypeInv, TypeOK, StoreTypeOK, CallShape, Operation, storeVars
    <3>3. Len(seen'[k].trace) <= Len(traces'[r])
      BY <3>1, <3>2
    <3>4. QED
      BY <1>1, <1>2, <1>5, <1>13, <2>2, <3>1, <3>3 DEF GetTrace, At, CallKnows
  <2>3. QED
    BY <1>13, <2>1, <2>2 DEF GetTrace
<1>14. ASSUME Retry(k), At(k, "commit")
       PROVE  CallKnows(k)'
  <2>1. seen'[k].approval = seen[k].approval
    BY <1>1, <1>14 DEF Retry
  <2>2. QED
    BY <1>1, <1>2, <1>5, <1>14, <2>1 DEF Retry, At, CallKnows
<1>15. CASE CommitDecision(k) \/ CommitLocked(k)
  BY <1>3, <1>4, <1>14, <1>15 DEF CommitDecision, CommitLocked
<1>16. CASE CommitResolution(k) \/ CommitAnnotation(k)
  BY <1>3, <1>4, <1>16 DEF CommitResolution, CommitAnnotation
<1>17. QED
  BY <1>6, <1>7, <1>8, <1>9, <1>10, <1>11, <1>12, <1>13, <1>15, <1>16 DEF Step

\* The inductive invariant holds initially.
LEMMA InvInit == Init => Inv
<1>1. ASSUME Init PROVE StoreInv /\ \A k \in Calls : CallKnows(k)
  BY <1>1 DEF Init, StoreInit, StoreInv, RunsHaveTraces, OneDecision, AtMostOneApproved,
              DecisionsAreBound, EventsAreStored, LocksAreInTrace, LockSealsApproval,
              has_resolution_run, CallKnows
<1>2. QED
  BY <1>1, TypeInvInit DEF Inv

\* Every step preserves the inductive invariant.
LEMMA InvStep == Inv /\ [Next]_vars => Inv'
<1> SUFFICES ASSUME Inv, [Next]_vars
             PROVE  Inv'
  OBVIOUS
<1>1. TypeInv'
  BY TypeInvStep DEF Inv
<1>2. StoreEffect
  BY EveryStepHasEffect
<1>3. Grows
  BY <1>2, EffectGrows
<1>4. StoreInv'
  <2>1. CASE UNCHANGED storeVars
    BY <2>1 DEF storeVars, Inv, StoreInv, RunsHaveTraces, OneDecision, AtMostOneApproved,
                DecisionsAreBound, EventsAreStored, LocksAreInTrace, LockSealsApproval,
                has_resolution_run, get_locked
  <2>2. ASSUME NEW r \in Requests, NEW content \in Contents, NEW e \in Event,
               Opened(r, content, e)
        PROVE  StoreInv'
    <3>1. traces[r] = <<>>
      BY <2>2 DEF Opened, Inv, StoreInv, RunsHaveTraces
    <3>2. Extends(r, e)
      BY <2>2, OpenedExtends
    <3>3. get_locked(r) = {}
      <4>1. ASSUME NEW l \in locked, l.request = r PROVE FALSE
        BY <3>1, <4>1 DEF Inv, StoreInv, LocksAreInTrace
      <4>2. QED
        BY <4>1 DEF get_locked
    <3>4. QED
      BY <1>1, <1>3, <2>2, <3>2, <3>3, PlainEventKeepsStoreInv DEF Opened, CommitRun
  <2>3. ASSUME NEW r \in Requests, NEW e \in Event, Annotated(r, e)
        PROVE  StoreInv'
    <3>1. Extends(r, e)
      BY <2>3, StoreTraceExtends DEF Annotated, CommitTrace
    <3>2. QED
      BY <1>1, <1>3, <2>3, <3>1, PlainEventKeepsStoreInv DEF Annotated, CommitTrace
  <2>4. QED
    BY <1>1, <1>2, <1>3, <2>1, <2>2, <2>3, DecisionKeepsStoreInv, LockKeepsStoreInv
    DEF StoreEffect
<1>5. \A j \in Calls : CallKnows(j)'
  <2>1. SUFFICES ASSUME NEW j \in Calls PROVE CallKnows(j)'
    OBVIOUS
  <2>2. CASE pc'[j] = pc[j] /\ op'[j] = op[j] /\ seen'[j] = seen[j]
    BY <1>1, <1>3, <2>2, OthersKnow
  <2>3. CASE Step(j)
    BY <1>1, <1>3, <2>3, StepKnows
  <2>4. ASSUME NEW o \in Operations, Invoke(j, o)
        PROVE  CallKnows(j)'
    <3>1. pc'[j] = FirstLabel(o) /\ op'[j] = o
      BY <2>4 DEF Invoke, Inv, TypeInv, TypeOK
    <3>2. /\ o.kind = "lock" => FirstLabel(o) \in {"locked", "revision"}
          /\ o.kind = "annotate" => FirstLabel(o) = "trace"
      BY DEF FirstLabel, Decisions
    <3>3. QED
      BY <3>1, <3>2 DEF CallKnows
  <2>5. CASE Cancel(j)
    <3>1. pc'[j] = "cancelled"
      BY <2>5 DEF Cancel, Inv, TypeInv, TypeOK
    <3>2. QED
      BY <3>1 DEF CallKnows
  <2>6. CASE \E k \in Calls \ {j} :
                (\E o \in Operations : Invoke(k, o)) \/ Step(k) \/ Cancel(k)
    <3>1. pc'[j] = pc[j] /\ op'[j] = op[j] /\ seen'[j] = seen[j]
      BY <2>6
      DEF Inv, TypeInv, TypeOK, Invoke, Cancel, Step, CheckNewRun, ReadRecommendation,
          CheckRevision, ReadExisting, ReadLocked, ReadApproval, CheckCandidate, GetTrace,
          CommitDecision, CommitLocked, CommitResolution, CommitAnnotation, Raise, Finish,
          Goto, Retry
    <3>2. QED
      BY <2>2, <3>1
  <2>7. QED
    BY <2>2, <2>3, <2>4, <2>5, <2>6 DEF Next, vars, callVars
<1>6. QED
  BY <1>1, <1>4, <1>5 DEF Inv

\* A request never has two approved candidates, for any number of racing calls
\* (AtMostOneApproved; save_approval's check is part of its commit).
THEOREM OneApprovedCandidate == Spec => []AtMostOneApproved
<1>1. Inv => AtMostOneApproved
  BY DEF Inv, StoreInv
<1>2. QED
  BY <1>1, InvInit, InvStep, PTL DEF Spec

\* Decisions and trace agree entry by entry in every reachable state
\* (DecisionsMatchTrace; save_approval commits record and event together).
THEOREM DecisionsAreAudited == Spec => []DecisionsMatchTrace
<1>1. Inv => DecisionsMatchTrace
  <2>1. ASSUME Inv PROVE \A r \in Requests : DOMAIN traces[r] = 1 .. Len(traces[r])
    BY <2>1 DEF Inv, TypeInv, TypeOK, StoreTypeOK
  <2>2. ASSUME Inv PROVE \A a \in approvals : a.request \in Requests
    BY <2>2 DEF Inv, TypeInv, TypeOK, StoreTypeOK, ApprovalRecord
  <2>3. QED
    BY <2>1, <2>2
    DEF Inv, StoreInv, DecisionsMatchTrace, DecisionsAreBound, EventsAreStored, RunsHaveTraces
<1>2. QED
  BY <1>1, InvInit, InvStep, PTL DEF Spec

\* A lock embeds the one stored approval and nothing but annotations follow it
\* in the trace (LockSealsApproval; lock and save_locked).
THEOREM LocksAreSealed == Spec => []LockSealsApproval
<1>1. Inv => LockSealsApproval
  BY DEF Inv, StoreInv
<1>2. QED
  BY <1>1, InvInit, InvStep, PTL DEF Spec

\* Nothing that was committed is rewritten by any step (HistoryIsImmutable).
THEOREM HistoryIsKept == Spec => HistoryIsImmutable
<1>1. ASSUME Inv, [Next]_vars
      PROVE  [/\ \A r \in Requests :
                    /\ Len(traces[r]) <= Len(traces'[r])
                    /\ Prefix(traces'[r], Len(traces[r])) = traces[r]
                    /\ has_resolution_run(r) =>
                          recommendations'[r].content = recommendations[r].content
              /\ approvals \subseteq approvals'
              /\ locked \subseteq locked']_vars
  <2>1. Grows
    BY <1>1, EveryStepHasEffect, EffectGrows
  <2>2. \A r \in Requests : Prefix(traces'[r], Len(traces[r])) = traces[r]
    <3>1. SUFFICES ASSUME NEW r \in Requests
                   PROVE  Prefix(traces'[r], Len(traces[r])) = traces[r]
      OBVIOUS
    <3>2. traces[r] \in Seq(Event) /\ Len(traces[r]) \in 0 .. Len(traces[r])
      BY <1>1 DEF Inv, TypeInv, TypeOK, StoreTypeOK
    <3>3. QED
      BY <2>1, <3>2, PrefixFull DEF Grows
  <2>3. QED
    BY <2>1, <2>2 DEF Grows
<1>2. QED
  BY <1>1, InvInit, InvStep, PTL DEF Spec, HistoryIsImmutable

-----------------------------------------------------------------------------
(* ReviewWorkflow implements ReviewAbstract: each of the four effects is   *)
(* one transition of the abstract machine, any other step is invisible.    *)

\* The audit trail of a trace that is one event longer.
LEMMA StagesOfAppend ==
    ASSUME NEW s \in Seq(Event), NEW e \in Event
    PROVE  Stages(Append(s, e)) = Append(Stages(s), e.stage)
<1> DEFINE K == {x.stage : x \in Event}
           long == Append(s, e)
           t == Stages(long)
           u == Append(Stages(s), e.stage)
<1>1. \A x \in Seq(Event) : /\ Stages(x) \in Seq(K)
                            /\ Len(Stages(x)) = Len(x)
                            /\ \A i \in 1 .. Len(x) : Stages(x)[i] = x[i].stage
  BY DEF Stages
<1>2. /\ long \in Seq(Event) /\ Len(s) \in Nat
      /\ Len(long) = Len(s) + 1
      /\ \A i \in 1 .. Len(s) : long[i] = s[i]
      /\ long[Len(s) + 1] = e
  BY AppendGrows
<1>3. e.stage \in K
  OBVIOUS
<1> HIDE DEF K, long
<1>4. /\ u \in Seq(K) /\ Len(u) = Len(s) + 1
      /\ \A i \in 1 .. Len(s) : u[i] = s[i].stage
      /\ u[Len(s) + 1] = e.stage
  BY <1>1, <1>2, <1>3
<1>5. /\ t \in Seq(K) /\ Len(t) = Len(s) + 1
      /\ \A i \in 1 .. Len(s) + 1 : t[i] = long[i].stage
  BY <1>1, <1>2
<1> HIDE DEF t, u
<1>6. \A i \in 1 .. Len(t) : t[i] = u[i]
  <2>1. SUFFICES ASSUME NEW i \in 1 .. Len(s) + 1 PROVE t[i] = u[i]
    BY <1>5
  <2>2. CASE i \in 1 .. Len(s)
    BY <1>2, <1>4, <1>5, <2>2
  <2>3. CASE i = Len(s) + 1
    BY <1>2, <1>4, <1>5, <2>3
  <2>4. QED
    BY <1>2, <2>2, <2>3
<1>7. t = u
  BY <1>4, <1>5, <1>6, SeqEqual
<1>8. QED
  BY <1>7 DEF t, u, long

\* An appended event appends its stage to the audit trail of its request.
LEMMA TrailOfExtension ==
    ASSUME Inv, NEW r \in Requests, NEW e \in Event, Extends(r, e),
           traces' \in [Requests -> Seq(Event)]
    PROVE  AuditTrail' = [AuditTrail EXCEPT ![r] = Append(@, e.stage)]
<1>1. traces[r] \in Seq(Event)
  BY DEF Inv, TypeInv, TypeOK, StoreTypeOK
<1>2. Stages(traces'[r]) = Append(Stages(traces[r]), e.stage)
  BY <1>1, StagesOfAppend DEF Extends
<1>3. \A q \in Requests \ {r} : Stages(traces'[q]) = Stages(traces[q])
  BY DEF Extends
<1>4. AuditTrail' = [q \in Requests |-> Stages(traces'[q])]
  BY DEF AuditTrail, Stages
<1>5. QED
  BY <1>2, <1>3, <1>4 DEF AuditTrail

\* A request has an empty audit trail exactly when it has no run.
LEMMA TrailOfRun ==
    ASSUME Inv, NEW r \in Requests
    PROVE  has_resolution_run(r) <=> AuditTrail[r] # <<>>
<1>1. traces[r] \in Seq(Event) /\ (has_resolution_run(r) <=> traces[r] # <<>>)
  BY DEF Inv, TypeInv, TypeOK, StoreTypeOK, StoreInv, RunsHaveTraces
<1>2. traces[r] # <<>> <=> Stages(traces[r]) # <<>>
  BY <1>1 DEF Stages
<1>3. QED
  BY <1>1, <1>2 DEF AuditTrail

DecisionMap == [r \in Requests |-> [c \in Candidates |-> DecisionOn(r, c)]]

SealedPairs == {<<l.request, l.candidate>> : l \in locked}

\* The abstract initial state.
LEMMA ReviewInit == Init => Review!Init
<1> SUFFICES ASSUME Init PROVE Review!Init
  OBVIOUS
<1>1. AuditTrail = [r \in Requests |-> <<>>]
  <2>1. Stages(<<>>) = <<>>
    BY DEF Stages
  <2>2. QED
    BY <2>1 DEF Init, StoreInit, AuditTrail
<1>2. DecisionMap = [r \in Requests |-> [c \in Candidates |-> "undecided"]]
  BY DEF Init, StoreInit, DecisionMap, DecisionOn, get_approval
<1>3. SealedPairs = {}
  BY DEF Init, StoreInit, SealedPairs
<1>4. QED
  BY <1>1, <1>2, <1>3 DEF Review!Init, DecisionMap, SealedPairs

\* A stored decision is the abstract Decide.
LEMMA DecideStep ==
    ASSUME Inv, TypeInv', NEW a \in ApprovalRecord, NEW k \in Calls, DecisionStored(a, k)
    PROVE  Review!Decide(a.request, a.candidate, a.status)
<1> DEFINE r == a.request
           c == a.candidate
           e == DecisionEvent(a, k)
<1>1. /\ r \in Requests /\ c \in Candidates
      /\ e \in Event /\ e.stage = "human_approval"
  BY DEF ApprovalRecord, DecisionEvent, Event
<1>2. Extends(r, e)
  BY <1>1, StoreTraceExtends DEF DecisionStored
<1>3. AuditTrail' = [AuditTrail EXCEPT ![r] = Append(@, "human_approval")]
  BY <1>1, <1>2, TrailOfExtension DEF TypeInv, TypeOK, StoreTypeOK
<1>4. AuditTrail[r] # <<>>
  BY <1>1, TrailOfRun DEF DecisionStored
<1>5. /\ get_approval(r, c) = {}
      /\ get_locked(r) = {}
      /\ a.status = "approved" => ~OneApproved(r)
      /\ approvals' = approvals \cup {a}
      /\ UNCHANGED locked
  BY DEF DecisionStored
<1>6. ~\E d \in Candidates : <<r, d>> \in SealedPairs
  BY <1>5 DEF get_locked, SealedPairs
<1>7. DecisionMap[r][c] = "undecided"
  BY <1>1, <1>5 DEF DecisionMap, DecisionOn
<1>8. a.status = "approved" => ~\E d \in Candidates : DecisionMap[r][d] = "approved"
  <2>1. SUFFICES ASSUME a.status = "approved", NEW d \in Candidates,
                        DecisionMap[r][d] = "approved"
                 PROVE  FALSE
    OBVIOUS
  <2>2. DecisionOn(r, d) = "approved"
    BY <1>1, <2>1 DEF DecisionMap
  <2>3. \E b \in get_approval(r, d) : b.status = "approved"
    BY <2>2 DEF DecisionOn
  <2>4. QED
    BY <1>5, <2>1, <2>3 DEF OneApproved, get_approval
<1>9. DecisionMap' = [DecisionMap EXCEPT ![r][c] = a.status]
  <2>1. get_approval(r, c)' = {a}
    BY <1>5 DEF get_approval
  <2>2. DecisionOn(r, c)' = a.status
    BY <2>1 DEF DecisionOn
  <2>3. \A q \in Requests, d \in Candidates :
           q # r \/ d # c => DecisionOn(q, d)' = DecisionOn(q, d)
    <3>1. SUFFICES ASSUME NEW q \in Requests, NEW d \in Candidates, q # r \/ d # c
                   PROVE  DecisionOn(q, d)' = DecisionOn(q, d)
      OBVIOUS
    <3>2. get_approval(q, d)' = get_approval(q, d)
      BY <1>5, <3>1 DEF get_approval
    <3>3. QED
      BY <3>2 DEF DecisionOn
  <2>4. QED
    BY <1>1, <2>2, <2>3 DEF DecisionMap
<1>10. SealedPairs' = SealedPairs
  BY <1>5 DEF SealedPairs
<1>11. QED
  BY <1>3, <1>4, <1>6, <1>7, <1>8, <1>9, <1>10
  DEF Review!Decide, Review!Locked, Review!Selected, Review!Record, DecisionMap, SealedPairs

\* A stored lock is the abstract Lock.
LEMMA LockStep ==
    ASSUME Inv, TypeInv', NEW l \in LockedResolution, NEW k \in Calls, LockStored(l, k)
    PROVE  Review!Lock(l.request, l.candidate)
<1> DEFINE r == l.request
           c == l.candidate
           e == LockEvent(l.approval, l.reviewer, k)
<1>1. /\ r \in Requests /\ c \in Candidates
      /\ e \in Event /\ e.stage = "lock"
  BY DEF LockedResolution, ApprovalRecord, LockEvent, Event, Notes
<1>2. Extends(r, e)
  BY <1>1, StoreTraceExtends DEF LockStored
<1>3. AuditTrail' = [AuditTrail EXCEPT ![r] = Append(@, "lock")]
  BY <1>1, <1>2, TrailOfExtension DEF TypeInv, TypeOK, StoreTypeOK
<1>4. /\ get_locked(r) = {}
      /\ get_approval(r, c) = {l.approval}
      /\ l.approval.status = "approved"
      /\ locked' = locked \cup {l}
      /\ UNCHANGED approvals
  BY DEF LockStored
<1>5. ~\E d \in Candidates : <<r, d>> \in SealedPairs
  BY <1>4 DEF get_locked, SealedPairs
<1>6. DecisionMap[r][c] = "approved"
  BY <1>1, <1>4 DEF DecisionMap, DecisionOn
<1>7. SealedPairs' = SealedPairs \cup {<<r, c>>}
  BY <1>4 DEF SealedPairs
<1>8. DecisionMap' = DecisionMap
  BY <1>4 DEF DecisionMap, DecisionOn, get_approval
<1>9. QED
  BY <1>3, <1>5, <1>6, <1>7, <1>8
  DEF Review!Lock, Review!Locked, Review!Record, DecisionMap, SealedPairs

\* Every step is a transition of the review state machine or invisible to it.
LEMMA ReviewStep == Inv /\ [Next]_vars => [Review!Next]_(Review!vars)
<1> SUFFICES ASSUME Inv, [Next]_vars
             PROVE  [Review!Next]_(Review!vars)
  OBVIOUS
<1>1. TypeInv'
  BY TypeInvStep DEF Inv
<1>2. ASSUME UNCHANGED <<approvals, locked>>
      PROVE  DecisionMap' = DecisionMap /\ SealedPairs' = SealedPairs
  BY <1>2 DEF DecisionMap, SealedPairs, DecisionOn, get_approval
<1>3. CASE UNCHANGED storeVars
  <2>1. AuditTrail' = AuditTrail
    BY <1>3 DEF storeVars, AuditTrail, Stages
  <2>2. DecisionMap' = DecisionMap /\ SealedPairs' = SealedPairs
    BY <1>2, <1>3 DEF storeVars
  <2>3. QED
    BY <2>1, <2>2 DEF Review!vars, DecisionMap, SealedPairs
<1>4. ASSUME NEW r \in Requests, NEW content \in Contents, NEW e \in Event,
             Opened(r, content, e)
      PROVE  Review!Open(r)
  <2>1. ~has_resolution_run(r) /\ e.stage = "resolution" /\ UNCHANGED <<approvals, locked>>
    BY <1>4 DEF Opened, CommitRun
  <2>2. AuditTrail[r] = <<>>
    BY <2>1, TrailOfRun
  <2>3. traces[r] = <<>>
    BY <2>1 DEF Inv, StoreInv, RunsHaveTraces
  <2>4. AuditTrail' = [AuditTrail EXCEPT ![r] = Append(@, "resolution")]
    <3>1. traces[r] \in Seq(Event) /\ traces' = [traces EXCEPT ![r] = Append(traces[r], e)]
      BY <1>4, <2>3 DEF Opened, CommitRun, Inv, TypeInv, TypeOK, StoreTypeOK
    <3>2. Stages(traces'[r]) = Append(Stages(traces[r]), "resolution")
      BY <2>1, <3>1, StagesOfAppend DEF Inv, TypeInv, TypeOK, StoreTypeOK
    <3>3. \A q \in Requests \ {r} : Stages(traces'[q]) = Stages(traces[q])
      BY <3>1 DEF Inv, TypeInv, TypeOK, StoreTypeOK
    <3>4. AuditTrail' = [q \in Requests |-> Stages(traces'[q])]
      BY DEF AuditTrail, Stages
    <3>5. QED
      BY <3>2, <3>3, <3>4 DEF AuditTrail
  <2>5. QED
    BY <1>2, <2>1, <2>2, <2>4 DEF Review!Open, Review!Record, DecisionMap, SealedPairs
<1>5. ASSUME NEW r \in Requests, NEW e \in Event, Annotated(r, e)
      PROVE  Review!Annotate(r)
  <2>1. /\ has_resolution_run(r) /\ e.stage = "annotation"
        /\ UNCHANGED <<approvals, locked>>
        /\ StoreTrace(r, Append(traces[r], e))
    BY <1>5 DEF Annotated, CommitTrace
  <2>2. AuditTrail[r] # <<>>
    BY <2>1, TrailOfRun
  <2>3. AuditTrail' = [AuditTrail EXCEPT ![r] = Append(@, "annotation")]
    BY <1>1, <2>1, StoreTraceExtends, TrailOfExtension DEF TypeInv, TypeOK, StoreTypeOK
  <2>4. QED
    BY <1>2, <2>1, <2>2, <2>3 DEF Review!Annotate, Review!Record, DecisionMap, SealedPairs
<1>6. ASSUME NEW a \in ApprovalRecord, NEW k \in Calls, DecisionStored(a, k)
      PROVE  Review!Next
  <2>1. Review!Decide(a.request, a.candidate, a.status)
    BY <1>1, <1>6, DecideStep
  <2>2. a.request \in Requests /\ a.candidate \in Candidates
        /\ a.status \in {"approved", "rejected"}
    BY DEF ApprovalRecord, DecisionStatus
  <2>3. QED
    BY <2>1, <2>2 DEF Review!Next
<1>7. ASSUME NEW l \in LockedResolution, NEW k \in Calls, LockStored(l, k)
      PROVE  Review!Next
  <2>1. Review!Lock(l.request, l.candidate)
    BY <1>1, <1>7, LockStep
  <2>2. l.request \in Requests /\ l.candidate \in Candidates
    BY DEF LockedResolution
  <2>3. QED
    BY <2>1, <2>2 DEF Review!Next
<1>8. StoreEffect
  BY EveryStepHasEffect
<1>9. QED
  BY <1>3, <1>4, <1>5, <1>6, <1>7, <1>8 DEF StoreEffect, Review!Next

\* The engine and store implement the abstract review state machine, for any
\* number of requests, candidates and calls (ImplementsReview).
THEOREM WorkflowImplementsReview == Spec => ImplementsReview
<1>1. QED
  BY InvInit, InvStep, ReviewInit, ReviewStep, PTL DEF Spec, ImplementsReview, Review!Spec

-----------------------------------------------------------------------------
(* The calls: what they know while they run                                *)

\* A stored decision is about the stored content, and an approval passed the
\* gates of approve() on it.
DecisionsAreGated ==
    \A a \in approvals :
        /\ a.content \in Contents
        /\ a.content = get_recommendation(a.request)
        /\ Listed(a.content, a.candidate)
        /\ a.status = "approved" => ApproveError(a.content, a) = "none"

\* A lock is about the content of its approval and ends its snapshot.
LocksAreGated ==
    \A l \in locked :
        /\ l.content = l.approval.content
        /\ \E k \in Calls :
              l.snapshot[Len(l.snapshot)] = LockEvent(l.approval, l.reviewer, k)

\* Every event belongs to a call that has returned, and a decision or a lock with an
\* explicit revision comes right after it.
EventsAreAnswered ==
    \A r \in Requests : \A i \in 1 .. Len(traces[r]) :
        LET e == traces[r][i] IN
        /\ outcome[e.by] = "returned"
        /\ e.stage \in {"human_approval", "lock"} /\ op[e.by].expected # AnyRevision
              => i = op[e.by].expected + 1

\* The labels that calls of each kind pass.
Route(k) ==
    /\ outcome[k] # "none" <=> pc[k] = "done"
    /\ pc[k] = "revision" => op[k].expected # AnyRevision
    /\ pc[k] # "idle" /\ op[k].kind \in Decisions =>
          pc[k] \notin {"has_run", "locked", "approval", "candidate"}
    /\ pc[k] # "idle" /\ op[k].kind = "annotate" =>
          pc[k] \in {"trace", "commit", "done", "cancelled"}
    /\ pc[k] \notin {"trace", "commit"} => seen[k].attempt = 0

\* A decision past its gates: the content it read is the stored one.
SawContent(k) ==
    pc[k] \in {"revision", "existing", "trace", "commit"} /\ op[k].kind \in Decisions =>
        /\ seen[k].content = get_recommendation(op[k].request)
        /\ seen[k].content # NoContent
        /\ Listed(seen[k].content, op[k].candidate)
        /\ op[k].kind = "approve" => ApproveError(seen[k].content, op[k]) = "none"

\* A lock past its reads: the approval and then the content are the stored ones.
SawApproval(k) ==
    /\ pc[k] \in {"candidate", "trace", "commit"} /\ op[k].kind = "lock" =>
          seen[k].approval = get_approval(op[k].request, op[k].candidate)
    /\ pc[k] \in {"trace", "commit"} /\ op[k].kind = "lock" =>
          /\ seen[k].content = get_recommendation(op[k].request)
          /\ seen[k].content # NoContent
          /\ Listed(seen[k].content, op[k].candidate)

\* A call in the commit loop: every failed attempt met an event it had not seen, and
\* the trace it read is a prefix of the live one, of the length the caller named.
InLoop(k) ==
    pc[k] \in {"trace", "commit"} /\ op[k].kind \in Decisions \cup {"lock"} =>
        /\ Len(traces[op[k].request]) > seen[k].attempt
        /\ pc[k] = "commit" =>
              /\ Len(seen[k].trace) > seen[k].attempt
              /\ Len(seen[k].trace) <= Len(traces[op[k].request])
              /\ seen[k].trace = Prefix(traces[op[k].request], Len(seen[k].trace))
              /\ op[k].expected # AnyRevision => Len(seen[k].trace) = op[k].expected

\* AnswersAreStored, for one call.
Answered(k) ==
    outcome[k] = "returned" =>
        /\ op[k].kind \in Decisions =>
              /\ answer[k] = get_approval(op[k].request, op[k].candidate)
              /\ answer[k] # {}
              /\ \A a \in answer[k] : SameDecision(k, a)
        /\ op[k].kind = "lock" =>
              /\ answer[k] = get_locked(op[k].request)
              /\ answer[k] # {}
              /\ \A l \in answer[k] : l.candidate = op[k].candidate

\* RefusalsAreEarned, for one call; that it left no event is in EventsAreAnswered.
Refused(k) ==
    /\ outcome[k] # "Integrity"
    /\ outcome[k] = "Conflict" /\ op[k].kind \in Decisions =>
          \/ \E a \in get_approval(op[k].request, op[k].candidate) : ~SameDecision(k, a)
          \/ op[k].kind = "approve" /\ OneApproved(op[k].request)
          \/ get_locked(op[k].request) # {}
    /\ outcome[k] = "Stale" /\ op[k].expected = AnyRevision =>
          Len(traces[op[k].request]) > MaxAttempts

CallInv(k) ==
    Route(k) /\ SawContent(k) /\ SawApproval(k) /\ InLoop(k) /\ Answered(k) /\ Refused(k)

CallsInv ==
    /\ DecisionsAreGated
    /\ LocksAreGated
    /\ EventsAreAnswered
    /\ \A k \in Calls : CallInv(k)

-----------------------------------------------------------------------------
(* What stays                                                              *)

\* Decisions and locks on a request stay what they are once they are there.
Stays ==
    /\ \A r \in Requests, c \in Candidates :
          /\ get_approval(r, c) \subseteq get_approval(r, c)'
          /\ get_approval(r, c) # {} => get_approval(r, c)' = get_approval(r, c)
    /\ \A r \in Requests :
          /\ get_locked(r) # {} => get_locked(r)' = get_locked(r)
          /\ OneApproved(r) => OneApproved(r)'
          /\ has_resolution_run(r) => get_recommendation(r)' = get_recommendation(r)

\* Every effect on the store keeps them.
LEMMA EffectStays ==
    ASSUME Inv, StoreEffect
    PROVE  Stays
<1>1. Grows
  BY EffectGrows
<1>2. \A r \in Requests :
         has_resolution_run(r) => get_recommendation(r)' = get_recommendation(r)
  BY <1>1 DEF Grows, get_recommendation
<1>3. \A r \in Requests : OneApproved(r) => OneApproved(r)'
  BY <1>1 DEF Grows, OneApproved
<1>4. ASSUME NEW r \in Requests, NEW c \in Candidates
      PROVE  /\ get_approval(r, c) \subseteq get_approval(r, c)'
             /\ get_approval(r, c) # {} => get_approval(r, c)' = get_approval(r, c)
  <2>1. CASE UNCHANGED approvals
    BY <2>1 DEF get_approval
  <2>2. ASSUME NEW a, get_approval(a.request, a.candidate) = {},
               approvals' = approvals \cup {a}
        PROVE  /\ get_approval(r, c) \subseteq get_approval(r, c)'
               /\ get_approval(r, c) # {} => get_approval(r, c)' = get_approval(r, c)
    BY <2>2 DEF get_approval
  <2>3. QED
    BY <2>1, <2>2 DEF StoreEffect, storeVars, Opened, CommitRun, Annotated, CommitTrace,
                      DecisionStored, LockStored
<1>5. ASSUME NEW r \in Requests
      PROVE  get_locked(r) # {} => get_locked(r)' = get_locked(r)
  <2>1. CASE UNCHANGED locked
    BY <2>1 DEF get_locked
  <2>2. ASSUME NEW l, get_locked(l.request) = {}, locked' = locked \cup {l}
        PROVE  get_locked(r) # {} => get_locked(r)' = get_locked(r)
    BY <2>2 DEF get_locked
  <2>3. QED
    BY <2>1, <2>2 DEF StoreEffect, storeVars, Opened, CommitRun, Annotated, CommitTrace,
                      DecisionStored, LockStored
<1>6. QED
  BY <1>2, <1>3, <1>4, <1>5 DEF Stays

\* Only the call that moves changes, and a call that has ended does not move.
LEMMA OnlyOneMoves ==
    ASSUME Inv, NEW k \in Calls,
           (\E o \in Operations : Invoke(k, o)) \/ Step(k) \/ Cancel(k)
    PROVE  /\ pc[k] \notin {"done", "cancelled"}
           /\ \A j \in Calls \ {k} :
                 /\ pc'[j] = pc[j] /\ op'[j] = op[j] /\ seen'[j] = seen[j]
                 /\ outcome'[j] = outcome[j] /\ answer'[j] = answer[j]
<1>1. TypeOK
  BY DEF Inv, TypeInv
<1>2. CASE \E o \in Operations : Invoke(k, o)
  BY <1>1, <1>2 DEF Invoke, At, TypeOK
<1>3. CASE Cancel(k)
  BY <1>1, <1>3 DEF Cancel, TypeOK
<1>4. ASSUME NEW how, NEW objects, Finish(k, how, objects)
      PROVE  \A j \in Calls \ {k} :
                /\ pc'[j] = pc[j] /\ op'[j] = op[j] /\ seen'[j] = seen[j]
                /\ outcome'[j] = outcome[j] /\ answer'[j] = answer[j]
  BY <1>1, <1>4 DEF Finish, TypeOK
<1>5. ASSUME NEW label, Goto(k, label), NEW locals,
             seen' = seen \/ seen' = [seen EXCEPT ![k] = locals]
      PROVE  \A j \in Calls \ {k} :
                /\ pc'[j] = pc[j] /\ op'[j] = op[j] /\ seen'[j] = seen[j]
                /\ outcome'[j] = outcome[j] /\ answer'[j] = answer[j]
  BY <1>1, <1>5 DEF Goto, TypeOK
<1>6. CASE Step(k)
  <2>1. pc[k] \notin {"done", "cancelled"}
    BY <1>6 DEF Step, At, CheckNewRun, ReadRecommendation, CheckRevision, ReadExisting,
                ReadLocked, ReadApproval, CheckCandidate, GetTrace, CommitDecision,
                CommitLocked, CommitResolution, CommitAnnotation
  <2>2. \/ \E how, objects : Finish(k, how, objects)
        \/ \E label, locals : Goto(k, label)
                              /\ (seen' = seen \/ seen' = [seen EXCEPT ![k] = locals])
    BY <1>6 DEF Step, CheckNewRun, ReadRecommendation, CheckRevision, ReadExisting,
                ReadLocked, ReadApproval, CheckCandidate, GetTrace, CommitDecision,
                CommitLocked, CommitResolution, CommitAnnotation, Raise, Retry
  <2>3. QED
    BY <1>4, <1>5, <2>1, <2>2
<1>7. QED
  BY <1>2, <1>3, <1>6

-----------------------------------------------------------------------------
(* Calls that do not move                                                  *)

\* The operation of a call that was made.
LEMMA MadeCall ==
    ASSUME Inv, NEW k \in Calls, pc[k] # "idle"
    PROVE  /\ op[k] \in Operation
           /\ op[k].request \in Requests /\ op[k].candidate \in Candidates
           /\ traces[op[k].request] \in Seq(Event)
           /\ Len(traces[op[k].request]) \in Nat
           /\ seen[k] \in Locals
           /\ seen[k].trace \in Seq(Event) /\ Len(seen[k].trace) \in Nat
           /\ seen[k].attempt \in 0 .. MaxAttempts - 1
<1>1. op[k] \in Operation
  BY OperationsAssumption DEF Inv, TypeInv, CallShape
<1>2. op[k].request \in Requests /\ op[k].candidate \in Candidates
  BY <1>1 DEF Operation
<1>3. traces[op[k].request] \in Seq(Event)
  BY <1>2 DEF Inv, TypeInv, TypeOK, StoreTypeOK
<1>4. seen[k] \in Locals
  BY DEF Inv, TypeInv, TypeOK
<1>5. seen[k].trace \in Seq(Event) /\ seen[k].attempt \in 0 .. MaxAttempts - 1
  BY <1>4 DEF Locals
<1>6. QED
  BY <1>1, <1>2, <1>3, <1>4, <1>5

\* A trace that grew has the prefixes it had.
LEMMA PrefixesStay ==
    ASSUME Inv, TypeInv', Grows, NEW r \in Requests
    PROVE  /\ Len(traces[r]) \in Nat /\ Len(traces'[r]) \in Nat
           /\ Len(traces[r]) <= Len(traces'[r])
           /\ \A n \in 0 .. Len(traces[r]) : Prefix(traces'[r], n) = Prefix(traces[r], n)
<1>1. traces[r] \in Seq(Event) /\ traces'[r] \in Seq(Event)
  BY DEF Inv, TypeInv, TypeOK, StoreTypeOK
<1>2. QED
  BY <1>1 DEF Grows

\* A call that does not move keeps its invariant while the store grows.
LEMMA OthersKeep ==
    ASSUME Inv, TypeInv', Grows, Stays, NEW j \in Calls, CallInv(j),
           pc'[j] = pc[j], op'[j] = op[j], seen'[j] = seen[j],
           outcome'[j] = outcome[j], answer'[j] = answer[j]
    PROVE  CallInv(j)'
<1> DEFINE r == op[j].request
           c == op[j].candidate
<1>1. /\ Route(j) /\ SawContent(j) /\ SawApproval(j) /\ InLoop(j)
      /\ Answered(j) /\ Refused(j)
  BY DEF CallInv
<1>2. pc[j] # "idle" => r \in Requests /\ c \in Candidates
  BY MadeCall
<1>3. Route(j)'
  BY <1>1 DEF Route
<1>4. SawContent(j)'
  <2>1. SUFFICES ASSUME pc[j] \in {"revision", "existing", "trace", "commit"},
                        op[j].kind \in Decisions
                 PROVE  get_recommendation(r)' = get_recommendation(r)
    BY <1>1 DEF SawContent
  <2>2. r \in Requests /\ get_recommendation(r) # NoContent
    BY <1>1, <1>2, <2>1 DEF SawContent
  <2>3. QED
    BY <2>2 DEF Stays, has_resolution_run, get_recommendation
<1>5. SawApproval(j)'
  <2>1. ASSUME pc[j] \in {"candidate", "trace", "commit"}, op[j].kind = "lock"
        PROVE  get_approval(r, c)' = get_approval(r, c)
    <3>1. seen[j].approval # {}
      BY <2>1 DEF Inv, CallKnows
    <3>2. QED
      BY <1>1, <1>2, <2>1, <3>1 DEF SawApproval, Stays
  <2>2. ASSUME pc[j] \in {"trace", "commit"}, op[j].kind = "lock"
        PROVE  get_recommendation(r)' = get_recommendation(r)
    <3>1. r \in Requests /\ get_recommendation(r) # NoContent
      BY <1>1, <1>2, <2>2 DEF SawApproval
    <3>2. QED
      BY <3>1 DEF Stays, has_resolution_run, get_recommendation
  <2>3. QED
    BY <1>1, <2>1, <2>2 DEF SawApproval
<1>6. InLoop(j)'
  <2>1. SUFFICES ASSUME pc[j] \in {"trace", "commit"},
                        op[j].kind \in Decisions \cup {"lock"}
                 PROVE  InLoop(j)'
    BY DEF InLoop
  <2>2. r \in Requests /\ Len(seen[j].trace) \in Nat /\ seen[j].attempt \in Nat
    BY <2>1, MadeCall
  <2>3. /\ Len(traces[r]) \in Nat /\ Len(traces'[r]) \in Nat
        /\ Len(traces[r]) <= Len(traces'[r])
        /\ \A n \in 0 .. Len(traces[r]) : Prefix(traces'[r], n) = Prefix(traces[r], n)
    BY <2>2, PrefixesStay
  <2>4. Len(traces'[r]) > seen[j].attempt
    BY <1>1, <2>1, <2>2, <2>3 DEF InLoop
  <2>5. pc[j] = "commit" =>
           /\ Len(seen[j].trace) <= Len(traces'[r])
           /\ seen[j].trace = Prefix(traces'[r], Len(seen[j].trace))
    BY <1>1, <2>1, <2>2, <2>3 DEF InLoop
  <2>6. QED
    BY <1>1, <2>1, <2>4, <2>5 DEF InLoop
<1>7. Answered(j)'
  <2>1. SUFFICES ASSUME outcome[j] = "returned" PROVE Answered(j)'
    BY DEF Answered
  <2>2. r \in Requests /\ c \in Candidates
    BY <1>1, <1>2, <2>1 DEF Route
  <2>3. /\ get_approval(r, c) # {} => get_approval(r, c)' = get_approval(r, c)
        /\ get_locked(r) # {} => get_locked(r)' = get_locked(r)
    BY <2>2 DEF Stays
  <2>4. \A a : SameDecision(j, a)' <=> SameDecision(j, a)
    BY DEF SameDecision, matches_decision, Decided, DecidedMode
  <2>5. QED
    BY <1>1, <2>1, <2>3, <2>4 DEF Answered
<1>8. Refused(j)'
  <2>1. SUFFICES ASSUME outcome[j] \in {"Conflict", "Stale"} PROVE Refused(j)'
    BY <1>1 DEF Refused
  <2>2. r \in Requests /\ c \in Candidates
    BY <1>1, <1>2, <2>1 DEF Route
  <2>3. /\ get_approval(r, c) \subseteq get_approval(r, c)'
        /\ get_locked(r) # {} => get_locked(r)' = get_locked(r)
        /\ OneApproved(r) => OneApproved(r)'
    BY <2>2 DEF Stays
  <2>4. \A a : SameDecision(j, a)' <=> SameDecision(j, a)
    BY DEF SameDecision, matches_decision, Decided, DecidedMode
  <2>5. Len(traces[r]) > MaxAttempts => Len(traces'[r]) > MaxAttempts
    BY <2>2, PrefixesStay, MaxAttemptsAssumption
  <2>6. QED
    BY <1>1, <2>1, <2>3, <2>4, <2>5 DEF Refused
<1>9. QED
  BY <1>3, <1>4, <1>5, <1>6, <1>7, <1>8 DEF CallInv

-----------------------------------------------------------------------------
(* The call that moves                                                     *)

\* A call that ends: what is left to show is that it ends rightly.
LEMMA EndKeeps ==
    ASSUME Inv, NEW k \in Calls, CallInv(k), pc[k] # "idle",
           NEW how \in {"returned"} \cup Errors, NEW objects, Finish(k, how, objects),
           Answered(k)', Refused(k)'
    PROVE  CallInv(k)'
<1>1. pc'[k] = "done" /\ outcome'[k] = how /\ op'[k] = op[k] /\ seen'[k] = Blank
  BY DEF Finish, Inv, TypeInv, TypeOK
<1>2. how # "none" /\ Blank.attempt = 0
  BY DEF Errors, Blank
<1>3. QED
  BY <1>1, <1>2 DEF CallInv, Route, SawContent, SawApproval, InLoop

\* A call that is refused with a cause.
LEMMA RaiseKeeps ==
    ASSUME Inv, NEW k \in Calls, CallInv(k), pc[k] # "idle",
           NEW error \in Errors \ {"Integrity"}, Raise(k, error),
           error = "Conflict" /\ op[k].kind \in Decisions =>
              \/ \E a \in get_approval(op[k].request, op[k].candidate) : ~SameDecision(k, a)
              \/ op[k].kind = "approve" /\ OneApproved(op[k].request)
              \/ get_locked(op[k].request) # {},
           error = "Stale" /\ op[k].expected = AnyRevision =>
              Len(traces[op[k].request]) > MaxAttempts
    PROVE  CallInv(k)'
<1>1. outcome'[k] = error /\ op'[k] = op[k] /\ UNCHANGED storeVars
  BY DEF Raise, Finish, Inv, TypeInv, TypeOK
<1>2. Answered(k)'
  BY <1>1 DEF Answered, Errors
<1>3. Refused(k)'
  <2>1. \A a : SameDecision(k, a)' <=> SameDecision(k, a)
    BY <1>1 DEF SameDecision, matches_decision, Decided, DecidedMode
  <2>2. QED
    BY <1>1, <2>1 DEF Refused, storeVars, get_approval, get_locked, OneApproved
<1>4. QED
  BY <1>2, <1>3, EndKeeps DEF Raise

\* A call that goes on to its next read: what is left to show is what it has seen.
LEMMA MoveKeeps ==
    ASSUME Inv, NEW k \in Calls, CallInv(k), pc[k] \notin {"idle", "done"},
           NEW label, label \notin {"idle", "done"}, Goto(k, label), UNCHANGED storeVars,
           label = "revision" => op[k].expected # AnyRevision,
           op[k].kind \in Decisions =>
              label \notin {"has_run", "locked", "approval", "candidate"},
           op[k].kind = "annotate" => label \in {"trace", "commit"},
           label \notin {"trace", "commit"} => seen'[k].attempt = 0,
           SawContent(k)', SawApproval(k)', InLoop(k)'
    PROVE  CallInv(k)'
<1>1. pc'[k] = label /\ op'[k] = op[k] /\ outcome'[k] = outcome[k]
  BY DEF Goto, Inv, TypeInv, TypeOK
<1>2. outcome[k] = "none"
  BY DEF CallInv, Route
<1>3. Route(k)' /\ Answered(k)' /\ Refused(k)'
  BY <1>1, <1>2 DEF Route, Answered, Refused
<1>4. QED
  BY <1>3 DEF CallInv

\* A request whose recommendation was read has a trace.
LEMMA ReadRunHasTrace ==
    ASSUME Inv, NEW r \in Requests, get_recommendation(r) # NoContent
    PROVE  Len(traces[r]) \in Nat /\ Len(traces[r]) > 0
<1>1. traces[r] # <<>>
  BY DEF Inv, StoreInv, RunsHaveTraces, has_resolution_run, get_recommendation
<1>2. traces[r] \in Seq(Event)
  BY DEF Inv, TypeInv, TypeOK, StoreTypeOK
<1>3. QED
  BY <1>1, <1>2

\* resolve() checks that its request id is new.
LEMMA CheckNewRunKeeps ==
    ASSUME Inv, NEW k \in Calls, CallInv(k), CheckNewRun(k)
    PROVE  CallInv(k)'
<1>1. pc[k] = "has_run" /\ op[k].kind \notin Decisions /\ op[k].kind # "lock"
      /\ op[k].kind # "annotate"
  BY DEF CheckNewRun, At, CallInv, Route, Inv, CallKnows
<1>2. CASE Raise(k, "ValueError")
  BY <1>1, <1>2, RaiseKeeps DEF Errors
<1>3. CASE Goto(k, "commit") /\ UNCHANGED storeVars
  <2>1. op'[k] = op[k] /\ pc'[k] = "commit"
    BY <1>3 DEF Goto, Inv, TypeInv, TypeOK
  <2>2. SawContent(k)' /\ SawApproval(k)' /\ InLoop(k)'
    BY <1>1, <2>1 DEF SawContent, SawApproval, InLoop
  <2>3. QED
    BY <1>1, <1>3, <2>2, MoveKeeps
<1>4. QED
  BY <1>2, <1>3 DEF CheckNewRun

\* approve() and reject() apply their gates to the stored content.
LEMMA ReadRecommendationKeeps ==
    ASSUME Inv, NEW k \in Calls, CallInv(k), ReadRecommendation(k)
    PROVE  CallInv(k)'
<1> DEFINE content == get_recommendation(op[k].request)
           error == IF op[k].kind = "approve" THEN ApproveError(content, op[k])
                                              ELSE RejectError(content, op[k])
           label == IF op[k].expected = AnyRevision THEN "existing" ELSE "revision"
<1>1. pc[k] = "recommendation" /\ op[k].kind # "lock" /\ op[k].kind # "annotate"
  BY DEF ReadRecommendation, At, CallInv, Route, Inv, CallKnows
<1>2. error \in {"none", "KeyError", "ValueError"}
  BY DEF ApproveError, RejectError
<1>3. CASE error # "none" /\ Raise(k, error)
  <2>1. error \in {"KeyError", "ValueError"} /\ Raise(k, error)
    BY <1>2, <1>3
  <2> HIDE DEF error
  <2>2. QED
    BY <1>1, <2>1, RaiseKeeps DEF Errors
<1>4. CASE /\ error = "none" /\ seen' = [seen EXCEPT ![k].content = content]
           /\ Goto(k, label) /\ UNCHANGED storeVars
  <2>1. /\ op'[k] = op[k] /\ pc'[k] = label /\ content' = content
        /\ seen'[k].content = content /\ seen'[k].attempt = seen[k].attempt
    BY <1>4 DEF Goto, Inv, TypeInv, TypeOK, Locals, get_recommendation, storeVars
  <2>2. /\ content # NoContent /\ Listed(content, op[k].candidate)
        /\ op[k].kind = "approve" => ApproveError(content, op[k]) = "none"
    BY <1>4 DEF ApproveError, RejectError
  <2>3. SawContent(k)'
    BY <2>1, <2>2 DEF SawContent
  <2>4. SawApproval(k)' /\ InLoop(k)'
    BY <2>1 DEF SawApproval, InLoop
  <2>5. seen'[k].attempt = 0
    BY <1>1, <2>1 DEF CallInv, Route
  <2>6. QED
    BY <1>1, <1>4, <2>3, <2>4, <2>5, MoveKeeps
<1>5. QED
  BY <1>3, <1>4 DEF ReadRecommendation

\* An explicit revision is compared before anything else.
LEMMA CheckRevisionKeeps ==
    ASSUME Inv, NEW k \in Calls, CallInv(k), CheckRevision(k)
    PROVE  CallInv(k)'
<1> DEFINE label == IF op[k].kind = "lock" THEN "locked" ELSE "existing"
<1>1. /\ pc[k] = "revision" /\ op[k].expected # AnyRevision
      /\ op[k].kind # "annotate" /\ seen[k].attempt = 0
  BY DEF CheckRevision, At, CallInv, Route
<1>2. CASE Raise(k, "KeyError") \/ Raise(k, "Stale")
  BY <1>1, <1>2, RaiseKeeps DEF Errors
<1>3. CASE Goto(k, label) /\ UNCHANGED <<storeVars, seen>>
  <2>1. op'[k] = op[k] /\ pc'[k] = label /\ seen' = seen /\ UNCHANGED storeVars
    BY <1>3 DEF Goto, Inv, TypeInv, TypeOK
  <2>2. SawContent(k)'
    BY <1>1, <2>1 DEF CallInv, SawContent, get_recommendation, storeVars
  <2>3. SawApproval(k)' /\ InLoop(k)'
    BY <2>1 DEF SawApproval, InLoop
  <2>4. QED
    BY <1>1, <1>3, <2>1, <2>2, <2>3, MoveKeeps DEF Decisions
<1>4. QED
  BY <1>2, <1>3 DEF CheckRevision

\* A stored decision answers a replay and refuses another decision.
LEMMA ReadExistingKeeps ==
    ASSUME Inv, NEW k \in Calls, CallInv(k), ReadExisting(k)
    PROVE  CallInv(k)'
<1> DEFINE r == op[k].request
           c == op[k].candidate
<1>1. /\ pc[k] = "existing" /\ op[k].kind # "lock" /\ op[k].kind # "annotate"
      /\ seen[k].attempt = 0 /\ r \in Requests
  BY MadeCall DEF ReadExisting, At, CallInv, Route, Inv, CallKnows
<1>2. CASE Goto(k, "trace") /\ UNCHANGED <<storeVars, seen>>
  <2>1. op'[k] = op[k] /\ pc'[k] = "trace" /\ seen' = seen /\ UNCHANGED storeVars
    BY <1>2 DEF Goto, Inv, TypeInv, TypeOK
  <2>2. SawContent(k)'
    BY <1>1, <2>1 DEF CallInv, SawContent, get_recommendation, storeVars
  <2>3. SawApproval(k)'
    BY <1>1, <2>1 DEF SawApproval
  <2>4. InLoop(k)'
    <3>1. op[k].kind \in Decisions => Len(traces[r]) > seen[k].attempt
      BY <1>1, ReadRunHasTrace DEF CallInv, SawContent
    <3>2. QED
      BY <1>1, <2>1, <3>1 DEF InLoop, storeVars
  <2>5. QED
    BY <1>1, <1>2, <2>1, <2>2, <2>3, <2>4, MoveKeeps
<1>3. CASE /\ get_approval(r, c) # {}
           /\ \A a \in get_approval(r, c) : SameDecision(k, a)
           /\ Finish(k, "returned", get_approval(r, c))
           /\ UNCHANGED storeVars
  <2>1. /\ op'[k] = op[k] /\ outcome'[k] = "returned"
        /\ answer'[k] = get_approval(r, c) /\ get_approval(r, c)' = get_approval(r, c)
    BY <1>3 DEF Finish, Inv, TypeInv, TypeOK, get_approval, storeVars
  <2>2. \A a : SameDecision(k, a)' <=> SameDecision(k, a)
    BY <2>1 DEF SameDecision, matches_decision, Decided, DecidedMode
  <2>3. Answered(k)'
    BY <1>1, <1>3, <2>1, <2>2 DEF Answered
  <2>4. Refused(k)'
    BY <2>1 DEF Refused
  <2>5. QED
    BY <1>1, <1>3, <2>3, <2>4, EndKeeps
<1>4. CASE /\ \E a \in get_approval(r, c) : ~SameDecision(k, a)
           /\ Raise(k, "Conflict")
  BY <1>1, <1>4, RaiseKeeps DEF Errors
<1>5. QED
  BY <1>2, <1>3, <1>4 DEF ReadExisting

\* A stored lock answers a replay and refuses another candidate.
LEMMA ReadLockedKeeps ==
    ASSUME Inv, NEW k \in Calls, CallInv(k), ReadLocked(k)
    PROVE  CallInv(k)'
<1> DEFINE r == op[k].request
<1>1. /\ pc[k] = "locked" /\ op[k].kind \notin Decisions /\ op[k].kind # "annotate"
      /\ seen[k].attempt = 0
  BY DEF ReadLocked, At, CallInv, Route
<1>2. CASE Goto(k, "approval") /\ UNCHANGED <<storeVars, seen>>
  <2>1. op'[k] = op[k] /\ pc'[k] = "approval" /\ seen' = seen /\ UNCHANGED storeVars
    BY <1>2 DEF Goto, Inv, TypeInv, TypeOK
  <2>2. SawContent(k)' /\ SawApproval(k)' /\ InLoop(k)'
    BY <2>1 DEF SawContent, SawApproval, InLoop
  <2>3. QED
    BY <1>1, <1>2, <2>1, <2>2, MoveKeeps
<1>3. CASE /\ get_locked(r) # {}
           /\ \A l \in get_locked(r) : l.candidate = op[k].candidate
           /\ Finish(k, "returned", get_locked(r))
           /\ UNCHANGED storeVars
  <2>1. /\ op'[k] = op[k] /\ outcome'[k] = "returned"
        /\ answer'[k] = get_locked(r) /\ get_locked(r)' = get_locked(r)
    BY <1>3 DEF Finish, Inv, TypeInv, TypeOK, get_locked, storeVars
  <2>2. Answered(k)' /\ Refused(k)'
    BY <1>1, <1>3, <2>1 DEF Answered, Refused
  <2>3. QED
    BY <1>1, <1>3, <2>2, EndKeeps
<1>4. CASE Raise(k, "Conflict")
  BY <1>1, <1>4, RaiseKeeps DEF Errors
<1>5. QED
  BY <1>2, <1>3, <1>4 DEF ReadLocked

\* lock() reads the stored approval of its candidate.
LEMMA ReadApprovalKeeps ==
    ASSUME Inv, NEW k \in Calls, CallInv(k), ReadApproval(k)
    PROVE  CallInv(k)'
<1> DEFINE r == op[k].request
           c == op[k].candidate
<1>1. /\ pc[k] = "approval" /\ op[k].kind \notin Decisions /\ op[k].kind # "annotate"
      /\ seen[k].attempt = 0
  BY DEF ReadApproval, At, CallInv, Route
<1>2. CASE Raise(k, "Conflict")
  BY <1>1, <1>2, RaiseKeeps DEF Errors
<1>3. CASE /\ seen' = [seen EXCEPT ![k].approval = get_approval(r, c)]
           /\ Goto(k, "candidate") /\ UNCHANGED storeVars
  <2>1. /\ op'[k] = op[k] /\ pc'[k] = "candidate"
        /\ seen'[k].approval = get_approval(r, c) /\ seen'[k].attempt = 0
        /\ get_approval(r, c)' = get_approval(r, c)
    BY <1>1, <1>3 DEF Goto, Inv, TypeInv, TypeOK, Locals, get_approval, storeVars
  <2>2. SawContent(k)' /\ SawApproval(k)' /\ InLoop(k)'
    BY <2>1 DEF SawContent, SawApproval, InLoop
  <2>3. QED
    BY <1>1, <1>3, <2>1, <2>2, MoveKeeps
<1>4. QED
  BY <1>2, <1>3 DEF ReadApproval

\* The approval a lock holds is the one stored decision on its candidate.
LEMMA HeldApproval ==
    ASSUME Inv, DecisionsAreGated, NEW k \in Calls, CallInv(k),
           pc[k] \in {"candidate", "trace", "commit"}, op[k].kind = "lock"
    PROVE  /\ get_approval(op[k].request, op[k].candidate) = {SeenApproval(k)}
           /\ SeenApproval(k) \in approvals
           /\ SeenApproval(k).request = op[k].request
           /\ SeenApproval(k).content = get_recommendation(op[k].request)
<1> DEFINE held == get_approval(op[k].request, op[k].candidate)
<1>1. seen[k].approval = held /\ held # {}
  BY DEF CallInv, SawApproval, Inv, CallKnows
<1>2. SeenApproval(k) \in held
  BY <1>1 DEF SeenApproval
<1>3. \A a, b \in held : a = b
  BY DEF get_approval, Inv, StoreInv, OneDecision
<1>4. held = {SeenApproval(k)}
  BY <1>2, <1>3
<1>5. SeenApproval(k) \in approvals /\ SeenApproval(k).request = op[k].request
  BY <1>2 DEF get_approval
<1>6. QED
  BY <1>4, <1>5 DEF DecisionsAreGated

\* lock() applies its gates; the approval it read is about the stored content.
LEMMA CheckCandidateKeeps ==
    ASSUME Inv, DecisionsAreGated, NEW k \in Calls, CallInv(k), CheckCandidate(k)
    PROVE  CallInv(k)'
<1> DEFINE r == op[k].request
           c == op[k].candidate
           content == get_recommendation(r)
           error == LockError(content, op[k], SeenApproval(k))
<1>1. pc[k] = "candidate" /\ op[k] \in Operation /\ r \in Requests
  BY MadeCall DEF CheckCandidate, At
<1>2. op[k].kind = "lock" /\ seen[k].attempt = 0
  BY <1>1 DEF Operation, Decisions, CallInv, Route, Inv, TypeInv, CallShape
<1>3. SeenApproval(k).content = content
  BY <1>1, <1>2, HeldApproval
<1>4. error \in {"none", "KeyError", "ValueError"}
  BY <1>3 DEF LockError
<1>5. CASE error # "none" /\ Raise(k, error)
  <2>1. error \in {"KeyError", "ValueError"} /\ Raise(k, error)
    BY <1>4, <1>5
  <2> HIDE DEF error
  <2>2. QED
    BY <1>1, <2>1, RaiseKeeps DEF Errors
<1>6. CASE /\ error = "none" /\ seen' = [seen EXCEPT ![k].content = content]
           /\ Goto(k, "trace") /\ UNCHANGED storeVars
  <2>1. /\ op'[k] = op[k] /\ pc'[k] = "trace" /\ content' = content
        /\ get_approval(r, c)' = get_approval(r, c)
        /\ seen'[k].content = content /\ seen'[k].attempt = seen[k].attempt
        /\ seen'[k].approval = seen[k].approval /\ traces' = traces
    BY <1>6 DEF Goto, Inv, TypeInv, TypeOK, Locals, get_recommendation, get_approval,
                storeVars
  <2>2. content # NoContent /\ Listed(content, c)
    BY <1>6 DEF LockError
  <2>3. SawContent(k)'
    BY <1>2, <2>1 DEF SawContent, Decisions
  <2>4. SawApproval(k)'
    BY <1>1, <1>2, <2>1, <2>2 DEF SawApproval, CallInv
  <2>5. InLoop(k)'
    BY <1>1, <1>2, <2>1, <2>2, ReadRunHasTrace DEF InLoop
  <2>6. QED
    BY <1>1, <1>2, <1>6, <2>3, <2>4, <2>5, MoveKeeps DEF Decisions
<1>7. QED
  BY <1>5, <1>6 DEF CheckCandidate

\* The head of the commit loop: the approval's trace prefix is always intact.
LEMMA GetTraceKeeps ==
    ASSUME Inv, DecisionsAreGated, NEW k \in Calls, CallInv(k), GetTrace(k)
    PROVE  CallInv(k)'
<1> DEFINE r == op[k].request
           c == op[k].candidate
           error == TraceError(k, traces[r])
<1>1. /\ pc[k] = "trace" /\ r \in Requests
      /\ traces[r] \in Seq(Event) /\ Len(traces[r]) \in Nat
  BY MadeCall DEF GetTrace, At
<1>2. /\ error \in {"none", "KeyError", "ValueError", "Stale"}
      /\ error = "Stale" => op[k].expected # AnyRevision
  <2>1. op[k].kind = "lock" =>
           /\ SeenApproval(k).trace_revision \in 1 .. Len(traces[r])
           /\ SeenApproval(k).trace_chain = Prefix(traces[r], SeenApproval(k).trace_revision)
    BY <1>1, HeldApproval DEF Inv, StoreInv, DecisionsAreBound
  <2>2. QED
    BY <2>1 DEF TraceError
<1>3. CASE error # "none" /\ Raise(k, error)
  <2>1. error \in {"KeyError", "ValueError", "Stale"} /\ Raise(k, error)
    BY <1>2, <1>3
  <2> HIDE DEF error
  <2>2. QED
    BY <1>1, <1>2, <2>1, RaiseKeeps DEF Errors
<1>4. CASE /\ error = "none" /\ seen' = [seen EXCEPT ![k].trace = traces[r]]
           /\ Goto(k, "commit") /\ UNCHANGED storeVars
  <2>1. /\ op'[k] = op[k] /\ pc'[k] = "commit" /\ traces' = traces
        /\ get_recommendation(r)' = get_recommendation(r)
        /\ get_approval(r, c)' = get_approval(r, c)
        /\ seen'[k].content = seen[k].content /\ seen'[k].attempt = seen[k].attempt
        /\ seen'[k].approval = seen[k].approval /\ seen'[k].trace = traces[r]
    BY <1>4 DEF Goto, Inv, TypeInv, TypeOK, Locals, get_recommendation, get_approval,
                storeVars
  <2>2. SawContent(k)' /\ SawApproval(k)'
    BY <1>1, <2>1 DEF SawContent, SawApproval, CallInv
  <2>3. InLoop(k)'
    <3>1. SUFFICES ASSUME op[k].kind \in Decisions \cup {"lock"} PROVE InLoop(k)'
      BY <2>1 DEF InLoop
    <3>2. Len(traces[r]) > seen[k].attempt
      BY <1>1, <3>1 DEF CallInv, InLoop
    <3>3. traces[r] = Prefix(traces[r], Len(traces[r])) /\ Len(traces[r]) <= Len(traces[r])
      BY <1>1, PrefixFull
    <3>4. op[k].expected # AnyRevision => Len(traces[r]) = op[k].expected
      BY <1>4 DEF TraceError
    <3>5. QED
      BY <2>1, <3>2, <3>3, <3>4 DEF InLoop
  <2>4. QED
    BY <1>1, <1>4, <2>2, <2>3, MoveKeeps
<1>5. QED
  BY <1>3, <1>4 DEF GetTrace

\* A stale save goes round again: an event it had not seen is in the trace.
LEMMA RetryKeeps ==
    ASSUME Inv, NEW k \in Calls, CallInv(k), pc[k] = "commit", Retry(k),
           op[k].kind \in Decisions \cup {"lock"},
           Len(traces[op[k].request]) > Len(seen[k].trace)
    PROVE  CallInv(k)'
<1> DEFINE r == op[k].request
           c == op[k].candidate
<1>1. /\ r \in Requests /\ Len(traces[r]) \in Nat
      /\ Len(seen[k].trace) \in Nat /\ seen[k].attempt \in Nat
  BY MadeCall
<1>2. /\ op'[k] = op[k] /\ pc'[k] = "trace" /\ traces' = traces
      /\ get_recommendation(r)' = get_recommendation(r)
      /\ get_approval(r, c)' = get_approval(r, c)
      /\ seen'[k].content = seen[k].content /\ seen'[k].attempt = seen[k].attempt + 1
      /\ seen'[k].approval = seen[k].approval
  BY DEF Retry, Goto, Inv, TypeInv, TypeOK, get_recommendation, get_approval, storeVars
<1>3. SawContent(k)' /\ SawApproval(k)'
  BY <1>2 DEF SawContent, SawApproval, CallInv
<1>4. InLoop(k)'
  <2>1. Len(seen[k].trace) > seen[k].attempt
    BY DEF CallInv, InLoop
  <2>2. Len(traces[r]) > seen[k].attempt + 1
    BY <1>1, <2>1
  <2>3. QED
    BY <1>2, <2>2 DEF InLoop
<1>5. QED
  BY <1>3, <1>4, MoveKeeps DEF Retry

\* A trace that is read and then appended to is accepted as long as it is current.
LEMMA CurrentAppends ==
    ASSUME Inv, NEW k \in Calls, CallInv(k), pc[k] = "commit",
           op[k].kind \in Decisions \cup {"lock"}, NEW e \in Event
    PROVE  /\ \/ Len(traces[op[k].request]) > Len(seen[k].trace)
              \/ /\ Len(traces[op[k].request]) = Len(seen[k].trace)
                 /\ seen[k].trace = traces[op[k].request]
           /\ Len(traces[op[k].request]) = Len(seen[k].trace) =>
                 AppendsOne(op[k].request, Append(seen[k].trace, e), Len(seen[k].trace))
           /\ Append(seen[k].trace, e)[Len(Append(seen[k].trace, e))] = e
<1> DEFINE r == op[k].request
           s == seen[k].trace
<1>1. /\ r \in Requests /\ traces[r] \in Seq(Event) /\ Len(traces[r]) \in Nat
      /\ s \in Seq(Event) /\ Len(s) \in Nat
  BY MadeCall
<1>2. Len(s) <= Len(traces[r]) /\ s = Prefix(traces[r], Len(s))
  BY DEF CallInv, InLoop
<1>3. Len(traces[r]) = Len(s) => s = traces[r]
  BY <1>1, <1>2, PrefixFull
<1>4. /\ Len(Append(s, e)) = Len(s) + 1 /\ Append(s, e)[Len(s) + 1] = e
      /\ Prefix(Append(s, e), Len(s)) = s
  BY <1>1, AppendGrows, PrefixFull
<1>5. QED
  BY <1>1, <1>2, <1>3, <1>4 DEF AppendsOne

\* save_approval() refuses a decision of the engine for the reasons the caller is
\* told, and never for its integrity.
LEMMA DecisionVerdict ==
    ASSUME Inv, DecisionsAreGated, NEW k \in Calls, CallInv(k), pc[k] = "commit",
           op[k].kind \in Decisions, NEW verdict,
           verdict = SaveApprovalVerdict(bound_approval(k), DecisionTrace(k),
                                         seen[k].content, Len(seen[k].trace))
    PROVE  /\ verdict \in {"commit", "existing", "Stale", "Conflict"}
           /\ verdict = "Stale" => Len(traces[op[k].request]) > Len(seen[k].trace)
           /\ verdict = "existing" =>
                 /\ get_approval(op[k].request, op[k].candidate) # {}
                 /\ \A a \in get_approval(op[k].request, op[k].candidate) : SameDecision(k, a)
           /\ verdict = "Conflict" =>
                 \/ \E a \in get_approval(op[k].request, op[k].candidate) : ~SameDecision(k, a)
                 \/ op[k].kind = "approve" /\ OneApproved(op[k].request)
                 \/ get_locked(op[k].request) # {}
<1> DEFINE r == op[k].request
           c == op[k].candidate
           a == bound_approval(k)
           trace == DecisionTrace(k)
           e == DecisionEvent(a, k)
<1>1. /\ a.request = r /\ a.candidate = c /\ a.content = seen[k].content
      /\ a.status = Decided(k) /\ a.mode = DecidedMode(k)
      /\ a.trace_revision = Len(trace) /\ a.trace_chain = trace
  BY DEF bound_approval
<1>2. /\ op[k] \in Operation /\ seen[k].trace \in Seq(Event)
      /\ e \in Event /\ trace = Append(seen[k].trace, e)
  BY MadeCall, DecisionTraceType
<1>3. /\ seen[k].content = get_recommendation(r) /\ has_resolution_run(r)
      /\ Listed(get_recommendation(r), c)
  BY DEF CallInv, SawContent, has_resolution_run, get_recommendation
<1>4. \A b \in get_approval(r, c) : b.content = a.content
  BY <1>1, <1>3 DEF DecisionsAreGated, get_approval
<1>5. \A b : matches_decision(b, a) <=> SameDecision(k, b)
  BY DEF bound_approval, SameDecision, matches_decision
<1>6. ~(a.status = "rejected" /\ a.mode # "standard")
  BY <1>1 DEF Decided, DecidedMode
<1>7. a.status = "approved" => op[k].kind = "approve"
  BY <1>1 DEF Decided
<1>8. /\ Len(traces[r]) # Len(seen[k].trace) => Len(traces[r]) > Len(seen[k].trace)
      /\ Len(traces[r]) = Len(seen[k].trace) => AppendsOne(r, trace, Len(seen[k].trace))
      /\ trace[Len(trace)] = e
  BY <1>2, CurrentAppends
<1>9. e.by = k
  BY DEF DecisionEvent
<1>10. ApprovalBound(a, trace)
  BY <1>1, <1>3, <1>8, <1>9 DEF ApprovalBound
<1> HIDE DEF a, trace, e, r, c
<1>11. verdict = SaveApprovalVerdict(a, trace, seen[k].content, Len(seen[k].trace))
  BY DEF a, trace
<1>12. /\ verdict \in {"commit", "existing", "Stale", "Conflict"}
       /\ verdict = "Stale" => Len(traces[r]) > Len(seen[k].trace)
       /\ verdict = "existing" =>
             get_approval(r, c) # {} /\ \A b \in get_approval(r, c) : matches_decision(b, a)
       /\ verdict = "Conflict" =>
             \/ \E b \in get_approval(r, c) : ~matches_decision(b, a)
             \/ a.status = "approved" /\ OneApproved(r)
             \/ get_locked(r) # {}
  BY <1>1, <1>3, <1>4, <1>6, <1>8, <1>10, <1>11 DEF SaveApprovalVerdict
<1>13. QED
  BY <1>5, <1>7, <1>12 DEF r, c

\* save_locked() refuses a lock of the engine only as stale or for another candidate.
LEMMA LockVerdict ==
    ASSUME Inv, DecisionsAreGated, NEW k \in Calls, CallInv(k), pc[k] = "commit",
           op[k].kind = "lock", NEW verdict,
           verdict = SaveLockedVerdict(locked_resolution(k), LockTrace(k),
                                       seen[k].content, Len(seen[k].trace))
    PROVE  /\ verdict \in {"commit", "existing", "Stale", "Conflict"}
           /\ verdict = "Stale" => Len(traces[op[k].request]) > Len(seen[k].trace)
           /\ verdict = "existing" =>
                 /\ get_locked(op[k].request) # {}
                 /\ \A l \in get_locked(op[k].request) : l.candidate = op[k].candidate
<1> DEFINE r == op[k].request
           c == op[k].candidate
           l == locked_resolution(k)
           trace == LockTrace(k)
           e == LockEvent(SeenApproval(k), op[k].reviewer, k)
<1>1. /\ l.request = r /\ l.candidate = c /\ l.content = seen[k].content
      /\ l.approval = SeenApproval(k) /\ l.reviewer = op[k].reviewer
      /\ l.snapshot = trace
  BY DEF locked_resolution
<1>2. get_approval(r, c) = {SeenApproval(k)} /\ SeenApproval(k) \in approvals
  BY HeldApproval
<1>3. SeenApproval(k) \in ApprovalRecord
  BY <1>2 DEF Inv, TypeInv, TypeOK, StoreTypeOK
<1>4. /\ op[k] \in Operation /\ seen[k].trace \in Seq(Event)
      /\ e \in Event /\ trace = Append(seen[k].trace, e)
  BY <1>3, MadeCall, LockTraceType DEF LockTrace
<1>5. /\ seen[k].content = get_recommendation(r) /\ has_resolution_run(r)
      /\ Listed(get_recommendation(r), c)
  BY DEF CallInv, SawApproval, has_resolution_run, get_recommendation
<1>6. /\ Len(traces[r]) # Len(seen[k].trace) => Len(traces[r]) > Len(seen[k].trace)
      /\ Len(traces[r]) = Len(seen[k].trace) => AppendsOne(r, trace, Len(seen[k].trace))
      /\ trace[Len(trace)] = e
  BY <1>4, CurrentAppends
<1>7. e.by = k
  BY DEF LockEvent
<1>8. LockBound(l, trace)
  BY <1>1, <1>5, <1>6, <1>7 DEF LockBound
<1> HIDE DEF l, trace, e, r, c
<1>9. verdict = SaveLockedVerdict(l, trace, seen[k].content, Len(seen[k].trace))
  BY DEF l, trace
<1>10. /\ verdict \in {"commit", "existing", "Stale", "Conflict"}
       /\ verdict = "Stale" => Len(traces[r]) > Len(seen[k].trace)
       /\ verdict = "existing" =>
             get_locked(r) # {} /\ \A m \in get_locked(r) : m.candidate = c
  BY <1>1, <1>2, <1>5, <1>6, <1>8, <1>9 DEF SaveLockedVerdict
<1>11. QED
  BY <1>10 DEF r, c

\* A save that is stale for the last time: every attempt met an event of another call.
LEMMA LastAttempt ==
    ASSUME Inv, NEW k \in Calls, CallInv(k), pc[k] = "commit",
           op[k].kind \in Decisions \cup {"lock"}, ~Retries(k),
           Len(traces[op[k].request]) > Len(seen[k].trace)
    PROVE  op[k].expected = AnyRevision => Len(traces[op[k].request]) > MaxAttempts
<1>1. /\ Len(traces[op[k].request]) \in Nat /\ Len(seen[k].trace) \in Nat
      /\ seen[k].attempt \in 0 .. MaxAttempts - 1
  BY MadeCall
<1>2. Len(seen[k].trace) > seen[k].attempt
  BY DEF CallInv, InLoop
<1>3. QED
  BY <1>1, <1>2, MaxAttemptsAssumption DEF Retries

\* A decision at its commit.
LEMMA CommitDecisionKeeps ==
    ASSUME Inv, DecisionsAreGated, NEW k \in Calls, CallInv(k), CommitDecision(k)
    PROVE  CallInv(k)'
<1> DEFINE r == op[k].request
           c == op[k].candidate
           a == bound_approval(k)
           verdict == SaveApprovalVerdict(a, DecisionTrace(k), seen[k].content,
                                          Len(seen[k].trace))
<1>1. pc[k] = "commit" /\ op[k].kind \in Decisions
  BY DEF CommitDecision, At
<1>2. /\ verdict \in {"commit", "existing", "Stale", "Conflict"}
      /\ verdict = "Stale" => Len(traces[r]) > Len(seen[k].trace)
      /\ verdict = "existing" =>
            /\ get_approval(r, c) # {}
            /\ \A b \in get_approval(r, c) : SameDecision(k, b)
      /\ verdict = "Conflict" =>
            \/ \E b \in get_approval(r, c) : ~SameDecision(k, b)
            \/ op[k].kind = "approve" /\ OneApproved(r)
            \/ get_locked(r) # {}
  BY <1>1, DecisionVerdict
<1>3. CASE verdict = "Stale" /\ Retry(k)
  BY <1>1, <1>2, <1>3, RetryKeeps
<1>4. CASE verdict \in Errors /\ ~(verdict = "Stale" /\ Retries(k)) /\ Raise(k, verdict)
  <2>1. verdict = "Stale" /\ op[k].expected = AnyRevision => Len(traces[r]) > MaxAttempts
    BY <1>1, <1>2, <1>4, LastAttempt
  <2> HIDE DEF verdict
  <2>2. QED
    BY <1>1, <1>2, <1>4, <2>1, RaiseKeeps DEF Errors
<1>5. CASE /\ verdict = "existing" /\ UNCHANGED storeVars
           /\ Finish(k, "returned", get_approval(a.request, a.candidate))
  <2>1. a.request = r /\ a.candidate = c
    BY DEF bound_approval
  <2>2. /\ op'[k] = op[k] /\ outcome'[k] = "returned"
        /\ answer'[k] = get_approval(r, c) /\ get_approval(r, c)' = get_approval(r, c)
    BY <1>5, <2>1 DEF Finish, Inv, TypeInv, TypeOK, get_approval, storeVars
  <2>3. \A b : SameDecision(k, b)' <=> SameDecision(k, b)
    BY <2>2 DEF SameDecision, matches_decision, Decided, DecidedMode
  <2>4. Answered(k)' /\ Refused(k)'
    BY <1>1, <1>2, <1>5, <2>2, <2>3 DEF Answered, Refused, Decisions
  <2>5. QED
    BY <1>1, <1>5, <2>4, EndKeeps
<1>6. CASE /\ verdict = "commit" /\ CommitApproval(a, DecisionTrace(k))
           /\ Finish(k, "returned", {a})
  <2>1. OwnDecision(k)
    BY <1>1, <1>6, DecisionCommits DEF At
  <2>2. a.request = r /\ a.candidate = c /\ SameDecision(k, a)
    BY DEF bound_approval, SameDecision, matches_decision
  <2>3. op'[k] = op[k] /\ outcome'[k] = "returned" /\ answer'[k] = {a}
    BY <1>6 DEF Finish, Inv, TypeInv, TypeOK
  <2>4. get_approval(r, c)' = {a}
    <3>1. get_approval(r, c) = {} /\ approvals' = approvals \cup {a}
      BY <2>1, <2>2 DEF OwnDecision, DecisionStored
    <3> HIDE DEF a
    <3>2. QED
      BY <2>2, <2>3, <3>1 DEF get_approval
  <2>5. \A b : SameDecision(k, b)' <=> SameDecision(k, b)
    BY <2>3 DEF SameDecision, matches_decision, Decided, DecidedMode
  <2> HIDE DEF a
  <2>6. Answered(k)' /\ Refused(k)'
    BY <1>1, <2>2, <2>3, <2>4, <2>5 DEF Answered, Refused, Decisions
  <2>7. QED
    BY <1>1, <1>6, <2>6, EndKeeps
<1>7. QED
  BY <1>3, <1>4, <1>5, <1>6 DEF CommitDecision

\* A lock at its commit.
LEMMA CommitLockedKeeps ==
    ASSUME Inv, DecisionsAreGated, NEW k \in Calls, CallInv(k), CommitLocked(k)
    PROVE  CallInv(k)'
<1> DEFINE r == op[k].request
           l == locked_resolution(k)
           verdict == SaveLockedVerdict(l, LockTrace(k), seen[k].content,
                                        Len(seen[k].trace))
<1>1. pc[k] = "commit" /\ op[k].kind = "lock" /\ op[k].kind \notin Decisions
  BY DEF CommitLocked, At, Decisions
<1>2. /\ verdict \in {"commit", "existing", "Stale", "Conflict"}
      /\ verdict = "Stale" => Len(traces[r]) > Len(seen[k].trace)
      /\ verdict = "existing" =>
            get_locked(r) # {} /\ \A m \in get_locked(r) : m.candidate = op[k].candidate
  BY <1>1, LockVerdict
<1>3. CASE verdict = "Stale" /\ Retry(k)
  BY <1>1, <1>2, <1>3, RetryKeeps
<1>4. CASE verdict \in Errors /\ ~(verdict = "Stale" /\ Retries(k)) /\ Raise(k, verdict)
  <2>1. verdict = "Stale" /\ op[k].expected = AnyRevision => Len(traces[r]) > MaxAttempts
    BY <1>1, <1>2, <1>4, LastAttempt
  <2> HIDE DEF verdict
  <2>2. QED
    BY <1>1, <1>2, <1>4, <2>1, RaiseKeeps DEF Errors
<1>5. CASE /\ verdict = "existing" /\ UNCHANGED storeVars
           /\ Finish(k, "returned", get_locked(l.request))
  <2>1. l.request = r
    BY DEF locked_resolution
  <2>2. /\ op'[k] = op[k] /\ outcome'[k] = "returned"
        /\ answer'[k] = get_locked(r) /\ get_locked(r)' = get_locked(r)
    BY <1>5, <2>1 DEF Finish, Inv, TypeInv, TypeOK, get_locked, storeVars
  <2>3. Answered(k)' /\ Refused(k)'
    BY <1>1, <1>2, <1>5, <2>2 DEF Answered, Refused
  <2>4. QED
    BY <1>1, <1>5, <2>3, EndKeeps
<1>6. CASE /\ verdict = "commit" /\ CommitLock(l, LockTrace(k))
           /\ Finish(k, "returned", {l})
  <2>1. OwnLock(k)
    BY <1>1, <1>6, LockCommits DEF At
  <2>2. l.request = r /\ l.candidate = op[k].candidate
    BY DEF locked_resolution
  <2>3. op'[k] = op[k] /\ outcome'[k] = "returned" /\ answer'[k] = {l}
    BY <1>6 DEF Finish, Inv, TypeInv, TypeOK
  <2>4. get_locked(r)' = {l}
    <3>1. get_locked(r) = {} /\ locked' = locked \cup {l}
      BY <2>1, <2>2 DEF OwnLock, LockStored
    <3> HIDE DEF l
    <3>2. QED
      BY <2>2, <2>3, <3>1 DEF get_locked
  <2> HIDE DEF l
  <2>5. Answered(k)' /\ Refused(k)'
    BY <1>1, <2>2, <2>3, <2>4 DEF Answered, Refused
  <2>6. QED
    BY <1>1, <1>6, <2>5, EndKeeps
<1>7. QED
  BY <1>3, <1>4, <1>5, <1>6 DEF CommitLocked

\* A run or an annotation at its commit.
LEMMA CommitPlainKeeps ==
    ASSUME Inv, NEW k \in Calls, CallInv(k), CommitResolution(k) \/ CommitAnnotation(k)
    PROVE  CallInv(k)'
<1>1. /\ pc[k] = "commit" /\ op[k].kind \notin Decisions /\ op[k].kind # "lock"
  BY DEF CommitResolution, CommitAnnotation, At, Decisions
<1>2. CASE Raise(k, "ValueError")
  BY <1>1, <1>2, RaiseKeeps DEF Errors
<1>3. CASE Finish(k, "returned", {})
  <2>1. op'[k] = op[k] /\ outcome'[k] = "returned"
    BY <1>3 DEF Finish, Inv, TypeInv, TypeOK
  <2>2. Answered(k)' /\ Refused(k)'
    BY <1>1, <2>1 DEF Answered, Refused
  <2>3. QED
    BY <1>1, <1>3, <2>2, EndKeeps
<1>4. QED
  BY <1>2, <1>3 DEF CommitResolution, CommitAnnotation, SaveRunVerdict, SaveTraceVerdict

\* A call starts with nothing seen.
LEMMA InvokeKeeps ==
    ASSUME Inv, NEW k \in Calls, CallInv(k), NEW o \in Operations, Invoke(k, o)
    PROVE  CallInv(k)'
<1>1. /\ pc[k] = "idle" /\ pc'[k] = FirstLabel(o) /\ op'[k] = o
      /\ seen'[k] = seen[k] /\ outcome'[k] = outcome[k]
  BY DEF Invoke, At, Inv, TypeInv, TypeOK
<1>2. outcome[k] = "none" /\ seen[k].attempt = 0
  BY <1>1 DEF CallInv, Route
<1>3. o \in Operation
  BY OperationsAssumption
<1>4. /\ o.kind = "resolve" => FirstLabel(o) = "has_run"
      /\ o.kind \in Decisions => FirstLabel(o) = "recommendation"
      /\ o.kind = "annotate" => FirstLabel(o) = "trace"
      /\ o.kind = "lock" =>
            FirstLabel(o) = IF o.expected = AnyRevision THEN "locked" ELSE "revision"
      /\ o.kind \in Decisions \cup {"resolve", "annotate", "lock"}
  BY <1>3 DEF FirstLabel, Decisions, Operation
<1>5. Route(k)'
  BY <1>1, <1>2, <1>4 DEF Route, Decisions
<1>6. SawContent(k)' /\ SawApproval(k)' /\ InLoop(k)'
  BY <1>1, <1>4 DEF SawContent, SawApproval, InLoop
<1>7. Answered(k)' /\ Refused(k)'
  BY <1>1, <1>2 DEF Answered, Refused
<1>8. QED
  BY <1>5, <1>6, <1>7 DEF CallInv

\* A cancelled call has seen nothing and has no outcome.
LEMMA CancelKeeps ==
    ASSUME Inv, NEW k \in Calls, CallInv(k), Cancel(k)
    PROVE  CallInv(k)'
<1>1. /\ pc'[k] = "cancelled" /\ op'[k] = op[k] /\ seen'[k] = Blank
      /\ outcome'[k] = outcome[k] /\ pc[k] # "done"
  BY DEF Cancel, Inv, TypeInv, TypeOK
<1>2. outcome[k] = "none" /\ Blank.attempt = 0
  BY <1>1 DEF CallInv, Route, Blank
<1>3. QED
  BY <1>1, <1>2 DEF CallInv, Route, SawContent, SawApproval, InLoop, Answered, Refused

\* Every step of a call keeps its invariant.
LEMMA StepKeeps ==
    ASSUME Inv, DecisionsAreGated, NEW k \in Calls, CallInv(k), Step(k)
    PROVE  CallInv(k)'
BY CheckNewRunKeeps, ReadRecommendationKeeps, CheckRevisionKeeps, ReadExistingKeeps,
   ReadLockedKeeps, ReadApprovalKeeps, CheckCandidateKeeps, GetTraceKeeps,
   CommitDecisionKeeps, CommitLockedKeeps, CommitPlainKeeps DEF Step

-----------------------------------------------------------------------------
(* The store                                                               *)

\* Decisions and locks that were stored stay within their gates.
LEMMA GatesStay ==
    ASSUME Inv, Stays, DecisionsAreGated, LocksAreGated
    PROVE  /\ \A a \in approvals :
                 /\ a.content \in Contents
                 /\ a.content = get_recommendation(a.request)'
                 /\ Listed(a.content, a.candidate)
                 /\ a.status = "approved" => ApproveError(a.content, a) = "none"
           /\ \A l \in locked :
                 /\ l.content = l.approval.content
                 /\ \E k \in Calls :
                       l.snapshot[Len(l.snapshot)] = LockEvent(l.approval, l.reviewer, k)
<1>1. ASSUME NEW a \in approvals
      PROVE  a.content = get_recommendation(a.request)'
  <2>1. a.request \in Requests
    BY DEF Inv, TypeInv, TypeOK, StoreTypeOK, ApprovalRecord
  <2>2. a.content \in Contents /\ a.content = get_recommendation(a.request)
    BY DEF DecisionsAreGated
  <2>3. has_resolution_run(a.request)
    BY <2>2, NoContentAssumption DEF has_resolution_run, get_recommendation
  <2>4. QED
    BY <2>1, <2>2, <2>3 DEF Stays
<1>2. QED
  BY <1>1 DEF DecisionsAreGated, LocksAreGated

\* A step that stores a decision: approve()'s gates held when it committed.
LEMMA DecisionIsGated ==
    ASSUME Inv, Stays, DecisionsAreGated, LocksAreGated, NEW k \in Calls, CallInv(k),
           OwnDecision(k), NEW a, a = bound_approval(k)
    PROVE  DecisionsAreGated' /\ LocksAreGated'
<1>1. /\ a.request = op[k].request /\ a.candidate = op[k].candidate
      /\ a.content = seen[k].content /\ a.mode = DecidedMode(k) /\ a.note = op[k].note
      /\ a.status = Decided(k)
  BY DEF bound_approval
<1>2. /\ approvals' = approvals \cup {a} /\ locked' = locked
      /\ has_resolution_run(a.request) /\ a \in ApprovalRecord
  BY DEF OwnDecision, DecisionStored
<1>3. /\ seen[k].content = get_recommendation(a.request)
      /\ Listed(seen[k].content, op[k].candidate)
      /\ op[k].kind = "approve" => ApproveError(seen[k].content, op[k]) = "none"
  BY <1>1 DEF OwnDecision, CallInv, SawContent
<1>4. a.content = get_recommendation(a.request)' /\ a.content \in Contents
  BY <1>1, <1>2, <1>3 DEF Stays, ApprovalRecord
<1>5. a.status = "approved" => ApproveError(a.content, a) = "none"
  BY <1>1, <1>3 DEF Decided, DecidedMode, ApproveError
<1>6. QED
  BY <1>1, <1>2, <1>3, <1>4, <1>5, GatesStay DEF DecisionsAreGated, LocksAreGated

\* A step that stores a lock: it is about the content that was approved.
LEMMA LockIsGated ==
    ASSUME Inv, Stays, DecisionsAreGated, LocksAreGated, NEW k \in Calls, CallInv(k),
           OwnLock(k)
    PROVE  DecisionsAreGated' /\ LocksAreGated'
<1> DEFINE l == locked_resolution(k)
           e == LockEvent(l.approval, l.reviewer, k)
<1>1. /\ l.request = op[k].request /\ l.content = seen[k].content
      /\ l.approval = SeenApproval(k)
  BY DEF locked_resolution
<1>2. /\ approvals' = approvals /\ locked' = locked \cup {l}
      /\ l \in LockedResolution /\ l.snapshot = Append(traces[l.request], e)
  BY DEF OwnLock, LockStored
<1> HIDE DEF l
<1>3. l.content = l.approval.content
  BY <1>1, HeldApproval DEF OwnLock
<1>4. l.request \in Requests /\ e \in Event
  BY <1>2 DEF LockedResolution, ApprovalRecord, LockEvent, Event, Notes
<1>5. traces[l.request] \in Seq(Event)
  BY <1>4 DEF Inv, TypeInv, TypeOK, StoreTypeOK
<1>6. l.snapshot[Len(l.snapshot)] = e
  BY <1>2, <1>4, <1>5, AppendGrows
<1>7. QED
  BY <1>2, <1>3, <1>6, GatesStay DEF DecisionsAreGated, LocksAreGated

\* Every event is by some call.
LEMMA EventsHaveCalls ==
    ASSUME Inv, NEW r \in Requests, NEW i \in 1 .. Len(traces[r])
    PROVE  traces[r][i].by \in Calls
<1>1. traces[r] \in Seq(Event)
  BY DEF Inv, TypeInv, TypeOK, StoreTypeOK
<1>2. traces[r][i] \in Event
  BY <1>1
<1>3. QED
  BY <1>2 DEF Event

\* A step that appends an event of the call that returns with it.
LEMMA EventIsAnswered ==
    ASSUME Inv, EventsAreAnswered, NEW k \in Calls, NEW r \in Requests, NEW e \in Event,
           Extends(r, e), e.by = k, outcome'[k] = "returned", op' = op,
           \A j \in Calls \ {k} : outcome'[j] = outcome[j],
           e.stage \in {"human_approval", "lock"} /\ op[k].expected # AnyRevision =>
              Len(traces[r]) = op[k].expected
    PROVE  EventsAreAnswered'
<1>1. SUFFICES ASSUME NEW q \in Requests, NEW i \in 1 .. Len(traces'[q])
               PROVE  /\ outcome'[traces'[q][i].by] = "returned"
                      /\ /\ traces'[q][i].stage \in {"human_approval", "lock"}
                         /\ op[traces'[q][i].by].expected # AnyRevision
                         => i = op[traces'[q][i].by].expected + 1
  BY DEF EventsAreAnswered
<1>2. /\ traces[q] \in Seq(Event) /\ Len(traces[q]) \in Nat
      /\ traces[r] \in Seq(Event) /\ Len(traces[r]) \in Nat
  BY DEF Inv, TypeInv, TypeOK, StoreTypeOK
<1>3. CASE i \in 1 .. Len(traces[q]) /\ traces'[q][i] = traces[q][i]
  <2>1. traces[q][i].by \in Calls
    BY <1>3, EventsHaveCalls
  <2>2. QED
    BY <1>3, <2>1 DEF EventsAreAnswered
<1>4. CASE q = r /\ i = Len(traces[r]) + 1 /\ traces'[q][i] = e
  BY <1>4
<1>5. QED
  <2>1. CASE q # r
    BY <1>2, <1>3, <2>1 DEF Extends
  <2>2. CASE q = r
    BY <1>2, <1>3, <1>4, <2>2, AppendGrows DEF Extends
  <2>3. QED
    BY <2>1, <2>2

\* The store and its events after a step of a call.
LEMMA StepKeepsStore ==
    ASSUME Inv, CallsInv, Stays, NEW k \in Calls, Step(k)
    PROVE  DecisionsAreGated' /\ LocksAreGated' /\ EventsAreAnswered'
<1> DEFINE r == op[k].request
<1>1. CallInv(k) /\ DecisionsAreGated /\ LocksAreGated /\ EventsAreAnswered
  BY DEF CallsInv
<1>2. /\ pc[k] \notin {"done", "cancelled"}
      /\ \A j \in Calls \ {k} : outcome'[j] = outcome[j] /\ op'[j] = op[j]
  BY OnlyOneMoves
<1>3. op' = op /\ outcome[k] = "none"
  <2>1. op' = op
    BY DEF Step, CheckNewRun, ReadRecommendation, CheckRevision, ReadExisting, ReadLocked,
           ReadApproval, CheckCandidate, GetTrace, CommitDecision, CommitLocked,
           CommitResolution, CommitAnnotation, Raise, Finish, Goto, Retry
  <2>2. QED
    BY <1>1, <1>2, <2>1 DEF CallInv, Route
<1>4. ASSUME NEW objects, Finish(k, "returned", objects)
      PROVE  outcome'[k] = "returned"
  BY <1>4 DEF Finish, Inv, TypeInv, TypeOK
<1>5. ASSUME UNCHANGED <<approvals, locked>>
      PROVE  DecisionsAreGated' /\ LocksAreGated'
  BY <1>1, <1>5, GatesStay DEF DecisionsAreGated, LocksAreGated
<1>6. CASE UNCHANGED storeVars
  <2>1. DecisionsAreGated' /\ LocksAreGated'
    BY <1>5, <1>6 DEF storeVars
  <2>2. ASSUME NEW q \in Requests, NEW i \in 1 .. Len(traces[q])
        PROVE  outcome'[traces[q][i].by] = "returned"
    <3>1. traces[q][i].by \in Calls
      BY EventsHaveCalls
    <3>2. outcome[traces[q][i].by] = "returned"
      BY <1>1 DEF EventsAreAnswered
    <3>3. QED
      BY <1>2, <1>3, <3>1, <3>2
  <2>3. EventsAreAnswered'
    BY <1>1, <1>3, <1>6, <2>2 DEF EventsAreAnswered, storeVars
  <2>4. QED
    BY <2>1, <2>3
<1>7. CASE OwnDecision(k)
  <2> DEFINE a == bound_approval(k)
             e == DecisionEvent(a, k)
  <2>1. a.request = r /\ a \in ApprovalRecord /\ r \in Requests
    BY <1>7, MadeCall DEF OwnDecision, bound_approval
  <2>2. e \in Event /\ e.by = k
    BY <2>1 DEF DecisionEvent, ApprovalRecord, Event
  <2>3. has_resolution_run(r) /\ StoreTrace(r, Append(traces[r], e))
    BY <1>7, <2>1 DEF OwnDecision, DecisionStored
  <2>4. Extends(r, e)
    BY <2>1, <2>3, StoreTraceExtends
  <2>5. op[k].expected # AnyRevision => Len(traces[r]) = op[k].expected
    BY <1>1, <1>7 DEF OwnDecision, CallInv, InLoop
  <2>6. outcome'[k] = "returned"
    BY <1>4, <1>7 DEF OwnDecision
  <2> HIDE DEF e
  <2>7. EventsAreAnswered'
    BY <1>1, <1>2, <1>3, <2>1, <2>2, <2>4, <2>5, <2>6, EventIsAnswered
  <2>8. QED
    BY <1>1, <1>7, <2>7, DecisionIsGated
<1>8. CASE OwnLock(k)
  <2> DEFINE l == locked_resolution(k)
             e == LockEvent(l.approval, l.reviewer, k)
  <2>1. l.request = r /\ l \in LockedResolution /\ r \in Requests
    BY <1>8, MadeCall DEF OwnLock, locked_resolution
  <2>2. e \in Event /\ e.by = k
    BY <2>1 DEF LockedResolution, ApprovalRecord, LockEvent, Event, Notes
  <2>3. has_resolution_run(r) /\ StoreTrace(r, Append(traces[r], e))
    BY <1>8, <2>1 DEF OwnLock, LockStored
  <2>4. Extends(r, e)
    BY <2>1, <2>3, StoreTraceExtends
  <2>5. op[k].expected # AnyRevision => Len(traces[r]) = op[k].expected
    BY <1>1, <1>8 DEF OwnLock, CallInv, InLoop
  <2>6. outcome'[k] = "returned"
    BY <1>4, <1>8 DEF OwnLock
  <2> HIDE DEF e
  <2>7. EventsAreAnswered'
    BY <1>1, <1>2, <1>3, <2>1, <2>2, <2>4, <2>5, <2>6, EventIsAnswered
  <2>8. QED
    BY <1>1, <1>8, <2>7, LockIsGated
<1>9. ASSUME NEW e \in Event, e.by = k, e.stage \in {"resolution", "annotation"},
             Extends(r, e), r \in Requests, Finish(k, "returned", {}),
             UNCHANGED <<approvals, locked>>
      PROVE  DecisionsAreGated' /\ LocksAreGated' /\ EventsAreAnswered'
  BY <1>1, <1>2, <1>3, <1>4, <1>5, <1>9, EventIsAnswered
<1>10. CASE OwnRun(k)
  <2> DEFINE e == PlainEvent(k, "resolution")
  <2>1. e \in Event /\ e.by = k /\ e.stage = "resolution"
    BY <1>10 DEF OwnRun, PlainEvent
  <2>2. Extends(r, e)
    BY <1>10, OpenedExtends DEF OwnRun
  <2> HIDE DEF e
  <2>3. QED
    BY <1>9, <1>10, <2>1, <2>2 DEF OwnRun, Opened, CommitRun
<1>11. CASE OwnAnnotation(k)
  <2> DEFINE e == PlainEvent(k, "annotation")
  <2>1. e \in Event /\ e.by = k /\ e.stage = "annotation"
    BY <1>11 DEF OwnAnnotation, PlainEvent
  <2>2. Extends(r, e)
    BY <1>11, StoreTraceExtends DEF OwnAnnotation, Annotated, CommitTrace
  <2> HIDE DEF e
  <2>3. QED
    BY <1>9, <1>11, <2>1, <2>2 DEF OwnAnnotation, Annotated, CommitTrace
<1>12. QED
  BY <1>6, <1>7, <1>8, <1>10, <1>11, StepHasEffect DEF EffectOf

-----------------------------------------------------------------------------
(* The theorems                                                            *)

\* Initially no call was made and the store is empty.
LEMMA CallsInvInit == Init => CallsInv
<1> SUFFICES ASSUME Init PROVE CallsInv
  OBVIOUS
<1>1. DecisionsAreGated /\ LocksAreGated
  BY DEF Init, StoreInit, DecisionsAreGated, LocksAreGated
<1>2. EventsAreAnswered
  BY DEF Init, StoreInit, EventsAreAnswered
<1>3. ASSUME NEW k \in Calls PROVE CallInv(k)
  <2>1. pc[k] = "idle" /\ outcome[k] = "none" /\ seen[k] = Blank
    BY DEF Init
  <2>2. QED
    BY <2>1 DEF Blank, CallInv, Route, SawContent, SawApproval, InLoop, Answered, Refused
<1>4. QED
  BY <1>1, <1>2, <1>3 DEF CallsInv

\* Every step keeps the invariant of the calls.
LEMMA CallsInvStep == Inv /\ CallsInv /\ [Next]_vars => CallsInv'
<1> SUFFICES ASSUME Inv, CallsInv, [Next]_vars
             PROVE  CallsInv'
  OBVIOUS
<1>1. /\ DecisionsAreGated /\ LocksAreGated /\ EventsAreAnswered
      /\ \A j \in Calls : CallInv(j)
  BY DEF CallsInv
<1>2. TypeInv' /\ Grows /\ Stays
  BY EveryStepHasEffect, EffectGrows, EffectStays, TypeInvStep DEF Inv
<1>3. ASSUME UNCHANGED storeVars,
             \A j \in Calls : outcome[j] = "returned" =>
                                 outcome'[j] = outcome[j] /\ op'[j] = op[j]
      PROVE  DecisionsAreGated' /\ LocksAreGated' /\ EventsAreAnswered'
  <2>1. DecisionsAreGated' /\ LocksAreGated'
    BY <1>1, <1>2, <1>3, GatesStay DEF DecisionsAreGated, LocksAreGated, storeVars
  <2>2. \A q \in Requests : \A i \in 1 .. Len(traces[q]) :
           LET k == traces[q][i].by
           IN  outcome'[k] = "returned" /\ op'[k] = op[k]
    BY <1>1, <1>3, EventsHaveCalls DEF EventsAreAnswered
  <2>3. EventsAreAnswered'
    BY <1>1, <1>3, <2>2 DEF EventsAreAnswered, storeVars
  <2>4. QED
    BY <2>1, <2>3
<1>4. ASSUME NEW k \in Calls,
             (\E o \in Operations : Invoke(k, o)) \/ Step(k) \/ Cancel(k)
      PROVE  CallsInv'
  <2>1. ASSUME NEW j \in Calls PROVE CallInv(j)'
    <3>1. CASE j # k
      BY <1>1, <1>2, <1>4, <3>1, OnlyOneMoves, OthersKeep
    <3>2. CASE j = k
      BY <1>1, <1>4, <3>2, StepKeeps, InvokeKeeps, CancelKeeps
    <3>3. QED
      BY <3>1, <3>2
  <2>2. DecisionsAreGated' /\ LocksAreGated' /\ EventsAreAnswered'
    <3>1. CASE Step(k)
      BY <1>2, <3>1, StepKeepsStore
    <3>2. CASE (\E o \in Operations : Invoke(k, o)) \/ Cancel(k)
      <4>1. UNCHANGED storeVars
        BY <3>2 DEF Invoke, Cancel
      <4>2. outcome[k] # "returned"
        BY <1>1, <1>4, OnlyOneMoves DEF CallInv, Route
      <4>3. \A j \in Calls : outcome[j] = "returned" =>
                                outcome'[j] = outcome[j] /\ op'[j] = op[j]
        BY <1>4, <4>2, OnlyOneMoves
      <4>4. QED
        BY <1>3, <4>1, <4>3
    <3>3. QED
      BY <1>4, <3>1, <3>2
  <2>3. QED
    BY <2>1, <2>2 DEF CallsInv
<1>5. CASE UNCHANGED vars
  <2>1. UNCHANGED <<storeVars, pc, op, seen, outcome, answer>>
    BY <1>5 DEF vars, callVars
  <2>2. \A j \in Calls : CallInv(j)'
    BY <1>1, <1>2, <2>1, OthersKeep
  <2>3. QED
    BY <1>3, <2>1, <2>2 DEF CallsInv
<1>6. QED
  BY <1>4, <1>5 DEF Next

\* An approved candidate with a consistent total is never refused by lock(), and a
\* reference-only candidate is locked only with the reason in the sealed evidence
\* (GatesAgree: the gates of approve(), the decision it stores, the event of lock()).
THEOREM GatesHold == Spec => []GatesAgree
<1>1. ASSUME Inv, CallsInv PROVE ApprovedIsLockable
  <2>1. ASSUME NEW a \in approvals, a.status = "approved",
               a.content.item[a.candidate].total_consistent
        PROVE  LockError(get_recommendation(a.request), a, a) = "none"
    <3>1. /\ a.content \in Contents /\ a.content = get_recommendation(a.request)
          /\ Listed(a.content, a.candidate) /\ ApproveError(a.content, a) = "none"
      BY <1>1, <2>1 DEF CallsInv, DecisionsAreGated
    <3>2. QED
      BY <2>1, <3>1, NoContentAssumption DEF ApproveError, LockError
  <2>2. QED
    BY <2>1 DEF ApprovedIsLockable
<1>2. ASSUME Inv, CallsInv PROVE OverrideReasonIsSealed
  <2>1. SUFFICES ASSUME NEW l \in locked,
                        l.content.item[l.candidate].tier = "REFERENCE_ONLY"
                 PROVE  /\ ~l.content.item[l.candidate].incomplete
                        /\ \E i \in DOMAIN l.snapshot :
                              /\ l.snapshot[i].stage = "lock"
                              /\ l.snapshot[i].mode = "reference_override"
                              /\ l.snapshot[i].note = "reason"
    BY DEF OverrideReasonIsSealed
  <2>2. /\ l.approval \in approvals /\ l.approval.status = "approved"
        /\ l.approval.candidate = l.candidate
    BY <1>2 DEF Inv, StoreInv, LockSealsApproval
  <2>3. PICK k \in Calls :
           l.snapshot[Len(l.snapshot)] = LockEvent(l.approval, l.reviewer, k)
    BY <1>2 DEF CallsInv, LocksAreGated
  <2>4. /\ l.content = l.approval.content
        /\ ApproveError(l.content, l.approval) = "none"
    BY <1>2, <2>2 DEF CallsInv, LocksAreGated, DecisionsAreGated
  <2>5. /\ ~l.content.item[l.candidate].incomplete
        /\ l.approval.mode = "reference_override" /\ l.approval.note # "blank"
    BY <2>1, <2>2, <2>4 DEF ApproveError
  <2>6. l.approval.note = "reason"
    BY <1>2, <2>2, <2>5
    DEF Inv, TypeInv, TypeOK, StoreTypeOK, ApprovalRecord, Notes
  <2>7. l.snapshot \in Seq(Event) /\ Len(l.snapshot) \in 1 .. Len(traces[l.request])
    BY <1>2 DEF Inv, TypeInv, TypeOK, StoreTypeOK, LockedResolution, StoreInv,
                LocksAreInTrace
  <2>8. Len(l.snapshot) \in DOMAIN l.snapshot
    BY <2>7
  <2>9. /\ l.snapshot[Len(l.snapshot)].stage = "lock"
        /\ l.snapshot[Len(l.snapshot)].mode = "reference_override"
        /\ l.snapshot[Len(l.snapshot)].note = "reason"
    BY <2>3, <2>5, <2>6 DEF LockEvent
  <2>10. QED
    BY <2>5, <2>8, <2>9
<1>3. Inv /\ CallsInv => GatesAgree
  BY <1>1, <1>2 DEF GatesAgree
<1>4. QED
  BY <1>3, InvInit, InvStep, CallsInvInit, CallsInvStep, PTL DEF Spec

\* A call returns what the store holds, is refused only with a cause and without a
\* trace event, never on an integrity check, and an explicit revision is committed on
\* exactly that revision (CallsEndRightly; _decide, lock and the saves).
THEOREM CallsAreAnswered == Spec => []CallsEndRightly
<1>1. ASSUME Inv, CallsInv PROVE AnswersAreStored
  <2>1. SUFFICES ASSUME NEW k \in Calls, outcome[k] = "returned"
                 PROVE  /\ op[k].kind \in Decisions =>
                              /\ answer[k] = get_approval(op[k].request, op[k].candidate)
                              /\ \E a \in answer[k] :
                                    /\ a.status = Decided(k) /\ a.mode = DecidedMode(k)
                                    /\ a.reviewer = op[k].reviewer /\ a.note = op[k].note
                        /\ op[k].kind = "lock" =>
                              /\ answer[k] = get_locked(op[k].request)
                              /\ \E l \in answer[k] : l.candidate = op[k].candidate
    BY DEF AnswersAreStored
  <2>2. Answered(k)
    BY <1>1 DEF CallsInv, CallInv
  <2>3. QED
    BY <2>1, <2>2 DEF Answered, SameDecision, matches_decision
<1>2. ASSUME Inv, CallsInv PROVE RefusalsAreEarned
  <2>1. ASSUME NEW k \in Calls PROVE Refused(k)
    BY <1>2 DEF CallsInv, CallInv
  <2>2. ASSUME NEW k \in Calls, outcome[k] # "returned", NEW r \in Requests,
               NEW i \in DOMAIN traces[r]
        PROVE  traces[r][i].by # k
    <3>1. i \in 1 .. Len(traces[r])
      BY <1>2 DEF Inv, TypeInv, TypeOK, StoreTypeOK
    <3>2. QED
      BY <1>2, <2>2, <3>1 DEF CallsInv, EventsAreAnswered
  <2>3. QED
    BY <2>1, <2>2 DEF RefusalsAreEarned, Refused
<1>3. ASSUME Inv, CallsInv PROVE ExplicitRevisionIsStrict
  <2>1. ASSUME NEW r \in Requests PROVE DOMAIN traces[r] = 1 .. Len(traces[r])
    BY <1>3 DEF Inv, TypeInv, TypeOK, StoreTypeOK
  <2>2. QED
    BY <1>3, <2>1 DEF ExplicitRevisionIsStrict, CallsInv, EventsAreAnswered
<1>4. Inv /\ CallsInv => CallsEndRightly
  BY <1>1, <1>2, <1>3 DEF CallsEndRightly
<1>5. QED
  BY <1>4, InvInit, InvStep, CallsInvInit, CallsInvStep, PTL DEF Spec

=============================================================================

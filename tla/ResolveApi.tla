------------------------------ MODULE ResolveApi -----------------------------
(***************************************************************************)
(* The HTTP routes that start a resolution (api.py): POST /resolve, which  *)
(* treats a request id as an idempotency key inside the caller's scope,    *)
(* and the administration route POST /debug/resolve, which does not.  One  *)
(* process keeps, in memory, the owner of every request id, the            *)
(* fingerprint of the input bound to every key and one asyncio.Lock per    *)
(* key.  A submission suspends while it waits for the lock and while the   *)
(* resolution graph runs; everything between is one step, since the calls  *)
(* it makes on the in-memory store do not suspend.                         *)
(*                                                                         *)
(* The engine and its store appear here by what the routes see of them: a  *)
(* request id has at most one stored run (ResolutionStore), the graph may  *)
(* raise, and a second run of an id is refused when it is saved.           *)
(***************************************************************************)
EXTENDS Integers, Sequences

CONSTANTS Scopes,         \* tenant and project of a caller
          PublicScope,    \* the scope of callers of the app without an authorizer
          Ids,            \* request ids
          Inputs,         \* fingerprints of the business input
          Calls,          \* submissions
          Routes,         \* the routes in use: {"resolve"} or {"resolve", "debug"}
          Interruptible,  \* whether the server may cancel the task of a submission
          NoScope, NoInput, NoRun

VARIABLES owners,        \* per request id: the scope it is reserved for
          fingerprints,  \* per key: the input it is bound to
          queue,         \* per key: the submissions at its lock, the holder first
          stored,        \* per request id: the stored run
          pc, op,        \* per submission: where it is, and what was submitted
          reserved,      \* per submission: it made the reservation of its id
          outcome,       \* per submission: how it ended
          answer         \* per submission: the run it was answered with

apiVars == <<owners, fingerprints, queue>>
callVars == <<pc, op, reserved, outcome, answer>>
vars == <<apiVars, stored, callVars>>

Keys == Scopes \X Ids

Run == [scope : Scopes, input : Inputs, by : Calls]

Submission == [route : Routes, scope : Scopes, id : Ids, input : Inputs]

\* How a submission ends.  Both "duplicate" (the store refuses a second run) and
\* "failed" (the graph raises) are HTTP errors of the engine.
Outcomes == {"none", "resolved", "replayed", "scope_conflict", "payload_conflict",
             "unbound", "duplicate", "failed", "cancelled"}

ASSUME RoutesAssumption == Routes \subseteq {"resolve", "debug"}
ASSUME InterruptibleAssumption == Interruptible \in BOOLEAN
ASSUME NoValueAssumption ==
    NoScope \notin Scopes /\ NoInput \notin Inputs \cup Submission /\ NoRun \notin Run

\* An app either has an authorizer, and every caller a scope, or has none, and every
\* caller the public scope.  /debug/resolve is a route of the administration app, which
\* has an authorizer.
ASSUME AppAssumption ==
    /\ Scopes = {PublicScope} \/ PublicScope \notin Scopes
    /\ "debug" \in Routes => PublicScope \notin Scopes

-----------------------------------------------------------------------------
Key(k) == <<op[k].scope, op[k].id>>
HasContext(k) == op[k].scope # PublicScope
RunOf(k) == [scope |-> op[k].scope, input |-> op[k].input, by |-> k]

HoldsLock_Alone(k) == queue[Key(k)] = <<k>>

\* asyncio.Lock wakes its waiters in the order in which they came.
HoldsLock(k) == Head(queue[Key(k)]) = k

Without(s, n) == [m \in 1 .. Len(s) - 1 |-> s[IF m < n THEN m ELSE m + 1]]

\* The submission leaves the lock: it releases it or stops waiting.
Leave(k) ==
    \E n \in DOMAIN queue[Key(k)] :
        /\ queue[Key(k)][n] = k
        /\ queue' = [queue EXCEPT ![Key(k)] = Without(@, n)]

End(k, how, run) ==
    /\ pc' = [pc EXCEPT ![k] = "done"]
    /\ outcome' = [outcome EXCEPT ![k] = how]
    /\ answer' = [answer EXCEPT ![k] = run]
    /\ UNCHANGED op

\* The reservation of the id is new if no scope owned it.
ReservesNew(k) == HasContext(k) /\ owners[op[k].id] = NoScope

Reserve(k) ==
    /\ owners' = IF HasContext(k) THEN [owners EXCEPT ![op[k].id] = op[k].scope] ELSE owners
    /\ reserved' = [reserved EXCEPT ![k] = ReservesNew(k)]

\* Faulty variant: the id is given up although the scope owned it before.
GiveUpId_Always(k, new) ==
    owners' = IF HasContext(k) THEN [owners EXCEPT ![op[k].id] = NoScope] ELSE owners

\* A refused or failed submission gives the id up if its reservation was new.
GiveUpId(k, new) == owners' = IF new THEN [owners EXCEPT ![op[k].id] = NoScope] ELSE owners

\* Faulty variant: a key is not compared with its bound input.
Verdict_AnyInput(k) ==
    IF HasContext(k) /\ owners[op[k].id] \notin {NoScope, op[k].scope} THEN "scope_conflict"
    ELSE IF stored[op[k].id] = NoRun THEN "run"
    ELSE IF fingerprints[Key(k)] = NoInput THEN "unbound"
    ELSE "replayed"

\* What the holder of the lock finds: its id is owned by another scope, its key is
\* bound to another input, a run exists that the key is not bound to, a run to
\* replay, or nothing, so that it runs the engine.
Verdict(k) ==
    IF HasContext(k) /\ owners[op[k].id] \notin {NoScope, op[k].scope} THEN "scope_conflict"
    ELSE IF fingerprints[Key(k)] \notin {NoInput, op[k].input} THEN "payload_conflict"
    ELSE IF stored[op[k].id] = NoRun THEN "run"
    ELSE IF fingerprints[Key(k)] = NoInput THEN "unbound"
    ELSE "replayed"

-----------------------------------------------------------------------------
(* POST /resolve                                                           *)

Submit(k, o) ==
    /\ pc[k] = "idle" /\ o.route = "resolve"
    /\ pc' = [pc EXCEPT ![k] = "waiting"]
    /\ op' = [op EXCEPT ![k] = o]
    /\ queue' = [queue EXCEPT ![<<o.scope, o.id>>] = Append(@, k)]
    /\ UNCHANGED <<owners, fingerprints, stored, reserved, outcome, answer>>

\* The lock is acquired: refuse, replay, or bind the key and start the engine.
Enter(k) ==
    /\ pc[k] = "waiting" /\ HoldsLock(k)
    /\ LET verdict == Verdict(k)
       IN \/ /\ verdict = "scope_conflict"
             /\ End(k, verdict, NoRun) /\ Leave(k)
             /\ UNCHANGED <<owners, fingerprints, reserved>>
          \/ /\ verdict \in {"payload_conflict", "unbound"}
             /\ GiveUpId(k, ReservesNew(k))
             /\ End(k, verdict, NoRun) /\ Leave(k)
             /\ UNCHANGED <<fingerprints, reserved>>
          \/ /\ verdict = "replayed"
             /\ Reserve(k)
             /\ End(k, verdict, stored[op[k].id]) /\ Leave(k)
             /\ UNCHANGED fingerprints
          \/ /\ verdict = "run"
             /\ Reserve(k)
             /\ fingerprints' = [fingerprints EXCEPT ![Key(k)] = op[k].input]
             /\ pc' = [pc EXCEPT ![k] = "running"]
             /\ UNCHANGED <<op, outcome, answer, queue>>
    /\ UNCHANGED stored

\* The engine raised: the key is unbound and a new reservation is given up.
Undo(k) ==
    /\ fingerprints' = [fingerprints EXCEPT ![Key(k)] = NoInput]
    /\ GiveUpId(k, reserved[k])

\* The graph has run and its result is saved; a second run of the id is refused.
Complete(k) ==
    /\ pc[k] = "running"
    /\ Leave(k)
    /\ \/ /\ stored[op[k].id] = NoRun
          /\ stored' = [stored EXCEPT ![op[k].id] = RunOf(k)]
          /\ End(k, "resolved", RunOf(k))
          /\ UNCHANGED <<owners, fingerprints, reserved>>
       \/ /\ stored[op[k].id] # NoRun
          /\ Undo(k)
          /\ End(k, "duplicate", NoRun)
          /\ UNCHANGED <<stored, reserved>>

Fail(k) ==
    /\ pc[k] = "running"
    /\ Leave(k) /\ Undo(k)
    /\ End(k, "failed", NoRun)
    /\ UNCHANGED <<stored, reserved>>

-----------------------------------------------------------------------------
(* POST /debug/resolve: no lock, no reservation, no binding                *)

SubmitDebug(k, o) ==
    /\ pc[k] = "idle" /\ o.route = "debug"
    /\ op' = [op EXCEPT ![k] = o]
    /\ \/ /\ stored[o.id] = NoRun
          /\ pc' = [pc EXCEPT ![k] = "debugging"]
          /\ UNCHANGED outcome
       \/ /\ stored[o.id] # NoRun
          /\ pc' = [pc EXCEPT ![k] = "done"]
          /\ outcome' = [outcome EXCEPT ![k] = "duplicate"]
    /\ UNCHANGED <<apiVars, stored, reserved, answer>>

\* The run is saved and the id is given to the caller's scope.
CompleteDebug(k) ==
    /\ pc[k] = "debugging"
    /\ \/ /\ stored[op[k].id] = NoRun
          /\ stored' = [stored EXCEPT ![op[k].id] = RunOf(k)]
          /\ owners' = [owners EXCEPT ![op[k].id] = op[k].scope]
          /\ End(k, "resolved", RunOf(k))
       \/ /\ stored[op[k].id] # NoRun
          /\ End(k, "duplicate", NoRun)
          /\ UNCHANGED <<stored, owners>>
    /\ UNCHANGED <<fingerprints, queue, reserved>>

FailDebug(k) ==
    /\ pc[k] = "debugging"
    /\ End(k, "failed", NoRun)
    /\ UNCHANGED <<apiVars, stored, reserved>>

-----------------------------------------------------------------------------
\* The server cancels the task.  CancelledError is no Exception, so the handlers
\* do not run; leaving the "async with" block releases the lock.
Cancel(k) ==
    /\ Interruptible
    /\ pc[k] \in {"waiting", "running", "debugging"}
    /\ IF op[k].route = "resolve" THEN Leave(k) ELSE UNCHANGED queue
    /\ End(k, "cancelled", NoRun)
    /\ UNCHANGED <<owners, fingerprints, stored, reserved>>

Init ==
    /\ owners = [i \in Ids |-> NoScope]
    /\ fingerprints = [key \in Keys |-> NoInput]
    /\ queue = [key \in Keys |-> <<>>]
    /\ stored = [i \in Ids |-> NoRun]
    /\ pc = [k \in Calls |-> "idle"]
    /\ op = [k \in Calls |-> NoInput]
    /\ reserved = [k \in Calls |-> FALSE]
    /\ outcome = [k \in Calls |-> "none"]
    /\ answer = [k \in Calls |-> NoRun]

Proceed(k) == Enter(k) \/ Complete(k) \/ Fail(k) \/ CompleteDebug(k) \/ FailDebug(k)

Next ==
    \E k \in Calls :
        \/ \E o \in Submission : Submit(k, o) \/ SubmitDebug(k, o)
        \/ Proceed(k)
        \/ Cancel(k)

Spec == Init /\ [][Next]_vars

\* A submission that holds its lock goes on, and the graph ends or raises: each of its
\* stages has a bounded number of calls, every one with a timeout but that of a public
\* fetcher, of which it is assumed that it answers.
Fairness == \A k \in Calls : WF_vars(Proceed(k))

-----------------------------------------------------------------------------
(* Reads and review are open to the owner of an id (require_resolution_owner).*)
Readable(s, i) == owners[i] = s /\ stored[i] # NoRun

Made(k) == op[k] # NoInput

OnlyResolve == \A k \in Calls : Made(k) => op[k].route = "resolve"

(* Properties                                                              *)

\* Types, and the lock: a key's queue holds its waiting submissions and the one
\* that runs, each once.
TypeOK ==
    /\ owners \in [Ids -> Scopes \cup {NoScope}]
    /\ fingerprints \in [Keys -> Inputs \cup {NoInput}]
    /\ stored \in [Ids -> Run \cup {NoRun}]
    /\ pc \in [Calls -> {"idle", "waiting", "running", "debugging", "done"}]
    /\ op \in [Calls -> Submission \cup {NoInput}]
    /\ reserved \in [Calls -> BOOLEAN]
    /\ outcome \in [Calls -> Outcomes]
    /\ answer \in [Calls -> Run \cup {NoRun}]
    /\ queue \in [Keys -> Seq(Calls)]
    /\ \A key \in Keys : \A n \in DOMAIN queue[key] :
          /\ pc[queue[key][n]] \in {"waiting", "running"}
          /\ \A m \in DOMAIN queue[key] : queue[key][m] = queue[key][n] => m = n

\* "Concurrent identical submissions execute once": at no time do two submissions
\* of one key run the engine, nor two scopes with the same id (per-key lock and
\* reservation of the id in resolve()).
OneExecution ==
    \A j, k \in Calls :
        /\ pc[j] = "running" /\ pc[k] = "running" /\ op[j].id = op[k].id
        /\ HasContext(j) \/ op[j].scope = op[k].scope
        => j = k

\* A submission of /resolve that is running, or was cancelled, may hold a key and an id.
MayHold(k) == (pc[k] = "running" \/ outcome[k] = "cancelled") /\ op[k].route = "resolve"

\* The binding under which k finds its key was left by a cancelled submission, not made
\* by the run that is stored.
LeftBound(k) ==
    \E j \in Calls : /\ outcome[j] = "cancelled" /\ op[j].route = "resolve"
                     /\ Key(j) = Key(k) /\ op[j].input = op[k].input

\* "Same key plus the same normalized request replays the stored result; same key
\* plus different business input returns HTTP 409": whatever /resolve answers is
\* the stored run of that id, made in the caller's scope from the caller's input.  One
\* case is left out, which ReplaysOwnInput states: the run is one of /debug/resolve and
\* the key was left bound by a cancelled submission of the caller's input.
AnswersOwnInput ==
    \A k \in Calls :
        outcome[k] \in {"resolved", "replayed"} =>
            /\ answer[k] = stored[op[k].id] /\ answer[k].scope = op[k].scope
            /\ \/ answer[k].input = op[k].input
               \/ op[answer[k].by].route = "debug" /\ LeftBound(k)

\* The same sentence without the exception: a submission that is answered by a replay is
\* answered for its own input (fingerprints and the replay of resolve).
ReplaysOwnInput ==
    \A k \in Calls : outcome[k] = "replayed" => answer[k].input = op[k].input

\* "Admin resolution ownership is partitioned by tenant and project": the scope
\* that may read and review an id is the scope that resolved it.
OwnershipIsPartitioned ==
    \A i \in Ids : \A s \in Scopes : Readable(s, i) => stored[i].scope = s

\* The scope of the stored run of an id can read it.
StaysReachable(i) == stored[i].scope # PublicScope => Readable(stored[i].scope, i)

\* A run that was stored for a scope can be read and reviewed by that scope: no
\* refused, failed or cancelled submission takes the id away from it.
RunsStayReachable ==
    \A i \in Ids : stored[i] # NoRun => StaysReachable(i)

\* The runs that /resolve stores stay reachable, whatever other submissions of the id
\* do, /debug/resolve included (the owner entry is popped only by the submission that
\* made the reservation).
ResolvedRunsStayReachable ==
    \A i \in Ids :
        stored[i] # NoRun /\ op[stored[i].by].route = "resolve" => StaysReachable(i)

\* Bindings are earned: a key is bound, and an id reserved, only for a stored run,
\* a submission that is running, or one that was cancelled before it ended.  A failed
\* submission leaves both free for another input or scope.
BindingsAreEarned ==
    /\ \A s \in Scopes, i \in Ids :
          fingerprints[<<s, i>>] # NoInput =>
              \/ stored[i] # NoRun
              \/ \E k \in Calls : MayHold(k) /\ op[k].input = fingerprints[<<s, i>>]
                                  /\ Key(k) = <<s, i>>
    /\ \A i \in Ids :
          owners[i] # NoScope =>
              stored[i] # NoRun \/ \E k \in Calls : MayHold(k) /\ Key(k) = <<owners[i], i>>

\* Where only /resolve has been used, a submission whose id and input are free is
\* served: none is refused because of a run it could not know of.
ValidSubmissionsAreServed ==
    OnlyResolve => \A k \in Calls :
        /\ outcome[k] \notin {"unbound", "duplicate"}
        /\ outcome[k] = "scope_conflict" =>
              \E j \in Calls : Made(j) /\ op[j].id = op[k].id
                               /\ op[j].scope # op[k].scope /\ j # k
                               /\ outcome[j] \notin {"scope_conflict"}

\* Every submission is answered: the lock is released on every path, and waiters
\* are served in order.
EverySubmissionEnds ==
    \A k \in Calls : pc[k] = "waiting" ~> pc[k] = "done"

\* Submissions of a key, however they interleave, fail or are cancelled: one execution,
\* each caller answered for its own input but in the case AnswersOwnInput names, and
\* none turned away without a cause (the lock, the fingerprint and the replay of resolve).
SubmissionsAreIdempotent ==
    TypeOK /\ OneExecution /\ AnswersOwnInput /\ ValidSubmissionsAreServed

\* Owners and bindings: a scope reads its own runs only, a run of /resolve keeps its
\* owner, and what is bound has been earned by a run or by a submission under way
\* (reserve and its undo).
OwnershipIsSound == OwnershipIsPartitioned /\ ResolvedRunsStayReachable /\ BindingsAreEarned
=============================================================================

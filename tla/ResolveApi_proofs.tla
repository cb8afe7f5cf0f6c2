-------------------------- MODULE ResolveApi_proofs ---------------------------
(***************************************************************************)
(* Proofs about ResolveApi: in every app, for any number of scopes, ids,   *)
(* inputs and submissions, a key is an idempotency key and an id has one   *)
(* owner.                                                                  *)
(***************************************************************************)
EXTENDS ResolveApi, TLAPS

-----------------------------------------------------------------------------
(* The inductive invariant                                                 *)

\* Types without the lock.
Typed ==
    /\ owners \in [Ids -> Scopes \cup {NoScope}]
    /\ fingerprints \in [Keys -> Inputs \cup {NoInput}]
    /\ stored \in [Ids -> Run \cup {NoRun}]
    /\ pc \in [Calls -> {"idle", "waiting", "running", "debugging", "done"}]
    /\ op \in [Calls -> Submission \cup {NoInput}]
    /\ reserved \in [Calls -> BOOLEAN]
    /\ outcome \in [Calls -> Outcomes]
    /\ answer \in [Calls -> Run \cup {NoRun}]
    /\ queue \in [Keys -> Seq(Calls)]

\* A submission is made once, ends once, and goes the way of its route.
Stages(k) ==
    /\ Made(k) <=> pc[k] # "idle"
    /\ outcome[k] # "none" <=> pc[k] = "done"
    /\ pc[k] \in {"waiting", "running"} => op[k].route = "resolve"
    /\ pc[k] = "debugging" => op[k].route = "debug"

\* The lock of a key: the submissions in its queue are the ones under way with this
\* key, each once, and only the first of them runs.
QueueInv(key) ==
    /\ \A n \in 1 .. Len(queue[key]) :
          /\ pc[queue[key][n]] \in {"waiting", "running"}
          /\ Key(queue[key][n]) = key
          /\ \A m \in 1 .. Len(queue[key]) : queue[key][m] = queue[key][n] => m = n
    /\ \A k \in Calls : pc[k] \in {"waiting", "running"} /\ Key(k) = key =>
          \E n \in 1 .. Len(queue[key]) :
              queue[key][n] = k /\ (pc[k] = "running" => n = 1)

\* A submission that runs: its key is bound to its input and its id is its own, unless
\* /debug/resolve has stored a run meanwhile; if it did not make the reservation, one
\* that was cancelled did, and if it did, no other scope has a binding of the id.
RunningInv(k) ==
    pc[k] = "running" =>
        /\ fingerprints[Key(k)] = op[k].input
        /\ HasContext(k) /\ stored[op[k].id] = NoRun => owners[op[k].id] = op[k].scope
        /\ stored[op[k].id] # NoRun => op[stored[op[k].id].by].route = "debug"
        /\ HasContext(k) /\ stored[op[k].id] = NoRun /\ ~reserved[k] =>
              \E j \in Calls : /\ outcome[j] = "cancelled" /\ op[j].route = "resolve"
                               /\ Key(j) = Key(k)
        /\ HasContext(k) /\ reserved[k] =>
              \A s \in Scopes \ {op[k].scope} : fingerprints[<<s, op[k].id>>] = NoInput

\* A stored run is of the submission that resolved it; one of /resolve keeps its key
\* bound and its owner, one of /debug/resolve leaves bound only what still runs or was
\* cancelled.
StoredInv(i) ==
    stored[i] # NoRun =>
        LET run == stored[i] IN
        /\ outcome[run.by] = "resolved" /\ op[run.by].id = i /\ run = RunOf(run.by)
        /\ op[run.by].route = "resolve" =>
              /\ fingerprints[<<run.scope, i>>] = run.input
              /\ run.scope # PublicScope => owners[i] = run.scope
        /\ op[run.by].route = "debug" =>
              \A s \in Scopes : fingerprints[<<s, i>>] # NoInput =>
                  \E k \in Calls : /\ MayHold(k) /\ Key(k) = <<s, i>>
                                   /\ op[k].input = fingerprints[<<s, i>>]

\* Only callers with a scope become owners.
OwnersInv ==
    \A i \in Ids : owners[i] # NoScope =>
        \E k \in Calls : Made(k) /\ HasContext(k) /\ owners[i] = op[k].scope

\* An id that no scope owns, in an app with scopes, is bound to nothing.
FreeInv(i) ==
    PublicScope \notin Scopes /\ owners[i] = NoScope =>
        \A s \in Scopes : fingerprints[<<s, i>>] = NoInput

\* How submissions end: AnswersOwnInput, and the causes of refusals.
EndInv(k) ==
    /\ outcome[k] \in {"resolved", "replayed"} =>
          /\ stored[op[k].id] # NoRun
          /\ answer[k] = stored[op[k].id] /\ answer[k].scope = op[k].scope
          /\ \/ answer[k].input = op[k].input
             \/ op[answer[k].by].route = "debug" /\ LeftBound(k)
    /\ outcome[k] \in {"unbound", "duplicate"} => ~OnlyResolve
    /\ outcome[k] = "scope_conflict" /\ OnlyResolve =>
          \E j \in Calls : /\ pc[j] \in {"running", "done"}
                           /\ outcome[j] # "scope_conflict"
                           /\ op[j].id = op[k].id /\ op[j].scope # op[k].scope

BaseInv ==
    /\ Typed
    /\ \A k \in Calls : Stages(k)
    /\ \A key \in Keys : QueueInv(key)

DataInv ==
    /\ \A k \in Calls : RunningInv(k)
    /\ \A i \in Ids : StoredInv(i) /\ FreeInv(i)
    /\ OwnersInv
    /\ OneExecution
    /\ OwnershipIsPartitioned
    /\ BindingsAreEarned

ApiInv == BaseInv /\ DataInv /\ \A k \in Calls : EndInv(k)

\* The callers of an app all have a scope or none has, and those of the debug route have.
OneApp ==
    \A k \in Calls : Made(k) =>
        /\ HasContext(k) <=> PublicScope \notin Scopes
        /\ op[k].route = "debug" => HasContext(k)

-----------------------------------------------------------------------------
(* The lock                                                                *)

\* Removing one place from a queue keeps the order of the others.
LEMMA WithoutPlace ==
    ASSUME NEW s \in Seq(Calls), NEW n \in 1 .. Len(s)
    PROVE  /\ Without(s, n) \in Seq(Calls)
           /\ Len(Without(s, n)) = Len(s) - 1
           /\ \A m \in 1 .. Len(s) - 1 :
                 /\ m < n => Without(s, n)[m] = s[m]
                 /\ m >= n => Without(s, n)[m] = s[m + 1]
<1>1. Len(s) \in Nat /\ Len(s) - 1 \in Nat
  OBVIOUS
<1>2. \A m \in 1 .. Len(s) - 1 :
         /\ (IF m < n THEN m ELSE m + 1) \in 1 .. Len(s)
         /\ s[IF m < n THEN m ELSE m + 1] \in Calls
  BY <1>1
<1>3. Without(s, n) \in [1 .. Len(s) - 1 -> Calls]
  BY <1>2 DEF Without
<1>4. Without(s, n) \in Seq(Calls) /\ Len(Without(s, n)) = Len(s) - 1
  BY <1>1, <1>3
<1>5. QED
  BY <1>1, <1>4 DEF Without

\* Every submission but the one that moves stays as it is.
Others(k) ==
    \A j \in Calls \ {k} :
        /\ pc'[j] = pc[j] /\ op'[j] = op[j] /\ reserved'[j] = reserved[j]
        /\ outcome'[j] = outcome[j] /\ answer'[j] = answer[j]

\* A submission made with /resolve has a key.
LEMMA KeyOf ==
    ASSUME Typed, NEW k \in Calls, Made(k)
    PROVE  /\ op[k] \in Submission /\ Key(k) \in Keys
           /\ op[k].scope \in Scopes /\ op[k].id \in Ids /\ op[k].input \in Inputs
           /\ op[k].route \in Routes
           /\ Key(k) = <<op[k].scope, op[k].id>>
<1>1. op[k] \in Submission
  BY DEF Typed, Made
<1>2. QED
  BY <1>1 DEF Submission, Keys, Key

\* Submissions are to one app.
LEMMA AllInOneApp == Typed => OneApp
<1>1. SUFFICES ASSUME Typed, NEW k \in Calls, Made(k)
               PROVE  /\ HasContext(k) <=> PublicScope \notin Scopes
                      /\ op[k].route = "debug" => HasContext(k)
  BY DEF OneApp
<1>2. op[k].scope \in Scopes /\ op[k].route \in Routes
  BY <1>1, KeyOf
<1>3. QED
  BY <1>2, AppAssumption DEF HasContext

\* The queue of a key that the submission that moves has nothing to do with.
LEMMA OtherQueue ==
    ASSUME Typed, NEW k \in Calls, Others(k), NEW key \in Keys, QueueInv(key),
           queue'[key] = queue[key],
           ~(pc[k] \in {"waiting", "running"} /\ Key(k) = key),
           ~(pc'[k] \in {"waiting", "running"} /\ <<op'[k].scope, op'[k].id>> = key)
    PROVE  QueueInv(key)'
<1>1. queue[key] \in Seq(Calls)
  BY DEF Typed
<1>2. ASSUME NEW n \in 1 .. Len(queue[key])
      PROVE  /\ queue[key][n] \in Calls /\ queue[key][n] # k
             /\ pc'[queue[key][n]] = pc[queue[key][n]]
             /\ op'[queue[key][n]] = op[queue[key][n]]
  <2>1. /\ queue[key][n] \in Calls /\ pc[queue[key][n]] \in {"waiting", "running"}
        /\ Key(queue[key][n]) = key
    BY <1>1 DEF QueueInv
  <2>2. QED
    BY <2>1 DEF Others
<1>3. \A n \in 1 .. Len(queue'[key]) :
         /\ pc'[queue'[key][n]] \in {"waiting", "running"}
         /\ <<op'[queue'[key][n]].scope, op'[queue'[key][n]].id>> = key
         /\ \A m \in 1 .. Len(queue'[key]) : queue'[key][m] = queue'[key][n] => m = n
  BY <1>1, <1>2 DEF QueueInv, Key
<1>4. \A j \in Calls :
         pc'[j] \in {"waiting", "running"} /\ <<op'[j].scope, op'[j].id>> = key =>
             \E n \in 1 .. Len(queue'[key]) :
                 queue'[key][n] = j /\ (pc'[j] = "running" => n = 1)
  BY DEF QueueInv, Key, Others
<1>5. QED
  BY <1>3, <1>4 DEF QueueInv, Key

\* The queues after a submission has left the lock.
LEMMA LeaveKeepsQueue ==
    ASSUME Typed, \A key \in Keys : QueueInv(key), NEW k \in Calls, Made(k),
           pc[k] \in {"waiting", "running"}, pc'[k] = "done", op'[k] = op[k],
           Others(k), Leave(k), NEW mine, mine = Key(k)
    PROVE  queue' \in [Keys -> Seq(Calls)] /\ \A key \in Keys : QueueInv(key)'
<1>1. /\ mine \in Keys /\ queue[mine] \in Seq(Calls)
      /\ DOMAIN queue[mine] = 1 .. Len(queue[mine])
  BY KeyOf DEF Typed
<1>2. PICK n \in 1 .. Len(queue[mine]) :
         queue[mine][n] = k /\ queue' = [queue EXCEPT ![mine] = Without(queue[mine], n)]
  <2>1. \E n \in DOMAIN queue[mine] :
           queue[mine][n] = k /\ queue' = [queue EXCEPT ![mine] = Without(@, n)]
    BY DEF Leave
  <2>2. QED
    BY <1>1, <2>1
<1>3. /\ Without(queue[mine], n) \in Seq(Calls)
      /\ Len(queue[mine]) \in Nat /\ n \in Nat
      /\ Len(Without(queue[mine], n)) = Len(queue[mine]) - 1
      /\ \A m \in 1 .. Len(queue[mine]) - 1 :
            /\ m < n => Without(queue[mine], n)[m] = queue[mine][m]
            /\ m >= n => Without(queue[mine], n)[m] = queue[mine][m + 1]
  <2>1. Len(queue[mine]) \in Nat /\ n \in Nat
    BY <1>1
  <2>2. QED
    BY <1>1, <2>1, WithoutPlace, Zenon
<1>4. queue' \in [Keys -> Seq(Calls)]
  BY <1>2, <1>3 DEF Typed
<1>5. \A j \in Calls : op'[j] = op[j]
  BY DEF Others
<1>6. ASSUME NEW key \in Keys, key # mine
      PROVE  QueueInv(key)'
  <2>1. queue'[key] = queue[key] /\ <<op'[k].scope, op'[k].id>> = mine
    BY <1>1, <1>2, <1>5, <1>6 DEF Typed, Key
  <2>2. QED
    BY <1>6, <2>1, OtherQueue
<1>7. QueueInv(mine)'
  <2> DEFINE q == queue[mine]
             t == Without(q, n)
  <2>1. q \in Seq(Calls) /\ queue'[mine] = t /\ QueueInv(mine)
    BY <1>1, <1>2 DEF Typed
  <2> HIDE DEF t
  <2>2. ASSUME NEW m \in 1 .. Len(t)
        PROVE  \E o \in 1 .. Len(q) : /\ o # n /\ t[m] = q[o]
                                      /\ o = IF m < n THEN m ELSE m + 1
    BY <1>3, <2>2 DEF t
  <2>3. \A o \in 1 .. Len(q) :
           /\ q[o] \in Calls /\ pc[q[o]] \in {"waiting", "running"} /\ Key(q[o]) = mine
           /\ \A l \in 1 .. Len(q) : q[l] = q[o] => l = o
    BY <2>1 DEF QueueInv
  <2>4. \A o \in 1 .. Len(q) : o # n => q[o] # k /\ pc'[q[o]] = pc[q[o]]
    BY <1>2, <2>3 DEF Others
  <2>5. \A m \in 1 .. Len(t) :
           /\ pc'[t[m]] \in {"waiting", "running"}
           /\ <<op'[t[m]].scope, op'[t[m]].id>> = mine
           /\ \A l \in 1 .. Len(t) : t[l] = t[m] => l = m
    <3>1. SUFFICES ASSUME NEW m \in 1 .. Len(t)
                   PROVE  /\ pc'[t[m]] \in {"waiting", "running"}
                          /\ <<op'[t[m]].scope, op'[t[m]].id>> = mine
                          /\ \A l \in 1 .. Len(t) : t[l] = t[m] => l = m
      OBVIOUS
    <3>2. PICK o \in 1 .. Len(q) : o # n /\ t[m] = q[o] /\ o = IF m < n THEN m ELSE m + 1
      BY <2>2
    <3>3. ASSUME NEW l \in 1 .. Len(t), t[l] = t[m] PROVE l = m
      <4>1. PICK p \in 1 .. Len(q) : p # n /\ t[l] = q[p] /\ p = IF l < n THEN l ELSE l + 1
        BY <2>2
      <4>2. p = o
        BY <2>3, <3>2, <3>3, <4>1
      <4>3. QED
        BY <1>3, <3>2, <4>1, <4>2
    <3>4. /\ pc'[q[o]] \in {"waiting", "running"}
          /\ <<op'[q[o]].scope, op'[q[o]].id>> = mine
      <4>1. /\ q[o] \in Calls /\ pc[q[o]] \in {"waiting", "running"} /\ Key(q[o]) = mine
            /\ pc'[q[o]] = pc[q[o]]
        BY <2>3, <2>4, <3>2
      <4>2. QED
        BY <1>5, <4>1 DEF Key
    <3>5. QED
      BY <3>2, <3>3, <3>4
  <2>6. ASSUME NEW j \in Calls, pc'[j] \in {"waiting", "running"},
               <<op'[j].scope, op'[j].id>> = mine
        PROVE  \E m \in 1 .. Len(t) : t[m] = j /\ (pc'[j] = "running" => m = 1)
    <3>1. j # k /\ pc'[j] = pc[j] /\ Key(j) = mine
      BY <1>5, <2>6 DEF Others, Key
    <3>2. PICK o \in 1 .. Len(q) : q[o] = j /\ (pc[j] = "running" => o = 1)
      BY <2>1, <2>6, <3>1 DEF QueueInv
    <3>3. o # n /\ o \in Nat
      BY <1>2, <3>1, <3>2
    <3>4. CASE o < n
      <4>1. o \in 1 .. Len(t) /\ t[o] = q[o]
        BY <1>3, <3>2, <3>3, <3>4 DEF t
      <4>2. QED
        BY <3>1, <3>2, <4>1
    <3>5. CASE o > n
      <4>1. o - 1 \in 1 .. Len(t) /\ t[o - 1] = q[o] /\ o # 1
        BY <1>3, <3>2, <3>3, <3>5 DEF t
      <4>2. QED
        BY <3>1, <3>2, <4>1
    <3>6. QED
      BY <1>3, <3>3, <3>4, <3>5
  <2>7. QED
    BY <2>1, <2>5, <2>6 DEF QueueInv, Key
<1>8. QED
  <2>1. ASSUME NEW key \in Keys PROVE QueueInv(key)'
    <3>1. CASE key = mine
      BY <1>7, <3>1
    <3>2. QED
      BY <1>6, <3>1
  <2>2. QED
    BY <1>4, <2>1

\* Queues that no submission enters or leaves.
LEMMA SameQueue ==
    ASSUME Typed, \A key \in Keys : QueueInv(key), NEW k \in Calls, Others(k),
           queue' = queue, pc[k] \notin {"waiting", "running"},
           pc'[k] \notin {"waiting", "running"}
    PROVE  \A key \in Keys : QueueInv(key)'
  BY OtherQueue

\* Appending to a queue keeps its places.
LEMMA AppendPlace ==
    ASSUME NEW s \in Seq(Calls), NEW k \in Calls
    PROVE  /\ Len(Append(s, k)) = Len(s) + 1
           /\ Append(s, k)[Len(s) + 1] = k
           /\ \A n \in 1 .. Len(s) : Append(s, k)[n] = s[n]
  OBVIOUS

\* A submission that starts to wait is the last of its queue.
LEMMA SubmitKeepsQueue ==
    ASSUME Typed, \A key \in Keys : QueueInv(key), NEW k \in Calls, Others(k),
           pc[k] = "idle", pc'[k] = "waiting", NEW o \in Submission, op'[k] = o,
           queue' = [queue EXCEPT ![<<o.scope, o.id>>] = Append(@, k)]
    PROVE  queue' \in [Keys -> Seq(Calls)] /\ \A key \in Keys : QueueInv(key)'
<1>1. <<o.scope, o.id>> \in Keys
  BY DEF Submission, Keys
<1>2. queue' \in [Keys -> Seq(Calls)]
  BY <1>1 DEF Typed
<1>3. ASSUME NEW key \in Keys PROVE QueueInv(key)'
  <2>1. queue[key] \in Seq(Calls) /\ QueueInv(key) /\ Len(queue[key]) \in Nat
    BY DEF Typed
  <2>2. ASSUME NEW n \in 1 .. Len(queue[key])
        PROVE  /\ queue[key][n] \in Calls /\ queue[key][n] # k
               /\ pc'[queue[key][n]] = pc[queue[key][n]]
               /\ op'[queue[key][n]] = op[queue[key][n]]
    <3>1. queue[key][n] \in Calls /\ pc[queue[key][n]] \in {"waiting", "running"}
      BY <2>1 DEF QueueInv
    <3>2. QED
      BY <3>1 DEF Others
  <2>3. CASE key # <<o.scope, o.id>>
    <3>1. queue'[key] = queue[key]
      BY <1>1, <2>3 DEF Typed
    <3>2. QED
      BY <2>1, <2>3, <3>1, OtherQueue
  <2>4. CASE key = <<o.scope, o.id>>
    <3>1. queue'[key] = Append(queue[key], k)
      BY <1>1, <2>4 DEF Typed
    <3>2. /\ Len(queue'[key]) = Len(queue[key]) + 1
          /\ queue'[key][Len(queue[key]) + 1] = k
          /\ \A n \in 1 .. Len(queue[key]) : queue'[key][n] = queue[key][n]
      <4>1. /\ Len(Append(queue[key], k)) = Len(queue[key]) + 1
            /\ Append(queue[key], k)[Len(queue[key]) + 1] = k
            /\ \A n \in 1 .. Len(queue[key]) : Append(queue[key], k)[n] = queue[key][n]
        BY <2>1, AppendPlace, Zenon
      <4>2. QED
        BY <3>1, <4>1, Zenon
    <3>3. \A n \in 1 .. Len(queue'[key]) :
             n \in 1 .. Len(queue[key]) \/ n = Len(queue[key]) + 1
      BY <2>1, <3>2
    <3>4. \A n \in 1 .. Len(queue'[key]) :
             /\ pc'[queue'[key][n]] \in {"waiting", "running"}
             /\ <<op'[queue'[key][n]].scope, op'[queue'[key][n]].id>> = key
             /\ \A m \in 1 .. Len(queue'[key]) : queue'[key][m] = queue'[key][n] => m = n
      <4>1. \A n \in 1 .. Len(queue[key]) :
               /\ pc[queue[key][n]] \in {"waiting", "running"}
               /\ <<op[queue[key][n]].scope, op[queue[key][n]].id>> = key
               /\ \A m \in 1 .. Len(queue[key]) : queue[key][m] = queue[key][n] => m = n
        BY <2>1 DEF QueueInv, Key
      <4>2. ASSUME NEW n \in 1 .. Len(queue'[key])
            PROVE  /\ pc'[queue'[key][n]] \in {"waiting", "running"}
                   /\ <<op'[queue'[key][n]].scope, op'[queue'[key][n]].id>> = key
        <5>1. CASE n \in 1 .. Len(queue[key])
          <6>1. queue'[key][n] = queue[key][n]
            BY <3>2, <5>1
          <6>2. QED
            BY <2>2, <4>1, <5>1, <6>1
        <5>2. CASE n = Len(queue[key]) + 1
          BY <2>4, <3>2, <5>2
        <5>3. QED
          BY <3>3, <4>2, <5>1, <5>2
      <4>3. ASSUME NEW n \in 1 .. Len(queue'[key]), NEW m \in 1 .. Len(queue'[key]),
                   queue'[key][m] = queue'[key][n]
            PROVE  m = n
        <5>1. \A l \in 1 .. Len(queue[key]) : queue'[key][l] = queue[key][l] /\ queue[key][l] # k
          BY <2>2, <3>2
        <5>2. CASE n = Len(queue[key]) + 1 \/ m = Len(queue[key]) + 1
          BY <3>2, <3>3, <4>3, <5>1, <5>2
        <5>3. CASE n \in 1 .. Len(queue[key]) /\ m \in 1 .. Len(queue[key])
          BY <4>1, <4>3, <5>1, <5>3
        <5>4. QED
          BY <3>3, <5>2, <5>3
      <4>4. QED
        BY <4>2, <4>3
    <3>5. ASSUME NEW j \in Calls, pc'[j] \in {"waiting", "running"},
                 <<op'[j].scope, op'[j].id>> = key
          PROVE  \E n \in 1 .. Len(queue'[key]) :
                    queue'[key][n] = j /\ (pc'[j] = "running" => n = 1)
      <4>1. CASE j = k
        <5>1. Len(queue[key]) + 1 \in 1 .. Len(queue'[key])
          BY <2>1, <3>2
        <5>2. QED
          BY <3>2, <4>1, <5>1
      <4>2. CASE j # k
        <5>1. PICK n \in 1 .. Len(queue[key]) :
                 queue[key][n] = j /\ (pc[j] = "running" => n = 1)
          BY <2>1, <3>5, <4>2 DEF QueueInv, Key, Others
        <5>2. n \in 1 .. Len(queue'[key]) /\ pc'[j] = pc[j]
          BY <2>1, <3>2, <4>2 DEF Others
        <5>3. QED
          BY <3>2, <5>1, <5>2
      <4>3. QED
        BY <4>1, <4>2
    <3>6. QED
      BY <3>4, <3>5 DEF QueueInv, Key
  <2>5. QED
    BY <2>3, <2>4
<1>4. QED
  BY <1>2, <1>3

\* A waiting submission that holds the lock of its key is first in its queue, and
\* nobody runs with the key.
LEMMA HolderIsAlone ==
    ASSUME Typed, \A key \in Keys : QueueInv(key), NEW k \in Calls, Made(k),
           pc[k] = "waiting", HoldsLock(k)
    PROVE  /\ Len(queue[Key(k)]) >= 1 /\ queue[Key(k)][1] = k
           /\ \A j \in Calls : pc[j] = "running" => Key(j) # Key(k)
<1>1. Key(k) \in Keys /\ queue[Key(k)] \in Seq(Calls) /\ QueueInv(Key(k))
  BY KeyOf DEF Typed
<1>2. \E n \in 1 .. Len(queue[Key(k)]) : queue[Key(k)][n] = k
  BY <1>1 DEF QueueInv
<1>3. Len(queue[Key(k)]) >= 1 /\ queue[Key(k)][1] = k
  BY <1>1, <1>2 DEF HoldsLock
<1>4. ASSUME NEW j \in Calls, pc[j] = "running", Key(j) = Key(k) PROVE FALSE
  <2>1. queue[Key(k)][1] = j
    BY <1>1, <1>4 DEF QueueInv
  <2>2. QED
    BY <1>3, <1>4, <2>1
<1>5. QED
  BY <1>3, <1>4

\* The holder of the lock starts to run.
LEMMA RunKeepsQueue ==
    ASSUME Typed, \A key \in Keys : QueueInv(key), NEW k \in Calls, Made(k), Others(k),
           pc[k] = "waiting", HoldsLock(k), pc'[k] = "running", op'[k] = op[k],
           queue' = queue
    PROVE  \A key \in Keys : QueueInv(key)'
<1>1. SUFFICES ASSUME NEW key \in Keys PROVE QueueInv(key)'
  OBVIOUS
<1>2. queue[key] \in Seq(Calls) /\ QueueInv(key)
  BY DEF Typed
<1>3. \A n \in 1 .. Len(queue[key]) : queue[key][n] \in Calls
  BY <1>2
<1>4. \A j \in Calls : op'[j] = op[j] /\ (j # k => pc'[j] = pc[j])
  BY DEF Others
<1>5. \A n \in 1 .. Len(queue'[key]) :
         /\ pc'[queue'[key][n]] \in {"waiting", "running"}
         /\ <<op'[queue'[key][n]].scope, op'[queue'[key][n]].id>> = key
         /\ \A m \in 1 .. Len(queue'[key]) : queue'[key][m] = queue'[key][n] => m = n
  BY <1>2, <1>3, <1>4 DEF QueueInv, Key
<1>6. ASSUME NEW j \in Calls, pc'[j] \in {"waiting", "running"},
             <<op'[j].scope, op'[j].id>> = key
      PROVE  \E n \in 1 .. Len(queue'[key]) :
                queue'[key][n] = j /\ (pc'[j] = "running" => n = 1)
  <2>1. CASE j = k
    <3>1. key = Key(k) /\ Len(queue[key]) >= 1 /\ queue[key][1] = k
      BY <1>4, <1>6, <2>1, HolderIsAlone DEF Key
    <3>2. 1 \in 1 .. Len(queue[key])
      BY <1>2, <3>1
    <3>3. QED
      BY <2>1, <3>1, <3>2
  <2>2. CASE j # k
    BY <1>2, <1>4, <1>6, <2>2 DEF QueueInv, Key
  <2>3. QED
    BY <2>1, <2>2
<1>7. QED
  BY <1>5, <1>6 DEF QueueInv, Key

-----------------------------------------------------------------------------
(* Types, stages and locks                                                 *)

\* A submission at its lock ends.
LEMMA EndAtLock ==
    ASSUME BaseInv, NEW k \in Calls, pc[k] \in {"waiting", "running"},
           NEW how \in Outcomes \ {"none"}, NEW run \in Run \cup {NoRun},
           End(k, how, run), Leave(k),
           owners' \in [Ids -> Scopes \cup {NoScope}],
           fingerprints' \in [Keys -> Inputs \cup {NoInput}],
           stored' \in [Ids -> Run \cup {NoRun}],
           \/ reserved' = reserved
           \/ \E b \in BOOLEAN : reserved' = [reserved EXCEPT ![k] = b]
    PROVE  /\ BaseInv' /\ Others(k) /\ op'[k] = op[k] /\ Made(k)
           /\ pc'[k] = "done" /\ outcome'[k] = how /\ answer'[k] = run
<1>1. Typed /\ Made(k) /\ op[k].route = "resolve"
  BY DEF BaseInv, Stages
<1>2. /\ pc' \in [Calls -> {"idle", "waiting", "running", "debugging", "done"}]
      /\ outcome' \in [Calls -> Outcomes]
      /\ answer' \in [Calls -> Run \cup {NoRun}]
      /\ op' = op
      /\ pc'[k] = "done" /\ outcome'[k] = how /\ answer'[k] = run
  BY <1>1 DEF Typed, End
<1>3. reserved' \in [Calls -> BOOLEAN] /\ \A j \in Calls \ {k} : reserved'[j] = reserved[j]
  BY <1>1 DEF Typed
<1>4. Others(k)
  BY <1>1, <1>2, <1>3 DEF Typed, End, Others
<1>5. queue' \in [Keys -> Seq(Calls)] /\ \A key \in Keys : QueueInv(key)'
  BY <1>1, <1>2, <1>4, LeaveKeepsQueue DEF BaseInv
<1>6. Typed'
  BY <1>1, <1>2, <1>3, <1>5 DEF Typed
<1>7. ASSUME NEW j \in Calls PROVE Stages(j)'
  <2>1. Stages(j)
    BY DEF BaseInv
  <2>2. CASE j = k
    BY <1>1, <1>2, <2>2 DEF Stages, Made
  <2>3. CASE j # k
    BY <1>4, <2>1, <2>3 DEF Others, Stages, Made
  <2>4. QED
    BY <2>2, <2>3
<1>8. QED
  BY <1>1, <1>2, <1>4, <1>5, <1>6, <1>7 DEF BaseInv

\* A submission of /debug/resolve ends.
LEMMA EndOfDebug ==
    ASSUME BaseInv, NEW k \in Calls, pc[k] = "debugging",
           NEW how \in Outcomes \ {"none"}, NEW run \in Run \cup {NoRun},
           End(k, how, run), queue' = queue,
           owners' \in [Ids -> Scopes \cup {NoScope}],
           fingerprints' \in [Keys -> Inputs \cup {NoInput}],
           stored' \in [Ids -> Run \cup {NoRun}],
           reserved' = reserved
    PROVE  /\ BaseInv' /\ Others(k) /\ op'[k] = op[k] /\ Made(k)
           /\ pc'[k] = "done" /\ outcome'[k] = how /\ answer'[k] = run
<1>1. Typed /\ Made(k) /\ op[k].route = "debug"
  BY DEF BaseInv, Stages
<1>2. /\ pc' \in [Calls -> {"idle", "waiting", "running", "debugging", "done"}]
      /\ outcome' \in [Calls -> Outcomes]
      /\ answer' \in [Calls -> Run \cup {NoRun}]
      /\ op' = op
      /\ pc'[k] = "done" /\ outcome'[k] = how /\ answer'[k] = run
  BY <1>1 DEF Typed, End
<1>3. Others(k)
  BY <1>1, <1>2 DEF Typed, End, Others
<1>4. \A key \in Keys : QueueInv(key)'
  BY <1>1, <1>2, <1>3, SameQueue DEF BaseInv
<1>5. Typed'
  BY <1>1, <1>2 DEF Typed
<1>6. ASSUME NEW j \in Calls PROVE Stages(j)'
  <2>1. Stages(j)
    BY DEF BaseInv
  <2>2. CASE j = k
    BY <1>1, <1>2, <2>2 DEF Stages, Made
  <2>3. CASE j # k
    BY <1>3, <2>1, <2>3 DEF Others, Stages, Made
  <2>4. QED
    BY <2>2, <2>3
<1>7. QED
  BY <1>1, <1>2, <1>3, <1>4, <1>5, <1>6 DEF BaseInv

\* A submission waits, and changes no other call.
LEMMA BaseOfSubmit ==
    ASSUME BaseInv, NEW k \in Calls, NEW o \in Submission, Submit(k, o)
    PROVE  BaseInv' /\ Others(k) /\ op'[k] = o /\ pc'[k] = "waiting" /\ outcome' = outcome
<1>1. Typed
  BY DEF BaseInv
<1>2. /\ pc' \in [Calls -> {"idle", "waiting", "running", "debugging", "done"}]
      /\ op' \in [Calls -> Submission \cup {NoInput}]
      /\ pc'[k] = "waiting" /\ op'[k] = o /\ o.route = "resolve"
      /\ pc[k] = "idle" /\ outcome' = outcome
  BY <1>1 DEF Typed, Submit
<1>3. Others(k)
  BY <1>1 DEF Typed, Submit, Others
<1>4. queue' \in [Keys -> Seq(Calls)] /\ \A key \in Keys : QueueInv(key)'
  BY <1>1, <1>2, <1>3, SubmitKeepsQueue DEF BaseInv, Submit
<1>5. Typed'
  BY <1>1, <1>2, <1>4 DEF Typed, Submit
<1>6. ASSUME NEW j \in Calls PROVE Stages(j)'
  <2>1. Stages(j)
    BY DEF BaseInv
  <2>2. CASE j = k
    BY <1>2, <2>1, <2>2, NoValueAssumption DEF Stages, Made
  <2>3. CASE j # k
    BY <1>3, <2>1, <2>3 DEF Others, Stages, Made
  <2>4. QED
    BY <2>2, <2>3
<1>7. QED
  BY <1>2, <1>3, <1>4, <1>5, <1>6 DEF BaseInv

\* So it is with one to the debug route.
LEMMA BaseOfSubmitDebug ==
    ASSUME BaseInv, NEW k \in Calls, NEW o \in Submission, SubmitDebug(k, o)
    PROVE  /\ BaseInv' /\ Others(k) /\ op'[k] = o /\ pc'[k] \in {"debugging", "done"}
           /\ outcome'[k] \in {"none", "duplicate"}
<1>1. Typed /\ Stages(k)
  BY DEF BaseInv
<1>2. /\ pc' \in [Calls -> {"idle", "waiting", "running", "debugging", "done"}]
      /\ outcome' \in [Calls -> Outcomes]
      /\ op' \in [Calls -> Submission \cup {NoInput}]
      /\ op'[k] = o /\ o.route = "debug" /\ pc[k] = "idle"
      /\ queue' = queue /\ owners' = owners /\ fingerprints' = fingerprints
      /\ stored' = stored /\ reserved' = reserved /\ answer' = answer
  BY <1>1 DEF Typed, SubmitDebug, Outcomes, apiVars
<1>3. Others(k)
  BY <1>1 DEF Typed, SubmitDebug, Others
<1>4. \/ pc'[k] = "debugging" /\ outcome'[k] = "none"
      \/ pc'[k] = "done" /\ outcome'[k] = "duplicate"
  BY <1>1 DEF Typed, SubmitDebug, Stages
<1>5. \A key \in Keys : QueueInv(key)'
  BY <1>1, <1>2, <1>3, <1>4, SameQueue DEF BaseInv
<1>6. Typed'
  BY <1>1, <1>2 DEF Typed
<1>7. ASSUME NEW j \in Calls PROVE Stages(j)'
  <2>1. Stages(j)
    BY DEF BaseInv
  <2>2. CASE j = k
    BY <1>2, <1>4, <2>1, <2>2, NoValueAssumption DEF Stages, Made
  <2>3. CASE j # k
    BY <1>3, <2>1, <2>3 DEF Others, Stages, Made
  <2>4. QED
    BY <2>2, <2>3
<1>8. QED
  BY <1>2, <1>3, <1>4, <1>5, <1>6, <1>7 DEF BaseInv

\* A reservation starts its call.
LEMMA BaseOfStart ==
    ASSUME BaseInv, NEW k \in Calls, pc[k] = "waiting", HoldsLock(k), Reserve(k),
           fingerprints' = [fingerprints EXCEPT ![Key(k)] = op[k].input],
           pc' = [pc EXCEPT ![k] = "running"],
           UNCHANGED <<op, outcome, answer, queue, stored>>
    PROVE  BaseInv' /\ Others(k) /\ Made(k) /\ pc'[k] = "running"
<1>1. Typed /\ Made(k) /\ Stages(k)
  BY DEF BaseInv, Stages
<1>2. /\ op[k] \in Submission /\ Key(k) \in Keys /\ op[k].scope \in Scopes
      /\ op[k].id \in Ids /\ op[k].input \in Inputs
  BY <1>1, KeyOf
<1>3. /\ owners' \in [Ids -> Scopes \cup {NoScope}]
      /\ reserved' \in [Calls -> BOOLEAN]
  BY <1>1, <1>2 DEF Typed, Reserve, ReservesNew, HasContext
<1>4. Typed' /\ pc'[k] = "running"
  BY <1>1, <1>2, <1>3 DEF Typed
<1>5. Others(k)
  BY <1>1 DEF Typed, Reserve, Others
<1>6. \A key \in Keys : QueueInv(key)'
  BY <1>1, <1>4, <1>5, RunKeepsQueue DEF BaseInv
<1>7. ASSUME NEW j \in Calls PROVE Stages(j)'
  <2>1. Stages(j)
    BY DEF BaseInv
  <2>2. CASE j = k
    BY <1>1, <1>4, <2>2 DEF Stages, Made
  <2>3. CASE j # k
    BY <1>5, <2>1, <2>3 DEF Others, Stages, Made
  <2>4. QED
    BY <2>2, <2>3
<1>8. QED
  BY <1>1, <1>4, <1>5, <1>6, <1>7 DEF BaseInv

-----------------------------------------------------------------------------
(* Owners, bindings and stored runs                                        *)

\* The submission that a stored run comes from.
LEMMA StoredBy ==
    ASSUME BaseInv, NEW i \in Ids, StoredInv(i), stored[i] # NoRun
    PROVE  /\ stored[i].by \in Calls /\ Made(stored[i].by)
           /\ outcome[stored[i].by] = "resolved" /\ pc[stored[i].by] = "done"
           /\ op[stored[i].by].id = i
           /\ stored[i].scope = op[stored[i].by].scope /\ stored[i].scope \in Scopes
           /\ stored[i].input \in Inputs
           /\ op[stored[i].by].route \in {"resolve", "debug"}
<1>1. stored[i] \in Run
  BY DEF BaseInv, Typed
<1>2. stored[i].by \in Calls /\ stored[i].scope \in Scopes /\ stored[i].input \in Inputs
  BY <1>1 DEF Run
<1>3. /\ outcome[stored[i].by] = "resolved" /\ op[stored[i].by].id = i
      /\ stored[i] = RunOf(stored[i].by)
  BY DEF StoredInv
<1>4. stored[i].scope = op[stored[i].by].scope
  BY <1>3 DEF RunOf
<1>5. Made(stored[i].by) /\ pc[stored[i].by] = "done"
  BY <1>2, <1>3 DEF BaseInv, Stages
<1>6. op[stored[i].by].route \in Routes
  BY <1>2, <1>5, KeyOf DEF BaseInv
<1>7. QED
  BY <1>2, <1>3, <1>4, <1>5, <1>6, RoutesAssumption

\* A submission that has not run touches neither owner, binding nor run.
Quiet(k) ==
    /\ owners' = owners /\ fingerprints' = fingerprints /\ stored' = stored
    /\ pc[k] # "running" /\ pc'[k] # "running" /\ outcome[k] = "none"
    /\ Others(k) /\ (Made(k) => op'[k] = op[k])

\* A step that stores, binds and answers nothing keeps the data.
LEMMA QuietKeepsData ==
    ASSUME BaseInv, DataInv, BaseInv', NEW k \in Calls, Quiet(k)
    PROVE  DataInv'
<1> USE DEF Quiet
<1>1. \A j \in Calls : (j # k \/ Made(j)) => op'[j] = op[j]
  BY DEF Others
<1>2. \A i \in Ids : stored[i] # NoRun =>
         /\ stored[i].by \in Calls /\ stored[i].by # k
         /\ outcome[stored[i].by] = "resolved" /\ op[stored[i].by].id = i
         /\ op'[stored[i].by] = op[stored[i].by]
         /\ outcome'[stored[i].by] = outcome[stored[i].by]
  <2>1. ASSUME NEW i \in Ids, stored[i] # NoRun
        PROVE  /\ stored[i].by \in Calls /\ stored[i].by # k
               /\ outcome[stored[i].by] = "resolved" /\ op[stored[i].by].id = i
    BY <2>1, StoredBy DEF DataInv
  <2>2. QED
    BY <2>1 DEF Others
<1>3. \A j \in Calls : pc'[j] = "running" =>
         /\ j # k /\ pc[j] = "running" /\ op'[j] = op[j] /\ reserved'[j] = reserved[j]
         /\ op[j].id \in Ids
  <2>1. \A j \in Calls : pc'[j] = "running" =>
           /\ j # k /\ pc[j] = "running" /\ op'[j] = op[j] /\ reserved'[j] = reserved[j]
    BY DEF Others
  <2>2. \A j \in Calls : pc[j] = "running" => Made(j)
    BY DEF BaseInv, Stages
  <2>3. QED
    BY <2>1, <2>2, KeyOf DEF BaseInv
<1>4. \A j \in Calls : MayHold(j) => pc'[j] = pc[j] /\ outcome'[j] = outcome[j] /\ op'[j] = op[j]
  BY DEF Others, MayHold
<1>5. ASSUME NEW j \in Calls PROVE RunningInv(j)'
  <2>1. RunningInv(j)
    BY DEF DataInv
  <2>2. QED
    BY <1>2, <1>3, <1>4, <2>1 DEF RunningInv, Key, HasContext, MayHold
<1>6. ASSUME NEW i \in Ids PROVE StoredInv(i)'
  <2>1. StoredInv(i)
    BY DEF DataInv
  <2>2. QED
    BY <1>2, <1>4, <2>1 DEF StoredInv, RunOf, Key, MayHold
<1>7. OwnersInv'
  BY <1>1 DEF DataInv, OwnersInv, Made, HasContext
<1>8. OneExecution'
  BY <1>3 DEF DataInv, OneExecution, HasContext
<1>9. OwnershipIsPartitioned'
  BY DEF DataInv, OwnershipIsPartitioned, Readable
<1>10. BindingsAreEarned'
  BY <1>4 DEF DataInv, BindingsAreEarned, MayHold, Key
<1>11. \A i \in Ids : FreeInv(i)'
  BY DEF DataInv, FreeInv
<1>12. QED
  BY <1>5, <1>6, <1>7, <1>8, <1>9, <1>10, <1>11 DEF DataInv

\* Two submissions that run have different ids, as all callers have a scope or none has.
LEMMA RunnersDiffer ==
    ASSUME BaseInv, DataInv, OneApp, NEW j \in Calls, NEW k \in Calls, j # k,
           pc[j] = "running", pc[k] = "running"
    PROVE  op[j].id # op[k].id
<1>1. Made(j) /\ Made(k)
  BY DEF BaseInv, Stages
<1>2. HasContext(j) <=> HasContext(k)
  BY <1>1 DEF OneApp
<1>3. HasContext(j) \/ op[j].scope = op[k].scope
  BY <1>2 DEF HasContext
<1>4. QED
  BY <1>3 DEF DataInv, OneExecution

\* A submission is cancelled while it runs: it keeps its key and its id.
LEMMA CancelKeepsData ==
    ASSUME BaseInv, DataInv, BaseInv', NEW k \in Calls, Others(k),
           owners' = owners, fingerprints' = fingerprints, stored' = stored,
           pc[k] = "running", pc'[k] = "done", outcome'[k] = "cancelled", op'[k] = op[k],
           Made(k)
    PROVE  DataInv'
<1>1. \A j \in Calls : op'[j] = op[j]
  BY DEF Others
<1>2. op[k].route = "resolve"
  BY DEF BaseInv, Stages
<1>3. \A i \in Ids : stored[i] # NoRun =>
         /\ stored[i].by \in Calls /\ stored[i].by # k
         /\ outcome'[stored[i].by] = outcome[stored[i].by]
  <2>1. ASSUME NEW i \in Ids, stored[i] # NoRun
        PROVE  stored[i].by \in Calls /\ pc[stored[i].by] = "done"
    BY <2>1, StoredBy DEF DataInv
  <2>2. QED
    BY <2>1 DEF Others
<1>4. \A j \in Calls : pc'[j] = "running" =>
         pc[j] = "running" /\ reserved'[j] = reserved[j] /\ op[j].id \in Ids
  <2>1. \A j \in Calls : pc'[j] = "running" => pc[j] = "running" /\ reserved'[j] = reserved[j]
    BY DEF Others
  <2>2. \A j \in Calls : pc[j] = "running" => Made(j)
    BY DEF BaseInv, Stages
  <2>3. QED
    BY <2>1, <2>2, KeyOf DEF BaseInv
<1>5. \A j \in Calls : /\ outcome[j] = "cancelled" => outcome'[j] = "cancelled"
                       /\ MayHold(j) => MayHold(j)'
  BY <1>1 DEF Others, MayHold
<1>6. ASSUME NEW j \in Calls PROVE RunningInv(j)'
  <2>1. RunningInv(j)
    BY DEF DataInv
  <2>2. QED
    BY <1>1, <1>3, <1>4, <1>5, <2>1 DEF RunningInv, Key, HasContext
<1>7. ASSUME NEW i \in Ids PROVE StoredInv(i)'
  <2>1. StoredInv(i)
    BY DEF DataInv
  <2>2. QED
    BY <1>1, <1>3, <1>5, <2>1 DEF StoredInv, RunOf, Key
<1>8. OwnersInv'
  BY <1>1 DEF DataInv, OwnersInv, Made, HasContext
<1>9. OneExecution'
  BY <1>1, <1>4 DEF DataInv, OneExecution, HasContext
<1>10. OwnershipIsPartitioned'
  BY DEF DataInv, OwnershipIsPartitioned, Readable
<1>11. BindingsAreEarned'
  BY <1>1, <1>5 DEF DataInv, BindingsAreEarned, Key
<1>12. \A i \in Ids : FreeInv(i)'
  BY DEF DataInv, FreeInv
<1>13. QED
  BY <1>6, <1>7, <1>8, <1>9, <1>10, <1>11, <1>12 DEF DataInv

\* The engine raises: the key is unbound, and the id given up if its reservation was
\* new; what another submission earned stays.
LEMMA UndoKeepsData ==
    ASSUME BaseInv, DataInv, BaseInv', OneApp, NEW k \in Calls, Others(k), Undo(k),
           stored' = stored, pc[k] = "running", pc'[k] = "done", op'[k] = op[k], Made(k)
    PROVE  DataInv'
<1>1. \A j \in Calls : op'[j] = op[j]
  BY DEF Others
<1>2. /\ op[k].id \in Ids /\ Key(k) \in Keys /\ Key(k) = <<op[k].scope, op[k].id>>
      /\ Typed /\ outcome[k] = "none"
  BY KeyOf DEF BaseInv, Stages
<1>3. /\ \A i \in Ids : i # op[k].id => owners'[i] = owners[i]
      /\ owners'[op[k].id] \in {owners[op[k].id], NoScope}
      /\ reserved[k] => owners'[op[k].id] = NoScope
      /\ ~reserved[k] => owners' = owners
  BY <1>2 DEF Undo, GiveUpId, Typed
<1>4. /\ \A s \in Scopes, i \in Ids :
            <<s, i>> # Key(k) => fingerprints'[<<s, i>>] = fingerprints[<<s, i>>]
      /\ fingerprints'[Key(k)] = NoInput
  BY <1>2 DEF Undo, Typed, Keys
<1>5. \A i \in Ids : stored[i] # NoRun =>
         /\ stored[i].by \in Calls /\ stored[i].by # k /\ stored[i].scope \in Scopes
         /\ outcome'[stored[i].by] = outcome[stored[i].by]
         /\ i = op[k].id => op[stored[i].by].route = "debug"
  <2>1. ASSUME NEW i \in Ids, stored[i] # NoRun
        PROVE  /\ stored[i].by \in Calls /\ pc[stored[i].by] = "done"
               /\ stored[i].scope \in Scopes
    BY <2>1, StoredBy DEF DataInv
  <2>2. RunningInv(k)
    BY DEF DataInv
  <2>3. QED
    BY <2>1, <2>2 DEF Others, RunningInv
<1>6. \A j \in Calls : pc'[j] = "running" =>
         /\ j # k /\ pc[j] = "running" /\ reserved'[j] = reserved[j]
         /\ op[j].id # op[k].id /\ op[j].id \in Ids /\ op[j].scope \in Scopes
  <2>1. \A j \in Calls : pc'[j] = "running" =>
           j # k /\ pc[j] = "running" /\ reserved'[j] = reserved[j]
    BY DEF Others
  <2>2. \A j \in Calls : pc[j] = "running" => Made(j)
    BY DEF BaseInv, Stages
  <2>3. QED
    BY <1>2, <2>1, <2>2, KeyOf, RunnersDiffer
<1>7. \A j \in Calls : /\ outcome[j] = "cancelled" => outcome'[j] = "cancelled"
                       /\ MayHold(j) /\ j # k => MayHold(j)'
  BY <1>1, <1>2 DEF Others, MayHold
<1>8. ASSUME NEW j \in Calls PROVE RunningInv(j)'
  <2>1. RunningInv(j)
    BY DEF DataInv
  <2>2. SUFFICES ASSUME pc'[j] = "running" PROVE RunningInv(j)'
    BY DEF RunningInv
  <2>3. /\ fingerprints'[<<op[j].scope, op[j].id>>] = fingerprints[<<op[j].scope, op[j].id>>]
        /\ owners'[op[j].id] = owners[op[j].id]
        /\ \A s \in Scopes : fingerprints'[<<s, op[j].id>>] = fingerprints[<<s, op[j].id>>]
    BY <1>2, <1>3, <1>4, <1>6, <2>2
  <2>4. QED
    BY <1>1, <1>5, <1>6, <1>7, <2>1, <2>3 DEF RunningInv, Key, HasContext
<1>9. ASSUME NEW i \in Ids PROVE StoredInv(i)'
  <2>1. StoredInv(i)
    BY DEF DataInv
  <2>2. SUFFICES ASSUME stored[i] # NoRun PROVE StoredInv(i)'
    BY DEF StoredInv
  <2>3. CASE op[stored[i].by].route = "resolve"
    <3>1. i # op[k].id
      BY <1>5, <2>2, <2>3
    <3>2. /\ owners'[i] = owners[i]
          /\ \A s \in Scopes : fingerprints'[<<s, i>>] = fingerprints[<<s, i>>]
      BY <1>2, <1>3, <1>4, <3>1
    <3>3. QED
      BY <1>1, <1>5, <2>1, <2>2, <2>3, <3>2 DEF StoredInv, RunOf
  <2>4. CASE op[stored[i].by].route # "resolve"
    <3>1. ASSUME NEW s \in Scopes, fingerprints'[<<s, i>>] # NoInput,
                 op[stored[i].by].route = "debug"
          PROVE  \E j \in Calls : /\ MayHold(j)' /\ <<op[j].scope, op[j].id>> = <<s, i>>
                                  /\ op[j].input = fingerprints'[<<s, i>>]
      <4>1. <<s, i>> # Key(k) /\ fingerprints[<<s, i>>] = fingerprints'[<<s, i>>]
        BY <1>4, <3>1
      <4>2. PICK j \in Calls : /\ MayHold(j) /\ Key(j) = <<s, i>>
                               /\ op[j].input = fingerprints[<<s, i>>]
        BY <2>1, <2>2, <3>1, <4>1 DEF StoredInv
      <4>3. QED
        BY <1>7, <4>1, <4>2 DEF Key
    <3>2. QED
      BY <1>1, <1>5, <2>1, <2>2, <2>4, <3>1 DEF StoredInv, RunOf, Key
  <2>5. QED
    BY <2>3, <2>4
<1>10. OwnersInv'
  BY <1>1, <1>3 DEF DataInv, OwnersInv, Made, HasContext
<1>11. OneExecution'
  BY <1>1, <1>6 DEF DataInv, OneExecution, HasContext
<1>12. OwnershipIsPartitioned'
  BY <1>2, <1>3, NoValueAssumption DEF DataInv, OwnershipIsPartitioned, Readable
<1>13. BindingsAreEarned'
  <2>1. ASSUME NEW s \in Scopes, NEW i \in Ids, fingerprints'[<<s, i>>] # NoInput,
               stored[i] = NoRun
        PROVE  \E j \in Calls : /\ MayHold(j)' /\ op[j].input = fingerprints'[<<s, i>>]
                                /\ <<op[j].scope, op[j].id>> = <<s, i>>
    <3>1. /\ <<s, i>> # Key(k) /\ fingerprints[<<s, i>>] # NoInput
          /\ fingerprints[<<s, i>>] = fingerprints'[<<s, i>>]
      BY <1>4, <2>1
    <3>2. PICK j \in Calls : /\ MayHold(j) /\ op[j].input = fingerprints[<<s, i>>]
                             /\ Key(j) = <<s, i>>
      BY <2>1, <3>1 DEF DataInv, BindingsAreEarned
    <3>3. QED
      BY <1>7, <3>1, <3>2 DEF Key
  <2>2. ASSUME NEW i \in Ids, owners'[i] # NoScope, stored[i] = NoRun
        PROVE  \E j \in Calls : MayHold(j)' /\ <<op[j].scope, op[j].id>> = <<owners'[i], i>>
    <3>1. owners'[i] = owners[i]
      BY <1>3, <2>2
    <3>2. PICK j \in Calls : MayHold(j) /\ Key(j) = <<owners[i], i>>
      BY <2>2, <3>1 DEF DataInv, BindingsAreEarned
    <3>3. CASE j # k
      BY <1>7, <3>1, <3>2, <3>3 DEF Key
    <3>4. CASE j = k
      <4>1. i = op[k].id /\ owners[i] = op[k].scope /\ ~reserved[k]
        BY <1>2, <1>3, <2>2, <3>2, <3>4 DEF Key
      <4>2. HasContext(k)
        BY <2>2, <3>1, <4>1 DEF DataInv, OwnersInv, HasContext
      <4>3. PICK c \in Calls : outcome[c] = "cancelled" /\ op[c].route = "resolve" /\ Key(c) = Key(k)
        BY <2>2, <4>1, <4>2 DEF DataInv, RunningInv
      <4>4. QED
        BY <1>1, <1>7, <3>1, <4>1, <4>3 DEF Key, MayHold
    <3>5. QED
      BY <3>3, <3>4
  <2>3. QED
    BY <1>1, <2>1, <2>2 DEF BindingsAreEarned, Key
<1>14. ASSUME NEW i \in Ids PROVE FreeInv(i)'
  <2>1. SUFFICES ASSUME PublicScope \notin Scopes, owners'[i] = NoScope, NEW s \in Scopes,
                        <<s, i>> # Key(k)
                 PROVE  fingerprints[<<s, i>>] = NoInput
    BY <1>4 DEF FreeInv
  <2>2. CASE owners[i] = NoScope
    BY <2>1, <2>2 DEF DataInv, FreeInv
  <2>3. CASE owners[i] # NoScope
    <3>1. i = op[k].id /\ reserved[k]
      BY <1>3, <2>1, <2>3
    <3>2. HasContext(k) /\ RunningInv(k) /\ s # op[k].scope
      BY <1>2, <2>1, <3>1 DEF OneApp, DataInv
    <3>3. QED
      BY <3>1, <3>2 DEF RunningInv
  <2>4. QED
    BY <2>2, <2>3
<1>15. QED
  BY <1>8, <1>9, <1>10, <1>11, <1>12, <1>13, <1>14 DEF DataInv

\* The run of a submission is stored: its key is bound to the input of the run, and the
\* id is owned by its scope.
LEMMA CompleteKeepsData ==
    ASSUME BaseInv, DataInv, BaseInv', OneApp, NEW k \in Calls, Others(k), Made(k),
           owners' = owners, fingerprints' = fingerprints, stored[op[k].id] = NoRun,
           stored' = [stored EXCEPT ![op[k].id] = RunOf(k)],
           pc[k] = "running", pc'[k] = "done", outcome'[k] = "resolved", op'[k] = op[k]
    PROVE  DataInv'
<1>1. \A j \in Calls : op'[j] = op[j]
  BY DEF Others
<1>2. /\ op[k].id \in Ids /\ Key(k) = <<op[k].scope, op[k].id>> /\ Typed
      /\ op[k].scope \in Scopes /\ op[k].input \in Inputs /\ outcome[k] = "none"
      /\ op[k].route = "resolve"
  BY KeyOf DEF BaseInv, Stages
<1>3. /\ \A i \in Ids : i # op[k].id => stored'[i] = stored[i]
      /\ stored'[op[k].id] = RunOf(k) /\ RunOf(k) # NoRun
      /\ RunOf(k).by = k /\ RunOf(k).scope = op[k].scope /\ RunOf(k).input = op[k].input
  <2>1. RunOf(k) \in Run
    BY <1>2 DEF RunOf, Run
  <2>2. QED
    BY <1>2, <2>1, NoValueAssumption DEF Typed, RunOf
<1>4. \A i \in Ids : stored[i] # NoRun =>
         /\ stored[i].by \in Calls /\ stored[i].by # k
         /\ outcome'[stored[i].by] = outcome[stored[i].by]
  <2>1. ASSUME NEW i \in Ids, stored[i] # NoRun
        PROVE  stored[i].by \in Calls /\ pc[stored[i].by] = "done"
    BY <2>1, StoredBy DEF DataInv
  <2>2. QED
    BY <2>1 DEF Others
<1>5. \A j \in Calls : pc'[j] = "running" =>
         /\ j # k /\ pc[j] = "running" /\ reserved'[j] = reserved[j]
         /\ op[j].id # op[k].id /\ op[j].id \in Ids
  <2>1. \A j \in Calls : pc'[j] = "running" =>
           j # k /\ pc[j] = "running" /\ reserved'[j] = reserved[j]
    BY DEF Others
  <2>2. \A j \in Calls : pc[j] = "running" => Made(j)
    BY DEF BaseInv, Stages
  <2>3. QED
    BY <1>2, <2>1, <2>2, KeyOf, RunnersDiffer
<1>6. \A j \in Calls : /\ outcome[j] = "cancelled" => outcome'[j] = "cancelled"
                       /\ MayHold(j) /\ op[j].id # op[k].id => MayHold(j)'
  BY <1>1, <1>2 DEF Others, MayHold
<1>7. ASSUME NEW j \in Calls PROVE RunningInv(j)'
  <2>1. RunningInv(j)
    BY DEF DataInv
  <2>2. QED
    BY <1>1, <1>3, <1>4, <1>5, <1>6, <2>1 DEF RunningInv, Key, HasContext
<1>8. ASSUME NEW i \in Ids PROVE StoredInv(i)'
  <2>1. StoredInv(i) /\ RunningInv(k)
    BY DEF DataInv
  <2>2. CASE i = op[k].id
    <3>1. /\ fingerprints[<<op[k].scope, i>>] = op[k].input
          /\ op[k].scope # PublicScope => owners[i] = op[k].scope
      BY <1>2, <2>1, <2>2 DEF RunningInv, HasContext
    <3>2. QED
      BY <1>1, <1>2, <1>3, <2>2, <3>1 DEF StoredInv, RunOf
  <2>3. CASE i # op[k].id
    <3>1. stored'[i] = stored[i]
      BY <1>3, <2>3
    <3>2. \A s \in Scopes, j \in Calls : MayHold(j) /\ Key(j) = <<s, i>> => MayHold(j)'
      BY <1>6, <2>3 DEF Key
    <3>3. QED
      BY <1>1, <1>4, <2>1, <3>1, <3>2 DEF StoredInv, RunOf, Key
  <2>4. QED
    BY <2>2, <2>3
<1>9. OwnersInv'
  BY <1>1 DEF DataInv, OwnersInv, Made, HasContext
<1>10. OneExecution'
  BY <1>1, <1>5 DEF DataInv, OneExecution, HasContext
<1>11. ASSUME NEW i \in Ids, NEW s \in Scopes, owners[i] = s, stored'[i] # NoRun
       PROVE  stored'[i].scope = s
  <2>1. CASE i = op[k].id
    <3>1. s # NoScope
      BY NoValueAssumption
    <3>2. PICK j \in Calls : Made(j) /\ HasContext(j)
      BY <1>11, <3>1 DEF DataInv, OwnersInv
    <3>3. HasContext(k)
      BY <1>2, <3>2 DEF OneApp
    <3>4. owners[i] = op[k].scope
      BY <2>1, <3>3 DEF DataInv, RunningInv
    <3>5. QED
      BY <1>3, <1>11, <2>1, <3>4
  <2>2. CASE i # op[k].id
    BY <1>3, <1>11, <2>2 DEF DataInv, OwnershipIsPartitioned, Readable
  <2>3. QED
    BY <2>1, <2>2
<1>12. OwnershipIsPartitioned'
  BY <1>11 DEF OwnershipIsPartitioned, Readable
<1>13. BindingsAreEarned'
  <2>1. \A i \in Ids : stored'[i] = NoRun => stored[i] = NoRun /\ i # op[k].id
    BY <1>3
  <2>2. QED
    BY <1>1, <1>6, <2>1 DEF DataInv, BindingsAreEarned, Key
<1>14. \A i \in Ids : FreeInv(i)'
  BY DEF DataInv, FreeInv
<1>15. QED
  BY <1>7, <1>8, <1>9, <1>10, <1>12, <1>13, <1>14 DEF DataInv

\* /debug/resolve stores a run of an id and gives the id to its caller: what is bound
\* with this id then belongs to submissions that run or were cancelled.
LEMMA DebugKeepsData ==
    ASSUME BaseInv, DataInv, BaseInv', OneApp, NEW k \in Calls, Others(k), Made(k),
           fingerprints' = fingerprints, stored[op[k].id] = NoRun,
           owners' = [owners EXCEPT ![op[k].id] = op[k].scope],
           stored' = [stored EXCEPT ![op[k].id] = RunOf(k)],
           pc[k] = "debugging", pc'[k] = "done", outcome'[k] = "resolved", op'[k] = op[k]
    PROVE  DataInv'
<1>1. \A j \in Calls : op'[j] = op[j]
  BY DEF Others
<1>2. /\ op[k].id \in Ids /\ Typed /\ op[k].scope \in Scopes /\ op[k].input \in Inputs
      /\ outcome[k] = "none" /\ op[k].route = "debug"
  BY KeyOf DEF BaseInv, Stages
<1>3. /\ HasContext(k)
      /\ \A j \in Calls : /\ outcome[j] = "cancelled" => outcome'[j] = "cancelled"
                          /\ MayHold(j) => MayHold(j)'
  BY <1>1, <1>2 DEF OneApp, Others, MayHold
<1>4. /\ \A i \in Ids : i # op[k].id => stored'[i] = stored[i] /\ owners'[i] = owners[i]
      /\ stored'[op[k].id] = RunOf(k) /\ RunOf(k) # NoRun
      /\ owners'[op[k].id] = op[k].scope
      /\ RunOf(k).by = k /\ RunOf(k).scope = op[k].scope /\ RunOf(k).input = op[k].input
  <2>1. RunOf(k) \in Run
    BY <1>2 DEF RunOf, Run
  <2>2. QED
    BY <1>2, <2>1, NoValueAssumption DEF Typed, RunOf
<1>5. \A i \in Ids : stored[i] # NoRun =>
         /\ stored[i].by \in Calls /\ stored[i].by # k
         /\ outcome'[stored[i].by] = outcome[stored[i].by]
  <2>1. ASSUME NEW i \in Ids, stored[i] # NoRun
        PROVE  stored[i].by \in Calls /\ pc[stored[i].by] = "done"
    BY <2>1, StoredBy DEF DataInv
  <2>2. QED
    BY <2>1 DEF Others
<1>6. \A j \in Calls :
         /\ pc'[j] = "running" => j # k /\ reserved'[j] = reserved[j] /\ op[j].id \in Ids
         /\ pc'[j] = "running" <=> pc[j] = "running"
  <2>1. \A j \in Calls :
           /\ pc'[j] = "running" => j # k /\ reserved'[j] = reserved[j]
           /\ pc'[j] = "running" <=> pc[j] = "running"
    BY DEF Others
  <2>2. \A j \in Calls : pc[j] = "running" => Made(j)
    BY DEF BaseInv, Stages
  <2>3. QED
    BY <1>2, <2>1, <2>2, KeyOf
<1>7. ASSUME NEW j \in Calls PROVE RunningInv(j)'
  <2>1. RunningInv(j)
    BY DEF DataInv
  <2>2. SUFFICES ASSUME pc'[j] = "running" PROVE RunningInv(j)'
    BY DEF RunningInv
  <2>3. CASE op[j].id = op[k].id
    BY <1>1, <1>2, <1>4, <1>6, <2>1, <2>2, <2>3 DEF RunningInv, Key, HasContext
  <2>4. CASE op[j].id # op[k].id
    BY <1>1, <1>3, <1>4, <1>5, <1>6, <2>1, <2>2, <2>4 DEF RunningInv, Key, HasContext
  <2>5. QED
    BY <2>3, <2>4
<1>8. ASSUME NEW i \in Ids PROVE StoredInv(i)'
  <2>1. StoredInv(i)
    BY DEF DataInv
  <2>2. CASE i = op[k].id
    <3>1. ASSUME NEW s \in Scopes, fingerprints[<<s, i>>] # NoInput
          PROVE  \E j \in Calls : /\ MayHold(j)' /\ <<op[j].scope, op[j].id>> = <<s, i>>
                                  /\ op[j].input = fingerprints[<<s, i>>]
      <4>1. PICK j \in Calls : /\ MayHold(j) /\ op[j].input = fingerprints[<<s, i>>]
                               /\ Key(j) = <<s, i>>
        BY <2>2, <3>1 DEF DataInv, BindingsAreEarned
      <4>2. QED
        BY <1>3, <4>1 DEF Key
    <3>2. QED
      BY <1>1, <1>2, <1>4, <2>2, <3>1 DEF StoredInv, RunOf, Key
  <2>3. CASE i # op[k].id
    <3>1. stored'[i] = stored[i] /\ owners'[i] = owners[i]
      BY <1>4, <2>3
    <3>2. QED
      BY <1>1, <1>3, <1>5, <2>1, <3>1 DEF StoredInv, RunOf, Key
  <2>4. QED
    BY <2>2, <2>3
<1>9. OwnersInv'
  BY <1>1, <1>3, <1>4 DEF DataInv, OwnersInv, Made, HasContext
<1>10. OneExecution'
  BY <1>1, <1>6 DEF DataInv, OneExecution, HasContext
<1>11. OwnershipIsPartitioned'
  BY <1>4 DEF DataInv, OwnershipIsPartitioned, Readable
<1>12. BindingsAreEarned'
  <2>1. \A i \in Ids : stored'[i] = NoRun => stored[i] = NoRun /\ i # op[k].id
    BY <1>4
  <2>2. QED
    BY <1>1, <1>3, <1>4, <2>1 DEF DataInv, BindingsAreEarned, Key
<1>13. \A i \in Ids : FreeInv(i)'
  BY <1>2, <1>4, NoValueAssumption DEF DataInv, FreeInv
<1>14. QED
  BY <1>7, <1>8, <1>9, <1>10, <1>11, <1>12, <1>13 DEF DataInv

\* The engine starts: nobody else runs with the id, and what the submission finds bound
\* or reserved for its key comes from a cancelled one.
LEMMA StartKeepsData ==
    ASSUME BaseInv, DataInv, BaseInv', OneApp, NEW k \in Calls, Others(k), Made(k),
           Verdict(k) = "run", Reserve(k), HoldsLock(k),
           fingerprints' = [fingerprints EXCEPT ![Key(k)] = op[k].input],
           pc[k] = "waiting", pc'[k] = "running",
           UNCHANGED <<op, outcome, stored>>
    PROVE  DataInv'
<1>1. /\ op[k].id \in Ids /\ Key(k) = <<op[k].scope, op[k].id>> /\ Key(k) \in Keys
      /\ op[k].scope \in Scopes /\ op[k].input \in Inputs /\ Typed /\ outcome[k] = "none"
  BY KeyOf DEF BaseInv, Stages
<1>2. /\ HasContext(k) => owners[op[k].id] \in {NoScope, op[k].scope}
      /\ stored[op[k].id] = NoRun
  BY DEF Verdict
<1>3. /\ \A i \in Ids : i # op[k].id => owners'[i] = owners[i]
      /\ HasContext(k) => owners'[op[k].id] = op[k].scope
      /\ ~HasContext(k) => owners' = owners
      /\ reserved'[k] = (HasContext(k) /\ owners[op[k].id] = NoScope)
  BY <1>1 DEF Reserve, ReservesNew, Typed
<1>4. /\ \A s \in Scopes, i \in Ids :
            <<s, i>> # Key(k) => fingerprints'[<<s, i>>] = fingerprints[<<s, i>>]
      /\ fingerprints'[Key(k)] = op[k].input
  BY <1>1 DEF Typed, Keys
<1>5. \A j \in Calls : pc[j] = "running" => Key(j) # Key(k)
  BY HolderIsAlone DEF BaseInv
<1>6. \A j \in Calls : pc[j] = "running" =>
         /\ Made(j) /\ op[j].id \in Ids /\ op[j].scope \in Scopes
         /\ HasContext(j) <=> HasContext(k)
  <2>1. \A j \in Calls : pc[j] = "running" => Made(j)
    BY DEF BaseInv, Stages
  <2>2. QED
    BY <1>1, <2>1, KeyOf DEF OneApp
<1>7. \A j \in Calls : pc[j] = "running" => op[j].id # op[k].id
  <2>1. SUFFICES ASSUME NEW j \in Calls, pc[j] = "running", op[j].id = op[k].id
                 PROVE  FALSE
    OBVIOUS
  <2>2. CASE HasContext(k)
    <3>1. owners[op[k].id] = op[j].scope
      BY <1>2, <1>6, <2>1, <2>2 DEF DataInv, RunningInv
    <3>2. op[j].scope = op[k].scope
      BY <1>2, <1>6, <2>1, <2>2, <3>1, NoValueAssumption
    <3>3. QED
      BY <1>5, <2>1, <3>2 DEF Key
  <2>3. CASE ~HasContext(k)
    BY <1>5, <1>6, <2>1, <2>3 DEF HasContext, Key
  <2>4. QED
    BY <2>2, <2>3
<1>8. \A j \in Calls : /\ pc'[j] = "running" => j = k \/ pc[j] = "running"
                       /\ MayHold(j) => MayHold(j)'
                       /\ j # k => reserved'[j] = reserved[j]
  BY DEF Others, MayHold
<1>9. \A i \in Ids : stored[i] # NoRun =>
         stored[i].by \in Calls /\ stored[i].scope \in Scopes /\ i # op[k].id
  BY <1>2, StoredBy DEF DataInv
<1>10. ASSUME NEW j \in Calls PROVE RunningInv(j)'
  <2>1. RunningInv(j)
    BY DEF DataInv
  <2>2. SUFFICES ASSUME pc'[j] = "running" PROVE RunningInv(j)'
    BY DEF RunningInv
  <2>3. CASE j = k
    <3>1. ASSUME HasContext(k), ~reserved'[k]
          PROVE  \E c \in Calls : /\ outcome[c] = "cancelled" /\ op[c].route = "resolve"
                                  /\ Key(c) = Key(k)
      <4>1. owners[op[k].id] # NoScope /\ owners[op[k].id] = op[k].scope
        BY <1>2, <1>3, <3>1
      <4>2. PICK c \in Calls : MayHold(c) /\ Key(c) = <<op[k].scope, op[k].id>>
        BY <1>1, <1>2, <4>1 DEF DataInv, BindingsAreEarned
      <4>3. QED
        BY <1>1, <1>5, <4>2 DEF MayHold
    <3>2. ASSUME HasContext(k), reserved'[k], NEW s \in Scopes \ {op[k].scope}
          PROVE  fingerprints'[<<s, op[k].id>>] = NoInput
      <4>1. owners[op[k].id] = NoScope /\ PublicScope \notin Scopes
        BY <1>3, <3>2 DEF OneApp
      <4>2. fingerprints[<<s, op[k].id>>] = NoInput
        BY <1>1, <4>1 DEF DataInv, FreeInv
      <4>3. QED
        BY <1>1, <1>4, <4>2
    <3>3. QED
      BY <1>1, <1>2, <1>3, <1>4, <2>3, <3>1, <3>2 DEF RunningInv, Key, HasContext
  <2>4. CASE j # k
    <3>1. pc[j] = "running" /\ op[j].id # op[k].id /\ op[j].id \in Ids /\ op[j].scope \in Scopes
      BY <1>6, <1>7, <1>8, <2>2, <2>4
    <3>2. /\ fingerprints'[<<op[j].scope, op[j].id>>] = fingerprints[<<op[j].scope, op[j].id>>]
          /\ owners'[op[j].id] = owners[op[j].id]
          /\ \A s \in Scopes : fingerprints'[<<s, op[j].id>>] = fingerprints[<<s, op[j].id>>]
      BY <1>1, <1>3, <1>4, <3>1
    <3>3. QED
      BY <1>8, <1>9, <2>1, <2>4, <3>1, <3>2 DEF RunningInv, Key, HasContext
  <2>5. QED
    BY <2>3, <2>4
<1>11. ASSUME NEW i \in Ids PROVE StoredInv(i)'
  <2>1. StoredInv(i)
    BY DEF DataInv
  <2>2. SUFFICES ASSUME stored[i] # NoRun PROVE StoredInv(i)'
    BY DEF StoredInv
  <2>3. /\ owners'[i] = owners[i] /\ stored[i].scope \in Scopes
        /\ \A s \in Scopes : fingerprints'[<<s, i>>] = fingerprints[<<s, i>>]
    BY <1>1, <1>3, <1>4, <1>9, <2>2
  <2>4. QED
    BY <1>8, <2>1, <2>2, <2>3 DEF StoredInv, RunOf, Key
<1>12. OwnersInv'
  BY <1>3 DEF DataInv, OwnersInv, Made, HasContext
<1>13. OneExecution'
  BY <1>7, <1>8 DEF DataInv, OneExecution, HasContext
<1>14. OwnershipIsPartitioned'
  BY <1>2, <1>3 DEF DataInv, OwnershipIsPartitioned, Readable
<1>15. MayHold(k)'
  BY DEF MayHold, BaseInv, Stages
<1>16. BindingsAreEarned'
  <2>1. ASSUME NEW s \in Scopes, NEW i \in Ids, fingerprints'[<<s, i>>] # NoInput,
               stored[i] = NoRun
        PROVE  \E j \in Calls : /\ MayHold(j)' /\ op[j].input = fingerprints'[<<s, i>>]
                                /\ <<op[j].scope, op[j].id>> = <<s, i>>
    <3>1. CASE <<s, i>> = Key(k)
      BY <1>1, <1>4, <1>15, <3>1
    <3>2. CASE <<s, i>> # Key(k)
      <4>1. fingerprints[<<s, i>>] = fingerprints'[<<s, i>>]
        BY <1>4, <3>2
      <4>2. PICK j \in Calls : /\ MayHold(j) /\ op[j].input = fingerprints[<<s, i>>]
                               /\ Key(j) = <<s, i>>
        BY <2>1, <4>1 DEF DataInv, BindingsAreEarned
      <4>3. QED
        BY <1>8, <4>1, <4>2 DEF Key
    <3>3. QED
      BY <3>1, <3>2
  <2>2. ASSUME NEW i \in Ids, owners'[i] # NoScope, stored[i] = NoRun
        PROVE  \E j \in Calls : MayHold(j)' /\ <<op[j].scope, op[j].id>> = <<owners'[i], i>>
    <3>1. CASE i = op[k].id /\ HasContext(k)
      BY <1>3, <1>15, <3>1
    <3>2. CASE ~(i = op[k].id /\ HasContext(k))
      <4>1. owners'[i] = owners[i]
        BY <1>3, <3>2
      <4>2. PICK j \in Calls : MayHold(j) /\ Key(j) = <<owners[i], i>>
        BY <2>2, <4>1 DEF DataInv, BindingsAreEarned
      <4>3. QED
        BY <1>8, <4>1, <4>2 DEF Key
    <3>3. QED
      BY <3>1, <3>2
  <2>3. QED
    BY <2>1, <2>2 DEF BindingsAreEarned, Key
<1>17. ASSUME NEW i \in Ids PROVE FreeInv(i)'
  <2>1. CASE i = op[k].id
    BY <1>1, <1>3, <2>1, NoValueAssumption DEF FreeInv, OneApp
  <2>2. CASE i # op[k].id
    <3>1. \A s \in Scopes : fingerprints'[<<s, i>>] = fingerprints[<<s, i>>]
      BY <1>1, <1>4, <2>2
    <3>2. QED
      BY <1>3, <2>2, <3>1 DEF DataInv, FreeInv
  <2>3. QED
    BY <2>1, <2>2
<1>18. QED
  BY <1>10, <1>11, <1>12, <1>13, <1>14, <1>16, <1>17 DEF DataInv

-----------------------------------------------------------------------------
(* How submissions end                                                     *)

\* The lock's holder that finds a stored run of /resolve, and no other owner of its id,
\* finds a run of its own scope, and its key bound.
LEMMA OwnRunIsFound ==
    ASSUME BaseInv, DataInv, OneApp, NEW k \in Calls, Made(k),
           Verdict(k) # "scope_conflict", stored[op[k].id] # NoRun,
           op[stored[op[k].id].by].route = "resolve"
    PROVE  /\ stored[op[k].id].scope = op[k].scope
           /\ fingerprints[Key(k)] = stored[op[k].id].input
           /\ fingerprints[Key(k)] # NoInput
           /\ HasContext(k) => owners[op[k].id] = op[k].scope
<1>1. op[k].id \in Ids /\ StoredInv(op[k].id)
  BY KeyOf DEF BaseInv, DataInv
<1> DEFINE by == stored[op[k].id].by
           scope == stored[op[k].id].scope
<1>2. /\ by \in Calls /\ Made(by) /\ scope = op[by].scope /\ scope \in Scopes
      /\ stored[op[k].id].input \in Inputs
  BY <1>1, StoredBy
<1>3. HasContext(by) <=> HasContext(k)
  BY <1>2 DEF OneApp
<1>4. HasContext(k) => owners[op[k].id] \in {NoScope, op[k].scope}
  BY DEF Verdict
<1>5. /\ fingerprints[<<scope, op[k].id>>] = stored[op[k].id].input
      /\ scope # PublicScope => owners[op[k].id] = scope
  BY <1>1 DEF StoredInv
<1>6. scope = op[k].scope /\ (HasContext(k) => owners[op[k].id] = op[k].scope)
  <2>1. CASE HasContext(k)
    BY <1>2, <1>3, <1>4, <1>5, <2>1, NoValueAssumption DEF HasContext
  <2>2. CASE ~HasContext(k)
    BY <1>2, <1>3, <2>2 DEF HasContext
  <2>3. QED
    BY <2>1, <2>2
<1>7. QED
  BY <1>2, <1>5, <1>6, NoValueAssumption DEF Key

\* What has ended stays so: stored runs stay, and so do the causes of refusals.
LEMMA EndsStay ==
    ASSUME BaseInv, DataInv, NEW k \in Calls, Others(k), pc[k] # "done",
           Made(k) => op'[k] = op[k],
           \A i \in Ids : stored[i] # NoRun => stored'[i] = stored[i],
           pc[k] = "running" => pc'[k] \in {"running", "done"} /\ outcome'[k] # "scope_conflict",
           NEW j \in Calls, j # k, EndInv(j)
    PROVE  EndInv(j)'
<1>1. \A c \in Calls : Made(c) => op'[c] = op[c]
  BY DEF Others
<1>2. OnlyResolve' => OnlyResolve
  BY <1>1 DEF OnlyResolve, Made
<1>3. /\ outcome'[j] = outcome[j] /\ answer'[j] = answer[j]
      /\ op'[j] = op[j]
  BY DEF Others
<1>4. outcome[j] # "none" => Made(j) /\ op[j].id \in Ids
  <2>1. outcome[j] # "none" => Made(j)
    BY DEF BaseInv, Stages
  <2>2. QED
    BY <2>1, KeyOf DEF BaseInv
<1>5. \A c \in Calls : pc[c] \in {"running", "done"} /\ outcome[c] # "scope_conflict" =>
         /\ pc'[c] \in {"running", "done"} /\ outcome'[c] # "scope_conflict"
         /\ op'[c] = op[c]
  <2>1. \A c \in Calls : pc[c] \in {"running", "done"} => Made(c)
    BY DEF BaseInv, Stages
  <2>2. QED
    BY <1>1, <2>1 DEF Others
<1>6. LeftBound(j) => LeftBound(j)'
  <2>1. \A c \in Calls : outcome[c] = "cancelled" => /\ outcome'[c] = "cancelled"
                                                      /\ op'[c] = op[c]
    <3>1. \A c \in Calls : outcome[c] = "cancelled" => Made(c) /\ pc[c] = "done"
      BY DEF BaseInv, Stages
    <3>2. QED
      BY <1>1, <3>1 DEF Others
  <2>2. QED
    BY <1>3, <2>1 DEF LeftBound, Key
<1>7. outcome[j] \in {"resolved", "replayed"} => op'[answer[j].by] = op[answer[j].by]
  <2>1. SUFFICES ASSUME outcome[j] \in {"resolved", "replayed"}
                 PROVE  op'[answer[j].by] = op[answer[j].by]
    OBVIOUS
  <2>2. stored[op[j].id] # NoRun /\ answer[j] = stored[op[j].id] /\ op[j].id \in Ids
    BY <1>4, <2>1 DEF EndInv
  <2>3. answer[j].by \in Calls /\ Made(answer[j].by)
    BY <2>2, StoredBy DEF DataInv
  <2>4. QED
    BY <1>1, <2>3
<1>8. QED
  BY <1>2, <1>3, <1>4, <1>5, <1>6, <1>7 DEF EndInv

\* A submission that has not ended, or ended by a failure or a cancellation.
LEMMA NoAnswerYet ==
    ASSUME NEW k \in Calls, outcome'[k] \in {"none", "failed", "cancelled", "payload_conflict"}
    PROVE  EndInv(k)'
  BY DEF EndInv

\* A refusal because of another owner has a cause.
LEMMA ScopeConflictHasCause ==
    ASSUME BaseInv, DataInv, OneApp, NEW k \in Calls, Made(k), OnlyResolve,
           Verdict(k) = "scope_conflict"
    PROVE  \E j \in Calls : /\ pc[j] \in {"running", "done"}
                            /\ outcome[j] # "scope_conflict"
                            /\ op[j].id = op[k].id /\ op[j].scope # op[k].scope
<1>1. op[k].id \in Ids
  BY KeyOf DEF BaseInv
<1>2. HasContext(k) /\ owners[op[k].id] # NoScope /\ owners[op[k].id] # op[k].scope
  BY DEF Verdict
<1>3. CASE stored[op[k].id] # NoRun
  <2>1. StoredInv(op[k].id)
    BY <1>1 DEF DataInv
  <2> DEFINE by == stored[op[k].id].by
  <2>2. /\ by \in Calls /\ Made(by) /\ outcome[by] = "resolved" /\ pc[by] = "done"
        /\ op[by].id = op[k].id /\ stored[op[k].id].scope = op[by].scope
    BY <1>1, <1>3, <2>1, StoredBy
  <2>3. op[by].route = "resolve" /\ HasContext(by)
    BY <1>2, <2>2 DEF OnlyResolve, OneApp
  <2>4. owners[op[k].id] = op[by].scope
    BY <1>3, <2>1, <2>2, <2>3 DEF StoredInv, HasContext
  <2>5. QED
    BY <1>2, <2>2, <2>4
<1>4. CASE stored[op[k].id] = NoRun
  <2>1. PICK j \in Calls : MayHold(j) /\ Key(j) = <<owners[op[k].id], op[k].id>>
    BY <1>1, <1>2, <1>4 DEF DataInv, BindingsAreEarned
  <2>2. pc[j] \in {"running", "done"} /\ outcome[j] # "scope_conflict"
    BY <2>1 DEF MayHold, BaseInv, Stages
  <2>3. QED
    BY <1>2, <2>1, <2>2 DEF Key
<1>5. QED
  BY <1>3, <1>4

-----------------------------------------------------------------------------
(* The steps                                                               *)

\* What is left to show of a step once types, locks and data are kept.
LEMMA StepEnds ==
    ASSUME ApiInv, BaseInv', DataInv', NEW k \in Calls, Others(k), pc[k] # "done",
           Made(k) => op'[k] = op[k],
           \A i \in Ids : stored[i] # NoRun => stored'[i] = stored[i],
           pc[k] = "running" => pc'[k] \in {"running", "done"} /\ outcome'[k] # "scope_conflict",
           EndInv(k)'
    PROVE  ApiInv'
<1>1. ASSUME NEW j \in Calls PROVE EndInv(j)'
  <2>1. CASE j # k
    BY <2>1, EndsStay DEF ApiInv
  <2>2. QED
    BY <2>1
<1>2. QED
  BY <1>1 DEF ApiInv

\* The invariant is kept by a submission, ...
LEMMA SubmitStep ==
    ASSUME ApiInv, NEW k \in Calls, NEW o \in Submission, Submit(k, o)
    PROVE  ApiInv'
<1>1. BaseInv /\ DataInv /\ pc[k] = "idle" /\ outcome[k] = "none" /\ ~Made(k)
  BY DEF ApiInv, BaseInv, Stages, Submit
<1>2. BaseInv' /\ Others(k) /\ op'[k] = o /\ pc'[k] = "waiting" /\ outcome' = outcome
  BY <1>1, BaseOfSubmit
<1>3. Quiet(k)
  BY <1>1, <1>2 DEF Quiet, Submit
<1>4. DataInv'
  BY <1>1, <1>2, <1>3, QuietKeepsData
<1>5. EndInv(k)'
  BY <1>1, <1>2, NoAnswerYet
<1>6. QED
  BY <1>1, <1>2, <1>3, <1>4, <1>5, StepEnds DEF Quiet

\* ... by one to the debug route, ...
LEMMA SubmitDebugStep ==
    ASSUME ApiInv, NEW k \in Calls, NEW o \in Submission, SubmitDebug(k, o)
    PROVE  ApiInv'
<1>1. /\ BaseInv /\ DataInv /\ pc[k] = "idle" /\ outcome[k] = "none" /\ ~Made(k)
      /\ o.route = "debug"
  BY DEF ApiInv, BaseInv, Stages, SubmitDebug
<1>2. /\ BaseInv' /\ Others(k) /\ op'[k] = o /\ pc'[k] \in {"debugging", "done"}
      /\ outcome'[k] \in {"none", "duplicate"}
  BY <1>1, BaseOfSubmitDebug
<1>3. Quiet(k)
  BY <1>1, <1>2 DEF Quiet, SubmitDebug, apiVars
<1>4. DataInv'
  BY <1>1, <1>2, <1>3, QuietKeepsData
<1>5. EndInv(k)'
  <2>1. ~OnlyResolve'
    BY <1>1, <1>2, NoValueAssumption DEF OnlyResolve, Made
  <2>2. QED
    BY <1>2, <2>1 DEF EndInv
<1>6. QED
  BY <1>1, <1>2, <1>3, <1>4, <1>5, StepEnds DEF Quiet

\* ... by a call that gets the lock, ...
LEMMA EnterStep ==
    ASSUME ApiInv, OneApp, NEW k \in Calls, Enter(k)
    PROVE  ApiInv'
<1>1. /\ BaseInv /\ DataInv /\ pc[k] = "waiting" /\ outcome[k] = "none" /\ Made(k)
      /\ HoldsLock(k) /\ stored' = stored /\ Typed /\ op[k].route = "resolve"
  BY DEF ApiInv, BaseInv, Stages, Enter
<1>2. /\ op[k].id \in Ids /\ op[k].scope \in Scopes /\ op[k].input \in Inputs
      /\ Key(k) \in Keys
  BY <1>1, KeyOf
<1>3. ASSUME NEW how \in Outcomes \ {"none"}, NEW run \in Run \cup {NoRun},
             End(k, how, run), Leave(k),
             owners' = owners, fingerprints' = fingerprints,
             \/ reserved' = reserved
             \/ \E b \in BOOLEAN : reserved' = [reserved EXCEPT ![k] = b],
             \/ how = "payload_conflict"
             \/ how = "scope_conflict" /\ Verdict(k) = "scope_conflict"
             \/ how = "unbound" /\ ~OnlyResolve
             \/ /\ how = "replayed" /\ run = stored[op[k].id] /\ run # NoRun
                /\ run.scope = op[k].scope
                /\ \/ run.input = op[k].input
                   \/ op[run.by].route = "debug" /\ LeftBound(k)
      PROVE  ApiInv'
  <2>1. /\ BaseInv' /\ Others(k) /\ op'[k] = op[k] /\ pc'[k] = "done"
        /\ outcome'[k] = how /\ answer'[k] = run
    BY <1>1, <1>3, EndAtLock DEF Typed
  <2>2. Quiet(k)
    BY <1>1, <1>3, <2>1 DEF Quiet
  <2>3. DataInv'
    BY <1>1, <2>1, <2>2, QuietKeepsData
  <2>4. op' = op
    BY <1>3 DEF End
  <2>5. EndInv(k)'
    <3>1. CASE how = "payload_conflict"
      BY <2>1, <3>1, NoAnswerYet
    <3>2. CASE how = "scope_conflict" /\ Verdict(k) = "scope_conflict"
      <4>1. ASSUME OnlyResolve
            PROVE  \E j \in Calls : /\ pc'[j] \in {"running", "done"}
                                    /\ outcome'[j] # "scope_conflict"
                                    /\ op[j].id = op[k].id /\ op[j].scope # op[k].scope
        <5>1. PICK j \in Calls : /\ pc[j] \in {"running", "done"}
                                 /\ outcome[j] # "scope_conflict"
                                 /\ op[j].id = op[k].id /\ op[j].scope # op[k].scope
          BY <1>1, <3>2, <4>1, ScopeConflictHasCause
        <5>2. QED
          BY <2>1, <5>1 DEF Others
      <4>2. QED
        BY <2>1, <2>4, <3>2, <4>1 DEF EndInv, OnlyResolve, Made
    <3>3. CASE how = "unbound" /\ ~OnlyResolve
      BY <2>1, <2>4, <3>3 DEF EndInv, OnlyResolve, Made
    <3>4. CASE /\ how = "replayed" /\ run = stored[op[k].id] /\ run # NoRun
               /\ run.scope = op[k].scope
               /\ \/ run.input = op[k].input
                  \/ op[run.by].route = "debug" /\ LeftBound(k)
      <4>1. LeftBound(k) => LeftBound(k)'
        BY <1>1, <2>1, <2>4 DEF LeftBound, Key, Others
      <4>2. QED
        BY <1>1, <2>1, <2>4, <3>4, <4>1 DEF EndInv
    <3>5. QED
      BY <1>3, <3>1, <3>2, <3>3, <3>4
  <2>6. QED
    BY <1>1, <2>1, <2>2, <2>3, <2>5, StepEnds DEF Quiet
<1>4. CASE /\ Verdict(k) = "scope_conflict"
           /\ End(k, "scope_conflict", NoRun) /\ Leave(k)
           /\ UNCHANGED <<owners, fingerprints, reserved>>
  BY <1>3, <1>4 DEF Outcomes
<1>5. CASE /\ Verdict(k) \in {"payload_conflict", "unbound"}
           /\ GiveUpId(k, ReservesNew(k))
           /\ End(k, Verdict(k), NoRun) /\ Leave(k)
           /\ UNCHANGED <<fingerprints, reserved>>
  <2>1. owners' = owners
    BY <1>1, <1>2, <1>5 DEF GiveUpId, ReservesNew, Typed
  <2>2. CASE Verdict(k) = "payload_conflict"
    BY <1>3, <1>5, <2>1, <2>2 DEF Outcomes
  <2>3. CASE Verdict(k) = "unbound"
    <3>1. stored[op[k].id] # NoRun /\ fingerprints[Key(k)] = NoInput
      BY <2>3 DEF Verdict
    <3>2. ~OnlyResolve
      <4>1. StoredInv(op[k].id)
        BY <1>1, <1>2 DEF DataInv
      <4>2. stored[op[k].id].by \in Calls /\ Made(stored[op[k].id].by)
        BY <1>1, <1>2, <3>1, <4>1, StoredBy
      <4>3. op[stored[op[k].id].by].route # "resolve"
        BY <1>1, <2>3, <3>1, OwnRunIsFound
      <4>4. QED
        BY <4>2, <4>3 DEF OnlyResolve
    <3>3. QED
      BY <1>3, <1>5, <2>1, <2>3, <3>2 DEF Outcomes
  <2>4. QED
    BY <1>5, <2>2, <2>3
<1>6. CASE /\ Verdict(k) = "replayed"
           /\ Reserve(k)
           /\ End(k, "replayed", stored[op[k].id]) /\ Leave(k)
           /\ UNCHANGED fingerprints
  <2>1. /\ stored[op[k].id] # NoRun /\ fingerprints[Key(k)] = op[k].input
        /\ fingerprints[Key(k)] # NoInput
    BY <1>6 DEF Verdict
  <2>2. StoredInv(op[k].id)
    BY <1>1, <1>2 DEF DataInv
  <2> DEFINE by == stored[op[k].id].by
  <2>3. by \in Calls /\ Made(by) /\ op[by].route \in {"resolve", "debug"}
    BY <1>1, <1>2, <2>1, <2>2, StoredBy
  <2>4. /\ stored[op[k].id].scope = op[k].scope
        /\ \/ stored[op[k].id].input = op[k].input
           \/ op[by].route = "debug" /\ LeftBound(k)
        /\ HasContext(k) => owners[op[k].id] = op[k].scope
    <3>1. CASE op[by].route = "resolve"
      BY <1>1, <1>6, <2>1, <3>1, OwnRunIsFound
    <3>2. CASE op[by].route = "debug"
      <4>1. PICK j \in Calls : /\ MayHold(j) /\ Key(j) = Key(k)
                               /\ op[j].input = fingerprints[Key(k)]
        BY <1>2, <2>1, <2>2, <3>2 DEF StoredInv, Key
      <4>2. LeftBound(k)
        BY <1>1, <2>1, <4>1, HolderIsAlone DEF BaseInv, MayHold, LeftBound
      <4>3. PublicScope \notin Scopes /\ HasContext(k)
        BY <1>1, <2>3, <3>2 DEF OneApp
      <4>4. owners[op[k].id] # NoScope
        BY <1>1, <1>2, <2>1, <4>3 DEF DataInv, FreeInv, Key
      <4>5. owners[op[k].id] = op[k].scope
        BY <1>6, <4>3, <4>4 DEF Verdict
      <4>6. stored[op[k].id].scope = op[k].scope
        BY <1>1, <1>2, <2>1, <4>5 DEF DataInv, OwnershipIsPartitioned, Readable
      <4>7. QED
        BY <3>2, <4>2, <4>5, <4>6
    <3>3. QED
      BY <2>3, <3>1, <3>2
  <2>5. owners' = owners /\ \E b \in BOOLEAN : reserved' = [reserved EXCEPT ![k] = b]
    <3>1. owners' = owners
      BY <1>1, <1>2, <1>6, <2>4 DEF Reserve, Typed
    <3>2. ReservesNew(k) \in BOOLEAN
      BY DEF ReservesNew, HasContext
    <3>3. QED
      BY <1>6, <3>1, <3>2 DEF Reserve
  <2>6. stored[op[k].id] \in Run \cup {NoRun}
    BY <1>1, <1>2 DEF Typed
  <2>7. QED
    BY <1>3, <1>6, <2>1, <2>4, <2>5, <2>6 DEF Outcomes
<1>7. CASE /\ Verdict(k) = "run"
           /\ Reserve(k)
           /\ fingerprints' = [fingerprints EXCEPT ![Key(k)] = op[k].input]
           /\ pc' = [pc EXCEPT ![k] = "running"]
           /\ UNCHANGED <<op, outcome, answer, queue>>
  <2>1. BaseInv' /\ Others(k) /\ pc'[k] = "running"
    BY <1>1, <1>7, BaseOfStart
  <2>2. DataInv'
    BY <1>1, <1>7, <2>1, StartKeepsData
  <2>3. EndInv(k)'
    BY <1>1, <1>7, NoAnswerYet
  <2>4. QED
    BY <1>1, <1>7, <2>1, <2>2, <2>3, StepEnds
<1>8. QED
  BY <1>4, <1>5, <1>6, <1>7 DEF Enter

\* ... by a resolution that is stored, ...
LEMMA CompleteStep ==
    ASSUME ApiInv, OneApp, NEW k \in Calls, Complete(k)
    PROVE  ApiInv'
<1>1. BaseInv /\ DataInv /\ pc[k] = "running" /\ Made(k) /\ Typed /\ Leave(k)
  BY DEF ApiInv, BaseInv, Stages, Complete
<1>2. op[k].id \in Ids /\ RunOf(k) \in Run /\ Key(k) \in Keys
  BY <1>1, KeyOf DEF RunOf, Run
<1>3. CASE /\ stored[op[k].id] = NoRun
           /\ stored' = [stored EXCEPT ![op[k].id] = RunOf(k)]
           /\ End(k, "resolved", RunOf(k))
           /\ UNCHANGED <<owners, fingerprints, reserved>>
  <2>1. /\ BaseInv' /\ Others(k) /\ op'[k] = op[k] /\ pc'[k] = "done"
        /\ outcome'[k] = "resolved" /\ answer'[k] = RunOf(k)
    BY <1>1, <1>2, <1>3, EndAtLock DEF Typed, Outcomes
  <2>2. DataInv'
    BY <1>1, <1>3, <2>1, CompleteKeepsData
  <2>3. stored'[op[k].id] = RunOf(k) /\ RunOf(k) # NoRun
    BY <1>1, <1>2, <1>3, NoValueAssumption DEF Typed
  <2>4. EndInv(k)'
    BY <2>1, <2>3 DEF EndInv, RunOf
  <2>5. \A i \in Ids : stored[i] # NoRun => stored'[i] = stored[i]
    BY <1>1, <1>3 DEF Typed
  <2>6. QED
    BY <1>1, <2>1, <2>2, <2>4, <2>5, StepEnds
<1>4. CASE /\ stored[op[k].id] # NoRun
           /\ Undo(k)
           /\ End(k, "duplicate", NoRun)
           /\ UNCHANGED <<stored, reserved>>
  <2>1. /\ owners' \in [Ids -> Scopes \cup {NoScope}]
        /\ fingerprints' \in [Keys -> Inputs \cup {NoInput}]
    BY <1>1, <1>2, <1>4 DEF Undo, GiveUpId, Typed
  <2>2. /\ BaseInv' /\ Others(k) /\ op'[k] = op[k] /\ pc'[k] = "done"
        /\ outcome'[k] = "duplicate"
    BY <1>1, <1>4, <2>1, EndAtLock DEF Typed, Outcomes
  <2>3. DataInv'
    BY <1>1, <1>4, <2>2, UndoKeepsData
  <2>4. EndInv(k)'
    <3>1. RunningInv(k) /\ StoredInv(op[k].id)
      BY <1>1, <1>2 DEF DataInv
    <3>2. /\ stored[op[k].id].by \in Calls /\ Made(stored[op[k].id].by)
          /\ op[stored[op[k].id].by].route = "debug"
      BY <1>1, <1>2, <1>4, <3>1, StoredBy DEF RunningInv
    <3>3. ~OnlyResolve
      BY <3>2 DEF OnlyResolve
    <3>4. ~OnlyResolve'
      BY <1>4, <3>3 DEF OnlyResolve, Made, End
    <3>5. QED
      BY <2>2, <3>4 DEF EndInv
  <2>5. QED
    BY <1>1, <1>4, <2>2, <2>3, <2>4, StepEnds
<1>5. QED
  BY <1>3, <1>4 DEF Complete

\* ... by one that fails, ...
LEMMA FailStep ==
    ASSUME ApiInv, OneApp, NEW k \in Calls, Fail(k)
    PROVE  ApiInv'
<1>1. BaseInv /\ DataInv /\ pc[k] = "running" /\ Made(k) /\ Typed
  BY DEF ApiInv, BaseInv, Stages, Fail
<1>2. op[k].id \in Ids /\ Key(k) \in Keys
  BY <1>1, KeyOf
<1>3. /\ owners' \in [Ids -> Scopes \cup {NoScope}]
      /\ fingerprints' \in [Keys -> Inputs \cup {NoInput}]
  BY <1>1, <1>2 DEF Fail, Undo, GiveUpId, Typed
<1>4. /\ BaseInv' /\ Others(k) /\ op'[k] = op[k] /\ pc'[k] = "done"
      /\ outcome'[k] = "failed"
  BY <1>1, <1>3, EndAtLock DEF Fail, Typed, Outcomes
<1>5. DataInv'
  BY <1>1, <1>4, UndoKeepsData DEF Fail
<1>6. EndInv(k)'
  BY <1>4, NoAnswerYet
<1>7. QED
  BY <1>1, <1>4, <1>5, <1>6, StepEnds DEF Fail

\* ... by a debug resolution that is stored, ...
LEMMA CompleteDebugStep ==
    ASSUME ApiInv, OneApp, NEW k \in Calls, CompleteDebug(k)
    PROVE  ApiInv'
<1>1. /\ BaseInv /\ DataInv /\ pc[k] = "debugging" /\ Made(k) /\ Typed
      /\ outcome[k] = "none" /\ op[k].route = "debug"
      /\ UNCHANGED <<fingerprints, queue, reserved>>
  BY DEF ApiInv, BaseInv, Stages, CompleteDebug
<1>2. op[k].id \in Ids /\ op[k].scope \in Scopes /\ RunOf(k) \in Run
  BY <1>1, KeyOf DEF RunOf, Run
<1>3. CASE /\ stored[op[k].id] = NoRun
           /\ stored' = [stored EXCEPT ![op[k].id] = RunOf(k)]
           /\ owners' = [owners EXCEPT ![op[k].id] = op[k].scope]
           /\ End(k, "resolved", RunOf(k))
  <2>1. /\ BaseInv' /\ Others(k) /\ op'[k] = op[k] /\ pc'[k] = "done"
        /\ outcome'[k] = "resolved" /\ answer'[k] = RunOf(k)
    BY <1>1, <1>2, <1>3, EndOfDebug DEF Typed, Outcomes
  <2>2. DataInv'
    BY <1>1, <1>3, <2>1, DebugKeepsData
  <2>3. stored'[op[k].id] = RunOf(k) /\ RunOf(k) # NoRun
    BY <1>1, <1>2, <1>3, NoValueAssumption DEF Typed
  <2>4. EndInv(k)'
    BY <2>1, <2>3 DEF EndInv, RunOf
  <2>5. \A i \in Ids : stored[i] # NoRun => stored'[i] = stored[i]
    BY <1>1, <1>3 DEF Typed
  <2>6. QED
    BY <1>1, <2>1, <2>2, <2>4, <2>5, StepEnds
<1>4. CASE /\ stored[op[k].id] # NoRun
           /\ End(k, "duplicate", NoRun)
           /\ UNCHANGED <<stored, owners>>
  <2>1. /\ BaseInv' /\ Others(k) /\ op'[k] = op[k] /\ pc'[k] = "done"
        /\ outcome'[k] = "duplicate"
    BY <1>1, <1>4, EndOfDebug DEF Typed, Outcomes
  <2>2. Quiet(k)
    BY <1>1, <1>4, <2>1 DEF Quiet
  <2>3. DataInv'
    BY <1>1, <2>1, <2>2, QuietKeepsData
  <2>4. ~OnlyResolve'
    BY <1>1, <2>1 DEF OnlyResolve, Made
  <2>5. EndInv(k)'
    BY <2>1, <2>4 DEF EndInv
  <2>6. QED
    BY <1>1, <1>4, <2>1, <2>3, <2>5, StepEnds
<1>5. QED
  BY <1>3, <1>4 DEF CompleteDebug

\* ... by one that fails, ...
LEMMA FailDebugStep ==
    ASSUME ApiInv, NEW k \in Calls, FailDebug(k)
    PROVE  ApiInv'
<1>1. /\ BaseInv /\ DataInv /\ pc[k] = "debugging" /\ Typed /\ outcome[k] = "none"
      /\ UNCHANGED <<owners, fingerprints, queue, stored, reserved>>
  BY DEF ApiInv, BaseInv, Stages, FailDebug, apiVars
<1>2. /\ BaseInv' /\ Others(k) /\ op'[k] = op[k] /\ pc'[k] = "done"
      /\ outcome'[k] = "failed"
  BY <1>1, EndOfDebug DEF FailDebug, Typed, Outcomes
<1>3. Quiet(k)
  BY <1>1, <1>2 DEF Quiet
<1>4. DataInv'
  BY <1>1, <1>2, <1>3, QuietKeepsData
<1>5. EndInv(k)'
  BY <1>2, NoAnswerYet
<1>6. QED
  BY <1>1, <1>2, <1>4, <1>5, StepEnds

\* ... and by a cancellation.
LEMMA CancelStep ==
    ASSUME ApiInv, NEW k \in Calls, Cancel(k)
    PROVE  ApiInv'
<1>1. /\ BaseInv /\ DataInv /\ Typed /\ outcome[k] = "none" /\ Made(k)
      /\ pc[k] \in {"waiting", "running", "debugging"}
      /\ UNCHANGED <<owners, fingerprints, stored, reserved>>
      /\ End(k, "cancelled", NoRun)
  BY DEF ApiInv, BaseInv, Stages, Cancel
<1>2. /\ BaseInv' /\ Others(k) /\ op'[k] = op[k] /\ pc'[k] = "done"
      /\ outcome'[k] = "cancelled"
  <2>1. CASE pc[k] = "debugging"
    <3>1. queue' = queue
      BY <1>1, <2>1 DEF BaseInv, Stages, Cancel
    <3>2. QED
      BY <1>1, <2>1, <3>1, EndOfDebug DEF Typed, Outcomes
  <2>2. CASE pc[k] \in {"waiting", "running"}
    <3>1. Leave(k)
      BY <1>1, <2>2 DEF BaseInv, Stages, Cancel
    <3>2. QED
      BY <1>1, <2>2, <3>1, EndAtLock DEF Typed, Outcomes
  <2>3. QED
    BY <1>1, <2>1, <2>2
<1>3. DataInv'
  <2>1. CASE pc[k] = "running"
    BY <1>1, <1>2, <2>1, CancelKeepsData
  <2>2. CASE pc[k] # "running"
    <3>1. Quiet(k)
      BY <1>1, <1>2, <2>2 DEF Quiet
    <3>2. QED
      BY <1>1, <1>2, <3>1, QuietKeepsData
  <2>3. QED
    BY <2>1, <2>2
<1>4. EndInv(k)'
  BY <1>2, NoAnswerYet
<1>5. QED
  BY <1>1, <1>2, <1>3, <1>4, StepEnds

-----------------------------------------------------------------------------
(* The theorems                                                            *)

\* The invariant holds initially.
LEMMA ApiInit == Init => ApiInv
<1>1. SUFFICES ASSUME Init PROVE ApiInv
  OBVIOUS
<1>2. Typed
  BY <1>1 DEF Init, Typed, Outcomes
<1>3. \A k \in Calls : Stages(k) /\ RunningInv(k) /\ EndInv(k)
  BY <1>1 DEF Init, Stages, RunningInv, EndInv, Made
<1>4. \A key \in Keys : QueueInv(key)
  BY <1>1 DEF Init, QueueInv
<1>5. \A i \in Ids : StoredInv(i) /\ FreeInv(i)
  BY <1>1 DEF Init, StoredInv, FreeInv, Keys
<1>6. OwnersInv /\ OneExecution /\ OwnershipIsPartitioned /\ BindingsAreEarned
  BY <1>1 DEF Init, OwnersInv, OneExecution, OwnershipIsPartitioned, Readable, BindingsAreEarned, Keys
<1>7. QED
  BY <1>2, <1>3, <1>4, <1>5, <1>6 DEF ApiInv, BaseInv, DataInv

\* Every step keeps it.
LEMMA ApiStep ==
    ASSUME ApiInv, [Next]_vars
    PROVE  ApiInv'
<1>1. CASE UNCHANGED vars
  BY <1>1 DEF ApiInv, BaseInv, Typed, Stages, QueueInv, DataInv, RunningInv, StoredInv,
              FreeInv, OwnersInv, OneExecution, OwnershipIsPartitioned, BindingsAreEarned,
              EndInv, Made, OnlyResolve, Key, HasContext, RunOf, Readable, MayHold,
              LeftBound, vars, apiVars, callVars
<1>2. CASE Next
  <2>1. PICK k \in Calls : \/ \E o \in Submission : Submit(k, o) \/ SubmitDebug(k, o)
                           \/ Enter(k) \/ Complete(k) \/ Fail(k)
                           \/ CompleteDebug(k) \/ FailDebug(k) \/ Cancel(k)
    BY <1>2, Zenon DEF Next, Proceed
  <2>2. OneApp
    BY AllInOneApp DEF ApiInv, BaseInv
  <2>3. QED
    BY <2>1, <2>2, SubmitStep, SubmitDebugStep, EnterStep, CompleteStep, FailStep,
       CompleteDebugStep, FailDebugStep, CancelStep
<1>3. QED
  BY <1>1, <1>2

\* A key is an idempotency key, in every app, with /debug/resolve and cancellation or
\* without: at no time do two submissions of a key, or of an id, run the engine, every
\* answer is the stored run of the caller's id and scope, and of the caller's input unless
\* it is a run of /debug/resolve found under a binding that a cancelled submission left,
\* and none is turned away without a cause (resolve of api.py).
THEOREM KeysAreIdempotent == Spec => []SubmissionsAreIdempotent
<1>1. ApiInv => SubmissionsAreIdempotent
  <2>1. SUFFICES ASSUME ApiInv PROVE SubmissionsAreIdempotent
    OBVIOUS
  <2>2. TypeOK
    <3>1. \A key \in Keys : queue[key] \in Seq(Calls) /\ DOMAIN queue[key] = 1 .. Len(queue[key])
      BY <2>1 DEF ApiInv, BaseInv, Typed
    <3>2. \A key \in Keys : \A n \in DOMAIN queue[key] :
             /\ pc[queue[key][n]] \in {"waiting", "running"}
             /\ \A m \in DOMAIN queue[key] : queue[key][m] = queue[key][n] => m = n
      BY <2>1, <3>1 DEF ApiInv, BaseInv, QueueInv
    <3>3. QED
      BY <2>1, <3>2 DEF ApiInv, BaseInv, Typed, TypeOK
  <2>3. OneExecution
    BY <2>1 DEF ApiInv, DataInv
  <2>4. AnswersOwnInput
    BY <2>1 DEF ApiInv, EndInv, AnswersOwnInput
  <2>5. ValidSubmissionsAreServed
    BY <2>1 DEF ApiInv, EndInv, BaseInv, Stages, ValidSubmissionsAreServed
  <2>6. QED
    BY <2>2, <2>3, <2>4, <2>5 DEF SubmissionsAreIdempotent
<1>2. QED
  BY <1>1, ApiInit, ApiStep, PTL DEF Spec

\* An id belongs to one scope, in every app: the scope that may read a run is the one that
\* resolved it, a run stored by /resolve stays readable whatever others do with its id,
\* and what is bound or reserved is earned (reservation, binding and their undo in
\* resolve of api.py).
THEOREM OwnersAreSound == Spec => []OwnershipIsSound
<1>1. ApiInv => OwnershipIsSound
  <2>1. SUFFICES ASSUME ApiInv PROVE OwnershipIsSound
    OBVIOUS
  <2>2. ResolvedRunsStayReachable
    BY <2>1 DEF ApiInv, DataInv, StoredInv, ResolvedRunsStayReachable, StaysReachable, Readable
  <2>3. QED
    BY <2>1, <2>2 DEF ApiInv, DataInv, OwnershipIsSound
<1>2. QED
  BY <1>1, ApiInit, ApiStep, PTL DEF Spec

=============================================================================

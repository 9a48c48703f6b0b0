------------------------------ MODULE HttpPool ------------------------------
(***************************************************************************)
(* The connection pools of clients/llm.py and clients/infra.py, the tasks  *)
(* that call through them (a turn's chat calls, the probes of /v1/ready)   *)
(* and the lifespan of main.py that closes them.                           *)
(*                                                                         *)
(* A pool is built by the first call that needs it and closed by a         *)
(* shutdown that waits only for a grace period, so calls may still run     *)
(* beside it.  The lock of _http encloses no await: no other task ever     *)
(* sees it held, so it is not a variable here.  What a task can do is be   *)
(* suspended where it waits for the lock, between the two checks.  (An     *)
(* asyncio.Lock that is free does not suspend today; the model lets it.)   *)
(***************************************************************************)
EXTENDS Integers, Sequences, FiniteSets

CONSTANTS
  Tasks,     \* request tasks
  Kind,      \* what each is: a "turn", or a "ready" request
  MaxServes  \* bound: how often the app's lifespan is entered

Clients == {"llm", "infra"}

ASSUME HttpPoolAssumption ==
  /\ Kind \in [Tasks -> {"turn", "ready"}]
  /\ MaxServes \in Nat \ {0}

VARIABLES
  client,  \* _client of each client: the index of its pool, 0 for None
  pool,    \* every pool a client built, in order
  closed,  \* _closed of each client
  pc,      \* where each task is, or how it ended
  at,      \* the client a task calls
  using,   \* the pool its request went out on
  asked,   \* model calls of a turn that came back
  reached, \* ready requests whose probe of air-llm reached it
  server,  \* what the server is doing; in a shutdown, which aclose it is in
  serves,  \* how often it started
  late     \* history: tasks the grace period of a shutdown left unfinished

poolVars == <<client, pool, closed>>
taskVars == <<pc, at, using, asked, reached>>
serverVars == <<server, serves, late>>
vars == <<poolVars, taskVars, serverVars>>

Working == {"call", "waiting", "sent"}
\* a turn is answered, degraded or an error; /v1/ready answers 200 or 503; a
\* task is refused by a closed pool (a RuntimeError of httpx) or cancelled
Ended == {"answered", "degraded", "error", "ready", "unready", "refused", "cut"}
Busy == {t \in Tasks : pc[t] \in Working}

\* late: built when the shutdown under way had already passed its client
Pool == [state : {"open", "closing", "closed"}, late : BOOLEAN]

TypeOK ==
  /\ client \in [Clients -> Nat]
  /\ pool \in [Clients -> Seq(Pool)]
  /\ \A c \in Clients : client[c] \in 0..Len(pool[c])
  /\ closed \in [Clients -> BOOLEAN]
  /\ pc \in [Tasks -> {"idle"} \cup Working \cup Ended]
  /\ at \in [Tasks -> Clients]
  /\ using \in [Tasks -> Nat]
  /\ \A t \in Tasks : pc[t] = "sent" => using[t] \in 1..Len(pool[at[t]])
  /\ asked \in [Tasks -> 0..2]
  /\ reached \subseteq Tasks
  /\ server \in {"serving", "draining", "stopped"} \cup Clients
  /\ serves \in 1..MaxServes
  /\ late \subseteq Tasks

-----------------------------------------------------------------------------
(* A call *)

\* client.get or client.post: httpx refuses once the pool began to close
Dispatch(t, p, pools) ==
  /\ using' = [using EXCEPT ![t] = p]
  /\ pc' = [pc EXCEPT ![t] = IF pools[p].state = "open" THEN "sent" ELSE "refused"]

\* _http finds the pool
Reuse(t) ==
  LET c == at[t] IN
  /\ pc[t] = "call"
  /\ client[c] # 0
  /\ Dispatch(t, client[c], pool[c])
  /\ UNCHANGED <<poolVars, at, asked, reached, serverVars>>

\* _http finds none and waits for the lock
Wait(t) ==
  /\ pc[t] = "call"
  /\ client[at[t]] = 0
  /\ pc' = [pc EXCEPT ![t] = "waiting"]
  /\ UNCHANGED <<poolVars, at, using, asked, reached, serverVars>>

\* the shutdown is through with the client
Passed(c) == server = "stopped" \/ (c = "infra" /\ server = "llm")

\* mutant of Built: what was checked before the lock is believed
BuiltUnchecked(c) == Append(pool[c], [state |-> "open", late |-> Passed(c)])

\* the check inside the lock, and the pool it may have to build
Built(c) ==
  IF client[c] # 0 THEN pool[c]
  ELSE Append(pool[c], [state |-> "open", late |-> Passed(c)])

\* mutant of Build: who finds a pool built meanwhile goes on waiting
BuildAlone(t) ==
  LET c == at[t]
      p == IF Built(c) = pool[c] THEN client[c] ELSE Len(Built(c))
  IN
  /\ pc[t] = "waiting"
  /\ client[c] = 0
  /\ pool' = [pool EXCEPT ![c] = Built(c)]
  /\ client' = [client EXCEPT ![c] = p]
  /\ Dispatch(t, p, Built(c))
  /\ UNCHANGED <<closed, at, asked, reached, serverVars>>

\* the lock is free: check again, build, and call
Build(t) ==
  LET c == at[t]
      p == IF Built(c) = pool[c] THEN client[c] ELSE Len(Built(c))
  IN
  /\ pc[t] = "waiting"
  /\ pool' = [pool EXCEPT ![c] = Built(c)]
  /\ client' = [client EXCEPT ![c] = p]
  /\ Dispatch(t, p, Built(c))
  /\ UNCHANGED <<closed, at, asked, reached, serverVars>>

\* a request can be answered until its pool is closed under it
Alive(t) == pool[at[t]][using[t]].state # "closed"

\* chat: an answer (a turn with a schema asks again), or a body that is no
\* ChatResult, an exception chat lets through
ChatReturns(t) ==
  /\ pc[t] = "sent" /\ Kind[t] = "turn" /\ Alive(t)
  /\ asked' = [asked EXCEPT ![t] = @ + 1]
  /\ \E end \in {"answered", "error"} \cup (IF asked[t] = 0 THEN {"call"} ELSE {}) :
       pc' = [pc EXCEPT ![t] = end]
  /\ UNCHANGED <<poolVars, at, using, reached, serverVars>>

\* chat: LlmCallError, for a timeout, a broken connection or a bad status;
\* after a first answer it costs only the structured field
ChatFails(t) ==
  /\ pc[t] = "sent" /\ Kind[t] = "turn"
  /\ pc' = [pc EXCEPT ![t] = IF asked[t] = 0 THEN "degraded" ELSE "answered"]
  /\ UNCHANGED <<poolVars, at, using, asked, reached, serverVars>>

\* probe: it returns whether the service is reachable or not
Probed(t) == IF Alive(t) THEN BOOLEAN ELSE {FALSE}

\* /v1/ready asks air-llm, whose answer is its own, then air-infra
ProbeLlm(t) ==
  /\ pc[t] = "sent" /\ Kind[t] = "ready" /\ at[t] = "llm"
  /\ \E ok \in Probed(t) : reached' = IF ok THEN reached \cup {t} ELSE reached
  /\ at' = [at EXCEPT ![t] = "infra"]
  /\ pc' = [pc EXCEPT ![t] = "call"]
  /\ UNCHANGED <<poolVars, using, asked, serverVars>>

ProbeInfra(t) ==
  /\ pc[t] = "sent" /\ Kind[t] = "ready" /\ at[t] = "infra"
  /\ pc' = [pc EXCEPT ![t] = IF t \in reached THEN "ready" ELSE "unready"]
  /\ UNCHANGED <<poolVars, at, using, asked, reached, serverVars>>

Work(t) ==
  \/ Reuse(t) \/ Wait(t) \/ Build(t)
  \/ ChatReturns(t) \/ ChatFails(t) \/ ProbeLlm(t) \/ ProbeInfra(t)

\* the client of a streamed turn leaves, or the grace period is over
Cancel(t) ==
  /\ pc[t] \in Working
  /\ Kind[t] = "turn" \/ t \in late
  /\ pc' = [pc EXCEPT ![t] = "cut"]
  /\ UNCHANGED <<poolVars, at, using, asked, reached, serverVars>>

-----------------------------------------------------------------------------
(* The server and its lifespan *)

Arrive(t) ==
  /\ server = "serving"
  /\ pc[t] = "idle"
  /\ pc' = [pc EXCEPT ![t] = "call"]
  /\ UNCHANGED <<poolVars, at, using, asked, reached, serverVars>>

Stop ==
  /\ server = "serving"
  /\ server' = "draining"
  /\ UNCHANGED <<poolVars, taskVars, serves, late>>

\* every request is done, or the grace period ends and the rest is cancelled:
\* the lifespan goes on at its finally
Drained ==
  /\ server = "draining"
  /\ late' = late \cup Busy
  /\ server' = "infra"
  /\ UNCHANGED <<poolVars, taskVars, serves>>

\* mutant of Following: only the first client is closed
FollowingNone(c) == "stopped"

Following(c) == IF c = "infra" THEN "llm" ELSE "stopped"

Closing(c) == client[c] # 0 /\ pool[c][client[c]].state = "closing"

\* aclose returns at once: it ran before, or there is no pool
CloseNothing(c) ==
  /\ server = c /\ ~Closing(c)
  /\ closed[c] \/ client[c] = 0
  /\ closed' = [closed EXCEPT ![c] = TRUE]
  /\ server' = Following(c)
  /\ UNCHANGED <<client, pool, taskVars, serves, late>>

CloseBegins(c) ==
  /\ server = c /\ ~closed[c] /\ client[c] # 0
  /\ closed' = [closed EXCEPT ![c] = TRUE]
  /\ pool' = [pool EXCEPT ![c][client[c]].state = "closing"]
  /\ UNCHANGED <<client, taskVars, serverVars>>

\* mutant of CloseEnds: the closed pool is kept
CloseEndsKept(c) ==
  /\ server = c /\ Closing(c)
  /\ pool' = [pool EXCEPT ![c][client[c]].state = "closed"]
  /\ server' = Following(c)
  /\ UNCHANGED <<client, closed, taskVars, serves, late>>

CloseEnds(c) ==
  /\ server = c /\ Closing(c)
  /\ pool' = [pool EXCEPT ![c][client[c]].state = "closed"]
  /\ client' = [client EXCEPT ![c] = 0]
  /\ server' = Following(c)
  /\ UNCHANGED <<closed, taskVars, serves, late>>

\* the same application is served again, in another event loop
ServeAgain ==
  /\ server = "stopped" /\ Busy = {}
  /\ serves < MaxServes
  /\ server' = "serving"
  /\ serves' = serves + 1
  /\ UNCHANGED <<poolVars, taskVars, late>>

Lifespan ==
  Drained \/ \E c \in Clients : CloseNothing(c) \/ CloseBegins(c) \/ CloseEnds(c)

-----------------------------------------------------------------------------
Init ==
  /\ client = [c \in Clients |-> 0]
  /\ pool = [c \in Clients |-> <<>>]
  /\ closed = [c \in Clients |-> FALSE]
  /\ pc = [t \in Tasks |-> "idle"]
  /\ at = [t \in Tasks |-> "llm"]
  /\ using = [t \in Tasks |-> 0]
  /\ asked = [t \in Tasks |-> 0]
  /\ reached = {}
  /\ server = "serving"
  /\ serves = 1
  /\ late = {}

Next ==
  \/ \E t \in Tasks : Arrive(t) \/ Work(t) \/ Cancel(t)
  \/ Stop \/ Lifespan \/ ServeAgain

Spec == Init /\ [][Next]_vars

\* The event loop runs every task that is ready, a request is bounded by its
\* timeout, and the grace period ends.  Nobody need call, leave or stop.
Fairness == WF_vars(Lifespan) /\ \A t \in Tasks : WF_vars(Work(t))
FairSpec == Spec /\ Fairness

-----------------------------------------------------------------------------
(* What must hold *)

\* However many first calls race, beside a shutdown or not, an open pool is
\* the one its client would use: none is built and lost (_http).
NoOrphan ==
  \A c \in Clients : \A i \in DOMAIN pool[c] :
    pool[c][i].state = "open" => client[c] = i

\* A call is refused by a closed pool only if the grace period had ended
\* before it did: never while the server serves or drains, in the first life
\* of the application or in the next.
RefusedOnlyLate == \A t \in Tasks : pc[t] = "refused" => t \in late

\* The shutdown of the first life leaves no pool open that was built before it
\* was through with its client (the finally of the lifespan), though calls may
\* still run, and build, beside it.  That of a second life closes nothing.
ShutdownReleases ==
  serves = 1 /\ server = "stopped" =>
    \A c \in Clients : \A i \in DOMAIN pool[c] :
      pool[c][i].state = "open" => pool[c][i].late

\* A call that began ends, and a shutdown does too, whatever the calls do.
CallsAndShutdownsEnd ==
  /\ \A t \in Tasks : t \in Busy ~> pc[t] \in Ended
  /\ server = "draining" ~> server = "stopped"

=============================================================================

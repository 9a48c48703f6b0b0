------------------------------ MODULE Sessions ------------------------------
(***************************************************************************)
(* The in-memory session store (memory/session.py, schemas/session.py) and *)
(* the blocks of a turn (engine/turn.py) that read or write a session.     *)
(*                                                                         *)
(* One worker process runs every request as a coroutine on one event loop. *)
(* No method of the store suspends, so what runs between two suspension    *)
(* points of a turn is one atomic action here.  A streaming turn suspends  *)
(* at every event it yields and at its model call; a JSON turn only at the *)
(* model call, so its interleavings are among the ones checked.            *)
(*                                                                         *)
(* The store hands out the Session object itself, never a copy: a turn     *)
(* keeps its reference across every suspension, after a delete and after   *)
(* an expiry.  Hence `object' (the heap) is kept apart from `held' (the    *)
(* keys of the _sessions dict).  Ids are uuid4 values and never collide: a *)
(* session is named after the turn that created it and a proposal after    *)
(* the turn that offered it, which creates and offers at most one.         *)
(***************************************************************************)
EXTENDS Integers, Sequences, FiniteSets, FiniteSetsExt

CONSTANTS
  Turns,        \* requests that may ever arrive, one turn each
  Keys,         \* API keys (Principal.key_id)
  Tenant,       \* the tenant of each key
  Channel,      \* the channel of each key: "customer" or "business"
  Texts,        \* what the message text can trigger, see request
  Window,       \* settings.turn.window_turns
  Ceiling,      \* settings.session.max_cost_usd; None is unlimited
  MaxTurnCost,  \* bound: the most one turn is charged
  SessionTtl,   \* settings.session.ttl_seconds
  ProposalTtl,  \* settings.session.proposal_ttl_seconds
  MaxNow,       \* bound: the last tick of the clock
  MaxInFlight,  \* bound: turns in flight at once
  None,         \* Python's None
  Bogus         \* a proposal id no turn ever offered

TextKinds == {"plain", "propose", "diverted"}

ASSUME SessionsAssumption ==
  /\ IsFiniteSet(Turns)
  /\ None \notin Turns /\ None \notin Keys /\ Bogus \notin Turns /\ Bogus # None
  /\ Channel \in [Keys -> {"customer", "business"}]
  /\ DOMAIN Tenant = Keys
  /\ Texts \subseteq TextKinds
  /\ Window \in Nat \ {0}
  /\ Ceiling = None \/ Ceiling \in Nat \ {0}
  /\ None \notin Nat
  /\ MaxTurnCost \in Nat /\ MaxNow \in Nat /\ MaxInFlight \in Nat
  /\ SessionTtl \in Nat /\ ProposalTtl \in Nat \ {0}

VARIABLES
  now,        \* the wall clock, in ticks
  object,     \* the Session object each turn created, live or garbage
  held,       \* the ids the store's dict maps to their object
  request,    \* what each turn was asked: the principal and the body
  pc,         \* where each turn is suspended, or how it ended
  session,    \* the Session object each turn works on
  confirmed,  \* the proposal _resolve_confirmation returned to the turn
  cost,       \* what the gateway reported to have charged the turn (its Usage)
  offered,    \* proposals published to a client
  executed,   \* <<proposal, turn>>: the turn answered "Executed ..."
  standing,   \* history: the proposal pending when the turn arrived
  admitted    \* history: turns that reached _resolve_confirmation

storeVars == <<object, held>>
turnVars  == <<request, pc, session, confirmed, cost, offered, executed>>
pastVars  == <<standing, admitted>>
vars == <<now, storeVars, turnVars, pastVars>>

-----------------------------------------------------------------------------
(* Values *)

NoProposal == [id |-> None, expires |-> 0]
NoSession  == [owner |-> None, turns |-> <<>>, pending |-> NoProposal,
               updated |-> 0, total |-> 0]
NoConfirm  == [id |-> None, approve |-> FALSE]
NoRequest  == [key |-> None, confirm |-> NoConfirm, text |-> "plain"]

\* suspended: before admission, before synthesis, in the model call or in the
\* second one of a business turn, before persist
Suspended == {"started", "planned", "calling", "structuring", "answering"}
\* how a turn ends: persisted, or cut short by an error or a client that left
Ended == {"done", "dropped"}

Created  == {s \in Turns : object[s].owner # None}
InFlight == {t \in Turns : pc[t] \in Suspended}
Pending(s) == object[s].pending.id
Persisted(t) == pc[t] = "done"

Message == [turn : Turns, role : {"user", "assistant"}]
SessionObject ==
  [owner : Keys \cup {None}, turns : Seq(Message),
   pending : [id : Turns \cup {None}, expires : Nat], updated : Nat, total : Nat]
TurnRequest ==
  [key : Keys \cup {None},
   confirm : [id : Turns \cup {None, Bogus}, approve : BOOLEAN], text : TextKinds]

TypeOK ==
  /\ now \in 0..MaxNow
  /\ object \in [Turns -> SessionObject]
  /\ held \subseteq Turns
  /\ request \in [Turns -> TurnRequest]
  /\ pc \in [Turns -> {"idle"} \cup Suspended \cup Ended]
  /\ session \in [Turns -> Turns \cup {None}]
  /\ confirmed \in [Turns -> Turns \cup {None}]
  /\ cost \in [Turns -> 0..MaxTurnCost]
  /\ offered \subseteq Turns
  /\ executed \subseteq Turns \X Turns
  /\ standing \in [Turns -> Turns \cup {None}]
  /\ admitted \subseteq Turns

-----------------------------------------------------------------------------
(* The store.  A key of the dict is "<prefix><tenant>:session:<id>".       *)

Keyed(s, k) == s \in held /\ Tenant[object[s].owner] = Tenant[k]

\* mutant of Expired: one tick late
ExpiredLate(s) == object[s].updated + SessionTtl + 1 < now
Expired(s)  == object[s].updated + SessionTtl < now

\* mutant of OwnedBy: the tenant alone isolates
OwnedByTenant(s, k) == Tenant[object[s].owner] = Tenant[k]
OwnedBy(s, k) == object[s].owner = k

\* get: what it returns, and what it leaves in the dict
Found(s, k) == Keyed(s, k) /\ ~Expired(s) /\ OwnedBy(s, k)
AfterGet(s, k) == IF Keyed(s, k) /\ Expired(s) THEN held \ {s} ELSE held

Fresh(k) == [NoSession EXCEPT !.owner = k, !.updated = now]

\* mutant of IsExpired: confirmable at its last instant
IsExpiredLate(p) == now > p.expires
IsExpired(p) == now >= p.expires

\* mutant of Resolved: the client's id is believed
ResolvedByClient(t) ==
  IF request[t].confirm.approve THEN request[t].confirm.id ELSE None

\* mutant of Resolved: approve is not looked at
ResolvedUnapproved(t) ==
  LET confirm == request[t].confirm
      pending == object[session[t]].pending
  IN  IF confirm.id # None /\ pending.id = confirm.id /\ ~IsExpired(pending)
      THEN pending.id ELSE None

\* _resolve_confirmation: clear_pending without a confirm, else take_pending,
\* whose result stands only if the caller approved it
Resolved(t) ==
  LET confirm == request[t].confirm
      pending == object[session[t]].pending
  IN  IF /\ confirm.id # None
         /\ pending.id = confirm.id
         /\ ~IsExpired(pending)
         /\ confirm.approve
      THEN pending.id
      ELSE None

\* mutant of Unpend: take_pending reads instead of consuming
UnpendNothing(t) == UNCHANGED object

\* mutant of Unpend: a confirmation of another proposal leaves this one
UnpendOnMatch(t) ==
  IF request[t].confirm.id \in {None, Pending(session[t])}
    THEN object' = [object EXCEPT ![session[t]].pending = NoProposal]
    ELSE UNCHANGED object

\* both paths leave no proposal; clear_pending saves only if there was one
Unpend(t) == object' = [object EXCEPT ![session[t]].pending = NoProposal]
SavedByResolve(t) ==
  IF request[t].confirm.id # None \/ Pending(session[t]) # None
    THEN held \cup {session[t]} ELSE held

\* mutant of Trim: one message too many is dropped
TrimShort(h) == IF Len(h) > Window THEN SubSeq(h, Len(h) - Window + 2, Len(h)) ELSE h

Trim(h) == IF Len(h) > Window THEN SubSeq(h, Len(h) - Window + 1, Len(h)) ELSE h

\* mutant of WithTurn: the answer is appended first
WithTurnSwapped(h, t) ==
  Trim(Append(Trim(Append(h, [turn |-> t, role |-> "assistant"])),
              [turn |-> t, role |-> "user"]))

WithTurn(h, t) ==
  Trim(Append(Trim(Append(h, [turn |-> t, role |-> "user"])),
              [turn |-> t, role |-> "assistant"]))

OverBudget(s) == Ceiling # None /\ object[s].total >= Ceiling

-----------------------------------------------------------------------------
(* A turn.  Every action takes the turn from one suspension to the next.   *)

\* The bodies a client can send: only the customer route has a confirm field,
\* and a client knows the ids that were published to it or to another client.
Confirms(k) ==
  {NoConfirm} \cup
  (IF Channel[k] = "customer"
     THEN [id : offered, approve : BOOLEAN] \cup [id : {Bogus}, approve : {TRUE}] ELSE {})

Arrive(t, k, confirm, text) ==
  /\ pc[t] = "idle"
  /\ Cardinality(InFlight) < MaxInFlight
  /\ request' = [request EXCEPT
       ![t] = [key |-> k, confirm |-> confirm, text |-> text]]
  /\ pc' = [pc EXCEPT ![t] = "started"]
  /\ UNCHANGED <<now, confirmed, cost, offered, executed, admitted>>

\* _resolve_session finds the session it was asked to continue
Resume(t, k, s, confirm, text) ==
  /\ Found(s, k)
  /\ Arrive(t, k, confirm, text)
  /\ session' = [session EXCEPT ![t] = s]
  /\ standing' = [standing EXCEPT ![t] = Pending(s)]
  /\ UNCHANGED storeVars

\* ... or it was asked for none, or get returned None, and creates one
Open(t, k, s, confirm, text) ==
  /\ s = None \/ ~Found(s, k)
  /\ Arrive(t, k, confirm, text)
  /\ session' = [session EXCEPT ![t] = t]
  /\ object' = [object EXCEPT ![t] = Fresh(k)]
  /\ held' = (IF s = None THEN held ELSE AfterGet(s, k)) \cup {t}
  /\ UNCHANGED standing

\* The early returns of _pipeline: blocked, escalated or over the session
\* ceiling.  They reach the answer without resolving a confirmation.
Diverted(t) == request[t].text = "diverted" \/ OverBudget(session[t])

Divert(t) ==
  /\ pc[t] = "started"
  /\ Diverted(t)
  /\ pc' = [pc EXCEPT ![t] = "answering"]
  /\ UNCHANGED <<now, storeVars, request, session, confirmed, cost, offered, executed, pastVars>>

Admit(t) ==
  /\ pc[t] = "started"
  /\ ~Diverted(t)
  /\ confirmed' = [confirmed EXCEPT ![t] = Resolved(t)]
  /\ Unpend(t)
  /\ held' = SavedByResolve(t)
  /\ pc' = [pc EXCEPT ![t] = "planned"]
  /\ admitted' = admitted \cup {t}
  /\ UNCHANGED <<now, request, session, cost, offered, executed, standing>>

Proposes(t) == request[t].text = "propose" /\ confirmed[t] = None

\* mutant of NeedsModel: a confirmation does not replace the model's answer
NeedsModelAnyway(t) == ~Proposes(t)

NeedsModel(t) == confirmed[t] = None /\ ~Proposes(t)

\* _propose and set_pending; the proposal event publishes the id
Propose(t) ==
  /\ pc[t] = "planned"
  /\ Proposes(t)
  /\ object' = [object EXCEPT
       ![session[t]].pending = [id |-> t, expires |-> now + ProposalTtl]]
  /\ held' = held \cup {session[t]}
  /\ offered' = offered \cup {t}
  /\ pc' = [pc EXCEPT ![t] = "answering"]
  /\ UNCHANGED <<now, request, session, confirmed, cost, executed, standing, admitted>>

\* _answer with a confirmed proposal: the stand-in for the mutation
Execute(t) ==
  /\ pc[t] = "planned"
  /\ confirmed[t] # None
  /\ executed' = executed \cup {<<confirmed[t], t>>}
  /\ pc' = [pc EXCEPT ![t] = "answering"]
  /\ UNCHANGED <<now, storeVars, request, session, confirmed, cost, offered, pastVars>>

\* _answer reaches the await on the gateway
Call(t) ==
  /\ pc[t] = "planned"
  /\ NeedsModel(t)
  /\ pc' = [pc EXCEPT ![t] = "calling"]
  /\ UNCHANGED <<now, storeVars, request, session, confirmed, cost, offered, executed, pastVars>>

\* the deadline was exhausted before the call, or the call raised LlmCallError
Degrade(t) ==
  /\ pc[t] = "calling" \/ (pc[t] = "planned" /\ NeedsModel(t))
  /\ pc' = [pc EXCEPT ![t] = "answering"]
  /\ UNCHANGED <<now, storeVars, request, session, confirmed, cost, offered, executed, pastVars>>

\* a business turn may ask again, for an answer that matches its schema
CallReturns(t) ==
  /\ pc[t] = "calling"
  /\ \E c \in 0..MaxTurnCost : cost' = [cost EXCEPT ![t] = c]
  /\ \/ pc' = [pc EXCEPT ![t] = "answering"]
     \/ /\ Channel[request[t].key] = "business"
        /\ pc' = [pc EXCEPT ![t] = "structuring"]
  /\ UNCHANGED <<now, storeVars, request, session, confirmed, offered, executed, pastVars>>

\* the second call came back, at some cost, or failed
Structured(t) ==
  /\ pc[t] = "structuring"
  /\ \E c \in cost[t]..MaxTurnCost : cost' = [cost EXCEPT ![t] = c]
  /\ pc' = [pc EXCEPT ![t] = "answering"]
  /\ UNCHANGED <<now, storeVars, request, session, confirmed, offered, executed, pastVars>>

\* an exception other than LlmCallError: run() answers error and turn.end
CallRaises(t) ==
  /\ pc[t] \in {"calling", "structuring"}
  /\ pc' = [pc EXCEPT ![t] = "dropped"]
  /\ UNCHANGED <<now, storeVars, request, session, confirmed, cost, offered, executed, pastVars>>

\* mutant of Persist: the total is overwritten
PersistLast(t) ==
  /\ pc[t] = "answering"
  /\ object' = [object EXCEPT
       ![session[t]].turns   = WithTurn(@, t),
       ![session[t]].updated = now,
       ![session[t]].total   = cost[t]]
  /\ held' = held \cup {session[t]}
  /\ pc' = [pc EXCEPT ![t] = "done"]
  /\ UNCHANGED <<now, request, session, confirmed, cost, offered, executed, pastVars>>

\* mutant of Persist: a turn waits for the session to be in the store
PersistHeld(t) ==
  /\ pc[t] = "answering"
  /\ session[t] \in held
  /\ object' = [object EXCEPT
       ![session[t]].turns   = WithTurn(@, t),
       ![session[t]].updated = now,
       ![session[t]].total   = @ + cost[t]]
  /\ pc' = [pc EXCEPT ![t] = "done"]
  /\ UNCHANGED <<now, held, request, session, confirmed, cost, offered, executed, pastVars>>

\* mutant of Persist: the turn is charged twice
PersistTwice(t) ==
  /\ pc[t] = "answering"
  /\ object' = [object EXCEPT
       ![session[t]].turns   = WithTurn(@, t),
       ![session[t]].updated = now,
       ![session[t]].total   = @ + cost[t] + cost[t]]
  /\ held' = held \cup {session[t]}
  /\ pc' = [pc EXCEPT ![t] = "done"]
  /\ UNCHANGED <<now, request, session, confirmed, cost, offered, executed, pastVars>>

\* what _finish_with_answer does after the answer event
Persist(t) ==
  /\ pc[t] = "answering"
  /\ object' = [object EXCEPT
       ![session[t]].turns   = WithTurn(@, t),
       ![session[t]].updated = now,
       ![session[t]].total   = @ + cost[t]]
  /\ held' = held \cup {session[t]}
  /\ pc' = [pc EXCEPT ![t] = "done"]
  /\ UNCHANGED <<now, request, session, confirmed, cost, offered, executed, pastVars>>

\* the client goes away: the task is cancelled at its suspension point
Disconnect(t) ==
  /\ pc[t] \in Suspended
  /\ pc' = [pc EXCEPT ![t] = "dropped"]
  /\ UNCHANGED <<now, storeVars, request, session, confirmed, cost, offered, executed, pastVars>>

-----------------------------------------------------------------------------
(* The session routes, the clock, and the process *)

GetSession(k, s) ==
  /\ held' = AfterGet(s, k)
  /\ UNCHANGED <<now, object, turnVars, pastVars>>

DeleteSession(k, s) ==
  /\ held' = IF Found(s, k) THEN held \ {s} ELSE AfterGet(s, k)
  /\ UNCHANGED <<now, object, turnVars, pastVars>>

Tick ==
  /\ now < MaxNow
  /\ now' = now + 1
  /\ UNCHANGED <<storeVars, turnVars, pastVars>>

\* the worker dies and a new one starts with an empty store: there is no
\* other backend, whatever session.backend says
Restart ==
  /\ held' = {}
  /\ pc' = [t \in Turns |-> IF pc[t] \in Suspended THEN "dropped" ELSE pc[t]]
  /\ UNCHANGED <<now, object, request, session, confirmed, cost, offered, executed, pastVars>>

-----------------------------------------------------------------------------
Init ==
  /\ now = 0
  /\ object = [t \in Turns |-> NoSession]
  /\ held = {}
  /\ request = [t \in Turns |-> NoRequest]
  /\ pc = [t \in Turns |-> "idle"]
  /\ session = [t \in Turns |-> None]
  /\ confirmed = [t \in Turns |-> None]
  /\ cost = [t \in Turns |-> 0]
  /\ offered = {}
  /\ executed = {}
  /\ standing = [t \in Turns |-> None]
  /\ admitted = {}

Step(t) ==
  \/ Divert(t) \/ Admit(t) \/ Propose(t) \/ Execute(t)
  \/ Call(t) \/ Degrade(t) \/ CallReturns(t) \/ Structured(t) \/ CallRaises(t)
  \/ Persist(t)

Request(t) ==
  \E k \in Keys, s \in Created \cup {None}, text \in Texts :
    \E confirm \in Confirms(k) :
      Resume(t, k, s, confirm, text) \/ Open(t, k, s, confirm, text)

Next ==
  \/ \E t \in Turns : Request(t) \/ Step(t) \/ Disconnect(t)
  \/ \E k \in Keys, s \in Created : GetSession(k, s) \/ DeleteSession(k, s)
  \/ Tick
  \/ Restart

Spec == Init /\ [][Next]_vars

\* The event loop runs every coroutine that is ready, and a model call is
\* bounded by its timeout.  Clients and the clock owe nothing.
Fairness == \A t \in Turns : WF_vars(Step(t))
FairSpec == Spec /\ Fairness

-----------------------------------------------------------------------------
(* What must hold *)

\* A proposal is executed by one turn at most, however confirmations are
\* replayed or race (memory/session.py take_pending, REQ-MUT-006).
AtMostOnce ==
  \A p, t, u \in Turns : <<p, t>> \in executed /\ <<p, u>> \in executed => t = u

\* Only a structured, approving confirmation executes, in another turn of the
\* session that holds the proposal, by the key that was offered it, and the
\* proposal is then no longer pending (REQ-MUT-003, 004, 005).
OnlyByConfirmation ==
  \A p, t \in Turns : <<p, t>> \in executed =>
    /\ t # p
    /\ request[t].confirm = [id |-> p, approve |-> TRUE]
    /\ session[t] = session[p]
    /\ request[t].key = request[p].key
    /\ Pending(session[t]) # p

\* Whatever its confirm field says, a turn that is admitted settles the
\* proposal it found, for good: nothing brings it back (REQ-MUT-006, 007).
AdmittedTurnSettles ==
  \A t \in admitted : standing[t] # None => Pending(session[t]) # standing[t]

\* Every message of a session's history, which is replayed into prompts and
\* shown by GET, was sent by the key that owns the session (Session.owned_by).
HistoryIsTheOwners ==
  \A s \in Created : \A i \in DOMAIN object[s].turns :
    LET t == object[s].turns[i].turn
    IN  request[t].key = object[s].owner /\ session[t] = s

\* Concurrent turns neither interleave their messages nor tear a pair, except
\* that trimming to an odd window leaves the oldest answer alone.
HistoryPaired ==
  \A s \in Turns : LET h == object[s].turns IN
    \A i \in DOMAIN h :
      /\ h[i].role = "user" =>
           i < Len(h) /\ h[i + 1] = [turn |-> h[i].turn, role |-> "assistant"]
      /\ h[i].role = "assistant" /\ i > 1 =>
           h[i - 1] = [turn |-> h[i].turn, role |-> "user"]

\* No persisted turn is lost to a concurrent one: the history holds the last
\* Window messages of all the turns that persisted.
DoneOn(s) == {t \in Turns : session[t] = s /\ Persisted(t)}
NoLostTurn ==
  \A s \in Turns :
    Len(object[s].turns) = Min({Window, 2 * Cardinality(DoneOn(s))})

\* total_cost_usd is the sum of what the persisted turns cost: no update of
\* two turns in flight is lost, and none is added twice.
CostOf(T) == MapThenSumSet(LAMBDA t : cost[t], T)
Accounted == \A s \in Created : object[s].total = CostOf(DoneOn(s))

\* The ceiling is checked before a turn and charged after it, so turns in
\* flight together may all overshoot it, but by no more than one turn each.
SpendBound ==
  Ceiling # None =>
    \A s \in Turns : object[s].total < Ceiling + MaxInFlight * MaxTurnCost

\* A new turn continues a session only if the store holds it and it was not
\* idle for longer than its time to live.
ContinuesLive ==
  [][\A t \in Turns : pc[t] = "idle" /\ pc'[t] = "started" /\ session'[t] # t =>
       /\ session'[t] \in held
       /\ now <= object[session'[t]].updated + SessionTtl]_vars

\* Every turn ends, answered, failed or abandoned by its client, and one that
\* is answered has carried out the confirmation it accepted (run, _answer).
TurnsEnd ==
  \A t \in Turns : t \in InFlight ~>
    \/ pc[t] = "dropped"
    \/ pc[t] = "done" /\ (confirmed[t] # None => <<confirmed[t], t>> \in executed)

-----------------------------------------------------------------------------
(* The store and the turns implement the mutation gate: a proposal is what  *)
(* the Session object of its offering turn and the confirming turn make it. *)

GateState == [p \in Turns |->
  IF p \notin offered THEN "none"
  ELSE IF \E t \in Turns : <<p, t>> \in executed THEN "executed"
  ELSE IF Pending(session[p]) = p THEN "pending"
  ELSE IF \E t \in Turns : confirmed[t] = p /\ pc[t] = "planned" THEN "taken"
  ELSE "dead"]
GateHome == [p \in Turns |-> IF p \in offered THEN session[p] ELSE None]
GateExpires == [p \in Turns |->
  IF GateState[p] = "pending" THEN object[session[p]].pending.expires ELSE 0]

Gate == INSTANCE MutationGate WITH
  Proposals <- Turns, Conversations <- Turns, Ttl <- ProposalTtl,
  state <- GateState, home <- GateHome, expires <- GateExpires

\* Every step of the service is a step of the gate or leaves it alone: among
\* other things, no save and no other turn puts off when a pending proposal
\* expires, and none is taken from that instant on (set_pending, is_expired).
ImplementsGate == Gate!Spec

\* Every turn lives the life that TurnEngine describes event by event, whatever
\* the others do meanwhile.
Life(t) == INSTANCE TurnLife WITH
  pc <- pc[t], took <- confirmed[t] # None, cost <- cost[t], MaxCost <- MaxTurnCost
EveryTurnLives ==
  /\ \A t \in Turns : Life(t)!Init
  /\ [][\A t \in Turns : [Life(t)!Next]_(Life(t)!vars)]_vars

-----------------------------------------------------------------------------
(* The inductive invariant behind the theorems of Sessions_proofs          *)

\* A turn that has arrived works on a session of its own key; one that has
\* not has created and offered nothing.
Located ==
  \A t \in Turns :
    IF pc[t] = "idle"
      THEN object[t] = NoSession /\ t \notin offered /\ confirmed[t] = None
           /\ t \notin admitted
      ELSE /\ session[t] \in Turns /\ request[t].key \in Keys
           /\ object[session[t]].owner = request[t].key

\* An offered proposal was offered past admission by a turn that confirmed
\* nothing, and a pending one is pending in the session it was offered in.
OfferedOnce ==
  /\ \A p \in offered : pc[p] \in {"answering", "done", "dropped"} /\ confirmed[p] = None
  /\ \A s \in Turns : Pending(s) # None => Pending(s) \in offered /\ session[Pending(s)] = s
  /\ \A t \in Turns : standing[t] # None => standing[t] \in offered

\* A confirmed proposal is no longer pending, and one turn alone confirmed it.
TakenOnce ==
  \A t \in Turns : confirmed[t] # None =>
    /\ confirmed[t] \in offered
    /\ session[confirmed[t]] = session[t]
    /\ Pending(session[t]) # confirmed[t]
    /\ request[t].confirm = [id |-> confirmed[t], approve |-> TRUE]
    /\ pc[t] # "started"
    /\ \A u \in Turns : confirmed[u] = confirmed[t] => u = t

ExecutedIsTaken ==
  \A p, t \in Turns : <<p, t>> \in executed => confirmed[t] = p /\ pc[t] # "planned"

GateInv ==
  Located /\ OfferedOnce /\ TakenOnce /\ ExecutedIsTaken /\ AdmittedTurnSettles

-----------------------------------------------------------------------------
(* What the repository says and the code does not do *)

\* "Any turn that does not carry a `confirm` object cancels the pending
\* proposal" (REQ-MUT-007) and "the first confirmation attempt consumes it,
\* whether or not that attempt succeeds" (REQ-MUT-006): every turn that found a
\* proposal and was answered leaves it settled.
EveryTurnSettles ==
  \A t \in Turns : Persisted(t) /\ standing[t] # None => Pending(session[t]) # standing[t]

\* DELETE "drops the history and any proposal awaiting confirmation": what is
\* gone from the store does not come back.
GoneIsGone == [][\A s \in Created \ held : s \notin held']_vars

=============================================================================

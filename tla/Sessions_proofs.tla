--------------------------- MODULE Sessions_proofs ---------------------------
(***************************************************************************)
(* Theorems about Sessions, for every value of its constants.              *)
(***************************************************************************)
EXTENDS Sessions, TLAPS, SequenceTheorems

-----------------------------------------------------------------------------
(* The history window *)

\* Trimming and appending keep a history a sequence of messages.
LEMMA TrimType ==
  ASSUME NEW h \in Seq(Message)
  PROVE  Trim(h) \in Seq(Message)
<1>1. CASE Len(h) > Window
  <2> DEFINE m == Len(h) - Window + 1
  <2>1. m \in 1..Len(h)+1 /\ m \in Int /\ Len(h) \in Int
    BY <1>1, SessionsAssumption
  <2>2. \A i \in m..Len(h) : h[i] \in Message
    BY <2>1
  <2>3. SubSeq(h, m, Len(h)) \in Seq(Message)
    BY <2>1, <2>2, SubSeqProperties
  <2>4. QED  BY <1>1, <2>3 DEF Trim
<1>2. CASE ~(Len(h) > Window)  BY <1>2 DEF Trim
<1>3. QED  BY <1>1, <1>2

LEMMA AppendTrimType ==
  ASSUME NEW h \in Seq(Message), NEW m \in Message
  PROVE  Trim(Append(h, m)) \in Seq(Message)
<1>1. Append(h, m) \in Seq(Message)  OBVIOUS
<1>2. QED  BY <1>1, TrimType

LEMMA WithTurnType ==
  ASSUME NEW h \in Seq(Message), NEW t \in Turns
  PROVE  WithTurn(h, t) \in Seq(Message)
<1>1. [turn |-> t, role |-> "user"] \in Message /\ [turn |-> t, role |-> "assistant"] \in Message
  BY DEF Message
<1>2. QED  BY <1>1, AppendTrimType DEF WithTurn

-----------------------------------------------------------------------------
(* Type correctness.  A turn in progress uses session[t] as an index, so    *)
(* the types are inductive only together with Located.                     *)

LEMMA TypeInit == Init => TypeOK /\ Located
<1> SUFFICES ASSUME Init PROVE TypeOK /\ Located
  OBVIOUS
<1>1. NoSession \in SessionObject
  BY DEF NoSession, NoProposal, SessionObject
<1>2. NoRequest \in TurnRequest
  BY DEF NoRequest, NoConfirm, TurnRequest, TextKinds
<1>3. TypeOK
  BY <1>1, <1>2, SessionsAssumption DEF Init, TypeOK
<1>4. Located
  BY SessionsAssumption DEF Init, Located
<1>5. QED  BY <1>3, <1>4

LEMMA ArriveType ==
  ASSUME TypeOK, NEW t \in Turns, NEW k \in Keys, NEW text \in Texts,
         NEW confirm \in Confirms(k), Arrive(t, k, confirm, text)
  PROVE  /\ request' \in [Turns -> TurnRequest]
         /\ request' = [request EXCEPT ![t] = [key |-> k, confirm |-> confirm, text |-> text]]
         /\ pc' \in [Turns -> {"idle"} \cup Suspended \cup Ended]
         /\ pc[t] = "idle" /\ pc' = [pc EXCEPT ![t] = "started"]
<1>1. confirm \in [id : Turns \cup {None, Bogus}, approve : BOOLEAN]
  <2>1. \/ confirm = NoConfirm
        \/ confirm \in [id : offered, approve : BOOLEAN]
        \/ confirm \in [id : {Bogus}, approve : {TRUE}]
    BY DEF Confirms
  <2>2. offered \subseteq Turns  BY DEF TypeOK
  <2>3. CASE confirm = NoConfirm  BY <2>3 DEF NoConfirm
  <2>4. CASE confirm \in [id : offered, approve : BOOLEAN]  BY <2>2, <2>4
  <2>5. CASE confirm \in [id : {Bogus}, approve : {TRUE}]  BY <2>5
  <2>6. QED  BY <2>1, <2>3, <2>4, <2>5
<1>2. [key |-> k, confirm |-> confirm, text |-> text] \in TurnRequest
  BY <1>1, SessionsAssumption DEF TurnRequest
<1>3. QED
  BY <1>2 DEF Arrive, TypeOK, Suspended

\* The record updates the actions make stay in the type of a session.
LEMMA PendingType ==
  ASSUME TypeOK, NEW s \in Turns \cup {None},
         NEW p \in [id : Turns \cup {None}, expires : Nat],
         object' = [object EXCEPT ![s].pending = p]
  PROVE  /\ object' \in [Turns -> SessionObject]
         /\ \A r \in Turns :
              /\ object'[r].owner = object[r].owner
              /\ object'[r].turns = object[r].turns
              /\ object'[r].total = object[r].total
              /\ r # s => object'[r].pending = object[r].pending
              /\ r = s => object'[r].pending = p
<1>1. object \in [Turns -> SessionObject]  BY DEF TypeOK
<1>2. ASSUME NEW r \in Turns
      PROVE  /\ object'[r] = IF r = s THEN [object[r] EXCEPT !.pending = p] ELSE object[r]
             /\ object'[r] \in SessionObject
  <2>1. object'[r] = IF r = s THEN [object[r] EXCEPT !.pending = p] ELSE object[r]
    BY <1>1
  <2>2. object[r] \in SessionObject  BY <1>1
  <2>3. [object[r] EXCEPT !.pending = p] \in SessionObject  BY <2>2 DEF SessionObject
  <2>4. QED  BY <2>1, <2>2, <2>3
<1>3. object' = [r \in Turns |-> object'[r]]  BY <1>1
<1>4. object' \in [Turns -> SessionObject]  BY <1>2, <1>3
<1>5. QED  BY <1>1, <1>2, <1>4 DEF SessionObject

LEMMA PersistEffect ==
  ASSUME TypeOK, NEW t \in Turns, Persist(t)
  PROVE  /\ object' \in [Turns -> SessionObject]
         /\ \A r \in Turns :
              /\ object'[r].owner = object[r].owner
              /\ object'[r].pending = object[r].pending
              /\ object'[r].turns = IF r = session[t] THEN WithTurn(object[r].turns, t)
                                   ELSE object[r].turns
              /\ object'[r].total = IF r = session[t] THEN object[r].total + cost[t]
                                   ELSE object[r].total
<1> DEFINE After(o) == [owner |-> o.owner, turns |-> WithTurn(o.turns, t),
                        pending |-> o.pending, updated |-> now, total |-> o.total + cost[t]]
<1>1. object \in [Turns -> SessionObject] /\ cost[t] \in Nat /\ now \in Nat
  BY SessionsAssumption DEF TypeOK
<1>2. object' = [object EXCEPT ![session[t]].turns = WithTurn(@, t),
                               ![session[t]].updated = now,
                               ![session[t]].total = @ + cost[t]]
  BY DEF Persist
<1>3. ASSUME NEW r \in Turns
      PROVE  /\ object'[r] = IF r = session[t] THEN After(object[r]) ELSE object[r]
             /\ object'[r] \in SessionObject
  <2>1. object[r] \in SessionObject  BY <1>1
  <2>2. object'[r] = IF r = session[t] THEN After(object[r]) ELSE object[r]
    BY <1>1, <1>2, <2>1 DEF SessionObject
  <2>3. WithTurn(object[r].turns, t) \in Seq(Message)
    BY <2>1, WithTurnType DEF SessionObject
  <2>4. After(object[r]) \in SessionObject
    BY <1>1, <2>1, <2>3 DEF SessionObject
  <2>5. QED  BY <2>1, <2>2, <2>4
<1>4. object' = [r \in Turns |-> object'[r]]  BY <1>1, <1>2
<1>5. object' \in [Turns -> SessionObject]  BY <1>3, <1>4
<1>6. QED  BY <1>3, <1>5

LEMMA OpenEffect ==
  ASSUME TypeOK, NEW t \in Turns, NEW k \in Keys, object' = [object EXCEPT ![t] = Fresh(k)]
  PROVE  /\ object' \in [Turns -> SessionObject]
         /\ object'[t].owner = k /\ object'[t].pending = NoProposal
         /\ object'[t].turns = <<>> /\ object'[t].total = 0
         /\ \A r \in Turns \ {t} : object'[r] = object[r]
<1>1. object \in [Turns -> SessionObject] /\ now \in Nat
  BY SessionsAssumption DEF TypeOK
<1>2. Fresh(k) = [owner |-> k, turns |-> <<>>, pending |-> NoProposal, updated |-> now, total |-> 0]
  <2> DEFINE o == NoSession
  <2>1. o = [owner |-> None, turns |-> <<>>, pending |-> NoProposal, updated |-> 0, total |-> 0]
    BY DEF NoSession
  <2>2. Fresh(k) = [o EXCEPT !.owner = k, !.updated = now]  BY DEF Fresh
  <2> HIDE DEF o
  <2>3. QED  BY <2>1, <2>2
<1>3. Fresh(k) \in SessionObject
  BY <1>1, <1>2 DEF SessionObject, NoProposal
<1>4. QED  BY <1>1, <1>2, <1>3

\* get never leaves more in the dict than was there.
LEMMA AfterGetSubset ==
  ASSUME NEW s, NEW k
  PROVE  AfterGet(s, k) \subseteq held
BY DEF AfterGet

LEMMA TypeNext == TypeOK /\ Located /\ [Next]_vars => TypeOK' /\ Located'
<1> SUFFICES ASSUME TypeOK, Located, [Next]_vars PROVE TypeOK' /\ Located'
  OBVIOUS
<1> USE SessionsAssumption
<1>1. ASSUME NEW t \in Turns, NEW k \in Keys, NEW s \in Created \cup {None},
             NEW text \in Texts, NEW confirm \in Confirms(k), Resume(t, k, s, confirm, text)
      PROVE  TypeOK' /\ Located'
  <2>1. /\ request' \in [Turns -> TurnRequest]
        /\ request' = [request EXCEPT ![t] = [key |-> k, confirm |-> confirm, text |-> text]]
        /\ pc' \in [Turns -> {"idle"} \cup Suspended \cup Ended]
        /\ pc[t] = "idle" /\ pc' = [pc EXCEPT ![t] = "started"]
    BY <1>1, ArriveType DEF Resume
  <2>2. s \in Turns /\ s \in held /\ object[s].owner = k
    BY <1>1 DEF Resume, Found, Keyed, OwnedBy, TypeOK
  <2>3. Pending(s) \in Turns \cup {None}
    BY <2>2 DEF Pending, TypeOK, SessionObject
  <2>4. TypeOK'
    BY <1>1, <2>1, <2>2, <2>3 DEF Resume, Arrive, TypeOK, storeVars
  <2>5. Located'
    BY <1>1, <2>1, <2>2 DEF Resume, Arrive, Located, TypeOK, storeVars
  <2>6. QED  BY <2>4, <2>5
<1>2. ASSUME NEW t \in Turns, NEW k \in Keys, NEW s \in Created \cup {None},
             NEW text \in Texts, NEW confirm \in Confirms(k), Open(t, k, s, confirm, text)
      PROVE  TypeOK' /\ Located'
  <2>1. /\ request' \in [Turns -> TurnRequest]
        /\ request' = [request EXCEPT ![t] = [key |-> k, confirm |-> confirm, text |-> text]]
        /\ pc' \in [Turns -> {"idle"} \cup Suspended \cup Ended]
        /\ pc[t] = "idle" /\ pc' = [pc EXCEPT ![t] = "started"]
    BY <1>2, ArriveType DEF Open
  <2>2. /\ object' \in [Turns -> SessionObject]
        /\ object'[t].owner = k
        /\ \A r \in Turns \ {t} : object'[r] = object[r]
    BY <1>2, OpenEffect DEF Open
  <2>3. held' \subseteq Turns
    BY <1>2, AfterGetSubset DEF Open, TypeOK
  <2>4. TypeOK'
    BY <1>2, <2>1, <2>2, <2>3 DEF Open, Arrive, TypeOK
  <2>5. \A u \in Turns : pc[u] # "idle" => session[u] # t
    BY <2>1 DEF Located, NoSession
  <2>6. Located'
    BY <1>2, <2>1, <2>2, <2>5 DEF Open, Arrive, Located, TypeOK
  <2>7. QED  BY <2>4, <2>6
<1>3. ASSUME NEW t \in Turns, Divert(t) \/ Call(t) \/ Degrade(t) \/ CallRaises(t) \/ Disconnect(t)
      PROVE  TypeOK' /\ Located'
  <2>1. /\ pc[t] # "idle" /\ pc' \in [Turns -> {"idle"} \cup Suspended \cup Ended]
        /\ \A u \in Turns : pc'[u] = "idle" <=> pc[u] = "idle"
        /\ UNCHANGED <<now, storeVars, request, session, confirmed, cost, offered, executed, pastVars>>
    BY <1>3 DEF Divert, Call, Degrade, CallRaises, Disconnect, TypeOK, Suspended, Ended
  <2>2. TypeOK'  BY <2>1 DEF TypeOK, storeVars, pastVars
  <2>3. Located'  BY <2>1 DEF Located, storeVars, pastVars
  <2>4. QED  BY <2>2, <2>3
<1>4. ASSUME NEW t \in Turns, Admit(t)  PROVE  TypeOK' /\ Located'
  <2>1. /\ pc' \in [Turns -> {"idle"} \cup Suspended \cup Ended]
        /\ pc[t] = "started" /\ pc' = [pc EXCEPT ![t] = "planned"]
    BY <1>4 DEF Admit, TypeOK, Suspended
  <2>2. session[t] \in Turns  BY <2>1 DEF Located
  <2>3. /\ object' \in [Turns -> SessionObject]
        /\ \A r \in Turns : object'[r].owner = object[r].owner
    <3>1. NoProposal \in [id : Turns \cup {None}, expires : Nat]  BY DEF NoProposal
    <3>2. QED  BY <1>4, <2>2, <3>1, PendingType DEF Admit, Unpend
  <2>4. object[session[t]].pending.id \in Turns \cup {None}
    BY <2>2 DEF TypeOK, SessionObject
  <2>5. Resolved(t) \in Turns \cup {None}
    BY <2>4 DEF Resolved
  <2>6. held' \subseteq Turns
    BY <1>4, <2>2 DEF Admit, SavedByResolve, TypeOK
  <2>7. TypeOK'
    BY <1>4, <2>1, <2>3, <2>5, <2>6 DEF Admit, TypeOK
  <2>8. \A u \in Turns : pc[u] = "idle" => object'[u] = object[u]
    BY <1>4, <2>1, <2>2 DEF Admit, Unpend, Located, TypeOK, NoSession
  <2>9. Located'
    BY <1>4, <2>1, <2>3, <2>8 DEF Admit, Located, TypeOK
  <2>10. QED  BY <2>7, <2>9
<1>5. ASSUME NEW t \in Turns, Propose(t)  PROVE  TypeOK' /\ Located'
  <2>1. /\ pc' \in [Turns -> {"idle"} \cup Suspended \cup Ended]
        /\ pc[t] = "planned" /\ pc' = [pc EXCEPT ![t] = "answering"]
    BY <1>5 DEF Propose, TypeOK, Suspended
  <2>2. session[t] \in Turns  BY <2>1 DEF Located
  <2>3. /\ object' \in [Turns -> SessionObject]
        /\ \A r \in Turns : object'[r].owner = object[r].owner
    <3>1. [id |-> t, expires |-> now + ProposalTtl] \in [id : Turns \cup {None}, expires : Nat]
      BY DEF TypeOK
    <3>2. QED  BY <1>5, <2>2, <3>1, PendingType DEF Propose
  <2>4. TypeOK'
    BY <1>5, <2>1, <2>2, <2>3 DEF Propose, TypeOK, pastVars
  <2>5. \A u \in Turns : pc[u] = "idle" => object'[u] = object[u]
    <3>1. \A u \in Turns : pc[u] = "idle" => u # session[t]
      BY <2>1, <2>2 DEF Located, NoSession
    <3>2. QED  BY <1>5, <3>1 DEF Propose, TypeOK
  <2>6. Located'
    BY <1>5, <2>1, <2>3, <2>5 DEF Propose, Located, TypeOK, pastVars
  <2>7. QED  BY <2>4, <2>6
<1>6. ASSUME NEW t \in Turns, Execute(t)  PROVE  TypeOK' /\ Located'
  <2>1. /\ pc' \in [Turns -> {"idle"} \cup Suspended \cup Ended]
        /\ pc[t] = "planned" /\ pc' = [pc EXCEPT ![t] = "answering"]
    BY <1>6 DEF Execute, TypeOK, Suspended
  <2>2. confirmed[t] \in Turns  BY <1>6 DEF Execute, TypeOK
  <2>3. TypeOK'
    BY <1>6, <2>1, <2>2 DEF Execute, TypeOK, storeVars, pastVars
  <2>4. Located'
    BY <1>6, <2>1 DEF Execute, Located, TypeOK, storeVars, pastVars
  <2>5. QED  BY <2>3, <2>4
<1>7. ASSUME NEW t \in Turns, CallReturns(t) \/ Structured(t)  PROVE  TypeOK' /\ Located'
  <2>1. /\ pc[t] # "idle" /\ pc' \in [Turns -> {"idle"} \cup Suspended \cup Ended]
        /\ \A u \in Turns : pc'[u] = "idle" <=> pc[u] = "idle"
        /\ UNCHANGED <<now, storeVars, request, session, confirmed, offered, executed, pastVars>>
    BY <1>7 DEF CallReturns, Structured, TypeOK, Suspended, Ended
  <2>2. PICK c \in 0..MaxTurnCost : cost' = [cost EXCEPT ![t] = c]
    BY <1>7 DEF CallReturns, Structured, TypeOK
  <2>3. TypeOK'  BY <2>1, <2>2 DEF TypeOK, storeVars, pastVars
  <2>4. Located'  BY <2>1 DEF Located, storeVars, pastVars
  <2>5. QED  BY <2>3, <2>4
<1>8. ASSUME NEW t \in Turns, Persist(t)  PROVE  TypeOK' /\ Located'
  <2>1. /\ pc' \in [Turns -> {"idle"} \cup Suspended \cup Ended]
        /\ pc[t] = "answering" /\ pc' = [pc EXCEPT ![t] = "done"]
    BY <1>8 DEF Persist, TypeOK, Suspended, Ended
  <2>2. session[t] \in Turns  BY <2>1 DEF Located
  <2>3. /\ object' \in [Turns -> SessionObject]
        /\ \A r \in Turns : object'[r].owner = object[r].owner
    BY <1>8, PersistEffect
  <2>4. TypeOK'
    BY <1>8, <2>1, <2>2, <2>3 DEF Persist, TypeOK, pastVars
  <2>5. \A u \in Turns : pc[u] = "idle" => object'[u] = object[u]
    <3>1. \A u \in Turns : pc[u] = "idle" => u # session[t]
      BY <2>1, <2>2 DEF Located, NoSession
    <3>2. QED  BY <1>8, <3>1 DEF Persist, TypeOK
  <2>6. UNCHANGED <<request, session, confirmed, offered, admitted>>
    BY <1>8 DEF Persist, pastVars
  <2>7. Located'
    BY <2>1, <2>3, <2>5, <2>6 DEF Located, TypeOK
  <2>8. QED  BY <2>4, <2>7
<1>9. ASSUME NEW k \in Keys, NEW s \in Created, GetSession(k, s) \/ DeleteSession(k, s)
      PROVE  TypeOK' /\ Located'
  <2>1. held' \subseteq Turns
    BY <1>9, AfterGetSubset DEF GetSession, DeleteSession, TypeOK
  <2>2. UNCHANGED <<now, object, turnVars, pastVars>>
    BY <1>9 DEF GetSession, DeleteSession
  <2>3. QED  BY <2>1, <2>2 DEF TypeOK, Located, turnVars, pastVars
<1>10. CASE Tick
  BY <1>10 DEF Tick, TypeOK, Located, storeVars, turnVars, pastVars
<1>11. CASE Restart
  BY <1>11 DEF Restart, TypeOK, Located, Suspended, Ended, pastVars
<1>12. CASE UNCHANGED vars
  BY <1>12 DEF vars, TypeOK, Located, storeVars, turnVars, pastVars
<1>13. QED
  BY <1>1, <1>2, <1>3, <1>4, <1>5, <1>6, <1>7, <1>8, <1>9, <1>10, <1>11, <1>12
     DEF Next, Request, Step

\* Every reachable state is of the declared type, and every turn in progress
\* works on a session of the key that sent it.
THEOREM TypeCorrect == Spec => [](TypeOK /\ Located)
<1>1. QED  BY TypeInit, TypeNext, PTL DEF Spec

-----------------------------------------------------------------------------
(* The mutation gate                                                       *)

\* What every step leaves alone that touches no proposal and no confirmation.
GateSame == UNCHANGED <<confirmed, offered, executed, standing, admitted>>

\* A step never takes a turn back to a state before it offered or confirmed.
Forward(t) ==
  /\ pc[t] \in {"answering", "done", "dropped"} => pc'[t] \in {"answering", "done", "dropped"}
  /\ pc[t] # "started" => pc'[t] # "started"
  /\ pc[t] # "planned" => pc'[t] # "planned"

\* A step that only moves pc, keeps what is pending, and lets no proposing or
\* confirming turn fall back, preserves the invariant.
LEMMA GateFrame ==
  ASSUME TypeOK, Located, GateInv, TypeOK', Located',
         GateSame, UNCHANGED <<session, request>>,
         \A s \in Turns : object'[s].pending = object[s].pending,
         \A t \in Turns : Forward(t)
  PROVE  GateInv'
<1>0. /\ confirmed' = confirmed /\ offered' = offered /\ executed' = executed
      /\ standing' = standing /\ admitted' = admitted
      /\ session' = session /\ request' = request
  BY DEF GateSame
<1>1. \A s \in Turns : Pending(s)' = Pending(s)  BY DEF Pending
<1>2. OfferedOnce'
  BY <1>0, <1>1 DEF GateInv, OfferedOnce, TypeOK, Forward
<1>3. TakenOnce'
  <2> SUFFICES ASSUME NEW t \in Turns, confirmed[t] # None
               PROVE  /\ confirmed[t] \in offered
                      /\ session[confirmed[t]] = session[t]
                      /\ Pending(session[t])' # confirmed[t]
                      /\ request[t].confirm = [id |-> confirmed[t], approve |-> TRUE]
                      /\ pc'[t] # "started"
                      /\ \A u \in Turns : confirmed[u] = confirmed[t] => u = t
    BY <1>0 DEF TakenOnce
  <2>1. session[t] \in Turns  BY DEF Located
  <2>2. Pending(session[t])' = Pending(session[t])  BY <1>0, <1>1, <2>1 DEF Pending
  <2>3. QED  BY <2>2 DEF GateInv, TakenOnce, Forward, TypeOK
<1>4. ExecutedIsTaken'  BY <1>0 DEF GateInv, ExecutedIsTaken, Forward
<1>5. AdmittedTurnSettles'
  <2> SUFFICES ASSUME NEW t \in admitted, standing[t] # None
               PROVE  Pending(session[t])' # standing[t]
    BY <1>0 DEF AdmittedTurnSettles
  <2>1. session[t] \in Turns  BY DEF Located, TypeOK
  <2>2. Pending(session[t])' = Pending(session[t])  BY <1>0, <1>1, <2>1 DEF Pending
  <2>3. QED  BY <2>2 DEF GateInv, AdmittedTurnSettles
<1>6. QED  BY <1>2, <1>3, <1>4, <1>5 DEF GateInv

LEMMA GateNext == TypeOK /\ GateInv /\ [Next]_vars /\ TypeOK' /\ Located' => GateInv'
<1> SUFFICES ASSUME TypeOK, GateInv, [Next]_vars, TypeOK', Located' PROVE GateInv'
  OBVIOUS
<1> USE SessionsAssumption
<1>a. Located  BY DEF GateInv
<1>1. ASSUME NEW t \in Turns, NEW k \in Keys, NEW s \in Created \cup {None},
             NEW text \in Texts, NEW confirm \in Confirms(k),
             Resume(t, k, s, confirm, text) \/ Open(t, k, s, confirm, text)
      PROVE  GateInv'
  <2>1. /\ request' = [request EXCEPT ![t] = [key |-> k, confirm |-> confirm, text |-> text]]
        /\ pc[t] = "idle" /\ pc' = [pc EXCEPT ![t] = "started"]
        /\ UNCHANGED <<confirmed, offered, executed, admitted>>
    BY <1>1 DEF Resume, Open, Arrive
  <2>2. /\ t \notin offered /\ confirmed[t] = None /\ t \notin admitted
        /\ object[t] = NoSession
    BY <1>a, <2>1 DEF Located
  <2>3. \A u \in Turns \ {t} : session'[u] = session[u] /\ standing'[u] = standing[u]
    BY <1>1 DEF Resume, Open, TypeOK
  <2>4. \A r \in Turns : Pending(r)' = Pending(r)
    <3>1. CASE Resume(t, k, s, confirm, text)
      BY <3>1 DEF Resume, storeVars, Pending
    <3>2. CASE Open(t, k, s, confirm, text)
      <4>1. /\ object'[t].pending = NoProposal
            /\ \A r \in Turns \ {t} : object'[r] = object[r]
        BY <3>2, OpenEffect DEF Open
      <4>2. QED  BY <2>2, <4>1 DEF Pending, NoSession
    <3>3. QED  BY <1>1, <3>1, <3>2
  <2>5. standing'[t] # None => standing'[t] \in offered
    <3>1. CASE Resume(t, k, s, confirm, text)
      <4>1. standing'[t] = Pending(s) /\ s \in Turns
        BY <3>1 DEF Resume, TypeOK, Found, Keyed
      <4>2. QED  BY <4>1 DEF GateInv, OfferedOnce
    <3>2. CASE Open(t, k, s, confirm, text)
      <4>1. standing'[t] = standing[t]  BY <3>2 DEF Open
      <4>2. QED  BY <4>1 DEF GateInv, OfferedOnce
    <3>3. QED  BY <1>1, <3>1, <3>2
  <2>6. OfferedOnce'
    BY <2>1, <2>2, <2>3, <2>4, <2>5 DEF GateInv, OfferedOnce, TypeOK
  <2>7. TakenOnce'
    BY <1>a, <2>1, <2>2, <2>3, <2>4 DEF GateInv, TakenOnce, Located, TypeOK
  <2>8. ExecutedIsTaken'
    BY <2>1, <2>2 DEF GateInv, ExecutedIsTaken, TypeOK
  <2>9. AdmittedTurnSettles'
    BY <1>a, <2>1, <2>2, <2>3, <2>4 DEF GateInv, AdmittedTurnSettles, Located, TypeOK
  <2>10. QED  BY <2>6, <2>7, <2>8, <2>9 DEF GateInv
<1>2. ASSUME NEW t \in Turns, Admit(t)  PROVE  GateInv'
  <2> DEFINE p == Resolved(t)
  <2>1. /\ pc[t] = "started" /\ pc' = [pc EXCEPT ![t] = "planned"]
        /\ confirmed' = [confirmed EXCEPT ![t] = p]
        /\ admitted' = admitted \cup {t}
        /\ UNCHANGED <<request, session, offered, executed, standing>>
    BY <1>2 DEF Admit
  <2>2. session[t] \in Turns  BY <1>a, <2>1 DEF Located
  <2>3. \A r \in Turns : Pending(r)' = IF r = session[t] THEN None ELSE Pending(r)
    <3>1. NoProposal \in [id : Turns \cup {None}, expires : Nat]  BY DEF NoProposal
    <3>2. \A r \in Turns :
            /\ r # session[t] => object'[r].pending = object[r].pending
            /\ r = session[t] => object'[r].pending = NoProposal
      <4>1. object' = [object EXCEPT ![session[t]].pending = NoProposal]
        BY <1>2 DEF Admit, Unpend
      <4>2. QED  BY <2>2, <3>1, <4>1, PendingType
    <3>3. NoProposal.id = None  BY DEF NoProposal
    <3>4. ASSUME NEW r \in Turns
          PROVE  Pending(r)' = IF r = session[t] THEN None ELSE Pending(r)
      <4>1. CASE r = session[t]  BY <3>2, <3>3, <4>1 DEF Pending
      <4>2. CASE r # session[t]  BY <3>2, <4>2 DEF Pending
      <4>3. QED  BY <4>1, <4>2
    <3>5. QED  BY <3>4
  <2>4. p # None => /\ p = Pending(session[t])
                    /\ request[t].confirm = [id |-> p, approve |-> TRUE]
    <3>1. request[t].confirm \in [id : Turns \cup {None, Bogus}, approve : BOOLEAN]
      BY DEF TypeOK, TurnRequest
    <3>2. QED  BY <3>1 DEF Resolved, Pending
  <2>5. p # None => p \in offered /\ session[p] = session[t]
    BY <2>2, <2>4 DEF GateInv, OfferedOnce
  <2>6. p # None => \A u \in Turns : confirmed[u] # p
    BY <2>4, <2>5 DEF GateInv, TakenOnce
  <2>7. OfferedOnce'
    BY <2>1, <2>2, <2>3 DEF GateInv, OfferedOnce, TypeOK
  <2>8. ASSUME NEW u \in Turns, confirmed'[u] # None
        PROVE  /\ confirmed'[u] \in offered'
               /\ session'[confirmed'[u]] = session'[u]
               /\ Pending(session[u])' # confirmed'[u]
               /\ request'[u].confirm = [id |-> confirmed'[u], approve |-> TRUE]
               /\ pc'[u] # "started"
               /\ \A v \in Turns : confirmed'[v] = confirmed'[u] => v = u
    <3>1. CASE u = t
      BY <2>1, <2>2, <2>3, <2>4, <2>5, <2>6, <2>8, <3>1 DEF TypeOK
    <3>2. CASE u # t
      <4>1. confirmed'[u] = confirmed[u] /\ pc'[u] = pc[u]  BY <2>1, <3>2 DEF TypeOK
      <4>2. session[u] \in Turns  BY <1>a, <2>8, <4>1 DEF Located
      <4>0. /\ confirmed[u] \in Turns /\ confirmed[u] # None
            /\ Pending(session[u]) # confirmed[u]
            /\ \A v \in Turns : confirmed[v] = confirmed[u] => v = u
        BY <2>8, <4>1 DEF GateInv, TakenOnce, TypeOK
      <4>a. Pending(session[u])' = IF session[u] = session[t] THEN None ELSE Pending(session[u])
        BY <2>1, <2>3, <4>2 DEF Pending
      <4>3. Pending(session[u])' # confirmed[u]
        BY <4>0, <4>a
      <4>b. confirmed'[t] = p /\ \A v \in Turns \ {t} : confirmed'[v] = confirmed[v]
        BY <2>1 DEF TypeOK
      <4>4. \A v \in Turns : confirmed'[v] = confirmed[u] => v = u
        BY <2>6, <4>0, <4>b
      <4>5. QED  BY <2>1, <2>8, <4>1, <4>3, <4>4 DEF GateInv, TakenOnce
    <3>3. QED  BY <3>1, <3>2
  <2>9. TakenOnce'  BY <2>1, <2>8 DEF TakenOnce
  <2>10. ExecutedIsTaken'
    <3>1. confirmed[t] = None  BY <2>1 DEF GateInv, TakenOnce
    <3>2. \A u \in Turns \ {t} : confirmed'[u] = confirmed[u] /\ pc'[u] = pc[u]
      BY <2>1 DEF TypeOK
    <3>3. QED  BY <2>1, <3>1, <3>2 DEF GateInv, ExecutedIsTaken
  <2>11. AdmittedTurnSettles'
    BY <1>a, <2>1, <2>2, <2>3 DEF GateInv, AdmittedTurnSettles, Located, TypeOK
  <2>12. QED  BY <2>7, <2>9, <2>10, <2>11 DEF GateInv
<1>3. ASSUME NEW t \in Turns, Propose(t)  PROVE  GateInv'
  <2>1. /\ pc[t] = "planned" /\ pc' = [pc EXCEPT ![t] = "answering"]
        /\ confirmed[t] = None
        /\ offered' = offered \cup {t}
        /\ UNCHANGED <<request, session, confirmed, executed, standing, admitted>>
    BY <1>3 DEF Propose, Proposes, pastVars
  <2>2. session[t] \in Turns /\ t \notin offered
    BY <1>a, <2>1 DEF Located, GateInv, OfferedOnce
  <2>3. \A r \in Turns : Pending(r)' = IF r = session[t] THEN t ELSE Pending(r)
    <3>a. now + ProposalTtl \in Nat  BY DEF TypeOK
    <3>b. [id |-> t, expires |-> now + ProposalTtl] \in [id : Turns \cup {None}, expires : Nat]
      BY <3>a
    <3>1. PICK q \in [id : Turns \cup {None}, expires : Nat] :
            q = [id |-> t, expires |-> now + ProposalTtl]
      BY <3>b
    <3>2. object' = [object EXCEPT ![session[t]].pending = q]
      BY <1>3, <3>1 DEF Propose
    <3>3. \A r \in Turns :
            /\ r # session[t] => object'[r].pending = object[r].pending
            /\ r = session[t] => object'[r].pending = q
      BY <2>2, <3>2, PendingType
    <3>4. q.id = t  BY <3>1
    <3>5. ASSUME NEW r \in Turns
          PROVE  Pending(r)' = IF r = session[t] THEN t ELSE Pending(r)
      <4>1. CASE r = session[t]  BY <3>3, <3>4, <4>1 DEF Pending
      <4>2. CASE r # session[t]  BY <3>3, <4>2 DEF Pending
      <4>3. QED  BY <4>1, <4>2
    <3>6. QED  BY <3>5
  <2>4. OfferedOnce'
    BY <2>1, <2>2, <2>3 DEF GateInv, OfferedOnce, TypeOK
  <2>5. TakenOnce'
    BY <1>a, <2>1, <2>2, <2>3 DEF GateInv, TakenOnce, Located, TypeOK
  <2>6. ExecutedIsTaken'
    BY <2>1 DEF GateInv, ExecutedIsTaken, TypeOK
  <2>7. AdmittedTurnSettles'
    BY <1>a, <2>1, <2>2, <2>3 DEF GateInv, AdmittedTurnSettles, OfferedOnce, Located, TypeOK
  <2>8. QED  BY <2>4, <2>5, <2>6, <2>7 DEF GateInv
<1>4. ASSUME NEW t \in Turns, Execute(t)  PROVE  GateInv'
  <2>1. /\ pc[t] = "planned" /\ pc' = [pc EXCEPT ![t] = "answering"]
        /\ confirmed[t] # None
        /\ executed' = executed \cup {<<confirmed[t], t>>}
        /\ UNCHANGED <<object, request, session, confirmed, offered, standing, admitted>>
    BY <1>4 DEF Execute, storeVars, pastVars
  <2>2. \A r \in Turns : Pending(r)' = Pending(r)  BY <2>1 DEF Pending
  <2>3. OfferedOnce'  BY <2>1, <2>2 DEF GateInv, OfferedOnce, TypeOK
  <2>4. TakenOnce'  BY <1>a, <2>1, <2>2 DEF GateInv, TakenOnce, Located, TypeOK
  <2>5. ExecutedIsTaken'  BY <2>1 DEF GateInv, ExecutedIsTaken, TypeOK
  <2>6. AdmittedTurnSettles'
    BY <1>a, <2>1, <2>2 DEF GateInv, AdmittedTurnSettles, Located, TypeOK
  <2>7. QED  BY <2>3, <2>4, <2>5, <2>6 DEF GateInv
<1>5. ASSUME NEW t \in Turns,
             Divert(t) \/ Call(t) \/ Degrade(t) \/ CallReturns(t) \/ Structured(t)
             \/ CallRaises(t) \/ Disconnect(t)
      PROVE  GateInv'
  <2>1. UNCHANGED <<object, confirmed, offered, executed, standing, admitted, session, request>>
    BY <1>5 DEF Divert, Call, Degrade, CallReturns, Structured, CallRaises, Disconnect, storeVars, pastVars
  <2>2. \A u \in Turns : Forward(u)
    BY <1>5 DEF Divert, Call, Degrade, CallReturns, Structured, CallRaises, Disconnect, Suspended, TypeOK, Forward
  <2>3. QED  BY <1>a, <2>1, <2>2, GateFrame DEF GateSame
<1>6. ASSUME NEW t \in Turns, Persist(t)  PROVE  GateInv'
  <2>1. /\ UNCHANGED <<confirmed, offered, executed, standing, admitted, session, request>>
        /\ pc[t] = "answering" /\ pc' = [pc EXCEPT ![t] = "done"]
    BY <1>6 DEF Persist, pastVars
  <2>2. \A s \in Turns : object'[s].pending = object[s].pending
    BY <1>6, PersistEffect
  <2>3. QED  BY <1>a, <2>1, <2>2, GateFrame DEF GateSame, TypeOK, Forward
<1>7. CASE \/ \E k \in Keys, s \in Created : GetSession(k, s) \/ DeleteSession(k, s)
          \/ Tick
          \/ UNCHANGED vars
  <2>1. UNCHANGED <<object, turnVars, pastVars>>
    BY <1>7 DEF GetSession, DeleteSession, Tick, vars, storeVars
  <2>2. QED  BY <1>a, <2>1, GateFrame DEF turnVars, pastVars, GateSame, Forward
<1>8. CASE Restart
  <2>1. UNCHANGED <<object, confirmed, offered, executed, standing, admitted, session, request>>
    BY <1>8 DEF Restart, pastVars
  <2>2. \A u \in Turns : Forward(u)
    BY <1>8 DEF Restart, Suspended, Forward
  <2>3. QED  BY <1>a, <2>1, <2>2, GateFrame DEF GateSame
<1>9. QED
  BY <1>1, <1>2, <1>3, <1>4, <1>5, <1>6, <1>7, <1>8 DEF Next, Request, Step

LEMMA GateInit == Init => GateInv
<1> SUFFICES ASSUME Init PROVE GateInv
  OBVIOUS
<1>1. \A s \in Turns : Pending(s) = None
  BY DEF Init, Pending, NoSession, NoProposal
<1>2. OfferedOnce /\ TakenOnce /\ ExecutedIsTaken /\ AdmittedTurnSettles
  BY <1>1 DEF Init, OfferedOnce, TakenOnce, ExecutedIsTaken, AdmittedTurnSettles
<1>3. QED  BY <1>2, TypeInit DEF GateInv

\* The invariant behind the gate holds in every reachable state.
THEOREM GateCorrect == Spec => [](TypeOK /\ GateInv)
<1>1. TypeOK /\ GateInv /\ [Next]_vars => (TypeOK /\ GateInv)'
  BY TypeNext, GateNext DEF GateInv
<1>2. QED  BY TypeInit, GateInit, <1>1, PTL DEF Spec

\* However confirmations race or are replayed, at most one turn ever executes
\* a proposal.
THEOREM ExecutedAtMostOnce == Spec => []AtMostOnce
<1>1. GateInv => AtMostOnce
  <2> SUFFICES ASSUME GateInv, NEW p \in Turns, NEW t \in Turns, NEW u \in Turns,
                      <<p, t>> \in executed, <<p, u>> \in executed
               PROVE  t = u
    BY DEF AtMostOnce
  <2>1. confirmed[t] = p /\ confirmed[u] = p /\ p # None
    BY SessionsAssumption DEF GateInv, ExecutedIsTaken
  <2>2. QED  BY <2>1 DEF GateInv, TakenOnce
<1>2. QED  BY <1>1, GateCorrect, PTL

\* A proposal is executed only for the approving confirmation of another turn
\* of the same session and key, and is then no longer pending.
THEOREM ExecutedOnlyByConfirmation == Spec => []OnlyByConfirmation
<1>1. TypeOK /\ GateInv => OnlyByConfirmation
  <2> SUFFICES ASSUME TypeOK, GateInv, NEW p \in Turns, NEW t \in Turns, <<p, t>> \in executed
               PROVE  /\ t # p
                      /\ request[t].confirm = [id |-> p, approve |-> TRUE]
                      /\ session[t] = session[p]
                      /\ request[t].key = request[p].key
                      /\ Pending(session[t]) # p
    BY DEF OnlyByConfirmation
  <2>1. confirmed[t] = p /\ p # None
    BY SessionsAssumption DEF GateInv, ExecutedIsTaken
  <2>2. p \in offered /\ session[p] = session[t] /\ Pending(session[t]) # p
        /\ request[t].confirm = [id |-> p, approve |-> TRUE]
    BY <2>1 DEF GateInv, TakenOnce
  <2>3. t # p  BY <2>1, <2>2 DEF GateInv, OfferedOnce
  <2>4. pc[t] # "idle" /\ pc[p] # "idle"
    BY <2>1, <2>2 DEF GateInv, Located
  <2>5. request[t].key = request[p].key
    BY <2>2, <2>4 DEF GateInv, Located
  <2>6. QED  BY <2>2, <2>3, <2>5
<1>2. QED  BY <1>1, GateCorrect, PTL

\* A turn that is admitted settles the proposal it found, for good
\* (_resolve_confirmation; REQ-MUT-006, 007).
THEOREM AdmissionSettles == Spec => []AdmittedTurnSettles
<1>1. GateInv => AdmittedTurnSettles  BY DEF GateInv
<1>2. QED  BY <1>1, GateCorrect, PTL

-----------------------------------------------------------------------------
(* What a proposal's state depends on                                      *)

ExecutedBySome(p) == \E t \in Turns : <<p, t>> \in executed
TakenBySome(p)    == \E t \in Turns : confirmed[t] = p /\ pc[t] = "planned"
IsPending(p)      == Pending(session[p]) = p

\* The mapping, one proposal at a time.
LEMMA GateStateOf ==
  /\ GateState = [p \in Turns |->
       IF p \notin offered THEN "none"
       ELSE IF ExecutedBySome(p) THEN "executed"
       ELSE IF IsPending(p) THEN "pending"
       ELSE IF TakenBySome(p) THEN "taken" ELSE "dead"]
  /\ GateHome = [p \in Turns |-> IF p \in offered THEN session[p] ELSE None]
BY DEF GateState, GateHome, ExecutedBySome, TakenBySome, IsPending

\* By the invariant, at most one of the three holds of a proposal, none of
\* them unless it was offered, and who takes one takes it alone.
LEMMA GateFacts ==
  ASSUME GateInv, NEW p \in Turns
  PROVE  /\ ExecutedBySome(p) => p \in offered /\ ~IsPending(p) /\ ~TakenBySome(p)
         /\ TakenBySome(p) => p \in offered /\ ~IsPending(p)
         /\ p \in offered => session[p] \in Turns /\ pc[p] # "idle"
<1>1. p # None  BY SessionsAssumption
<1>2. ASSUME NEW t \in Turns, confirmed[t] = p
      PROVE  p \in offered /\ ~IsPending(p)
  BY <1>1, <1>2 DEF GateInv, TakenOnce, IsPending
<1>3. ASSUME NEW t \in Turns, <<p, t>> \in executed
      PROVE  confirmed[t] = p /\ pc[t] # "planned"
  BY <1>3 DEF GateInv, ExecutedIsTaken
<1>4. ASSUME NEW t \in Turns, NEW u \in Turns, confirmed[t] = p, confirmed[u] = p
      PROVE  t = u
  BY <1>1, <1>4 DEF GateInv, TakenOnce
<1>5. p \in offered => session[p] \in Turns /\ pc[p] # "idle"
  BY DEF GateInv, OfferedOnce, Located
<1>6. QED  BY <1>2, <1>3, <1>4, <1>5 DEF ExecutedBySome, TakenBySome

\* A step that leaves these alone leaves the gate alone.
LEMMA GateStutters ==
  ASSUME offered' = offered,
         \A p \in offered : session'[p] = session[p],
         \A p \in offered \cap Turns :
           /\ ExecutedBySome(p)' = ExecutedBySome(p)
           /\ IsPending(p)' = IsPending(p)
           /\ TakenBySome(p)' = TakenBySome(p)
  PROVE  GateState' = GateState /\ GateHome' = GateHome
<1> DEFINE St(p) == IF p \notin offered THEN "none"
                    ELSE IF ExecutedBySome(p) THEN "executed"
                    ELSE IF IsPending(p) THEN "pending"
                    ELSE IF TakenBySome(p) THEN "taken" ELSE "dead"
<1>1. \A p \in Turns : St(p)' = St(p)  OBVIOUS
<1>2. GateState = [p \in Turns |-> St(p)]  BY GateStateOf
<1>3. GateState' = [p \in Turns |-> St(p)']
  BY DEF GateState, ExecutedBySome, TakenBySome, IsPending
<1>4. GateHome' = GateHome  BY DEF GateHome
<1> HIDE DEF St
<1>5. QED  BY <1>1, <1>2, <1>3, <1>4

-----------------------------------------------------------------------------
(* The steps                                                               *)

\* first what moves, then when
GateStep == Gate!Move

LEMMA GateUnchanged ==
  ASSUME GateState' = GateState, GateHome' = GateHome
  PROVE  GateStep
BY DEF GateStep, Gate!Move, Gate!life

LEMMA GateInitial == Init => Gate!Init
<1> SUFFICES ASSUME Init PROVE Gate!Init
  OBVIOUS
<1>1. \A p \in Turns : p \notin offered  BY DEF Init
<1>2. QED  BY <1>1 DEF Gate!Init, GateState, GateHome

\* An arriving turn has offered nothing, and its session, old or new, keeps
\* what was pending in it.
LEMMA ArriveKeepsGate ==
  ASSUME TypeOK, GateInv, NEW t \in Turns, NEW k \in Keys, NEW s \in Created \cup {None},
         NEW text \in Texts, NEW confirm \in Confirms(k),
         Resume(t, k, s, confirm, text) \/ Open(t, k, s, confirm, text)
  PROVE  GateStep
<1>1. /\ pc[t] = "idle" /\ pc' = [pc EXCEPT ![t] = "started"]
      /\ UNCHANGED <<confirmed, offered, executed>>
  BY DEF Resume, Open, Arrive
<1>2. t \notin offered /\ object[t] = NoSession
  BY <1>1 DEF GateInv, Located
<1>3. \A u \in Turns \ {t} : session'[u] = session[u]
  BY DEF Resume, Open, TypeOK
<1>4. \A r \in Turns : Pending(r)' = Pending(r)
  <2>1. CASE Resume(t, k, s, confirm, text)
    BY <2>1 DEF Resume, storeVars, Pending
  <2>2. CASE Open(t, k, s, confirm, text)
    <3>1. /\ object'[t].pending = NoProposal
          /\ \A r \in Turns \ {t} : object'[r] = object[r]
      BY <2>2, OpenEffect DEF Open
    <3>2. QED  BY <1>2, <3>1 DEF Pending, NoSession
  <2>3. QED  BY <2>1, <2>2
<1>5. offered \subseteq Turns \ {t}  BY <1>2 DEF TypeOK
<1>6. ASSUME NEW p \in offered
      PROVE  /\ session'[p] = session[p]
             /\ ExecutedBySome(p)' = ExecutedBySome(p)
             /\ IsPending(p)' = IsPending(p)
             /\ TakenBySome(p)' = TakenBySome(p)
  <2>1. session'[p] = session[p]  BY <1>3, <1>5
  <2>2. session[p] \in Turns  BY <1>5, GateFacts
  <2>3. IsPending(p)' = IsPending(p)
    BY <1>4, <2>1, <2>2 DEF IsPending, Pending
  <2>4. ExecutedBySome(p)' = ExecutedBySome(p)  BY <1>1 DEF ExecutedBySome
  <2>5. TakenBySome(p)' = TakenBySome(p)
    BY <1>1 DEF TakenBySome, TypeOK
  <2>6. QED  BY <2>1, <2>3, <2>4, <2>5
<1>7. QED  BY <1>1, <1>6, GateStutters, GateUnchanged

\* A step that confirms, offers and executes nothing at most loses what a turn
\* had taken: the turn fails, its client leaves, or its worker dies.
LEMMA LosingStep ==
  ASSUME TypeOK, GateInv, UNCHANGED <<offered, executed, session>>,
         \A r \in Turns : Pending(r)' = Pending(r),
         \A p \in Turns : TakenBySome(p)' => TakenBySome(p)
  PROVE  GateStep
<1> DEFINE D == {p \in Turns : TakenBySome(p) /\ ~TakenBySome(p)'}
<1>1. ASSUME NEW p \in Turns
      PROVE  /\ ExecutedBySome(p)' = ExecutedBySome(p)
             /\ p \in offered => IsPending(p)' = IsPending(p)
  <2>1. p \in offered => session[p] \in Turns  BY GateFacts
  <2>2. QED  BY <2>1 DEF ExecutedBySome, IsPending, Pending
<1>2. ASSUME NEW p \in D
      PROVE  GateState[p] = "taken" /\ GateState'[p] = "dead"
  <2>1. p \in offered /\ ~ExecutedBySome(p) /\ ~IsPending(p)  BY GateFacts
  <2>2. ~ExecutedBySome(p)' /\ ~IsPending(p)' /\ p \in offered'  BY <1>1, <2>1
  <2>3. GateState[p] = "taken"
    BY <2>1 DEF GateState, ExecutedBySome, IsPending, TakenBySome
  <2>4. GateState'[p] = "dead"
    BY <2>2 DEF GateState, ExecutedBySome, IsPending, TakenBySome
  <2>5. QED  BY <2>3, <2>4
<1>3. ASSUME NEW p \in Turns \ D
      PROVE  GateState'[p] = GateState[p]
  <2>1. TakenBySome(p)' <=> TakenBySome(p)  BY <1>3
  <2>2. QED
    BY <1>1, <2>1 DEF GateState, ExecutedBySome, IsPending, TakenBySome
<1>4. GateState' = [p \in Turns |-> IF p \in D THEN "dead" ELSE GateState[p]]
  <2>1. GateState' = [p \in Turns |-> GateState'[p]]  BY DEF GateState
  <2> HIDE DEF D
  <2>2. QED  BY <1>2, <1>3, <2>1
<1>5. GateHome' = GateHome  BY DEF GateHome
<1>6. Gate!Discard(D)  BY <1>2, <1>4, <1>5 DEF Gate!Discard
<1>7. D \in SUBSET Turns  OBVIOUS
<1> HIDE DEF D
<1>8. QED  BY <1>6, <1>7 DEF GateStep, Gate!Move

\* Admission takes the pending proposal, or discards it, or finds none.
LEMMA AdmitStep ==
  ASSUME TypeOK, GateInv, NEW t \in Turns, Admit(t)
  PROVE  GateStep
<1> DEFINE p0 == Pending(session[t])
<1>1. /\ pc[t] = "started" /\ pc' = [pc EXCEPT ![t] = "planned"]
      /\ confirmed' = [confirmed EXCEPT ![t] = Resolved(t)]
      /\ UNCHANGED <<session, offered, executed>>
  BY DEF Admit
<1>2. session[t] \in Turns /\ confirmed[t] = None
  BY <1>1 DEF GateInv, Located, TakenOnce
<1>3. \A r \in Turns : Pending(r)' = IF r = session[t] THEN None ELSE Pending(r)
  <2> DEFINE none == NoProposal
  <2>1. object' = [object EXCEPT ![session[t]].pending = none]
    BY DEF Admit, Unpend
  <2>2. none.id = None  BY DEF NoProposal
  <2> HIDE DEF none
  <2>3. \A r \in Turns : /\ r # session[t] => object'[r].pending = object[r].pending
                         /\ r = session[t] => object'[r].pending = none
    BY <1>2, <2>1 DEF TypeOK, SessionObject
  <2>4. QED  BY <2>2, <2>3 DEF Pending
<1>4. p0 \in Turns \cup {None} /\ Resolved(t) \in {None, p0}
  BY <1>2 DEF Resolved, Pending, TypeOK, SessionObject
<1>5. p0 # None => p0 \in offered /\ p0 \in Turns /\ IsPending(p0) /\ ~ExecutedBySome(p0)
                   /\ session[p0] = session[t] /\ ~TakenBySome(p0)
  BY <1>2, <1>4, GateFacts DEF GateInv, OfferedOnce, IsPending
<1>6. ASSUME NEW p \in Turns
      PROVE  /\ ExecutedBySome(p)' = ExecutedBySome(p)
             /\ p \in offered /\ p # p0 => (IsPending(p)' <=> IsPending(p))
             /\ p \in offered /\ p = p0 => ~IsPending(p)'
             /\ TakenBySome(p)' <=> (TakenBySome(p) \/ p = Resolved(t))
  <2>1. p # None  BY SessionsAssumption
  <2>2. p \in offered => session[p] \in Turns  BY GateFacts
  <2>3. ExecutedBySome(p)' = ExecutedBySome(p)  BY <1>1 DEF ExecutedBySome
  <2>4. p \in offered => (IsPending(p)' <=> (p # p0 /\ IsPending(p)))
    BY <1>1, <1>3, <1>5, <2>1, <2>2 DEF IsPending, Pending
  <2>5. TakenBySome(p)' <=> (TakenBySome(p) \/ p = Resolved(t))
    <3>1. \A u \in Turns : u # t => confirmed'[u] = confirmed[u] /\ pc'[u] = pc[u]
      BY <1>1 DEF TypeOK
    <3>2. confirmed'[t] = Resolved(t) /\ pc'[t] = "planned"
      BY <1>1 DEF TypeOK
    <3>3. confirmed[t] # p  BY <1>2, <2>1
    <3>4. QED  BY <3>1, <3>2, <3>3 DEF TakenBySome
  <2>6. QED  BY <2>3, <2>4, <2>5
<1>7. ASSUME NEW p \in Turns, p # p0
      PROVE  GateState'[p] = GateState[p]
  <2>1. p # Resolved(t)  BY <1>4, <1>7, SessionsAssumption
  <2>2. QED
    BY <1>1, <1>6, <1>7, <2>1 DEF GateState, ExecutedBySome, IsPending, TakenBySome
<1>8. GateState' = [p \in Turns |-> GateState'[p]] /\ GateState = [p \in Turns |-> GateState[p]]
  BY DEF GateState
<1>9. GateHome' = GateHome  BY <1>1 DEF GateHome
<1>10. CASE p0 = None
  <2>1. GateState' = GateState  BY <1>7, <1>8, <1>10, SessionsAssumption
  <2>2. QED  BY <1>9, <2>1, GateUnchanged
<1>11. CASE p0 # None
  <2>1. PICK q \in Turns : q = p0  BY <1>4, <1>11
  <2>2. /\ q \in offered /\ IsPending(q) /\ ~ExecutedBySome(q)
        /\ ~ExecutedBySome(q)' /\ ~IsPending(q)' /\ q \in offered'
        /\ TakenBySome(q)' <=> (Resolved(t) = q)
    BY <1>1, <1>5, <1>6, <1>11, <2>1
  <2>3. GateState[q] = "pending"
    BY <2>2 DEF GateState, ExecutedBySome, IsPending
  <2>4. GateState'[q] = IF Resolved(t) = q THEN "taken" ELSE "dead"
    BY <2>2 DEF GateState, ExecutedBySome, IsPending, TakenBySome
  <2>5. \A p \in Turns : p # q => GateState'[p] = GateState[p]  BY <1>7, <2>1
  <2>6. CASE Resolved(t) = q
    <3>1. GateState' = [GateState EXCEPT ![q] = "taken"]
      BY <1>8, <2>4, <2>5, <2>6
    <3>2. Gate!Take(q)  BY <1>9, <2>3, <3>1 DEF Gate!Take
    <3>3. QED  BY <3>2 DEF GateStep, Gate!Move
  <2>7. CASE Resolved(t) # q
    <3>1. GateState' = [p \in Turns |-> IF p \in {q} THEN "dead" ELSE GateState[p]]
      BY <1>8, <2>4, <2>5, <2>7
    <3>2. Gate!Discard({q})  BY <1>9, <2>3, <3>1 DEF Gate!Discard
    <3>3. {q} \in SUBSET Turns  OBVIOUS
    <3>4. QED  BY <3>2, <3>3 DEF GateStep, Gate!Move
  <2>8. QED  BY <2>6, <2>7
<1>12. QED  BY <1>10, <1>11

\* Offering supersedes what was pending in the same session.
LEMMA ProposeStep ==
  ASSUME TypeOK, GateInv, NEW t \in Turns, Propose(t)
  PROVE  GateStep
<1>1. /\ pc[t] = "planned" /\ pc' = [pc EXCEPT ![t] = "answering"]
      /\ offered' = offered \cup {t} /\ confirmed[t] = None
      /\ UNCHANGED <<confirmed, session, executed>>
  BY DEF Propose, Proposes
<1>2. session[t] \in Turns /\ t \notin offered /\ t # None
  BY <1>1, SessionsAssumption DEF GateInv, Located, OfferedOnce
<1>3. \A r \in Turns : Pending(r)' = IF r = session[t] THEN t ELSE Pending(r)
  <2> DEFINE new == [id |-> t, expires |-> now + ProposalTtl]
  <2>1. new \in [id : Turns \cup {None}, expires : Nat]
    BY SessionsAssumption DEF TypeOK
  <2>2. object' = [object EXCEPT ![session[t]].pending = new]
    BY DEF Propose
  <2>3. new.id = t  OBVIOUS
  <2> HIDE DEF new
  <2>4. \A r \in Turns : /\ r # session[t] => object'[r].pending = object[r].pending
                         /\ r = session[t] => object'[r].pending = new
    BY <1>2, <2>1, <2>2, PendingType
  <2>5. QED  BY <2>3, <2>4 DEF Pending
<1>4. ASSUME NEW p \in Turns
      PROVE  /\ ExecutedBySome(p)' <=> ExecutedBySome(p)
             /\ TakenBySome(p)' <=> TakenBySome(p)
             /\ p \in offered => (IsPending(p)' <=> (IsPending(p) /\ session[p] # session[t]))
  <2>1. p # None  BY SessionsAssumption
  <2>2. ExecutedBySome(p)' <=> ExecutedBySome(p)  BY <1>1 DEF ExecutedBySome
  <2>3. TakenBySome(p)' <=> TakenBySome(p)
    <3>1. \A u \in Turns : u # t => confirmed'[u] = confirmed[u] /\ pc'[u] = pc[u]
      BY <1>1 DEF TypeOK
    <3>2. confirmed[t] # p /\ confirmed'[t] # p  BY <1>1, <2>1
    <3>3. QED  BY <3>1, <3>2 DEF TakenBySome
  <2>4. ASSUME p \in offered
        PROVE  IsPending(p)' <=> (IsPending(p) /\ session[p] # session[t])
    <3>1. session[p] \in Turns /\ p # t  BY <1>2, <2>4, GateFacts
    <3>2. Pending(session[p])' = IF session[p] = session[t] THEN t ELSE Pending(session[p])
      BY <1>1, <1>3, <3>1 DEF Pending
    <3>3. session'[p] = session[p]  BY <1>1
    <3>4. QED  BY <3>1, <3>2, <3>3 DEF IsPending, Pending
  <2>5. QED  BY <2>2, <2>3, <2>4
<1>5. GateState[t] = "none"  BY <1>2 DEF GateState
<1>6. GateState'[t] = "pending"
  <2>1. ~ExecutedBySome(t)'  BY <1>2, <1>4, GateFacts
  <2>2. IsPending(t)'
    BY <1>1, <1>2, <1>3 DEF IsPending, Pending
  <2>3. t \in offered'  BY <1>1
  <2>4. QED  BY <2>1, <2>2, <2>3 DEF GateState, ExecutedBySome, IsPending
<1>7. ASSUME NEW p \in Turns, p # t
      PROVE  GateState'[p] = IF GateState[p] = "pending" /\ GateHome[p] = session[t]
                             THEN "dead" ELSE GateState[p]
  <2>1. p \in offered' <=> p \in offered  BY <1>1, <1>7
  <2>2. TakenBySome(p) => ~IsPending(p)  BY GateFacts
  <2>3. CASE p \notin offered  BY <2>1, <2>3 DEF GateState
  <2>4. CASE p \in offered
    <3>1. GateHome[p] = session[p]  BY <2>4 DEF GateHome
    <3>2. GateState[p] = IF ExecutedBySome(p) THEN "executed"
                         ELSE IF IsPending(p) THEN "pending"
                         ELSE IF TakenBySome(p) THEN "taken" ELSE "dead"
      BY <2>4, GateStateOf
    <3>3. GateState'[p] = IF ExecutedBySome(p)' THEN "executed"
                          ELSE IF IsPending(p)' THEN "pending"
                          ELSE IF TakenBySome(p)' THEN "taken" ELSE "dead"
      BY <2>1, <2>4 DEF GateState, ExecutedBySome, IsPending, TakenBySome
    <3>4. QED  BY <1>4, <2>2, <2>4, <3>1, <3>2, <3>3
  <2>5. QED  BY <2>3, <2>4
<1>8. GateState' = [p \in Turns |-> GateState'[p]]  BY DEF GateState
<1>9. GateHome' = [GateHome EXCEPT ![t] = session[t]]  BY <1>1, <1>2 DEF GateHome
<1>10. Gate!Offer(t, session[t])
  BY <1>5, <1>6, <1>7, <1>8, <1>9 DEF Gate!Offer
<1>11. QED  BY <1>2, <1>10 DEF GateStep, Gate!Move

\* Only a taken proposal is executed.
LEMMA ExecuteStep ==
  ASSUME TypeOK, GateInv, NEW t \in Turns, Execute(t)
  PROVE  GateStep
<1>1. /\ pc[t] = "planned" /\ pc' = [pc EXCEPT ![t] = "answering"]
      /\ confirmed[t] # None /\ executed' = executed \cup {<<confirmed[t], t>>}
      /\ UNCHANGED <<object, confirmed, session, offered>>
  BY DEF Execute, storeVars
<1>2. PICK q \in Turns : q = confirmed[t]  BY <1>1 DEF TypeOK
<1>3. TakenBySome(q)  BY <1>1, <1>2 DEF TakenBySome
<1>4. q \in offered /\ ~IsPending(q) /\ ~ExecutedBySome(q)  BY <1>3, GateFacts
<1>5. GateState[q] = "taken"
  BY <1>3, <1>4 DEF GateState, ExecutedBySome, IsPending, TakenBySome
<1>6. GateState'[q] = "executed"
  <2>1. ExecutedBySome(q)'  BY <1>1, <1>2 DEF ExecutedBySome
  <2>2. QED  BY <1>1, <1>4, <2>1 DEF GateState, ExecutedBySome
<1>7. ASSUME NEW p \in Turns, p # q
      PROVE  GateState'[p] = GateState[p]
  <2>1. ExecutedBySome(p)' <=> ExecutedBySome(p)  BY <1>1, <1>2, <1>7 DEF ExecutedBySome
  <2>2. TakenBySome(p)' <=> TakenBySome(p)
    <3>1. \A u \in Turns : u # t => pc'[u] = pc[u]  BY <1>1 DEF TypeOK
    <3>2. confirmed[t] # p  BY <1>2, <1>7
    <3>3. QED  BY <1>1, <3>1, <3>2 DEF TakenBySome
  <2>3. IsPending(p)' <=> IsPending(p)  BY <1>1 DEF IsPending, Pending
  <2>4. QED
    BY <1>1, <2>1, <2>2, <2>3 DEF GateState, ExecutedBySome, IsPending, TakenBySome
<1>8. GateState' = [p \in Turns |-> GateState'[p]] /\ GateState = [p \in Turns |-> GateState[p]]
  BY DEF GateState
<1>9. GateHome' = GateHome  BY <1>1 DEF GateHome
<1>10. Gate!Execute(q)
  BY <1>5, <1>6, <1>7, <1>8, <1>9 DEF Gate!Execute
<1>11. QED  BY <1>10 DEF GateStep, Gate!Move

\* Every other step moves a turn that has offered and confirmed nothing more,
\* or none.
LEMMA OtherStep ==
  ASSUME TypeOK, GateInv,
         \/ \E t \in Turns :
              \/ Divert(t) \/ Call(t) \/ Degrade(t) \/ CallReturns(t) \/ Structured(t)
              \/ CallRaises(t) \/ Persist(t) \/ Disconnect(t)
         \/ \E k \in Keys, s \in Created : GetSession(k, s) \/ DeleteSession(k, s)
         \/ Tick \/ Restart \/ UNCHANGED vars
  PROVE  GateStep
<1>1. UNCHANGED <<confirmed, offered, executed, session>>
  BY DEF Divert, Call, Degrade, CallReturns, Structured, CallRaises, Persist, Disconnect,
         GetSession, DeleteSession, Tick, Restart, vars, turnVars
<1>2. \A u \in Turns : pc'[u] = "planned" => pc[u] = "planned"
  BY DEF Divert, Call, Degrade, CallReturns, Structured, CallRaises, Persist, Disconnect,
         GetSession, DeleteSession, Tick, Restart, vars, turnVars, TypeOK
<1>3. \A r \in Turns : Pending(r)' = Pending(r)
  <2>1. ASSUME NEW t \in Turns, Persist(t)
        PROVE  \A r \in Turns : Pending(r)' = Pending(r)
    BY <2>1, PersistEffect DEF Pending
  <2>2. CASE UNCHANGED object  BY <2>2 DEF Pending
  <2>3. QED
    BY <2>1, <2>2
    DEF Divert, Call, Degrade, CallReturns, Structured, CallRaises, Disconnect,
        GetSession, DeleteSession, Tick, Restart, vars, storeVars
<1>4. \A p \in Turns : TakenBySome(p)' => TakenBySome(p)
  BY <1>1, <1>2 DEF TakenBySome
<1>5. QED  BY <1>1, <1>3, <1>4, LosingStep

\* What a step does to a pending proposal: it stays as it is, it is let go, or
\* it makes place for one offered now.
LEMMA PendingMoves ==
  ASSUME TypeOK, GateInv, [Next]_vars, NEW r \in Turns
  PROVE  \/ object'[r].pending = object[r].pending
         \/ object'[r].pending = NoProposal
         \/ \E t \in Turns : /\ Propose(t) /\ r = session[t] /\ t \notin offered
                             /\ object'[r].pending = [id |-> t, expires |-> now + ProposalTtl]
<1>1. ASSUME NEW t \in Turns, Propose(t)
      PROVE  \/ object'[r].pending = object[r].pending
             \/ /\ r = session[t] /\ t \notin offered
                /\ object'[r].pending = [id |-> t, expires |-> now + ProposalTtl]
  <2> DEFINE new == [id |-> t, expires |-> now + ProposalTtl]
  <2>1. new \in [id : Turns \cup {None}, expires : Nat]
    BY SessionsAssumption DEF TypeOK
  <2>2. object' = [object EXCEPT ![session[t]].pending = new] /\ pc[t] = "planned"
    BY <1>1 DEF Propose
  <2>3. session[t] \in Turns /\ t \notin offered
    BY <2>2 DEF GateInv, Located, OfferedOnce
  <2> HIDE DEF new
  <2>4. /\ r # session[t] => object'[r].pending = object[r].pending
        /\ r = session[t] => object'[r].pending = new
    BY <2>1, <2>2, <2>3, PendingType
  <2>5. QED  BY <2>3, <2>4 DEF new
<1>2. ASSUME NEW t \in Turns, Admit(t)
      PROVE  object'[r].pending = object[r].pending \/ object'[r].pending = NoProposal
  <2> DEFINE none == NoProposal
  <2>1. object' = [object EXCEPT ![session[t]].pending = none] /\ pc[t] = "started"
    BY <1>2 DEF Admit, Unpend
  <2>2. session[t] \in Turns  BY <2>1 DEF GateInv, Located
  <2> HIDE DEF none
  <2>3. /\ r # session[t] => object'[r].pending = object[r].pending
        /\ r = session[t] => object'[r].pending = none
    BY <2>1, <2>2 DEF TypeOK, SessionObject
  <2>4. QED  BY <2>3 DEF none
<1>3. ASSUME NEW t \in Turns, Request(t)
      PROVE  object'[r].pending = object[r].pending \/ object'[r].pending = NoProposal
  <2>1. ASSUME NEW k \in Keys, NEW s \in Created \cup {None}, NEW text \in Texts,
               NEW confirm \in Confirms(k),
               Resume(t, k, s, confirm, text) \/ Open(t, k, s, confirm, text)
        PROVE  object'[r].pending = object[r].pending \/ object'[r].pending = NoProposal
    <3>1. CASE Resume(t, k, s, confirm, text)
      BY <3>1 DEF Resume, storeVars
    <3>2. CASE Open(t, k, s, confirm, text)
      BY <3>2, OpenEffect DEF Open
    <3>3. QED  BY <2>1, <3>1, <3>2
  <2>2. QED  BY <1>3, <2>1 DEF Request
<1>4. ASSUME NEW t \in Turns, Persist(t)
      PROVE  object'[r].pending = object[r].pending
  BY <1>4, PersistEffect
<1>5. ASSUME \/ \E t \in Turns : \/ Divert(t) \/ Execute(t) \/ Call(t) \/ Degrade(t)
                                 \/ CallReturns(t) \/ Structured(t) \/ CallRaises(t) \/ Disconnect(t)
             \/ \E k \in Keys, s \in Created : GetSession(k, s) \/ DeleteSession(k, s)
             \/ Tick \/ Restart \/ UNCHANGED vars
      PROVE  object'[r].pending = object[r].pending
  BY <1>5 DEF Divert, Execute, Call, Degrade, CallReturns, Structured, CallRaises, Disconnect,
              GetSession, DeleteSession, Tick, Restart, vars, storeVars
<1>6. QED  BY <1>1, <1>2, <1>3, <1>4, <1>5 DEF Next, Step

\* A turn that comes to hold a proposal took it before it expired.
LEMMA TakenInTime ==
  ASSUME TypeOK, GateInv, [Next]_vars, NEW t \in Turns, confirmed'[t] # confirmed[t]
  PROVE  /\ confirmed'[t] = Pending(session[t]) /\ session[t] \in Turns
         /\ now < object[session[t]].pending.expires
<1>1. ASSUME NEW u \in Turns, Admit(u)
      PROVE  /\ confirmed'[t] = Pending(session[t]) /\ session[t] \in Turns
             /\ now < object[session[t]].pending.expires
  <2>1. pc[u] = "started" /\ confirmed' = [confirmed EXCEPT ![u] = Resolved(u)]
    BY <1>1 DEF Admit
  <2>2. u = t /\ confirmed'[t] = Resolved(t)  BY <2>1 DEF TypeOK
  <2>3. confirmed[t] = None /\ session[t] \in Turns
    BY <2>1, <2>2 DEF GateInv, TakenOnce, Located
  <2>4. Resolved(t) = Pending(session[t]) /\ ~IsExpired(object[session[t]].pending)
    BY <2>2, <2>3 DEF Resolved, Pending
  <2>5. now \in Nat /\ object[session[t]].pending.expires \in Nat
    BY <2>3, SessionsAssumption DEF TypeOK, SessionObject
  <2>6. QED  BY <2>2, <2>3, <2>4, <2>5 DEF IsExpired
<1>2. ASSUME NEW u \in Turns,
             Divert(u) \/ Propose(u) \/ Execute(u) \/ Call(u) \/ Degrade(u) \/ CallReturns(u)
             \/ Structured(u) \/ CallRaises(u) \/ Persist(u) \/ Disconnect(u)
      PROVE  confirmed' = confirmed
  BY <1>2 DEF Divert, Propose, Execute, Call, Degrade, CallReturns, Structured, CallRaises,
              Persist, Disconnect
<1>3. ASSUME NEW u \in Turns, Request(u)  PROVE  confirmed' = confirmed
  BY <1>3 DEF Request, Resume, Open, Arrive
<1>4. ASSUME \/ Tick \/ Restart
             \/ \E k \in Keys, s \in Created : GetSession(k, s) \/ DeleteSession(k, s)
             \/ UNCHANGED vars
      PROVE  confirmed' = confirmed
  BY <1>4 DEF Tick, Restart, GetSession, DeleteSession, vars, turnVars
<1>5. QED  BY <1>1, <1>2, <1>3, <1>4 DEF Next, Step

\* what of a proposal its state says
LEMMA PendingOnly ==
  ASSUME GateInv, NEW p \in Turns
  PROVE  GateState[p] = "pending" <=> p \in offered /\ IsPending(p)
BY GateFacts, GateStateOf

\* Only an offer moves a session of a turn that has offered, or the offer itself.
LEMMA OfferedStay ==
  ASSUME TypeOK, GateInv, [Next]_vars, NEW p \in Turns
  PROVE  /\ p \in offered => session'[p] = session[p]
         /\ p \in offered' /\ p \notin offered => Propose(p) /\ session'[p] = session[p]
<1>1. ASSUME NEW t \in Turns, Request(t)
      PROVE  offered' = offered /\ (p \in offered => session'[p] = session[p])
  <2>1. pc[t] = "idle" /\ offered' = offered
    BY <1>1 DEF Request, Resume, Open, Arrive
  <2>2. t \notin offered  BY <2>1 DEF GateInv, Located
  <2>3. \A u \in Turns \ {t} : session'[u] = session[u]
    BY <1>1 DEF Request, Resume, Open, TypeOK
  <2>4. QED  BY <2>1, <2>2, <2>3
<1>2. ASSUME NEW t \in Turns, Propose(t)
      PROVE  session' = session /\ offered' = offered \cup {t}
  BY <1>2 DEF Propose
<1>3. ASSUME \/ \E t \in Turns : \/ Divert(t) \/ Admit(t) \/ Execute(t) \/ Call(t) \/ Degrade(t)
                                 \/ CallReturns(t) \/ Structured(t) \/ CallRaises(t)
                                 \/ Persist(t) \/ Disconnect(t)
             \/ \E k \in Keys, s \in Created : GetSession(k, s) \/ DeleteSession(k, s)
             \/ Tick \/ Restart \/ UNCHANGED vars
      PROVE  session' = session /\ offered' = offered
  BY <1>3 DEF Divert, Admit, Execute, Call, Degrade, CallReturns, Structured, CallRaises,
              Persist, Disconnect, GetSession, DeleteSession, Tick, Restart, vars, turnVars
<1>4. QED  BY <1>1, <1>2, <1>3 DEF Next, Step

LEMMA ClockForward == TypeOK /\ [Next]_vars => now \in Nat /\ now <= now'
<1> SUFFICES ASSUME TypeOK, [Next]_vars PROVE now \in Nat /\ now <= now'
  OBVIOUS
<1>1. now \in Nat  BY SessionsAssumption DEF TypeOK
<1>2. ASSUME NEW t \in Turns, Request(t)  PROVE  now' = now
  BY <1>2 DEF Request, Resume, Open, Arrive
<1>3. ASSUME NEW t \in Turns, Step(t) \/ Disconnect(t)  PROVE  now' = now
  BY <1>3 DEF Step, Divert, Admit, Propose, Execute, Call, Degrade, CallReturns, Structured,
              CallRaises, Persist, Disconnect
<1>4. ASSUME \/ \E k \in Keys, s \in Created : GetSession(k, s) \/ DeleteSession(k, s)
             \/ Restart \/ UNCHANGED vars
      PROVE  now' = now
  BY <1>4 DEF GetSession, DeleteSession, Restart, vars
<1>5. Tick => now' = now + 1  BY DEF Tick
<1>6. now' = now \/ now' = now + 1  BY <1>2, <1>3, <1>4, <1>5 DEF Next
<1>7. QED  BY <1>1, <1>6

\* Every step keeps the time of the gate.
LEMMA GateInTime ==
  ASSUME TypeOK, GateInv, GateInv', [Next]_vars
  PROVE  Gate!InTime
<1>1. ASSUME NEW p \in Turns, GateState'[p] = "pending"
      PROVE  GateExpires'[p] = IF GateState[p] = "pending" THEN GateExpires[p]
                               ELSE now + ProposalTtl
  <2>1. p \in offered' /\ object'[session'[p]].pending.id = p
    BY <1>1 DEF GateState, Pending
  <2>2. p # None  BY SessionsAssumption
  <2>3. session'[p] = session[p]  BY <2>1, OfferedStay
  <2>4. session[p] \in Turns
    <3>1. CASE p \in offered  BY <3>1, GateFacts
    <3>2. CASE p \notin offered
      <4>1. pc[p] = "planned"  BY <2>1, <3>2, OfferedStay DEF Propose
      <4>2. QED  BY <4>1 DEF GateInv, Located
    <3>3. QED  BY <3>1, <3>2
  <2>5. GateExpires'[p] = object'[session[p]].pending.expires
    BY <1>1, <2>3 DEF GateExpires
  <2>6. NoProposal.id # p  BY <2>2 DEF NoProposal
  <2>7. \/ object'[session[p]].pending = object[session[p]].pending
        \/ /\ p \notin offered
           /\ object'[session[p]].pending = [id |-> p, expires |-> now + ProposalTtl]
    <3>1. object'[session[p]].pending.id = p  BY <2>1, <2>3
    <3>2. CASE object'[session[p]].pending = object[session[p]].pending  BY <3>2
    <3>3. CASE object'[session[p]].pending = NoProposal  BY <2>6, <3>1, <3>3
    <3>4. ASSUME NEW t \in Turns, Propose(t), session[p] = session[t], t \notin offered,
                 object'[session[p]].pending = [id |-> t, expires |-> now + ProposalTtl]
          PROVE  t = p
      BY <3>1, <3>4
    <3>5. QED  BY <2>4, <3>2, <3>3, <3>4, PendingMoves
  <2>8. CASE GateState[p] = "pending"
    <3>1. p \in offered  BY <2>8, PendingOnly
    <3>2. GateExpires[p] = object[session[p]].pending.expires  BY <2>8 DEF GateExpires
    <3>3. QED  BY <2>5, <2>7, <2>8, <3>1, <3>2
  <2>9. CASE GateState[p] # "pending"
    <3>1. object'[session[p]].pending # object[session[p]].pending
      <4>1. SUFFICES ASSUME object'[session[p]].pending = object[session[p]].pending PROVE FALSE
        OBVIOUS
      <4>2. Pending(session[p]) = p  BY <2>1, <2>3, <4>1 DEF Pending
      <4>3. p \in offered  BY <2>2, <2>4, <4>2 DEF GateInv, OfferedOnce
      <4>4. QED  BY <2>9, <4>2, <4>3, PendingOnly DEF IsPending
    <3>2. object'[session[p]].pending = [id |-> p, expires |-> now + ProposalTtl]
      BY <2>7, <3>1
    <3>3. QED  BY <2>5, <2>9, <3>2
  <2>10. QED  BY <2>8, <2>9
<1>2. ASSUME NEW p \in Turns, GateState[p] = "pending", GateState'[p] = "taken"
      PROVE  now < GateExpires[p]
  <2>1. p \in offered /\ Pending(session[p]) = p  BY <1>2, PendingOnly DEF IsPending
  <2>2. GateExpires[p] = object[session[p]].pending.expires  BY <1>2 DEF GateExpires
  <2>3. PICK t \in Turns : confirmed'[t] = p
    BY <1>2 DEF GateState
  <2>4. confirmed[t] # p
    <3>1. SUFFICES ASSUME confirmed[t] = p PROVE FALSE
      OBVIOUS
    <3>2. confirmed[t] # None  BY <3>1, SessionsAssumption
    <3>3. session[p] = session[t] /\ Pending(session[t]) # p
      BY <3>1, <3>2 DEF GateInv, TakenOnce
    <3>4. QED  BY <2>1, <3>3
  <2>5. Pending(session[t]) = p /\ session[t] \in Turns
        /\ now < object[session[t]].pending.expires
    BY <2>3, <2>4, TakenInTime
  <2>6. session[p] = session[t]
    BY <2>5, SessionsAssumption DEF GateInv, OfferedOnce
  <2>7. QED  BY <2>2, <2>5, <2>6
<1>3. QED  BY <1>1, <1>2, ClockForward DEF Gate!InTime

\* The store and its turns implement the two-phase mutation gate: whatever the
\* turns, clients and workers do, a proposal is offered once, taken at most
\* once while pending and before it expires, and executed only when taken
\* (REQ-MUT-003, 006, 011).
THEOREM GateImplemented == Spec => ImplementsGate
<1>1. TypeOK /\ GateInv /\ [Next]_vars => GateStep
  <2> SUFFICES ASSUME TypeOK, GateInv, [Next]_vars PROVE GateStep
    OBVIOUS
  <2>1. QED
    BY ArriveKeepsGate, AdmitStep, ProposeStep, ExecuteStep, OtherStep
    DEF Next, Request, Step
<1>2. TypeOK /\ GateInv /\ GateInv' /\ [Next]_vars => [Gate!Next]_(Gate!vars)
  BY <1>1, GateInTime DEF GateStep, Gate!Next
<1>3. QED
  BY <1>2, GateInitial, GateCorrect, PTL DEF Spec, ImplementsGate, Gate!Spec

-----------------------------------------------------------------------------
(* Every turn lives the life TurnEngine describes                          *)

Lives(t) == [Life(t)!Next]_(Life(t)!vars)

\* What a step leaves alone of a turn is a stutter of its life.
LEMMA StandsStill ==
  ASSUME NEW t \in Turns, pc'[t] = pc[t], confirmed'[t] = confirmed[t], cost'[t] = cost[t]
  PROVE  Lives(t)
BY DEF Lives, Life!vars

LEMMA OthersStand ==
  ASSUME TypeOK, NEW t \in Turns, NEW u \in Turns \ {t},
         Request(t) \/ Step(t) \/ Disconnect(t)
  PROVE  pc'[u] = pc[u] /\ confirmed'[u] = confirmed[u] /\ cost'[u] = cost[u]
<1>1. CASE Request(t)
  BY <1>1 DEF Request, Resume, Open, Arrive, TypeOK
<1>2. CASE Step(t) \/ Disconnect(t)
  BY <1>2 DEF Step, Divert, Admit, Propose, Execute, Call, Degrade, CallReturns, Structured,
              CallRaises, Persist, Disconnect, TypeOK
<1>3. QED  BY <1>1, <1>2

LEMMA TurnLives ==
  ASSUME TypeOK, TypeOK', NEW t \in Turns, Request(t) \/ Step(t) \/ Disconnect(t)
  PROVE  Lives(t)
<1>0. /\ pc \in [Turns -> {"idle"} \cup Suspended \cup Ended]
      /\ confirmed \in [Turns -> Turns \cup {None}] /\ cost \in [Turns -> 0..MaxTurnCost]
      /\ cost'[t] \in 0..MaxTurnCost
  BY DEF TypeOK
<1>1. CASE Request(t)
  <2>1. /\ pc[t] = "idle" /\ pc' = [pc EXCEPT ![t] = "started"]
        /\ UNCHANGED <<confirmed, cost>>
    BY <1>1 DEF Request, Resume, Open, Arrive
  <2>2. Life(t)!Arrive  BY <1>0, <2>1 DEF Life!Arrive, Life!Goes
  <2>3. QED  BY <2>2 DEF Lives, Life!Next
<1>2. CASE Divert(t)
  <2>1. Life(t)!Divert  BY <1>0, <1>2 DEF Divert, Life!Divert, Life!Goes
  <2>2. QED  BY <2>1 DEF Lives, Life!Next
<1>3. CASE Admit(t)
  <2>1. Life(t)!Admit  BY <1>0, <1>3 DEF Admit, Life!Admit, Life!Goes
  <2>2. QED  BY <2>1 DEF Lives, Life!Next
<1>4. CASE Propose(t) \/ Execute(t) \/ (Degrade(t) /\ pc[t] = "planned")
  <2>1. Life(t)!Canned  BY <1>0, <1>4 DEF Propose, Execute, Degrade, Life!Canned, Life!Goes
  <2>2. QED  BY <2>1 DEF Lives, Life!Next
<1>5. CASE Call(t)
  <2>1. Life(t)!Call  BY <1>0, <1>5 DEF Call, NeedsModel, Life!Call, Life!Goes
  <2>2. QED  BY <2>1 DEF Lives, Life!Next
<1>6. CASE (Degrade(t) /\ pc[t] # "planned") \/ CallReturns(t)
  <2>1. Life(t)!Answer \/ Life(t)!Again
    BY <1>0, <1>6 DEF Degrade, CallReturns, Life!Answer, Life!Again, Life!Goes
  <2>2. QED  BY <2>1 DEF Lives, Life!Next
<1>7. CASE Structured(t)
  <2>1. Life(t)!Structured  BY <1>0, <1>7 DEF Structured, Life!Structured, Life!Goes
  <2>2. QED  BY <2>1 DEF Lives, Life!Next
<1>8. CASE Persist(t)
  <2>1. Life(t)!Persist  BY <1>0, <1>8 DEF Persist, Life!Persist, Life!Goes
  <2>2. QED  BY <2>1 DEF Lives, Life!Next
<1>9. CASE CallRaises(t) \/ Disconnect(t)
  <2>1. Life(t)!Drop  BY <1>0, <1>9 DEF CallRaises, Disconnect, Suspended, Life!Drop
  <2>2. QED  BY <2>1 DEF Lives, Life!Next
<1>10. QED
  BY <1>1, <1>2, <1>3, <1>4, <1>5, <1>6, <1>7, <1>8, <1>9 DEF Step

\* Every turn of the store, whatever the others do meanwhile, is a turn of the
\* life that TurnEngine describes (engine/turn.py _pipeline, _answer).
THEOREM EveryTurnIsALife == Spec => EveryTurnLives
<1> DEFINE All == \A t \in Turns : Lives(t)
<1>1. Init => \A t \in Turns : Life(t)!Init
  BY DEF Init, Life!Init
<1>2. ASSUME TypeOK, TypeOK', NEW t \in Turns, Request(t) \/ Step(t) \/ Disconnect(t)
      PROVE  All
  BY <1>2, TurnLives, OthersStand, StandsStill
<1>3. ASSUME \/ Tick \/ UNCHANGED vars
             \/ \E k \in Keys, s \in Created : GetSession(k, s) \/ DeleteSession(k, s)
      PROVE  All
  <2>1. UNCHANGED <<pc, confirmed, cost>>
    BY <1>3 DEF Tick, GetSession, DeleteSession, vars, turnVars
  <2>2. QED  BY <2>1, StandsStill
<1>4. ASSUME Restart, NEW t \in Turns  PROVE  Lives(t)
  <2>1. UNCHANGED <<confirmed, cost>>
        /\ pc'[t] = IF pc[t] \in Suspended THEN "dropped" ELSE pc[t]
    BY <1>4 DEF Restart
  <2>2. CASE pc[t] \in Suspended
    <3>1. Life(t)!Drop  BY <2>1, <2>2 DEF Suspended, Life!Drop
    <3>2. QED  BY <3>1 DEF Lives, Life!Next
  <2>3. CASE pc[t] \notin Suspended  BY <2>1, <2>3, StandsStill
  <2>4. QED  BY <2>2, <2>3
<1>5. TypeOK /\ TypeOK' /\ [Next]_vars => All
  BY <1>2, <1>3, <1>4 DEF Next
<1>6. TypeOK /\ TypeOK' /\ [Next]_vars => [\A t \in Turns : [Life(t)!Next]_(Life(t)!vars)]_vars
  BY <1>5 DEF Lives
<1>7. QED  BY <1>1, <1>6, TypeCorrect, PTL DEF Spec, EveryTurnLives

=============================================================================

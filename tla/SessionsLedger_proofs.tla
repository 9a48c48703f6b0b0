------------------------ MODULE SessionsLedger_proofs ------------------------
(***************************************************************************)
(* Theorems about what a session accumulates, its history and its spend.   *)
(* And about a session that is continued: it was live.                     *)
(***************************************************************************)
EXTENDS Sessions_proofs, FoldTheorems

-----------------------------------------------------------------------------
(* The history                                                             *)

\* Trimming only forgets, and a turn adds only messages of its own.
LEMMA TrimElements ==
  ASSUME NEW h \in Seq(Message), NEW i \in DOMAIN Trim(h)
  PROVE  \E j \in DOMAIN h : Trim(h)[i] = h[j]
<1>1. CASE Len(h) > Window
  <2> DEFINE m == Len(h) - Window + 1
  <2>1. m \in 1..Len(h) + 1 /\ m \in Int /\ Len(h) \in Int
    BY <1>1, SessionsAssumption
  <2>2. \A j \in m..Len(h) : h[j] \in Message
    BY <2>1
  <2>3. /\ Len(SubSeq(h, m, Len(h))) = Len(h) - m + 1
        /\ \A j \in 1..(Len(h) - m + 1) : SubSeq(h, m, Len(h))[j] = h[m + j - 1]
        /\ SubSeq(h, m, Len(h)) \in Seq(Message)
    BY <2>1, <2>2, SubSeqProperties
  <2>4. Trim(h) = SubSeq(h, m, Len(h))
    BY <1>1 DEF Trim
  <2>5. i \in 1..(Len(h) - m + 1)
    BY <2>3, <2>4
  <2>6. m + i - 1 \in DOMAIN h
    BY <2>1, <2>5
  <2>7. QED  BY <2>3, <2>4, <2>5, <2>6
<1>2. CASE ~(Len(h) > Window)  BY <1>2 DEF Trim
<1>3. QED  BY <1>1, <1>2

LEMMA AppendTrimElements ==
  ASSUME NEW h \in Seq(Message), NEW m \in Message, NEW i \in DOMAIN Trim(Append(h, m))
  PROVE  \/ Trim(Append(h, m))[i] = m
         \/ \E j \in DOMAIN h : Trim(Append(h, m))[i] = h[j]
<1>1. Append(h, m) \in Seq(Message)  OBVIOUS
<1>2. PICK j \in DOMAIN Append(h, m) : Trim(Append(h, m))[i] = Append(h, m)[j]
  BY <1>1, TrimElements
<1>3. Append(h, m)[j] = m \/ (j \in DOMAIN h /\ Append(h, m)[j] = h[j])
  OBVIOUS
<1>4. QED  BY <1>2, <1>3

LEMMA WithTurnElements ==
  ASSUME NEW h \in Seq(Message), NEW t \in Turns, NEW i \in DOMAIN WithTurn(h, t)
  PROVE  \/ WithTurn(h, t)[i].turn = t
         \/ \E j \in DOMAIN h : WithTurn(h, t)[i] = h[j]
<1> DEFINE user == [turn |-> t, role |-> "user"]
           assistant == [turn |-> t, role |-> "assistant"]
           h1 == Trim(Append(h, user))
<1>1. user \in Message /\ assistant \in Message  BY DEF Message
<1>2. h1 \in Seq(Message)  BY <1>1, AppendTrimType
<1>3. WithTurn(h, t) = Trim(Append(h1, assistant))  BY DEF WithTurn
<1>4. user.turn = t /\ assistant.turn = t  OBVIOUS
<1>5. \A j \in DOMAIN h1 : h1[j] = user \/ \E l \in DOMAIN h : h1[j] = h[l]
  BY <1>1, AppendTrimElements
<1> HIDE DEF user, assistant, h1
<1>6. WithTurn(h, t)[i] = assistant \/ \E j \in DOMAIN h1 : WithTurn(h, t)[i] = h1[j]
  BY <1>1, <1>2, <1>3, AppendTrimElements
<1>7. QED  BY <1>4, <1>5, <1>6

-----------------------------------------------------------------------------
(* What a step does to what sessions accumulate                            *)

\* A turn that was never admitted cost nothing.
Unadmitted ==
  \A t \in Turns \ admitted :
    cost[t] = 0 /\ pc[t] \in {"idle", "started", "answering", "done", "dropped"}

SameLedger ==
  \A s \in Turns : object'[s].turns = object[s].turns /\ object'[s].total = object[s].total

\* A request arrives.
Arrives(t) ==
  /\ pc[t] = "idle" /\ pc' = [pc EXCEPT ![t] = "started"]
  /\ Cardinality(InFlight) < MaxInFlight
  /\ \A u \in Turns \ {t} : session'[u] = session[u]
  /\ UNCHANGED <<cost, admitted>>
  /\ SameLedger

\* Admission finds the session below its ceiling.
Passes(t) ==
  /\ pc[t] = "started" /\ pc' = [pc EXCEPT ![t] = "planned"]
  /\ session[t] \in Turns /\ ~OverBudget(session[t])
  /\ admitted' = admitted \cup {t}
  /\ UNCHANGED <<cost, session>>
  /\ SameLedger

\* The turn adds its messages and its cost.
Saves(t) ==
  /\ pc[t] = "answering" /\ pc' = [pc EXCEPT ![t] = "done"]
  /\ session[t] \in Turns
  /\ UNCHANGED <<cost, session, admitted>>
  /\ \A s \in Turns :
       /\ object'[s].turns = IF s = session[t] THEN WithTurn(object[s].turns, t)
                             ELSE object[s].turns
       /\ object'[s].total = IF s = session[t] THEN object[s].total + cost[t]
                             ELSE object[s].total

\* Any other step moves turns on, or drops them; only an admitted turn may cost.
Goes(u) ==
  \/ pc'[u] = pc[u] /\ cost'[u] = cost[u]
  \/ /\ pc[u] \in Suspended /\ pc'[u] \in Suspended \cup {"dropped"}
     /\ u \in admitted \/ (cost'[u] = cost[u] /\ pc'[u] \in {"answering", "dropped"})
Quiet == UNCHANGED <<session, admitted>> /\ SameLedger /\ \A u \in Turns : Goes(u)

LEMMA ArrivesStep ==
  ASSUME TypeOK, Located, NEW t \in Turns, Request(t)
  PROVE  Arrives(t)
<1>0. PICK k \in Keys, s \in Created \cup {None}, text \in Texts :
        \E confirm \in Confirms(k) :
          Resume(t, k, s, confirm, text) \/ Open(t, k, s, confirm, text)
  BY DEF Request
<1>1. PICK confirm \in Confirms(k) :
        Resume(t, k, s, confirm, text) \/ Open(t, k, s, confirm, text)
  BY <1>0
<1>2. /\ pc[t] = "idle" /\ pc' = [pc EXCEPT ![t] = "started"]
      /\ Cardinality(InFlight) < MaxInFlight
      /\ UNCHANGED <<cost, admitted>>
  BY <1>1 DEF Resume, Open, Arrive
<1>3. \A u \in Turns \ {t} : session'[u] = session[u]
  BY <1>1 DEF Resume, Open, TypeOK
<1>4. SameLedger
  <2>1. CASE Resume(t, k, s, confirm, text)  BY <2>1 DEF Resume, storeVars, SameLedger
  <2>2. CASE Open(t, k, s, confirm, text)
    <3>1. object' = [object EXCEPT ![t] = Fresh(k)]  BY <2>2 DEF Open
    <3>2. object[t] = NoSession  BY <1>2 DEF Located
    <3>3. /\ Fresh(k).turns = NoSession.turns /\ Fresh(k).total = NoSession.total
      BY DEF Fresh, NoSession
    <3>4. QED  BY <3>1, <3>2, <3>3 DEF SameLedger, TypeOK
  <2>3. QED  BY <1>1, <2>1, <2>2
<1>5. QED  BY <1>2, <1>3, <1>4 DEF Arrives

LEMMA PassesStep ==
  ASSUME TypeOK, Located, NEW t \in Turns, Admit(t)
  PROVE  Passes(t)
<1>1. /\ pc[t] = "started" /\ pc' = [pc EXCEPT ![t] = "planned"]
      /\ ~OverBudget(session[t])
      /\ admitted' = admitted \cup {t}
      /\ UNCHANGED <<cost, session>>
      /\ object' = [object EXCEPT ![session[t]].pending = NoProposal]
  BY DEF Admit, Unpend, Diverted
<1>2. session[t] \in Turns  BY <1>1 DEF Located
<1>3. NoProposal \in [id : Turns \cup {None}, expires : Nat]  BY DEF NoProposal
<1>4. SameLedger  BY <1>1, <1>2, <1>3, PendingType DEF SameLedger
<1>5. QED  BY <1>1, <1>2, <1>4 DEF Passes

LEMMA SavesStep ==
  ASSUME TypeOK, Located, NEW t \in Turns, Persist(t)
  PROVE  Saves(t)
<1>1. /\ pc[t] = "answering" /\ pc' = [pc EXCEPT ![t] = "done"]
      /\ UNCHANGED <<cost, session, admitted>>
  BY DEF Persist, pastVars
<1>2. session[t] \in Turns  BY <1>1 DEF Located
<1>3. QED  BY <1>1, <1>2, PersistEffect DEF Saves

LEMMA QuietStep ==
  ASSUME TypeOK, Located, Unadmitted, NEW t \in Turns,
         \/ Divert(t) \/ Propose(t) \/ Execute(t) \/ Call(t) \/ Degrade(t) \/ CallReturns(t)
         \/ Structured(t) \/ CallRaises(t) \/ Disconnect(t)
  PROVE  Quiet
<1>1. UNCHANGED <<session, admitted>>
  BY DEF Divert, Propose, Execute, Call, Degrade, CallReturns, Structured, CallRaises, Disconnect,
         pastVars
<1>2. SameLedger
  <2>1. CASE Propose(t)
    <3> DEFINE p == [id |-> t, expires |-> now + ProposalTtl]
    <3>1. p \in [id : Turns \cup {None}, expires : Nat]
      BY SessionsAssumption DEF TypeOK
    <3>2. session[t] \in Turns  BY <2>1 DEF Propose, Located
    <3>3. object' = [object EXCEPT ![session[t]].pending = p]  BY <2>1 DEF Propose
    <3> HIDE DEF p
    <3>4. QED  BY <3>1, <3>2, <3>3, PendingType DEF SameLedger
  <2>2. CASE ~Propose(t)
    BY <2>2 DEF Divert, Execute, Call, Degrade, CallReturns, Structured, CallRaises, Disconnect,
                storeVars, SameLedger
  <2>3. QED  BY <2>1, <2>2
<1>3. \A u \in Turns \ {t} : pc'[u] = pc[u] /\ cost'[u] = cost[u]
  BY DEF Divert, Propose, Execute, Call, Degrade, CallReturns, Structured, CallRaises, Disconnect,
         TypeOK
<1>4. Goes(t)
  <2>1. CASE Divert(t) \/ Disconnect(t)
    BY <2>1 DEF Divert, Disconnect, Goes, Suspended, TypeOK
  <2>2. CASE ~(Divert(t) \/ Disconnect(t))
    <3>1. pc[t] \in {"planned", "calling", "structuring"} /\ pc'[t] \in Suspended \cup {"dropped"}
      BY <2>2 DEF Propose, Execute, Call, Degrade, CallReturns, Structured, CallRaises, Suspended,
                  TypeOK
    <3>2. t \in admitted  BY <3>1 DEF Unadmitted
    <3>3. QED  BY <3>1, <3>2 DEF Goes, Suspended
  <2>3. QED  BY <2>1, <2>2
<1>5. QED  BY <1>1, <1>2, <1>3, <1>4 DEF Quiet, Goes

LEMMA OutsideStep ==
  ASSUME TypeOK,
         \/ Tick \/ Restart \/ UNCHANGED vars
         \/ \E k \in Keys, s \in Created : GetSession(k, s) \/ DeleteSession(k, s)
  PROVE  Quiet
<1>1. CASE Restart
  BY <1>1 DEF Restart, pastVars, Quiet, SameLedger, Goes, TypeOK
<1>2. CASE ~Restart
  BY <1>2 DEF Tick, GetSession, DeleteSession, vars, storeVars, turnVars, pastVars,
              Quiet, SameLedger, Goes
<1>3. QED  BY <1>1, <1>2

LEMMA LedgerStep ==
  ASSUME TypeOK, Located, Unadmitted, [Next]_vars
  PROVE  \/ \E t \in Turns : Arrives(t) \/ Passes(t) \/ Saves(t)
         \/ Quiet
<1>1. CASE \E t \in Turns : Request(t)  BY <1>1, ArrivesStep
<1>2. CASE \E t \in Turns : Admit(t)  BY <1>2, PassesStep
<1>3. CASE \E t \in Turns : Persist(t)  BY <1>3, SavesStep
<1>4. CASE \E t \in Turns :
             \/ Divert(t) \/ Propose(t) \/ Execute(t) \/ Call(t) \/ Degrade(t) \/ CallReturns(t)
             \/ Structured(t) \/ CallRaises(t) \/ Disconnect(t)
  BY <1>4, QuietStep
<1>5. CASE \/ Tick \/ Restart \/ UNCHANGED vars
           \/ \E k \in Keys, s \in Created : GetSession(k, s) \/ DeleteSession(k, s)
  BY <1>5, OutsideStep
<1>6. QED  BY <1>1, <1>2, <1>3, <1>4, <1>5 DEF Next, Step

-----------------------------------------------------------------------------
(* The inductive invariant                                                 *)

\* A session's history holds messages of turns that persisted on it.
HistoryIsDone ==
  \A s \in Turns : \A i \in DOMAIN object[s].turns :
    LET t == object[s].turns[i].turn
    IN  t \in Turns /\ pc[t] = "done" /\ session[t] = s

FewInFlight == Cardinality(InFlight) <= MaxInFlight

\* The turns that found the session below its ceiling and have yet to be charged.
Passed(s) == {t \in admitted : pc[t] \in Suspended /\ session[t] = s}

\* What those turns may still add is part of the bound.
SpendCovered ==
  Ceiling # None =>
    \A s \in Turns :
      object[s].total + MaxTurnCost * Cardinality(Passed(s)) < Ceiling + MaxInFlight * MaxTurnCost

LedgerInv == Unadmitted /\ HistoryIsDone /\ FewInFlight /\ SpendCovered

LEMMA Products ==
  ASSUME NEW m \in Nat, NEW n \in Nat, NEW k \in Nat
  PROVE  /\ m * n \in Nat /\ m * (n + 1) = m * n + m
         /\ n <= k => m * n <= m * k
<1>1. m * n \in Nat /\ m * (n + 1) = m * n + m  OBVIOUS
<1>2. ASSUME n <= k  PROVE  m * n <= m * k
  <2> DEFINE d == k - n
  <2>1. d \in Nat /\ k = n + d  BY <1>2
  <2>2. m * d \in Nat  BY <2>1
  <2>3. m * k = m * n + m * d  BY <2>1
  <2>4. QED  BY <1>1, <2>2, <2>3
<1>3. QED  BY <1>1, <1>2

LEMMA LedgerInit == Init => LedgerInv
<1> SUFFICES ASSUME Init PROVE LedgerInv
  OBVIOUS
<1> USE SessionsAssumption
<1>1. Unadmitted  BY DEF Init, Unadmitted
<1>2. HistoryIsDone
  BY DEF Init, HistoryIsDone, NoSession
<1>3. InFlight = {} /\ \A s \in Turns : Passed(s) = {}
  BY DEF Init, InFlight, Passed, Suspended
<1>4. Cardinality({}) = 0  BY FS_EmptySet
<1>5. FewInFlight  BY <1>3, <1>4 DEF FewInFlight
<1>6. SpendCovered
  <2> SUFFICES ASSUME Ceiling # None, NEW s \in Turns
               PROVE  object[s].total + MaxTurnCost * Cardinality(Passed(s))
                        < Ceiling + MaxInFlight * MaxTurnCost
    BY DEF SpendCovered
  <2>1. object[s].total = 0  BY DEF Init, NoSession
  <2>2. Ceiling \in Nat /\ Ceiling > 0  OBVIOUS
  <2>3. MaxInFlight * MaxTurnCost \in Nat  BY Products
  <2>4. MaxTurnCost * Cardinality(Passed(s)) = 0  BY <1>3, <1>4
  <2>5. QED  BY <2>1, <2>2, <2>3, <2>4
<1>7. QED  BY <1>1, <1>2, <1>5, <1>6 DEF LedgerInv

LEMMA UnadmittedStep ==
  ASSUME TypeOK, Unadmitted,
         (\E t \in Turns : Arrives(t) \/ Passes(t) \/ Saves(t)) \/ Quiet
  PROVE  Unadmitted'
<1>1. ASSUME NEW t \in Turns, Arrives(t) \/ Passes(t) \/ Saves(t)  PROVE  Unadmitted'
  BY <1>1 DEF Arrives, Passes, Saves, Unadmitted, TypeOK
<1>2. CASE Quiet
  BY <1>2 DEF Quiet, Goes, Unadmitted, TypeOK
<1>3. QED  BY <1>1, <1>2

LEMMA HistoryStep ==
  ASSUME TypeOK, HistoryIsDone,
         (\E t \in Turns : Arrives(t) \/ Passes(t) \/ Saves(t)) \/ Quiet
  PROVE  HistoryIsDone'
<1>1. ASSUME SameLedger,
             \A u \in Turns : pc[u] = "done" => pc'[u] = "done" /\ session'[u] = session[u]
      PROVE  HistoryIsDone'
  BY <1>1 DEF SameLedger, HistoryIsDone
<1>2. ASSUME NEW t \in Turns, Arrives(t) \/ Passes(t)  PROVE  HistoryIsDone'
  BY <1>1, <1>2 DEF Arrives, Passes, TypeOK
<1>3. CASE Quiet
  BY <1>1, <1>3 DEF Quiet, Goes, Suspended
<1>4. ASSUME NEW t \in Turns, Saves(t)  PROVE  HistoryIsDone'
  <2>1. /\ pc' = [pc EXCEPT ![t] = "done"] /\ pc[t] = "answering" /\ session' = session
        /\ session[t] \in Turns
    BY <1>4 DEF Saves
  <2>2. \A u \in Turns : pc[u] = "done" \/ u = t => pc'[u] = "done"
    BY <2>1 DEF TypeOK
  <2> SUFFICES ASSUME NEW s \in Turns, NEW i \in DOMAIN object'[s].turns
               PROVE  LET u == object'[s].turns[i].turn
                      IN  u \in Turns /\ pc'[u] = "done" /\ session'[u] = s
    BY DEF HistoryIsDone
  <2>3. CASE s = session[t]
    <3>1. object'[s].turns = WithTurn(object[s].turns, t)  BY <1>4, <2>3 DEF Saves
    <3>2. object[s].turns \in Seq(Message)  BY DEF TypeOK, SessionObject
    <3>3. \/ object'[s].turns[i].turn = t
          \/ \E j \in DOMAIN object[s].turns : object'[s].turns[i] = object[s].turns[j]
      BY <3>1, <3>2, WithTurnElements
    <3>4. QED  BY <2>1, <2>2, <2>3, <3>3 DEF HistoryIsDone
  <2>4. CASE s # session[t]
    <3>1. object'[s].turns = object[s].turns  BY <1>4, <2>4 DEF Saves
    <3>2. QED  BY <2>1, <2>2, <3>1 DEF HistoryIsDone
  <2>5. QED  BY <2>3, <2>4
<1>5. QED  BY <1>2, <1>3, <1>4

LEMMA InFlightFinite == IsFiniteSet(InFlight) /\ Cardinality(InFlight) \in Nat
<1>1. InFlight \in SUBSET Turns  BY DEF InFlight
<1>2. QED  BY <1>1, SessionsAssumption, FS_Subset, FS_CardinalityType

LEMMA InFlightStep ==
  ASSUME TypeOK, FewInFlight,
         (\E t \in Turns : Arrives(t) \/ Passes(t) \/ Saves(t)) \/ Quiet
  PROVE  FewInFlight'
<1> USE SessionsAssumption
<1>1. ASSUME NEW t \in Turns, Arrives(t)  PROVE  FewInFlight'
  <2>1. InFlight' = InFlight \cup {t} /\ t \notin InFlight
    BY <1>1 DEF Arrives, InFlight, Suspended, TypeOK
  <2>2. Cardinality(InFlight') = Cardinality(InFlight) + 1
    BY <2>1, InFlightFinite, FS_AddElement
  <2>3. QED  BY <1>1, <2>2, InFlightFinite DEF Arrives, FewInFlight
<1>2. CASE (\E t \in Turns : Passes(t) \/ Saves(t)) \/ Quiet
  <2>1. InFlight' \in SUBSET InFlight
    BY <1>2 DEF Passes, Saves, Quiet, Goes, InFlight, Suspended, TypeOK
  <2>2. Cardinality(InFlight') <= Cardinality(InFlight) /\ Cardinality(InFlight') \in Nat
    BY <2>1, InFlightFinite, FS_Subset, FS_CardinalityType
  <2>3. QED  BY <2>2, InFlightFinite DEF FewInFlight
<1>3. QED  BY <1>1, <1>2

LEMMA PassedFinite ==
  ASSUME TypeOK, NEW s \in Turns
  PROVE  /\ Passed(s) \in SUBSET InFlight
         /\ IsFiniteSet(Passed(s)) /\ Cardinality(Passed(s)) \in Nat
         /\ Cardinality(Passed(s)) <= Cardinality(InFlight)
<1>1. Passed(s) \in SUBSET InFlight  BY DEF Passed, InFlight, TypeOK
<1>2. QED  BY <1>1, InFlightFinite, FS_Subset, FS_CardinalityType

\* A session whose total and passed turns do not grow stays covered.
LEMMA CoveredFrame ==
  ASSUME TypeOK, SpendCovered, NEW s \in Turns, Ceiling # None,
         object'[s].total = object[s].total, Passed(s)' \in SUBSET Passed(s)
  PROVE  object'[s].total + MaxTurnCost * Cardinality(Passed(s)')
           < Ceiling + MaxInFlight * MaxTurnCost
<1> USE SessionsAssumption
<1> DEFINE n == Cardinality(Passed(s)')
           k == Cardinality(Passed(s))
<1>1. n \in Nat /\ k \in Nat /\ n <= k
  BY PassedFinite, FS_Subset, FS_CardinalityType
<1>2. MaxTurnCost * n <= MaxTurnCost * k /\ MaxTurnCost * n \in Nat /\ MaxTurnCost * k \in Nat
  BY <1>1, Products
<1>3. object[s].total + MaxTurnCost * k < Ceiling + MaxInFlight * MaxTurnCost
  BY DEF SpendCovered
<1>4. object[s].total \in Nat /\ Ceiling \in Nat /\ MaxInFlight * MaxTurnCost \in Nat
  BY Products DEF TypeOK, SessionObject
<1> HIDE DEF n, k
<1>5. QED  BY <1>2, <1>3, <1>4 DEF n

LEMMA SpendStep ==
  ASSUME TypeOK, TypeOK', Located, LedgerInv, FewInFlight',
         (\E t \in Turns : Arrives(t) \/ Passes(t) \/ Saves(t)) \/ Quiet
  PROVE  SpendCovered'
<1> USE SessionsAssumption DEF LedgerInv
<1> SUFFICES ASSUME Ceiling # None, NEW s \in Turns
             PROVE  object'[s].total + MaxTurnCost * Cardinality(Passed(s)')
                      < Ceiling + MaxInFlight * MaxTurnCost
  BY DEF SpendCovered
<1>0. /\ object[s].total \in Nat /\ Ceiling \in Nat /\ MaxInFlight * MaxTurnCost \in Nat
      /\ object[s].total + MaxTurnCost * Cardinality(Passed(s))
           < Ceiling + MaxInFlight * MaxTurnCost
  BY Products DEF TypeOK, SessionObject, SpendCovered
<1>1. ASSUME NEW t \in Turns, Arrives(t)  PROVE  Passed(s)' \in SUBSET Passed(s)
  <2>1. t \notin admitted  BY <1>1 DEF Arrives, Located
  <2>2. QED  BY <1>1, <2>1 DEF Arrives, Passed, TypeOK
<1>2. CASE Quiet
  <2>1. Passed(s)' \in SUBSET Passed(s)
    BY <1>2 DEF Quiet, Goes, Passed, Suspended, TypeOK
  <2>2. QED  BY <1>2, <2>1, CoveredFrame DEF Quiet, SameLedger
<1>3. CASE \E t \in Turns : Arrives(t)
  <2>1. Passed(s)' \in SUBSET Passed(s)  BY <1>1, <1>3
  <2>2. QED  BY <1>3, <2>1, CoveredFrame DEF Arrives, SameLedger
\* the turn found the total below the ceiling, and no more turns than those in
\* flight can have passed
<1>4. ASSUME NEW t \in Turns, Passes(t), s = session[t]
      PROVE  object'[s].total + MaxTurnCost * Cardinality(Passed(s)')
               < Ceiling + MaxInFlight * MaxTurnCost
  <2> DEFINE n == Cardinality(Passed(s)')
  <2>1. object[s].total < Ceiling
    BY <1>0, <1>4 DEF Passes, OverBudget
  <2>2. object'[s].total = object[s].total
    BY <1>4 DEF Passes, SameLedger
  <2>3. Passed(s)' \in SUBSET InFlight'
    BY DEF Passed, InFlight, TypeOK
  <2>4. IsFiniteSet(InFlight')
    <3>1. InFlight' \in SUBSET Turns  BY DEF InFlight
    <3>2. QED  BY <3>1, FS_Subset
  <2>5. n \in Nat /\ n <= MaxInFlight
    <3>1. /\ Cardinality(InFlight') \in Nat /\ n \in Nat /\ n <= Cardinality(InFlight')
      BY <2>3, <2>4, FS_Subset, FS_CardinalityType
    <3>2. QED  BY <3>1 DEF FewInFlight
  <2>6. MaxTurnCost * n \in Nat /\ MaxTurnCost * n <= MaxTurnCost * MaxInFlight
    BY <2>5, Products
  <2>7. MaxTurnCost * MaxInFlight = MaxInFlight * MaxTurnCost
    OBVIOUS
  <2> HIDE DEF n
  <2>8. QED  BY <1>0, <2>1, <2>2, <2>6, <2>7 DEF n
\* the turn's cost was already counted
<1>5. ASSUME NEW t \in Turns, Saves(t), s = session[t]
      PROVE  object'[s].total + MaxTurnCost * Cardinality(Passed(s)')
               < Ceiling + MaxInFlight * MaxTurnCost
  <2> DEFINE k == Cardinality(Passed(s))
             n == Cardinality(Passed(s)')
  <2>1. object'[s].total = object[s].total + cost[t] /\ cost[t] \in 0..MaxTurnCost
    BY <1>5 DEF Saves, TypeOK
  <2>2. Passed(s)' = Passed(s) \ {t}
    BY <1>5 DEF Saves, Passed, Suspended, TypeOK
  <2>3. IsFiniteSet(Passed(s)) /\ k \in Nat
    BY PassedFinite
  <2>4. CASE t \in Passed(s)
    <3>1. n = k - 1 /\ n \in Nat
      <4>1. n = k - 1  BY <2>2, <2>3, <2>4, FS_RemoveElement
      <4>2. IsFiniteSet(Passed(s)')  BY <2>2, <2>3, FS_RemoveElement
      <4>3. QED  BY <4>1, <4>2, FS_CardinalityType
    <3>2. MaxTurnCost * k = MaxTurnCost * n + MaxTurnCost /\ MaxTurnCost * n \in Nat
      <4>1. k = n + 1  BY <2>3, <3>1
      <4> HIDE DEF n, k
      <4>2. QED  BY <3>1, <4>1, Products
    <3> HIDE DEF n
    <3>3. object[s].total + MaxTurnCost * k < Ceiling + MaxInFlight * MaxTurnCost
      BY <1>0
    <3> HIDE DEF k
    <3>4. QED  BY <1>0, <2>1, <3>2, <3>3 DEF n
  <2>5. CASE t \notin Passed(s)
    <3>1. cost[t] = 0
      BY <1>5, <2>5 DEF Saves, Passed, Suspended, Unadmitted
    <3>2. Passed(s)' = Passed(s)  BY <2>2, <2>5
    <3>3. object'[s].total = object[s].total  BY <1>0, <2>1, <3>1
    <3>4. QED  BY <1>0, <3>2, <3>3
  <2>6. QED  BY <2>4, <2>5
<1>6. ASSUME NEW t \in Turns, Passes(t) \/ Saves(t), s # session[t]
      PROVE  object'[s].total + MaxTurnCost * Cardinality(Passed(s)')
               < Ceiling + MaxInFlight * MaxTurnCost
  <2>1. object'[s].total = object[s].total
    BY <1>6 DEF Passes, Saves, SameLedger
  <2>2. Passed(s)' \in SUBSET Passed(s)
    BY <1>6 DEF Passes, Saves, Passed, Suspended, TypeOK
  <2>3. QED  BY <2>1, <2>2, CoveredFrame
<1>7. QED  BY <1>2, <1>3, <1>4, <1>5, <1>6

LEMMA LedgerNext ==
  TypeOK /\ Located /\ LedgerInv /\ [Next]_vars /\ TypeOK' => LedgerInv'
<1> SUFFICES ASSUME TypeOK, Located, LedgerInv, [Next]_vars, TypeOK' PROVE LedgerInv'
  OBVIOUS
<1>1. (\E t \in Turns : Arrives(t) \/ Passes(t) \/ Saves(t)) \/ Quiet
  BY LedgerStep DEF LedgerInv
<1>2. Unadmitted'  BY <1>1, UnadmittedStep DEF LedgerInv
<1>3. HistoryIsDone'  BY <1>1, HistoryStep DEF LedgerInv
<1>4. FewInFlight'  BY <1>1, InFlightStep DEF LedgerInv
<1>5. SpendCovered'  BY <1>1, <1>4, SpendStep
<1>6. QED  BY <1>2, <1>3, <1>4, <1>5 DEF LedgerInv

\* What holds of the sessions' histories and totals at every moment.
THEOREM LedgerCorrect == Spec => []LedgerInv
<1>1. QED  BY LedgerInit, LedgerNext, TypeCorrect, PTL DEF Spec

\* Every message of a session's history was sent by the key that owns it, on
\* that very session (MemorySessionStore.get, Session.owned_by, _answer).
THEOREM HistoryIsolated == Spec => []HistoryIsTheOwners
<1>1. TypeOK /\ Located /\ LedgerInv => HistoryIsTheOwners
  <2> SUFFICES ASSUME TypeOK, Located, LedgerInv, NEW s \in Created,
                      NEW i \in DOMAIN object[s].turns
               PROVE  LET t == object[s].turns[i].turn
                      IN  request[t].key = object[s].owner /\ session[t] = s
    BY DEF HistoryIsTheOwners
  <2> DEFINE t == object[s].turns[i].turn
  <2>1. s \in Turns  BY DEF Created
  <2>2. t \in Turns /\ pc[t] = "done" /\ session[t] = s
    BY <2>1 DEF LedgerInv, HistoryIsDone
  <2> HIDE DEF t
  <2>3. object[session[t]].owner = request[t].key
    BY <2>2 DEF Located
  <2>4. QED  BY <2>2, <2>3 DEF t
<1>2. QED  BY <1>1, LedgerCorrect, TypeCorrect, PTL

\* Turns in flight together overshoot a session's ceiling by less than one
\* turn's cost each, however their checks and charges interleave (_pipeline's
\* budget check, _finish_with_answer's charge).
THEOREM OvershootBounded == Spec => []SpendBound
<1>1. TypeOK /\ LedgerInv => SpendBound
  <2> SUFFICES ASSUME TypeOK, LedgerInv, Ceiling # None, NEW s \in Turns
               PROVE  object[s].total < Ceiling + MaxInFlight * MaxTurnCost
    BY DEF SpendBound
  <2> USE SessionsAssumption
  <2>1. Cardinality(Passed(s)) \in Nat  BY PassedFinite
  <2>2. /\ MaxTurnCost * Cardinality(Passed(s)) \in Nat
        /\ MaxInFlight * MaxTurnCost \in Nat
    BY <2>1, Products
  <2>3. object[s].total \in Nat /\ Ceiling \in Nat  BY DEF TypeOK, SessionObject
  <2>4. object[s].total + MaxTurnCost * Cardinality(Passed(s))
          < Ceiling + MaxInFlight * MaxTurnCost
    BY DEF LedgerInv, SpendCovered
  <2>5. QED  BY <2>2, <2>3, <2>4
<1>2. QED  BY <1>1, LedgerCorrect, TypeCorrect, PTL

-----------------------------------------------------------------------------
(* The pairs of a history                                                  *)

UserOf(t)      == [turn |-> t, role |-> "user"]
AssistantOf(t) == [turn |-> t, role |-> "assistant"]

\* The history h neither interleaves messages nor tears a pair.
Paired(h) ==
  \A i \in DOMAIN h :
    /\ h[i].role = "user" => i < Len(h) /\ h[i + 1] = AssistantOf(h[i].turn)
    /\ h[i].role = "assistant" /\ i > 1 => h[i - 1] = UserOf(h[i].turn)

Lesser(a, b) == IF a <= b THEN a ELSE b

LEMMA MinOfTwo ==
  ASSUME NEW a \in Nat, NEW b \in Nat  PROVE  Min({a, b}) = Lesser(a, b)
<1> DEFINE m == Lesser(a, b)
<1>1. m \in {a, b} /\ \A y \in {a, b} : m <= y  BY DEF Lesser
<1>2. \A x \in {a, b} : (\A y \in {a, b} : x <= y) => x = m  BY <1>1 DEF Lesser
<1>3. QED  BY <1>1, <1>2 DEF Min

-----------------------------------------------------------------------------
(* What a turn does to a history                                           *)

\* One message more, the oldest forgotten if there is no room.
LEMMA AppendTrimShape ==
  ASSUME NEW h \in Seq(Message), NEW m \in Message, Len(h) <= Window
  PROVE  LET g == Trim(Append(h, m))
             k == Lesser(Window, Len(h) + 1)
         IN  /\ g \in Seq(Message) /\ Len(g) = k /\ g[k] = m
             /\ \A i \in 1..(k - 1) : g[i] = h[i + Len(h) + 1 - k]
<1> DEFINE n == Len(h) + 1
           a == Append(h, m)
<1> USE SessionsAssumption
<1>1. /\ a \in Seq(Message) /\ Len(a) = n /\ n \in Nat /\ a[n] = m
      /\ \A i \in 1..(n - 1) : a[i] = h[i]
  OBVIOUS
<1> HIDE DEF a
<1>2. CASE n > Window
  <2>1. Len(h) = Window /\ n = Window + 1 /\ Lesser(Window, n) = Window
    BY <1>2 DEF Lesser
  <2>2. Trim(a) = SubSeq(a, 2, n)  BY <1>1, <1>2, <2>1 DEF Trim
  <2>3. \A j \in 2..n : a[j] \in Message  BY <1>1
  <2>4. 2 \in 1..(n + 1) /\ n \in Int /\ n - 2 + 1 = Window  BY <1>1, <2>1
  <2>5. /\ Len(SubSeq(a, 2, n)) = Window /\ SubSeq(a, 2, n) \in Seq(Message)
        /\ \A i \in 1..Window : SubSeq(a, 2, n)[i] = a[i + 1]
    BY <1>1, <2>3, <2>4, SubSeqProperties
  <2>6. SubSeq(a, 2, n)[Window] = m  BY <1>1, <2>1, <2>5
  <2>7. \A i \in 1..(Window - 1) : SubSeq(a, 2, n)[i] = h[i + n - Window]
    BY <1>1, <2>1, <2>5
  <2>8. QED  BY <2>1, <2>2, <2>5, <2>6, <2>7 DEF a
<1>3. CASE ~(n > Window)
  <2>1. Lesser(Window, n) = n /\ Trim(a) = a
    BY <1>1, <1>3 DEF Lesser, Trim
  <2>2. \A i \in 1..(n - 1) : a[i] = h[i + n - n]  BY <1>1
  <2>3. QED  BY <1>1, <2>1, <2>2 DEF a
<1>4. QED  BY <1>2, <1>3

\* A turn's two messages are the last, and the rest is the end of what was.
LEMMA WithTurnShape ==
  ASSUME NEW h \in Seq(Message), NEW t \in Turns, Len(h) <= Window
  PROVE  LET g == WithTurn(h, t)
             k == Lesser(Window, Len(h) + 2)
         IN  /\ g \in Seq(Message) /\ Len(g) = k /\ k \in Nat \ {0}
             /\ g[k] = AssistantOf(t)
             /\ k > 1 => g[k - 1] = UserOf(t)
             /\ \A i \in 1..(k - 2) : g[i] = h[i + Len(h) + 2 - k]
<1> DEFINE h1 == Trim(Append(h, UserOf(t)))
           g  == Trim(Append(h1, AssistantOf(t)))
           k1 == Lesser(Window, Len(h) + 1)
           k  == Lesser(Window, Len(h) + 2)
<1> USE SessionsAssumption
<1>1. UserOf(t) \in Message /\ AssistantOf(t) \in Message
  BY DEF UserOf, AssistantOf, Message
<1>2. /\ h1 \in Seq(Message) /\ Len(h1) = k1 /\ h1[k1] = UserOf(t)
      /\ \A i \in 1..(k1 - 1) : h1[i] = h[i + Len(h) + 1 - k1]
  BY <1>1, AppendTrimShape
<1>3. Len(h) \in Nat  OBVIOUS
<1>4. k1 <= Window /\ k1 \in Nat \ {0} /\ Lesser(Window, k1 + 1) = k /\ k \in Nat \ {0}
      /\ k <= k1 + 1 /\ k1 <= Len(h) + 1
  BY <1>3 DEF Lesser
<1> HIDE DEF h1
<1>5. Len(h1) <= Window  BY <1>2, <1>4
<1>6. /\ g \in Seq(Message) /\ Len(g) = k /\ g[k] = AssistantOf(t)
      /\ \A i \in 1..(k - 1) : g[i] = h1[i + k1 + 1 - k]
  <2>1. /\ g \in Seq(Message) /\ Len(g) = Lesser(Window, Len(h1) + 1)
        /\ g[Lesser(Window, Len(h1) + 1)] = AssistantOf(t)
        /\ \A i \in 1..(Lesser(Window, Len(h1) + 1) - 1) :
             g[i] = h1[i + Len(h1) + 1 - Lesser(Window, Len(h1) + 1)]
    BY <1>1, <1>2, <1>5, AppendTrimShape
  <2>2. Len(h1) = k1 /\ Lesser(Window, Len(h1) + 1) = k  BY <1>2, <1>4
  <2> HIDE DEF g, k, k1
  <2>3. QED  BY <2>1, <2>2
<1>7. WithTurn(h, t) = g  BY DEF WithTurn, g, h1, UserOf, AssistantOf
<1> HIDE DEF g, k, k1
<1>8. k > 1 => g[k - 1] = UserOf(t)
  <2> SUFFICES ASSUME k > 1 PROVE g[k - 1] = UserOf(t)
    OBVIOUS
  <2>1. k - 1 \in 1..(k - 1) /\ k - 1 + k1 + 1 - k = k1  BY <1>4
  <2>2. QED  BY <1>2, <1>6, <2>1
<1>9. ASSUME NEW i \in 1..(k - 2)  PROVE  g[i] = h[i + Len(h) + 2 - k]
  <2> DEFINE j == i + k1 + 1 - k
  <2>1. i \in 1..(k - 1) /\ j \in 1..(k1 - 1)  BY <1>4
  <2>2. g[i] = h1[j]  BY <1>6, <2>1
  <2>3. h1[j] = h[j + Len(h) + 1 - k1]  BY <1>2, <2>1
  <2>4. j + Len(h) + 1 - k1 = i + Len(h) + 2 - k  BY <1>3, <1>4
  <2>5. QED  BY <2>2, <2>3, <2>4
<1>10. QED  BY <1>4, <1>6, <1>7, <1>8, <1>9 DEF k

LEMMA WithTurnPairs ==
  ASSUME NEW h \in Seq(Message), NEW t \in Turns, Len(h) <= Window, Paired(h)
  PROVE  Paired(WithTurn(h, t))
<1> DEFINE g == WithTurn(h, t)
           k == Lesser(Window, Len(h) + 2)
           d == Len(h) + 2 - k
<1>1. /\ g \in Seq(Message) /\ Len(g) = k /\ k \in Nat \ {0}
      /\ g[k] = AssistantOf(t) /\ (k > 1 => g[k - 1] = UserOf(t))
      /\ \A i \in 1..(k - 2) : g[i] = h[i + Len(h) + 2 - k]
  BY WithTurnShape
<1>2. Len(h) \in Nat /\ d \in Nat /\ k + d = Len(h) + 2
  BY SessionsAssumption DEF Lesser
<1> HIDE DEF g, k
<1>3. ASSUME NEW i \in 1..(k - 2)  PROVE  g[i] = h[i + d] /\ i + d \in 1..Len(h)
  <2>1. i + Len(h) + 2 - k = i + d  BY <1>1, <1>2
  <2>2. g[i] = h[i + d]  BY <1>1, <2>1
  <2> HIDE DEF d
  <2>3. QED  BY <1>1, <1>2, <2>2
<1> HIDE DEF d
<1> SUFFICES ASSUME NEW i \in 1..k
             PROVE  /\ g[i].role = "user" => i < k /\ g[i + 1] = AssistantOf(g[i].turn)
                    /\ g[i].role = "assistant" /\ i > 1 => g[i - 1] = UserOf(g[i].turn)
  BY <1>1 DEF Paired, g
<1>4. CASE i = k
  <2>1. g[i].role = "assistant" /\ g[i].turn = t  BY <1>1, <1>4 DEF AssistantOf
  <2>2. QED  BY <1>1, <1>4, <2>1
<1>5. CASE i = k - 1
  <2>1. k > 1  BY <1>1, <1>5
  <2>2. g[i].role = "user" /\ g[i].turn = t  BY <1>1, <1>5, <2>1 DEF UserOf
  <2>3. i < k /\ i + 1 = k  BY <1>1, <1>5
  <2>4. QED  BY <1>1, <2>2, <2>3
<1>6. CASE i \in 1..(k - 2)
  <2> DEFINE j == i + d
  <2>1. g[i] = h[j] /\ j \in 1..Len(h)  BY <1>3, <1>6
  <2>2. /\ h[j].role = "user" => j < Len(h) /\ h[j + 1] = AssistantOf(h[j].turn)
        /\ h[j].role = "assistant" /\ j > 1 => h[j - 1] = UserOf(h[j].turn)
    BY <2>1 DEF Paired
  <2>3. ASSUME g[i].role = "user"
        PROVE  i < k /\ g[i + 1] = AssistantOf(g[i].turn)
    <3>1. j < Len(h) /\ h[j + 1] = AssistantOf(h[j].turn)  BY <2>1, <2>2, <2>3
    <3>2. i + 1 \in 1..(k - 2) /\ i + 1 + d = j + 1  BY <1>1, <1>2, <1>6, <3>1
    <3>3. g[i + 1] = h[j + 1]  BY <1>3, <3>2
    <3>4. QED  BY <1>1, <1>6, <2>1, <3>1, <3>3
  <2>4. ASSUME g[i].role = "assistant", i > 1
        PROVE  g[i - 1] = UserOf(g[i].turn)
    <3>1. i - 1 \in 1..(k - 2) /\ i - 1 + d = j - 1 /\ j > 1
      BY <1>1, <1>2, <1>6, <2>4
    <3>2. g[i - 1] = h[j - 1]  BY <1>3, <3>1
    <3>3. h[j - 1] = UserOf(h[j].turn)  BY <2>1, <2>2, <2>4, <3>1
    <3>4. QED  BY <2>1, <3>2, <3>3
  <2>5. QED  BY <2>3, <2>4
<1>7. QED  BY <1>1, <1>4, <1>5, <1>6

-----------------------------------------------------------------------------
(* The inductive invariant                                                 *)

HistoryInv ==
  \A s \in Turns :
    /\ Paired(object[s].turns)
    /\ Len(object[s].turns) = Lesser(Window, 2 * Cardinality(DoneOn(s)))

LEMMA DoneFinite == ASSUME NEW s PROVE IsFiniteSet(DoneOn(s)) /\ Cardinality(DoneOn(s)) \in Nat
<1>1. DoneOn(s) \in SUBSET Turns  BY DEF DoneOn
<1>2. QED  BY <1>1, SessionsAssumption, FS_Subset, FS_CardinalityType

\* Nothing but persisting a turn changes which turns persisted.
LEMMA DoneSame ==
  ASSUME TypeOK, NEW t \in Turns, Arrives(t) \/ Passes(t) \/ Quiet
  PROVE  /\ \A s \in Turns : DoneOn(s)' = DoneOn(s)
         /\ \A u \in Turns : pc[u] = "done" => cost'[u] = cost[u]
         /\ SameLedger
<1>1. CASE Arrives(t) \/ Passes(t)
  <2>1. ASSUME NEW s \in Turns, NEW u \in Turns
        PROVE  session'[u] = s /\ pc'[u] = "done" <=> session[u] = s /\ pc[u] = "done"
    BY <1>1 DEF Arrives, Passes, TypeOK
  <2>2. \A s \in Turns : DoneOn(s)' = DoneOn(s)  BY <2>1 DEF DoneOn, Persisted
  <2>3. QED  BY <1>1, <2>2 DEF Arrives, Passes
<1>2. CASE Quiet
  <2>1. \A u \in Turns : (pc'[u] = "done" <=> pc[u] = "done") /\ session' = session
    BY <1>2 DEF Quiet, Goes, Suspended
  <2>2. \A s \in Turns : DoneOn(s)' = DoneOn(s)  BY <2>1 DEF DoneOn, Persisted
  <2>3. QED  BY <1>2, <2>2 DEF Quiet, Goes, Suspended
<1>3. QED  BY <1>1, <1>2

LEMMA DoneMore ==
  ASSUME TypeOK, NEW t \in Turns, Saves(t), NEW s \in Turns
  PROVE  IF s = session[t] THEN DoneOn(s)' = DoneOn(s) \cup {t} /\ t \notin DoneOn(s)
         ELSE DoneOn(s)' = DoneOn(s)
<1>1. /\ pc[t] = "answering" /\ pc' = [pc EXCEPT ![t] = "done"] /\ session' = session
  BY DEF Saves
<1>2. \A u \in Turns : pc'[u] = "done" <=> pc[u] = "done" \/ u = t
  BY <1>1 DEF TypeOK
<1>3. QED  BY <1>1, <1>2 DEF DoneOn, Persisted

LEMMA HistoryInit == Init => HistoryInv
<1> SUFFICES ASSUME Init, NEW s \in Turns
             PROVE  /\ Paired(object[s].turns)
                    /\ Len(object[s].turns) = Lesser(Window, 2 * Cardinality(DoneOn(s)))
  BY DEF HistoryInv
<1>1. object[s].turns = <<>>  BY DEF Init, NoSession
<1>2. DoneOn(s) = {}  BY DEF Init, DoneOn, Persisted
<1>3. Cardinality(DoneOn(s)) = 0  BY <1>2, FS_EmptySet
<1>4. Lesser(Window, 2 * Cardinality(DoneOn(s))) = 0
  BY <1>3, SessionsAssumption DEF Lesser
<1>5. QED  BY <1>1, <1>4 DEF Paired

LEMMA HistoryNext ==
  ASSUME TypeOK, Located, Unadmitted, HistoryInv, [Next]_vars  PROVE  HistoryInv'
<1>1. ASSUME NEW s \in Turns, object'[s].turns = object[s].turns, DoneOn(s)' = DoneOn(s)
      PROVE  /\ Paired(object'[s].turns)
             /\ Len(object'[s].turns) = Lesser(Window, 2 * Cardinality(DoneOn(s)'))
  BY <1>1 DEF HistoryInv
<1>2. ASSUME NEW t \in Turns, Arrives(t) \/ Passes(t) \/ Quiet  PROVE  HistoryInv'
  BY <1>1, <1>2, DoneSame DEF HistoryInv, SameLedger
<1>3. CASE Quiet
  <2>1. CASE Turns = {}  BY <2>1 DEF HistoryInv
  <2>2. QED  BY <1>2, <1>3, <2>1
<1>4. ASSUME NEW t \in Turns, Saves(t)  PROVE  HistoryInv'
  <2> SUFFICES ASSUME NEW s \in Turns
               PROVE  /\ Paired(object'[s].turns)
                      /\ Len(object'[s].turns) = Lesser(Window, 2 * Cardinality(DoneOn(s)'))
    BY DEF HistoryInv
  <2>3. CASE s # session[t]
    <3>1. object'[s].turns = object[s].turns  BY <1>4, <2>3 DEF Saves
    <3>2. DoneOn(s)' = DoneOn(s)  BY <1>4, <2>3, DoneMore
    <3>3. QED  BY <1>1, <3>1, <3>2
  <2>4. CASE s = session[t]
    <3> DEFINE h == object[s].turns
               n == Cardinality(DoneOn(s))
    <3>1. object'[s].turns = WithTurn(h, t)  BY <1>4, <2>4 DEF Saves
    <3>2. h \in Seq(Message)  BY DEF TypeOK, SessionObject
    <3>3. Paired(h) /\ Len(h) = Lesser(Window, 2 * n)  BY DEF HistoryInv
    <3>4. DoneOn(s)' = DoneOn(s) \cup {t} /\ t \notin DoneOn(s)
      BY <1>4, <2>4, DoneMore
    <3>5. Cardinality(DoneOn(s)') = n + 1 /\ n \in Nat
      BY <3>4, DoneFinite, FS_AddElement
    <3> HIDE DEF h, n
    <3>6. Len(h) <= Window  BY <3>3, <3>5, SessionsAssumption DEF Lesser
    <3>7. Paired(WithTurn(h, t))  BY <3>2, <3>3, <3>6, WithTurnPairs
    <3>8. Len(WithTurn(h, t)) = Lesser(Window, Len(h) + 2)
      BY <3>2, <3>6, WithTurnShape
    <3>9. Lesser(Window, Len(h) + 2) = Lesser(Window, 2 * (n + 1))
      BY <3>3, <3>5, SessionsAssumption DEF Lesser
    <3>10. QED  BY <3>1, <3>5, <3>7, <3>8, <3>9
  <2>5. QED  BY <2>3, <2>4
<1>5. QED  BY <1>2, <1>3, <1>4, LedgerStep

\* What the history of every session is at every moment.
THEOREM HistoryCorrect == Spec => []HistoryInv
<1>1. LedgerInv => Unadmitted  BY DEF LedgerInv
<1>2. QED  BY <1>1, HistoryInit, HistoryNext, LedgerCorrect, TypeCorrect, PTL DEF Spec

\* However turns of a session interleave, their messages stay in pairs
\* (Session.append, trimmed to the window).
THEOREM PairsKept == Spec => []HistoryPaired
<1>1. HistoryInv => HistoryPaired
  BY DEF HistoryInv, Paired, HistoryPaired, UserOf, AssistantOf
<1>2. QED  BY <1>1, HistoryCorrect, PTL

\* However turns of a session interleave, none that persisted is forgotten
\* before the window is full (Session.append, MemorySessionStore.save).
THEOREM NoTurnIsLost == Spec => []NoLostTurn
<1>1. HistoryInv => NoLostTurn
  <2> SUFFICES ASSUME HistoryInv, NEW s \in Turns
               PROVE  Len(object[s].turns) = Min({Window, 2 * Cardinality(DoneOn(s))})
    BY DEF NoLostTurn
  <2>1. Window \in Nat /\ 2 * Cardinality(DoneOn(s)) \in Nat
    BY DoneFinite, SessionsAssumption
  <2>2. QED  BY <2>1, MinOfTwo DEF HistoryInv
<1>2. QED  BY <1>1, HistoryCorrect, PTL

-----------------------------------------------------------------------------
(* What a session is charged                                               *)

AccountedInv == \A s \in Turns : object[s].total = SumOf(cost, DoneOn(s))

LEMMA CostIsSum == ASSUME NEW T  PROVE  CostOf(T) = SumOf(cost, T)
BY DEF CostOf, SumOf

LEMMA DoneCosts ==
  ASSUME TypeOK, NEW s  PROVE  \A u \in DoneOn(s) : u \in Turns /\ pc[u] = "done" /\ cost[u] \in Nat
BY SessionsAssumption DEF DoneOn, Persisted, TypeOK

LEMMA AccountedInit == Init => AccountedInv
<1> SUFFICES ASSUME Init, NEW s \in Turns  PROVE  object[s].total = SumOf(cost, DoneOn(s))
  BY DEF AccountedInv
<1>1. object[s].total = 0  BY DEF Init, NoSession
<1>2. DoneOn(s) = {}  BY DEF Init, DoneOn, Persisted
<1>3. SumOf(cost, DoneOn(s)) = 0  BY <1>2, FS_EmptySet, SumType
<1>4. QED  BY <1>1, <1>3

LEMMA AccountedNext ==
  ASSUME TypeOK, TypeOK', Located, Unadmitted, AccountedInv, [Next]_vars  PROVE  AccountedInv'
<1>1. ASSUME NEW s \in Turns, \A u \in DoneOn(s) : cost'[u] = cost[u]
      PROVE  SumOf(cost', DoneOn(s)) = SumOf(cost, DoneOn(s))
  <2>1. \A u \in DoneOn(s) : cost[u] = cost'[u] /\ cost[u] \in Nat  BY <1>1, DoneCosts
  <2>2. IsFiniteSet(DoneOn(s))  BY DoneFinite
  <2>3. QED  BY <2>1, <2>2, SumAgrees
<1>2. ASSUME NEW t \in Turns, Arrives(t) \/ Passes(t) \/ Quiet  PROVE  AccountedInv'
  <2> SUFFICES ASSUME NEW s \in Turns  PROVE  object'[s].total = SumOf(cost', DoneOn(s)')
    BY DEF AccountedInv
  <2>1. /\ DoneOn(s)' = DoneOn(s) /\ object'[s].total = object[s].total
        /\ \A u \in Turns : pc[u] = "done" => cost'[u] = cost[u]
    BY <1>2, DoneSame DEF SameLedger
  <2>2. \A u \in DoneOn(s) : cost'[u] = cost[u]  BY <2>1, DoneCosts
  <2>3. SumOf(cost', DoneOn(s)) = SumOf(cost, DoneOn(s))  BY <1>1, <2>2
  <2>4. QED  BY <2>1, <2>3 DEF AccountedInv
<1>3. CASE Quiet
  <2>1. CASE Turns = {}  BY <2>1 DEF AccountedInv
  <2>2. QED  BY <1>2, <1>3, <2>1
<1>4. ASSUME NEW t \in Turns, Saves(t)  PROVE  AccountedInv'
  <2> SUFFICES ASSUME NEW s \in Turns  PROVE  object'[s].total = SumOf(cost', DoneOn(s)')
    BY DEF AccountedInv
  <2>1. cost' = cost  BY <1>4 DEF Saves
  <2>2. object[s].total = SumOf(cost, DoneOn(s))  BY DEF AccountedInv
  <2>3. CASE s # session[t]
    <3>1. DoneOn(s)' = DoneOn(s) /\ object'[s].total = object[s].total
      BY <1>4, <2>3, DoneMore DEF Saves
    <3>2. QED  BY <2>1, <2>2, <3>1
  <2>4. CASE s = session[t]
    <3>1. DoneOn(s)' = DoneOn(s) \cup {t} /\ t \notin DoneOn(s)  BY <1>4, <2>4, DoneMore
    <3>2. object'[s].total = object[s].total + cost[t]  BY <1>4, <2>4 DEF Saves
    <3>3. \A u \in DoneOn(s) \cup {t} : cost[u] \in Nat
      BY DoneCosts, SessionsAssumption DEF TypeOK
    <3>4. IsFiniteSet(DoneOn(s))  BY DoneFinite
    <3>5. SumOf(cost, DoneOn(s) \cup {t}) = cost[t] + SumOf(cost, DoneOn(s))
      BY <3>1, <3>3, <3>4, SumAdd
    <3>6. SumOf(cost, DoneOn(s)) \in Nat /\ cost[t] \in Nat  BY <3>3, <3>4, SumType
    <3>7. QED  BY <2>1, <2>2, <3>1, <3>2, <3>5, <3>6
  <2>5. QED  BY <2>3, <2>4
<1>5. QED  BY <1>2, <1>3, <1>4, LedgerStep

\* However turns of a session interleave, its total is the sum of what those
\* that persisted cost: no charge is lost and none is made twice
\* (_finish_with_answer's update of session.total_cost_usd).
THEOREM TotalsAddUp == Spec => []Accounted
<1>1. TypeOK /\ LedgerInv => Unadmitted  BY DEF LedgerInv
<1>2. Spec => []AccountedInv
  BY <1>1, AccountedInit, AccountedNext, LedgerCorrect, TypeCorrect, PTL DEF Spec
<1>3. AccountedInv => Accounted
  BY CostIsSum DEF AccountedInv, Accounted, Created
<1>4. QED  BY <1>2, <1>3, PTL

-----------------------------------------------------------------------------
(* A session that is continued                                             *)

\* A turn that does not open a session continues one the store holds and that
\* was not idle for too long (MemorySessionStore.get, _resolve_session).
THEOREM OnlyLiveContinued == Spec => ContinuesLive
<1> DEFINE Continuing(t) == pc[t] = "idle" /\ pc'[t] = "started" /\ session'[t] # t
           Live(t) == /\ session'[t] \in held
                      /\ now <= object[session'[t]].updated + SessionTtl
<1>1. ASSUME TypeOK, NEW t \in Turns, Request(t), NEW u \in Turns, Continuing(u)
      PROVE  Live(u)
  <2>1. PICK k \in Keys, s \in Created \cup {None}, text \in Texts :
          \E confirm \in Confirms(k) :
            Resume(t, k, s, confirm, text) \/ Open(t, k, s, confirm, text)
    BY <1>1 DEF Request
  <2>2. PICK confirm \in Confirms(k) :
          Resume(t, k, s, confirm, text) \/ Open(t, k, s, confirm, text)
    BY <2>1
  <2>3. u = t
    BY <1>1, <2>2 DEF Resume, Open, Arrive, TypeOK
  <2>4. CASE Open(t, k, s, confirm, text)
    BY <1>1, <2>3, <2>4 DEF Open, TypeOK
  <2>5. CASE Resume(t, k, s, confirm, text)
    <3>1. session'[t] = s /\ s \in held /\ ~Expired(s)
      <4>1. session \in [Turns -> Turns \cup {None}]  BY <1>1 DEF TypeOK
      <4>2. session' = [session EXCEPT ![t] = s] /\ s \in held /\ ~Expired(s)
        BY <2>5 DEF Resume, Found, Keyed
      <4>3. QED  BY <4>1, <4>2
    <3>2. object[s].updated + SessionTtl \in Nat /\ now \in Nat
      <4>1. s \in Turns /\ object \in [Turns -> SessionObject] /\ now \in 0..MaxNow
        BY <1>1, <3>1 DEF TypeOK
      <4>2. object[s].updated \in Nat  BY <4>1 DEF SessionObject
      <4>3. QED  BY <4>1, <4>2, SessionsAssumption
    <3>3. QED  BY <2>3, <3>1, <3>2 DEF Expired
  <2>6. QED  BY <2>2, <2>4, <2>5
<1>2. ASSUME TypeOK, NEW t \in Turns, Step(t) \/ Disconnect(t), NEW u \in Turns
      PROVE  ~Continuing(u)
  BY <1>2 DEF Step, Divert, Admit, Propose, Execute, Call, Degrade, CallReturns, Structured,
              CallRaises, Persist, Disconnect, Suspended, TypeOK
<1>3. ASSUME TypeOK,
             \/ Tick \/ Restart \/ UNCHANGED vars
             \/ \E k \in Keys, s \in Created : GetSession(k, s) \/ DeleteSession(k, s),
             NEW u \in Turns
      PROVE  ~Continuing(u)
  BY <1>3 DEF Tick, Restart, GetSession, DeleteSession, vars, turnVars, Suspended, TypeOK
<1>4. TypeOK /\ [Next]_vars => \A t \in Turns : Continuing(t) => Live(t)
  BY <1>1, <1>2, <1>3 DEF Next
<1>5. TypeOK /\ [Next]_vars => [\A t \in Turns : Continuing(t) => Live(t)]_vars
  BY <1>4
<1>6. QED  BY <1>5, TypeCorrect, PTL DEF Spec, ContinuesLive

=============================================================================

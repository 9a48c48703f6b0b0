--------------------------- MODULE HttpPool_proofs ---------------------------
(***************************************************************************)
(* Theorems about HttpPool, for any number of tasks of either kind and any *)
(* number of lives of the application.                                     *)
(***************************************************************************)
EXTENDS HttpPool, TLAPS

(* A shutdown may begin to close a pool while calls run on it, and a task  *)
(* may build one after the shutdown passed its client: the invariant says  *)
(* what an open pool tells of its client and of the phase of the shutdown. *)

\* A pool in use is open, or being closed by the aclose the lifespan is in.
CurrentInUse ==
  \A c \in Clients : client[c] # 0 =>
    \/ pool[c][client[c]].state = "open"
    \/ pool[c][client[c]].state = "closing" /\ server = c /\ closed[c]

\* In the first life, what was built in time is open only until _closed is set,
EarlyIsOpenUntilClosed ==
  serves = 1 =>
    \A c \in Clients : \A i \in DOMAIN pool[c] :
      pool[c][i].state = "open" /\ ~pool[c][i].late => ~closed[c]

\* and _closed is set by the shutdown under way.
ClosedInOrder ==
  /\ serves = 1 =>
       \A c \in Clients : closed[c] => Passed(c) \/ (server = c /\ client[c] # 0)
  /\ server \in {"llm", "stopped"} => closed["infra"]
  /\ server = "stopped" => closed["llm"]

\* Once the lifespan closes, only what the grace period left still runs.
RestIsLate == server \in Clients \cup {"stopped"} => Busy \subseteq late

\* A turn that still runs may ask a model once more.
AskedOnce == \A t \in Tasks : pc[t] \in Working \cup {"idle"} => asked[t] <= 1

PoolInv ==
  /\ TypeOK
  /\ AskedOnce
  /\ NoOrphan
  /\ RefusedOnlyLate
  /\ CurrentInUse
  /\ EarlyIsOpenUntilClosed
  /\ ClosedInOrder
  /\ RestIsLate

LEMMA PoolInit == Init => PoolInv
BY HttpPoolAssumption
DEF Init, PoolInv, TypeOK, NoOrphan, RefusedOnlyLate, CurrentInUse, EarlyIsOpenUntilClosed,
    ClosedInOrder, Passed, RestIsLate, AskedOnce, Busy, Working, Ended, Clients, Pool

\* A pool that cannot be used is being closed, and then only the rest calls.
LEMMA RefusedIsLate ==
  ASSUME PoolInv, NEW t \in Busy, NEW c \in Clients, client[c] # 0,
         pool[c][client[c]].state # "open"
  PROVE  t \in late
BY DEF PoolInv, CurrentInUse, RestIsLate

LEMMA ReuseStep ==
  ASSUME PoolInv, NEW t \in Tasks, Reuse(t)
  PROVE  PoolInv'
<1> DEFINE c == at[t]
<1>1. t \in Busy /\ c \in Clients /\ client[c] \in 1..Len(pool[c])
  BY DEF PoolInv, TypeOK, Reuse, Busy, Working
<1>2. pool[c][client[c]].state # "open" => t \in late
  BY <1>1, RefusedIsLate
<1>3. TypeOK'
  BY <1>1 DEF PoolInv, TypeOK, Reuse, Dispatch, Working, Ended, poolVars, serverVars
<1>4. RefusedOnlyLate'
  BY <1>2 DEF PoolInv, TypeOK, RefusedOnlyLate, Reuse, Dispatch, serverVars
<1>5. RestIsLate'
  BY <1>1 DEF PoolInv, TypeOK, RestIsLate, Reuse, Dispatch, Busy, Working, serverVars
<1>6. NoOrphan' /\ CurrentInUse' /\ EarlyIsOpenUntilClosed' /\ ClosedInOrder'
  BY DEF PoolInv, NoOrphan, CurrentInUse, EarlyIsOpenUntilClosed, ClosedInOrder, Passed, Reuse,
         poolVars, serverVars
<1>7. AskedOnce'
  BY DEF PoolInv, TypeOK, AskedOnce, Reuse, Dispatch, Working
<1>8. QED  BY <1>3, <1>4, <1>5, <1>6, <1>7 DEF PoolInv

\* What the check inside the lock leaves: the pool in use, or a new last one.
LEMMA BuildStep ==
  ASSUME PoolInv, NEW t \in Tasks, Build(t)
  PROVE  PoolInv'
<1> DEFINE c == at[t]
           new == [state |-> "open", late |-> Passed(c)]
<1>1. t \in Busy /\ c \in Clients /\ client[c] \in 0..Len(pool[c])
  BY DEF PoolInv, TypeOK, Build, Busy, Working
<1>2. pool[c] \in Seq(Pool)
  BY <1>1 DEF PoolInv, TypeOK
<1>3. CASE client[c] # 0
  <2> HIDE DEF c
  <2>0. Built(c) = pool[c]
    BY <1>3 DEF Built
  <2>1. pool' = pool /\ client' = client
    BY <1>1, <2>0 DEF Build, PoolInv, TypeOK, c
  <2>2. Dispatch(t, client[c], pool[c])
    BY <2>0 DEF Build, c
  <2>3. pool[c][client[c]].state # "open" => t \in late
    BY <1>1, <1>3, RefusedIsLate
  <2>4. TypeOK'
    BY <1>1, <1>3, <2>1, <2>2 DEF PoolInv, TypeOK, Build, Dispatch, Working, Ended, serverVars
  <2>5. RefusedOnlyLate'
    BY <2>2, <2>3 DEF PoolInv, TypeOK, RefusedOnlyLate, Build, Dispatch, serverVars
  <2>6. RestIsLate'
    BY <1>1, <2>2 DEF PoolInv, TypeOK, RestIsLate, Build, Dispatch, Busy, Working, serverVars
  <2>7. NoOrphan' /\ CurrentInUse' /\ EarlyIsOpenUntilClosed' /\ ClosedInOrder'
    BY <2>1 DEF PoolInv, NoOrphan, CurrentInUse, EarlyIsOpenUntilClosed, ClosedInOrder, Passed, Build,
           serverVars
  <2>8. AskedOnce'
    BY <2>2 DEF PoolInv, TypeOK, AskedOnce, Build, Dispatch, Working
  <2>9. QED  BY <2>4, <2>5, <2>6, <2>7, <2>8 DEF PoolInv
<1>4. CASE client[c] = 0
  <2> DEFINE n == Len(pool[c]) + 1
  <2>1. new \in Pool /\ Append(pool[c], new) # pool[c]
    <3>1. Passed(c) \in BOOLEAN  BY DEF Passed
    <3>2. new \in Pool  BY <3>1 DEF Pool
    <3>3. Len(Append(pool[c], new)) # Len(pool[c])  BY <1>2, <3>2
    <3>4. QED  BY <3>2, <3>3
  <2>2. /\ pool' = [pool EXCEPT ![c] = Append(pool[c], new)]
        /\ client' = [client EXCEPT ![c] = n]
        /\ Dispatch(t, n, Append(pool[c], new))
    <3>1. Built(c) = Append(pool[c], new)  BY <1>4 DEF Built
    <3>2. Len(Built(c)) = n  BY <1>2, <2>1, <3>1
    <3> HIDE DEF c, n, new
    <3>3. QED  BY <2>1, <3>1, <3>2 DEF Build, c
  <2>3. /\ Append(pool[c], new) \in Seq(Pool)
        /\ Len(Append(pool[c], new)) = n
        /\ DOMAIN Append(pool[c], new) = 1..n
        /\ Append(pool[c], new)[n] = new
        /\ \A i \in 1..Len(pool[c]) : Append(pool[c], new)[i] = pool[c][i]
    BY <1>2, <2>1
  <2>4. /\ pool'[c] = Append(pool[c], new) /\ client'[c] = n
        /\ \A d \in Clients \ {c} : pool'[d] = pool[d] /\ client'[d] = client[d]
    BY <1>1, <2>2 DEF PoolInv, TypeOK
  <2>5. pc' = [pc EXCEPT ![t] = "sent"] /\ using' = [using EXCEPT ![t] = n]
    <3>1. Append(pool[c], new)[n].state = "open"  BY <2>3
    <3> HIDE DEF c, n, new
    <3>2. QED  BY <2>2, <3>1 DEF Dispatch
  <2>6. TypeOK'
    <3>1. pool' \in [Clients -> Seq(Pool)] /\ client' \in [Clients -> Nat]
      BY <1>2, <2>2, <2>3 DEF PoolInv, TypeOK
    <3>2. \A d \in Clients : client'[d] \in 0..Len(pool'[d])
      <4>1. n \in 0..n  BY <1>2
      <4>2. client'[c] \in 0..Len(pool'[c])  BY <2>3, <2>4, <4>1
      <4>3. QED  BY <2>4, <4>2 DEF PoolInv, TypeOK
    <3>3. \A u \in Tasks : pc'[u] = "sent" => using'[u] \in 1..Len(pool'[at[u]])
      BY <1>1, <1>2, <2>3, <2>4, <2>5 DEF PoolInv, TypeOK
    <3>4. QED
      BY <2>5, <3>1, <3>2, <3>3, <1>2 DEF PoolInv, TypeOK, Build, Working, serverVars
  <2>7. RefusedOnlyLate' /\ RestIsLate'
    BY <1>1, <2>5 DEF PoolInv, TypeOK, RefusedOnlyLate, RestIsLate, Build, Busy, Working,
       serverVars
  <2>8. NoOrphan' /\ CurrentInUse' /\ EarlyIsOpenUntilClosed'
    <3>1. \A i \in 1..Len(pool[c]) : pool[c][i].state # "open"
      BY <1>1, <1>2, <1>4 DEF PoolInv, NoOrphan
    <3>2. closed' = closed /\ server' = server  BY DEF Build, serverVars
    <3>3. \A i \in DOMAIN pool'[c] : pool'[c][i].state = "open" => i = n
      BY <1>2, <2>3, <2>4, <3>1
    <3>4. NoOrphan'
      BY <2>4, <3>3 DEF PoolInv, NoOrphan
    <3>5. CurrentInUse'
      BY <2>3, <2>4, <3>2 DEF PoolInv, CurrentInUse
    <3>6. EarlyIsOpenUntilClosed'
      <4> SUFFICES ASSUME serves = 1
                   PROVE  \A d \in Clients : \A i \in DOMAIN pool'[d] :
                            pool'[d][i].state = "open" /\ ~pool'[d][i].late => ~closed'[d]
        BY DEF EarlyIsOpenUntilClosed, Build, serverVars
      <4>1. \A d \in Clients \ {c} : \A i \in DOMAIN pool'[d] :
              pool'[d][i].state = "open" /\ ~pool'[d][i].late => ~closed'[d]
        BY <2>4, <3>2 DEF PoolInv, EarlyIsOpenUntilClosed
      <4>2. \A i \in DOMAIN pool'[c] :
              pool'[c][i].state = "open" /\ ~pool'[c][i].late => ~closed'[c]
        <5>1. closed[c] => Passed(c)
          BY <1>1, <1>4 DEF PoolInv, ClosedInOrder
        <5>2. pool'[c][n].late = Passed(c)  BY <2>3, <2>4
        <5>3. QED  BY <3>2, <3>3, <5>1, <5>2
      <4>3. QED  BY <4>1, <4>2
    <3>7. QED  BY <3>4, <3>5, <3>6
  <2>9. ClosedInOrder' /\ AskedOnce'
    <3>1. n # 0  BY <1>2
    <3>2. \A d \in Clients : client[d] # 0 => client'[d] # 0  BY <2>4, <3>1
    <3>3. UNCHANGED <<closed, server, serves, asked>>  BY DEF Build, serverVars
    <3>4. ClosedInOrder'  BY <3>2, <3>3 DEF PoolInv, ClosedInOrder, Passed
    <3>5. AskedOnce'  BY <2>5, <3>3 DEF PoolInv, TypeOK, AskedOnce, Build, Working
    <3>6. QED  BY <3>4, <3>5
  <2>10. QED  BY <2>6, <2>7, <2>8, <2>9 DEF PoolInv
<1>5. QED  BY <1>3, <1>4

\* The other steps of a task leave the pools alone and refuse nobody.
LEMMA TaskStep ==
  ASSUME PoolInv, NEW t \in Tasks,
         \/ Wait(t) \/ ChatReturns(t) \/ ChatFails(t) \/ ProbeLlm(t) \/ ProbeInfra(t)
         \/ Cancel(t) \/ Arrive(t)
  PROVE  PoolInv'
<1> USE DEF PoolInv, poolVars, serverVars
<1>1. /\ UNCHANGED <<poolVars, server, serves, late>>
      /\ \A u \in Tasks \ {t} : pc'[u] = pc[u]
      /\ pc'[t] \in Working \cup Ended
      /\ pc'[t] # "refused"
      /\ pc[t] = "idle" => server = "serving"
      /\ pc[t] \in Working \cup {"idle"}
      /\ pc' \in [Tasks -> {"idle"} \cup Working \cup Ended]
  BY DEF TypeOK, Wait, ChatReturns, ChatFails, ProbeLlm, ProbeInfra, Cancel, Arrive,
         Working, Ended
<1>2. TypeOK'
  <2> USE DEF TypeOK, Working, Ended, Clients
  <2>1. CASE Wait(t)  BY <2>1 DEF Wait
  <2>2. CASE ChatReturns(t)
    <3>1. asked[t] \in 0..1  BY <2>2 DEF ChatReturns, AskedOnce
    <3>2. QED  BY <2>2, <3>1 DEF ChatReturns
  <2>3. CASE ChatFails(t)  BY <2>3 DEF ChatFails
  <2>4. CASE ProbeLlm(t)  BY <2>4 DEF ProbeLlm, Probed
  <2>5. CASE ProbeInfra(t)  BY <2>5 DEF ProbeInfra
  <2>6. CASE Cancel(t)  BY <2>6 DEF Cancel
  <2>7. CASE Arrive(t)  BY <2>7 DEF Arrive
  <2>8. QED  BY <2>1, <2>2, <2>3, <2>4, <2>5, <2>6, <2>7
<1>3. RefusedOnlyLate'
  BY <1>1 DEF RefusedOnlyLate
<1>4. RestIsLate'
  BY <1>1 DEF RestIsLate, Busy, Clients
<1>5. NoOrphan' /\ CurrentInUse' /\ EarlyIsOpenUntilClosed' /\ ClosedInOrder'
  BY <1>1 DEF NoOrphan, CurrentInUse, EarlyIsOpenUntilClosed, ClosedInOrder, Passed
<1>6. AskedOnce'
  <2> USE DEF TypeOK, AskedOnce, Working, Ended
  <2>1. CASE ChatReturns(t)
    <3>1. asked'[t] = asked[t] + 1 /\ \A u \in Tasks \ {t} : asked'[u] = asked[u]
      BY <2>1 DEF ChatReturns
    <3>2. pc'[t] \in Working => asked[t] = 0
      BY <2>1 DEF ChatReturns
    <3>3. pc'[t] \in Working \cup {"idle"} => asked'[t] = 1
      BY <1>1, <3>1, <3>2
    <3>4. \A u \in Tasks \ {t} : pc'[u] \in Working \cup {"idle"} => asked'[u] <= 1
      BY <1>1, <3>1
    <3> HIDE DEF Working
    <3>5. QED  BY <3>3, <3>4
  <2>2. CASE ~ChatReturns(t)
    <3>1. asked' = asked
      BY <2>2 DEF Wait, ChatFails, ProbeLlm, ProbeInfra, Cancel, Arrive
    <3>2. QED  BY <1>1, <3>1
  <2>3. QED  BY <2>1, <2>2
<1>7. QED  BY <1>2, <1>3, <1>4, <1>5, <1>6

-----------------------------------------------------------------------------
(* The server's steps *)

LEMMA StopStep ==
  ASSUME PoolInv, Stop
  PROVE  PoolInv'
<1> USE DEF PoolInv, Stop, poolVars, taskVars, Clients
<1>1. TypeOK'  BY DEF TypeOK, Pool
<1>2. NoOrphan' /\ RefusedOnlyLate' /\ CurrentInUse' /\ EarlyIsOpenUntilClosed'
  BY DEF NoOrphan, RefusedOnlyLate, CurrentInUse, EarlyIsOpenUntilClosed
<1>3. ClosedInOrder' /\ RestIsLate'
  BY DEF ClosedInOrder, Passed, RestIsLate
<1>4. AskedOnce'  BY DEF AskedOnce
<1>5. QED  BY <1>1, <1>2, <1>3, <1>4

LEMMA DrainedStep ==
  ASSUME PoolInv, Drained
  PROVE  PoolInv'
<1> USE DEF PoolInv, Drained, poolVars, taskVars, Clients
<1>1. TypeOK'  BY DEF TypeOK, Pool, Busy
<1>2. NoOrphan' /\ RefusedOnlyLate' /\ CurrentInUse' /\ EarlyIsOpenUntilClosed'
  BY DEF NoOrphan, RefusedOnlyLate, CurrentInUse, EarlyIsOpenUntilClosed
<1>3. ClosedInOrder' /\ RestIsLate'
  BY DEF ClosedInOrder, Passed, RestIsLate, Busy
<1>4. AskedOnce'  BY DEF AskedOnce
<1>5. QED  BY <1>1, <1>2, <1>3, <1>4

LEMMA ServeAgainStep ==
  ASSUME PoolInv, ServeAgain
  PROVE  PoolInv'
<1> USE DEF PoolInv, ServeAgain, poolVars, taskVars, Clients
<1>1. TypeOK'  BY HttpPoolAssumption DEF TypeOK, Pool
<1>2. NoOrphan' /\ RefusedOnlyLate' /\ CurrentInUse'
  BY DEF NoOrphan, RefusedOnlyLate, CurrentInUse
<1>3. EarlyIsOpenUntilClosed' /\ ClosedInOrder' /\ RestIsLate'
  <2>1. serves' # 1  BY DEF TypeOK
  <2>2. QED  BY <2>1 DEF EarlyIsOpenUntilClosed, ClosedInOrder, RestIsLate, Busy
<1>4. AskedOnce'  BY DEF AskedOnce
<1>5. QED  BY <1>1, <1>2, <1>3, <1>4

LEMMA CloseNothingStep ==
  ASSUME PoolInv, NEW c \in Clients, CloseNothing(c)
  PROVE  PoolInv'
<1> USE DEF PoolInv, CloseNothing, taskVars, Clients
<1>1. closed' = [closed EXCEPT ![c] = TRUE] /\ server = c /\ server' = Following(c)
  OBVIOUS
<1>2. client[c] # 0 => pool[c][client[c]].state = "open"
  BY DEF CurrentInUse, Closing
<1>3. serves = 1 =>
        \A i \in DOMAIN pool[c] : pool[c][i].state = "open" => pool[c][i].late \/ ~closed[c]
  BY DEF EarlyIsOpenUntilClosed
<1>4. TypeOK'  BY <1>1 DEF TypeOK, Following, Pool
<1>5. NoOrphan' /\ RefusedOnlyLate' /\ AskedOnce'
  BY DEF NoOrphan, RefusedOnlyLate, AskedOnce
<1>6. CurrentInUse'
  BY <1>2 DEF CurrentInUse
<1>7. EarlyIsOpenUntilClosed'
  <2>1. serves = 1 =>
          \A i \in DOMAIN pool[c] : pool[c][i].state = "open" => pool[c][i].late
    <3>1. CASE closed[c]  BY <1>3, <3>1
    <3>2. CASE client[c] = 0
      \* the pools of a client without one are not open
      BY <3>2 DEF NoOrphan, TypeOK
    <3>3. QED  BY <3>1, <3>2
  <2>2. \A d \in Clients \ {c} : closed'[d] = closed[d]
    BY <1>1 DEF TypeOK
  <2>3. QED  BY <2>1, <2>2 DEF EarlyIsOpenUntilClosed
<1>8. ClosedInOrder'
  BY <1>1 DEF ClosedInOrder, Passed, Following, TypeOK
<1>9. RestIsLate'
  BY <1>1 DEF RestIsLate, Following, Busy
<1>10. QED  BY <1>4, <1>5, <1>6, <1>7, <1>8, <1>9

\* One pool of c changes its state; what was said of the others stays.
LEMMA PoolChanges ==
  ASSUME PoolInv, NEW c \in Clients, client[c] # 0,
         NEW s \in {"closing", "closed"},
         pool' = [pool EXCEPT ![c][client[c]].state = s]
  PROVE  /\ pool' \in [Clients -> Seq(Pool)]
         /\ \A d \in Clients : Len(pool'[d]) = Len(pool[d]) /\ DOMAIN pool'[d] = DOMAIN pool[d]
         /\ \A d \in Clients : \A i \in DOMAIN pool[d] :
              /\ pool'[d][i].late = pool[d][i].late
              /\ pool'[d][i].state = "open" => pool[d][i].state = "open"
              /\ pool[d][i].state # "open" => pool'[d][i].state # "open"
         /\ \A d \in Clients \ {c} : pool'[d] = pool[d]
         /\ pool'[c][client[c]].state = s
         /\ \A i \in DOMAIN pool'[c] : pool'[c][i].state # "open"
<1> DEFINE k == client[c]
           r == [pool[c][k] EXCEPT !.state = s]
           q == [pool[c] EXCEPT ![k] = r]
<1>1. pool \in [Clients -> Seq(Pool)] /\ k \in 1..Len(pool[c])
  BY DEF PoolInv, TypeOK
<1>2. pool[c] \in Seq(Pool) /\ DOMAIN pool[c] = 1..Len(pool[c])
  BY <1>1
<1>3. pool[c][k] \in Pool
  BY <1>1, <1>2
<1>4. r \in Pool /\ r.state = s /\ r.late = pool[c][k].late
  BY <1>3 DEF Pool
<1>5. /\ q \in Seq(Pool) /\ Len(q) = Len(pool[c]) /\ DOMAIN q = DOMAIN pool[c]
      /\ q[k] = r /\ \A i \in DOMAIN pool[c] : i # k => q[i] = pool[c][i]
  <2> HIDE DEF r, k
  <2>1. QED  BY <1>1, <1>2, <1>4
<1>6. pool' = [pool EXCEPT ![c] = q]
  OBVIOUS
<1>7. pool'[c] = q /\ (\A d \in Clients \ {c} : pool'[d] = pool[d])
      /\ pool' \in [Clients -> Seq(Pool)]
  <2> HIDE DEF q
  <2>1. QED  BY <1>1, <1>5, <1>6
<1>8. \A i \in DOMAIN q : q[i].state # "open"
  BY <1>2, <1>4, <1>5 DEF PoolInv, NoOrphan
<1> HIDE DEF q, r
<1>9. QED  BY <1>2, <1>4, <1>5, <1>7, <1>8

LEMMA CloseBeginsStep ==
  ASSUME PoolInv, NEW c \in Clients, CloseBegins(c)
  PROVE  PoolInv'
<1> USE DEF taskVars, serverVars
<1>1. /\ client[c] # 0 /\ server = c
      /\ pool' = [pool EXCEPT ![c][client[c]].state = "closing"]
      /\ closed' = [closed EXCEPT ![c] = TRUE]
      /\ UNCHANGED <<client, server, serves, late, pc, at, using, asked, reached>>
  BY DEF CloseBegins
<1>2. /\ pool' \in [Clients -> Seq(Pool)]
      /\ \A d \in Clients : Len(pool'[d]) = Len(pool[d]) /\ DOMAIN pool'[d] = DOMAIN pool[d]
      /\ \A d \in Clients : \A i \in DOMAIN pool[d] :
           /\ pool'[d][i].late = pool[d][i].late
           /\ pool'[d][i].state = "open" => pool[d][i].state = "open"
           /\ pool[d][i].state # "open" => pool'[d][i].state # "open"
      /\ \A d \in Clients \ {c} : pool'[d] = pool[d]
      /\ pool'[c][client[c]].state = "closing"
      /\ \A i \in DOMAIN pool'[c] : pool'[c][i].state # "open"
  BY <1>1, PoolChanges
<1>3. TypeOK'
  BY <1>1, <1>2 DEF PoolInv, TypeOK
<1>4. NoOrphan' /\ RefusedOnlyLate' /\ RestIsLate' /\ AskedOnce'
  BY <1>1, <1>2 DEF PoolInv, NoOrphan, RefusedOnlyLate, RestIsLate, AskedOnce, Busy
<1>5. CurrentInUse'
  BY <1>1, <1>2 DEF PoolInv, CurrentInUse, TypeOK
<1>6. EarlyIsOpenUntilClosed'
  <2>1. \A d \in Clients \ {c} : closed'[d] = closed[d]
    BY <1>1 DEF PoolInv, TypeOK
  <2>2. QED  BY <1>1, <1>2, <2>1 DEF PoolInv, EarlyIsOpenUntilClosed
<1>7. ClosedInOrder'
  BY <1>1 DEF PoolInv, ClosedInOrder, Passed, TypeOK, Clients
<1>8. QED  BY <1>3, <1>4, <1>5, <1>6, <1>7 DEF PoolInv

LEMMA CloseEndsStep ==
  ASSUME PoolInv, NEW c \in Clients, CloseEnds(c)
  PROVE  PoolInv'
<1> USE DEF taskVars
<1>1. /\ client[c] # 0 /\ server = c /\ server' = Following(c)
      /\ pool' = [pool EXCEPT ![c][client[c]].state = "closed"]
      /\ client' = [client EXCEPT ![c] = 0]
      /\ UNCHANGED <<closed, serves, late, pc, at, using, asked, reached>>
  BY DEF CloseEnds, Closing
<1>2. /\ pool' \in [Clients -> Seq(Pool)]
      /\ \A d \in Clients : Len(pool'[d]) = Len(pool[d]) /\ DOMAIN pool'[d] = DOMAIN pool[d]
      /\ \A d \in Clients : \A i \in DOMAIN pool[d] :
           /\ pool'[d][i].late = pool[d][i].late
           /\ pool'[d][i].state = "open" => pool[d][i].state = "open"
           /\ pool[d][i].state # "open" => pool'[d][i].state # "open"
      /\ \A d \in Clients \ {c} : pool'[d] = pool[d]
      /\ pool'[c][client[c]].state = "closed"
      /\ \A i \in DOMAIN pool'[c] : pool'[c][i].state # "open"
  BY <1>1, PoolChanges
<1>3. client'[c] = 0 /\ \A d \in Clients \ {c} : client'[d] = client[d]
  BY <1>1 DEF PoolInv, TypeOK
<1>4. TypeOK'
  BY <1>1, <1>2, <1>3 DEF PoolInv, TypeOK, Following, Clients
<1>5. NoOrphan' /\ RefusedOnlyLate' /\ EarlyIsOpenUntilClosed' /\ AskedOnce'
  BY <1>1, <1>2, <1>3 DEF PoolInv, NoOrphan, RefusedOnlyLate, EarlyIsOpenUntilClosed, AskedOnce
<1>6. CurrentInUse'
  BY <1>1, <1>2, <1>3 DEF PoolInv, CurrentInUse
<1>7. ClosedInOrder'
  <2>1. closed[c]  BY DEF PoolInv, CurrentInUse, CloseEnds, Closing
  <2>2. QED  BY <1>1, <2>1 DEF PoolInv, ClosedInOrder, Passed, Following, Clients
<1>8. RestIsLate'
  BY <1>1 DEF PoolInv, RestIsLate, Following, Clients, Busy
<1>9. QED  BY <1>4, <1>5, <1>6, <1>7, <1>8 DEF PoolInv

-----------------------------------------------------------------------------
(* The theorems *)

LEMMA PoolNext == PoolInv /\ [Next]_vars => PoolInv'
<1> SUFFICES ASSUME PoolInv, [Next]_vars PROVE PoolInv'
  OBVIOUS
<1>1. CASE \E t \in Tasks : Arrive(t) \/ Work(t) \/ Cancel(t)
  BY <1>1, ReuseStep, BuildStep, TaskStep DEF Work
<1>2. CASE Stop \/ ServeAgain
  BY <1>2, StopStep, ServeAgainStep
<1>3. CASE Lifespan
  BY <1>3, DrainedStep, CloseNothingStep, CloseBeginsStep, CloseEndsStep DEF Lifespan
<1>4. CASE UNCHANGED vars
  <2> USE <1>4 DEF PoolInv, vars, poolVars, taskVars, serverVars
  <2>1. TypeOK'  BY DEF TypeOK
  <2>2. NoOrphan' /\ RefusedOnlyLate' /\ CurrentInUse' /\ EarlyIsOpenUntilClosed'
    BY DEF NoOrphan, RefusedOnlyLate, CurrentInUse, EarlyIsOpenUntilClosed
  <2>3. ClosedInOrder' /\ RestIsLate' /\ AskedOnce'
    BY DEF ClosedInOrder, Passed, RestIsLate, AskedOnce, Busy
  <2>4. QED  BY <2>1, <2>2, <2>3
<1>5. QED  BY <1>1, <1>2, <1>3, <1>4 DEF Next

\* The invariant holds in every state of every behaviour.
THEOREM PoolInvariant == Spec => []PoolInv
BY PoolInit, PoolNext, PTL DEF Spec

\* The clients, the tasks and the lifespan keep their types.
THEOREM PoolTypeCorrect == Spec => []TypeOK
<1>1. PoolInv => TypeOK  BY DEF PoolInv
<1>2. QED  BY <1>1, PoolInvariant, PTL

\* However many first calls race in _http, no pool is built and lost.
THEOREM NoPoolOrphaned == Spec => []NoOrphan
<1>1. PoolInv => NoOrphan  BY DEF PoolInv
<1>2. QED  BY <1>1, PoolInvariant, PTL

\* A call is refused by a closed pool only after the grace period cut it off.
THEOREM OnlyLateRefused == Spec => []RefusedOnlyLate
<1>1. PoolInv => RefusedOnlyLate  BY DEF PoolInv
<1>2. QED  BY <1>1, PoolInvariant, PTL

\* The first shutdown leaves no pool open that was built before it closed its client.
THEOREM ShutdownClosesPools == Spec => []ShutdownReleases
<1>1. PoolInv => ShutdownReleases
  BY DEF PoolInv, ShutdownReleases, EarlyIsOpenUntilClosed, ClosedInOrder, Passed, Clients
<1>2. QED  BY <1>1, PoolInvariant, PTL

=============================================================================

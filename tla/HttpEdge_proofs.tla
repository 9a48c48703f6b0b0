--------------------------- MODULE HttpEdge_proofs ---------------------------
(***************************************************************************)
(* Theorems about HttpEdge, for any requests, key file, limit and number   *)
(* of requests: what is logged of a request, who may start a turn, and     *)
(* what body it gets.                                                      *)
(***************************************************************************)
EXTENDS HttpEdge, FoldTheorems

(* The request state is a record, and a response carries its request's id. *)
StateShape == state = [id |-> state.id, key |-> state.key, turn |-> state.turn]
ReplyIsOwn == reply # NoReply => reply.id = state.id

(* A client receives its response last, and outside of the middlewares the *)
(* line of its request is written.                                         *)
Lined ==
  /\ at # "idle" => answer = NoReply
  /\ at = "outside" => line.status = Sent.status /\ line.id = state.id

(* Past the body, a request on a turn route was read whole, within the     *)
(* limit; and a turn runs on no other route.                               *)
Reading ==
  /\ at \in {"limit", "route"} => received = 0
  /\ at = "body" => received <= MaxBody
Read ==
  at \in {"access", "guard", "handler", "turning", "streaming"} /\ HasBody =>
    received = request.body /\ received <= MaxBody
OnTurnRoute == at \in {"turning", "streaming"} => HasBody
RequestType == at # "idle" => request \in Requests
Counted == RequestType /\ received \in Nat /\ Reading /\ Read /\ OnTurnRoute

EdgeInv ==
  StateShape /\ ReplyIsOwn /\ ContextIsItsOwn /\ Lined /\ LogTellsTheClient /\ Counted

-----------------------------------------------------------------------------
(* A step down the stack and a refusal keep it, wherever they start.       *)

LEMMA EdgeInit == Init => EdgeInv
BY HttpEdgeAssumption
DEF Init, EdgeInv, StateShape, ReplyIsOwn, ContextIsItsOwn, Lined, LogTellsTheClient, Counted,
    RequestType, Reading, Read, OnTurnRoute, NoReply, NoContext, HasBody

LEMMA RefuseStep ==
  ASSUME EdgeInv, NEW from \in {"limit", "route", "body", "access", "guard", "handler"},
         NEW status, Refuse(from, status)
  PROVE  EdgeInv'
BY DEF Refuse, Reply, EdgeInv, StateShape, ReplyIsOwn, ContextIsItsOwn, Lined, LogTellsTheClient,
       Counted, RequestType, Reading, Read, OnTurnRoute, NoReply, NoContext, HasBody,
       requestVars, pastVars

LEMMA DescendStep ==
  ASSUME EdgeInv, NEW from, NEW to \in {"route", "body", "access", "guard", "handler",
                                        "turning", "streaming", "leaving", "raising"},
         from \notin {"idle", "outside"}, Descend(from, to),
         to = "route" => received = 0, to = "body" => received <= MaxBody,
         to \in {"access", "guard", "handler", "turning", "streaming"} /\ HasBody =>
           received = request.body /\ received <= MaxBody,
         to \in {"turning", "streaming"} => HasBody
  PROVE  EdgeInv'
BY DEF Descend, EdgeInv, StateShape, ReplyIsOwn, ContextIsItsOwn, Lined, LogTellsTheClient,
       Counted, RequestType, Reading, Read, OnTurnRoute, NoReply, NoContext, HasBody,
       requestVars, pastVars

LEMMA ReadStep ==
  ASSUME EdgeInv, ReadChunk \/ LoseBody \/ ReadAll
  PROVE  EdgeInv'
<1>1. at = "body" /\ request.body \in Nat
  BY HttpEdgeAssumption
  DEF EdgeInv, Counted, RequestType, Request, ReadChunk, LoseBody, ReadAll
<1>2. CASE ReadChunk
  BY <1>1, <1>2, HttpEdgeAssumption
  DEF ReadChunk, Reply, EdgeInv, StateShape, ReplyIsOwn, ContextIsItsOwn, Lined, LogTellsTheClient,
      Counted, RequestType, Reading, Read, OnTurnRoute, NoReply, NoContext, HasBody, pastVars
<1>3. CASE LoseBody  BY <1>3, RefuseStep DEF LoseBody
<1>4. CASE ReadAll
  <2>1. CASE Refuse("body", 422)  BY <2>1, RefuseStep
  <2>2. CASE Descend("body", "access") /\ received = request.body
    BY <1>1, <2>2, DescendStep DEF EdgeInv, Counted, Reading
  <2>3. QED  BY <1>4, <2>1, <2>2 DEF ReadAll
<1>5. QED  BY <1>2, <1>3, <1>4

\* Every action on the way down is a step down, a refusal, or one of those that
\* write the caller or the outcome.
LEMMA DownStep ==
  ASSUME EdgeInv,
         CheckDeclared \/ Match \/ RefuseKey \/ Guard \/ RefuseScope \/ RefuseOption
           \/ AnswerSession \/ AnswerSystem \/ StartTurn \/ CutStream \/ Raise
  PROVE  EdgeInv'
<1> USE DEF EdgeInv, Counted
<1>1. CASE CheckDeclared
  BY <1>1, RefuseStep, DescendStep DEF CheckDeclared, Reading
<1>2. CASE Match
  <2>1. CASE Refuse("route", 404)  BY <2>1, RefuseStep
  <2>2. CASE request.route = "ready" /\ Descend("route", "handler")
    BY <2>2, DescendStep DEF HasBody
  <2>3. CASE Descend("route", "body")
    <3>1. at = "route"  BY <2>3 DEF Descend
    <3>2. received <= MaxBody  BY <3>1, HttpEdgeAssumption DEF Reading
    <3>3. QED  BY <2>3, <3>2, DescendStep
  <2>4. CASE request.route \in {"session", "capabilities"} /\ Descend("route", "access")
    BY <2>4, DescendStep DEF HasBody
  <2>5. QED  BY <1>2, <2>1, <2>2, <2>3, <2>4 DEF Match
<1>3. CASE RefuseKey  BY <1>3, RefuseStep DEF RefuseKey
<1>4. CASE Guard  BY <1>4, RefuseStep, DescendStep DEF Guard, Read
<1>5. CASE RefuseScope  BY <1>5, RefuseStep DEF RefuseScope
<1>6. CASE RefuseOption  BY <1>6, RefuseStep DEF RefuseOption
<1>7. CASE AnswerSession \/ AnswerSystem
  BY <1>7, RefuseStep DEF AnswerSession, AnswerSystem
<1>8. CASE StartTurn  BY <1>8, DescendStep DEF StartTurn, Read
<1>9. CASE CutStream  BY <1>9, DescendStep DEF CutStream
<1>10. CASE Raise  BY <1>10, DescendStep DEF Raise
<1>11. QED  BY <1>1, <1>2, <1>3, <1>4, <1>5, <1>6, <1>7, <1>8, <1>9, <1>10

\* What else writes the state of the request, and the way in and out.
LEMMA WriteStep ==
  ASSUME EdgeInv,
         \/ Authenticate \/ StartStream \/ Leave
         \/ Unwind \/ UnwindRaised \/ HandleUnhandled
         \/ \E r \in Requests : Arrive(r)
         \/ \E s \in TurnStatus : EndTurn(s) \/ EndStream(s)
  PROVE  EdgeInv'
<1> USE DEF EdgeInv, StateShape, ReplyIsOwn, ContextIsItsOwn, Lined, LogTellsTheClient, Counted,
            RequestType, Reading, Read, OnTurnRoute, HasBody, requestVars, pastVars
<1>1. CASE Authenticate
  <2>1. PICK r \in Lookup(request.key) :
          /\ state' = [state EXCEPT !.key = r.id]
          /\ context' = [context EXCEPT !.key = r.id]
    BY <1>1 DEF Authenticate
  <2>2. /\ state' = [id |-> state.id, key |-> r.id, turn |-> state.turn]
        /\ context' = [id |-> state.id, key |-> r.id]
    BY <1>1, <2>1 DEF Authenticate
  <2>3. QED  BY <1>1, <2>2 DEF Authenticate, NoReply
<1>2. CASE StartStream  BY <1>2 DEF StartStream, NoReply
<1>3. CASE Leave  BY <1>3 DEF Leave, Sent, NoReply
<1>4. CASE Unwind \/ UnwindRaised \/ HandleUnhandled
  <2>1. CASE Unwind
    BY <2>1, HttpEdgeAssumption DEF Unwind, Record, Deliver, Sent, Clear, NoReply, NoContext
  <2>2. CASE UnwindRaised
    BY <2>2 DEF UnwindRaised, Record, Sent, Clear, Lined, NoReply, NoContext
  <2>3. CASE HandleUnhandled
    BY <2>3 DEF HandleUnhandled, Deliver, Sent, Lined, NoReply, NoContext
  <2>4. QED  BY <1>4, <2>1, <2>2, <2>3
<1>5. ASSUME NEW r \in Requests, Arrive(r)
      PROVE  EdgeInv'
  <2>1. /\ context = [id |-> None, key |-> None]
        /\ context' = [id |-> RequestId(r), key |-> None]
    BY <1>5 DEF Arrive, NoContext
  <2>2. state' = [id |-> RequestId(r), key |-> None, turn |-> None]
    BY <1>5 DEF Arrive
  <2>3. QED  BY <1>5, <2>1, <2>2 DEF Arrive, NoReply
<1>6. ASSUME NEW s \in TurnStatus, EndTurn(s) \/ EndStream(s)
      PROVE  EdgeInv'
  <2>1. CASE EndTurn(s)
    <3>1. state' = [id |-> state.id, key |-> state.key, turn |-> s]
      BY <2>1 DEF EndTurn
    <3>2. QED  BY <2>1, <3>1 DEF EndTurn, Reply, NoReply
  <2>2. CASE EndStream(s)  BY <2>2 DEF EndStream, NoReply
  <2>3. QED  BY <1>6, <2>1, <2>2
<1>7. QED  BY <1>1, <1>2, <1>3, <1>4, <1>5, <1>6

LEMMA EdgeStep == EdgeInv /\ [Next]_vars => EdgeInv'
<1> SUFFICES ASSUME EdgeInv, [Next]_vars PROVE EdgeInv'
  OBVIOUS
<1>1. CASE UNCHANGED vars
  BY <1>1
  DEF vars, requestVars, pastVars, EdgeInv, StateShape, ReplyIsOwn, ContextIsItsOwn,
      Lined, Sent, LogTellsTheClient, Counted, RequestType, Reading, Read, OnTurnRoute, HasBody
<1>2. CASE Next  BY <1>2, ReadStep, DownStep, WriteStep DEF Next
<1>3. QED  BY <1>1, <1>2

THEOREM EdgeCorrect == Spec => []EdgeInv
BY EdgeStep, EdgeInit, PTL DEF Spec

\* The access-log line has the status and the id its client saw.
THEOREM LoggedAsSeen == Spec => []LogTellsTheClient
<1>1. EdgeInv => LogTellsTheClient  BY DEF EdgeInv
<1>2. QED  BY <1>1, EdgeCorrect, PTL

\* Nothing of one request is logged with the next one.
THEOREM ContextKept == Spec => []ContextIsItsOwn
<1>1. EdgeInv => ContextIsItsOwn  BY DEF EdgeInv
<1>2. QED  BY <1>1, EdgeCorrect, PTL

\* A turn has a whole body, within the limit.
THEOREM BodiesAreWhole == Spec => []BodyIsWhole
<1>1. EdgeInv => BodyIsWhole
  BY DEF EdgeInv, Counted, Read, OnTurnRoute, BodyIsWhole
<1>2. QED  BY <1>1, EdgeCorrect, PTL

-----------------------------------------------------------------------------
(* The key store: what folding the key file makes of it                    *)

Stores == UNION {[D -> KeyRecord] : D \in SUBSET STRING}

\* What the first k records leave: of every digest, its last record.
Indexed(store, k) ==
  /\ DOMAIN store = {Config[i].digest : i \in 1..k} \ {"malformed"}
  /\ \A d \in DOMAIN store :
       \E i \in 1..k : /\ Config[i].digest = d /\ store[d] = Config[i]
                       /\ \A j \in 1..k : Config[j].digest = d => j <= i

LEMMA IndexType ==
  ASSUME NEW store \in Stores, NEW record \in KeyRecord  PROVE  Index(store, record) \in Stores
<1>1. record.digest \in STRING  BY DEF KeyRecord
<1>2. PICK D \in SUBSET STRING : store \in [D -> KeyRecord]  BY DEF Stores
<1>3. D \cup {record.digest} \in SUBSET STRING /\ DOMAIN store = D  BY <1>1, <1>2
<1>4. CASE record.digest = "malformed"  BY <1>4 DEF Index
<1>5. CASE record.digest # "malformed"
  <2>1. Index(store, record) \in [D \cup {record.digest} -> KeyRecord]
    BY <1>2, <1>3, <1>5 DEF Index
  <2>2. QED  BY <1>3, <2>1 DEF Stores
<1>6. QED  BY <1>4, <1>5

LEMMA IndexOne ==
  ASSUME NEW k \in 1..Len(Config), NEW store, Indexed(store, k - 1)
  PROVE  Indexed(Index(store, Config[k]), k)
<1> DEFINE e == Config[k].digest
           next == Index(store, Config[k])
<1>1. k \in Nat \ {0} /\ 1..k = 1..(k - 1) \cup {k} /\ \A j \in 1..(k - 1) : j <= k /\ j # k
  OBVIOUS
<1>2. CASE e = "malformed"
  <2>1. next = store  BY <1>2 DEF Index
  <2>2. {Config[i].digest : i \in 1..k} = {Config[i].digest : i \in 1..(k - 1)} \cup {e}
    BY <1>1
  <2>3. DOMAIN next = {Config[i].digest : i \in 1..k} \ {"malformed"}
    BY <1>2, <2>1, <2>2 DEF Indexed
  <2>4. ASSUME NEW d \in DOMAIN next
        PROVE  \E i \in 1..k : /\ Config[i].digest = d /\ next[d] = Config[i]
                               /\ \A j \in 1..k : Config[j].digest = d => j <= i
    <3>1. PICK i \in 1..(k - 1) : /\ Config[i].digest = d /\ store[d] = Config[i]
                                  /\ \A j \in 1..(k - 1) : Config[j].digest = d => j <= i
      BY <2>1, <2>4 DEF Indexed
    <3>2. d # e  BY <1>2, <2>3, <2>4
    <3>3. QED  BY <1>1, <2>1, <3>1, <3>2
  <2>5. QED  BY <2>3, <2>4 DEF Indexed
<1>3. CASE e # "malformed"
  <2>1. next = [d \in DOMAIN store \cup {e} |-> IF d = e THEN Config[k] ELSE store[d]]
    BY <1>3 DEF Index
  <2>2. {Config[i].digest : i \in 1..k} = {Config[i].digest : i \in 1..(k - 1)} \cup {e}
    BY <1>1
  <2>3. DOMAIN next = {Config[i].digest : i \in 1..k} \ {"malformed"}
    BY <1>3, <2>1, <2>2 DEF Indexed
  <2>4. ASSUME NEW d \in DOMAIN next
        PROVE  \E i \in 1..k : /\ Config[i].digest = d /\ next[d] = Config[i]
                               /\ \A j \in 1..k : Config[j].digest = d => j <= i
    <3>1. CASE d = e
      <4>1. next[d] = Config[k]  BY <2>1, <2>4, <3>1
      <4>2. \A j \in 1..k : j <= k  OBVIOUS
      <4>3. QED  BY <1>1, <3>1, <4>1, <4>2
    <3>2. CASE d # e
      <4>1. d \in DOMAIN store /\ next[d] = store[d]  BY <2>1, <2>4, <3>2
      <4>2. PICK i \in 1..(k - 1) : /\ Config[i].digest = d /\ store[d] = Config[i]
                                    /\ \A j \in 1..(k - 1) : Config[j].digest = d => j <= i
        BY <4>1 DEF Indexed
      <4>3. QED  BY <1>1, <3>2, <4>1, <4>2
    <3>3. QED  BY <3>1, <3>2
  <2>5. QED  BY <2>3, <2>4 DEF Indexed
<1>4. QED  BY <1>2, <1>3

LEMMA StoreIndexed == Indexed(ByHash, Len(Config))
<1> DEFINE n == Len(Config)
<1>1. n \in Nat /\ DOMAIN Config = 1..n /\ \A i \in 1..n : Config[i] \in KeyRecord
  BY HttpEdgeAssumption
<1> HIDE DEF n
<1> DEFINE F == [p \in Stores \X (1..n) |-> Index(p[1], Config[p[2]])]
           Body(g) == [s \in SUBSET (1..n) |->
             IF s = {} THEN <<>> ELSE Index(g[s \ {Max(s)}], Config[Max(s)])]
<1>2. PICK h \in [SUBSET (1..n) -> Stores] : Folding(h, n, <<>>, F)
  <2>1. F \in [Stores \X (1..n) -> Stores]  BY <1>1, IndexType
  <2>2. <<>> \in Stores
    <3>1. <<>> \in [{} -> KeyRecord]  OBVIOUS
    <3>2. {} \in SUBSET STRING  OBVIOUS
    <3>3. QED  BY <3>1, <3>2 DEF Stores
  <2> HIDE DEF F
  <2>3. QED  BY <1>1, <2>1, <2>2, FoldExists
<1>3. h = Body(h)
  <2>1. ASSUME NEW s \in SUBSET (1..n), s # {}
        PROVE  F[<<h[s \ {Max(s)}], Max(s)>>] = Index(h[s \ {Max(s)}], Config[Max(s)])
    <3>1. Max(s) \in 1..n  BY <1>1, <2>1, MaxOfSome
    <3>2. h[s \ {Max(s)}] \in Stores  OBVIOUS
    <3>3. QED  BY <3>1, <3>2
  <2> HIDE DEF F
  <2>2. QED  BY <1>2, <2>1 DEF Folding
<1> HIDE DEF F
<1> DEFINE g == CHOOSE g : g = Body(g)
<1>4. g = Body(g)  BY <1>3
<1>5. ByHash = g[1..n]  BY <1>1 DEF ByHash, FoldLeft, MapThenFoldSet
<1> HIDE DEF g
<1> DEFINE T == {k \in Nat : k <= n => Indexed(g[1..k], k)}
<1>6. 0 \in T
  <2>1. 1..0 = {} /\ {} \in SUBSET (1..n)  OBVIOUS
  <2>2. g[1..0] = <<>>  BY <1>4, <2>1
  <2>3. Indexed(<<>>, 0)  BY <2>1 DEF Indexed
  <2>4. QED  BY <2>2, <2>3
<1>7. ASSUME NEW k \in Nat, k \in T  PROVE  k + 1 \in T
  <2> SUFFICES ASSUME k + 1 <= n  PROVE Indexed(g[1..(k + 1)], k + 1)
    OBVIOUS
  <2>1. k + 1 \in 1..n /\ (k + 1) - 1 = k /\ k + 1 \in Nat /\ k + 1 # 0  BY <1>1
  <2>2. 1..(k + 1) \in SUBSET (1..n) /\ k <= n  BY <1>1, <2>1
  <2>3. /\ 1..(k + 1) # {} /\ Max(1..(k + 1)) = k + 1
        /\ (1..(k + 1)) \ {Max(1..(k + 1))} = 1..((k + 1) - 1)
    BY <2>1, MaxUpTo
  <2>4. g[1..(k + 1)] = Index(g[1..k], Config[k + 1])  BY <1>4, <2>1, <2>2, <2>3
  <2>5. Indexed(g[1..k], (k + 1) - 1)  BY <1>7, <2>1, <2>2
  <2>6. Indexed(Index(g[1..k], Config[k + 1]), k + 1)  BY <2>1, <2>5, IndexOne DEF n
  <2>7. QED  BY <2>4, <2>6
<1>8. n \in T
  <2> HIDE DEF T
  <2>1. Nat \subseteq T  BY <1>6, <1>7, Induction
  <2>2. QED  BY <1>1, <2>1
<1>9. QED  BY <1>5, <1>8, <1>1 DEF n

\* Who a key resolves to: the last record with its digest, if that one is
\* enabled, or the anonymous caller where one is let in and no record has it.
LEMMA LookupSpeaks ==
  ASSUME NEW key, key # "malformed", NEW r \in Lookup(key)
  PROVE  \/ \E i \in DOMAIN Config : Speaks(i, key) /\ r = Config[i] /\ r.enabled
         \/ Stranger(key) /\ open # None /\ r = Anonymous
<1>1. DOMAIN Config = 1..Len(Config)  BY HttpEdgeAssumption
<1>2. CASE key \in DOMAIN ByHash
  <2>1. r = ByHash[key] /\ r.enabled  BY <1>2 DEF Lookup
  <2>2. QED  BY <1>1, <1>2, <2>1, StoreIndexed DEF Indexed, Speaks
<1>3. CASE key \notin DOMAIN ByHash
  <2>1. open # None /\ r = Anonymous  BY <1>3 DEF Lookup
  <2>2. Stranger(key)  BY <1>1, <1>3, StoreIndexed DEF Indexed, Stranger
  <2>3. QED  BY <2>1, <2>2
<1>4. QED  BY <1>2, <1>3

-----------------------------------------------------------------------------
(* The caller, from the key check to the access log                        *)

\* The key resolves from the key check on, the channel is right past the guard,
\* and the scope is held where a turn runs.
Admitted ==
  /\ at \in {"guard", "turning", "streaming"} \/ (at = "handler" /\ request.route # "ready") =>
       Lookup(request.key) # {}
  /\ at \in {"handler", "turning", "streaming"} => RightChannel
  /\ at \in {"turning", "streaming"} => HasScope

\* The name on the request is that of its caller, and it is there from the key
\* check on, whatever becomes of the request.
Stamped ==
  /\ state.key # None => \E r \in Lookup(request.key) : state.key = r.id
  /\ passed => state.key # None

CallerInv == Admitted /\ Stamped

LEMMA CallerInit == Init => CallerInv
BY HttpEdgeAssumption DEF Init, CallerInv, Admitted, Stamped, NoReply

\* Neither the stack nor a response changes who calls.
LEMMA SameCaller ==
  ASSUME UNCHANGED <<request, open>>
  PROVE  /\ Lookup(request.key)' = Lookup(request.key)
         /\ RightChannel' <=> RightChannel
         /\ HasScope' <=> HasScope
BY DEF Lookup, Anonymous, RightChannel, Caller, HasBody, HasScope

\* A caller has a name.
LEMMA LookupNames == ASSUME NEW key, NEW r \in Lookup(key)  PROVE  r.id \in KeyNames
<1>1. CASE key \in DOMAIN ByHash
  <2>1. r = ByHash[key]  BY <1>1 DEF Lookup
  <2>2. PICK i \in 1..Len(Config) : r = Config[i]
    BY <1>1, <2>1, StoreIndexed DEF Indexed
  <2>3. QED  BY <2>2, HttpEdgeAssumption DEF KeyNames
<1>2. CASE key \notin DOMAIN ByHash
  <2>1. r = Anonymous  BY <1>2 DEF Lookup
  <2>2. r.id = "anonymous"  BY <2>1 DEF Anonymous
  <2>3. QED  BY <2>2 DEF KeyNames
<1>3. QED  BY <1>1, <1>2

LEMMA RefuseCaller ==
  ASSUME CallerInv, NEW from, NEW status, Refuse(from, status)
  PROVE  CallerInv'
<1>1. UNCHANGED <<request, open, state, passed>> /\ at' = "leaving"
  BY DEF Refuse, Reply, requestVars, pastVars
<1>2. Lookup(request.key)' = Lookup(request.key)  BY <1>1, SameCaller
<1>3. Admitted'  BY <1>1 DEF Admitted
<1>4. Stamped'  BY <1>1, <1>2 DEF CallerInv, Stamped
<1>5. QED  BY <1>3, <1>4 DEF CallerInv

LEMMA DescendCaller ==
  ASSUME CallerInv, NEW from, NEW to, Descend(from, to),
         \/ to \in {"route", "body", "access", "leaving", "raising"}
         \/ to = "handler" /\ request.route = "ready"
         \/ from = "guard" /\ to = "handler" /\ RightChannel
         \/ from = "handler" /\ to = "turning" /\ HasBody /\ HasScope
  PROVE  CallerInv'
<1>1. UNCHANGED <<request, open, state, passed>> /\ at = from /\ at' = to
  BY DEF Descend, requestVars, pastVars
<1>2. /\ Lookup(request.key)' = Lookup(request.key)
      /\ RightChannel' <=> RightChannel
      /\ HasScope' <=> HasScope
  BY <1>1, SameCaller
<1>3. request.route = "ready" => RightChannel  BY DEF RightChannel, HasBody
<1>4. HasBody => request.route # "ready"  BY DEF HasBody
<1>5. Admitted'  BY <1>1, <1>2, <1>3, <1>4 DEF CallerInv, Admitted
<1>6. Stamped'  BY <1>1, <1>2 DEF CallerInv, Stamped
<1>7. QED  BY <1>5, <1>6 DEF CallerInv

LEMMA CallerStep ==
  ASSUME EdgeInv, CallerInv, Next  PROVE  CallerInv'
<1> state = [id |-> state.id, key |-> state.key, turn |-> state.turn]
  BY DEF EdgeInv, StateShape
<1>1. ASSUME NEW r \in Requests, Arrive(r)  PROVE CallerInv'
  <2>1. at' = "limit" /\ state'.key = None /\ ~passed'
    BY <1>1 DEF Arrive
  <2>2. QED  BY <2>1 DEF CallerInv, Admitted, Stamped
<1>2. CASE CheckDeclared
  BY <1>2, RefuseCaller, DescendCaller DEF CheckDeclared
<1>3. CASE Match
  BY <1>3, RefuseCaller, DescendCaller DEF Match
<1>4. CASE ReadChunk
  <2>1. CASE received' > MaxBody
    <3>1. UNCHANGED <<request, open, state, passed>> /\ at' = "leaving"
      BY <1>4, <2>1 DEF ReadChunk, Reply, pastVars
    <3>2. Lookup(request.key)' = Lookup(request.key)  BY <3>1, SameCaller
    <3>3. QED  BY <3>1, <3>2 DEF CallerInv, Admitted, Stamped
  <2>2. CASE ~(received' > MaxBody)
    <3>1. UNCHANGED <<request, open, state, at, passed>>
      BY <1>4, <2>2 DEF ReadChunk, pastVars
    <3>2. /\ Lookup(request.key)' = Lookup(request.key)
          /\ (RightChannel' <=> RightChannel) /\ (HasScope' <=> HasScope)
      BY <3>1, SameCaller
    <3>3. QED  BY <3>1, <3>2 DEF CallerInv, Admitted, Stamped
  <2>3. QED  BY <2>1, <2>2
<1>5. CASE LoseBody  BY <1>5, RefuseCaller DEF LoseBody
<1>6. CASE ReadAll  BY <1>6, RefuseCaller, DescendCaller DEF ReadAll
<1>7. CASE RefuseKey  BY <1>7, RefuseCaller DEF RefuseKey
<1>8. CASE Authenticate
  <2>1. PICK r \in Lookup(request.key) : state' = [state EXCEPT !.key = r.id]
    BY <1>8 DEF Authenticate
  <2>2. UNCHANGED <<request, open>> /\ at' = "guard"
    BY <1>8 DEF Authenticate, requestVars, pastVars
  <2>3. state'.key = r.id  BY <2>1
  <2>4. Lookup(request.key)' = Lookup(request.key)  BY <2>2, SameCaller
  <2>5. r.id # None  BY <2>1, LookupNames, HttpEdgeAssumption
  <2>6. QED  BY <2>1, <2>2, <2>3, <2>4, <2>5 DEF CallerInv, Admitted, Stamped
<1>9. CASE Guard  BY <1>9, RefuseCaller, DescendCaller DEF Guard
<1>10. CASE RefuseScope \/ RefuseOption \/ AnswerSession \/ AnswerSystem \/ StartTurn
  BY <1>10, RefuseCaller, DescendCaller DEF RefuseScope, RefuseOption, AnswerSession, AnswerSystem, StartTurn
<1>11. CASE StartStream
  <2>1. /\ UNCHANGED <<request, open, state, passed>> /\ at = "handler" /\ at' = "streaming"
        /\ HasBody /\ HasScope
    BY <1>11 DEF StartStream, requestVars, pastVars
  <2>2. /\ Lookup(request.key)' = Lookup(request.key)
        /\ (RightChannel' <=> RightChannel) /\ (HasScope' <=> HasScope)
    BY <2>1, SameCaller
  <2>3. request.route # "ready"  BY <2>1 DEF HasBody
  <2>4. QED  BY <2>1, <2>2, <2>3 DEF CallerInv, Admitted, Stamped
<1>12. CASE CutStream \/ Raise  BY <1>12, DescendCaller DEF CutStream, Raise
<1>13. ASSUME NEW s \in TurnStatus, EndTurn(s) \/ EndStream(s)  PROVE CallerInv'
  <2>1. /\ UNCHANGED <<request, open, passed>> /\ state'.key = state.key /\ at' = "leaving"
        /\ at \in {"turning", "streaming"}
    BY <1>13 DEF EndTurn, EndStream, Reply, pastVars
  <2>2. Lookup(request.key)' = Lookup(request.key)  BY <2>1, SameCaller
  <2>3. QED  BY <2>1, <2>2 DEF CallerInv, Admitted, Stamped
<1>14. CASE Leave
  <2>1. UNCHANGED <<request, open, state, at, passed>>  BY <1>14 DEF Leave, pastVars
  <2>2. /\ Lookup(request.key)' = Lookup(request.key)
        /\ (RightChannel' <=> RightChannel) /\ (HasScope' <=> HasScope)
    BY <2>1, SameCaller
  <2>3. QED  BY <2>1, <2>2 DEF CallerInv, Admitted, Stamped
<1>15. CASE Unwind \/ UnwindRaised \/ HandleUnhandled
  <2>1. UNCHANGED <<request, open, state, passed>> /\ at' \in {"idle", "outside"}
    BY <1>15 DEF Unwind, UnwindRaised, HandleUnhandled, Deliver, requestVars
  <2>2. Lookup(request.key)' = Lookup(request.key)  BY <2>1, SameCaller
  <2>3. QED  BY <2>1, <2>2 DEF CallerInv, Admitted, Stamped
<1>16. QED
  BY <1>1, <1>2, <1>3, <1>4, <1>5, <1>6, <1>7, <1>8, <1>9, <1>10, <1>11, <1>12, <1>13,
     <1>14, <1>15
  DEF Next

LEMMA CallerStutter == CallerInv /\ UNCHANGED vars => CallerInv'
BY SameCaller DEF vars, requestVars, pastVars, CallerInv, Admitted, Stamped

THEOREM CallerCorrect == Spec => []CallerInv
<1>1. EdgeInv /\ CallerInv /\ [Next]_vars => CallerInv'  BY CallerStep, CallerStutter
<1>2. QED  BY <1>1, EdgeCorrect, CallerInit, PTL DEF Spec

\* A turn runs for an enabled key in its own channel and scope, or for the
\* stranger the deployment lets in.
THEOREM OnlyCallersAct == Spec => []CallerMayAct
<1>1. EdgeInv /\ CallerInv => CallerMayAct
  <2> SUFFICES ASSUME EdgeInv, CallerInv, at \in {"turning", "streaming"}
               PROVE  \/ \E i \in DOMAIN Config :
                           /\ Speaks(i, request.key) /\ Config[i].enabled
                           /\ Config[i].channel = Pinned[request.route]
                           /\ Scope[request.route] \in Config[i].scopes
                      \/ Stranger(request.key) /\ open = Pinned[request.route]
    BY DEF CallerMayAct
  <2>1. request.key # "malformed"
    BY HttpEdgeAssumption DEF EdgeInv, Counted, RequestType
  <2>2. HasBody /\ Lookup(request.key) # {} /\ RightChannel /\ HasScope
    BY DEF EdgeInv, Counted, OnTurnRoute, CallerInv, Admitted
  <2>3. request.route \in DOMAIN Scope  BY <2>2 DEF HasBody, Scope
  <2>4. /\ Caller \in Lookup(request.key)
        /\ Caller.channel = Pinned[request.route] /\ Scope[request.route] \in Caller.scopes
    BY <2>2, <2>3 DEF Caller, RightChannel, HasScope
  <2>5. \/ \E i \in DOMAIN Config : Speaks(i, request.key) /\ Caller = Config[i] /\ Caller.enabled
        \/ Stranger(request.key) /\ open # None /\ Caller = Anonymous
    <3> DEFINE c == Caller
    <3>1. c \in Lookup(request.key)  BY <2>4
    <3> HIDE DEF c
    <3>2. \/ \E i \in DOMAIN Config : Speaks(i, request.key) /\ c = Config[i] /\ c.enabled
          \/ Stranger(request.key) /\ open # None /\ c = Anonymous
      BY <2>1, <3>1, LookupSpeaks
    <3>3. QED  BY <3>2 DEF c
  <2>6. CASE \E i \in DOMAIN Config :
               Speaks(i, request.key) /\ Caller = Config[i] /\ Caller.enabled
    BY <2>4, <2>6
  <2>7. CASE Stranger(request.key) /\ open # None /\ Caller = Anonymous
    <3>1. Anonymous.channel = open  BY DEF Anonymous
    <3>2. QED  BY <2>4, <2>7, <3>1
  <2>8. QED  BY <2>5, <2>6, <2>7
<1>2. QED  BY <1>1, EdgeCorrect, CallerCorrect, PTL

\* The access log names the caller, and every caller who got past the key check.
THEOREM CallersAreNamed == Spec => LineNamesTheCaller
<1> DEFINE named == \E i \in DOMAIN Config : Speaks(i, request.key) /\ Config[i].id = line'.key
           Named == /\ named \/ line'.key = "anonymous"
                    /\ passed => named \/ (open # None /\ Stranger(request.key))
<1>1. EdgeInv /\ CallerInv /\ [Next]_vars => [line' # line => Named]_vars
  <2> SUFFICES ASSUME EdgeInv, CallerInv, Next, line' # line  PROVE Named
    OBVIOUS
  <2>1. Unwind \/ UnwindRaised
    BY DEF Next, HandleUnhandled, Arrive, CheckDeclared, Match, ReadChunk, LoseBody, ReadAll, RefuseKey,
           Authenticate, Guard, RefuseScope, RefuseOption, AnswerSession, AnswerSystem, StartTurn, StartStream,
           CutStream, EndTurn, EndStream, Raise, Leave, Refuse, Descend, pastVars
  <2>2. line'.key = IF state.key = None THEN "anonymous" ELSE state.key
    BY <2>1 DEF Unwind, UnwindRaised, Record
  <2>3. request.key # "malformed"
    BY <2>1, HttpEdgeAssumption DEF Unwind, UnwindRaised, EdgeInv, Counted, RequestType
  <2>4. state.key # None => named \/ (open # None /\ Stranger(request.key) /\ state.key = "anonymous")
    <3> SUFFICES ASSUME state.key # None
                 PROVE  named \/ (open # None /\ Stranger(request.key) /\ state.key = "anonymous")
      OBVIOUS
    <3>1. PICK r \in Lookup(request.key) : state.key = r.id  BY DEF CallerInv, Stamped
    <3>2. \/ \E i \in DOMAIN Config : Speaks(i, request.key) /\ r = Config[i] /\ r.enabled
          \/ Stranger(request.key) /\ open # None /\ r = Anonymous
      BY <2>3, LookupSpeaks
    <3>3. ASSUME NEW i \in DOMAIN Config, Speaks(i, request.key), r = Config[i]  PROVE named
      BY <2>2, <3>1, <3>3
    <3>4. Anonymous.id = "anonymous"  BY DEF Anonymous
    <3>5. QED  BY <3>1, <3>2, <3>3, <3>4
  <2>5. passed => state.key # None  BY DEF CallerInv, Stamped
  <2>6. QED  BY <2>2, <2>4, <2>5
<1>2. QED  BY <1>1, EdgeCorrect, CallerCorrect, PTL DEF Spec, LineNamesTheCaller

-----------------------------------------------------------------------------
(* Types                                                                   *)

\* While a request is served there is room for it, and it has its id.
Served == at # "idle" => served < MaxRequests /\ state.id \in Id

TypeInv == TypeOK /\ Served

LEMMA TypeInit == Init => TypeInv
<1> SUFFICES ASSUME Init  PROVE TypeInv
  OBVIOUS
<1>1. served \in 0..MaxRequests /\ received \in 0..(MaxBody + 1)
  BY HttpEdgeAssumption DEF Init
<1>2. reply \in Replies /\ answer \in Replies  BY DEF Init, Replies
<1>3. /\ context.id = None /\ context.key = None
      /\ state.id = None /\ state.key = None /\ state.turn = None
  BY DEF Init, NoContext
<1>4. passed \in BOOLEAN  BY DEF Init
<1>5. QED  BY <1>1, <1>2, <1>3, <1>4 DEF Init, TypeInv, TypeOK, Served

\* A step down the stack and a refusal have the types, wherever they start.
LEMMA RefuseTyped ==
  ASSUME TypeInv, NEW from \in {"limit", "route", "body", "access", "guard", "handler"},
         NEW status \in Status, Refuse(from, status)
  PROVE  TypeInv'
<1>1. /\ UNCHANGED <<requestVars, pastVars, context, state>> /\ at # "idle"
      /\ at' = "leaving" /\ reply' = [status |-> status, id |-> state.id]
  BY DEF Refuse, Reply
<1>2. state.id \in Id  BY <1>1 DEF TypeInv, Served
<1>3. reply' \in Replies  BY <1>1, <1>2 DEF Replies
<1>4. QED  BY <1>1, <1>3 DEF TypeInv, TypeOK, Served, requestVars, pastVars

LEMMA DescendTyped ==
  ASSUME TypeInv, NEW from, from # "idle",
         NEW to \in {"route", "body", "access", "guard", "handler", "turning", "streaming",
                     "leaving", "raising"},
         Descend(from, to)
  PROVE  TypeInv'
BY DEF Descend, TypeInv, TypeOK, Served, requestVars, pastVars

LEMMA DownTyped ==
  ASSUME TypeInv,
         \/ CheckDeclared \/ Match \/ LoseBody \/ ReadAll \/ RefuseKey \/ Guard
         \/ RefuseScope \/ RefuseOption \/ AnswerSession \/ AnswerSystem \/ StartTurn \/ CutStream \/ Raise
  PROVE  TypeInv'
<1>1. {200, 204, 400, 401, 403, 404, 422, 503} \subseteq Status  BY DEF Status
<1>2. CASE CheckDeclared  BY <1>1, <1>2, RefuseTyped, DescendTyped DEF CheckDeclared
<1>3. CASE Match  BY <1>1, <1>3, RefuseTyped, DescendTyped DEF Match
<1>4. CASE LoseBody \/ ReadAll
  BY <1>1, <1>4, RefuseTyped, DescendTyped DEF LoseBody, ReadAll
<1>5. CASE RefuseKey \/ Guard
  BY <1>1, <1>5, RefuseTyped, DescendTyped DEF RefuseKey, Guard
<1>6. CASE RefuseScope \/ RefuseOption \/ AnswerSession \/ AnswerSystem
  BY <1>1, <1>6, RefuseTyped DEF RefuseScope, RefuseOption, AnswerSession, AnswerSystem
<1>7. CASE StartTurn \/ CutStream \/ Raise
  BY <1>7, DescendTyped DEF StartTurn, CutStream, Raise
<1>8. QED  BY <1>2, <1>3, <1>4, <1>5, <1>6, <1>7

LEMMA WriteTyped ==
  ASSUME EdgeInv, ContextIsItsOwn', TypeInv,
         \/ ReadChunk \/ Authenticate \/ StartStream \/ Leave
         \/ Unwind \/ UnwindRaised \/ HandleUnhandled
         \/ \E r \in Requests : Arrive(r)
         \/ \E s \in TurnStatus : EndTurn(s) \/ EndStream(s)
  PROVE  TypeInv'
<1> state = [id |-> state.id, key |-> state.key, turn |-> state.turn]
  BY DEF EdgeInv, StateShape
<1>1. CASE ReadChunk
  <2>1. /\ at # "idle" /\ received <= MaxBody /\ received' = received + 1
        /\ UNCHANGED <<request, client, outcome, passed, open, served, line, answer, context, state>>
    BY <1>1 DEF ReadChunk, pastVars, EdgeInv, Counted, Reading
  <2>2. received' \in 0..(MaxBody + 1)  BY <2>1, HttpEdgeAssumption DEF TypeInv, TypeOK
  <2>3. reply' \in Replies /\ at' \in {at, "leaving"}
    <3>1. state.id \in Id  BY <2>1 DEF TypeInv, Served
    <3>2. [status |-> 400, id |-> state.id] \in Replies  BY <3>1 DEF Replies, Status
    <3>3. QED  BY <1>1, <3>2 DEF ReadChunk, Reply, TypeInv, TypeOK
  <2>4. QED  BY <2>1, <2>2, <2>3 DEF TypeInv, TypeOK, Served
<1>2. CASE Authenticate
  <2>1. PICK r \in Lookup(request.key) : state' = [state EXCEPT !.key = r.id]
    BY <1>2 DEF Authenticate
  <2>2. /\ state' = [id |-> state.id, key |-> r.id, turn |-> state.turn]
        /\ r.id \in KeyNames
    BY <2>1, LookupNames
  <2>3. /\ UNCHANGED <<request, client, received, outcome, pastVars, reply>>
        /\ passed' = TRUE /\ at = "access" /\ at' = "guard"
    BY <1>2 DEF Authenticate
  <2>4. context' = [id |-> state'.id, key |-> state'.key]
    BY <2>3 DEF ContextIsItsOwn
  <2>5. QED
    BY <2>2, <2>3, <2>4 DEF TypeInv, TypeOK, Served, pastVars
<1>3. CASE StartStream
  <2>1. /\ UNCHANGED <<requestVars, pastVars, context, state>> /\ at # "idle"
        /\ at' = "streaming" /\ reply' = [status |-> 200, id |-> state.id]
    BY <1>3 DEF StartStream
  <2>2. reply' \in Replies  BY <2>1 DEF TypeInv, Served, Replies, Status
  <2>3. QED  BY <2>1, <2>2 DEF TypeInv, TypeOK, Served, requestVars, pastVars
<1>4. CASE Leave
  BY <1>4 DEF Leave, TypeInv, TypeOK, Served, pastVars
<1>5. CASE Unwind \/ HandleUnhandled
  <2>1. /\ UNCHANGED <<open, requestVars, state, reply>> /\ at # "idle" /\ at' = "idle"
        /\ served' = served + 1 /\ context' \in {context, NoContext}
        /\ answer' \in {NoReply, reply, [status |-> 500, id |-> state.id]}
    BY <1>5 DEF Unwind, HandleUnhandled, Deliver, Clear
  <2>2. served' \in 0..MaxRequests
    BY <2>1, HttpEdgeAssumption DEF TypeInv, TypeOK, Served
  <2>3. answer' \in Replies
    <3>1. [status |-> 500, id |-> state.id] \in Replies /\ NoReply \in Replies
      BY <2>1 DEF TypeInv, Served, Replies, Status
    <3>2. QED  BY <2>1, <3>1 DEF TypeInv, TypeOK
  <2>4. context'.id \in Id \cup {None} /\ context'.key \in KeyNames \cup {None}
    BY <2>1 DEF NoContext, TypeInv, TypeOK
  <2>5. QED  BY <2>1, <2>2, <2>3, <2>4 DEF TypeInv, TypeOK, Served, requestVars
<1>6. CASE UnwindRaised
  <2>1. context'.id = None /\ context'.key = None
    BY <1>6 DEF UnwindRaised, Clear, NoContext
  <2>2. QED
    BY <1>6, <2>1 DEF UnwindRaised, TypeInv, TypeOK, Served, requestVars
<1>7. ASSUME NEW r \in Requests, Arrive(r)  PROVE TypeInv'
  <2>1. /\ at' = "limit" /\ request' = r /\ client' = "here" /\ received' = 0
        /\ outcome' = None /\ passed' = FALSE /\ reply' = NoReply /\ answer' = NoReply
        /\ served < MaxRequests
        /\ state' = [id |-> RequestId(r), key |-> None, turn |-> None]
        /\ UNCHANGED <<open, served>>
    BY <1>7 DEF Arrive
  <2>2. RequestId(r) \in Id
    <3>1. served \in 0..(MaxRequests - 1)
      BY <2>1, HttpEdgeAssumption DEF TypeInv, TypeOK
    <3>2. QED  BY <3>1 DEF RequestId, Id
  <2>3. context' = [id |-> state'.id, key |-> state'.key]  BY <2>1 DEF ContextIsItsOwn
  <2>4. context'.id = RequestId(r) /\ context'.key = None  BY <2>1, <2>3
  <2>5. received' \in 0..(MaxBody + 1) /\ reply' \in Replies
    BY <2>1, HttpEdgeAssumption DEF Replies
  <2>6. QED  BY <2>1, <2>2, <2>4, <2>5 DEF TypeInv, TypeOK, Served
<1>8. ASSUME NEW s \in TurnStatus, EndTurn(s) \/ EndStream(s)  PROVE TypeInv'
  <2>1. /\ outcome' = s /\ at' = "leaving" /\ at # "idle"
        /\ UNCHANGED <<request, client, received, passed, open, served, answer, context>>
    BY <1>8 DEF EndTurn, EndStream, Reply, pastVars
  <2>2. state'.id = state.id /\ state'.key = state.key /\ state'.turn \in {s, state.turn}
    BY <1>8 DEF EndTurn, EndStream
  <2>3. reply' \in Replies
    <3>1. [status |-> 200, id |-> state.id] \in Replies
      BY <2>1 DEF TypeInv, Served, Replies, Status
    <3>2. QED  BY <1>8, <3>1 DEF EndTurn, EndStream, Reply, TypeInv, TypeOK
  <2>4. QED  BY <2>1, <2>2, <2>3 DEF TypeInv, TypeOK, Served
<1>9. QED  BY <1>1, <1>2, <1>3, <1>4, <1>5, <1>6, <1>7, <1>8

\* Every variable keeps its type, for any requests and any key file.
THEOREM TypesKept == Spec => []TypeOK
<1>1. EdgeInv /\ TypeInv /\ [Next]_vars => TypeInv'
  <2> SUFFICES ASSUME EdgeInv, TypeInv, [Next]_vars  PROVE TypeInv'
    OBVIOUS
  <2>1. CASE UNCHANGED vars
    BY <2>1 DEF vars, requestVars, pastVars, TypeInv, TypeOK, Served
  <2>2. CASE Next
    <3>1. ContextIsItsOwn'  BY EdgeStep DEF EdgeInv
    <3>2. QED  BY <2>2, <3>1, DownTyped, WriteTyped DEF Next
  <2>3. QED  BY <2>1, <2>2
<1>2. TypeInv => TypeOK  BY DEF TypeInv
<1>3. QED  BY <1>1, <1>2, TypeInit, EdgeCorrect, PTL DEF Spec

=============================================================================

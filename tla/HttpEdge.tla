------------------------------ MODULE HttpEdge ------------------------------
(***************************************************************************)
(* What a request passes on its way to a turn and back: the three          *)
(* middlewares (api/middleware.py), the API key store and the dependencies *)
(* that read it (security/api_keys.py, api/deps.py), the guards of the     *)
(* routes (api/v1), and the handlers that turn an exception into a problem *)
(* (api/errors.py).                                                        *)
(*                                                                         *)
(* The middlewares wrap the application and each other, so a request goes  *)
(* down the stack and its response, or an exception, comes back up.  One   *)
(* task serves one request after the other, in one logging context.        *)
(*                                                                         *)
(* FastAPI reads the whole body before it resolves any dependency, then    *)
(* the dependencies, then validates the fields; it answers 400 for         *)
(* whatever reading the body raises.                                       *)
(***************************************************************************)
EXTENDS Naturals, SequencesExt

CONSTANTS
  Requests,     \* the requests a client may send, see Request
  Config,       \* the key records, in the order of the key file
  MaxBody,      \* settings.app.max_body_bytes, in chunks
  MaxRequests,  \* bound: requests served
  None          \* Python's None

Routes == {"chat", "query", "session", "capabilities", "ready", "unmatched"}

ChannelScopes ==
  [customer |-> {"chat:write", "session:read", "admin:read"},
   business |-> {"query:write", "session:read", "admin:read"}]
Channels == DOMAIN ChannelScopes

\* A presented key is named after its digest: sha256 is taken to be injective.
KeyRecord ==
  [id : STRING, digest : STRING, channel : Channels,
   scopes : SUBSET UNION {ChannelScopes[c] : c \in Channels}, enabled : BOOLEAN]

\* key: what X-API-Key holds; id: whether X-Request-ID holds an acceptable id;
\* declared: Content-Length against the limit; body: the chunks that arrive;
\* content: what parsing, validation and the guard on the options say of it
Request ==
  [route : Routes, key : STRING \cup {None}, id : {"absent", "safe", "unsafe"},
   declared : {"absent", "junk", "fits", "exceeds"}, body : Nat,
   content : {"sound", "garbled", "invalid", "privileged"}, stream : BOOLEAN]

\* the names a caller can have
KeyNames == {Config[i].id : i \in DOMAIN Config} \cup {"anonymous"}

ASSUME HttpEdgeAssumption ==
  /\ MaxBody \in Nat /\ MaxRequests \in Nat /\ None \notin Nat \cup KeyNames
  /\ \A r \in Requests : r \in Request /\ r.key # "malformed"
  /\ Config \in Seq(KeyRecord)
  /\ \A i \in DOMAIN Config : Config[i].scopes \subseteq ChannelScopes[Config[i].channel]

VARIABLES
  open,      \* the channel of callers without a key, None where one is required:
             \* settings.security.allow_unauthenticated, anonymous_channel
  served,    \* how many requests are over
  request,   \* the one being served
  client,    \* "here", or "gone"
  at,        \* how far down the stack it is
  received,  \* chunks BodySizeLimitMiddleware has counted
  context,   \* the logging context: request_id and key_id
  state,     \* request.state: request_id, key_id and turn_status
  reply,     \* the response that was started
  outcome,   \* history: how the turn ended
  passed,    \* history: whether the caller got past the key check
  line,      \* the access-log line of the last request
  report,    \* the context the last unhandled exception was logged with
  answer     \* what the client of the last request received

requestVars == <<request, client, received, outcome, passed>>
pastVars == <<open, served, line, report, answer>>
vars == <<requestVars, pastVars, at, context, state, reply>>

TurnStatus == {"ok", "refused", "degraded", "error"}
NoReply   == [status |-> None, id |-> None]
NoContext == [id |-> None, key |-> None]

-----------------------------------------------------------------------------
(* The key store *)

\* mutant of Index: the first record of a digest stays
IndexFirst(store, record) ==
  IF record.digest = "malformed" \/ record.digest \in DOMAIN store THEN store
  ELSE [d \in DOMAIN store \cup {record.digest} |->
          IF d = record.digest THEN record ELSE store[d]]

\* _index: a record whose digest is none can never match; a later one shadows
Index(store, record) ==
  IF record.digest = "malformed" THEN store
  ELSE [d \in DOMAIN store \cup {record.digest} |->
          IF d = record.digest THEN record ELSE store[d]]
ByHash == FoldLeft(Index, <<>>, Config)

\* the development fallback
Anonymous ==
  [id |-> "anonymous", digest |-> "", channel |-> open,
   scopes |-> ChannelScopes[open], enabled |-> TRUE]

\* lookup: the records a presented key resolves to, one or none
Lookup(key) ==
  IF key \in DOMAIN ByHash THEN {r \in {ByHash[key]} : r.enabled}
  ELSE IF open # None THEN {Anonymous} ELSE {}

-----------------------------------------------------------------------------
(* Down the stack *)

\* an id the caller may choose, or a fresh one
RequestId(r) == [by |-> IF r.id = "safe" THEN "caller" ELSE "service", of |-> served]

\* RequestContextMiddleware and AccessLogMiddleware on the way in
Arrive(r) ==
  /\ at = "idle" /\ served < MaxRequests
  /\ request' = r /\ client' = "here" /\ received' = 0 /\ outcome' = None
  /\ passed' = FALSE /\ answer' = NoReply
  /\ state' = [id |-> RequestId(r), key |-> None, turn |-> None]
  /\ context' = [context EXCEPT !.id = RequestId(r)]
  /\ reply' = NoReply
  /\ at' = "limit"
  /\ UNCHANGED <<open, served, line, report>>

\* a response is started; it carries the id of the request
Reply(status) ==
  /\ reply' = [status |-> status, id |-> state.id]
  /\ at' = "leaving"

Descend(from, to) ==
  /\ at = from /\ at' = to
  /\ UNCHANGED <<requestVars, pastVars, context, state, reply>>

Refuse(from, status) ==
  /\ at = from
  /\ Reply(status)
  /\ UNCHANGED <<requestVars, pastVars, context, state>>

\* the declared length, before a byte is read
CheckDeclared ==
  /\ at = "limit"
  /\ IF request.declared \in {"junk", "exceeds"} THEN Refuse("limit", 400)
     ELSE Descend("limit", "route")

HasBody == request.route \in {"chat", "query"}
Pinned == [chat |-> "customer", query |-> "business"]

Match ==
  /\ at = "route"
  /\ \/ request.route = "unmatched" /\ Refuse("route", 404)
     \/ request.route = "ready" /\ Descend("route", "handler")
     \/ HasBody /\ Descend("route", "body")
     \/ request.route \in {"session", "capabilities"} /\ Descend("route", "access")

\* mutant of ReadChunk: only the declared length is looked at
ReadUncounted ==
  /\ at = "body" /\ client = "here" /\ received < request.body
  /\ received' = received + 1
  /\ UNCHANGED <<at, reply, request, client, outcome, passed, pastVars, context, state>>

\* receive_wrapper counts the chunk, and raises when it is one too many
ReadChunk ==
  /\ at = "body" /\ client = "here" /\ received < request.body
  /\ received' = received + 1
  /\ IF received' > MaxBody THEN Reply(400) ELSE UNCHANGED <<at, reply>>
  /\ UNCHANGED <<request, client, outcome, passed, pastVars, context, state>>

\* http.disconnect in the middle of the body
LoseBody ==
  at = "body" /\ client = "gone" /\ received < request.body /\ Refuse("body", 400)

ReadAll ==
  /\ at = "body"
  /\ received = request.body
  /\ \/ request.content = "garbled" /\ Refuse("body", 422)
     \/ request.content # "garbled" /\ Descend("body", "access")

\* require_principal: no usable key
RefuseKey == at = "access" /\ Lookup(request.key) = {} /\ Refuse("access", 401)

\* mutant of Authenticate: the caller is stamped once the route took it
AuthenticateLate ==
  /\ at = "access"
  /\ \E r \in Lookup(request.key) :
       IF HasBody => r.channel = Pinned[request.route]
         THEN /\ state' = [state EXCEPT !.key = r.id]
              /\ context' = [context EXCEPT !.key = r.id]
         ELSE UNCHANGED <<state, context>>
  /\ passed' = TRUE
  /\ at' = "guard"
  /\ UNCHANGED <<request, client, received, outcome, pastVars, reply>>

\* require_principal stamps the caller on the request and on the log context
Authenticate ==
  /\ at = "access"
  /\ \E r \in Lookup(request.key) :
       /\ state' = [state EXCEPT !.key = r.id]
       /\ context' = [context EXCEPT !.key = r.id]
  /\ passed' = TRUE
  /\ at' = "guard"
  /\ UNCHANGED <<request, client, received, outcome, pastVars, reply>>

Caller == CHOOSE r \in Lookup(request.key) : TRUE

\* require_channel, and the validation of the fields or of the session id
RightChannel == HasBody => Caller.channel = Pinned[request.route]
Invalid == (HasBody \/ request.route = "session") /\ request.content = "invalid"
Guard ==
  /\ at = "guard"
  /\ \/ ~RightChannel /\ Refuse("guard", 403)
     \/ RightChannel /\ Invalid /\ Refuse("guard", 422)
     \/ RightChannel /\ ~Invalid /\ Descend("guard", "handler")

-----------------------------------------------------------------------------
(* The routes *)

Scope == [chat |-> "chat:write", query |-> "query:write",
          session |-> "session:read", capabilities |-> "admin:read"]
HasScope == request.route \in DOMAIN Scope => Scope[request.route] \in Caller.scopes
Privileged == request.route = "chat" /\ request.content = "privileged"

RefuseScope == at = "handler" /\ ~HasScope /\ Refuse("handler", 403)
RefuseOption == at = "handler" /\ HasScope /\ Privileged /\ Refuse("handler", 400)

\* the routes without a turn: a session is read, deleted or not there
AnswerSession ==
  /\ at = "handler"
  /\ HasScope /\ request.route = "session"
  /\ \E status \in {200, 204, 404} : Refuse("handler", status)

\* air-llm is ready or not
AnswerSystem ==
  /\ at = "handler"
  /\ HasScope
  /\ \/ request.route \in {"capabilities", "ready"} /\ Refuse("handler", 200)
     \/ request.route = "ready" /\ Refuse("handler", 503)

StartTurn ==
  /\ at = "handler"
  /\ HasScope /\ HasBody /\ ~Privileged /\ ~request.stream
  /\ Descend("handler", "turning")

\* the turn ends, and its status goes to the header and to the access log
EndTurn(s) ==
  /\ at = "turning"
  /\ outcome' = s
  /\ state' = [state EXCEPT !.turn = s]
  /\ Reply(200)
  /\ UNCHANGED <<request, client, received, passed, pastVars, context>>

\* a stream is 200 before its turn begins
StartStream ==
  /\ at = "handler"
  /\ HasScope /\ HasBody /\ ~Privileged /\ request.stream
  /\ at' = "streaming"
  /\ reply' = [status |-> 200, id |-> state.id]
  /\ UNCHANGED <<requestVars, pastVars, context, state>>

EndStream(s) ==
  /\ at = "streaming"
  /\ outcome' = s
  /\ at' = "leaving"
  /\ UNCHANGED <<request, client, received, passed, pastVars, context, state, reply>>

CutStream == client = "gone" /\ Descend("streaming", "leaving")

\* an exception nobody expected travels up the stack
Raise == \E from \in {"access", "guard", "handler", "turning", "streaming"} :
           Descend(from, "raising")

Leave ==
  /\ at # "idle" /\ client = "here"
  /\ client' = "gone"
  /\ UNCHANGED <<request, received, outcome, passed, pastVars, at, context, state, reply>>

-----------------------------------------------------------------------------
(* Up the stack *)

\* mutant of Sent: an application that started no response answered 200
SentOk == IF reply = NoReply THEN [status |-> 200, id |-> state.id] ELSE reply

\* AccessLogMiddleware: 500 unless a response was started
Sent == IF reply = NoReply THEN [status |-> 500, id |-> state.id] ELSE reply

\* mutant of Clear: the context is left to the next request
ClearNothing == UNCHANGED context
\* RequestContextMiddleware, in its finally
Clear == context' = NoContext

\* the access-log line, written in the finally of its middleware
Record ==
  line' = [status |-> Sent.status, id |-> state.id, turn |-> state.turn,
           key |-> IF state.key = None THEN "anonymous" ELSE state.key]

\* a client that is still there receives the response
Deliver(response) ==
  /\ answer' = IF client = "gone" THEN NoReply ELSE response
  /\ served' = served + 1
  /\ at' = "idle"

Unwind ==
  /\ at = "leaving"
  /\ Record
  /\ Clear
  /\ Deliver(reply)
  /\ UNCHANGED <<open, report, requestVars, state, reply>>

UnwindRaised ==
  /\ at = "raising"
  /\ Record
  /\ Clear
  /\ at' = "outside"
  /\ UNCHANGED <<open, served, report, answer, requestVars, state, reply>>

\* the outermost handler: it logs the exception, outside of every middleware, and
\* answers 500 if no response was started
HandleUnhandled ==
  /\ at = "outside"
  /\ report' = context
  /\ Deliver(IF reply = NoReply THEN [status |-> 500, id |-> state.id] ELSE reply)
  /\ UNCHANGED <<open, line, requestVars, context, state, reply>>

-----------------------------------------------------------------------------
Init ==
  /\ open \in Channels \cup {None}
  /\ served = 0
  /\ request = None
  /\ client = "here"
  /\ at = "idle"
  /\ received = 0
  /\ context = NoContext
  /\ state = [id |-> None, key |-> None, turn |-> None]
  /\ reply = NoReply
  /\ outcome = None
  /\ passed = FALSE
  /\ line = None
  /\ report = None
  /\ answer = NoReply

Next ==
  \/ \E r \in Requests : Arrive(r)
  \/ CheckDeclared \/ Match
  \/ ReadChunk \/ LoseBody \/ ReadAll
  \/ RefuseKey \/ Authenticate \/ Guard
  \/ RefuseScope \/ RefuseOption
  \/ AnswerSession \/ AnswerSystem
  \/ StartTurn \/ StartStream \/ CutStream
  \/ \E s \in TurnStatus : EndTurn(s) \/ EndStream(s)
  \/ Raise \/ Leave
  \/ Unwind \/ UnwindRaised \/ HandleUnhandled

Spec == Init /\ [][Next]_vars

-----------------------------------------------------------------------------
(* What must hold *)

Id == [by : {"caller", "service"}, of : 0..(MaxRequests - 1)]
Status == {200, 204, 400, 401, 403, 404, 422, 500, 503}
Replies == [status : Status, id : Id] \cup {NoReply}

TypeOK ==
  /\ open \in Channels \cup {None}
  /\ served \in 0..MaxRequests
  /\ request \in Requests \cup {None}
  /\ client \in {"here", "gone"}
  /\ at \in {"idle", "limit", "route", "body", "access", "guard", "handler",
             "turning", "streaming", "leaving", "raising", "outside"}
  /\ received \in 0..(MaxBody + 1)
  /\ context.id \in Id \cup {None} /\ context.key \in KeyNames \cup {None}
  /\ state.id \in Id \cup {None} /\ state.key \in KeyNames \cup {None}
  /\ state.turn \in TurnStatus \cup {None}
  /\ reply \in Replies /\ answer \in Replies
  /\ outcome \in TurnStatus \cup {None}
  /\ passed \in BOOLEAN

\* However a request ends, refused anywhere in the stack, answered, or broken by
\* an exception, its access-log line tells the status its client received, and
\* its client can quote the id of that line.
LogTellsTheClient ==
  answer # NoReply => answer.status = line.status /\ answer.id = line.id

\* "A missed clear does not lose a field, it attributes one tenant's turn to the
\* next caller's logs": whatever is logged below RequestContextMiddleware carries
\* the id of its own request and its own caller, and nothing is left behind.  The
\* one line that is logged outside of it, of an unhandled exception, names no
\* request and no caller at all; it is never attributed to another one.
ContextIsItsOwn ==
  /\ IF at \in {"idle", "outside"} THEN context = NoContext
     ELSE context = [id |-> state.id, key |-> state.key]
  /\ report \in {None, NoContext}

\* The records of the key file that speak for a presented key: of several with
\* its digest, the last one.
Speaks(i, key) ==
  Config[i].digest = key /\ \A j \in DOMAIN Config : Config[j].digest = key => j <= i

Stranger(key) == \A i \in DOMAIN Config : Config[i].digest # key

\* A turn runs only on a body that arrived whole and within the limit, whatever
\* its declared length was.
BodyIsWhole ==
  at \in {"turning", "streaming"} => received = request.body /\ request.body <= MaxBody

\* A turn runs only for a key that is enabled, on its own channel and in its own
\* scope, or, where the deployment allows it, for a stranger on the one channel
\* it opens to them.
CallerMayAct ==
  at \in {"turning", "streaming"} =>
    \/ \E i \in DOMAIN Config :
         /\ Speaks(i, request.key) /\ Config[i].enabled
         /\ Config[i].channel = Pinned[request.route]
         /\ Scope[request.route] \in Config[i].scopes
    \/ Stranger(request.key) /\ open = Pinned[request.route]

\* The access log names no one but the caller, and it does name every caller who
\* got past the key check, however the request went on: refused for its channel,
\* scope, fields or options, answered, cut off or broken by an exception.  A
\* stranger the deployment lets in is anonymous.
LineNamesTheCaller ==
  [][line' # line =>
       LET named == \E i \in DOMAIN Config :
                      Speaks(i, request.key) /\ Config[i].id = line'.key
       IN  /\ named \/ line'.key = "anonymous"
           /\ passed => named \/ (open # None /\ Stranger(request.key))]_vars

-----------------------------------------------------------------------------
(* What the repository says and the code does not do *)

\* "The streaming routes stamp the real outcome here as they emit turn.end, and
\* the access log reports both."
OutcomeIsLogged == [][line' # line => line'.turn = outcome]_vars

=============================================================================

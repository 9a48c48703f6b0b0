# Verification of air-orchestrator-service

TLA+ models of the orchestrator, the TLC runs that check them and the TLAPS
proofs about them. Source paths are relative to
`src/src/air_orchestrator_service/`, documents to `src/docs/`.

## 1. The system

The service takes one *turn* of a conversation at a time (`POST /v1/chat` for
customer keys, `POST /v1/query` for business keys), runs it through a pipeline of
stages, and answers as an SSE stream or as one JSON body. A turn that would
change something only *proposes* it; a later turn with a structured `confirm`
executes it.

| Component | State it keeps | Operations | Properties that make it correct |
| --- | --- | --- | --- |
| Session store (`memory/session.py`, `schemas/session.py`) | dict key -> `Session` object; per session: history, pending proposal, total cost, `updated_at` | get, create, save, delete, set/take/clear_pending, append | isolation by key and tenant, expiry, bounded and unbroken history, exact total |
| Mutation gate (`engine/turn.py`, `docs/specs/0001`) | the pending proposal of each session | propose, confirm, reject, cancel, expire | at most one pending, executed at most once, only through its confirmation, never taken at or after its expiry |
| Turn engine (`engine/turn.py`) | one generator per request, its status, deadline, usage | `run`, `_pipeline`, `_answer`, `_finish_with_answer`, `collect` | event grammar, one answer, deadline and cost ceilings, every turn ends |
| SSE adapter (`api/sse.py`) | the pending `__anext__` task | heartbeat, frame, cancel, aclose | no event lost, doubled or reordered; a dropped connection stops its turn |
| Downstream clients (`clients/`, the lifespan in `main.py`) | lazily built connection pool, lock, closed flag | `_http`, `probe`, `chat`, `aclose` | one pool however many first calls race, none lost, a first shutdown closes what it found, only a call it did not wait for is refused |
| API keys and access (`security/api_keys.py`, `api/deps.py`) | key records | load, authenticate, require channel and scope | only an enabled key, on its own channel and in its own scope; the last record of a digest speaks for it |
| Middleware and errors (`api/middleware.py`, `api/errors.py`) | request context, byte counter | access log, body limit, problem responses | the log says what the client saw and who it was; nothing of one request is logged with another; no body above the limit reaches a turn |
| Guardrails (`guardrails/`) | none | screen_input, screen_scope, wants_human, mask_input, scan_output | one verdict decides and nothing else happens; cards, phones and addresses are hidden where no other number joins them, order ids are not |
| Settings, prompts, observability, entry points | read-only or write-only | | |

Interactions: a route authenticates (`api/deps.py`), builds one `TurnEngine` per
request on the *shared* store and clients (`AppState`), and hands its generator
to the SSE adapter or to `collect`. Turns of one session share the `Session`
*object*: the store returns a reference and never a copy. The only suspension
points are the events yielded to a stream, the calls to the gateway, and the wait
for the lock of a pool (its critical section awaits nothing, so no other task
ever sees it held).

What is hard here: turns in flight together on one session; a reference kept
across a delete or an expiry; a client that leaves between two steps; a
confirmation replayed or raced; a ceiling that is checked before a call and
charged after it; time-to-live boundaries; a worker that restarts with an empty
store; a shutdown beside calls that still run; patterns over text that meet each
other's leavings. `PROJECT.json` lists each hazard at its line.

## 2. Plan

| | Module | Says | State |
| --- | --- | --- | --- |
| 1 | `MutationGate` | abstract: the life of a proposal, in time | done |
| 2 | `Sessions`, `MCSessions` | the store and the blocks of a turn that touch a session, all turns of one worker; implements 1 | done |
| 3 | `FoldTheorems`, `Sessions_proofs`, `SessionsLedger_proofs` | folds and sums; type correctness, the gate, expiry, isolation, exact totals, bounded overshoot, whole histories; implements 1 and `TurnLife` | done |
| 4 | `EventContract`, `TurnLife` | abstract: the events a client may rely on; the life of a turn as the store sees it | done |
| 5 | `TurnEngine`, `MCTurnEngine`, `TurnEngine_proofs` | one turn event by event, and the JSON answer that is the fold of its events; implements both of 4 | done |
| 6 | `SseStream`, `MCSseStream`, `SseStream_proofs` | the heartbeat loop and its task against any engine | done |
| 7 | `HttpEdge`, `MCHttpEdge`, `HttpEdge_proofs` | middlewares, keys, guards, error handlers | done |
| 8 | `HttpPool`, `MCHttpPool`, `HttpPool_proofs` | the lazily built pools of `clients/`, the calls and probes on them, the shutdown beside them | done |
| 9 | `Redaction`, `MCRedaction`, `Redaction_proofs` | what the patterns of `guardrails/pii.py` make of a message and of an answer, of any length | done |
| 10 | several workers | a load balancer over workers with a store each: what the session id still means | left out, see 11 |

The order is the order of harm: a proposal executed twice or for the wrong
caller first, then one caller's history shown to another, money, the events, the
connection, the edge, the shutdown, the text.

How the modules compose: `Sessions` has many turns but sees only the blocks that
touch a session; `TurnEngine` has one turn but sees every event, and leaves what
other turns do to the session to its environment. Both are shown to live
`TurnLife` (`EveryTurnLives`, `LivesTurn`), so what is said of a turn in one holds
of the turn in the other. `SseStream` carries the events of any engine;
`HttpEdge` decides who starts a turn and what is logged of it. `HttpPool` has the
calls of the turns and of `/v1/ready` on the pools they share, and ends them as
`TurnEngine` may find them ended; `Redaction` is what `TurnEngine` does to the
text it abstracts.

## 3. `Sessions`

One uvicorn worker is one event loop and every request is a coroutine on it. No
store method awaits anything that suspends, so what a turn runs between two
suspension points is one action. The suspension points of a streaming turn are
the events it yields and its model calls; a JSON turn suspends only at the model
calls, so its interleavings are among the ones checked.

| Action | Code |
| --- | --- |
| `Resume`, `Open` | the request arrives, `_resolve_session` continues a session or creates one, `turn.start` |
| `Divert` | the early returns of `_pipeline` (injection, scope, escalation, session ceiling) |
| `Admit` | `_resolve_confirmation`: `clear_pending` or `take_pending` |
| `Propose`, `Execute`, `Call` | the three ways on: `_propose`, the canned execution, the await on the gateway |
| `CallReturns`, `Structured` | the first call's usage; the second call of `_structured_answer`, which keeps the first answer if it fails |
| `Degrade`, `CallRaises` | `LlmCallError` or an exhausted deadline; any other exception |
| `Persist` | the block of `_finish_with_answer` after the answer event: two appends, the total, `save` |
| `Disconnect` | the client leaves and the task is cancelled where it is suspended |
| `GetSession`, `DeleteSession` | the session routes |
| `Tick`, `Restart` | the clock; a new worker with an empty store |

`object` is the heap of `Session` objects and `held` the keys of the dict: the
difference is the point, since turns keep references to objects the dict no
longer holds. A session is named after the turn that created it and a proposal
after the turn that offered it (both ids are fresh uuids). `standing`,
`admitted`, `offered` and `executed` are history variables: no action reads them.

Abstractions. Text is one of three kinds: plain, containing `/propose`, or
diverted by a guardrail. Money is a small natural number. The window keeps its
exact trimming. The prompt is not built (its content is the subject of
`HistoryIsTheOwners`). `cost` is what the gateway reported in a response: a call
it bills after the client gave up on it is not modelled.

| Run | Instance | Shows |
| --- | --- | --- |
| `talk` | 3 turns of one key, 2 in flight, window 3, ceiling 1, cost up to 1, the clock stands | a proposal executes once (`AtMostOnce`), through its confirmation (`OnlyByConfirmation`), and an admitted turn settles what it found (`AdmittedTurnSettles`); pairs are never torn (`HistoryPaired`), no persisted turn is lost (`NoLostTurn`), the total is exact (`Accounted`), turns in flight together overshoot the ceiling by less than one turn each (`SpendBound`) |
| `isolation` | 2 turns, 2 customer keys of one tenant and a business key of another, 2 instants, session ttl 0, proposal ttl 1, fairness | nothing of one key reaches a session of another (`HistoryIsTheOwners`), no continuation past the ttl (`ContinuesLive`), every step is one of `MutationGate` in time (`ImplementsGate`), every turn lives `TurnLife` (`EveryTurnLives`), turns end and an accepted confirmation is executed (`TurnsEnd`) |
| `settle`, `delete` | 2 turns of one key | two statements of the repository that the code does not keep, section 9 |

`MutationGate` knows the time: a proposal expires a fixed time after it is
offered, nothing that happens while it is pending puts that off, and it is not
taken at that instant or later. It promises nothing of *when* what was taken is
executed, because the code checks the expiry only once (section 9).

Bounds. Two turns in flight are enough for every race on one session, since each
property speaks of at most two turns, and a third turn is there to come later (a
replay). One key suffices where the property does not mention keys. `isolation`
has an instant before and one at the expiry of a proposal, and the last instant
of a session and the one after it. Window 3 trims in the middle of a pair;
ceiling 1 is overshot by two turns of cost 1 that pass the check together. All
that the two runs check, but `TurnsEnd`, is also proved for every instance.

Fairness. `WF(Step(t))` for each turn: the event loop runs every ready coroutine
and the model call is bounded by a timeout. Clients need not send, confirm or
stay, and the clock need not tick.

## 4. `TurnEngine`, `EventContract`, `TurnLife`

The engine is an async generator. A block of it, the code between two yields or
awaits, is one action that computes the events the code yields next into
`queue`; `Yield` hands them over one at a time, and the next block runs when the
queue is empty. So the clock may tick and the client may leave between any two
events, as between any two `yield`s.

| Action | Code |
| --- | --- |
| `Verdict`, `Start`, `Screen` | which guardrail decides of those that match; `run` up to `turn.start`; the stage event of the guardrails |
| `Refuse`, `OverBudget` | the early returns through `_skip_to_answer`: injection, scope or human; the session's budget |
| `Admit` | the stages from context to plan, `_resolve_confirmation` |
| `Propose`, `Canned`, `Exhausted` | `_propose`; the answers of `_answer` that need no model; a deadline already spent |
| `Call`, `CallFails`, `CallReturns` | `LlmClient.chat` with what is left of the deadline, its failure, its usage |
| `StructuredReturns`, `StructuredFails` | the second call of a business turn with an `output_schema` |
| `Raise` | any exception, caught by `run`: `error`, then `turn.end` |
| `Finish`, `Persist` | `_finish_with_answer`: output guardrail and answer; history, total, `usage` |
| `Status`, `End`, `Disconnect`, `Tick` | the status of `turn.end`; the end; a client that leaves a stream; the clock |
| `Collect`, `TurnResult` | `collect`, the fold of the events into the JSON answer: ids, routes, trace, proposal, answer, body, usage, status; the trace is in the result only if `include_trace` asked for it |

`citation` events and `grounded` are in the schema and nowhere in the engine, so
there is nothing to fold for them; an escalation's reference comes with its
answer.

Run `turn`: every request of both channels (what the guardrails find, alone and
several at once; propose trigger, confirmation, schema; options absent, below and
above the ceilings; stream or JSON, with and without the trace), deadline 2
ticks, ceiling 2, a call costs up to 2, time up to 3. Two ticks are enough to
spend a deadline before, at and during a call; cost 2 against ceiling 2 reaches,
misses and passes it.

- `ImplementsContract`: the events refine `EventContract`: stages in order and
  once, `route`, `proposal`, `answer` and `usage` at most once, answer after the
  output guardrail, persist after the answer, and a `turn.end` whose status is
  the outcome the earlier events told.
- `LivesTurn`: the turn refines `TurnLife` under the mapping `LifePc`.
- `ChargedIsBilled`, `FirstCallInDeadline`: both calls are charged and reported,
  the first call is bounded by what is left.
- `OvershootBound`: the ceiling is passed by less than one call. The ceiling is
  the configured one or a lower one of the caller; requests that raise it are in
  the run, and excluded from this property (section 9).
- `StoppedTurnIsInert`: a turn that a guardrail stops asks no model, takes no
  confirmation, offers nothing and costs nothing, and ends `refused` if its text
  holds an injection, whatever else matches. What a *scope* block must end as is
  the subject of run `refused`.
- `RecordedIsTold`: what is recorded in the history was told before, wherever the
  turn is cut. The converse does not hold, and is not claimed.
- `JsonTellsTheTurn`: the JSON caller learns what the stream would have told: an
  answer or the detail of an error, a refusal as one, the route, a proposal only
  beside an answer that cost nothing, the charge, a body where its channel
  promises one, and, if it asked for the trace, every stage in order.
- `EndsOrIsCut`: under `WF(Work)` (the event loop resumes the generator, and the
  call is bounded by its timeout, so it returns or fails) every turn reaches
  `turn.end` unless the client of a stream leaves. `Tick` and `Disconnect` are
  not fair.

Runs `deadline` and `refused` are on the same instance and expect a violation.

## 5. `SseStream`

`_with_heartbeat` as two generators and the task between them: `pending` is the
task around the engine's `__anext__`, `adapter` where `_with_heartbeat` is
suspended (in `asyncio.wait`, or at a yield with a frame or a heartbeat), `Beat`
is the wait that timed out, `Close` the `finally`, `Abandon` a disconnect. The
engine is any generator of `Length` events that may also raise or stay silent.

Run `sse`, `Length = 6`: every event once and in order (`Delivered`), the
generator never entered while it runs (`OneAtATime`), a stream its client stays
on ends only with its turn (`EndsWithTurn`), and a stream left behind stops its
turn (`StopsWithClient`). The last one assumes `WF(Loop)`, that the event loop resumes
ready tasks and delivers a cancellation; the engine and the client owe nothing.
The length only has to exceed the two events that can be in the adapter at once;
the safety properties are proved for every length.

`aclose()` on the engine raises when the task still runs it; the task's own
cancellation is what stops the turn, and `Close` models both.

## 6. `HttpEdge`

A request goes down the stack and its response, or an exception, comes back up:
`Arrive` (request id, logging context), `CheckDeclared` and `ReadChunk`
(`BodySizeLimitMiddleware`), `Match`, `RefuseKey` and `Authenticate`
(`require_principal` over the key store), `Guard` (`require_channel`, then the
fields or the session id), `RefuseScope`, `RefuseOption`, `AnswerSession`,
`AnswerSystem`, `StartTurn`/`EndTurn`, `StartStream`/`EndStream`/`CutStream`,
`Raise`, `Unwind` and `UnwindRaised` (log line, clear of the context), and after
the latter `HandleUnhandled`, the outermost handler, which logs the exception
where the context is already cleared. `state` is `request.state`, `context` the
structlog contextvars, `line` the last access-log line, `report` the context the
last unhandled exception was logged with and `answer` what its client received.
`outcome` and `passed` are history variables.

Marked external, because FastAPI, Starlette and uvicorn do it: the body is read
before any dependency runs, fields are validated after them, whatever reading
the body raises is answered 400 (so `_BodyTooLargeError` never returns to the
middleware from a route, and the branch `if started: raise` is not reached), and a
disconnect reaches a request in progress.

Run `edge`, two requests one after the other on one context: every kind of key
(own channel, other channel, without the scope, revoked by a second record,
unknown, none) on every route, every combination of declared length, body,
content and stream of a customer, and a session id that is too long. `open` is
the channel of callers without a key or `None`. Two requests are enough for one
to leave something behind for the other. `MaxBody` is 2 chunks, bodies have 1, 2
and 4.

- `CallerMayAct`: a turn runs only for an enabled key on its channel and in its
  scope, the last record of a digest speaking for it, or for a stranger on the
  channel opened to strangers.
- `BodyIsWhole`: it runs on a whole body within the limit.
- `LogTellsTheClient`: the access-log line has the status and the id the client
  saw.
- `LineNamesTheCaller`: that line names nobody but the caller, and names every
  caller who got past the key check (`passed`), whatever became of the request:
  refused with 403, 422 or 400, answered, cut or broken by an exception.
- `ContextIsItsOwn`: below `RequestContextMiddleware` what is logged carries the id
  and caller of its own request; the line of an unhandled exception, logged
  outside of it, carries neither and is never attributed to another request.

Requests are sequential: concurrent ones run in tasks with contexts of their
own, and the key store is read-only. Rates and expiry of keys do not exist in
the code.

## 7. `HttpPool`

Each of the two clients builds its connection pool in the first call that needs
it. `Reuse`, `Wait` and `Build` are `_http`: the check before the lock, and the
check and the construction inside it, with the dispatch of the request that
follows without a suspension. `ChatReturns` and `ChatFails` are the ends of
`LlmClient.chat` (a second call after a first one of a business turn, `LlmCallError`,
any other exception), `ProbeLlm` and `ProbeInfra` the probes of `/v1/ready`.
`Stop`, `Drained`, `CloseNothing`, `CloseBegins`, `CloseEnds` are the shutdown:
the server stops accepting, waits for a grace period, and the `finally` of the
lifespan closes one client after the other while what the grace period left
(`late`) may still run. `ServeAgain` enters the lifespan of the same application
once more, as tests and embedding servers do. That httpx refuses a request on a
pool that began to close, and that the server cancels what it waited for too
long, is external.

Run `pool`: two turns that race for a pool and a readiness request that uses both,
two lives of the application. Two racing builders are the smallest number that
can lose a pool; a second life is what makes the closed flag of the first matter.

- `NoOrphan`: an open pool is the one its client would use.
- `RefusedOnlyLate`: only a call that outlived the grace period meets a closed
  pool; none while the server serves or drains, in either life.
- `ShutdownReleases`: after the shutdown of the first life no pool is open that was
  built before its client was closed. It says nothing of the second life, whose
  shutdown closes nothing (section 9).
- `CallsAndShutdownsEnd`, under `WF(Lifespan)` and `WF(Work(t))`: the event loop
  runs every task that is ready, a request is bounded by its timeout, and the
  grace period ends. Nobody need call, leave or stop the server.

## 8. `Redaction`

A text is a sequence of pieces: numbers, digit by digit with the separator before
them, since the patterns read on across separators; and phrases. A `street` is
two words, the second a type of street: an address is a street with the numbers
before it, so that its house number is a number like any other, which the
patterns for phones and cards join to what stands before it. Every other phrase
is matched wholly by one pattern or by none, and is never part of an address.
`Longest` is a greedy match, `AddressEnd` that of the pattern for addresses,
`Sub` is `re.sub`, from left to right without overlaps. `MaskInput` applies the
patterns of `mask_input` in their order to a message (`Store`, if
`_should_redact`), `ScanOutput` those of `scan_output` to an answer (`Show`):
cards first, found by pattern and checksum, so that a long number that is no card
is walled off from the phone pattern; then emails, phones, secrets.

Run `redaction`: every text of up to three pieces (halves and wholes of a card
number, a phone in one and in two pieces, a short number, every phrase, a secret
with a run of digits in it; spaces, dashes, dots), and of up to five groups of a
card number in fours, short numbers and streets. Both channels, each value of the
option.

- `CardHidden`: a card number that nothing joins to another number shows only its
  last four digits in an answer, however it is grouped. The checksum is stated
  by its table, not by the arithmetic of the code.
- `PhoneHidden`: a phone number that nothing joins to another number is never
  stored, nor shown but for four digits, unless a business caller turned masking
  off.
- `AddressHidden`: a street and its house number are never stored, whatever numbers
  are before the house number and whatever addresses beside it, unless the house
  number makes a phone with what is before it or masking is off.
- `OthersUntouched`: an order id as long as a card stays whole in an answer; a price
  or a quantity does, in a message if no street follows it.

"Nothing joins" is what the properties need and the code gives no more: a space
joins, and a house number is joined too. Section 9 has what becomes of numbers
that stand beside others.

The run's bound is short texts; section 10 proves the four, and `TypeOK`, for
texts of any length and any pieces that `RedactionAssumption` allows.

## 9. Where the code disagrees with what the repository says

| Run | Statement | What happens |
| --- | --- | --- |
| `settle` (`EveryTurnSettles`) | any turn without a `confirm` cancels the proposal (REQ-MUT-007); the first confirmation attempt consumes it (REQ-MUT-006) | a refused, escalated or over-budget turn leaves it pending |
| `delete` (`GoneIsGone`) | DELETE drops the history and any pending proposal | a turn in flight saves them back |
| `deadline` (`EveryCallInDeadline`) | the deadline is bound to the call's own timeout and checked before a call (`turn.py:11`) | the second call reuses the timeout computed before the first |
| `refused` (`BlockIsARefusal`) | a block is a clean refusal: `refusal=true`, `turn.end{status=refused}` (`02-lld.md:368`) | a scope block is answered without the flag and its turn ends `ok` |
| `outcome` (`OutcomeIsLogged`) | the streaming routes stamp the outcome for the access log (`api/middleware.py:82`) | only the path without a stream does |

Seen while modelling, without a run of their own:

*Turns and sessions*

- `max_cost_usd` replaces the ceiling without a `min` (`turn.py:693`), so a caller
  can raise it, which `schemas/chat.py:8-10` and `02-lld.md:206` exclude;
  `CeilingFor` follows the code, and `OvershootBound` leaves such requests out;
- a turn that is cut or raises after a call was billed is never added to
  `total_cost_usd` (`turn.py:540`; `schemas/session.py:112` "cumulative spend
  across every turn");
- sessions nobody asks for again are never dropped (`memory/session.py:83`);
- the expiry of a proposal is checked when it is taken and not when it is executed
  (`turn.py:649`), several events later: with a slow reader a proposal executes
  after it expired, which REQ-MUT-009 (`spec.md:74`) forbids. The gate promises
  only that it is taken in time;
- `structured` may be `None` on a business turn that ends `ok`
  (`schemas/events.py:94`), and `output_schema` is never validated
  (`schemas/chat.py:84`);
- `record_turn` is given a cost of 0.0 (`turn.py:238`), `TurnResult.degraded` is
  never filled, and `allow_actions` is read nowhere (a gap REQ-MUT-012
  acknowledges);
- a response of the gateway that is no `ChatResult` raises a validation error and
  not `LlmCallError` (`clients/llm.py:75`), so it ends the turn with `error`, in
  the second call too, which `turn.py:753` says only costs the structured field.

*Edge and clients*

- the log line of an unhandled exception is written outside
  `RequestContextMiddleware`, after the context was cleared, and carries neither
  request id nor caller (`api/errors.py:398`), although
  `observability/logging.py:9-10` has the id ride on every line of a request;
  `HandleUnhandled` models it;
- `_http` never consults `_closed`: a call that outlives the grace period builds a
  pool after its client was closed, and the clients of an application that is
  served twice are never closed again, against `main.py:139-141`.
  `ShutdownReleases` speaks only of the first life, and of pools built before its
  shutdown was through with their client.

*Text*

- a masked card takes the separator behind it along; a number before a card can
  push it out of the pattern ("12 4111 1111 1111 1111" is shown whole);
- a house number joins what stands before it: a card of 13 to 15 digits or a phone
  followed by " 12 High Street" can make a card-shaped run that fails the
  checksum, and is then shown whole in an answer; in a message a short number and
  a house number can make a phone, which leaves the street without its number;
- `mask_input` has no card pattern: spaced cards are stored as a phone and four
  digits, contiguous ones whole;
- `scan_output` is not idempotent, since masked pieces join what stood apart;
- a secret that holds a run of 10 to 12 digits is broken by the phone pattern and
  then not recognised (`guardrails/pii.py:16`);
- the scan of the answer is unconditional, though `02-lld.md:354` says it is
  configurable for business, and `structured` is not scanned at all;
- with masking off, `schemas/session.py:26` ("Stores the redacted text, never the
  raw input") does not hold.

## 10. Proofs

All of them hold for any constants that satisfy the assumption of the module:
`SessionsAssumption` (finitely many turns, a ceiling that is `None` or positive,
...), `TurnEngineAssumption` (requests of their type, options that their channel
can send), `SseStreamAssumption` (a natural length), `HttpPoolAssumption` (each
task a turn or a readiness request), `HttpEdgeAssumption` (requests and records
of their types, scopes of their channel, a `None` that is no number and no name) or
`RedactionAssumption` (texts of any length made of pieces in which nothing is
hidden yet and a phrase stands between spaces; a `None` that is no Boolean).

`FoldTheorems` holds what several of the proofs need and no prover knows. The
induction theorems of the library take an operator as a parameter and cannot be
instantiated here, but the least element of a set of naturals
(`WFMin`, which takes a relation) can: `Induction` is induction over `Nat` with a
*set* in place of the predicate. From it, the recursive function that
`MapThenFoldSet` and `FoldLeft` choose exists (`RecursionExists`, `FoldExists`), so
that a fold can be unfolded one element at a time, and a sum over a finite set
does not depend on the order in which its elements are taken (`SumTake`,
`SumAdd`, `SumAgrees`), nor one over an interval on the end it starts from
(`SumUpper`, `SumLower`, `SumReversed`). `Downward` is induction from the end of an
interval to its beginning, and `IterationExists` says that a function defined step
by step along one exists.

`Sessions_proofs`:

- `TypeCorrect`: `TypeOK` and `Located` (a turn works on an object of its own
  key), which need each other: the type of what a turn saves rests on the owner
  of the object it holds.
- `GateCorrect`: `GateInv`, the conjunction of `Located`, `OfferedOnce` (a
  pending proposal was offered in that very session, by a turn past admission that
  confirmed nothing), `TakenOnce` (a confirmed proposal is pending nowhere and no
  other turn confirmed it), `ExecutedIsTaken` and `AdmittedTurnSettles`. None of
  `AtMostOnce` and `OnlyByConfirmation` is inductive alone: a state in which two
  turns both hold the same confirmed proposal satisfies them and is one step from
  violating them; `TakenOnce` excludes it, and rests on `OfferedOnce`.
- `ExecutedAtMostOnce`, `ExecutedOnlyByConfirmation` and `AdmissionSettles`
  follow from it.
- `GateImplemented`: `Spec => ImplementsGate`. Under `GateInv` each step of the
  service is one of `MutationGate` or leaves the state and the home of every
  proposal alone. An offer may also kill what was pending, an admission take one
  proposal and never two; the rest can only let go of a proposal that was taken.
  `GateExpires` is what the Session object holds, so the refinement also says that
  no later save, append or turn moves an expiry.
- `EveryTurnIsALife`: each turn lives `TurnLife`. A step of one turn is a stutter
  of the lives of the others, and `Restart` drops each of those that run.

`SessionsLedger_proofs` first sorts every step into four kinds (a turn arrives,
passes the ceiling, saves, or leaves the ledger alone) and then needs one step
per kind:

- `HistoryIsolated`: a history holds only messages of persisted turns of that
  session (`HistoryIsDone`), whose key owns it by `Located`.
- `TotalsAddUp` (`Accounted`): the turns that persisted in a session grow by
  exactly the turn that saves, and by none otherwise, so the sum of their costs
  grows with the total.
- `OvershootBounded`: `SpendBound` is not inductive, since it forgets who has
  passed the check and not yet paid. `SpendCovered` counts them: total plus
  `MaxTurnCost` for every turn that `Passed` stays below the ceiling plus
  `MaxTurnCost` for every turn that may be in flight.
- `PairsKept` (`HistoryPaired`) and `NoTurnIsLost` (`NoLostTurn`): `WithTurnShape`
  says what the two appends and trims of a turn leave, for any window: its two
  messages last and the end of what was before them. Their common invariant is
  `HistoryInv`: the second bounds the length that the first needs.
- `OnlyLiveContinued` is `ContinuesLive`.

`TurnEngine_proofs`: `EngineCorrect`, the conjunction of `TypeOK` and what a turn
has spent (`Spending`), how its first call was bounded (`FirstCall`) and where it
can be (`Paths`). `OvershootBound` is not inductive: it needs that a turn that
asks again was below its ceiling and had made one call. `ChargedExactly`,
`CeilingPassedByOneCall`, `FirstCallInTime` follow, and `LivesTheTurn`
(`LivesTurn`): each block is a step of `TurnLife` or a stutter, since before its
last blocks a turn has neither raised nor been persisted.

The second part of `TurnEngine_proofs` is about the sequence of events itself:

- `TellCorrect`: `TellInv` says that what was told and what is queued, taken
  together, is a lawful sequence so far, and how far along the stages it is at
  each place of the turn. The contract alone is not inductive: it speaks of the
  events told, and a block decides on several that are yet to be told.
- `KeepsTheContract` (`ImplementsContract`): a `Yield` adds an event the contract
  allows after those before it, and every other step is a stutter.
- `StoppedIsInert` (`StoppedTurnIsInert`): a part of `TellInv`, `Stopping`, keeps a
  stopped turn on its short way to the answer, and `Offering` keeps proposals out
  of what it has told and queued.
- `RecordedWasTold` (`RecordedIsTold`): by `TellInv` the answer was among the events
  before the block that persists could run.
- `JsonTellsAll` (`JsonTellsTheTurn`): `CollectedInOrder` unfolds `collect` event
  by event; by induction on how many it took, `Collected` says what each field of
  the result owes to the events so far, and at the end of the turn these are a
  lawful sequence.

`SseStream_proofs`: `StreamCorrect`, an invariant that ties the task, the
adapter and the events received to how far the engine is; `DeliversAll`,
`EnteredOnce`, `NeverCutOff`, and `SilentAfterClose` (nothing is made for a closed
stream) follow.

`HttpPool_proofs`: `PoolInvariant`. `NoOrphan` alone forgets that a pool whose
client closes it is still the client's; `CurrentInUse` says so, `RestIsLate` that
whoever still runs then was left by the grace period, and
`EarlyIsOpenUntilClosed` with `ClosedInOrder` that a shutdown passed both clients.
`NoPoolOrphaned`, `OnlyLateRefused` and `ShutdownClosesPools` follow, for any
number of tasks and lives.

`HttpEdge_proofs`:

- `EdgeCorrect`, an invariant that says the context is the request's own, a
  response carries its request's id, and past the body a request on a turn route
  was read whole. Every action is a step down the stack, a refusal, or one that
  writes the caller or the outcome, and each kind is one lemma. `LoggedAsSeen`,
  `ContextKept` and `BodiesAreWhole` follow.
- `StoreIndexed`: the fold over the key file leaves, of every digest, its last
  record, and no record without a digest; by induction over the file. Hence
  `LookupSpeaks`, who a presented key resolves to.
- `CallerCorrect`: `Admitted` (the key resolves from the key check on, the channel
  is right past the guard, the scope is held where a turn runs) and `Stamped` (the
  name on the request is its caller's, and is there once the caller `passed`). Neither `CallerMayAct` nor `LineNamesTheCaller` is inductive: the
  first looks at a turn that runs and must be decided in two steps before it, the
  second at a line that is written after the last of them. `OnlyCallersAct` and
  `CallersAreNamed` follow.
- `TypesKept`: `TypeOK`, with `Served`: the id of a request is in its range because
  a request is taken only while there is room for one.

`Redaction_proofs`: the state invariant only says which pass made what is seen.
What it implies is an argument about texts:

- `Sub` is computed by a function that recurs from the end of the text
  (`SubComputed`). By induction down the text, what it makes is typed and in the
  order of the original (`SubType`), and if no match crosses the borders of the
  pieces i to j, what becomes of them stands between pieces from before i and from
  behind j (`SubBlock`).
- A run that nothing joins to another number has such borders for every pattern
  (`RunClear`), because a match is a run itself. The greedy match takes it as a
  whole if its digits are in range (`RunHit`); if it has fewer than the pattern
  asks for, no part of it is matched, since a part has no more digits than the
  whole (`DigitsMonotone`, `RunShort`).
- What stands in a text stays through the later passes: a masked card and what was
  walled off hold no number and no secret (`HiddenClear`), a short number is too
  short for a phone, and the passes over phrases change neither digits nor places
  (`Alike`). After the pass for cards a number beside the stretch is as it was or no
  longer a number (`Beside`), so what nothing joined is still alone (`ShownAlone`).
- `LuhnIsCard`: the arithmetic of the code gives the checksum of the table, read
  from the other end, for numbers of up to 16 digits.

- In a message, a house number before a street stays a number through the pass for
  phones, because the stretch it ends is too short for one (`HouseStored`). The
  pattern for addresses then cannot leave it out: every match ends at a street, so
  none ends between a house number and its street, and one begins with it if none
  reaches it (`HouseHidden`).

`RedactionTypeOK`, `RedactionCardHidden`, `RedactionPhoneHidden`,
`RedactionAddressHidden` and `RedactionOthersUntouched` follow, the last from
`ShowsUntouched`: where the pieces of a stretch show one by one, they are all that
was made of it.

The type invariants of `TurnEngine`, `SseStream`, `HttpEdge` and `HttpPool`, and
`GateInv`, are proved and not run; those of `Sessions` and `Redaction` are proved
and run.

Model-checked only: the liveness properties (`TurnsEnd`, `EndsOrIsCut`,
`StopsWithClient`, `CallsAndShutdownsEnd`), which need fairness and `ENABLED`. Every
other property of a passing run is proved. The five statements of section 9 are
violated, so there is nothing to prove.

## 11. What is not modelled, and why

- The phrases of `guardrails/injection.py`, `scope.py` and `escalation.py` are
  independent patterns over text: the models enumerate which of them match and
  say what follows. `boundary.py` wraps the message for the prompt and touches no
  state. Of the text of names, addresses and emails only the place among other
  pieces is kept.
- Prompts, metrics, logging sinks and settings hold no state a property is about;
  settings are the constants of the models.
- Several workers (row 10 of the plan): each has a store of its own, so a turn
  that reaches another worker opens a session; `Restart` is the same loss, seen
  from one worker.
- Redis is not implemented in the code: `build_session_store` returns the
  in-memory store for both values.
- What httpx, FastAPI, Starlette and uvicorn do is assumed where it is marked
  external, and a bill for a call whose client gave up on it is outside `cost`.

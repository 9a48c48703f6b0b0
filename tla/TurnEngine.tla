----------------------------- MODULE TurnEngine -----------------------------
(***************************************************************************)
(* One turn of engine/turn.py, from its request to its last event, run for *)
(* a stream or for a JSON answer (api/v1/chat.py, query.py).               *)
(*                                                                         *)
(* The engine is an async generator.  A block of it, the code between two  *)
(* of its yields or awaits, is one action: it computes the events the code *)
(* yields next into `queue', from which Yield hands them over one by one,  *)
(* and the next block runs when the queue is empty.  A client that leaves  *)
(* stops it between any two events or in a model call.                     *)
(*                                                                         *)
(* What other turns do to the session is the environment here: whether its *)
(* budget is exhausted and whether a confirmation finds its proposal are   *)
(* free choices.  Sessions makes them, and TurnLife ties the two together. *)
(***************************************************************************)
EXTENDS Integers, Sequences, FiniteSets, SequencesExt

CONSTANTS
  Requests,     \* the requests that may arrive, see Request
  Deadline,     \* settings.turn.deadline_ms, in ticks
  TurnCeiling,  \* settings.turn.max_cost_usd
  MaxCallCost,  \* bound: the most one model call costs
  MaxTime,      \* bound: the last tick of the turn
  None          \* Python's None

\* the rules of screen_scope
ScopeRules == {"abuse", "discount_negotiation", "competitor_mention"}

\* What the engine and its routes read of a request: the caller's channel, what
\* the patterns of the input guardrails find in the text, whether it holds the
\* propose trigger, the confirm field, whether there is an output_schema, the
\* options deadline_ms, max_cost_usd and include_trace, and whether the caller
\* asked for a stream.
Request ==
  [channel : {"customer", "business"}, found : SUBSET ({"injection", "human"} \cup ScopeRules),
   trigger : BOOLEAN, confirm : BOOLEAN, schema : BOOLEAN,
   deadline : Nat \cup {None}, maxCost : Nat \cup {None}, trace : BOOLEAN,
   stream : BOOLEAN]

\* what an AnswerEvent is: a plain answer, a refusal, or escalated to a human
Answers == {"answer", "refusal", "escalated"}

\* what `structured' holds: nothing, the answer wrapped in a body, or a body that
\* the second call was asked to shape by the caller's schema
Bodies == {None, "wrapped", "conforming"}

ASSUME TurnEngineAssumption ==
  /\ None \notin Nat \cup Answers \cup {"detail", "wrapped", "conforming"}
  /\ \A r \in Requests :
       /\ r \in Request
       /\ r.channel = "business" => ~r.confirm
       /\ r.channel = "customer" => ~r.schema
       /\ r.maxCost # 0
  /\ Deadline \in Nat /\ TurnCeiling \in Nat \ {0}
  /\ MaxCallCost \in Nat /\ MaxTime \in Nat

VARIABLES
  request,     \* what was asked
  block,       \* the block that runs when the queue is empty
  queue,       \* events the engine is about to yield
  events,      \* events its caller has received
  elapsed,     \* ticks since the turn started
  confirmed,   \* a confirmation took its proposal
  answer,      \* the AnswerEvent it is heading for: is it a refusal, or escalated
  lastStatus,  \* self._last_status
  usage,       \* the Usage of the turn
  structured,  \* the structured body of its answer
  saved,       \* what was added to session.total_cost_usd; None before
  calls,       \* history: each model call, when it started and its timeout
  billed       \* history: what the calls that came back cost

engineVars == <<block, queue, confirmed, answer, lastStatus, usage, structured>>
callVars == <<calls, billed>>
vars == <<request, events, elapsed, engineVars, saved, callVars>>

-----------------------------------------------------------------------------
(* Events *)

Pipeline == <<"guardrails_in", "context", "cache", "classify", "plan", "gather",
              "synthesise", "guardrails_out", "persist">>

E(kind) == [kind |-> kind, of |-> None, status |-> None]
StageE(stage, status) == [kind |-> "stage", of |-> stage, status |-> status]
RouteE(routes) == [E("route") EXCEPT !.status = routes]
AnswerE(a, body) == [kind |-> "answer", of |-> body, status |-> a]
EndE(status) == [E("turn.end") EXCEPT !.status = status]

NoUsage == [calls |-> 0, cost |-> 0]

SkippedStages == <<StageE("context", "skipped"), StageE("cache", "skipped"),
                   StageE("classify", "skipped"), StageE("plan", "skipped"),
                   StageE("gather", "skipped"), RouteE("none"),
                   StageE("synthesise", "skipped")>>
PlannedStages(routes) == <<StageE("context", "ok"), StageE("cache", "skipped"),
                           StageE("classify", "skipped"), StageE("plan", "ok"),
                           RouteE(routes), StageE("gather", "skipped")>>

-----------------------------------------------------------------------------
(* The options that narrow a turn *)

Least(a, b) == IF a < b THEN a ELSE b
DeadlineFor(r) == IF r.deadline = None THEN Deadline ELSE Least(r.deadline, Deadline)
CeilingFor(r)  == IF r.maxCost = None THEN TurnCeiling ELSE r.maxCost

-----------------------------------------------------------------------------
(* The input guardrails *)

\* mutant of Verdict: a wish for a human is looked at first
VerdictHumanFirst(found) ==
  IF "human" \in found THEN "human"
  ELSE IF "injection" \in found THEN "injection"
  ELSE IF found \cap ScopeRules # {} THEN "scope" ELSE "pass"

\* screen_input, then screen_scope, then wants_human
Verdict(found) ==
  IF "injection" \in found THEN "injection"
  ELSE IF found \cap ScopeRules # {} THEN "scope"
  ELSE IF "human" \in found THEN "human" ELSE "pass"

Passes(r) == Verdict(r.found) = "pass"

-----------------------------------------------------------------------------
(* The paths *)

Proposes   == request.trigger /\ ~confirmed
\* mutant of NeedsModel: a confirmation does not replace the model's answer
NeedsModelAnyway == ~Proposes
NeedsModel == ~confirmed /\ ~Proposes

\* mutant of AsksAgain: the ceiling is not looked at
AsksAgainAnyway(c) == request.channel = "business" /\ request.schema
AsksAgain(c) == request.channel = "business" /\ request.schema /\ c < CeilingFor(request)

-----------------------------------------------------------------------------
(* The generator *)

Runs(b) == block = b /\ queue = <<>>

\* the block ends: these events are yielded, then the next block runs
Yields(es, next) == queue' = es /\ block' = next

Yield ==
  /\ queue # <<>>
  /\ events' = Append(events, Head(queue))
  /\ queue' = Tail(queue)
  /\ UNCHANGED <<request, block, elapsed, confirmed, answer, lastStatus, usage, structured,
                 saved, callVars>>

Start ==
  /\ Runs("start")
  /\ Yields(<<E("turn.start")>>, "screen")
  /\ UNCHANGED <<request, events, elapsed, confirmed, answer, lastStatus, usage, structured,
                 saved, callVars>>

Blocked == Verdict(request.found) \in {"injection", "scope"}

Screen ==
  /\ Runs("screen")
  /\ Yields(<<StageE("guardrails_in", IF Blocked THEN "blocked" ELSE "ok")>>, "decide")
  /\ UNCHANGED <<request, events, elapsed, confirmed, answer, lastStatus, usage, structured,
                 saved, callVars>>

\* blocked, or escalated to a human
Refuse ==
  /\ Runs("decide")
  /\ ~Passes(request)
  /\ answer' = (CASE Verdict(request.found) = "injection" -> "refusal"
                   [] Verdict(request.found) = "human" -> "escalated"
                   [] OTHER -> "answer")
  /\ Yields(SkippedStages, "finish")
  /\ UNCHANGED <<request, events, elapsed, confirmed, lastStatus, usage, structured,
                 saved, callVars>>

\* the session's budget is exhausted
OverBudget ==
  /\ Runs("decide")
  /\ Passes(request)
  /\ lastStatus' = "degraded"
  /\ Yields(SkippedStages, "finish")
  /\ UNCHANGED <<request, events, elapsed, confirmed, answer, usage, structured,
                 saved, callVars>>

\* _resolve_confirmation, then the stages up to GATHER
Admit ==
  /\ Runs("decide")
  /\ Passes(request)
  /\ confirmed' \in {FALSE, request.confirm}
  /\ IF request.trigger /\ ~confirmed'
       THEN Yields(PlannedStages("action"), "propose")
       ELSE Yields(PlannedStages("direct"), "synthesise")
  /\ UNCHANGED <<request, events, elapsed, answer, lastStatus, usage, structured, saved, callVars>>

Propose ==
  /\ Runs("propose")
  /\ Yields(<<E("proposal")>>, "synthesise")
  /\ UNCHANGED <<request, events, elapsed, confirmed, answer, lastStatus, usage, structured,
                 saved, callVars>>

\* a confirmed or a proposed mutation is answered without a model call
Canned ==
  /\ Runs("synthesise")
  /\ ~NeedsModel
  /\ Yields(<<StageE("synthesise", "ok")>>, "finish")
  /\ UNCHANGED <<request, events, elapsed, confirmed, answer, lastStatus, usage, structured,
                 saved, callVars>>

Exhausted ==
  /\ Runs("synthesise")
  /\ NeedsModel
  /\ elapsed >= DeadlineFor(request)
  /\ lastStatus' = "degraded"
  /\ Yields(<<StageE("synthesise", "degraded")>>, "finish")
  /\ UNCHANGED <<request, events, elapsed, confirmed, answer, usage, structured, saved, callVars>>

\* mutant of Call: the configured timeout, whatever was already spent
CallUnbounded ==
  /\ Runs("synthesise")
  /\ NeedsModel
  /\ elapsed < DeadlineFor(request)
  /\ calls' = Append(calls, [at |-> elapsed, timeout |-> Deadline])
  /\ Yields(<<>>, "calling")
  /\ UNCHANGED <<request, events, elapsed, confirmed, answer, lastStatus, usage, structured,
                 saved, billed>>

Call ==
  /\ Runs("synthesise")
  /\ NeedsModel
  /\ elapsed < DeadlineFor(request)
  /\ calls' = Append(calls, [at |-> elapsed, timeout |-> DeadlineFor(request) - elapsed])
  /\ Yields(<<>>, "calling")
  /\ UNCHANGED <<request, events, elapsed, confirmed, answer, lastStatus, usage, structured,
                 saved, billed>>

\* LlmCallError: a timeout, no connection, or an answer other than 200
CallFails ==
  /\ Runs("calling")
  /\ lastStatus' = "degraded"
  /\ Yields(<<StageE("synthesise", "degraded")>>, "finish")
  /\ UNCHANGED <<request, events, elapsed, confirmed, answer, usage, structured, saved, callVars>>

\* the gateway answers, and a business turn with a schema and money left asks again
CallReturns(c) ==
  /\ Runs("calling")
  /\ usage' = [calls |-> 1, cost |-> c]
  /\ billed' = billed + c
  /\ IF AsksAgain(c)
       THEN /\ calls' = Append(calls, [at |-> elapsed, timeout |-> Last(calls).timeout])
            /\ Yields(<<>>, "structuring")
            /\ UNCHANGED structured
       ELSE /\ structured' = IF request.channel = "business" THEN "wrapped" ELSE None
            /\ Yields(<<StageE("synthesise", "ok")>>, "finish")
            /\ UNCHANGED calls
  /\ UNCHANGED <<request, events, elapsed, confirmed, answer, lastStatus, saved>>

\* mutant of StructuredReturns: the second call's usage replaces the first's
StructuredReplaces(c) ==
  /\ Runs("structuring")
  /\ usage' = [calls |-> 1, cost |-> c]
  /\ billed' = billed + c
  /\ structured' \in {None, "conforming"}
  /\ Yields(<<StageE("synthesise", "ok")>>, "finish")
  /\ UNCHANGED <<request, events, elapsed, confirmed, answer, lastStatus, saved, calls>>

\* the second call comes back: its content is a body only if it is a JSON object
StructuredReturns(c) ==
  /\ Runs("structuring")
  /\ usage' = [calls |-> usage.calls + 1, cost |-> usage.cost + c]
  /\ billed' = billed + c
  /\ structured' \in {None, "conforming"}
  /\ Yields(<<StageE("synthesise", "ok")>>, "finish")
  /\ UNCHANGED <<request, events, elapsed, confirmed, answer, lastStatus, saved, calls>>

StructuredFails ==
  /\ Runs("structuring")
  /\ Yields(<<StageE("synthesise", "ok")>>, "finish")
  /\ UNCHANGED <<request, events, elapsed, confirmed, answer, lastStatus, usage, structured,
                 saved, callVars>>

\* anything but LlmCallError: a prompt pinned to no version, a body that is no
\* ChatResult, a closed pool
Raise ==
  /\ Runs("calling") \/ Runs("structuring")
  /\ lastStatus' = "error"
  /\ Yields(<<E("error")>>, "end")
  /\ UNCHANGED <<request, events, elapsed, confirmed, answer, usage, structured, saved, callVars>>

\* mutant of Finish: the answer leaves before the output guardrail reports
FinishUnscanned ==
  /\ Runs("finish")
  /\ Yields(<<AnswerE(answer, structured), StageE("guardrails_out", "ok")>>, "persist")
  /\ UNCHANGED <<request, events, elapsed, confirmed, answer, lastStatus, usage, structured,
                 saved, callVars>>

\* mutant of Finish: the turn is recorded before its answer is handed over
FinishPersists ==
  /\ Runs("finish")
  /\ saved' = usage.cost
  /\ Yields(<<StageE("guardrails_out", "ok"), AnswerE(answer, structured),
              StageE("persist", "ok"), E("usage")>>, "end")
  /\ UNCHANGED <<request, events, elapsed, confirmed, answer, lastStatus, usage,
                 structured, callVars>>

Finish ==
  /\ Runs("finish")
  /\ Yields(<<StageE("guardrails_out", "ok"), AnswerE(answer, structured)>>, "persist")
  /\ UNCHANGED <<request, events, elapsed, confirmed, answer, lastStatus, usage, structured,
                 saved, callVars>>

\* mutant of Persist: only a turn that cost something is persisted
PersistCostly ==
  /\ Runs("persist")
  /\ usage.cost > 0
  /\ saved' = usage.cost
  /\ Yields(<<StageE("persist", "ok"), E("usage")>>, "end")
  /\ UNCHANGED <<request, events, elapsed, confirmed, answer, lastStatus, usage, structured,
                 callVars>>

Persist ==
  /\ Runs("persist")
  /\ saved' = usage.cost
  /\ Yields(<<StageE("persist", "ok"), E("usage")>>, "end")
  /\ UNCHANGED <<request, events, elapsed, confirmed, answer, lastStatus, usage, structured,
                 callVars>>

\* run()'s status: a refusal it forwarded, else what the pipeline left
Status ==
  IF lastStatus = "error" THEN "error"
  ELSE IF \E e \in Range(events) : e.kind = "answer" /\ e.status = "refusal" THEN "refused"
  ELSE lastStatus

End ==
  /\ Runs("end")
  /\ Yields(<<EndE(Status)>>, "done")
  /\ UNCHANGED <<request, events, elapsed, confirmed, answer, lastStatus, usage, structured,
                 saved, callVars>>

\* the client of a stream leaves: the turn is cancelled where it is suspended
Disconnect ==
  /\ request.stream
  /\ block \notin {"start", "cut"} /\ ~Runs("done")
  /\ Yields(<<>>, "cut")
  /\ UNCHANGED <<request, events, elapsed, confirmed, answer, lastStatus, usage, structured,
                 saved, callVars>>

Tick ==
  /\ elapsed < MaxTime
  /\ block # "cut" /\ ~Runs("done")
  /\ elapsed' = elapsed + 1
  /\ UNCHANGED <<request, events, engineVars, saved, callVars>>

-----------------------------------------------------------------------------
(* collect: the JSON envelope of a caller that does not watch the events *)

EmptyResult ==
  [started |-> FALSE, trace |-> <<>>, routes |-> "none", proposal |-> FALSE, answer |-> None,
   structured |-> None, usage |-> NoUsage, status |-> "ok"]

\* mutant of Collect: the detail of an error is not taken for the answer
CollectNoDetail(result, e) ==
  CASE e.kind = "turn.start" -> [result EXCEPT !.started = TRUE]
    [] e.kind = "stage"    -> [result EXCEPT !.trace = Append(@, e)]
    [] e.kind = "route"    -> [result EXCEPT !.routes = e.status]
    [] e.kind = "proposal" -> [result EXCEPT !.proposal = TRUE]
    [] e.kind = "answer"   -> [result EXCEPT !.answer = e.status, !.structured = e.of]
    [] e.kind = "usage"    -> [result EXCEPT !.usage = usage]
    [] e.kind = "turn.end" -> [result EXCEPT !.status = e.status]
    [] OTHER -> result

\* turn.start tells the ids.  The engine yields no citation and grounds no
\* answer; an escalated answer has its reference with it.
Collect(result, e) ==
  CASE e.kind = "turn.start" -> [result EXCEPT !.started = TRUE]
    [] e.kind = "stage"    -> [result EXCEPT !.trace = Append(@, e)]
    [] e.kind = "route"    -> [result EXCEPT !.routes = e.status]
    [] e.kind = "proposal" -> [result EXCEPT !.proposal = TRUE]
    [] e.kind = "answer"   -> [result EXCEPT !.answer = e.status, !.structured = e.of]
    [] e.kind = "usage"    -> [result EXCEPT !.usage = usage]
    [] e.kind = "error"    -> [result EXCEPT !.answer = IF @ = None THEN "detail" ELSE @]
    [] e.kind = "turn.end" -> [result EXCEPT !.status = e.status]

\* the trace is put in the result at the end, and only if it was asked for
Folded == FoldLeft(Collect, EmptyResult, events)
TurnResult == IF request.trace THEN Folded ELSE [Folded EXCEPT !.trace = None]

-----------------------------------------------------------------------------
Init ==
  /\ request \in Requests
  /\ block = "start"
  /\ queue = <<>>
  /\ events = <<>>
  /\ elapsed = 0
  /\ confirmed = FALSE
  /\ answer = "answer"
  /\ lastStatus = "ok"
  /\ usage = NoUsage
  /\ structured = None
  /\ saved = None
  /\ calls = <<>>
  /\ billed = 0

Work ==
  \/ Yield \/ Start \/ Screen \/ Refuse \/ OverBudget \/ Admit \/ Propose
  \/ Canned \/ Exhausted \/ Call \/ CallFails \/ Raise \/ StructuredFails
  \/ \E c \in 0..MaxCallCost : CallReturns(c) \/ StructuredReturns(c)
  \/ Finish \/ Persist \/ End

Next == Work \/ Disconnect \/ Tick

Spec == Init /\ [][Next]_vars

\* The event loop resumes the generator whenever its caller takes an event or
\* its model call ends, and the call is bounded by its timeout.
FairSpec == Spec /\ WF_vars(Work)

-----------------------------------------------------------------------------
(* What must hold *)

Contract == INSTANCE EventContract

TypeOK ==
  /\ request \in Requests
  /\ block \in {"start", "screen", "decide", "propose", "synthesise", "calling",
               "structuring", "finish", "persist", "end", "done", "cut"}
  /\ queue \in Seq(Contract!Event) /\ events \in Seq(Contract!Event)
  /\ elapsed \in 0..MaxTime
  /\ confirmed \in BOOLEAN
  /\ answer \in Answers
  /\ lastStatus \in {"ok", "degraded", "error"}
  /\ usage \in [calls : 0..2, cost : 0..(2 * MaxCallCost)]
  /\ structured \in Bodies
  /\ saved \in 0..(2 * MaxCallCost) \cup {None}
  /\ calls \in Seq([at : 0..MaxTime, timeout : 0..Deadline])
  /\ billed \in 0..(2 * MaxCallCost)

\* The events of every turn, whichever way it goes, keep the client's contract
\* (docs/02-lld.md section 4).
ImplementsContract == Contract!Spec

\* The turn is one that the session store knows: LifePc says where Sessions
\* would see it.
LifePc ==
  IF saved # None THEN "done"
  ELSE IF block = "cut" \/ lastStatus = "error" THEN "dropped"
  ELSE CASE block = "start" -> "idle"
         [] block \in {"screen", "decide"} -> "started"
         [] block = "propose" \/ (block = "synthesise" /\ ~Proposes) -> "planned"
         [] block \in {"calling", "structuring"} -> block
         [] OTHER -> "answering"

Life == INSTANCE TurnLife WITH
  pc <- LifePc, took <- confirmed, cost <- billed, MaxCost <- 2 * MaxCallCost
LivesTurn == Life!Spec

\* What is charged to the session, and what the usage event tells the client,
\* is what the gateway billed for the calls that came back, both of them.
ChargedIsBilled == saved # None => saved = billed /\ usage.cost = billed

\* A turn's spend passes its ceiling by less than the call that crossed it: no
\* second call is made once the first has reached the ceiling.  The ceiling is
\* the configured one or a lower one of the caller's; that max_cost_usd also
\* raises it is told in README section 9.
OvershootBound ==
  Len(calls) = 2 /\ CeilingFor(request) <= TurnCeiling
    => billed < CeilingFor(request) + MaxCallCost

\* The first model call is bounded by what is left of the turn's deadline, the
\* caller's or the configured one, however long the earlier stages took.
FirstCallInDeadline ==
  calls # <<>> =>
    LET last == calls[1].at + calls[1].timeout
    IN  last <= Deadline /\ (request.deadline # None => last <= request.deadline)

\* A turn whose text a guardrail objects to asks no model, takes no
\* confirmation, offers nothing and costs nothing, and an injection in it is
\* refused whatever else it holds (_pipeline, _skip_to_answer).
StoppedTurnIsInert ==
  request.found # {} =>
    /\ calls = <<>> /\ ~confirmed /\ saved \in {0, None}
    /\ E("proposal") \notin Range(queue \o events)
    /\ Runs("done") /\ "injection" \in request.found => EndE("refused") \in Range(events)

\* What is recorded in the session's history was told to the caller first: a
\* turn cut at any point may have told an answer it did not record, and never
\* the other way round (_finish_with_answer).
RecordedIsTold ==
  saved # None => \E i \in DOMAIN events : events[i].kind = "answer"

StagesOf(trace) == [i \in DOMAIN trace |-> trace[i].of]

\* A JSON caller learns what a stream would have told (collect): an answer or
\* the detail of the error; a refusal as one; no route for a stopped turn; a
\* proposal with its route and an answer that is not a refusal; what was
\* charged; a body exactly where the business channel promises one; and, if it
\* asked for the trace, every stage in order unless an error cut them off, and
\* no degraded stage of a turn that calls itself well.
JsonTellsTheTurn ==
  Runs("done") /\ ~request.stream =>
    LET result == TurnResult
        business == request.channel = "business"
    IN  /\ result.started /\ result.answer # None
        /\ (result.status = "error") <=> (result.answer = "detail")
        /\ (result.status = "refused") <=> (result.answer = "refusal")
        /\ request.found # {} => result.routes = "none"
        /\ result.proposal =>
             result.routes = "action" /\ result.answer = "answer" /\ result.usage = NoUsage
        /\ result.usage.calls > 0 => result.routes = "direct"
        /\ saved # None => result.usage.cost = saved
        /\ result.structured # None => business /\ result.usage.calls > 0
        /\ result.structured = "conforming" => request.schema /\ result.usage.calls = 2
        /\ business /\ ~request.schema /\ result.usage.calls > 0
             => result.structured = "wrapped"
        /\ IF ~request.trace THEN result.trace = None
           ELSE /\ IsPrefix(StagesOf(result.trace), Pipeline)
                /\ result.status # "error" => StagesOf(result.trace) = Pipeline
                /\ (\E i \in DOMAIN result.trace : result.trace[i].status = "degraded")
                     => result.status \in {"degraded", "error"}

\* Every turn runs to turn.end, unless the client of a stream leaves.
EndsOrIsCut ==
  <>(block = "cut" \/ (Runs("done") /\ Last(events).kind = "turn.end"))

-----------------------------------------------------------------------------
(* What the repository says and the code does not do *)

\* "a turn-level deadline [...] bound to that call's own timeout" (turn.py).
EveryCallInDeadline ==
  \A i \in DOMAIN calls : calls[i].at + calls[i].timeout <= DeadlineFor(request)

\* "A block is a clean refusal: stage{status=blocked}, an answer with
\* refusal=true, and turn.end{status=refused}" (docs/02-lld.md section 9).
BlockIsARefusal ==
  Runs("done") /\ Blocked =>
    /\ EndE("refused") \in Range(events)
    /\ \E i \in DOMAIN events : events[i].kind = "answer" /\ events[i].status = "refusal"

=============================================================================

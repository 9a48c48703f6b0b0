-------------------------- MODULE TurnEngine_proofs --------------------------
(***************************************************************************)
(* Theorems about TurnEngine, for any requests, deadline, ceiling and      *)
(* prices: what a turn is charged, how long it may call, that it is a turn *)
(* the session store knows, and, from `What a turn tells' on, that its     *)
(* events keep the contract of EventContract one after the other, that a   *)
(* turn which a guardrail stops is inert, that what is recorded was told,  *)
(* and that the JSON envelope holds what the events told.                  *)
(***************************************************************************)
EXTENDS TurnEngine, FoldTheorems

Early == {"start", "screen", "decide", "propose", "synthesise"}
Late  == {"end", "done", "cut"}

\* Before the first call nothing was spent; after it, as much as it cost.
Spending ==
  /\ usage.cost = billed
  /\ saved # None => saved = billed /\ block \in Late
  /\ Len(calls) <= 2
  /\ block \in Early => calls = <<>> /\ usage = NoUsage
  /\ block = "calling" => Len(calls) = 1 /\ usage = NoUsage
  /\ block = "structuring" =>
       /\ Len(calls) = 2 /\ usage.calls = 1
       /\ billed <= MaxCallCost /\ billed < CeilingFor(request)
  /\ OvershootBound

\* The first call was given what was left of the deadline when it was made.
FirstCall ==
  calls # <<>> => calls[1].at + calls[1].timeout = DeadlineFor(request)

\* Only a turn that is over raised, and only one that proposes offers.
Paths ==
  /\ lastStatus = "error" => block \in Late
  /\ block = "propose" => Proposes

EngineInv == TypeOK /\ Spending /\ FirstCall /\ Paths

-----------------------------------------------------------------------------
(* The events are of the declared type                                     *)

StageNames == {"guardrails_in", "context", "cache", "classify", "plan", "gather",
               "synthesise", "guardrails_out", "persist"}
StageStatuses == {"ok", "skipped", "degraded", "blocked"}

LEMMA StagesNamed == Contract!Stages = StageNames
BY DEF Contract!Stages, Pipeline, StageNames

LEMMA EventTypes ==
  /\ \A s \in StageNames, st \in StageStatuses : StageE(s, st) \in Contract!Event
  /\ \A k \in {"turn.start", "proposal", "usage", "error"} : E(k) \in Contract!Event
  /\ \A routes \in {"none", "direct", "action"} : RouteE(routes) \in Contract!Event
  /\ \A a \in {"answer", "refusal", "escalated"}, body \in Bodies :
       AnswerE(a, body) \in Contract!Event
  /\ \A st \in {"ok", "refused", "degraded", "error"} : EndE(st) \in Contract!Event
BY StagesNamed DEF Contract!Event, StageE, E, RouteE, AnswerE, EndE, StageStatuses, Bodies

LEMMA SkippedType == SkippedStages \in Seq(Contract!Event)
BY EventTypes DEF SkippedStages, StageNames, StageStatuses

LEMMA PlannedType ==
  ASSUME NEW routes \in {"none", "direct", "action"}
  PROVE  PlannedStages(routes) \in Seq(Contract!Event)
BY EventTypes DEF PlannedStages, StageNames, StageStatuses

\* The options narrow the limits of a turn to numbers.
LEMMA Limits ==
  ASSUME TypeOK
  PROVE  /\ DeadlineFor(request) \in Nat /\ DeadlineFor(request) <= Deadline
         /\ request.deadline # None => DeadlineFor(request) <= request.deadline
         /\ CeilingFor(request) \in Nat \ {0}
<1>1. request \in Request /\ request.maxCost # 0
  BY TurnEngineAssumption DEF TypeOK
<1>2. request.deadline \in Nat \cup {None} /\ request.maxCost \in Nat \cup {None}
  BY <1>1 DEF Request
<1>3. QED
  BY <1>1, <1>2, TurnEngineAssumption DEF DeadlineFor, CeilingFor, Least

-----------------------------------------------------------------------------
(* The inductive invariant                                                 *)

LEMMA EngineInit == Init => EngineInv
<1> SUFFICES ASSUME Init PROVE EngineInv
  OBVIOUS
<1>1. TypeOK
  <2>1. 0 \in 0..MaxTime /\ 0 \in 0..(2 * MaxCallCost)  BY TurnEngineAssumption
  <2>2. NoUsage \in [calls : 0..2, cost : 0..(2 * MaxCallCost)]  BY <2>1 DEF NoUsage
  <2>3. <<>> \in Seq(Contract!Event) /\ <<>> \in Seq([at : 0..MaxTime, timeout : 0..Deadline])
    OBVIOUS
  <2>4. QED  BY <2>1, <2>2, <2>3 DEF Init, TypeOK, Answers, Bodies
<1>2. Spending  BY DEF Init, Spending, OvershootBound, NoUsage, Early, Late
<1>3. FirstCall /\ Paths  BY DEF Init, FirstCall, Paths
<1>4. QED  BY <1>1, <1>2, <1>3 DEF EngineInv

LEMMA YieldStep == ASSUME EngineInv, Yield PROVE EngineInv'
<1>1. queue \in Seq(Contract!Event) /\ queue # <<>> /\ events \in Seq(Contract!Event)
  BY DEF EngineInv, TypeOK, Yield
<1>2. Head(queue) \in Contract!Event /\ Tail(queue) \in Seq(Contract!Event)
  BY <1>1
<1>3. events' \in Seq(Contract!Event) /\ queue' \in Seq(Contract!Event)
  BY <1>1, <1>2 DEF Yield
<1>4. UNCHANGED <<request, block, elapsed, confirmed, answer, lastStatus, usage, structured, saved, calls, billed>>
  BY DEF Yield, callVars
<1>5. TypeOK'  BY <1>3, <1>4 DEF EngineInv, TypeOK
<1>6. Spending'
  BY <1>4 DEF EngineInv, Spending, OvershootBound, CeilingFor
<1>7. FirstCall' /\ Paths'
  BY <1>4 DEF EngineInv, FirstCall, Paths, DeadlineFor, Proposes
<1>8. QED  BY <1>5, <1>6, <1>7 DEF EngineInv

\* The events a block of the engine yields have the type.
LEMMA EventBlocks ==
  ASSUME EngineInv
  PROVE  /\ Start => queue' \in Seq(Contract!Event)
         /\ Screen => queue' \in Seq(Contract!Event)
         /\ Refuse \/ OverBudget => queue' \in Seq(Contract!Event)
         /\ Admit \/ Propose \/ Canned => queue' \in Seq(Contract!Event)
         /\ Exhausted \/ CallFails \/ Raise \/ StructuredFails => queue' \in Seq(Contract!Event)
         /\ Finish \/ Persist => queue' \in Seq(Contract!Event)
         /\ End => queue' \in Seq(Contract!Event)
<1> USE EventTypes DEF StageNames, StageStatuses, Yields
<1>1. Start => queue' \in Seq(Contract!Event)  BY DEF Start
<1>2. Screen => queue' \in Seq(Contract!Event)  BY DEF Screen
<1>3. Refuse \/ OverBudget => queue' \in Seq(Contract!Event)
  BY SkippedType DEF Refuse, OverBudget
<1>4. Admit \/ Propose \/ Canned => queue' \in Seq(Contract!Event)
  <2>1. <<E("proposal")>> \in Seq(Contract!Event) /\ <<StageE("synthesise", "ok")>> \in Seq(Contract!Event)
    OBVIOUS
  <2>2. QED  BY PlannedType, <2>1 DEF Admit, Propose, Canned
<1>5. Exhausted \/ CallFails \/ Raise \/ StructuredFails => queue' \in Seq(Contract!Event)
  <2>1. /\ <<E("error")>> \in Seq(Contract!Event) /\ <<StageE("synthesise", "ok")>> \in Seq(Contract!Event)
        /\ <<StageE("synthesise", "degraded")>> \in Seq(Contract!Event)
    OBVIOUS
  <2>2. QED  BY <2>1 DEF Exhausted, CallFails, Raise, StructuredFails
<1>6. Finish \/ Persist => queue' \in Seq(Contract!Event)
  <2>1. AnswerE(answer, structured) \in Contract!Event  BY DEF EngineInv, TypeOK, Answers
  <2>2. /\ <<StageE("guardrails_out", "ok"), AnswerE(answer, structured)>> \in Seq(Contract!Event)
        /\ <<StageE("persist", "ok"), E("usage")>> \in Seq(Contract!Event)
    BY <2>1
  <2>3. QED  BY <2>2 DEF Finish, Persist
<1>7. End => queue' \in Seq(Contract!Event)
  <2>1. Status \in {"ok", "refused", "degraded", "error"}
    BY DEF EngineInv, TypeOK, Status
  <2>2. QED  BY <2>1 DEF End
<1>8. QED  BY <1>1, <1>2, <1>3, <1>4, <1>5, <1>6, <1>7

\* The blocks that make no call.
LEMMA BlockStep ==
  ASSUME EngineInv,
         \/ Start \/ Screen \/ Refuse \/ OverBudget \/ Admit \/ Propose \/ Canned
         \/ Exhausted \/ CallFails \/ StructuredFails \/ Raise \/ Finish \/ End
  PROVE  EngineInv'
<1>1. /\ queue' \in Seq(Contract!Event)
      /\ UNCHANGED <<request, events, elapsed, usage, structured, saved, calls, billed>>
  BY EventBlocks
  DEF Start, Screen, Refuse, OverBudget, Admit, Propose, Canned, Exhausted, CallFails,
      StructuredFails, Raise, Finish, End, callVars
<1>2. /\ block' \in {"screen", "decide", "propose", "synthesise", "finish", "persist",
                    "end", "done"}
      /\ confirmed' \in BOOLEAN
      /\ answer' \in {"answer", "refusal", "escalated"}
      /\ lastStatus' \in {"ok", "degraded", "error"}
  <2>1. request.confirm \in BOOLEAN
    BY TurnEngineAssumption DEF EngineInv, TypeOK, Request
  <2>2. CASE Start \/ Screen \/ Propose \/ Canned \/ StructuredFails \/ Finish \/ End
    BY <2>2 DEF EngineInv, TypeOK, Answers, Start, Screen, Propose, Canned, StructuredFails, Finish, End,
                Yields
  <2>3. CASE Refuse  BY <2>3 DEF EngineInv, TypeOK, Refuse, Yields
  <2>4. CASE OverBudget \/ Exhausted \/ CallFails \/ Raise
    BY <2>4 DEF EngineInv, TypeOK, Answers, OverBudget, Exhausted, CallFails, Raise, Yields
  <2>5. CASE Admit  BY <2>1, <2>5 DEF EngineInv, TypeOK, Answers, Admit, Yields
  <2>6. QED  BY <2>2, <2>3, <2>4, <2>5
<1>3. TypeOK'  BY <1>1, <1>2 DEF EngineInv, TypeOK, Answers
<1>4. /\ block' \in Early => block \in Early
      /\ block' \notin {"calling", "structuring"}
      /\ block' \notin Late => block \notin Late
      /\ block \in Late => block' \in Late
  BY DEF Start, Screen, Refuse, OverBudget, Admit, Propose, Canned, Exhausted, CallFails,
         StructuredFails, Raise, Finish, End, Yields, Runs, Early, Late
<1>5. Spending'
  BY <1>1, <1>4 DEF EngineInv, Spending, OvershootBound, CeilingFor
<1>6. FirstCall'  BY <1>1 DEF EngineInv, FirstCall, DeadlineFor
<1>7. Paths'
  BY <1>1 DEF EngineInv, Paths, Start, Screen, Refuse, OverBudget, Admit, Propose, Canned,
              Exhausted, CallFails, StructuredFails, Raise, Finish, End, Yields, Runs, Late,
              Proposes
<1>8. QED  BY <1>3, <1>5, <1>6, <1>7 DEF EngineInv

CallRecord == [at : 0..MaxTime, timeout : 0..Deadline]

LEMMA CallStep == ASSUME EngineInv, Call PROVE EngineInv'
<1> DEFINE c == [at |-> elapsed, timeout |-> DeadlineFor(request) - elapsed]
<1>1. /\ block = "synthesise" /\ block' = "calling" /\ queue' = <<>>
      /\ elapsed < DeadlineFor(request) /\ calls' = Append(calls, c)
      /\ UNCHANGED <<request, events, elapsed, confirmed, answer, lastStatus, usage, structured, saved, billed>>
  BY DEF Call, Runs, Yields
<1>2. calls = <<>> /\ usage = NoUsage  BY <1>1 DEF EngineInv, Spending, Early
<1>3. elapsed \in 0..MaxTime /\ DeadlineFor(request) \in Nat /\ DeadlineFor(request) <= Deadline
  BY Limits DEF EngineInv, TypeOK
<1>4. c \in CallRecord  BY <1>1, <1>3, TurnEngineAssumption DEF CallRecord
<1>5. calls' = <<c>>  BY <1>1, <1>2
<1>6. c.at + c.timeout = DeadlineFor(request)  BY <1>1, <1>3
<1> HIDE DEF c
<1>7. calls' \in Seq(CallRecord) /\ Len(calls') = 1 /\ calls'[1] = c  BY <1>4, <1>5
<1>8. TypeOK'  BY <1>1, <1>7 DEF EngineInv, TypeOK, CallRecord
<1>9. Spending'
  BY <1>1, <1>2, <1>7 DEF EngineInv, Spending, OvershootBound, Early, Late
<1>10. FirstCall'  BY <1>1, <1>6, <1>7 DEF FirstCall, DeadlineFor
<1>11. Paths'  BY <1>1 DEF EngineInv, Paths, Late
<1>12. QED  BY <1>8, <1>9, <1>10, <1>11 DEF EngineInv

LEMMA CallReturnsStep ==
  ASSUME EngineInv, NEW c \in 0..MaxCallCost, CallReturns(c) PROVE EngineInv'
<1>1. /\ block = "calling" /\ queue' \in Seq(Contract!Event)
      /\ usage' = [calls |-> 1, cost |-> c] /\ billed' = billed + c
      /\ UNCHANGED <<request, events, elapsed, confirmed, answer, lastStatus, saved>>
  <2>1. <<StageE("synthesise", "ok")>> \in Seq(Contract!Event)
    BY EventTypes DEF StageNames, StageStatuses
  <2>2. <<>> \in Seq(Contract!Event)  OBVIOUS
  <2>3. queue' \in {<<>>, <<StageE("synthesise", "ok")>>}  BY DEF CallReturns, Yields
  <2>4. QED  BY <2>1, <2>2, <2>3 DEF CallReturns, Runs
<1>2. /\ Len(calls) = 1 /\ usage = NoUsage /\ billed = 0 /\ saved = None
      /\ calls \in Seq(CallRecord)
  BY <1>1 DEF EngineInv, Spending, NoUsage, TypeOK, CallRecord, Late
<1>3. billed' = c /\ c \in Nat /\ MaxCallCost \in Nat
  BY <1>1, <1>2, TurnEngineAssumption
<1>7. structured' \in Bodies
  BY DEF CallReturns, EngineInv, TypeOK, Bodies
<1>4. CASE AsksAgain(c)
  <2> DEFINE again == [at |-> elapsed, timeout |-> Last(calls).timeout]
  <2>1. calls' = Append(calls, again) /\ block' = "structuring"
    BY <1>4 DEF CallReturns, Yields
  <2>2. Last(calls) \in CallRecord  BY <1>2 DEF Last
  <2>3. again \in CallRecord  BY <2>2 DEF CallRecord, EngineInv, TypeOK
  <2> HIDE DEF again
  <2>4. calls' \in Seq(CallRecord) /\ Len(calls') = 2 /\ calls'[1] = calls[1]
    BY <1>2, <2>1, <2>3
  <2>5. c < CeilingFor(request) /\ CeilingFor(request) \in Nat
    BY <1>4, Limits DEF AsksAgain, EngineInv
  <2>6. TypeOK'
    BY <1>1, <1>3, <1>7, <2>1, <2>4 DEF EngineInv, TypeOK, CallRecord
  <2>7. CeilingFor(request)' = CeilingFor(request) /\ DeadlineFor(request)' = DeadlineFor(request)
    BY <1>1 DEF CeilingFor, DeadlineFor
  <2>8. Spending'
    BY <1>1, <1>2, <1>3, <2>1, <2>4, <2>5, <2>7 DEF Spending, OvershootBound, Early
  <2>9. FirstCall'
    <3>1. calls # <<>>
      <4>1. Len(<<>>) = 0  OBVIOUS
      <4>2. Len(calls) = 1  BY <1>2
      <4>3. QED  BY <4>1, <4>2
    <3>2. calls[1].at + calls[1].timeout = DeadlineFor(request)
      BY <3>1 DEF EngineInv, FirstCall
    <3>3. QED  BY <3>2, <2>4, <2>7 DEF FirstCall
  <2>10. Paths'  BY <1>1, <2>1 DEF EngineInv, Paths, Late
  <2>11. QED  BY <2>6, <2>8, <2>9, <2>10 DEF EngineInv
<1>5. CASE ~AsksAgain(c)
  <2>1. calls' = calls /\ block' = "finish"  BY <1>5 DEF CallReturns, Yields
  <2>2. TypeOK'  BY <1>1, <1>3, <1>7, <2>1 DEF EngineInv, TypeOK
  <2>3. usage'.cost = billed' /\ saved' = None  BY <1>1, <1>2, <1>3
  <2>8. Len(calls') = 1  BY <1>2, <2>1
  <2>9. Spending'
    BY <2>1, <2>3, <2>8 DEF Spending, OvershootBound, Early
  <2>4. FirstCall'  BY <1>1, <2>1 DEF EngineInv, FirstCall, DeadlineFor
  <2>5. Paths'  BY <1>1, <2>1 DEF EngineInv, Paths, Late
  <2>6. QED  BY <2>2, <2>9, <2>4, <2>5 DEF EngineInv
<1>6. QED  BY <1>4, <1>5

LEMMA StructuredStep ==
  ASSUME EngineInv, NEW c \in 0..MaxCallCost, StructuredReturns(c) PROVE EngineInv'
<1>1. /\ block = "structuring" /\ block' = "finish" /\ queue' \in Seq(Contract!Event)
      /\ usage' = [calls |-> usage.calls + 1, cost |-> usage.cost + c] /\ billed' = billed + c
      /\ UNCHANGED <<request, events, elapsed, confirmed, answer, lastStatus, saved, calls>>
  BY EventTypes DEF StructuredReturns, Runs, Yields, StageNames, StageStatuses
<1>2. /\ Len(calls) = 2 /\ usage.calls = 1 /\ usage.cost = billed /\ saved = None
      /\ billed <= MaxCallCost /\ billed < CeilingFor(request) /\ billed \in Nat
      /\ CeilingFor(request) \in Nat
  BY <1>1, Limits, TurnEngineAssumption DEF EngineInv, Spending, TypeOK, Late
<1>3. /\ usage' = [calls |-> 2, cost |-> billed + c] /\ billed + c \in 0..(2 * MaxCallCost)
      /\ billed + c < CeilingFor(request) + MaxCallCost
  BY <1>1, <1>2, TurnEngineAssumption
<1>9. structured' \in Bodies  BY DEF StructuredReturns, Bodies
<1>4. TypeOK'  BY <1>1, <1>3, <1>9 DEF EngineInv, TypeOK
<1>5. CeilingFor(request)' = CeilingFor(request)  BY <1>1 DEF CeilingFor
<1>6. Spending'
  BY <1>1, <1>2, <1>3, <1>5 DEF Spending, OvershootBound, Early
<1>7. FirstCall' /\ Paths'
  BY <1>1 DEF EngineInv, FirstCall, DeadlineFor, Paths, Late
<1>8. QED  BY <1>4, <1>6, <1>7 DEF EngineInv

LEMMA PersistStep == ASSUME EngineInv, Persist PROVE EngineInv'
<1>1. /\ block = "persist" /\ block' = "end" /\ saved' = usage.cost
      /\ UNCHANGED <<request, events, elapsed, confirmed, answer, lastStatus, usage, structured, calls, billed>>
  BY DEF Persist, Runs, Yields, callVars
<1>2. queue' \in Seq(Contract!Event)  BY EventBlocks
<1>3. TypeOK'  BY <1>1, <1>2 DEF EngineInv, TypeOK
<1>4. Spending'
  BY <1>1 DEF EngineInv, Spending, OvershootBound, CeilingFor, Early, Late
<1>5. FirstCall' /\ Paths'
  BY <1>1 DEF EngineInv, FirstCall, DeadlineFor, Paths, Late
<1>6. QED  BY <1>3, <1>4, <1>5 DEF EngineInv

\* A client that leaves, and time.
LEMMA OutsideStep == ASSUME EngineInv, Disconnect \/ Tick \/ UNCHANGED vars PROVE EngineInv'
<1>1. CASE Disconnect
  <2>1. /\ block' = "cut" /\ queue' = <<>>
        /\ UNCHANGED <<request, events, elapsed, confirmed, answer, lastStatus, usage, structured, saved,
                       calls, billed>>
    BY <1>1 DEF Disconnect, Yields, callVars
  <2>2. TypeOK'  BY <2>1 DEF EngineInv, TypeOK
  <2>3. Spending'
    BY <2>1 DEF EngineInv, Spending, OvershootBound, CeilingFor, Early, Late
  <2>4. FirstCall' /\ Paths'  BY <2>1 DEF EngineInv, FirstCall, DeadlineFor, Paths, Late
  <2>5. QED  BY <2>2, <2>3, <2>4 DEF EngineInv
<1>2. CASE Tick \/ UNCHANGED vars
  <2>1. UNCHANGED <<request, events, block, queue, confirmed, answer, lastStatus, usage, structured, saved,
                    calls, billed>>
    BY <1>2 DEF Tick, vars, engineVars, callVars
  <2>2. elapsed' \in 0..MaxTime
    BY <1>2, TurnEngineAssumption DEF Tick, vars, EngineInv, TypeOK
  <2>3. TypeOK'  BY <2>1, <2>2 DEF EngineInv, TypeOK
  <2>4. Spending'
    BY <2>1 DEF EngineInv, Spending, OvershootBound, CeilingFor
  <2>5. FirstCall' /\ Paths'
    BY <2>1 DEF EngineInv, FirstCall, DeadlineFor, Paths, Proposes
  <2>6. QED  BY <2>3, <2>4, <2>5 DEF EngineInv
<1>3. QED  BY <1>1, <1>2

\* The inductive invariant of a turn.
THEOREM EngineCorrect == Spec => []EngineInv
<1>1. EngineInv /\ [Next]_vars => EngineInv'
  <2> SUFFICES ASSUME EngineInv, [Next]_vars PROVE EngineInv'
    OBVIOUS
  <2>1. QED
    BY YieldStep, BlockStep, CallStep, CallReturnsStep, StructuredStep, PersistStep, OutsideStep
    DEF Next, Work
<1>2. QED  BY <1>1, EngineInit, PTL DEF Spec

\* Every reachable state is of the declared type.
THEOREM EngineTypeCorrect == Spec => []TypeOK
<1>1. EngineInv => TypeOK  BY DEF EngineInv
<1>2. QED  BY <1>1, EngineCorrect, PTL

\* The session is charged, and the client told, what the calls cost.
THEOREM ChargedExactly == Spec => []ChargedIsBilled
<1>1. EngineInv => ChargedIsBilled  BY DEF EngineInv, Spending, ChargedIsBilled
<1>2. QED  BY <1>1, EngineCorrect, PTL

\* Whatever its prices, a turn passes its ceiling by less than one call.
THEOREM CeilingPassedByOneCall == Spec => []OvershootBound
<1>1. EngineInv => OvershootBound  BY DEF EngineInv, Spending
<1>2. QED  BY <1>1, EngineCorrect, PTL

\* Whatever the deadlines, the first call ends within the turn's own.
THEOREM FirstCallInTime == Spec => []FirstCallInDeadline
<1>1. EngineInv => FirstCallInDeadline
  <2> SUFFICES ASSUME EngineInv, calls # <<>>
               PROVE  /\ calls[1].at + calls[1].timeout <= Deadline
                      /\ request.deadline # None =>
                           calls[1].at + calls[1].timeout <= request.deadline
    BY DEF FirstCallInDeadline
  <2>1. calls[1].at + calls[1].timeout = DeadlineFor(request)
    BY DEF EngineInv, FirstCall
  <2>2. QED  BY <2>1, Limits DEF EngineInv
<1>2. QED  BY <1>1, EngineCorrect, PTL

-----------------------------------------------------------------------------
(* A turn is one that the session store knows                              *)

\* Where the store sees a turn that is neither persisted nor dropped.
Standing(b, p) ==
  CASE b = "start" -> "idle"
    [] b \in {"screen", "decide"} -> "started"
    [] b = "propose" \/ (b = "synthesise" /\ ~p) -> "planned"
    [] b \in {"calling", "structuring"} -> b
    [] OTHER -> "answering"

LEMMA RunningStands ==
  ASSUME saved = None, block # "cut", lastStatus # "error"
  PROVE  LifePc = Standing(block, Proposes)
BY DEF LifePc, Standing

LEMMA RunningStandsNext ==
  ASSUME saved' = None, block' # "cut", lastStatus' # "error"
  PROVE  LifePc' = Standing(block', Proposes')
BY DEF LifePc, Standing

\* Before its last blocks a turn is neither persisted nor dropped.
LEMMA RunningTurn ==
  ASSUME EngineInv, block \notin Late
  PROVE  saved = None /\ block # "cut" /\ lastStatus # "error"
         /\ LifePc = Standing(block, Proposes)
<1>1. saved = None /\ block # "cut" /\ lastStatus # "error"
  BY DEF EngineInv, Spending, Paths, Late
<1>2. QED  BY <1>1, RunningStands

LEMMA LifeEarly ==
  ASSUME EngineInv, Start \/ Screen \/ Refuse \/ OverBudget \/ Admit \/ Propose
  PROVE  [Life!Next]_(Life!vars)
<1>1. /\ block \in {"start", "screen", "decide", "propose"}
      /\ block' \in {"screen", "decide", "propose", "synthesise", "finish"}
      /\ UNCHANGED <<saved, billed, request>>
  BY DEF Start, Screen, Refuse, OverBudget, Admit, Propose, Runs, Yields, callVars
<1>2. /\ saved = None /\ block # "cut" /\ lastStatus # "error"
      /\ LifePc = Standing(block, Proposes)
  BY <1>1, RunningTurn DEF Late
<1>3. lastStatus' # "error"
  BY <1>2 DEF Start, Screen, Refuse, OverBudget, Admit, Propose
<1>4. LifePc' = Standing(block', Proposes')  BY <1>1, <1>2, <1>3, RunningStandsNext
<1>5. CASE Start
  <2>1. LifePc = "idle" /\ LifePc' = "started" /\ confirmed' = confirmed
    BY <1>2, <1>4, <1>5 DEF Start, Runs, Yields, Standing
  <2>2. Life!Arrive  BY <1>1, <2>1 DEF Life!Arrive, Life!Goes
  <2>3. QED  BY <2>2 DEF Life!Next
<1>6. CASE Screen
  <2>1. LifePc' = LifePc /\ confirmed' = confirmed
    BY <1>2, <1>4, <1>6 DEF Screen, Runs, Yields, Standing
  <2>2. QED  BY <1>1, <2>1 DEF Life!vars
<1>7. CASE Refuse \/ OverBudget
  <2>1. LifePc = "started" /\ LifePc' = "answering" /\ confirmed' = confirmed
    BY <1>2, <1>4, <1>7 DEF Refuse, OverBudget, Runs, Yields, Standing
  <2>2. Life!Divert  BY <1>1, <2>1 DEF Life!Divert, Life!Goes
  <2>3. QED  BY <2>2 DEF Life!Next
<1>8. CASE Admit
  <2>1. request.confirm \in BOOLEAN /\ confirmed' \in BOOLEAN
    BY <1>8, TurnEngineAssumption DEF EngineInv, TypeOK, Request, Admit
  <2>2. Proposes' <=> request.trigger /\ ~confirmed'
    BY <1>1 DEF Proposes
  <2>3. /\ block = "decide"
        /\ block' = IF request.trigger /\ ~confirmed' THEN "propose" ELSE "synthesise"
    BY <1>8 DEF Admit, Runs, Yields
  <2>4. LifePc = "started" /\ LifePc' = "planned"
    BY <1>2, <1>4, <2>2, <2>3 DEF Standing
  <2>5. Life!Admit  BY <1>1, <2>1, <2>4 DEF Life!Admit, Life!Goes
  <2>6. QED  BY <2>5 DEF Life!Next
<1>9. CASE Propose
  <2>1. block = "propose" /\ block' = "synthesise" /\ confirmed' = confirmed
    BY <1>9 DEF Propose, Runs, Yields
  <2>2. Proposes /\ Proposes'
    BY <1>1, <2>1 DEF EngineInv, Paths, Proposes
  <2>3. LifePc = "planned" /\ LifePc' = "answering"
    BY <1>2, <1>4, <2>1, <2>2 DEF Standing
  <2>4. Life!Canned  BY <1>1, <2>1, <2>3 DEF Life!Canned, Life!Goes
  <2>5. QED  BY <2>4 DEF Life!Next
<1>10. QED  BY <1>5, <1>6, <1>7, <1>8, <1>9

LEMMA LifeSynthesis ==
  ASSUME EngineInv, Canned \/ Exhausted \/ Call
  PROVE  [Life!Next]_(Life!vars)
<1>1. /\ block = "synthesise" /\ block' \in {"finish", "calling"}
      /\ UNCHANGED <<saved, billed, request, confirmed>>
  BY DEF Canned, Exhausted, Call, Runs, Yields, callVars
<1>2. /\ saved = None /\ block # "cut" /\ lastStatus # "error"
      /\ LifePc = Standing(block, Proposes)
  BY <1>1, RunningTurn DEF Late
<1>3. lastStatus' # "error"  BY <1>2 DEF Canned, Exhausted, Call
<1>4. LifePc' = Standing(block', Proposes')  BY <1>1, <1>2, <1>3, RunningStandsNext
<1>5. CASE Canned /\ Proposes
  <2>1. LifePc' = LifePc
    BY <1>1, <1>2, <1>4, <1>5 DEF Canned, Yields, Standing
  <2>2. QED  BY <1>1, <2>1 DEF Life!vars
<1>6. CASE (Canned /\ ~Proposes) \/ Exhausted
  <2>1. LifePc = "planned" /\ LifePc' = "answering"
    BY <1>1, <1>2, <1>4, <1>6 DEF Canned, Exhausted, NeedsModel, Yields, Standing
  <2>2. Life!Canned  BY <1>1, <2>1 DEF Life!Canned, Life!Goes
  <2>3. QED  BY <2>2 DEF Life!Next
<1>7. CASE Call
  <2>1. ~Proposes /\ ~confirmed /\ block' = "calling"
    BY <1>7 DEF Call, NeedsModel, Yields
  <2>2. LifePc = "planned" /\ LifePc' = "calling"
    BY <1>1, <1>2, <1>4, <2>1 DEF Standing
  <2>3. Life!Call  BY <1>1, <2>1, <2>2 DEF Life!Call, Life!Goes
  <2>4. QED  BY <2>3 DEF Life!Next
<1>8. QED  BY <1>5, <1>6, <1>7

LEMMA LifeCalls ==
  ASSUME EngineInv,
         \/ CallFails \/ StructuredFails
         \/ \E c \in 0..MaxCallCost : CallReturns(c) \/ StructuredReturns(c)
  PROVE  [Life!Next]_(Life!vars)
<1>1. /\ block \in {"calling", "structuring"} /\ block' \in {"structuring", "finish"}
      /\ block = "structuring" => block' = "finish"
      /\ UNCHANGED <<saved, request, confirmed>>
  BY DEF CallFails, StructuredFails, CallReturns, StructuredReturns, Runs, Yields, callVars
<1>2. /\ saved = None /\ block # "cut" /\ lastStatus # "error"
      /\ LifePc = Standing(block, Proposes)
  BY <1>1, RunningTurn DEF Late
<1>3. lastStatus' # "error"
  BY <1>2 DEF CallFails, StructuredFails, CallReturns, StructuredReturns
<1>4. LifePc' = Standing(block', Proposes')  BY <1>1, <1>2, <1>3, RunningStandsNext
<1>5. LifePc = block /\ LifePc' = IF block' = "finish" THEN "answering" ELSE "structuring"
  BY <1>1, <1>2, <1>4 DEF Standing
<1>6. billed' \in 0..(2 * MaxCallCost) /\ billed' >= billed /\ billed \in Nat
  <2>1. billed \in 0..(2 * MaxCallCost) /\ MaxCallCost \in Nat
    BY TurnEngineAssumption DEF EngineInv, TypeOK
  <2>2. CASE CallFails \/ StructuredFails
    BY <2>1, <2>2 DEF CallFails, StructuredFails, callVars
  <2>3. CASE \E c \in 0..MaxCallCost : CallReturns(c) \/ StructuredReturns(c)
    <3>1. PICK c \in 0..MaxCallCost : CallReturns(c) \/ StructuredReturns(c)
      BY <2>3
    <3>2. billed' = billed + c  BY <3>1 DEF CallReturns, StructuredReturns
    <3>3. billed <= MaxCallCost
      <4>1. CASE CallReturns(c)
        <5>1. usage = NoUsage  BY <4>1 DEF CallReturns, Runs, EngineInv, Spending
        <5>2. billed = 0  BY <5>1 DEF NoUsage, EngineInv, Spending
        <5>3. QED  BY <5>2, <2>1
      <4>2. CASE StructuredReturns(c)
        BY <4>2 DEF StructuredReturns, Runs, EngineInv, Spending
      <4>3. QED  BY <3>1, <4>1, <4>2
    <3>4. QED  BY <2>1, <3>1, <3>2, <3>3
  <2>4. QED  BY <2>2, <2>3
<1>7. CASE block = "structuring"
  <2>1. Life!Structured
    BY <1>1, <1>5, <1>6, <1>7 DEF Life!Structured, Life!Goes
  <2>2. QED  BY <2>1 DEF Life!Next
<1>8. CASE block = "calling"
  <2>1. Life!Answer \/ Life!Again
    BY <1>1, <1>5, <1>6, <1>8 DEF Life!Answer, Life!Again, Life!Goes
  <2>2. QED  BY <2>1 DEF Life!Next
<1>9. QED  BY <1>1, <1>7, <1>8

LEMMA LifeLate ==
  ASSUME EngineInv, Raise \/ Finish \/ Persist \/ End
  PROVE  [Life!Next]_(Life!vars)
<1>1. UNCHANGED <<billed, request, confirmed>>
  BY DEF Raise, Finish, Persist, End, callVars
<1>2. CASE Raise
  <2>1. block \in {"calling", "structuring"} /\ saved' = saved /\ lastStatus' = "error"
    BY <1>2 DEF Raise, Runs
  <2>2. saved = None /\ LifePc = Standing(block, Proposes)
    BY <2>1, RunningTurn DEF Late
  <2>3. LifePc = block /\ LifePc' = "dropped"
    BY <2>1, <2>2 DEF Standing, LifePc
  <2>4. Life!Drop  BY <1>1, <2>1, <2>3 DEF Life!Drop
  <2>5. QED  BY <2>4 DEF Life!Next
<1>3. CASE Finish
  <2>1. block = "finish" /\ block' = "persist" /\ saved' = saved /\ lastStatus' = lastStatus
    BY <1>3 DEF Finish, Runs, Yields
  <2>2. /\ saved = None /\ lastStatus # "error" /\ LifePc = Standing(block, Proposes)
    BY <2>1, RunningTurn DEF Late
  <2>3. LifePc' = Standing(block', Proposes')  BY <2>1, <2>2, RunningStandsNext
  <2>4. LifePc' = LifePc  BY <2>1, <2>2, <2>3 DEF Standing
  <2>5. QED  BY <1>1, <2>4 DEF Life!vars
<1>4. CASE Persist
  <2>1. block = "persist" /\ saved' = usage.cost
    BY <1>4 DEF Persist, Runs
  <2>2. LifePc = "answering"
    BY <2>1, RunningTurn DEF Late, Standing
  <2>3. saved' # None
    <3>1. usage.cost \in Nat
      BY TurnEngineAssumption DEF EngineInv, TypeOK
    <3>2. QED  BY <2>1, <3>1, TurnEngineAssumption
  <2>4. LifePc' = "done"  BY <2>3 DEF LifePc
  <2>5. Life!Persist  BY <1>1, <2>2, <2>4 DEF Life!Persist, Life!Goes
  <2>6. QED  BY <2>5 DEF Life!Next
<1>5. CASE End
  <2>1. block = "end" /\ block' = "done" /\ saved' = saved /\ lastStatus' = lastStatus
    BY <1>5 DEF End, Runs, Yields
  <2>2. LifePc' = LifePc  BY <2>1 DEF LifePc
  <2>3. QED  BY <1>1, <2>2 DEF Life!vars
<1>6. QED  BY <1>2, <1>3, <1>4, <1>5

LEMMA LifeOutside ==
  ASSUME EngineInv, Yield \/ Tick \/ Disconnect \/ UNCHANGED vars
  PROVE  [Life!Next]_(Life!vars)
<1>1. UNCHANGED <<billed, request, confirmed, saved, lastStatus>>
  BY DEF Yield, Tick, Disconnect, vars, engineVars, callVars
<1>2. CASE Yield \/ Tick \/ UNCHANGED vars
  <2>1. block' = block  BY <1>2 DEF Yield, Tick, vars, engineVars
  <2>2. LifePc' = LifePc  BY <1>1, <2>1 DEF LifePc, Proposes
  <2>3. QED  BY <1>1, <2>2 DEF Life!vars
<1>3. CASE Disconnect
  <2>1. block \notin {"start", "cut"} /\ block' = "cut"
    BY <1>3 DEF Disconnect, Yields
  <2>2. CASE saved # None
    <3>1. LifePc' = LifePc  BY <1>1, <2>2 DEF LifePc
    <3>2. QED  BY <1>1, <3>1 DEF Life!vars
  <2>3. CASE saved = None /\ lastStatus = "error"
    <3>1. LifePc' = LifePc  BY <1>1, <2>3 DEF LifePc
    <3>2. QED  BY <1>1, <3>1 DEF Life!vars
  <2>4. CASE saved = None /\ lastStatus # "error"
    <3>1. LifePc = Standing(block, Proposes)  BY <2>1, <2>4, RunningStands
    <3>2. LifePc \in {"started", "planned", "calling", "structuring", "answering"}
      BY <2>1, <3>1 DEF Standing
    <3>3. LifePc' = "dropped"  BY <1>1, <2>1, <2>4 DEF LifePc
    <3>4. Life!Drop  BY <1>1, <3>2, <3>3 DEF Life!Drop
    <3>5. QED  BY <3>4 DEF Life!Next
  <2>5. QED  BY <2>2, <2>3, <2>4
<1>4. QED  BY <1>2, <1>3

\* The turn, event by event, is a turn of the session store: it takes a
\* confirmation, is charged, is persisted or is dropped where TurnLife allows.
THEOREM LivesTheTurn == Spec => LivesTurn
<1>1. Init => Life!Init
  <2> SUFFICES ASSUME Init PROVE Life!Init
    OBVIOUS
  <2>1. saved = None /\ block = "start" /\ lastStatus = "ok" /\ ~confirmed /\ billed = 0
    BY DEF Init
  <2>2. LifePc = "idle"  BY <2>1 DEF LifePc
  <2>3. QED  BY <2>1, <2>2 DEF Init, Life!Init
<1>2. EngineInv /\ [Next]_vars => [Life!Next]_(Life!vars)
  <2> SUFFICES ASSUME EngineInv, [Next]_vars PROVE [Life!Next]_(Life!vars)
    OBVIOUS
  <2>1. QED
    BY LifeEarly, LifeSynthesis, LifeCalls, LifeLate, LifeOutside DEF Next, Work
<1>3. QED  BY <1>1, <1>2, EngineCorrect, PTL DEF Spec, LivesTurn, Life!Spec

-----------------------------------------------------------------------------
(* What a turn tells                                                       *)

\* The turn as far as the engine has computed it: yielded or about to be.
Told == events \o queue

Before(h, n) == [i \in 1..(n - 1) |-> h[i]]
UpTo(k) == {Pipeline[i] : i \in 1..k}

\* The contract, and that the stages are reported one by one: none is left out.
Follows(h, e) ==
  /\ Contract!MayFollow(h, e)
  /\ e.kind = "stage" =>
       \E k \in 0..8 : Contract!Reported(h) = UpTo(k) /\ e.of = Pipeline[k + 1]

Lawful(h) == \A n \in 1..Len(h) : Follows(Before(h, n), h[n])

\* A lawful history, the kinds of its events and how many stages it reports.
Tells(h, kinds, k) ==
  /\ h \in Seq(Contract!Event) /\ Lawful(h)
  /\ Contract!Kinds(h) = kinds /\ Contract!Reported(h) = UpTo(k)

Said == {"turn.start", "stage", "route"}
Offers == {{}, {"proposal"}}

Telling ==
  /\ Lawful(Told)
  /\ block = "start" => Told = <<>>
  /\ block = "screen" => Tells(Told, {"turn.start"}, 0)
  /\ block = "decide" => Tells(Told, {"turn.start", "stage"}, 1)
  /\ block \in {"propose", "calling", "structuring"} => Tells(Told, Said, 6)
  /\ block = "synthesise" => \E P \in Offers : Tells(Told, Said \cup P, 6)
  /\ block = "finish" => \E P \in Offers : Tells(Told, Said \cup P, 7)
  /\ block = "persist" => \E P \in Offers : Tells(Told, Said \cup P \cup {"answer"}, 8)
  /\ block = "end" =>
       IF lastStatus = "error" THEN Tells(Told, Said \cup {"error"}, 6)
       ELSE \E P \in Offers : Tells(Told, Said \cup P \cup {"answer", "usage"}, 9)
  /\ block = "done" =>
       IF lastStatus = "error" THEN Tells(Told, Said \cup {"error", "turn.end"}, 6)
       ELSE \E P \in Offers : Tells(Told, Said \cup P \cup {"answer", "usage", "turn.end"}, 9)

\* The outcome of a turn, from the variables that decide it.
Outcome(a, s) ==
  IF s = "error" THEN "error" ELSE IF a = "refusal" THEN "refused" ELSE s

\* What a single event says agrees with the state of the turn.
Agrees(e, a, s) ==
  /\ e.kind = "answer" => e.status = a
  /\ e.kind = "turn.end" => e.status = Outcome(a, s)
  /\ e.kind = "stage" /\ e.status = "degraded" => s \in {"degraded", "error"}
Agreeing == \A i \in 1..Len(Told) : Agrees(Told[i], answer, lastStatus)

\* A turn a guardrail stops goes straight to its answer, only such a turn is
\* answered with anything but an answer, and a turn that offers asks no model.
Stopping ==
  /\ ~Passes(request) =>
       /\ block \in {"start", "screen", "decide", "finish", "persist"} \cup Late
       /\ calls = <<>> /\ ~confirmed /\ lastStatus = "ok" /\ usage = NoUsage
       /\ block \in {"finish", "persist", "end", "done"} =>
            (answer = "refusal" <=> "injection" \in request.found)
  /\ Passes(request) => answer = "answer"
  /\ Proposes => usage = NoUsage /\ block \notin {"calling", "structuring"}
Offering == \A i \in 1..Len(Told) : Told[i].kind = "proposal" => Proposes /\ Passes(request)

TellInv == Telling /\ Agreeing /\ Offering /\ Stopping

-----------------------------------------------------------------------------
(* Histories *)

LEMMA PipelineOrder ==
  /\ DOMAIN Pipeline = 1..9
  /\ \A i \in 1..9 : Pipeline[i] \in StageNames
  /\ \A i, j \in 1..9 : Pipeline[i] = Pipeline[j] => i = j
BY DEF Pipeline, StageNames

LEMMA RankOf == ASSUME NEW i \in 1..9 PROVE Contract!Rank(Pipeline[i]) = i
BY PipelineOrder DEF Contract!Rank

LEMMA StageIn ==
  ASSUME NEW k \in 0..8
  PROVE  /\ Pipeline[k + 1] \in StageNames /\ Pipeline[k + 1] \notin UpTo(k)
         /\ UpTo(k + 1) = UpTo(k) \cup {Pipeline[k + 1]}
<1>1. k + 1 \in 1..9 /\ 1..(k + 1) = 1..k \cup {k + 1}  OBVIOUS
<1>2. Pipeline[k + 1] \in StageNames  BY <1>1, PipelineOrder
<1>3. Pipeline[k + 1] \notin UpTo(k)  BY <1>1, PipelineOrder DEF UpTo
<1>4. UpTo(k + 1) = UpTo(k) \cup {Pipeline[k + 1]}  BY <1>1 DEF UpTo
<1>5. QED  BY <1>2, <1>3, <1>4

LEMMA BeforeAppend ==
  ASSUME NEW h \in Seq(Contract!Event), NEW e \in Contract!Event
  PROVE  /\ Append(h, e) \in Seq(Contract!Event) /\ Len(Append(h, e)) = Len(h) + 1
         /\ \A n \in 1..Len(h) : Append(h, e)[n] = h[n]
         /\ Append(h, e)[Len(h) + 1] = e
         /\ \A n \in 1..Len(h) : Before(Append(h, e), n) = Before(h, n)
         /\ Before(Append(h, e), Len(h) + 1) = h
<1>1. /\ Append(h, e) \in Seq(Contract!Event) /\ Len(Append(h, e)) = Len(h) + 1
      /\ \A n \in 1..Len(h) : Append(h, e)[n] = h[n]
      /\ Append(h, e)[Len(h) + 1] = e
  OBVIOUS
<1>2. Len(h) \in Nat /\ h = [i \in 1..Len(h) |-> h[i]]  OBVIOUS
<1>3. ASSUME NEW n \in 1..Len(h)  PROVE Before(Append(h, e), n) = Before(h, n)
  BY <1>1, <1>2 DEF Before
<1>4. Before(Append(h, e), Len(h) + 1) = h
  BY <1>1, <1>2 DEF Before
<1>5. QED  BY <1>1, <1>3, <1>4

LEMMA LawfulAppend ==
  ASSUME NEW h \in Seq(Contract!Event), NEW e \in Contract!Event, Lawful(h), Follows(h, e)
  PROVE  Lawful(Append(h, e))
<1> DEFINE g == Append(h, e)
<1>1. /\ Len(g) = Len(h) + 1 /\ Len(h) \in Nat
      /\ \A n \in 1..Len(h) : g[n] = h[n] /\ Before(g, n) = Before(h, n)
      /\ g[Len(h) + 1] = e /\ Before(g, Len(h) + 1) = h
  BY BeforeAppend
<1> HIDE DEF g
<1>2. \A n \in 1..Len(h) : Follows(Before(g, n), g[n])
  BY <1>1 DEF Lawful
<1>3. Follows(Before(g, Len(h) + 1), g[Len(h) + 1])
  BY <1>1
<1>4. \A n \in 1..Len(g) : n \in 1..Len(h) \/ n = Len(h) + 1  BY <1>1
<1>5. Lawful(g)  BY <1>2, <1>3, <1>4 DEF Lawful
<1>6. QED  BY <1>5 DEF g

LEMMA SaysMore ==
  ASSUME NEW h \in Seq(Contract!Event), NEW e \in Contract!Event
  PROVE  /\ Contract!Kinds(Append(h, e)) = Contract!Kinds(h) \cup {e.kind}
         /\ Contract!Reported(Append(h, e)) =
              Contract!Reported(h) \cup (IF e.kind = "stage" THEN {e.of} ELSE {})
<1> DEFINE g == Append(h, e)
<1>1. /\ DOMAIN g = 1..(Len(h) + 1) /\ DOMAIN h = 1..Len(h) /\ Len(h) \in Nat
      /\ \A n \in 1..Len(h) : g[n] = h[n]
      /\ g[Len(h) + 1] = e
  BY BeforeAppend
<1> HIDE DEF g
<1>2. DOMAIN g = DOMAIN h \cup {Len(h) + 1}  BY <1>1
<1>3. Contract!Kinds(g) = Contract!Kinds(h) \cup {e.kind}
  BY <1>1, <1>2 DEF Contract!Kinds
<1>4. Contract!Reported(g) = Contract!Reported(h) \cup (IF e.kind = "stage" THEN {e.of} ELSE {})
  BY <1>1, <1>2 DEF Contract!Reported
<1>5. QED  BY <1>3, <1>4 DEF g

LEMMA TellMore ==
  ASSUME NEW h, NEW kinds, NEW k, Tells(h, kinds, k), NEW e \in Contract!Event, Follows(h, e)
  PROVE  /\ e.kind # "stage" => Tells(Append(h, e), kinds \cup {e.kind}, k)
         /\ e.kind = "stage" /\ k \in 0..8 /\ e.of = Pipeline[k + 1] =>
              Tells(Append(h, e), kinds \cup {e.kind}, k + 1)
<1>1. h \in Seq(Contract!Event) /\ Lawful(h)  BY DEF Tells
<1>2. Append(h, e) \in Seq(Contract!Event) /\ Lawful(Append(h, e))
  BY <1>1, LawfulAppend, BeforeAppend
<1>3. QED  BY <1>1, <1>2, SaysMore, StageIn DEF Tells

LEMMA KindsOfSome ==
  ASSUME NEW h \in Seq(Contract!Event), "turn.start" \in Contract!Kinds(h) PROVE h # <<>>
BY DEF Contract!Kinds

\* The next stage, the route, the proposal and so on may follow.
LEMMA TellStage ==
  ASSUME NEW h, NEW kinds, NEW k \in 0..8, Tells(h, kinds, k),
         "turn.start" \in kinds, "turn.end" \notin kinds, "error" \notin kinds,
         k = 8 => "answer" \in kinds,
         NEW st \in StageStatuses
  PROVE  Tells(Append(h, StageE(Pipeline[k + 1], st)), kinds \cup {"stage"}, k + 1)
<1> DEFINE e == StageE(Pipeline[k + 1], st)
<1>1. /\ Pipeline[k + 1] \in StageNames /\ e \in Contract!Event
      /\ e.kind = "stage" /\ e.of = Pipeline[k + 1]
  BY StageIn, EventTypes DEF StageE
<1> HIDE DEF e
<1>2. h # <<>>  BY KindsOfSome DEF Tells
<1>3. \A s \in UpTo(k) : Contract!Rank(s) < k + 1
  BY RankOf DEF UpTo
<1>4. Contract!Rank(e.of) = k + 1  BY <1>1, RankOf
<1>5. e.of = "persist" => k = 8  BY <1>1, PipelineOrder DEF Pipeline
<1>6. Contract!MayFollow(h, e)
  BY <1>1, <1>2, <1>3, <1>4, <1>5 DEF Contract!MayFollow, Tells
<1>7. Follows(h, e)  BY <1>1, <1>6 DEF Follows, Tells
<1>8. QED  BY <1>1, <1>7, TellMore DEF e

\* The same by name, once a stage was told and the turn is neither over nor failed.
Talking(kinds) ==
  {"turn.start", "stage"} \subseteq kinds /\ "turn.end" \notin kinds /\ "error" \notin kinds

LEMMA TellNth ==
  ASSUME NEW h, NEW kinds, Talking(kinds), NEW k \in 0..8, NEW m, m = k + 1,
         Tells(h, kinds, k), k = 8 => "answer" \in kinds,
         NEW s, s = Pipeline[m], NEW st \in StageStatuses
  PROVE  Tells(Append(h, StageE(s, st)), kinds, m)
<1>1. Tells(Append(h, StageE(Pipeline[k + 1], st)), kinds \cup {"stage"}, k + 1)
  BY TellStage DEF Talking
<1>2. kinds \cup {"stage"} = kinds  BY DEF Talking
<1>3. QED  BY <1>1, <1>2

LEMMA TellNamed ==
  ASSUME NEW h, NEW kinds, Talking(kinds), NEW st \in StageStatuses
  PROVE  /\ Tells(h, kinds, 1) => Tells(Append(h, StageE("context", st)), kinds, 2)
         /\ Tells(h, kinds, 2) => Tells(Append(h, StageE("cache", st)), kinds, 3)
         /\ Tells(h, kinds, 3) => Tells(Append(h, StageE("classify", st)), kinds, 4)
         /\ Tells(h, kinds, 4) => Tells(Append(h, StageE("plan", st)), kinds, 5)
         /\ Tells(h, kinds, 5) => Tells(Append(h, StageE("gather", st)), kinds, 6)
         /\ Tells(h, kinds, 6) => Tells(Append(h, StageE("synthesise", st)), kinds, 7)
         /\ Tells(h, kinds, 7) => Tells(Append(h, StageE("guardrails_out", st)), kinds, 8)
         /\ Tells(h, kinds, 8) /\ "answer" \in kinds =>
              Tells(Append(h, StageE("persist", st)), kinds, 9)
<1>0. /\ Pipeline[2] = "context" /\ Pipeline[3] = "cache" /\ Pipeline[4] = "classify"
      /\ Pipeline[5] = "plan" /\ Pipeline[6] = "gather" /\ Pipeline[7] = "synthesise"
      /\ Pipeline[8] = "guardrails_out" /\ Pipeline[9] = "persist"
  BY DEF Pipeline
<1>1. Tells(h, kinds, 1) => Tells(Append(h, StageE("context", st)), kinds, 2)
  <2>1. 1 \in 0..8 /\ 2 = 1 + 1 /\ 1 # 8  OBVIOUS
  <2>2. QED  BY <1>0, <2>1, TellNth
<1>2. Tells(h, kinds, 2) => Tells(Append(h, StageE("cache", st)), kinds, 3)
  <2>1. 2 \in 0..8 /\ 3 = 2 + 1 /\ 2 # 8  OBVIOUS
  <2>2. QED  BY <1>0, <2>1, TellNth
<1>3. Tells(h, kinds, 3) => Tells(Append(h, StageE("classify", st)), kinds, 4)
  <2>1. 3 \in 0..8 /\ 4 = 3 + 1 /\ 3 # 8  OBVIOUS
  <2>2. QED  BY <1>0, <2>1, TellNth
<1>4. Tells(h, kinds, 4) => Tells(Append(h, StageE("plan", st)), kinds, 5)
  <2>1. 4 \in 0..8 /\ 5 = 4 + 1 /\ 4 # 8  OBVIOUS
  <2>2. QED  BY <1>0, <2>1, TellNth
<1>5. Tells(h, kinds, 5) => Tells(Append(h, StageE("gather", st)), kinds, 6)
  <2>1. 5 \in 0..8 /\ 6 = 5 + 1 /\ 5 # 8  OBVIOUS
  <2>2. QED  BY <1>0, <2>1, TellNth
<1>6. Tells(h, kinds, 6) => Tells(Append(h, StageE("synthesise", st)), kinds, 7)
  <2>1. 6 \in 0..8 /\ 7 = 6 + 1 /\ 6 # 8  OBVIOUS
  <2>2. QED  BY <1>0, <2>1, TellNth
<1>7. Tells(h, kinds, 7) => Tells(Append(h, StageE("guardrails_out", st)), kinds, 8)
  <2>1. 7 \in 0..8 /\ 8 = 7 + 1 /\ 7 # 8  OBVIOUS
  <2>2. QED  BY <1>0, <2>1, TellNth
<1>8. Tells(h, kinds, 8) /\ "answer" \in kinds =>
        Tells(Append(h, StageE("persist", st)), kinds, 9)
  <2>1. 8 \in 0..8 /\ 9 = 8 + 1  OBVIOUS
  <2>2. QED  BY <1>0, <2>1, TellNth
<1>9. QED  BY <1>1, <1>2, <1>3, <1>4, <1>5, <1>6, <1>7, <1>8

LEMMA TellRoute ==
  ASSUME NEW h, NEW kinds, NEW k, Tells(h, kinds, k),
         "turn.start" \in kinds, kinds \cap {"turn.end", "error", "route"} = {},
         NEW routes \in {"none", "direct", "action"}
  PROVE  Tells(Append(h, RouteE(routes)), kinds \cup {"route"}, k)
<1>1. RouteE(routes) \in Contract!Event /\ RouteE(routes).kind = "route"
  BY EventTypes DEF RouteE, E
<1>2. h # <<>>  BY KindsOfSome DEF Tells
<1>3. Contract!MayFollow(h, RouteE(routes))
  BY <1>1, <1>2 DEF Contract!MayFollow, Tells
<1>4. QED  BY <1>1, <1>3, TellMore DEF Follows

LEMMA TellOther ==
  ASSUME NEW h, NEW kinds, NEW k \in 0..9, Tells(h, kinds, k), "turn.start" \in kinds
  PROVE  /\ kinds \cap {"turn.end", "error", "proposal"} = {} /\ "route" \in kinds /\ k = 6 =>
              Tells(Append(h, E("proposal")), kinds \cup {"proposal"}, k)
         /\ kinds \cap {"turn.end", "error", "usage"} = {} /\ k = 9 =>
              Tells(Append(h, E("usage")), kinds \cup {"usage"}, k)
         /\ kinds \cap {"turn.end", "error"} = {} =>
              Tells(Append(h, E("error")), kinds \cup {"error"}, k)
<1>1. h # <<>>  BY KindsOfSome DEF Tells
<1>2. E("proposal") \in Contract!Event /\ E("usage") \in Contract!Event /\ E("error") \in Contract!Event
  BY EventTypes
<1>3. ASSUME kinds \cap {"turn.end", "error", "proposal"} = {}, "route" \in kinds, k = 6
      PROVE  Tells(Append(h, E("proposal")), kinds \cup {"proposal"}, k)
  <2>1. "synthesise" \notin UpTo(6)
    BY DEF UpTo, Pipeline
  <2>2. E("proposal").kind = "proposal"  BY DEF E
  <2>3. Contract!MayFollow(h, E("proposal"))
    BY <1>1, <1>3, <2>1, <2>2 DEF Contract!MayFollow, Tells
  <2>4. QED  BY <1>2, <2>2, <2>3, TellMore DEF Follows
<1>4. ASSUME kinds \cap {"turn.end", "error", "usage"} = {}, k = 9
      PROVE  Tells(Append(h, E("usage")), kinds \cup {"usage"}, k)
  <2>1. Pipeline[9] = "persist" /\ 9 \in 1..9  BY DEF Pipeline
  <2>2. "persist" \in UpTo(9)  BY <2>1 DEF UpTo
  <2>3. E("usage").kind = "usage"  BY DEF E
  <2>4. Contract!MayFollow(h, E("usage"))
    BY <1>1, <1>4, <2>2, <2>3 DEF Contract!MayFollow, Tells
  <2>5. QED  BY <1>2, <2>3, <2>4, TellMore DEF Follows
<1>5. ASSUME kinds \cap {"turn.end", "error"} = {}
      PROVE  Tells(Append(h, E("error")), kinds \cup {"error"}, k)
  <2>1. E("error").kind = "error"  BY DEF E
  <2>2. Contract!MayFollow(h, E("error"))
    BY <1>1, <1>5, <2>1 DEF Contract!MayFollow, Tells
  <2>3. QED  BY <1>2, <2>1, <2>2, TellMore DEF Follows
<1>6. QED  BY <1>3, <1>4, <1>5

LEMMA TellAnswer ==
  ASSUME NEW h, NEW kinds, Tells(h, kinds, 8), {"turn.start", "route"} \subseteq kinds,
         kinds \cap {"turn.end", "error", "answer"} = {},
         NEW a \in {"answer", "refusal", "escalated"}, NEW body \in Bodies
  PROVE  Tells(Append(h, AnswerE(a, body)), kinds \cup {"answer"}, 8)
<1>1. h # <<>>  BY KindsOfSome DEF Tells
<1>2. AnswerE(a, body) \in Contract!Event /\ AnswerE(a, body).kind = "answer"
  BY EventTypes DEF AnswerE
<1>3. Pipeline[8] = "guardrails_out" /\ 8 \in 1..8  BY DEF Pipeline
<1>4. "guardrails_out" \in UpTo(8)  BY <1>3 DEF UpTo
<1>5. Contract!MayFollow(h, AnswerE(a, body))
  BY <1>1, <1>2, <1>4 DEF Contract!MayFollow, Tells
<1>6. QED  BY <1>2, <1>5, TellMore DEF Follows

LEMMA TellEnd ==
  ASSUME NEW h, NEW kinds, NEW k, Tells(h, kinds, k), "turn.start" \in kinds,
         "turn.end" \notin kinds, kinds \cap {"usage", "error"} # {},
         NEW st \in {"ok", "refused", "degraded", "error"}, Contract!Truthful(h, st)
  PROVE  Tells(Append(h, EndE(st)), kinds \cup {"turn.end"}, k)
<1>1. h # <<>>  BY KindsOfSome DEF Tells
<1>2. EndE(st) \in Contract!Event /\ EndE(st).kind = "turn.end" /\ EndE(st).status = st
  BY EventTypes DEF EndE, E
<1>3. Contract!MayFollow(h, EndE(st))
  BY <1>1, <1>2 DEF Contract!MayFollow, Tells
<1>4. QED  BY <1>2, <1>3, TellMore DEF Follows

-----------------------------------------------------------------------------
(* Sequences: what is told, event by event *)

LEMMA EmptyQueue == ASSUME NEW S, NEW s \in Seq(S) PROVE s \o <<>> = s /\ <<>> \o s = s
OBVIOUS

LEMMA ConcatIs ==
  ASSUME NEW S, NEW s \in Seq(S), NEW q \in Seq(S)
  PROVE  /\ Len(s) \in Nat /\ Len(q) \in Nat
         /\ s \o q \in Seq(S) /\ Len(s \o q) = Len(s) + Len(q)
         /\ \A i \in 1..(Len(s) + Len(q)) :
              (s \o q)[i] = IF i <= Len(s) THEN s[i] ELSE q[i - Len(s)]
OBVIOUS

LEMMA HandedOver ==
  ASSUME NEW S, NEW s \in Seq(S), NEW q \in Seq(S), q # <<>>
  PROVE  /\ Append(s, Head(q)) \o Tail(q) = s \o q
         /\ Head(q) = (s \o q)[Len(s) + 1] /\ Len(s) + 1 \in 1..Len(s \o q)
         /\ Before(s \o q, Len(s) + 1) = s
<1>1. Len(q) \in Nat \ {0} /\ Len(s) \in Nat /\ Head(q) = q[1] /\ Head(q) \in S
  OBVIOUS
<1>2. /\ Tail(q) \in Seq(S) /\ Len(Tail(q)) = Len(q) - 1
      /\ \A i \in 1..(Len(q) - 1) : Tail(q)[i] = q[i + 1]
  BY <1>1
<1>3. /\ s \o q \in Seq(S) /\ Len(s \o q) = Len(s) + Len(q)
      /\ \A i \in 1..Len(s) : (s \o q)[i] = s[i]
      /\ \A i \in 1..Len(q) : (s \o q)[Len(s) + i] = q[i]
  BY <1>1
<1>4. Append(s, Head(q)) \o Tail(q) = s \o q
  <2> DEFINE a == Append(s, Head(q))
  <2>1. /\ a \in Seq(S) /\ Len(a) = Len(s) + 1 /\ a[Len(s) + 1] = q[1]
        /\ \A i \in 1..Len(s) : a[i] = s[i]
    BY <1>1
  <2> HIDE DEF a
  <2>2. /\ a \o Tail(q) \in Seq(S) /\ Len(a \o Tail(q)) = Len(s) + Len(q)
        /\ \A i \in 1..(Len(s) + Len(q)) :
             (a \o Tail(q))[i] = IF i <= Len(s) + 1 THEN a[i] ELSE Tail(q)[i - Len(s) - 1]
    <3>1. /\ a \o Tail(q) \in Seq(S) /\ Len(a \o Tail(q)) = Len(a) + Len(Tail(q))
          /\ \A i \in 1..(Len(a) + Len(Tail(q))) :
               (a \o Tail(q))[i] = IF i <= Len(a) THEN a[i] ELSE Tail(q)[i - Len(a)]
      BY <1>2, <2>1, ConcatIs
    <3>2. Len(a) + Len(Tail(q)) = Len(s) + Len(q)  BY <1>1, <1>2, <2>1
    <3>3. \A i \in 1..(Len(s) + Len(q)) : i - Len(a) = i - Len(s) - 1  BY <1>1, <2>1
    <3>4. QED  BY <2>1, <3>1, <3>2, <3>3
  <2>3. \A i \in 1..(Len(s) + Len(q)) : (a \o Tail(q))[i] = (s \o q)[i]
    <3> SUFFICES ASSUME NEW i \in 1..(Len(s) + Len(q)) PROVE (a \o Tail(q))[i] = (s \o q)[i]
      OBVIOUS
    <3>1. CASE i <= Len(s)  BY <1>1, <1>3, <2>1, <2>2, <3>1
    <3>2. CASE i = Len(s) + 1  BY <1>1, <1>3, <2>1, <2>2, <3>2
    <3>3. CASE i > Len(s) + 1
      <4>1. (a \o Tail(q))[i] = q[i - Len(s)]  BY <1>1, <1>2, <2>2, <3>3
      <4>2. i - Len(s) \in 1..Len(q) /\ Len(s) + (i - Len(s)) = i  BY <1>1, <3>3
      <4>3. QED  BY <1>3, <4>1, <4>2
    <3>4. i <= Len(s) \/ i = Len(s) + 1 \/ i > Len(s) + 1  BY <1>1
    <3>5. QED  BY <3>1, <3>2, <3>3, <3>4
  <2>4. QED  BY <1>3, <2>2, <2>3 DEF a
<1>5. Head(q) = (s \o q)[Len(s) + 1] /\ Len(s) + 1 \in 1..Len(s \o q)
  BY <1>1, <1>3
<1>6. Before(s \o q, Len(s) + 1) = s
  <2>1. s = [i \in 1..Len(s) |-> s[i]]  OBVIOUS
  <2>2. QED  BY <1>1, <1>3, <2>1 DEF Before
<1>7. QED  BY <1>4, <1>5, <1>6

LEMMA Appended ==
  ASSUME NEW S, NEW s \in Seq(S), NEW a \in S
  PROVE  s \o <<a>> = Append(s, a) /\ Append(s, a) \in Seq(S)
OBVIOUS

LEMMA AppendedTwo ==
  ASSUME NEW S, NEW s \in Seq(S), NEW a \in S, NEW b \in S
  PROVE  s \o <<a, b>> = Append(Append(s, a), b)
OBVIOUS

LEMMA ConcatAppend ==
  ASSUME NEW S, NEW s \in Seq(S), NEW q \in Seq(S), NEW a \in S
  PROVE  Append(q, a) \in Seq(S) /\ s \o Append(q, a) = Append(s \o q, a)
OBVIOUS

\* Every event told is an old or a new one.
LEMMA Elements ==
  ASSUME NEW S, NEW s \in Seq(S), NEW q \in Seq(S), NEW i \in 1..Len(s \o q)
  PROVE  \/ i \in 1..Len(s) /\ (s \o q)[i] = s[i]
         \/ \E j \in 1..Len(q) : (s \o q)[i] = q[j]
<1>1. /\ Len(s) \in Nat /\ Len(q) \in Nat /\ Len(s \o q) = Len(s) + Len(q)
      /\ (s \o q)[i] = IF i <= Len(s) THEN s[i] ELSE q[i - Len(s)]
  OBVIOUS
<1>2. CASE i <= Len(s)  BY <1>1, <1>2
<1>3. CASE ~(i <= Len(s))
  <2>1. i - Len(s) \in 1..Len(q)  BY <1>1, <1>3
  <2>2. QED  BY <1>1, <1>3, <2>1
<1>4. QED  BY <1>2, <1>3

-----------------------------------------------------------------------------
(* The blocks *)

\* A block begins when all it told before was handed over.
LEMMA BlockTells ==
  ASSUME EngineInv, queue = <<>>, events' = events, queue' \in Seq(Contract!Event)
  PROVE  /\ Told = events /\ Told \in Seq(Contract!Event)
         /\ Told' = Told \o queue'
BY EmptyQueue DEF Told, EngineInv, TypeOK

\* What was told before agrees as long as the outcome does, and so does what is new.
LEMMA AgreeMore ==
  ASSUME EngineInv, queue = <<>>, events' = events, queue' \in Seq(Contract!Event),
         \A i \in 1..Len(Told) : Agrees(Told[i], answer', lastStatus'),
         \A j \in 1..Len(queue') : Agrees(queue'[j], answer', lastStatus')
  PROVE  Agreeing'
<1>1. Told \in Seq(Contract!Event) /\ Told' = Told \o queue'  BY BlockTells
<1>2. \A i \in 1..Len(Told \o queue') : Agrees((Told \o queue')[i], answer', lastStatus')
  BY <1>1, Elements
<1>3. QED  BY <1>1, <1>2 DEF Agreeing

LEMMA TellStart == Tells(Append(<<>>, E("turn.start")), {"turn.start"}, 0)
<1>1. <<>> \in Seq(Contract!Event) /\ Lawful(<<>>) /\ Contract!Kinds(<<>>) = {}
      /\ Contract!Reported(<<>>) = UpTo(0)
  BY DEF Lawful, Contract!Kinds, Contract!Reported, UpTo
<1>2. E("turn.start") \in Contract!Event /\ E("turn.start").kind = "turn.start"
  BY EventTypes DEF E
<1>3. Contract!MayFollow(<<>>, E("turn.start"))
  BY <1>1, <1>2 DEF Contract!MayFollow
<1>4. Tells(<<>>, {}, 0)  BY <1>1 DEF Tells
<1>5. Follows(<<>>, E("turn.start"))  BY <1>2, <1>3 DEF Follows
<1>6. Tells(Append(<<>>, E("turn.start")), {} \cup {"turn.start"}, 0)
  BY <1>2, <1>4, <1>5, TellMore
<1>7. QED  BY <1>6

\* The stages of a turn that is stopped, and of one that goes on.
LEMMA TellSkipped ==
  ASSUME NEW h, Tells(h, {"turn.start", "stage"}, 1)
  PROVE  Tells(h \o SkippedStages, Said, 7)
<1> DEFINE h1 == Append(h, StageE("context", "skipped"))
           h2 == Append(h1, StageE("cache", "skipped"))
           h3 == Append(h2, StageE("classify", "skipped"))
           h4 == Append(h3, StageE("plan", "skipped"))
           h5 == Append(h4, StageE("gather", "skipped"))
           h6 == Append(h5, RouteE("none"))
           h7 == Append(h6, StageE("synthesise", "skipped"))
<1>a. "skipped" \in StageStatuses /\ Talking({"turn.start", "stage"}) /\ Talking(Said)
  BY DEF StageStatuses, Talking, Said
<1> HIDE DEF h1, h2, h3, h4, h5, h6, h7
<1>b. h \o SkippedStages = h7
  <2> DEFINE a == StageE("context", "skipped")
             b == StageE("cache", "skipped")
             c == StageE("classify", "skipped")
             d == StageE("plan", "skipped")
             e == StageE("gather", "skipped")
             f == RouteE("none")
             g == StageE("synthesise", "skipped")
  <2>1. h \in Seq(Contract!Event)  BY DEF Tells
  <2>2. /\ a \in Contract!Event
        /\ b \in Contract!Event
        /\ c \in Contract!Event
        /\ d \in Contract!Event
        /\ e \in Contract!Event
        /\ f \in Contract!Event
        /\ g \in Contract!Event
    BY EventTypes, <1>a DEF StageNames
  <2>3. SkippedStages = <<a, b, c, d, e, f, g>>  BY DEF SkippedStages
  <2> HIDE DEF a, b, c, d, e, f, g
  <2>4. h \o <<a, b, c, d, e, f>> = Append(Append(Append(Append(Append(Append(h, a), b), c), d), e), f)
    BY <2>1, <2>2
  <2> DEFINE q == <<a, b, c, d, e, f>>
  <2>5. q \in Seq(Contract!Event)  BY <2>2
  <2>6. <<a, b, c, d, e, f, g>> = Append(q, g)  OBVIOUS
  <2> HIDE DEF q
  <2>7. h \o Append(q, g) = Append(h \o q, g)  BY <2>1, <2>2, <2>5, ConcatAppend
  <2>8. h \o SkippedStages = Append(h \o q, g)  BY <2>3, <2>6, <2>7
  <2>9. QED  BY <2>4, <2>8 DEF h1, h2, h3, h4, h5, h6, h7, a, b, c, d, e, f, g, q
<1>1. Tells(h1, {"turn.start", "stage"}, 2)  BY <1>a, TellNamed DEF h1
<1>2. Tells(h2, {"turn.start", "stage"}, 3)  BY <1>1, <1>a, TellNamed DEF h2
<1>3. Tells(h3, {"turn.start", "stage"}, 4)  BY <1>2, <1>a, TellNamed DEF h3
<1>4. Tells(h4, {"turn.start", "stage"}, 5)  BY <1>3, <1>a, TellNamed DEF h4
<1>5. Tells(h5, {"turn.start", "stage"}, 6)  BY <1>4, <1>a, TellNamed DEF h5
<1>6. Tells(h6, Said, 6)
  <2>1. Tells(h6, {"turn.start", "stage"} \cup {"route"}, 6)  BY <1>5, TellRoute DEF h6
  <2>2. {"turn.start", "stage"} \cup {"route"} = Said  BY DEF Said
  <2>3. QED  BY <2>1, <2>2
<1>7. Tells(h7, Said, 7)  BY <1>6, <1>a, TellNamed DEF h7
<1>8. QED  BY <1>7, <1>b

LEMMA TellPlanned ==
  ASSUME NEW h, Tells(h, {"turn.start", "stage"}, 1), NEW routes \in {"direct", "action"}
  PROVE  Tells(h \o PlannedStages(routes), Said, 6)
<1> DEFINE h1 == Append(h, StageE("context", "ok"))
           h2 == Append(h1, StageE("cache", "skipped"))
           h3 == Append(h2, StageE("classify", "skipped"))
           h4 == Append(h3, StageE("plan", "ok"))
           h5 == Append(h4, RouteE(routes))
           h6 == Append(h5, StageE("gather", "skipped"))
<1>a. /\ "ok" \in StageStatuses /\ "skipped" \in StageStatuses
      /\ Talking({"turn.start", "stage"}) /\ Talking(Said)
  BY DEF StageStatuses, Talking, Said
<1> HIDE DEF h1, h2, h3, h4, h5, h6
<1>b. h \o PlannedStages(routes) = h6
  <2> DEFINE a == StageE("context", "ok")
             b == StageE("cache", "skipped")
             c == StageE("classify", "skipped")
             d == StageE("plan", "ok")
             e == RouteE(routes)
             f == StageE("gather", "skipped")
  <2>1. h \in Seq(Contract!Event)  BY DEF Tells
  <2>2. /\ a \in Contract!Event
        /\ b \in Contract!Event
        /\ c \in Contract!Event
        /\ d \in Contract!Event
        /\ e \in Contract!Event
        /\ f \in Contract!Event
    BY EventTypes, <1>a DEF StageNames
  <2>3. PlannedStages(routes) = <<a, b, c, d, e, f>>  BY DEF PlannedStages
  <2> HIDE DEF a, b, c, d, e, f
  <2>4. h \o <<a, b, c, d, e, f>> = Append(Append(Append(Append(Append(Append(h, a), b), c), d), e), f)
    BY <2>1, <2>2
  <2>5. QED  BY <2>3, <2>4 DEF h1, h2, h3, h4, h5, h6, a, b, c, d, e, f
<1>1. Tells(h1, {"turn.start", "stage"}, 2)  BY <1>a, TellNamed DEF h1
<1>2. Tells(h2, {"turn.start", "stage"}, 3)  BY <1>1, <1>a, TellNamed DEF h2
<1>3. Tells(h3, {"turn.start", "stage"}, 4)  BY <1>2, <1>a, TellNamed DEF h3
<1>4. Tells(h4, {"turn.start", "stage"}, 5)  BY <1>3, <1>a, TellNamed DEF h4
<1>5. Tells(h5, Said, 5)
  <2>1. Tells(h5, {"turn.start", "stage"} \cup {"route"}, 5)  BY <1>4, TellRoute DEF h5
  <2>2. {"turn.start", "stage"} \cup {"route"} = Said  BY DEF Said
  <2>3. QED  BY <2>1, <2>2
<1>6. Tells(h6, Said, 6)  BY <1>5, <1>a, TellNamed DEF h6
<1>7. QED  BY <1>6, <1>b

LEMMA OfferMore ==
  ASSUME EngineInv, queue = <<>>, events' = events, queue' \in Seq(Contract!Event),
         \A i \in 1..Len(Told) : Told[i].kind = "proposal" => Proposes' /\ Passes(request'),
         \A j \in 1..Len(queue') : queue'[j].kind = "proposal" => Proposes' /\ Passes(request')
  PROVE  Offering'
<1>1. Told \in Seq(Contract!Event) /\ Told' = Told \o queue'  BY BlockTells
<1>2. \A i \in 1..Len(Told \o queue') :
        (Told \o queue')[i].kind = "proposal" => Proposes' /\ Passes(request')
  BY <1>1, Elements
<1>3. QED  BY <1>1, <1>2 DEF Offering

LEMMA KindTold ==
  ASSUME NEW h, NEW kinds, NEW k, Tells(h, kinds, k), NEW i \in 1..Len(h)
  PROVE  h[i].kind \in kinds
BY DEF Tells, Contract!Kinds

LEMMA LawfulPrefix ==
  ASSUME NEW s \in Seq(Contract!Event), NEW q \in Seq(Contract!Event), Lawful(s \o q)
  PROVE  Lawful(s)
<1>1. /\ Len(s) \in Nat /\ 1..Len(s) \subseteq 1..Len(s \o q)
      /\ \A i \in 1..Len(s) : (s \o q)[i] = s[i]
  BY ConcatIs
<1>2. \A n \in 1..Len(s) : Before(s \o q, n) = Before(s, n)
  BY <1>1 DEF Before
<1>3. QED  BY <1>1, <1>2 DEF Lawful

LEMMA TellSame ==
  ASSUME TellInv, Told' = Told,
         UNCHANGED <<request, block, confirmed, answer, lastStatus, usage, structured, calls>>
  PROVE  TellInv'
<1>1. Proposes' = Proposes  BY DEF Proposes
<1>2. Telling'  BY DEF TellInv, Telling
<1>3. Agreeing'  BY DEF TellInv, Agreeing
<1>4. Offering'  BY <1>1 DEF TellInv, Offering
<1>5. Stopping'  BY <1>1 DEF TellInv, Stopping
<1>6. QED  BY <1>2, <1>3, <1>4, <1>5 DEF TellInv

LEMMA TellYield ==
  ASSUME EngineInv, TellInv, Yield
  PROVE  TellInv' /\ Follows(events, Head(queue)) /\ Head(queue) \in Contract!Event
<1>1. queue \in Seq(Contract!Event) /\ queue # <<>> /\ events \in Seq(Contract!Event)
  BY DEF EngineInv, TypeOK, Yield
<1>2. events' = Append(events, Head(queue)) /\ queue' = Tail(queue)
  BY DEF Yield
<1>3. Told' = Told  BY <1>1, <1>2, HandedOver DEF Told
<1>4. TellInv'  BY <1>3, TellSame DEF Yield, callVars
<1>5. Lawful(events \o queue)  BY DEF TellInv, Telling, Told
<1>6. Follows(events, Head(queue))
  <2>1. Follows(Before(events \o queue, Len(events) + 1), (events \o queue)[Len(events) + 1])
    BY <1>1, <1>5, HandedOver DEF Lawful
  <2>2. QED  BY <1>1, <2>1, HandedOver
<1>7. QED  BY <1>1, <1>4, <1>6

LEMMA TellOutside ==
  ASSUME EngineInv, TellInv, Disconnect \/ Tick \/ UNCHANGED vars
  PROVE  TellInv'
<1>1. CASE Tick \/ UNCHANGED vars
  BY <1>1, TellSame DEF Tick, vars, engineVars, callVars, Told
<1>2. CASE Disconnect
  <2>1. /\ queue' = <<>> /\ block' = "cut"
        /\ UNCHANGED <<request, events, confirmed, answer, lastStatus, usage, structured, calls>>
    BY <1>2 DEF Disconnect, Yields, callVars
  <2>2. queue \in Seq(Contract!Event) /\ events \in Seq(Contract!Event)
    BY DEF EngineInv, TypeOK
  <2>3. Told' = events  BY <2>1, <2>2, EmptyQueue DEF Told
  <2>4. Lawful(events)  BY <2>2, LawfulPrefix DEF TellInv, Telling, Told
  <2>5. Telling'  BY <2>1, <2>3, <2>4 DEF Telling
  <2>6. \A i \in 1..Len(events) : i \in 1..Len(Told) /\ Told[i] = events[i]
    BY <2>2, ConcatIs DEF Told
  <2>7. Agreeing'  BY <2>1, <2>3, <2>6 DEF TellInv, Agreeing
  <2>8. Proposes' = Proposes  BY <2>1 DEF Proposes
  <2>9. Offering'  BY <2>1, <2>3, <2>6, <2>8 DEF TellInv, Offering
  <2>10. Stopping'  BY <2>1, <2>8 DEF TellInv, Stopping, Late
  <2>11. QED  BY <2>5, <2>7, <2>9, <2>10 DEF TellInv
<1>3. QED  BY <1>1, <1>2

LEMMA TellInit == Init => TellInv
<1> SUFFICES ASSUME Init PROVE TellInv
  OBVIOUS
<1>1. Told = <<>>  BY DEF Init, Told
<1>2. Telling  BY <1>1 DEF Init, Telling, Lawful
<1>3. Agreeing /\ Offering  BY <1>1 DEF Agreeing, Offering
<1>4. Stopping  BY DEF Init, Stopping
<1>5. QED  BY <1>2, <1>3, <1>4 DEF TellInv

-----------------------------------------------------------------------------
\* The blocks up to the plan.
LEMMA TellOpening ==
  ASSUME EngineInv, TellInv, Start \/ Screen
  PROVE  TellInv'
<1>1. /\ queue = <<>> /\ queue' \in Seq(Contract!Event)
      /\ UNCHANGED <<request, events, confirmed, answer, lastStatus, usage, structured, calls>>
  BY EventBlocks DEF Start, Screen, Runs, callVars
<1>2. Told = events /\ Told \in Seq(Contract!Event) /\ Told' = Told \o queue'
  BY <1>1, BlockTells
<1>3. CASE Start
  <2>1. block = "start" /\ block' = "screen" /\ queue' = <<E("turn.start")>>
    BY <1>3 DEF Start, Runs, Yields
  <2>2. Told = <<>>  BY <2>1 DEF TellInv, Telling
  <2>3. E("turn.start") \in Contract!Event  BY EventTypes
  <2>4. Told' = Append(<<>>, E("turn.start"))  BY <1>2, <2>1, <2>2, <2>3, Appended
  <2>5. Tells(Told', {"turn.start"}, 0)  BY <2>4, TellStart
  <2>6. Telling'  BY <2>1, <2>5 DEF Telling, Tells
  <2>7. \A j \in 1..Len(queue') : queue'[j].kind = "turn.start"
    BY <2>1 DEF E
  <2>8. Agreeing'  BY <1>1, <2>2, <2>7, AgreeMore DEF Agrees
  <2>9. Offering'  BY <1>1, <2>2, <2>7, OfferMore
  <2>10. Proposes' = Proposes  BY <1>1 DEF Proposes
  <2>11. Stopping'  BY <1>1, <2>1, <2>10 DEF TellInv, Stopping
  <2>12. QED  BY <2>6, <2>8, <2>9, <2>11 DEF TellInv
<1>4. CASE Screen
  <2> DEFINE st == IF Blocked THEN "blocked" ELSE "ok"
             e == StageE("guardrails_in", st)
  <2>1. block = "screen" /\ block' = "decide" /\ queue' = <<e>>
    BY <1>4 DEF Screen, Runs, Yields
  <2>2. st \in StageStatuses /\ st # "degraded"  BY DEF StageStatuses
  <2>3. e \in Contract!Event /\ e.kind = "stage" /\ e.status = st
    BY <2>2, EventTypes DEF StageE, StageNames
  <2>4. Tells(Told, {"turn.start"}, 0)  BY <2>1 DEF TellInv, Telling
  <2> HIDE DEF st
  <2>5. Tells(Append(Told, e), {"turn.start", "stage"}, 1)
    <3>1. Pipeline[0 + 1] = "guardrails_in" /\ 0 + 1 = 1 /\ 0 \in 0..8 /\ 0 # 8
      BY DEF Pipeline
    <3>2. Tells(Append(Told, StageE(Pipeline[0 + 1], st)), {"turn.start"} \cup {"stage"}, 0 + 1)
      BY <2>2, <2>4, <3>1, TellStage
    <3>3. QED  BY <3>1, <3>2
  <2> HIDE DEF e
  <2>6. Told' = Append(Told, e)  BY <1>2, <2>1, <2>3, Appended
  <2>7. Telling'  BY <2>1, <2>5, <2>6 DEF Telling, Tells
  <2>8. \A j \in 1..Len(queue') : queue'[j] = e  BY <2>1
  <2>9. Agreeing'
    BY <1>1, <2>2, <2>3, <2>8, AgreeMore DEF Agrees, TellInv, Agreeing
  <2>10. Proposes' = Proposes  BY <1>1 DEF Proposes
  <2>11. Offering'
    BY <1>1, <2>3, <2>8, <2>10, OfferMore DEF TellInv, Offering
  <2>12. Stopping'  BY <1>1, <2>1, <2>10 DEF TellInv, Stopping
  <2>13. QED  BY <2>7, <2>9, <2>11, <2>12 DEF TellInv
<1>5. QED  BY <1>3, <1>4

\* Before the plan nothing depends on the outcome.
LEMMA NothingDecided ==
  ASSUME EngineInv, TellInv, block = "decide", NEW i \in 1..Len(Told)
  PROVE  /\ Told[i].kind \in {"turn.start", "stage"}
         /\ Told[i].kind = "stage" /\ Told[i].status = "degraded" =>
              lastStatus \in {"degraded", "error"}
<1>1. Tells(Told, {"turn.start", "stage"}, 1)  BY DEF TellInv, Telling
<1>2. QED  BY <1>1, KindTold DEF TellInv, Agreeing, Agrees

\* What is skipped or planned is neither degraded nor an answer.
Plain(e) == e.kind \in {"stage", "route"} /\ (e.kind = "stage" => e.status \in {"ok", "skipped"})

LEMMA PlainPlans ==
  /\ \A j \in 1..Len(SkippedStages) : Plain(SkippedStages[j])
  /\ \A routes, j : j \in 1..Len(PlannedStages(routes)) => Plain(PlannedStages(routes)[j])
<1>1. \A s \in StageNames, st \in {"ok", "skipped"} : Plain(StageE(s, st))
  BY DEF StageE, Plain
<1>2. \A routes : Plain(RouteE(routes))  BY DEF RouteE, E, Plain
<1>3. \A j \in 1..Len(SkippedStages) : Plain(SkippedStages[j])
  BY <1>1, <1>2 DEF SkippedStages, StageNames
<1>4. ASSUME NEW routes, NEW j \in 1..Len(PlannedStages(routes))
      PROVE  Plain(PlannedStages(routes)[j])
  BY <1>1, <1>2 DEF PlannedStages, StageNames
<1>5. QED  BY <1>3, <1>4

LEMMA TellDecide ==
  ASSUME EngineInv, TellInv, Refuse \/ OverBudget \/ Admit
  PROVE  TellInv'
<1>1. /\ block = "decide" /\ queue = <<>> /\ queue' \in Seq(Contract!Event)
      /\ UNCHANGED <<request, events, usage, structured, calls>>
  BY EventBlocks DEF Refuse, OverBudget, Admit, Runs, callVars
<1>2. Told = events /\ Told \in Seq(Contract!Event) /\ Told' = Told \o queue'
  BY <1>1, BlockTells
<1>3. Tells(Told, {"turn.start", "stage"}, 1)  BY <1>1 DEF TellInv, Telling
<1>4. \A i \in 1..Len(Told) :
        /\ Told[i].kind \in {"turn.start", "stage"}
        /\ Told[i].kind = "stage" /\ Told[i].status = "degraded" => lastStatus \in {"degraded", "error"}
  BY <1>1, NothingDecided
<1>5. queue' \in {SkippedStages, PlannedStages("direct"), PlannedStages("action")}
  BY DEF Refuse, OverBudget, Admit, Yields
<1>6. \A j \in 1..Len(queue') : Plain(queue'[j])  BY <1>5, PlainPlans
<1>7. lastStatus' \in {lastStatus, "degraded"}  BY DEF Refuse, OverBudget, Admit
<1>8. Agreeing'
  BY <1>1, <1>4, <1>6, <1>7, AgreeMore DEF Agrees, Plain
<1>9. Offering'  BY <1>1, <1>4, <1>6, OfferMore DEF Plain
<1>10. usage = NoUsage  BY <1>1 DEF EngineInv, Spending, Early
<1>11. CASE Refuse \/ OverBudget
  <2>1. block' = "finish" /\ queue' = SkippedStages /\ confirmed' = confirmed
    BY <1>11 DEF Refuse, OverBudget, Yields
  <2>2. Tells(Told', Said, 7)  BY <1>2, <1>3, <2>1, TellSkipped
  <2>3. Said \cup {} = Said /\ {} \in Offers  BY DEF Offers
  <2>4. Telling'  BY <2>1, <2>2, <2>3 DEF Telling, Tells
  <2>5. Stopping'
    <3>1. CASE Refuse
      <4>1. ~Passes(request) /\ Passes(request)' = Passes(request)  BY <1>1, <3>1 DEF Refuse, Passes
      <4>2. answer' = "refusal" <=> "injection" \in request.found
        BY <3>1 DEF Refuse, Verdict
      <4>3. lastStatus' = lastStatus  BY <3>1 DEF Refuse
      <4>4. QED  BY <1>1, <1>10, <2>1, <4>1, <4>2, <4>3 DEF TellInv, Stopping, Proposes
    <3>2. CASE OverBudget
      <4>1. Passes(request) /\ Passes(request)' = Passes(request) /\ answer' = answer
        BY <1>1, <3>2 DEF OverBudget, Passes
      <4>2. QED  BY <1>1, <1>10, <2>1, <4>1 DEF TellInv, Stopping, Proposes
    <3>3. QED  BY <1>11, <3>1, <3>2
  <2>6. QED  BY <1>8, <1>9, <2>4, <2>5 DEF TellInv
<1>12. CASE Admit
  <2>1. PICK routes \in {"direct", "action"} :
          /\ block' \in {"propose", "synthesise"} /\ queue' = PlannedStages(routes)
          /\ answer' = answer /\ Passes(request)
    BY <1>12 DEF Admit, Yields
  <2>2. Tells(Told', Said, 6)  BY <1>2, <1>3, <2>1, TellPlanned
  <2>3. Said \cup {} = Said /\ {} \in Offers  BY DEF Offers
  <2>4. Telling'  BY <2>1, <2>2, <2>3 DEF Telling, Tells
  <2>5. Passes(request)' = Passes(request)  BY <1>1 DEF Passes
  <2>6. Stopping'  BY <1>1, <1>10, <2>1, <2>5 DEF TellInv, Stopping
  <2>7. QED  BY <1>8, <1>9, <2>4, <2>6 DEF TellInv
<1>13. QED  BY <1>11, <1>12

LEMMA TellPropose == ASSUME EngineInv, TellInv, Propose PROVE TellInv'
<1>1. /\ block = "propose" /\ block' = "synthesise" /\ queue = <<>> /\ queue' = <<E("proposal")>>
      /\ queue' \in Seq(Contract!Event)
      /\ UNCHANGED <<request, events, confirmed, answer, lastStatus, usage, structured, calls>>
  BY EventBlocks DEF Propose, Runs, Yields, callVars
<1>2. Told = events /\ Told \in Seq(Contract!Event) /\ Told' = Told \o queue'
  BY <1>1, BlockTells
<1>3. E("proposal") \in Contract!Event /\ E("proposal").kind = "proposal"
  BY EventTypes DEF E
<1>4. Told' = Append(Told, E("proposal"))  BY <1>1, <1>2, <1>3, Appended
<1>5. Tells(Told, Said, 6)  BY <1>1 DEF TellInv, Telling
<1>6. Tells(Told', Said \cup {"proposal"}, 6)
  <2>1. /\ "turn.start" \in Said /\ "route" \in Said
        /\ Said \cap {"turn.end", "error", "proposal"} = {} /\ 6 \in 0..9
    BY DEF Said
  <2>2. QED  BY <1>4, <1>5, <2>1, TellOther
<1>7. Telling'  BY <1>1, <1>6 DEF Telling, Tells, Offers
<1>8. \A j \in 1..Len(queue') : queue'[j] = E("proposal")  BY <1>1
<1>9. Agreeing'  BY <1>1, <1>3, <1>8, AgreeMore DEF Agrees, TellInv, Agreeing
<1>10. Proposes' = Proposes /\ Proposes /\ Passes(request)
  BY <1>1 DEF EngineInv, Paths, Proposes, TellInv, Stopping, Late
<1>11. Offering'  BY <1>1, <1>10, OfferMore DEF TellInv, Offering
<1>12. Stopping'  BY <1>1, <1>10 DEF TellInv, Stopping
<1>13. QED  BY <1>7, <1>9, <1>11, <1>12 DEF TellInv

\* The answer is found, with or without a call.
LEMMA TellSynthesis ==
  ASSUME EngineInv, TellInv,
         \/ Canned \/ Exhausted \/ CallFails \/ StructuredFails
         \/ \E c \in 0..MaxCallCost : (CallReturns(c) /\ ~AsksAgain(c)) \/ StructuredReturns(c)
  PROVE  TellInv'
<1> DEFINE e(st) == StageE("synthesise", st)
<1>1. /\ block \in {"synthesise", "calling", "structuring"} /\ block' = "finish"
      /\ block = "synthesise" => UNCHANGED usage
      /\ queue = <<>> /\ UNCHANGED <<request, events, confirmed, answer>>
      /\ lastStatus' = "degraded" \/ lastStatus' = lastStatus
  BY DEF Canned, Exhausted, CallFails, StructuredFails, CallReturns, StructuredReturns,
         Runs, Yields, callVars
<1>2. PICK st \in {"ok", "degraded"} :
        queue' = <<e(st)>> /\ (st = "degraded" => lastStatus' = "degraded")
  BY DEF Canned, Exhausted, CallFails, StructuredFails, CallReturns, StructuredReturns, Yields
<1>3. e(st) \in Contract!Event /\ e(st).kind = "stage" /\ e(st).status = st /\ st \in StageStatuses
  BY EventTypes DEF StageE, StageNames, StageStatuses
<1>4. queue' \in Seq(Contract!Event)  BY <1>2, <1>3
<1>5. Told = events /\ Told \in Seq(Contract!Event) /\ Told' = Told \o queue'
  BY <1>1, <1>4, BlockTells
<1>6. Told' = Append(Told, e(st))  BY <1>2, <1>3, <1>5, Appended
<1>7. PICK P \in Offers : Tells(Told, Said \cup P, 6)
  <2>1. Said \cup {} = Said /\ {} \in Offers  BY DEF Offers
  <2>2. QED  BY <1>1, <2>1 DEF TellInv, Telling
<1>8. Tells(Told', Said \cup P, 7)
  <2>1. Talking(Said \cup P)  BY DEF Talking, Said, Offers
  <2>2. QED  BY <1>3, <1>6, <1>7, <2>1, TellNamed
<1>9. Telling'  BY <1>1, <1>8 DEF Telling, Tells
<1>10. \A j \in 1..Len(queue') : queue'[j] = e(st)  BY <1>2
<1> HIDE DEF e
<1>11. \A i \in 1..Len(Told) : Told[i].kind # "answer" /\ Told[i].kind # "turn.end"
  BY <1>7, KindTold DEF Said, Offers
<1>12. Agreeing'
  BY <1>1, <1>2, <1>3, <1>4, <1>10, <1>11, AgreeMore DEF Agrees, TellInv, Agreeing
<1>13. Proposes' = Proposes /\ Passes(request') = Passes(request)  BY <1>1 DEF Proposes
<1>14. Offering'
  BY <1>1, <1>3, <1>4, <1>10, <1>13, OfferMore DEF TellInv, Offering
<1>15. Passes(request)
  BY <1>1 DEF TellInv, Stopping, Late
<1>16. Stopping'
  BY <1>1, <1>13, <1>15 DEF TellInv, Stopping
<1>17. QED  BY <1>9, <1>12, <1>14, <1>16 DEF TellInv

\* A call that goes out tells nothing.
LEMMA TellCall ==
  ASSUME EngineInv, TellInv,
         Call \/ \E c \in 0..MaxCallCost : CallReturns(c) /\ AsksAgain(c)
  PROVE  TellInv'
<1>1. /\ block \in {"synthesise", "calling"} /\ block' \in {"calling", "structuring"}
      /\ queue = <<>> /\ queue' = <<>>
      /\ UNCHANGED <<request, events, confirmed, answer, lastStatus>>
      /\ block = "synthesise" => ~Proposes
  BY DEF Call, CallReturns, Runs, Yields, NeedsModel
<1>2. Told' = Told  BY <1>1 DEF Told
<1>3. Proposes' = Proposes /\ Passes(request') = Passes(request)  BY <1>1 DEF Proposes
<1>4. ~Proposes /\ Passes(request)
  BY <1>1 DEF TellInv, Stopping, Late
<1>5. Tells(Told, Said, 6)
  <2>1. CASE block = "calling"  BY <2>1 DEF TellInv, Telling
  <2>2. CASE block = "synthesise"
    <3>1. PICK P \in Offers : Tells(Told, Said \cup P, 6)  BY <2>2 DEF TellInv, Telling
    <3>2. "proposal" \notin Contract!Kinds(Told)
      <4>1. Told \in Seq(Contract!Event)  BY <3>1 DEF Tells
      <4>2. QED  BY <1>4, <4>1 DEF Contract!Kinds, TellInv, Offering
    <3>3. P = {}  BY <3>1, <3>2 DEF Tells, Offers
    <3>4. QED  BY <3>1, <3>3
  <2>3. QED  BY <1>1, <2>1, <2>2
<1>6. Telling'  BY <1>1, <1>2, <1>5 DEF Telling, Tells
<1>7. Agreeing'  BY <1>1, <1>2 DEF TellInv, Agreeing
<1>8. Offering'  BY <1>1, <1>2, <1>3 DEF TellInv, Offering
<1>9. Stopping'  BY <1>1, <1>3, <1>4 DEF TellInv, Stopping
<1>10. QED  BY <1>6, <1>7, <1>8, <1>9 DEF TellInv

LEMMA TellRaise == ASSUME EngineInv, TellInv, Raise PROVE TellInv'
<1>1. /\ block \in {"calling", "structuring"} /\ block' = "end"
      /\ queue = <<>> /\ queue' = <<E("error")>> /\ lastStatus' = "error"
      /\ queue' \in Seq(Contract!Event)
      /\ UNCHANGED <<request, events, confirmed, answer, usage, structured, calls>>
  BY EventBlocks DEF Raise, Runs, Yields, callVars
<1>2. Told = events /\ Told \in Seq(Contract!Event) /\ Told' = Told \o queue'
  BY <1>1, BlockTells
<1>3. E("error") \in Contract!Event /\ E("error").kind = "error"
  BY EventTypes DEF E
<1>4. Told' = Append(Told, E("error"))  BY <1>1, <1>2, <1>3, Appended
<1>5. Tells(Told, Said, 6)  BY <1>1 DEF TellInv, Telling
<1>6. Tells(Told', Said \cup {"error"}, 6)
  <2>1. "turn.start" \in Said /\ Said \cap {"turn.end", "error"} = {} /\ 6 \in 0..9
    BY DEF Said
  <2>2. QED  BY <1>4, <1>5, <2>1, TellOther
<1>7. Telling'  BY <1>1, <1>6 DEF Telling, Tells
<1>8. \A j \in 1..Len(queue') : queue'[j] = E("error")  BY <1>1
<1>9. \A i \in 1..Len(Told) : Told[i].kind \notin {"answer", "turn.end", "proposal"}
  BY <1>5, KindTold DEF Said
<1>10. Agreeing'  BY <1>1, <1>3, <1>8, <1>9, AgreeMore DEF Agrees
<1>11. Offering'  BY <1>1, <1>3, <1>8, <1>9, OfferMore
<1>12. Proposes' = Proposes /\ Passes(request') = Passes(request)  BY <1>1 DEF Proposes
<1>13. Passes(request)  BY <1>1 DEF TellInv, Stopping, Late
<1>14. Stopping'  BY <1>1, <1>12, <1>13 DEF TellInv, Stopping
<1>15. QED  BY <1>7, <1>10, <1>11, <1>14 DEF TellInv

LEMMA TellFinish == ASSUME EngineInv, TellInv, Finish PROVE TellInv'
<1> DEFINE g == StageE("guardrails_out", "ok")
           a == AnswerE(answer, structured)
<1>1. /\ block = "finish" /\ block' = "persist" /\ queue = <<>> /\ queue' = <<g, a>>
      /\ queue' \in Seq(Contract!Event)
      /\ UNCHANGED <<request, events, confirmed, answer, lastStatus, usage, structured, calls>>
  BY EventBlocks DEF Finish, Runs, Yields, callVars
<1>2. Told = events /\ Told \in Seq(Contract!Event) /\ Told' = Told \o queue'
  BY <1>1, BlockTells
<1>3. /\ g \in Contract!Event /\ g.kind = "stage" /\ g.status = "ok"
      /\ a \in Contract!Event /\ a.kind = "answer" /\ a.status = answer
      /\ answer \in {"answer", "refusal", "escalated"} /\ structured \in Bodies
  BY EventTypes DEF StageE, AnswerE, StageNames, StageStatuses, EngineInv, TypeOK, Answers
<1>4. PICK P \in Offers : Tells(Told, Said \cup P, 7)  BY <1>1 DEF TellInv, Telling
<1>5. Tells(Append(Told, g), Said \cup P, 8)
  <2>1. Talking(Said \cup P)  BY DEF Talking, Said, Offers
  <2>2. "ok" \in StageStatuses  BY DEF StageStatuses
  <2>3. QED  BY <1>4, <2>1, <2>2, TellNamed
<1>6. Tells(Append(Append(Told, g), a), Said \cup P \cup {"answer"}, 8)
  <2>1. /\ {"turn.start", "route"} \subseteq Said \cup P
        /\ (Said \cup P) \cap {"turn.end", "error", "answer"} = {}
    BY DEF Said, Offers
  <2> HIDE DEF g
  <2>2. QED  BY <1>3, <1>5, <2>1, TellAnswer
<1> HIDE DEF g, a
<1>7. Told' = Append(Append(Told, g), a)  BY <1>1, <1>2, <1>3, AppendedTwo
<1>8. Telling'  BY <1>1, <1>6, <1>7 DEF Telling, Tells
<1>9. \A j \in 1..Len(queue') : queue'[j] = g \/ queue'[j] = a  BY <1>1
<1>10. Agreeing'
  BY <1>1, <1>3, <1>9, AgreeMore DEF Agrees, TellInv, Agreeing
<1>11. Proposes' = Proposes /\ Passes(request') = Passes(request)  BY <1>1 DEF Proposes
<1>12. Offering'
  BY <1>1, <1>3, <1>9, <1>11, OfferMore DEF TellInv, Offering
<1>13. Stopping'  BY <1>1, <1>11 DEF TellInv, Stopping
<1>14. QED  BY <1>8, <1>10, <1>12, <1>13 DEF TellInv

LEMMA TellPersist == ASSUME EngineInv, TellInv, Persist PROVE TellInv'
<1> DEFINE p == StageE("persist", "ok")
           u == E("usage")
<1>1. /\ block = "persist" /\ block' = "end" /\ queue = <<>> /\ queue' = <<p, u>>
      /\ queue' \in Seq(Contract!Event)
      /\ UNCHANGED <<request, events, confirmed, answer, lastStatus, usage, structured, calls>>
  BY EventBlocks DEF Persist, Runs, Yields, callVars
<1>2. Told = events /\ Told \in Seq(Contract!Event) /\ Told' = Told \o queue'
  BY <1>1, BlockTells
<1>3. /\ p \in Contract!Event /\ p.kind = "stage" /\ p.status = "ok"
      /\ u \in Contract!Event /\ u.kind = "usage"
  BY EventTypes DEF StageE, E, StageNames, StageStatuses
<1>4. PICK P \in Offers : Tells(Told, Said \cup P \cup {"answer"}, 8)
  BY <1>1 DEF TellInv, Telling
<1> DEFINE kinds == Said \cup P \cup {"answer"}
<1>5. Talking(kinds) /\ "answer" \in kinds /\ "usage" \notin kinds /\ "turn.start" \in kinds
  BY DEF Talking, Said, Offers
<1> HIDE DEF kinds
<1>6. Tells(Append(Told, p), kinds, 9)
  <2>1. "ok" \in StageStatuses  BY DEF StageStatuses
  <2>2. Tells(Told, kinds, 8)  BY <1>4 DEF kinds
  <2>3. QED  BY <1>5, <2>1, <2>2, TellNamed
<1>7. Tells(Append(Append(Told, p), u), kinds \cup {"usage"}, 9)
  <2>1. kinds \cap {"turn.end", "error", "usage"} = {} /\ 9 \in 0..9  BY <1>5 DEF Talking
  <2> HIDE DEF p
  <2>2. QED  BY <1>5, <1>6, <2>1, TellOther
<1> HIDE DEF p, u
<1>8. Told' = Append(Append(Told, p), u)  BY <1>1, <1>2, <1>3, AppendedTwo
<1>9. Tells(Told', Said \cup P \cup {"answer", "usage"}, 9)
  <2>1. kinds \cup {"usage"} = Said \cup P \cup {"answer", "usage"}  BY DEF kinds
  <2>2. QED  BY <1>7, <1>8, <2>1
<1>10. lastStatus # "error"
  BY <1>1 DEF EngineInv, Paths, Late
<1>11. Telling'  BY <1>1, <1>9, <1>10 DEF Telling, Tells
<1>12. \A j \in 1..Len(queue') : queue'[j] = p \/ queue'[j] = u  BY <1>1
<1>13. Agreeing'
  BY <1>1, <1>3, <1>12, AgreeMore DEF Agrees, TellInv, Agreeing
<1>14. Proposes' = Proposes /\ Passes(request') = Passes(request)  BY <1>1 DEF Proposes
<1>15. Offering'
  BY <1>1, <1>3, <1>12, <1>14, OfferMore DEF TellInv, Offering
<1>16. Stopping'  BY <1>1, <1>14 DEF TellInv, Stopping, Late
<1>17. QED  BY <1>11, <1>13, <1>15, <1>16 DEF TellInv

-----------------------------------------------------------------------------
(* The last event *)

LEMMA StatusOf ==
  ASSUME NEW e \in Contract!Event
  PROVE  /\ e.status = "refusal" => e.kind = "answer"
         /\ e.kind \in {"turn.start", "stage", "route", "proposal", "answer", "usage", "error",
                        "turn.end"}
<1>1. None # "refusal"  BY TurnEngineAssumption DEF Answers
<1>2. QED  BY <1>1 DEF Contract!Event

\* A refusal was told exactly if the answer that was told is one.
LEMMA RefusalTold ==
  ASSUME EngineInv, TellInv, NEW kinds, NEW k, Tells(Told, kinds, k)
  PROVE  /\ (\E i \in 1..Len(Told) : Told[i].status = "refusal")
              <=> answer = "refusal" /\ "answer" \in kinds
         /\ (\E e \in Range(Told) : e.kind = "answer" /\ e.status = "refusal")
              <=> answer = "refusal" /\ "answer" \in kinds
<1>1. /\ Told \in Seq(Contract!Event) /\ kinds = {Told[i].kind : i \in 1..Len(Told)}
      /\ \A i \in 1..Len(Told) : Told[i] \in Contract!Event
  BY DEF Tells, Contract!Kinds
<1>3. \A i \in 1..Len(Told) : Told[i].kind = "answer" => Told[i].status = answer
  BY DEF TellInv, Agreeing, Agrees
<1>4. (\E i \in 1..Len(Told) : Told[i].status = "refusal")
              <=> answer = "refusal" /\ "answer" \in kinds
  BY <1>1, <1>3, StatusOf
<1>5. (\E e \in Range(Told) : e.kind = "answer" /\ e.status = "refusal")
        <=> \E i \in 1..Len(Told) : Told[i].status = "refusal"
  <2>1. Range(Told) = {Told[i] : i \in 1..Len(Told)}  BY <1>1 DEF Range
  <2>2. QED  BY <1>1, <2>1, StatusOf
<1>6. QED  BY <1>4, <1>5

LEMMA TellStatus ==
  ASSUME EngineInv, TellInv, block = "end", queue = <<>>
  PROVE  /\ Status = Outcome(answer, lastStatus)
         /\ Status \in {"ok", "refused", "degraded", "error"}
         /\ Contract!Truthful(Told, Status)
<1>1. Told = events /\ Told \in Seq(Contract!Event)
  BY EmptyQueue DEF Told, EngineInv, TypeOK
<1>2. PICK P \in Offers :
        IF lastStatus = "error" THEN Tells(Told, Said \cup {"error"}, 6)
        ELSE Tells(Told, Said \cup P \cup {"answer", "usage"}, 9)
  <2>1. {} \in Offers  BY DEF Offers
  <2>2. QED  BY <2>1 DEF TellInv, Telling
<1>3. answer = "refusal" => lastStatus = "ok"
  BY DEF TellInv, Stopping
<1>4. \A i \in 1..Len(Told) : Told[i].kind = "stage" /\ Told[i].status = "degraded" =>
        lastStatus \in {"degraded", "error"}
  BY DEF TellInv, Agreeing, Agrees
<1>5. DOMAIN Told = 1..Len(Told)  BY <1>1
<1>6. CASE lastStatus = "error"
  <2>1. Tells(Told, Said \cup {"error"}, 6) /\ "answer" \notin Said \cup {"error"}
    BY <1>2, <1>6 DEF Said
  <2>2. Status = "error" /\ Outcome(answer, lastStatus) = "error"
    BY <1>6 DEF Status, Outcome
  <2>3. "error" \in Contract!Kinds(Told)  BY <2>1 DEF Tells
  <2>4. ~ \E i \in 1..Len(Told) : Told[i].status = "refusal"
    BY <2>1, RefusalTold
  <2>5. Contract!Truthful(Told, "error")
    BY <1>5, <2>3, <2>4 DEF Contract!Truthful
  <2>6. QED  BY <2>2, <2>5
<1>7. CASE lastStatus # "error"
  <2> DEFINE kinds == Said \cup P \cup {"answer", "usage"}
  <2>1. Tells(Told, kinds, 9)  BY <1>2, <1>7
  <2>2. "answer" \in kinds /\ "error" \notin kinds  BY DEF Said, Offers
  <2> HIDE DEF kinds
  <2>3. /\ (\E i \in 1..Len(Told) : Told[i].status = "refusal") <=> answer = "refusal"
        /\ (\E e \in Range(Told) : e.kind = "answer" /\ e.status = "refusal")
             <=> answer = "refusal"
    BY <2>1, <2>2, RefusalTold
  <2>4. Status = Outcome(answer, lastStatus)
    BY <1>1, <1>7, <2>3 DEF Status, Outcome
  <2>5. lastStatus \in {"ok", "degraded"}  BY <1>7 DEF EngineInv, TypeOK
  <2>6. /\ Status \in {"ok", "refused", "degraded"}
        /\ Status = "refused" <=> answer = "refusal"
        /\ Status # "refused" => Status = lastStatus
    BY <2>4, <2>5 DEF Outcome
  <2>7. "error" \notin Contract!Kinds(Told)  BY <2>1, <2>2 DEF Tells
  <2>8. Contract!Truthful(Told, Status)
    BY <1>3, <1>4, <1>5, <2>3, <2>5, <2>6, <2>7 DEF Contract!Truthful
  <2>9. QED  BY <2>4, <2>6, <2>8
<1>8. QED  BY <1>6, <1>7

LEMMA TellTheEnd == ASSUME EngineInv, TellInv, End PROVE TellInv'
<1> DEFINE e == EndE(Status)
<1>1. /\ block = "end" /\ block' = "done" /\ queue = <<>> /\ queue' = <<e>>
      /\ queue' \in Seq(Contract!Event)
      /\ UNCHANGED <<request, events, confirmed, answer, lastStatus, usage, structured, calls>>
  BY EventBlocks DEF End, Runs, Yields, callVars
<1>2. Told = events /\ Told \in Seq(Contract!Event) /\ Told' = Told \o queue'
  BY <1>1, BlockTells
<1>3. /\ Status = Outcome(answer, lastStatus)
      /\ Status \in {"ok", "refused", "degraded", "error"}
      /\ Contract!Truthful(Told, Status)
  BY <1>1, TellStatus
<1>4. /\ e \in Contract!Event /\ e.kind = "turn.end" /\ e.status = Status
  BY <1>3, EventTypes DEF EndE, E
<1>5. PICK P \in Offers :
        IF lastStatus = "error" THEN Tells(Told, Said \cup {"error"}, 6)
        ELSE Tells(Told, Said \cup P \cup {"answer", "usage"}, 9)
  <2>1. {} \in Offers  BY DEF Offers
  <2>2. QED  BY <1>1, <2>1 DEF TellInv, Telling
<1>6. IF lastStatus = "error" THEN Tells(Append(Told, e), Said \cup {"error", "turn.end"}, 6)
      ELSE Tells(Append(Told, e), Said \cup P \cup {"answer", "usage", "turn.end"}, 9)
  <2>1. CASE lastStatus = "error"
    <3> DEFINE kinds == Said \cup {"error"}
    <3>1. "turn.start" \in kinds /\ "turn.end" \notin kinds /\ kinds \cap {"usage", "error"} # {}
      BY DEF Said
    <3>2. kinds \cup {"turn.end"} = Said \cup {"error", "turn.end"}  OBVIOUS
    <3>3. Tells(Told, kinds, 6)  BY <1>5, <2>1
    <3> HIDE DEF kinds
    <3>4. Tells(Append(Told, e), kinds \cup {"turn.end"}, 6)
      BY <1>3, <3>1, <3>3, TellEnd
    <3>5. QED  BY <2>1, <3>2, <3>4
  <2>2. CASE lastStatus # "error"
    <3> DEFINE kinds == Said \cup P \cup {"answer", "usage"}
    <3>1. "turn.start" \in kinds /\ "turn.end" \notin kinds /\ kinds \cap {"usage", "error"} # {}
      BY DEF Said, Offers
    <3>2. kinds \cup {"turn.end"} = Said \cup P \cup {"answer", "usage", "turn.end"}  OBVIOUS
    <3>3. Tells(Told, kinds, 9)  BY <1>5, <2>2
    <3> HIDE DEF kinds
    <3>4. Tells(Append(Told, e), kinds \cup {"turn.end"}, 9)
      BY <1>3, <3>1, <3>3, TellEnd
    <3>5. QED  BY <2>2, <3>2, <3>4
  <2>3. QED  BY <2>1, <2>2
<1> HIDE DEF e
<1>7. Told' = Append(Told, e)  BY <1>1, <1>2, <1>4, Appended
<1>8. Telling'
  <2>1. Lawful(Told')  BY <1>6, <1>7 DEF Tells
  <2>2. QED  BY <1>1, <1>6, <1>7, <2>1 DEF Telling
<1>9. \A j \in 1..Len(queue') : queue'[j] = e  BY <1>1
<1>10. Agreeing'
  BY <1>1, <1>3, <1>4, <1>9, AgreeMore DEF Agrees, TellInv, Agreeing
<1>11. Proposes' = Proposes /\ Passes(request') = Passes(request)  BY <1>1 DEF Proposes
<1>12. Offering'
  BY <1>1, <1>4, <1>9, <1>11, OfferMore DEF TellInv, Offering
<1>13. Stopping'  BY <1>1, <1>11 DEF TellInv, Stopping, Late
<1>14. QED  BY <1>8, <1>10, <1>12, <1>13 DEF TellInv

\* What is told stays lawful and says what the turn came to.
THEOREM TellCorrect == Spec => []TellInv
<1>1. EngineInv /\ TellInv /\ [Next]_vars => TellInv'
  <2> SUFFICES ASSUME EngineInv, TellInv, [Next]_vars PROVE TellInv'
    OBVIOUS
  <2>1. CASE Yield  BY <2>1, TellYield
  <2>2. CASE Start \/ Screen  BY <2>2, TellOpening
  <2>3. CASE Refuse \/ OverBudget \/ Admit  BY <2>3, TellDecide
  <2>4. CASE Propose  BY <2>4, TellPropose
  <2>5. CASE Canned \/ Exhausted \/ CallFails \/ StructuredFails
    BY <2>5, TellSynthesis
  <2>6. CASE \E c \in 0..MaxCallCost : CallReturns(c) \/ StructuredReturns(c)
    BY <2>6, TellSynthesis, TellCall
  <2>7. CASE Call  BY <2>7, TellCall
  <2>8. CASE Raise  BY <2>8, TellRaise
  <2>9. CASE Finish  BY <2>9, TellFinish
  <2>10. CASE Persist  BY <2>10, TellPersist
  <2>11. CASE End  BY <2>11, TellTheEnd
  <2>12. CASE Disconnect \/ Tick \/ UNCHANGED vars  BY <2>12, TellOutside
  <2>13. QED
    BY <2>1, <2>2, <2>3, <2>4, <2>5, <2>6, <2>7, <2>8, <2>9, <2>10, <2>11, <2>12
    DEF Next, Work
<1>2. QED  BY <1>1, TellInit, EngineCorrect, PTL DEF Spec

\* The events of every turn keep the client's contract, in whatever order the
\* guardrails, the budget, the deadline and the calls decide.
THEOREM KeepsTheContract == Spec => ImplementsContract
<1>1. Init => Contract!Init  BY DEF Init, Contract!Init
<1>2. EngineInv /\ TellInv /\ [Next]_vars => [Contract!Next]_events
  <2> SUFFICES ASSUME EngineInv, TellInv, [Next]_vars PROVE [Contract!Next]_events
    OBVIOUS
  <2>1. CASE Yield
    <3>1. Head(queue) \in Contract!Event /\ Contract!MayFollow(events, Head(queue))
      BY <2>1, TellYield DEF Follows
    <3>2. events' = Append(events, Head(queue))  BY <2>1 DEF Yield
    <3>3. QED  BY <3>1, <3>2 DEF Contract!Next
  <2>2. CASE ~Yield
    <3>1. events' = events
      BY <2>2 DEF Next, Work, vars, Start, Screen, Refuse, OverBudget, Admit, Propose, Canned,
             Exhausted, Call, CallFails, CallReturns, StructuredReturns, StructuredFails, Raise,
             Finish, Persist, End, Disconnect, Tick
    <3>2. QED  BY <3>1
  <2>3. QED  BY <2>1, <2>2
<1>3. QED  BY <1>1, <1>2, EngineCorrect, TellCorrect, PTL DEF Spec, ImplementsContract, Contract!Spec

\* Some screen objects to a text in which anything was found.
LEMMA FoundStops == ASSUME TypeOK, request.found # {} PROVE ~Passes(request)
<1>1. request.found \subseteq {"injection", "human"} \cup ScopeRules
  BY TurnEngineAssumption DEF TypeOK, Request
<1>2. QED  BY <1>1 DEF Passes, Verdict

\* A turn whose text a guardrail objects to asks no model, takes and offers
\* nothing and costs nothing, and ends refused if its text held an injection.
THEOREM StoppedIsInert == Spec => []StoppedTurnIsInert
<1>1. EngineInv /\ TellInv => StoppedTurnIsInert
  <2> SUFFICES ASSUME EngineInv, TellInv, request.found # {}
               PROVE  /\ calls = <<>> /\ ~confirmed /\ saved \in {0, None}
                      /\ E("proposal") \notin Range(queue \o events)
                      /\ Runs("done") /\ "injection" \in request.found
                           => EndE("refused") \in Range(events)
    BY DEF StoppedTurnIsInert
  <2>0. ~Passes(request)  BY FoundStops DEF EngineInv
  <2>1. calls = <<>> /\ ~confirmed /\ lastStatus = "ok" /\ usage = NoUsage
    BY <2>0 DEF TellInv, Stopping
  <2>2. saved \in {0, None}
    BY <2>1 DEF EngineInv, Spending, NoUsage
  <2>3. queue \in Seq(Contract!Event) /\ events \in Seq(Contract!Event)
    BY DEF EngineInv, TypeOK
  <2>4. E("proposal") \notin Range(queue \o events)
    <3>1. \A i \in 1..Len(Told) : Told[i].kind # "proposal"
      BY <2>0 DEF TellInv, Offering
    <3>2. /\ \A i \in 1..Len(events) : events[i].kind # "proposal"
          /\ \A i \in 1..Len(queue) : queue[i].kind # "proposal"
      <4>1. \A i \in 1..Len(events) : i \in 1..Len(Told) /\ Told[i] = events[i]
        BY <2>3, ConcatIs DEF Told
      <4>2. \A i \in 1..Len(queue) :
              Len(events) + i \in 1..Len(Told) /\ Told[Len(events) + i] = queue[i]
        BY <2>3, ConcatIs DEF Told
      <4>3. QED  BY <3>1, <4>1, <4>2
    <3>3. \A i \in 1..Len(queue \o events) : (queue \o events)[i].kind # "proposal"
      BY <2>3, <3>2, Elements
    <3>4. queue \o events \in Seq(Contract!Event)  BY <2>3, ConcatIs
    <3>5. QED  BY <3>3, <3>4 DEF Range, E
  <2>5. ASSUME Runs("done"), "injection" \in request.found
        PROVE  EndE("refused") \in Range(events)
    <3>1. Told = events /\ block = "done"  BY <2>3, <2>5, EmptyQueue DEF Runs, Told
    <3>2. PICK P \in Offers : Tells(events, Said \cup P \cup {"answer", "usage", "turn.end"}, 9)
      BY <2>1, <3>1 DEF TellInv, Telling
    <3>3. PICK i \in 1..Len(events) : events[i].kind = "turn.end"
      <4>1. "turn.end" \in Contract!Kinds(events) /\ DOMAIN events = 1..Len(events)
        BY <2>3, <3>2 DEF Tells
      <4>2. QED  BY <4>1 DEF Contract!Kinds
    <3>4. \A j \in 1..Len(events) :
            events[j].kind = "turn.end" => events[j].status = Outcome(answer, lastStatus)
      BY <3>1 DEF TellInv, Agreeing, Agrees
    <3>5. \A j \in 1..Len(events) : events[j].kind = "turn.end" => events[j] = EndE(events[j].status)
      <4>1. \A e \in Contract!Event : e.kind = "turn.end" => e = EndE(e.status)
        BY DEF Contract!Event, EndE, E
      <4>2. QED  BY <2>3, <4>1
    <3>6. EndE("refused").kind = "turn.end" /\ EndE("refused").status = "refused"
      BY DEF EndE, E
    <3>7. Range(events) = {events[j] : j \in 1..Len(events)}  BY <2>3 DEF Range
    <3>8. EndE("refused") \in Range(events) <=> Outcome(answer, lastStatus) = "refused"
      BY <3>3, <3>4, <3>5, <3>6, <3>7
    <3>9. Outcome(answer, lastStatus) = "refused" <=> answer = "refusal"
      BY <2>1 DEF Outcome
    <3>10. answer = "refusal" <=> "injection" \in request.found
      BY <2>0, <3>1 DEF TellInv, Stopping
    <3>11. QED  BY <2>5, <3>8, <3>9, <3>10
  <2>6. QED  BY <2>1, <2>2, <2>4, <2>5
<1>2. QED  BY <1>1, EngineCorrect, TellCorrect, PTL

-----------------------------------------------------------------------------
(* Routes, bodies and what is recorded                                     *)

ToldSet == {Told[i] : i \in 1..Len(Told)}
Routing == {"propose", "synthesise", "calling", "structuring"}

\* The routes that were told are those of the path the turn takes.
RoutesOf(e) ==
  e.kind = "route" =>
    IF e.status = "none" THEN usage = NoUsage /\ block \notin Routing
    ELSE Passes(request) /\ (e.status = "action" <=> Proposes)
Routed ==
  /\ \A e \in ToldSet : RoutesOf(e)
  /\ \A e, f \in ToldSet : e.kind = "route" /\ e.status = "none" => f.kind # "proposal"

\* Only a business answer that a model gave has a body, and it is told with it.
Bodied ==
  /\ structured # None => request.channel = "business" /\ usage.calls > 0
  /\ structured = "conforming" => request.schema /\ usage.calls = 2
  /\ request.channel = "business" /\ ~request.schema /\ usage.calls > 0 => structured = "wrapped"
  /\ block = "structuring" => request.channel = "business" /\ request.schema
  /\ \A e \in ToldSet : e.kind = "answer" => e.of = structured

NextEvents == {queue'[j] : j \in 1..Len(queue')}

LEMMA NewlyTold ==
  ASSUME EngineInv, queue = <<>>, events' = events, queue' \in Seq(Contract!Event)
  PROVE  ToldSet' = ToldSet \cup NextEvents
<1> USE DEF NextEvents
<1>1. Told \in Seq(Contract!Event) /\ Told' = Told \o queue'  BY BlockTells
<1>2. \A i \in 1..Len(Told \o queue') :
        (Told \o queue')[i] = IF i <= Len(Told) THEN Told[i] ELSE queue'[i - Len(Told)]
  BY <1>1, ConcatIs
<1>3. Len(Told \o queue') = Len(Told) + Len(queue') /\ Len(Told) \in Nat /\ Len(queue') \in Nat
  BY <1>1, ConcatIs
<1>4. ToldSet' \subseteq ToldSet \cup {queue'[j] : j \in 1..Len(queue')}
  <2>1. ASSUME NEW i \in 1..(Len(Told) + Len(queue'))
        PROVE  i \in 1..Len(Told) \/ i - Len(Told) \in 1..Len(queue')
    BY <1>3
  <2>2. QED  BY <1>1, <1>2, <1>3, <2>1 DEF ToldSet
<1>5. ToldSet \cup {queue'[j] : j \in 1..Len(queue')} \subseteq ToldSet'
  <2>1. ASSUME NEW i \in 1..Len(Told)
        PROVE  i \in 1..Len(Told \o queue') /\ (Told \o queue')[i] = Told[i]
    BY <1>2, <1>3
  <2>2. ASSUME NEW j \in 1..Len(queue')
        PROVE  Len(Told) + j \in 1..Len(Told \o queue') /\ (Told \o queue')[Len(Told) + j] = queue'[j]
    BY <1>2, <1>3
  <2>3. QED  BY <1>1, <2>1, <2>2 DEF ToldSet
<1>6. QED  BY <1>4, <1>5

\* A step that hands an event over, takes time or cuts the turn off.
LEMMA ToldOutside ==
  ASSUME EngineInv, Yield \/ Disconnect \/ Tick \/ UNCHANGED vars
  PROVE  ToldSet' \subseteq ToldSet
<1>1. queue \in Seq(Contract!Event) /\ events \in Seq(Contract!Event)
  BY DEF EngineInv, TypeOK
<1>2. CASE Yield
  BY <1>1, <1>2, HandedOver DEF Yield, ToldSet, Told
<1>3. CASE Disconnect
  <2>1. Told' = events  BY <1>1, <1>3, EmptyQueue DEF Disconnect, Yields, Told
  <2>2. \A i \in 1..Len(events) : i \in 1..Len(Told) /\ Told[i] = events[i]
    BY <1>1, ConcatIs DEF Told
  <2>3. QED  BY <2>1, <2>2 DEF ToldSet
<1>4. CASE Tick \/ UNCHANGED vars
  BY <1>4 DEF Tick, vars, engineVars, ToldSet, Told
<1>5. QED  BY <1>2, <1>3, <1>4

\* What a block tells in which nothing is decided.
LEMMA ToldInBlock ==
  ASSUME EngineInv, NEW c \in 0..MaxCallCost,
         \/ Start \/ Screen \/ Canned \/ Exhausted \/ Call \/ CallFails \/ CallReturns(c)
         \/ StructuredReturns(c) \/ StructuredFails \/ Raise \/ Finish \/ Persist \/ End
  PROVE  /\ ToldSet' = ToldSet \cup NextEvents
         /\ \A e \in NextEvents : /\ e.kind \notin {"route", "proposal"}
                                  /\ e.kind = "answer" => Finish /\ e.of = structured
<1>1. queue' \in Seq(Contract!Event)
  <2>1. CASE Call \/ CallReturns(c) \/ StructuredReturns(c)
    <3>1. <<>> \in Seq(Contract!Event) /\ <<StageE("synthesise", "ok")>> \in Seq(Contract!Event)
      BY EventTypes DEF StageNames, StageStatuses
    <3>2. QED  BY <2>1, <3>1 DEF Call, CallReturns, StructuredReturns, Yields
  <2>2. QED  BY <2>1, EventBlocks
<1>2. queue = <<>> /\ events' = events
  BY DEF Start, Screen, Canned, Exhausted, Call, CallFails, CallReturns, StructuredReturns,
         StructuredFails, Raise, Finish, Persist, End, Runs
<1>3. ASSUME NEW j \in 1..Len(queue')
      PROVE  /\ queue'[j].kind \notin {"route", "proposal"}
             /\ queue'[j].kind = "answer" => Finish /\ queue'[j].of = structured
  <2>1. CASE Finish
    <3>1. queue'[j] \in {StageE("guardrails_out", "ok"), AnswerE(answer, structured)}
      BY <2>1 DEF Finish, Yields
    <3>2. QED  BY <2>1, <3>1 DEF StageE, AnswerE
  <2>2. CASE Start \/ Screen \/ Raise \/ Persist \/ End
    <3>1. queue'[j].kind \in {"turn.start", "stage", "error", "usage", "turn.end"}
      BY <2>2 DEF Start, Screen, Raise, Persist, End, Yields, E, StageE, EndE
    <3>2. QED  BY <3>1
  <2>3. CASE \/ Canned \/ Exhausted \/ Call \/ CallFails \/ CallReturns(c)
             \/ StructuredReturns(c) \/ StructuredFails
    <3>1. queue' \in {<<>>, <<StageE("synthesise", "ok")>>, <<StageE("synthesise", "degraded")>>}
      BY <2>3 DEF Canned, Exhausted, Call, CallFails, CallReturns, StructuredReturns,
                  StructuredFails, Yields
    <3>2. queue'[j].kind = "stage"  BY <3>1 DEF StageE
    <3>3. QED  BY <3>2
  <2>4. QED  BY <2>1, <2>2, <2>3
<1>4. QED  BY <1>1, <1>2, <1>3, NewlyTold DEF NextEvents

LEMMA RoutedOn ==
  ASSUME Routed, NEW S, ToldSet' \subseteq ToldSet \cup S,
         \A e \in S : e.kind \notin {"route", "proposal"},
         UNCHANGED <<request, confirmed>>,
         usage' = usage \/ block \in Routing, block' \in Routing => block \in Routing
  PROVE  Routed'
<1>1. Proposes' = Proposes /\ Passes(request)' = Passes(request)  BY DEF Proposes, Passes
<1>2. ASSUME NEW e \in ToldSet'  PROVE RoutesOf(e)'
  <2>1. CASE e \in S  BY <2>1 DEF RoutesOf
  <2>2. CASE e \in ToldSet
    <3>1. RoutesOf(e)  BY <2>2 DEF Routed
    <3>2. QED  BY <1>1, <3>1 DEF RoutesOf
  <2>3. QED  BY <2>1, <2>2
<1>3. ASSUME NEW e \in ToldSet', NEW f \in ToldSet', e.kind = "route", e.status = "none"
      PROVE  f.kind # "proposal"
  BY <1>3 DEF Routed
<1>4. QED  BY <1>2, <1>3 DEF Routed

LEMMA RoutedDecide ==
  ASSUME EngineInv, TellInv, Refuse \/ OverBudget \/ Admit  PROVE Routed'
<1>1. /\ block = "decide" /\ queue = <<>> /\ queue' \in Seq(Contract!Event)
      /\ UNCHANGED <<request, events, usage>>
  BY EventBlocks DEF Refuse, OverBudget, Admit, Runs
<1>2. ToldSet' = ToldSet \cup {queue'[j] : j \in 1..Len(queue')}
  BY <1>1, NewlyTold DEF NextEvents
<1>3. \A e \in ToldSet : e.kind \in {"turn.start", "stage"}
  BY <1>1, NothingDecided DEF ToldSet
<1>4. \A j \in 1..Len(queue') : queue'[j].kind \in {"stage", "route"}
  <2>1. queue' \in {SkippedStages, PlannedStages("direct"), PlannedStages("action")}
    BY DEF Refuse, OverBudget, Admit, Yields
  <2>2. QED  BY <2>1, PlainPlans DEF Plain
<1>5. \A e \in ToldSet' : e.kind # "proposal"  BY <1>2, <1>3, <1>4
<1>6. ASSUME NEW e \in ToldSet', e.kind = "route"  PROVE RoutesOf(e)'
  <2>1. PICK j \in 1..Len(queue') : e = queue'[j]  BY <1>2, <1>3, <1>6
  <2>2. CASE Refuse \/ OverBudget
    <3>1. queue' = SkippedStages /\ block' = "finish"  BY <2>2 DEF Refuse, OverBudget, Yields
    <3>2. e.status = "none"
      BY <1>6, <2>1, <3>1 DEF SkippedStages, StageE, RouteE, E
    <3>3. usage' = NoUsage  BY <1>1 DEF EngineInv, Spending, Early
    <3>4. QED  BY <3>1, <3>2, <3>3 DEF RoutesOf, Routing
  <2>3. CASE Admit
    <3>1. Passes(request') /\ (Proposes' <=> request.trigger /\ ~confirmed')
      BY <1>1, <2>3 DEF Admit, Passes, Proposes
    <3>2. queue' = IF request.trigger /\ ~confirmed' THEN PlannedStages("action")
                   ELSE PlannedStages("direct")
      BY <2>3 DEF Admit, Yields
    <3>3. \A routes, i : i \in 1..Len(PlannedStages(routes)) /\ PlannedStages(routes)[i].kind = "route"
            => PlannedStages(routes)[i].status = routes
      BY DEF PlannedStages, StageE, RouteE, E
    <3>4. e.status = IF request.trigger /\ ~confirmed' THEN "action" ELSE "direct"
      BY <1>6, <2>1, <3>2, <3>3
    <3>5. QED  BY <3>1, <3>4 DEF RoutesOf
  <2>4. QED  BY <2>2, <2>3
<1>7. \A e \in ToldSet' : RoutesOf(e)'  BY <1>6 DEF RoutesOf
<1>8. QED  BY <1>5, <1>7 DEF Routed

LEMMA RoutedPropose == ASSUME EngineInv, TellInv, Routed, Propose  PROVE Routed'
<1>1. /\ block = "propose" /\ block' = "synthesise" /\ queue = <<>> /\ queue' = <<E("proposal")>>
      /\ queue' \in Seq(Contract!Event) /\ UNCHANGED <<request, events, confirmed, usage>>
  BY EventBlocks DEF Propose, Runs, Yields
<1>2. ToldSet' = ToldSet \cup {E("proposal")}
  <2>1. {queue'[j] : j \in 1..Len(queue')} = {E("proposal")}  BY <1>1
  <2>2. QED  BY <1>1, <2>1, NewlyTold DEF NextEvents
<1>3. \A e \in ToldSet' : ~(e.kind = "route" /\ e.status = "none")
  BY <1>1, <1>2 DEF Routed, RoutesOf, Routing, E
<1>4. Proposes' = Proposes /\ Passes(request)' = Passes(request)  BY <1>1 DEF Proposes, Passes
<1>5. ASSUME NEW e \in ToldSet'  PROVE RoutesOf(e)'
  <2>1. CASE e = E("proposal")  BY <2>1 DEF RoutesOf, E
  <2>2. CASE e \in ToldSet
    <3>1. RoutesOf(e)  BY <2>2 DEF Routed
    <3>2. QED  BY <1>3, <1>4, <3>1 DEF RoutesOf
  <2>3. QED  BY <1>2, <2>1, <2>2
<1>6. QED  BY <1>3, <1>5 DEF Routed

LEMMA RoutedCorrect == Spec => []Routed
<1>1. Init => Routed
  BY DEF Init, Routed, ToldSet, Told
<1>2. EngineInv /\ TellInv /\ Routed /\ [Next]_vars => Routed'
  <2> SUFFICES ASSUME EngineInv, TellInv, Routed, [Next]_vars PROVE Routed'
    OBVIOUS
  <2>1. CASE Refuse \/ OverBudget \/ Admit  BY <2>1, RoutedDecide
  <2>2. CASE Propose  BY <2>2, RoutedPropose
  <2>3. CASE Yield \/ Disconnect \/ Tick \/ UNCHANGED vars
    <3> DEFINE S == {}
    <3>1. ToldSet' \subseteq ToldSet \cup S  BY <2>3, ToldOutside
    <3>2. UNCHANGED <<request, confirmed, usage>> /\ block' \in {block, "cut"}
      BY <2>3 DEF Yield, Disconnect, Tick, vars, engineVars, Yields
    <3>3. block' \in Routing => block \in Routing  BY <3>2 DEF Routing
    <3>4. \A e \in S : e.kind \notin {"route", "proposal"}  OBVIOUS
    <3> HIDE DEF S
    <3>5. QED  BY <3>1, <3>2, <3>3, <3>4, RoutedOn
  <2>4. ASSUME NEW c \in 0..MaxCallCost,
               \/ Start \/ Screen \/ Canned \/ Exhausted \/ Call \/ CallFails \/ CallReturns(c)
               \/ StructuredReturns(c) \/ StructuredFails \/ Raise \/ Finish \/ Persist \/ End
        PROVE  Routed'
    <3>1. /\ ToldSet' \subseteq ToldSet \cup NextEvents
          /\ \A e \in NextEvents : e.kind \notin {"route", "proposal"}
      BY <2>4, ToldInBlock
    <3>2. /\ UNCHANGED <<request, confirmed>> /\ (usage' = usage \/ block \in Routing)
          /\ block' \in Routing => block \in Routing
      BY <2>4 DEF Start, Screen, Canned, Exhausted, Call, CallFails, CallReturns,
         StructuredReturns, StructuredFails, Raise, Finish, Persist, End, Runs, Yields, Routing
    <3>3. QED  BY <3>1, <3>2, RoutedOn
  <2>5. 0 \in 0..MaxCallCost  BY TurnEngineAssumption
  <2>6. QED  BY <2>1, <2>2, <2>3, <2>4, <2>5 DEF Next, Work
<1>3. QED  BY <1>1, <1>2, EngineCorrect, TellCorrect, PTL DEF Spec

LEMMA BodiedOn ==
  ASSUME Bodied, NEW S, ToldSet' \subseteq ToldSet \cup S,
         \A e \in S : e.kind = "answer" => e.of = structured,
         UNCHANGED <<request, usage, structured>>, block' # "structuring"
  PROVE  Bodied'
BY DEF Bodied

LEMMA BodiedCalls ==
  ASSUME EngineInv, TellInv, Bodied, NEW c \in 0..MaxCallCost,
         CallReturns(c) \/ StructuredReturns(c)
  PROVE  Bodied'
<1>1. None \notin {"wrapped", "conforming"}  BY TurnEngineAssumption
<1>2. block \in {"calling", "structuring"} /\ UNCHANGED request
  BY DEF CallReturns, StructuredReturns, Runs
<1>3. Tells(Told, Said, 6)  BY <1>2 DEF TellInv, Telling
<1>4. \A e \in ToldSet : e.kind # "answer"
  BY <1>3, KindTold DEF ToldSet, Said
<1>5. \A e \in ToldSet' : e.kind # "answer"
  <2>1. /\ ToldSet' = ToldSet \cup NextEvents
        /\ \A e \in NextEvents : e.kind = "answer" => Finish
    BY ToldInBlock
  <2>2. ~Finish  BY <1>2 DEF Finish, Runs
  <2>3. QED  BY <1>4, <2>1, <2>2
<1>6. CASE CallReturns(c)
  <2>1. usage = NoUsage  BY <1>6 DEF CallReturns, Runs, EngineInv, Spending
  <2>2. structured = None  BY <2>1 DEF Bodied, NoUsage
  <2>3. usage'.calls = 1  BY <1>6 DEF CallReturns
  <2>4. CASE AsksAgain(c)
    <3>1. structured' = None /\ request.channel = "business" /\ request.schema
      BY <1>6, <2>2, <2>4 DEF CallReturns, AsksAgain
    <3>2. QED  BY <1>1, <1>2, <1>5, <3>1 DEF Bodied
  <2>5. CASE ~AsksAgain(c)
    <3>1. /\ structured' = IF request.channel = "business" THEN "wrapped" ELSE None
          /\ block' = "finish"
      BY <1>6, <2>5 DEF CallReturns, Yields
    <3>2. QED  BY <1>1, <1>2, <1>5, <2>3, <3>1 DEF Bodied
  <2>6. QED  BY <2>4, <2>5
<1>7. CASE StructuredReturns(c)
  <2>1. block = "structuring" /\ block' = "finish" /\ usage' = [calls |-> usage.calls + 1, cost |-> usage.cost + c]
        /\ structured' \in {None, "conforming"}
    BY <1>7 DEF StructuredReturns, Runs, Yields
  <2>2. usage.calls = 1  BY <2>1 DEF EngineInv, Spending
  <2>3. usage'.calls = 2  BY <2>1, <2>2
  <2>4. request.channel = "business" /\ request.schema  BY <2>1 DEF Bodied
  <2>5. QED  BY <1>1, <1>2, <1>5, <2>1, <2>3, <2>4 DEF Bodied
<1>8. QED  BY <1>6, <1>7

LEMMA BodiedCorrect == Spec => []Bodied
<1>1. Init => Bodied
  BY TurnEngineAssumption DEF Init, Bodied, ToldSet, Told, NoUsage
<1>2. EngineInv /\ TellInv /\ Bodied /\ [Next]_vars => Bodied'
  <2> SUFFICES ASSUME EngineInv, TellInv, Bodied, [Next]_vars PROVE Bodied'
    OBVIOUS
  <2>1. CASE Refuse \/ OverBudget \/ Admit \/ Propose
    <3>1. /\ queue = <<>> /\ queue' \in Seq(Contract!Event) /\ events' = events
          /\ UNCHANGED <<request, usage, structured>> /\ block' # "structuring"
      BY <2>1, EventBlocks DEF Refuse, OverBudget, Admit, Propose, Runs, Yields
    <3>2. ToldSet' \subseteq ToldSet \cup NextEvents  BY <3>1, NewlyTold
    <3>3. \A j \in 1..Len(queue') : queue'[j].kind # "answer"
      <4>1. CASE Propose  BY <4>1 DEF Propose, Yields, E
      <4>2. CASE Refuse \/ OverBudget \/ Admit
        <5>1. queue' \in {SkippedStages, PlannedStages("direct"), PlannedStages("action")}
          BY <4>2 DEF Refuse, OverBudget, Admit, Yields
        <5>2. QED  BY <5>1, PlainPlans DEF Plain
      <4>3. QED  BY <2>1, <4>1, <4>2
    <3>4. \A e \in NextEvents : e.kind = "answer" => e.of = structured
      BY <3>3 DEF NextEvents
    <3>5. QED  BY <3>1, <3>2, <3>4, BodiedOn
  <2>2. CASE Yield \/ Disconnect \/ Tick \/ UNCHANGED vars
    <3>1. ToldSet' \subseteq ToldSet \cup {}  BY <2>2, ToldOutside
    <3>2. UNCHANGED <<request, usage, structured>> /\ block' \in {block, "cut"}
      BY <2>2 DEF Yield, Disconnect, Tick, vars, engineVars, Yields
    <3>3. QED  BY <3>1, <3>2 DEF Bodied
  <2>3. CASE \/ Start \/ Screen \/ Canned \/ Exhausted \/ Call \/ CallFails
             \/ StructuredFails \/ Raise \/ Finish \/ Persist \/ End
    <3>1. /\ ToldSet' \subseteq ToldSet \cup NextEvents
          /\ \A e \in NextEvents : e.kind = "answer" => e.of = structured
      <4>1. 0 \in 0..MaxCallCost  BY TurnEngineAssumption
      <4>2. QED  BY <2>3, <4>1, ToldInBlock
    <3>2. UNCHANGED <<request, usage, structured>> /\ block' # "structuring"
      BY <2>3 DEF Start, Screen, Canned, Exhausted, Call, CallFails, StructuredFails, Raise,
         Finish, Persist, End, Yields
    <3>3. QED  BY <3>1, <3>2, BodiedOn
  <2>4. CASE \E c \in 0..MaxCallCost : CallReturns(c) \/ StructuredReturns(c)
    BY <2>4, BodiedCalls
  <2>5. QED  BY <2>1, <2>2, <2>3, <2>4 DEF Next, Work
<1>3. QED  BY <1>1, <1>2, EngineCorrect, TellCorrect, PTL DEF Spec

\* Whatever cuts a turn off, its session holds no answer it did not tell.
THEOREM RecordedWasTold == Spec => []RecordedIsTold
<1>1. Init => RecordedIsTold  BY DEF Init, RecordedIsTold
<1>2. EngineInv /\ TellInv /\ RecordedIsTold /\ [Next]_vars => RecordedIsTold'
  <2> SUFFICES ASSUME EngineInv, TellInv, RecordedIsTold, [Next]_vars PROVE RecordedIsTold'
    OBVIOUS
  <2>1. CASE Persist
    <3>1. block = "persist" /\ queue = <<>> /\ events' = events  BY <2>1 DEF Persist, Runs
    <3>2. Told = events  BY <3>1, EmptyQueue DEF Told, EngineInv, TypeOK
    <3>3. "answer" \in Contract!Kinds(events)
      BY <3>1, <3>2 DEF TellInv, Telling, Tells
    <3>4. QED  BY <3>1, <3>3 DEF Contract!Kinds, RecordedIsTold
  <2>2. CASE Yield
    <3>1. events \in Seq(Contract!Event) /\ Head(queue) \in Contract!Event
      BY <2>2, TellYield DEF EngineInv, TypeOK
    <3>2. events' = Append(events, Head(queue)) /\ saved' = saved  BY <2>2 DEF Yield
    <3>3. \A i \in DOMAIN events : i \in DOMAIN events' /\ events'[i] = events[i]
      BY <3>1, <3>2
    <3>4. QED  BY <3>2, <3>3 DEF RecordedIsTold
  <2>3. CASE ~Persist /\ ~Yield
    <3>1. saved' = saved /\ events' = events
      BY <2>3 DEF Next, Work, vars, engineVars, Start, Screen, Refuse, OverBudget, Admit,
             Propose, Canned, Exhausted, Call, CallFails, CallReturns, StructuredReturns,
             StructuredFails, Raise, Finish, End, Disconnect, Tick
    <3>2. QED  BY <3>1 DEF RecordedIsTold
  <2>4. QED  BY <2>1, <2>2, <2>3
<1>3. QED  BY <1>1, <1>2, EngineCorrect, TellCorrect, PTL DEF Spec

-----------------------------------------------------------------------------
(* The JSON envelope                                                       *)

Kinds == {"turn.start", "stage", "route", "proposal", "answer", "usage", "error", "turn.end"}
Statuses == {"ok", "refused", "degraded", "error"}

Results ==
  [started : BOOLEAN, trace : Seq(Contract!Event), routes : {"none", "direct", "action"},
   proposal : BOOLEAN, answer : Answers \cup {None, "detail"}, structured : Bodies,
   usage : {NoUsage, usage}, status : Statuses]

LEMMA EventShape ==
  ASSUME NEW e \in Contract!Event
  PROVE  /\ e.kind \in Kinds
         /\ e.kind = "stage" => e.of \in StageNames
         /\ e.kind = "route" => e.status \in {"none", "direct", "action"}
         /\ e.kind = "answer" => e.status \in Answers /\ e.of \in Bodies
         /\ e.kind = "turn.end" => e.status \in Statuses
BY StagesNamed DEF Contract!Event, Answers, Bodies, Kinds, Statuses

\* What an event makes of each field.
Filled(c, r, e) ==
  /\ c = [started |-> c.started, trace |-> c.trace, routes |-> c.routes,
          proposal |-> c.proposal, answer |-> c.answer, structured |-> c.structured,
          usage |-> c.usage, status |-> c.status]
  /\ c.started = IF e.kind = "turn.start" THEN TRUE ELSE r.started
  /\ c.trace = IF e.kind = "stage" THEN Append(r.trace, e) ELSE r.trace
  /\ c.routes = IF e.kind = "route" THEN e.status ELSE r.routes
  /\ c.proposal = IF e.kind = "proposal" THEN TRUE ELSE r.proposal
  /\ c.answer = IF e.kind = "answer" THEN e.status
                ELSE IF e.kind = "error" /\ r.answer = None THEN "detail" ELSE r.answer
  /\ c.structured = IF e.kind = "answer" THEN e.of ELSE r.structured
  /\ c.usage = IF e.kind = "usage" THEN usage ELSE r.usage
  /\ c.status = IF e.kind = "turn.end" THEN e.status ELSE r.status

LEMMA CollectFields ==
  ASSUME NEW r \in Results, NEW e \in Contract!Event  PROVE  Filled(Collect(r, e), r, e)
<1> USE DEF Filled
<1>1. e.kind \in Kinds  BY EventShape
<1>2. CASE e.kind = "turn.start"  BY <1>2 DEF Collect, Results
<1>3. CASE e.kind = "stage"  BY <1>3 DEF Collect, Results
<1>4. CASE e.kind = "route"  BY <1>4 DEF Collect, Results
<1>5. CASE e.kind = "proposal"  BY <1>5 DEF Collect, Results
<1>6. CASE e.kind = "answer"  BY <1>6 DEF Collect, Results
<1>7. CASE e.kind = "usage"  BY <1>7 DEF Collect, Results
<1>8. CASE e.kind = "error"  BY <1>8 DEF Collect, Results
<1>9. CASE e.kind = "turn.end"  BY <1>9 DEF Collect, Results
<1>10. QED  BY <1>1, <1>2, <1>3, <1>4, <1>5, <1>6, <1>7, <1>8, <1>9 DEF Kinds

LEMMA CollectType ==
  ASSUME NEW r \in Results, NEW e \in Contract!Event  PROVE  Collect(r, e) \in Results
<1> DEFINE c == Collect(r, e)
<1>0. Filled(c, r, e)  BY CollectFields
<1> HIDE DEF c
<1>1. /\ r.started \in BOOLEAN /\ r.trace \in Seq(Contract!Event)
      /\ r.routes \in {"none", "direct", "action"} /\ r.proposal \in BOOLEAN
      /\ r.answer \in Answers \cup {None, "detail"} /\ r.structured \in Bodies
      /\ r.usage \in {NoUsage, usage} /\ r.status \in Statuses
  BY DEF Results
<1>2. Append(r.trace, e) \in Seq(Contract!Event)  BY <1>1
<1>3. /\ c.started \in BOOLEAN /\ c.trace \in Seq(Contract!Event)
      /\ c.routes \in {"none", "direct", "action"} /\ c.proposal \in BOOLEAN
      /\ c.answer \in Answers \cup {None, "detail"} /\ c.structured \in Bodies
      /\ c.usage \in {NoUsage, usage} /\ c.status \in Statuses
  BY <1>0, <1>1, <1>2, EventShape DEF Filled
<1>4. c = [started |-> c.started, trace |-> c.trace, routes |-> c.routes,
           proposal |-> c.proposal, answer |-> c.answer, structured |-> c.structured,
           usage |-> c.usage, status |-> c.status]
  BY <1>0 DEF Filled
<1>5. c \in Results  BY <1>3, <1>4 DEF Results
<1>6. QED  BY <1>5 DEF c

LEMMA EmptyIsResult == EmptyResult \in Results
<1>1. <<>> \in Seq(Contract!Event)  OBVIOUS
<1>2. QED  BY <1>1 DEF EmptyResult, Results, Bodies, Statuses

\* collect takes the events one by one, in their order.
LEMMA CollectedInOrder ==
  ASSUME NEW n, n = Len(events), events \in Seq(Contract!Event)
  PROVE  \E g : /\ Folded = g[1..n] /\ g[1..0] = EmptyResult
                /\ \A k \in 1..n : g[1..k] = Collect(g[1..(k - 1)], events[k])
<1>1. n \in Nat /\ DOMAIN events = 1..n /\ \A i \in 1..n : events[i] \in Contract!Event  OBVIOUS
<1> DEFINE F == [p \in Results \X (1..n) |-> Collect(p[1], events[p[2]])]
           Body(g) == [s \in SUBSET (1..n) |->
             IF s = {} THEN EmptyResult ELSE Collect(g[s \ {Max(s)}], events[Max(s)])]
<1>2. PICK h \in [SUBSET (1..n) -> Results] : Folding(h, n, EmptyResult, F)
  <2>1. F \in [Results \X (1..n) -> Results]  BY <1>1, CollectType
  <2>2. EmptyResult \in Results  BY EmptyIsResult
  <2> HIDE DEF F
  <2>3. QED  BY <1>1, <2>1, <2>2, FoldExists
<1>3. h = Body(h)
  <2>1. ASSUME NEW s \in SUBSET (1..n), s # {}
        PROVE  F[<<h[s \ {Max(s)}], Max(s)>>] = Collect(h[s \ {Max(s)}], events[Max(s)])
    <3>1. Max(s) \in 1..n  BY <1>1, <2>1, MaxOfSome
    <3>2. h[s \ {Max(s)}] \in Results  OBVIOUS
    <3>3. QED  BY <3>1, <3>2
  <2> HIDE DEF F
  <2>2. QED  BY <1>2, <2>1 DEF Folding
<1> HIDE DEF F
<1> DEFINE g == CHOOSE g : g = Body(g)
<1>4. g = Body(g)  BY <1>3
<1>5. Folded = g[1..n]  BY <1>1 DEF Folded, FoldLeft, MapThenFoldSet
<1> HIDE DEF g
<1>6. g[1..0] = EmptyResult
  <2>1. 1..0 = {} /\ {} \in SUBSET (1..n)  OBVIOUS
  <2>2. QED  BY <1>4, <2>1
<1>7. ASSUME NEW k \in 1..n  PROVE  g[1..k] = Collect(g[1..(k - 1)], events[k])
  <2>1. k \in Nat /\ k # 0 /\ 1..k \in SUBSET (1..n)  BY <1>1
  <2>2. 1..k # {} /\ Max(1..k) = k /\ (1..k) \ {Max(1..k)} = 1..(k - 1)  BY <2>1, MaxUpTo
  <2>3. QED  BY <1>4, <2>1, <2>2
<1>8. QED  BY <1>5, <1>6, <1>7

Heard(k, kind) == \E i \in 1..k : events[i].kind = kind
First(m) == [i \in 1..m |-> Pipeline[i]]

\* The stages of the first k events are traced, in the order of the pipeline.
Traced(trace, k) ==
  /\ \E m \in 0..9 : /\ Contract!Reported(Before(events, k + 1)) = UpTo(m)
                     /\ Len(trace) = m /\ StagesOf(trace) = First(m)
  /\ \A i \in 1..Len(trace) : \E j \in 1..k : trace[i] = events[j] /\ events[j].kind = "stage"

\* The routes of the first k events.
RouteHeard(routes, k) ==
  IF Heard(k, "route") THEN \E j \in 1..k : events[j].kind = "route" /\ events[j].status = routes
  ELSE routes = "none"

\* What collect has made of the first k events.
Collected(r, k) ==
  /\ r \in Results
  /\ r.started <=> Heard(k, "turn.start")
  /\ Traced(r.trace, k)
  /\ RouteHeard(r.routes, k)
  /\ r.proposal <=> Heard(k, "proposal")
  /\ r.answer = IF Heard(k, "answer") THEN answer ELSE IF Heard(k, "error") THEN "detail" ELSE None
  /\ r.structured = IF Heard(k, "answer") THEN structured ELSE None
  /\ r.usage = IF Heard(k, "usage") THEN usage ELSE NoUsage
  /\ r.status = IF Heard(k, "turn.end") THEN Outcome(answer, lastStatus) ELSE "ok"

LEMMA HeardMore ==
  ASSUME NEW k \in Nat \ {0}, NEW kind
  PROVE  Heard(k, kind) <=> Heard(k - 1, kind) \/ events[k].kind = kind
<1>1. 1..k = 1..(k - 1) \cup {k}  OBVIOUS
<1>2. QED  BY <1>1 DEF Heard

LEMMA UpToOne ==
  ASSUME NEW m \in 0..9, NEW k \in 0..9, UpTo(m) = UpTo(k)  PROVE  m = k
<1>1. ASSUME NEW i \in 0..9, NEW j \in 0..9, i < j  PROVE UpTo(i) # UpTo(j)
  <2>1. j \in 1..9 /\ j \in 1..j /\ \A l \in 1..i : l \in 1..9 /\ l # j  BY <1>1
  <2>2. Pipeline[j] \in UpTo(j) /\ Pipeline[j] \notin UpTo(i)
    BY <2>1, PipelineOrder DEF UpTo
  <2>3. QED  BY <2>2
<1>2. ~(m < k) /\ ~(k < m)  BY <1>1
<1>3. QED  BY <1>2

LEMMA BeforeNext ==
  ASSUME events \in Seq(Contract!Event), NEW k \in 1..Len(events)
  PROVE  /\ Before(events, k) \in Seq(Contract!Event) /\ events[k] \in Contract!Event
         /\ Before(events, k + 1) = Append(Before(events, k), events[k])
<1>1. k \in Nat \ {0} /\ \A i \in 1..k : events[i] \in Contract!Event  OBVIOUS
<1> DEFINE b == Before(events, k)
<1>2. b \in Seq(Contract!Event) /\ Len(b) = k - 1 /\ \A i \in 1..(k - 1) : b[i] = events[i]
  BY <1>1 DEF Before
<1>3. Before(events, k + 1) = [i \in 1..k |-> events[i]]  BY <1>1 DEF Before
<1> HIDE DEF b
<1>4. Append(b, events[k]) = [i \in 1..k |-> IF i = k THEN events[k] ELSE b[i]]
  BY <1>1, <1>2
<1>5. [i \in 1..k |-> IF i = k THEN events[k] ELSE b[i]] = [i \in 1..k |-> events[i]]
  BY <1>1, <1>2
<1>6. QED  BY <1>1, <1>2, <1>3, <1>4, <1>5 DEF b

LEMMA CollectTrace ==
  ASSUME events \in Seq(Contract!Event), Lawful(events), NEW k \in 1..Len(events),
         NEW m \in 0..9, Contract!Reported(Before(events, k)) = UpTo(m)
  PROVE  IF events[k].kind = "stage"
           THEN /\ m \in 0..8 /\ Contract!Reported(Before(events, k + 1)) = UpTo(m + 1)
                /\ Append(First(m), events[k].of) = First(m + 1)
           ELSE Contract!Reported(Before(events, k + 1)) = UpTo(m)
<1>1. /\ Before(events, k) \in Seq(Contract!Event) /\ events[k] \in Contract!Event
      /\ Before(events, k + 1) = Append(Before(events, k), events[k])
  BY BeforeNext
<1>2. Contract!Reported(Before(events, k + 1)) =
        Contract!Reported(Before(events, k))
          \cup (IF events[k].kind = "stage" THEN {events[k].of} ELSE {})
  BY <1>1, SaysMore
<1>3. CASE events[k].kind = "stage"
  <2>1. PICK l \in 0..8 : /\ Contract!Reported(Before(events, k)) = UpTo(l)
                          /\ events[k].of = Pipeline[l + 1]
    BY <1>3 DEF Lawful, Follows
  <2>2. l = m
    <3>1. l \in 0..9  OBVIOUS
    <3>2. QED  BY <2>1, <3>1, UpToOne
  <2>3. UpTo(m + 1) = UpTo(m) \cup {Pipeline[m + 1]}  BY <2>2, StageIn
  <2>4. Append(First(m), Pipeline[m + 1]) = First(m + 1)
    <3>1. /\ First(m) \in Seq(StageNames) /\ Len(First(m)) = m
          /\ \A i \in 1..m : First(m)[i] = Pipeline[i]
      BY PipelineOrder DEF First
    <3> DEFINE f == First(m)
    <3> HIDE DEF f
    <3>2. Append(f, Pipeline[m + 1]) = [i \in 1..(m + 1) |-> IF i = m + 1 THEN Pipeline[m + 1] ELSE f[i]]
      BY <3>1 DEF f
    <3>3. [i \in 1..(m + 1) |-> IF i = m + 1 THEN Pipeline[m + 1] ELSE f[i]] = First(m + 1)
      BY <3>1 DEF f, First
    <3>4. QED  BY <3>2, <3>3 DEF f
  <2>5. QED  BY <1>2, <1>3, <2>1, <2>2, <2>3, <2>4
<1>4. CASE events[k].kind # "stage"  BY <1>2, <1>4
<1>5. QED  BY <1>3, <1>4

LEMMA StagesAppended ==
  ASSUME NEW trace \in Seq(Contract!Event), NEW e \in Contract!Event, NEW m \in Nat,
         Len(trace) = m, StagesOf(trace) = First(m)
  PROVE  /\ Append(trace, e) \in Seq(Contract!Event) /\ Len(Append(trace, e)) = m + 1
         /\ StagesOf(Append(trace, e)) = Append(First(m), e.of)
<1>1. /\ Append(trace, e) \in Seq(Contract!Event) /\ Len(Append(trace, e)) = m + 1
      /\ \A i \in 1..m : Append(trace, e)[i] = trace[i]
      /\ Append(trace, e)[m + 1] = e /\ DOMAIN Append(trace, e) = 1..(m + 1)
      /\ DOMAIN trace = 1..m
  OBVIOUS
<1>2. \A i \in 1..m : trace[i].of = First(m)[i]
  <2>1. \A i \in 1..m : StagesOf(trace)[i] = trace[i].of  BY <1>1 DEF StagesOf
  <2>2. QED  BY <2>1
<1>3. First(m) = [i \in 1..m |-> Pipeline[i]]  BY DEF First
<1> DEFINE f == First(m)
<1>4. f \in Seq({f[i] : i \in 1..m}) /\ Len(f) = m  BY <1>3
<1>5. \A i \in 1..m : trace[i].of = f[i]  BY <1>2
<1> HIDE DEF f
<1>6. Append(f, e.of) = [i \in 1..(m + 1) |-> IF i = m + 1 THEN e.of ELSE f[i]]  BY <1>4
<1> DEFINE t == Append(trace, e)
<1>7. /\ DOMAIN t = 1..(m + 1) /\ t[m + 1] = e /\ \A i \in 1..m : t[i].of = f[i]
  BY <1>1, <1>5
<1> HIDE DEF t
<1>8. StagesOf(t) = [i \in 1..(m + 1) |-> IF i = m + 1 THEN e.of ELSE f[i]]
  BY <1>7 DEF StagesOf
<1>9. QED  BY <1>1, <1>6, <1>8 DEF f, t

LEMMA TracedMore ==
  ASSUME events \in Seq(Contract!Event), Lawful(events), NEW k \in 1..Len(events),
         NEW trace \in Seq(Contract!Event), Traced(trace, k - 1)
  PROVE  Traced(IF events[k].kind = "stage" THEN Append(trace, events[k]) ELSE trace, k)
<1>1. k \in Nat \ {0} /\ (k - 1) + 1 = k /\ events[k] \in Contract!Event  OBVIOUS
<1>2. PICK m \in 0..9 : /\ Contract!Reported(Before(events, k)) = UpTo(m)
                        /\ Len(trace) = m /\ StagesOf(trace) = First(m)
  BY <1>1 DEF Traced
<1>3. \A i \in 1..Len(trace) : \E j \in 1..k : trace[i] = events[j] /\ events[j].kind = "stage"
  BY <1>1 DEF Traced
<1>4. CASE events[k].kind = "stage"
  <2>1. /\ m \in 0..8 /\ Contract!Reported(Before(events, k + 1)) = UpTo(m + 1)
        /\ Append(First(m), events[k].of) = First(m + 1)
    BY <1>2, <1>4, CollectTrace
  <2> DEFINE t == Append(trace, events[k])
  <2>2. Len(t) = m + 1 /\ StagesOf(t) = First(m + 1)
    <3>1. m \in Nat /\ Len(trace) = m /\ StagesOf(trace) = First(m)  BY <1>2
    <3>2. Len(t) = m + 1 /\ StagesOf(t) = Append(First(m), events[k].of)
      BY <1>1, <3>1, StagesAppended
    <3>3. QED  BY <2>1, <3>2
  <2>3. \A i \in 1..m : t[i] = trace[i]  BY <1>1, <1>2
  <2>4. t[m + 1] = events[k] /\ k \in 1..k  BY <1>1, <1>2
  <2> HIDE DEF t
  <2>5. \A i \in 1..Len(t) : \E j \in 1..k : t[i] = events[j] /\ events[j].kind = "stage"
    <3>1. ASSUME NEW i \in 1..Len(t)  PROVE i \in 1..Len(trace) \/ i = m + 1
      BY <1>2, <2>2
    <3>2. QED  BY <1>2, <1>3, <1>4, <2>3, <2>4, <3>1
  <2>6. m + 1 \in 0..9  BY <2>1
  <2>7. Traced(t, k)  BY <2>1, <2>2, <2>5, <2>6 DEF Traced
  <2>8. QED  BY <1>4, <2>7 DEF t
<1>5. CASE events[k].kind # "stage"
  <2>1. Contract!Reported(Before(events, k + 1)) = UpTo(m)  BY <1>2, <1>5, CollectTrace
  <2>2. Traced(trace, k)  BY <1>2, <1>3, <2>1 DEF Traced
  <2>3. QED  BY <1>5, <2>2
<1>6. QED  BY <1>4, <1>5

LEMMA RouteMore ==
  ASSUME NEW k \in Nat \ {0}, NEW routes, RouteHeard(routes, k - 1)
  PROVE  RouteHeard(IF events[k].kind = "route" THEN events[k].status ELSE routes, k)
<1>1. Heard(k, "route") <=> Heard(k - 1, "route") \/ events[k].kind = "route"  BY HeardMore
<1>2. k \in 1..k /\ 1..(k - 1) \subseteq 1..k  OBVIOUS
<1>3. QED  BY <1>1, <1>2 DEF RouteHeard

LEMMA CollectedMore ==
  ASSUME EngineInv, Bodied, events \in Seq(Contract!Event), Lawful(events), Agreeing,
         queue = <<>>, NEW k \in 1..Len(events), NEW r, Collected(r, k - 1)
  PROVE  Collected(Collect(r, events[k]), k)
<1> DEFINE e == events[k]
           c == Collect(r, e)
<1>1. k \in Nat \ {0} /\ k - 1 \in Nat /\ (k - 1) + 1 = k /\ e \in Contract!Event  OBVIOUS
<1>2. \A kind : Heard(k, kind) <=> Heard(k - 1, kind) \/ e.kind = kind  BY <1>1, HeardMore
<1>3. r \in Results /\ c \in Results  BY <1>1, CollectType DEF Collected
<1>4. /\ Agrees(e, answer, lastStatus)
      /\ e.kind = "answer" => e.of = structured
  <2>1. Told = events  BY EmptyQueue DEF Told
  <2>2. QED  BY <2>1 DEF Agreeing, Bodied, ToldSet
<1>5. answer \in Answers /\ answer # None /\ None # "detail"
  BY TurnEngineAssumption DEF EngineInv, TypeOK
<1>6. r.trace \in Seq(Contract!Event)  BY <1>3 DEF Results
<1>7. Traced(IF e.kind = "stage" THEN Append(r.trace, e) ELSE r.trace, k)
  BY <1>6, TracedMore DEF Collected
<1>8. RouteHeard(IF e.kind = "route" THEN e.status ELSE r.routes, k)
  BY <1>1, RouteMore DEF Collected
<1>9. Filled(c, r, e)  BY <1>1, <1>3, CollectFields
<1> HIDE DEF c, e
<1>10. /\ c.started = IF e.kind = "turn.start" THEN TRUE ELSE r.started
       /\ c.trace = IF e.kind = "stage" THEN Append(r.trace, e) ELSE r.trace
       /\ c.routes = IF e.kind = "route" THEN e.status ELSE r.routes
       /\ c.proposal = IF e.kind = "proposal" THEN TRUE ELSE r.proposal
       /\ c.answer = IF e.kind = "answer" THEN e.status
                     ELSE IF e.kind = "error" /\ r.answer = None THEN "detail" ELSE r.answer
       /\ c.structured = IF e.kind = "answer" THEN e.of ELSE r.structured
       /\ c.usage = IF e.kind = "usage" THEN usage ELSE r.usage
       /\ c.status = IF e.kind = "turn.end" THEN e.status ELSE r.status
  BY <1>9 DEF Filled
<1>11. Traced(c.trace, k)  BY <1>7, <1>10
<1>12. RouteHeard(c.routes, k)  BY <1>8, <1>10
<1>13. c.answer = IF Heard(k, "answer") THEN answer
                  ELSE IF Heard(k, "error") THEN "detail" ELSE None
  BY <1>2, <1>4, <1>5, <1>10 DEF Collected, Agrees
<1>14. c.structured = IF Heard(k, "answer") THEN structured ELSE None
  BY <1>2, <1>4, <1>10 DEF Collected
<1>15. (c.started <=> Heard(k, "turn.start")) /\ (c.proposal <=> Heard(k, "proposal"))
  BY <1>2, <1>3, <1>10 DEF Collected, Results
<1>16. c.usage = IF Heard(k, "usage") THEN usage ELSE NoUsage  BY <1>2, <1>10 DEF Collected
<1>17. c.status = IF Heard(k, "turn.end") THEN Outcome(answer, lastStatus) ELSE "ok"
  BY <1>2, <1>4, <1>10 DEF Collected, Agrees
<1>18. QED
  BY <1>3, <1>11, <1>12, <1>13, <1>14, <1>15, <1>16, <1>17 DEF Collected, c, e

\* What the whole turn was collected to.
LEMMA ResultCollected ==
  ASSUME EngineInv, TellInv, Bodied, queue = <<>>
  PROVE  Collected(Folded, Len(events))
<1> DEFINE n == Len(events)
<1>1. /\ events \in Seq(Contract!Event) /\ Told = events /\ n \in Nat
      /\ Lawful(events) /\ Agreeing
  BY EmptyQueue DEF EngineInv, TypeOK, TellInv, Telling, Told
<1>2. PICK g : /\ Folded = g[1..n] /\ g[1..0] = EmptyResult
               /\ \A k \in 1..n : g[1..k] = Collect(g[1..(k - 1)], events[k])
  BY <1>1, CollectedInOrder
<1> DEFINE N == {k \in Nat : k <= n => Collected(g[1..k], k)}
<1>3. 0 \in N
  <2>1. \A kind : ~Heard(0, kind)  BY DEF Heard
  <2>2. Traced(<<>>, 0)
    <3>1. Contract!Reported(Before(events, 0 + 1)) = UpTo(0)
      BY DEF Contract!Reported, Before, UpTo
    <3>2. First(0) = <<>> /\ StagesOf(<<>>) = <<>> /\ Len(<<>>) = 0 /\ 0 \in 0..9
      BY DEF First, StagesOf
    <3>3. QED  BY <3>1, <3>2 DEF Traced
  <2>3. RouteHeard("none", 0)  BY <2>1 DEF RouteHeard
  <2>4. Collected(EmptyResult, 0)
    BY <2>1, <2>2, <2>3, EmptyIsResult DEF Collected, EmptyResult
  <2>5. QED  BY <1>2, <2>4
<1>4. ASSUME NEW k \in Nat, k \in N  PROVE k + 1 \in N
  <2> SUFFICES ASSUME k + 1 <= n  PROVE Collected(g[1..(k + 1)], k + 1)
    OBVIOUS
  <2>1. Collected(g[1..k], k) /\ k + 1 \in 1..n /\ (k + 1) - 1 = k
    BY <1>1, <1>4
  <2>2. g[1..(k + 1)] = Collect(g[1..k], events[k + 1])  BY <1>2, <2>1
  <2>3. Collected(Collect(g[1..k], events[k + 1]), k + 1)
    BY <1>1, <2>1, CollectedMore
  <2>4. QED  BY <2>2, <2>3
<1>5. n \in N
  <2> HIDE DEF N
  <2>1. Nat \subseteq N  BY <1>3, <1>4, Induction
  <2>2. QED  BY <1>1, <2>1
<1>6. QED  BY <1>1, <1>2, <1>5

-----------------------------------------------------------------------------
\* A turn that raised was not charged.
ErrorUncharged == lastStatus = "error" => saved = None

LEMMA ErrorStaysUncharged == Spec => []ErrorUncharged
<1>1. Init => ErrorUncharged  BY DEF Init, ErrorUncharged
<1>2. EngineInv /\ ErrorUncharged /\ [Next]_vars => ErrorUncharged'
  <2> SUFFICES ASSUME EngineInv, ErrorUncharged, [Next]_vars PROVE ErrorUncharged'
    OBVIOUS
  <2>1. CASE Persist
    <3>1. block = "persist" /\ lastStatus' = lastStatus  BY <2>1 DEF Persist, Runs
    <3>2. lastStatus # "error"  BY <3>1 DEF EngineInv, Paths, Late
    <3>3. QED  BY <3>1, <3>2 DEF ErrorUncharged
  <2>2. CASE Raise
    <3>1. block \in {"calling", "structuring"} /\ saved' = saved  BY <2>2 DEF Raise, Runs
    <3>2. saved = None  BY <3>1 DEF EngineInv, Spending, Late
    <3>3. QED  BY <3>1, <3>2 DEF ErrorUncharged
  <2>3. CASE ~Persist /\ ~Raise
    <3>1. saved' = saved /\ lastStatus' \in {lastStatus, "degraded"}
      BY <2>3 DEF Next, Work, vars, engineVars, Yield, Start, Screen, Refuse, OverBudget, Admit,
             Propose, Canned, Exhausted, Call, CallFails, CallReturns, StructuredReturns,
             StructuredFails, Finish, End, Disconnect, Tick
    <3>2. QED  BY <3>1 DEF ErrorUncharged
  <2>4. QED  BY <2>1, <2>2, <2>3
<1>3. QED  BY <1>1, <1>2, EngineCorrect, PTL DEF Spec

LEMMA WholePipeline ==
  /\ First(9) = Pipeline
  /\ \A m \in 0..9 : IsPrefix(First(m), Pipeline)
<1>1. First(9) = Pipeline  BY PipelineOrder DEF First, Pipeline
<1>2. ASSUME NEW m \in 0..9  PROVE IsPrefix(First(m), Pipeline)
  <2>1. First(m) \in Seq(StageNames) /\ Len(First(m)) = m  BY PipelineOrder DEF First
  <2>2. Len(Pipeline) = 9 /\ Pipeline \in Seq(StageNames)  BY DEF Pipeline, StageNames
  <2>3. SubSeq(First(m), 1, m) = First(m)  BY <2>1 DEF First
  <2>4. SubSeq(Pipeline, 1, m) = First(m)  BY <2>2 DEF First
  <2>5. QED  BY <2>1, <2>2, <2>3, <2>4 DEF IsPrefix
<1>3. QED  BY <1>1, <1>2

\* What was heard of a turn that is over, and how its stages were traced.
LEMMA HeardAll ==
  ASSUME events \in Seq(Contract!Event), NEW kinds, NEW k \in 0..9, Tells(events, kinds, k),
         NEW trace, Traced(trace, Len(events))
  PROVE  /\ \A kind : Heard(Len(events), kind) <=> kind \in kinds
         /\ StagesOf(trace) = First(k)
<1> DEFINE n == Len(events)
<1>1. DOMAIN events = 1..n /\ n \in Nat  OBVIOUS
<1>2. \A kind : Heard(n, kind) <=> kind \in kinds
  BY <1>1 DEF Heard, Tells, Contract!Kinds
<1>3. Before(events, n + 1) = events
  <2>1. events = [i \in 1..n |-> events[i]] /\ (n + 1) - 1 = n  BY <1>1
  <2>2. QED  BY <2>1 DEF Before
<1>4. PICK m \in 0..9 : UpTo(k) = UpTo(m) /\ StagesOf(trace) = First(m)
  BY <1>3 DEF Traced, Tells
<1>5. QED  BY <1>2, <1>4, UpToOne

\* The envelope of a turn that is over, but for its trace.
Envelope(r) ==
  LET business == request.channel = "business"
  IN  /\ r.started /\ r.answer # None
      /\ (r.status = "error") <=> (r.answer = "detail")
      /\ (r.status = "refused") <=> (r.answer = "refusal")
      /\ request.found # {} => r.routes = "none"
      /\ r.proposal => r.routes = "action" /\ r.answer = "answer" /\ r.usage = NoUsage
      /\ r.usage.calls > 0 => r.routes = "direct"
      /\ saved # None => r.usage.cost = saved
      /\ r.structured # None => business /\ r.usage.calls > 0
      /\ r.structured = "conforming" => request.schema /\ r.usage.calls = 2
      /\ business /\ ~request.schema /\ r.usage.calls > 0 => r.structured = "wrapped"

\* What a turn that is over told, as it raised or did not.
Ended(kinds, k) ==
  /\ Tells(events, kinds, k) /\ {"turn.start", "route", "turn.end"} \subseteq kinds
  /\ IF lastStatus = "error"
       THEN k = 6 /\ "error" \in kinds /\ {"answer", "proposal", "usage"} \cap kinds = {}
       ELSE k = 9 /\ "answer" \in kinds /\ "usage" \in kinds

LEMMA JsonTellsOne ==
  ASSUME EngineInv, TellInv, ErrorUncharged, Routed, Bodied, Runs("done"), NEW r, r = Folded
  PROVE  /\ Envelope(r)
         /\ IsPrefix(StagesOf(r.trace), Pipeline)
         /\ r.status # "error" => StagesOf(r.trace) = Pipeline
         /\ (\E i \in DOMAIN r.trace : r.trace[i].status = "degraded")
              => r.status \in {"degraded", "error"}
<1> DEFINE n == Len(events)
<1>1. block = "done" /\ queue = <<>> /\ Told = events /\ events \in Seq(Contract!Event)
      /\ n \in Nat
  BY EmptyQueue DEF Runs, Told, EngineInv, TypeOK
<1>2. Collected(r, n)  BY <1>1, ResultCollected
<1>3. PICK P \in Offers :
        IF lastStatus = "error" THEN Tells(events, Said \cup {"error", "turn.end"}, 6)
        ELSE Tells(events, Said \cup P \cup {"answer", "usage", "turn.end"}, 9)
  <2>1. {} \in Offers  BY DEF Offers
  <2>2. QED  BY <1>1, <2>1 DEF TellInv, Telling
<1>4. answer \in Answers /\ lastStatus \in {"ok", "degraded", "error"}
  BY DEF EngineInv, TypeOK
<1>5. None \notin Answers /\ None \notin {"detail", "conforming", "wrapped"}
  BY TurnEngineAssumption
<1>a. PICK kinds, k : k \in {6, 9} /\ Ended(kinds, k)
  <2>1. CASE lastStatus = "error"
    <3>1. Ended(Said \cup {"error", "turn.end"}, 6)  BY <1>3, <2>1 DEF Ended, Said
    <3>2. QED  BY <3>1
  <2>2. CASE lastStatus # "error"
    <3>1. Ended(Said \cup P \cup {"answer", "usage", "turn.end"}, 9)
      BY <1>3, <2>2 DEF Ended, Said
    <3>2. QED  BY <3>1
  <2>3. QED  BY <2>1, <2>2
<1>6. /\ k \in {6, 9}
      /\ Tells(events, kinds, k) /\ {"turn.start", "route", "turn.end"} \subseteq kinds
      /\ IF lastStatus = "error"
           THEN k = 6 /\ "error" \in kinds /\ {"answer", "proposal", "usage"} \cap kinds = {}
           ELSE k = 9 /\ "answer" \in kinds /\ "usage" \in kinds
  BY <1>a DEF Ended
<1>7. /\ \A kind : Heard(n, kind) <=> kind \in kinds
      /\ StagesOf(r.trace) = First(k)
  <2>1. Traced(r.trace, n)  BY <1>2 DEF Collected
  <2>2. k \in 0..9  BY <1>6
  <2>3. QED  BY <1>1, <1>6, <2>1, <2>2, HeardAll
<1>8. PICK j \in 1..n : events[j].kind = "route" /\ events[j].status = r.routes
  BY <1>2, <1>6, <1>7 DEF Collected, RouteHeard
<1>9. events[j] \in ToldSet /\ r.routes \in {"none", "direct", "action"}
  BY <1>1, <1>2 DEF ToldSet, Collected, Results
<1>10. IF r.routes = "none" THEN usage = NoUsage
       ELSE Passes(request) /\ (r.routes = "action" <=> Proposes)
  BY <1>8, <1>9 DEF Routed, RoutesOf
<1>11. Heard(n, "proposal") => Proposes /\ Passes(request) /\ r.routes # "none"
  <2> SUFFICES ASSUME NEW i \in 1..n, events[i].kind = "proposal"
               PROVE  Proposes /\ Passes(request) /\ r.routes # "none"
    BY DEF Heard
  <2>1. Proposes /\ Passes(request)  BY <1>1 DEF TellInv, Offering
  <2>2. events[i] \in ToldSet  BY <1>1 DEF ToldSet
  <2>3. QED  BY <1>8, <1>9, <2>1, <2>2 DEF Routed
<1>12. r.started /\ r.status = Outcome(answer, lastStatus) /\ (r.proposal <=> Heard(n, "proposal"))
  BY <1>2, <1>6, <1>7 DEF Collected
<1>13. request.found # {} => r.routes = "none"
  BY <1>10, FoundStops DEF EngineInv
<1>14. Envelope(r)
  <2>1. CASE lastStatus = "error"
    <3>1. /\ r.answer = "detail" /\ r.structured = None /\ r.usage = NoUsage /\ ~r.proposal
          /\ r.status = "error"
      BY <1>2, <1>6, <1>7, <1>12, <2>1 DEF Collected, Outcome
    <3>2. saved = None  BY <2>1 DEF ErrorUncharged
    <3>3. r.usage.calls = 0  BY <3>1 DEF NoUsage
    <3>4. QED  BY <1>5, <1>12, <1>13, <3>1, <3>2, <3>3 DEF Envelope
  <2>2. CASE lastStatus # "error"
    <3>1. r.answer = answer /\ r.structured = structured /\ r.usage = usage
      BY <1>2, <1>6, <1>7, <2>2 DEF Collected
    <3>2. r.status # "error" /\ (r.status = "refused" <=> answer = "refusal")
      BY <1>4, <1>12, <2>2 DEF Outcome
    <3>3. r.answer # "detail" /\ r.answer # None  BY <1>4, <1>5, <3>1 DEF Answers
    <3>4. r.proposal => r.routes = "action" /\ r.answer = "answer" /\ r.usage = NoUsage
      BY <1>10, <1>11, <1>12, <3>1 DEF TellInv, Stopping
    <3>5. r.usage.calls > 0 => r.routes = "direct"
      <4>1. NoUsage.calls = 0  BY DEF NoUsage
      <4>2. usage.calls > 0 => usage # NoUsage  BY <4>1
      <4>3. Proposes => usage = NoUsage  BY DEF TellInv, Stopping
      <4>4. QED  BY <1>9, <1>10, <3>1, <4>2, <4>3
    <3>6. saved # None => r.usage.cost = saved  BY <3>1 DEF EngineInv, Spending
    <3>7. /\ structured # None => request.channel = "business" /\ usage.calls > 0
          /\ structured = "conforming" => request.schema /\ usage.calls = 2
          /\ request.channel = "business" /\ ~request.schema /\ usage.calls > 0
               => structured = "wrapped"
      BY DEF Bodied
    <3>8. QED  BY <1>12, <1>13, <3>1, <3>2, <3>3, <3>4, <3>5, <3>6, <3>7 DEF Envelope
  <2>3. QED  BY <2>1, <2>2
<1>15. IsPrefix(StagesOf(r.trace), Pipeline)
  <2>1. k \in 0..9  BY <1>6
  <2>2. QED  BY <1>7, <2>1, WholePipeline
<1>16. r.status # "error" => StagesOf(r.trace) = Pipeline
  BY <1>6, <1>7, <1>12, WholePipeline DEF Outcome
<1>17. ASSUME NEW i \in DOMAIN r.trace, r.trace[i].status = "degraded"
       PROVE  r.status \in {"degraded", "error"}
  <2>1. r.trace \in Seq(Contract!Event)  BY <1>2 DEF Collected, Results
  <2>2. i \in 1..Len(r.trace)  BY <1>17, <2>1
  <2>3. Traced(r.trace, n)  BY <1>2 DEF Collected
  <2>4. PICK l \in 1..n : r.trace[i] = events[l] /\ events[l].kind = "stage"
    BY <2>2, <2>3 DEF Traced
  <2>5. lastStatus \in {"degraded", "error"}
    BY <1>1, <1>17, <2>4 DEF TellInv, Agreeing, Agrees
  <2>6. answer = "refusal" => lastStatus = "ok"  BY DEF TellInv, Stopping
  <2>7. QED  BY <1>12, <2>5, <2>6 DEF Outcome
<1>18. QED  BY <1>14, <1>15, <1>16, <1>17

\* Whoever does not watch the events learns from the envelope what they told.
THEOREM JsonTellsAll == Spec => []JsonTellsTheTurn
<1>1. EngineInv /\ TellInv /\ ErrorUncharged /\ Routed /\ Bodied => JsonTellsTheTurn
  <2> SUFFICES ASSUME EngineInv, TellInv, ErrorUncharged, Routed, Bodied, Runs("done")
               PROVE  JsonTellsTheTurn
    BY DEF JsonTellsTheTurn
  <2> DEFINE r == Folded
             t == TurnResult
  <2>1. r = Folded  OBVIOUS
  <2>2. t = IF request.trace THEN r ELSE [r EXCEPT !.trace = None]  BY DEF TurnResult
  <2>3. r \in Results
    <3>1. queue = <<>>  BY DEF Runs
    <3>2. QED  BY <3>1, ResultCollected DEF Collected
  <2> HIDE DEF r, t
  <2>4. /\ Envelope(r)
        /\ IsPrefix(StagesOf(r.trace), Pipeline)
        /\ r.status # "error" => StagesOf(r.trace) = Pipeline
        /\ (\E i \in DOMAIN r.trace : r.trace[i].status = "degraded")
             => r.status \in {"degraded", "error"}
    BY <2>1, JsonTellsOne
  <2>5. /\ t.started = r.started /\ t.routes = r.routes /\ t.proposal = r.proposal
        /\ t.answer = r.answer /\ t.structured = r.structured /\ t.usage = r.usage
        /\ t.status = r.status /\ t.trace = IF request.trace THEN r.trace ELSE None
    BY <2>2, <2>3 DEF Results
  <2>6. Envelope(t)  BY <2>4, <2>5 DEF Envelope
  <2>7. IF ~request.trace THEN t.trace = None
        ELSE /\ IsPrefix(StagesOf(t.trace), Pipeline)
             /\ t.status # "error" => StagesOf(t.trace) = Pipeline
             /\ (\E i \in DOMAIN t.trace : t.trace[i].status = "degraded")
                  => t.status \in {"degraded", "error"}
    BY <2>4, <2>5
  <2>8. QED  BY <2>6, <2>7 DEF JsonTellsTheTurn, Envelope, t
<1>2. QED
  BY <1>1, EngineCorrect, TellCorrect, ErrorStaysUncharged, RoutedCorrect, BodiedCorrect, PTL

=============================================================================

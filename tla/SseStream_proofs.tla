-------------------------- MODULE SseStream_proofs --------------------------
(***************************************************************************)
(* Theorems about SseStream, for a turn of any length.                     *)
(***************************************************************************)
EXTENDS SseStream, TLAPS

(* Where the adapter is decides what task it has, and the events made and  *)
(* not yet received are the one in the task or the one in the frame.       *)

\* The adapter at a yield after an event has no task; anywhere else it has one,
\* which is not being cancelled; a closed adapter left none that runs on.
Suspended ==
  /\ adapter = "framing" => pending = "none" /\ frame = made
  /\ adapter \in {"waiting", "beating"} => pending \in Task \ {"none", "cancelling"}
  /\ adapter = "closed" => pending \in {"none", "cancelling"}

InFlight == IF adapter = "framing" \/ pending = "event" THEN 1 ELSE 0

\* Nothing is lost on the way, unless the adapter was abandoned with it.
NoneLost ==
  adapter # "closed" \/ client = "here" => made = Len(received) + InFlight

InOrder == \A i \in DOMAIN received : received[i] = i

\* An open stream waits for no more of a generator that is over, and one that
\* returned made all its events.
Ending ==
  adapter # "closed" =>
    /\ engine = "over" => pending \in {"stop", "raised"}
    /\ pending = "stop" => made = Length

StreamInv == TypeOK /\ Suspended /\ NoneLost /\ InOrder /\ Ending /\ OneAtATime

LEMMA StreamInit == Init => StreamInv
BY SseStreamAssumption
DEF Init, StreamInv, TypeOK, Task, Suspended, InFlight, NoneLost, InOrder, Ending, OneAtATime

\* The steps of the task and of the engine leave the adapter alone.
LEMMA TaskStep ==
  ASSUME StreamInv, Resume \/ Produce \/ Return \/ Raise \/ Cancelled
  PROVE  StreamInv'
<1> USE SseStreamAssumption
    DEF StreamInv, TypeOK, Task, Suspended, InFlight, NoneLost, InOrder, Ending, OneAtATime,
        clientVars
<1>1. CASE Resume  BY <1>1 DEF Resume
<1>2. CASE Produce  BY <1>2 DEF Produce
<1>3. CASE Return  BY <1>3 DEF Return
<1>4. CASE Raise  BY <1>4 DEF Raise
<1>5. CASE Cancelled  BY <1>5 DEF Cancelled
<1>6. QED  BY <1>1, <1>2, <1>3, <1>4, <1>5

LEMMA ClosingStep ==
  ASSUME StreamInv, Finish \/ Abandon
  PROVE  StreamInv'
<1> USE SseStreamAssumption
    DEF StreamInv, TypeOK, Task, Suspended, InFlight, NoneLost, InOrder, Ending, OneAtATime,
        clientVars, Close
<1>1. CASE Finish  BY <1>1 DEF Finish
<1>2. CASE Abandon  BY <1>2 DEF Abandon
<1>3. QED  BY <1>1, <1>2

LEMMA AdapterStep ==
  ASSUME StreamInv, Frame \/ Beat \/ Leave
  PROVE  StreamInv'
<1> USE SseStreamAssumption
    DEF StreamInv, TypeOK, Task, Suspended, InFlight, NoneLost, InOrder, Ending, OneAtATime,
        engineVars, clientVars
<1>1. CASE Frame  BY <1>1 DEF Frame
<1>2. CASE Beat  BY <1>2 DEF Beat
<1>3. CASE Leave  BY <1>3 DEF Leave
<1>4. QED  BY <1>1, <1>2, <1>3

LEMMA AppendOne ==
  ASSUME NEW S, NEW s \in Seq(S), NEW x \in S
  PROVE  /\ Append(s, x) \in Seq(S)
         /\ Len(Append(s, x)) = Len(s) + 1
         /\ \A i \in 1..Len(s) : Append(s, x)[i] = s[i]
         /\ Append(s, x)[Len(s) + 1] = x
OBVIOUS

\* The frame that was sent is the next event: the made-th, after made - 1.
LEMMA SentStep ==
  ASSUME StreamInv, Sent
  PROVE  StreamInv'
<1> USE SseStreamAssumption
<1> DEFINE sent == Append(received, frame)
<1>1. CASE adapter = "framing"
  <2>1. frame = Len(received) + 1 /\ frame \in 1..Length /\ received \in Seq(1..Length)
    BY <1>1 DEF StreamInv, TypeOK, Suspended, NoneLost, InFlight
  <2>2. received' = sent
    BY <1>1 DEF Sent
  <2>3. /\ sent \in Seq(1..Length)
        /\ Len(sent) = Len(received) + 1
        /\ \A i \in 1..Len(received) : sent[i] = received[i]
        /\ sent[Len(received) + 1] = frame
    BY ONLY <2>1, AppendOne
  <2> HIDE DEF sent
  <2>4. InOrder'
    <3>1. DOMAIN sent = 1..(Len(received) + 1) /\ DOMAIN received = 1..Len(received)
      BY <2>1, <2>3
    <3>2. \A i \in 1..(Len(received) + 1) : i \in 1..Len(received) \/ i = Len(received) + 1
      BY <2>1
    <3>3. \A i \in 1..(Len(received) + 1) : sent[i] = i
      BY <2>1, <2>3, <3>1, <3>2 DEF StreamInv, InOrder
    <3>4. QED  BY <2>2, <3>1, <3>3 DEF InOrder
  <2>5. QED
    BY <1>1, <2>1, <2>2, <2>3, <2>4
    DEF StreamInv, TypeOK, Task, Suspended, InFlight, NoneLost, Ending, OneAtATime, engineVars, Sent
<1>2. CASE adapter = "beating"
  BY <1>2 DEF StreamInv, TypeOK, Task, Suspended, InFlight, NoneLost, InOrder, Ending, OneAtATime,
              engineVars, Sent
<1>3. QED  BY <1>1, <1>2 DEF Sent

LEMMA StreamStep == StreamInv /\ [Next]_vars => StreamInv'
<1> SUFFICES ASSUME StreamInv, [Next]_vars PROVE StreamInv'
  OBVIOUS
<1>1. CASE Resume \/ Produce \/ Return \/ Raise \/ Cancelled  BY <1>1, TaskStep
<1>2. CASE Finish \/ Abandon  BY <1>2, ClosingStep
<1>3. CASE Frame \/ Beat \/ Leave  BY <1>3, AdapterStep
<1>4. CASE Sent  BY <1>4, SentStep
<1>5. CASE UNCHANGED vars
  BY <1>5 DEF vars, engineVars, clientVars, StreamInv, TypeOK, Suspended, InFlight, NoneLost,
              InOrder, Ending, OneAtATime
<1>6. QED  BY <1>1, <1>2, <1>3, <1>4, <1>5 DEF Next, Loop

\* The inductive invariant of the stream.
THEOREM StreamCorrect == Spec => []StreamInv
BY StreamInit, StreamStep, PTL DEF Spec

\* Every reachable state is of the declared type.
THEOREM StreamTypeCorrect == Spec => []TypeOK
<1>1. StreamInv => TypeOK  BY DEF StreamInv
<1>2. QED  BY <1>1, StreamCorrect, PTL

\* Every event is received once and in order, whatever the heartbeats, and a
\* stream that ends by itself ends with all of them (_with_heartbeat).
THEOREM DeliversAll == Spec => []Delivered
<1>1. StreamInv => Delivered
  <2> SUFFICES ASSUME StreamInv PROVE Delivered
    OBVIOUS
  <2>1. adapter = "closed" /\ client = "here" => Len(received) = made
    BY DEF StreamInv, TypeOK, Suspended, NoneLost, InFlight
  <2>2. QED  BY <2>1 DEF StreamInv, InOrder, Delivered
<1>2. QED  BY <1>1, StreamCorrect, PTL

\* No second __anext__ while the generator runs.
THEOREM EnteredOnce == Spec => []OneAtATime
<1>1. StreamInv => OneAtATime  BY DEF StreamInv
<1>2. QED  BY <1>1, StreamCorrect, PTL

\* A closed stream makes no further event, although aclose may fail.
THEOREM SilentAfterClose == Spec => NothingAfterClose
<1>1. StreamInv /\ [Next]_vars => [adapter = "closed" => made' = made]_vars
  BY DEF StreamInv, Suspended, Next, Loop, Resume, Produce, Return, Raise, Cancelled, Frame, Beat,
         Sent, Finish, Abandon, Leave, engineVars, clientVars, vars
<1>2. QED  BY <1>1, StreamCorrect, PTL DEF Spec, NothingAfterClose

\* A stream its client stays on ends only when the turn made its last event or
\* raised.
THEOREM NeverCutOff == Spec => EndsWithTurn
<1>1. StreamInv /\ [Next]_vars =>
        [adapter # "closed" /\ adapter' = "closed" /\ client = "here" =>
           made = Length \/ pending = "raised"]_vars
  BY DEF StreamInv, Ending, Next, Loop, Resume, Produce, Return, Raise, Cancelled, Frame, Beat,
         Sent, Finish, Abandon, Leave, engineVars, clientVars, vars
<1>2. QED  BY <1>1, StreamCorrect, PTL DEF Spec, EndsWithTurn

=============================================================================

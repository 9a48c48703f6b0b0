----------------------------- MODULE SseStream -----------------------------
(***************************************************************************)
(* The adapter between a turn and its stream (api/sse.py _with_heartbeat): *)
(* two async generators and the task that runs the inner one.              *)
(*                                                                         *)
(* The adapter waits for the next event of the engine in a task of its own *)
(* (`pending'), so that it can send a heartbeat when the engine is silent  *)
(* and go on waiting for the same task.  It is suspended either in         *)
(* asyncio.wait or at a yield, while the server sends the frame it made.   *)
(* A client that leaves is noticed there: in asyncio.wait the server's     *)
(* cancellation is raised; at a yield the server drops the adapter and the *)
(* event loop's hook for dropped generators closes it.                     *)
(*                                                                         *)
(* The engine is any generator of Length events, or fewer if it raises;    *)
(* TurnEngine is the one this service streams.                             *)
(***************************************************************************)
EXTENDS Naturals, Sequences

CONSTANT Length  \* the events of a turn that runs to its end

ASSUME SseStreamAssumption == Length \in Nat

VARIABLES
  engine,    \* the generator: "idle" at a yield, "running", or "over"
  made,      \* how many events it has yielded
  pending,   \* the task that asks it for the next event
  adapter,   \* where the adapter is suspended, or "closed"
  frame,     \* the event it is sending
  received,  \* the events the client has received
  client     \* "here", or "gone" once the server told the stream to stop

engineVars == <<engine, made>>
clientVars == <<received, client>>
vars == <<engineVars, pending, adapter, frame, clientVars>>

\* no task; created; running; done with an event, the end or an exception;
\* told to cancel but not yet resumed
Task == {"none", "new", "running", "event", "stop", "raised", "cancelling"}

-----------------------------------------------------------------------------
(* The task and the engine in it *)

Resume ==
  /\ pending = "new"
  /\ pending' = "running"
  /\ engine' = (IF engine = "over" THEN "over" ELSE "running")
  /\ UNCHANGED <<made, adapter, frame, clientVars>>

Produce ==
  /\ pending = "running" /\ engine = "running"
  /\ made < Length
  /\ made' = made + 1
  /\ engine' = "idle"
  /\ pending' = "event"
  /\ UNCHANGED <<adapter, frame, clientVars>>

Return ==
  /\ pending = "running"
  /\ made = Length \/ engine = "over"
  /\ engine' = "over"
  /\ pending' = "stop"
  /\ UNCHANGED <<made, adapter, frame, clientVars>>

Raise ==
  /\ pending = "running"
  /\ engine' = "over"
  /\ pending' = "raised"
  /\ UNCHANGED <<made, adapter, frame, clientVars>>

\* CancelledError reaches the engine, which does not catch it
Cancelled ==
  /\ pending = "cancelling"
  /\ engine' = "over"
  /\ pending' = "none"
  /\ UNCHANGED <<made, adapter, frame, clientVars>>

-----------------------------------------------------------------------------
(* The adapter *)

\* asyncio.wait returns with the task done
Frame ==
  /\ client = "here" /\ adapter = "waiting"
  /\ pending = "event"
  /\ frame' = made
  /\ pending' = "none"
  /\ adapter' = "framing"
  /\ UNCHANGED <<engineVars, clientVars>>

\* mutant of Beat: wait_for instead of wait, which cancels what it waited for
BeatCancels ==
  /\ client = "here" /\ adapter = "waiting"
  /\ pending = "running"
  /\ pending' = "cancelling"
  /\ adapter' = "beating"
  /\ UNCHANGED <<engineVars, frame, clientVars>>

\* asyncio.wait returns with nothing done: a heartbeat, and the task lives on
Beat ==
  /\ client = "here" /\ adapter = "waiting"
  /\ pending = "running"
  /\ adapter' = "beating"
  /\ UNCHANGED <<engineVars, pending, frame, clientVars>>

\* mutant of Sent: a heartbeat is taken for an event
SentBeat ==
  /\ client = "here"
  /\ adapter \in {"framing", "beating"}
  /\ received' = Append(received, frame)
  /\ pending' = IF pending = "none" THEN "new" ELSE pending
  /\ adapter' = "waiting"
  /\ UNCHANGED <<engineVars, frame, client>>

\* mutant of Sent: a task is created after a heartbeat too
SentAnew ==
  /\ client = "here"
  /\ adapter \in {"framing", "beating"}
  /\ received' = IF adapter = "framing" THEN Append(received, frame) ELSE received
  /\ pending' = "new"
  /\ adapter' = "waiting"
  /\ UNCHANGED <<engineVars, frame, client>>

\* the server sent the frame or the heartbeat and asks for the next one
Sent ==
  /\ client = "here"
  /\ adapter \in {"framing", "beating"}
  /\ received' = IF adapter = "framing" THEN Append(received, frame) ELSE received
  /\ pending' = IF pending = "none" THEN "new" ELSE pending
  /\ adapter' = "waiting"
  /\ UNCHANGED <<engineVars, frame, client>>

\* mutant of Close: the task is left alone
CloseOnly ==
  /\ adapter' = "closed"
  /\ engine' = IF engine = "idle" THEN "over" ELSE engine
  /\ pending' = pending

\* the adapter's finally: a task that is not done is told to cancel, and the
\* engine is closed, which fails while the task still runs it
Close ==
  /\ adapter' = "closed"
  /\ engine' = IF engine = "idle" THEN "over" ELSE engine
  /\ pending' = IF pending \in {"running", "cancelling"} THEN "cancelling" ELSE "none"

\* the engine returned or raised, and so does the adapter
Finish ==
  /\ client = "here" /\ adapter = "waiting"
  /\ pending \in {"stop", "raised"}
  /\ Close
  /\ UNCHANGED <<made, frame, clientVars>>

-----------------------------------------------------------------------------
(* The client and the server *)

Leave ==
  /\ client = "here" /\ adapter # "closed"
  /\ client' = "gone"
  /\ UNCHANGED <<engineVars, pending, adapter, frame, received>>

\* the disconnect is raised in asyncio.wait, or closes the adapter at a yield
Abandon ==
  /\ client = "gone" /\ adapter # "closed"
  /\ Close
  /\ UNCHANGED <<made, frame, clientVars>>

-----------------------------------------------------------------------------
\* a stream whose first frame was asked for
Init ==
  /\ engine = "idle"
  /\ made = 0
  /\ pending = "new"
  /\ adapter = "waiting"
  /\ frame = 0
  /\ received = <<>>
  /\ client = "here"

Loop == Resume \/ Cancelled \/ Frame \/ Finish \/ Abandon

Next == Loop \/ Produce \/ Return \/ Raise \/ Beat \/ Sent \/ Leave

Spec == Init /\ [][Next]_vars

\* The event loop resumes what is ready and delivers a disconnect.  The engine
\* may stay silent and the client may be slow for ever.
FairSpec == Spec /\ WF_vars(Loop)

-----------------------------------------------------------------------------
(* What must hold *)

TypeOK ==
  /\ engine \in {"idle", "running", "over"}
  /\ made \in 0..Length
  /\ pending \in Task
  /\ adapter \in {"waiting", "framing", "beating", "closed"}
  /\ frame \in 0..Length
  /\ received \in Seq(1..Length)
  /\ client \in {"here", "gone"}

\* However heartbeats fall, the client receives every event the engine makes,
\* once and in order, and a stream it does not leave ends with all of them.
Delivered ==
  /\ \A i \in DOMAIN received : received[i] = i
  /\ adapter = "closed" /\ client = "here" => Len(received) = made

\* The generator is never entered while it runs, which would raise.
OneAtATime == engine = "running" => pending \in {"running", "cancelling"}

\* A client that stays is never cut off: its stream ends when the turn made its
\* last event, or raised.
EndsWithTurn ==
  [][adapter # "closed" /\ adapter' = "closed" /\ client = "here" =>
       made = Length \/ pending = "raised"]_vars

\* The turn makes no event once the adapter is closed, although closing the
\* engine fails while it runs.
NothingAfterClose == [][adapter = "closed" => made' = made]_vars

\* "A dropped connection does not leave a turn running with nowhere to send its
\* output."
StopsWithClient == client = "gone" ~> (engine = "over" /\ pending = "none")

=============================================================================

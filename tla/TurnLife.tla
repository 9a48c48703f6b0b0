------------------------------ MODULE TurnLife ------------------------------
(***************************************************************************)
(* The life of one turn as the session store sees it: which of its blocks  *)
(* may come after which, and what the model calls cost it.  Every turn of  *)
(* Sessions lives it, and so does the turn TurnEngine describes event by   *)
(* event, so the two modules speak of the same turn.                       *)
(***************************************************************************)
EXTENDS Naturals

CONSTANT MaxCost  \* bound: the most one turn is charged

VARIABLES
  pc,    \* "idle", suspended in one of the blocks, "done" or "dropped"
  took,  \* it took a confirmed proposal
  cost   \* what the gateway reported to have charged it

vars == <<pc, took, cost>>

Goes(from, to) == pc = from /\ pc' = to

Init == pc = "idle" /\ took = FALSE /\ cost = 0

Arrive == Goes("idle", "started") /\ UNCHANGED <<took, cost>>
Divert == Goes("started", "answering") /\ UNCHANGED <<took, cost>>
Admit  == Goes("started", "planned") /\ took' \in BOOLEAN /\ UNCHANGED cost

\* a proposal, an execution, or an exhausted deadline: no call is made
Canned == Goes("planned", "answering") /\ UNCHANGED <<took, cost>>
Call   == Goes("planned", "calling") /\ ~took /\ UNCHANGED <<took, cost>>

\* the call came back or failed, and a business turn may ask again
Answer == Goes("calling", "answering") /\ cost' \in 0..MaxCost /\ UNCHANGED took
Again  == Goes("calling", "structuring") /\ cost' \in 0..MaxCost /\ UNCHANGED took
Structured ==
  Goes("structuring", "answering") /\ cost' \in cost..MaxCost /\ UNCHANGED took

Persist == Goes("answering", "done") /\ UNCHANGED <<took, cost>>

\* an exception, or a client that left: what was charged stays charged
Drop ==
  /\ pc \in {"started", "planned", "calling", "structuring", "answering"}
  /\ pc' = "dropped"
  /\ UNCHANGED <<took, cost>>

Next == \/ Arrive \/ Divert \/ Admit \/ Canned \/ Call
        \/ Answer \/ Again \/ Structured \/ Persist \/ Drop

Spec == Init /\ [][Next]_vars

=============================================================================

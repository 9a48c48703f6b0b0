---------------------------- MODULE MCTurnEngine ----------------------------
(* Small instances of TurnEngine for TLC. *)
EXTENDS TurnEngine

\* Texts that one guardrail stops, that several would, and that none does.
Found ==
  {{}, {"injection"}, {"injection", "abuse", "human"}, {"discount_negotiation"},
   {"competitor_mention", "human"}, {"human"}}

\* Every request of both channels, with an option absent, below and above
\* its ceiling.
Customers ==
  [channel : {"customer"}, found : Found,
   trigger : BOOLEAN, confirm : BOOLEAN, schema : {FALSE},
   deadline : {None, 1, 3}, maxCost : {None}, trace : {TRUE}, stream : BOOLEAN]
Businesses ==
  [channel : {"business"}, found : Found,
   trigger : BOOLEAN, confirm : {FALSE}, schema : BOOLEAN,
   deadline : {None, 1, 3}, maxCost : {None, 1, 3}, trace : {TRUE},
   stream : BOOLEAN]
\* and, as JSON, without the trace
Untraced ==
  {[r EXCEPT !.trace = FALSE] :
     r \in {q \in Customers \cup Businesses : ~q.stream /\ q.deadline = None /\ q.maxCost = None}}
AllRequests == Customers \cup Businesses \cup Untraced

=============================================================================

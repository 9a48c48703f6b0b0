--------------------------- MODULE EventContract ---------------------------
(***************************************************************************)
(* What a client may rely on in the events of one turn: the contract of    *)
(* schemas/events.py and docs/02-lld.md section 4, whatever emits them.    *)
(* A connection that breaks leaves a prefix.                               *)
(***************************************************************************)
EXTENDS Naturals, Sequences

CONSTANTS
  Pipeline,  \* the stages, in the order in which they may be reported
  None

VARIABLE events  \* what the client has received

Stages == {Pipeline[i] : i \in DOMAIN Pipeline}
Event ==
  [kind : {"stage"}, of : Stages, status : {"ok", "skipped", "degraded", "blocked"}]
  \cup [kind : {"turn.start", "proposal", "usage", "error"}, of : {None}, status : {None}]
  \cup [kind : {"route"}, of : {None}, status : {"none", "direct", "action"}]
  \cup [kind : {"answer"}, of : {None, "wrapped", "conforming"},
        status : {"answer", "refusal", "escalated"}]
  \cup [kind : {"turn.end"}, of : {None},
        status : {"ok", "refused", "degraded", "error"}]

Rank(s) == CHOOSE i \in DOMAIN Pipeline : Pipeline[i] = s
Kinds(h) == {h[i].kind : i \in DOMAIN h}
Reported(h) == {h[i].of : i \in {j \in DOMAIN h : h[j].kind = "stage"}}

\* The status on turn.end is the outcome the events have told.
Truthful(h, status) ==
  /\ status = "error" <=> "error" \in Kinds(h)
  /\ status = "refused" <=> \E i \in DOMAIN h : h[i].status = "refusal"
  /\ (\E i \in DOMAIN h : h[i].kind = "stage" /\ h[i].status = "degraded")
       => status \in {"degraded", "error"}

MayFollow(h, e) ==
  /\ h = <<>> <=> e.kind = "turn.start"
  /\ "turn.end" \notin Kinds(h)
  /\ "error" \in Kinds(h) => e.kind = "turn.end"
  /\ e.kind \in {"route", "proposal", "answer", "usage"} => e.kind \notin Kinds(h)
  /\ e.kind = "stage" => \A s \in Reported(h) : Rank(s) < Rank(e.of)
  /\ e.kind = "proposal" => "route" \in Kinds(h) /\ "synthesise" \notin Reported(h)
  /\ e.kind = "answer" => "guardrails_out" \in Reported(h) /\ "route" \in Kinds(h)
  /\ e.kind = "stage" /\ e.of = "persist" => "answer" \in Kinds(h)
  /\ e.kind = "usage" => "persist" \in Reported(h)
  /\ e.kind = "turn.end" =>
       /\ Kinds(h) \cap {"usage", "error"} # {}
       /\ Truthful(h, e.status)

Init == events = <<>>
Next == \E e \in Event : MayFollow(events, e) /\ events' = Append(events, e)
Spec == Init /\ [][Next]_events

=============================================================================

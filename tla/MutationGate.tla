---------------------------- MODULE MutationGate ----------------------------
(***************************************************************************)
(* What the two-phase mutation gate promises, whatever carries it out: a   *)
(* proposal is offered once and for a fixed time, at most one is pending   *)
(* in a conversation, and it can be executed only by being taken while it  *)
(* is pending and in time, once.  Whatever stops being pending or taken    *)
(* without being executed is dead.                                         *)
(*                                                                         *)
(* It does not promise that what was taken in time is executed in time.    *)
(***************************************************************************)
EXTENDS Naturals

CONSTANTS Proposals, Conversations, Ttl, None

VARIABLES
  state,    \* the life of each proposal
  home,     \* the conversation it was offered in
  expires,  \* the instant at which each pending one expires
  now       \* the clock

life == <<state, home>>
vars == <<life, expires, now>>

Life == {"none", "pending", "taken", "executed", "dead"}

Init ==
  /\ state = [p \in Proposals |-> "none"]
  /\ home = [p \in Proposals |-> None]

\* Offering a proposal supersedes the one pending in the same conversation.
Offer(p, c) ==
  /\ state[p] = "none"
  /\ home' = [home EXCEPT ![p] = c]
  /\ state' = [q \in Proposals |->
       IF q = p THEN "pending"
       ELSE IF state[q] = "pending" /\ home[q] = c THEN "dead" ELSE state[q]]

Take(p) ==
  /\ state[p] = "pending"
  /\ state' = [state EXCEPT ![p] = "taken"]
  /\ UNCHANGED home

Execute(p) ==
  /\ state[p] = "taken"
  /\ state' = [state EXCEPT ![p] = "executed"]
  /\ UNCHANGED home

\* Cancelled, refused, expired on use, or lost with the turn that took it.
Discard(D) ==
  /\ \A p \in D : state[p] \in {"pending", "taken"}
  /\ state' = [p \in Proposals |-> IF p \in D THEN "dead" ELSE state[p]]
  /\ UNCHANGED home

Move ==
  \/ \E p \in Proposals, c \in Conversations : Offer(p, c)
  \/ \E p \in Proposals : Take(p) \/ Execute(p)
  \/ \E D \in SUBSET Proposals : Discard(D)
  \/ UNCHANGED life

\* A proposal expires Ttl after its offer: nothing that happens while it is
\* pending puts that off, and it is not taken at that instant or after it.
InTime ==
  /\ now <= now'
  /\ \A p \in Proposals : state'[p] = "pending" =>
       expires'[p] = IF state[p] = "pending" THEN expires[p] ELSE now + Ttl
  /\ \A p \in Proposals : state[p] = "pending" /\ state'[p] = "taken" => now < expires[p]

Next == Move /\ InTime

Spec == Init /\ [][Next]_vars

=============================================================================

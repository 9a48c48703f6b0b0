----------------------------- MODULE MCSessions -----------------------------
(* Small instances of Sessions for TLC.  alice and bob are two customer keys *)
(* of one tenant, eve is a business key of another.                          *)
EXTENDS Sessions, TLC

CONSTANTS alice, bob, eve

TenantOf  == [k \in Keys |-> IF k = eve THEN "globex" ELSE "acme"]
ChannelOf == [k \in Keys |-> IF k = eve THEN "business" ELSE "customer"]

\* Turns are interchangeable: nothing orders them but the steps they take.
Symmetry == Permutations(Turns)

=============================================================================

\* Three turns of one customer, two of them in flight: confirmations race, are
\* replayed and cross other turns, an odd window trims in the middle of a pair,
\* and two turns exceed the ceiling together.
SPECIFICATION Spec
CONSTANTS
  alice = alice
  bob = bob
  eve = eve
  Turns = {t1, t2, t3}
  Keys = {alice}
  Tenant <- TenantOf
  Channel <- ChannelOf
  Texts = {"propose", "plain"}
  Window = 3
  Ceiling = 1
  MaxTurnCost = 1
  SessionTtl = 4
  ProposalTtl = 1
  MaxNow = 0
  MaxInFlight = 2
  None = None
  Bogus = Bogus
SYMMETRY Symmetry
INVARIANTS TypeOK AtMostOnce OnlyByConfirmation AdmittedTurnSettles HistoryPaired NoLostTurn Accounted SpendBound

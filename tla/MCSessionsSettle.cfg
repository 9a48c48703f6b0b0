\* REQ-MUT-006 and REQ-MUT-007 against the code: every turn settles the proposal.
SPECIFICATION Spec
CONSTANTS
  alice = alice
  bob = bob
  eve = eve
  Turns = {t1, t2}
  Keys = {alice}
  Tenant <- TenantOf
  Channel <- ChannelOf
  Texts = {"propose", "diverted"}
  Window = 1
  Ceiling = None
  MaxTurnCost = 0
  SessionTtl = 4
  ProposalTtl = 1
  MaxNow = 0
  MaxInFlight = 2
  None = None
  Bogus = Bogus
SYMMETRY Symmetry
INVARIANTS EveryTurnSettles

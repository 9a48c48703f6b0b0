\* Two customer keys of one tenant and a business key of another, sessions and
\* proposals that expire, clients that leave, and a process that restarts.
SPECIFICATION FairSpec
CONSTANTS
  alice = alice
  bob = bob
  eve = eve
  Turns = {t1, t2}
  Keys = {alice, bob, eve}
  Tenant <- TenantOf
  Channel <- ChannelOf
  Texts = {"propose", "plain"}
  Window = 3
  Ceiling = 1
  MaxTurnCost = 1
  SessionTtl = 0
  ProposalTtl = 1
  MaxNow = 1
  MaxInFlight = 2
  None = None
  Bogus = Bogus
INVARIANTS HistoryIsTheOwners
PROPERTIES ImplementsGate EveryTurnLives ContinuesLive TurnsEnd

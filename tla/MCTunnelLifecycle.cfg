CONSTANTS
  a = a
  b = b
  Clients = {a, b}
  Modes = {"masque", "wireguard"}
  CommandCapacity = 2
  CommandBudget = 1
  IncomingCapacity = 2
  ReadBudget = 1
  DrainBudget = 2
  Base = 2
  MaxDelay = 10
  MaxSleeps = 4
SPECIFICATION FairSpec
INVARIANTS SessionEndsClean BackoffFollowsFailures
PROPERTIES CommandsHandled ReconnectsUnlessBlocked
CHECK_DEADLOCK FALSE

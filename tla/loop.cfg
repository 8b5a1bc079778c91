CONSTANTS
  p1 = p1
  p2 = p2
  a1 = a1
  a2 = a2
  b = b
  c = c
  NoBead = NoBead
  Projects = {p1, p2}
  Keys = {a1, a2}
  ProjectOf <- MCProjectOf
  Blockers <- MCBlockers
  Replanned = {p2}
  Priority <- MCPriority
  GraphAware = TRUE
  MaxRetries = 2
  Faults = 2
  Unreliable = {"br", "git", "origin", "client", "receiver"}
  Shared = {a1, a2}
SPECIFICATION SpecAgentsExit
INVARIANTS TypeOK AttemptsBounded HaltedIsExhausted PublishedIsClosed NothingLeftBehind
PROPERTIES PublishesOneAttempt DispatchesInTurn HaltIsFinal PickupEnds DrainedOrHalted

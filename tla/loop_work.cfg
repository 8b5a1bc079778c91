CONSTANTS
  p1 = p1
  p2 = p2
  a1 = a1
  a2 = a2
  b = b
  c = c
  NoBead = NoBead
  Projects = {p1, p2}
  Keys = {a1}
  ProjectOf <- MCProjectOf
  Blockers <- MCBlockers
  Replanned = {}
  Priority <- MCPriority
  GraphAware = TRUE
  MaxRetries = 1
  Faults = 1
  Unreliable = {"origin"}
  Shared = {}
SPECIFICATION Spec
PROPERTY ClosedWorkIsKept

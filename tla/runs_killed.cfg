CONSTANTS
  Reasons = {"idle_timeout", "hard_ceiling"}
  Faults = 0
  Scripts <- MCScripts
  Texts <- MCTexts
  Requests = {r1}
  TTL = 1
  Looks = 0
CHECK_DEADLOCK FALSE
SPECIFICATION ViewSpec
INVARIANT KilledIsReported

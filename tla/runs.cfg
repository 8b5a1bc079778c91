CONSTANTS
  Reasons = {"idle_timeout", "consecutive_errors"}
  Faults = 2
  Scripts <- MCScripts
  Texts <- MCTexts
  Requests = {r1, r2}
  TTL = 2
  Looks = 2
CHECK_DEADLOCK FALSE
SPECIFICATION MCSpec
INVARIANTS TypeOK ReportedIsOver ZeroWorkIsTrue CompletedIsClosed ReportsAgree RunningIsExplained ViewTypeOK ViewCatchesUp EndedViewIsTrue ZeroWorkViewShowsNoWork TimelineIsFaithful
PROPERTIES EveryRunIsReported

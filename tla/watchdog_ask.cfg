CONSTANTS
  a1 = a1
  a2 = a2
  own = own
  twin = twin
  stdout = stdout
  stderr = stderr
  Never = Never
  Own = own
  Poll = 2
  Idle = 2
  Ceiling = 5
  DefaultWait = 3
  MaxErrors = 2
  ErrorGrace = 1
  AskGrace = 1
  TermGrace = 1
  AbortTimeout = 1
  LogVisible = TRUE
  Streams = {stdout, stderr}
  Asks = {a1, a2}
  Twins = {}
  Faults = 0
CHECK_DEADLOCK FALSE
SPECIFICATION WdSpec
INVARIANT UnansweredIsRecorded

\* Two deliveries, one of them without a clone URL, and two receipts: of both, or of
\* one of them twice.  A store of one record, so that each delivery may evict the
\* other between two of its phases.
SPECIFICATION Spec
CONSTANTS
  Senders = {trusted, person, bot}
  Bots = {bot}
  AllowedSenders = {trusted}
  Labels = {dispatch, direct}
  WorkflowLabels = {dispatch, direct}
  DirectBody = direct
  WithoutUrl = {2}
  MaxDeliveries = 2
  MaxReceipts = 2
  MaxRestarts = 1
  MaxFaults = 1
  MaxStored = 1
  Workers = 2
INVARIANTS TypeOK VerbatimIsTrusted RecordsAreTrue UnlinkedIsExplained WorkspaceIsSound
PROPERTIES SettledStays EveryAcceptedIsDispatched
CHECK_DEADLOCK FALSE

CONSTANTS
  Execs = {e1, e2}
  Stoppers = {c1, c2}
  MaxConcurrent = 1
  MaxCrashes = 1
  MaxFaults = 1
  Keys = {e1, e2}
  Requests = {c1}
  Lease = 1
  MaxChanges = 3
  Width = 2
  MaxGap = 3
  MaxTime = 4
  MaxReversals = 1
  NamedFirst = TRUE
  MaxWrites = 2
  MaxFails = 1
  None = None
SYMMETRY Symmetry
CONSTRAINT SshBound
SPECIFICATION RunnerSpec
INVARIANTS FinishedMeansOver LiveIsRegistered KeysRegisteredAgain CountedOnce WorkIsShown FailureRestores
PROPERTIES HistoryStays OriginalIsKept
CHECK_DEADLOCK FALSE

SPECIFICATION Spec
CONSTANTS
  Machine = {m1, m2}
  Job = {j1, j2}
  CompPState = {p0}
  SleepPState = {s0}
  AvailabilityEvents <- DownAndUp
  Switchable = {m1}
  Patient = TRUE
  AllowSharing = TRUE
  MaxRequests = 2
CHECK_DEADLOCK FALSE
INVARIANT StateMatchesPState
PROPERTY OnlyStaleDecisionsAbort
PROPERTY NoJobStartsWhileDown

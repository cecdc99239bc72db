SPECIFICATION Spec
CONSTANTS
  Machine = {m1}
  Job = {j1}
  CompPState = {p0}
  SleepPState = {s0}
  AvailabilityEvents <- NoEvents
  Switchable = {m1}
  Patient = FALSE
  AllowSharing = FALSE
  MaxRequests = 3
CHECK_DEADLOCK FALSE
INVARIANT SetMeansAnswered

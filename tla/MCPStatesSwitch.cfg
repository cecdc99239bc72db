SPECIFICATION FairSpec
CONSTANTS
  Machine = {m1, m2}
  Job = {j1, j2}
  CompPState = {p0, p1}
  SleepPState = {s0}
  AvailabilityEvents <- NoEvents
  Switchable = {m1, m2}
  Patient = TRUE
  AllowSharing = FALSE
  MaxRequests = 3
CHECK_DEADLOCK FALSE
INVARIANT PowerTypeOK
INVARIANT StateMatchesPState
INVARIANT SwitchesAreCounted
INVARIANT AnswersAreTrue
INVARIANT SetMeansAnswered
INVARIANT OneAnswerPerRequest
PROPERTY RequestsAreAnswered

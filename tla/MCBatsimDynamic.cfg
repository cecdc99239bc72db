SPECIFICATION Spec
CONSTANTS
  j1 = j1
  j2 = j2
  j3 = j3
  s1 = s1
  s2 = s2
  e1 = e1
  ev1 = ev1
  m1 = m1
  m2 = m2
  w1 = w1
  StaticJob = {j1}
  DynJob = {j3}
  ExtEvent = {ev1}
  JobSubmitter = {s1}
  EventSubmitter = {e1}
  Owner <- OneWorkload
  Date <- Dates
  Machine = {m1}
  Waiter = {w1}
  LateCall = {w1}
  Outcome = {"COMPLETED_SUCCESSFULLY"}
  RegistrationEnabled = TRUE
  RegistrationAck = TRUE
  AllowSharing = TRUE
  NbRes <- OneMachineEach
  MaxKills = 1
  MayKillAgain = FALSE
  MayContinue = TRUE
  Eager = FALSE
INVARIANTS
  LifeCycle
  EndsWhenNothingIsLeft
PROPERTY
  OnlyLateAborts
CHECK_DEADLOCK FALSE

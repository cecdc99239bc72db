SPECIFICATION Spec
CONSTANTS
  j1 = j1
  j2 = j2
  j3 = j3
  s1 = s1
  s2 = s2
  e1 = e1
  ev1 = ev1
  m1 = m1
  m2 = m2
  w1 = w1
  StaticJob = {j1, j2}
  DynJob = {}
  ExtEvent = {}
  JobSubmitter = {s1, s2}
  EventSubmitter = {}
  Owner <- TwoWorkloads
  Date <- Dates
  Machine = {m1, m2}
  Waiter = {w1}
  LateCall = {}
  Outcome = {"COMPLETED_SUCCESSFULLY", "COMPLETED_WALLTIME_REACHED"}
  RegistrationEnabled = FALSE
  RegistrationAck = FALSE
  AllowSharing = FALSE
  NbRes <- OneMachineEach
  MaxKills = 2
  MayKillAgain = FALSE
  MayContinue = FALSE
  Eager = FALSE
INVARIANTS
  TypeOK
  NoAbort
  CountersMatchJobs
  CompletedBeforeKilled
  EndReportedOnce
  NoDanglingJob
  MachinesConsistent
  NoMoreStaticJobIsTrue
  EveryKillAcknowledged
PROPERTY
  ImplementsResourceManager
CHECK_DEADLOCK FALSE

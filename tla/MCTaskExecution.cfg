\* Task trees of every kind of profile, cut short by walltimes, kills and messages.
CONSTANTS
  Machine <- MCMachine
  Storage <- MCStorage
  Profile <- MCProfile
  Def <- MCDef
  JobToRun <- MCJobs
  Duration = {1, 3}
  Transfer = {0, 2}
  Text = {"match", "other"}
  MaxMessages = 2
  MaxClock = 16
  Depth = 3
SPECIFICATION FairSpec
INVARIANTS
  TaskTypeOK
  WalltimeRespected
  RunsInOrder
  EndsAreTold
  WorkIsConserved
  OnlyTheseInputsAbort
PROPERTIES
  JobsEnd
CHECK_DEADLOCK FALSE

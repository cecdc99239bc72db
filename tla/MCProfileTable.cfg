\* Static and late jobs share profiles, with and without --enable-profile-reuse.
CONSTANTS
  Profile <- MCProfile
  Def <- MCDef
  Job <- MCJob
  JobDesc <- MCJobDesc
  File <- MCFile
SPECIFICATION Spec
INVARIANTS
  CollectedAfterUse
  NamesMissOnlyForgotten
CHECK_DEADLOCK FALSE

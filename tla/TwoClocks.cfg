SPECIFICATION FairSpec
CONSTANTS
  TG <- Graph
  TC <- Constraints
  Modes <- SetupOnly
  DelayChoices <- VaryingDelays
  InitialDelay <- BaseDelay
  MaxChanges = 1
INVARIANTS
  LocallyConsistent
  PathsRunFromClockToClock
  ReportsAgree
  CriticalPathIsCritical
PROPERTIES
  ChangedNodesRecorded
  IncrementalIsFull
  UpdateTerminates

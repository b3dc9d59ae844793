SPECIFICATION Spec
CONSTANTS
  TG <- Graph
  TC <- Constraints
  Modes <- Both
  DelayChoices <- VaryingDelays
  InitialDelay <- BaseDelay
  MaxChanges = 1
INVARIANTS
  TypeOK
  QueuesOK
  LocallyConsistent
  PathsRunFromClockToClock
  ReportsAgree
  CriticalPathIsCritical
  CriticalPathDelayIsTight
PROPERTIES
  NoEnqueueBehindCursor
  ChangedNodesRecorded
  IncrementalIsFull

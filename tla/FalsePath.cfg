SPECIFICATION Spec
CONSTANTS
  TG <- FalsePath
  TC <- Constraints
  Modes <- SetupOnly
  DelayChoices <- VaryingDelays
  InitialDelay <- BaseDelay
  MaxChanges = 1
PROPERTIES
  IteratedLevelFixed

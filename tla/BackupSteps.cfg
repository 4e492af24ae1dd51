SPECIFICATION BackupFairSpec
CONSTANTS
  Versions = {"x", "y"}
  Old = "old"
  MaxPages = 3
  Sizes <- StepSizes
  Events = 2
INVARIANTS BackupTypeOK
PROPERTIES ImplementsCopy StepsEnd

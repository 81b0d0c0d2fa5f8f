SPECIFICATION Spec
CONSTANTS
  N = 3
  Leader = 2
  MaxVersion = 2
  MaxFaults = 1
  MaxKills = 1
INVARIANTS SoloMigration OneAtATime OthersFindMigrated StraightConverges

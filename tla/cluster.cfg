SPECIFICATION Spec
CONSTANTS
  N = 3
  Leader = 2
  MaxUpsets = 2
INVARIANTS LeaderInitialises OneCloneAtATime DoneHasDatabase EtcdIsCurrent RouterIsCurrent
PROPERTIES ReplayLeavesAlone ImplementsDatabase

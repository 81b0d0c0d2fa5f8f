SPECIFICATION Spec
CONSTANTS
  N = 3
  Leader = 2
  MaxReboots = 1
  MaxMoves = 1
  MaxKills = 1
INVARIANTS MigratesAlone DumpGone
PROPERTIES StartReachesAll ImplementsRestore

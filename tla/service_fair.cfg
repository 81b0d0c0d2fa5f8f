SPECIFICATION FairSpec
CONSTANTS
  N = 2
  Leader = 2
  MaxReboots = 0
  MaxMoves = 1
  MaxKills = 0
PROPERTY RestoreConverges

SPECIFICATION MCSpec
CONSTANTS
  Sources <- MCSources
  Pairs <- MCPairs
  Ids = {i1, i2}
  None = None
  MaxMoves = 2
INVARIANTS ZeroIsReconciled EarlierChangeKept
PROPERTY Converges

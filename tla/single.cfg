SPECIFICATION FairSpec
CONSTANT MaxUpsets = 2
INVARIANTS DoneIsCurrent DoneHasToken
PROPERTIES Converges ImplementsRestore

SPECIFICATION Spec
CONSTANTS
  N = 2
  Leader = 2
  MaxIssues = 3
  MaxEdits = 1
  MaxBreaks = 1
INVARIANT ServedIsInstalled
PROPERTIES FinalizedIsServed DoneIsDistributed

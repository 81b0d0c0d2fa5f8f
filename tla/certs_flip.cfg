SPECIFICATION Spec
CONSTANTS
  N = 3
  Leader = 2
  MaxIssues = 3
  MaxEdits = 1
  MaxBreaks = 0
PROPERTY FlipTakesEffect

SPECIFICATION Spec
CONSTANTS
  Repos = {1}
  Ticker = 1
  Others = {2}
  MaxToken = 1
  MaxEdits = 0
INVARIANT ConfigSurvives

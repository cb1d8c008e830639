SPECIFICATION FairSpec
CONSTANTS
  Jobs = {1, 2}
  Pulls = {1, 2}
  Budgets = {1}
  None = None
  MaxEdits = 1
  MaxPolls = 2
  MaxRestarts = 1
INVARIANTS ReviewsAreFresh ScreenIsTrue
PROPERTIES ScreenCatchesUp
CHECK_DEADLOCK FALSE

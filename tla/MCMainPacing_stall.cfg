SPECIFICATION Spec
CONSTANTS
  Horizon = 8000
  Starts <- MCStarts
  Rounds <- MCRounds
  Looks <- MCLooks
CONSTRAINT Followed
INVARIANTS
  WaitEnds

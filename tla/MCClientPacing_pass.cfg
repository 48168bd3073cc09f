SPECIFICATION ClientSpec
CONSTANTS
  Horizon = 1500
  ClientStarts <- MCStarts
  Works <- MCWorks
CONSTRAINT Followed
INVARIANTS
  ClientTypeOK
  DelayByDay
PROPERTIES
  PassesApart

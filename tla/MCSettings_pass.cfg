SPECIFICATION FairSpec
CONSTANTS
  Inverter = {i1}
  Value = {soft, hard}
  Hard = {hard}
  ASK = ASK
  ALL = ALL
  PF = PF
  NONE = NONE
  MaxCommands = 2
  MaxResets = 1
INVARIANTS
  TypeOK
  NoneForgotten
  LatestSent
  OnceOrNotLost
PROPERTY WorkedOff

SPECIFICATION Spec
CONSTANTS
  Inverters = {a}
  Models = {5, 7}
  Channels = {c1, c2}
  Guarded = {c1}
  Wiped = {c1}
  Grain = 2
  TimeWidth = 3
  JumpTime = 3
  JumpGen = 1
  MaxUp = 3
  MaxEpoch = 1
  MaxLife = 2
CONSTRAINT Few
INVARIANTS
  TypeOK
  ExactRound
  LifeAtMostMade

SPECIFICATION FairSpec
CONSTANTS
  Results <- MCResults
  Days <- MCDays
  DirOf <- MCDirOf
  DayOf <- MCDayOf
  ItemOf <- MCItemOf
  LengthOf <- MCLengthOf
  Slots <- MCSlots
INVARIANTS
  TypeOK
  UnsentOnlyInRace
  ResentOnlyInMixup
  TailOnlyOfFailed
PROPERTIES
  WorkedOff
CHECK_DEADLOCK FALSE

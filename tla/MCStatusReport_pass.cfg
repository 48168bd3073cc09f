SPECIFICATION FairSpec
CONSTANTS
  NumRecords = 2
  PerDay = 2
  Times <- MCTimes
  Days <- MCDays
  DayOf <- MCDayOf
  Slots <- MCSlots
INVARIANTS
  TypeOK
  ConfirmedIsStored
  LostOnlyInRace
PROPERTIES
  Reported

SPECIFICATION FairSpec
CONSTANTS
  NumRecords = 2
  PerDay = 1
  Times <- MCTimes
  Days <- MCDays
  DayOf <- MCDayOf
  Slots <- MCSlots
PROPERTIES
  Drained

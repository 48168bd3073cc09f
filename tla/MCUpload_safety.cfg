SPECIFICATION Spec
CONSTANTS
  NumRecords = 3
  PerDay = 2
  Times <- MCTimes
  Days <- MCDays
  DayOf <- MCDayOf
  Slots <- MCSlots
CONSTRAINT Unstable
INVARIANTS
  TypeOK
  ConfirmedIsStored
  NothingLost
PROPERTIES
  FlagOrder
  ImplementsOutbox

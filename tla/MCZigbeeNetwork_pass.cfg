SPECIFICATION FairSpec
CONSTANTS
  Inverters <- MCInverters
  New <- MCNew
  Fresh <- MCFresh
  Channels = {16, 17, 18}
  Chosen = {17, 18}
  Default = 16
  Start = 17
  NoDataLimit = 1
  PollLimit = 1
  NoDataMax = 2
  PollMax = 2
  MaxFaults = 2
INVARIANTS
  TypeOK
  ModuleHome
  StrandedOnlyIfMissed
  ListAsOrdered
  
PROPERTIES
  Served
CHECK_DEADLOCK FALSE

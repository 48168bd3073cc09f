SPECIFICATION Spec
CONSTANTS
  NULL = NULL
  MAIN = MAIN
  CLIENT = CLIENT
  CONTROL = CONTROL
  IDWRITE = IDWRITE
  PHONE = PHONE
  RECORD = RECORD
  FS = FS
  WIFI = WIFI
  NTP = NTP
  Thread = {MAIN, CLIENT, CONTROL, IDWRITE}
  Lock = {RECORD, FS}
  Uses <- MCUses
  Nest <- MCNest
  Asked = {CLIENT, NTP}
  MaxDepth = 2
  MaxHold = 3
  MaxTimers = 2
INVARIANTS TypeOK Exclusive NoDeadlock
PROPERTIES LeakStays

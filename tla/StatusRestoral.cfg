CONSTANTS
  kitchen = kitchen
  hall = hall
  ground = ground
  upstairs = upstairs
  owner = owner
  None = None
  Scrap = Scrap
  Sia <- MCSia
  Devices <- MCDevices
  DeviceTypes <- MCDeviceTypes
  Partitions <- MCPartitions
  Users <- MCUsers
  HubMessages <- MCHubMessages
  InternalCodes = {"DBFAIL", "DBOK"}
  Day = 4
  Offset = 1
  NightStart = 3
  NightEnd = 1
  MinSeverity = "trouble"
  Window = 2
  QuietEnabled = TRUE
  QuietStart = 3
  QuietEnd = 0
  QuietAllows = {}
  RecentLimit = 1
  RecentAge = 2
  Limit = 2
  Lookback = 2
  Retention = 2
  MaxEvents = 3
  MaxTime = 3

SPECIFICATION Spec
INVARIANT RestoralClears

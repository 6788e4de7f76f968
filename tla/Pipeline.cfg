CONSTANTS
  burglary = burglary
  tamper = tamper
  dispatcher = dispatcher
  websocket = websocket
  NoEvent = NoEvent
  HubEvents <- MCHubEvents
  Events <- MCEvents
  Alarms <- MCAlarms
  Emergencies = {burglary}
  Subscribers = {dispatcher, websocket}
  Dispatcher = dispatcher
  Capacity = 2
  QueueSize = 1
  MaxFailures = 2

SPECIFICATION Spec
INVARIANTS
  TypeOK
  NoAlarmLost
  OutageShown
PROPERTIES
  IsFeed
  AlarmHandled

CONSTANTS
  a1 = a1
  a2 = a2
  Alarms = {a1, a2}
  MaxGroups = 2
  MaxDrops = 1

SPECIFICATION Spec
INVARIANTS
  TypeOK
  OnlineMeansSession
PROPERTIES
  DashboardSettles

SPECIFICATION FairSpec
CONSTANTS
  Alarms = {a1}
  Receipts = {r1, r2}
  None = None
  Tasks = {t1, t2}
  PostAttempts = 2
  Faults = {}

PROPERTIES RingsUntilAcked

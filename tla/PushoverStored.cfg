SPECIFICATION Spec
CONSTANTS
  Alarms = {a1, a2}
  Receipts = {r1, r2}
  None = None
  Tasks = {t1, t2, t3}
  PostAttempts = 2
  Faults = {}
INVARIANT FollowedSurvivesRestart


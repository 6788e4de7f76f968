CONSTANTS
  DayLength = 1
  Slot = 0
  Weekday = 1
  Deadline = 1
  MaxRuns = 2
  Moments = {0, 1, 8}
  MaxClicks = 1

SPECIFICATION Spec
INVARIANTS
  TypeOK
  OncePerSlot
  NoFreeProof
PROPERTIES
  ConfirmationStands
  ConfirmedRingCounts
  CutOffRunReported

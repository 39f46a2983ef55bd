SPECIFICATION FairSpec
CONSTANTS
  Slot = {a, b}
  MaxReservation = 2
  MaxAttempts = 1
  MaxEvents = 2
INVARIANTS TypeOK ScreenTellsTruth
PROPERTY Recovers
CHECK_DEADLOCK FALSE

CONSTANTS
  Reservation = {r1, r2}
  Session = {s1}
  Request = {q1}
  Track = {t1}
  None = None
  MaxCredential = 1
  MaxHooks = 2
  Redelivery = FALSE
SPECIFICATION Spec
SYMMETRY LeaseSymmetry
INVARIANTS
  TypeOK
  OneLease
  LiveIsLeased
PROPERTIES
  OnAirStable
CHECK_DEADLOCK FALSE

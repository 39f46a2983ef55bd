\* Two browsers of the translator, two reservations, webhooks that are lost or repeated.
SPECIFICATION Spec
CONSTANTS
  Reservation = {r1, r2}
  Session = {s1, s2}
  Request = {q1}
  Track = {t1}
  None = None
  MaxCredential = 0
  MaxHooks = 1
  Redelivery = TRUE
SYMMETRY LeaseSymmetry
PROPERTIES
  SignOutSparesOthers
  RetiredStaysRetired
  ImplementsSlot
CHECK_DEADLOCK FALSE

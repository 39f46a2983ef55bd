\* One reservation that either of two browsers may refresh, webhooks that are repeated.
SPECIFICATION FairSpec
CONSTANTS
  Reservation = {r1}
  Session = {s1, s2}
  Request = {q1}
  Track = {t1}
  None = None
  MaxCredential = 0
  MaxHooks = 2
  Redelivery = TRUE
PROPERTY AbandonedLeaseLapses
CHECK_DEADLOCK FALSE

\* Handlers that overlap, two at once, of one stream, and the gate that breaks into them.
SPECIFICATION Spec
CONSTANTS
  Stream = {s1}
  None = None
  MaxConnection = 2
  MaxTask = 2
  MaxAttempts = 2
  PostKind = {"heartbeat", "leave"}
  AccessControl = TRUE
INVARIANTS TypeOK LatchMeansReconnecting
PROPERTY RetriesEnd

\* One handler at a time: series of switches and retries whose answers are lost.
SPECIFICATION Spec
CONSTANTS
  Stream = {s1, s2}
  None = None
  MaxConnection = 3
  MaxTask = 1
  MaxAttempts = 1
  PostKind = {"connected"}
  AccessControl = FALSE
SYMMETRY StreamSymmetry
INVARIANT OneSuccessor
PROPERTY ClosedStaysClosed

SPECIFICATION FairSpec
CONSTANTS
  Admin = admin
  Owners = {u}
  NoOwner = nobody
  Ids = {p}
  Languages = {l}
  NoProgram = noprogram
  ChunkSize = 1
  MaxRows = 2
  MaxWaiting = 1
  MaxCrashes = 1
  MaxEvents = 3
PROPERTY DeletedIsPruned
CHECK_DEADLOCK FALSE

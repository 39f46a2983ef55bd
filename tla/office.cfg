\* The managers' accounts and console, the chart of the reports, the dialog for translators'
\* links, the approver's desk and page, the lock on the screen, and a stream on the air.
SPECIFICATION MCSpec
CONSTANTS
  None = None
  User = {u}
  Address = {near}
  Password = {p, q}
  Call = {c1, c2}
  UserLimit = 3
  AddressLimit = 2
  WindowTicks = 2
  LockTicks = 2
  MaxSession = 2
  Stream = {s1}
  NoChart = NoChart
  NoCall = NoCall
  NoAnswer = NoAnswer
  Fine = 1
  Coarse = 2
  FineSpan = 1
  Week = 9
  Window = 2
  PageSize = 1
  First = 0
  MaxRows = 1
  MaxNow = 4
  Program = {prog1, prog2}
  RoleAdmin = FALSE
  MaxCalls = 2
  MaxSteps = 2
  Language = {"hi", "ta"}
  LinkCall = {"login"}
  Hours = {1}
  MaxSecret = 3
  MaxTime = 1
  Slot = {"a", "b"}
  Claim = {"x"}
  WakeRun = {"a", "b", "c"}
  Lock = {"k", "l", "m"}
  DeskLimit = 1
  ProgramLimit = 1
  DeskWindow = 2
  DeskLocks <- MCDeskLocks
  IdleTicks = 2
  ShiftTicks = 2
  MaxSessions = 1
  Listener = {}
  QuietSamples = 2
  SoundWindow = 1
  SeenWindow = 1
  StaleAfter = 2
  CacheTtl = 1
SYMMETRY OfficeSymmetry
INVARIANTS OfficeTypeOK ChartIsTrue ConsoleIsHonest FailuresBounded GuessesBounded ApproverScreenIsTrue AccessIsCurrent NoLockIsLost LiveIsHeard
CHECK_DEADLOCK FALSE

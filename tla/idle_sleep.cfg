SPECIFICATION WorkerSpec
CONSTANTS
  Jobs = {j1, j2}
  Rings = {r1}
  CheckEvery = 3
  Horizon = 4
  MaxRead = 1
  Furthest = 6
  MaxFaults = 1
  Contacts = {1, 2, 3, 4}
  Day = 6
  StartHour = 2
  LastHour = 3
  ChangesAt = 13
  Before = 1
  After = {0}
  MailsPerDay = 2
  Pause = 1
  AccountLimit = 4
  Others = {0, 2}
  LastTick = 13
  MaxLate = 1
  MaxPauses = 1
  Refusable = {2}
  Unset = Unset
  StaleAfter = 3
  Expiry = 6
  StuckAfter = 3
  PlanEvery = 2
  Repeat = 3
  MinAttempts = 1
  MaxCount = 1
  MaxLook = 1
  Never = Never
CHECK_DEADLOCK FALSE
INVARIANTS WorkerInv WokenInTime ForeseenIsOnTime PlanIsSafe WatchIsTrue
PROPERTY JobRuns

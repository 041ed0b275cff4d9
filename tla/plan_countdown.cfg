SPECIFICATION Spec
CONSTANTS
  Contacts = {1, 2, 3}
  Day = 12
  StartHour = 2
  LastHour = 10
  ChangesAt = 100
  Before = 0
  After = {0}
  MailsPerDay = 3
  Pause = 1
  AccountLimit = 4
  Others = {0, 4}
  Horizon = 7
  MaxLate = 3
  MaxPauses = 0
  Refusable = {}
  Unset = Unset
CHECK_DEADLOCK FALSE
INVARIANT CountdownIsExact

SPECIFICATION ClockSpec
CONSTANTS
  Campaigns = {k1}
  Plans = {p1, p2}
  Job = Job
  PlanEvery = 3
  MaxRun = 2
  Furthest = 4
  MaxFaults = 0
INVARIANT AppointmentKept
CHECK_DEADLOCK FALSE

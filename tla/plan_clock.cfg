SPECIFICATION FairClock
CONSTANTS
  Campaigns = {k1}
  Plans = {p1, p2}
  Job = Job
  PlanEvery = 3
  MaxRun = 2
  Furthest = 4
  MaxFaults = 1
INVARIANTS ClockInv LookedAtInTime
PROPERTY OpenIsPlanned
CHECK_DEADLOCK FALSE

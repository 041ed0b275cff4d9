SPECIFICATION Spec
CONSTANTS
  Requests = {r1, r2}
  Keys = {x1}
  Bodies = {b1, b2}
  Tokens = {t1, t2}
  MaxActive = 1
  MaxFaults = 1
  NoRequest = NoRequest
  NoBody = NoBody
CHECK_DEADLOCK FALSE
INVARIANT OneDraftPerKey

SPECIFICATION Spec
CONSTANTS
  SignIns = {s1}
  Campaigns = {}
  Codes = {}
  MaxGrants = 2
  MaxIds = 1
CHECK_DEADLOCK FALSE
INVARIANT RevokedLeavesNothing

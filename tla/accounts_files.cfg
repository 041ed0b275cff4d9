SPECIFICATION Spec
CONSTANTS
  SignIns = {s1}
  Campaigns = {k1}
  Codes = {c1}
  MaxGrants = 2
  MaxIds = 2
CHECK_DEADLOCK FALSE
PROPERTY FilesGoWithAccount

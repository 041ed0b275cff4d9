SPECIFICATION Spec
CONSTANTS
  Requests = {r1, r2}
  Campaigns = {k1}
  Opened = {k1}
  Emails = {e1}
  Files = {f1, f2}
  MaxAttachments = 1
  MaxTexts = 1
  NoRequest = NoRequest
SYMMETRY Symmetry
CHECK_DEADLOCK FALSE
INVARIANT RefusedChangesNothing

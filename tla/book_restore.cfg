SPECIFICATION Spec
CONSTANTS
  Campaigns = {k1}
  Entries = {b1, b2}
  Recipients = {c1, c2}
  Emails = {e1, e2}
  Names = {n1}
  Blank = Blank
  None = None
  Gone = Gone
SYMMETRY Symmetry
CHECK_DEADLOCK FALSE
INVARIANT PutsBackExactly

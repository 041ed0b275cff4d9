SPECIFICATION Spec
CONSTANTS
  Contacts = {c1, c2, c3}
  Workers = {w1}
  NoContact = NoContact
INVARIANT ErrorCountExact
CHECK_DEADLOCK FALSE

SPECIFICATION FairSpec
CONSTANTS
  Contacts = {c1, c2, c3}
  Workers = {w1}
  NoContact = NoContact
INVARIANTS LInv SentCountExact CompletedIsFinal
PROPERTIES LastOutcomeCompletes RecordingEnds
CHECK_DEADLOCK FALSE

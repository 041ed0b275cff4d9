SPECIFICATION Spec
CONSTANTS
  Contacts = {c1}
  Campaigns = {k1}
  CampaignOf <- OneCampaign
  Workers = {w1, w2}
  Frozen = {}
  Edited = {c1}
  DailyLimit = 1
  SendAttempts = 3
  MaxFaults = 3
  NoWorker = NoWorker
  NoContact = NoContact
SYMMETRY Symmetry
INVARIANTS IInv AtMostOnce
PROPERTIES PauseStopsClaims KeepsPromise
CHECK_DEADLOCK FALSE

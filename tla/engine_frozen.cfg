SPECIFICATION Spec
CONSTANTS
  Contacts = {c1}
  Campaigns = {k1}
  CampaignOf <- OneCampaign
  Workers = {w1, w2}
  Frozen = {w1}
  Edited = {}
  DailyLimit = 1
  SendAttempts = 3
  MaxFaults = 1
  NoWorker = NoWorker
  NoContact = NoContact
INVARIANT AtMostOnce
CHECK_DEADLOCK FALSE

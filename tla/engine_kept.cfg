SPECIFICATION Spec
CONSTANTS
  Contacts = {c1}
  Campaigns = {k1}
  CampaignOf <- OneCampaign
  Workers = {w1}
  Frozen = {}
  Edited = {c1}
  DailyLimit = 1
  SendAttempts = 3
  MaxFaults = 0
  NoWorker = NoWorker
  NoContact = NoContact
INVARIANT KeptJobIsDecided
CHECK_DEADLOCK FALSE

SPECIFICATION Spec
CONSTANTS
  Contacts = {c1}
  Campaigns = {k1}
  CampaignOf <- OneCampaign
  Workers = {w1}
  Frozen = {}
  Edited = {}
  DailyLimit = 1
  SendAttempts = 3
  MaxFaults = 1
  NoWorker = NoWorker
  NoContact = NoContact
INVARIANT ExhaustedReachedNobody
CHECK_DEADLOCK FALSE

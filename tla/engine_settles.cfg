SPECIFICATION FairSpec
CONSTANTS
  Contacts = {c1, c2}
  Campaigns = {k1}
  CampaignOf <- OneCampaign
  Workers = {w1}
  Frozen = {}
  Edited = {}
  DailyLimit = 1
  SendAttempts = 2
  MaxFaults = 1
  NoWorker = NoWorker
  NoContact = NoContact
CHECK_DEADLOCK FALSE
INVARIANTS CompletedIsSettled CeilingHolds
PROPERTIES PendingIsSettled EmptyCampaignEnds SentStaysSent

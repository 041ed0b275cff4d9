SPECIFICATION Spec
CONSTANTS
  MaxTyped = 2
  MaxClicks = 1
  MaxFaults = 1
  MaxFiles = 1
  None = None
  Loading = Loading
  Unloaded = Unloaded
  Left = Left
  Missing = Missing
  Refused = Refused
  Failed = Failed
  Done = Done
  e1 = e1
  e2 = e2
  Emails = {e1, e2}
  Bad = Bad
  Slice = 2
  MaxRuns = 2
  MaxLosses = 1
  Nil = Nil
  Files <- MCFiles
  Ids = {1, 2, 3}
  Matching = {2}
  MaxPick = 1
  MaxMade = 2
  MaxTaps = 3
  MaxDrops = 1
  MaxGets = 2
  Campaigns = {1, 2}
  Limit = 2
  PageSize = 1
  MaxSharing = 3
  MaxNeed = 5
  MaxMoves = 2
  MaxMissed = 1
  MaxReads = 2
  Tokens = {k1, k2}
  MaxActive = 1
  MaxActs = 3
  MaxLost = 1
  Recipients = {1, 2, 3}
  CampaignOf <- MCCampaignOf
  AddressOf <- MCAddressOf
  Ceiling = 2
  PageLen = 1
  MaxPresses = 3
  MaxMisses = 1
  MaxLooks = 2
CHECK_DEADLOCK FALSE
INVARIANTS
  SavedIsStored
  ReportIsTrue
  SelectionIsSafe
  AdviceFits
  SessionIsTrue
PROPERTY TypingIsSaved

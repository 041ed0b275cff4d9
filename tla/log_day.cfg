SPECIFICATION Spec
CONSTANTS
  Recipients = {1, 2, 3}
  CampaignOf <- MCCampaignOf
  AddressOf <- MCAddressOf
  Ceiling = 2
  PageLen = 2
  MaxPresses = 3
  MaxMisses = 1
  MaxLooks = 2
  None = None
  Failed = Failed
CHECK_DEADLOCK FALSE
INVARIANT DayIsKept

SPECIFICATION DraftingSpec
CONSTANTS
  Campaign = {k1, k2}
  Sheet = {"leads"}
  Shared = {k1}
  NoSheet = NoSheet
  NoCampaign = NoCampaign
  MaxVersion = 5
  MaxTries = 2
INVARIANTS
  RetryEditsIt
CHECK_DEADLOCK FALSE

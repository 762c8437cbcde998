CONSTANTS
  Urls = {secure, plain}
  Rejected = {plain}
  Default = default
  None = none
  Requests = {r1, r2}
  MaxChoices = 3
  MaxFaults = 1
SPECIFICATION FairSpec
INVARIANTS TypeOK ChoicesKept BaseFollows
PROPERTY ChoicesSettle

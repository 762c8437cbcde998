CONSTANTS
  Ids = {a, b}
  None = none
  Calls = {m1, m2}
  MaxVotes = 2
  MaxFaults = 2
SPECIFICATION FairSpec
INVARIANTS OneIdentity FeedbackOwnTimer
PROPERTY PopupSettles

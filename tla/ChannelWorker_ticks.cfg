CONSTANTS
  Videos = {v1, v2}
  Workers = {go, py}
  VoteScores = {40, 100}
  OldScores = {0, 150}
  FlaggedFrom = 50
  MinTracked = 1
  MinFlagged = 1
  FlagScore = 80
  Preliminary = 60
  MaxChanges = 2
  MaxFaults = 1
SPECIFICATION FairSpec
INVARIANTS TypeOK VotesDecide
PROPERTIES ChannelSettles NewVideosScored
CHECK_DEADLOCK FALSE

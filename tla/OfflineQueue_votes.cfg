CONSTANTS
  Videos = {1, 2}
  Categories = {cA, cB}
  NoVote = NoVote
  Retries = 1
  MaxVotes = 2
  MaxFaults = 2
SPECIFICATION FairSpec
INVARIANT LatestVoteWins
PROPERTIES OnlyCrossedVotesLost FlushEnds
CHECK_DEADLOCK FALSE

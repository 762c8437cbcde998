SPECIFICATION FairSpec
CONSTANTS
  Readers = {r1, r2}
  Writers = {vote, worker, channel}
  SilentWriters = {channel}
  MaxVersion = 4
  MaxFaults = 2
  r1 = r1
  r2 = r2
  vote = vote
  worker = worker
  channel = channel
INVARIANT StaleOnlyByLeak
PROPERTY CacheSettles
CHECK_DEADLOCK FALSE

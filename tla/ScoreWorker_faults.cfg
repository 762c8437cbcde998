CONSTANTS
  Videos = {v1}
  Users = {u1, u2}
  Categories = {cA, cB}
  NoVote = NoVote
  Weight <- EqualWeights
  Workers = {go, py}
  GoWorkers = {go}
  Faults = {"recalculate", "listen", "stop"}
  MaxFaults = 2
  MaxVotes = 3
SPECIFICATION FairSpec
INVARIANTS TypeOK  
  
CHECK_DEADLOCK FALSE

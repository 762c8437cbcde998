CONSTANTS
  u1 = u1
  u2 = u2
  p1 = p1
  p2 = p2
  p3 = p3
  Videos = {v1}
  Users = {u1, u2}
  Categories = {cA, cB}
  NoVote = NoVote
  Procs = {p1, p2, p3}
  UserOf <- TwoHandlersOfOne
  MaxConns = 2
  MaxCount = 2
SPECIFICATION SerialSpec
INVARIANTS TypeOK NoOvercount CountCoversSerialVotes
PROPERTIES ImplementsVoteBook RequestsEnd
CHECK_DEADLOCK FALSE

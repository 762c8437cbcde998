CONSTANTS
  Videos = {v1}
  Channels = {c1}
  Published = {v1, c1}
  GoServes = TRUE
  AutoSyncs = {auto}
  PopupSyncs = {popup}
  MaxTime = 3
  MaxEvents = 2
SPECIFICATION FairSpec
INVARIANTS TypeOK StampVouches
PROPERTY StoreConverges

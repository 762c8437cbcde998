CONSTANTS
  Cards = {c1}
  Shorts = {s1, s2}
  Home = home
  Flagged = {c1, s1}
  Events = {1}
  MaxNavigations = 1
  MaxToggles = 2
  MaxFaults = 1
SPECIFICATION FairSpec
INVARIANTS WatchersKnown FlaggedAccounted
PROPERTIES FlaggedHidden FlaggedSkipped

CONSTANTS
  Videos = {w1, s1, s2}
  Shorts = {s1, s2}
  NoVideo = NoVideo
  MaxOpens = 2
  MaxNavigations = 2
  MaxRenders = 1
SPECIFICATION FairSpec
INVARIANTS OneVotePerDropdown DropdownOfPage
PROPERTIES SubmittingEnds ButtonAppears
CHECK_DEADLOCK FALSE

SPECIFICATION FairSpec
CONSTANTS
  me = me
  p1 = p1
  p2 = p2
  c1 = c1
  c2 = c2
  Me = me
  NoOne = NoOne
  NoWish = NoWish
  People = {p1}
  Chans = {c1, c2}
  MaxEvents = 0
  MaxEdits = 1
  MaxLosses = 1
  MaxAsks = 1
  MaxTimeouts = 1
  MaxKicks = 1
  Refuses = TRUE
  CaseRenames = FALSE
PROPERTIES ListensWhereConfigured ChecksAreAnswered

SPECIFICATION Spec
CONSTANTS
  me = me
  p1 = p1
  p2 = p2
  c1 = c1
  c2 = c2
  Me = me
  NoOne = NoOne
  NoWish = NoWish
  People = {p1, p2}
  Chans = {c1}
  MaxEvents = 2
  MaxEdits = 1
  MaxLosses = 1
  MaxAsks = 2
  MaxTimeouts = 0
  MaxKicks = 1
  Refuses = TRUE
  CaseRenames = FALSE
SYMMETRY PeopleSymmetry
INVARIANTS TypeOK RosterIsCurrent AnswerIsAboutAsked

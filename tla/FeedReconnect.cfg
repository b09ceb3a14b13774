SPECIFICATION Spec
CONSTANTS
  c1 = c1
  c2 = c2
  r1 = r1
  r2 = r2
  p1 = p1
  p2 = p2
  Chans = {c1}
  Times = {1}
  Span = 1
  Readers = {}
  MetaTTL = 1
  Pages = {p1}
  MaxStreams = 1
  Batch = 1
  MaxMessages = 3
  MaxEdits = 0
  MaxClock = 0
  MaxRequests = 2
CHECK_DEADLOCK FALSE
INVARIANT NothingIsMissed

SPECIFICATION MCSpec
CONSTANTS
  c1 = c1
  c2 = c2
  r1 = r1
  r2 = r2
  p1 = p1
  p2 = p2
  Chans = {c1, c2}
  Times = {1, 2}
  Span = 1
  Readers = {r1, r2}
  MetaTTL = 1
  Pages = {p1, p2}
  MaxStreams = 1
  Batch = 1
  MaxMessages = 3
  MaxEdits = 2
  MaxClock = 1
  MaxRequests = 2
CHECK_DEADLOCK FALSE
INVARIANTS TypeOK LocateLinesUp MetaCoversItsAsking MetaAtMostTTLOld StreamMissesNothing SlotsMatchStreams
PROPERTY StreamsCatchUp

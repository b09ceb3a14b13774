SPECIFICATION Spec
CONSTANTS
  s1 = s1
  s2 = s2
  l1 = l1
  l2 = l2
  l3 = l3
  i1 = i1
  h1 = h1
  h2 = h2
  NoSid = NoSid
  NoItem = NoItem
  MaxUser = 3
  Sids = {s1, s2}
  Links = {l1, l2, l3}
  Invites = {i1}
  Handlers = {h1, h2}
  Seats = 1
  MaxRequests = 4
  MaxFaults = 1
SYMMETRY Alike
CHECK_DEADLOCK FALSE
INVARIANTS TypeOK FounderStands EndedStaysEnded InvitesAreAccountedFor LinksAreBounded

SPECIFICATION Spec
ACTION_CONSTRAINT RoutesAtOnce
CONSTANTS
  u1 = u1
  u2 = u2
  c1 = c1
  c2 = c2
  o1 = o1
  o2 = o2
  o3 = o3
  NoObj = NoObj
  NoKey = NoKey
  NoChan = NoChan
  Nets = {1}
  Nicks = {u1}
  Chans = {c1}
  Objs = {o1}
  ChanNet <- OneNet
  Refusing = {}
  Toggled = {}
  Focused = {}
  Limit = 2
  MaxRows = 3
  MaxFaults = 1
INVARIANTS DuplicatesNeedAFault AnswerMatchesWire
PROPERTIES KeepsPromise WireInQueueOrder AnswerIsFinal

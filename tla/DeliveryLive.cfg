SPECIFICATION FairSpec
CONSTANTS
  u1 = u1
  u2 = u2
  c1 = c1
  c2 = c2
  o1 = o1
  o2 = o2
  o3 = o3
  NoObj = NoObj
  NoKey = NoKey
  NoChan = NoChan
  Nets = {1}
  Nicks = {u1}
  Chans = {c1}
  Objs = {o1, o2}
  ChanNet <- OneNet
  Refusing = {c1}
  Toggled = {1}
  Focused = {c1}
  Limit = 1
  MaxRows = 1
  MaxFaults = 0
PROPERTIES LinesAreAnswered LocksAreReleased

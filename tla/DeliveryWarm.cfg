SPECIFICATION Spec
CONSTANTS
  u1 = u1
  u2 = u2
  c1 = c1
  c2 = c2
  o1 = o1
  o2 = o2
  o3 = o3
  NoObj = NoObj
  NoKey = NoKey
  NoChan = NoChan
  Nets = {1, 2}
  Nicks = {u1}
  Chans = {c2}
  Objs = {o1, o2}
  ChanNet <- OnSecond
  Refusing = {}
  Toggled = {}
  Focused = {c2}
  Limit = 2
  MaxRows = 2
  MaxFaults = 0
SYMMETRY ObjSymmetry
INVARIANTS TypeOK ExtraSocketIsWarm
PROPERTIES SpeaksOnlyAfterJoin SpokenIsHeard

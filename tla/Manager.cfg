SPECIFICATION MCSpec
CONSTANTS
  c1 = c1
  h1 = h1
  h2 = h2
  Nets = {1, 2}
  Chans = {c1}
  Handlers = {h1, h2}
  Batch = 1
  PendingMax = 1
  MaxRequests = 2
  MaxCommands = 3
  MaxFaults = 2
INVARIANTS TypeOK OneArchivistEach PendingIsBounded AnswerMatchesRun
PROPERTIES FinishedIsFinal CommandsAreAnswered ChannelsAreServed

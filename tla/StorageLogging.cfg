SPECIFICATION Spec
CONSTANTS
  c1 = c1
  c2 = c2
  hello = hello
  hey = hey
  joined = joined
  ann = ann
  bob = bob
  NoName = NoName
  NoLine = NoLine
  NickOf <- Speakers
  Names = {c1}
  Configured = {c1}
  Lines = {hello, hey}
  Events = {}
  MaxId = 1
  MaxSaid = 2
  MaxDocs = 1
  MaxImports = 1
  MaxUpsets = 0
PROPERTY LoggingNeverStops
CHECK_DEADLOCK FALSE

SPECIFICATION Spec
CONSTANTS
  c1 = c1
  c2 = c2
  hello = hello
  hey = hey
  joined = joined
  ann = ann
  bob = bob
  NoName = NoName
  NoLine = NoLine
  NickOf <- Speakers
  Names = {c1, c2}
  Configured = {c1}
  Lines = {hello, joined}
  Events = {joined}
  MaxId = 3
  MaxSaid = 3
  MaxDocs = 2
  MaxImports = 1
  MaxUpsets = 1
INVARIANTS TypeOK TakenIsStored ImportedIsStored NothingTwice
PROPERTY KeepsArchive
CHECK_DEADLOCK FALSE

SPECIFICATION Spec
CONSTANTS
  Writers = {w1, w2, w3}
  Entries <- SomeEntries
  Marked <- SomeMarkers
  Items = {i1, i2}
  ToolCalls <- SomeToolCalls
  NoId = noId
  ListPath <- SecondPath
  Seed = seed
  a1 = a1
  f1 = f1
  NoVersion = noVersion
  Paths <- FilePaths
  LegacyPath <- FirstPath
  Kinds = {"feedback", "once", "insist", "seed", "amend", "section", "put", "remember"}
  MaxVersion = 3
SYMMETRY Symmetry
INVARIANTS
  
  EntriesAreSingle
CHECK_DEADLOCK FALSE

SPECIFICATION FairSpec
CONSTANTS
  Handlers = {h1, h2}
  Pids <- MCPids
  Texts <- MCTexts
  Random <- MCRandom
  Salt = 70
  Samples <- MCSamples
  Absent = Absent
  Empty = Empty
  Torn = Torn
  MaxMessages = 3
  MaxStarts = 2
INVARIANTS TypeOK CopiesAgree StaysUp RoundTrip
PROPERTY GetPassEnds
CHECK_DEADLOCK FALSE

SPECIFICATION FairSpec
CONSTANTS
  a1 = a1
  a2 = a2
  h1 = h1
  h2 = h2
  r1 = r1
  r2 = r2
  Addresses <- MCAddresses
  Blank = Blank
  Latency <- MCLatency
  Handlers <- MCHandlers
  Refreshers <- MCRefreshers
  Scopes <- MCScopes
INVARIANTS TypeOK SortedWhenQuiet ListFollowsServer PanicsOnlyIfShrunk
PROPERTY HandlersEnd
CHECK_DEADLOCK FALSE

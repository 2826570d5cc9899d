SPECIFICATION FairSpec
CONSTANTS
  c1 = c1
  c2 = c2
  c3 = c3
  Clients <- ThreeClients
  MaxClients = 2
  MaxLists = 1
  NoClient = NoClient
INVARIANT RefsExact
INVARIANT ShutdownWaitsForAll
 
CHECK_DEADLOCK FALSE

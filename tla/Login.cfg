SPECIFICATION FairSpec
CONSTANTS
  c1 = c1
  c2 = c2
  c3 = c3
  h1 = h1
  h2 = h2
  Clients <- ThreeClients
  Handles <- TwoHandles
  Users <- FourUsers
  MaxRequests = 3
  NoClient = NoClient
  NoUser = NoUser
  NoHandle = NoHandle
INVARIANT HandleUnique
INVARIANT UserRefsExact
PROPERTY RequestsFinish
CHECK_DEADLOCK FALSE

SPECIFICATION FairSpec
CONSTANTS
  c1 = c1
  c2 = c2
  Clients <- TwoClients
  MaxLogins = 2
  MaxSends = 1
  NoMailbox = NoMailbox
  NoClient = NoClient
 
INVARIANT MailboxRefsExact
INVARIANT FreedAfterLastThread
PROPERTY UnregistersUnlessCrossed
CHECK_DEADLOCK FALSE

SPECIFICATION TunnelSpec
CONSTANTS
  svcA = svcA
  svcB = svcB
  svcC = svcC
  NoReply = NoReply
  Base = 3
  Configs <- ThreeEntries
  Requests <- UdpRequests
  Replies <- SomeReplies
INVARIANT ReplyIntact
CHECK_DEADLOCK FALSE

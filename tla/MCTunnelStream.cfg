SPECIFICATION FairTunnelSpec
CONSTANTS
  svcA = svcA
  svcB = svcB
  svcC = svcC
  NoReply = NoReply
  Base = 3
  Configs <- ThreeEntries
  Requests <- AllRequests
  Replies <- SomeReplies
INVARIANTS
  TunnelTypeOK
  RequestIntact
  TcpTransparent
PROPERTIES
  UdpTunnelEnds
CHECK_DEADLOCK FALSE

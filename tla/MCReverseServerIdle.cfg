SPECIFICATION Spec
CONSTANTS
  c1 = c1
  c2 = c2
  a1 = a1
  p1 = p1
  tok = tok
  badTok = badTok
  Conns = {c1}
  ClientIds = {a1}
  Ports = {p1}
  NoConn = NoConn
  NoToken = NoToken
  ClientId <- SameAddress
  Hellos <- OneHello
  MaxProxies = 1
  AuthToken = tok
  AllowedTokens = {}
  TotpRequired = FALSE
  ForeignPorts <- NoForeign
  ChannelCap = 1
  MaxStreams = 1
  AckBacklog = 2
  IdleLimit = 0
  MaxRequests <- OneBusy
  MaxTime = 1
PROPERTY CleanupSparesActive
CHECK_DEADLOCK FALSE

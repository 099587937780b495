SPECIFICATION Spec
CONSTANTS
  Number <- MCNumber
  IpTexts <- MCIpTexts
  PaddedIps <- MCPaddedIps
  Configs <- MCConfigs
  MaxProxies = 2
  Hosts = {"program", "library"}
  MaxConns = 1
CHECK_DEADLOCK FALSE
INVARIANTS
  StartJoins
  ConfigSound
PROPERTIES
  ShutdownStops
  ErrorEndsAll
  UdpEnds

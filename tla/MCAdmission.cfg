SPECIFICATION Spec
CONSTANTS
  c1 = c1
  c2 = c2
  c3 = c3
  p1 = p1
  p2 = p2
  p3 = p3
  a1 = a1
  a2 = a2
  ip1 = ip1
  ip2 = ip2
  NoLimit = NoLimit
  Conns = {c1, c2, c3}
  Packets = {p1, p2, p3}
  Addrs = {a1, a2}
  Ips = {ip1, ip2}
  IpOf <- Ip
  AddrOf <- Addr
  AllowIps = {ip1}
  MaxConns = 2
  CpsLimit = 2
  Window = 2
  MaxTime = 3
INVARIANTS
  TypeOK
  ConcurrencyLimit
  RateLimit
  SessionOwned
  SlotAccounting
SYMMETRY Interchangeable
CHECK_DEADLOCK FALSE

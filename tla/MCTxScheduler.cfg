CONSTANTS
  f = f  s = s  t = t  u = u
  PGNs = {f, s, t, u}
  IndexOf <- MCIndexOf
  CanId <- MCCanId
  Period <- MCPeriod
  FastPeriod = 2
  Packets <- MCPackets
  QueueCapacity = 2
  Gap = 1
  AbortLate = 2
  TimeModulus = 34
  MaxPass = 3
  NONE = NONE
  Configurations = {{f, s}, {t, u}, {s, t, u}}
  Durations = {0, 3}
  Added = {f, t}
  AtMostHalfATurn = TRUE
SPECIFICATION FairSpec
INVARIANTS TypeOK SlotsValid Superseded OncePerPass
PROPERTY PendingServed

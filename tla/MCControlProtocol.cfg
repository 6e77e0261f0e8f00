CONSTANTS
  r1 = r1  r2 = r2  r3 = r3  r4 = r4  r5 = r5  r6 = r6  k = k
  Keys = {k}
  SignalCapacity = 1
  Requests = {r1, r2, r3, r4, r5, r6}
  NumberOf <- MCNumberOf
  CommandOf <- MCCommandOf
  CacheCapacity = 2
  QueueCapacity = 2
  Window = 1
  TimeModulus = 6
  MaxPass = 1
  Budget = 1
  Mailboxes = 1
  EMPTY = EMPTY
SYMMETRY Interchangeable
VIEW Observed
SPECIFICATION Spec
INVARIANTS DeviceAlwaysSound CacheUnambiguous NotTwice QueueSound

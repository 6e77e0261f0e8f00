CONSTANTS
  b1 = b1  s1 = s1  s2 = s2  b3 = b3  s4 = s4  k = k
  Keys = {k}
  SignalCapacity = 1
  Requests = {b1, s1, s2, b3, s4}
  NumberOf <- MCNumberOf
  CommandOf <- MCCommandOf
  CacheCapacity = 2
  QueueCapacity = 2
  Window = 2
  TimeModulus = 8
  MaxPass = 1
  Budget = 1
  Mailboxes = 2
  Numbers = 4
  Patience = 1
  FifoDepth = 1
  EMPTY = EMPTY
  NONE = NONE
SPECIFICATION SessionSpec
PROPERTY ImplementsReliableCommand

CONSTANTS
  NONE = NONE
  Pclks = {36000, 32000, 8000}
  Rates = {250, 500}
  Mailboxes = {m1, m2}
  FifoSize = 2
  ModeLoops = 2
  Sessions = 3
  MaxFaults = 2
SPECIFICATION FairSpec
INVARIANTS StartedMeansJoined OwnSession DeafOnlyByConsole
PROPERTY CallsReturn

CONSTANTS
  e = e  s = s  x = x  v = v  w = w
  pe = pe  px = px  pw = pw  pv = pv
  P1 = P1  CUSTOM = CUSTOM  UNKNOWN = UNKNOWN
  Scalars = {e, s, x}
  Blobs = {v, w}
  Long = {x}
  Strings = {v}
  Global = {e}
  PgnOf <- MCPgnOf
  Schedulable = {pe, px, pw}
  RawMin <- MCRawMin
  RawMax <- MCRawMax
  Profiles <- MCProfiles
  SignalCapacity = 3
  PgnCapacity = 2
  BlobCapacity = 2
  Chunk = 1
  StringMax = 1
  Printable = {1}
  Defaults <- MCDefaults
  Generations = 4
  Raws = {0, 1, 2}
  Percents = {0, 5000, 10000}
  Images <- MCImages
  Chunks <- MCChunks
SPECIFICATION Spec
INVARIANTS TypeOK TransactionsAgree ProfileExact ScheduleExact SavedLoads
PROPERTIES NeverReplacedLive GenerationTracks ImplementsAtomicConfig

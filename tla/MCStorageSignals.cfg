CONSTANTS
  Pages = 3
  Span = 2
  Half = 2
  MaxBirths = 4
  Configs = {k1, k2}
  Catalogs = {x, y}
  BLANK = BLANK
  TORN = TORN
  ByteBits = 2
  WordBits = 8
  Pdu2Min = 2
  Global = 3
  Terminator = {1}
  PacketBytes = 2
  Catalog <- MCCatalog
  Pgn <- MCPgn
  FrameBytes = 3
  TextBytes = 4
  PoolCapacity = 2
  SignalCapacity = 3
  PgnCapacity = 2
  EnableWaveform = TRUE
  Defaults <- MCDefaults
  LeadIn = 2
  DefaultPeriod = 2
  DefaultSteps = 3
  TimeModulus = 5
  Grain = 12
  MaxBehind = 1
  Raws = {1}
  Requests <- MCRequests
  Configurations <- MCConfigurations
  Width = 8
  Fractions = {1, 8, 128}
  MaxDecimals = 2
  MaxPrinted = 100
  CrcBits = 32
  Polynomial <- MCPolynomial
  ProbedBytes = 3
  ProbedBits = 5
  ProbedLengths = {0, 2, 3}
  Scalings <- MCScalings
  Physicals <- MCPhysicals
  Numerators <- MCNumerators
  Denominators = {1, 2, 3}
  MaxMessage = 6
  Crcs <- MCCrcs
  CheckMessage <- MCCheckMessage
  CheckSum <- MCCheckSum
SPECIFICATION SideSpec
INVARIANTS SequencesAdjacent NeverOlder OnePlace FramesCarry CodecExact NumbersReadBack
PROPERTIES CurrentUntouched ImplementsPromise

CONSTANTS
  Pages = 3
  Span = 2
  Half = 2
  MaxBirths = 4
  Configs = {k1}
  Catalogs = {x}
  BLANK = BLANK
  TORN = TORN
SPECIFICATION StorageSpec
PROPERTIES EraseAllOrNothing

CONSTANTS
  x = x  nl = nl  NONE = NONE
  Bytes = {x, nl}
  EOL = {nl}
  TxSize = 4
  RxSize = 2
  LineSize = 3
  Replies <- MCReplies
  LogLines <- MCLogLines
  CRLF <- MCCRLF
SPECIFICATION FairSpec
INVARIANTS ConsoleTypeOK NoLostWakeup LogNeverWaits
PROPERTIES RingsAreFifos WritesReturn

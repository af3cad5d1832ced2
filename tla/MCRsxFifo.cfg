CONSTANTS
  CMD_BUF = 20
  CMD_BUF_END = 26
  IO_LIMIT = 10
  Methods = {7}
  MaxArgs = 2
  MaxQueued = 4
SPECIFICATION FairSpec
INVARIANTS
  ExactlyTheFlushed
  HeadersOnly
PROPERTIES
  FlushReturns

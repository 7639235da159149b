\* The connection drops while close() waits for a channel.
SPECIFICATION TidySpec
CONSTANTS
  Chans = {c1}
  LazyChans = {}
  Closers = {k1}
  MaxId = 1
  MaxFaults = 1
  MayDestroy = FALSE
  FromEvent = FALSE
  None = None
\* The user may stop calling, and a closed connection stays closed.
CHECK_DEADLOCK FALSE
PROPERTIES
  CloseReturns

\* Faults, close(), unsafeDestroy() and acquires, also lazy ones, that compete for ids.
SPECIFICATION FairSpec
CONSTANTS
  Chans = {c1, l1, l2}
  LazyChans = {l1, l2}
  Closers = {k1, k2}
  MaxId = 2
  MaxFaults = 2
  MayDestroy = TRUE
  FromEvent = FALSE
  None = None
\* The user may stop calling, and a closed connection stays closed.
CHECK_DEADLOCK FALSE
INVARIANTS
  Safe
  OutageHandled
  LazySingle
PROPERTIES
  ClosedForGood
  ImplementsPool
  Reconnects
  AcquireSettles
  CloseEnds

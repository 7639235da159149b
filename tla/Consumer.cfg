\* Messages, handlers, lost channels, cancellations, close() and start() in any order.
SPECIFICATION FairSpec
CONSTANTS
  MaxMsgs = 3
  MaxFaults = 2
  Limits = {1, 2, 4}
  Closers = {k1}
  MaxStarts = 1
  Allowed = {}
\* The user may stop calling, and a closed consumer stays closed.
CHECK_DEADLOCK FALSE
INVARIANTS
  Safe
  Scheduled
  AckOnOwnChannel
  CloseOrderly
PROPERTIES
  StartsInOrder
  Recovers
  CloseSettles

\* Two requests with one retry each, close(), and faults.
SPECIFICATION FairSpec
CONSTANTS
  NumSends = 2
  Closers = {k1}
  MaxAttempts = 2
  MaxFaults = 2
\* The user may stop calling, and a closed client stays closed.
CHECK_DEADLOCK FALSE
INVARIANTS
  Safe
  OwnReply
  CloseDrains
PROPERTIES
  AllSettle

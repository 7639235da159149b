\* Three sends that share a setup, with retries, two calls of close() and faults.
SPECIFICATION FairSpec
CONSTANTS
  Sends = {s1, s2, s3}
  Closers = {k1, k2}
  MaxAttempts = 2
  MaxFaults = 3
\* The user may stop calling, and a closed publisher stays closed.
CHECK_DEADLOCK FALSE
INVARIANTS
  Safe
  CopiesBounded
  NothingLeft
PROPERTIES
  AllSettle

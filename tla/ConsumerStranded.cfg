\* The end of the channel is read together with consume-ok.
SPECIFICATION Spec
CONSTANTS
  MaxMsgs = 1
  MaxFaults = 1
  Limits = {2}
  Closers = {k1}
  MaxStarts = 0
  Allowed = {"samechunk"}
\* The user may stop calling, and a closed consumer stays closed.
CHECK_DEADLOCK FALSE
INVARIANTS
  NeverStranded

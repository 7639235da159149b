\* A broker that says nothing, on a quiet connection.
SPECIFICATION Spec
CONSTANTS
  Chans = {c1}
  Kinds = {"deliver"}
  Incoming = {2}
  Outgoing = {}
  OptFrameMax = 10
  Offers = {0}
  MaxMessages = 1
  MaxLosses = 0
INVARIANTS
  DeadInTime

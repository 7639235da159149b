\* A broker that offers a smaller frame size than the client's option.
SPECIFICATION Spec
CONSTANTS
  Chans = {c1}
  Kinds = {"deliver"}
  Incoming = {2}
  Outgoing = {}
  OptFrameMax = 10
  Offers = {9}
  MaxMessages = 1
  MaxLosses = 0
INVARIANTS
  Whole

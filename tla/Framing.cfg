\* Contents that interleave on two channels, publishes, silence, blocking and
\* lost sockets, with brokers that accept the client's frame size.
SPECIFICATION Spec
CONSTANTS
  Chans = {c1, c2}
  Kinds = {"deliver", "get"}
  Incoming = {0, 2, 3}
  Outgoing = {11}
  OptFrameMax = 10
  Offers = {0, 12}
  MaxMessages = 2
  MaxLosses = 1
INVARIANTS
  Framed
  Whole
  NoFrameError
  InOrder
  BeatSound

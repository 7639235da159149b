\* Requests, publishes and acks under everything the environment may do.
SPECIFICATION Spec
CONSTANTS
  Rpcs = {r1, r2, r3}
  Pubs = {p1}
  Nowaits = {n1}
  Confirms = {}
  Malformed = {n1, r2}
  Refusable = {r1, r3, p1, n1}
  Allowed = {"close", "loss", "kick", "bypass"}
  MaxStalls = 1
  None = None
  ChannelClose = ChannelClose
SYMMETRY Symmetry
\* The user may stop calling: a quiet channel is not a deadlock.
CHECK_DEADLOCK FALSE
INVARIANTS
  Service
  StreamOrder
  CallsAccounted
  ErrorContained

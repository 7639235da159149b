\* Every call settles once, with its own outcome, and close() returns: confirms, a
\* request that cannot be encoded, stalls and a connection that may drop.
SPECIFICATION FairSpec
CONSTANTS
  Rpcs = {sel, r1, r2}
  Pubs = {p1, p2}
  Nowaits = {}
  Confirms = {sel}
  Malformed = {r2}
  Refusable = {}
  Allowed = {"close", "loss"}
  MaxStalls = 1
  None = None
  ChannelClose = ChannelClose
\* The user may stop calling: a quiet channel is not a deadlock.
CHECK_DEADLOCK FALSE
INVARIANTS
  OwnConfirm
PROPERTIES
  SettledOnce
  EveryCallSettles
  CloseReturnsIfUp
  ImplementsQueue

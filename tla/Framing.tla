------------------------------ MODULE Framing ------------------------------
(***************************************************************************)
(* Contents on the wire: a message is a method frame, a header with the    *)
(* size of the body, and body frames cut by the frame size that client and *)
(* broker agreed on.  Channels share the socket, so their frames           *)
(* interleave; a channel puts its own together (Channel.ts 342-403) and    *)
(* cuts what it publishes (codec.ts 810-843).  Every step is a frame read, *)
(* a call that writes, or a turn of the event loop, and marks the flags of *)
(* Heartbeat.  The end of the socket interrupts whatever was on its way.   *)
(***************************************************************************)
EXTENDS Heartbeat, Sequences, SequencesExt

CONSTANTS
  Chans,        \* channels
  Kinds,        \* what a content may be: "deliver", "return", "get"
  Incoming,     \* sizes of the bodies the broker sends
  Outgoing,     \* sizes of the bodies that are published
  OptFrameMax,  \* ConnectionOptions.frameMax
  Offers,       \* frameMax as brokers offer it in connection.tune, 0: no limit
  MaxMessages,  \* bound: contents the broker sends
  MaxLosses     \* bound: sockets lost

ASSUME FramingAssumption ==
  /\ Kinds \subseteq {"deliver", "return", "get"}
  /\ Incoming \subseteq Nat /\ Outgoing \subseteq Nat
  /\ OptFrameMax \in Nat /\ OptFrameMax > 8
  /\ Offers \subseteq Nat /\ Offers # {} /\ \A f \in Offers : f = 0 \/ f > 8
  /\ MaxMessages \in Nat /\ MaxLosses \in Nat

VARIABLES
  frameMax,    \* _state.frameMax: what was negotiated
  feed,        \* the content the broker is sending on a channel
  incoming,    \* _state.incoming of a channel; from: whose frames it has
  immediates,  \* contents passed to setImmediate
  handled,     \* contents given to the user
  started,     \* contents the broker has begun
  arrived,     \* those of which a channel has read the last frame
  cut,         \* the last body published, and its payloads
  error,       \* whose frame error ended the socket: "none", "client", "broker"
  losses

content == <<feed, incoming, immediates, handled, started, arrived, cut, error>>
vars == <<beat, frameMax, content, losses>>

None == [at |-> "none"]
Overhead == 8

Least(a, b) == IF a < b THEN a ELSE b

(* _negotiate.                                                             *)
Negotiated(f) == IF f > 0 THEN Least(OptFrameMax, f) ELSE OptFrameMax

(* A new socket: every channel is new, setImmediate still has its queue.   *)
Init ==
  /\ BeatInit /\ frameMax \in {Negotiated(f) : f \in Offers}
  /\ feed = [c \in Chans |-> None] /\ incoming = [c \in Chans |-> None]
  /\ immediates = <<>> /\ handled = <<>> /\ started = 0 /\ arrived = {}
  /\ cut = [size |-> 0, payloads |-> <<>>] /\ error = "none" /\ losses = 0

Reconnect ==
  /\ link # "up" /\ BeatRestart
  /\ frameMax' \in {Negotiated(f) : f \in Offers}
  /\ feed' = [c \in Chans |-> None] /\ incoming' = [c \in Chans |-> None]
  /\ error' = "none"
  /\ UNCHANGED <<immediates, handled, started, arrived, cut, losses>>

Lost ==
  /\ link = "up" /\ losses < MaxLosses
  /\ link' = "down" /\ losses' = losses + 1
  /\ UNCHANGED <<hasRead, hasWrite, miss, corked, silence, quiet, frameMax, content>>

(* The socket ends because one side cannot accept a frame.                 *)
Refused(side) ==
  /\ link' = "down" /\ error' = side
  /\ UNCHANGED <<hasWrite, miss, corked, quiet>>

-----------------------------------------------------------------------------
(* The broker.                                                             *)

(* It begins a content; get-ok answers a request, one at a time.           *)
Begin(c, kind, size) ==
  /\ link = "up" /\ feed[c] = None /\ started < MaxMessages
  /\ started' = started + 1
  /\ feed' = [feed EXCEPT ![c] =
       [at |-> "method", of |-> started + 1, kind |-> kind, size |-> size, left |-> size]]
  /\ UNCHANGED <<beat, frameMax, incoming, immediates, handled, arrived, cut, error, losses>>

(* Payloads are as long as the frame size agreed on allows.                *)
Payload(left) == Least(left, frameMax - Overhead)

-----------------------------------------------------------------------------
(* The channel reads.                                                      *)

(* Mutants: a short last frame is not expected; a content is kept.         *)
RoundedDown(size) == size \div (OptFrameMax - Overhead)
Expected(size) == (size + OptFrameMax - Overhead - 1) \div (OptFrameMax - Overhead)
Again(m) == m
Cleared(m) == None

(* Mutant: there is room for one.                                          *)
LastOnly(m) == <<m>>
Scheduled(m) == Append(immediates, m)

(* The content is complete: a get-ok settles its request, others are       *)
(* passed on from a setImmediate.                                          *)
PassOn(c, m) ==
  /\ incoming' = [incoming EXCEPT ![c] = Cleared(m)]
  /\ IF m.kind = "get" THEN handled' = Append(handled, m) /\ UNCHANGED immediates
                       ELSE immediates' = Scheduled(m) /\ UNCHANGED handled

(* History: the frame of channel c that is read is the last of its content.*)
Arrives(c, last) == arrived' = IF last THEN arrived \cup {feed[c].of} ELSE arrived

(* _onMethod of a content.                                                 *)
OnMethod(c) ==
  /\ link = "up" /\ feed[c].at = "method" /\ Read
  /\ IF incoming[c] # None
       THEN Refused("client") /\ UNCHANGED <<feed, incoming>>
       ELSE /\ incoming' = [incoming EXCEPT ![c] =
                 [at |-> "method", chan |-> c, of |-> feed[c].of, kind |-> feed[c].kind,
                  size |-> feed[c].size, expected |-> 0, received |-> 0, bytes |-> 0, from |-> {}]]
            /\ feed' = [feed EXCEPT ![c].at = "header"]
            /\ UNCHANGED <<link, hasWrite, miss, corked, quiet, error>>
  /\ UNCHANGED <<frameMax, immediates, handled, started, arrived, cut, losses>>

(* _onHeader: an empty body has no frames.  (A header frame comes behind   *)
(* its method frame, so nobody ever fails to wait for one.)                *)
OnHeader(c) ==
  LET size == feed[c].size
      m == [incoming[c] EXCEPT !.at = "header", !.expected = Expected(size)]
  IN /\ link = "up" /\ feed[c].at = "header" /\ Read
     /\ feed' = [feed EXCEPT ![c] = IF size = 0 THEN None ELSE [@ EXCEPT !.at = "body"]]
     /\ IF incoming[c] = None \/ incoming[c].at # "method"
          THEN Refused("client") /\ UNCHANGED <<incoming, immediates, handled, arrived>>
          ELSE /\ IF m.expected = 0 THEN PassOn(c, m)
                  ELSE incoming' = [incoming EXCEPT ![c] = m] /\ UNCHANGED <<immediates, handled>>
               /\ Arrives(c, size = 0)
               /\ UNCHANGED <<link, hasWrite, miss, corked, quiet, error>>
     /\ UNCHANGED <<frameMax, started, cut, losses>>

(* _onBody.  A body frame nobody waits for is an error of the connection.  *)
OnBody(c) ==
  LET n == Payload(feed[c].left)
      f == IF n = feed[c].left THEN None ELSE [feed[c] EXCEPT !.left = @ - n]
      m == [incoming[c] EXCEPT !.received = @ + 1, !.bytes = @ + n, !.from = @ \cup {feed[c].of}]
  IN /\ link = "up" /\ feed[c].at = "body" /\ Read
     /\ feed' = [feed EXCEPT ![c] = f]
     /\ IF incoming[c] = None \/ incoming[c].at # "header"
          THEN Refused("client") /\ UNCHANGED <<incoming, immediates, handled, arrived>>
          ELSE /\ IF m.received = m.expected THEN PassOn(c, m)
                  ELSE incoming' = [incoming EXCEPT ![c] = m] /\ UNCHANGED <<immediates, handled>>
               /\ Arrives(c, n = feed[c].left)
               /\ UNCHANGED <<link, hasWrite, miss, corked, quiet, error>>
     /\ UNCHANGED <<frameMax, started, cut, losses>>

(* setImmediate calls in order, also when the channel has gone by then.    *)
Handle ==
  /\ immediates # <<>>
  /\ handled' = Append(handled, Head(immediates))
  /\ immediates' = Tail(immediates)
  /\ UNCHANGED <<beat, frameMax, feed, incoming, started, arrived, cut, error, losses>>

-----------------------------------------------------------------------------
(* The channel writes.                                                     *)

(* genContentFrames: the payloads of a body.  Mutants: the last one is     *)
(* forgotten; one byte too many.                                           *)
RoundedDownFrames(size) == size \div OptFrameMax
ContentFrames(size) == (size + OptFrameMax - 1) \div OptFrameMax
Slices(size) ==
  [i \in 1..ContentFrames(size) |-> Least(size - (i - 1) * OptFrameMax, OptFrameMax)]

(* A publish.  The broker takes payloads up to the frame size agreed on,   *)
(* though the frame around them is longer.                                 *)
Publish(size) ==
  /\ link = "up"
  /\ cut' = [size |-> size, payloads |-> Slices(size)]
  /\ IF \E n \in Range(Slices(size)) : n > frameMax
       THEN /\ link' = "down" /\ error' = "broker"
            /\ UNCHANGED <<hasRead, hasWrite, miss, corked, silence, quiet>>
       ELSE Write /\ UNCHANGED <<link, hasRead, miss, corked, silence, error>>
  /\ UNCHANGED <<frameMax, feed, incoming, immediates, handled, started, arrived, losses>>

-----------------------------------------------------------------------------
Pulse == (OnHeartbeat \/ OnBlocked \/ OnUnblocked \/ Tick) /\ UNCHANGED <<frameMax, content, losses>>

Next ==
  \/ \E c \in Chans : \/ \E kind \in Kinds, size \in Incoming : Begin(c, kind, size)
                      \/ OnMethod(c) \/ OnHeader(c) \/ OnBody(c)
  \/ \E size \in Outgoing : Publish(size)
  \/ Handle \/ Pulse \/ Lost \/ Reconnect

Spec == Init /\ [][Next]_vars

-----------------------------------------------------------------------------
(* The sum of a sequence.                                                  *)
Total(s) ==
  LET upTo[n \in 0..Len(s)] == IF n = 0 THEN 0 ELSE upTo[n - 1] + s[n] IN upTo[Len(s)]

(* The payloads of a publish are the body: none is empty, the last is not  *)
(* missing.                                                                *)
CutWhole ==
  /\ Total(cut.payloads) = cut.size
  /\ \A n \in Range(cut.payloads) : n \in 1..OptFrameMax

(* The type of every variable.                                             *)
Messages == 1..MaxMessages
IsContent(m, c) ==
  /\ m.chan = c /\ m.of \in Messages /\ m.kind \in Kinds /\ m.size \in Incoming
  /\ m.expected \in Nat /\ m.received \in Nat /\ m.bytes \in Nat /\ m.from \subseteq Messages
TypeOK ==
  /\ BeatType
  /\ frameMax \in (Overhead + 1)..OptFrameMax
  /\ \A c \in Chans :
       /\ feed[c] # None => /\ feed[c].at \in {"method", "header", "body"}
                            /\ feed[c].left \in 0..feed[c].size
       /\ incoming[c] # None => /\ incoming[c].at \in {"method", "header"}
                                /\ IsContent(incoming[c], c)
                                /\ incoming[c].at = "header" =>
                                     incoming[c].received < incoming[c].expected
  /\ \A m \in Range(immediates) \cup Range(handled) : IsContent(m, m.chan)
  /\ started \in 0..MaxMessages /\ arrived \subseteq Messages
  /\ error \in {"none", "client", "broker"}
  /\ losses \in 0..MaxLosses

(* Whatever is on its way is well formed, in and out.                      *)
Framed == TypeOK /\ CutWhole

(* What the user is given is whole and unmixed: every byte that the broker *)
(* sent, of this content only, however contents interleave, whatever was   *)
(* cut off by the end of an earlier socket.                                *)
Whole ==
  \A m \in Range(immediates) \cup Range(handled) : m.bytes = m.size /\ m.from \subseteq {m.of}

(* Neither side ever ends the connection over a frame of the other.        *)
NoFrameError == error = "none"

(* Deliveries and returns of a channel reach the user in the order in      *)
(* which the broker sent them.                                             *)
InSentOrder ==
  \A i, j \in DOMAIN handled :
    i < j /\ handled[i].chan = handled[j].chan
          /\ handled[i].kind # "get" /\ handled[j].kind # "get" => handled[i].of < handled[j].of

(* What was given to the user or waits in an immediate is what has arrived *)
(* completely: none is lost, none comes twice.                             *)
NoneTwice(s) == \A i, j \in DOMAIN s : s[i].of = s[j].of => i = j
EachOnce ==
  /\ {m.of : m \in Range(handled) \cup Range(immediates)} = arrived
  /\ NoneTwice(handled) /\ NoneTwice(immediates)
  /\ \A a \in Range(handled), b \in Range(immediates) : a.of # b.of

(* Order and number of the contents are the broker's, across channels,     *)
(* callbacks and lost sockets; only those are missing that a socket's end  *)
(* has cut off.                                                            *)
InOrder == InSentOrder /\ EachOnce
=============================================================================

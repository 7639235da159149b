------------------------------- MODULE Channel -------------------------------
(***************************************************************************)
(* One AMQP channel of the client (src/src/Channel.ts) with the            *)
(* EncoderStream it writes through (src/src/util.ts), from the moment      *)
(* channel.open-ok was received until its id is released, together with    *)
(* the two parties it talks to: the user's calls and the broker.           *)
(*                                                                         *)
(* Granularity.  JavaScript runs one job at a time.  A step here is one    *)
(* handler: a call by the user, a frame of the chunk being decoded, the    *)
(* tick that runs write callbacks, the tick that ends the stream, or a     *)
(* macrotask (a read, a drain, a socket event, a setImmediate).  Pending   *)
(* ticks wait until every frame of the current chunk is handled (frames    *)
(* are decoded in microtasks) and come before any macrotask.  User code    *)
(* may run between two frames of a chunk, resumed by the frames before.    *)
(* The broker and the network interleave with every one of these steps.    *)
(***************************************************************************)
EXTENDS Naturals, Sequences, FiniteSets

CONSTANTS
  Rpcs,         \* calls through _invoke: each is one request and one reply
  Pubs,         \* calls of basicPublish
  Nowaits,      \* calls through _invokeNowait (basicAck, basicNack, ...)
  Confirms,     \* the calls of Rpcs that are confirm.select
  Malformed,    \* calls whose first frame cannot be encoded (genFrame throws)
  Refusable,    \* calls the broker may answer with channel.close
  Allowed,      \* what the environment may do, see below
  MaxStalls,    \* how often the socket's buffer may fill up
  None,         \* no call
  ChannelClose  \* the channel.close request in the _state.rpc slot

Ops == Rpcs \cup Pubs \cup Nowaits

(* "close": the user may call close(); "loss": the connection may drop;    *)
(* "kick": the broker may close the channel for a reason of its own;       *)
(* "eager": the user may publish before confirmSelect() has settled;       *)
(* "bypass": a writer that ignores back-pressure (the heartbeat timer, the *)
(* _writeMethod of another channel) may write behind a stalled frame.      *)
ASSUME ChannelAssumption ==
  /\ Rpcs \cap Pubs = {} /\ Rpcs \cap Nowaits = {} /\ Pubs \cap Nowaits = {}
  /\ Confirms \subseteq Rpcs
  /\ Malformed \subseteq Ops /\ Refusable \subseteq Ops
  /\ Allowed \subseteq {"close", "loss", "kick", "eager", "bypass"}
  /\ MaxStalls \in Nat
  /\ None \notin Ops /\ ChannelClose \notin Ops /\ None # ChannelClose

VARIABLES
  active, cleared, mode,       \* Channel.active, _state.cleared, _state.mode
  rpc, rpcBuffer,              \* _state.rpc, _state.rpcBuffer
  unconfirmed, registered,     \* _state.unconfirmed; the calls in the order of
                               \* their delivery tags (deliveryCount - 1 of them)
  closer, final,               \* where the running close() waits, the call it took
  queue, sent,                 \* the stream's pending writes, frames of the first
  phase, written,              \* the stream's state, its callbacks not yet run
  promise, calls, confirming,  \* each call's promise, the order of calls, those
                               \* published in confirm mode
  socket, fault, full, stalls, \* the connection's socket
  outbuf, c2s, s2c, chunk,     \* frames in the socket's buffer, on their way, and
                               \* read but not yet handled
  bState, bConfirm, partial,   \* the broker's channel; publish awaiting its body
  served, published, unacked, acked

chan    == <<active, cleared, mode, rpc, rpcBuffer, unconfirmed, registered>>
close   == <<closer, final>>
stream  == <<queue, sent, phase, written>>
user    == <<promise, calls, confirming>>
sock    == <<socket, fault, full, stalls>>
wire    == <<outbuf, c2s, s2c, chunk>>
broker  == <<bState, bConfirm, partial, served, published, unacked, acked>>
vars    == <<chan, close, stream, user, sock, wire, broker>>

Elems(s) == {s[i] : i \in DOMAIN s}

(* genFrame yields one frame; genContentFrames the method and header, then *)
(* the body.  Two frames stand for a publish with any number of them.      *)
FrameCount(op) == IF op \in Pubs THEN 2 ELSE 1
Frame(kind, op) == [kind |-> kind, op |-> op]
NextFrame(op, n) ==
  Frame(IF op \in Rpcs THEN "rpc"
        ELSE IF op \in Nowaits THEN "nowait"
        ELSE IF n = 0 THEN "head" ELSE "body", op)

FromBroker(kind, op) == [kind |-> kind, op |-> op, tag |-> 0, multiple |-> FALSE]
(* What the client can tell of a reply is its method.  Requests of one      *)
(* method are as easily confused as can be: there are only two methods.    *)
SameMethod(a, b) == a \in Rpcs /\ (a \in Confirms <=> b \in Confirms)

(* The publishes a confirmation is about: one tag, or all tags up to it.    *)
Covered(tags, t, multiple) ==
  {tags[i] : i \in {j \in DOMAIN tags : j = t \/ (multiple /\ j <= t)}}
Confirmation(kind, t, m) == [kind |-> kind, op |-> None, tag |-> t, multiple |-> m]

(* The synchronous part of EncoderStream: while the socket has room and    *)
(* there is something to write, _loop runs before anything else in JS.     *)
StreamBusy == phase \in {"open", "ending"} /\ queue # <<>> /\ ~full
TickPending == \/ written # <<>>
               \/ phase \in {"errored", "destroyed"}
               \/ phase = "ending" /\ queue = <<>>
Macrotask == chunk = <<>> /\ ~StreamBusy /\ ~TickPending

(* socket.write(): while the buffer is full the data waits there, and on a *)
(* destroyed socket it vanishes silently.                                  *)
Send(frame, isFull) ==
  /\ outbuf' = IF socket = "up" /\ isFull THEN Append(outbuf, frame) ELSE outbuf
  /\ c2s' = IF socket = "up" /\ ~isFull THEN Append(c2s, frame) ELSE c2s

Settle(S, how) == promise' = [op \in Ops |-> IF op \in S THEN how ELSE promise[op]]

Init ==
  /\ active = TRUE /\ cleared = FALSE /\ mode = "normal"
  /\ rpc = None /\ rpcBuffer = <<>> /\ unconfirmed = {} /\ registered = <<>>
  /\ closer = "idle" /\ final = None
  /\ queue = <<>> /\ sent = 0 /\ phase = "open" /\ written = <<>>
  /\ promise = [op \in Ops |-> "none"] /\ calls = <<>> /\ confirming = {}
  /\ socket = "up" /\ fault = "none" /\ full = FALSE /\ stalls = 0
  /\ outbuf = <<>> /\ c2s = <<>> /\ s2c = <<>> /\ chunk = <<>>
  /\ bState = "open" /\ bConfirm = FALSE /\ partial = None
  /\ served = <<>> /\ published = <<>> /\ unacked = {} /\ acked = {}

-----------------------------------------------------------------------------
(* The user's calls.                                                       *)

(* A call on a closed channel is rejected (or throws) and changes nothing. *)
CallClosed(op) ==
  /\ promise[op] = "none" /\ ~active /\ ~StreamBusy
  /\ Settle({op}, "rejected")
  /\ UNCHANGED <<chan, close, stream, calls, confirming, sock, wire, broker>>

Call(op, outcome) ==
  /\ promise[op] = "none" /\ active /\ ~StreamBusy
  /\ Settle({op}, outcome)
  /\ calls' = Append(calls, op)

(* Mutant: requests are pipelined.                                         *)
NeverBusy == FALSE
RpcBusy == rpc # None

(* Mutant: the newest request waits at the front.                          *)
Unshift(r) == <<r>> \o rpcBuffer
Push(r) == Append(rpcBuffer, r)

Invoke(r) ==
  /\ Call(r, "pending")
  /\ IF RpcBusy
       THEN rpcBuffer' = Push(r) /\ UNCHANGED <<rpc, queue>>
       ELSE rpc' = r /\ queue' = Append(queue, r) /\ UNCHANGED rpcBuffer
  /\ UNCHANGED <<active, cleared, mode, unconfirmed, registered, close, sent,
                 phase, written, confirming, sock, wire, broker>>

InvokeNowait(n) ==
  /\ Call(n, "resolved")
  /\ queue' = Append(queue, n)
  /\ UNCHANGED <<chan, close, sent, phase, written, confirming, sock, wire, broker>>

ConfirmMode == mode = "confirm"

SelectPending == \E r \in Confirms : promise[r] = "pending"

BasicPublish(p) ==
  /\ "eager" \in Allowed \/ ~SelectPending
  /\ Call(p, "pending")
  /\ queue' = Append(queue, p)
  /\ confirming' = IF ConfirmMode THEN confirming \cup {p} ELSE confirming
  /\ UNCHANGED <<chan, close, sent, phase, written, sock, wire, broker>>

(* Mutant: close() does not wait for the stream.                           *)
StartCloseAtOnce ==
  active' = FALSE /\ closer' = "immediate" /\ UNCHANGED phase

(* Mutant: close() waits for the stream but does not end it.               *)
StartCloseOpenEnded ==
  /\ active' = FALSE
  /\ closer' = IF phase = "open" THEN "stream" ELSE "immediate"
  /\ UNCHANGED phase

(* close() up to its first await.  A second call returns at once.          *)
StartClose ==
  /\ active' = FALSE
  /\ IF phase = "open"
       THEN /\ closer' = "stream"
            /\ phase' = IF rpc = None THEN "ending" ELSE phase
       ELSE closer' = "immediate" /\ UNCHANGED phase

Close ==
  /\ "close" \in Allowed /\ active /\ ~StreamBusy
  /\ StartClose
  /\ UNCHANGED <<cleared, mode, rpc, rpcBuffer, unconfirmed, registered, final,
                 queue, sent, written, user, sock, wire, broker>>

-----------------------------------------------------------------------------
(* EncoderStream: _loop, its callbacks, its end.                           *)

(* One turn of the while loop: the next frame of the first pending write.  *)
(* The socket may report that its buffer is full; a dead socket always     *)
(* does, and never drains.                                                 *)
WriteFrame ==
  /\ StreamBusy /\ sent < FrameCount(Head(queue))
  /\ ~(Head(queue) \in Malformed /\ sent = 0)
  /\ \/ socket = "up" /\ UNCHANGED <<full, stalls>>
     \/ socket = "up" /\ stalls < MaxStalls /\ full' = TRUE /\ stalls' = stalls + 1
     \/ socket # "up" /\ full' = TRUE /\ UNCHANGED stalls
  /\ Send(NextFrame(Head(queue), sent), full')
  /\ sent' = sent + 1
  /\ UNCHANGED <<chan, close, queue, phase, written, user, socket, fault, s2c,
                 chunk, broker>>

(* Only the callback of a publish does something when the write succeeds.  *)
CallsBack(op) == op \in Pubs

(* it.next() is done: cb() pops the write and schedules its callback.      *)
FinishWrite ==
  /\ StreamBusy /\ sent = FrameCount(Head(queue))
  /\ queue' = Tail(queue) /\ sent' = 0
  /\ written' = IF CallsBack(Head(queue)) THEN Append(written, Head(queue)) ELSE written
  /\ UNCHANGED <<chan, close, phase, user, sock, wire, broker>>

(* it.next() throws: the stream is errored at once, callbacks run later.   *)
FailWrite ==
  /\ StreamBusy /\ Head(queue) \in Malformed /\ sent = 0
  /\ phase' = "errored"
  /\ UNCHANGED <<chan, close, queue, sent, written, user, sock, wire, broker>>

(* Other channels share the socket and may fill it too.                    *)
Stall ==
  /\ socket = "up" /\ ~full /\ stalls < MaxStalls /\ Macrotask
  /\ full' = TRUE /\ stalls' = stalls + 1
  /\ UNCHANGED <<chan, close, stream, user, socket, fault, wire, broker>>

Drain ==
  /\ full /\ socket = "up" /\ Macrotask
  /\ full' = FALSE
  /\ c2s' = c2s \o outbuf /\ outbuf' = <<>>
  /\ UNCHANGED <<chan, close, stream, user, socket, fault, stalls, s2c, chunk, broker>>

(* 'drain' means that the buffer is empty.  With somebody else's bytes     *)
(* behind them our frames may be sent, and answered, before that event.    *)
Bypass ==
  /\ "bypass" \in Allowed /\ full /\ socket = "up" /\ outbuf # <<>> /\ Macrotask
  /\ c2s' = c2s \o outbuf /\ outbuf' = <<>>
  /\ UNCHANGED <<chan, close, stream, user, sock, s2c, chunk, broker>>

(* The callback of a finished publish.  One published in confirm mode now  *)
(* gets its delivery tag and waits for the broker.                         *)
AfterWrite ==
  LET p == Head(written)
  IN /\ written # <<>> /\ chunk = <<>> /\ ~StreamBusy
     /\ written' = Tail(written)
     /\ IF p \in confirming
          THEN /\ registered' = Append(registered, p)
               /\ unconfirmed' = unconfirmed \cup {p}
               /\ UNCHANGED promise
          ELSE Settle({p}, "resolved") /\ UNCHANGED <<registered, unconfirmed>>
     /\ UNCHANGED <<active, cleared, mode, rpc, rpcBuffer, close, queue, sent,
                    phase, calls, confirming, sock, wire, broker>>

(* close() after its await: take the final rpc, or send channel.close.     *)
(* pending is the rpc slot at that time.                                   *)
ResumeClose(pending) ==
  IF pending # None
    THEN final' = pending /\ rpc' = None /\ closer' = "final"
         /\ UNCHANGED <<outbuf, c2s>>
    ELSE /\ rpc' = ChannelClose /\ closer' = "closeOk" /\ UNCHANGED final
         /\ Send(Frame("close", None), full)

(* The stream has ended, everything in it was written: 'close'.            *)
StreamFinish ==
  /\ phase = "ending" /\ queue = <<>> /\ written = <<>> /\ chunk = <<>>
  /\ phase' = "closed"
  /\ ResumeClose(rpc)
  /\ UNCHANGED <<active, cleared, mode, rpcBuffer, unconfirmed, registered, queue,
                 sent, written, user, sock, s2c, chunk, broker>>

(* The stream's 'error' event calls close(), which returns at once when    *)
(* the channel is no longer active.                                        *)
CloserAfterError == IF active THEN "immediate" ELSE closer

(* The stream failed or was destroyed: every pending write is called back  *)
(* with the error, then 'error' closes the channel, then 'close' resumes a *)
(* close() that waited for the stream.  The callback of a request empties  *)
(* the rpc slot; its reply may have arrived before its write completed.    *)
StreamFail ==
  LET slot == IF Elems(queue) \cap Rpcs # {} THEN None ELSE rpc
  IN /\ phase \in {"errored", "destroyed"} /\ written = <<>> /\ chunk = <<>>
     /\ Settle({op \in Elems(queue) : promise[op] = "pending"}, "rejected")
     /\ queue' = <<>> /\ sent' = 0 /\ phase' = "closed"
     /\ active' = FALSE
     /\ IF closer = "stream" THEN ResumeClose(slot)
        ELSE /\ rpc' = slot
             /\ closer' = CloserAfterError
             /\ UNCHANGED <<final, outbuf, c2s>>
     /\ UNCHANGED <<cleared, mode, rpcBuffer, unconfirmed, registered, written,
                    calls, confirming, sock, s2c, chunk, broker>>

(* close() of a channel whose stream cannot be written waits one turn.     *)
CloseImmediate ==
  /\ closer = "immediate" /\ Macrotask
  /\ ResumeClose(rpc)
  /\ UNCHANGED <<active, cleared, mode, rpcBuffer, unconfirmed, registered, stream,
                 user, sock, s2c, chunk, broker>>

-----------------------------------------------------------------------------
(* Incoming frames and the end of the connection.                          *)

ReadChunk ==
  /\ socket = "up" /\ s2c # <<>> /\ Macrotask
  /\ \E n \in 1..Len(s2c) :
       chunk' = SubSeq(s2c, 1, n) /\ s2c' = SubSeq(s2c, n + 1, Len(s2c))
  /\ UNCHANGED <<chan, close, stream, user, sock, outbuf, c2s, broker>>

(* The calls _clear rejects.  Mutants: it forgets the buffer, or the       *)
(* publishes without a confirmation.                                       *)
ClearedButBuffer == ({rpc} \cup unconfirmed) \cap Ops
ClearedButUnconfirmed == ({rpc} \cup Elems(rpcBuffer)) \cap Ops
ClearedCalls == ({rpc} \cup Elems(rpcBuffer) \cup unconfirmed) \cap Ops

EmptyAll == rpc' = None /\ rpcBuffer' = <<>> /\ unconfirmed' = {}

(* _clear: reject whatever is pending, destroy the stream, release the id. *)
(* A close() waiting for channel.close-ok ends here.                       *)
StreamAfterClear == IF phase = "closed" THEN "closed" ELSE "destroyed"

Clear ==
  /\ active' = FALSE /\ cleared' = TRUE
  /\ Settle(ClearedCalls, "rejected")
  /\ EmptyAll
  /\ phase' = StreamAfterClear
  /\ closer' = IF closer = "closeOk" THEN "done" ELSE closer
  /\ UNCHANGED <<mode, registered, final, queue, sent, written, calls, confirming>>

Receive(kinds) ==
  /\ chunk # <<>> /\ ~StreamBusy /\ Head(chunk).kind \in kinds /\ ~cleared
  /\ chunk' = Tail(chunk)

(* Mutant: the next request is not started.                                *)
NeverStartsNext == FALSE
StartsNext == phase = "open" /\ active /\ rpcBuffer # <<>>

OnReply ==
  /\ Receive({"reply"}) /\ SameMethod(rpc, Head(chunk).op)
  /\ Settle({rpc}, "resolved")
  /\ mode' = IF rpc \in Confirms THEN "confirm" ELSE mode
  /\ IF StartsNext
       THEN /\ rpc' = Head(rpcBuffer) /\ rpcBuffer' = Tail(rpcBuffer)
            /\ queue' = Append(queue, Head(rpcBuffer))
       ELSE rpc' = None /\ UNCHANGED <<rpcBuffer, queue>>
  /\ phase' = IF phase = "open" /\ ~active THEN "ending" ELSE phase
  /\ UNCHANGED <<active, cleared, unconfirmed, registered, close, sent, written,
                 calls, confirming, sock, outbuf, c2s, s2c, broker>>

OnCloseOk ==
  /\ Receive({"closeOk"}) /\ rpc = ChannelClose
  /\ Clear
  /\ UNCHANGED <<sock, outbuf, c2s, s2c, broker>>

(* The broker closes the channel: answer, then fail everything pending.    *)
(* The code gives the broker's reason to one pending call and a generic    *)
(* one to the rest: all of them are rejected.                              *)
OnChannelClose ==
  /\ Receive({"close"})
  /\ Send(Frame("closeOk", None), full)
  /\ Clear
  /\ UNCHANGED <<sock, s2c, broker>>

(* The calls a confirmation settles: those it covers and still waiting.    *)
(* Mutants: the bound is off by one; a settled call is not removed from    *)
(* the map.                                                                *)
HitOffByOne(f) == Covered(registered, f.tag + 1, f.multiple) \cap unconfirmed
HitAgain(f) == Covered(registered, f.tag, f.multiple)
Hit(f) == Covered(registered, f.tag, f.multiple) \cap unconfirmed

OnConfirm ==
  LET f == Head(chunk)
      hit == Hit(f)
  IN /\ Receive({"ack", "nack"}) /\ mode = "confirm"
     /\ Settle(hit, IF f.kind = "ack" THEN "resolved" ELSE "rejected")
     /\ unconfirmed' = unconfirmed \ hit
     /\ UNCHANGED <<active, cleared, mode, rpc, rpcBuffer, registered, close,
                    stream, calls, confirming, sock, outbuf, c2s, s2c, broker>>

(* A frame the client cannot place: UNEXPECTED_FRAME is thrown out of the  *)
(* reader loop, which destroys the socket.  _handleRPC forgets the rpc.    *)
Unexpected(f) ==
  \/ cleared
  \/ f.kind = "reply" /\ ~SameMethod(rpc, f.op)
  \/ f.kind = "closeOk" /\ rpc # ChannelClose
  \/ f.kind \in {"ack", "nack"} /\ mode = "normal"

OnUnexpected ==
  /\ chunk # <<>> /\ ~StreamBusy /\ Unexpected(Head(chunk))
  /\ chunk' = <<>> /\ s2c' = <<>> /\ c2s' = <<>> /\ outbuf' = <<>>
  /\ rpc' = IF cleared THEN rpc ELSE None
  /\ socket' = "destroyed" /\ fault' = "UNEXPECTED_FRAME"
  /\ UNCHANGED <<active, cleared, mode, rpcBuffer, unconfirmed, registered, close,
                 stream, user, full, stalls, broker>>

(* The network or the broker drops the connection.                         *)
Lose ==
  /\ "loss" \in Allowed /\ socket = "up" /\ Macrotask
  /\ socket' = "destroyed" /\ fault' = "lost"
  /\ outbuf' = <<>> /\ c2s' = <<>> /\ s2c' = <<>>
  /\ UNCHANGED <<chan, close, stream, user, full, stalls, chunk, broker>>

(* The socket's 'close' event: the connection clears its leased channels.  *)
SocketClosed ==
  /\ socket = "destroyed" /\ Macrotask
  /\ socket' = "down"
  /\ IF cleared THEN UNCHANGED <<chan, close, stream, user>> ELSE Clear
  /\ UNCHANGED <<fault, full, stalls, wire, broker>>

-----------------------------------------------------------------------------
(* The broker's side of the channel.  It handles frames in order.          *)

BrokerReads(kinds) ==
  /\ socket = "up" /\ c2s # <<>> /\ Head(c2s).kind \in kinds
  /\ c2s' = Tail(c2s) /\ UNCHANGED outbuf

BrokerHead ==
  /\ bState = "open" /\ BrokerReads({"head"})
  /\ partial' = Head(c2s).op
  /\ UNCHANGED <<chan, close, stream, user, sock, s2c, chunk, bState, bConfirm,
                 served, published, unacked, acked>>

(* In confirm mode every accepted publish takes the next delivery tag.     *)
BrokerServe ==
  LET f == Head(c2s)
  IN /\ bState = "open" /\ BrokerReads({"rpc", "body", "nowait"})
     /\ served' = Append(served, f.op)
     /\ s2c' = IF f.kind = "rpc" THEN Append(s2c, FromBroker("reply", f.op)) ELSE s2c
     /\ bConfirm' = (bConfirm \/ f.op \in Confirms)
     /\ partial' = None
     /\ IF f.kind = "body" /\ bConfirm
          THEN published' = Append(published, f.op) /\ unacked' = unacked \cup {f.op}
          ELSE UNCHANGED <<published, unacked>>
     /\ UNCHANGED <<chan, close, stream, user, sock, chunk, bState, acked>>

BrokerConfirm ==
  \E i \in DOMAIN published, kind \in {"ack", "nack"}, multiple \in BOOLEAN :
    LET hit == Covered(published, i, multiple) \cap unacked
    IN /\ bState = "open" /\ socket = "up" /\ published[i] \in unacked
       /\ s2c' = Append(s2c, Confirmation(kind, i, multiple))
       /\ unacked' = unacked \ hit
       /\ acked' = IF kind = "ack" THEN acked \cup hit ELSE acked
       /\ UNCHANGED <<chan, close, stream, user, sock, outbuf, c2s, chunk, bState, bConfirm,
                      partial, served, published>>

BrokerCloses(op) ==
  /\ s2c' = Append(s2c, FromBroker("close", op))
  /\ bState' = "closing" /\ unacked' = {}
  /\ UNCHANGED <<chan, close, stream, user, sock, chunk, bConfirm, partial, served,
                 published, acked>>

BrokerRefuse ==
  /\ bState = "open" /\ BrokerReads({"rpc", "body", "nowait"})
  /\ Head(c2s).op \in Refusable
  /\ BrokerCloses(Head(c2s).op)

BrokerKick ==
  /\ "kick" \in Allowed /\ bState = "open" /\ socket = "up"
  /\ BrokerCloses(None)
  /\ UNCHANGED <<outbuf, c2s>>

(* A closing channel discards everything but channel.close, which it still *)
(* answers, and the close-ok it waits for.  A channel that a client closed *)
(* is "closed", one that the broker closed "gone" once that was answered.   *)
BrokerOnClose ==
  /\ bState \in {"open", "closing"} /\ BrokerReads({"close"})
  /\ s2c' = Append(s2c, FromBroker("closeOk", None))
  /\ bState' = IF bState = "open" THEN "closed" ELSE bState
  /\ unacked' = {}
  /\ UNCHANGED <<chan, close, stream, user, sock, chunk, bConfirm, partial, served,
                 published, acked>>

BrokerDiscard ==
  /\ bState = "closing" /\ BrokerReads({"rpc", "head", "body", "nowait"})
  /\ UNCHANGED <<chan, close, stream, user, sock, s2c, chunk, broker>>

BrokerOnCloseOk ==
  /\ bState = "closing" /\ BrokerReads({"closeOk"})
  /\ bState' = "gone"
  /\ UNCHANGED <<chan, close, stream, user, sock, s2c, chunk, bConfirm, partial,
                 served, published, unacked, acked>>

(* A frame on a channel that is not open is an error of the connection.    *)
BrokerAbort ==
  /\ bState \in {"closed", "gone"} /\ socket = "up" /\ c2s # <<>> /\ Macrotask
  /\ socket' = "destroyed" /\ fault' = "CHANNEL_ERROR"
  /\ outbuf' = <<>> /\ c2s' = <<>> /\ s2c' = <<>>
  /\ UNCHANGED <<chan, close, stream, user, full, stalls, chunk, broker>>

-----------------------------------------------------------------------------
UserCall ==
  \/ \E op \in Ops : CallClosed(op)
  \/ \E r \in Rpcs : Invoke(r)
  \/ \E n \in Nowaits : InvokeNowait(n)
  \/ \E p \in Pubs : BasicPublish(p)
  \/ Close

EventLoop ==
  \/ WriteFrame \/ FinishWrite \/ FailWrite \/ Drain
  \/ AfterWrite \/ StreamFinish \/ StreamFail \/ CloseImmediate
  \/ ReadChunk \/ OnReply \/ OnCloseOk \/ OnChannelClose \/ OnConfirm
  \/ OnUnexpected \/ SocketClosed

BrokerStep ==
  \/ BrokerHead \/ BrokerServe \/ BrokerRefuse \/ BrokerOnClose \/ BrokerDiscard
  \/ BrokerOnCloseOk \/ BrokerAbort

Environment == Stall \/ Bypass \/ Lose \/ BrokerKick

Next == UserCall \/ EventLoop \/ BrokerStep \/ BrokerConfirm \/ Environment

Spec == Init /\ [][Next]_vars

(* Node's event loop never starves a ready job, and a live broker answers  *)
(* what it reads and confirms what it accepted.  Nothing is assumed of the *)
(* user, of the network, or of the broker's own decisions.                 *)
FairSpec ==
  Spec /\ WF_vars(EventLoop) /\ WF_vars(BrokerStep) /\ WF_vars(BrokerConfirm)

-----------------------------------------------------------------------------
ClientFrames == [kind : {"rpc", "nowait", "head", "body"}, op : Ops]
                  \cup [kind : {"close", "closeOk"}, op : {None}]
BrokerFrames == [kind : {"reply", "close", "closeOk", "ack", "nack"},
                 op : Ops \cup {None}, tag : Nat, multiple : BOOLEAN]

TypeFlags ==
  /\ active \in BOOLEAN /\ cleared \in BOOLEAN /\ full \in BOOLEAN
  /\ bConfirm \in BOOLEAN
TypeChannel ==
  /\ mode \in {"normal", "confirm"}
  /\ rpc \in Rpcs \cup {None, ChannelClose} /\ rpcBuffer \in Seq(Rpcs)
  /\ unconfirmed \in SUBSET Pubs /\ registered \in Seq(Pubs)
TypeClose ==
  /\ closer \in {"idle", "stream", "immediate", "final", "closeOk", "done"}
  /\ final \in Rpcs \cup {None, ChannelClose}
TypeStream ==
  /\ queue \in Seq(Ops) /\ sent \in 0..2 /\ written \in Seq(Pubs)
  /\ phase \in {"open", "ending", "errored", "destroyed", "closed"}
TypeUser ==
  /\ promise \in [Ops -> {"none", "pending", "resolved", "rejected"}]
  /\ calls \in Seq(Ops) /\ confirming \in SUBSET Pubs
TypeSocket ==
  /\ socket \in {"up", "destroyed", "down"}
  /\ fault \in {"none", "lost", "UNEXPECTED_FRAME", "CHANNEL_ERROR"}
  /\ stalls \in 0..MaxStalls
TypeWire ==
  /\ outbuf \in Seq(ClientFrames) /\ c2s \in Seq(ClientFrames)
  /\ s2c \in Seq(BrokerFrames) /\ chunk \in Seq(BrokerFrames)
TypeBroker ==
  /\ bState \in {"open", "closing", "closed", "gone"}
  /\ partial \in Ops \cup {None} /\ served \in Seq(Ops) /\ published \in Seq(Ops)
  /\ unacked \in SUBSET Ops /\ acked \in SUBSET Ops

(* The type of every variable.                                             *)
TypeOK ==
  /\ TypeFlags /\ TypeChannel /\ TypeClose /\ TypeStream /\ TypeUser
  /\ TypeSocket /\ TypeWire /\ TypeBroker

-----------------------------------------------------------------------------
(* Safety.                                                                 *)

(* AMQP has no RPC pipelining (the comment above _invoke): while the id is *)
(* leased at most one request, counting channel.close, is on its way or    *)
(* waits for its answer to be handled, wherever it or its answer is.       *)
Request == {"rpc", "close"}
Answer == {"reply", "closeOk"}
Has(s, kinds) == \E i \in DOMAIN s : s[i].kind \in kinds
AtMostOne(s, kinds) ==
  \A i, j \in DOMAIN s : s[i].kind \in kinds /\ s[j].kind \in kinds => i = j

OneInFlight ==
  /\ AtMostOne(outbuf, Request) /\ AtMostOne(c2s, Request)
  /\ AtMostOne(s2c, Answer) /\ AtMostOne(chunk, Answer)
  /\ Has(c2s, Request) => ~Has(outbuf, Request)
  /\ Has(s2c, Answer) => ~Has(outbuf, Request) /\ ~Has(c2s, Request)
  /\ Has(chunk, Answer) =>
       ~Has(outbuf, Request) /\ ~Has(c2s, Request) /\ ~Has(s2c, Answer)

Leased == socket = "up" /\ ~cleared
NoPipelining == Leased => OneInFlight

(* Nothing comes between the frames of one publish (the comment on         *)
(* _state.stream): neither another write of the stream, nor a close or a   *)
(* close-ok, which _writeMethod puts on the socket directly.               *)
ContentContiguous ==
  /\ bState = "open" /\ c2s # <<>> =>
       (partial # None <=> Head(c2s).kind = "body")
  /\ bState = "open" /\ partial # None /\ c2s # <<>> => Head(c2s).op = partial

(* The n-th publish the client counts (deliveryCount) is the n-th one the  *)
(* broker counts, however late the write callback that counts it runs.     *)
TagsAgree == \A i \in DOMAIN registered \cap DOMAIN published :
               registered[i] = published[i]

(* A request resolves only if the broker executed it: no reply is ever     *)
(* taken for the answer to another request.                                *)
NoFalseReply == \A r \in Rpcs : promise[r] = "resolved" => r \in Elems(served)

(* A publish in confirm mode resolves only if the broker acknowledged      *)
(* exactly this publish.                                                   *)
NoFalseAck == \A p \in confirming : promise[p] = "resolved" => p \in acked

(* A call accepted by a channel that is still open fails only because the  *)
(* broker nacked exactly this publish.                                     *)
NoFalseFailure ==
  active => \A op \in Elems(calls) : promise[op] = "rejected" =>
              op \in Elems(published) \ (unacked \cup acked)

(* In confirm mode each publish has its own outcome, with single and       *)
(* multiple acks and nacks, and with publishes before confirm.select.      *)
OwnConfirm == TagsAgree /\ NoFalseAck /\ NoFalseFailure

(* Requests wait for each other, publishes and no-wait methods follow each *)
(* other.  (A publish may overtake a request that waits in rpcBuffer.)     *)
SameLine(a, b) == a \in Rpcs <=> b \in Rpcs
Earlier ==
  {c \in Elems(calls) \X Elems(calls) :
     \E i, j \in DOMAIN calls : i < j /\ c = <<calls[i], calls[j]>>}

(* The order of calls puts those of A ahead of those of B.                 *)
Ahead(A, B, order) == \A a \in A, b \in B : SameLine(a, b) => <<a, b>> \in order
Ordered(s, order) ==
  \A i, j \in DOMAIN s : i < j /\ SameLine(s[i], s[j]) => <<s[i], s[j]>> \in order

(* The broker executes only what was called, each call once and after all  *)
(* the earlier calls of its line: none is overtaken and none is skipped.   *)
NoneSkipped(S, order) == \A c \in order : SameLine(c[1], c[2]) /\ c[2] \in S => c[1] \in S
InCallOrder ==
  /\ Elems(served) \subseteq Elems(calls)
  /\ Ordered(served, Earlier) /\ NoneSkipped(Elems(served), Earlier)

(* What the stream of a channel promises, whenever it stalls, fails or is  *)
(* ended by a close: calls reach the broker whole and in their order.      *)
StreamOrder == ContentContiguous /\ InCallOrder

(* Every pending call is held where a later step settles it: the rpc slot, *)
(* the buffer behind it, the stream, a write callback or unconfirmed.  (A  *)
(* close() that took the request in flight has it, see the README.)        *)
Held == ({rpc} \cup Elems(rpcBuffer) \cup unconfirmed \cup Elems(written)
         \cup (Elems(queue) \cap Pubs)) \cap Ops
NoCallDropped ==
  socket = "up" =>
    \A op \in Ops :
      promise[op] = "pending" => op \in Held \/ (closer = "final" /\ op = final)

(* No lost wake-up: on an open channel a request waits in rpcBuffer only   *)
(* behind a request whose answer will start it.                            *)
BufferBehindRpc ==
  socket = "up" /\ active /\ phase = "open" /\ rpcBuffer # <<>> => rpc # None

(* Once _clear has run the channel holds none of the user's calls.  (Except*)
(* a publish whose write callback makes it wait for an ack that cannot     *)
(* come, see the README: Confirms must be empty for this one.)             *)
ReleasedHoldsNothing ==
  cleared => rpc \notin Rpcs /\ rpcBuffer = <<>> /\ unconfirmed = {} /\ ~active

(* The books of calls: none is lost from them while the connection is up,  *)
(* none stays there when the channel is gone.                              *)
CallsAccounted == NoCallDropped /\ ReleasedHoldsNothing

(* A settled call is never settled again: no two handlers own one promise. *)
SettledOnce ==
  [][\A op \in Ops : promise[op] \in {"resolved", "rejected"} =>
        promise'[op] = promise[op]]_vars

(* Trouble on one channel never costs the connection: neither side sees a  *)
(* frame it cannot place.                                                  *)
ChannelErrorContained == fault \in {"none", "lost"}

(* That fails only over a close() of the client which has come to its      *)
(* channel.close and crossed a close of the broker, or has taken the       *)
(* request in flight: whatever the broker refuses, whichever calls cannot  *)
(* be encoded, and whatever else the close() that follows meets.           *)
ClosedByBroker == bState \in {"closing", "gone"}
CloseCrossed ==
  closer \in {"final", "closeOk", "done"} /\ (ClosedByBroker \/ final # None)
ErrorContained == ChannelErrorContained \/ CloseCrossed

-----------------------------------------------------------------------------
(* Slot, buffer, stream, wire and broker together are a queue of requests: *)
(* answered in the order of the calls, and failing together when the       *)
(* channel ends, whatever the order of frames, callbacks and faults.       *)
Queue == INSTANCE RpcQueue WITH
  Requests <- Rpcs,
  waiting  <- (IF rpc \in Rpcs THEN <<rpc>> ELSE <<>>) \o rpcBuffer,
  outcome  <- [r \in Rpcs |-> promise[r]],
  open     <- active
ImplementsQueue == Queue!Spec

-----------------------------------------------------------------------------
(* The inductive invariant behind NoPipelining and NoFalseReply.           *)

Quiet == /\ ~Has(outbuf, Request) /\ ~Has(c2s, Request)
         /\ ~Has(s2c, Answer) /\ ~Has(chunk, Answer)

(* The i-th pending write is a request of which nothing is written yet.    *)
Unsent(i) == i \in DOMAIN queue /\ queue[i] \in Rpcs /\ (i > 1 \/ sent = 0)

OnlyFor(op, s, kinds) == \A i \in DOMAIN s : s[i].kind \in kinds => s[i].op = op

(* What is on the wire is the call in the slot.                            *)
OnWireOnly(op) ==
  /\ OnlyFor(op, outbuf, Request) /\ OnlyFor(op, c2s, Request)
  /\ OnlyFor(op, s2c, Answer) /\ OnlyFor(op, chunk, Answer)
SlotOnWire == rpc \in Rpcs => OnWireOnly(rpc)

(* A request waits in the stream only while nothing is on the wire, alone, *)
(* and it is the call in the slot.                                         *)
SlotInStream ==
  \A i \in DOMAIN queue : Unsent(i) =>
    /\ Quiet
    /\ rpc \in Rpcs => queue[i] = rpc
    /\ \A j \in DOMAIN queue : Unsent(j) => i = j

(* An empty slot means neither, unless a close() took the call out of it.  *)
SlotEmpty ==
  rpc = None /\ closer # "final" => Quiet /\ \A i \in DOMAIN queue : ~Unsent(i)

SlotInv == Leased => OneInFlight /\ SlotOnWire /\ SlotInStream /\ SlotEmpty

RepliesServed ==
  \A f \in Elems(s2c) \cup Elems(chunk) : f.kind = "reply" => f.op \in Elems(served)

(* How far the close, the stream and the socket can be apart.              *)
Shape ==
  /\ chunk # <<>> => socket = "up"
  /\ phase = "errored" => sent = 0
  /\ phase = "destroyed" => cleared
  /\ closer # "idle" => ~active
  /\ phase = "ending" => closer = "stream"
  /\ phase = "open" /\ ~active => closer = "stream"
  /\ phase = "closed" => queue = <<>> /\ ~active

(* The strengthening of NoPipelining and NoFalseReply that every step      *)
(* preserves.                                                              *)
ServiceInv == SlotInv /\ RepliesServed /\ Shape

(* The inductive invariant: requests go to the broker one at a time        *)
(* (SlotInv has NoPipelining), each is answered by its own reply, and none *)
(* is stranded in the buffer.                                              *)
Service == TypeOK /\ ServiceInv /\ BufferBehindRpc /\ NoFalseReply

-----------------------------------------------------------------------------
(* Liveness.                                                               *)

(* Every call eventually settles: none is pending for ever.                *)
EveryCallSettles == \A op \in Ops : []<>(promise[op] # "pending")

(* Every close() eventually returns.                                       *)
CloseReturns == closer # "idle" ~> closer = "done"

(* It does if the connection stays up, whatever else happens to the stream *)
(* and to the requests in flight (the awaits at Channel.ts 170 and 185).   *)
CloseReturnsIfUp == []<>(closer \in {"idle", "done"} \/ socket # "up")
=============================================================================

---------------------------- MODULE ChannelProofs ----------------------------
(***************************************************************************)
(* Types, one request at a time with no reply for another request, how far *)
(* the errors of a channel reach, and the order in which its calls reach   *)
(* the broker: the proofs of TypeOK, NoPipelining, NoFalseReply,           *)
(* BufferBehindRpc, ErrorContained and StreamOrder for every set of calls, *)
(* every broker and every environment the constants allow.                 *)
(*                                                                         *)
(* ServiceInv says where requests and answers can be.  Its sequences are   *)
(* only looked at through Has, AtMostOne and OnlyFor; the lemmas before it *)
(* say what appending, consuming, joining and splitting do to those three. *)
(***************************************************************************)
EXTENDS Channel, TLAPS

USE DEF Ops

(* Taking the first n elements off a sequence leaves two sequences.        *)
LEMMA SplitSeq ==
  ASSUME NEW S, NEW s \in Seq(S), NEW n \in 1..Len(s)
  PROVE  SubSeq(s, 1, n) \in Seq(S) /\ SubSeq(s, n + 1, Len(s)) \in Seq(S)
OBVIOUS

(* The first element of a sequence and the others.                         *)
LEMMA HeadTail ==
  ASSUME NEW S, NEW s \in Seq(S), s # <<>>
  PROVE  Head(s) \in S /\ Tail(s) \in Seq(S)
OBVIOUS

(* Frames that carry a call.                                               *)
LEMMA CallFrame ==
  ASSUME NEW f \in ClientFrames, f.kind \in {"rpc", "head", "body", "nowait"}
  PROVE  f.op \in Ops
BY DEF ClientFrames

(* Settle keeps the type of the promises.                                  *)
LEMMA SettleType ==
  ASSUME TypeUser, NEW S, NEW how \in {"pending", "resolved", "rejected"}, Settle(S, how)
  PROVE  promise' \in [Ops -> {"none", "pending", "resolved", "rejected"}]
BY DEF TypeUser, Settle

(* Send keeps the type of the two queues towards the broker.               *)
LEMMA SendType ==
  ASSUME TypeWire, NEW f \in ClientFrames, NEW isFull \in BOOLEAN, Send(f, isFull)
  PROVE  outbuf' \in Seq(ClientFrames) /\ c2s' \in Seq(ClientFrames)
BY DEF TypeWire, Send

(* The frames the client sends.                                            *)
LEMMA CloseFrames ==
  Frame("close", None) \in ClientFrames /\ Frame("closeOk", None) \in ClientFrames
BY DEF Frame, ClientFrames

(* The next frame of a call is one of the frames a client sends.           *)
LEMMA NextFrameType ==
  ASSUME ChannelAssumption, NEW op \in Ops, NEW n \in Nat
  PROVE  NextFrame(op, n) \in ClientFrames
BY DEF NextFrame, Frame, ClientFrames, ChannelAssumption

(* Whatever a close() resumes with, its steps keep the types.              *)
LEMMA ResumeCloseType ==
  ASSUME TypeOK, NEW slot \in Rpcs \cup {None, ChannelClose}, ResumeClose(slot)
  PROVE  /\ rpc' \in Rpcs \cup {None, ChannelClose} /\ TypeClose'
         /\ outbuf' \in Seq(ClientFrames) /\ c2s' \in Seq(ClientFrames)
<1>1. CASE slot # None
  BY <1>1 DEF ResumeClose, TypeOK, TypeClose, TypeWire
<1>2. CASE slot = None
  <2>1. Send(Frame("close", None), full) /\ rpc' = ChannelClose /\ TypeClose'
    BY <1>2 DEF ResumeClose, TypeOK, TypeClose
  <2> QED BY <2>1, SendType, CloseFrames DEF TypeOK, TypeFlags
<1> QED BY <1>1, <1>2

(* _clear keeps the types.                                                 *)
LEMMA ClearType ==
  ASSUME TypeOK, Clear
  PROVE  /\ active' \in BOOLEAN /\ cleared' \in BOOLEAN
         /\ TypeChannel' /\ TypeClose' /\ TypeStream' /\ TypeUser'
<1>1. active' \in BOOLEAN /\ cleared' \in BOOLEAN
  BY DEF Clear
<1>2. TypeChannel'
  BY DEF TypeOK, TypeChannel, Clear, EmptyAll
<1>3. TypeClose'
  BY DEF TypeOK, TypeClose, Clear
<1>4. TypeStream'
  BY DEF TypeOK, TypeStream, Clear, StreamAfterClear
<1>5. TypeUser'
  BY SettleType DEF TypeOK, TypeUser, Clear
<1> QED BY <1>1, <1>2, <1>3, <1>4, <1>5

(* Every step keeps the types: one case for each action, and in it one     *)
(* step for each group of variables the action changes.                    *)
LEMMA TypeStep == ASSUME ChannelAssumption, TypeOK, [Next]_vars PROVE TypeOK'
<1>1. CASE UNCHANGED vars
  BY <1>1 DEF TypeOK, TypeFlags, TypeChannel, TypeClose, TypeStream, TypeUser, TypeSocket,
     TypeWire, TypeBroker, vars, chan, close, stream, user, sock, wire, broker
<1>2. ASSUME NEW op \in Ops, CallClosed(op) PROVE TypeOK'
  <2>1. TypeUser'
    BY <1>2, SettleType DEF CallClosed, TypeOK, TypeUser
  <2>2. TypeFlags' /\ TypeChannel' /\ TypeClose' /\ TypeStream' /\ TypeSocket' /\
     TypeWire' /\ TypeBroker'
    BY <1>2 DEF CallClosed, TypeOK, TypeFlags, TypeChannel, TypeClose, TypeStream,
       TypeSocket, TypeWire, TypeBroker, chan, sock, broker, close, stream, wire
  <2> QED BY <2>1, <2>2 DEF TypeOK
<1>3. ASSUME NEW r \in Rpcs, Invoke(r) PROVE TypeOK'
  <2>1. TypeChannel'
    <3>1. \/ rpcBuffer' = Append(rpcBuffer, r) /\ UNCHANGED rpc
          \/ rpc' = r /\ UNCHANGED rpcBuffer
      BY <1>3 DEF Invoke, Push
    <3>2. rpc' \in Rpcs \cup {None, ChannelClose} /\ rpcBuffer' \in Seq(Rpcs)
      BY <3>1 DEF TypeOK, TypeChannel
    <3> QED BY <1>3, <3>2 DEF Invoke, TypeOK, TypeChannel
  <2>2. TypeStream'
    BY <1>3 DEF Invoke, Call, TypeOK, TypeStream
  <2>3. TypeUser'
    BY <1>3, SettleType DEF Invoke, Call, TypeOK, TypeUser
  <2>4. TypeFlags' /\ TypeClose' /\ TypeSocket' /\ TypeWire' /\ TypeBroker'
    BY <1>3 DEF Invoke, Call, TypeOK, TypeFlags, TypeClose, TypeSocket, TypeWire,
       TypeBroker, chan, sock, broker, close, wire
  <2> QED BY <2>1, <2>2, <2>3, <2>4 DEF TypeOK
<1>4. ASSUME NEW m \in Nowaits, InvokeNowait(m) PROVE TypeOK'
  <2>1. TypeStream'
    BY <1>4 DEF InvokeNowait, Call, TypeOK, TypeStream
  <2>2. TypeUser'
    BY <1>4, SettleType DEF InvokeNowait, Call, TypeOK, TypeUser
  <2>3. TypeFlags' /\ TypeChannel' /\ TypeClose' /\ TypeSocket' /\ TypeWire' /\
     TypeBroker'
    BY <1>4 DEF InvokeNowait, Call, TypeOK, TypeFlags, TypeChannel, TypeClose,
       TypeSocket, TypeWire, TypeBroker, chan, sock, broker, close, wire
  <2> QED BY <2>1, <2>2, <2>3 DEF TypeOK
<1>5. ASSUME NEW p \in Pubs, BasicPublish(p) PROVE TypeOK'
  <2>1. TypeStream'
    BY <1>5 DEF BasicPublish, Call, TypeOK, TypeStream
  <2>2. TypeUser'
    BY <1>5, SettleType DEF BasicPublish, Call, TypeOK, TypeUser
  <2>3. TypeFlags' /\ TypeChannel' /\ TypeClose' /\ TypeSocket' /\ TypeWire' /\
     TypeBroker'
    BY <1>5 DEF BasicPublish, Call, TypeOK, TypeFlags, TypeChannel, TypeClose,
       TypeSocket, TypeWire, TypeBroker, chan, sock, broker, close, wire
  <2> QED BY <2>1, <2>2, <2>3 DEF TypeOK
<1>6. CASE Close
  <2>1. TypeFlags'
    BY <1>6 DEF Close, StartClose, TypeOK, TypeFlags, chan, sock, broker
  <2>2. TypeClose'
    BY <1>6 DEF Close, StartClose, TypeOK, TypeClose
  <2>3. TypeStream'
    BY <1>6 DEF Close, StartClose, TypeOK, TypeStream
  <2>4. TypeChannel' /\ TypeUser' /\ TypeSocket' /\ TypeWire' /\ TypeBroker'
    BY <1>6 DEF Close, StartClose, TypeOK, TypeChannel, TypeUser, TypeSocket, TypeWire,
       TypeBroker, chan, user, sock, wire, broker
  <2> QED BY <2>1, <2>2, <2>3, <2>4 DEF TypeOK
<1>7. CASE WriteFrame
  <2>1. TypeFlags'
    BY <1>7 DEF WriteFrame, StreamBusy, TypeOK, TypeFlags, chan, sock, broker
  <2>2. TypeStream'
    BY <1>7, ChannelAssumption DEF WriteFrame, StreamBusy, TypeOK, TypeStream,
       FrameCount
  <2>3. TypeSocket'
    BY <1>7 DEF WriteFrame, StreamBusy, TypeOK, TypeSocket
  <2>4. TypeWire'
    <3>1. Head(queue) \in Ops /\ sent \in Nat
      BY <1>7 DEF WriteFrame, StreamBusy, TypeOK, TypeStream
    <3>2. full' \in BOOLEAN
      BY <1>7 DEF WriteFrame, TypeOK, TypeFlags
    <3>3. Send(NextFrame(Head(queue), sent), full')
      BY <1>7 DEF WriteFrame
    <3>4. outbuf' \in Seq(ClientFrames) /\ c2s' \in Seq(ClientFrames)
      BY <3>1, <3>2, <3>3, SendType, NextFrameType DEF TypeOK
    <3> QED BY <1>7, <3>4 DEF WriteFrame, TypeOK, TypeWire
  <2>5. TypeChannel' /\ TypeClose' /\ TypeUser' /\ TypeBroker'
    BY <1>7 DEF WriteFrame, StreamBusy, TypeOK, TypeChannel, TypeClose, TypeUser,
       TypeBroker, chan, close, user, broker
  <2> QED BY <2>1, <2>2, <2>3, <2>4, <2>5 DEF TypeOK
<1>8. CASE FinishWrite
  <2>1. TypeStream'
    BY <1>8 DEF FinishWrite, StreamBusy, TypeOK, TypeStream, CallsBack
  <2>2. TypeFlags' /\ TypeChannel' /\ TypeClose' /\ TypeUser' /\ TypeSocket' /\
     TypeWire' /\ TypeBroker'
    BY <1>8 DEF FinishWrite, StreamBusy, TypeOK, TypeFlags, TypeChannel, TypeClose,
       TypeUser, TypeSocket, TypeWire, TypeBroker, chan, sock, broker, close, user, wire
  <2> QED BY <2>1, <2>2 DEF TypeOK
<1>9. CASE FailWrite
  <2>1. TypeStream'
    BY <1>9 DEF FailWrite, TypeOK, TypeStream
  <2>2. TypeFlags' /\ TypeChannel' /\ TypeClose' /\ TypeUser' /\ TypeSocket' /\
     TypeWire' /\ TypeBroker'
    BY <1>9 DEF FailWrite, TypeOK, TypeFlags, TypeChannel, TypeClose, TypeUser,
       TypeSocket, TypeWire, TypeBroker, chan, sock, broker, close, user, wire
  <2> QED BY <2>1, <2>2 DEF TypeOK
<1>10. CASE Drain
  <2>1. TypeFlags'
    BY <1>10 DEF Drain, TypeOK, TypeFlags, chan, sock, broker
  <2>2. TypeWire'
    BY <1>10 DEF Drain, TypeOK, TypeWire
  <2>3. TypeChannel' /\ TypeClose' /\ TypeStream' /\ TypeUser' /\ TypeSocket' /\
     TypeBroker'
    BY <1>10 DEF Drain, TypeOK, TypeChannel, TypeClose, TypeStream, TypeUser,
       TypeSocket, TypeBroker, chan, close, stream, user, sock, broker
  <2> QED BY <2>1, <2>2, <2>3 DEF TypeOK
<1>11. CASE AfterWrite
  <2>1. TypeChannel'
    <3> DEFINE p == Head(written)
    <3>1. p \in Pubs
      BY <1>11, HeadTail DEF AfterWrite, TypeOK, TypeStream
    <3>2. CASE p \in confirming
      <4>1. registered' = Append(registered, p) /\ unconfirmed' = unconfirmed \cup {p}
        BY <1>11, <3>2 DEF AfterWrite
      <4>2. registered' \in Seq(Pubs) /\ unconfirmed' \in SUBSET Pubs
        BY <4>1, <3>1 DEF TypeOK, TypeChannel
      <4> QED BY <1>11, <4>2 DEF AfterWrite, TypeOK, TypeChannel
    <3>3. CASE p \notin confirming
      BY <1>11, <3>3 DEF AfterWrite, TypeOK, TypeChannel
    <3> QED BY <3>2, <3>3
  <2>2. TypeStream'
    BY <1>11 DEF AfterWrite, TypeOK, TypeStream
  <2>3. TypeUser'
    BY <1>11, SettleType DEF AfterWrite, TypeOK, TypeUser
  <2>4. TypeFlags' /\ TypeClose' /\ TypeSocket' /\ TypeWire' /\ TypeBroker'
    BY <1>11 DEF AfterWrite, TypeOK, TypeFlags, TypeClose, TypeSocket, TypeWire,
       TypeBroker, chan, sock, broker, close, wire
  <2> QED BY <2>1, <2>2, <2>3, <2>4 DEF TypeOK
<1>12. CASE StreamFinish
  <2>1. TypeChannel'
    BY <1>12, ResumeCloseType DEF StreamFinish, TypeOK, TypeChannel
  <2>2. TypeClose'
    BY <1>12, ResumeCloseType DEF StreamFinish, TypeOK, TypeClose, TypeChannel
  <2>3. TypeStream'
    BY <1>12 DEF StreamFinish, TypeOK, TypeStream
  <2>4. TypeWire'
    BY <1>12, ResumeCloseType DEF StreamFinish, TypeOK, TypeWire, TypeChannel
  <2>5. TypeFlags' /\ TypeUser' /\ TypeSocket' /\ TypeBroker'
    BY <1>12 DEF StreamFinish, TypeOK, TypeFlags, TypeUser, TypeSocket, TypeBroker,
       chan, sock, broker, user
  <2> QED BY <2>1, <2>2, <2>3, <2>4, <2>5 DEF TypeOK
<1>13. CASE StreamFail
  <2>1. TypeFlags'
    BY <1>13 DEF StreamFail, TypeOK, TypeFlags, chan, sock, broker
  <2>2. TypeChannel'
    BY <1>13, ResumeCloseType DEF StreamFail, TypeOK, TypeChannel
  <2>3. TypeClose'
    BY <1>13, ResumeCloseType DEF StreamFail, TypeOK, TypeClose, TypeChannel,
       CloserAfterError
  <2>4. TypeStream'
    BY <1>13 DEF StreamFail, TypeOK, TypeStream
  <2>5. TypeUser'
    BY <1>13, SettleType DEF StreamFail, TypeOK, TypeUser
  <2>6. TypeWire'
    BY <1>13, ResumeCloseType DEF StreamFail, TypeOK, TypeWire, TypeChannel
  <2>7. TypeSocket' /\ TypeBroker'
    BY <1>13 DEF StreamFail, TypeOK, TypeSocket, TypeBroker, sock, broker
  <2> QED BY <2>1, <2>2, <2>3, <2>4, <2>5, <2>6, <2>7 DEF TypeOK
<1>14. CASE CloseImmediate
  <2>1. TypeChannel'
    BY <1>14, ResumeCloseType DEF CloseImmediate, TypeOK, TypeChannel
  <2>2. TypeClose'
    BY <1>14, ResumeCloseType DEF CloseImmediate, TypeOK, TypeClose, TypeChannel
  <2>3. TypeWire'
    BY <1>14, ResumeCloseType DEF CloseImmediate, TypeOK, TypeWire, TypeChannel
  <2>4. TypeFlags' /\ TypeStream' /\ TypeUser' /\ TypeSocket' /\ TypeBroker'
    BY <1>14 DEF CloseImmediate, TypeOK, TypeFlags, TypeStream, TypeUser, TypeSocket,
       TypeBroker, chan, sock, broker, stream, user
  <2> QED BY <2>1, <2>2, <2>3, <2>4 DEF TypeOK
<1>15. CASE ReadChunk
  <2>1. TypeWire'
    BY <1>15, SplitSeq DEF ReadChunk, TypeOK, TypeWire
  <2>2. TypeFlags' /\ TypeChannel' /\ TypeClose' /\ TypeStream' /\ TypeUser' /\
     TypeSocket' /\ TypeBroker'
    BY <1>15 DEF ReadChunk, TypeOK, TypeFlags, TypeChannel, TypeClose, TypeStream,
       TypeUser, TypeSocket, TypeBroker, chan, sock, broker, close, stream, user
  <2> QED BY <2>1, <2>2 DEF TypeOK
<1>16. CASE OnReply
  <2>1. TypeChannel'
    <3>1. mode' \in {"normal", "confirm"}
      BY <1>16 DEF OnReply, TypeOK, TypeChannel
    <3>2. unconfirmed' \in SUBSET Pubs /\ registered' \in Seq(Pubs)
      BY <1>16 DEF OnReply, TypeOK, TypeChannel
    <3>3. \/ rpcBuffer # <<>> /\ rpc' = Head(rpcBuffer) /\ rpcBuffer' = Tail(rpcBuffer)
          \/ rpc' = None /\ UNCHANGED rpcBuffer
      BY <1>16 DEF OnReply, StartsNext
    <3>4. rpcBuffer \in Seq(Rpcs)
      BY DEF TypeOK, TypeChannel
    <3>5. rpc' \in Rpcs \cup {None}
      BY <3>3, <3>4, HeadTail
    <3>6. rpcBuffer' \in Seq(Rpcs)
      BY <3>3, <3>4, HeadTail
    <3> QED BY <3>1, <3>2, <3>5, <3>6 DEF TypeChannel
  <2>2. TypeStream'
    <3>1. CASE StartsNext
      <4>1. Head(rpcBuffer) \in Ops
        BY <3>1, HeadTail DEF StartsNext, TypeOK, TypeChannel
      <4> QED BY <1>16, <3>1, <4>1 DEF OnReply, TypeOK, TypeStream
    <3>2. CASE ~StartsNext
      BY <1>16, <3>2 DEF OnReply, TypeOK, TypeStream
    <3> QED BY <3>1, <3>2
  <2>3. TypeUser'
    BY <1>16, SettleType DEF OnReply, StartsNext, TypeOK, TypeUser
  <2>4. TypeWire'
    BY <1>16 DEF OnReply, StartsNext, TypeOK, TypeWire, Receive
  <2>5. TypeFlags' /\ TypeClose' /\ TypeSocket' /\ TypeBroker'
    BY <1>16 DEF OnReply, StartsNext, TypeOK, TypeFlags, TypeClose, TypeSocket,
       TypeBroker, chan, sock, broker, close
  <2> QED BY <2>1, <2>2, <2>3, <2>4, <2>5 DEF TypeOK
<1>17. CASE OnCloseOk
  <2>1. TypeFlags'
    BY <1>17, ClearType DEF OnCloseOk, TypeOK, TypeFlags, Receive, sock, broker
  <2>2. TypeChannel'
    BY <1>17, ClearType DEF OnCloseOk, TypeOK, TypeChannel
  <2>3. TypeClose'
    BY <1>17, ClearType DEF OnCloseOk, TypeOK, TypeClose
  <2>4. TypeStream'
    BY <1>17, ClearType DEF OnCloseOk, TypeOK, TypeStream
  <2>5. TypeUser'
    BY <1>17, ClearType DEF OnCloseOk, TypeOK, TypeUser
  <2>6. TypeWire'
    BY <1>17 DEF OnCloseOk, TypeOK, TypeWire, Receive
  <2>7. TypeSocket' /\ TypeBroker'
    BY <1>17 DEF OnCloseOk, TypeOK, TypeSocket, TypeBroker, sock, broker
  <2> QED BY <2>1, <2>2, <2>3, <2>4, <2>5, <2>6, <2>7 DEF TypeOK
<1>18. CASE OnChannelClose
  <2>1. TypeFlags'
    BY <1>18, ClearType DEF OnChannelClose, TypeOK, TypeFlags, Receive, sock, broker
  <2>2. TypeChannel'
    BY <1>18, ClearType DEF OnChannelClose, TypeOK, TypeChannel
  <2>3. TypeClose'
    BY <1>18, ClearType DEF OnChannelClose, TypeOK, TypeClose
  <2>4. TypeStream'
    BY <1>18, ClearType DEF OnChannelClose, TypeOK, TypeStream
  <2>5. TypeUser'
    BY <1>18, ClearType DEF OnChannelClose, TypeOK, TypeUser
  <2>6. TypeWire'
    BY <1>18, SendType, CloseFrames DEF OnChannelClose, TypeOK, TypeWire, Receive,
       TypeFlags
  <2>7. TypeSocket' /\ TypeBroker'
    BY <1>18 DEF OnChannelClose, TypeOK, TypeSocket, TypeBroker, sock, broker
  <2> QED BY <2>1, <2>2, <2>3, <2>4, <2>5, <2>6, <2>7 DEF TypeOK
<1>19. CASE OnConfirm
  <2>1. TypeChannel'
    BY <1>19 DEF OnConfirm, TypeOK, TypeChannel, Hit
  <2>2. TypeUser'
    BY <1>19, SettleType DEF OnConfirm, TypeOK, TypeUser
  <2>3. TypeWire'
    BY <1>19 DEF OnConfirm, TypeOK, TypeWire, Receive
  <2>4. TypeFlags' /\ TypeClose' /\ TypeStream' /\ TypeSocket' /\ TypeBroker'
    BY <1>19 DEF OnConfirm, TypeOK, TypeFlags, TypeClose, TypeStream, TypeSocket,
       TypeBroker, chan, sock, broker, close, stream
  <2> QED BY <2>1, <2>2, <2>3, <2>4 DEF TypeOK
<1>20. CASE OnUnexpected
  <2>1. TypeChannel'
    BY <1>20 DEF OnUnexpected, TypeOK, TypeChannel
  <2>2. TypeSocket'
    BY <1>20 DEF OnUnexpected, TypeOK, TypeSocket
  <2>3. TypeWire'
    BY <1>20 DEF OnUnexpected, TypeOK, TypeWire
  <2>4. TypeFlags' /\ TypeClose' /\ TypeStream' /\ TypeUser' /\ TypeBroker'
    BY <1>20 DEF OnUnexpected, TypeOK, TypeFlags, TypeClose, TypeStream, TypeUser,
       TypeBroker, chan, sock, broker, close, stream, user
  <2> QED BY <2>1, <2>2, <2>3, <2>4 DEF TypeOK
<1>21. CASE SocketClosed
  <2>1. TypeFlags'
    BY <1>21, ClearType DEF SocketClosed, TypeOK, TypeFlags, chan, broker
  <2>2. TypeChannel'
    BY <1>21, ClearType DEF SocketClosed, TypeOK, TypeChannel, chan
  <2>3. TypeClose'
    BY <1>21, ClearType DEF SocketClosed, TypeOK, TypeClose, close
  <2>4. TypeStream'
    BY <1>21, ClearType DEF SocketClosed, TypeOK, TypeStream, stream
  <2>5. TypeUser'
    BY <1>21, ClearType DEF SocketClosed, TypeOK, TypeUser, user
  <2>6. TypeSocket'
    BY <1>21 DEF SocketClosed, TypeOK, TypeSocket
  <2>7. TypeWire' /\ TypeBroker'
    BY <1>21 DEF SocketClosed, TypeOK, TypeWire, TypeBroker, wire, broker
  <2> QED BY <2>1, <2>2, <2>3, <2>4, <2>5, <2>6, <2>7 DEF TypeOK
<1>22. CASE BrokerHead
  <2>1. TypeWire'
    BY <1>22 DEF BrokerHead, BrokerReads, TypeOK, TypeWire
  <2>2. TypeBroker'
    BY <1>22 DEF BrokerHead, BrokerReads, TypeOK, TypeBroker, TypeWire, ClientFrames
  <2>3. TypeFlags' /\ TypeChannel' /\ TypeClose' /\ TypeStream' /\ TypeUser' /\
     TypeSocket'
    BY <1>22 DEF BrokerHead, BrokerReads, TypeOK, TypeFlags, TypeChannel, TypeClose,
       TypeStream, TypeUser, TypeSocket, chan, sock, broker, close, stream, user
  <2> QED BY <2>1, <2>2, <2>3 DEF TypeOK
<1>23. CASE BrokerServe
  <2>1. TypeFlags'
    BY <1>23 DEF BrokerServe, TypeOK, TypeFlags, chan, sock
  <2>2. TypeWire'
    <3> DEFINE f == Head(c2s)
    <3>1. f.op \in Ops
      BY <1>23, CallFrame, HeadTail DEF BrokerServe, BrokerReads, TypeOK, TypeWire
    <3>2. FromBroker("reply", f.op) \in BrokerFrames
      BY <3>1 DEF FromBroker, BrokerFrames
    <3>3. s2c' \in Seq(BrokerFrames)
      BY <1>23, <3>2 DEF BrokerServe, TypeOK, TypeWire
    <3> QED BY <1>23, <3>3 DEF BrokerServe, BrokerReads, TypeOK, TypeWire
  <2>3. TypeBroker'
    <3> DEFINE f == Head(c2s)
    <3>1. f.op \in Ops
      BY <1>23, CallFrame, HeadTail DEF BrokerServe, BrokerReads, TypeOK, TypeWire
    <3>2. served' \in Seq(Ops) /\ bState' \in {"open", "closing", "closed", "gone"}
      BY <1>23, <3>1 DEF BrokerServe, TypeOK, TypeBroker
    <3>3. partial' \in Ops \cup {None} /\ acked' \in SUBSET Ops
      BY <1>23 DEF BrokerServe, TypeOK, TypeBroker
    <3>4. \/ published' = Append(published, f.op) /\ unacked' = unacked \cup {f.op}
          \/ UNCHANGED <<published, unacked>>
      BY <1>23 DEF BrokerServe
    <3>5. published \in Seq(Ops) /\ unacked \in SUBSET Ops
      BY DEF TypeOK, TypeBroker
    <3>6. published' \in Seq(Ops)
      BY <3>1, <3>4, <3>5
    <3>7. unacked' \in SUBSET Ops
      BY <3>1, <3>4, <3>5
    <3> QED BY <3>2, <3>3, <3>6, <3>7 DEF TypeBroker
  <2>4. TypeChannel' /\ TypeClose' /\ TypeStream' /\ TypeUser' /\ TypeSocket'
    BY <1>23 DEF BrokerServe, TypeOK, TypeChannel, TypeClose, TypeStream, TypeUser,
       TypeSocket, chan, close, stream, user, sock
  <2> QED BY <2>1, <2>2, <2>3, <2>4 DEF TypeOK
<1>24. CASE BrokerRefuse
  <2>1. TypeWire'
    BY <1>24 DEF BrokerRefuse, BrokerCloses, BrokerReads, TypeOK, TypeWire, FromBroker,
       BrokerFrames, ClientFrames
  <2>2. TypeBroker'
    BY <1>24 DEF BrokerRefuse, BrokerCloses, BrokerReads, TypeOK, TypeBroker
  <2>3. TypeFlags' /\ TypeChannel' /\ TypeClose' /\ TypeStream' /\ TypeUser' /\
     TypeSocket'
    BY <1>24 DEF BrokerRefuse, BrokerCloses, BrokerReads, TypeOK, TypeFlags,
       TypeChannel, TypeClose, TypeStream, TypeUser, TypeSocket, chan, sock, broker,
       close, stream, user
  <2> QED BY <2>1, <2>2, <2>3 DEF TypeOK
<1>25. CASE BrokerOnClose
  <2>1. TypeWire'
    BY <1>25 DEF BrokerOnClose, BrokerReads, TypeOK, TypeWire, FromBroker, BrokerFrames
  <2>2. TypeBroker'
    BY <1>25 DEF BrokerOnClose, BrokerReads, TypeOK, TypeBroker
  <2>3. TypeFlags' /\ TypeChannel' /\ TypeClose' /\ TypeStream' /\ TypeUser' /\
     TypeSocket'
    BY <1>25 DEF BrokerOnClose, BrokerReads, TypeOK, TypeFlags, TypeChannel, TypeClose,
       TypeStream, TypeUser, TypeSocket, chan, sock, broker, close, stream, user
  <2> QED BY <2>1, <2>2, <2>3 DEF TypeOK
<1>26. CASE BrokerDiscard
  <2>1. TypeWire'
    BY <1>26 DEF BrokerDiscard, BrokerReads, TypeOK, TypeWire
  <2>2. TypeFlags' /\ TypeChannel' /\ TypeClose' /\ TypeStream' /\ TypeUser' /\
     TypeSocket' /\ TypeBroker'
    BY <1>26 DEF BrokerDiscard, BrokerReads, TypeOK, TypeFlags, TypeChannel, TypeClose,
       TypeStream, TypeUser, TypeSocket, TypeBroker, chan, sock, broker, close, stream,
       user
  <2> QED BY <2>1, <2>2 DEF TypeOK
<1>27. CASE BrokerOnCloseOk
  <2>1. TypeWire'
    BY <1>27 DEF BrokerOnCloseOk, BrokerReads, TypeOK, TypeWire
  <2>2. TypeBroker'
    BY <1>27 DEF BrokerOnCloseOk, BrokerReads, TypeOK, TypeBroker
  <2>3. TypeFlags' /\ TypeChannel' /\ TypeClose' /\ TypeStream' /\ TypeUser' /\
     TypeSocket'
    BY <1>27 DEF BrokerOnCloseOk, BrokerReads, TypeOK, TypeFlags, TypeChannel,
       TypeClose, TypeStream, TypeUser, TypeSocket, chan, sock, broker, close, stream,
       user
  <2> QED BY <2>1, <2>2, <2>3 DEF TypeOK
<1>28. CASE BrokerAbort
  <2>1. TypeSocket'
    BY <1>28 DEF BrokerAbort, TypeOK, TypeSocket
  <2>2. TypeWire'
    BY <1>28 DEF BrokerAbort, TypeOK, TypeWire
  <2>3. TypeFlags' /\ TypeChannel' /\ TypeClose' /\ TypeStream' /\ TypeUser' /\
     TypeBroker'
    BY <1>28 DEF BrokerAbort, TypeOK, TypeFlags, TypeChannel, TypeClose, TypeStream,
       TypeUser, TypeBroker, chan, sock, broker, close, stream, user
  <2> QED BY <2>1, <2>2, <2>3 DEF TypeOK
<1>29. CASE BrokerConfirm
  <2>1. TypeWire'
    BY <1>29 DEF BrokerConfirm, TypeOK, TypeWire, TypeBroker, Confirmation, BrokerFrames
  <2>2. TypeBroker'
    BY <1>29 DEF BrokerConfirm, TypeOK, TypeBroker
  <2>3. TypeFlags' /\ TypeChannel' /\ TypeClose' /\ TypeStream' /\ TypeUser' /\
     TypeSocket'
    BY <1>29 DEF BrokerConfirm, TypeOK, TypeFlags, TypeChannel, TypeClose, TypeStream,
       TypeUser, TypeSocket, chan, sock, broker, close, stream, user
  <2> QED BY <2>1, <2>2, <2>3 DEF TypeOK
<1>30. CASE Stall
  <2>1. TypeFlags'
    BY <1>30 DEF Stall, TypeOK, TypeFlags, chan, sock, broker
  <2>2. TypeSocket'
    BY <1>30 DEF Stall, TypeOK, TypeSocket
  <2>3. TypeChannel' /\ TypeClose' /\ TypeStream' /\ TypeUser' /\ TypeWire' /\
     TypeBroker'
    BY <1>30 DEF Stall, TypeOK, TypeChannel, TypeClose, TypeStream, TypeUser, TypeWire,
       TypeBroker, chan, close, stream, user, wire, broker
  <2> QED BY <2>1, <2>2, <2>3 DEF TypeOK
<1>31. CASE Bypass
  <2>1. TypeWire'
    BY <1>31 DEF Bypass, TypeOK, TypeWire
  <2>2. TypeFlags' /\ TypeChannel' /\ TypeClose' /\ TypeStream' /\ TypeUser' /\
     TypeSocket' /\ TypeBroker'
    BY <1>31 DEF Bypass, TypeOK, TypeFlags, TypeChannel, TypeClose, TypeStream,
       TypeUser, TypeSocket, TypeBroker, chan, sock, broker, close, stream, user
  <2> QED BY <2>1, <2>2 DEF TypeOK
<1>32. CASE Lose
  <2>1. TypeSocket'
    BY <1>32 DEF Lose, TypeOK, TypeSocket
  <2>2. TypeWire'
    BY <1>32 DEF Lose, TypeOK, TypeWire
  <2>3. TypeFlags' /\ TypeChannel' /\ TypeClose' /\ TypeStream' /\ TypeUser' /\
     TypeBroker'
    BY <1>32 DEF Lose, TypeOK, TypeFlags, TypeChannel, TypeClose, TypeStream, TypeUser,
       TypeBroker, chan, sock, broker, close, stream, user
  <2> QED BY <2>1, <2>2, <2>3 DEF TypeOK
<1>33. CASE BrokerKick
  <2>1. TypeWire'
    BY <1>33 DEF BrokerKick, BrokerCloses, TypeOK, TypeWire, FromBroker, BrokerFrames
  <2>2. TypeBroker'
    BY <1>33 DEF BrokerKick, BrokerCloses, TypeOK, TypeBroker
  <2>3. TypeFlags' /\ TypeChannel' /\ TypeClose' /\ TypeStream' /\ TypeUser' /\
     TypeSocket'
    BY <1>33 DEF BrokerKick, BrokerCloses, TypeOK, TypeFlags, TypeChannel, TypeClose,
       TypeStream, TypeUser, TypeSocket, chan, sock, broker, close, stream, user
  <2> QED BY <2>1, <2>2, <2>3 DEF TypeOK
<1> QED
  BY <1>1, <1>2, <1>3, <1>4, <1>5, <1>6, <1>7, <1>8, <1>9, <1>10, <1>11, <1>12, <1>13,
     <1>14, <1>15, <1>16, <1>17, <1>18, <1>19, <1>20, <1>21, <1>22, <1>23, <1>24, <1>25,
     <1>26, <1>27, <1>28, <1>29, <1>30, <1>31, <1>32, <1>33 DEF Next, UserCall,
     EventLoop, BrokerStep, Environment

(* Every variable has its type at the start.                               *)
LEMMA TypeInit == ASSUME ChannelAssumption, Init PROVE TypeOK
<1>1. TypeFlags
  BY DEF Init, TypeFlags
<1>2. TypeChannel /\ TypeClose /\ TypeStream /\ TypeUser
  BY DEF Init, TypeChannel, TypeClose, TypeStream, TypeUser
<1>3. TypeSocket /\ TypeWire /\ TypeBroker
  BY DEF Init, TypeSocket, TypeWire, TypeBroker, ChannelAssumption
<1> QED BY <1>1, <1>2, <1>3 DEF TypeOK

(* Every variable always has its type.                                     *)
THEOREM TypeCorrect == Spec => []TypeOK
<1>1. Init => TypeOK
  BY TypeInit, ChannelAssumption
<1>2. TypeOK /\ [Next]_vars => TypeOK'
  BY TypeStep, ChannelAssumption
<1> QED BY <1>1, <1>2, PTL DEF Spec

HIDE DEF Ops

-----------------------------------------------------------------------------
(* Nothing is in the empty sequence.                                       *)
LEMMA EmptyFacts ==
  ASSUME NEW K
  PROVE  ~Has(<<>>, K) /\ AtMostOne(<<>>, K) /\ \A op : OnlyFor(op, <<>>, K)
BY DEF Has, AtMostOne, OnlyFor

(* What a frame at the end of a sequence adds to it.                       *)
LEMMA AppendFacts ==
  ASSUME NEW S, NEW s \in Seq(S), NEW f \in S, NEW K
  PROVE  /\ Has(Append(s, f), K) <=> Has(s, K) \/ f.kind \in K
         /\ AtMostOne(s, K) /\ ~(Has(s, K) /\ f.kind \in K) => AtMostOne(Append(s, f), K)
         /\ \A op : OnlyFor(op, s, K) /\ (f.kind \in K => f.op = op)
                      => OnlyFor(op, Append(s, f), K)
<1> DEFINE t == Append(s, f)
<1>1. /\ Len(s) \in Nat /\ DOMAIN s = 1..Len(s)
      /\ DOMAIN t = 1..(Len(s) + 1) /\ t[Len(s) + 1] = f
      /\ \A i \in 1..Len(s) : t[i] = s[i]
  OBVIOUS
<1> HIDE DEF t
<1>2. Has(t, K) <=> Has(s, K) \/ f.kind \in K
  BY <1>1 DEF Has
<1>3. AtMostOne(s, K) /\ ~(Has(s, K) /\ f.kind \in K) => AtMostOne(t, K)
  BY <1>1 DEF Has, AtMostOne
<1>4. \A op : OnlyFor(op, s, K) /\ (f.kind \in K => f.op = op) => OnlyFor(op, t, K)
  BY <1>1 DEF OnlyFor
<1> QED BY <1>2, <1>3, <1>4 DEF t

(* What consuming the first frame leaves.                                  *)
LEMMA TailFacts ==
  ASSUME NEW S, NEW s \in Seq(S), s # <<>>, NEW K
  PROVE  /\ Has(Tail(s), K) => Has(s, K)
         /\ Head(s).kind \in K => Has(s, K)
         /\ AtMostOne(s, K) => AtMostOne(Tail(s), K)
         /\ AtMostOne(s, K) /\ Head(s).kind \in K => ~Has(Tail(s), K)
         /\ \A op : OnlyFor(op, s, K) =>
              OnlyFor(op, Tail(s), K) /\ (Head(s).kind \in K => Head(s).op = op)
<1> DEFINE t == Tail(s)
<1>1. /\ Len(s) \in Nat /\ Len(s) > 0 /\ DOMAIN s = 1..Len(s) /\ Head(s) = s[1]
      /\ DOMAIN t = 1..(Len(s) - 1) /\ \A i \in 1..(Len(s) - 1) : t[i] = s[i + 1]
  OBVIOUS
<1> HIDE DEF t
<1>2. (Has(t, K) => Has(s, K)) /\ (Head(s).kind \in K => Has(s, K))
  <2>1. \A i \in DOMAIN t : i + 1 \in DOMAIN s
    BY <1>1
  <2>2. Has(t, K) => Has(s, K)
    BY <2>1, <1>1 DEF Has
  <2>3. Head(s).kind \in K => Has(s, K)
    BY <1>1 DEF Has
  <2> QED BY <2>2, <2>3
<1>3. AtMostOne(s, K) => AtMostOne(t, K)
  BY <1>1 DEF AtMostOne
<1>4. AtMostOne(s, K) /\ Head(s).kind \in K => ~Has(t, K)
  BY <1>1 DEF Has, AtMostOne
<1>5. \A op : OnlyFor(op, s, K) =>
        OnlyFor(op, t, K) /\ (Head(s).kind \in K => Head(s).op = op)
  BY <1>1 DEF OnlyFor
<1> QED BY <1>2, <1>3, <1>4, <1>5 DEF t

(* What a buffer flushed behind a sequence adds to it.                     *)
LEMMA ConcatFacts ==
  ASSUME NEW S, NEW s \in Seq(S), NEW t \in Seq(S), NEW K
  PROVE  /\ Has(s \o t, K) <=> Has(s, K) \/ Has(t, K)
         /\ AtMostOne(s, K) /\ AtMostOne(t, K) /\ ~(Has(s, K) /\ Has(t, K))
              => AtMostOne(s \o t, K)
         /\ \A op : OnlyFor(op, s, K) /\ OnlyFor(op, t, K) => OnlyFor(op, s \o t, K)
<1> DEFINE u == s \o t
<1>1. /\ Len(s) \in Nat /\ DOMAIN s = 1..Len(s)
      /\ Len(t) \in Nat /\ DOMAIN t = 1..Len(t)
      /\ DOMAIN u = 1..(Len(s) + Len(t))
      /\ \A i \in 1..Len(s) : u[i] = s[i]
      /\ \A i \in 1..Len(t) : u[Len(s) + i] = t[i]
  OBVIOUS
<1>2. \A i \in DOMAIN u : \/ i \in DOMAIN s /\ u[i] = s[i]
                          \/ i > Len(s) /\ i - Len(s) \in DOMAIN t /\ u[i] = t[i - Len(s)]
  BY <1>1
<1>3. \A i \in DOMAIN t : Len(s) + i \in DOMAIN u
  BY <1>1
<1> HIDE DEF u
<1>4. Has(u, K) <=> Has(s, K) \/ Has(t, K)
  <2>1. Has(u, K) => Has(s, K) \/ Has(t, K)
    BY <1>2 DEF Has
  <2>2. Has(s, K) => Has(u, K)
    BY <1>1 DEF Has
  <2>3. Has(t, K) => Has(u, K)
    BY <1>1, <1>3 DEF Has
  <2> QED BY <2>1, <2>2, <2>3
<1>5. ASSUME AtMostOne(s, K), AtMostOne(t, K), ~(Has(s, K) /\ Has(t, K))
      PROVE  AtMostOne(u, K)
  <2> SUFFICES ASSUME NEW i \in DOMAIN u, NEW j \in DOMAIN u, u[i].kind \in K, u[j].kind \in K
               PROVE  i = j
    BY DEF AtMostOne
  <2>1. CASE i \in DOMAIN s /\ j \in DOMAIN s /\ u[i] = s[i] /\ u[j] = s[j]
    BY <2>1, <1>5 DEF AtMostOne
  <2>2. CASE /\ i > Len(s) /\ i - Len(s) \in DOMAIN t /\ u[i] = t[i - Len(s)]
             /\ j > Len(s) /\ j - Len(s) \in DOMAIN t /\ u[j] = t[j - Len(s)]
    <3>1. i - Len(s) = j - Len(s)
      BY <2>2, <1>5 DEF AtMostOne
    <3>2. i \in Nat /\ j \in Nat
      BY <1>1
    <3> QED BY <3>1, <3>2, <1>1
  <2> QED BY <2>1, <2>2, <1>2, <1>5 DEF Has
<1>6. \A op : OnlyFor(op, s, K) /\ OnlyFor(op, t, K) => OnlyFor(op, u, K)
  BY <1>2 DEF OnlyFor
<1> QED BY <1>4, <1>5, <1>6 DEF u

(* What the two parts of a split sequence have.                            *)
LEMMA SplitFacts ==
  ASSUME NEW S, NEW s \in Seq(S), NEW n \in 1..Len(s), NEW K
  PROVE  LET a == SubSeq(s, 1, n)  b == SubSeq(s, n + 1, Len(s))
         IN  /\ Has(a, K) \/ Has(b, K) => Has(s, K)
             /\ AtMostOne(s, K) => AtMostOne(a, K) /\ AtMostOne(b, K) /\ ~(Has(a, K) /\ Has(b, K))
             /\ \A op : OnlyFor(op, s, K) => OnlyFor(op, a, K) /\ OnlyFor(op, b, K)
<1> DEFINE a == SubSeq(s, 1, n)
           b == SubSeq(s, n + 1, Len(s))
<1>1. /\ Len(s) \in Nat /\ DOMAIN s = 1..Len(s) /\ n \in Nat /\ n <= Len(s) /\ n >= 1
      /\ DOMAIN a = 1..n /\ \A i \in 1..n : a[i] = s[i]
  OBVIOUS
<1>2. DOMAIN b = 1..(Len(s) - n) /\ \A i \in 1..(Len(s) - n) : b[i] = s[n + i]
  OBVIOUS
<1> HIDE DEF a, b
<1>3. Has(a, K) => Has(s, K)
  BY <1>1 DEF Has
<1>4. Has(b, K) => Has(s, K)
  <2>1. \A i \in DOMAIN b : n + i \in DOMAIN s
    BY <1>1, <1>2
  <2> QED BY <2>1, <1>2 DEF Has
<1>5. ASSUME AtMostOne(s, K) PROVE AtMostOne(a, K) /\ AtMostOne(b, K) /\ ~(Has(a, K) /\ Has(b, K))
  <2>1. AtMostOne(a, K)
    BY <1>1, <1>5 DEF AtMostOne
  <2>2. AtMostOne(b, K)
    <3> SUFFICES ASSUME NEW i \in DOMAIN b, NEW j \in DOMAIN b, b[i].kind \in K, b[j].kind \in K
                 PROVE  i = j
      BY DEF AtMostOne
    <3>1. n + i \in DOMAIN s /\ n + j \in DOMAIN s /\ s[n + i] = b[i] /\ s[n + j] = b[j]
      BY <1>1, <1>2
    <3>2. n + i = n + j
      BY <3>1, <1>5 DEF AtMostOne
    <3> QED BY <3>2, <1>1, <1>2
  <2>3. ~(Has(a, K) /\ Has(b, K))
    BY <1>1, <1>2, <1>5 DEF AtMostOne, Has
  <2> QED BY <2>1, <2>2, <2>3
<1>6. \A op : OnlyFor(op, s, K) => OnlyFor(op, a, K) /\ OnlyFor(op, b, K)
  BY <1>1, <1>2 DEF OnlyFor
<1> QED BY <1>3, <1>4, <1>5, <1>6 DEF a, b

-----------------------------------------------------------------------------
(* Steps that touch neither the slot, the stream nor the wire.             *)
LEMMA SlotStill ==
  ASSUME SlotInv, UNCHANGED <<socket, cleared, rpc, closer, queue, sent, outbuf, c2s, s2c, chunk>>
  PROVE  SlotInv'
BY DEF SlotInv, Leased, OneInFlight, SlotOnWire, OnWireOnly, SlotInStream, SlotEmpty, Unsent, Quiet

(* Steps that leave the slot and the stream alone and only move frames.    *)
LEMMA SlotWire ==
  ASSUME SlotInv, UNCHANGED <<socket, cleared, rpc, closer, queue, sent>>,
         OneInFlight => OneInFlight',
         OnWireOnly(rpc) => OnWireOnly(rpc)',
         Quiet => Quiet'
  PROVE  SlotInv'
<1> SUFFICES ASSUME Leased' PROVE (OneInFlight /\ SlotOnWire /\ SlotInStream /\ SlotEmpty)'
  BY DEF SlotInv
<1>1. OneInFlight /\ SlotOnWire /\ SlotInStream /\ SlotEmpty
  BY DEF SlotInv, Leased
<1>2. OneInFlight'
  BY <1>1
<1>3. SlotOnWire'
  BY <1>1 DEF SlotOnWire
<1>4. SlotInStream'
  BY <1>1 DEF SlotInStream, Unsent
<1>5. SlotEmpty'
  BY <1>1 DEF SlotEmpty, Unsent
<1> QED BY <1>2, <1>3, <1>4, <1>5

(* Steps after which the id is no longer leased.                           *)
LEMMA SlotReleased ==
  ASSUME socket' # "up" \/ cleared' PROVE SlotInv'
BY DEF SlotInv, Leased

(* t has frames of K only where s has them, and not more.                  *)
Within(t, s, K) ==
  /\ Has(t, K) => Has(s, K)
  /\ AtMostOne(s, K) => AtMostOne(t, K)
  /\ \A op : OnlyFor(op, s, K) => OnlyFor(op, t, K)

(* A sequence, its tail, and it with other frames appended are within it.  *)
LEMMA WithinFacts ==
  ASSUME NEW S, NEW s \in Seq(S), NEW K
  PROVE  /\ Within(s, s, K)
         /\ s # <<>> => Within(Tail(s), s, K)
         /\ \A f \in S : f.kind \notin K => Within(Append(s, f), s, K)
<1>1. Within(s, s, K)
  BY DEF Within
<1>2. s # <<>> => Within(Tail(s), s, K)
  BY TailFacts DEF Within
<1>3. ASSUME NEW f \in S, f.kind \notin K PROVE Within(Append(s, f), s, K)
  BY <1>3, AppendFacts DEF Within
<1> QED BY <1>1, <1>2, <1>3

(* Fewer requests and answers under way keep what is said of the slot.     *)
LEMMA SlotFewer ==
  ASSUME SlotInv, UNCHANGED <<socket, cleared, rpc, closer, queue, sent>>,
         Within(outbuf', outbuf, Request), Within(c2s', c2s, Request),
         Within(s2c', s2c, Answer), Within(chunk', chunk, Answer)
  PROVE  SlotInv'
<1>1. OneInFlight => OneInFlight'
  BY DEF Within, OneInFlight
<1>2. OnWireOnly(rpc) => OnWireOnly(rpc)'
  BY DEF Within, OnWireOnly
<1>3. Quiet => Quiet'
  BY DEF Within, Quiet
<1> QED BY <1>1, <1>2, <1>3, SlotWire

(* The client puts a frame that is no request on the socket.               *)
LEMMA SendWithin ==
  ASSUME TypeWire, NEW f \in ClientFrames, f.kind \notin Request, NEW isFull, Send(f, isFull)
  PROVE  Within(outbuf', outbuf, Request) /\ Within(c2s', c2s, Request)
<1>1. \/ outbuf' = Append(outbuf, f) \/ outbuf' = outbuf
  BY DEF Send
<1>2. \/ c2s' = Append(c2s, f) \/ c2s' = c2s
  BY DEF Send
<1>3. Within(outbuf', outbuf, Request)
  BY <1>1, WithinFacts DEF TypeWire
<1>4. Within(c2s', c2s, Request)
  BY <1>2, WithinFacts DEF TypeWire
<1> QED BY <1>3, <1>4

(* A request is sent when nothing is on the wire.                          *)
LEMMA SendRequest ==
  ASSUME TypeWire, Quiet, NEW f \in ClientFrames, NEW isFull, Send(f, isFull),
         UNCHANGED <<s2c, chunk>>, OneInFlight
  PROVE  OneInFlight' /\ (OnWireOnly(f.op)) /\ (OnWireOnly(f.op))'
<1>1. \A op : OnWireOnly(op)
  BY DEF Quiet, OnWireOnly, OnlyFor, Has
<1>2. \/ outbuf' = Append(outbuf, f) /\ c2s' = c2s
      \/ outbuf' = outbuf /\ c2s' = Append(c2s, f)
      \/ outbuf' = outbuf /\ c2s' = c2s
  BY DEF Send
<1>3. CASE outbuf' = Append(outbuf, f) /\ c2s' = c2s
  <2>1. OneInFlight'
    BY <1>3, AppendFacts DEF TypeWire, Quiet, OneInFlight
  <2>2. OnlyFor(f.op, outbuf', Request)
    BY <1>1, <1>3, AppendFacts DEF TypeWire, OnWireOnly
  <2> QED BY <2>1, <2>2, <1>1, <1>3 DEF OnWireOnly
<1>4. CASE outbuf' = outbuf /\ c2s' = Append(c2s, f)
  <2>1. OneInFlight'
    BY <1>4, AppendFacts DEF TypeWire, Quiet, OneInFlight
  <2>2. OnlyFor(f.op, c2s', Request)
    BY <1>1, <1>4, AppendFacts DEF TypeWire, OnWireOnly
  <2> QED BY <2>1, <2>2, <1>1, <1>4 DEF OnWireOnly
<1>5. CASE outbuf' = outbuf /\ c2s' = c2s
  BY <1>5, <1>1 DEF OneInFlight, OnWireOnly
<1> QED BY <1>2, <1>3, <1>4, <1>5

-----------------------------------------------------------------------------
(* SlotInv, one lemma for each action that can disturb it.                 *)

(* A request goes into the free slot and the stream, or into the buffer.   *)
LEMMA SlotInvoke ==
  ASSUME ChannelAssumption, TypeOK, Shape, SlotInv, NEW r \in Rpcs, Invoke(r)
  PROVE  SlotInv'
<1>1. UNCHANGED <<socket, cleared, closer, sent, outbuf, c2s, s2c, chunk>>
  BY DEF Invoke, close, sock, wire
<1>2. CASE rpc # None
  BY <1>1, <1>2, SlotStill DEF Invoke, RpcBusy
<1>3. CASE rpc = None
  <2> SUFFICES ASSUME Leased' PROVE (OneInFlight /\ SlotOnWire /\ SlotInStream /\ SlotEmpty)'
    BY DEF SlotInv
  <2>1. OneInFlight /\ SlotEmpty
    BY <1>1 DEF SlotInv, Leased
  <2>2. closer = "idle" /\ rpc' = r /\ queue' = Append(queue, r)
    BY <1>3 DEF Invoke, RpcBusy, Call, Shape
  <2>3. Quiet /\ \A i \in DOMAIN queue : ~Unsent(i)
    BY <2>1, <2>2, <1>3 DEF SlotEmpty
  <2>4. OneInFlight' /\ Quiet'
    BY <2>1, <2>3, <1>1 DEF OneInFlight, Quiet
  <2>5. SlotOnWire'
    BY <2>4 DEF SlotOnWire, Quiet, OnWireOnly, OnlyFor, Has
  <2>6. \A i \in DOMAIN queue' : Unsent(i)' => i = Len(queue) + 1
    BY <2>2, <2>3, <1>1 DEF Unsent, TypeOK, TypeStream
  <2>7. queue'[Len(queue) + 1] = r
    BY <2>2 DEF TypeOK, TypeStream
  <2>8. SlotInStream'
    BY <2>2, <2>4, <2>6, <2>7 DEF SlotInStream
  <2>9. rpc' # None
    BY <2>2 DEF ChannelAssumption, Ops
  <2>10. SlotEmpty'
    BY <2>9 DEF SlotEmpty
  <2> QED BY <2>4, <2>5, <2>8, <2>10
<1> QED BY <1>2, <1>3

(* A write that is no request joins the stream.                            *)
LEMMA SlotOtherWrite ==
  ASSUME ChannelAssumption, TypeOK, SlotInv, NEW op \in Ops \ Rpcs, queue' = Append(queue, op),
         UNCHANGED <<socket, cleared, rpc, closer, sent, outbuf, c2s, s2c, chunk>>
  PROVE  SlotInv'
<1> SUFFICES ASSUME Leased' PROVE (OneInFlight /\ SlotOnWire /\ SlotInStream /\ SlotEmpty)'
  BY DEF SlotInv
<1>1. OneInFlight /\ SlotOnWire /\ SlotInStream /\ SlotEmpty
  BY DEF SlotInv, Leased
<1>2. OneInFlight' /\ SlotOnWire' /\ (Quiet => Quiet')
  BY <1>1 DEF OneInFlight, SlotOnWire, OnWireOnly, Quiet
<1>3. \A i \in DOMAIN queue' : Unsent(i)' =>
        i \in DOMAIN queue /\ Unsent(i) /\ queue'[i] = queue[i]
  BY DEF Unsent, TypeOK, TypeStream
<1>4. SlotInStream'
  BY <1>1, <1>2, <1>3 DEF SlotInStream
<1>5. SlotEmpty'
  BY <1>1, <1>2, <1>3 DEF SlotEmpty
<1> QED BY <1>2, <1>4, <1>5

(* close() begins without touching slot, stream or wire.                   *)
LEMMA SlotClose ==
  ASSUME Shape, SlotInv, Close PROVE SlotInv'
<1>1. /\ UNCHANGED <<socket, cleared, rpc, queue, sent, outbuf, c2s, s2c, chunk>>
      /\ closer # "final" /\ closer' # "final"
  BY DEF Close, StartClose, Shape, sock, wire
<1> QED BY <1>1 DEF SlotInv, Leased, OneInFlight, SlotOnWire, OnWireOnly, SlotInStream,
             SlotEmpty, Unsent, Quiet

(* The first frame of a request leaves the stream, or some other frame.    *)
LEMMA SlotWriteFrame ==
  ASSUME ChannelAssumption, TypeOK, SlotInv, WriteFrame PROVE SlotInv'
<1> DEFINE op == Head(queue)
           f == NextFrame(op, sent)
<1>1. /\ UNCHANGED <<socket, cleared, rpc, closer, queue, s2c, chunk>>
      /\ queue # <<>> /\ sent' = sent + 1 /\ sent < FrameCount(op) /\ Send(f, full')
  BY DEF WriteFrame, StreamBusy, chan, close
<1>2. op \in Ops /\ op = queue[1] /\ 1 \in DOMAIN queue /\ sent \in Nat
  BY <1>1 DEF TypeOK, TypeStream
<1>3. f \in ClientFrames
  BY <1>2, NextFrameType
<1> SUFFICES ASSUME Leased' PROVE (OneInFlight /\ SlotOnWire /\ SlotInStream /\ SlotEmpty)'
  BY DEF SlotInv
<1>4. OneInFlight /\ SlotOnWire /\ SlotInStream /\ SlotEmpty
  BY <1>1 DEF SlotInv, Leased
<1>5. \A i \in DOMAIN queue' : Unsent(i)' => Unsent(i) /\ i > 1
  BY <1>1, <1>2 DEF Unsent
<1>6. CASE op \in Rpcs
  <2>1. sent = 0
    BY <1>1, <1>2, <1>6 DEF FrameCount, ChannelAssumption
  <2>2. Unsent(1)
    BY <2>1, <1>2, <1>6 DEF Unsent
  <2>3. Quiet /\ (rpc \in Rpcs => op = rpc)
    BY <2>2, <1>2, <1>4 DEF SlotInStream
  <2>4. \A j \in DOMAIN queue : Unsent(j) => 1 = j
    BY <2>2, <1>2, <1>4 DEF SlotInStream
  <2>5. f.op = op
    BY DEF NextFrame, Frame
  <2>6. OneInFlight' /\ (OnWireOnly(op))'
    BY <2>3, <2>5, <1>1, <1>3, <1>4, SendRequest DEF TypeOK
  <2>7. SlotOnWire'
    BY <2>3, <2>6, <1>1 DEF SlotOnWire, OnWireOnly
  <2>8. \A i \in DOMAIN queue' : ~Unsent(i)'
    BY <2>4, <1>1, <1>5
  <2>9. SlotInStream'
    BY <2>8 DEF SlotInStream
  <2>10. SlotEmpty'
    BY <2>2, <1>1, <1>2, <1>4 DEF SlotEmpty
  <2> QED BY <2>6, <2>7, <2>9, <2>10
<1>7. CASE op \notin Rpcs
  <2>1. f.kind \notin Request
    BY <1>7 DEF NextFrame, Frame, Request
  <2>2. Within(outbuf', outbuf, Request) /\ Within(c2s', c2s, Request)
    BY <2>1, <1>1, <1>3, SendWithin DEF TypeOK
  <2>3. OneInFlight' /\ (Quiet => Quiet')
    BY <2>2, <1>1, <1>4 DEF Within, OneInFlight, Quiet
  <2>4. SlotOnWire'
    BY <2>2, <1>1, <1>4 DEF Within, SlotOnWire, OnWireOnly
  <2>5. SlotInStream'
    BY <2>3, <1>1, <1>4, <1>5 DEF SlotInStream
  <2>6. SlotEmpty'
    BY <2>3, <1>1, <1>4, <1>5 DEF SlotEmpty
  <2> QED BY <2>3, <2>4, <2>5, <2>6
<1> QED BY <1>6, <1>7

(* A call leaves the stream with its last frame written.                   *)
LEMMA SlotFinishWrite ==
  ASSUME ChannelAssumption, TypeOK, SlotInv, FinishWrite PROVE SlotInv'
<1>1. /\ UNCHANGED <<socket, cleared, rpc, closer, outbuf, c2s, s2c, chunk>>
      /\ queue # <<>> /\ queue' = Tail(queue) /\ sent = FrameCount(Head(queue))
  BY DEF FinishWrite, StreamBusy, chan, close, sock, wire
<1> SUFFICES ASSUME Leased' PROVE (OneInFlight /\ SlotOnWire /\ SlotInStream /\ SlotEmpty)'
  BY DEF SlotInv
<1>2. OneInFlight /\ SlotOnWire /\ SlotInStream /\ SlotEmpty
  BY <1>1 DEF SlotInv, Leased
<1>3. OneInFlight' /\ SlotOnWire' /\ (Quiet => Quiet')
  BY <1>1, <1>2 DEF OneInFlight, SlotOnWire, OnWireOnly, Quiet
<1>4. \A i \in DOMAIN queue' : i \in Nat /\ i >= 1 /\ i + 1 \in DOMAIN queue /\ queue'[i] = queue[i + 1]
  BY <1>1 DEF TypeOK, TypeStream
<1>5. \A i \in DOMAIN queue' : Unsent(i)' => Unsent(i + 1)
  BY <1>4 DEF Unsent
<1>6. SlotInStream'
  <2> SUFFICES ASSUME NEW i \in DOMAIN queue', Unsent(i)'
               PROVE  /\ Quiet' /\ (rpc' \in Rpcs => queue'[i] = rpc')
                      /\ \A j \in DOMAIN queue' : Unsent(j)' => i = j
    BY DEF SlotInStream
  <2>1. Quiet' /\ (rpc' \in Rpcs => queue'[i] = rpc')
    BY <1>1, <1>2, <1>3, <1>4, <1>5 DEF SlotInStream
  <2>2. ASSUME NEW j \in DOMAIN queue', Unsent(j)' PROVE i = j
    <3>1. i + 1 = j + 1
      BY <2>2, <1>2, <1>4, <1>5 DEF SlotInStream
    <3> QED BY <3>1, <1>4
  <2> QED BY <2>1, <2>2
<1>7. SlotEmpty'
  BY <1>1, <1>2, <1>3, <1>4, <1>5 DEF SlotEmpty
<1> QED BY <1>3, <1>6, <1>7

(* A close() goes on, with the slot as it finds it and a stream that       *)
(* holds no request.                                                       *)
LEMMA SlotResume ==
  ASSUME ChannelAssumption, TypeOK, NEW slot, ResumeClose(slot),
         UNCHANGED <<s2c, chunk>>,
         OneInFlight, slot = None => Quiet,
         \A i \in DOMAIN queue' : ~Unsent(i)'
  PROVE  SlotInv'
<1>1. CASE slot # None
  <2>1. rpc' = None /\ closer' = "final" /\ UNCHANGED <<outbuf, c2s>>
    BY <1>1 DEF ResumeClose
  <2>2. OneInFlight' /\ SlotEmpty'
    BY <2>1 DEF OneInFlight, SlotEmpty
  <2>3. SlotOnWire' /\ SlotInStream'
    BY <2>1 DEF SlotOnWire, SlotInStream, ChannelAssumption, Ops
  <2> QED BY <2>2, <2>3 DEF SlotInv
<1>2. CASE slot = None
  <2>1. rpc' = ChannelClose /\ Send(Frame("close", None), full)
    BY <1>2 DEF ResumeClose
  <2>2. OneInFlight'
    BY <1>2, <2>1, SendRequest, CloseFrames DEF TypeOK
  <2>3. rpc' \notin Rpcs /\ rpc' # None
    BY <2>1 DEF ChannelAssumption, Ops
  <2>4. SlotOnWire' /\ SlotInStream' /\ SlotEmpty'
    BY <2>3 DEF SlotOnWire, SlotInStream, SlotEmpty
  <2> QED BY <2>2, <2>4 DEF SlotInv
<1> QED BY <1>1, <1>2

(* The stream has finished: close() goes on with what is in the slot.      *)
LEMMA SlotStreamFinish ==
  ASSUME ChannelAssumption, TypeOK, Shape, SlotInv, StreamFinish PROVE SlotInv'
<1>1. /\ ResumeClose(rpc) /\ UNCHANGED <<socket, cleared, queue, s2c, chunk>>
      /\ queue = <<>> /\ closer # "final"
  BY DEF StreamFinish, Shape, sock
<1> SUFFICES ASSUME Leased' PROVE SlotInv'
  BY DEF SlotInv
<1>2. OneInFlight /\ SlotEmpty
  BY <1>1 DEF SlotInv, Leased
<1>3. \A i \in DOMAIN queue' : ~Unsent(i)'
  BY <1>1
<1>4. rpc = None => Quiet
  BY <1>1, <1>2 DEF SlotEmpty
<1> QED BY <1>1, <1>2, <1>3, <1>4, SlotResume

(* A close() that found the stream gone goes on with nothing in the slot.  *)
LEMMA SlotCloseImmediate ==
  ASSUME ChannelAssumption, TypeOK, Shape, SlotInv, CloseImmediate PROVE SlotInv'
<1>1. /\ ResumeClose(rpc) /\ UNCHANGED <<socket, cleared, queue, sent, s2c, chunk>>
      /\ closer = "immediate" /\ phase = "closed" /\ queue = <<>>
  <2>1. phase \notin {"open", "ending", "errored", "destroyed"}
    BY DEF CloseImmediate, Macrotask, TickPending, Shape
  <2>2. phase = "closed"
    BY <2>1 DEF TypeOK, TypeStream
  <2> QED BY <2>2 DEF CloseImmediate, Shape, sock, stream
<1> SUFFICES ASSUME Leased' PROVE SlotInv'
  BY DEF SlotInv
<1>2. OneInFlight /\ SlotEmpty
  BY <1>1 DEF SlotInv, Leased
<1>3. \A i \in DOMAIN queue' : ~Unsent(i)'
  BY <1>1
<1>4. rpc = None => Quiet
  BY <1>1, <1>2 DEF SlotEmpty
<1> QED BY <1>1, <1>2, <1>3, <1>4, SlotResume

(* The stream fails: a request in it was not written, so that an empty     *)
(* slot means that nothing is on the wire.                                 *)
LEMMA SlotStreamFail ==
  ASSUME ChannelAssumption, TypeOK, Shape, SlotInv, StreamFail PROVE SlotInv'
<1> DEFINE slot == IF Elems(queue) \cap Rpcs # {} THEN None ELSE rpc
<1>1. /\ UNCHANGED <<socket, cleared, s2c, chunk>> /\ queue' = <<>>
      /\ phase \in {"errored", "destroyed"}
      /\ IF closer = "stream" THEN ResumeClose(slot)
         ELSE rpc' = slot /\ closer' = CloserAfterError /\ UNCHANGED <<outbuf, c2s>>
  BY DEF StreamFail, sock
<1> SUFFICES ASSUME Leased' PROVE SlotInv'
  BY DEF SlotInv
<1>2. OneInFlight /\ SlotOnWire /\ SlotInStream /\ SlotEmpty /\ ~cleared
  BY <1>1 DEF SlotInv, Leased
<1>3. sent = 0
  BY <1>1, <1>2 DEF Shape
<1>4. \A i \in DOMAIN queue' : ~Unsent(i)'
  BY <1>1
<1>5. Elems(queue) \cap Rpcs # {} => Quiet
  BY <1>2, <1>3 DEF Elems, Unsent, SlotInStream
<1>6. slot = rpc \/ (slot = None /\ Quiet)
  BY <1>5
<1>7. CASE closer = "stream"
  <2>1. slot = None => Quiet
    BY <1>6, <1>7, <1>2 DEF SlotEmpty
  <2> QED BY <2>1, <1>1, <1>2, <1>4, <1>7, SlotResume
<1>8. CASE closer # "stream"
  <2>1. rpc' = slot /\ UNCHANGED <<outbuf, c2s, s2c, chunk>>
    BY <1>1, <1>8
  <2> HIDE DEF slot
  <2>2. closer = "final" => closer' = "final"
    BY <1>1, <1>8 DEF CloserAfterError, Shape
  <2>3. OneInFlight' /\ (Quiet => Quiet')
    BY <2>1, <1>2 DEF OneInFlight, Quiet
  <2>4. SlotOnWire'
    BY <2>1, <1>2, <1>6 DEF SlotOnWire, OnWireOnly, ChannelAssumption, Ops
  <2>5. SlotInStream'
    BY <1>4 DEF SlotInStream
  <2>6. SlotEmpty'
    BY <2>1, <2>2, <2>3, <1>2, <1>4, <1>6 DEF SlotEmpty
  <2> QED BY <2>3, <2>4, <2>5, <2>6 DEF SlotInv
<1> QED BY <1>7, <1>8

(* The frames of the socket's buffer follow those on their way.            *)
LEMMA SlotFlush ==
  ASSUME TypeOK, SlotInv, c2s' = c2s \o outbuf, outbuf' = <<>>,
         UNCHANGED <<socket, cleared, rpc, closer, queue, sent, s2c, chunk>>
  PROVE  SlotInv'
<1>1. c2s \in Seq(ClientFrames) /\ outbuf \in Seq(ClientFrames)
  BY DEF TypeOK, TypeWire
<1>2. Has(c2s', Request) <=> Has(c2s, Request) \/ Has(outbuf, Request)
  BY <1>1, ConcatFacts
<1>3. ~Has(outbuf', Request) /\ AtMostOne(outbuf', Request) /\ \A op : OnlyFor(op, outbuf', Request)
  BY EmptyFacts
<1>4. OneInFlight => OneInFlight'
  <2>1. OneInFlight => AtMostOne(c2s', Request)
    BY <1>1, ConcatFacts DEF OneInFlight
  <2> QED BY <2>1, <1>2, <1>3 DEF OneInFlight
<1>5. OnWireOnly(rpc) => OnWireOnly(rpc)'
  <2>1. OnWireOnly(rpc) => OnlyFor(rpc, c2s', Request)
    BY <1>1, ConcatFacts DEF OnWireOnly
  <2> QED BY <2>1, <1>3 DEF OnWireOnly
<1>6. Quiet => Quiet'
  BY <1>2, <1>3 DEF Quiet
<1> QED BY <1>4, <1>5, <1>6, SlotWire

(* Reading moves frames from the socket to the chunk in hand.              *)
LEMMA SlotReadChunk ==
  ASSUME TypeOK, SlotInv, ReadChunk PROVE SlotInv'
<1>1. PICK n \in 1..Len(s2c) : chunk' = SubSeq(s2c, 1, n) /\ s2c' = SubSeq(s2c, n + 1, Len(s2c))
  BY DEF ReadChunk
<1>2. /\ UNCHANGED <<socket, cleared, rpc, closer, queue, sent, outbuf, c2s>>
      /\ chunk = <<>> /\ s2c \in Seq(BrokerFrames)
  BY DEF ReadChunk, Macrotask, TypeOK, TypeWire, chan, close, stream, sock
<1>3. Has(chunk', Answer) \/ Has(s2c', Answer) => Has(s2c, Answer)
  BY <1>1, <1>2, SplitFacts
<1>4. OneInFlight => OneInFlight'
  <2>1. OneInFlight => /\ AtMostOne(chunk', Answer) /\ AtMostOne(s2c', Answer)
                       /\ ~(Has(chunk', Answer) /\ Has(s2c', Answer))
    BY <1>1, <1>2, SplitFacts DEF OneInFlight
  <2> QED BY <2>1, <1>2, <1>3 DEF OneInFlight
<1>5. OnWireOnly(rpc) => OnWireOnly(rpc)'
  <2>1. OnWireOnly(rpc) => OnlyFor(rpc, chunk', Answer) /\ OnlyFor(rpc, s2c', Answer)
    BY <1>1, <1>2, SplitFacts DEF OnWireOnly
  <2> QED BY <2>1, <1>2 DEF OnWireOnly
<1>6. Quiet => Quiet'
  BY <1>2, <1>3 DEF Quiet
<1> QED BY <1>2, <1>4, <1>5, <1>6, SlotWire

(* The reply leaves the wire, and the next request joins the stream.       *)
LEMMA SlotOnReply ==
  ASSUME ChannelAssumption, TypeOK, Shape, SlotInv, OnReply PROVE SlotInv'
<1>1. /\ UNCHANGED <<socket, cleared, closer, sent, outbuf, c2s, s2c>>
      /\ chunk # <<>> /\ Head(chunk).kind \in Answer /\ chunk' = Tail(chunk)
  BY DEF OnReply, Receive, Answer, close, sock
<1>2. chunk \in Seq(BrokerFrames) /\ queue \in Seq(Ops) /\ rpcBuffer \in Seq(Rpcs)
  BY DEF TypeOK, TypeWire, TypeStream, TypeChannel
<1> SUFFICES ASSUME Leased' PROVE (OneInFlight /\ SlotOnWire /\ SlotInStream /\ SlotEmpty)'
  BY DEF SlotInv
<1>3. OneInFlight /\ SlotInStream
  BY <1>1 DEF SlotInv, Leased
<1>4. Has(chunk, Answer) /\ ~Has(Tail(chunk), Answer)
  BY <1>1, <1>2, <1>3, TailFacts DEF OneInFlight
<1>5. Quiet'
  BY <1>1, <1>3, <1>4 DEF OneInFlight, Quiet
<1>6. OneInFlight'
  BY <1>5 DEF Quiet, OneInFlight, AtMostOne, Has
<1>7. SlotOnWire'
  BY <1>5 DEF Quiet, SlotOnWire, OnWireOnly, OnlyFor, Has
<1>8. \A i \in DOMAIN queue : ~Unsent(i)
  BY <1>3, <1>4 DEF SlotInStream, Quiet
<1>9. CASE StartsNext
  <2> DEFINE r == Head(rpcBuffer)
  <2>1. rpc' = r /\ queue' = Append(queue, r) /\ r \in Rpcs
    BY <1>2, <1>9, HeadTail DEF OnReply, StartsNext
  <2> HIDE DEF r
  <2>2. \A i \in DOMAIN queue' : Unsent(i)' => i = Len(queue) + 1
    BY <2>1, <1>1, <1>2, <1>8 DEF Unsent
  <2>3. queue'[Len(queue) + 1] = r
    BY <2>1, <1>2
  <2>4. SlotInStream'
    BY <2>1, <2>2, <2>3, <1>5 DEF SlotInStream
  <2>5. rpc' # None
    BY <2>1 DEF ChannelAssumption, Ops
  <2>6. SlotEmpty'
    BY <2>5 DEF SlotEmpty
  <2> QED BY <2>4, <2>6, <1>6, <1>7
<1>10. CASE ~StartsNext
  <2>1. rpc' = None /\ queue' = queue
    BY <1>10 DEF OnReply
  <2>2. \A i \in DOMAIN queue' : ~Unsent(i)'
    BY <2>1, <1>1, <1>8 DEF Unsent
  <2>3. SlotInStream' /\ SlotEmpty'
    BY <2>2, <1>5 DEF SlotInStream, SlotEmpty
  <2> QED BY <2>3, <1>6, <1>7
<1> QED BY <1>9, <1>10

(* The broker consumes a request and sends the answer to it.               *)
LEMMA SlotAnswer ==
  ASSUME TypeOK, SlotInv, socket = "up", c2s # <<>>, Head(c2s).kind \in Request,
         NEW a \in BrokerFrames, a.kind \in Answer, a.op = Head(c2s).op,
         c2s' = Tail(c2s), s2c' = Append(s2c, a),
         UNCHANGED <<socket, cleared, rpc, closer, queue, sent, outbuf, chunk>>
  PROVE  SlotInv'
<1>1. c2s \in Seq(ClientFrames) /\ s2c \in Seq(BrokerFrames)
  BY DEF TypeOK, TypeWire
<1>2. Has(c2s, Request) /\ (AtMostOne(c2s, Request) => ~Has(c2s', Request))
  BY <1>1, TailFacts
<1>3. OneInFlight => OneInFlight'
  <2>1. OneInFlight => /\ ~Has(outbuf, Request) /\ ~Has(s2c, Answer) /\ ~Has(chunk, Answer)
                       /\ ~Has(c2s', Request)
    BY <1>2 DEF OneInFlight
  <2>2. OneInFlight => AtMostOne(s2c', Answer)
    BY <2>1, <1>1, AppendFacts DEF OneInFlight
  <2>3. OneInFlight => AtMostOne(c2s', Request)
    BY <1>1, TailFacts DEF OneInFlight
  <2> QED BY <2>1, <2>2, <2>3 DEF OneInFlight
<1>4. OnWireOnly(rpc) => OnWireOnly(rpc)'
  <2>1. OnWireOnly(rpc) => OnlyFor(rpc, c2s', Request) /\ a.op = rpc
    BY <1>1, TailFacts DEF OnWireOnly
  <2>2. OnWireOnly(rpc) => OnlyFor(rpc, s2c', Answer)
    BY <2>1, <1>1, AppendFacts DEF OnWireOnly
  <2> QED BY <2>1, <2>2 DEF OnWireOnly
<1>5. Quiet => Quiet'
  BY <1>2 DEF Quiet
<1> QED BY <1>3, <1>4, <1>5, SlotWire

(* The broker takes a request off the wire and answers it.                 *)
LEMMA SlotBrokerServe ==
  ASSUME ChannelAssumption, TypeOK, SlotInv, BrokerServe PROVE SlotInv'
<1> DEFINE f == Head(c2s)
<1>1. /\ UNCHANGED <<socket, cleared, rpc, closer, queue, sent, outbuf, chunk>>
      /\ socket = "up" /\ c2s # <<>> /\ c2s' = Tail(c2s)
      /\ f.kind \in {"rpc", "body", "nowait"}
  BY DEF BrokerServe, BrokerReads, chan, close, stream, sock
<1>2. f \in ClientFrames /\ f.op \in Ops
  BY <1>1, HeadTail, CallFrame DEF TypeOK, TypeWire
<1>3. CASE f.kind = "rpc"
  <2> DEFINE a == FromBroker("reply", f.op)
  <2>1. s2c' = Append(s2c, a)
    BY <1>3 DEF BrokerServe
  <2>2. a \in BrokerFrames /\ a.kind \in Answer /\ a.op = f.op
    BY <1>2 DEF FromBroker, BrokerFrames, Answer
  <2>3. f.kind \in Request
    BY <1>3 DEF Request
  <2> QED BY <2>1, <2>2, <2>3, <1>1, SlotAnswer
<1>4. CASE f.kind # "rpc"
  <2>1. s2c' = s2c
    BY <1>4 DEF BrokerServe
  <2>2. /\ Within(outbuf', outbuf, Request) /\ Within(c2s', c2s, Request)
        /\ Within(s2c', s2c, Answer) /\ Within(chunk', chunk, Answer)
    BY <2>1, <1>1, WithinFacts DEF TypeOK, TypeWire
  <2> QED BY <2>2, <1>1, SlotFewer
<1> QED BY <1>3, <1>4

(* The broker takes the close of the channel and answers it.               *)
LEMMA SlotBrokerOnClose ==
  ASSUME ChannelAssumption, TypeOK, SlotInv, BrokerOnClose PROVE SlotInv'
<1> DEFINE f == Head(c2s)
           a == FromBroker("closeOk", None)
<1>1. /\ UNCHANGED <<socket, cleared, rpc, closer, queue, sent, outbuf, chunk>>
      /\ socket = "up" /\ c2s # <<>> /\ c2s' = Tail(c2s) /\ s2c' = Append(s2c, a)
      /\ f.kind = "close"
  BY DEF BrokerOnClose, BrokerReads, chan, close, stream, sock
<1>2. f \in ClientFrames
  BY <1>1, HeadTail DEF TypeOK, TypeWire
<1>3. f.op = None /\ f.kind \in Request
  BY <1>1, <1>2 DEF ClientFrames, Request
<1>4. a \in BrokerFrames /\ a.kind \in Answer /\ a.op = f.op
  BY <1>3 DEF FromBroker, BrokerFrames, Answer
<1> QED BY <1>1, <1>3, <1>4, SlotAnswer

(* Steps of the client and the broker that only consume or send frames     *)
(* which are neither requests nor answers.                                 *)
LEMMA SlotOtherFrames ==
  ASSUME ChannelAssumption, TypeOK, SlotInv,
         OnConfirm \/ BrokerHead \/ BrokerConfirm \/ BrokerRefuse \/ BrokerKick
           \/ BrokerDiscard \/ BrokerOnCloseOk
  PROVE  SlotInv'
<1>1. /\ outbuf \in Seq(ClientFrames) /\ c2s \in Seq(ClientFrames)
      /\ s2c \in Seq(BrokerFrames) /\ chunk \in Seq(BrokerFrames)
  BY DEF TypeOK, TypeWire
<1>2. UNCHANGED <<socket, cleared, rpc, closer, queue, sent, outbuf>>
  BY DEF OnConfirm, Receive, BrokerHead, BrokerReads, BrokerConfirm, BrokerRefuse, BrokerKick,
     BrokerCloses, BrokerDiscard, BrokerOnCloseOk, chan, close, stream, sock
<1>3. c2s' = c2s \/ (c2s # <<>> /\ c2s' = Tail(c2s))
  BY DEF OnConfirm, BrokerHead, BrokerReads, BrokerConfirm, BrokerRefuse, BrokerKick,
     BrokerCloses, BrokerDiscard, BrokerOnCloseOk
<1>4. chunk' = chunk \/ (chunk # <<>> /\ chunk' = Tail(chunk))
  BY DEF OnConfirm, Receive, BrokerHead, BrokerConfirm, BrokerRefuse, BrokerKick,
     BrokerCloses, BrokerDiscard, BrokerOnCloseOk
<1>5. s2c' = s2c \/ \E f \in BrokerFrames : f.kind \notin Answer /\ s2c' = Append(s2c, f)
  <2>1. CASE OnConfirm \/ BrokerHead \/ BrokerDiscard \/ BrokerOnCloseOk
    BY <2>1 DEF OnConfirm, BrokerHead, BrokerDiscard, BrokerOnCloseOk
  <2>2. CASE BrokerConfirm
    <3>1. PICK i \in DOMAIN published, kind \in {"ack", "nack"}, m \in BOOLEAN :
            s2c' = Append(s2c, Confirmation(kind, i, m))
      BY <2>2 DEF BrokerConfirm
    <3>2. i \in Nat
      BY DEF TypeOK, TypeBroker
    <3>3. Confirmation(kind, i, m) \in BrokerFrames /\ Confirmation(kind, i, m).kind \notin Answer
      BY <3>2 DEF Confirmation, BrokerFrames, Answer
    <3> QED BY <3>1, <3>3
  <2>3. CASE BrokerRefuse \/ BrokerKick
    <3>1. PICK op \in Ops \cup {None} : s2c' = Append(s2c, FromBroker("close", op))
      <4>1. CASE BrokerRefuse
        <5>1. c2s # <<>> /\ Head(c2s).kind \in {"rpc", "body", "nowait"}
          BY <4>1 DEF BrokerRefuse, BrokerReads
        <5>2. Head(c2s).op \in Ops
          BY <5>1, <1>1, HeadTail, CallFrame
        <5> QED BY <4>1, <5>2 DEF BrokerRefuse, BrokerCloses
      <4>2. CASE BrokerKick
        BY <4>2 DEF BrokerKick, BrokerCloses
      <4> QED BY <2>3, <4>1, <4>2
    <3>2. FromBroker("close", op) \in BrokerFrames /\ FromBroker("close", op).kind \notin Answer
      BY DEF FromBroker, BrokerFrames, Answer
    <3> QED BY <3>1, <3>2
  <2> QED BY <2>1, <2>2, <2>3
<1>6. /\ Within(outbuf', outbuf, Request) /\ Within(c2s', c2s, Request)
      /\ Within(chunk', chunk, Answer)
  BY <1>1, <1>2, <1>3, <1>4, WithinFacts
<1>7. Within(s2c', s2c, Answer)
  <2>1. CASE s2c' = s2c
    BY <2>1, <1>1, WithinFacts
  <2>2. ASSUME NEW f \in BrokerFrames, f.kind \notin Answer, s2c' = Append(s2c, f)
        PROVE  Within(s2c', s2c, Answer)
    <3>1. Within(Append(s2c, f), s2c, Answer)
      BY <2>2, <1>1, WithinFacts
    <3> QED BY <2>2, <3>1
  <2> QED BY <2>1, <2>2, <1>5
<1> QED BY <1>2, <1>6, <1>7, SlotFewer

(* Every step keeps what is known of the slot.                             *)
LEMMA SlotStep ==
  ASSUME ChannelAssumption, TypeOK, Shape, SlotInv, [Next]_vars PROVE SlotInv'
<1>1. CASE UNCHANGED vars
  BY <1>1, SlotStill DEF vars, chan, close, stream, sock, wire
<1>2. CASE \/ \E op \in Ops : CallClosed(op)
           \/ Stall \/ FailWrite \/ AfterWrite
  BY <1>2, SlotStill DEF CallClosed, Stall, FailWrite, AfterWrite, chan, close, stream, sock, wire
<1>3. ASSUME NEW r \in Rpcs, Invoke(r) PROVE SlotInv'
  BY <1>3, SlotInvoke
<1>4. ASSUME NEW op \in Nowaits, InvokeNowait(op) PROVE SlotInv'
  BY <1>4, SlotOtherWrite DEF InvokeNowait, ChannelAssumption, Ops, chan, close, sock, wire
<1>5. ASSUME NEW op \in Pubs, BasicPublish(op) PROVE SlotInv'
  BY <1>5, SlotOtherWrite DEF BasicPublish, ChannelAssumption, Ops, chan, close, sock, wire
<1>6. CASE Close
  BY <1>6, SlotClose
<1>7. CASE WriteFrame \/ FinishWrite
  BY <1>7, SlotWriteFrame, SlotFinishWrite
<1>8. CASE StreamFinish \/ StreamFail \/ CloseImmediate
  BY <1>8, SlotStreamFinish, SlotStreamFail, SlotCloseImmediate
<1>9. CASE Drain \/ Bypass
  BY <1>9, SlotFlush DEF Drain, Bypass, chan, close, stream, sock
<1>10. CASE ReadChunk \/ OnReply
  BY <1>10, SlotReadChunk, SlotOnReply
<1>11. CASE OnCloseOk \/ OnChannelClose \/ OnUnexpected \/ SocketClosed \/ Lose \/ BrokerAbort
  BY <1>11, SlotReleased DEF OnCloseOk, OnChannelClose, OnUnexpected, SocketClosed, Lose,
     BrokerAbort, Clear, StreamAfterClear
<1>12. CASE OnConfirm \/ BrokerHead \/ BrokerConfirm \/ BrokerRefuse \/ BrokerKick
              \/ BrokerDiscard \/ BrokerOnCloseOk
  BY <1>12, SlotOtherFrames
<1>13. CASE BrokerServe \/ BrokerOnClose
  BY <1>13, SlotBrokerServe, SlotBrokerOnClose
<1> QED
  BY <1>1, <1>2, <1>3, <1>4, <1>5, <1>6, <1>7, <1>8, <1>9, <1>10, <1>11, <1>12, <1>13
  DEF Next, UserCall, EventLoop, BrokerStep, Environment

-----------------------------------------------------------------------------
(* Shape, from one step to the next.                                       *)
LEMMA ShapeStep ==
  ASSUME ChannelAssumption, TypeOK, Shape, [Next]_vars PROVE Shape'
<1>1. CASE UNCHANGED vars
  BY <1>1 DEF vars, chan, close, stream, sock, wire, Shape
<1>2. ASSUME NEW op \in Ops, CallClosed(op) PROVE Shape'
  BY <1>2 DEF CallClosed, chan, close, stream, sock, wire, Shape
<1>3. ASSUME NEW r \in Rpcs, Invoke(r) PROVE Shape'
  BY <1>3 DEF Invoke, Call, close, sock, wire, Shape
<1>4. ASSUME NEW op \in Nowaits, InvokeNowait(op) PROVE Shape'
  BY <1>4 DEF InvokeNowait, Call, chan, close, sock, wire, Shape
<1>5. ASSUME NEW op \in Pubs, BasicPublish(op) PROVE Shape'
  BY <1>5 DEF BasicPublish, Call, chan, close, sock, wire, Shape
<1>6. CASE Close
  BY <1>6 DEF Close, StartClose, sock, wire, Shape
<1>7. CASE WriteFrame
  BY <1>7 DEF WriteFrame, StreamBusy, chan, close, Shape
<1>8. CASE FinishWrite
  BY <1>8 DEF FinishWrite, StreamBusy, chan, close, sock, wire, Shape
<1>9. CASE FailWrite
  BY <1>9 DEF FailWrite, StreamBusy, chan, close, sock, wire, Shape
<1>10. CASE Stall \/ Drain \/ Bypass
  BY <1>10 DEF Stall, Drain, Bypass, chan, close, stream, sock, wire, Shape
<1>11. CASE AfterWrite
  BY <1>11 DEF AfterWrite, close, sock, wire, Shape
<1>12. CASE StreamFinish
  BY <1>12 DEF StreamFinish, ResumeClose, sock, Shape
<1>13. CASE StreamFail
  BY <1>13 DEF StreamFail, ResumeClose, CloserAfterError, sock, Shape
<1>14. CASE CloseImmediate
  BY <1>14 DEF CloseImmediate, ResumeClose, stream, sock, Shape
<1>15. CASE ReadChunk
  BY <1>15 DEF ReadChunk, chan, close, stream, sock, Shape
<1>16. CASE OnReply
  <2>1. ~active /\ phase = "open" => closer = "stream"
    BY DEF Shape
  <2>2. queue' # <<>> => phase # "closed"
    <3>1. phase = "closed" => queue' = queue
      BY <1>16 DEF OnReply, StartsNext
    <3> QED BY <3>1 DEF Shape
  <2>3. phase' = phase \/ (phase' = "ending" /\ phase = "open" /\ ~active)
    BY <1>16 DEF OnReply
  <2>4. UNCHANGED <<active, cleared, closer, sent, socket>>
    BY <1>16 DEF OnReply, close, sock
  <2>5. chunk # <<>>
    BY <1>16 DEF OnReply, Receive
  <2> QED BY <2>1, <2>2, <2>3, <2>4, <2>5 DEF Shape
<1>17. CASE OnCloseOk
  BY <1>17 DEF OnCloseOk, Receive, Clear, StreamAfterClear, sock, Shape
<1>18. CASE OnChannelClose
  BY <1>18 DEF OnChannelClose, Receive, Clear, StreamAfterClear, sock, Shape
<1>19. CASE OnConfirm
  BY <1>19 DEF OnConfirm, Receive, close, stream, sock, Shape
<1>20. CASE OnUnexpected
  BY <1>20 DEF OnUnexpected, close, stream, Shape
<1>21. CASE Lose
  BY <1>21 DEF Lose, Macrotask, chan, close, stream, Shape
<1>22. CASE SocketClosed
  BY <1>22 DEF SocketClosed, Clear, StreamAfterClear, chan, close, stream, wire, Shape
<1>23. CASE BrokerHead \/ BrokerServe \/ BrokerDiscard
  BY <1>23 DEF BrokerHead, BrokerServe, BrokerDiscard, chan, close, stream, sock, Shape
<1>24. CASE BrokerConfirm
  BY <1>24 DEF BrokerConfirm, chan, close, stream, sock, Shape
<1>25. CASE BrokerRefuse \/ BrokerKick
  BY <1>25 DEF BrokerRefuse, BrokerKick, BrokerCloses, chan, close, stream, sock, Shape
<1>26. CASE BrokerOnClose \/ BrokerOnCloseOk
  BY <1>26 DEF BrokerOnClose, BrokerOnCloseOk, chan, close, stream, sock, Shape
<1>27. CASE BrokerAbort
  BY <1>27 DEF BrokerAbort, Macrotask, chan, close, stream, Shape
<1> QED
  BY <1>1, <1>2, <1>3, <1>4, <1>5, <1>6, <1>7, <1>8, <1>9, <1>10, <1>11, <1>12, <1>13,
     <1>14, <1>15, <1>16, <1>17, <1>18, <1>19, <1>20, <1>21, <1>22, <1>23, <1>24, <1>25,
     <1>26, <1>27
  DEF Next, UserCall, EventLoop, BrokerStep, Environment

-----------------------------------------------------------------------------
(* The members of a sequence after each operation on it.                   *)
LEMMA ElemsFacts ==
  ASSUME NEW S, NEW s \in Seq(S)
  PROVE  /\ \A x \in S : Elems(Append(s, x)) = Elems(s) \cup {x}
         /\ s # <<>> => Head(s) \in Elems(s) /\ Elems(Tail(s)) \subseteq Elems(s)
         /\ \A n \in 1..Len(s) : /\ Elems(SubSeq(s, 1, n)) \subseteq Elems(s)
                                 /\ Elems(SubSeq(s, n + 1, Len(s))) \subseteq Elems(s)
<1>1. ASSUME NEW x \in S PROVE Elems(Append(s, x)) = Elems(s) \cup {x}
  <2> DEFINE t == Append(s, x)
  <2>1. /\ Len(s) \in Nat /\ DOMAIN s = 1..Len(s)
        /\ DOMAIN t = 1..(Len(s) + 1) /\ t[Len(s) + 1] = x
        /\ \A i \in 1..Len(s) : t[i] = s[i]
    OBVIOUS
  <2> HIDE DEF t
  <2>2. Elems(t) = Elems(s) \cup {x}
    <3>1. \A i \in DOMAIN t : t[i] \in Elems(s) \cup {x}
      BY <2>1 DEF Elems
    <3>2. \A i \in DOMAIN s : s[i] \in Elems(t)
      BY <2>1 DEF Elems
    <3>3. x \in Elems(t)
      BY <2>1 DEF Elems
    <3>4. Elems(t) \subseteq Elems(s) \cup {x}
      BY <3>1 DEF Elems
    <3>5. Elems(s) \cup {x} \subseteq Elems(t)
      BY <3>2, <3>3 DEF Elems
    <3> QED BY <3>4, <3>5
  <2> QED BY <2>2 DEF t
<1>2. ASSUME s # <<>> PROVE Head(s) \in Elems(s) /\ Elems(Tail(s)) \subseteq Elems(s)
  <2>1. Head(s) = s[1] /\ 1 \in DOMAIN s
    BY <1>2
  <2>2. \A i \in DOMAIN Tail(s) : i + 1 \in DOMAIN s /\ Tail(s)[i] = s[i + 1]
    BY <1>2
  <2> QED BY <2>1, <2>2 DEF Elems
<1>3. ASSUME NEW n \in 1..Len(s)
      PROVE  /\ Elems(SubSeq(s, 1, n)) \subseteq Elems(s)
             /\ Elems(SubSeq(s, n + 1, Len(s))) \subseteq Elems(s)
  <2>1. \A i \in DOMAIN SubSeq(s, 1, n) : i \in DOMAIN s /\ SubSeq(s, 1, n)[i] = s[i]
    OBVIOUS
  <2>2. \A i \in DOMAIN SubSeq(s, n + 1, Len(s)) :
          n + i \in DOMAIN s /\ SubSeq(s, n + 1, Len(s))[i] = s[n + i]
    OBVIOUS
  <2> QED BY <2>1, <2>2 DEF Elems
<1> QED BY <1>1, <1>2, <1>3

(* No step adds a reply to the wire but the broker's, for what it served.  *)
LEMMA RepliesFewer ==
  ASSUME RepliesServed, Elems(served) \subseteq Elems(served'),
         \A f \in Elems(s2c') \cup Elems(chunk') :
           f.kind = "reply" => f \in Elems(s2c) \cup Elems(chunk) \/ f.op \in Elems(served')
  PROVE  RepliesServed'
BY DEF RepliesServed

(* A reply on its way stays the reply to a request the broker has served.  *)
LEMMA RepliesStep ==
  ASSUME ChannelAssumption, TypeOK, RepliesServed, [Next]_vars PROVE RepliesServed'
<1>1. s2c \in Seq(BrokerFrames) /\ chunk \in Seq(BrokerFrames) /\ served \in Seq(Ops)
  BY DEF TypeOK, TypeWire, TypeBroker
<1>2. CASE UNCHANGED <<s2c, chunk, served>>
  BY <1>2, RepliesFewer
<1>3. CASE ReadChunk
  <2>1. PICK n \in 1..Len(s2c) : chunk' = SubSeq(s2c, 1, n) /\ s2c' = SubSeq(s2c, n + 1, Len(s2c))
    BY <1>3 DEF ReadChunk
  <2>2. served' = served
    BY <1>3 DEF ReadChunk, broker
  <2> QED BY <2>1, <2>2, <1>1, ElemsFacts, RepliesFewer
<1>4. CASE chunk # <<>> /\ chunk' = Tail(chunk) /\ UNCHANGED <<s2c, served>>
  BY <1>1, <1>4, ElemsFacts, RepliesFewer
<1>5. ASSUME NEW f \in BrokerFrames, f.kind # "reply", s2c' = Append(s2c, f),
             UNCHANGED <<chunk, served>>
      PROVE  RepliesServed'
  <2>1. Elems(s2c') = Elems(s2c) \cup {f}
    BY <1>1, <1>5, ElemsFacts
  <2> QED BY <2>1, <1>5, RepliesFewer
<1>6. CASE s2c' = <<>> /\ chunk' \in {chunk, <<>>} /\ served' = served
  <2>1. Elems(s2c') = {} /\ Elems(chunk') \subseteq Elems(chunk)
    BY <1>6 DEF Elems
  <2> QED BY <2>1, <1>6, RepliesFewer
<1>7. CASE BrokerServe
  <2> DEFINE g == Head(c2s)
             a == FromBroker("reply", g.op)
  <2>1. /\ c2s # <<>> /\ g.kind \in {"rpc", "body", "nowait"} /\ chunk' = chunk
        /\ served' = Append(served, g.op) /\ (s2c' = s2c \/ s2c' = Append(s2c, a))
    BY <1>7 DEF BrokerServe, BrokerReads
  <2>2. g \in ClientFrames /\ g.op \in Ops
    BY <2>1, HeadTail, CallFrame DEF TypeOK, TypeWire
  <2>3. Elems(served') = Elems(served) \cup {g.op}
    BY <2>1, <2>2, <1>1, ElemsFacts
  <2>4. a \in BrokerFrames /\ a.op = g.op
    BY <2>2 DEF FromBroker, BrokerFrames
  <2>5. Elems(s2c') \subseteq Elems(s2c) \cup {a}
    <3>1. Elems(Append(s2c, a)) = Elems(s2c) \cup {a}
      BY <2>4, <1>1, ElemsFacts
    <3> HIDE DEF a
    <3> QED BY <2>1, <3>1
  <2> HIDE DEF g, a
  <2> QED BY <2>1, <2>3, <2>4, <2>5, RepliesFewer
<1>8. ASSUME Next, ~ReadChunk, ~BrokerServe
      PROVE  \/ UNCHANGED <<s2c, chunk, served>>
             \/ chunk # <<>> /\ chunk' = Tail(chunk) /\ UNCHANGED <<s2c, served>>
             \/ \E f \in BrokerFrames : /\ f.kind # "reply" /\ s2c' = Append(s2c, f)
                                        /\ UNCHANGED <<chunk, served>>
             \/ s2c' = <<>> /\ chunk' \in {chunk, <<>>} /\ served' = served
  <2>1. CASE UserCall
    BY <2>1 DEF UserCall, CallClosed, Invoke, InvokeNowait, BasicPublish, Close, wire, broker
  <2>2. CASE \/ WriteFrame \/ FinishWrite \/ FailWrite \/ Drain
             \/ AfterWrite \/ StreamFinish \/ StreamFail \/ CloseImmediate
    BY <2>2 DEF WriteFrame, FinishWrite, FailWrite, Drain, AfterWrite, StreamFinish,
       StreamFail, CloseImmediate, wire, broker
  <2>3. CASE OnReply \/ OnCloseOk \/ OnChannelClose \/ OnConfirm
    BY <2>3 DEF OnReply, OnCloseOk, OnChannelClose, OnConfirm, Receive, wire, broker
  <2>4. CASE OnUnexpected \/ SocketClosed \/ Lose \/ BrokerAbort
    BY <2>4 DEF OnUnexpected, SocketClosed, Lose, BrokerAbort, wire, broker
  <2>5. CASE Stall \/ Bypass \/ BrokerHead \/ BrokerDiscard \/ BrokerOnCloseOk
    BY <2>5 DEF Stall, Bypass, BrokerHead, BrokerDiscard, BrokerOnCloseOk, wire, broker
  <2>6. CASE BrokerConfirm
    <3>1. PICK i \in DOMAIN published, kind \in {"ack", "nack"}, m \in BOOLEAN :
            s2c' = Append(s2c, Confirmation(kind, i, m)) /\ UNCHANGED <<chunk, served>>
      BY <2>6 DEF BrokerConfirm
    <3>2. i \in Nat
      BY DEF TypeOK, TypeBroker
    <3>3. Confirmation(kind, i, m) \in BrokerFrames /\ Confirmation(kind, i, m).kind # "reply"
      BY <3>2 DEF Confirmation, BrokerFrames
    <3> QED BY <3>1, <3>3
  <2>7. CASE BrokerRefuse \/ BrokerKick \/ BrokerOnClose
    <3>1. PICK op \in Ops \cup {None}, kind \in {"close", "closeOk"} :
            s2c' = Append(s2c, FromBroker(kind, op)) /\ UNCHANGED <<chunk, served>>
      <4>1. CASE BrokerRefuse
        <5>1. c2s # <<>> /\ Head(c2s).kind \in {"rpc", "body", "nowait"}
          BY <4>1 DEF BrokerRefuse, BrokerReads
        <5>2. Head(c2s).op \in Ops
          BY <5>1, HeadTail, CallFrame DEF TypeOK, TypeWire
        <5> QED BY <4>1, <5>2 DEF BrokerRefuse, BrokerCloses
      <4>2. CASE BrokerKick \/ BrokerOnClose
        BY <4>2 DEF BrokerKick, BrokerCloses, BrokerOnClose
      <4> QED BY <2>7, <4>1, <4>2
    <3>2. FromBroker(kind, op) \in BrokerFrames /\ FromBroker(kind, op).kind # "reply"
      BY DEF FromBroker, BrokerFrames
    <3> QED BY <3>1, <3>2
  <2> QED BY <1>8, <2>1, <2>2, <2>3, <2>4, <2>5, <2>6, <2>7
      DEF Next, EventLoop, BrokerStep, Environment
<1> QED BY <1>2, <1>3, <1>4, <1>5, <1>6, <1>7, <1>8 DEF vars, wire, broker

-----------------------------------------------------------------------------
(* A promise of a request is resolved by its own reply only.               *)
LEMMA FalseReplyStep ==
  ASSUME ChannelAssumption, TypeOK, ServiceInv, NoFalseReply, [Next]_vars
  PROVE  NoFalseReply'
<1>1. Elems(served) \subseteq Elems(served')
  <2>1. served' = served \/ BrokerServe
    BY DEF Next, UserCall, EventLoop, BrokerStep, Environment, vars, CallClosed, Invoke,
       InvokeNowait, BasicPublish, Close, WriteFrame, FinishWrite, FailWrite, Stall, Drain,
       Bypass, AfterWrite, StreamFinish, StreamFail, CloseImmediate, ReadChunk, OnReply,
       OnCloseOk, OnChannelClose, OnConfirm, OnUnexpected, Lose, SocketClosed, BrokerHead,
       BrokerConfirm, BrokerRefuse, BrokerKick, BrokerCloses, BrokerOnClose, BrokerDiscard,
       BrokerOnCloseOk, BrokerAbort, broker
  <2>2. CASE BrokerServe
    <3>1. c2s # <<>> /\ Head(c2s).kind \in {"rpc", "body", "nowait"}
          /\ served' = Append(served, Head(c2s).op)
      BY <2>2 DEF BrokerServe, BrokerReads
    <3>2. Head(c2s).op \in Ops /\ served \in Seq(Ops)
      BY <3>1, HeadTail, CallFrame DEF TypeOK, TypeWire, TypeBroker
    <3> QED BY <3>1, <3>2, ElemsFacts
  <2> QED BY <2>1, <2>2
<1>2. SUFFICES ASSUME NEW r \in Rpcs, promise'[r] = "resolved", promise[r] # "resolved"
               PROVE  r \in Elems(served')
  BY <1>1 DEF NoFalseReply
<1>3. r \in Ops /\ r \notin Pubs /\ r \notin Nowaits
  BY DEF Ops, ChannelAssumption
<1>4. ASSUME NEW T, NEW how, Settle(T, how) PROVE r \in T /\ how = "resolved"
  BY <1>2, <1>3, <1>4 DEF Settle
<1>5. promise' # promise
  BY <1>2
<1>6. CASE OnReply
  <2>1. /\ chunk # <<>> /\ ~cleared /\ Head(chunk).kind = "reply" /\ rpc \in Rpcs
        /\ Settle({rpc}, "resolved")
    BY <1>6 DEF OnReply, Receive, SameMethod
  <2>2. r = rpc
    BY <2>1, <1>4
  <2>3. SlotOnWire
    BY <2>1 DEF ServiceInv, SlotInv, Shape, Leased
  <2>4. chunk \in Seq(BrokerFrames)
    BY DEF TypeOK, TypeWire
  <2>5. Head(chunk).op = rpc
    BY <2>1, <2>3, <2>4, TailFacts DEF SlotOnWire, OnWireOnly, Answer
  <2>6. Head(chunk) \in Elems(chunk)
    BY <2>1, <2>4, ElemsFacts
  <2> QED BY <2>1, <2>2, <2>5, <2>6, <1>1 DEF ServiceInv, RepliesServed
<1>7. CASE AfterWrite
  <2>1. Head(written) \in Pubs
    BY <1>7, HeadTail DEF AfterWrite, TypeOK, TypeStream
  <2>2. promise' = promise \/ Settle({Head(written)}, "resolved")
    BY <1>7 DEF AfterWrite
  <2> QED BY <2>1, <2>2, <1>3, <1>4, <1>5
<1>8. CASE OnConfirm
  <2> DEFINE how == IF Head(chunk).kind = "ack" THEN "resolved" ELSE "rejected"
  <2>1. Settle(Hit(Head(chunk)), how)
    BY <1>8 DEF OnConfirm
  <2>2. Hit(Head(chunk)) \subseteq Pubs
    BY DEF Hit, TypeOK, TypeChannel
  <2> QED BY <2>1, <2>2, <1>3, <1>4
<1>9. ASSUME NEW op \in Nowaits, InvokeNowait(op) PROVE FALSE
  BY <1>9, <1>3, <1>4 DEF InvokeNowait, Call
<1>10. ASSUME NEW T, NEW how \in {"pending", "rejected"}, Settle(T, how) PROVE FALSE
  BY <1>10, <1>4
<1>11. CASE \/ \E op \in Ops : CallClosed(op)
            \/ \E op \in Rpcs : Invoke(op)
            \/ \E op \in Pubs : BasicPublish(op)
            \/ StreamFail \/ OnCloseOk \/ OnChannelClose \/ (SocketClosed /\ ~cleared)
  BY <1>11, <1>10 DEF CallClosed, Invoke, BasicPublish, Call, StreamFail, OnCloseOk,
     OnChannelClose, SocketClosed, Clear, StreamAfterClear
<1>12. CASE \/ Close \/ WriteFrame \/ FinishWrite \/ FailWrite \/ Stall \/ Drain \/ Bypass
            \/ StreamFinish \/ CloseImmediate \/ ReadChunk \/ OnUnexpected \/ Lose
            \/ (SocketClosed /\ cleared) \/ BrokerHead \/ BrokerServe \/ BrokerConfirm
            \/ BrokerRefuse \/ BrokerKick \/ BrokerOnClose \/ BrokerDiscard
            \/ BrokerOnCloseOk \/ BrokerAbort \/ UNCHANGED vars
  BY <1>5, <1>12 DEF Close, WriteFrame, FinishWrite, FailWrite, Stall, Drain, Bypass,
     StreamFinish, CloseImmediate, ReadChunk, OnUnexpected, Lose, SocketClosed, BrokerHead,
     BrokerServe, BrokerConfirm, BrokerRefuse, BrokerKick, BrokerCloses, BrokerOnClose,
     BrokerDiscard, BrokerOnCloseOk, BrokerAbort, vars, user
<1> QED
  BY <1>6, <1>7, <1>8, <1>9, <1>11, <1>12
  DEF Next, UserCall, EventLoop, BrokerStep, Environment

(* A request is put into the buffer behind another, and the next one is    *)
(* taken out when that one is answered.                                    *)
LEMMA BufferStep ==
  ASSUME ChannelAssumption, TypeOK, Shape, BufferBehindRpc, [Next]_vars PROVE BufferBehindRpc'
<1> SUFFICES ASSUME socket' = "up", active', phase' = "open", rpcBuffer' # <<>>
             PROVE  rpc' # None
  BY DEF BufferBehindRpc
<1>1. rpcBuffer \in Seq(Rpcs) /\ \A r \in Rpcs : r # None
  BY DEF TypeOK, TypeChannel, ChannelAssumption, Ops
<1>2. ASSUME NEW r \in Rpcs, Invoke(r) PROVE rpc' # None
  BY <1>1, <1>2 DEF Invoke, RpcBusy
<1>3. CASE OnReply
  <2>1. CASE StartsNext
    BY <1>1, <1>3, <2>1, HeadTail DEF OnReply, StartsNext
  <2>2. CASE ~StartsNext
    BY <1>3, <2>2 DEF OnReply, StartsNext
  <2> QED BY <2>1, <2>2
<1>4. CASE \/ StreamFinish \/ StreamFail \/ OnCloseOk \/ OnChannelClose
           \/ OnUnexpected \/ Lose \/ SocketClosed \/ BrokerAbort
  BY <1>4 DEF StreamFinish, StreamFail, OnCloseOk, OnChannelClose, OnUnexpected, Lose,
     SocketClosed, BrokerAbort, Clear, StreamAfterClear
<1>5. CASE CloseImmediate
  BY <1>5 DEF CloseImmediate, Shape, chan, stream
<1>6. CASE UNCHANGED <<socket, active, phase, rpcBuffer, rpc>>
  BY <1>6 DEF BufferBehindRpc
<1>7. CASE \/ \E op \in Ops : CallClosed(op)
           \/ \E op \in Nowaits : InvokeNowait(op)
           \/ \E op \in Pubs : BasicPublish(op)
           \/ Close \/ WriteFrame \/ FinishWrite \/ FailWrite
  BY <1>7 DEF CallClosed, InvokeNowait, BasicPublish, Call, Close, StartClose, WriteFrame,
     FinishWrite, FailWrite, chan, stream, sock, BufferBehindRpc
<1>8. CASE Stall \/ Drain \/ Bypass \/ AfterWrite \/ ReadChunk \/ OnConfirm
  BY <1>6, <1>8 DEF Stall, Drain, Bypass, AfterWrite, ReadChunk, OnConfirm, chan, stream, sock
<1>9. CASE \/ BrokerHead \/ BrokerServe \/ BrokerConfirm \/ BrokerRefuse \/ BrokerKick
           \/ BrokerOnClose \/ BrokerDiscard \/ BrokerOnCloseOk \/ UNCHANGED vars
  BY <1>6, <1>9 DEF BrokerHead, BrokerServe, BrokerConfirm, BrokerRefuse, BrokerKick,
     BrokerCloses, BrokerOnClose, BrokerDiscard, BrokerOnCloseOk, chan, stream, sock, vars
<1> QED
  BY <1>2, <1>3, <1>4, <1>5, <1>7, <1>8, <1>9
  DEF Next, UserCall, EventLoop, BrokerStep, Environment

-----------------------------------------------------------------------------
(* The invariant holds initially, and every step preserves it.             *)
LEMMA ServiceInit == ASSUME ChannelAssumption, Init PROVE ServiceInv /\ BufferBehindRpc /\ NoFalseReply
<1>1. SlotInv
  <2>1. Quiet
    BY EmptyFacts DEF Init, Quiet
  <2>2. OneInFlight
    BY EmptyFacts DEF Init, OneInFlight
  <2>3. \A i \in DOMAIN queue : ~Unsent(i)
    BY DEF Init
  <2>4. rpc = None
    BY DEF Init
  <2>5. SlotOnWire /\ SlotInStream /\ SlotEmpty
    BY <2>1, <2>3, <2>4 DEF SlotOnWire, SlotInStream, SlotEmpty, ChannelAssumption, Ops
  <2> QED BY <2>2, <2>5 DEF SlotInv
<1>2. RepliesServed
  BY DEF Init, RepliesServed, Elems
<1>3. Shape
  BY DEF Init, Shape
<1>4. BufferBehindRpc /\ NoFalseReply
  BY DEF Init, BufferBehindRpc, NoFalseReply, Ops
<1> QED BY <1>1, <1>2, <1>3, <1>4 DEF ServiceInv

(* Every step keeps the whole invariant.                                   *)
LEMMA ServiceStep == ASSUME ChannelAssumption, Service, [Next]_vars PROVE Service'
<1>1. TypeOK'
  BY TypeStep DEF Service
<1>2. SlotInv' /\ RepliesServed' /\ Shape'
  BY SlotStep, RepliesStep, ShapeStep DEF Service, ServiceInv
<1>3. BufferBehindRpc'
  BY BufferStep DEF Service, ServiceInv
<1>4. NoFalseReply'
  BY FalseReplyStep DEF Service
<1> QED BY <1>1, <1>2, <1>3, <1>4 DEF Service, ServiceInv

(* The slot, the stream, the wire and the broker agree, always, on which   *)
(* request is where; TLC checks the same invariant on a small instance.    *)
THEOREM ServiceCorrect == Spec => []Service
<1>1. Init => Service
  BY ServiceInit, TypeInit, ChannelAssumption DEF Service
<1>2. Service /\ [Next]_vars => Service'
  BY ServiceStep, ChannelAssumption
<1> QED BY <1>1, <1>2, PTL DEF Spec

(* While the id of the channel is leased at most one request, the          *)
(* channel.close included, is on its way or waits for its answer to be     *)
(* handled: _invoke never pipelines.                                       *)
THEOREM RequestsNotPipelined == Spec => []NoPipelining
<1>1. Service => NoPipelining
  BY DEF Service, ServiceInv, SlotInv, NoPipelining
<1> QED BY <1>1, ServiceCorrect, PTL

(* A request resolves only if the broker executed it, whatever was called  *)
(* before and after it and however the connection ends.                    *)
THEOREM RepliesGenuine == Spec => []NoFalseReply
<1>1. Service => NoFalseReply
  BY DEF Service
<1> QED BY <1>1, ServiceCorrect, PTL

(* No lost wake-up: a request in rpcBuffer of a channel that is open waits *)
(* behind one whose answer will start it.                                  *)
THEOREM BufferNotStranded == Spec => []BufferBehindRpc
<1>1. Service => BufferBehindRpc
  BY DEF Service
<1> QED BY <1>1, ServiceCorrect, PTL

-----------------------------------------------------------------------------
(* The errors of a channel, and how far they reach.                        *)

Last(s, kinds) == \A i \in DOMAIN s : s[i].kind \in kinds => i = Len(s)
Selects(f) == f.kind = "reply" /\ f.op \in Confirms
Selected(s) == \E i \in DOMAIN s : Selects(s[i])
Confirmations == {"ack", "nack"}
Preceded(s) == \A i \in DOMAIN s : s[i].kind \in Confirmations =>
                 \E j \in DOMAIN s : j < i /\ Selects(s[j])

(* A frame says what kind of call it carries.                              *)
Genuine(f) ==
  /\ f.kind = "rpc" <=> f.op \in Rpcs
  /\ f.kind = "nowait" <=> f.op \in Nowaits
  /\ f.kind \in {"head", "body"} <=> f.op \in Pubs
FramesGenuine == \A f \in Elems(c2s) \cup Elems(outbuf) : Genuine(f)

(* No close() of the client has come to its second half (ResumeClose).     *)
BeforeClose == closer \in {"idle", "stream", "immediate"}

(* What the client wrote until then: nothing after its close-ok, which it  *)
(* sends once, when it has cleared the channel.                            *)
Outgoing ==
  /\ rpc # ChannelClose /\ ~Has(c2s, {"close"}) /\ ~Has(outbuf, {"close"})
  /\ full \/ outbuf = <<>>
  /\ Last(c2s, {"closeOk"}) /\ Last(outbuf, {"closeOk"})
  /\ Has(c2s, {"closeOk"}) => outbuf = <<>>
  /\ Has(c2s, {"closeOk"}) \/ Has(outbuf, {"closeOk"}) => cleared
  /\ cleared => phase \in {"destroyed", "closed"}
  /\ bState # "closed" /\ (bState = "gone" => cleared /\ c2s = <<>> /\ outbuf = <<>>)

(* What the broker sent until then: nothing after its close.               *)
Arriving ==
  /\ ~Has(s2c, {"closeOk"}) /\ ~Has(chunk, {"closeOk"})
  /\ Last(s2c, {"close"}) /\ Last(chunk, {"close"}) /\ (Has(chunk, {"close"}) => s2c = <<>>)
  /\ Has(s2c, {"close"}) \/ Has(chunk, {"close"}) \/ cleared => bState # "open"
  /\ cleared => s2c = <<>> /\ chunk = <<>>

(* The reply to confirm.select comes before the first confirmation.        *)
SelectedFirst ==
  /\ published # <<>> => bConfirm
  /\ bConfirm => mode = "confirm" \/ Selected(chunk) \/ Selected(s2c)
  /\ mode = "confirm" \/ Preceded(chunk)
  /\ mode = "confirm" \/ Selected(chunk) \/ Preceded(s2c)
ConfirmsInPlace == Leased => SelectedFirst

(* Then the client has written its channel.close, and nothing after it; no *)
(* request and no reply is left.                                           *)
OutgoingEnd ==
  /\ phase = "closed" /\ (~cleared => rpc = ChannelClose)
  /\ ~Has(c2s, {"rpc", "closeOk"}) /\ ~Has(outbuf, {"rpc", "closeOk"})
  /\ full \/ outbuf = <<>>
  /\ Last(c2s, {"close"}) /\ Last(outbuf, {"close"})
  /\ Has(c2s, {"close"}) => outbuf = <<>>
  /\ bState = "closed" => c2s = <<>> /\ outbuf = <<>>

(* The broker sends nothing after its close-ok.                            *)
ArrivingEnd ==
  /\ ~Has(s2c, {"reply", "close"}) /\ ~Has(chunk, {"reply", "close"})
  /\ Last(s2c, {"closeOk"}) /\ Last(chunk, {"closeOk"})
  /\ Has(chunk, {"closeOk"}) => s2c = <<>>
  /\ Has(s2c, {"closeOk"}) \/ Has(chunk, {"closeOk"}) \/ cleared => bState # "open"
  /\ cleared => s2c = <<>> /\ chunk = <<>>

ContainedInv ==
  /\ closer = "final" => final # None
  /\ BeforeClose => ChannelErrorContained /\ (socket = "up" => Outgoing /\ Arriving)
  /\ ~BeforeClose /\ ~CloseCrossed =>
       ChannelErrorContained /\ (socket = "up" => OutgoingEnd /\ ArrivingEnd)

-----------------------------------------------------------------------------
(* Lemmas about sequences.                                                 *)

(* The members of a sequence, one by one.                                  *)
LEMMA ElemsParts ==
  ASSUME NEW S, NEW s \in Seq(S)
  PROVE  /\ Elems(<<>>) = {} /\ Elems(s) \subseteq S
         /\ \A x \in S : Elems(Append(s, x)) = Elems(s) \cup {x}
         /\ s # <<>> => Elems(s) = {Head(s)} \cup Elems(Tail(s))
<1>1. Elems(<<>>) = {} /\ Elems(s) \subseteq S
  BY DEF Elems
<1>2. ASSUME s # <<>> PROVE Elems(s) = {Head(s)} \cup Elems(Tail(s))
  <2> DEFINE t == Tail(s)
  <2>1. /\ DOMAIN s = 1..Len(s) /\ Len(s) \in Nat /\ Len(s) > 0 /\ Head(s) = s[1]
        /\ DOMAIN t = 1..(Len(s) - 1) /\ \A i \in 1..(Len(s) - 1) : t[i] = s[i + 1]
    BY <1>2
  <2> HIDE DEF t
  <2>2. \A i \in DOMAIN s : i = 1 \/ (i - 1 \in DOMAIN t /\ t[i - 1] = s[i])
    BY <2>1
  <2>3. \A i \in DOMAIN t : i + 1 \in DOMAIN s
    BY <2>1
  <2>4. Elems(s) \subseteq {Head(s)} \cup Elems(t)
    BY <2>1, <2>2 DEF Elems
  <2>5. {Head(s)} \cup Elems(t) \subseteq Elems(s)
    BY <2>1, <2>3 DEF Elems
  <2> QED BY <2>4, <2>5 DEF t
<1> QED BY <1>1, <1>2, ElemsFacts

-----------------------------------------------------------------------------
(* What never comes back.                                                  *)

(* A socket that is up now was up before.                                  *)
LEMMA StaysUp == ASSUME [Next]_vars, socket' = "up" PROVE socket = "up"
BY DEF Next, UserCall, EventLoop, BrokerStep, Environment, vars, CallClosed, Invoke,
   InvokeNowait, BasicPublish, Close, WriteFrame, FinishWrite, FailWrite, Stall, Drain,
   Bypass, AfterWrite, StreamFinish, StreamFail, CloseImmediate, ReadChunk, OnReply,
   OnCloseOk, OnChannelClose, OnConfirm, OnUnexpected, Lose, SocketClosed, BrokerHead,
   BrokerServe, BrokerConfirm, BrokerRefuse, BrokerKick, BrokerCloses, BrokerOnClose,
   BrokerDiscard, BrokerOnCloseOk, BrokerAbort, sock

(* A channel that has been cleared stays so.                               *)
LEMMA StaysCleared == ASSUME [Next]_vars, cleared PROVE cleared'
BY DEF Next, UserCall, EventLoop, BrokerStep, Environment, vars, CallClosed, Invoke,
   InvokeNowait, BasicPublish, Close, WriteFrame, FinishWrite, FailWrite, Stall, Drain,
   Bypass, AfterWrite, StreamFinish, StreamFail, CloseImmediate, ReadChunk, OnReply,
   OnCloseOk, OnChannelClose, OnConfirm, OnUnexpected, Lose, SocketClosed, Clear, BrokerHead,
   BrokerServe, BrokerConfirm, BrokerRefuse, BrokerKick, BrokerCloses, BrokerOnClose,
   BrokerDiscard, BrokerOnCloseOk, BrokerAbort, chan

-----------------------------------------------------------------------------
(* The frames on their way, by the end and by the beginning of a sequence. *)

(* Appending keeps Last when nothing of those kinds is there already.      *)
LEMMA AppendLast ==
  ASSUME NEW S, NEW s \in Seq(S), NEW f \in S, NEW K, ~Has(s, K)
  PROVE  Last(Append(s, f), K)
<1> DEFINE t == Append(s, f)
<1>1. /\ DOMAIN s = 1..Len(s) /\ Len(s) \in Nat
      /\ DOMAIN t = 1..(Len(s) + 1) /\ Len(t) = Len(s) + 1
      /\ \A i \in 1..Len(s) : t[i] = s[i]
  OBVIOUS
<1> HIDE DEF t
<1>2. Last(t, K)
  BY <1>1 DEF Last, Has
<1> QED BY <1>2 DEF t

(* Taking the first frame keeps Last.                                      *)
LEMMA TailLast ==
  ASSUME NEW S, NEW s \in Seq(S), s # <<>>, NEW K, Last(s, K)
  PROVE  Last(Tail(s), K) /\ (Head(s).kind \in K => Tail(s) = <<>>)
<1> DEFINE t == Tail(s)
<1>1. /\ DOMAIN s = 1..Len(s) /\ Len(s) \in Nat /\ Len(s) > 0 /\ Head(s) = s[1]
      /\ DOMAIN t = 1..(Len(s) - 1) /\ Len(t) = Len(s) - 1 /\ t \in Seq(S)
      /\ \A i \in 1..(Len(s) - 1) : t[i] = s[i + 1]
  OBVIOUS
<1> HIDE DEF t
<1>2. Len(t) = 0 => t = <<>>
  BY <1>1
<1>3. Last(t, K)
  <2>1. \A i \in DOMAIN t : i + 1 \in DOMAIN s /\ s[i + 1] = t[i]
    BY <1>1
  <2> QED BY <1>1, <2>1 DEF Last
<1>4. Head(s).kind \in K => t = <<>>
  <2>1. Head(s).kind \in K => Len(s) = 1
    BY <1>1 DEF Last
  <2> QED BY <1>1, <1>2, <2>1
<1> QED BY <1>3, <1>4 DEF t

(* Two sequences joined keep Last when the first has no such frame.        *)
LEMMA ConcatLast ==
  ASSUME NEW S, NEW s \in Seq(S), NEW t \in Seq(S), NEW K, Last(s, K), Last(t, K),
         Has(s, K) => t = <<>>
  PROVE  Last(s \o t, K)
<1> DEFINE u == s \o t
<1>1. /\ Len(s) \in Nat /\ DOMAIN s = 1..Len(s)
      /\ Len(t) \in Nat /\ DOMAIN t = 1..Len(t) /\ (t = <<>> => Len(t) = 0)
      /\ DOMAIN u = 1..(Len(s) + Len(t)) /\ Len(u) = Len(s) + Len(t)
      /\ \A i \in 1..Len(s) : u[i] = s[i]
      /\ \A i \in 1..Len(t) : u[Len(s) + i] = t[i]
  OBVIOUS
<1>2. \A i \in DOMAIN u : \/ i \in DOMAIN s /\ u[i] = s[i]
                          \/ i - Len(s) \in DOMAIN t /\ u[i] = t[i - Len(s)]
  BY <1>1
<1> HIDE DEF u
<1>3. ASSUME NEW i \in DOMAIN u, u[i].kind \in K PROVE i = Len(u)
  <2>1. CASE i \in DOMAIN s /\ u[i] = s[i]
    BY <1>1, <1>3, <2>1 DEF Last, Has
  <2>2. CASE i - Len(s) \in DOMAIN t /\ u[i] = t[i - Len(s)]
    <3>1. i - Len(s) = Len(t)
      BY <1>3, <2>2 DEF Last
    <3> QED BY <1>1, <3>1
  <2> QED BY <1>2, <2>1, <2>2
<1> QED BY <1>3 DEF Last, u

(* Two parts of a sequence.                                                *)
LEMMA SplitParts ==
  ASSUME NEW S, NEW s \in Seq(S), NEW n \in 1..Len(s)
  PROVE  LET a == SubSeq(s, 1, n)  b == SubSeq(s, n + 1, Len(s))
         IN  /\ a \in Seq(S) /\ b \in Seq(S) /\ Len(s) \in Nat /\ n \in Nat
             /\ DOMAIN s = 1..Len(s) /\ Len(a) = n /\ Len(b) = Len(s) - n
             /\ DOMAIN a = 1..n /\ DOMAIN b = 1..(Len(s) - n)
             /\ \A i \in 1..n : a[i] = s[i]
             /\ \A i \in 1..(Len(s) - n) : b[i] = s[n + i]
             /\ (Len(s) = n => b = <<>>)
OBVIOUS

(* Cutting a sequence in two keeps Last on both sides.                     *)
LEMMA SplitLast ==
  ASSUME NEW S, NEW s \in Seq(S), NEW n \in 1..Len(s), NEW K, Last(s, K)
  PROVE  LET a == SubSeq(s, 1, n)  b == SubSeq(s, n + 1, Len(s))
         IN  Last(a, K) /\ Last(b, K) /\ (Has(a, K) => b = <<>>)
<1> DEFINE a == SubSeq(s, 1, n)
           b == SubSeq(s, n + 1, Len(s))
<1>1. /\ Len(s) \in Nat /\ n \in Nat /\ n >= 1 /\ n <= Len(s)
      /\ DOMAIN s = 1..Len(s) /\ DOMAIN a = 1..n /\ DOMAIN b = 1..(Len(s) - n)
      /\ \A i \in 1..n : a[i] = s[i]
      /\ \A i \in 1..(Len(s) - n) : b[i] = s[n + i]
  BY SplitParts
<1>2. Len(a) = n /\ Len(b) = Len(s) - n
  BY SplitParts
<1>3. Len(s) = n => b = <<>>
  BY SplitParts
<1> HIDE DEF a, b
<1>4. ASSUME NEW i \in DOMAIN a, a[i].kind \in K PROVE i = n /\ n = Len(s)
  <2>1. i \in DOMAIN s /\ a[i] = s[i] /\ i \in Nat /\ i <= n
    BY <1>1
  <2>2. i = Len(s)
    BY <1>4, <2>1 DEF Last
  <2>3. i \in Nat /\ i <= n /\ n <= i /\ n \in Nat
    BY <1>1, <2>1, <2>2
  <2>4. i = n
    BY <2>3
  <2> QED BY <2>2, <2>4
<1>5. ASSUME NEW i \in DOMAIN b, b[i].kind \in K PROVE i = Len(s) - n
  <2>1. n + i \in DOMAIN s /\ s[n + i] = b[i] /\ i \in Nat
    BY <1>1
  <2>2. n + i = Len(s)
    BY <1>5, <2>1 DEF Last
  <2> QED BY <1>1, <2>1, <2>2
<1>6. Last(a, K)
  BY <1>2, <1>4 DEF Last
<1>7. Last(b, K)
  BY <1>2, <1>5 DEF Last
<1>8. Has(a, K) => b = <<>>
  BY <1>3, <1>4 DEF Has
<1> QED BY <1>6, <1>7, <1>8 DEF a, b

(* The reply to confirm.select, and what comes after it.                   *)
LEMMA AppendSelected ==
  ASSUME NEW S, NEW s \in Seq(S), NEW f \in S
  PROVE  /\ Selected(s) => Selected(Append(s, f))
         /\ Selects(f) => Selected(Append(s, f))
         /\ Preceded(s) /\ (f.kind \in Confirmations => Selected(s)) => Preceded(Append(s, f))
<1> DEFINE t == Append(s, f)
<1>1. /\ DOMAIN s = 1..Len(s) /\ Len(s) \in Nat
      /\ DOMAIN t = 1..(Len(s) + 1) /\ t[Len(s) + 1] = f
      /\ \A i \in 1..Len(s) : t[i] = s[i]
  OBVIOUS
<1> HIDE DEF t
<1>2. Selected(s) => Selected(t)
  BY <1>1 DEF Selected
<1>3. Selects(f) => Selected(t)
  BY <1>1 DEF Selected
<1>4. ASSUME Preceded(s), f.kind \in Confirmations => Selected(s) PROVE Preceded(t)
  <2> SUFFICES ASSUME NEW i \in DOMAIN t, t[i].kind \in Confirmations
               PROVE  \E j \in DOMAIN t : j < i /\ Selects(t[j])
    BY DEF Preceded
  <2>1. CASE i \in DOMAIN s
    <3>1. PICK j \in DOMAIN s : j < i /\ Selects(s[j])
      BY <1>1, <1>4, <2>1 DEF Preceded
    <3> QED BY <1>1, <3>1
  <2>2. CASE i = Len(s) + 1
    <3>1. PICK j \in DOMAIN s : Selects(s[j])
      BY <1>1, <1>4, <2>2 DEF Selected
    <3> QED BY <1>1, <2>2, <3>1
  <2> QED BY <1>1, <2>1, <2>2
<1> QED BY <1>2, <1>3, <1>4 DEF t

(* The first frame is no confirmation, and the rest keeps the order.       *)
LEMMA TailSelected ==
  ASSUME NEW S, NEW s \in Seq(S), s # <<>>
  PROVE  /\ Selected(s) => Selects(Head(s)) \/ Selected(Tail(s))
         /\ Preceded(s) => Head(s).kind \notin Confirmations
         /\ Preceded(s) => Selects(Head(s)) \/ Preceded(Tail(s))
<1> DEFINE t == Tail(s)
<1>1. /\ DOMAIN s = 1..Len(s) /\ Len(s) \in Nat /\ Len(s) > 0 /\ Head(s) = s[1]
      /\ DOMAIN t = 1..(Len(s) - 1) /\ \A i \in 1..(Len(s) - 1) : t[i] = s[i + 1]
  OBVIOUS
<1> HIDE DEF t
<1>2. \A j \in DOMAIN s : j = 1 \/ (j - 1 \in DOMAIN t /\ t[j - 1] = s[j])
  BY <1>1
<1>3. Selected(s) => Selects(Head(s)) \/ Selected(t)
  BY <1>1, <1>2 DEF Selected
<1>4. Preceded(s) => Head(s).kind \notin Confirmations
  BY <1>1 DEF Preceded
<1>5. ASSUME Preceded(s), ~Selects(Head(s)) PROVE Preceded(t)
  <2> SUFFICES ASSUME NEW i \in DOMAIN t, t[i].kind \in Confirmations
               PROVE  \E j \in DOMAIN t : j < i /\ Selects(t[j])
    BY DEF Preceded
  <2>1. i + 1 \in DOMAIN s /\ s[i + 1] = t[i] /\ i \in Nat
    BY <1>1
  <2>2. PICK j \in DOMAIN s : j < i + 1 /\ Selects(s[j])
    BY <1>5, <2>1 DEF Preceded
  <2>3. j # 1
    BY <1>1, <1>5, <2>2
  <2>4. j - 1 \in DOMAIN t /\ t[j - 1] = s[j] /\ j - 1 < i
    BY <1>1, <1>2, <2>1, <2>2, <2>3
  <2> QED BY <2>2, <2>4
<1> QED BY <1>3, <1>4, <1>5 DEF t

(* Cutting the stream keeps the reply before the first confirmation.       *)
LEMMA SplitSelected ==
  ASSUME NEW S, NEW s \in Seq(S), NEW n \in 1..Len(s)
  PROVE  LET a == SubSeq(s, 1, n)  b == SubSeq(s, n + 1, Len(s))
         IN  /\ Selected(s) => Selected(a) \/ Selected(b)
             /\ Preceded(s) => Preceded(a) /\ (Selected(a) \/ Preceded(b))
<1> DEFINE a == SubSeq(s, 1, n)
           b == SubSeq(s, n + 1, Len(s))
<1>1. /\ Len(s) \in Nat /\ n \in Nat /\ n >= 1 /\ n <= Len(s)
      /\ DOMAIN s = 1..Len(s) /\ DOMAIN a = 1..n /\ DOMAIN b = 1..(Len(s) - n)
      /\ \A i \in 1..n : a[i] = s[i]
      /\ \A i \in 1..(Len(s) - n) : b[i] = s[n + i]
  BY SplitParts
<1> HIDE DEF a, b
<1>2. \A j \in DOMAIN s : \/ j \in DOMAIN a /\ a[j] = s[j]
                          \/ j - n \in DOMAIN b /\ b[j - n] = s[j]
  BY SMTT(30), <1>1
<1>3. Selected(s) => Selected(a) \/ Selected(b)
  BY <1>2 DEF Selected
<1>4. ASSUME Preceded(s) PROVE Preceded(a)
  <2> SUFFICES ASSUME NEW i \in DOMAIN a, a[i].kind \in Confirmations
               PROVE  \E j \in DOMAIN a : j < i /\ Selects(a[j])
    BY DEF Preceded
  <2>1. PICK j \in DOMAIN s : j < i /\ Selects(s[j])
    BY <1>1, <1>4 DEF Preceded
  <2> QED BY <1>1, <2>1
<1>5. ASSUME Preceded(s), ~Selected(a) PROVE Preceded(b)
  <2> SUFFICES ASSUME NEW i \in DOMAIN b, b[i].kind \in Confirmations
               PROVE  \E j \in DOMAIN b : j < i /\ Selects(b[j])
    BY DEF Preceded
  <2>1. n + i \in DOMAIN s /\ s[n + i] = b[i] /\ i \in Nat
    BY <1>1
  <2>2. PICK j \in DOMAIN s : j < n + i /\ Selects(s[j])
    BY <1>5, <2>1 DEF Preceded
  <2>3. ~(j \in DOMAIN a /\ a[j] = s[j])
    BY <1>5, <2>2 DEF Selected
  <2>4. j - n \in DOMAIN b /\ b[j - n] = s[j] /\ j - n < i
    BY <1>1, <1>2, <2>1, <2>2, <2>3
  <2> QED BY <2>2, <2>4
<1> QED BY <1>3, <1>4, <1>5 DEF a, b

(* The elements of two sequences joined.                                   *)
LEMMA ElemsConcat ==
  ASSUME NEW S, NEW s \in Seq(S), NEW t \in Seq(S)
  PROVE  Elems(s \o t) = Elems(s) \cup Elems(t)
<1> DEFINE u == s \o t
<1>1. /\ Len(s) \in Nat /\ DOMAIN s = 1..Len(s) /\ Len(t) \in Nat /\ DOMAIN t = 1..Len(t)
      /\ DOMAIN u = 1..(Len(s) + Len(t))
      /\ \A i \in 1..Len(s) : u[i] = s[i]
      /\ \A i \in 1..Len(t) : u[Len(s) + i] = t[i]
  OBVIOUS
<1>2. \A i \in DOMAIN u : \/ i \in DOMAIN s /\ u[i] = s[i]
                          \/ i - Len(s) \in DOMAIN t /\ u[i] = t[i - Len(s)]
  BY <1>1
<1>3. \A i \in DOMAIN s : i \in DOMAIN u
  BY <1>1
<1>4. \A i \in DOMAIN t : Len(s) + i \in DOMAIN u
  BY <1>1
<1> HIDE DEF u
<1>5. Elems(u) \subseteq Elems(s) \cup Elems(t)
  BY <1>2 DEF Elems
<1>6. Elems(s) \subseteq Elems(u)
  BY <1>1, <1>3 DEF Elems
<1>7. Elems(t) \subseteq Elems(u)
  BY <1>1, <1>4 DEF Elems
<1> QED BY <1>5, <1>6, <1>7 DEF u

-----------------------------------------------------------------------------
(* Every frame on its way to the broker is what the client makes of a call.*)

(* The frames that a call is written as say what it is.                    *)
LEMMA FrameGenuine ==
  ASSUME ChannelAssumption
  PROVE  /\ \A op \in Ops, n \in Nat : Genuine(NextFrame(op, n))
         /\ Genuine(Frame("close", None)) /\ Genuine(Frame("closeOk", None))
BY DEF Genuine, NextFrame, Frame, ChannelAssumption, Ops

(* What is sent goes to the end of one of the two queues, or nowhere.      *)
LEMMA SendElems ==
  ASSUME TypeOK, NEW f \in ClientFrames, NEW isFull, Send(f, isFull)
  PROVE  Elems(c2s') \cup Elems(outbuf') \subseteq Elems(c2s) \cup Elems(outbuf) \cup {f}
<1>1. c2s \in Seq(ClientFrames) /\ outbuf \in Seq(ClientFrames)
  BY DEF TypeOK, TypeWire
<1> QED BY <1>1, ElemsParts DEF Send

(* Every frame on its way to the broker says what call it carries.         *)
LEMMA GenuineStep ==
  ASSUME ChannelAssumption, TypeOK, FramesGenuine, [Next]_vars PROVE FramesGenuine'
<1>1. c2s \in Seq(ClientFrames) /\ outbuf \in Seq(ClientFrames)
  BY DEF TypeOK, TypeWire
<1>2. ASSUME Elems(c2s') \cup Elems(outbuf') \subseteq Elems(c2s) \cup Elems(outbuf)
      PROVE  FramesGenuine'
  BY <1>2 DEF FramesGenuine
<1>3. ASSUME NEW f \in ClientFrames, NEW isFull, Send(f, isFull), Genuine(f)
      PROVE  FramesGenuine'
  BY <1>3, SendElems DEF FramesGenuine
<1>4. CASE WriteFrame
  <2>1. Head(queue) \in Ops /\ sent \in Nat /\ Send(NextFrame(Head(queue), sent), full')
    BY <1>4, HeadTail DEF WriteFrame, StreamBusy, TypeOK, TypeStream
  <2> QED BY <1>3, <2>1, NextFrameType, FrameGenuine
<1>5. ASSUME NEW slot, ResumeClose(slot) PROVE FramesGenuine'
  BY <1>2, <1>3, <1>5, CloseFrames, FrameGenuine DEF ResumeClose
<1>6. CASE StreamFinish \/ StreamFail \/ CloseImmediate
  BY <1>2, <1>5, <1>6 DEF StreamFinish, StreamFail, CloseImmediate
<1>7. CASE OnChannelClose
  BY <1>3, <1>7, CloseFrames, FrameGenuine DEF OnChannelClose
<1>8. CASE Drain \/ Bypass
  <2>1. c2s' = c2s \o outbuf /\ outbuf' = <<>>
    BY <1>8 DEF Drain, Bypass
  <2>2. Elems(c2s') = Elems(c2s) \cup Elems(outbuf) /\ Elems(outbuf') = {}
    BY <1>1, <2>1, ElemsConcat, ElemsParts
  <2> QED BY <1>2, <2>2
<1>9. CASE OnUnexpected \/ Lose \/ BrokerAbort
  <2>1. Elems(c2s') = {} /\ Elems(outbuf') = {}
    BY <1>9 DEF OnUnexpected, Lose, BrokerAbort, Elems
  <2> QED BY <1>2, <2>1
<1>10. CASE BrokerHead \/ BrokerServe \/ BrokerRefuse \/ BrokerOnClose \/ BrokerDiscard
            \/ BrokerOnCloseOk
  <2>1. c2s # <<>> /\ c2s' = Tail(c2s) /\ outbuf' = outbuf
    BY <1>10 DEF BrokerHead, BrokerServe, BrokerRefuse, BrokerOnClose, BrokerDiscard,
       BrokerOnCloseOk, BrokerReads
  <2>2. Elems(c2s') \subseteq Elems(c2s)
    BY <1>1, <2>1, ElemsParts
  <2> QED BY <1>2, <2>1, <2>2
<1>11. CASE UNCHANGED <<c2s, outbuf>>
  BY <1>2, <1>11
<1>12. CASE \/ UserCall \/ FinishWrite \/ FailWrite \/ AfterWrite \/ ReadChunk \/ OnReply
            \/ OnCloseOk \/ OnConfirm \/ SocketClosed \/ Stall \/ BrokerKick \/ BrokerConfirm
            \/ UNCHANGED vars
  BY <1>11, <1>12 DEF UserCall, CallClosed, Invoke, InvokeNowait, BasicPublish, Close,
     FinishWrite, FailWrite, AfterWrite, ReadChunk, OnReply, OnCloseOk, OnConfirm,
     SocketClosed, Stall, BrokerKick, BrokerConfirm, wire, vars
<1> QED
  BY <1>4, <1>6, <1>7, <1>8, <1>9, <1>10, <1>12
  DEF Next, EventLoop, BrokerStep, Environment

-----------------------------------------------------------------------------
(* Before the second half of close().                                      *)

(* It is never run twice.                                                  *)
LEMMA StaysBefore == ASSUME Shape, [Next]_vars, BeforeClose' PROVE BeforeClose
BY DEF BeforeClose, Shape, Next, UserCall, EventLoop, BrokerStep, Environment, vars, CallClosed, Invoke,
   InvokeNowait, BasicPublish, Close, StartClose, WriteFrame, FinishWrite, FailWrite, Stall,
   Drain, Bypass, AfterWrite, StreamFinish, StreamFail, ResumeClose, CloserAfterError,
   CloseImmediate, ReadChunk, OnReply, OnCloseOk, OnChannelClose, OnConfirm, OnUnexpected,
   Lose, SocketClosed, Clear, BrokerHead, BrokerServe, BrokerConfirm, BrokerRefuse,
   BrokerKick, BrokerCloses, BrokerOnClose, BrokerDiscard, BrokerOnCloseOk, BrokerAbort, close

(* Every frame that arrives has its place.                                 *)
LEMMA NothingUnexpected ==
  ASSUME ChannelAssumption, TypeOK, SlotInv, Shape, BeforeClose, socket = "up",
         Outgoing, Arriving, ConfirmsInPlace
  PROVE  ~OnUnexpected
<1> SUFFICES ASSUME chunk # <<>>, Unexpected(Head(chunk)) PROVE FALSE
  BY DEF OnUnexpected
<1> DEFINE f == Head(chunk)
<1>1. chunk \in Seq(BrokerFrames) /\ ~cleared /\ rpc \in Rpcs \cup {None}
          /\ mode \in {"normal", "confirm"}
  BY DEF TypeOK, TypeWire, TypeChannel, Arriving, Outgoing
<1>2. SlotOnWire /\ SlotEmpty
  BY <1>1 DEF SlotInv, Leased
<1>3. CASE f.kind = "reply"
  <2>1. Has(chunk, Answer)
    BY <1>1, <1>3, TailFacts DEF Answer
  <2>2. rpc \in Rpcs
    BY <1>1, <1>2, <2>1 DEF SlotEmpty, Quiet, BeforeClose
  <2>3. f.op = rpc
    BY <1>1, <1>2, <1>3, <2>2, TailFacts DEF SlotOnWire, OnWireOnly, Answer
  <2> QED BY <1>1, <1>3, <2>2, <2>3 DEF Unexpected, SameMethod
<1>4. CASE f.kind = "closeOk"
  <2>1. Has(chunk, {"closeOk"})
    BY <1>1, <1>4, TailFacts
  <2> QED BY <2>1 DEF Arriving
<1>5. CASE f.kind \in Confirmations
  <2>1. mode = "normal"
    BY <1>1, <1>5 DEF Unexpected, Confirmations
  <2>2. Preceded(chunk)
    BY <1>1, <2>1 DEF ConfirmsInPlace, SelectedFirst, Leased
  <2> QED BY <1>1, <1>5, <2>2, TailSelected
<1> QED BY <1>1, <1>3, <1>4, <1>5 DEF Unexpected, Confirmations

(* Neither is there a frame for a broker's channel that is closed.         *)
LEMMA NothingAborted == ASSUME socket = "up", Outgoing PROVE ~BrokerAbort
BY DEF Outgoing, BrokerAbort

(* What the client writes, from one step to the next.                      *)
LEMMA OutgoingStep ==
  ASSUME ChannelAssumption, TypeOK, Shape, SlotInv, BeforeClose, BeforeClose',
         socket = "up", socket' = "up", Outgoing, Arriving, ConfirmsInPlace, [Next]_vars
  PROVE  Outgoing'
<1> USE DEF Outgoing
<1>1. /\ c2s \in Seq(ClientFrames) /\ outbuf \in Seq(ClientFrames) /\ rpcBuffer \in Seq(Rpcs)
      /\ None # ChannelClose /\ ChannelClose \notin Rpcs
  BY DEF TypeOK, TypeWire, TypeChannel, ChannelAssumption, Ops
<1>2. ASSUME UNCHANGED <<c2s, outbuf, full, cleared, phase>>, rpc' = rpc \/ rpc' # ChannelClose,
             bState' = bState \/ bState' \notin {"closed", "gone"}
      PROVE  Outgoing'
  BY <1>2
<1>3. CASE \/ \E op \in Ops : CallClosed(op)
           \/ \E op \in Nowaits : InvokeNowait(op)
           \/ \E op \in Pubs : BasicPublish(op)
           \/ FinishWrite \/ AfterWrite \/ ReadChunk \/ OnConfirm \/ BrokerConfirm
           \/ BrokerKick \/ UNCHANGED vars
  BY <1>2, <1>3 DEF CallClosed, InvokeNowait, BasicPublish, FinishWrite, AfterWrite, ReadChunk,
     OnConfirm, BrokerConfirm, BrokerKick, BrokerCloses, chan, stream, sock, wire, broker, vars
<1>4. ASSUME NEW r \in Rpcs, Invoke(r) PROVE Outgoing'
  BY <1>1, <1>2, <1>4 DEF Invoke, sock, wire, broker
<1>5. CASE OnReply
  <2>1. rpc' # ChannelClose
    BY <1>1, <1>5, HeadTail DEF OnReply, StartsNext
  <2>2. UNCHANGED <<c2s, outbuf, full, cleared, bState>> /\ ~cleared
    BY <1>5 DEF OnReply, Receive, sock, broker
  <2> QED BY <2>1, <2>2
<1>6. CASE Close \/ StreamFinish \/ CloseImmediate
  BY <1>6 DEF Close, StartClose, StreamFinish, CloseImmediate, ResumeClose, Shape, BeforeClose,
     sock, wire, broker
<1>7. CASE OnCloseOk
  BY <1>7 DEF OnCloseOk
<1>8. CASE OnUnexpected \/ BrokerAbort \/ Lose \/ SocketClosed
  BY <1>8, NothingUnexpected, NothingAborted DEF Lose, SocketClosed
<1>9. CASE FailWrite \/ StreamFail
  <2>1. /\ UNCHANGED <<c2s, outbuf, full, cleared, bState>>
        /\ rpc' \in {rpc, None} /\ (cleared => phase' = "closed")
    BY <1>9 DEF FailWrite, StreamBusy, StreamFail, ResumeClose, BeforeClose, chan, sock, wire,
       broker
  <2> QED BY <1>1, <2>1
<1>10. CASE WriteFrame
  <2> DEFINE f == NextFrame(Head(queue), sent)
  <2>1. f \in ClientFrames /\ f.kind \notin {"close", "closeOk"}
    <3>1. Head(queue) \in Ops /\ sent \in Nat
      BY <1>10, HeadTail DEF WriteFrame, StreamBusy, TypeOK, TypeStream
    <3>2. f \in ClientFrames
      BY <3>1, NextFrameType
    <3> QED BY <3>2 DEF NextFrame, Frame
  <2> HIDE DEF f
  <2>2. /\ ~full /\ ~cleared /\ outbuf = <<>> /\ Send(f, full') /\ full' \in BOOLEAN
        /\ UNCHANGED <<rpc, cleared, phase, bState>>
    BY <1>10 DEF WriteFrame, StreamBusy, chan, broker, f, TypeOK, TypeFlags
  <2>3. /\ c2s' = IF full' THEN c2s ELSE Append(c2s, f)
        /\ outbuf' = IF full' THEN Append(outbuf, f) ELSE outbuf
    BY <2>2 DEF Send
  <2>4. /\ ~Has(Append(c2s, f), {"close"}) /\ ~Has(Append(c2s, f), {"closeOk"})
        /\ ~Has(Append(outbuf, f), {"close"}) /\ ~Has(Append(outbuf, f), {"closeOk"})
    BY <1>1, <2>1, <2>2, AppendFacts
  <2>5. Last(Append(c2s, f), {"closeOk"}) /\ Last(Append(outbuf, f), {"closeOk"})
    BY <2>4 DEF Last, Has
  <2> QED BY <2>2, <2>3, <2>4, <2>5
<1>11. CASE Stall
  BY <1>11 DEF Stall, chan, stream, wire, broker
<1>12. CASE Drain \/ Bypass
  <2>1. c2s' = c2s \o outbuf /\ outbuf' = <<>> /\ UNCHANGED <<rpc, cleared, phase, bState>>
    BY <1>12 DEF Drain, Bypass, chan, stream, broker
  <2>2. /\ ~Has(c2s', {"close"}) /\ ~Has(outbuf', {"close"}) /\ ~Has(outbuf', {"closeOk"})
        /\ Has(c2s', {"closeOk"}) => Has(c2s, {"closeOk"}) \/ Has(outbuf, {"closeOk"})
    BY <1>1, <2>1, ConcatFacts, EmptyFacts
  <2>3. Last(c2s', {"closeOk"}) /\ Last(outbuf', {"closeOk"})
    <3>1. Last(<<>>, {"closeOk"})
      BY DEF Last
    <3> QED BY <1>1, <2>1, <3>1, ConcatLast
  <2>4. bState = "gone" => c2s' = <<>>
    <3>1. <<>> \o <<>> = <<>>
      OBVIOUS
    <3> QED BY <2>1, <3>1
  <2> QED BY <2>1, <2>2, <2>3, <2>4
<1>13. CASE OnChannelClose
  <2> DEFINE f == Frame("closeOk", None)
  <2>1. f \in ClientFrames /\ f.kind = "closeOk"
    BY CloseFrames DEF Frame
  <2> HIDE DEF f
  <2>2. /\ ~cleared /\ cleared' /\ rpc' = None /\ phase' \in {"closed", "destroyed"}
        /\ Send(f, full) /\ full \in BOOLEAN /\ UNCHANGED <<full, bState>>
    BY <1>13 DEF OnChannelClose, Receive, Clear, EmptyAll, StreamAfterClear, sock, broker, f,
       TypeOK, TypeFlags
  <2>3. ~Has(c2s, {"closeOk"}) /\ ~Has(outbuf, {"closeOk"}) /\ bState \notin {"closed", "gone"}
    BY <2>2
  <2>4. /\ ~Has(Append(c2s, f), {"close"}) /\ ~Has(Append(outbuf, f), {"close"})
        /\ Last(Append(c2s, f), {"closeOk"}) /\ Last(Append(outbuf, f), {"closeOk"})
    BY <1>1, <2>1, <2>3, AppendFacts, AppendLast
  <2>5. CASE full
    <3>1. c2s' = c2s /\ outbuf' = Append(outbuf, f)
      BY <2>2, <2>5 DEF Send
    <3> QED BY <1>1, <2>2, <2>3, <2>4, <2>5, <3>1
  <2>6. CASE ~full
    <3>1. c2s' = Append(c2s, f) /\ outbuf' = outbuf /\ outbuf = <<>>
      BY <2>2, <2>6 DEF Send
    <3> QED BY <1>1, <2>2, <2>3, <2>4, <2>6, <3>1
  <2> QED BY <2>2, <2>5, <2>6
<1>14. ASSUME c2s # <<>>, c2s' = Tail(c2s), UNCHANGED <<outbuf, rpc, full, cleared, phase>>
       PROVE  /\ bState # "gone"
              /\ bState' \notin {"closed", "gone"} => Outgoing'
              /\ Head(c2s).kind = "closeOk" /\ bState' = "gone" => Outgoing'
  <2>1. /\ ~Has(c2s', {"close"})
        /\ Has(c2s', {"closeOk"}) => Has(c2s, {"closeOk"})
        /\ Head(c2s).kind = "closeOk" => Has(c2s, {"closeOk"})
    BY <1>1, <1>14, TailFacts
  <2>2. Last(c2s', {"closeOk"}) /\ (Head(c2s).kind = "closeOk" => c2s' = <<>>)
    BY <1>1, <1>14, TailLast
  <2> QED BY <1>14, <2>1, <2>2
<1>15. CASE BrokerHead \/ BrokerServe \/ BrokerRefuse \/ BrokerDiscard
  BY <1>14, <1>15 DEF BrokerHead, BrokerServe, BrokerRefuse, BrokerDiscard, BrokerCloses,
     BrokerReads, chan, stream, sock, broker
<1>16. CASE BrokerOnCloseOk
  BY <1>14, <1>16 DEF BrokerOnCloseOk, BrokerReads, chan, stream, sock
<1>17. CASE BrokerOnClose
  <2>1. c2s # <<>> /\ Head(c2s).kind \in {"close"}
    BY <1>17 DEF BrokerOnClose, BrokerReads
  <2> QED BY <1>1, <2>1, TailFacts
<1> QED
  BY <1>3, <1>4, <1>5, <1>6, <1>7, <1>8, <1>9, <1>10, <1>11, <1>12, <1>13, <1>15, <1>16, <1>17
  DEF Next, UserCall, EventLoop, BrokerStep, Environment

(* What the broker writes.                                                 *)
LEMMA ArrivingStep ==
  ASSUME ChannelAssumption, TypeOK, Shape, SlotInv, BeforeClose, BeforeClose',
         socket = "up", socket' = "up", Outgoing, Arriving, ConfirmsInPlace, [Next]_vars
  PROVE  Arriving'
<1> USE DEF Arriving
<1>1. s2c \in Seq(BrokerFrames) /\ chunk \in Seq(BrokerFrames)
  BY DEF TypeOK, TypeWire
<1>2. ASSUME UNCHANGED <<s2c, chunk, cleared>>, bState # "open" => bState' # "open"
      PROVE  Arriving'
  BY <1>2
<1>3. CASE \/ UserCall \/ WriteFrame \/ FinishWrite \/ FailWrite \/ AfterWrite \/ StreamFinish
           \/ StreamFail \/ CloseImmediate \/ Stall \/ Drain \/ Bypass \/ UNCHANGED vars
  BY <1>2, <1>3 DEF UserCall, CallClosed, Invoke, InvokeNowait, BasicPublish, Close, WriteFrame,
     FinishWrite, FailWrite, AfterWrite, StreamFinish, StreamFail, CloseImmediate, Stall, Drain,
     Bypass, chan, wire, broker, vars
<1>4. CASE BrokerHead \/ BrokerDiscard \/ BrokerOnCloseOk
  BY <1>2, <1>4 DEF BrokerHead, BrokerDiscard, BrokerOnCloseOk, chan, broker
<1>5. CASE OnCloseOk
  BY <1>5 DEF OnCloseOk, Outgoing
<1>6. CASE OnUnexpected \/ BrokerAbort \/ Lose \/ SocketClosed
  BY <1>6, NothingUnexpected, NothingAborted DEF Lose, SocketClosed
<1>7. CASE BrokerOnClose
  <2>1. c2s # <<>> /\ Head(c2s).kind \in {"close"} /\ c2s \in Seq(ClientFrames)
    BY <1>7 DEF BrokerOnClose, BrokerReads, TypeOK, TypeWire
  <2> QED BY <2>1, TailFacts DEF Outgoing
<1>8. CASE ReadChunk
  <2>1. PICK n \in 1..Len(s2c) :
          chunk' = SubSeq(s2c, 1, n) /\ s2c' = SubSeq(s2c, n + 1, Len(s2c))
    BY <1>8 DEF ReadChunk
  <2>2. chunk = <<>> /\ s2c # <<>> /\ UNCHANGED <<cleared, bState>>
    BY <1>8 DEF ReadChunk, Macrotask, chan, broker
  <2>3. /\ ~Has(s2c', {"closeOk"}) /\ ~Has(chunk', {"closeOk"})
        /\ Has(s2c', {"close"}) \/ Has(chunk', {"close"}) => Has(s2c, {"close"})
    BY <1>1, <2>1, SplitFacts
  <2>4. Last(s2c', {"close"}) /\ Last(chunk', {"close"}) /\ (Has(chunk', {"close"}) => s2c' = <<>>)
    BY <1>1, <2>1, SplitLast
  <2> QED BY <2>2, <2>3, <2>4
<1>9. ASSUME chunk # <<>>, chunk' = Tail(chunk), s2c' = s2c, bState' = bState
      PROVE  /\ cleared' = cleared => Arriving'
             /\ Head(chunk).kind = "close" => Arriving'
  <2>1. /\ ~Has(chunk', {"closeOk"})
        /\ Has(chunk', {"close"}) => Has(chunk, {"close"})
        /\ Head(chunk).kind = "close" => Has(chunk, {"close"})
    BY <1>1, <1>9, TailFacts
  <2>2. Last(chunk', {"close"}) /\ (Head(chunk).kind = "close" => chunk' = <<>>)
    BY <1>1, <1>9, TailLast
  <2> QED BY <1>9, <2>1, <2>2
<1>10. CASE OnReply \/ OnConfirm
  BY <1>9, <1>10 DEF OnReply, OnConfirm, Receive, broker
<1>11. CASE OnChannelClose
  BY <1>9, <1>11 DEF OnChannelClose, Receive, broker
<1>12. ASSUME NEW f \in BrokerFrames, s2c' = Append(s2c, f), UNCHANGED <<chunk, cleared>>,
              bState = "open", f.kind # "closeOk", f.kind = "close" => bState' # "open"
       PROVE  Arriving'
  <2>1. ~Has(s2c, {"close"}) /\ ~Has(chunk, {"close"}) /\ ~cleared
    BY <1>12
  <2>2. ~Has(s2c', {"closeOk"}) /\ (Has(s2c', {"close"}) => f.kind = "close")
    BY <1>1, <1>12, <2>1, AppendFacts
  <2>3. Last(s2c', {"close"})
    BY <1>1, <1>12, <2>1, AppendLast
  <2> QED BY <1>12, <2>1, <2>2, <2>3
<1>13. CASE BrokerConfirm
  <2>1. PICK i \in DOMAIN published, kind \in {"ack", "nack"}, m \in BOOLEAN :
          /\ s2c' = Append(s2c, Confirmation(kind, i, m)) /\ bState = "open"
          /\ UNCHANGED <<chunk, cleared>>
    BY <1>13 DEF BrokerConfirm, chan
  <2>2. Confirmation(kind, i, m) \in BrokerFrames
            /\ Confirmation(kind, i, m).kind \in {"ack", "nack"}
    BY DEF Confirmation, BrokerFrames, TypeOK, TypeBroker
  <2> QED BY <1>12, <2>1, <2>2
<1>14. CASE BrokerServe
  <2> DEFINE a == FromBroker("reply", Head(c2s).op)
  <2>1. /\ c2s # <<>> /\ Head(c2s).kind \in {"rpc", "body", "nowait"} /\ bState = "open"
        /\ (s2c' = s2c \/ s2c' = Append(s2c, a)) /\ UNCHANGED <<chunk, cleared, bState>>
    BY <1>14 DEF BrokerServe, BrokerReads, chan
  <2>2. Head(c2s).op \in Ops
    BY <2>1, HeadTail, CallFrame DEF TypeOK, TypeWire
  <2>3. a \in BrokerFrames /\ a.kind = "reply"
    BY <2>2 DEF FromBroker, BrokerFrames
  <2> HIDE DEF a
  <2> QED BY <1>2, <1>12, <2>1, <2>3
<1>15. CASE BrokerRefuse \/ BrokerKick
  <2>1. PICK op \in Ops \cup {None} : BrokerCloses(op) /\ bState = "open"
    <3>1. CASE BrokerRefuse
      <4>1. c2s # <<>> /\ Head(c2s).kind \in {"rpc", "body", "nowait"} /\ bState = "open"
            /\ BrokerCloses(Head(c2s).op)
        BY <3>1 DEF BrokerRefuse, BrokerReads
      <4>2. Head(c2s).op \in Ops
        BY <4>1, HeadTail, CallFrame DEF TypeOK, TypeWire
      <4> QED BY <4>1, <4>2
    <3>2. CASE BrokerKick
      BY <3>2 DEF BrokerKick
    <3> QED BY <1>15, <3>1, <3>2
  <2>2. FromBroker("close", op) \in BrokerFrames /\ FromBroker("close", op).kind = "close"
    BY DEF FromBroker, BrokerFrames
  <2> QED BY <1>12, <2>1, <2>2 DEF BrokerCloses, chan
<1> QED
  BY <1>3, <1>4, <1>5, <1>6, <1>7, <1>8, <1>10, <1>11, <1>13, <1>14, <1>15
  DEF Next, EventLoop, BrokerStep, Environment

(* The reply to confirm.select stays in front of the confirmations.        *)
LEMMA SelectedStep ==
  ASSUME ChannelAssumption, TypeOK, FramesGenuine, ConfirmsInPlace, [Next]_vars
  PROVE  ConfirmsInPlace'
<1> SUFFICES ASSUME Leased', SelectedFirst PROVE SelectedFirst'
  BY StaysUp, StaysCleared DEF Leased, ConfirmsInPlace
<1> USE DEF SelectedFirst
<1>1. /\ s2c \in Seq(BrokerFrames) /\ chunk \in Seq(BrokerFrames) /\ published \in Seq(Ops)
      /\ c2s \in Seq(ClientFrames)
  BY DEF TypeOK, TypeWire, TypeBroker
<1>2. ASSUME UNCHANGED <<s2c, chunk, mode, bConfirm, published>> PROVE SelectedFirst'
  BY <1>2
<1>3. CASE \/ UserCall \/ WriteFrame \/ FinishWrite \/ FailWrite \/ AfterWrite \/ StreamFinish
           \/ StreamFail \/ CloseImmediate \/ Stall \/ Drain \/ Bypass \/ UNCHANGED vars
  BY <1>2, <1>3 DEF UserCall, CallClosed, Invoke, InvokeNowait, BasicPublish, Close, WriteFrame,
     FinishWrite, FailWrite, AfterWrite, StreamFinish, StreamFail, CloseImmediate, Stall, Drain,
     Bypass, chan, wire, broker, vars
<1>4. CASE BrokerHead \/ BrokerDiscard \/ BrokerOnCloseOk
  BY <1>2, <1>4 DEF BrokerHead, BrokerDiscard, BrokerOnCloseOk, chan, broker
<1>5. CASE OnCloseOk \/ OnChannelClose
  BY <1>5 DEF OnCloseOk, OnChannelClose, Clear, Leased
<1>6. CASE OnUnexpected \/ BrokerAbort \/ Lose \/ SocketClosed
  BY <1>6 DEF OnUnexpected, BrokerAbort, Lose, SocketClosed, Leased
<1>8. CASE ReadChunk
  <2>1. PICK n \in 1..Len(s2c) :
          chunk' = SubSeq(s2c, 1, n) /\ s2c' = SubSeq(s2c, n + 1, Len(s2c))
    BY <1>8 DEF ReadChunk
  <2>2. chunk = <<>> /\ UNCHANGED <<mode, bConfirm, published>>
    BY <1>8 DEF ReadChunk, Macrotask, chan, broker
  <2>3. ~Selected(chunk)
    BY <2>2 DEF Selected
  <2>4. /\ Selected(s2c) => Selected(chunk') \/ Selected(s2c')
        /\ Preceded(s2c) => Preceded(chunk') /\ (Selected(chunk') \/ Preceded(s2c'))
    BY <1>1, <2>1, SplitSelected
  <2> QED BY <2>2, <2>3, <2>4
<1>9. CASE OnReply
  <2>1. /\ chunk # <<>> /\ chunk' = Tail(chunk) /\ Head(chunk).kind = "reply"
        /\ SameMethod(rpc, Head(chunk).op)
        /\ mode' = IF rpc \in Confirms THEN "confirm" ELSE mode
        /\ UNCHANGED <<s2c, bConfirm, published>>
    BY <1>9 DEF OnReply, Receive, broker
  <2>2. Selects(Head(chunk)) => mode' = "confirm"
    BY <2>1 DEF Selects, SameMethod
  <2>3. mode = "confirm" => mode' = "confirm"
    BY <2>1
  <2>4. /\ Selected(chunk) => Selects(Head(chunk)) \/ Selected(chunk')
        /\ Preceded(chunk) => Selects(Head(chunk)) \/ Preceded(chunk')
    BY <1>1, <2>1, TailSelected
  <2> QED BY <2>1, <2>2, <2>3, <2>4
<1>10. CASE OnConfirm
  BY <1>10 DEF OnConfirm, broker
<1>12. ASSUME NEW f \in BrokerFrames, s2c' = Append(s2c, f), UNCHANGED <<chunk, mode>>,
              f.kind \in Confirmations => bConfirm,
              published' # <<>> => bConfirm', bConfirm' => bConfirm \/ Selects(f)
       PROVE  SelectedFirst'
  <2>1. /\ Selected(s2c) => Selected(s2c')
        /\ Selects(f) => Selected(s2c')
        /\ Preceded(s2c) /\ (f.kind \in Confirmations => Selected(s2c)) => Preceded(s2c')
    BY <1>1, <1>12, AppendSelected
  <2> QED BY <1>12, <2>1
<1>11. CASE BrokerOnClose
  <2>1. s2c' = Append(s2c, FromBroker("closeOk", None))
        /\ UNCHANGED <<chunk, mode, bConfirm, published>>
    BY <1>11 DEF BrokerOnClose, chan
  <2>2. /\ FromBroker("closeOk", None) \in BrokerFrames
        /\ FromBroker("closeOk", None).kind = "closeOk"
    BY DEF FromBroker, BrokerFrames
  <2> QED BY <1>12, <2>1, <2>2 DEF Confirmations
<1>13. CASE BrokerConfirm
  <2>1. PICK i \in DOMAIN published, kind \in {"ack", "nack"}, m \in BOOLEAN :
          /\ s2c' = Append(s2c, Confirmation(kind, i, m))
          /\ UNCHANGED <<chunk, mode, bConfirm, published>>
    BY <1>13 DEF BrokerConfirm, chan
  <2>2. Confirmation(kind, i, m) \in BrokerFrames
    BY <1>1 DEF Confirmation, BrokerFrames
  <2>3. published # <<>>
    BY <2>1
  <2> QED BY <1>12, <2>1, <2>2, <2>3
<1>14. CASE BrokerServe
  <2> DEFINE f == Head(c2s)
             a == FromBroker("reply", f.op)
  <2>1. /\ c2s # <<>> /\ f.kind \in {"rpc", "body", "nowait"}
        /\ s2c' = IF f.kind = "rpc" THEN Append(s2c, a) ELSE s2c
        /\ bConfirm' = (bConfirm \/ f.op \in Confirms)
        /\ (f.kind = "body" /\ bConfirm) \/ published' = published
        /\ UNCHANGED <<chunk, mode>>
    BY <1>14 DEF BrokerServe, BrokerReads, chan
  <2>2. f.op \in Ops /\ f \in Elems(c2s)
    BY <1>1, <2>1, HeadTail, CallFrame, ElemsParts
  <2>3. a \in BrokerFrames /\ a.kind = "reply" /\ a.op = f.op
    BY <2>2 DEF FromBroker, BrokerFrames
  <2>4. Genuine(f)
    BY <2>2 DEF FramesGenuine
  <2> HIDE DEF f, a
  <2>5. f.op \in Confirms => f.kind = "rpc" /\ Selects(a)
    BY <2>3, <2>4 DEF Genuine, Selects, ChannelAssumption
  <2>6. bConfirm \in BOOLEAN /\ (published' # <<>> => bConfirm')
    BY <2>1 DEF TypeOK, TypeFlags
  <2>7. CASE f.kind = "rpc"
    <3>1. s2c' = Append(s2c, a) /\ a.kind \notin Confirmations
              /\ (bConfirm' => bConfirm \/ Selects(a))
      BY <2>1, <2>3, <2>5, <2>7 DEF Confirmations
    <3> QED BY <1>12, <2>1, <2>3, <2>6, <3>1
  <2>8. CASE f.kind # "rpc"
    <3>1. s2c' = s2c /\ bConfirm' = bConfirm
      BY <2>1, <2>5, <2>6, <2>8
    <3> QED BY <2>1, <2>6, <3>1
  <2> QED BY <2>7, <2>8
<1>15. CASE BrokerRefuse \/ BrokerKick
  <2>1. PICK op \in Ops \cup {None} : BrokerCloses(op)
    <3>1. CASE BrokerRefuse
      <4>1. c2s # <<>> /\ Head(c2s).kind \in {"rpc", "body", "nowait"} /\ BrokerCloses(Head(c2s).op)
        BY <3>1 DEF BrokerRefuse, BrokerReads
      <4>2. Head(c2s).op \in Ops
        BY <1>1, <4>1, HeadTail, CallFrame
      <4> QED BY <4>1, <4>2
    <3>2. CASE BrokerKick
      BY <3>2 DEF BrokerKick
    <3> QED BY <1>15, <3>1, <3>2
  <2>2. FromBroker("close", op) \in BrokerFrames /\ FromBroker("close", op).kind = "close"
    BY DEF FromBroker, BrokerFrames
  <2>3. /\ s2c' = Append(s2c, FromBroker("close", op))
        /\ UNCHANGED <<chunk, mode, bConfirm, published>>
    BY <2>1 DEF BrokerCloses, chan
  <2> QED BY <1>12, <2>2, <2>3 DEF Confirmations
<1> QED
  BY <1>3, <1>4, <1>5, <1>6, <1>8, <1>9, <1>10, <1>11, <1>13, <1>14, <1>15
  DEF Next, EventLoop, BrokerStep, Environment

-----------------------------------------------------------------------------
(* After it, when neither the broker closed the channel nor close() took a *)
(* request away.                                                           *)

(* What is over: the broker's close cannot be undone, nor the second half  *)
(* of close(), nor the end of the stream.                                  *)
LEMMA StaysUncrossed ==
  ASSUME ChannelAssumption, TypeOK, Shape, closer = "final" => final # None, [Next]_vars
  PROVE  /\ (closer = "final" => final # None)'
         /\ ~BeforeClose' /\ ~CloseCrossed' =>
              /\ ~ClosedByBroker /\ final' = None
              /\ ~BeforeClose => ~CloseCrossed
<1> USE DEF BeforeClose, CloseCrossed, ClosedByBroker
<1>1. TypeClose /\ rpc \in Rpcs \cup {None, ChannelClose}
  BY DEF TypeOK, TypeChannel
<1>2. CASE \/ UserCall \/ WriteFrame \/ FinishWrite \/ FailWrite \/ AfterWrite \/ Stall
           \/ Drain \/ Bypass \/ ReadChunk \/ OnReply \/ OnConfirm \/ OnUnexpected \/ Lose
           \/ UNCHANGED vars
  BY <1>1, <1>2 DEF UserCall, CallClosed, Invoke, InvokeNowait, BasicPublish, Close, StartClose,
     WriteFrame, FinishWrite, FailWrite, AfterWrite, Stall, Drain, Bypass, ReadChunk, OnReply,
     OnConfirm, OnUnexpected, Lose, close, broker, vars, TypeClose, Shape
<1>3. CASE OnCloseOk \/ OnChannelClose \/ SocketClosed
  BY <1>1, <1>3 DEF OnCloseOk, OnChannelClose, SocketClosed, Clear, close, broker, TypeClose
<1>4. CASE StreamFinish \/ StreamFail \/ CloseImmediate
  BY <1>1, <1>4 DEF StreamFinish, StreamFail, CloseImmediate, ResumeClose, CloserAfterError,
     broker, TypeClose, Shape
<1>5. CASE \/ BrokerHead \/ BrokerServe \/ BrokerConfirm \/ BrokerRefuse \/ BrokerKick
           \/ BrokerOnClose \/ BrokerDiscard \/ BrokerOnCloseOk \/ BrokerAbort
  BY <1>1, <1>5 DEF BrokerHead, BrokerServe, BrokerConfirm, BrokerRefuse, BrokerKick,
     BrokerCloses, BrokerOnClose, BrokerDiscard, BrokerOnCloseOk, BrokerAbort, close, broker,
     TypeClose
<1> QED BY <1>2, <1>3, <1>4, <1>5 DEF Next, EventLoop, BrokerStep, Environment

(* Three handlers run the second half of close().                          *)
LEMMA EndBegun ==
  ASSUME [Next]_vars, BeforeClose, ~BeforeClose'
  PROVE  StreamFinish \/ (StreamFail /\ closer = "stream") \/ CloseImmediate
<1>1. ASSUME StreamFail PROVE closer = "stream"
  BY <1>1 DEF StreamFail, CloserAfterError, BeforeClose
<1>2. CASE UserCall \/ OnCloseOk \/ OnChannelClose \/ SocketClosed
  BY <1>2 DEF UserCall, CallClosed, Invoke, InvokeNowait, BasicPublish, Close, StartClose,
     OnCloseOk, OnChannelClose, SocketClosed, Clear, BeforeClose, close
<1>3. CASE \/ WriteFrame \/ FinishWrite \/ FailWrite \/ AfterWrite \/ Stall \/ Drain \/ Bypass
           \/ ReadChunk \/ OnReply \/ OnConfirm \/ OnUnexpected \/ Lose \/ UNCHANGED vars
  BY <1>3 DEF WriteFrame, FinishWrite, FailWrite, AfterWrite, Stall, Drain, Bypass, ReadChunk,
     OnReply, OnConfirm, OnUnexpected, Lose, BeforeClose, close, vars
<1>4. CASE BrokerStep \/ BrokerConfirm \/ BrokerKick
  BY <1>4 DEF BrokerStep, BrokerHead, BrokerServe, BrokerConfirm, BrokerRefuse, BrokerKick,
     BrokerCloses, BrokerOnClose, BrokerDiscard, BrokerOnCloseOk, BrokerAbort, BeforeClose, close
<1> QED BY <1>1, <1>2, <1>3, <1>4 DEF Next, EventLoop, Environment

(* close() writes its channel.close on a silent channel.                   *)
LEMMA EndBegins ==
  ASSUME ChannelAssumption, TypeOK, Shape, SlotInv, BeforeClose, ~BeforeClose',
         ~CloseCrossed', socket = "up", Outgoing, Arriving, [Next]_vars
  PROVE  (OutgoingEnd /\ ArrivingEnd)'
<1>1. /\ c2s \in Seq(ClientFrames) /\ outbuf \in Seq(ClientFrames) /\ s2c \in Seq(BrokerFrames)
      /\ chunk \in Seq(BrokerFrames) /\ full \in BOOLEAN
      /\ bState \in {"open", "closing", "closed", "gone"}
  BY DEF TypeOK, TypeWire, TypeFlags, TypeBroker
<1>2. ~ClosedByBroker /\ final' = None
  BY StaysUncrossed DEF BeforeClose
<1>3. bState = "open" /\ ~cleared
  BY <1>1, <1>2 DEF ClosedByBroker, Outgoing, Arriving
<1>4. SlotInStream /\ SlotEmpty
  BY <1>3 DEF SlotInv, Leased
<1>5. PICK slot : /\ ResumeClose(slot)
                  /\ slot = None => Quiet
                  /\ phase' = "closed"
                  /\ UNCHANGED <<cleared, full, s2c, chunk, bState>>
  <2>1. StreamFinish \/ (StreamFail /\ closer = "stream") \/ CloseImmediate
    BY EndBegun
  <2>2. rpc = None => Quiet
    BY <1>4 DEF SlotEmpty, BeforeClose
  <2>3. CASE StreamFinish
    BY <2>2, <2>3 DEF StreamFinish, sock, broker
  <2>4. CASE StreamFail /\ closer = "stream"
    <3>1. phase = "errored" /\ sent = 0
      BY <1>3, <2>4 DEF StreamFail, Shape
    <3>2. Elems(queue) \cap Rpcs # {} => Quiet
      <4>1. \A i \in DOMAIN queue : queue[i] \in Rpcs => Unsent(i)
        BY <3>1 DEF Unsent
      <4> QED BY <1>4, <4>1 DEF SlotInStream, Elems
    <3> QED BY <2>2, <2>4, <3>2 DEF StreamFail, sock, broker
  <2>5. CASE CloseImmediate
    <3>1. phase = "closed"
      BY <2>5 DEF CloseImmediate, Macrotask, TickPending, Shape, TypeOK, TypeStream
    <3> QED BY <2>2, <2>5, <3>1 DEF CloseImmediate, stream, sock, broker
  <2> QED BY <2>1, <2>3, <2>4, <2>5
<1> DEFINE f == Frame("close", None)
<1>6. f \in ClientFrames /\ f.kind = "close"
  BY CloseFrames DEF Frame
<1>7. slot = None
  BY <1>2, <1>5 DEF ResumeClose
<1>8. rpc' = ChannelClose /\ Send(f, full) /\ Quiet
  BY <1>5, <1>7 DEF ResumeClose
<1> HIDE DEF f
<1>9. /\ ~Has(c2s, {"close"}) /\ ~Has(outbuf, {"close"})
      /\ ~Has(c2s, {"closeOk"}) /\ ~Has(outbuf, {"closeOk"})
      /\ ~Has(c2s, {"rpc"}) /\ ~Has(outbuf, {"rpc"})
  BY <1>3, <1>8 DEF Outgoing, Quiet, Has, Request
<1>10. /\ ~Has(c2s, {"rpc", "closeOk"}) /\ ~Has(outbuf, {"rpc", "closeOk"})
       /\ Last(c2s, {"close"}) /\ Last(outbuf, {"close"})
  BY <1>9 DEF Has, Last
<1>11. /\ ~Has(Append(c2s, f), {"rpc", "closeOk"}) /\ Last(Append(c2s, f), {"close"})
       /\ ~Has(Append(outbuf, f), {"rpc", "closeOk"}) /\ Last(Append(outbuf, f), {"close"})
  BY <1>1, <1>6, <1>9, <1>10, AppendFacts, AppendLast
<1>12. OutgoingEnd'
  <2>1. CASE full
    <3>1. c2s' = c2s /\ outbuf' = Append(outbuf, f)
      BY <1>8, <2>1 DEF Send, ResumeClose
    <3> QED BY <1>3, <1>5, <1>8, <1>9, <1>10, <1>11, <2>1, <3>1 DEF OutgoingEnd
  <2>2. CASE ~full
    <3>1. c2s' = Append(c2s, f) /\ outbuf' = outbuf /\ outbuf = <<>>
      BY <1>8, <2>2 DEF Send, Outgoing
    <3> QED BY <1>3, <1>5, <1>8, <1>9, <1>10, <1>11, <2>2, <3>1 DEF OutgoingEnd
  <2> QED BY <2>1, <2>2
<1>13. ArrivingEnd'
  <2>1. /\ ~Has(s2c, {"closeOk"}) /\ ~Has(chunk, {"closeOk"})
        /\ ~Has(s2c, {"close"}) /\ ~Has(chunk, {"close"})
        /\ ~Has(s2c, {"reply"}) /\ ~Has(chunk, {"reply"})
    BY <1>3, <1>8 DEF Arriving, Quiet, Has, Answer
  <2>2. /\ ~Has(s2c, {"reply", "close"}) /\ ~Has(chunk, {"reply", "close"})
        /\ Last(s2c, {"closeOk"}) /\ Last(chunk, {"closeOk"})
    BY <2>1 DEF Has, Last
  <2> QED BY <1>3, <1>5, <2>1, <2>2 DEF ArrivingEnd
<1> QED BY <1>12, <1>13

(* Then every frame that arrives has its place too, and the broker is not  *)
(* sent a frame for a channel that is closed.                              *)
LEMMA NothingMisplaced ==
  ASSUME TypeOK, ~CloseCrossed, socket = "up", OutgoingEnd, ArrivingEnd, ConfirmsInPlace,
         closer \in {"closeOk", "done"}
  PROVE  ~OnUnexpected /\ ~BrokerAbort
<1>1. ~BrokerAbort
  BY DEF BrokerAbort, OutgoingEnd, CloseCrossed, ClosedByBroker
<1>2. ASSUME chunk # <<>>, Unexpected(Head(chunk)) PROVE FALSE
  <2> DEFINE f == Head(chunk)
  <2>1. chunk \in Seq(BrokerFrames) /\ ~cleared /\ rpc = ChannelClose /\ mode \in {"normal", "confirm"}
    BY <1>2 DEF TypeOK, TypeWire, TypeChannel, ArrivingEnd, OutgoingEnd
  <2>2. f.kind # "reply"
    <3>1. f.kind = "reply" => Has(chunk, {"reply", "close"})
      BY <1>2, <2>1, TailFacts
    <3> QED BY <3>1 DEF ArrivingEnd
  <2>3. f.kind \in Confirmations => mode = "confirm"
    <3>1. mode = "confirm" \/ Preceded(chunk)
      BY <2>1 DEF ConfirmsInPlace, SelectedFirst, Leased
    <3> QED BY <1>2, <2>1, <3>1, TailSelected
  <2> QED BY <1>2, <2>1, <2>2, <2>3 DEF Unexpected, Confirmations
<1> QED BY <1>1, <1>2 DEF OnUnexpected

(* What the client writes then, from one step to the next.                 *)
LEMMA OutgoingEndStep ==
  ASSUME ChannelAssumption, TypeOK, Shape, closer \in {"closeOk", "done"}, ~CloseCrossed,
         ~CloseCrossed', closer' \in {"closeOk", "done"}, socket = "up", socket' = "up",
         OutgoingEnd, ArrivingEnd, ConfirmsInPlace, [Next]_vars
  PROVE  OutgoingEnd'
<1> USE DEF OutgoingEnd
<1>1. /\ c2s \in Seq(ClientFrames) /\ outbuf \in Seq(ClientFrames)
      /\ chunk \in Seq(BrokerFrames) /\ ~active /\ ~StreamBusy
  BY DEF TypeOK, TypeWire, Shape, StreamBusy
<1>2. ASSUME UNCHANGED <<c2s, outbuf, full, cleared, phase, rpc, bState>> PROVE OutgoingEnd'
  BY <1>2
<1>3. CASE \/ UserCall \/ AfterWrite \/ ReadChunk \/ OnConfirm \/ BrokerConfirm \/ Lose
           \/ UNCHANGED vars
  BY <1>1, <1>2, <1>3 DEF UserCall, CallClosed, Invoke, InvokeNowait, BasicPublish, Close, Call,
     AfterWrite, ReadChunk, OnConfirm, BrokerConfirm, Lose, chan, stream, sock, wire, broker, vars
<1>4. CASE WriteFrame \/ FinishWrite \/ FailWrite \/ StreamFinish \/ StreamFail \/ CloseImmediate
  BY <1>1, <1>4 DEF WriteFrame, FinishWrite, FailWrite, StreamFinish, StreamFail, CloseImmediate
<1>5. CASE OnReply \/ OnChannelClose
  <2>1. chunk # <<>> /\ Head(chunk).kind \in {"reply", "close"}
    BY <1>5 DEF OnReply, OnChannelClose, Receive
  <2> QED BY <1>1, <2>1, TailFacts DEF ArrivingEnd
<1>6. CASE OnCloseOk
  BY <1>6 DEF OnCloseOk, Clear, StreamAfterClear, sock, broker
<1>7. CASE OnUnexpected \/ BrokerAbort \/ SocketClosed
  BY <1>7, NothingMisplaced DEF SocketClosed
<1>8. CASE Stall
  BY <1>8 DEF Stall, chan, stream, wire, broker
<1>9. CASE Drain \/ Bypass
  <2>1. c2s' = c2s \o outbuf /\ outbuf' = <<>> /\ UNCHANGED <<rpc, cleared, phase, bState>>
    BY <1>9 DEF Drain, Bypass, chan, stream, broker
  <2>2. ~Has(c2s', {"rpc", "closeOk"}) /\ ~Has(outbuf', {"rpc", "closeOk"})
    BY <1>1, <2>1, ConcatFacts, EmptyFacts
  <2>3. Last(c2s', {"close"}) /\ Last(outbuf', {"close"})
    <3>1. Last(<<>>, {"close"})
      BY DEF Last
    <3> QED BY <1>1, <2>1, <3>1, ConcatLast
  <2>4. bState = "closed" => c2s' = <<>>
    <3>1. <<>> \o <<>> = <<>>
      OBVIOUS
    <3> QED BY <2>1, <3>1
  <2> QED BY <2>1, <2>2, <2>3, <2>4
<1>10. ASSUME c2s # <<>>, c2s' = Tail(c2s), UNCHANGED <<outbuf, rpc, full, cleared, phase>>
       PROVE  /\ bState # "closed"
              /\ bState' = bState => OutgoingEnd'
              /\ Head(c2s).kind = "close" => OutgoingEnd'
  <2>1. /\ Has(c2s', {"rpc", "closeOk"}) => Has(c2s, {"rpc", "closeOk"})
        /\ Has(c2s', {"close"}) => Has(c2s, {"close"})
        /\ Head(c2s).kind = "close" => Has(c2s, {"close"})
    BY <1>1, <1>10, TailFacts
  <2>2. Last(c2s', {"close"}) /\ (Head(c2s).kind = "close" => c2s' = <<>>)
    BY <1>1, <1>10, TailLast
  <2> QED BY <1>10, <2>1, <2>2
<1>11. CASE BrokerHead \/ BrokerServe
  BY <1>10, <1>11 DEF BrokerHead, BrokerServe, BrokerReads, chan, stream, sock
<1>12. CASE BrokerOnClose
  BY <1>10, <1>12 DEF BrokerOnClose, BrokerReads, chan, stream, sock
<1>13. CASE BrokerRefuse \/ BrokerKick \/ BrokerDiscard \/ BrokerOnCloseOk
  BY <1>13 DEF BrokerRefuse, BrokerKick, BrokerCloses, BrokerDiscard, BrokerOnCloseOk,
     CloseCrossed, ClosedByBroker
<1> QED
  BY <1>3, <1>4, <1>5, <1>6, <1>7, <1>8, <1>9, <1>11, <1>12, <1>13
  DEF Next, EventLoop, BrokerStep, Environment

(* What the broker writes then.                                            *)
LEMMA ArrivingEndStep ==
  ASSUME ChannelAssumption, TypeOK, Shape, closer \in {"closeOk", "done"}, ~CloseCrossed,
         ~CloseCrossed', closer' \in {"closeOk", "done"}, socket = "up", socket' = "up",
         OutgoingEnd, ArrivingEnd, ConfirmsInPlace, [Next]_vars
  PROVE  ArrivingEnd'
<1> USE DEF ArrivingEnd
<1>1. /\ s2c \in Seq(BrokerFrames) /\ chunk \in Seq(BrokerFrames) /\ c2s \in Seq(ClientFrames)
      /\ ~active /\ ~StreamBusy
  BY DEF TypeOK, TypeWire, Shape, StreamBusy, OutgoingEnd
<1>2. ASSUME UNCHANGED <<s2c, chunk, cleared, bState>> PROVE ArrivingEnd'
  BY <1>2
<1>3. CASE \/ UserCall \/ WriteFrame \/ FinishWrite \/ FailWrite \/ AfterWrite \/ StreamFinish
           \/ StreamFail \/ CloseImmediate \/ Stall \/ Drain \/ Bypass \/ UNCHANGED vars
  BY <1>2, <1>3 DEF UserCall, CallClosed, Invoke, InvokeNowait, BasicPublish, Close, WriteFrame,
     FinishWrite, FailWrite, AfterWrite, StreamFinish, StreamFail, CloseImmediate, Stall, Drain,
     Bypass, chan, wire, broker, vars
<1>4. CASE BrokerHead
  BY <1>2, <1>4 DEF BrokerHead, chan
<1>5. CASE OnUnexpected \/ BrokerAbort \/ Lose \/ SocketClosed
  BY <1>5, NothingMisplaced DEF Lose, SocketClosed
<1>6. CASE OnReply \/ OnChannelClose
  <2>1. chunk # <<>> /\ Head(chunk).kind \in {"reply", "close"}
    BY <1>6 DEF OnReply, OnChannelClose, Receive
  <2> QED BY <1>1, <2>1, TailFacts
<1>7. CASE ReadChunk
  <2>1. PICK n \in 1..Len(s2c) :
          chunk' = SubSeq(s2c, 1, n) /\ s2c' = SubSeq(s2c, n + 1, Len(s2c))
    BY <1>7 DEF ReadChunk
  <2>2. chunk = <<>> /\ s2c # <<>> /\ UNCHANGED <<cleared, bState>>
    BY <1>7 DEF ReadChunk, Macrotask, chan, broker
  <2>3. /\ ~Has(s2c', {"reply", "close"}) /\ ~Has(chunk', {"reply", "close"})
        /\ Has(s2c', {"closeOk"}) \/ Has(chunk', {"closeOk"}) => Has(s2c, {"closeOk"})
    BY <1>1, <2>1, SplitFacts
  <2>4. /\ Last(s2c', {"closeOk"}) /\ Last(chunk', {"closeOk"})
        /\ Has(chunk', {"closeOk"}) => s2c' = <<>>
    BY <1>1, <2>1, SplitLast
  <2> QED BY <2>2, <2>3, <2>4
<1>8. CASE OnConfirm \/ OnCloseOk
  <2>1. /\ chunk # <<>> /\ chunk' = Tail(chunk) /\ UNCHANGED <<s2c, bState>>
        /\ cleared' = cleared \/ Head(chunk).kind = "closeOk"
    BY <1>8 DEF OnConfirm, OnCloseOk, Receive, Clear, broker
  <2>2. /\ Has(chunk', {"reply", "close"}) => Has(chunk, {"reply", "close"})
        /\ Has(chunk', {"closeOk"}) => Has(chunk, {"closeOk"})
        /\ Head(chunk).kind = "closeOk" => Has(chunk, {"closeOk"})
    BY <1>1, <2>1, TailFacts
  <2>3. Last(chunk', {"closeOk"}) /\ (Head(chunk).kind = "closeOk" => chunk' = <<>>)
    BY <1>1, <2>1, TailLast
  <2> QED BY <2>1, <2>2, <2>3
<1>9. ASSUME NEW f \in BrokerFrames, s2c' = Append(s2c, f), UNCHANGED <<chunk, cleared>>,
             bState = "open", f.kind \notin {"reply", "close"},
             f.kind = "closeOk" => bState' # "open"
      PROVE  ArrivingEnd'
  <2>1. ~Has(s2c, {"closeOk"}) /\ ~Has(chunk, {"closeOk"}) /\ ~cleared
    BY <1>9
  <2>2. ~Has(s2c', {"reply", "close"}) /\ (Has(s2c', {"closeOk"}) => f.kind = "closeOk")
    BY <1>1, <1>9, <2>1, AppendFacts
  <2>3. Last(s2c', {"closeOk"})
    BY <1>1, <1>9, <2>1, AppendLast
  <2> QED BY <1>9, <2>1, <2>2, <2>3
<1>10. CASE BrokerConfirm
  <2>1. PICK i \in DOMAIN published, kind \in {"ack", "nack"}, m \in BOOLEAN :
          /\ s2c' = Append(s2c, Confirmation(kind, i, m)) /\ bState = "open"
          /\ UNCHANGED <<chunk, cleared>>
    BY <1>10 DEF BrokerConfirm, chan
  <2>2. Confirmation(kind, i, m) \in BrokerFrames
            /\ Confirmation(kind, i, m).kind \in {"ack", "nack"}
    BY DEF Confirmation, BrokerFrames, TypeOK, TypeBroker
  <2> QED BY <1>9, <2>1, <2>2
<1>11. CASE BrokerOnClose
  <2>1. /\ s2c' = Append(s2c, FromBroker("closeOk", None)) /\ bState = "open"
        /\ bState' = "closed" /\ UNCHANGED <<chunk, cleared>>
    BY <1>11 DEF BrokerOnClose, CloseCrossed, ClosedByBroker, chan
  <2>2. FromBroker("closeOk", None) \in BrokerFrames /\ FromBroker("closeOk", None).kind = "closeOk"
    BY DEF FromBroker, BrokerFrames
  <2> QED BY <1>9, <2>1, <2>2
<1>12. CASE BrokerServe
  <2>1. /\ c2s # <<>> /\ UNCHANGED <<chunk, cleared, bState>>
        /\ Head(c2s).kind # "rpc" => s2c' = s2c
    BY <1>12 DEF BrokerServe, BrokerReads, chan
  <2>2. Head(c2s).kind # "rpc"
    <3>1. Head(c2s).kind = "rpc" => Has(c2s, {"rpc", "closeOk"})
      BY <1>1, <2>1, TailFacts
    <3> QED BY <3>1 DEF OutgoingEnd
  <2> QED BY <1>2, <2>1, <2>2
<1>13. CASE BrokerRefuse \/ BrokerKick \/ BrokerDiscard \/ BrokerOnCloseOk
  BY <1>13 DEF BrokerRefuse, BrokerKick, BrokerCloses, BrokerDiscard, BrokerOnCloseOk,
     CloseCrossed, ClosedByBroker
<1> QED
  BY <1>3, <1>4, <1>5, <1>6, <1>7, <1>8, <1>10, <1>11, <1>12, <1>13
  DEF Next, EventLoop, BrokerStep, Environment

-----------------------------------------------------------------------------
(* Together.                                                               *)

(* Only two handlers cost the connection.                                  *)
LEMMA FaultStep ==
  ASSUME ChannelErrorContained, [Next]_vars, ~OnUnexpected, ~BrokerAbort
  PROVE  ChannelErrorContained'
BY DEF ChannelErrorContained, Next, UserCall, EventLoop, BrokerStep, Environment, vars,
   CallClosed, Invoke, InvokeNowait, BasicPublish, Close, WriteFrame, FinishWrite, FailWrite,
   Stall, Drain, Bypass, AfterWrite, StreamFinish, StreamFail, CloseImmediate, ReadChunk,
   OnReply, OnCloseOk, OnChannelClose, OnConfirm, Lose, SocketClosed, BrokerHead, BrokerServe,
   BrokerConfirm, BrokerRefuse, BrokerKick, BrokerCloses, BrokerOnClose, BrokerDiscard,
   BrokerOnCloseOk, sock

(* A step keeps the invariant of contained errors.                         *)
LEMMA ContainedStep ==
  ASSUME ChannelAssumption, Service, ConfirmsInPlace, ContainedInv, [Next]_vars
  PROVE  ContainedInv'
<1> USE DEF Service, ServiceInv
<1>1. /\ (closer = "final" => final # None)'
      /\ ~BeforeClose' /\ ~CloseCrossed' =>
           ~ClosedByBroker /\ final' = None /\ (~BeforeClose => ~CloseCrossed)
  BY StaysUncrossed DEF ContainedInv
<1>2. OnUnexpected \/ BrokerAbort => socket = "up"
  BY DEF OnUnexpected, BrokerAbort, Shape
<1>3. ASSUME BeforeClose
      PROVE  ChannelErrorContained' /\ (socket = "up" => Outgoing /\ Arriving)
  <2>1. ChannelErrorContained /\ (socket = "up" => Outgoing /\ Arriving)
    BY <1>3 DEF ContainedInv
  <2>2. ~OnUnexpected /\ ~BrokerAbort
    BY <1>2, <1>3, <2>1, NothingUnexpected, NothingAborted
  <2> QED BY <2>1, <2>2, FaultStep
<1>4. CASE BeforeClose'
  <2>1. BeforeClose
    BY <1>4, StaysBefore
  <2>2. socket' = "up" => (Outgoing /\ Arriving)'
    BY <1>3, <1>4, <2>1, StaysUp, OutgoingStep, ArrivingStep
  <2> QED BY <1>1, <1>3, <1>4, <2>1, <2>2 DEF ContainedInv
<1>5. CASE ~BeforeClose' /\ CloseCrossed'
  BY <1>1, <1>5 DEF ContainedInv
<1>6. CASE ~BeforeClose' /\ ~CloseCrossed'
  <2>1. CASE BeforeClose
    <3>1. socket' = "up" => (OutgoingEnd /\ ArrivingEnd)'
      BY <1>3, <1>6, <2>1, StaysUp, EndBegins
    <3> QED BY <1>1, <1>3, <1>6, <2>1, <3>1 DEF ContainedInv
  <2>2. CASE ~BeforeClose
    <3>1. ~CloseCrossed /\ ChannelErrorContained
              /\ (socket = "up" => OutgoingEnd /\ ArrivingEnd)
      BY <1>1, <1>6, <2>2 DEF ContainedInv
    <3>2. closer \in {"closeOk", "done"}
      BY <2>2, <3>1 DEF ContainedInv, BeforeClose, CloseCrossed, TypeOK, TypeClose
    <3>3. closer' \in {"closeOk", "done"}
      <4>1. TypeOK'
        BY TypeStep
      <4> QED BY <1>1, <1>6, <4>1 DEF BeforeClose, CloseCrossed, TypeOK, TypeClose
    <3>4. ~OnUnexpected /\ ~BrokerAbort
      BY <1>2, <3>1, <3>2, NothingMisplaced
    <3>5. ChannelErrorContained'
      BY <3>1, <3>4, FaultStep
    <3>6. socket' = "up" => (OutgoingEnd /\ ArrivingEnd)'
      BY <1>6, <3>1, <3>2, <3>3, StaysUp, OutgoingEndStep, ArrivingEndStep
    <3> QED BY <1>1, <1>6, <3>5, <3>6 DEF ContainedInv
  <2> QED BY <2>1, <2>2
<1> QED BY <1>4, <1>5, <1>6

(* The invariant of contained errors holds at the start.                   *)
LEMMA ContainedInit ==
  ASSUME ChannelAssumption, Init PROVE FramesGenuine /\ ConfirmsInPlace /\ ContainedInv
<1>1. FramesGenuine
  BY DEF Init, FramesGenuine, Elems
<1>2. \A K : ~Has(<<>>, K) /\ Last(<<>>, K)
  BY EmptyFacts DEF Last
<1>3. Outgoing
  BY <1>2 DEF Init, Outgoing, ChannelAssumption
<1>4. Arriving
  BY <1>2 DEF Init, Arriving
<1>5. Preceded(<<>>)
  BY DEF Preceded
<1>6. SelectedFirst
  BY <1>5 DEF Init, SelectedFirst
<1>7. ChannelErrorContained /\ closer = "idle"
  BY DEF Init, ChannelErrorContained
<1> QED
  BY <1>1, <1>3, <1>4, <1>6, <1>7 DEF ContainedInv, ConfirmsInPlace, BeforeClose

(* An error of a channel costs the connection only when a close() of the   *)
(* client has come to its channel.close and crossed a close of the broker, *)
(* or has taken the request in flight: before that neither side sees a     *)
(* frame it cannot place, whatever the broker refuses or closes and        *)
(* whichever calls cannot be encoded; and after it neither does, when the  *)
(* close() was one of a channel that nobody else had closed.               *)
THEOREM ErrorsStayOnChannel == Spec => []ErrorContained
<1> DEFINE I == FramesGenuine /\ ConfirmsInPlace /\ ContainedInv
<1>1. Init => I
  BY ContainedInit, ChannelAssumption
<1>2. Service /\ I /\ [Next]_vars => I'
  BY GenuineStep, SelectedStep, ContainedStep, ChannelAssumption DEF Service
<1>3. I => ErrorContained
  BY DEF ContainedInv, ErrorContained
<1> HIDE DEF I
<1> QED BY <1>1, <1>2, <1>3, ServiceCorrect, PTL DEF Spec

-----------------------------------------------------------------------------
(* The order in which calls reach the broker.                              *)

(* The frames on their way to the broker; a call is executed as the last   *)
(* of its frames is read.                                                  *)
OnTheWay == c2s \o outbuf
Final == {"rpc", "body", "nowait"}
Finals(s) == {f.op : f \in {g \in Elems(s) : g.kind \in Final}}
OrderedFrames(s, order) ==
  \A i, j \in DOMAIN s :
    i < j /\ s[i].kind \in Final /\ s[j].kind \in Final /\ SameLine(s[i].op, s[j].op)
      => <<s[i].op, s[j].op>> \in order

(* Where the calls of an open channel are: executed or on their way, in    *)
(* the stream, in the buffer.                                              *)
Reached == Elems(served) \cup Finals(OnTheWay)
Waiting == IF queue = <<>> THEN {}
           ELSE IF sent < FrameCount(Head(queue)) THEN Elems(queue) ELSE Elems(Tail(queue))

Live == bState = "open" /\ socket = "up"
Flowing == phase \in {"open", "ending"}

CallsOnce ==
  /\ \A i, j \in DOMAIN calls : calls[i] = calls[j] => i = j
  /\ \A op \in Elems(calls) : promise[op] # "none"

Passed ==
  /\ Ordered(served, Earlier) /\ OrderedFrames(OnTheWay, Earlier)
  /\ Ahead(Elems(served), Finals(OnTheWay), Earlier)
  /\ Reached \subseteq Elems(calls) /\ NoneSkipped(Reached, Earlier)

Coming ==
  /\ Ordered(queue, Earlier) /\ Ordered(rpcBuffer, Earlier) /\ Elems(queue) \subseteq Elems(calls)
  /\ Ahead(Reached, Waiting \cup Elems(rpcBuffer), Earlier)
  /\ Ahead(Elems(queue), Elems(rpcBuffer), Earlier)
  /\ Elems(calls) = Reached \cup Waiting \cup Elems(rpcBuffer)

(* Frames wait in the socket's buffer only while it is full, no write is   *)
(* partly sent when there is none, and a dead socket holds nothing.        *)
Tied ==
  /\ full \/ outbuf = <<>>
  /\ queue = <<>> => sent = 0
  /\ socket # "up" => c2s = <<>> /\ outbuf = <<>>

(* A channel the broker has open was not closed by a frame of either side. *)
Unended ==
  Live => ~cleared /\ ~Has(s2c, {"close", "closeOk"}) /\ ~Has(chunk, {"close", "closeOk"})

OrderInv ==
  CallsOnce /\ InCallOrder /\ (Live => Passed) /\ (Live /\ Flowing => Coming)

(* What the broker has read of a publish, then what is on its way, and     *)
(* whether the stream is between the frames of a publish.                  *)
Line == <<Frame(IF partial # None THEN "head" ELSE "none", partial)>> \o OnTheWay
Mid == queue # <<>> /\ Head(queue) \in Pubs /\ sent = 1

Paired(s) ==
  \A i \in 1..(Len(s) - 1) :
    /\ s[i].kind = "head" <=> s[i + 1].kind = "body"
    /\ s[i].kind = "head" => s[i + 1].op = s[i].op

WholeInv ==
  Live => /\ Paired(Line)
          /\ Line[Len(Line)].kind = "head" <=> Mid
          /\ Mid => Line[Len(Line)].op = Head(queue)

-----------------------------------------------------------------------------
(* Lemmas about order.                                                     *)

(* The order of a sequence that grows at its end.                          *)
LEMMA OrderedAppend ==
  ASSUME NEW S, NEW s \in Seq(S), NEW x \in S, NEW R, Ordered(s, R), Ahead(Elems(s), {x}, R)
  PROVE  Ordered(Append(s, x), R)
<1> DEFINE t == Append(s, x)
<1>1. /\ DOMAIN s = 1..Len(s) /\ Len(s) \in Nat
      /\ DOMAIN t = 1..(Len(s) + 1) /\ t[Len(s) + 1] = x /\ \A i \in 1..Len(s) : t[i] = s[i]
  OBVIOUS
<1> HIDE DEF t
<1>2. ASSUME NEW i \in DOMAIN t, NEW j \in DOMAIN t, i < j, SameLine(t[i], t[j])
      PROVE  <<t[i], t[j]>> \in R
  <2>1. i \in DOMAIN s /\ t[i] = s[i] /\ s[i] \in Elems(s)
    BY <1>1, <1>2 DEF Elems
  <2>2. CASE j \in DOMAIN s
    BY <1>1, <1>2, <2>1, <2>2 DEF Ordered
  <2>3. CASE j \notin DOMAIN s
    <3>1. t[j] = x
      BY <1>1, <2>3
    <3> QED BY <1>2, <2>1, <3>1 DEF Ahead
  <2> QED BY <2>2, <2>3
<1> QED BY <1>2 DEF Ordered, t

(* The order of a sequence that loses its first element.                   *)
LEMMA OrderedTail ==
  ASSUME NEW S, NEW s \in Seq(S), s # <<>>, NEW R, Ordered(s, R)
  PROVE  Ordered(Tail(s), R) /\ Ahead({Head(s)}, Elems(Tail(s)), R)
<1> DEFINE t == Tail(s)
<1>1. /\ DOMAIN s = 1..Len(s) /\ Len(s) \in Nat /\ Len(s) > 0 /\ Head(s) = s[1]
      /\ DOMAIN t = 1..(Len(s) - 1) /\ \A i \in 1..(Len(s) - 1) : t[i] = s[i + 1]
  OBVIOUS
<1> HIDE DEF t
<1>2. \A i \in DOMAIN t : i + 1 \in DOMAIN s /\ t[i] = s[i + 1] /\ 1 < i + 1 /\ i \in Nat
  BY <1>1
<1>3. Ordered(t, R)
  <2> SUFFICES ASSUME NEW i \in DOMAIN t, NEW j \in DOMAIN t, i < j, SameLine(t[i], t[j])
               PROVE  <<t[i], t[j]>> \in R
    BY DEF Ordered
  <2>1. i + 1 < j + 1
    BY <1>2
  <2> QED BY <1>2, <2>1 DEF Ordered
<1>4. Ahead({Head(s)}, Elems(t), R)
  <2>1. 1 \in DOMAIN s
    BY <1>1
  <2> QED BY <1>1, <1>2, <2>1 DEF Ahead, Ordered, Elems
<1> QED BY <1>3, <1>4 DEF t

(* The same of frames: the calls whose last frame is among them.           *)
LEMMA FramesAppend ==
  ASSUME NEW s \in Seq(ClientFrames), NEW f \in ClientFrames
  PROVE  /\ f.kind \in Final => Finals(Append(s, f)) = Finals(s) \cup {f.op}
         /\ f.kind \notin Final => Finals(Append(s, f)) = Finals(s)
         /\ \A R : OrderedFrames(s, R) /\ (f.kind \in Final => Ahead(Finals(s), {f.op}, R))
                     => OrderedFrames(Append(s, f), R)
<1> DEFINE t == Append(s, f)
<1>1. /\ DOMAIN s = 1..Len(s) /\ Len(s) \in Nat
      /\ DOMAIN t = 1..(Len(s) + 1) /\ t[Len(s) + 1] = f /\ \A i \in 1..Len(s) : t[i] = s[i]
  OBVIOUS
<1>2. Elems(t) = Elems(s) \cup {f}
  BY ElemsFacts
<1> HIDE DEF t
<1>3. /\ f.kind \in Final => Finals(t) = Finals(s) \cup {f.op}
      /\ f.kind \notin Final => Finals(t) = Finals(s)
  BY <1>2 DEF Finals
<1>4. ASSUME NEW R, OrderedFrames(s, R), f.kind \in Final => Ahead(Finals(s), {f.op}, R),
             NEW i \in DOMAIN t, NEW j \in DOMAIN t, i < j, t[i].kind \in Final,
             t[j].kind \in Final, SameLine(t[i].op, t[j].op)
      PROVE  <<t[i].op, t[j].op>> \in R
  <2>1. i \in DOMAIN s /\ t[i] = s[i] /\ s[i].op \in Finals(s)
    <3>1. i \in DOMAIN s /\ t[i] = s[i]
      BY <1>1, <1>4
    <3> QED BY <1>4, <3>1 DEF Elems, Finals
  <2>2. CASE j \in DOMAIN s
    BY <1>1, <1>4, <2>1, <2>2 DEF OrderedFrames
  <2>3. CASE j \notin DOMAIN s
    <3>1. t[j] = f
      BY <1>1, <2>3
    <3> QED BY <1>4, <2>1, <3>1 DEF Ahead
  <2> QED BY <2>2, <2>3
<1>5. \A R : OrderedFrames(s, R) /\ (f.kind \in Final => Ahead(Finals(s), {f.op}, R))
               => OrderedFrames(t, R)
  BY <1>4 DEF OrderedFrames
<1> QED BY <1>3, <1>5 DEF t

(* ... and of those that are left when the first frame is read.            *)
LEMMA FramesTail ==
  ASSUME NEW s \in Seq(ClientFrames), s # <<>>
  PROVE  /\ Head(s).kind \in Final => Finals(s) = Finals(Tail(s)) \cup {Head(s).op}
         /\ Head(s).kind \notin Final => Finals(s) = Finals(Tail(s))
         /\ \A R : OrderedFrames(s, R) =>
              /\ OrderedFrames(Tail(s), R)
              /\ Head(s).kind \in Final => Ahead({Head(s).op}, Finals(Tail(s)), R)
<1> DEFINE t == Tail(s)
<1>1. /\ DOMAIN s = 1..Len(s) /\ Len(s) \in Nat /\ Len(s) > 0 /\ Head(s) = s[1]
      /\ DOMAIN t = 1..(Len(s) - 1) /\ \A i \in 1..(Len(s) - 1) : t[i] = s[i + 1]
  OBVIOUS
<1>2. Elems(s) = Elems(t) \cup {Head(s)}
  BY ElemsParts
<1> HIDE DEF t
<1>3. \A i \in DOMAIN t : i + 1 \in DOMAIN s /\ t[i] = s[i + 1] /\ 1 < i + 1 /\ i \in Nat
  BY <1>1
<1>4. /\ Head(s).kind \in Final => Finals(s) = Finals(t) \cup {Head(s).op}
      /\ Head(s).kind \notin Final => Finals(s) = Finals(t)
  BY <1>2 DEF Finals
<1>5. ASSUME NEW R, OrderedFrames(s, R) PROVE OrderedFrames(t, R)
  <2> SUFFICES ASSUME NEW i \in DOMAIN t, NEW j \in DOMAIN t, i < j, t[i].kind \in Final,
                      t[j].kind \in Final, SameLine(t[i].op, t[j].op)
               PROVE  <<t[i].op, t[j].op>> \in R
    BY DEF OrderedFrames
  <2>1. i + 1 < j + 1
    BY <1>3
  <2> QED BY <1>3, <1>5, <2>1 DEF OrderedFrames
<1>6. ASSUME NEW R, OrderedFrames(s, R), Head(s).kind \in Final,
             NEW y \in Finals(t), SameLine(Head(s).op, y)
      PROVE  <<Head(s).op, y>> \in R
  <2>1. PICK i \in DOMAIN t : t[i].kind \in Final /\ t[i].op = y
    BY <1>6 DEF Finals, Elems
  <2>2. 1 \in DOMAIN s
    BY <1>1
  <2> QED BY <1>1, <1>3, <1>6, <2>1, <2>2 DEF OrderedFrames
<1> QED BY <1>4, <1>5, <1>6 DEF t, Ahead

(* A call is later than all calls before it, and never earlier than itself.*)
LEMMA EarlierAppend ==
  ASSUME calls \in Seq(Ops), NEW op \in Ops, calls' = Append(calls, op)
  PROVE  Earlier' = Earlier \cup (Elems(calls) \X {op}) /\ Elems(calls') = Elems(calls) \cup {op}
<1> DEFINE t == Append(calls, op)
<1>1. /\ DOMAIN calls = 1..Len(calls) /\ Len(calls) \in Nat
      /\ DOMAIN t = 1..(Len(calls) + 1) /\ t[Len(calls) + 1] = op
      /\ \A i \in 1..Len(calls) : t[i] = calls[i]
  OBVIOUS
<1>2. Elems(t) = Elems(calls) \cup {op}
  BY ElemsFacts
<1> HIDE DEF t
<1>3. calls' = t
  BY DEF t
<1>4. ASSUME NEW c \in Earlier' PROVE c \in Earlier \cup (Elems(calls) \X {op})
  <2>1. PICK i \in DOMAIN t, j \in DOMAIN t : i < j /\ c = <<t[i], t[j]>>
    BY <1>3 DEF Earlier
  <2>2. i \in DOMAIN calls /\ t[i] = calls[i]
    BY <1>1, <2>1
  <2>3. CASE j \in DOMAIN calls
    <3>1. t[j] = calls[j]
      BY <1>1, <2>3
    <3> QED BY <2>1, <2>2, <2>3, <3>1 DEF Earlier, Elems
  <2>4. CASE j \notin DOMAIN calls
    <3>1. t[j] = op
      BY <1>1, <2>4
    <3> QED BY <2>1, <2>2, <3>1 DEF Elems
  <2> QED BY <2>3, <2>4
<1>5. ASSUME NEW c \in Earlier PROVE c \in Earlier'
  <2>1. PICK i \in DOMAIN calls, j \in DOMAIN calls : i < j /\ c = <<calls[i], calls[j]>>
    BY DEF Earlier
  <2>2. i \in DOMAIN t /\ j \in DOMAIN t /\ c = <<t[i], t[j]>>
    BY <1>1, <2>1
  <2> QED BY <1>3, <2>1, <2>2 DEF Earlier, Elems
<1>6. ASSUME NEW c \in Elems(calls) \X {op} PROVE c \in Earlier'
  <2>1. PICK i \in DOMAIN calls : c = <<calls[i], op>>
    BY DEF Elems
  <2>2. /\ i \in DOMAIN t /\ Len(calls) + 1 \in DOMAIN t /\ i < Len(calls) + 1
        /\ c = <<t[i], t[Len(calls) + 1]>>
    BY <1>1, <2>1
  <2> QED BY <1>3, <2>2 DEF Earlier, Elems
<1> QED BY <1>2, <1>3, <1>4, <1>5, <1>6

(* No call is earlier than itself, nor than a call that is earlier.        *)
LEMMA EarlierStrict ==
  ASSUME calls \in Seq(Ops), CallsOnce, NEW a, NEW b, <<a, b>> \in Earlier
  PROVE  a # b /\ <<b, a>> \notin Earlier
<1>1. PICK i \in DOMAIN calls, j \in DOMAIN calls : i < j /\ a = calls[i] /\ b = calls[j]
  BY DEF Earlier
<1>2. DOMAIN calls \subseteq Nat
  OBVIOUS
<1>3. a # b
  BY <1>1, <1>2 DEF CallsOnce
<1>4. ASSUME <<b, a>> \in Earlier PROVE FALSE
  <2>1. PICK k \in DOMAIN calls, l \in DOMAIN calls : k < l /\ b = calls[k] /\ a = calls[l]
    BY <1>4 DEF Earlier
  <2>2. k = j /\ l = i
    BY <1>1, <2>1 DEF CallsOnce
  <2> QED BY <1>1, <1>2, <2>1, <2>2
<1> QED BY <1>3, <1>4

(* The same of an order that knows more.                                   *)
LEMMA OrderGrows ==
  ASSUME NEW R, NEW T, R \subseteq T
  PROVE  /\ \A s : Ordered(s, R) => Ordered(s, T)
         /\ \A s : OrderedFrames(s, R) => OrderedFrames(s, T)
         /\ \A A, B : Ahead(A, B, R) => Ahead(A, B, T)
BY DEF Ordered, OrderedFrames, Ahead
-----------------------------------------------------------------------------
(* What a step does to the frames on their way.                            *)

(* A frame that is sent goes behind all others.                            *)
LEMMA SendOnTheWay ==
  ASSUME TypeWire, NEW f \in ClientFrames, NEW isFull \in BOOLEAN, socket = "up",
         isFull \/ outbuf = <<>>, Send(f, isFull)
  PROVE  OnTheWay' = Append(OnTheWay, f)
<1>1. c2s \in Seq(ClientFrames) /\ outbuf \in Seq(ClientFrames)
  BY DEF TypeWire
<1>2. CASE isFull
  <2>1. outbuf' = Append(outbuf, f) /\ c2s' = c2s
    BY <1>2 DEF Send
  <2>2. c2s \o Append(outbuf, f) = Append(c2s \o outbuf, f)
    BY <1>1
  <2> QED BY <2>1, <2>2 DEF OnTheWay
<1>3. CASE ~isFull
  <2>1. outbuf = <<>> /\ outbuf' = <<>> /\ c2s' = Append(c2s, f)
    BY <1>3 DEF Send
  <2>2. c2s \o <<>> = c2s /\ Append(c2s, f) \o <<>> = Append(c2s, f)
    BY <1>1
  <2> QED BY <2>1, <2>2 DEF OnTheWay
<1> QED BY <1>2, <1>3

(* The broker reads the first of them.                                     *)
LEMMA ReadOnTheWay ==
  ASSUME TypeWire, c2s # <<>>, c2s' = Tail(c2s), outbuf' = outbuf
  PROVE  /\ OnTheWay # <<>> /\ OnTheWay' = Tail(OnTheWay) /\ Head(OnTheWay) = Head(c2s)
<1>1. c2s \in Seq(ClientFrames) /\ outbuf \in Seq(ClientFrames)
  BY DEF TypeWire
<1>2. Tail(c2s) \o outbuf = Tail(c2s \o outbuf)
  BY <1>1
<1>3. c2s \o outbuf # <<>> /\ Head(c2s \o outbuf) = Head(c2s)
  BY <1>1
<1> QED BY <1>2, <1>3 DEF OnTheWay

(* The socket's buffer goes out after them.                                *)
LEMMA FlushOnTheWay ==
  ASSUME TypeWire, c2s' = c2s \o outbuf, outbuf' = <<>>
  PROVE  OnTheWay' = OnTheWay
<1>1. c2s \o outbuf \in Seq(ClientFrames)
  BY DEF TypeWire
<1> DEFINE u == c2s \o outbuf
<1> HIDE DEF u
<1>2. u \o <<>> = u
  BY <1>1 DEF u
<1> QED BY <1>2 DEF OnTheWay, u

(* What is on the wire is a sequence of frames.                            *)
LEMMA WireType == ASSUME TypeWire PROVE OnTheWay \in Seq(ClientFrames)
BY DEF TypeWire, OnTheWay

(* Nothing is kept where Tied says that nothing is.                        *)
LEMMA TiedStep ==
  ASSUME ChannelAssumption, TypeOK, Tied, [Next]_vars PROVE Tied'
<1> USE DEF Tied
<1>1. queue \in Seq(Ops) /\ rpcBuffer \in Seq(Rpcs) /\ c2s \in Seq(ClientFrames)
          /\ outbuf \in Seq(ClientFrames)
  BY DEF TypeOK, TypeStream, TypeChannel, TypeWire
<1>2. \A op : Append(queue, op) # <<>>
  BY SMTT(30), <1>1
<1>3. ASSUME UNCHANGED <<full, outbuf, c2s, socket>>,
             queue' = queue \/ (\E op : queue' = Append(queue, op)), sent' = sent
      PROVE  Tied'
  BY <1>2, <1>3
<1>4. CASE \/ \E op \in Ops : CallClosed(op)
           \/ \E r \in Rpcs : Invoke(r)
           \/ \E n \in Nowaits : InvokeNowait(n)
           \/ \E p \in Pubs : BasicPublish(p)
           \/ Close \/ FailWrite \/ AfterWrite \/ ReadChunk \/ OnConfirm
  BY <1>3, <1>4 DEF CallClosed, Invoke, InvokeNowait, BasicPublish, Close, FailWrite, AfterWrite,
     ReadChunk, OnConfirm, chan, stream, sock, wire
<1>5. CASE OnReply
  <2>1. queue' = queue \/ (\E op : queue' = Append(queue, op))
    BY <1>5 DEF OnReply
  <2> QED BY <1>3, <1>5, <2>1 DEF OnReply, sock
<1>6. CASE WriteFrame
  <2>1. UNCHANGED <<queue, socket>> /\ queue # <<>> /\ ~full
    BY <1>6 DEF WriteFrame, StreamBusy
  <2>2. full' \/ outbuf' = <<>>
    BY <1>6, <2>1 DEF WriteFrame, Send
  <2>3. socket # "up" => c2s' = <<>> /\ outbuf' = <<>>
    BY <1>6 DEF WriteFrame, Send
  <2> QED BY <2>1, <2>2, <2>3
<1>7. CASE FinishWrite
  BY <1>7 DEF FinishWrite, sock, wire
<1>8. CASE Drain \/ Bypass \/ Stall
  BY <1>8 DEF Drain, Bypass, Stall, stream, sock, wire
<1>9. ASSUME NEW f, Send(f, full)
      PROVE (full \/ outbuf' = <<>>) /\ (socket # "up" => c2s' = <<>> /\ outbuf' = <<>>)
  BY <1>9 DEF Send
<1>10. CASE StreamFinish \/ StreamFail \/ CloseImmediate
  <2>1. \/ UNCHANGED <<outbuf, c2s>>
        \/ Send(Frame("close", None), full)
    BY <1>10 DEF StreamFinish, StreamFail, CloseImmediate, ResumeClose
  <2>2. /\ UNCHANGED <<full, socket>>
        /\ (queue' = <<>> /\ sent' = 0) \/ UNCHANGED <<queue, sent>>
    BY <1>10 DEF StreamFinish, StreamFail, CloseImmediate, stream, sock
  <2> QED BY <1>9, <2>1, <2>2
<1>11. CASE OnChannelClose
  <2>1. Send(Frame("closeOk", None), full) /\ UNCHANGED <<full, socket, queue, sent>>
    BY <1>11 DEF OnChannelClose, Clear, sock
  <2> QED BY <1>9, <2>1
<1>12. CASE OnCloseOk
  BY <1>12 DEF OnCloseOk, Clear, sock
<1>13. CASE OnUnexpected \/ Lose \/ BrokerAbort
  BY <1>13 DEF OnUnexpected, Lose, BrokerAbort, stream
<1>14. CASE SocketClosed
  BY <1>14 DEF SocketClosed, Clear, stream, wire
<1>15. CASE BrokerConfirm \/ BrokerKick \/ UNCHANGED vars
  BY <1>15 DEF BrokerConfirm, BrokerKick, BrokerCloses, stream, sock, vars, wire
<1>16. ASSUME NEW K, BrokerReads(K), UNCHANGED <<stream, sock>> PROVE Tied'
  BY <1>16 DEF BrokerReads, stream, sock
<1>17. CASE BrokerHead \/ BrokerServe \/ BrokerRefuse \/ BrokerOnClose \/ BrokerDiscard
           \/ BrokerOnCloseOk
  BY <1>16, <1>17 DEF BrokerHead, BrokerServe, BrokerRefuse, BrokerCloses, BrokerOnClose,
     BrokerDiscard, BrokerOnCloseOk
<1> QED
  BY <1>4, <1>5, <1>6, <1>7, <1>8, <1>10, <1>11, <1>12, <1>13, <1>14, <1>15, <1>17
  DEF Next, UserCall, EventLoop, BrokerStep, Environment

(* The broker does not reopen a channel, nor the client a socket.          *)
LEMMA StaysLive == ASSUME [Next]_vars, Live' PROVE Live
<1>1. socket = "up"
  BY StaysUp DEF Live
<1>2. bState' = "open" => bState = "open"
  BY DEF Next, UserCall, EventLoop, BrokerStep, Environment, vars, CallClosed, Invoke,
     InvokeNowait, BasicPublish, Close, WriteFrame, FinishWrite, FailWrite, Stall, Drain,
     Bypass, AfterWrite, StreamFinish, StreamFail, CloseImmediate, ReadChunk, OnReply,
     OnCloseOk, OnChannelClose, OnConfirm, OnUnexpected, Lose, SocketClosed, BrokerHead,
     BrokerServe, BrokerConfirm, BrokerRefuse, BrokerKick, BrokerCloses, BrokerOnClose,
     BrokerDiscard, BrokerOnCloseOk, BrokerAbort, broker
<1> QED BY <1>1, <1>2 DEF Live

(* A frame that ends the channel is on its way back only from a broker     *)
(* that has ended it.                                                      *)
LEMMA UnendedStep ==
  ASSUME ChannelAssumption, TypeOK, Unended, [Next]_vars PROVE Unended'
<1> DEFINE Ends == {"close", "closeOk"}
<1> SUFFICES ASSUME Live'
             PROVE  ~cleared' /\ ~Has(s2c', Ends) /\ ~Has(chunk', Ends)
  BY DEF Unended
<1>1. Live /\ ~cleared /\ ~Has(s2c, Ends) /\ ~Has(chunk, Ends)
  BY StaysLive DEF Unended
<1>2. s2c \in Seq(BrokerFrames) /\ chunk \in Seq(BrokerFrames) /\ c2s \in Seq(ClientFrames)
  BY DEF TypeOK, TypeWire
<1> HIDE DEF Ends
<1> DEFINE G == ~cleared' /\ ~Has(s2c', Ends) /\ ~Has(chunk', Ends)
<1>3. CASE \/ UserCall \/ WriteFrame \/ FinishWrite \/ FailWrite \/ AfterWrite \/ StreamFinish
           \/ StreamFail \/ CloseImmediate \/ Stall \/ Drain \/ Bypass \/ UNCHANGED vars
           \/ BrokerHead \/ BrokerDiscard \/ BrokerOnCloseOk
  <2>1. UNCHANGED <<cleared, s2c, chunk>>
    BY <1>3 DEF UserCall, CallClosed, Invoke, InvokeNowait, BasicPublish, Close, WriteFrame,
       FinishWrite, FailWrite, AfterWrite, StreamFinish, StreamFail, CloseImmediate, Stall, Drain,
       Bypass, chan, wire, vars, BrokerHead, BrokerDiscard, BrokerOnCloseOk
  <2> QED BY <1>1, <2>1
<1>4. CASE BrokerRefuse \/ BrokerKick \/ BrokerOnClose \/ BrokerAbort \/ OnUnexpected \/ Lose
           \/ SocketClosed
  BY <1>1, <1>4 DEF BrokerRefuse, BrokerKick, BrokerOnClose, BrokerAbort, OnUnexpected, Lose,
     SocketClosed, BrokerCloses, Live
<1>5. CASE ReadChunk
  <2>1. PICK n \in 1..Len(s2c) :
          chunk' = SubSeq(s2c, 1, n) /\ s2c' = SubSeq(s2c, n + 1, Len(s2c))
    BY <1>5 DEF ReadChunk
  <2>2. cleared' = cleared
    BY <1>5 DEF ReadChunk, chan
  <2> QED BY <1>1, <1>2, <2>1, <2>2, SplitFacts
<1>6. ASSUME chunk # <<>>, chunk' = Tail(chunk), s2c' = s2c
      PROVE  (cleared' = cleared => G) /\ Head(chunk).kind \notin Ends
  BY <1>1, <1>2, <1>6, TailFacts
<1>7. CASE OnReply \/ OnConfirm
  BY <1>6, <1>7 DEF OnReply, OnConfirm, Receive
<1>8. CASE OnCloseOk \/ OnChannelClose
  BY <1>6, <1>8 DEF OnCloseOk, OnChannelClose, Receive, Ends
<1>9. ASSUME NEW f \in BrokerFrames, f.kind \notin Ends, s2c' = s2c \/ s2c' = Append(s2c, f),
             UNCHANGED <<chunk, cleared>>
      PROVE  G
  <2>1. CASE s2c' = s2c
    BY <1>1, <1>9, <2>1
  <2>2. CASE s2c' = Append(s2c, f)
    <3>1. ~Has(Append(s2c, f), Ends)
      BY <1>1, <1>2, <1>9, AppendFacts
    <3> QED BY <1>1, <1>9, <2>2, <3>1
  <2> QED BY <1>9, <2>1, <2>2
<1>10. CASE BrokerConfirm
  <2>1. PICK i \in DOMAIN published, kind \in {"ack", "nack"}, m \in BOOLEAN :
          s2c' = Append(s2c, Confirmation(kind, i, m)) /\ UNCHANGED <<chunk, cleared>>
    BY <1>10 DEF BrokerConfirm, chan
  <2>2. Confirmation(kind, i, m) \in BrokerFrames /\ Confirmation(kind, i, m).kind \notin Ends
    BY DEF Confirmation, BrokerFrames, TypeOK, TypeBroker, Ends
  <2> QED BY <1>9, <2>1, <2>2
<1>11. CASE BrokerServe
  <2> DEFINE a == FromBroker("reply", Head(c2s).op)
  <2>1. /\ c2s # <<>> /\ Head(c2s).kind \in {"rpc", "body", "nowait"}
        /\ (s2c' = s2c \/ s2c' = Append(s2c, a)) /\ UNCHANGED <<chunk, cleared>>
    BY <1>11 DEF BrokerServe, BrokerReads, chan
  <2>2. Head(c2s).op \in Ops
    BY <1>2, <2>1, HeadTail, CallFrame
  <2>3. a \in BrokerFrames /\ a.kind \notin Ends
    BY <2>2 DEF FromBroker, BrokerFrames, Ends
  <2> HIDE DEF a
  <2> QED BY <1>9, <2>1, <2>3
<1> QED
  BY <1>3, <1>4, <1>5, <1>7, <1>8, <1>10, <1>11 DEF Next, EventLoop, BrokerStep, Environment, Ends
-----------------------------------------------------------------------------
(* The order of calls, step by step.                                       *)

(* No call is accepted twice.                                              *)
LEMMA CallsOnceStep ==
  ASSUME TypeOK, CallsOnce, [Next]_vars PROVE CallsOnce'
<1> USE DEF CallsOnce
<1>1. calls \in Seq(Ops) /\ promise \in [Ops -> {"none", "pending", "resolved", "rejected"}]
  BY DEF TypeOK, TypeUser
<1>2. Elems(calls) \subseteq Ops
  BY <1>1, ElemsParts
<1>3. ASSUME NEW S, NEW how \in {"pending", "resolved", "rejected"}, Settle(S, how)
      PROVE  \A op \in Ops : promise[op] # "none" => promise'[op] # "none"
  BY <1>1, <1>3 DEF Settle
<1>4. ASSUME UNCHANGED calls, NEW S, NEW how \in {"pending", "resolved", "rejected"},
             Settle(S, how)
      PROVE  CallsOnce'
  BY <1>2, <1>3, <1>4
<1>5. ASSUME UNCHANGED <<calls, promise>> PROVE CallsOnce'
  BY <1>5
<1>6. ASSUME NEW op \in Ops, NEW how \in {"pending", "resolved"}, Call(op, how) PROVE CallsOnce'
  <2>1. promise[op] = "none" /\ Settle({op}, how) /\ calls' = Append(calls, op)
    BY <1>6 DEF Call
  <2>2. op \notin Elems(calls) /\ Elems(calls') = Elems(calls) \cup {op}
    BY <1>1, <2>1, EarlierAppend
  <2>3. promise'[op] # "none"
    BY <1>1, <2>1 DEF Settle
  <2>4. \A o \in Elems(calls') : promise'[o] # "none"
    BY <1>2, <1>3, <2>1, <2>2, <2>3
  <2> DEFINE t == Append(calls, op)
  <2>5. /\ DOMAIN calls = 1..Len(calls) /\ Len(calls) \in Nat
        /\ DOMAIN t = 1..(Len(calls) + 1) /\ t[Len(calls) + 1] = op
        /\ \A i \in 1..Len(calls) : t[i] = calls[i]
    BY <1>1
  <2> HIDE DEF t
  <2>6. \A i \in DOMAIN calls : t[i] # op
    BY <2>2, <2>5 DEF Elems
  <2>7. \A i \in DOMAIN t : i \in DOMAIN calls \/ i = Len(calls) + 1
    BY <2>5
  <2>8. \A i, j \in DOMAIN t : t[i] = t[j] => i = j
    BY <2>5, <2>6, <2>7
  <2> QED BY <2>1, <2>4, <2>8 DEF t
<1>7. CASE \/ \E r \in Rpcs : Invoke(r)
           \/ \E n \in Nowaits : InvokeNowait(n)
           \/ \E p \in Pubs : BasicPublish(p)
  BY <1>6, <1>7 DEF Invoke, InvokeNowait, BasicPublish, Ops
<1>8. CASE \E op \in Ops : CallClosed(op)
  BY <1>4, <1>8 DEF CallClosed
<1>9. CASE StreamFail \/ OnReply \/ OnCloseOk \/ OnChannelClose \/ (SocketClosed /\ ~cleared)
  BY <1>4, <1>9 DEF StreamFail, OnReply, OnCloseOk, OnChannelClose, SocketClosed, Clear
<1>10. CASE OnConfirm
  <2>1. \E S : Settle(S, "resolved") \/ Settle(S, "rejected")
    BY <1>10 DEF OnConfirm
  <2> QED BY <1>4, <1>10, <2>1 DEF OnConfirm
<1>11. CASE AfterWrite
  <2>1. UNCHANGED calls /\ (UNCHANGED promise \/ \E S : Settle(S, "resolved"))
    BY <1>11 DEF AfterWrite
  <2> QED BY <1>4, <1>5, <2>1
<1>12. CASE \/ Close \/ WriteFrame \/ FinishWrite \/ FailWrite \/ Stall \/ Drain \/ Bypass
            \/ StreamFinish \/ CloseImmediate \/ ReadChunk \/ OnUnexpected \/ Lose
            \/ (SocketClosed /\ cleared) \/ UNCHANGED vars
  BY <1>5, <1>12 DEF Close, WriteFrame, FinishWrite, FailWrite, Stall, Drain, Bypass, StreamFinish,
     CloseImmediate, ReadChunk, OnUnexpected, Lose, SocketClosed, user, vars
<1>13. CASE \/ BrokerHead \/ BrokerServe \/ BrokerConfirm \/ BrokerRefuse \/ BrokerKick
            \/ BrokerOnClose \/ BrokerDiscard \/ BrokerOnCloseOk \/ BrokerAbort
  BY <1>5, <1>13 DEF BrokerHead, BrokerServe, BrokerConfirm, BrokerRefuse, BrokerKick,
     BrokerCloses, BrokerOnClose, BrokerDiscard, BrokerOnCloseOk, BrokerAbort, user
<1> QED
  BY <1>7, <1>8, <1>9, <1>10, <1>11, <1>12, <1>13
  DEF Next, UserCall, EventLoop, BrokerStep, Environment

(* What has passed the client is executed in the order of the calls.       *)
LEMMA PassedOrder == ASSUME TypeOK, CallsOnce, Passed PROVE InCallOrder
<1>1. calls \in Seq(Ops)
  BY DEF TypeOK, TypeUser
<1>2. ASSUME NEW c \in Earlier, SameLine(c[1], c[2]), c[2] \in Elems(served)
      PROVE  c[1] \in Elems(served)
  <2>1. c = <<c[1], c[2]>>
    BY DEF Earlier
  <2>2. <<c[2], c[1]>> \notin Earlier
    BY <1>1, <2>1, EarlierStrict
  <2>3. c[1] \in Elems(served) \cup Finals(OnTheWay)
    BY <1>2 DEF Passed, Reached, NoneSkipped
  <2>4. SameLine(c[2], c[1])
    BY <1>2 DEF SameLine
  <2> QED BY <1>2, <2>2, <2>3, <2>4 DEF Passed, Ahead
<1> QED BY <1>2 DEF InCallOrder, NoneSkipped, Passed, Reached

(* A write that is queued waits.                                           *)
LEMMA WaitingAppend ==
  ASSUME TypeOK, Tied, NEW op \in Ops, queue' = Append(queue, op), sent' = sent
  PROVE  Waiting' = Waiting \cup {op} /\ Elems(queue') = Elems(queue) \cup {op}
<1>1. queue \in Seq(Ops) /\ sent \in 0..2
  BY DEF TypeOK, TypeStream
<1>2. Elems(queue') = Elems(queue) \cup {op} /\ queue' # <<>>
  BY <1>1, ElemsFacts
<1>3. CASE queue = <<>>
  <2>1. Head(queue') = op /\ sent' = 0 /\ Elems(queue) = {}
    BY <1>3 DEF Tied, Elems
  <2> QED BY <1>2, <1>3, <2>1 DEF Waiting, FrameCount
<1>4. CASE queue # <<>>
  <2>1. Head(queue') = Head(queue) /\ Tail(queue') = Append(Tail(queue), op)
            /\ Tail(queue) \in Seq(Ops)
    BY <1>1, <1>4
  <2>2. Elems(Tail(queue')) = Elems(Tail(queue)) \cup {op}
    BY <2>1, ElemsFacts
  <2> QED BY <1>2, <1>4, <2>1, <2>2 DEF Waiting
<1> QED BY <1>2, <1>3, <1>4

(* A call that is accepted comes after all others.                         *)
LEMMA OrderCall ==
  ASSUME TypeOK, Tied, CallsOnce, Live, Passed, NEW op \in Ops, promise[op] = "none",
         calls' = Append(calls, op), UNCHANGED <<served, OnTheWay, sent>>
  PROVE  /\ Passed'
         /\ /\ Coming /\ queue' = Append(queue, op) /\ rpcBuffer' = rpcBuffer
            /\ op \in Rpcs => rpcBuffer = <<>>
            => Coming'
         /\ Coming /\ queue' = queue /\ rpcBuffer' = Append(rpcBuffer, op) /\ op \in Rpcs
              => Coming'
<1>1. /\ calls \in Seq(Ops) /\ queue \in Seq(Ops) /\ rpcBuffer \in Seq(Rpcs)
  BY DEF TypeOK, TypeUser, TypeStream, TypeChannel
<1>2. op \notin Elems(calls)
  BY DEF CallsOnce
<1> DEFINE C == Elems(calls)
           E == Earlier
           F == E \cup (C \X {op})
<1>3. Earlier' = F /\ Elems(calls') = C \cup {op} /\ Reached' = Reached
  BY <1>1, EarlierAppend DEF Reached
<1>4. /\ \A s : Ordered(s, E) => Ordered(s, F)
      /\ \A s : OrderedFrames(s, E) => OrderedFrames(s, F)
      /\ \A A, B : Ahead(A, B, E) => Ahead(A, B, F)
  BY OrderGrows
<1>5. \A A : A \subseteq C => Ahead(A, {op}, F)
  BY DEF Ahead
<1> HIDE DEF C, E
<1>6. Reached \subseteq C /\ NoneSkipped(Reached, E) => NoneSkipped(Reached, F)
  BY <1>2 DEF NoneSkipped, C
<1>7. Passed'
  <2>1. Reached' \subseteq Elems(calls')
    BY <1>3 DEF Passed, C
  <2>2. NoneSkipped(Reached', Earlier')
    BY <1>3, <1>6 DEF Passed, C, E
  <2> HIDE DEF F
  <2>3. Ordered(served', Earlier') /\ OrderedFrames(OnTheWay', Earlier')
    BY <1>3, <1>4 DEF Passed, E
  <2>4. Ahead(Elems(served'), Finals(OnTheWay'), Earlier')
    BY <1>3, <1>4 DEF Passed, E
  <2> QED BY <2>1, <2>2, <2>3, <2>4 DEF Passed
<1> HIDE DEF F
<1>8. \A A, B, D : Ahead(A, B, F) /\ Ahead(A, D, F) => Ahead(A, B \cup D, F)
  BY DEF Ahead
<1>9. \A A, B, D : Ahead(A, B, F) /\ Ahead(D, B, F) => Ahead(A \cup D, B, F)
  BY DEF Ahead
<1>10. Reached \subseteq C
  BY DEF Passed, C
<1>11. ASSUME Coming
       PROVE  /\ Ordered(queue, F) /\ Ordered(rpcBuffer, F) /\ Elems(queue) \subseteq C
              /\ Ahead(Reached, Waiting \cup Elems(rpcBuffer), F)
              /\ Ahead(Elems(queue), Elems(rpcBuffer), F) /\ Elems(rpcBuffer) \subseteq C
              /\ C = Reached \cup Waiting \cup Elems(rpcBuffer)
  BY <1>4, <1>11 DEF Coming, C, E
<1>12. ASSUME Coming, queue' = Append(queue, op), rpcBuffer' = rpcBuffer,
              op \in Rpcs => rpcBuffer = <<>>
       PROVE  Coming'
  <2>1. Waiting' = Waiting \cup {op} /\ Elems(queue') = Elems(queue) \cup {op}
    BY <1>12, WaitingAppend
  <2>2. Ordered(queue', F)
    BY <1>1, <1>5, <1>11, <1>12, OrderedAppend
  <2>3. Ahead(Reached, Waiting' \cup Elems(rpcBuffer), F)
    <3>1. Ahead(Reached, (Waiting \cup Elems(rpcBuffer)) \cup {op}, F)
      BY <1>5, <1>8, <1>10, <1>11, <1>12
    <3>2. Waiting' \cup Elems(rpcBuffer) = (Waiting \cup Elems(rpcBuffer)) \cup {op}
      BY <2>1
    <3> QED BY <3>1, <3>2
  <2>4. Ahead({op}, Elems(rpcBuffer), F)
    <3>1. Elems(rpcBuffer) \subseteq Rpcs
      BY <1>1, ElemsParts
    <3>2. op \in Rpcs => Elems(rpcBuffer) = {}
      BY <1>12 DEF Elems
    <3> QED BY <3>1, <3>2 DEF Ahead, SameLine
  <2>5. Ahead(Elems(queue'), Elems(rpcBuffer), F)
    BY <1>9, <1>11, <1>12, <2>1, <2>4
  <2> QED BY <1>3, <1>11, <1>12, <2>1, <2>2, <2>3, <2>5 DEF Coming
<1>13. ASSUME Coming, queue' = queue, rpcBuffer' = Append(rpcBuffer, op), op \in Rpcs
       PROVE  Coming'
  <2>1. Waiting' = Waiting
    BY <1>13 DEF Waiting
  <2>2. Elems(rpcBuffer') = Elems(rpcBuffer) \cup {op}
    BY <1>1, <1>13, ElemsFacts
  <2>3. Ordered(rpcBuffer', F)
    BY <1>1, <1>5, <1>11, <1>13, OrderedAppend
  <2>4. Ahead(Reached, Waiting' \cup Elems(rpcBuffer'), F)
    <3>1. Ahead(Reached, (Waiting \cup Elems(rpcBuffer)) \cup {op}, F)
      BY <1>5, <1>8, <1>10, <1>11, <1>13
    <3>2. Waiting' \cup Elems(rpcBuffer') = (Waiting \cup Elems(rpcBuffer)) \cup {op}
      BY <2>1, <2>2
    <3> QED BY <3>1, <3>2
  <2>5. Ahead(Elems(queue), Elems(rpcBuffer'), F)
    <3>1. Ahead(Elems(queue), {op}, F) /\ Ahead(Elems(queue), Elems(rpcBuffer), F)
      BY <1>5, <1>11, <1>13
    <3> QED BY <1>8, <2>2, <3>1
  <2> QED BY <1>3, <1>11, <1>13, <2>1, <2>2, <2>3, <2>4, <2>5 DEF Coming
<1> QED BY <1>7, <1>12, <1>13
(* The last frame of the first write joins those on their way, after all   *)
(* that have been executed or sent and before all that wait.               *)
LEMMA OrderWrite ==
  ASSUME TypeOK, CallsOnce, Live, Passed, Coming, NEW f \in ClientFrames,
         queue # <<>>, sent < FrameCount(Head(queue)), sent' = sent + 1,
         f.kind \in Final => f.op = Head(queue) /\ ~(sent' < FrameCount(Head(queue))),
         f.kind \notin Final => sent' < FrameCount(Head(queue)),
         OnTheWay' = Append(OnTheWay, f), UNCHANGED <<calls, served, queue, rpcBuffer>>
  PROVE  Passed' /\ Coming'
<1>1. /\ queue \in Seq(Ops) /\ OnTheWay \in Seq(ClientFrames) /\ calls \in Seq(Ops)
  BY WireType DEF TypeOK, TypeUser, TypeStream
<1> DEFINE E == Earlier
           q == Head(queue)
           rest == Elems(Tail(queue))
           B == Elems(rpcBuffer)
<1>2. Earlier' = E /\ Waiting = Elems(queue)
  BY DEF Earlier, Waiting
<1>3. /\ Elems(queue) = {q} \cup rest /\ q \in Elems(queue)
      /\ Ordered(Tail(queue), E) /\ Ahead({q}, rest, E)
  <2>1. Ordered(queue, E)
    BY DEF Coming
  <2>2. Ordered(Tail(queue), E) /\ Ahead({q}, rest, E)
    <3> HIDE DEF E
    <3> QED BY <1>1, <2>1, OrderedTail
  <2>3. Elems(queue) = {q} \cup rest
    BY <1>1, ElemsParts
  <2> QED BY <2>2, <2>3
<1>4. /\ f.kind \in Final => Finals(OnTheWay') = Finals(OnTheWay) \cup {f.op}
      /\ f.kind \notin Final => Finals(OnTheWay') = Finals(OnTheWay)
      /\ OrderedFrames(OnTheWay, E) /\ (f.kind \in Final => Ahead(Finals(OnTheWay), {f.op}, E))
           => OrderedFrames(OnTheWay', E)
  BY <1>1, FramesAppend
<1>5. \A c \in E : c = <<c[1], c[2]>> /\ c[1] \in Elems(calls)
  BY DEF Earlier
<1>6. \A a, b : <<a, b>> \in E => a # b /\ <<b, a>> \notin E
  BY <1>1, EarlierStrict
<1>7. \A a, b : SameLine(a, b) => SameLine(b, a)
  BY DEF SameLine
<1>8. /\ Ordered(served, E) /\ OrderedFrames(OnTheWay, E)
      /\ Ahead(Elems(served), Finals(OnTheWay), E)
      /\ Reached \subseteq Elems(calls) /\ NoneSkipped(Reached, E)
      /\ Reached = Elems(served) \cup Finals(OnTheWay)
  BY DEF Passed, Reached
<1>9. /\ Ordered(queue, E) /\ Ordered(rpcBuffer, E) /\ Elems(queue) \subseteq Elems(calls)
      /\ Ahead(Reached, Elems(queue) \cup B, E) /\ Ahead(Elems(queue), B, E)
      /\ Elems(calls) = Reached \cup Elems(queue) \cup B
  BY <1>2 DEF Coming
<1> HIDE DEF E, q, rest, B
<1>10. CASE f.kind \in Final
  <2>1. /\ f.op = q /\ Finals(OnTheWay') = Finals(OnTheWay) \cup {q}
        /\ Waiting' = rest /\ Reached' = Reached \cup {q}
    BY <1>4, <1>10 DEF Waiting, Reached, q, rest
  <2>2. Ahead(Reached, {q}, E) /\ Ahead({q}, B, E) /\ Ahead(Reached, rest \cup B, E)
    BY <1>3, <1>9 DEF Ahead
  <2>3. OrderedFrames(OnTheWay', E)
    <3>1. Ahead(Finals(OnTheWay), {f.op}, E)
      BY <1>8, <2>1, <2>2 DEF Ahead
    <3> QED BY <1>4, <1>8, <3>1
  <2>4. Ahead(Elems(served), Finals(OnTheWay'), E)
    BY <1>8, <2>1, <2>2 DEF Ahead
  <2>5. NoneSkipped(Reached', E)
    <3> SUFFICES ASSUME NEW c \in E, SameLine(c[1], c[2]), c[2] = q, c[1] \notin Reached'
                 PROVE  FALSE
      BY <1>8, <2>1 DEF NoneSkipped
    <3>1. c[1] \in rest \cup B
      BY <1>3, <1>5, <1>9, <2>1
    <3>2. <<q, c[1]>> \in E
      BY <1>3, <1>7, <2>2, <3>1 DEF Ahead
    <3> QED BY <1>5, <1>6, <3>2
  <2>6. Passed'
    BY <1>2, <1>3, <1>8, <1>9, <2>1, <2>3, <2>4, <2>5 DEF Passed
  <2>7. Ahead(Reached', Waiting' \cup B, E)
    BY <1>3, <2>1, <2>2 DEF Ahead
  <2>8. Elems(calls) = Reached' \cup Waiting' \cup B
    BY <1>3, <1>9, <2>1
  <2>9. Coming'
    BY <1>2, <1>9, <2>7, <2>8 DEF Coming, B
  <2> QED BY <2>6, <2>9
<1>11. CASE f.kind \notin Final
  <2>1. Waiting' = Waiting /\ Finals(OnTheWay') = Finals(OnTheWay) /\ Reached' = Reached
    BY <1>4, <1>11 DEF Waiting, Reached
  <2>2. Passed'
    BY <1>2, <1>4, <1>8, <1>11, <2>1 DEF Passed
  <2>3. Coming'
    BY <1>2, <1>9, <2>1 DEF Coming, B
  <2> QED BY <2>2, <2>3
<1> QED BY <1>10, <1>11

(* The broker executes the first call that is on its way.                  *)
LEMMA OrderRead ==
  ASSUME TypeOK, Passed, OnTheWay # <<>>, OnTheWay' = Tail(OnTheWay),
         UNCHANGED <<calls, queue, sent, rpcBuffer>>,
         Head(OnTheWay).kind \in Final => served' = Append(served, Head(OnTheWay).op),
         Head(OnTheWay).kind \notin Final => served' = served
  PROVE  Passed' /\ (Coming => Coming')
<1>1. OnTheWay \in Seq(ClientFrames) /\ served \in Seq(Ops)
  BY WireType DEF TypeOK, TypeBroker
<1> DEFINE E == Earlier
           f == Head(OnTheWay)
<1>2. Earlier' = E /\ Waiting' = Waiting
  BY DEF Earlier, Waiting
<1>3. /\ f.kind \in Final => Finals(OnTheWay) = Finals(OnTheWay') \cup {f.op}
      /\ f.kind \notin Final => Finals(OnTheWay) = Finals(OnTheWay')
      /\ OrderedFrames(OnTheWay, E) =>
           /\ OrderedFrames(OnTheWay', E)
           /\ f.kind \in Final => Ahead({f.op}, Finals(OnTheWay'), E)
  BY <1>1, FramesTail
<1>4. f \in ClientFrames
  BY <1>1, HeadTail
<1>5. /\ Ordered(served, E) /\ OrderedFrames(OnTheWay, E)
      /\ Ahead(Elems(served), Finals(OnTheWay), E)
      /\ Reached \subseteq Elems(calls) /\ NoneSkipped(Reached, E)
      /\ Reached = Elems(served) \cup Finals(OnTheWay)
  BY DEF Passed, Reached
<1>9. /\ f.kind \in Final => served' = Append(served, f.op)
      /\ f.kind \notin Final => served' = served
  OBVIOUS
<1> HIDE DEF E, f
<1>6. Reached' = Reached /\ Ordered(served', E) /\ Ahead(Elems(served'), Finals(OnTheWay'), E)
  <2>1. CASE f.kind \in Final
    <3>1. f.op \in Ops
      BY <1>4, <2>1, CallFrame DEF Final
    <3>2. served' = Append(served, f.op) /\ Elems(served') = Elems(served) \cup {f.op}
      <4>1. Elems(Append(served, f.op)) = Elems(served) \cup {f.op}
        BY <1>1, <3>1, ElemsFacts
      <4> QED BY <1>9, <2>1, <4>1
    <3>3. Ahead(Elems(served), {f.op}, E)
      BY <1>3, <1>5, <2>1 DEF Ahead
    <3>4. Ordered(served', E)
      BY <1>1, <1>5, <3>1, <3>2, <3>3, OrderedAppend
    <3>5. Ahead(Elems(served'), Finals(OnTheWay'), E)
      BY <1>3, <1>5, <2>1, <3>2 DEF Ahead
    <3>6. Reached' = Reached
      BY <1>3, <2>1, <3>2 DEF Reached
    <3> QED BY <3>4, <3>5, <3>6
  <2>2. CASE f.kind \notin Final
    BY <1>3, <1>5, <1>9, <2>2 DEF Reached
  <2> QED BY <2>1, <2>2
<1>7. Passed'
  BY <1>2, <1>3, <1>5, <1>6 DEF Passed
<1>8. Coming => Coming'
  BY <1>2, <1>6 DEF Coming, E
<1> QED BY <1>7, <1>8

(* The oldest request of the buffer goes to the end of the stream.         *)
LEMMA OrderStart ==
  ASSUME TypeOK, Tied, Passed, Coming, rpcBuffer # <<>>, rpcBuffer' = Tail(rpcBuffer),
         queue' = Append(queue, Head(rpcBuffer)), UNCHANGED <<calls, served, OnTheWay, sent>>
  PROVE  Passed' /\ Coming'
<1>1. queue \in Seq(Ops) /\ rpcBuffer \in Seq(Rpcs)
  BY DEF TypeOK, TypeStream, TypeChannel
<1> DEFINE E == Earlier
           r == Head(rpcBuffer)
           T == Elems(Tail(rpcBuffer))
<1>2. r \in Ops /\ Earlier' = E /\ Reached' = Reached
  BY <1>1, HeadTail DEF Earlier, Reached, Ops
<1>3. Waiting' = Waiting \cup {r} /\ Elems(queue') = Elems(queue) \cup {r}
  BY <1>2, WaitingAppend
<1>4. /\ Elems(rpcBuffer) = {r} \cup T /\ Elems(rpcBuffer') = T
      /\ Ordered(rpcBuffer', E) /\ Ahead({r}, T, E)
  BY <1>1, ElemsParts, OrderedTail DEF Coming
<1>5. /\ Ordered(queue, E) /\ Elems(queue) \subseteq Elems(calls)
      /\ Ahead(Reached, Waiting \cup Elems(rpcBuffer), E)
      /\ Ahead(Elems(queue), Elems(rpcBuffer), E)
      /\ Elems(calls) = Reached \cup Waiting \cup Elems(rpcBuffer)
  BY DEF Coming
<1>6. queue' = Append(queue, r)
  OBVIOUS
<1> HIDE DEF E, r, T
<1>7. Ahead(Elems(queue), {r}, E)
  BY <1>4, <1>5 DEF Ahead
<1>8. Ordered(queue', E)
  BY <1>1, <1>2, <1>5, <1>6, <1>7, OrderedAppend
<1>9. Ahead(Elems(queue'), Elems(rpcBuffer'), E)
  BY <1>3, <1>4, <1>5 DEF Ahead
<1>10. Waiting' \cup Elems(rpcBuffer') = Waiting \cup Elems(rpcBuffer)
  BY <1>3, <1>4
<1>11. Coming'
  <2>1. Ahead(Reached', Waiting' \cup Elems(rpcBuffer'), E)
    BY <1>2, <1>5, <1>10
  <2>2. Elems(calls') = Reached' \cup Waiting' \cup Elems(rpcBuffer')
    BY <1>2, <1>5, <1>10
  <2>3. Elems(queue') \subseteq Elems(calls')
    BY <1>3, <1>4, <1>5
  <2> QED BY <1>2, <1>4, <1>8, <1>9, <2>1, <2>2, <2>3 DEF Coming
<1>12. Passed'
  BY <1>2 DEF Passed, E
<1> QED BY <1>11, <1>12

(* A step that moves no call, or that gives up those which wait.           *)
LEMMA OrderStill ==
  ASSUME TypeOK, Passed, UNCHANGED <<calls, served>>,
         OnTheWay' = OnTheWay
           \/ \E f \in ClientFrames : f.kind \notin Final /\ OnTheWay' = Append(OnTheWay, f)
  PROVE  /\ Passed'
         /\ Coming /\ UNCHANGED <<rpcBuffer, Waiting>>
            /\ Ordered(queue', Earlier) /\ Elems(queue') \subseteq Elems(queue) => Coming'
<1>1. OnTheWay \in Seq(ClientFrames)
  BY WireType DEF TypeOK
<1>2. Earlier' = Earlier
  BY DEF Earlier
<1>3. Finals(OnTheWay') = Finals(OnTheWay)
      /\ (OrderedFrames(OnTheWay, Earlier) => OrderedFrames(OnTheWay', Earlier))
  BY <1>1, FramesAppend
<1>4. Reached' = Reached
  BY <1>3 DEF Reached
<1>5. Passed'
  BY <1>2, <1>3, <1>4 DEF Passed
<1>6. ASSUME Coming, UNCHANGED <<rpcBuffer, Waiting>>, Ordered(queue', Earlier),
             Elems(queue') \subseteq Elems(queue)
      PROVE  Coming'
  <2>1. Ahead(Elems(queue'), Elems(rpcBuffer'), Earlier)
    BY <1>6 DEF Coming, Ahead
  <2> QED BY <1>2, <1>4, <1>6, <2>1 DEF Coming
<1> QED BY <1>5, <1>6
(* The calls keep their order through every step of an open channel.       *)
LEMMA OrderLive ==
  ASSUME ChannelAssumption, TypeOK, Shape, BufferBehindRpc, Tied, CallsOnce, [Next]_vars,
         Live, Live', Passed, Flowing => Coming
  PROVE  Passed' /\ (Flowing' => Coming')
<1> DEFINE G == Passed' /\ (Flowing' => Coming')
<1>1. /\ queue \in Seq(Ops) /\ rpcBuffer \in Seq(Rpcs) /\ OnTheWay \in Seq(ClientFrames)
      /\ TypeWire /\ full \in BOOLEAN /\ sent \in 0..2 /\ socket = "up"
  BY WireType DEF TypeOK, TypeStream, TypeChannel, TypeFlags, Live
<1>2. ASSUME UNCHANGED <<calls, served>>,
             OnTheWay' = OnTheWay
               \/ \E f \in ClientFrames : f.kind \notin Final /\ OnTheWay' = Append(OnTheWay, f),
             Flowing' => Flowing /\ UNCHANGED <<queue, sent, rpcBuffer>>
      PROVE  G
  <2>1. Flowing' => Waiting' = Waiting
    BY <1>2 DEF Waiting
  <2>2. Flowing' => Coming /\ Ordered(queue', Earlier) /\ Elems(queue') \subseteq Elems(queue)
    BY <1>2 DEF Coming
  <2> QED BY <1>2, <2>1, <2>2, OrderStill
<1>3. ASSUME UNCHANGED wire PROVE OnTheWay' = OnTheWay
  BY <1>3 DEF wire, OnTheWay
<1>4. ASSUME UNCHANGED <<calls, served, outbuf, c2s, queue, sent, rpcBuffer>>, Flowing' => Flowing
      PROVE  G
  BY <1>2, <1>4 DEF OnTheWay
<1>5. ASSUME NEW r \in Rpcs, Invoke(r) PROVE G
  <2>1. /\ promise[r] = "none" /\ calls' = Append(calls, r) /\ active
        /\ UNCHANGED <<served, OnTheWay, sent, phase>> /\ r \in Ops
    BY <1>3, <1>5 DEF Invoke, Call, broker, Ops
  <2>2. Passed'
    BY <2>1, OrderCall
  <2>3. ASSUME Flowing' PROVE Coming'
    <3>1. Flowing /\ Coming
      BY <2>1, <2>3 DEF Flowing
    <3>2. CASE RpcBusy
      BY <1>5, <2>1, <3>1, <3>2, OrderCall DEF Invoke, Push
    <3>3. CASE ~RpcBusy
      <4>1. rpcBuffer = <<>>
        BY <1>1, <2>1, <3>1, <3>3 DEF BufferBehindRpc, RpcBusy, Flowing, Shape
      <4> QED BY <1>5, <2>1, <3>1, <3>3, <4>1, OrderCall DEF Invoke
    <3> QED BY <3>2, <3>3
  <2> QED BY <2>2, <2>3
<1>6. ASSUME NEW op \in Pubs \cup Nowaits,
             (op \in Nowaits /\ InvokeNowait(op)) \/ (op \in Pubs /\ BasicPublish(op))
      PROVE  G
  <2>1. /\ promise[op] = "none" /\ calls' = Append(calls, op) /\ queue' = Append(queue, op)
        /\ UNCHANGED <<served, OnTheWay, sent, phase, rpcBuffer>> /\ op \in Ops /\ op \notin Rpcs
    BY <1>3, <1>6 DEF InvokeNowait, BasicPublish, Call, broker, Ops, chan, ChannelAssumption
  <2>2. Flowing' => Coming
    BY <2>1 DEF Flowing
  <2> QED BY <2>1, <2>2, OrderCall
<1>7. CASE WriteFrame
  <2> DEFINE f == NextFrame(Head(queue), sent)
  <2>1. /\ StreamBusy /\ sent < FrameCount(Head(queue)) /\ Send(f, full') /\ sent' = sent + 1
        /\ UNCHANGED <<calls, served, queue, rpcBuffer, phase>> /\ full' \in BOOLEAN
    BY <1>1, <1>7 DEF WriteFrame, chan, user, broker
  <2>2. queue # <<>> /\ outbuf = <<>> /\ Flowing /\ Coming
    BY <2>1 DEF StreamBusy, Tied, Flowing
  <2>3. Head(queue) \in Ops
    BY <1>1, <2>2, HeadTail
  <2>4. /\ f \in ClientFrames
        /\ f.kind \in Final => f.op = Head(queue) /\ ~(sent + 1 < FrameCount(Head(queue)))
        /\ f.kind \notin Final => sent + 1 < FrameCount(Head(queue))
    BY <1>1, <2>1, <2>3 DEF NextFrame, Frame, ClientFrames, Final, FrameCount,
        ChannelAssumption, Ops
  <2> HIDE DEF f
  <2>5. OnTheWay' = Append(OnTheWay, f)
    BY <1>1, <2>1, <2>2, <2>4, SendOnTheWay
  <2> QED BY <2>1, <2>2, <2>4, <2>5, OrderWrite
<1>8. CASE FinishWrite
  <2>1. /\ queue # <<>> /\ sent = FrameCount(Head(queue)) /\ queue' = Tail(queue) /\ sent' = 0
        /\ UNCHANGED <<calls, served, rpcBuffer, phase, OnTheWay>>
    BY <1>3, <1>8 DEF FinishWrite, StreamBusy, chan, user, broker
  <2>2. Waiting = Elems(queue')
    BY <2>1 DEF Waiting, FrameCount
  <2>3. Waiting' = Elems(queue')
    BY <2>1 DEF Waiting, FrameCount, Elems
  <2>4. Flowing' => Coming /\ Ordered(queue', Earlier) /\ Elems(queue') \subseteq Elems(queue)
    <3>1. Flowing' => Coming
      BY <2>1 DEF Flowing
    <3>2. Ordered(queue, Earlier) => Ordered(Tail(queue), Earlier)
      BY <1>1, <2>1, OrderedTail
    <3>3. Elems(Tail(queue)) \subseteq Elems(queue)
      BY <1>1, <2>1, ElemsFacts
    <3> QED BY <2>1, <3>1, <3>2, <3>3 DEF Coming
  <2> QED BY <2>1, <2>2, <2>3, <2>4, OrderStill
<1>9. CASE OnReply
  <2>1. UNCHANGED <<calls, served, sent, outbuf, c2s>> /\ (Flowing' => Flowing)
    BY <1>9 DEF OnReply, broker, Flowing
  <2>2. CASE StartsNext
    <3>1. /\ rpcBuffer # <<>> /\ rpcBuffer' = Tail(rpcBuffer)
              /\ queue' = Append(queue, Head(rpcBuffer))
          /\ Flowing
      BY <1>9, <2>2 DEF OnReply, StartsNext, Flowing
    <3> QED BY <2>1, <3>1, OrderStart DEF OnTheWay
  <2>3. CASE ~StartsNext
    BY <1>4, <1>9, <2>1, <2>3 DEF OnReply
  <2> QED BY <2>2, <2>3
<1>10. ASSUME c2s # <<>>, c2s' = Tail(c2s), outbuf' = outbuf,
              UNCHANGED <<calls, queue, sent, rpcBuffer, phase>>,
              Head(c2s).kind \in Final => served' = Append(served, Head(c2s).op),
              Head(c2s).kind \notin Final => served' = served
       PROVE  G
  <2>1. /\ OnTheWay # <<>> /\ OnTheWay' = Tail(OnTheWay) /\ Head(OnTheWay) = Head(c2s)
    BY <1>1, <1>10, ReadOnTheWay
  <2>2. Flowing' => Flowing
    BY <1>10 DEF Flowing
  <2> QED BY <1>10, <2>1, <2>2, OrderRead
<1>11. CASE BrokerHead \/ BrokerServe
  BY <1>10, <1>11 DEF BrokerHead, BrokerServe, BrokerReads, Final, chan, stream, user
<1>12. CASE BrokerRefuse \/ BrokerOnClose \/ BrokerDiscard \/ BrokerOnCloseOk \/ BrokerKick
            \/ BrokerAbort \/ OnUnexpected \/ Lose \/ SocketClosed
  BY <1>12 DEF BrokerRefuse, BrokerOnClose, BrokerDiscard, BrokerOnCloseOk, BrokerKick,
     BrokerCloses, BrokerAbort, OnUnexpected, Lose, SocketClosed, Live
<1>13. CASE Drain \/ Bypass
  <2>1. OnTheWay' = OnTheWay
    BY <1>1, <1>13, FlushOnTheWay DEF Drain, Bypass
  <2> QED BY <1>2, <1>13, <2>1 DEF Drain, Bypass, chan, stream, user, broker, Flowing
<1>14. ASSUME NEW slot, ResumeClose(slot)
       PROVE  OnTheWay' = OnTheWay
                \/ \E f \in ClientFrames : f.kind \notin Final /\ OnTheWay' = Append(OnTheWay, f)
  <2>1. CASE UNCHANGED <<outbuf, c2s>>
    BY <2>1 DEF OnTheWay
  <2>2. CASE Send(Frame("close", None), full)
    <3>1. Frame("close", None) \in ClientFrames /\ Frame("close", None).kind \notin Final
      BY CloseFrames DEF Frame, Final
    <3> QED BY <1>1, <2>2, <3>1, SendOnTheWay DEF Tied
  <2> QED BY <1>14, <2>1, <2>2 DEF ResumeClose
<1>15. CASE StreamFinish
  BY <1>2, <1>14, <1>15 DEF StreamFinish, user, broker, Flowing
<1>16. CASE CloseImmediate
  BY <1>2, <1>14, <1>16 DEF CloseImmediate, stream, user, broker, Flowing
<1>17. CASE StreamFail
  <2>1. OnTheWay' = OnTheWay
          \/ \E f \in ClientFrames : f.kind \notin Final /\ OnTheWay' = Append(OnTheWay, f)
    <3>1. (\E slot : ResumeClose(slot)) \/ UNCHANGED <<outbuf, c2s>>
      BY <1>17 DEF StreamFail
    <3> QED BY <1>14, <3>1 DEF OnTheWay
  <2>2. ~Flowing' /\ UNCHANGED <<calls, served>>
    BY <1>17 DEF StreamFail, Flowing, broker
  <2> QED BY <1>2, <2>1, <2>2
<1>18. CASE OnChannelClose
  <2>1. Send(Frame("closeOk", None), full) /\ ~Flowing' /\ UNCHANGED <<calls, served>>
    BY <1>18 DEF OnChannelClose, Clear, StreamAfterClear, Flowing, broker
  <2>2. Frame("closeOk", None) \in ClientFrames /\ Frame("closeOk", None).kind \notin Final
    BY CloseFrames DEF Frame, Final
  <2>3. OnTheWay' = Append(OnTheWay, Frame("closeOk", None))
    BY <1>1, <2>1, <2>2, SendOnTheWay DEF Tied
  <2> QED BY <1>2, <2>1, <2>2, <2>3
<1>19. CASE OnCloseOk
  <2>1. UNCHANGED <<calls, served, OnTheWay>> /\ ~Flowing'
    BY <1>19 DEF OnCloseOk, Clear, StreamAfterClear, Flowing, broker, OnTheWay
  <2> QED BY <1>2, <2>1
<1>20. CASE \/ \E op \in Ops : CallClosed(op)
            \/ Close \/ FailWrite \/ AfterWrite \/ ReadChunk \/ OnConfirm \/ Stall
  BY <1>4, <1>20 DEF CallClosed, Close, StartClose, FailWrite, AfterWrite, ReadChunk, OnConfirm,
     Stall, chan, stream, user, wire, broker, Flowing
<1>21. CASE BrokerConfirm \/ UNCHANGED vars
  BY <1>4, <1>21 DEF BrokerConfirm, vars, chan, stream, user, wire, broker, Flowing
<1>22. (\A n \in Nowaits : InvokeNowait(n) => G) /\ (\A p \in Pubs : BasicPublish(p) => G)
  BY <1>6
<1> QED
  BY <1>5, <1>22, <1>7, <1>8, <1>9, <1>11, <1>12, <1>13, <1>15, <1>16, <1>17, <1>18, <1>19, <1>20,
     <1>21
  DEF Next, UserCall, EventLoop, BrokerStep, Environment

(* Once the broker has closed the channel it executes nothing.             *)
LEMMA OrderStep ==
  ASSUME ChannelAssumption, TypeOK, Shape, BufferBehindRpc, Tied, OrderInv, [Next]_vars
  PROVE  OrderInv'
<1>1. CallsOnce'
  BY CallsOnceStep DEF OrderInv
<1>2. Live' => Live
  BY StaysLive
<1>3. Live' => Passed' /\ (Flowing' => Coming')
  BY <1>2, OrderLive DEF OrderInv
<1>4. InCallOrder'
  <2>1. CASE Live'
    BY <1>1, <1>3, <2>1, TypeStep, PassedOrder, PTL
  <2>2. CASE ~Live'
    <3>1. calls \in Seq(Ops) /\ InCallOrder /\ CallsOnce
      BY DEF OrderInv, TypeOK, TypeUser
    <3>2. served' = served
      BY <2>2 DEF Next, UserCall, EventLoop, BrokerStep, Environment, vars, CallClosed, Invoke,
         InvokeNowait, BasicPublish, Close, WriteFrame, FinishWrite, FailWrite, Stall, Drain,
         Bypass, AfterWrite, StreamFinish, StreamFail, CloseImmediate, ReadChunk, OnReply,
         OnCloseOk, OnChannelClose, OnConfirm, OnUnexpected, Lose, SocketClosed, BrokerHead,
         BrokerServe, BrokerReads, BrokerConfirm, BrokerRefuse, BrokerKick, BrokerCloses,
         BrokerOnClose, BrokerDiscard, BrokerOnCloseOk, BrokerAbort, broker, sock, Live
    <3>3. CASE calls' = calls
      BY <3>1, <3>2, <3>3 DEF InCallOrder, Earlier
    <3>4. CASE \E op \in Ops : promise[op] = "none" /\ calls' = Append(calls, op)
      <4>1. PICK op \in Ops : promise[op] = "none" /\ calls' = Append(calls, op)
        BY <3>4
      <4>2. /\ Earlier' = Earlier \cup (Elems(calls) \X {op})
            /\ Elems(calls') = Elems(calls) \cup {op} /\ op \notin Elems(calls)
        BY <3>1, <4>1, EarlierAppend DEF CallsOnce
      <4>3. Ordered(served, Earlier')
        BY <3>1, <4>2, OrderGrows DEF InCallOrder
      <4>4. NoneSkipped(Elems(served), Earlier')
        BY <3>1, <4>2 DEF InCallOrder, NoneSkipped
      <4> QED BY <3>1, <3>2, <4>2, <4>3, <4>4 DEF InCallOrder
    <3>5. calls' = calls \/ \E op \in Ops : promise[op] = "none" /\ calls' = Append(calls, op)
      BY DEF Next, UserCall, EventLoop, BrokerStep, Environment, vars, CallClosed, Invoke, Call,
         InvokeNowait, BasicPublish, Close, WriteFrame, FinishWrite, FailWrite, Stall, Drain,
         Bypass, AfterWrite, StreamFinish, StreamFail, CloseImmediate, ReadChunk, OnReply,
         OnCloseOk, OnChannelClose, OnConfirm, OnUnexpected, Lose, SocketClosed, Clear,
         BrokerHead, BrokerServe, BrokerConfirm, BrokerRefuse, BrokerKick, BrokerCloses,
         BrokerOnClose, BrokerDiscard, BrokerOnCloseOk, BrokerAbort, user, Ops
    <3> QED BY <3>3, <3>4, <3>5
  <2> QED BY <2>1, <2>2
<1> QED BY <1>1, <1>3, <1>4 DEF OrderInv
-----------------------------------------------------------------------------
(* The frames of a publish stay together.                                  *)

(* A line is its first frame and those behind it.                          *)
LEMMA LineParts ==
  ASSUME NEW S, NEW x \in S, NEW s \in Seq(S)
  PROVE  LET u == <<x>> \o s
         IN  /\ Len(s) \in Nat /\ Len(u) = Len(s) + 1 /\ u[1] = x /\ u \in Seq(S)
             /\ DOMAIN s = 1..Len(s) /\ \A i \in 1..Len(s) : u[i + 1] = s[i]
OBVIOUS

(* A frame at the end of the line starts a publish, ends the one that the  *)
(* last frame starts, or comes when none is under way.                     *)
LEMMA LineAppend ==
  ASSUME NEW S, NEW x \in S, NEW s \in Seq(S), NEW f \in S
  PROVE  LET u == <<x>> \o s
             v == <<x>> \o Append(s, f)
         IN  /\ v[Len(v)] = f
             /\ /\ Paired(u) /\ (u[Len(u)].kind = "head" <=> f.kind = "body")
                /\ u[Len(u)].kind = "head" => f.op = u[Len(u)].op
                => Paired(v)
<1> DEFINE u == <<x>> \o s
           t == Append(s, f)
           v == <<x>> \o t
<1>1. /\ Len(t) = Len(s) + 1 /\ t[Len(s) + 1] = f /\ \A i \in 1..Len(s) : t[i] = s[i]
      /\ t \in Seq(S)
  OBVIOUS
<1>2. /\ Len(s) \in Nat /\ Len(u) = Len(s) + 1 /\ u[1] = x
      /\ \A i \in 1..Len(s) : u[i + 1] = s[i]
  BY LineParts
<1> HIDE DEF t
<1>3. /\ Len(v) = Len(t) + 1 /\ v[1] = x /\ \A i \in 1..Len(t) : v[i + 1] = t[i]
  BY <1>1, LineParts
<1> HIDE DEF u, v
<1>4. Len(v) = Len(u) + 1 /\ v[Len(v)] = f
  BY <1>1, <1>2, <1>3
<1>5. \A i \in 1..Len(u) : v[i] = u[i]
  <2> SUFFICES ASSUME NEW i \in 1..Len(u) PROVE v[i] = u[i]
    OBVIOUS
  <2>1. CASE i = 1
    BY <1>2, <1>3, <2>1
  <2>2. CASE i # 1
    <3>1. i - 1 \in 1..Len(s) /\ i - 1 \in 1..Len(t) /\ (i - 1) + 1 = i
      BY <1>1, <1>2, <2>2
    <3> QED BY <1>1, <1>2, <1>3, <3>1
  <2> QED BY <2>1, <2>2
<1>6. ASSUME Paired(u), u[Len(u)].kind = "head" <=> f.kind = "body",
             u[Len(u)].kind = "head" => f.op = u[Len(u)].op
      PROVE  Paired(v)
  <2> SUFFICES ASSUME NEW i \in 1..(Len(v) - 1)
               PROVE  /\ v[i].kind = "head" <=> v[i + 1].kind = "body"
                      /\ v[i].kind = "head" => v[i + 1].op = v[i].op
    BY DEF Paired
  <2>1. CASE i = Len(u)
    <3>1. v[i] = u[Len(u)] /\ v[i + 1] = f
      BY <1>2, <1>4, <1>5, <2>1
    <3> QED BY <1>6, <3>1
  <2>2. CASE i # Len(u)
    <3>1. i \in 1..(Len(u) - 1) /\ v[i] = u[i] /\ v[i + 1] = u[i + 1]
      BY <1>2, <1>4, <1>5, <2>2
    <3> QED BY <1>6, <3>1 DEF Paired
  <2> QED BY <2>1, <2>2
<1> QED BY <1>4, <1>6 DEF u, v, t

(* When the first frame behind it is read, that one takes its place.       *)
LEMMA LineTail ==
  ASSUME NEW S, NEW x \in S, NEW y \in S, NEW s \in Seq(S), s # <<>>,
         y.kind = "head" <=> Head(s).kind = "head",
         y.kind = "head" => y.op = Head(s).op
  PROVE  LET u == <<x>> \o s
             v == <<y>> \o Tail(s)
         IN  Paired(u) =>
               /\ Paired(v)
               /\ v[Len(v)].kind = "head" <=> u[Len(u)].kind = "head"
               /\ v[Len(v)].kind = "head" => v[Len(v)].op = u[Len(u)].op
<1> DEFINE u == <<x>> \o s
           t == Tail(s)
           v == <<y>> \o t
<1>1. /\ Len(s) > 0 /\ Len(t) = Len(s) - 1 /\ \A i \in 1..(Len(s) - 1) : t[i] = s[i + 1]
      /\ t \in Seq(S) /\ Head(s) = s[1]
  OBVIOUS
<1>2. /\ Len(s) \in Nat /\ Len(u) = Len(s) + 1 /\ u[1] = x
      /\ \A i \in 1..Len(s) : u[i + 1] = s[i]
  BY LineParts
<1> HIDE DEF t
<1>3. /\ Len(v) = Len(t) + 1 /\ v[1] = y /\ \A i \in 1..Len(t) : v[i + 1] = t[i]
  BY <1>1, LineParts
<1> HIDE DEF u, v
<1>4. Len(v) = Len(u) - 1 /\ Len(v) \in Nat /\ Len(v) > 0
  BY <1>1, <1>2, <1>3
<1>5. \A i \in 1..Len(v) : i > 1 => v[i] = u[i + 1]
  <2> SUFFICES ASSUME NEW i \in 1..Len(v), i > 1 PROVE v[i] = u[i + 1]
    OBVIOUS
  <2>1. i - 1 \in 1..Len(t) /\ i \in 1..Len(s) /\ i - 1 \in 1..(Len(s) - 1) /\ (i - 1) + 1 = i
    BY <1>1, <1>2, <1>3
  <2> QED BY ZenonT(30), <1>1, <1>2, <1>3, <2>1
<1>6. u[2] = Head(s)
  <2>1. 1 \in 1..Len(s) /\ 1 + 1 = 2
    BY <1>1, <1>2
  <2> QED BY <1>1, <1>2, <2>1
<1>7. \A i \in 1..Len(v) : /\ v[i].kind = "head" <=> u[i + 1].kind = "head"
                           /\ v[i].kind = "head" => v[i].op = u[i + 1].op
  <2> SUFFICES ASSUME NEW i \in 1..Len(v)
               PROVE  /\ v[i].kind = "head" <=> u[i + 1].kind = "head"
                      /\ v[i].kind = "head" => v[i].op = u[i + 1].op
    OBVIOUS
  <2>1. CASE i = 1
    BY <1>3, <1>6, <2>1
  <2>2. CASE i > 1
    BY <1>5, <2>2
  <2> QED BY <1>4, <2>1, <2>2
<1>8. ASSUME Paired(u) PROVE Paired(v)
  <2> SUFFICES ASSUME NEW i \in 1..(Len(v) - 1)
               PROVE  /\ v[i].kind = "head" <=> v[i + 1].kind = "body"
                      /\ v[i].kind = "head" => v[i + 1].op = v[i].op
    BY DEF Paired
  <2>1. /\ i \in 1..Len(v) /\ i + 1 \in 1..Len(v) /\ i + 1 > 1
        /\ i + 1 \in 1..(Len(u) - 1)
    BY <1>4
  <2>2. v[i + 1] = u[(i + 1) + 1]
    BY <1>5, <2>1
  <2>3. /\ u[i + 1].kind = "head" <=> u[(i + 1) + 1].kind = "body"
        /\ u[i + 1].kind = "head" => u[(i + 1) + 1].op = u[i + 1].op
    BY <1>8, <2>1 DEF Paired
  <2> QED BY <1>7, <2>1, <2>2, <2>3
<1>9. /\ v[Len(v)].kind = "head" <=> u[Len(u)].kind = "head"
      /\ v[Len(v)].kind = "head" => v[Len(v)].op = u[Len(u)].op
  <2>1. Len(v) \in 1..Len(v) /\ Len(v) + 1 = Len(u)
    BY <1>2, <1>4
  <2> QED BY <1>7, <2>1
<1> QED BY <1>8, <1>9 DEF u, v, t

(* Every step of the stream, of a close and of the broker keeps them so.   *)
LEMMA WholeStep ==
  ASSUME ChannelAssumption, TypeOK, Shape, Tied, Unended, WholeInv, [Next]_vars
  PROVE  WholeInv'
<1> DEFINE x == Frame(IF partial # None THEN "head" ELSE "none", partial)
           S == ClientFrames \cup [kind : {"head", "none"}, op : Ops \cup {None}]
           last == Line[Len(Line)]
           G == Paired(Line') /\ (Line'[Len(Line')].kind = "head" <=> Mid')
                /\ (Mid' => Line'[Len(Line')].op = Head(queue'))
<1> SUFFICES ASSUME Live' PROVE G
  BY DEF WholeInv
<1>1. /\ Live /\ ~cleared /\ ~Has(chunk, {"close", "closeOk"})
      /\ Paired(Line) /\ (last.kind = "head" <=> Mid) /\ (Mid => last.op = Head(queue))
  BY StaysLive DEF Unended, WholeInv
<1>2. /\ queue \in Seq(Ops) /\ rpcBuffer \in Seq(Rpcs) /\ OnTheWay \in Seq(ClientFrames)
      /\ TypeWire /\ full \in BOOLEAN /\ sent \in 0..2 /\ socket = "up" /\ None \notin Ops
      /\ chunk \in Seq(BrokerFrames) /\ partial \in Ops \cup {None}
  BY <1>1, WireType DEF TypeOK, TypeStream, TypeChannel, TypeFlags, TypeWire, TypeBroker, Live,
     ChannelAssumption
<1>3. x \in S /\ OnTheWay \in Seq(S) /\ Line = <<x>> \o OnTheWay
  BY <1>2 DEF Frame, Line
<1>4. ASSUME OnTheWay' = OnTheWay, partial' = partial, Mid' <=> Mid,
             Mid => Head(queue') = Head(queue)
      PROVE  G
  <2>1. Line' = Line
    BY <1>4 DEF Line
  <2> QED BY <1>1, <1>4, <2>1
<1>5. ASSUME UNCHANGED <<outbuf, c2s, partial, sent>>,
             queue' = queue \/ \E op \in Ops : queue' = Append(queue, op)
      PROVE  G
  <2>1. OnTheWay' = OnTheWay
    BY <1>5 DEF OnTheWay
  <2>2. CASE queue = <<>>
    BY <1>4, <1>5, <2>1, <2>2 DEF Mid, Tied
  <2>3. CASE queue # <<>>
    <3>1. \A op \in Ops : Append(queue, op) # <<>> /\ Head(Append(queue, op)) = Head(queue)
      BY <1>2, <2>3
    <3> QED BY <1>4, <1>5, <2>1, <2>3, <3>1 DEF Mid
  <2> QED BY <2>2, <2>3
<1>6. ASSUME NEW f \in ClientFrames, OnTheWay' = Append(OnTheWay, f), partial' = partial,
             last.kind = "head" <=> f.kind = "body", last.kind = "head" => f.op = last.op,
             f.kind = "head" <=> Mid', Mid' => f.op = Head(queue')
      PROVE  G
  <2>1. f \in S /\ Line' = <<x>> \o Append(OnTheWay, f)
    BY <1>6 DEF Line
  <2> HIDE DEF x, S
  <2>2. Line'[Len(Line')] = f /\ Paired(Line')
    BY <1>1, <1>3, <1>6, <2>1, LineAppend
  <2> QED BY <1>6, <2>2
<1>7. ASSUME c2s # <<>>, c2s' = Tail(c2s), outbuf' = outbuf, UNCHANGED <<queue, sent>>,
             Head(c2s).kind = "head" => partial' = Head(c2s).op,
             Head(c2s).kind # "head" => partial' = None
      PROVE  G
  <2> DEFINE y == Frame(IF partial' # None THEN "head" ELSE "none", partial')
  <2>1. /\ OnTheWay # <<>> /\ OnTheWay' = Tail(OnTheWay) /\ Head(OnTheWay) = Head(c2s)
    BY <1>2, <1>7, ReadOnTheWay
  <2>2. Head(c2s) \in ClientFrames
    BY <1>2, <1>7, HeadTail DEF TypeWire
  <2>3. Head(c2s).kind = "head" => Head(c2s).op \in Ops
    BY <2>2, CallFrame
  <2>4. /\ y \in S /\ (y.kind = "head" <=> Head(c2s).kind = "head")
        /\ y.kind = "head" => y.op = Head(c2s).op
    BY <1>2, <1>7, <2>3 DEF Frame
  <2>5. Line' = <<y>> \o Tail(OnTheWay)
    BY <2>1 DEF Line
  <2> HIDE DEF x, y, S
  <2>6. /\ Paired(Line') /\ (Line'[Len(Line')].kind = "head" <=> last.kind = "head")
        /\ Line'[Len(Line')].kind = "head" => Line'[Len(Line')].op = last.op
    BY <1>1, <1>3, <2>1, <2>4, <2>5, LineTail
  <2>7. (Mid' <=> Mid) /\ queue' = queue
    BY <1>7 DEF Mid
  <2> QED BY <1>1, <2>6, <2>7
<1> HIDE DEF x, S, last, G
<1>8. CASE \/ \E op \in Ops : CallClosed(op)
           \/ \E r \in Rpcs : Invoke(r)
           \/ \E n \in Nowaits : InvokeNowait(n)
           \/ \E p \in Pubs : BasicPublish(p)
           \/ Close \/ FailWrite \/ AfterWrite \/ ReadChunk \/ OnConfirm \/ Stall
           \/ BrokerConfirm \/ UNCHANGED vars
  BY <1>5, <1>8 DEF CallClosed, Invoke, InvokeNowait, BasicPublish, Close, FailWrite, AfterWrite,
     ReadChunk, OnConfirm, Stall, BrokerConfirm, vars, stream, wire, broker, Ops
<1>9. CASE WriteFrame
  <2> DEFINE f == NextFrame(Head(queue), sent)
  <2>1. /\ StreamBusy /\ sent < FrameCount(Head(queue)) /\ Send(f, full') /\ sent' = sent + 1
        /\ UNCHANGED <<queue, partial>> /\ full' \in BOOLEAN
    BY <1>2, <1>9 DEF WriteFrame, broker
  <2>2. queue # <<>> /\ outbuf = <<>>
    BY <2>1 DEF StreamBusy, Tied
  <2>3. Head(queue) \in Ops
    BY <1>2, <2>2, HeadTail
  <2>4. f \in ClientFrames /\ f.op = Head(queue)
    BY <2>3 DEF NextFrame, Frame, ClientFrames
  <2>5. (f.kind = "body" <=> Mid) /\ (f.kind = "head" <=> Mid')
    BY <1>2, <2>1, <2>2, <2>3 DEF NextFrame, Frame, FrameCount, Mid, ChannelAssumption, Ops
  <2> HIDE DEF f
  <2>6. OnTheWay' = Append(OnTheWay, f)
    BY <1>2, <2>1, <2>2, <2>4, SendOnTheWay
  <2> QED BY <1>1, <1>6, <2>1, <2>4, <2>5, <2>6
<1>10. CASE FinishWrite
  <2>1. /\ sent = FrameCount(Head(queue)) /\ sent' = 0 /\ UNCHANGED <<outbuf, c2s, partial>>
    BY <1>10 DEF FinishWrite, wire, broker
  <2>2. ~Mid /\ ~Mid' /\ OnTheWay' = OnTheWay
    BY <2>1 DEF Mid, FrameCount, OnTheWay
  <2> QED BY <1>4, <2>1, <2>2
<1>11. CASE OnReply
  <2>1. queue' = queue \/ (rpcBuffer # <<>> /\ queue' = Append(queue, Head(rpcBuffer)))
    BY <1>11 DEF OnReply, StartsNext
  <2>2. rpcBuffer # <<>> => Head(rpcBuffer) \in Ops
    BY <1>2, HeadTail DEF Ops
  <2> QED BY <1>5, <1>11, <2>1, <2>2 DEF OnReply, broker
<1>12. CASE BrokerHead \/ BrokerServe
  BY <1>7, <1>12 DEF BrokerHead, BrokerServe, BrokerReads, stream
<1>13. CASE BrokerRefuse \/ BrokerOnClose \/ BrokerDiscard \/ BrokerOnCloseOk \/ BrokerKick
            \/ BrokerAbort \/ OnUnexpected \/ Lose \/ SocketClosed
  BY <1>1, <1>13 DEF BrokerRefuse, BrokerOnClose, BrokerDiscard, BrokerOnCloseOk, BrokerKick,
     BrokerCloses, BrokerAbort, OnUnexpected, Lose, SocketClosed, Live
<1>14. CASE Drain \/ Bypass
  <2>1. OnTheWay' = OnTheWay
    BY <1>2, <1>14, FlushOnTheWay DEF Drain, Bypass
  <2>2. UNCHANGED <<queue, sent, partial>>
    BY <1>14 DEF Drain, Bypass, stream, broker
  <2> QED BY <1>4, <2>1, <2>2 DEF Mid
<1>15. ASSUME ~Mid, ~Mid', partial' = partial,
              (\E slot : ResumeClose(slot)) \/ UNCHANGED <<outbuf, c2s>>
       PROVE  G
  <2>1. CASE UNCHANGED <<outbuf, c2s>>
    BY <1>4, <1>15, <2>1 DEF OnTheWay
  <2>2. CASE Send(Frame("close", None), full)
    <3> DEFINE f == Frame("close", None)
    <3>1. f \in ClientFrames /\ f.kind = "close"
      BY CloseFrames DEF Frame
    <3>2. OnTheWay' = Append(OnTheWay, f)
      BY <1>2, <2>2, <3>1, SendOnTheWay DEF Tied
    <3> HIDE DEF f
    <3> QED BY <1>1, <1>6, <1>15, <3>1, <3>2
  <2> QED BY <1>15, <2>1, <2>2 DEF ResumeClose
<1>16. CASE StreamFinish
  BY <1>15, <1>16 DEF StreamFinish, Mid, broker
<1>17. CASE CloseImmediate
  <2>1. phase = "closed" /\ UNCHANGED <<queue, sent, partial>>
    BY <1>17 DEF CloseImmediate, Macrotask, TickPending, Shape, TypeOK, TypeStream, stream, broker
  <2>2. ~Mid /\ ~Mid'
    BY <2>1 DEF Mid, Shape
  <2> QED BY <1>15, <1>17, <2>1, <2>2 DEF CloseImmediate
<1>18. CASE StreamFail
  <2>1. ~Mid /\ ~Mid'
    BY <1>1, <1>18 DEF StreamFail, Mid, Shape
  <2> QED BY <1>15, <1>18, <2>1 DEF StreamFail, broker
<1>19. ~OnChannelClose /\ ~OnCloseOk
  <2>1. chunk # <<>> => Head(chunk).kind \notin {"close", "closeOk"}
    BY <1>1, <1>2, TailFacts
  <2> QED BY <2>1 DEF OnChannelClose, OnCloseOk, Receive
<1> QED
  BY <1>8, <1>9, <1>10, <1>11, <1>12, <1>13, <1>14, <1>16, <1>17, <1>18, <1>19
  DEF Next, UserCall, EventLoop, BrokerStep, Environment, G

(* What the broker reads next fits what it has read.                       *)
LEMMA WholeContiguous ==
  ASSUME ChannelAssumption, TypeOK, Tied, WholeInv PROVE ContentContiguous
<1> SUFFICES ASSUME bState = "open", c2s # <<>>
             PROVE  /\ partial # None <=> Head(c2s).kind = "body"
                    /\ partial # None => Head(c2s).op = partial
  BY DEF ContentContiguous
<1> DEFINE x == Frame(IF partial # None THEN "head" ELSE "none", partial)
           S == ClientFrames \cup [kind : {"head", "none"}, op : Ops \cup {None}]
<1>1. Live /\ Paired(Line)
  BY DEF Tied, Live, WholeInv
<1>2. OnTheWay \in Seq(ClientFrames) /\ c2s \in Seq(ClientFrames) /\ outbuf \in Seq(ClientFrames)
  BY WireType DEF TypeOK, TypeWire
<1>3. x \in S /\ OnTheWay \in Seq(S)
  BY <1>2 DEF Frame, TypeOK, TypeBroker
<1>4. OnTheWay[1] = Head(c2s) /\ Len(OnTheWay) > 0
  BY <1>2 DEF OnTheWay
<1>5. Line[1] = x /\ Line[2] = Head(c2s) /\ Len(Line) > 1
  <2>1. /\ Len(OnTheWay) \in Nat /\ Len(Line) = Len(OnTheWay) + 1 /\ Line[1] = x
        /\ \A i \in 1..Len(OnTheWay) : Line[i + 1] = OnTheWay[i]
    BY <1>3, LineParts DEF Line
  <2>2. 1 \in 1..Len(OnTheWay) /\ 1 + 1 = 2
    BY <1>4, <2>1
  <2> QED BY <1>4, <2>1, <2>2
<1>6. Len(Line) \in Nat
  BY <1>3, LineParts DEF Line
<1>7. /\ x.kind = "head" <=> Head(c2s).kind = "body"
      /\ x.kind = "head" => Head(c2s).op = x.op
  <2>1. 1 \in 1..(Len(Line) - 1) /\ 1 + 1 = 2
    BY <1>5, <1>6
  <2> QED BY <1>1, <1>5, <2>1 DEF Paired
<1> QED BY <1>7 DEF Frame

(* The invariants of the order of calls hold at the start.                 *)
LEMMA StreamInit ==
  ASSUME ChannelAssumption, Init PROVE Tied /\ Unended /\ WholeInv /\ OrderInv
<1> USE DEF Init
<1>1. Elems(<<>>) = {} /\ OnTheWay = <<>>
  BY DEF Elems, OnTheWay
<1>2. Tied
  BY DEF Tied
<1>3. Unended
  BY EmptyFacts DEF Unended
<1>4. WholeInv
  <2>1. Line = <<Frame("none", None)>>
    BY <1>1 DEF Line
  <2> QED BY <2>1 DEF WholeInv, Paired, Frame, Mid
<1>5. Earlier = {} /\ Finals(OnTheWay) = {} /\ Reached = {} /\ Waiting = {}
  BY <1>1 DEF Earlier, Finals, Reached, Waiting
<1>6. OrderInv
  BY <1>1, <1>5 DEF OrderInv, CallsOnce, InCallOrder, Passed, Coming, Ordered, OrderedFrames, Ahead,
     NoneSkipped
<1> QED BY <1>2, <1>3, <1>4, <1>6

(* Calls reach the broker whole and in their order, whenever the stream    *)
(* stalls, fails or is ended by a close, whatever the broker does.         *)
THEOREM CallsInOrder == Spec => []StreamOrder
<1> DEFINE I == Tied /\ Unended /\ WholeInv /\ OrderInv
<1>1. Init => I
  BY StreamInit, ChannelAssumption
<1>2. Service /\ I /\ [Next]_vars => I'
  BY TiedStep, UnendedStep, WholeStep, OrderStep, ChannelAssumption DEF Service, ServiceInv
<1>3. Service /\ I => StreamOrder
  BY WholeContiguous, ChannelAssumption DEF Service, OrderInv, StreamOrder
<1> HIDE DEF I
<1> QED BY <1>1, <1>2, <1>3, ServiceCorrect, PTL DEF Spec

=============================================================================

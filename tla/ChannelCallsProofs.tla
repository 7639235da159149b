------------------------- MODULE ChannelCallsProofs -------------------------
(***************************************************************************)
(* What becomes of a call: the proofs that no call is dropped, of          *)
(* CallsAccounted, of SettledOnce, of ImplementsQueue (the requests of a   *)
(* channel are the queue of RpcQueue) and, at the end, of OwnConfirm, for  *)
(* every set of calls, every broker and every environment that a theorem   *)
(* does not exclude by name.                                               *)
(***************************************************************************)
EXTENDS ChannelProofs, SequenceTheorems

-----------------------------------------------------------------------------
(* Every pending call is held somewhere.                                   *)

(* A request that is still in the stream when the stream fails is the one  *)
(* in the slot, or was written before it.                                  *)
SlotQueued ==
  rpc \in Rpcs =>
    \A i \in DOMAIN queue : queue[i] \in Rpcs => \E j \in DOMAIN queue : j >= i /\ queue[j] = rpc

HeldInv == SlotQueued /\ NoCallDropped

(* Without confirm.select no publish waits for the broker.                 *)
Unselected == mode = "normal" /\ confirming = {}

-----------------------------------------------------------------------------
(* The books of calls.                                                     *)

(* A request goes to the end of the queue as it goes into the slot.        *)
LEMMA SlotQueuedStep ==
  ASSUME ChannelAssumption, TypeOK, SlotQueued, [Next]_vars PROVE SlotQueued'
<1> USE DEF SlotQueued
<1>1. queue \in Seq(Ops) /\ rpcBuffer \in Seq(Rpcs) /\ None \notin Rpcs /\ ChannelClose \notin Rpcs
  BY DEF TypeOK, TypeStream, TypeChannel, ChannelAssumption, Ops
<1>2. ASSUME UNCHANGED <<rpc, queue>> PROVE SlotQueued'
  BY <1>2
<1>3. ASSUME rpc' \notin Rpcs PROVE SlotQueued'
  BY <1>3
<1>4. ASSUME rpc' \in {rpc, None, ChannelClose}, queue' = <<>> PROVE SlotQueued'
  BY <1>4
<1>5. ASSUME NEW r \in Rpcs, rpc' = r, queue' = Append(queue, r) PROVE SlotQueued'
  <2>1. r \in Ops
    BY DEF Ops
  <2> DEFINE q == Append(queue, r)
  <2>2. DOMAIN q = 1..(Len(queue) + 1) /\ q[Len(queue) + 1] = r /\ Len(queue) \in Nat
    BY <1>1, <2>1
  <2> HIDE DEF q
  <2>3. \A i \in DOMAIN q : Len(queue) + 1 \in DOMAIN q /\ Len(queue) + 1 >= i
    BY <2>2
  <2>4. queue' = q
    BY <1>5 DEF q
  <2> QED BY <1>5, <2>2, <2>3, <2>4
<1>6. ASSUME NEW op \in Ops \ Rpcs, rpc' = rpc, queue' = Append(queue, op) PROVE SlotQueued'
  <2> DEFINE q == Append(queue, op)
  <2>1. /\ DOMAIN q = 1..(Len(queue) + 1) /\ q[Len(queue) + 1] = op /\ Len(queue) \in Nat
        /\ DOMAIN queue = 1..Len(queue) /\ \A i \in 1..Len(queue) : q[i] = queue[i]
    BY <1>1
  <2> HIDE DEF q
  <2>2. \A i \in DOMAIN q : q[i] \in Rpcs => i \in DOMAIN queue
    BY <2>1
  <2>3. queue' = q
    BY <1>6 DEF q
  <2> QED BY <1>6, <2>1, <2>2, <2>3
<1>7. ASSUME rpc' = rpc, queue # <<>>, queue' = Tail(queue) PROVE SlotQueued'
  <2> DEFINE q == Tail(queue)
  <2>1. /\ DOMAIN q = 1..(Len(queue) - 1) /\ Len(queue) \in Nat /\ DOMAIN queue = 1..Len(queue)
        /\ \A i \in 1..(Len(queue) - 1) : q[i] = queue[i + 1]
    BY <1>1, <1>7
  <2> HIDE DEF q
  <2>2. ASSUME NEW i \in DOMAIN q, q[i] \in Rpcs, rpc \in Rpcs
        PROVE  \E j \in DOMAIN q : j >= i /\ q[j] = rpc
    <3>1. i + 1 \in DOMAIN queue /\ queue[i + 1] = q[i] /\ i \in Nat
      BY <2>1
    <3>2. PICK j \in DOMAIN queue : j >= i + 1 /\ queue[j] = rpc
      BY <3>1, <2>2
    <3>3. j - 1 \in DOMAIN q /\ j - 1 >= i /\ q[j - 1] = rpc
      BY <2>1, <3>1, <3>2
    <3> QED BY <3>3
  <2>3. queue' = q
    BY <1>7 DEF q
  <2> QED BY <1>7, <2>2, <2>3
<1>8. ASSUME NEW r \in Rpcs, Invoke(r) PROVE SlotQueued'
  BY <1>2, <1>5, <1>8 DEF Invoke
<1>9. ASSUME NEW op \in Nowaits, InvokeNowait(op) PROVE SlotQueued'
  BY <1>6, <1>9 DEF InvokeNowait, chan, ChannelAssumption, Ops
<1>10. ASSUME NEW op \in Pubs, BasicPublish(op) PROVE SlotQueued'
  BY <1>6, <1>10 DEF BasicPublish, chan, ChannelAssumption, Ops
<1>11. CASE FinishWrite
  BY <1>7, <1>11 DEF FinishWrite, StreamBusy, chan
<1>12. CASE OnReply
  <2>1. CASE StartsNext
    <3>1. Head(rpcBuffer) \in Rpcs
      BY <1>1, <2>1, HeadTail DEF StartsNext
    <3> QED BY <1>5, <1>12, <2>1, <3>1 DEF OnReply
  <2>2. CASE ~StartsNext
    BY <1>1, <1>3, <1>12, <2>2 DEF OnReply
  <2> QED BY <2>1, <2>2
<1>13. CASE StreamFinish \/ CloseImmediate
  BY <1>1, <1>3, <1>13 DEF StreamFinish, CloseImmediate, ResumeClose
<1>14. CASE StreamFail
  BY <1>4, <1>14 DEF StreamFail, ResumeClose
<1>15. CASE OnCloseOk \/ OnChannelClose \/ (SocketClosed /\ ~cleared)
  BY <1>1, <1>3, <1>15 DEF OnCloseOk, OnChannelClose, SocketClosed, Clear, EmptyAll
<1>16. CASE OnUnexpected
  BY <1>1, <1>2, <1>3, <1>16 DEF OnUnexpected, stream
<1>17. CASE \/ \E op \in Ops : CallClosed(op)
            \/ Close \/ WriteFrame \/ FailWrite \/ Stall \/ Drain \/ Bypass \/ AfterWrite
            \/ ReadChunk \/ OnConfirm \/ Lose \/ (SocketClosed /\ cleared)
  BY <1>2, <1>17 DEF CallClosed, Close, WriteFrame, FailWrite, Stall, Drain, Bypass,
     AfterWrite, ReadChunk, OnConfirm, Lose, SocketClosed, chan, stream
<1>18. CASE \/ BrokerHead \/ BrokerServe \/ BrokerConfirm \/ BrokerRefuse \/ BrokerKick
            \/ BrokerOnClose \/ BrokerDiscard \/ BrokerOnCloseOk \/ BrokerAbort
            \/ UNCHANGED vars
  BY <1>2, <1>18 DEF BrokerHead, BrokerServe, BrokerConfirm, BrokerRefuse, BrokerKick,
     BrokerCloses, BrokerOnClose, BrokerDiscard, BrokerOnCloseOk, BrokerAbort, chan, stream, vars
<1> QED
  BY <1>8, <1>9, <1>10, <1>11, <1>12, <1>13, <1>14, <1>15, <1>16, <1>17, <1>18
  DEF Next, UserCall, EventLoop, BrokerStep, Environment

(* A socket that is up now was up before.                                  *)
(* Every step keeps hold of the calls it does not settle.                  *)
LEMMA HeldStep ==
  ASSUME ChannelAssumption, TypeOK, Shape, SlotQueued, NoCallDropped, [Next]_vars
  PROVE  NoCallDropped'
<1> SUFFICES ASSUME socket' = "up", NEW op \in Ops, promise'[op] = "pending"
             PROVE  op \in Held' \/ (closer' = "final" /\ op = final')
  BY DEF NoCallDropped
<1>1. /\ queue \in Seq(Ops) /\ rpcBuffer \in Seq(Rpcs) /\ written \in Seq(Pubs)
      /\ None \notin Ops /\ ChannelClose \notin Ops /\ None # ChannelClose
      /\ Rpcs \cap Pubs = {} /\ Nowaits \cap Pubs = {} /\ Rpcs \cap Nowaits = {}
  BY DEF TypeOK, TypeStream, TypeChannel, ChannelAssumption
<1>2. promise[op] = "pending" => op \in Held \/ (closer = "final" /\ op = final)
  BY StaysUp DEF NoCallDropped
<1>3. ASSUME NEW T, NEW how, Settle(T, how)
      PROVE  (op \in T /\ how = "pending") \/ (op \notin T /\ promise[op] = "pending")
  BY <1>3 DEF Settle
<1> DEFINE Safe == op \in Held' \/ (closer' = "final" /\ op = final')
<1>4. ASSUME UNCHANGED <<rpc, rpcBuffer, unconfirmed, written, queue, closer, final>>,
             promise[op] = "pending"
      PROVE  Safe
  BY <1>2, <1>4 DEF Held
<1>5. ASSUME NEW r \in Rpcs, Invoke(r) PROVE Safe
  <2>1. /\ r \in Ops /\ Elems(Append(queue, r)) = Elems(queue) \cup {r}
        /\ Elems(Append(rpcBuffer, r)) = Elems(rpcBuffer) \cup {r}
    <3>1. r \in Ops
      BY DEF Ops
    <3> QED BY <1>1, <3>1, ElemsParts
  <2>2. UNCHANGED <<unconfirmed, written, closer, final>> /\ Settle({r}, "pending")
    BY <1>5 DEF Invoke, Call, close
  <2>3. \/ rpc' = rpc /\ Elems(rpcBuffer') = Elems(rpcBuffer) \cup {r} /\ queue' = queue
        \/ /\ rpc = None /\ rpc' = r /\ Elems(queue') = Elems(queue) \cup {r}
           /\ rpcBuffer' = rpcBuffer
    BY <1>5, <2>1 DEF Invoke, RpcBusy, Push
  <2>4. op = r \/ promise[op] = "pending"
    BY <1>3, <2>2
  <2>5. op = r => Safe
    BY <2>3 DEF Held
  <2>6. op \in Held => Safe
    BY <1>1, <2>2, <2>3 DEF Held
  <2> QED BY <1>2, <2>2, <2>4, <2>5, <2>6
<1>6. ASSUME NEW n \in Pubs \cup Nowaits,
             (n \in Nowaits /\ InvokeNowait(n)) \/ (n \in Pubs /\ BasicPublish(n))
      PROVE  Safe
  <2>1. n \in Ops /\ Elems(Append(queue, n)) = Elems(queue) \cup {n}
    <3>1. n \in Ops
      BY DEF Ops
    <3> QED BY <1>1, <3>1, ElemsParts
  <2>2. /\ UNCHANGED <<rpc, rpcBuffer, unconfirmed, written, closer, final>>
        /\ queue' = Append(queue, n)
    BY <1>6 DEF InvokeNowait, BasicPublish, chan, close
  <2>3. op \in Held => Safe
    BY <2>1, <2>2 DEF Held
  <2>4. CASE n \in Nowaits /\ InvokeNowait(n)
    <3>1. promise[op] = "pending"
      BY <1>3, <2>4 DEF InvokeNowait, Call
    <3> QED BY <1>2, <2>2, <2>3, <3>1
  <2>5. CASE n \in Pubs /\ BasicPublish(n)
    <3>1. op = n \/ promise[op] = "pending"
      BY <1>3, <2>5 DEF BasicPublish, Call
    <3>2. n \in Held'
      BY <2>1, <2>2, <2>5 DEF Held
    <3> QED BY <1>2, <2>2, <2>3, <3>1, <3>2
  <2> QED BY <1>6, <2>4, <2>5
<1>7. CASE Close
  <2>1. closer = "idle"
    BY <1>7 DEF Close, Shape
  <2>2. UNCHANGED <<rpc, rpcBuffer, unconfirmed, written, queue, promise>>
    BY <1>7 DEF Close, user
  <2> QED BY <1>2, <2>1, <2>2 DEF Held
<1>8. CASE FinishWrite
  <2>1. /\ queue # <<>> /\ queue' = Tail(queue)
        /\ written' = IF CallsBack(Head(queue)) THEN Append(written, Head(queue)) ELSE written
        /\ UNCHANGED <<rpc, rpcBuffer, unconfirmed, closer, final, promise>>
    BY <1>8 DEF FinishWrite, StreamBusy, chan, close, user
  <2>2. Elems(queue) = {Head(queue)} \cup Elems(queue')
    BY <1>1, <2>1, ElemsParts
  <2>3. Elems(written) \cup ({Head(queue)} \cap Pubs) \subseteq Elems(written')
    BY <1>1, <2>1, ElemsParts DEF CallsBack
  <2> QED BY <1>2, <2>1, <2>2, <2>3 DEF Held
<1>9. CASE AfterWrite
  <2> DEFINE p == Head(written)
  <2>1. /\ written # <<>> /\ written' = Tail(written)
        /\ UNCHANGED <<rpc, rpcBuffer, queue, closer, final>>
        /\ \/ unconfirmed' = unconfirmed \cup {p} /\ UNCHANGED promise
           \/ unconfirmed' = unconfirmed /\ Settle({p}, "resolved")
    BY <1>9 DEF AfterWrite, close
  <2>2. Elems(written) = {p} \cup Elems(written')
    BY <1>1, <2>1, ElemsParts
  <2> HIDE DEF p
  <2>3. promise[op] = "pending" /\ (op = p => op \in unconfirmed')
    BY <1>3, <2>1
  <2> QED BY <1>2, <2>1, <2>2, <2>3 DEF Held
<1>10. ASSUME NEW slot, ResumeClose(slot), closer # "final"
       PROVE  slot = op => Safe
  BY <1>1, <1>10 DEF ResumeClose
<1>11. CASE StreamFinish \/ CloseImmediate
  <2>1. /\ closer # "final" /\ ResumeClose(rpc)
        /\ UNCHANGED <<rpcBuffer, unconfirmed, queue, written, promise>>
    BY <1>11 DEF StreamFinish, CloseImmediate, Shape, stream, user
  <2> QED BY <1>2, <1>10, <2>1 DEF Held
<1>12. CASE StreamFail
  <2> DEFINE slot == IF Elems(queue) \cap Rpcs # {} THEN None ELSE rpc
  <2>1. /\ Settle({o \in Elems(queue) : promise[o] = "pending"}, "rejected")
        /\ UNCHANGED <<rpcBuffer, unconfirmed, written>>
        /\ \/ closer = "stream" /\ ResumeClose(slot)
           \/ closer # "stream" /\ rpc' = slot /\ closer' = CloserAfterError /\ final' = final
    BY <1>12 DEF StreamFail
  <2>2. promise[op] = "pending" /\ op \notin Elems(queue)
    BY <1>3, <2>1
  <2>3. op = rpc => op = slot
    <3>1. ASSUME op = rpc, NEW x \in Elems(queue) \cap Rpcs PROVE FALSE
      <4>1. rpc \in Rpcs
        BY <3>1, <1>1 DEF TypeOK, TypeChannel
      <4> QED BY <3>1, <4>1, <2>2 DEF SlotQueued, Elems
    <3> QED BY <3>1
  <2>4. closer = "final" => closer' = "final" /\ final' = final
    BY <2>1 DEF CloserAfterError, Shape
  <2> HIDE DEF slot
  <2>5. op = slot => Safe
    BY <1>10, <2>1 DEF Held
  <2> QED BY <1>2, <2>1, <2>2, <2>3, <2>4, <2>5 DEF Held
<1>13. CASE OnReply
  <2>1. /\ Settle({rpc}, "resolved") /\ UNCHANGED <<unconfirmed, written, closer, final>>
        /\ \/ /\ rpcBuffer # <<>> /\ rpc' = Head(rpcBuffer) /\ rpcBuffer' = Tail(rpcBuffer)
              /\ queue' = Append(queue, Head(rpcBuffer))
           \/ UNCHANGED <<rpcBuffer, queue>>
    BY <1>13 DEF OnReply, StartsNext, close
  <2> DEFINE b == Head(rpcBuffer)
  <2>3. rpcBuffer # <<>> => b \in Ops /\ Elems(rpcBuffer) = {b} \cup Elems(Tail(rpcBuffer))
    BY <1>1, ElemsParts, HeadTail DEF Ops
  <2> HIDE DEF b
  <2>4. b \in Ops => Elems(Append(queue, b)) = Elems(queue) \cup {b}
    BY <1>1, ElemsParts
  <2>2. promise[op] = "pending" /\ op # rpc
    BY <1>3, <2>1
  <2>5. op \in Elems(rpcBuffer) => op \in Held'
    BY <2>1, <2>3 DEF Held, b
  <2>6. Elems(queue) \subseteq Elems(queue')
    BY <2>1, <2>3, <2>4 DEF b
  <2> QED BY <1>2, <2>1, <2>2, <2>5, <2>6 DEF Held
<1>14. CASE OnCloseOk \/ OnChannelClose
  <2>1. /\ Settle(ClearedCalls, "rejected") /\ UNCHANGED <<final, queue, written>>
        /\ closer = "final" => closer' = "final"
    BY <1>14 DEF OnCloseOk, OnChannelClose, Clear
  <2>2. promise[op] = "pending" /\ op \notin ClearedCalls
    BY <1>3, <2>1
  <2> QED BY <1>2, <2>1, <2>2 DEF Held, ClearedCalls
<1>15. CASE OnConfirm
  <2> DEFINE how == IF Head(chunk).kind = "ack" THEN "resolved" ELSE "rejected"
             hit == Hit(Head(chunk))
  <2>1. /\ Settle(hit, how) /\ unconfirmed' = unconfirmed \ hit
        /\ UNCHANGED <<rpc, rpcBuffer, queue, written, closer, final>>
    BY <1>15 DEF OnConfirm, close, stream
  <2>2. promise[op] = "pending" /\ op \notin hit
    BY <1>3, <2>1
  <2> HIDE DEF hit
  <2> QED BY <1>2, <2>1, <2>2 DEF Held
<1>16. ASSUME NEW o \in Ops, CallClosed(o) PROVE Safe
  <2>1. promise[op] = "pending"
    BY <1>3, <1>16 DEF CallClosed
  <2> QED BY <1>4, <1>16, <2>1 DEF CallClosed, chan, close, stream
<1>17. CASE WriteFrame \/ FailWrite \/ Stall \/ Drain \/ Bypass \/ ReadChunk
  BY <1>4, <1>17 DEF WriteFrame, FailWrite, Stall, Drain, Bypass, ReadChunk, chan, close,
     stream, user
<1>18. CASE \/ BrokerHead \/ BrokerServe \/ BrokerConfirm \/ BrokerRefuse \/ BrokerKick
            \/ BrokerOnClose \/ BrokerDiscard \/ BrokerOnCloseOk \/ UNCHANGED vars
  BY <1>4, <1>18 DEF BrokerHead, BrokerServe, BrokerConfirm, BrokerRefuse, BrokerKick,
     BrokerCloses, BrokerOnClose, BrokerDiscard, BrokerOnCloseOk, chan, close, stream, user, vars
<1>19. CASE OnUnexpected \/ Lose \/ SocketClosed \/ BrokerAbort
  BY <1>19 DEF OnUnexpected, Lose, SocketClosed, BrokerAbort
<1>20. \A n \in Nowaits : InvokeNowait(n) => Safe
  BY <1>6
<1>21. \A p \in Pubs : BasicPublish(p) => Safe
  BY <1>6
<1> QED
  BY <1>5, <1>20, <1>21, <1>7, <1>8, <1>9, <1>11, <1>12, <1>13, <1>14, <1>15, <1>16, <1>17, <1>18,
     <1>19
  DEF Next, UserCall, EventLoop, BrokerStep, Environment

(* However the channel, the stream and the socket end, each call that is   *)
(* pending while the connection is up is held where a later step settles   *)
(* it: confirm mode included.                                              *)
THEOREM CallsHeld == Spec => []NoCallDropped
<1>1. Init => HeldInv
  BY DEF Init, HeldInv, SlotQueued, NoCallDropped
<1>2. ChannelAssumption /\ Service /\ HeldInv /\ [Next]_vars => HeldInv'
  BY SlotQueuedStep, HeldStep DEF HeldInv, Service, ServiceInv
<1>3. HeldInv => NoCallDropped
  BY DEF HeldInv
<1> QED BY <1>1, <1>2, <1>3, ServiceCorrect, ChannelAssumption, PTL DEF Spec

(* _clear empties the books, and nothing is entered after it.              *)
LEMMA ReleasedStep ==
  ASSUME ChannelAssumption, Confirms = {}, Unselected, ReleasedHoldsNothing, [Next]_vars
  PROVE  Unselected' /\ ReleasedHoldsNothing'
<1>1. Unselected'
  <2>1. mode' = mode
    BY DEF Next, UserCall, EventLoop, BrokerStep, Environment, vars, CallClosed, Invoke,
       InvokeNowait, BasicPublish, Close, WriteFrame, FinishWrite, FailWrite, Stall, Drain,
       Bypass, AfterWrite, StreamFinish, StreamFail, CloseImmediate, ReadChunk, OnReply,
       OnCloseOk, OnChannelClose, OnConfirm, OnUnexpected, Lose, SocketClosed, Clear,
       BrokerHead, BrokerServe, BrokerConfirm, BrokerRefuse, BrokerKick, BrokerCloses,
       BrokerOnClose, BrokerDiscard, BrokerOnCloseOk, BrokerAbort, chan
  <2>2. confirming' = confirming
    BY DEF Next, UserCall, EventLoop, BrokerStep, Environment, vars, CallClosed, Invoke,
       InvokeNowait, BasicPublish, ConfirmMode, Unselected, Close, WriteFrame, FinishWrite,
       FailWrite, Stall, Drain, Bypass, AfterWrite, StreamFinish, StreamFail,
       CloseImmediate, ReadChunk, OnReply, OnCloseOk, OnChannelClose, OnConfirm,
       OnUnexpected, Lose, SocketClosed, Clear, BrokerHead, BrokerConfirm, BrokerServe,
       BrokerRefuse, BrokerKick, BrokerCloses, BrokerOnClose, BrokerDiscard,
       BrokerOnCloseOk, BrokerAbort, user
  <2> QED BY <2>1, <2>2 DEF Unselected
<1> SUFFICES ReleasedHoldsNothing'
  BY <1>1
<1> USE DEF ReleasedHoldsNothing
<1>2. None \notin Rpcs /\ ChannelClose \notin Rpcs
  BY DEF ChannelAssumption, Ops
<1>3. CASE OnCloseOk \/ OnChannelClose \/ (SocketClosed /\ ~cleared)
  BY <1>2, <1>3 DEF OnCloseOk, OnChannelClose, SocketClosed, Clear, EmptyAll
<1>4. CASE StreamFinish \/ StreamFail \/ CloseImmediate
  BY <1>2, <1>4 DEF StreamFinish, StreamFail, CloseImmediate, ResumeClose
<1>5. CASE OnReply \/ OnConfirm \/ AfterWrite
  BY <1>5 DEF OnReply, OnConfirm, AfterWrite, Receive, Unselected
<1>6. CASE \/ \E op \in Ops : CallClosed(op)
           \/ \E r \in Rpcs : Invoke(r)
           \/ \E n \in Nowaits : InvokeNowait(n)
           \/ \E p \in Pubs : BasicPublish(p)
           \/ Close
  BY <1>6 DEF CallClosed, Invoke, InvokeNowait, BasicPublish, Call, Close, StartClose, chan
<1>7. CASE \/ WriteFrame \/ FinishWrite \/ FailWrite \/ Stall \/ Drain \/ Bypass \/ ReadChunk
           \/ OnUnexpected \/ Lose \/ (SocketClosed /\ cleared)
  BY <1>2, <1>7 DEF WriteFrame, FinishWrite, FailWrite, Stall, Drain, Bypass, ReadChunk,
     OnUnexpected, Lose, SocketClosed, chan
<1>8. CASE \/ BrokerHead \/ BrokerServe \/ BrokerConfirm \/ BrokerRefuse \/ BrokerKick
           \/ BrokerOnClose \/ BrokerDiscard \/ BrokerOnCloseOk \/ BrokerAbort
           \/ UNCHANGED vars
  BY <1>8 DEF BrokerHead, BrokerServe, BrokerConfirm, BrokerRefuse, BrokerKick, BrokerCloses,
     BrokerOnClose, BrokerDiscard, BrokerOnCloseOk, BrokerAbort, chan, vars
<1> QED
  BY <1>3, <1>4, <1>5, <1>6, <1>7, <1>8
  DEF Next, UserCall, EventLoop, BrokerStep, Environment

(* The books are right, and empty when the channel is gone, on a channel   *)
(* that is not put in confirm mode.                                        *)
THEOREM BooksRight ==
  ASSUME Confirms = {}
  PROVE  Spec => []CallsAccounted
<1>1. Init => Unselected /\ ReleasedHoldsNothing
  BY DEF Init, Unselected, ReleasedHoldsNothing
<1>2. Unselected /\ ReleasedHoldsNothing /\ [Next]_vars => (Unselected /\ ReleasedHoldsNothing)'
  BY ReleasedStep, ChannelAssumption
<1>3. NoCallDropped /\ ReleasedHoldsNothing => CallsAccounted
  BY DEF CallsAccounted
<1> QED BY <1>1, <1>2, <1>3, CallsHeld, PTL DEF Spec

-----------------------------------------------------------------------------
(* Every promise has one owner.                                            *)

(* The calls of which the channel holds the promise are pending, and each  *)
(* is held in one place only.                                              *)
OnceEach(s) == \A i, j \in DOMAIN s : s[i] = s[j] => i = j
HeldPending == \A op \in Held : promise[op] = "pending"
QueuedCalled == \A op \in Elems(queue) : promise[op] # "none"
HeldApart ==
  /\ OnceEach(queue) /\ OnceEach(rpcBuffer) /\ OnceEach(written)
  /\ rpc \notin Elems(rpcBuffer)
  /\ Elems(queue) \cap (Elems(rpcBuffer) \cup Elems(written) \cup unconfirmed) = {}
  /\ Elems(written) \cap unconfirmed = {}
OwnerInv == HeldPending /\ QueuedCalled /\ HeldApart

(* A sequence without repetitions stays so.                                *)
LEMMA OnceFacts ==
  ASSUME NEW S, NEW s \in Seq(S)
  PROVE  /\ OnceEach(<<>>)
         /\ \A x \in S : OnceEach(s) /\ x \notin Elems(s) => OnceEach(Append(s, x))
         /\ OnceEach(s) /\ s # <<>> => OnceEach(Tail(s)) /\ Head(s) \notin Elems(Tail(s))
<1>1. OnceEach(<<>>)
  BY DEF OnceEach
<1>2. ASSUME NEW x \in S, OnceEach(s), x \notin Elems(s) PROVE OnceEach(Append(s, x))
  <2> DEFINE t == Append(s, x)
  <2>1. /\ DOMAIN t = 1..(Len(s) + 1) /\ t[Len(s) + 1] = x /\ Len(s) \in Nat
        /\ DOMAIN s = 1..Len(s) /\ \A i \in 1..Len(s) : t[i] = s[i]
    OBVIOUS
  <2> HIDE DEF t
  <2>2. \A i \in 1..Len(s) : s[i] # x
    BY <1>2, <2>1 DEF Elems
  <2>3. \A i \in DOMAIN t : i \in 1..Len(s) \/ i = Len(s) + 1
    BY <2>1
  <2>4. OnceEach(t)
    BY <1>2, <2>1, <2>2, <2>3 DEF OnceEach
  <2> QED BY <2>4 DEF t
<1>3. ASSUME OnceEach(s), s # <<>> PROVE OnceEach(Tail(s)) /\ Head(s) \notin Elems(Tail(s))
  <2> DEFINE t == Tail(s)
  <2>1. /\ DOMAIN s = 1..Len(s) /\ Len(s) \in Nat /\ Len(s) > 0 /\ Head(s) = s[1]
        /\ DOMAIN t = 1..(Len(s) - 1) /\ \A i \in 1..(Len(s) - 1) : t[i] = s[i + 1]
    BY <1>3
  <2> HIDE DEF t
  <2>2. \A i \in DOMAIN t : i + 1 \in DOMAIN s /\ t[i] = s[i + 1] /\ i \in Nat /\ i + 1 # 1
    BY <2>1
  <2>3. \A i, j \in Nat : i + 1 = j + 1 => i = j
    OBVIOUS
  <2>4. OnceEach(t)
    BY <1>3, <2>2, <2>3 DEF OnceEach
  <2>5. s[1] \notin Elems(t)
    <3>1. 1 \in DOMAIN s
      BY <2>1
    <3> QED BY <1>3, <2>2, <3>1 DEF OnceEach, Elems
  <2> QED BY <2>1, <2>4, <2>5 DEF t
<1> QED BY <1>1, <1>2, <1>3

(* Every step hands a promise on, settles it or leaves it where it is.     *)
LEMMA OwnerStep ==
  ASSUME ChannelAssumption, TypeOK, OwnerInv, [Next]_vars PROVE OwnerInv'
<1> USE DEF OwnerInv, HeldPending, QueuedCalled, HeldApart
<1>1. /\ queue \in Seq(Ops) /\ rpcBuffer \in Seq(Rpcs) /\ written \in Seq(Pubs)
      /\ unconfirmed \subseteq Pubs /\ rpc \in Rpcs \cup {None, ChannelClose}
      /\ None \notin Ops /\ ChannelClose \notin Ops
      /\ Rpcs \cap Pubs = {} /\ Nowaits \cap Pubs = {} /\ Rpcs \cap Nowaits = {}
  BY DEF TypeOK, TypeStream, TypeChannel, ChannelAssumption
<1>2. /\ Elems(queue) \subseteq Ops /\ Elems(rpcBuffer) \subseteq Rpcs
      /\ Elems(written) \subseteq Pubs /\ Elems(<<>>) = {} /\ OnceEach(<<>>)
  BY <1>1, ElemsParts, OnceFacts
<1>3. Rpcs \subseteq Ops /\ Pubs \subseteq Ops /\ Nowaits \subseteq Ops
  BY DEF Ops
<1>4. ASSUME UNCHANGED <<rpc, rpcBuffer, unconfirmed, queue, written, promise>> PROVE OwnerInv'
  BY <1>4 DEF Held
<1>5. ASSUME NEW op \in Ops, CallClosed(op) PROVE OwnerInv'
  <2>1. UNCHANGED <<rpc, rpcBuffer, unconfirmed, queue, written>> /\ promise[op] = "none"
    BY <1>5 DEF CallClosed, chan, stream
  <2>2. \A o \in Ops : promise'[o] = IF o = op THEN "rejected" ELSE promise[o]
    BY <1>5 DEF CallClosed, Settle
  <2>3. Held \subseteq Ops /\ Held' = Held
    BY <2>1 DEF Held
  <2>4. HeldPending'
    BY <2>1, <2>2, <2>3
  <2>5. QueuedCalled'
    BY <1>2, <2>1, <2>2
  <2> QED BY <2>1, <2>4, <2>5
<1>6. ASSUME NEW r \in Rpcs, Invoke(r) PROVE OwnerInv'
  <2>1. promise[r] = "none" /\ UNCHANGED <<unconfirmed, written>> /\ r \in Ops
    BY <1>3, <1>6 DEF Invoke, Call
  <2>2. \A o \in Ops : promise'[o] = IF o = r THEN "pending" ELSE promise[o]
    BY <1>6 DEF Invoke, Call, Settle
  <2>3. r \notin Held /\ r \notin Elems(queue) /\ r # rpc /\ r \notin Elems(rpcBuffer)
    BY <1>2, <2>1 DEF Held
  <2>4. CASE rpcBuffer' = Append(rpcBuffer, r) /\ UNCHANGED <<rpc, queue>>
    <3>1. Elems(rpcBuffer') = Elems(rpcBuffer) \cup {r} /\ OnceEach(rpcBuffer')
      BY <1>1, <2>3, <2>4, ElemsParts, OnceFacts
    <3>2. Held' = Held \cup {r}
      BY <2>1, <2>4, <3>1 DEF Held
    <3>3. HeldPending'
      BY <2>1, <2>2, <3>2 DEF Held
    <3>4. QueuedCalled'
      BY <1>2, <2>2, <2>4
    <3>5. HeldApart'
      BY <1>1, <1>2, <2>1, <2>3, <2>4, <3>1
    <3> QED BY <3>3, <3>4, <3>5
  <2>5. CASE rpc = None /\ rpc' = r /\ queue' = Append(queue, r) /\ UNCHANGED rpcBuffer
    <3>1. Elems(queue') = Elems(queue) \cup {r} /\ OnceEach(queue')
      BY <1>1, <2>1, <2>3, <2>5, ElemsParts, OnceFacts
    <3>2. Held' = Held \cup {r}
      BY <1>1, <2>1, <2>5, <3>1 DEF Held
    <3>3. HeldPending'
      BY <2>1, <2>2, <3>2 DEF Held
    <3>4. QueuedCalled'
      BY <1>2, <2>1, <2>2, <3>1
    <3>5. HeldApart'
      BY <1>1, <1>2, <2>1, <2>3, <2>5, <3>1
    <3> QED BY <3>3, <3>4, <3>5
  <2> QED BY <1>6, <2>4, <2>5 DEF Invoke, RpcBusy, Push
<1>7. ASSUME NEW n \in Pubs \cup Nowaits, NEW how \in {"pending", "resolved"}, Call(n, how),
             n \in Pubs => how = "pending", queue' = Append(queue, n),
             UNCHANGED <<rpc, rpcBuffer, unconfirmed, written>>
      PROVE  OwnerInv'
  <2>1. promise[n] = "none" /\ n \in Ops
    BY <1>3, <1>7 DEF Call
  <2>2. \A o \in Ops : promise'[o] = IF o = n THEN how ELSE promise[o]
    BY <1>7 DEF Call, Settle
  <2>3. /\ n \notin Elems(queue) /\ n \notin unconfirmed /\ n \notin Elems(written)
        /\ n \notin Elems(rpcBuffer) /\ n # rpc
    BY <1>2, <2>1 DEF Held
  <2>4. Elems(queue') = Elems(queue) \cup {n} /\ OnceEach(queue')
    BY <1>1, <1>7, <2>1, <2>3, ElemsParts, OnceFacts
  <2>5. \A o \in Held' : (o = n /\ n \in Pubs) \/ (o # n /\ o \in Held)
    BY <1>1, <1>2, <1>7, <2>3, <2>4 DEF Held
  <2>6. HeldPending'
    BY <1>7, <2>2, <2>5 DEF Held
  <2>7. QueuedCalled'
    BY <1>2, <2>1, <2>2, <2>4
  <2>8. HeldApart'
    BY <1>7, <2>3, <2>4
  <2> QED BY <2>6, <2>7, <2>8
<1>8. \A n \in Nowaits : InvokeNowait(n) => OwnerInv'
  BY <1>1, <1>7 DEF InvokeNowait, chan
<1>9. \A p \in Pubs : BasicPublish(p) => OwnerInv'
  BY <1>7 DEF BasicPublish, chan
<1>10. CASE FinishWrite
  <2> DEFINE h == Head(queue)
  <2>1. /\ queue # <<>> /\ queue' = Tail(queue)
        /\ written' = IF h \in Pubs THEN Append(written, h) ELSE written
        /\ UNCHANGED <<rpc, rpcBuffer, unconfirmed, promise>>
    BY <1>10 DEF FinishWrite, StreamBusy, CallsBack, chan, user
  <2>2. /\ Elems(queue) = {h} \cup Elems(queue') /\ h \notin Elems(queue') /\ OnceEach(queue')
    BY <1>1, <2>1, ElemsParts, OnceFacts
  <2> HIDE DEF h
  <2>3. IF h \in Pubs
          THEN Elems(written') = Elems(written) \cup {h} /\ OnceEach(written')
          ELSE written' = written
    <3>1. h \notin Elems(written)
      BY <2>2
    <3> QED BY <1>1, <2>1, <3>1, ElemsParts, OnceFacts
  <2>4. HeldPending'
    <3>1. Held' \subseteq Held
      BY <1>1, <1>3, <2>1, <2>2, <2>3 DEF Held
    <3> QED BY <2>1, <3>1
  <2>5. QueuedCalled'
    BY <2>1, <2>2
  <2>6. HeldApart'
    BY <2>1, <2>2, <2>3
  <2> QED BY <2>4, <2>5, <2>6
<1>11. CASE AfterWrite
  <2> DEFINE p == Head(written)
  <2>1. /\ written # <<>> /\ written' = Tail(written) /\ UNCHANGED <<rpc, rpcBuffer, queue>>
        /\ \/ unconfirmed' = unconfirmed \cup {p} /\ UNCHANGED promise
           \/ unconfirmed' = unconfirmed /\ Settle({p}, "resolved")
    BY <1>11 DEF AfterWrite
  <2>2. /\ Elems(written) = {p} \cup Elems(written') /\ p \notin Elems(written')
        /\ OnceEach(written')
    BY <1>1, <2>1, ElemsParts, OnceFacts
  <2> HIDE DEF p
  <2>3. p \in Pubs /\ p \notin Elems(queue) /\ p \notin unconfirmed
    BY <1>2, <2>2
  <2>4. HeldApart'
    BY <2>1, <2>2, <2>3
  <2>5. CASE unconfirmed' = unconfirmed \cup {p} /\ UNCHANGED promise
    <3>1. Held' \subseteq Held
      BY <2>1, <2>2, <2>5 DEF Held
    <3> QED BY <2>1, <2>4, <2>5, <3>1
  <2>6. CASE unconfirmed' = unconfirmed /\ Settle({p}, "resolved")
    <3>1. \A o \in Ops : o # p => promise'[o] = promise[o]
      BY <2>6 DEF Settle
    <3>2. Held' \subseteq Held \ {p}
      BY <1>1, <1>2, <2>1, <2>2, <2>3, <2>6 DEF Held
    <3>3. HeldPending'
      BY <3>1, <3>2 DEF Held
    <3>4. QueuedCalled'
      BY <1>2, <2>1, <2>3, <3>1
    <3> QED BY <2>4, <3>3, <3>4
  <2> QED BY <2>1, <2>5, <2>6
<1>12. ASSUME UNCHANGED <<rpcBuffer, unconfirmed, queue, written, promise>>,
              rpc' \in {None, ChannelClose}
       PROVE  OwnerInv'
  <2>1. rpc' \notin Elems(rpcBuffer)
    BY <1>1, <1>2, <1>3, <1>12
  <2>2. HeldApart'
    BY <1>12, <2>1
  <2>3. Held' \subseteq Held
    BY <1>1, <1>12 DEF Held
  <2> QED BY <1>12, <2>2, <2>3
<1>13. CASE StreamFinish \/ CloseImmediate
  <2>1. /\ UNCHANGED <<rpcBuffer, unconfirmed, queue, written, promise>>
        /\ rpc' \in {None, ChannelClose}
    BY <1>13 DEF StreamFinish, CloseImmediate, ResumeClose, stream, user
  <2> QED BY <1>1, <1>3, <1>12, <2>1
<1>14. CASE StreamFail
  <2> DEFINE slot == IF Elems(queue) \cap Rpcs # {} THEN None ELSE rpc
  <2>1. /\ Settle({o \in Elems(queue) : promise[o] = "pending"}, "rejected")
        /\ queue' = <<>> /\ written = <<>> /\ UNCHANGED <<rpcBuffer, unconfirmed, written>>
        /\ rpc' \in {slot, None, ChannelClose}
    BY <1>14 DEF StreamFail, ResumeClose
  <2>2. \A o \in Ops \ Elems(queue) : promise'[o] = promise[o]
    BY <2>1 DEF Settle
  <2>3. (rpc' = rpc /\ rpc \notin Elems(queue)) \/ rpc' \in {None, ChannelClose}
    BY <1>1, <1>2, <1>3, <2>1
  <2>4. Held' \subseteq Held \ Elems(queue)
    BY <1>1, <1>2, <2>1, <2>3 DEF Held
  <2>5. HeldPending'
    BY <2>2, <2>4 DEF Held
  <2>6. HeldApart'
    BY <1>1, <1>2, <1>3, <2>1, <2>3
  <2> QED BY <1>2, <2>1, <2>5, <2>6
<1>15. CASE OnReply
  <2>1. /\ rpc \in Rpcs /\ Settle({rpc}, "resolved") /\ UNCHANGED <<unconfirmed, written>>
    BY <1>15 DEF OnReply, SameMethod
  <2>2. \A o \in Ops : o # rpc => promise'[o] = promise[o]
    BY <2>1 DEF Settle
  <2>3. \A o \in Ops : promise[o] # "none" => promise'[o] # "none"
    BY <2>1 DEF Settle
  <2>4. CASE rpc' = None /\ UNCHANGED <<rpcBuffer, queue>>
    <3>1. Held' \subseteq Held \ {rpc}
      BY <1>1, <1>2, <2>1, <2>4 DEF Held
    <3>2. HeldPending'
      BY <2>2, <3>1 DEF Held
    <3>3. QueuedCalled'
      BY <1>2, <2>3, <2>4
    <3>4. HeldApart'
      BY <1>1, <1>2, <1>3, <2>1, <2>4
    <3> QED BY <3>2, <3>3, <3>4
  <2>5. CASE /\ rpcBuffer # <<>> /\ rpc' = Head(rpcBuffer) /\ rpcBuffer' = Tail(rpcBuffer)
             /\ queue' = Append(queue, Head(rpcBuffer))
    <3> DEFINE h == Head(rpcBuffer)
    <3>1. /\ h \in Rpcs /\ Elems(rpcBuffer) = {h} \cup Elems(rpcBuffer')
          /\ h \notin Elems(rpcBuffer') /\ OnceEach(rpcBuffer')
      BY <1>1, <2>5, ElemsParts, OnceFacts, HeadTail
    <3>2. h # rpc /\ h \notin Elems(queue) /\ rpc' = h /\ queue' = Append(queue, h) /\ h \in Ops
      BY <1>3, <2>5, <3>1
    <3> HIDE DEF h
    <3>3. Elems(queue') = Elems(queue) \cup {h} /\ OnceEach(queue')
      BY <1>1, <3>2, ElemsParts, OnceFacts
    <3>4. Held' \subseteq Held \ {rpc}
      BY <1>1, <1>2, <2>1, <3>1, <3>2, <3>3 DEF Held
    <3>5. HeldPending'
      BY <2>2, <3>4 DEF Held
    <3>6. QueuedCalled'
      <4>1. h \in Held
        BY <1>3, <3>1 DEF Held
      <4> QED BY <1>2, <2>3, <3>2, <3>3, <4>1
    <3>7. HeldApart'
      BY <1>1, <1>2, <2>1, <3>1, <3>2, <3>3
    <3> QED BY <3>5, <3>6, <3>7
  <2> QED BY <1>15, <2>4, <2>5 DEF OnReply, StartsNext
<1>16. ASSUME Clear PROVE OwnerInv'
  <2>1. /\ Settle(ClearedCalls, "rejected") /\ UNCHANGED <<queue, written>>
        /\ rpc' = None /\ rpcBuffer' = <<>> /\ unconfirmed' = {}
    BY <1>16 DEF Clear, EmptyAll
  <2>2. \A o \in Ops \ ClearedCalls : promise'[o] = promise[o]
    BY <2>1 DEF Settle
  <2>3. \A o \in Ops : promise[o] # "none" => promise'[o] # "none"
    BY <2>1 DEF Settle
  <2>4. Held' \subseteq Held \ ClearedCalls
    BY <1>1, <1>2, <2>1 DEF Held, ClearedCalls
  <2>5. HeldPending'
    BY <2>2, <2>4 DEF Held
  <2>6. QueuedCalled'
    BY <1>2, <2>1, <2>3
  <2>7. HeldApart'
    BY <1>2, <2>1
  <2> QED BY <2>5, <2>6, <2>7
<1>17. CASE OnCloseOk \/ OnChannelClose \/ (SocketClosed /\ ~cleared)
  BY <1>16, <1>17 DEF OnCloseOk, OnChannelClose, SocketClosed
<1>18. CASE OnConfirm
  <2> DEFINE hit == Hit(Head(chunk))
  <2>1. /\ Settle(hit, IF Head(chunk).kind = "ack" THEN "resolved" ELSE "rejected")
        /\ unconfirmed' = unconfirmed \ hit /\ UNCHANGED <<rpc, rpcBuffer, queue, written>>
    BY <1>18 DEF OnConfirm, stream
  <2>2. hit \subseteq unconfirmed
    BY DEF Hit
  <2> HIDE DEF hit
  <2>3. \A o \in Ops \ hit : promise'[o] = promise[o]
    BY <2>1 DEF Settle
  <2>4. Held' \subseteq Held \ hit
    BY <1>1, <1>2, <2>1, <2>2 DEF Held
  <2>5. HeldPending'
    BY <2>3, <2>4 DEF Held
  <2>6. QueuedCalled'
    BY <1>2, <2>1, <2>2, <2>3
  <2> QED BY <2>1, <2>2, <2>5, <2>6
<1>19. CASE OnUnexpected
  BY <1>1, <1>3, <1>4, <1>12, <1>19 DEF OnUnexpected, stream, user
<1>20. CASE \/ Close \/ WriteFrame \/ FailWrite \/ Stall \/ Drain \/ Bypass \/ ReadChunk \/ Lose
            \/ (SocketClosed /\ cleared)
  BY <1>4, <1>20 DEF Close, WriteFrame, FailWrite, Stall, Drain, Bypass, ReadChunk, Lose,
     SocketClosed, chan, stream, user
<1>21. CASE \/ BrokerHead \/ BrokerServe \/ BrokerConfirm \/ BrokerRefuse \/ BrokerKick
            \/ BrokerOnClose \/ BrokerDiscard \/ BrokerOnCloseOk \/ BrokerAbort
            \/ UNCHANGED vars
  BY <1>4, <1>21 DEF BrokerHead, BrokerServe, BrokerConfirm, BrokerRefuse, BrokerKick,
     BrokerCloses, BrokerOnClose, BrokerDiscard, BrokerOnCloseOk, BrokerAbort, chan, stream,
     user, vars
<1> QED
  BY <1>5, <1>6, <1>8, <1>9, <1>10, <1>11, <1>13, <1>14, <1>15, <1>17, <1>18, <1>19, <1>20, <1>21
  DEF Next, UserCall, EventLoop, BrokerStep, Environment

(* Whoever settles a call holds it, and what is held is pending.           *)
LEMMA SettledStep ==
  ASSUME ChannelAssumption, TypeOK, OwnerInv, [Next]_vars, NEW op \in Ops,
         promise[op] \in {"resolved", "rejected"}
  PROVE  promise'[op] = promise[op]
<1>1. op \notin Held
  BY DEF OwnerInv, HeldPending
<1>2. ASSUME NEW T, NEW how, Settle(T, how), op \notin T PROVE promise'[op] = promise[op]
  BY <1>2 DEF Settle
<1>3. ASSUME NEW o \in Ops, CallClosed(o) PROVE promise'[op] = promise[op]
  BY <1>2, <1>3 DEF CallClosed
<1>4. ASSUME NEW o \in Ops, NEW how, Call(o, how) PROVE promise'[op] = promise[op]
  BY <1>2, <1>4 DEF Call
<1>5. CASE \/ \E r \in Rpcs : Invoke(r)
           \/ \E n \in Nowaits : InvokeNowait(n)
           \/ \E p \in Pubs : BasicPublish(p)
  BY <1>4, <1>5 DEF Invoke, InvokeNowait, BasicPublish, Ops
<1>6. CASE AfterWrite
  <2>1. Head(written) \in Elems(written)
    BY <1>6, ElemsParts DEF AfterWrite, TypeOK, TypeStream
  <2> QED BY <1>1, <1>2, <1>6, <2>1 DEF AfterWrite, Held
<1>7. CASE StreamFail
  BY <1>2, <1>7 DEF StreamFail
<1>8. CASE OnReply
  BY <1>1, <1>2, <1>8 DEF OnReply, Held
<1>9. CASE OnCloseOk \/ OnChannelClose \/ (SocketClosed /\ ~cleared)
  BY <1>1, <1>2, <1>9 DEF OnCloseOk, OnChannelClose, SocketClosed, Clear, ClearedCalls, Held
<1>10. CASE OnConfirm
  BY <1>1, <1>2, <1>10 DEF OnConfirm, Hit, Held
<1>11. CASE \/ Close \/ WriteFrame \/ FinishWrite \/ FailWrite \/ Stall \/ Drain \/ Bypass
            \/ StreamFinish \/ CloseImmediate \/ ReadChunk \/ OnUnexpected \/ Lose
            \/ (SocketClosed /\ cleared)
  BY <1>11 DEF Close, WriteFrame, FinishWrite, FailWrite, Stall, Drain, Bypass, StreamFinish,
     CloseImmediate, ReadChunk, OnUnexpected, Lose, SocketClosed, user
<1>12. CASE \/ BrokerHead \/ BrokerServe \/ BrokerConfirm \/ BrokerRefuse \/ BrokerKick
            \/ BrokerOnClose \/ BrokerDiscard \/ BrokerOnCloseOk \/ BrokerAbort
            \/ UNCHANGED vars
  BY <1>12 DEF BrokerHead, BrokerServe, BrokerConfirm, BrokerRefuse, BrokerKick,
     BrokerCloses, BrokerOnClose, BrokerDiscard, BrokerOnCloseOk, BrokerAbort, user, vars
<1> QED
  BY <1>3, <1>5, <1>6, <1>7, <1>8, <1>9, <1>10, <1>11, <1>12
  DEF Next, UserCall, EventLoop, BrokerStep, Environment

(* The invariant of the promises holds at the start.                       *)
LEMMA OwnerInit == ASSUME ChannelAssumption, Init PROVE OwnerInv
<1>1. Elems(<<>>) = {} /\ OnceEach(<<>>) /\ None \notin Ops
  BY DEF Elems, OnceEach, ChannelAssumption
<1> QED BY <1>1 DEF Init, OwnerInv, HeldPending, QueuedCalled, HeldApart, Held

(* A call is settled once: of a late reply, a write callback, a            *)
(* confirmation, a stream error and _clear only one gets at its promise.   *)
THEOREM SettledForGood == Spec => SettledOnce
<1> DEFINE Kept == \A op \in Ops :
                     promise[op] \in {"resolved", "rejected"} => promise'[op] = promise[op]
<1>1. Init => OwnerInv
  BY OwnerInit, ChannelAssumption
<1>2. TypeOK /\ OwnerInv /\ [Next]_vars => OwnerInv'
  BY OwnerStep, ChannelAssumption
<1>3. TypeOK /\ OwnerInv /\ [Next]_vars => [Kept]_vars
  BY SettledStep, ChannelAssumption
<1> QED BY <1>1, <1>2, <1>3, TypeCorrect, PTL DEF Spec, SettledOnce

-----------------------------------------------------------------------------
(* The queue of requests.                                                  *)

(* What the requests of a channel are, seen as a queue: the one in the     *)
(* slot, then the buffer.                                                  *)
RequestLine == (IF rpc \in Rpcs THEN <<rpc>> ELSE <<>>) \o rpcBuffer
Outcome == [r \in Rpcs |-> promise[r]]

ReleasedEmpty ==
  cleared => ~active /\ rpc \notin Rpcs /\ rpcBuffer = <<>> /\ phase \in {"destroyed", "closed"}
SlotHeads == ~cleared => \A i \in DOMAIN queue : Unsent(i) => rpc = queue[i]
BehindSlot == active /\ rpcBuffer # <<>> => rpc \in Rpcs
PendingWaits == \A r \in Rpcs : promise[r] = "pending" => r = rpc \/ r \in Elems(rpcBuffer)

(* When the stream ends the slot is empty, unless it ends because the      *)
(* request in the slot cannot be encoded.                                  *)
EndsEmpty ==
  /\ phase = "errored" => queue # <<>> /\ Head(queue) \in Rpcs
  /\ phase = "ending" => rpc = None
  /\ phase = "closed" => rpc \notin Rpcs
  /\ closer = "immediate" => phase \in {"errored", "destroyed", "closed"}
  /\ rpc = ChannelClose => closer = "closeOk"
  /\ closer # "final"
QueueInv == ReleasedEmpty /\ SlotHeads /\ BehindSlot /\ PendingWaits /\ EndsEmpty

QueueMove == Queue!Next \/ UNCHANGED Queue!vars

(* Every close-ok of the broker is about no call.                          *)
CloseOkPlain == \A f \in Elems(s2c) \cup Elems(chunk) : f.kind = "closeOk" => f.op = None

(* What the slot adds to the queue.                                        *)
LEMMA RequestFacts ==
  ASSUME NEW s \in Seq(Rpcs), NEW x \in Rpcs
  PROVE  LET t == <<x>> \o s
         IN  /\ t # <<>> /\ Head(t) = x /\ Tail(t) = s
             /\ \A r \in Rpcs : Append(t, r) = <<x>> \o Append(s, r)
             /\ <<>> \o s = s /\ Elems(t) = {x} \cup Elems(s)
<1> DEFINE t == <<x>> \o s
<1>1. <<x>> \in Seq(Rpcs) /\ Len(<<x>>) = 1 /\ <<x>>[1] = x
  OBVIOUS
<1>2. /\ t \in Seq(Rpcs) /\ Len(t) = Len(s) + 1 /\ t[1] = x /\ Len(s) \in Nat
      /\ DOMAIN t = 1..(Len(s) + 1) /\ DOMAIN s = 1..Len(s)
      /\ \A i \in 1..Len(s) : t[i + 1] = s[i]
  BY <1>1
<1>3. <<>> \o s = s
  OBVIOUS
<1> HIDE DEF t
<1>4. t # <<>> /\ Head(t) = x
  BY <1>2
<1>5. Tail(t) = s
  <2> DEFINE u == Tail(t)
  <2>1. /\ u \in Seq(Rpcs) /\ Len(u) = Len(s) /\ \A i \in 1..Len(u) : u[i] = t[i + 1]
    BY <1>2, <1>4
  <2>2. \A i \in 1..Len(u) : u[i] = s[i]
    BY <1>2, <2>1
  <2> HIDE DEF u
  <2>3. u = s
    BY <2>1, <2>2, SeqEqual
  <2> QED BY <2>3 DEF u
<1>6. ASSUME NEW r \in Rpcs PROVE Append(t, r) = <<x>> \o Append(s, r)
  <2>1. Append(s, r) = s \o <<r>> /\ Append(t, r) = t \o <<r>> /\ <<r>> \in Seq(Rpcs)
    BY <1>2, AppendIsConcat
  <2>2. (<<x>> \o s) \o <<r>> = <<x>> \o (s \o <<r>>)
    BY <1>1, <2>1, ConcatAssociative
  <2> QED BY <2>1, <2>2 DEF t
<1>7. Elems(t) = {x} \cup Elems(s)
  <2>1. \A i \in DOMAIN t : i = 1 \/ (i - 1 \in DOMAIN s /\ t[i] = s[i - 1])
    BY <1>2
  <2>2. \A i \in DOMAIN s : i + 1 \in DOMAIN t /\ t[i + 1] = s[i]
    BY <1>2
  <2>3. 1 \in DOMAIN t
    BY <1>2
  <2>4. Elems(t) \subseteq {x} \cup Elems(s)
    BY <1>2, <2>1 DEF Elems
  <2>5. {x} \cup Elems(s) \subseteq Elems(t)
    BY <1>2, <2>2, <2>3 DEF Elems
  <2> QED BY <2>4, <2>5
<1> QED BY <1>3, <1>4, <1>5, <1>6, <1>7 DEF t

(* A close-ok carries no call.                                             *)
LEMMA PlainStep ==
  ASSUME ChannelAssumption, TypeOK, CloseOkPlain, [Next]_vars PROVE CloseOkPlain'
<1> USE DEF CloseOkPlain
<1>1. s2c \in Seq(BrokerFrames) /\ chunk \in Seq(BrokerFrames) /\ c2s \in Seq(ClientFrames)
  BY DEF TypeOK, TypeWire
<1>2. ASSUME Elems(s2c') \cup Elems(chunk') \subseteq Elems(s2c) \cup Elems(chunk)
      PROVE  CloseOkPlain'
  BY <1>2
<1>3. ASSUME NEW f \in BrokerFrames, s2c' = Append(s2c, f), chunk' = chunk,
             f.kind = "closeOk" => f.op = None
      PROVE  CloseOkPlain'
  <2>1. Elems(s2c') = Elems(s2c) \cup {f}
    BY <1>1, <1>3, ElemsParts
  <2> QED BY <1>3, <2>1
<1>4. CASE ReadChunk
  <2>1. PICK n \in 1..Len(s2c) :
          chunk' = SubSeq(s2c, 1, n) /\ s2c' = SubSeq(s2c, n + 1, Len(s2c))
    BY <1>4 DEF ReadChunk
  <2>2. /\ DOMAIN s2c = 1..Len(s2c) /\ Len(s2c) \in Nat /\ n \in Nat /\ n >= 1 /\ n <= Len(s2c)
        /\ DOMAIN chunk' = 1..n /\ \A i \in 1..n : chunk'[i] = s2c[i]
        /\ DOMAIN s2c' = 1..(Len(s2c) - n) /\ \A i \in 1..(Len(s2c) - n) : s2c'[i] = s2c[n + i]
    BY <1>1, <2>1, SplitParts
  <2>3. \A i \in 1..n : i \in DOMAIN s2c
    BY <2>2
  <2>4. \A i \in 1..(Len(s2c) - n) : n + i \in DOMAIN s2c
    BY <2>2
  <2>5. Elems(chunk') \subseteq Elems(s2c)
    BY <2>2, <2>3 DEF Elems
  <2>6. Elems(s2c') \subseteq Elems(s2c)
    BY <2>2, <2>4 DEF Elems
  <2> QED BY <1>2, <2>5, <2>6
<1>5. CASE OnReply \/ OnCloseOk \/ OnChannelClose \/ OnConfirm
  <2>1. chunk # <<>> /\ chunk' = Tail(chunk) /\ s2c' = s2c
    BY <1>5 DEF OnReply, OnCloseOk, OnChannelClose, OnConfirm, Receive
  <2>2. Elems(chunk') \subseteq Elems(chunk)
    BY <1>1, <2>1, ElemsParts
  <2> QED BY <1>2, <2>1, <2>2
<1>6. CASE OnUnexpected \/ Lose \/ BrokerAbort
  <2>1. Elems(s2c') = {} /\ Elems(chunk') \subseteq Elems(chunk)
    BY <1>6 DEF OnUnexpected, Lose, BrokerAbort, Elems
  <2> QED BY <1>2, <2>1
<1>7. CASE BrokerConfirm
  <2>1. PICK i \in DOMAIN published, kind \in {"ack", "nack"}, m \in BOOLEAN :
          s2c' = Append(s2c, Confirmation(kind, i, m)) /\ UNCHANGED chunk
    BY <1>7 DEF BrokerConfirm
  <2>2. i \in Nat
    BY <2>1 DEF TypeOK, TypeBroker
  <2>3. /\ Confirmation(kind, i, m) \in BrokerFrames
        /\ Confirmation(kind, i, m).kind # "closeOk"
    BY <2>2 DEF Confirmation, BrokerFrames
  <2> QED BY <1>3, <2>1, <2>3
<1>8. CASE BrokerServe
  <2>1. CASE Head(c2s).kind = "rpc"
    <3>1. Head(c2s).op \in Ops
      BY <1>1, <1>8, <2>1, HeadTail, CallFrame DEF BrokerServe, BrokerReads
    <3>2. /\ FromBroker("reply", Head(c2s).op) \in BrokerFrames
          /\ FromBroker("reply", Head(c2s).op).kind # "closeOk"
      BY <3>1 DEF FromBroker, BrokerFrames
    <3> QED BY <1>3, <1>8, <2>1, <3>2 DEF BrokerServe
  <2>2. CASE Head(c2s).kind # "rpc"
    BY <1>2, <1>8, <2>2 DEF BrokerServe
  <2> QED BY <2>1, <2>2
<1>9. ASSUME NEW op, op \in Ops \cup {None}, BrokerCloses(op) PROVE CloseOkPlain'
  <2>1. FromBroker("close", op) \in BrokerFrames /\ FromBroker("close", op).kind # "closeOk"
    BY <1>9 DEF FromBroker, BrokerFrames
  <2> QED BY <1>3, <1>9, <2>1 DEF BrokerCloses
<1>10. CASE BrokerRefuse
  <2>1. Head(c2s).op \in Ops
    BY <1>1, <1>10, HeadTail, CallFrame DEF BrokerRefuse, BrokerReads
  <2> QED BY <1>9, <1>10, <2>1 DEF BrokerRefuse
<1>11. CASE BrokerKick
  BY <1>9, <1>11 DEF BrokerKick
<1>12. CASE BrokerOnClose
  <2>1. FromBroker("closeOk", None) \in BrokerFrames /\ FromBroker("closeOk", None).op = None
    BY DEF FromBroker, BrokerFrames
  <2> QED BY <1>3, <1>12, <2>1 DEF BrokerOnClose
<1>13. CASE UNCHANGED <<s2c, chunk>>
  BY <1>2, <1>13
<1>14. CASE \/ UserCall \/ WriteFrame \/ FinishWrite \/ FailWrite \/ Drain \/ AfterWrite
            \/ StreamFinish \/ StreamFail \/ CloseImmediate \/ SocketClosed \/ BrokerHead
            \/ BrokerDiscard \/ BrokerOnCloseOk \/ Stall \/ Bypass \/ UNCHANGED vars
  BY <1>13, <1>14 DEF UserCall, CallClosed, Invoke, InvokeNowait, BasicPublish, Close,
     WriteFrame, FinishWrite, FailWrite, Drain, AfterWrite, StreamFinish, StreamFail,
     CloseImmediate, SocketClosed, BrokerHead, BrokerDiscard, BrokerOnCloseOk, Stall, Bypass,
     wire, vars
<1> QED
  BY <1>4, <1>5, <1>6, <1>7, <1>8, <1>10, <1>11, <1>12, <1>14
  DEF Next, EventLoop, BrokerStep, Environment

(* While a request is in the slot each frame that arrives has its place.   *)
LEMMA RequestKept ==
  ASSUME ChannelAssumption, TypeOK, Shape, SlotInv, CloseOkPlain, ConfirmsInPlace,
         OnUnexpected, ~cleared
  PROVE  rpc \notin Rpcs
<1> SUFFICES ASSUME rpc \in Rpcs PROVE FALSE
  OBVIOUS
<1> DEFINE f == Head(chunk)
<1>1. /\ chunk \in Seq(BrokerFrames) /\ chunk # <<>> /\ Unexpected(f)
      /\ mode \in {"normal", "confirm"} /\ None \notin Rpcs /\ ChannelClose \notin Rpcs
  BY DEF TypeOK, TypeWire, TypeChannel, OnUnexpected, ChannelAssumption, Ops
<1>2. Leased
  BY <1>1 DEF Leased, Shape
<1>3. OnlyFor(rpc, chunk, Answer) /\ SelectedFirst
  BY <1>2 DEF SlotInv, SlotOnWire, OnWireOnly, ConfirmsInPlace
<1>4. f.kind \in Answer => f.op = rpc
  BY <1>1, <1>3, TailFacts
<1>5. CASE f.kind = "reply"
  BY <1>1, <1>4, <1>5 DEF Unexpected, SameMethod, Answer
<1>6. CASE f.kind = "closeOk"
  <2>1. f \in Elems(chunk)
    BY <1>1, ElemsParts
  <2> QED BY <1>1, <1>4, <1>6, <2>1 DEF CloseOkPlain, Answer
<1>7. CASE f.kind \in Confirmations
  <2>1. mode = "normal"
    BY <1>1, <1>7 DEF Unexpected, Confirmations
  <2>2. Preceded(chunk)
    BY <1>3, <2>1 DEF SelectedFirst
  <2> QED BY <1>1, <1>7, <2>2, TailSelected
<1> QED BY <1>1, <1>5, <1>6, <1>7 DEF Unexpected, Confirmations

(* A stream fails because of the request in the slot, the only one in it.  *)
LEMMA ErroredSlot ==
  ASSUME TypeOK, Shape, QueueInv, phase = "errored"
  PROVE  rpc \in Rpcs /\ Elems(queue) \cap Rpcs = {rpc} /\ ~cleared
<1>1. ~cleared /\ sent = 0 /\ queue # <<>> /\ Head(queue) \in Rpcs /\ queue \in Seq(Ops)
  BY DEF QueueInv, ReleasedEmpty, EndsEmpty, Shape, TypeOK, TypeStream
<1>2. \A i \in DOMAIN queue : queue[i] \in Rpcs => rpc = queue[i]
  BY <1>1 DEF QueueInv, SlotHeads, Unsent
<1>3. 1 \in DOMAIN queue /\ Head(queue) = queue[1]
  BY <1>1
<1> QED BY <1>1, <1>2, <1>3 DEF Elems

(* When a reply is handled no request waits in the stream.                 *)
LEMMA ReplyAlone ==
  ASSUME ChannelAssumption, TypeOK, Shape, SlotInv, QueueInv, OnReply
  PROVE  phase = "open" /\ rpc \in Rpcs /\ \A i \in DOMAIN queue : ~Unsent(i)
<1>1. /\ chunk \in Seq(BrokerFrames) /\ chunk # <<>> /\ Head(chunk).kind = "reply" /\ ~cleared
      /\ rpc \in Rpcs
  BY DEF TypeOK, TypeWire, OnReply, Receive, SameMethod
<1>2. Has(chunk, Answer) /\ Leased
  BY <1>1, TailFacts DEF Answer, Leased, Shape
<1>3. \A i \in DOMAIN queue : ~Unsent(i)
  BY <1>2 DEF SlotInv, SlotInStream, Quiet
<1>4. phase # "errored"
  <2>1. phase = "errored" => Unsent(1)
    <3>1. ASSUME queue # <<>> PROVE 1 \in DOMAIN queue /\ Head(queue) = queue[1]
      BY <3>1 DEF TypeOK, TypeStream
    <3> QED BY <3>1 DEF QueueInv, EndsEmpty, Shape, Unsent
  <2> QED BY <1>3, <2>1 DEF Unsent
<1>5. None \notin Rpcs
  BY DEF ChannelAssumption, Ops
<1> QED BY <1>1, <1>3, <1>4, <1>5 DEF QueueInv, EndsEmpty, Shape, TypeOK, TypeStream

(* The slot, the buffer and the stream, from one step to the next.         *)
LEMMA QueueStep ==
  ASSUME ChannelAssumption, TypeOK, Shape, SlotInv, CloseOkPlain, ConfirmsInPlace, OwnerInv,
         Malformed \subseteq Rpcs, QueueInv, [Next]_vars
  PROVE  QueueInv'
<1> USE DEF QueueInv, ReleasedEmpty, SlotHeads, BehindSlot, PendingWaits, EndsEmpty
<1>1. /\ queue \in Seq(Ops) /\ rpcBuffer \in Seq(Rpcs) /\ sent \in 0..2
      /\ active \in BOOLEAN /\ cleared \in BOOLEAN
      /\ rpc \in Rpcs \cup {None, ChannelClose} /\ None \notin Rpcs /\ ChannelClose \notin Rpcs
      /\ None # ChannelClose /\ phase \in {"open", "ending", "errored", "destroyed", "closed"}
  BY DEF TypeOK, TypeFlags, TypeStream, TypeChannel, ChannelAssumption, Ops
<1>2. Rpcs \subseteq Ops /\ Elems(rpcBuffer) \subseteq Rpcs
  BY <1>1, ElemsParts DEF Ops
<1>3. ASSUME UNCHANGED <<active, cleared, rpc, rpcBuffer, phase, closer, queue, sent>>,
             \A r \in Rpcs : promise'[r] = "pending" => promise[r] = "pending"
      PROVE  QueueInv'
  BY <1>3 DEF Unsent
<1>4. active => /\ ~cleared /\ phase \in {"open", "errored"} /\ closer = "idle"
                /\ rpc # ChannelClose
  BY <1>1 DEF Shape
<1>5. ASSUME NEW op \in Ops, queue' = Append(queue, op), sent' = sent
      PROVE  /\ queue' # <<>> /\ (queue # <<>> => Head(queue') = Head(queue))
             /\ \A i \in DOMAIN queue' :
                  \/ i \in DOMAIN queue /\ queue'[i] = queue[i] /\ (Unsent(i)' => Unsent(i))
                  \/ queue'[i] = op
  <2> DEFINE q == Append(queue, op)
  <2>1. /\ DOMAIN q = 1..(Len(queue) + 1) /\ q[Len(queue) + 1] = op /\ Len(queue) \in Nat
        /\ DOMAIN queue = 1..Len(queue) /\ \A i \in 1..Len(queue) : q[i] = queue[i]
        /\ q # <<>> /\ (queue # <<>> => Head(q) = Head(queue))
    BY <1>1
  <2> HIDE DEF q
  <2>2. \A i \in DOMAIN q : (i \in DOMAIN queue /\ q[i] = queue[i]) \/ q[i] = op
    BY <2>1
  <2>3. queue' = q
    BY <1>5 DEF q
  <2> QED BY <1>5, <2>1, <2>2, <2>3 DEF Unsent
<1>6. ASSUME NEW op \in Ops, CallClosed(op) PROVE QueueInv'
  <2>1. \A r \in Rpcs : promise'[r] = "pending" => promise[r] = "pending"
    BY <1>2, <1>6 DEF CallClosed, Settle
  <2> QED BY <1>3, <1>6, <2>1 DEF CallClosed, chan, close, stream
<1>7. ASSUME NEW r \in Rpcs, Invoke(r) PROVE QueueInv'
  <2>1. active /\ UNCHANGED <<active, cleared, sent, phase, closer>>
    BY <1>7 DEF Invoke, Call, close
  <2>2. \A o \in Rpcs : promise'[o] = "pending" => o = r \/ promise[o] = "pending"
    BY <1>2, <1>7 DEF Invoke, Call, Settle
  <2>3. CASE rpc # None /\ rpcBuffer' = Append(rpcBuffer, r) /\ UNCHANGED <<rpc, queue>>
    <3>1. Elems(rpcBuffer') = Elems(rpcBuffer) \cup {r} /\ rpc \in Rpcs
      BY <1>1, <1>4, <2>1, <2>3, ElemsParts
    <3>2. SlotHeads'
      BY <2>1, <2>3 DEF Unsent
    <3>3. PendingWaits'
      BY <2>2, <2>3, <3>1
    <3> QED BY <2>1, <2>3, <3>1, <3>2, <3>3
  <2>4. CASE rpc = None /\ rpc' = r /\ queue' = Append(queue, r) /\ UNCHANGED rpcBuffer
    <3>1. phase # "errored"
      BY <1>1, <2>4, ErroredSlot
    <3>2. rpcBuffer = <<>>
      BY <1>1, <2>1, <2>4
    <3>3. \A i \in DOMAIN queue : ~Unsent(i)
      BY <1>1, <1>4, <2>1, <2>4 DEF Unsent
    <3>4. SlotHeads'
      BY <1>2, <1>5, <2>1, <2>4, <3>3
    <3>5. PendingWaits'
      BY <1>1, <2>2, <2>4
    <3> QED BY <1>1, <1>4, <2>1, <2>4, <3>1, <3>4, <3>5
  <2> QED BY <1>7, <2>3, <2>4 DEF Invoke, RpcBusy, Push
<1>8. ASSUME NEW n \in Pubs \cup Nowaits, NEW how, Call(n, how), queue' = Append(queue, n),
             UNCHANGED <<chan, close, sent, phase>>
      PROVE  QueueInv'
  <2>1. n \in Ops \ Rpcs
    BY DEF Ops, ChannelAssumption
  <2>2. \A r \in Rpcs : promise'[r] = promise[r]
    BY <1>2, <1>8, <2>1 DEF Call, Settle
  <2>3. SlotHeads'
    BY <1>5, <1>8, <2>1 DEF chan, Unsent
  <2>4. phase = "errored" => Head(queue') \in Rpcs /\ queue' # <<>>
    BY <1>5, <1>8, <2>1
  <2> QED BY <1>8, <2>2, <2>3, <2>4 DEF chan, close
<1>9. \A n \in Nowaits : InvokeNowait(n) => QueueInv'
  BY <1>8 DEF InvokeNowait
<1>10. \A p \in Pubs : BasicPublish(p) => QueueInv'
  BY <1>8 DEF BasicPublish
<1>11. CASE Close
  <2>1. /\ active /\ UNCHANGED <<cleared, rpc, rpcBuffer, queue, sent, promise>>
        /\ active' = FALSE
        /\ \/ phase = "open" /\ closer' = "stream" /\ phase' = "ending" /\ rpc = None
           \/ phase = "open" /\ closer' = "stream" /\ phase' = phase
           \/ phase # "open" /\ closer' = "immediate" /\ phase' = phase
    BY <1>11 DEF Close, StartClose, user
  <2>2. SlotHeads'
    BY <2>1 DEF Unsent
  <2> QED BY <1>1, <1>4, <2>1, <2>2
<1>12. CASE WriteFrame
  <2>1. UNCHANGED <<active, cleared, rpc, rpcBuffer, phase, closer, queue, promise>> /\ sent' > 0
    BY <1>1, <1>12 DEF WriteFrame, chan, close, user
  <2>2. SlotHeads'
    BY <2>1 DEF Unsent
  <2> QED BY <2>1, <2>2
<1>13. CASE FinishWrite
  <2> DEFINE q == Tail(queue)
  <2>1. /\ queue # <<>> /\ queue' = q /\ phase \in {"open", "ending"}
        /\ UNCHANGED <<active, cleared, rpc, rpcBuffer, phase, closer, promise>>
    BY <1>13 DEF FinishWrite, StreamBusy, chan, close, user
  <2>2. /\ DOMAIN q = 1..(Len(queue) - 1) /\ Len(queue) \in Nat /\ DOMAIN queue = 1..Len(queue)
        /\ \A i \in 1..(Len(queue) - 1) : q[i] = queue[i + 1]
    BY <1>1, <2>1
  <2> HIDE DEF q
  <2>3. \A i \in DOMAIN q : i + 1 \in DOMAIN queue /\ i + 1 > 1 /\ q[i] = queue[i + 1]
    BY <2>2
  <2>4. SlotHeads'
    BY <2>1, <2>3 DEF Unsent
  <2> QED BY <2>1, <2>4
<1>14. CASE FailWrite
  <2>1. /\ UNCHANGED <<active, cleared, rpc, rpcBuffer, closer, queue, sent, promise>>
        /\ phase' = "errored" /\ queue # <<>> /\ Head(queue) \in Rpcs
        /\ phase \in {"open", "ending"}
    BY <1>14 DEF FailWrite, StreamBusy, chan, close, user
  <2>2. SlotHeads'
    BY <2>1 DEF Unsent
  <2> QED BY <2>1, <2>2
<1>15. CASE AfterWrite
  <2>1. Head(written) \in Pubs
    BY <1>15, HeadTail DEF AfterWrite, TypeOK, TypeStream
  <2>2. \A r \in Rpcs : promise'[r] = promise[r]
    BY <1>2, <1>15, <2>1 DEF AfterWrite, Settle, ChannelAssumption
  <2> QED BY <1>3, <1>15, <2>2 DEF AfterWrite, close
<1>16. CASE StreamFinish
  <2>1. /\ rpc = None /\ phase = "ending" /\ ~active /\ ~cleared /\ queue = <<>>
        /\ UNCHANGED <<active, cleared, rpcBuffer, queue, sent, promise>> /\ phase' = "closed"
        /\ rpc' = ChannelClose /\ closer' = "closeOk"
    BY <1>1, <1>4, <1>16 DEF StreamFinish, ResumeClose, user
  <2> QED BY <1>1, <2>1
<1>17. CASE StreamFail
  <2> DEFINE slot == IF Elems(queue) \cap Rpcs # {} THEN None ELSE rpc
  <2>1. /\ Settle({o \in Elems(queue) : promise[o] = "pending"}, "rejected")
        /\ queue' = <<>> /\ active' = FALSE /\ phase' = "closed" /\ UNCHANGED <<rpcBuffer, cleared>>
        /\ phase \in {"errored", "destroyed"}
        /\ \/ closer = "stream" /\ ResumeClose(slot)
           \/ closer # "stream" /\ rpc' = slot /\ closer' = CloserAfterError
    BY <1>17 DEF StreamFail
  <2>2. \A r \in Rpcs : promise'[r] = "pending" => promise[r] = "pending" /\ r \notin Elems(queue)
    BY <1>2, <2>1 DEF Settle
  <2>3. PendingWaits'
    <3>1. CASE phase = "errored"
      <4>1. rpc \in Elems(queue)
        BY <3>1, ErroredSlot
      <4> QED BY <2>1, <2>2, <4>1
    <3>2. CASE phase = "destroyed"
      <4>1. cleared
        BY <3>2 DEF Shape
      <4> QED BY <1>1, <2>1, <2>2, <4>1
    <3> QED BY <2>1, <3>1, <3>2
  <2>4. \/ slot = None
        \/ slot = ChannelClose /\ rpc = ChannelClose /\ closer = "closeOk" /\ ~active
    <3>1. CASE phase = "errored"
      BY <1>1, <3>1, ErroredSlot
    <3>2. CASE phase = "destroyed"
      <4>1. cleared
        BY <3>2 DEF Shape
      <4> QED BY <1>1, <4>1
    <3> QED BY <2>1, <3>1, <3>2
  <2> HIDE DEF slot
  <2>5. \/ rpc' = ChannelClose /\ closer' = "closeOk"
        \/ rpc' = None /\ closer' \in {closer, "immediate"}
    BY <1>1, <2>1, <2>4 DEF ResumeClose, CloserAfterError
  <2>6. cleared => rpcBuffer = <<>>
    OBVIOUS
  <2> QED BY <1>1, <2>1, <2>3, <2>5, <2>6
<1>18. CASE CloseImmediate
  <2>1. /\ closer = "immediate" /\ phase = "closed" /\ ResumeClose(rpc)
        /\ UNCHANGED <<active, cleared, rpcBuffer, queue, sent, phase, promise>>
    <3>1. phase \notin {"errored", "destroyed"}
      BY <1>18 DEF CloseImmediate, Macrotask, TickPending
    <3> QED BY <1>18, <3>1 DEF CloseImmediate, stream, user
  <2>2. rpc = None /\ rpc' = ChannelClose /\ closer' = "closeOk" /\ queue = <<>> /\ ~active
    BY <1>1, <1>4, <2>1 DEF ResumeClose, Shape
  <2> QED BY <1>1, <2>1, <2>2
<1>19. CASE OnReply
  <2>1. /\ UNCHANGED <<active, cleared, sent, closer>> /\ Settle({rpc}, "resolved")
        /\ phase' = IF phase = "open" /\ ~active THEN "ending" ELSE phase
    BY <1>19 DEF OnReply, close
  <2>2. phase = "open" /\ rpc \in Rpcs /\ \A i \in DOMAIN queue : ~Unsent(i)
    BY <1>19, ReplyAlone
  <2>3. \A r \in Rpcs : promise'[r] = "pending" => promise[r] = "pending" /\ r # rpc
    BY <1>2, <2>1 DEF Settle
  <2>4. CASE ~StartsNext
    <3>1. rpc' = None /\ UNCHANGED <<rpcBuffer, queue>>
      BY <1>19, <2>4 DEF OnReply
    <3>2. SlotHeads'
      BY <2>1, <2>2, <3>1 DEF Unsent
    <3>3. PendingWaits'
      BY <2>3, <3>1
    <3>4. BehindSlot'
      BY <2>1, <2>2, <2>4, <3>1 DEF StartsNext
    <3> QED BY <1>1, <1>4, <2>1, <2>2, <3>1, <3>2, <3>3, <3>4
  <2>5. CASE StartsNext
    <3> DEFINE h == Head(rpcBuffer)
    <3>1. /\ rpc' = h /\ rpcBuffer' = Tail(rpcBuffer) /\ queue' = Append(queue, h)
          /\ rpcBuffer # <<>> /\ active
      BY <1>19, <2>5 DEF OnReply, StartsNext
    <3>2. h \in Rpcs /\ Elems(rpcBuffer) = {h} \cup Elems(rpcBuffer')
      BY <1>1, <3>1, HeadTail, ElemsParts
    <3> HIDE DEF h
    <3>3. SlotHeads'
      BY <1>2, <1>5, <2>1, <2>2, <3>1, <3>2
    <3>4. PendingWaits'
      BY <2>3, <3>1, <3>2
    <3> QED BY <1>1, <1>4, <2>1, <2>2, <3>1, <3>2, <3>3, <3>4
  <2> QED BY <2>4, <2>5
<1>20. ASSUME Clear PROVE QueueInv'
  <2>1. /\ active' = FALSE /\ cleared' = TRUE /\ rpc' = None /\ rpcBuffer' = <<>>
        /\ phase' \in {"destroyed", "closed"} /\ closer' \in {closer, "done"}
        /\ Settle(ClearedCalls, "rejected")
    BY <1>20 DEF Clear, EmptyAll, StreamAfterClear
  <2>2. \A r \in Rpcs : promise'[r] = "pending" => promise[r] = "pending" /\ r \notin ClearedCalls
    BY <1>2, <2>1 DEF Settle
  <2>3. PendingWaits'
    BY <1>2, <2>2 DEF ClearedCalls
  <2> QED BY <1>1, <2>1, <2>3
<1>21. CASE OnCloseOk \/ OnChannelClose \/ (SocketClosed /\ ~cleared)
  BY <1>20, <1>21 DEF OnCloseOk, OnChannelClose, SocketClosed
<1>22. CASE OnUnexpected
  <2>1. UNCHANGED <<active, cleared, rpcBuffer, phase, closer, queue, sent, promise>>
    BY <1>22 DEF OnUnexpected, close, stream, user
  <2>2. CASE cleared
    BY <1>3, <1>22, <2>1, <2>2 DEF OnUnexpected
  <2>3. CASE ~cleared
    <3>1. rpc \notin Rpcs /\ rpc' = None
      BY <1>22, <2>3, RequestKept DEF OnUnexpected
    <3>2. SlotHeads'
      BY <2>1, <2>3, <3>1 DEF Unsent
    <3>3. PendingWaits'
      BY <2>1, <3>1
    <3> QED BY <1>1, <2>1, <2>3, <3>1, <3>2, <3>3
  <2> QED BY <2>2, <2>3
<1>23. CASE OnConfirm
  <2>1. Hit(Head(chunk)) \subseteq Pubs
    BY DEF Hit, TypeOK, TypeChannel
  <2>2. \A r \in Rpcs : promise'[r] = promise[r]
    BY <1>2, <1>23, <2>1 DEF OnConfirm, Settle, ChannelAssumption
  <2> QED BY <1>3, <1>23, <2>2 DEF OnConfirm, close, stream
<1>24. CASE Stall \/ Drain \/ Bypass \/ ReadChunk \/ Lose \/ (SocketClosed /\ cleared)
  BY <1>3, <1>24 DEF Stall, Drain, Bypass, ReadChunk, Lose, SocketClosed, chan, close, stream, user
<1>25. CASE \/ BrokerHead \/ BrokerServe \/ BrokerConfirm \/ BrokerRefuse \/ BrokerKick
            \/ BrokerOnClose \/ BrokerDiscard \/ BrokerOnCloseOk \/ BrokerAbort
            \/ UNCHANGED vars
  BY SMTT(30), <1>3, <1>25 DEF BrokerHead, BrokerServe, BrokerConfirm, BrokerRefuse, BrokerKick,
     BrokerCloses, BrokerOnClose, BrokerDiscard, BrokerOnCloseOk, BrokerAbort, chan, close,
     stream, user, vars
<1> QED
  BY <1>6, <1>7, <1>9, <1>10, <1>11, <1>12, <1>13, <1>14, <1>15, <1>16, <1>17, <1>18, <1>19, <1>21,
     <1>22, <1>23, <1>24, <1>25
  DEF Next, UserCall, EventLoop, BrokerStep, Environment

(* What the channel does to its requests, as steps of the queue.           *)
LEMMA QueueMoves ==
  /\ RequestLine' = RequestLine /\ Outcome' = Outcome /\ active' \in {active, FALSE} => QueueMove
  /\ \A r \in Rpcs :
       /\ active /\ promise[r] = "none" /\ active' = active
       /\ RequestLine' = Append(RequestLine, r)
       /\ Outcome' = [Outcome EXCEPT ![r] = "pending"]
       => QueueMove
  /\ \A r \in Rpcs :
       /\ ~active /\ promise[r] = "none" /\ active' = active
       /\ RequestLine' = RequestLine /\ Outcome' = [Outcome EXCEPT ![r] = "rejected"]
       => QueueMove
  /\ \A how :
       /\ RequestLine # <<>> /\ RequestLine' = Tail(RequestLine)
       /\ Outcome' = [Outcome EXCEPT ![Head(RequestLine)] = how]
       /\ (how = "resolved" /\ active' = active) \/ (how = "rejected" /\ active' = FALSE)
       => QueueMove
  /\ /\ active' = FALSE /\ RequestLine' = <<>>
     /\ Outcome' = [r \in Rpcs |->
          IF r \in Elems(RequestLine) THEN "rejected" ELSE promise[r]]
     => QueueMove
BY Zenon DEF QueueMove, Queue!Next, Queue!vars, Queue!Shut, Queue!Enter, Queue!Refuse, Queue!Answer,
   Queue!Fail, Queue!End, Queue!Waiting, RequestLine, Outcome, Elems

(* What a step does to the queue of requests.                              *)
LEMMA QueueRefined ==
  ASSUME ChannelAssumption, TypeOK, Shape, SlotInv, CloseOkPlain, ConfirmsInPlace, OwnerInv,
         Malformed \subseteq Rpcs, QueueInv, [Next]_vars
  PROVE  QueueMove
<1>1. /\ queue \in Seq(Ops) /\ rpcBuffer \in Seq(Rpcs)
      /\ rpc \in Rpcs \cup {None, ChannelClose} /\ None \notin Rpcs /\ ChannelClose \notin Rpcs
      /\ None # ChannelClose /\ Rpcs \subseteq Ops
  BY DEF TypeOK, TypeFlags, TypeStream, TypeChannel, ChannelAssumption, Ops
<1>2. ASSUME RequestLine' = RequestLine, Outcome' = Outcome, active' \in {active, FALSE}
      PROVE  QueueMove
  BY <1>2, QueueMoves
<1>3. ASSUME UNCHANGED rpcBuffer, rpc' = rpc \/ (rpc \notin Rpcs /\ rpc' \notin Rpcs),
             \A r \in Rpcs : promise'[r] = promise[r]
      PROVE  RequestLine' = RequestLine /\ Outcome' = Outcome
  BY <1>3 DEF RequestLine, Outcome
<1>4. ASSUME NEW T, NEW how, Settle(T, how)
      PROVE  /\ \A r \in Rpcs : promise'[r] = IF r \in T THEN how ELSE promise[r]
             /\ Outcome' = [r \in Rpcs |-> IF r \in T THEN how ELSE promise[r]]
  BY <1>1, <1>4 DEF Settle, Outcome
<1>5. ASSUME NEW r \in Rpcs, NEW how,
             \A o \in Rpcs : promise'[o] = IF o = r THEN how ELSE promise[o]
      PROVE  Outcome' = [Outcome EXCEPT ![r] = how]
  BY <1>5 DEF Outcome
<1>6. /\ rpc \in Rpcs => RequestLine = <<rpc>> \o rpcBuffer
      /\ rpc \notin Rpcs => RequestLine = rpcBuffer
  BY <1>1 DEF RequestLine
<1>7. /\ rpc' \in Rpcs => RequestLine' = <<rpc'>> \o rpcBuffer'
      /\ rpc' \notin Rpcs /\ rpcBuffer' \in Seq(Rpcs) => RequestLine' = rpcBuffer'
  BY DEF RequestLine
<1>8. rpc \in Rpcs =>
        /\ RequestLine # <<>> /\ Head(RequestLine) = rpc /\ Tail(RequestLine) = rpcBuffer
        /\ \A r \in Rpcs : Append(RequestLine, r) = <<rpc>> \o Append(rpcBuffer, r)
  <2> SUFFICES ASSUME rpc \in Rpcs
               PROVE  /\ RequestLine # <<>> /\ Head(RequestLine) = rpc
                      /\ Tail(RequestLine) = rpcBuffer
                      /\ \A r \in Rpcs :
                           Append(RequestLine, r) = <<rpc>> \o Append(rpcBuffer, r)
    BY Zenon
  <2>1. rpcBuffer \in Seq(Rpcs) /\ RequestLine = <<rpc>> \o rpcBuffer
    BY <1>1, <1>6
  <2>2. /\ <<rpc>> \o rpcBuffer # <<>> /\ Head(<<rpc>> \o rpcBuffer) = rpc
        /\ Tail(<<rpc>> \o rpcBuffer) = rpcBuffer
        /\ \A r \in Rpcs :
             Append(<<rpc>> \o rpcBuffer, r) = <<rpc>> \o Append(rpcBuffer, r)
    BY <2>1, RequestFacts, Zenon
  <2> QED BY <2>1, <2>2, Zenon
<1>9. active => ~cleared /\ rpc # ChannelClose /\ phase \in {"open", "errored"}
  BY DEF QueueInv, ReleasedEmpty, EndsEmpty, Shape, TypeOK, TypeStream
<1>10. ASSUME NEW op \in Ops, CallClosed(op) PROVE QueueMove
  <2>1. /\ ~active /\ promise[op] = "none" /\ UNCHANGED <<active, rpc, rpcBuffer>>
        /\ Settle({op}, "rejected")
    BY <1>10 DEF CallClosed, chan
  <2>2. CASE op \in Rpcs
    <3>1. RequestLine' = RequestLine
      BY <2>1 DEF RequestLine
    <3>2. Outcome' = [Outcome EXCEPT ![op] = "rejected"]
      BY ZenonT(30), <1>4, <2>1 DEF Outcome
    <3> QED BY QueueMoves, <2>1, <2>2, <3>1, <3>2
  <2>3. CASE op \notin Rpcs
    BY <1>2, <1>3, <1>4, <2>1, <2>3
  <2> QED BY <2>2, <2>3
<1>11. ASSUME NEW r \in Rpcs, Invoke(r) PROVE QueueMove
  <2>1. /\ active /\ promise[r] = "none" /\ active' = active /\ Settle({r}, "pending")
        /\ \/ rpc # None /\ rpcBuffer' = Append(rpcBuffer, r) /\ rpc' = rpc
           \/ rpc = None /\ rpc' = r /\ rpcBuffer' = rpcBuffer
    BY <1>11 DEF Invoke, Call, RpcBusy, Push
  <2>2. \A o \in Rpcs : promise'[o] = IF o = r THEN "pending" ELSE promise[o]
    BY <1>4, <2>1
  <2>3. Outcome' = [Outcome EXCEPT ![r] = "pending"]
    BY <1>5, <2>2
  <2>4. RequestLine' = Append(RequestLine, r)
    <3>1. CASE rpc # None /\ rpcBuffer' = Append(rpcBuffer, r) /\ rpc' = rpc
      <4>1. rpc \in Rpcs
        BY <1>1, <1>9, <2>1, <3>1
      <4> QED BY <1>7, <1>8, <3>1, <4>1
    <3>2. CASE rpc = None /\ rpc' = r /\ rpcBuffer' = rpcBuffer
      <4>1. rpcBuffer = <<>>
        BY <1>1, <2>1, <3>2 DEF QueueInv, BehindSlot
      <4>2. RequestLine' = <<r>> \o <<>> /\ RequestLine = <<>>
        BY <1>1, <1>6, <1>7, <3>2, <4>1
      <4>3. <<r>> \o <<>> = Append(<<>>, r)
        OBVIOUS
      <4> QED BY <4>2, <4>3
    <3> QED BY <2>1, <3>1, <3>2
  <2> QED BY QueueMoves, <2>1, <2>4, <2>3
<1>12. ASSUME NEW n \in Pubs \cup Nowaits, NEW how, Call(n, how), UNCHANGED chan PROVE QueueMove
  <2>1. n \notin Rpcs
    BY DEF ChannelAssumption
  <2> QED BY <1>2, <1>3, <1>4, <1>12, <2>1 DEF Call, chan
<1>13. \A n \in Nowaits : InvokeNowait(n) => QueueMove
  BY <1>12 DEF InvokeNowait
<1>14. \A p \in Pubs : BasicPublish(p) => QueueMove
  BY <1>12 DEF BasicPublish
<1>15. CASE Close
  BY <1>2, <1>3, <1>15 DEF Close, StartClose, user
<1>16. CASE AfterWrite
  <2>1. Head(written) \in Pubs
    BY <1>16, HeadTail DEF AfterWrite, TypeOK, TypeStream
  <2>2. \A r \in Rpcs : promise'[r] = promise[r]
    BY <1>4, <1>16, <2>1 DEF AfterWrite, ChannelAssumption
  <2> QED BY <1>2, <1>3, <1>16, <2>2 DEF AfterWrite
<1>17. CASE StreamFinish \/ CloseImmediate
  <2>1. rpc \notin Rpcs
    <3>1. CloseImmediate => phase = "closed"
      BY DEF CloseImmediate, Macrotask, TickPending, QueueInv, EndsEmpty
    <3> QED BY <1>1, <1>17, <3>1 DEF StreamFinish, QueueInv, EndsEmpty
  <2>2. rpc' \notin Rpcs /\ UNCHANGED <<active, rpcBuffer, promise>>
    BY <1>1, <1>17, <2>1 DEF StreamFinish, CloseImmediate, ResumeClose, user
  <2> QED BY <1>2, <1>3, <2>1, <2>2
<1>18. CASE StreamFail
  <2> DEFINE T == {o \in Elems(queue) : promise[o] = "pending"}
             slot == IF Elems(queue) \cap Rpcs # {} THEN None ELSE rpc
  <2>1. /\ Settle(T, "rejected") /\ active' = FALSE /\ rpcBuffer' = rpcBuffer
        /\ rpc' \in {slot, None, ChannelClose} /\ phase \in {"errored", "destroyed"}
    BY <1>18 DEF StreamFail, ResumeClose
  <2>2. CASE phase = "errored"
    <3>1. rpc \in Rpcs /\ Elems(queue) \cap Rpcs = {rpc}
      BY <2>2, ErroredSlot
    <3>2. rpc' \notin Rpcs
      BY <1>1, <2>1, <3>1
    <3>3. rpc \in Held
      BY <1>1, <3>1 DEF Held
    <3>4. promise[rpc] = "pending"
      BY <3>3 DEF OwnerInv, HeldPending
    <3>5. \A r \in Rpcs : r \in T <=> r = rpc
      BY <3>1, <3>4
    <3>6. \A r \in Rpcs : promise'[r] = IF r = rpc THEN "rejected" ELSE promise[r]
      BY <1>4, <2>1, <3>5
    <3>7. Outcome' = [Outcome EXCEPT ![rpc] = "rejected"]
      BY <1>5, <3>1, <3>6
    <3>8. RequestLine' = rpcBuffer
      BY <1>1, <1>7, <2>1, <3>2
    <3> QED BY QueueMoves, <1>8, <2>1, <3>1, <3>7, <3>8
  <2>3. CASE phase = "destroyed"
    <3>1. rpc \notin Rpcs /\ rpcBuffer = <<>>
      BY <2>3 DEF Shape, QueueInv, ReleasedEmpty
    <3>2. \A r \in Rpcs : r \notin T
      BY <3>1 DEF QueueInv, PendingWaits, Elems
    <3>3. rpc' \notin Rpcs
      BY <1>1, <2>1, <3>1
    <3> HIDE DEF T
    <3> QED BY <1>2, <1>3, <1>4, <2>1, <3>1, <3>2, <3>3
  <2> QED BY <2>1, <2>2, <2>3
<1>19. CASE OnReply
  <2>1. /\ rpc \in Rpcs /\ Settle({rpc}, "resolved") /\ active' = active
        /\ \/ rpc' = None /\ rpcBuffer' = rpcBuffer
           \/ rpcBuffer # <<>> /\ rpc' = Head(rpcBuffer) /\ rpcBuffer' = Tail(rpcBuffer)
    BY <1>19 DEF OnReply, SameMethod, StartsNext
  <2>2. \A r \in Rpcs : promise'[r] = IF r = rpc THEN "resolved" ELSE promise[r]
    BY <1>4, <2>1
  <2>3. Outcome' = [Outcome EXCEPT ![rpc] = "resolved"]
    BY <1>5, <2>1, <2>2
  <2>4. RequestLine' = rpcBuffer
    <3>1. CASE rpc' = None /\ rpcBuffer' = rpcBuffer
      BY <1>1, <1>7, <3>1
    <3>2. CASE rpcBuffer # <<>> /\ rpc' = Head(rpcBuffer) /\ rpcBuffer' = Tail(rpcBuffer)
      <4>1. Head(rpcBuffer) \in Rpcs
        BY <1>1, <3>2, HeadTail
      <4>2. rpcBuffer = <<Head(rpcBuffer)>> \o Tail(rpcBuffer)
        BY <1>1, <3>2, HeadTailProperties
      <4> QED BY <1>7, <3>2, <4>1, <4>2
    <3> QED BY <2>1, <3>1, <3>2
  <2> QED BY QueueMoves, <1>8, <2>1, <2>4, <2>3
<1>20. ASSUME Clear PROVE QueueMove
  <2>1. /\ active' = FALSE /\ rpc' = None /\ rpcBuffer' = <<>> /\ Settle(ClearedCalls, "rejected")
    BY <1>20 DEF Clear, EmptyAll
  <2>2. RequestLine' = <<>>
    BY <1>1, <1>7, <2>1
  <2>3. \A r \in Rpcs :
          r \in ClearedCalls <=> r \in Elems(RequestLine)
    <3>1. CASE rpc \in Rpcs
      <4>1. Elems(RequestLine) = {rpc} \cup Elems(rpcBuffer)
        BY <1>1, <1>6, <3>1, RequestFacts
      <4>2. \A r \in Rpcs : r \notin unconfirmed
        BY DEF TypeOK, TypeChannel, ChannelAssumption
      <4> QED BY <1>1, <4>1, <4>2 DEF ClearedCalls
    <3>2. CASE rpc \notin Rpcs
      <4>1. Elems(RequestLine) = Elems(rpcBuffer)
        BY <1>6, <3>2 DEF Elems
      <4>2. \A r \in Rpcs : r \notin unconfirmed
        BY DEF TypeOK, TypeChannel, ChannelAssumption
      <4> QED BY <1>1, <3>2, <4>1, <4>2 DEF ClearedCalls
    <3> QED BY <3>1, <3>2
  <2>4. Outcome' = [r \in Rpcs |->
                      IF r \in Elems(RequestLine)
                        THEN "rejected" ELSE promise[r]]
    BY <1>4, <2>1, <2>3
  <2> QED BY QueueMoves, <2>1, <2>2, <2>4
<1>21. CASE OnCloseOk \/ OnChannelClose \/ (SocketClosed /\ ~cleared)
  BY <1>20, <1>21 DEF OnCloseOk, OnChannelClose, SocketClosed
<1>22. CASE OnUnexpected
  <2>1. UNCHANGED <<active, rpcBuffer, promise>>
    BY <1>22 DEF OnUnexpected, user
  <2>2. rpc' = rpc \/ (rpc \notin Rpcs /\ rpc' \notin Rpcs)
    BY <1>1, <1>22, RequestKept DEF OnUnexpected
  <2> QED BY <1>2, <1>3, <2>1, <2>2
<1>23. CASE OnConfirm
  <2>1. \A r \in Rpcs : r \notin Hit(Head(chunk))
    BY DEF Hit, TypeOK, TypeChannel, ChannelAssumption
  <2> QED BY <1>2, <1>3, <1>4, <1>23, <2>1 DEF OnConfirm
<1>24. CASE \/ WriteFrame \/ FinishWrite \/ FailWrite \/ Stall \/ Drain \/ Bypass \/ ReadChunk
            \/ Lose \/ (SocketClosed /\ cleared)
  BY <1>2, <1>3, <1>24 DEF WriteFrame, FinishWrite, FailWrite, Stall, Drain, Bypass, ReadChunk,
     Lose, SocketClosed, chan, user
<1>25. CASE \/ BrokerHead \/ BrokerServe \/ BrokerConfirm \/ BrokerRefuse \/ BrokerKick
            \/ BrokerOnClose \/ BrokerDiscard \/ BrokerOnCloseOk \/ BrokerAbort
            \/ UNCHANGED vars
  BY <1>2, <1>3, <1>25 DEF BrokerHead, BrokerServe, BrokerConfirm, BrokerRefuse, BrokerKick,
     BrokerCloses, BrokerOnClose, BrokerDiscard, BrokerOnCloseOk, BrokerAbort, chan, user, vars
<1> QED
  BY <1>10, <1>11, <1>13, <1>14, <1>15, <1>16, <1>17, <1>18, <1>19, <1>21, <1>22, <1>23, <1>24,
     <1>25
  DEF Next, UserCall, EventLoop, BrokerStep, Environment

(* The invariant of the queue holds at the start, where the queue is empty.*)
LEMMA QueueInit ==
  ASSUME ChannelAssumption, Init PROVE CloseOkPlain /\ QueueInv /\ Queue!Init
<1>1. Elems(<<>>) = {} /\ None \notin Rpcs /\ None # ChannelClose /\ Rpcs \subseteq Ops
  BY DEF Elems, ChannelAssumption, Ops
<1>2. CloseOkPlain
  BY <1>1 DEF Init, CloseOkPlain
<1>3. QueueInv
  BY <1>1 DEF Init, QueueInv, ReleasedEmpty, SlotHeads, BehindSlot, PendingWaits, EndsEmpty, Unsent
<1>4. Queue!Init
  <2>1. <<>> \o <<>> = <<>>
    OBVIOUS
  <2> QED BY <1>1, <2>1 DEF Init, Queue!Init
<1> QED BY <1>2, <1>3, <1>4

(* Slot, buffer, stream, wire and broker are the queue of requests that    *)
(* RpcQueue describes, as long as every publish can be encoded (README     *)
(* says what happens to a request in flight when one cannot).              *)
THEOREM RequestsAreQueued ==
  ASSUME Malformed \subseteq Rpcs PROVE Spec => ImplementsQueue
<1> DEFINE I == FramesGenuine /\ ConfirmsInPlace /\ OwnerInv /\ CloseOkPlain /\ QueueInv
<1>1. Init => I /\ Queue!Init
  BY ContainedInit, OwnerInit, QueueInit, ChannelAssumption
<1>2. Service /\ I /\ [Next]_vars => I' /\ [Queue!Next]_(Queue!vars)
  BY GenuineStep, SelectedStep, OwnerStep, PlainStep, QueueStep, QueueRefined, ChannelAssumption
  DEF Service, ServiceInv, QueueMove
<1> HIDE DEF I
<1> QED BY <1>1, <1>2, ServiceCorrect, PTL DEF Spec, ImplementsQueue, Queue!Spec

-----------------------------------------------------------------------------
(* The confirmations.                                                      *)

(* The publishes among s are in the given order; those of A come before    *)
(* those of B; S leaves out no publish in confirm mode before one of its   *)
(* own.                                                                    *)
Follow(s, order) ==
  \A i, j \in DOMAIN s : i < j /\ s[i] \in Pubs /\ s[j] \in Pubs => <<s[i], s[j]>> \in order
Before(A, B, order) == \A a \in A \cap Pubs, b \in B \cap Pubs : <<a, b>> \in order
Complete(S, order) == \A c \in order : c[1] \in confirming /\ c[2] \in S => c[1] \in S

(* The client counts the publishes it makes in confirm mode in the order   *)
(* of the calls.                                                           *)
Registers ==
  /\ Follow(registered, Earlier) /\ Follow(written, Earlier)
  /\ Before(Elems(registered), Elems(written), Earlier)
  /\ Complete(Elems(registered), Earlier)
  /\ Complete(Elems(registered) \cup Elems(written), Earlier)
  /\ Elems(registered) \subseteq confirming
  /\ Elems(written) \cup confirming \subseteq Elems(calls)
RegistersNext ==
  Flowing =>
    /\ Follow(queue, Earlier) /\ Elems(queue) \cap Pubs \subseteq Elems(calls)
    /\ Before(Elems(registered) \cup Elems(written), Elems(queue), Earlier)
    /\ confirming \subseteq Elems(registered) \cup Elems(written) \cup Elems(queue)

(* Two calls are in one order or the other.                                *)
LEMMA EarlierTotal ==
  ASSUME calls \in Seq(Ops), NEW a \in Elems(calls), NEW b \in Elems(calls), a # b
  PROVE  <<a, b>> \in Earlier \/ <<b, a>> \in Earlier
<1>1. PICK i \in DOMAIN calls, j \in DOMAIN calls : a = calls[i] /\ b = calls[j]
  BY DEF Elems
<1>2. i \in Nat /\ j \in Nat /\ i # j
  BY <1>1
<1>3. i < j \/ j < i
  BY <1>2
<1> QED BY <1>1, <1>3 DEF Earlier

(* The order of the publishes in a sequence that grows at its end.         *)
LEMMA FollowAppend ==
  ASSUME NEW S, NEW s \in Seq(S), NEW x \in S, NEW R, Follow(s, R), Before(Elems(s), {x}, R)
  PROVE  Follow(Append(s, x), R)
<1> DEFINE t == Append(s, x)
<1>1. /\ DOMAIN s = 1..Len(s) /\ Len(s) \in Nat
      /\ DOMAIN t = 1..(Len(s) + 1) /\ t[Len(s) + 1] = x /\ \A i \in 1..Len(s) : t[i] = s[i]
  OBVIOUS
<1> HIDE DEF t
<1>2. ASSUME NEW i \in DOMAIN t, NEW j \in DOMAIN t, i < j, t[i] \in Pubs, t[j] \in Pubs
      PROVE  <<t[i], t[j]>> \in R
  <2>1. i \in DOMAIN s /\ t[i] = s[i] /\ s[i] \in Elems(s)
    BY <1>1, <1>2 DEF Elems
  <2>2. CASE j \in DOMAIN s
    BY <1>1, <1>2, <2>1, <2>2 DEF Follow
  <2>3. CASE j \notin DOMAIN s
    <3>1. t[j] = x
      BY <1>1, <2>3
    <3> QED BY <1>2, <2>1, <3>1 DEF Before
  <2> QED BY <2>2, <2>3
<1> QED BY <1>2 DEF Follow, t

(* ... and of one that loses its first element.                            *)
LEMMA FollowTail ==
  ASSUME NEW S, NEW s \in Seq(S), s # <<>>, NEW R, Follow(s, R)
  PROVE  Follow(Tail(s), R) /\ Before({Head(s)}, Elems(Tail(s)), R)
<1> DEFINE t == Tail(s)
<1>1. /\ DOMAIN s = 1..Len(s) /\ Len(s) \in Nat /\ Len(s) > 0 /\ Head(s) = s[1]
      /\ DOMAIN t = 1..(Len(s) - 1) /\ \A i \in 1..(Len(s) - 1) : t[i] = s[i + 1]
  OBVIOUS
<1> HIDE DEF t
<1>2. \A i \in DOMAIN t : i + 1 \in DOMAIN s /\ t[i] = s[i + 1] /\ 1 < i + 1 /\ i \in Nat
  BY <1>1
<1>3. Follow(t, R)
  <2> SUFFICES ASSUME NEW i \in DOMAIN t, NEW j \in DOMAIN t, i < j, t[i] \in Pubs, t[j] \in Pubs
               PROVE  <<t[i], t[j]>> \in R
    BY DEF Follow
  <2>1. i + 1 < j + 1
    BY <1>2
  <2> QED BY <1>2, <2>1 DEF Follow
<1>4. Before({Head(s)}, Elems(t), R)
  <2>1. 1 \in DOMAIN s
    BY <1>1
  <2> QED BY <1>1, <1>2, <2>1 DEF Before, Follow, Elems
<1> QED BY <1>3, <1>4 DEF t

(* What is known of an order is known of one that knows more.              *)
LEMMA FollowGrows ==
  ASSUME NEW R, NEW T, R \subseteq T
  PROVE  /\ \A s : Follow(s, R) => Follow(s, T)
         /\ \A U, V : Before(U, V, R) => Before(U, V, T)
BY DEF Follow, Before

(* Two counts of publishes in confirm mode, both in the order of the calls *)
(* and neither leaving one out, agree on the next one, too.                *)
LEMMA CountsAgree ==
  ASSUME calls \in Seq(Ops), CallsOnce, confirming \subseteq Pubs \cap Elems(calls),
         NEW s \in Seq(Ops), NEW t \in Seq(Ops), NEW x \in confirming,
         \A i \in DOMAIN s \cap DOMAIN t : s[i] = t[i],
         Elems(s) \subseteq confirming, Elems(t) \subseteq confirming,
         Follow(Append(s, x), Earlier), Follow(t, Earlier),
         Complete(Elems(s) \cup {x}, Earlier), Complete(Elems(t), Earlier)
  PROVE  \A i \in DOMAIN Append(s, x) \cap DOMAIN t : Append(s, x)[i] = t[i]
<1> DEFINE u == Append(s, x)
           n == Len(s) + 1
<1>1. /\ DOMAIN s = 1..Len(s) /\ Len(s) \in Nat /\ x \in Ops /\ DOMAIN t = 1..Len(t)
      /\ Len(t) \in Nat /\ DOMAIN u = 1..n /\ u[n] = x /\ \A i \in 1..Len(s) : u[i] = s[i]
  BY DEF Ops
<1> HIDE DEF u
<1>2. ASSUME n \in DOMAIN t, x # t[n] PROVE FALSE
  <2> DEFINE q == t[n]
  <2>1. q \in Elems(t) /\ q \in confirming /\ q \in Elems(calls) /\ q \in Pubs
        /\ x \in Elems(calls) /\ x \in Pubs
    BY <1>2 DEF Elems
  <2> HIDE DEF q
  <2>2. CASE <<x, q>> \in Earlier
    <3>1. x \in Elems(t)
      BY <2>1, <2>2 DEF Complete
    <3>2. PICK k \in DOMAIN t : t[k] = x
      BY <3>1 DEF Elems
    <3>3. ~(n < k)
      BY <1>2, <2>1, <2>2, <3>2, EarlierStrict DEF Follow, q
    <3>4. k # n
      BY <1>2, <3>2
    <3>5. k \in DOMAIN s /\ k < n /\ k \in DOMAIN u /\ n \in DOMAIN u
      BY <1>1, <3>2, <3>3, <3>4
    <3>6. u[k] = x
      BY <1>1, <3>2, <3>5
    <3>7. <<x, x>> \in Earlier
      BY <1>1, <2>1, <3>5, <3>6 DEF Follow, u
    <3> QED BY <3>7, EarlierStrict
  <2>3. CASE <<q, x>> \in Earlier
    <3>1. q \in Elems(s)
      BY <1>2, <2>1, <2>3 DEF Complete, q
    <3>2. PICK k \in DOMAIN s : s[k] = q
      BY <3>1 DEF Elems
    <3>3. k \in DOMAIN t /\ k < n /\ t[k] = q
      BY <1>1, <1>2, <3>2
    <3>4. <<q, q>> \in Earlier
      BY <1>2, <2>1, <3>3 DEF Follow, q
    <3> QED BY <3>4, EarlierStrict
  <2> QED BY <1>2, <2>1, <2>2, <2>3, EarlierTotal DEF q
<1>3. ASSUME NEW i \in DOMAIN u \cap DOMAIN t PROVE u[i] = t[i]
  <2>1. CASE i = n
    BY <1>1, <1>2, <1>3, <2>1
  <2>2. CASE i # n
    BY <1>1, <1>3, <2>2
  <2> QED BY <2>1, <2>2
<1> QED BY <1>3 DEF u

(* A count that agrees with one that has all of its publishes is no longer.*)
LEMMA CountsLength ==
  ASSUME calls \in Seq(Ops), CallsOnce, NEW s \in Seq(Pubs), NEW t \in Seq(Ops),
         \A i \in DOMAIN s \cap DOMAIN t : s[i] = t[i],
         Elems(t) \subseteq Elems(s), Follow(t, Earlier)
  PROVE  Len(t) <= Len(s)
<1>1. /\ DOMAIN s = 1..Len(s) /\ Len(s) \in Nat /\ DOMAIN t = 1..Len(t) /\ Len(t) \in Nat
      /\ \A i \in DOMAIN s : s[i] \in Pubs
  OBVIOUS
<1> SUFFICES ASSUME Len(s) < Len(t) PROVE FALSE
  BY <1>1
<1>2. Len(s) + 1 \in DOMAIN t /\ t[Len(s) + 1] \in Elems(s)
  <2>1. Len(s) + 1 \in DOMAIN t
    BY <1>1
  <2>2. t[Len(s) + 1] \in Elems(t)
    BY <2>1 DEF Elems
  <2> QED BY <2>1, <2>2
<1>3. PICK k \in DOMAIN s : s[k] = t[Len(s) + 1]
  BY <1>2 DEF Elems
<1>4. k \in DOMAIN t /\ k < Len(s) + 1 /\ t[k] = s[k] /\ s[k] \in Pubs
  BY <1>1, <1>3
<1>5. <<s[k], s[k]>> \in Earlier
  BY <1>2, <1>3, <1>4 DEF Follow
<1> QED BY <1>5, EarlierStrict

(* A call comes after all others, and is counted once it is written.       *)
LEMMA RegistersCall ==
  ASSUME TypeOK, CallsOnce, Registers, RegistersNext, NEW op \in Ops,
         promise[op] = "none", calls' = Append(calls, op),
         UNCHANGED <<registered, written, phase>>,
         queue' = queue \/ queue' = Append(queue, op),
         \/ confirming' = confirming
         \/ op \in Pubs /\ confirming' = confirming \cup {op} /\ queue' = Append(queue, op)
  PROVE  Registers' /\ RegistersNext'
<1> DEFINE E == Earlier
           F == E \cup (Elems(calls) \X {op})
           Reg == Elems(registered)
           W == Elems(written)
<1>1. /\ calls \in Seq(Ops) /\ queue \in Seq(Ops) /\ registered \in Seq(Pubs)
      /\ written \in Seq(Pubs)
  BY DEF TypeOK, TypeUser, TypeStream, TypeChannel
<1>2. Earlier' = F /\ Elems(calls') = Elems(calls) \cup {op} /\ op \notin Elems(calls)
  BY <1>1, EarlierAppend DEF CallsOnce
<1>3. Elems(Append(queue, op)) = Elems(queue) \cup {op}
  BY <1>1, ElemsFacts
<1>4. Reg' = Reg /\ W' = W /\ Reg \subseteq confirming /\ W \cup confirming \subseteq Elems(calls)
  BY DEF Registers
<1>5. Complete(Reg, Earlier)' /\ Complete(Reg \cup W, Earlier)'
  <2>1. ASSUME NEW S, S \subseteq Elems(calls), Complete(S, E),
               NEW c \in F, c[1] \in confirming', c[2] \in S
        PROVE  c[1] \in S
    <3>1. c \in E
      BY <1>2, <2>1
    <3>2. c[1] \in Elems(calls)
      BY <3>1 DEF Earlier
    <3>3. c[1] \in confirming
      BY <1>2, <2>1, <3>2
    <3> QED BY <2>1, <3>1, <3>3 DEF Complete
  <2>2. /\ Reg \subseteq Elems(calls) /\ Reg \cup W \subseteq Elems(calls)
        /\ Complete(Reg, E) /\ Complete(Reg \cup W, E)
    BY <1>4 DEF Registers
  <2> HIDE DEF E, F
  <2>3. /\ \A c \in F : c[1] \in confirming' /\ c[2] \in Reg => c[1] \in Reg
        /\ \A c \in F : c[1] \in confirming' /\ c[2] \in Reg \cup W => c[1] \in Reg \cup W
    BY <2>1, <2>2
  <2> QED BY <1>2, <1>4, <2>3 DEF Complete
<1>6. E \subseteq F
  OBVIOUS
<1> HIDE DEF E, F
<1>7. Follow(registered, F) /\ Follow(written, F) /\ Before(Reg, W, F)
  BY <1>6, FollowGrows DEF Registers, E
<1>8. Registers'
  BY <1>2, <1>4, <1>5, <1>7 DEF Registers
<1>9. ASSUME Flowing' PROVE RegistersNext'
  <2>1. /\ Follow(queue, E) /\ Elems(queue) \cap Pubs \subseteq Elems(calls)
        /\ Before(Reg \cup W, Elems(queue), E)
        /\ confirming \subseteq Reg \cup W \cup Elems(queue)
    BY <1>9 DEF RegistersNext, Flowing, E
  <2>2. Follow(queue, F) /\ Before(Reg \cup W, Elems(queue), F)
    BY <1>6, <2>1, FollowGrows
  <2>3. Before(Elems(queue), {op}, F) /\ Before(Reg \cup W, {op}, F)
    BY <1>4, <2>1 DEF Before, F
  <2>4. Follow(Append(queue, op), F)
    BY <1>1, <2>2, <2>3, FollowAppend
  <2>5. Before(Reg \cup W, Elems(Append(queue, op)), F)
    BY <1>3, <2>2, <2>3 DEF Before
  <2>6. CASE queue' = queue /\ confirming' = confirming
    BY <1>2, <1>4, <2>1, <2>2, <2>6 DEF RegistersNext
  <2>7. CASE queue' = Append(queue, op)
    <3>1. Elems(queue') = Elems(queue) \cup {op}
      BY <1>3, <2>7
    <3>2. confirming' \subseteq Reg \cup W \cup Elems(queue')
      BY <2>1, <3>1
    <3>3. Elems(queue') \cap Pubs \subseteq Elems(calls')
      BY <1>2, <2>1, <3>1
    <3> QED BY <1>2, <1>4, <2>4, <2>5, <2>7, <3>2, <3>3 DEF RegistersNext
  <2> QED BY <2>6, <2>7
<1> QED BY <1>8, <1>9 DEF RegistersNext

(* Every step keeps the order in which publishes are counted.              *)
LEMMA RegistersStep ==
  ASSUME ChannelAssumption, TypeOK, CallsOnce, Registers, RegistersNext, [Next]_vars
  PROVE  Registers' /\ RegistersNext'
<1> DEFINE G == Registers' /\ RegistersNext'
<1>1. /\ queue \in Seq(Ops) /\ registered \in Seq(Pubs) /\ written \in Seq(Pubs)
      /\ rpcBuffer \in Seq(Rpcs) /\ calls \in Seq(Ops) /\ Rpcs \cap Pubs = {}
      /\ Pubs \cap Nowaits = {} /\ confirming \subseteq Pubs
  BY DEF TypeOK, TypeUser, TypeStream, TypeChannel, ChannelAssumption
<1>2. ASSUME UNCHANGED <<registered, written, calls, confirming>>,
             Flowing' => Flowing /\ queue' = queue
      PROVE  G
  BY <1>2 DEF Registers, RegistersNext, Complete, Earlier
<1>3. ASSUME UNCHANGED <<registered, written, calls, confirming>>, Flowing' => Flowing,
             NEW op \in Ops \ Pubs, queue' = Append(queue, op)
      PROVE  G
  <2>1. Elems(queue') = Elems(queue) \cup {op} /\ op \notin Pubs
    BY <1>1, <1>3, ElemsFacts
  <2>2. Earlier' = Earlier
    BY <1>3 DEF Earlier
  <2>3. Follow(queue, Earlier) => Follow(queue', Earlier)
    <3>1. Before(Elems(queue), {op}, Earlier)
      BY <2>1 DEF Before
    <3> QED BY <1>1, <1>3, <3>1, FollowAppend
  <2>4. \A S : Before(S, Elems(queue), Earlier) => Before(S, Elems(queue'), Earlier)
    BY <2>1 DEF Before
  <2>5. Registers'
    BY <1>3, <2>2 DEF Registers, Complete
  <2>6. RegistersNext'
    BY <1>3, <2>1, <2>2, <2>3, <2>4 DEF RegistersNext
  <2> QED BY <2>5, <2>6
<1>4. ASSUME NEW r \in Rpcs, Invoke(r) PROVE G
  <2>1. /\ promise[r] = "none" /\ calls' = Append(calls, r) /\ r \in Ops
        /\ UNCHANGED <<registered, written, phase>>
        /\ queue' = queue \/ queue' = Append(queue, r)
        /\ confirming' = confirming
    BY <1>4 DEF Invoke, Call, Ops
  <2> QED BY <1>4, <2>1, RegistersCall
<1>5. ASSUME NEW n \in Nowaits, InvokeNowait(n) PROVE G
  <2>1. /\ promise[n] = "none" /\ calls' = Append(calls, n) /\ n \in Ops
        /\ UNCHANGED <<registered, written, phase>>
        /\ queue' = Append(queue, n) /\ confirming' = confirming
    BY <1>5 DEF InvokeNowait, Call, Ops, chan
  <2> QED BY <1>5, <2>1, RegistersCall
<1>6. ASSUME NEW p \in Pubs, BasicPublish(p) PROVE G
  <2>1. /\ promise[p] = "none" /\ calls' = Append(calls, p) /\ p \in Ops
        /\ UNCHANGED <<registered, written, phase>>
        /\ queue' = Append(queue, p)
        /\ confirming' = confirming \/ confirming' = confirming \cup {p}
    BY <1>6 DEF BasicPublish, Call, Ops, chan
  <2> QED BY <1>6, <2>1, RegistersCall
<1>7. CASE FinishWrite
  <2> DEFINE x == Head(queue)
             R == Elems(registered)
             W == Elems(written)
             T == Elems(Tail(queue))
  <2>1. /\ queue # <<>> /\ Flowing /\ queue' = Tail(queue)
        /\ written' = IF x \in Pubs THEN Append(written, x) ELSE written
        /\ UNCHANGED <<registered, calls, confirming, phase>>
    BY <1>7 DEF FinishWrite, StreamBusy, Flowing, CallsBack, chan, user
  <2>2. Elems(queue) = {x} \cup T /\ x \in Ops
    BY <1>1, <2>1, ElemsParts, HeadTail
  <2>3. Follow(Tail(queue), Earlier) /\ Before({x}, T, Earlier)
    BY <1>1, <2>1, FollowTail DEF RegistersNext
  <2>4. /\ Before(R \cup W, {x} \cup T, Earlier) /\ confirming \subseteq R \cup W \cup {x} \cup T
        /\ ({x} \cup T) \cap Pubs \subseteq Elems(calls)
    BY <2>1, <2>2 DEF RegistersNext
  <2>5. Earlier' = Earlier
    BY <2>1 DEF Earlier
  <2> HIDE DEF x, T
  <2>6. CASE x \notin Pubs
    <3>1. Registers'
      BY <2>1, <2>5, <2>6 DEF Registers, Complete
    <3>2. RegistersNext'
      <4>1. Before(R \cup W, T, Earlier) /\ confirming \subseteq R \cup W \cup T
            /\ T \cap Pubs \subseteq Elems(calls)
        BY <1>1, <2>4, <2>6 DEF Before
      <4> QED BY <2>1, <2>3, <2>5, <2>6, <4>1 DEF RegistersNext, T
    <3> QED BY <3>1, <3>2
  <2>7. CASE x \in Pubs
    <3>1. written' = Append(written, x) /\ Elems(written') = W \cup {x}
      BY <1>1, <2>1, <2>7, ElemsFacts
    <3>2. Follow(written', Earlier)
      <4>1. Before(W, {x}, Earlier)
        BY <2>4 DEF Before
      <4> QED BY <1>1, <2>7, <3>1, <4>1, FollowAppend DEF Registers
    <3>3. Before(R, W \cup {x}, Earlier)
      BY <2>4 DEF Before, Registers
    <3>4. Complete(R \cup (W \cup {x}), Earlier)
      <4> SUFFICES ASSUME NEW c \in Earlier, c[1] \in confirming, c[2] \in R \cup (W \cup {x}),
                          c[1] \notin R \cup (W \cup {x})
                   PROVE  FALSE
        BY DEF Complete
      <4>1. c[2] = x
        BY DEF Registers, Complete
      <4>2. c[1] \in T /\ c[1] \in Pubs
        BY <1>1, <2>4
      <4>3. <<x, c[1]>> \in Earlier
        BY <2>3, <2>7, <4>2 DEF Before
      <4>4. c = <<c[1], c[2]>>
        BY DEF Earlier
      <4> QED BY <1>1, <4>1, <4>3, <4>4, EarlierStrict
    <3>5. Registers'
      BY <2>1, <2>4, <2>5, <2>7, <3>1, <3>2, <3>3, <3>4 DEF Registers, Complete
    <3>6. /\ Before(R \cup (W \cup {x}), T, Earlier)
          /\ confirming \subseteq R \cup (W \cup {x}) \cup T /\ T \cap Pubs \subseteq Elems(calls)
      BY <2>3, <2>4 DEF Before
    <3>7. RegistersNext'
      BY <2>1, <2>3, <2>5, <3>1, <3>6 DEF RegistersNext, T
    <3> QED BY <3>5, <3>7
  <2> QED BY <2>6, <2>7
<1>8. CASE AfterWrite
  <2> DEFINE x == Head(written)
             R == Elems(registered)
             T == Elems(Tail(written))
  <2>1. /\ written # <<>> /\ written' = Tail(written)
        /\ registered' = IF x \in confirming THEN Append(registered, x) ELSE registered
        /\ UNCHANGED <<queue, calls, confirming, phase>>
    BY <1>8 DEF AfterWrite
  <2>2. Elems(written) = {x} \cup T /\ x \in Pubs
    BY <1>1, <2>1, ElemsParts, HeadTail
  <2>3. Follow(Tail(written), Earlier) /\ Before({x}, T, Earlier)
    BY <1>1, <2>1, FollowTail DEF Registers
  <2>4. /\ Before(R, {x} \cup T, Earlier) /\ R \subseteq confirming
        /\ {x} \cup T \cup confirming \subseteq Elems(calls)
        /\ Complete(R, Earlier) /\ Complete(R \cup ({x} \cup T), Earlier)
        /\ Follow(registered, Earlier)
    BY <2>2 DEF Registers
  <2>5. Earlier' = Earlier
    BY <2>1 DEF Earlier
  <2>6. Flowing => /\ Before(R \cup ({x} \cup T), Elems(queue), Earlier)
                   /\ confirming \subseteq R \cup ({x} \cup T) \cup Elems(queue)
                   /\ Follow(queue, Earlier) /\ Elems(queue) \cap Pubs \subseteq Elems(calls)
    BY <2>2 DEF RegistersNext
  <2>7. /\ written' = Tail(written) /\ Elems(written') = T
        /\ x \in confirming => registered' = Append(registered, x)
        /\ x \notin confirming => registered' = registered
    BY <2>1
  <2> HIDE DEF x, T
  <2>8. CASE x \notin confirming
    <3>1. Complete(R \cup T, Earlier) /\ Before(R, T, Earlier)
      BY <2>4, <2>8 DEF Complete, Before
    <3>2. Registers'
      BY <2>1, <2>3, <2>4, <2>5, <2>7, <2>8, <3>1 DEF Registers, Complete
    <3>3. Flowing => Before(R \cup T, Elems(queue), Earlier)
                     /\ confirming \subseteq R \cup T \cup Elems(queue)
      BY <2>6, <2>8 DEF Before
    <3> QED BY <2>1, <2>5, <2>6, <2>7, <2>8, <3>2, <3>3 DEF RegistersNext, Flowing
  <2>9. CASE x \in confirming
    <3>0. registered' = Append(registered, x)
      BY <2>7, <2>9
    <3>1. Elems(registered') = R \cup {x}
      <4>1. Elems(Append(registered, x)) = R \cup {x}
        BY <1>1, <2>2, ElemsFacts
      <4> QED BY <3>0, <4>1
    <3>2. Follow(registered', Earlier)
      <4>1. Before(R, {x}, Earlier)
        BY <2>4 DEF Before
      <4>2. Follow(Append(registered, x), Earlier)
        BY <1>1, <2>2, <2>4, <4>1, FollowAppend
      <4> QED BY <3>0, <4>2
    <3>3. Before(R \cup {x}, T, Earlier)
      BY <2>3, <2>4 DEF Before
    <3>4. Complete(R \cup {x}, Earlier)
      <4> SUFFICES ASSUME NEW c \in Earlier, c[1] \in confirming, c[2] \in R \cup {x},
                          c[1] \notin R \cup {x}
                   PROVE  FALSE
        BY DEF Complete
      <4>1. c[2] = x
        BY <2>4 DEF Complete
      <4>2. c[1] \in T /\ c[1] \in Pubs
        BY <1>1, <2>4, <4>1 DEF Complete
      <4>3. <<x, c[1]>> \in Earlier
        BY <2>2, <2>3, <4>2 DEF Before
      <4>4. c = <<c[1], c[2]>>
        BY DEF Earlier
      <4> QED BY <1>1, <4>1, <4>3, <4>4, EarlierStrict
    <3>5. R \cup ({x} \cup T) = (R \cup {x}) \cup T
      OBVIOUS
    <3>6. Registers'
      BY <2>1, <2>3, <2>4, <2>5, <2>7, <2>9, <3>1, <3>2, <3>3, <3>4, <3>5 DEF Registers, Complete
    <3> QED BY <2>1, <2>5, <2>6, <2>7, <3>1, <3>5, <3>6 DEF RegistersNext, Flowing
  <2> QED BY <2>8, <2>9
<1>9. CASE OnReply
  <2>1. /\ UNCHANGED <<registered, written, calls, confirming>> /\ (Flowing' => Flowing)
        /\ queue' = queue \/ (rpcBuffer # <<>> /\ queue' = Append(queue, Head(rpcBuffer)))
    BY <1>9 DEF OnReply, StartsNext, Flowing
  <2>2. rpcBuffer # <<>> => Head(rpcBuffer) \in Ops \ Pubs
    BY <1>1, HeadTail DEF Ops
  <2> QED BY <1>2, <1>3, <2>1, <2>2
<1>10. CASE \/ \E op \in Ops : CallClosed(op)
            \/ Close \/ WriteFrame \/ FailWrite \/ Drain \/ StreamFinish \/ StreamFail
            \/ CloseImmediate \/ ReadChunk \/ OnConfirm \/ OnUnexpected
  BY <1>2, <1>10 DEF CallClosed, Close, StartClose, WriteFrame, FailWrite, Drain, StreamFinish,
     StreamFail, CloseImmediate, ReadChunk, OnConfirm, OnUnexpected, chan, stream, user, Flowing
<1>11. CASE OnCloseOk \/ OnChannelClose \/ SocketClosed
  <2>1. CASE Clear
    BY <1>2, <2>1 DEF Clear, StreamAfterClear, Flowing
  <2>2. CASE UNCHANGED <<chan, stream, user>>
    BY <1>2, <2>2 DEF chan, stream, user, Flowing
  <2> QED BY <1>11, <2>1, <2>2 DEF OnCloseOk, OnChannelClose, SocketClosed
<1>12. CASE BrokerStep \/ BrokerConfirm \/ Environment \/ UNCHANGED vars
  <2>1. UNCHANGED <<chan, stream, user>>
    BY <1>12 DEF BrokerStep, BrokerHead, BrokerServe, BrokerRefuse, BrokerKick, BrokerCloses,
       BrokerOnClose, BrokerDiscard, BrokerOnCloseOk, BrokerAbort, BrokerConfirm, Environment,
       Stall, Bypass, Lose, vars
  <2> QED BY <1>2, <2>1 DEF chan, stream, user, Flowing
<1> QED
  BY <1>4, <1>5, <1>6, <1>7, <1>8, <1>9, <1>10, <1>11, <1>12 DEF Next, UserCall, EventLoop

(* Of what follows a member of A none is in B.                             *)
Parted(s, A, B) == \A i, j \in DOMAIN s : i < j /\ s[i] \in A => s[j] \notin B

Plain == Pubs \ confirming
SelectFrames == {f \in ClientFrames : f.op \in Confirms}
PlainFrames == {f \in ClientFrames : f.op \in Plain}

(* The publishes outside of confirm mode reach the broker before the first *)
(* confirm.select: no call is published while confirmSelect() is pending.  *)
WireParted ==
  /\ Parted(OnTheWay, SelectFrames, PlainFrames)
  /\ Elems(OnTheWay) \cap SelectFrames # {} => Elems(queue) \cap Plain = {}
  /\ bConfirm => Elems(queue) \cap Plain = {} /\ Elems(OnTheWay) \cap PlainFrames = {}
Parting == Parted(queue, Confirms, Plain) /\ (Live => WireParted)

(* What the client knows of confirm mode, and what the broker does.        *)
Selecting ==
  /\ \A f \in Elems(c2s) \cup Elems(outbuf) : f.op \in Ops => promise[f.op] # "none"
  /\ mode = "confirm" \/ confirming # {} => bConfirm
  /\ Elems(served) \cap Confirms # {} => bConfirm
  /\ bConfirm => \E r \in Confirms : promise[r] # "none"
  /\ \A r \in Confirms : promise[r] = "resolved" => mode = "confirm"
  /\ active => \A r \in Rpcs : promise[r] # "rejected"

(* A sequence that grows at its end, or loses its first element.           *)
LEMMA PartedFacts ==
  ASSUME NEW S, NEW s \in Seq(S), NEW A, NEW B, Parted(s, A, B)
  PROVE  /\ \A x \in S : Elems(s) \cap A = {} \/ x \notin B => Parted(Append(s, x), A, B)
         /\ s # <<>> =>
              /\ Parted(Tail(s), A, B)
              /\ Head(s) \in A => Elems(Tail(s)) \cap B = {}
<1>1. ASSUME NEW x \in S, Elems(s) \cap A = {} \/ x \notin B PROVE Parted(Append(s, x), A, B)
  <2> DEFINE t == Append(s, x)
  <2>1. /\ DOMAIN s = 1..Len(s) /\ Len(s) \in Nat
        /\ DOMAIN t = 1..(Len(s) + 1) /\ t[Len(s) + 1] = x /\ \A i \in 1..Len(s) : t[i] = s[i]
    OBVIOUS
  <2> HIDE DEF t
  <2>2. ASSUME NEW i \in DOMAIN t, NEW j \in DOMAIN t, i < j, t[i] \in A PROVE t[j] \notin B
    <3>1. i \in DOMAIN s /\ t[i] = s[i] /\ s[i] \in Elems(s)
      BY <2>1, <2>2 DEF Elems
    <3>2. CASE j \in DOMAIN s
      BY <2>1, <2>2, <3>1, <3>2 DEF Parted
    <3>3. CASE j \notin DOMAIN s
      <4>1. t[j] = x
        BY <2>1, <3>3
      <4> QED BY <1>1, <2>2, <3>1, <4>1
    <3> QED BY <3>2, <3>3
  <2> QED BY <2>2 DEF Parted, t
<1>2. ASSUME s # <<>>
      PROVE  Parted(Tail(s), A, B) /\ (Head(s) \in A => Elems(Tail(s)) \cap B = {})
  <2> DEFINE t == Tail(s)
  <2>1. /\ DOMAIN s = 1..Len(s) /\ Len(s) \in Nat /\ Len(s) > 0 /\ Head(s) = s[1]
        /\ DOMAIN t = 1..(Len(s) - 1) /\ \A i \in 1..(Len(s) - 1) : t[i] = s[i + 1]
    BY <1>2
  <2> HIDE DEF t
  <2>2. \A i \in DOMAIN t : i + 1 \in DOMAIN s /\ t[i] = s[i + 1] /\ 1 < i + 1 /\ i \in Nat
    BY <2>1
  <2>3. Parted(t, A, B)
    <3> SUFFICES ASSUME NEW i \in DOMAIN t, NEW j \in DOMAIN t, i < j, t[i] \in A
                 PROVE  t[j] \notin B
      BY DEF Parted
    <3>1. i + 1 < j + 1
      BY <2>2
    <3> QED BY <2>2, <3>1 DEF Parted
  <2>4. Head(s) \in A => Elems(t) \cap B = {}
    <3>1. 1 \in DOMAIN s
      BY <2>1
    <3> QED BY <2>1, <2>2, <3>1 DEF Parted, Elems
  <2> QED BY <2>3, <2>4 DEF t
<1> QED BY <1>1, <1>2

(* A promise that has been given stays given.                              *)
LEMMA StaysGiven ==
  ASSUME TypeOK, [Next]_vars, NEW op \in Ops, promise[op] # "none"
  PROVE  promise'[op] # "none"
<1>1. promise \in [Ops -> {"none", "pending", "resolved", "rejected"}]
  BY DEF TypeOK, TypeUser
<1>2. ASSUME NEW S, NEW how \in {"pending", "resolved", "rejected"}, Settle(S, how)
      PROVE  promise'[op] # "none"
  BY <1>1, <1>2 DEF Settle
<1>3. CASE UserCall
  <2>1. UNCHANGED promise
          \/ \E o \in Ops, how \in {"pending", "resolved", "rejected"} : Settle({o}, how)
    BY <1>3 DEF UserCall, CallClosed, Invoke, InvokeNowait, BasicPublish, Close, Call, Ops, user
  <2> QED BY <1>2, <2>1
<1>4. CASE StreamFail \/ OnReply \/ OnCloseOk \/ OnChannelClose \/ (SocketClosed /\ ~cleared)
  BY <1>2, <1>4 DEF StreamFail, OnReply, OnCloseOk, OnChannelClose, SocketClosed, Clear
<1>5. CASE OnConfirm
  <2>1. \E S : Settle(S, "resolved") \/ Settle(S, "rejected")
    BY <1>5 DEF OnConfirm
  <2> QED BY <1>2, <2>1
<1>6. CASE AfterWrite
  <2>1. UNCHANGED promise \/ \E S : Settle(S, "resolved")
    BY <1>6 DEF AfterWrite
  <2> QED BY <1>2, <2>1
<1>7. CASE \/ WriteFrame \/ FinishWrite \/ FailWrite \/ Stall \/ Drain \/ Bypass
           \/ StreamFinish \/ CloseImmediate \/ ReadChunk \/ OnUnexpected \/ Lose
           \/ (SocketClosed /\ cleared) \/ UNCHANGED vars
  BY <1>7 DEF WriteFrame, FinishWrite, FailWrite, Stall, Drain, Bypass, StreamFinish,
     CloseImmediate, ReadChunk, OnUnexpected, Lose, SocketClosed, user, vars
<1>8. CASE BrokerStep \/ BrokerConfirm \/ BrokerKick
  BY <1>8 DEF BrokerStep, BrokerHead, BrokerServe, BrokerConfirm, BrokerRefuse, BrokerKick,
     BrokerCloses, BrokerOnClose, BrokerDiscard, BrokerOnCloseOk, BrokerAbort, user
<1> QED
  BY <1>3, <1>4, <1>5, <1>6, <1>7, <1>8 DEF Next, EventLoop, Environment

(* The frames on their way belong to calls that were made.                 *)
LEMMA FramesCalled ==
  ASSUME ChannelAssumption, TypeOK, QueuedCalled, [Next]_vars,
         \A f \in Elems(c2s) \cup Elems(outbuf) : f.op \in Ops => promise[f.op] # "none"
  PROVE  \A f \in Elems(c2s') \cup Elems(outbuf') : f.op \in Ops => promise'[f.op] # "none"
<1> DEFINE Was == Elems(c2s) \cup Elems(outbuf)
           Is == Elems(c2s') \cup Elems(outbuf')
           G == \A f \in Is : f.op \in Ops => promise'[f.op] # "none"
<1>1. c2s \in Seq(ClientFrames) /\ outbuf \in Seq(ClientFrames) /\ queue \in Seq(Ops)
      /\ None \notin Ops
  BY DEF TypeOK, TypeWire, TypeStream, ChannelAssumption
<1>2. \A f \in Was : f.op \in Ops => promise'[f.op] # "none"
  BY StaysGiven
<1>3. ASSUME Is \subseteq Was PROVE G
  BY <1>2, <1>3
<1>4. ASSUME NEW f \in ClientFrames, NEW isFull, Send(f, isFull),
             f.op \in Ops => promise[f.op] # "none"
      PROVE  G
  <2>1. Is \subseteq Was \cup {f}
    BY <1>4, SendElems
  <2>2. f.op \in Ops => promise'[f.op] # "none"
    BY <1>4, StaysGiven
  <2> QED BY <1>2, <2>1, <2>2
<1>5. CASE WriteFrame
  <2>1. queue # <<>> /\ sent \in Nat /\ Send(NextFrame(Head(queue), sent), full')
    BY <1>5 DEF WriteFrame, StreamBusy, TypeOK, TypeStream
  <2>2. Head(queue) \in Ops /\ Head(queue) \in Elems(queue)
    BY <1>1, <2>1, HeadTail, ElemsFacts
  <2>3. promise[Head(queue)] # "none" /\ NextFrame(Head(queue), sent).op = Head(queue)
    BY <2>2 DEF QueuedCalled, NextFrame, Frame
  <2> QED BY <1>4, <2>1, <2>2, <2>3, NextFrameType
<1>6. ASSUME NEW slot, ResumeClose(slot) PROVE G
  BY <1>1, <1>3, <1>4, <1>6, CloseFrames DEF ResumeClose, Frame
<1>7. CASE StreamFinish \/ StreamFail \/ CloseImmediate
  BY <1>3, <1>6, <1>7 DEF StreamFinish, StreamFail, CloseImmediate
<1>8. CASE OnChannelClose
  BY <1>1, <1>4, <1>8, CloseFrames DEF OnChannelClose, Frame
<1>9. CASE Drain \/ Bypass
  <2>1. c2s' = c2s \o outbuf /\ outbuf' = <<>>
    BY <1>9 DEF Drain, Bypass
  <2>2. Elems(c2s') = Elems(c2s) \cup Elems(outbuf) /\ Elems(outbuf') = {}
    BY <1>1, <2>1, ElemsConcat, ElemsParts
  <2> QED BY <1>3, <2>2
<1>10. CASE OnUnexpected \/ Lose \/ BrokerAbort
  <2>1. Elems(c2s') = {} /\ Elems(outbuf') = {}
    BY <1>10 DEF OnUnexpected, Lose, BrokerAbort, Elems
  <2> QED BY <1>3, <2>1
<1>11. CASE BrokerHead \/ BrokerServe \/ BrokerRefuse \/ BrokerOnClose \/ BrokerDiscard
            \/ BrokerOnCloseOk
  <2>1. c2s # <<>> /\ c2s' = Tail(c2s) /\ outbuf' = outbuf
    BY <1>11 DEF BrokerHead, BrokerServe, BrokerRefuse, BrokerOnClose, BrokerDiscard,
       BrokerOnCloseOk, BrokerReads
  <2>2. Elems(c2s') \subseteq Elems(c2s)
    BY <1>1, <2>1, ElemsParts
  <2> QED BY <1>3, <2>1, <2>2
<1>12. CASE UNCHANGED <<c2s, outbuf>>
  BY <1>3, <1>12
<1>13. CASE \/ UserCall \/ FinishWrite \/ FailWrite \/ AfterWrite \/ ReadChunk \/ OnReply
            \/ OnCloseOk \/ OnConfirm \/ SocketClosed \/ Stall \/ BrokerKick \/ BrokerConfirm
            \/ UNCHANGED vars
  BY <1>12, <1>13 DEF UserCall, CallClosed, Invoke, InvokeNowait, BasicPublish, Close,
     FinishWrite, FailWrite, AfterWrite, ReadChunk, OnReply, OnCloseOk, OnConfirm,
     SocketClosed, Stall, BrokerKick, BrokerConfirm, wire, vars
<1> QED
  BY <1>5, <1>7, <1>8, <1>9, <1>10, <1>11, <1>13
  DEF Next, EventLoop, BrokerStep, Environment

(* A request fails only with its channel, and the reply to confirm.select  *)
(* sets the mode.                                                          *)
LEMMA RepliesSelect ==
  ASSUME ChannelAssumption, TypeOK, [Next]_vars,
         \A r \in Confirms : promise[r] = "resolved" => mode = "confirm",
         active => \A r \in Rpcs : promise[r] # "rejected"
  PROVE  /\ \A r \in Confirms : promise'[r] = "resolved" => mode' = "confirm"
         /\ active' => \A r \in Rpcs : promise'[r] # "rejected"
<1> DEFINE G == /\ \A r \in Confirms : promise'[r] = "resolved" => mode' = "confirm"
                /\ active' => \A r \in Rpcs : promise'[r] # "rejected"
<1>1. /\ Rpcs \cap Pubs = {} /\ Rpcs \cap Nowaits = {}
      /\ Confirms \subseteq Rpcs /\ Rpcs \subseteq Ops
      /\ unconfirmed \subseteq Pubs /\ written \in Seq(Pubs)
      /\ promise \in [Ops -> {"none", "pending", "resolved", "rejected"}]
  BY DEF ChannelAssumption, Ops, TypeOK, TypeChannel, TypeStream, TypeUser
<1>2. ASSUME mode' = mode, active' => active, NEW S, S \cap Rpcs = {}, NEW how, Settle(S, how)
      PROVE  G
  BY <1>1, <1>2 DEF Settle
<1>3. ASSUME mode' = mode, active' => active, promise' = promise PROVE G
  BY <1>3
<1>4. ASSUME mode' = mode, NEW S, NEW how \in {"pending", "rejected"}, Settle(S, how),
             active' => active /\ how = "pending"
      PROVE  G
  BY <1>1, <1>4 DEF Settle
<1>5. CASE \E op \in Ops : CallClosed(op)
  BY <1>4, <1>5 DEF CallClosed, chan
<1>6. CASE \E r \in Rpcs : Invoke(r)
  BY <1>4, <1>6 DEF Invoke, Call
<1>7. CASE \E n \in Nowaits : InvokeNowait(n)
  <2>1. PICK n \in Nowaits : InvokeNowait(n)
    BY <1>7
  <2> QED BY <1>1, <1>2, <2>1 DEF InvokeNowait, Call, chan
<1>8. CASE \E p \in Pubs : BasicPublish(p)
  BY <1>4, <1>8 DEF BasicPublish, Call, chan
<1>9. CASE AfterWrite
  <2>1. Head(written) \in Pubs
    BY <1>1, <1>9, HeadTail DEF AfterWrite
  <2>2. mode' = mode /\ active' = active
        /\ (promise' = promise \/ Settle({Head(written)}, "resolved"))
    BY <1>9 DEF AfterWrite
  <2> QED BY <1>1, <1>2, <1>3, <2>1, <2>2
<1>10. CASE StreamFail
  BY <1>4, <1>10 DEF StreamFail
<1>11. CASE OnReply
  <2>1. Settle({rpc}, "resolved") /\ rpc \in Rpcs /\ active' = active
        /\ mode' = IF rpc \in Confirms THEN "confirm" ELSE mode
    BY <1>11 DEF OnReply, SameMethod
  <2> QED BY <1>1, <2>1 DEF Settle
<1>12. CASE OnCloseOk \/ OnChannelClose \/ (SocketClosed /\ ~cleared)
  BY <1>4, <1>12 DEF OnCloseOk, OnChannelClose, SocketClosed, Clear
<1>13. CASE OnConfirm
  <2>1. PICK how \in {"resolved", "rejected"} : Settle(Hit(Head(chunk)), how)
    BY <1>13 DEF OnConfirm
  <2>2. Hit(Head(chunk)) \cap Rpcs = {}
    BY <1>1 DEF Hit
  <2> QED BY <1>2, <1>13, <2>1, <2>2 DEF OnConfirm
<1>14. CASE \/ Close \/ WriteFrame \/ FinishWrite \/ FailWrite \/ Stall \/ Drain \/ Bypass
            \/ StreamFinish \/ CloseImmediate \/ ReadChunk \/ OnUnexpected \/ Lose
            \/ (SocketClosed /\ cleared) \/ UNCHANGED vars
  BY <1>3, <1>14 DEF Close, StartClose, WriteFrame, FinishWrite, FailWrite, Stall, Drain, Bypass,
     StreamFinish, CloseImmediate, ReadChunk, OnUnexpected, Lose, SocketClosed, chan, user, vars
<1>15. CASE BrokerStep \/ BrokerConfirm \/ BrokerKick
  BY <1>3, <1>15 DEF BrokerStep, BrokerHead, BrokerServe, BrokerConfirm, BrokerRefuse, BrokerKick,
     BrokerCloses, BrokerOnClose, BrokerDiscard, BrokerOnCloseOk, BrokerAbort, chan, user
<1> QED
  BY <1>5, <1>6, <1>7, <1>8, <1>9, <1>10, <1>11, <1>12, <1>13, <1>14, <1>15
  DEF Next, UserCall, EventLoop, Environment

(* The client is in confirm mode only when the broker is.                  *)
LEMMA SelectingStep ==
  ASSUME ChannelAssumption, TypeOK, RepliesServed, QueuedCalled, Selecting, [Next]_vars
  PROVE  Selecting'
<1>1. /\ \A f \in Elems(c2s') \cup Elems(outbuf') : f.op \in Ops => promise'[f.op] # "none"
      /\ \A r \in Confirms : promise'[r] = "resolved" => mode' = "confirm"
      /\ active' => \A r \in Rpcs : promise'[r] # "rejected"
  BY FramesCalled, RepliesSelect DEF Selecting
<1>2. Confirms \subseteq Rpcs /\ Confirms \subseteq Ops /\ served \in Seq(Ops)
      /\ c2s \in Seq(ClientFrames) /\ chunk \in Seq(BrokerFrames) /\ bConfirm \in BOOLEAN
      /\ mode \in {"normal", "confirm"}
  BY DEF ChannelAssumption, Ops, TypeOK, TypeBroker, TypeWire, TypeFlags, TypeChannel
<1>3. (\E r \in Confirms : promise[r] # "none") => \E r \in Confirms : promise'[r] # "none"
  BY <1>2, StaysGiven
<1>4. ASSUME UNCHANGED <<mode, confirming, bConfirm, served>> PROVE Selecting'
  BY <1>1, <1>3, <1>4 DEF Selecting
<1>5. CASE \E p \in Pubs : BasicPublish(p)
  <2>1. /\ UNCHANGED <<mode, bConfirm, served>>
        /\ confirming' = confirming \/ mode = "confirm"
    BY <1>5 DEF BasicPublish, chan, broker, ConfirmMode
  <2>2. mode' = "confirm" \/ confirming' # {} => bConfirm'
    BY <2>1 DEF Selecting
  <2> QED BY <1>1, <1>3, <2>1, <2>2 DEF Selecting
<1>6. CASE OnReply
  <2>1. /\ UNCHANGED <<confirming, bConfirm, served>> /\ chunk # <<>>
        /\ Head(chunk).kind = "reply" /\ SameMethod(rpc, Head(chunk).op)
        /\ mode' = IF rpc \in Confirms THEN "confirm" ELSE mode
    BY <1>6 DEF OnReply, Receive, broker
  <2>2. rpc \in Confirms => bConfirm
    <3>1. Head(chunk).op \in Elems(served)
      BY <1>2, <2>1, ElemsFacts DEF RepliesServed
    <3> QED BY <2>1, <3>1 DEF SameMethod, Selecting
  <2> QED BY <1>1, <1>3, <2>1, <2>2 DEF Selecting
<1>7. CASE BrokerServe
  <2> DEFINE f == Head(c2s)
  <2>1. /\ UNCHANGED <<mode, confirming>> /\ bConfirm' = (bConfirm \/ f.op \in Confirms)
        /\ c2s # <<>> /\ f.kind \in {"rpc", "body", "nowait"} /\ served' = Append(served, f.op)
    BY <1>7 DEF BrokerServe, BrokerReads, chan, user
  <2>2. f \in Elems(c2s) /\ f \in ClientFrames
    BY <1>2, <2>1, HeadTail, ElemsFacts
  <2>3. f.op \in Ops /\ promise[f.op] # "none"
    BY <2>1, <2>2, CallFrame DEF Selecting
  <2>4. Elems(served') = Elems(served) \cup {f.op} /\ promise'[f.op] # "none"
    <3>1. Elems(Append(served, f.op)) = Elems(served) \cup {f.op}
      BY <1>2, <2>3, ElemsFacts
    <3> QED BY <2>1, <2>3, <3>1, StaysGiven
  <2> HIDE DEF f
  <2> QED BY <1>1, <1>2, <1>3, <2>1, <2>4 DEF Selecting
<1>8. CASE \/ \E op \in Ops : CallClosed(op)
           \/ \E r \in Rpcs : Invoke(r)
           \/ \E n \in Nowaits : InvokeNowait(n)
           \/ Close \/ WriteFrame \/ FinishWrite \/ FailWrite \/ Stall \/ Drain \/ Bypass
           \/ StreamFinish \/ StreamFail \/ CloseImmediate \/ ReadChunk \/ AfterWrite
           \/ OnConfirm \/ OnUnexpected \/ Lose \/ UNCHANGED vars
  BY <1>4, <1>8 DEF CallClosed, Invoke, InvokeNowait, Close, WriteFrame, FinishWrite, FailWrite,
     Stall, Drain, Bypass, StreamFinish, StreamFail, CloseImmediate, ReadChunk, AfterWrite,
     OnConfirm, OnUnexpected, Lose, vars, chan, user, broker
<1>9. CASE OnCloseOk \/ OnChannelClose \/ SocketClosed
  BY <1>4, <1>9 DEF OnCloseOk, OnChannelClose, SocketClosed, Clear, chan, user, broker
<1>10. CASE \/ BrokerHead \/ BrokerConfirm \/ BrokerRefuse \/ BrokerKick \/ BrokerOnClose
            \/ BrokerDiscard \/ BrokerOnCloseOk \/ BrokerAbort
  BY <1>4, <1>10 DEF BrokerHead, BrokerConfirm, BrokerRefuse, BrokerKick, BrokerCloses,
     BrokerOnClose, BrokerDiscard, BrokerOnCloseOk, BrokerAbort, chan, user, broker
<1> QED
  BY <1>5, <1>6, <1>7, <1>8, <1>9, <1>10
  DEF Next, UserCall, EventLoop, BrokerStep, Environment

(* A publish outside of confirm mode is made when no confirm.select is.    *)
LEMMA NoneSelected ==
  ASSUME ChannelAssumption, TypeOK, "eager" \notin Allowed, Selecting, QueuedCalled,
         NEW p \in Pubs, BasicPublish(p), mode # "confirm"
  PROVE  /\ Elems(queue) \cap Confirms = {} /\ ~bConfirm
         /\ \A f \in Elems(c2s) \cup Elems(outbuf) : f.op \notin Confirms
<1>1. active /\ ~SelectPending
  BY DEF BasicPublish, Call
<1>2. promise \in [Ops -> {"none", "pending", "resolved", "rejected"}]
      /\ Confirms \subseteq Ops /\ Confirms \subseteq Rpcs
  BY DEF TypeOK, TypeUser, ChannelAssumption, Ops
<1>3. \A r \in Confirms : promise[r] = "none"
  BY <1>1, <1>2 DEF SelectPending, Selecting
<1> QED BY <1>2, <1>3 DEF Selecting, QueuedCalled

(* The writes that wait in the stream.                                     *)
LEMMA QueueParted ==
  ASSUME ChannelAssumption, TypeOK, "eager" \notin Allowed, Selecting, QueuedCalled,
         Parted(queue, Confirms, Plain), [Next]_vars
  PROVE  Parted(queue', Confirms, Plain')
<1> DEFINE G == Parted(queue', Confirms, Plain')
<1>1. /\ queue \in Seq(Ops) /\ rpcBuffer \in Seq(Rpcs) /\ Rpcs \cap Pubs = {}
      /\ Pubs \cap Nowaits = {} /\ Confirms \subseteq Rpcs /\ Rpcs \subseteq Ops
      /\ Pubs \subseteq Ops /\ Nowaits \subseteq Ops
  BY DEF TypeOK, TypeStream, TypeChannel, ChannelAssumption, Ops
<1>2. ASSUME queue' = queue, confirming' = confirming PROVE G
  BY <1>2 DEF Plain
<1>3. ASSUME NEW op \in Ops, queue' = Append(queue, op), confirming' = confirming,
             op \notin Pubs \/ Elems(queue) \cap Confirms = {}
      PROVE  G
  <2>1. Plain' = Plain /\ (op \notin Plain \/ Elems(queue) \cap Confirms = {})
    BY <1>3 DEF Plain
  <2>2. Parted(Append(queue, op), Confirms, Plain)
    BY <1>1, <2>1, PartedFacts
  <2> QED BY <1>3, <2>1, <2>2
<1>4. ASSUME NEW r \in Rpcs, Invoke(r) PROVE G
  <2>1. r \notin Pubs /\ r \in Ops
    BY <1>1
  <2> QED BY <1>2, <1>3, <1>4, <2>1 DEF Invoke
<1>5. ASSUME NEW n \in Nowaits, InvokeNowait(n) PROVE G
  BY <1>1, <1>3, <1>5 DEF InvokeNowait
<1>6. ASSUME NEW p \in Pubs, BasicPublish(p) PROVE G
  <2>1. queue' = Append(queue, p) /\ p \in Ops
    BY <1>1, <1>6 DEF BasicPublish
  <2>2. CASE mode # "confirm"
    BY <1>3, <1>6, <2>1, <2>2, NoneSelected DEF BasicPublish, ConfirmMode
  <2>3. CASE mode = "confirm"
    <3>1. Plain' \subseteq Plain /\ p \notin Plain'
      BY <1>6, <2>3 DEF BasicPublish, ConfirmMode, Plain
    <3>2. Parted(queue, Confirms, Plain')
      BY <3>1 DEF Parted
    <3>3. Parted(Append(queue, p), Confirms, Plain')
      BY <1>1, <2>1, <3>1, <3>2, PartedFacts
    <3> QED BY <2>1, <3>3
  <2> QED BY <2>2, <2>3
<1>7. CASE FinishWrite
  <2>1. queue # <<>> /\ queue' = Tail(queue) /\ Plain' = Plain
    BY <1>7 DEF FinishWrite, StreamBusy, user, Plain
  <2>2. Parted(Tail(queue), Confirms, Plain)
    BY <1>1, <2>1, PartedFacts
  <2> QED BY <2>1, <2>2
<1>8. CASE StreamFail
  BY <1>8 DEF StreamFail, Parted
<1>9. CASE OnReply
  <2>1. queue' = queue \/ (rpcBuffer # <<>> /\ queue' = Append(queue, Head(rpcBuffer)))
    BY <1>9 DEF OnReply, StartsNext
  <2>2. rpcBuffer # <<>> => Head(rpcBuffer) \in Ops /\ Head(rpcBuffer) \notin Pubs
    BY <1>1, HeadTail
  <2> QED BY <1>2, <1>3, <1>9, <2>1, <2>2 DEF OnReply
<1>10. CASE \/ \E op \in Ops : CallClosed(op)
            \/ Close \/ WriteFrame \/ FailWrite \/ Drain \/ StreamFinish
            \/ CloseImmediate \/ ReadChunk \/ AfterWrite \/ OnConfirm \/ OnUnexpected
  BY <1>2, <1>10 DEF CallClosed, Close, WriteFrame, FailWrite, Drain, StreamFinish,
     CloseImmediate, ReadChunk, AfterWrite, OnConfirm, OnUnexpected, stream, user
<1>11. CASE OnCloseOk \/ OnChannelClose \/ SocketClosed
  BY <1>2, <1>11 DEF OnCloseOk, OnChannelClose, SocketClosed, Clear, stream, user
<1>12. CASE BrokerStep \/ BrokerConfirm \/ Environment \/ UNCHANGED vars
  BY <1>2, <1>12 DEF BrokerStep, BrokerHead, BrokerServe, BrokerRefuse, BrokerKick, BrokerCloses,
     BrokerOnClose, BrokerDiscard, BrokerOnCloseOk, BrokerAbort, BrokerConfirm, Environment,
     Stall, Bypass, Lose, vars, stream, user
<1> QED
  BY <1>4, <1>5, <1>6, <1>7, <1>8, <1>9, <1>10, <1>11, <1>12 DEF Next, UserCall, EventLoop

(* The frames of a channel that the broker has open, and what is behind    *)
(* them.                                                                   *)
LEMMA PartingStep ==
  ASSUME ChannelAssumption, TypeOK, Shape, Tied, Unended, "eager" \notin Allowed, Selecting,
         QueuedCalled, Parting, [Next]_vars
  PROVE  Parting'
<1>0. Parted(queue', Confirms, Plain')
  BY QueueParted DEF Parting
<1> SUFFICES ASSUME Live' PROVE WireParted'
  BY <1>0 DEF Parting
<1> DEFINE A == SelectFrames
           B == PlainFrames
<1>1. /\ queue \in Seq(Ops) /\ rpcBuffer \in Seq(Rpcs) /\ Rpcs \cap Pubs = {}
      /\ Pubs \cap Nowaits = {} /\ Confirms \subseteq Rpcs /\ Rpcs \subseteq Ops
      /\ Pubs \subseteq Ops /\ Nowaits \subseteq Ops /\ Confirms \cap Pubs = {} /\ None \notin Ops
      /\ OnTheWay \in Seq(ClientFrames) /\ TypeWire /\ full \in BOOLEAN /\ sent \in 0..2
      /\ c2s \in Seq(ClientFrames) /\ outbuf \in Seq(ClientFrames) /\ bConfirm \in BOOLEAN
  BY WireType DEF TypeOK, TypeStream, TypeChannel, TypeWire, TypeFlags, ChannelAssumption, Ops
<1>2. Live /\ WireParted /\ Parted(queue, Confirms, Plain) /\ socket = "up"
  BY StaysLive DEF Parting, Live
<1>3. Elems(OnTheWay) = Elems(c2s) \cup Elems(outbuf)
  BY <1>1, ElemsConcat DEF OnTheWay
<1>4. ASSUME confirming' = confirming PROVE Plain' = Plain /\ PlainFrames' = B /\ SelectFrames' = A
  BY <1>4 DEF Plain, PlainFrames, SelectFrames
<1>5. ASSUME confirming' = confirming, bConfirm' = bConfirm, Elems(queue') \subseteq Elems(queue),
             OnTheWay' = OnTheWay
      PROVE  WireParted'
  BY <1>2, <1>4, <1>5 DEF WireParted
<1>6. ASSUME NEW op \in Ops, queue' = Append(queue, op), op \notin Pubs,
             confirming' = confirming, bConfirm' = bConfirm, OnTheWay' = OnTheWay
      PROVE  WireParted'
  <2>1. Elems(Append(queue, op)) = Elems(queue) \cup {op} /\ op \notin Plain
    BY <1>1, <1>6, ElemsFacts DEF Plain
  <2>2. Elems(queue') \cap Plain = Elems(queue) \cap Plain
    BY <1>6, <2>1
  <2> QED BY <1>2, <1>4, <1>6, <2>2 DEF WireParted
<1>7. ASSUME NEW f \in ClientFrames, OnTheWay' = Append(OnTheWay, f),
             UNCHANGED <<confirming, bConfirm>>, Elems(queue') \subseteq Elems(queue),
             f \in A => Elems(queue) \cap Plain = {}, f \in B => f.op \in Elems(queue) \cap Plain
      PROVE  WireParted'
  <2>1. Elems(Append(OnTheWay, f)) = Elems(OnTheWay) \cup {f}
    BY <1>1, ElemsFacts
  <2>2. f \notin B \/ Elems(OnTheWay) \cap A = {}
    BY <1>2, <1>7 DEF WireParted
  <2>3. Parted(OnTheWay, A, B)
    BY <1>2 DEF WireParted
  <2> HIDE DEF A, B
  <2>4. Parted(OnTheWay', A, B) /\ Elems(OnTheWay') = Elems(OnTheWay) \cup {f}
    BY <1>1, <1>7, <2>1, <2>2, <2>3, PartedFacts
  <2>5. Elems(OnTheWay') \cap A # {} => Elems(queue') \cap Plain = {}
    BY <1>2, <1>7, <2>4 DEF WireParted, A
  <2>6. bConfirm => Elems(queue') \cap Plain = {} /\ Elems(OnTheWay') \cap B = {}
    BY <1>2, <1>7, <2>4 DEF WireParted, B
  <2> QED BY <1>4, <1>7, <2>4, <2>5, <2>6 DEF WireParted
<1>8. ASSUME c2s # <<>>, c2s' = Tail(c2s), outbuf' = outbuf, UNCHANGED <<queue, confirming>>,
             bConfirm' = (bConfirm \/ Head(c2s) \in A) \/ bConfirm' = bConfirm
      PROVE  WireParted'
  <2>1. /\ OnTheWay # <<>> /\ OnTheWay' = Tail(OnTheWay) /\ Head(OnTheWay) = Head(c2s)
    BY <1>1, <1>8, ReadOnTheWay
  <2>2. Elems(OnTheWay) = {Head(OnTheWay)} \cup Elems(OnTheWay')
    BY <1>1, <2>1, ElemsParts
  <2>3. Parted(OnTheWay, A, B)
    BY <1>2 DEF WireParted
  <2> HIDE DEF A, B
  <2>4. Parted(OnTheWay', A, B) /\ (Head(c2s) \in A => Elems(OnTheWay') \cap B = {})
    BY <1>1, <2>1, <2>3, PartedFacts
  <2>5. Elems(OnTheWay') \cap A # {} => Elems(queue) \cap Plain = {}
    BY <1>2, <2>2 DEF WireParted, A
  <2>6. bConfirm' => Elems(queue) \cap Plain = {} /\ Elems(OnTheWay') \cap B = {}
    <3>1. CASE bConfirm
      BY <1>2, <2>2, <3>1 DEF WireParted, B
    <3>2. CASE Head(c2s) \in A
      BY <1>2, <2>1, <2>2, <2>4, <3>2 DEF WireParted, A
    <3> QED BY <1>8, <3>1, <3>2
  <2> QED BY <1>4, <1>8, <2>4, <2>5, <2>6 DEF WireParted, A, B
<1>9. ASSUME NEW slot, ResumeClose(slot), UNCHANGED <<confirming, bConfirm>>,
             Elems(queue') \subseteq Elems(queue)
      PROVE  WireParted'
  <2>1. CASE UNCHANGED <<outbuf, c2s>>
    BY <1>5, <1>9, <2>1 DEF OnTheWay
  <2>2. CASE Send(Frame("close", None), full)
    <3> DEFINE f == Frame("close", None)
    <3>1. f \in ClientFrames /\ f \notin A /\ f \notin B
      BY <1>1, CloseFrames DEF Frame, SelectFrames, PlainFrames, Plain
    <3>2. OnTheWay' = Append(OnTheWay, f)
      BY <1>1, <1>2, <2>2, <3>1, SendOnTheWay DEF Tied
    <3> HIDE DEF f
    <3> QED BY <1>7, <1>9, <3>1, <3>2
  <2> QED BY <1>9, <2>1, <2>2 DEF ResumeClose
<1>10. ASSUME UNCHANGED wire PROVE OnTheWay' = OnTheWay
  BY <1>10 DEF wire, OnTheWay
<1>11. ASSUME NEW r \in Rpcs, Invoke(r) PROVE WireParted'
  <2>1. r \notin Pubs /\ r \in Ops /\ UNCHANGED <<confirming, bConfirm, OnTheWay>>
    BY <1>1, <1>10, <1>11 DEF Invoke, broker
  <2> QED BY <1>5, <1>6, <1>11, <2>1 DEF Invoke
<1>12. ASSUME NEW n \in Nowaits, InvokeNowait(n) PROVE WireParted'
  BY <1>1, <1>6, <1>10, <1>12 DEF InvokeNowait, broker
<1>13. ASSUME NEW p \in Pubs, BasicPublish(p) PROVE WireParted'
  <2>1. /\ queue' = Append(queue, p) /\ p \in Ops /\ OnTheWay' = OnTheWay /\ bConfirm' = bConfirm
        /\ confirming' = IF ConfirmMode THEN confirming \cup {p} ELSE confirming
    BY <1>1, <1>10, <1>13 DEF BasicPublish, broker
  <2>2. Elems(queue') = Elems(queue) \cup {p}
    BY <1>1, <2>1, ElemsFacts
  <2>3. SelectFrames' = A
    BY DEF SelectFrames
  <2>4. CASE mode # "confirm"
    <3>1. ~bConfirm /\ \A f \in Elems(OnTheWay) : f.op \notin Confirms
      BY <1>3, <1>13, <2>4, NoneSelected
    <3>2. PlainFrames' = B
      BY <2>1, <2>4 DEF ConfirmMode, PlainFrames, Plain
    <3>3. Elems(OnTheWay) \cap SelectFrames = {}
      BY <3>1 DEF SelectFrames
    <3> QED BY <1>2, <2>1, <2>3, <3>1, <3>2, <3>3 DEF WireParted
  <2>5. CASE mode = "confirm"
    <3>1. Plain' \subseteq Plain /\ p \notin Plain' /\ PlainFrames' \subseteq B
      BY <2>1, <2>5 DEF ConfirmMode, PlainFrames, Plain
    <3>2. Parted(OnTheWay, A, PlainFrames')
      BY <1>2, <3>1 DEF WireParted, Parted
    <3> QED BY <1>2, <2>1, <2>2, <2>3, <3>1, <3>2 DEF WireParted
  <2> QED BY <2>4, <2>5
<1>14. CASE WriteFrame
  <2> DEFINE f == NextFrame(Head(queue), sent)
  <2>1. /\ StreamBusy /\ sent < FrameCount(Head(queue)) /\ Send(f, full')
        /\ UNCHANGED <<queue, confirming, bConfirm>> /\ full' \in BOOLEAN
    BY <1>1, <1>14 DEF WriteFrame, broker, user
  <2>2. queue # <<>> /\ outbuf = <<>>
    BY <2>1 DEF StreamBusy, Tied
  <2>3. Head(queue) \in Ops /\ Elems(queue) = {Head(queue)} \cup Elems(Tail(queue))
    BY <1>1, <2>2, HeadTail, ElemsParts
  <2>4. f \in ClientFrames /\ f.op = Head(queue)
    BY <2>3 DEF NextFrame, Frame, ClientFrames
  <2> HIDE DEF f
  <2>5. OnTheWay' = Append(OnTheWay, f)
    BY <1>1, <1>2, <2>1, <2>2, <2>4, SendOnTheWay
  <2>6. f \in A => Elems(queue) \cap Plain = {}
    <3>1. Head(queue) \in Confirms => Elems(Tail(queue)) \cap Plain = {}
      BY <1>1, <1>2, <2>2, PartedFacts
    <3> QED BY <1>1, <2>3, <2>4, <3>1 DEF SelectFrames, Plain
  <2>7. f \in B => f.op \in Elems(queue) \cap Plain
    BY <2>3, <2>4 DEF PlainFrames
  <2> QED BY <1>7, <2>1, <2>4, <2>5, <2>6, <2>7
<1>15. CASE FinishWrite
  <2>1. queue # <<>> /\ queue' = Tail(queue) /\ UNCHANGED <<confirming, bConfirm, OnTheWay>>
    BY <1>10, <1>15 DEF FinishWrite, StreamBusy, user, broker
  <2>2. Elems(queue') \subseteq Elems(queue)
    BY <1>1, <2>1, ElemsFacts
  <2> QED BY <1>5, <2>1, <2>2
<1>16. CASE StreamFail
  <2>1. UNCHANGED <<confirming, bConfirm>> /\ Elems(queue') \subseteq Elems(queue)
    BY <1>16 DEF StreamFail, broker, Elems
  <2> QED BY <1>5, <1>9, <1>16, <2>1 DEF StreamFail, OnTheWay
<1>17. CASE StreamFinish \/ CloseImmediate
  BY <1>9, <1>17 DEF StreamFinish, CloseImmediate, stream, user, broker
<1>18. CASE OnReply
  <2>1. /\ queue' = queue \/ (rpcBuffer # <<>> /\ queue' = Append(queue, Head(rpcBuffer)))
        /\ UNCHANGED <<confirming, bConfirm, OnTheWay>>
    BY <1>18 DEF OnReply, StartsNext, broker, OnTheWay
  <2>2. rpcBuffer # <<>> => Head(rpcBuffer) \in Ops /\ Head(rpcBuffer) \notin Pubs
    BY <1>1, HeadTail
  <2> QED BY <1>5, <1>6, <2>1, <2>2
<1>19. CASE Drain \/ Bypass
  <2>1. OnTheWay' = OnTheWay
    BY <1>1, <1>19, FlushOnTheWay DEF Drain, Bypass
  <2> QED BY <1>5, <1>19, <2>1 DEF Drain, Bypass, stream, user, broker
<1>20. CASE BrokerHead
  BY <1>8, <1>20 DEF BrokerHead, BrokerReads, stream, user
<1>21. CASE BrokerServe
  <2>1. /\ c2s # <<>> /\ c2s' = Tail(c2s) /\ outbuf' = outbuf /\ UNCHANGED <<queue, confirming>>
        /\ bConfirm' = (bConfirm \/ Head(c2s).op \in Confirms)
    BY <1>21 DEF BrokerServe, BrokerReads, stream, user
  <2>2. Head(c2s).op \in Confirms <=> Head(c2s) \in A
    BY <1>1, <2>1, HeadTail DEF SelectFrames
  <2> QED BY <1>8, <2>1, <2>2
<1>22. CASE \/ BrokerRefuse \/ BrokerOnClose \/ BrokerDiscard \/ BrokerOnCloseOk \/ BrokerKick
            \/ BrokerAbort \/ OnUnexpected \/ Lose \/ SocketClosed
  BY <1>2, <1>22 DEF BrokerRefuse, BrokerOnClose, BrokerDiscard, BrokerOnCloseOk, BrokerKick,
     BrokerCloses, BrokerAbort, OnUnexpected, Lose, SocketClosed, Live
<1>23. ~OnChannelClose /\ ~OnCloseOk
  <2>1. chunk # <<>> => Head(chunk).kind \notin {"close", "closeOk"}
    BY <1>2, TailFacts DEF Unended, TypeOK, TypeWire
  <2> QED BY <2>1 DEF OnChannelClose, OnCloseOk, Receive
<1>24. CASE \/ \E op \in Ops : CallClosed(op)
            \/ Close \/ FailWrite \/ ReadChunk \/ AfterWrite \/ OnConfirm \/ Stall \/ BrokerConfirm
            \/ UNCHANGED vars
  BY <1>5, <1>24 DEF CallClosed, Close, FailWrite, ReadChunk, AfterWrite, OnConfirm, Stall,
     BrokerConfirm, vars, stream, user, broker, wire, OnTheWay
<1> QED
  BY <1>11, <1>12, <1>13, <1>14, <1>15, <1>16, <1>17, <1>18, <1>19, <1>20, <1>21, <1>22, <1>23,
     <1>24
  DEF Next, UserCall, EventLoop, BrokerStep, Environment

(* The broker counts the publishes in confirm mode in the order of the     *)
(* calls.                                                                  *)
Publishes ==
  /\ Elems(published) = Elems(served) \cap confirming
  /\ Follow(published, Earlier)

(* It leaves none out.                                                     *)
LEMMA PublishedComplete ==
  ASSUME ChannelAssumption, TypeOK, InCallOrder, Publishes
  PROVE  Complete(Elems(published), Earlier) /\ Elems(published) \subseteq confirming
<1>1. confirming \subseteq Pubs /\ Rpcs \cap Pubs = {}
  BY DEF ChannelAssumption, TypeOK, TypeUser
<1>2. Elems(published) \subseteq confirming /\ Elems(published) \subseteq Elems(served)
  BY DEF Publishes
<1>3. ASSUME NEW c \in Earlier, c[1] \in confirming, c[2] \in Elems(published)
      PROVE  c[1] \in Elems(published)
  <2>1. SameLine(c[1], c[2])
    BY <1>1, <1>2, <1>3 DEF SameLine
  <2>2. c[1] \in Elems(served)
    BY <1>2, <1>3, <2>1 DEF InCallOrder, NoneSkipped
  <2> QED BY <1>3, <2>2 DEF Publishes
<1> QED BY <1>2, <1>3 DEF Complete

(* What the broker reads next, when it is the last frame of a publish.     *)
LEMMA NextPublish ==
  ASSUME ChannelAssumption, TypeOK, Tied, OrderInv, FramesGenuine, Selecting, Parting, BrokerServe
  PROVE  LET op == Head(c2s).op
         IN  /\ op \in Ops /\ Head(c2s) \in Elems(c2s)
             /\ op \in Pubs <=> Head(c2s).kind = "body"
             /\ op \in Pubs /\ bConfirm => op \in confirming
             /\ Before(Elems(served), {op}, Earlier)
<1> DEFINE f == Head(c2s)
           op == f.op
<1>1. /\ bState = "open" /\ socket = "up" /\ c2s # <<>> /\ f.kind \in {"rpc", "body", "nowait"}
      /\ c2s' = Tail(c2s) /\ outbuf' = outbuf
  BY DEF BrokerServe, BrokerReads
<1>2. /\ c2s \in Seq(ClientFrames) /\ outbuf \in Seq(ClientFrames) /\ TypeWire
      /\ OnTheWay \in Seq(ClientFrames)
      /\ Rpcs \cap Pubs = {} /\ Pubs \cap Nowaits = {} /\ Confirms \subseteq Rpcs
  BY WireType DEF TypeOK, TypeWire, ChannelAssumption
<1>3. f \in Elems(c2s) /\ f \in ClientFrames
  BY <1>1, <1>2, HeadTail, ElemsFacts
<1>4. op \in Ops /\ Genuine(f)
  BY <1>1, <1>3, CallFrame DEF FramesGenuine
<1>5. op \in Pubs <=> f.kind = "body"
  BY <1>1, <1>2, <1>4 DEF Genuine
<1>6. /\ OnTheWay # <<>> /\ Head(OnTheWay) = f
      /\ Elems(OnTheWay) = Elems(c2s) \cup Elems(outbuf)
  BY <1>1, <1>2, ReadOnTheWay, ElemsConcat DEF OnTheWay
<1>7. Passed /\ WireParted
  BY <1>1 DEF Live, OrderInv, Parting
<1>8. op \in Pubs /\ bConfirm => op \in confirming
  <2>1. bConfirm => f \notin PlainFrames
    BY <1>3, <1>6, <1>7 DEF WireParted
  <2> QED BY <1>3, <2>1 DEF PlainFrames, Plain
<1>9. Before(Elems(served), {op}, Earlier)
  <2>1. op \in Finals(OnTheWay)
    BY <1>1, <1>2, <1>6, FramesTail DEF Final
  <2>2. Ahead(Elems(served), {op}, Earlier)
    BY <1>7, <2>1 DEF Passed, Ahead
  <2> QED BY <1>2, <2>2 DEF Ahead, Before, SameLine
<1> QED BY <1>3, <1>4, <1>5, <1>8, <1>9

(* Every step keeps the order in which the broker counts.                  *)
LEMMA PublishesStep ==
  ASSUME ChannelAssumption, TypeOK, Tied, OrderInv, FramesGenuine, Registers, Selecting, Parting,
         Publishes, [Next]_vars
  PROVE  Publishes'
<1>1. /\ calls \in Seq(Ops) /\ published \in Seq(Ops) /\ served \in Seq(Ops) /\ CallsOnce
      /\ Elems(served) \subseteq Elems(calls) /\ confirming \subseteq Pubs /\ bConfirm \in BOOLEAN
      /\ Pubs \subseteq Ops
  BY DEF TypeOK, TypeUser, TypeBroker, TypeFlags, OrderInv, InCallOrder, Ops
<1>2. ASSUME UNCHANGED <<calls, confirming, served, published>> PROVE Publishes'
  BY <1>2 DEF Publishes, Earlier
<1>3. ASSUME NEW op \in Ops, promise[op] = "none", calls' = Append(calls, op),
             confirming' = confirming \/ confirming' = confirming \cup {op},
             UNCHANGED <<served, published>>
      PROVE  Publishes'
  <2>1. Earlier \subseteq Earlier' /\ op \notin Elems(calls)
    BY <1>1, <1>3, EarlierAppend DEF CallsOnce
  <2>2. Follow(published, Earlier')
    BY <2>1, FollowGrows DEF Publishes
  <2>3. Elems(served) \cap confirming' = Elems(served) \cap confirming
    BY <1>1, <1>3, <2>1
  <2> QED BY <1>3, <2>2, <2>3 DEF Publishes
<1>4. CASE \/ \E r \in Rpcs : Invoke(r)
           \/ \E n \in Nowaits : InvokeNowait(n)
  <2>1. PICK op \in Ops : /\ promise[op] = "none" /\ calls' = Append(calls, op)
                          /\ UNCHANGED <<confirming, served, published>>
    BY <1>4 DEF Invoke, InvokeNowait, Call, broker, Ops
  <2> QED BY <1>3, <2>1
<1>5. CASE \E p \in Pubs : BasicPublish(p)
  <2>1. PICK p \in Pubs : BasicPublish(p)
    BY <1>5
  <2>2. /\ promise[p] = "none" /\ calls' = Append(calls, p) /\ UNCHANGED <<served, published>>
        /\ confirming' = confirming \/ confirming' = confirming \cup {p}
    BY <2>1 DEF BasicPublish, Call, broker
  <2> QED BY <1>1, <1>3, <2>2
<1>6. CASE BrokerServe
  <2> DEFINE op == Head(c2s).op
  <2>1. /\ op \in Ops /\ (op \in Pubs <=> Head(c2s).kind = "body")
        /\ op \in Pubs /\ bConfirm => op \in confirming
        /\ Before(Elems(served), {op}, Earlier)
    BY <1>6, NextPublish
  <2>2. /\ served' = Append(served, op) /\ UNCHANGED <<calls, confirming>>
        /\ published' = IF op \in Pubs /\ bConfirm THEN Append(published, op) ELSE published
    BY <1>6, <2>1 DEF BrokerServe, user
  <2> HIDE DEF op
  <2>3. /\ Elems(Append(served, op)) = Elems(served) \cup {op}
        /\ Elems(Append(published, op)) = Elems(published) \cup {op}
    BY <1>1, <2>1, ElemsFacts
  <2>4. Earlier' = Earlier
    BY <2>2 DEF Earlier
  <2>5. CASE op \in Pubs /\ bConfirm
    <3>1. Before(Elems(published), {op}, Earlier)
      BY <2>1 DEF Before, Publishes
    <3>2. Follow(Append(published, op), Earlier)
      BY <1>1, <2>1, <3>1, FollowAppend DEF Publishes
    <3>3. Elems(published') = Elems(served') \cap confirming
      BY <2>1, <2>2, <2>3, <2>5 DEF Publishes
    <3> QED BY <2>2, <2>4, <2>5, <3>2, <3>3 DEF Publishes
  <2>6. CASE ~(op \in Pubs /\ bConfirm)
    <3>1. op \notin confirming
      BY <1>1, <2>6 DEF Selecting
    <3>2. Elems(published') = Elems(served') \cap confirming
      BY <2>2, <2>3, <2>6, <3>1 DEF Publishes
    <3> QED BY <2>2, <2>4, <2>6, <3>2 DEF Publishes
  <2> QED BY <2>5, <2>6
<1>7. CASE \/ \E op \in Ops : CallClosed(op)
           \/ Close \/ WriteFrame \/ FinishWrite \/ FailWrite \/ Stall \/ Drain \/ Bypass
           \/ StreamFinish \/ StreamFail \/ CloseImmediate \/ ReadChunk \/ AfterWrite \/ OnReply
           \/ OnConfirm \/ OnUnexpected \/ Lose \/ UNCHANGED vars
  BY <1>2, <1>7 DEF CallClosed, Close, WriteFrame, FinishWrite, FailWrite, Stall, Drain, Bypass,
     StreamFinish, StreamFail, CloseImmediate, ReadChunk, AfterWrite, OnReply, OnConfirm,
     OnUnexpected, Lose, vars, user, broker
<1>8. CASE OnCloseOk \/ OnChannelClose \/ SocketClosed
  BY <1>2, <1>8 DEF OnCloseOk, OnChannelClose, SocketClosed, Clear, user, broker
<1>9. CASE \/ BrokerHead \/ BrokerConfirm \/ BrokerRefuse \/ BrokerKick \/ BrokerOnClose
           \/ BrokerDiscard \/ BrokerOnCloseOk \/ BrokerAbort
  BY <1>2, <1>9 DEF BrokerHead, BrokerConfirm, BrokerRefuse, BrokerKick, BrokerCloses,
     BrokerOnClose, BrokerDiscard, BrokerOnCloseOk, BrokerAbort, user, broker
<1> QED
  BY <1>4, <1>5, <1>6, <1>7, <1>8, <1>9 DEF Next, UserCall, EventLoop, BrokerStep, Environment

(* What changes the two counts.                                            *)
LEMMA CountsMove ==
  ASSUME [Next]_vars
  PROVE  UNCHANGED <<registered, published>> \/ AfterWrite \/ BrokerServe
<1>1. CASE UserCall \/ UNCHANGED vars
  BY <1>1 DEF UserCall, CallClosed, Invoke, InvokeNowait, BasicPublish, Close, vars, chan, broker
<1>2. CASE \/ WriteFrame \/ FinishWrite \/ FailWrite \/ Environment \/ Drain
           \/ StreamFinish \/ StreamFail \/ CloseImmediate \/ ReadChunk \/ OnReply
           \/ OnConfirm \/ OnUnexpected
  BY <1>2 DEF WriteFrame, FinishWrite, FailWrite, Environment, Stall, Drain, Bypass, Lose,
     StreamFinish, StreamFail, CloseImmediate, ReadChunk, OnReply, OnConfirm, OnUnexpected,
     BrokerKick, BrokerCloses, chan, broker
<1>3. CASE OnCloseOk \/ OnChannelClose \/ SocketClosed
  BY <1>3 DEF OnCloseOk, OnChannelClose, SocketClosed, Clear, chan, broker
<1>4. CASE \/ BrokerHead \/ BrokerConfirm \/ BrokerRefuse \/ BrokerOnClose \/ BrokerDiscard
           \/ BrokerOnCloseOk \/ BrokerAbort
  BY <1>4 DEF BrokerHead, BrokerConfirm, BrokerRefuse, BrokerCloses, BrokerOnClose, BrokerDiscard,
     BrokerOnCloseOk, BrokerAbort, chan, broker
<1> QED BY <1>1, <1>2, <1>3, <1>4 DEF Next, EventLoop, BrokerStep

(* The two counts agree, whichever of them is ahead.                       *)
LEMMA TagsAgreeStep ==
  ASSUME ChannelAssumption, TypeOK, CallsOnce, InCallOrder, Registers, Publishes, TagsAgree,
         [Next]_vars, Registers', Publishes', InCallOrder', TypeOK'
  PROVE  TagsAgree'
<1>1. /\ calls \in Seq(Ops) /\ published \in Seq(Ops) /\ registered \in Seq(Pubs)
      /\ registered \in Seq(Ops) /\ written \in Seq(Pubs) /\ confirming \subseteq Pubs
      /\ confirming \subseteq Elems(calls)
  BY DEF TypeOK, TypeUser, TypeBroker, TypeChannel, TypeStream, Registers, Ops
<1>2. /\ Complete(Elems(published), Earlier) /\ Elems(published) \subseteq confirming
      /\ Follow(published, Earlier) /\ Follow(registered, Earlier)
      /\ Complete(Elems(registered), Earlier) /\ Elems(registered) \subseteq confirming
  BY PublishedComplete DEF Publishes, Registers
<1>3. \A i \in DOMAIN registered \cap DOMAIN published : registered[i] = published[i]
  BY DEF TagsAgree
<1>4. CASE UNCHANGED <<registered, published>>
  BY <1>4 DEF TagsAgree
<1>5. CASE AfterWrite
  <2> DEFINE x == Head(written)
  <2>1. /\ UNCHANGED <<calls, confirming, published>> /\ written # <<>>
        /\ registered' = IF x \in confirming THEN Append(registered, x) ELSE registered
    BY <1>5 DEF AfterWrite, broker
  <2>2. CASE x \notin confirming
    BY <1>4, <2>1, <2>2
  <2>3. CASE x \in confirming
    <3>1. Earlier' = Earlier /\ registered' = Append(registered, x)
      BY <2>1, <2>3 DEF Earlier
    <3>2. Elems(Append(registered, x)) = Elems(registered) \cup {x}
      BY <1>1, <2>3, ElemsFacts
    <3>3. /\ Follow(Append(registered, x), Earlier)
          /\ Complete(Elems(registered) \cup {x}, Earlier)
      BY <2>1, <3>1, <3>2 DEF Registers, Complete
    <3> HIDE DEF x
    <3>4. \A i \in DOMAIN Append(registered, x) \cap DOMAIN published :
            Append(registered, x)[i] = published[i]
      BY <1>1, <1>2, <1>3, <2>3, <3>3, CountsAgree
    <3> QED BY <2>1, <3>1, <3>4 DEF TagsAgree
  <2> QED BY <2>2, <2>3
<1>6. CASE BrokerServe
  <2> DEFINE x == Head(c2s).op
  <2>1. /\ UNCHANGED <<calls, confirming, registered>>
        /\ published' = published \/ published' = Append(published, x)
    BY <1>6 DEF BrokerServe, user, chan
  <2>2. CASE published' = published
    BY <1>4, <2>1, <2>2
  <2>3. CASE published' = Append(published, x)
    <3>0. x \in Ops
      <4>1. /\ c2s # <<>> /\ c2s \in Seq(ClientFrames)
            /\ Head(c2s).kind \in {"rpc", "body", "nowait"}
        BY <1>6 DEF BrokerServe, BrokerReads, TypeOK, TypeWire
      <4> QED BY <4>1, HeadTail, CallFrame
    <3> HIDE DEF x
    <3>1. Earlier' = Earlier
      BY <2>1 DEF Earlier
    <3>2. Elems(published') = Elems(published) \cup {x}
      BY <1>1, <2>3, <3>0, ElemsFacts
    <3>3. (Complete(Elems(published), Earlier) /\ Elems(published) \subseteq confirming)'
      BY PublishedComplete, PTL
    <3>4. /\ Follow(Append(published, x), Earlier) /\ x \in confirming
          /\ Complete(Elems(published) \cup {x}, Earlier)
      BY <2>1, <2>3, <3>1, <3>2, <3>3 DEF Publishes, Complete
    <3>5. \A i \in DOMAIN Append(published, x) \cap DOMAIN registered :
            Append(published, x)[i] = registered[i]
      <4>1. \A i \in DOMAIN published \cap DOMAIN registered : published[i] = registered[i]
        BY <1>3
      <4> QED BY SMTT(30), <1>1, <1>2, <3>4, <4>1, CountsAgree
    <3> QED BY <2>1, <2>3, <3>5 DEF TagsAgree
  <2> QED BY <2>1, <2>2, <2>3
<1> QED BY <1>4, <1>5, <1>6, CountsMove

(* The publish whose last frame was written and whose callback is yet to be*)
(* scheduled, and those whose last frame is in s.                          *)
Finished == IF Flowing /\ queue # <<>> /\ sent = 2 THEN {Head(queue)} ELSE {}
Bodies(s) == {f.op : f \in {g \in Elems(s) : g.kind = "body"}}

(* A publish that has left the client is counted before the client reads   *)
(* again: a frame that waits in the socket's buffer is the last one.       *)
InTime ==
  Leased =>
    /\ Bodies(outbuf) \subseteq Finished
    /\ Elems(published) \cup (Bodies(c2s) \cap confirming) \subseteq
         Elems(registered) \cup Elems(written) \cup (IF full THEN {} ELSE Finished)

(* Bodies of a sequence that grows or shrinks.                             *)
LEMMA BodiesFacts ==
  ASSUME NEW s \in Seq(ClientFrames)
  PROVE  /\ Bodies(<<>>) = {}
         /\ \A f \in ClientFrames :
              Bodies(Append(s, f)) = Bodies(s) \cup (IF f.kind = "body" THEN {f.op} ELSE {})
         /\ s # <<>> => /\ Bodies(Tail(s)) \subseteq Bodies(s)
                        /\ Head(s).kind = "body" => Head(s).op \in Bodies(s)
         /\ \A t \in Seq(ClientFrames) : Bodies(s \o t) = Bodies(s) \cup Bodies(t)
<1>1. Elems(<<>>) = {} /\ (s # <<>> => Elems(s) = {Head(s)} \cup Elems(Tail(s)))
  BY ElemsParts
<1>2. Bodies(<<>>) = {} /\ (s # <<>> => /\ Bodies(Tail(s)) \subseteq Bodies(s)
                                        /\ Head(s).kind = "body" => Head(s).op \in Bodies(s))
  BY <1>1 DEF Bodies
<1>3. ASSUME NEW f \in ClientFrames
      PROVE  Bodies(Append(s, f)) = Bodies(s) \cup (IF f.kind = "body" THEN {f.op} ELSE {})
  <2>1. Elems(Append(s, f)) = Elems(s) \cup {f}
    BY ElemsFacts
  <2> QED BY <2>1 DEF Bodies
<1>4. ASSUME NEW t \in Seq(ClientFrames) PROVE Bodies(s \o t) = Bodies(s) \cup Bodies(t)
  <2>1. Elems(s \o t) = Elems(s) \cup Elems(t)
    BY ElemsConcat
  <2> QED BY <2>1 DEF Bodies
<1> QED BY <1>2, <1>3, <1>4

(* What is sent is no publish when it is a frame of a close.               *)
LEMMA CloseBodies ==
  ASSUME TypeWire, NEW f \in ClientFrames, f.kind # "body", NEW isFull, Send(f, isFull)
  PROVE  Bodies(outbuf') = Bodies(outbuf) /\ Bodies(c2s') = Bodies(c2s)
<1>1. outbuf \in Seq(ClientFrames) /\ c2s \in Seq(ClientFrames)
  BY DEF TypeWire
<1>2. \A s \in Seq(ClientFrames) : Bodies(Append(s, f)) = Bodies(s)
  <2> TAKE s \in Seq(ClientFrames)
  <2>1. Bodies(Append(s, f)) = Bodies(s) \cup (IF f.kind = "body" THEN {f.op} ELSE {})
    BY BodiesFacts
  <2> QED BY <2>1
<1> QED BY <1>1, <1>2 DEF Send

(* When a macrotask runs every publish that was read has been counted.     *)
LEMMA ReadInTime ==
  ASSUME TypeOK, Leased, InTime, Macrotask PROVE Elems(published) \subseteq Elems(registered)
<1>1. written = <<>> /\ (full \/ Finished = {})
  BY DEF Macrotask, TickPending, StreamBusy, Finished, Flowing
<1>2. Elems(written) = {}
  BY <1>1 DEF Elems
<1> QED BY <1>1, <1>2 DEF InTime

(* A sequence that grows keeps its first element.                          *)
LEMMA AppendHead ==
  ASSUME NEW S, NEW s \in Seq(S), s # <<>>, NEW x \in S
  PROVE  Append(s, x) # <<>> /\ Head(Append(s, x)) = Head(s)
<1>1. Len(s) \in Nat /\ Len(s) > 0 /\ Len(Append(s, x)) = Len(s) + 1
      /\ Append(s, x)[1] = s[1]
  OBVIOUS
<1> QED BY <1>1

(* Every step counts a publish before its confirmation can be read.        *)
LEMMA InTimeStep ==
  ASSUME ChannelAssumption, TypeOK, Shape, Tied, OrderInv, FramesGenuine, Selecting, Parting,
         Publishes, "bypass" \notin Allowed, InTime, [Next]_vars
  PROVE  InTime'
<1> DEFINE P == Elems(published)
           R == Elems(registered)
           W == Elems(written)
           Pending == IF full THEN {} ELSE Finished
<1> SUFFICES ASSUME Leased'
             PROVE  /\ Bodies(outbuf') \subseteq Finished'
                    /\ P' \cup (Bodies(c2s') \cap confirming') \subseteq R' \cup W' \cup Pending'
  BY DEF InTime
<1> DEFINE G == /\ Bodies(outbuf') \subseteq Finished'
                /\ P' \cup (Bodies(c2s') \cap confirming') \subseteq R' \cup W' \cup Pending'
<1>1. Leased /\ socket = "up" /\ ~cleared
  BY StaysUp, StaysCleared DEF Leased
<1>2. /\ Bodies(outbuf) \subseteq Finished
      /\ P \cup (Bodies(c2s) \cap confirming) \subseteq R \cup W \cup Pending
  BY <1>1 DEF InTime
<1>3. /\ queue \in Seq(Ops) /\ rpcBuffer \in Seq(Rpcs) /\ outbuf \in Seq(ClientFrames)
      /\ c2s \in Seq(ClientFrames) /\ registered \in Seq(Pubs) /\ written \in Seq(Pubs)
      /\ published \in Seq(Ops) /\ Pubs \subseteq Ops /\ Rpcs \subseteq Ops /\ Nowaits \subseteq Ops
      /\ TypeWire /\ full \in BOOLEAN /\ sent \in 0..2 /\ P \subseteq confirming
      /\ bConfirm \in BOOLEAN
  BY DEF TypeOK, TypeStream, TypeChannel, TypeWire, TypeBroker, TypeFlags, Ops, Publishes
<1>4. ASSUME UNCHANGED <<full, registered, written, published, confirming>>,
             Finished' = Finished, Bodies(outbuf') = Bodies(outbuf),
             Bodies(c2s') \subseteq Bodies(c2s)
      PROVE  G
  BY <1>2, <1>4
<1>5. ASSUME NEW op \in Ops, queue' = Append(queue, op), sent' = sent, Flowing' <=> Flowing
      PROVE  Finished' = Finished
  <2>1. CASE queue = <<>>
    BY <1>5, <2>1 DEF Finished, Tied
  <2>2. CASE queue # <<>>
    <3>1. queue' # <<>> /\ Head(queue') = Head(queue)
      BY <1>3, <1>5, <2>2, AppendHead
    <3>2. sent' = sent /\ (Flowing' <=> Flowing)
      BY <1>5
    <3> QED BY <2>2, <3>1, <3>2 DEF Finished
  <2> QED BY <2>1, <2>2
<1>6. ASSUME UNCHANGED <<outbuf, c2s>>
      PROVE  Bodies(outbuf') = Bodies(outbuf) /\ Bodies(c2s') \subseteq Bodies(c2s)
  BY <1>6
<1>7. CASE \/ \E r \in Rpcs : Invoke(r)
           \/ \E n \in Nowaits : InvokeNowait(n)
  <2>1. PICK op \in Ops :
          /\ queue' = queue \/ queue' = Append(queue, op)
          /\ UNCHANGED <<sent, phase, full, registered, written, published, confirming, outbuf,
                         c2s>>
    BY <1>3, <1>7 DEF Invoke, InvokeNowait, chan, sock, wire, broker
  <2>2. Finished' = Finished
    BY <1>5, <2>1 DEF Finished, Flowing
  <2> QED BY <1>4, <1>6, <2>1, <2>2
<1>8. CASE \E p \in Pubs : BasicPublish(p)
  <2>1. PICK p \in Pubs : BasicPublish(p)
    BY <1>8
  <2>2. /\ queue' = Append(queue, p) /\ promise[p] = "none"
        /\ confirming' = confirming \/ confirming' = confirming \cup {p}
        /\ UNCHANGED <<sent, phase, full, registered, written, published, outbuf, c2s>>
    BY <2>1 DEF BasicPublish, Call, chan, sock, wire, broker
  <2>3. Finished' = Finished
    BY <1>3, <1>5, <2>2 DEF Flowing
  <2>4. p \notin Bodies(c2s)
    BY <1>3, <2>2 DEF Bodies, Selecting
  <2>5. Bodies(c2s) \cap confirming' = Bodies(c2s) \cap confirming
    BY <2>2, <2>4
  <2> QED BY <1>2, <2>2, <2>3, <2>5
<1>9. CASE OnReply
  <2>1. /\ queue' = queue \/ (rpcBuffer # <<>> /\ queue' = Append(queue, Head(rpcBuffer)))
        /\ UNCHANGED <<sent, full, registered, written, published, confirming, outbuf, c2s>>
        /\ Flowing' <=> Flowing
    BY <1>9 DEF OnReply, StartsNext, Flowing, sock, broker
  <2>2. rpcBuffer # <<>> => Head(rpcBuffer) \in Ops
    BY <1>3, HeadTail
  <2>3. Finished' = Finished
    <3>1. CASE queue' = queue
      BY <2>1, <3>1 DEF Finished
    <3>2. CASE queue' # queue
      BY <1>5, <2>1, <2>2, <3>2
    <3> QED BY <3>1, <3>2
  <2> QED BY <1>4, <1>6, <2>1, <2>3
<1>10. CASE WriteFrame
  <2> DEFINE f == NextFrame(Head(queue), sent)
  <2>1. /\ StreamBusy /\ sent < FrameCount(Head(queue)) /\ Send(f, full') /\ sent' = sent + 1
        /\ UNCHANGED <<queue, phase, registered, written, published, confirming>>
        /\ full' \in BOOLEAN
    BY <1>3, <1>10 DEF WriteFrame, broker, user, chan
  <2>2. queue # <<>> /\ outbuf = <<>> /\ Flowing /\ Flowing' /\ ~full
    BY <2>1 DEF StreamBusy, Tied, Flowing
  <2>3. Head(queue) \in Ops
    BY <1>3, <2>2, HeadTail
  <2>4. f \in ClientFrames /\ f.op = Head(queue) /\ (f.kind = "body" => sent' = 2)
    BY <1>3, <2>1, <2>3 DEF NextFrame, Frame, ClientFrames, FrameCount
  <2>5. Finished = {} /\ (f.kind = "body" => Finished' = {f.op})
    BY <1>3, <2>1, <2>2, <2>4 DEF Finished, FrameCount
  <2> HIDE DEF f
  <2>6. /\ Bodies(<<>>) = {}
        /\ Bodies(Append(c2s, f)) = Bodies(c2s) \cup (IF f.kind = "body" THEN {f.op} ELSE {})
        /\ Bodies(Append(outbuf, f)) = Bodies(outbuf) \cup (IF f.kind = "body" THEN {f.op} ELSE {})
    BY <1>3, <2>4, BodiesFacts
  <2>7. CASE full'
    <3>1. outbuf' = Append(outbuf, f) /\ c2s' = c2s
      BY <1>1, <2>1, <2>7 DEF Send
    <3> QED BY <1>2, <2>1, <2>2, <2>5, <2>6, <2>7, <3>1
  <2>8. CASE ~full'
    <3>1. outbuf' = outbuf /\ c2s' = Append(c2s, f)
      BY <1>1, <2>1, <2>8 DEF Send
    <3> QED BY <1>2, <2>1, <2>2, <2>5, <2>6, <2>8, <3>1
  <2> QED BY <2>7, <2>8
<1>11. CASE FinishWrite
  <2>1. /\ StreamBusy /\ sent = FrameCount(Head(queue)) /\ sent' = 0
        /\ written' = IF Head(queue) \in Pubs THEN Append(written, Head(queue)) ELSE written
        /\ UNCHANGED <<full, outbuf, c2s, registered, published, confirming>>
    BY <1>11 DEF FinishWrite, CallsBack, chan, user, sock, wire, broker
  <2>2. ~full /\ outbuf = <<>> /\ Bodies(outbuf) = {}
    BY <1>3, <2>1, BodiesFacts DEF StreamBusy, Tied
  <2>3. Finished \subseteq W' /\ W \subseteq W'
    <3>1. CASE Head(queue) \in Pubs
      <4>1. Elems(Append(written, Head(queue))) = W \cup {Head(queue)}
        BY <1>3, <3>1, ElemsFacts
      <4> QED BY <2>1, <3>1, <4>1 DEF Finished
    <3>2. CASE Head(queue) \notin Pubs
      BY <2>1, <3>2 DEF Finished, FrameCount
    <3> QED BY <3>1, <3>2
  <2>4. Finished' = {}
    BY <2>1 DEF Finished
  <2> QED BY <1>2, <2>1, <2>2, <2>3, <2>4
<1>12. CASE AfterWrite
  <2> DEFINE x == Head(written)
  <2>1. /\ written # <<>> /\ written' = Tail(written)
        /\ registered' = IF x \in confirming THEN Append(registered, x) ELSE registered
        /\ UNCHANGED <<queue, sent, phase, full, outbuf, c2s, published, confirming>>
    BY <1>12 DEF AfterWrite, sock, wire, broker
  <2>2. W = {x} \cup W' /\ x \in Pubs
    BY <1>3, <2>1, ElemsParts, HeadTail
  <2>3. R \subseteq R' /\ (x \in confirming => x \in R')
    <3>1. Elems(Append(registered, x)) = R \cup {x}
      BY <1>3, <2>2, ElemsFacts
    <3> QED BY <2>1, <3>1
  <2>4. Finished' = Finished
    BY <2>1 DEF Finished, Flowing
  <2> QED BY <1>2, <1>3, <2>1, <2>2, <2>3, <2>4
<1>13. CASE Drain
  <2>1. /\ full /\ ~full' /\ c2s' = c2s \o outbuf /\ outbuf' = <<>>
        /\ UNCHANGED <<queue, sent, phase, registered, written, published, confirming>>
    BY <1>13 DEF Drain, chan, stream, user, broker
  <2>2. Bodies(c2s') = Bodies(c2s) \cup Bodies(outbuf) /\ Bodies(outbuf') = {}
    BY <1>3, <2>1, BodiesFacts
  <2>3. Finished' = Finished
    BY <2>1 DEF Finished, Flowing
  <2> QED BY <1>2, <2>1, <2>2, <2>3
<1>14. CASE Stall
  <2>1. /\ ~full /\ ~StreamBusy
        /\ UNCHANGED <<queue, sent, phase, registered, written, published, confirming, outbuf, c2s>>
    BY <1>14 DEF Stall, Macrotask, chan, stream, user, wire, broker
  <2>2. Finished = {} /\ Finished' = {}
    BY <2>1 DEF Finished, StreamBusy, Flowing
  <2> QED BY <1>2, <2>1, <2>2
<1>15. ASSUME UNCHANGED <<outbuf, c2s>> \/ Send(Frame("close", None), full)
       PROVE  Bodies(outbuf') = Bodies(outbuf) /\ Bodies(c2s') \subseteq Bodies(c2s)
  BY <1>3, <1>15, CloseBodies, CloseFrames DEF Frame
<1>16. CASE StreamFinish \/ StreamFail \/ CloseImmediate
  <2>1. UNCHANGED <<outbuf, c2s>> \/ Send(Frame("close", None), full)
    BY <1>16 DEF StreamFinish, StreamFail, CloseImmediate, ResumeClose
  <2>2. /\ UNCHANGED <<full, registered, written, published, confirming>>
    BY <1>16 DEF StreamFinish, StreamFail, CloseImmediate, stream, sock, user, broker
  <2>3. Finished' = Finished
    BY <1>16 DEF StreamFinish, StreamFail, CloseImmediate, stream, Finished, Flowing
  <2> QED BY <1>4, <1>15, <2>1, <2>2, <2>3
<1>17. CASE FailWrite
  <2>1. Finished = {} /\ Finished' = {}
    BY <1>17 DEF FailWrite, Finished
  <2> QED BY <1>4, <1>17, <2>1 DEF FailWrite, chan, user, sock, wire, broker
<1>18. CASE Close
  <2>1. Finished' = Finished
    BY <1>18 DEF Close, StartClose, Finished, Flowing
  <2> QED BY <1>4, <1>18, <2>1 DEF Close, user, sock, wire, broker
<1>19. CASE BrokerServe
  <2> DEFINE op == Head(c2s).op
  <2>1. /\ op \in Ops /\ (op \in Pubs <=> Head(c2s).kind = "body")
        /\ op \in Pubs /\ bConfirm => op \in confirming
    BY <1>19, NextPublish
  <2>2. /\ c2s # <<>> /\ c2s' = Tail(c2s)
        /\ published' = IF op \in Pubs /\ bConfirm THEN Append(published, op) ELSE published
        /\ UNCHANGED <<queue, sent, phase, full, outbuf, registered, written, confirming>>
    BY <1>19, <2>1 DEF BrokerServe, BrokerReads, chan, stream, user, sock
  <2>3. /\ Bodies(c2s') \subseteq Bodies(c2s)
        /\ op \in Pubs => op \in Bodies(c2s)
    BY <1>3, <2>1, <2>2, BodiesFacts
  <2> HIDE DEF op
  <2>4. Finished' = Finished
    BY <2>2 DEF Finished, Flowing
  <2>5. P' \subseteq P \cup (Bodies(c2s) \cap confirming)
    <3>1. Elems(Append(published, op)) = P \cup {op}
      BY <1>3, <2>1, ElemsFacts
    <3> QED BY <2>1, <2>2, <2>3, <3>1
  <2> QED BY <1>2, <2>2, <2>3, <2>4, <2>5
<1>20. CASE \/ BrokerHead \/ BrokerRefuse \/ BrokerOnClose \/ BrokerDiscard \/ BrokerOnCloseOk
  <2>1. /\ c2s # <<>> /\ c2s' = Tail(c2s)
        /\ UNCHANGED <<outbuf, queue, sent, phase, full, registered, written, published,
                       confirming>>
    BY <1>20 DEF BrokerHead, BrokerRefuse, BrokerOnClose, BrokerDiscard, BrokerOnCloseOk,
       BrokerCloses, BrokerReads, chan, stream, user, sock, broker
  <2>2. Bodies(c2s') \subseteq Bodies(c2s) /\ Finished' = Finished
    BY <1>3, <2>1, BodiesFacts DEF Finished, Flowing
  <2> QED BY <1>4, <2>1, <2>2
<1>21. CASE OnCloseOk \/ OnChannelClose \/ SocketClosed \/ OnUnexpected \/ Lose \/ BrokerAbort
  BY <1>21 DEF OnCloseOk, OnChannelClose, SocketClosed, OnUnexpected, Lose, BrokerAbort, Clear,
     Leased
<1>22. CASE \/ \E op \in Ops : CallClosed(op)
            \/ ReadChunk \/ OnConfirm \/ BrokerConfirm \/ BrokerKick \/ UNCHANGED vars
  <2>1. UNCHANGED <<outbuf, c2s, queue, sent, phase, full, registered, written, published,
                    confirming>>
    BY <1>22 DEF CallClosed, ReadChunk, OnConfirm, BrokerConfirm, BrokerKick, BrokerCloses, vars,
       chan, stream, user, sock, wire, broker
  <2>2. Finished' = Finished
    BY <2>1 DEF Finished, Flowing
  <2> QED BY <1>4, <1>6, <2>1, <2>2
<1>23. ~Bypass
  BY DEF Bypass
<1> QED
  BY <1>7, <1>8, <1>9, <1>10, <1>11, <1>12, <1>13, <1>14, <1>16, <1>17, <1>18, <1>19, <1>20,
     <1>21, <1>22, <1>23
  DEF Next, UserCall, EventLoop, BrokerStep, Environment

(* The publishes that f is about; whether a frame of t before the k-th one *)
(* is about p.  S are the settled publishes, U those without an outcome at *)
(* the broker, A those it has acknowledged.                                *)
About(f, tags) == Covered(tags, f.tag, f.multiple)
ToldBefore(t, k, p, tags) ==
  \E j \in DOMAIN t : j < k /\ t[j].kind \in Confirmations /\ p \in About(t[j], tags)
Explained(t, k, p, tags, S) == p \in S \/ ToldBefore(t, k, p, tags)

(* The first confirmation about a publish tells its outcome; one that has  *)
(* an outcome has a confirmation.                                          *)
Tells(t, tags, S, U, A) ==
  \A k \in DOMAIN t : t[k].kind \in Confirmations =>
    /\ t[k].tag \in DOMAIN tags
    /\ \A p \in About(t[k], tags) :
         /\ p \notin U
         /\ (p \in A <=> t[k].kind = "ack") \/ Explained(t, k, p, tags, S)
AllTold(t, tags, S, U) ==
  \A p \in Elems(tags) \ U : Explained(t, Len(t) + 1, p, tags, S)

Inbound == chunk \o s2c
Settled == {p \in Pubs : promise[p] \in {"resolved", "rejected"}}

(* The client knows a publish before the broker's answer about it, and the *)
(* answers tell the outcome.                                               *)
Awaits ==
  /\ unconfirmed \subseteq Elems(registered)
  /\ Elems(registered) \subseteq unconfirmed \cup Settled
Apart == unacked \cup acked \subseteq Elems(published) /\ unacked \cap acked = {}
Outcomes ==
  Leased =>
    /\ \A f \in Elems(chunk) : f.kind \in Confirmations => f.tag <= Len(registered)
    /\ Tells(Inbound, published, Settled, unacked, acked)
    /\ bState = "open" => AllTold(Inbound, published, Settled, unacked)

(* The publishes a tag stands for do not depend on the later ones.         *)
LEMMA AboutFacts ==
  ASSUME NEW S, NEW s \in Seq(S), NEW f \in BrokerFrames
  PROVE  /\ About(f, s) \subseteq Elems(s)
         /\ \A T : \A t \in Seq(T) :
              /\ f.tag \in DOMAIN s /\ f.tag <= Len(t)
              /\ \A i \in DOMAIN s \cap DOMAIN t : s[i] = t[i]
              => About(f, t) = About(f, s)
<1>1. About(f, s) \subseteq Elems(s)
  BY DEF About, Covered, Elems
<1>2. ASSUME NEW T, NEW t \in Seq(T), f.tag \in DOMAIN s, f.tag <= Len(t),
             \A i \in DOMAIN s \cap DOMAIN t : s[i] = t[i]
      PROVE  About(f, t) = About(f, s)
  <2>1. /\ DOMAIN s = 1..Len(s) /\ Len(s) \in Nat /\ DOMAIN t = 1..Len(t) /\ Len(t) \in Nat
        /\ f.tag \in Nat
    BY DEF BrokerFrames
  <2> DEFINE J == {j \in DOMAIN s : j = f.tag \/ (f.multiple /\ j <= f.tag)}
             K == {j \in DOMAIN t : j = f.tag \/ (f.multiple /\ j <= f.tag)}
  <2>2. f.tag \in 1..Len(s) /\ f.tag \in 1..Len(t)
    BY <1>2, <2>1
  <2>3. J = K /\ J \subseteq DOMAIN s \cap DOMAIN t
    BY <2>1, <2>2
  <2>4. About(f, s) = {s[i] : i \in J} /\ About(f, t) = {t[i] : i \in K}
    BY DEF About, Covered
  <2> HIDE DEF J, K
  <2> QED BY <1>2, <2>3, <2>4
<1> QED BY <1>1, <1>2

(* What the client has settled grows with the first confirmation it takes. *)
LEMMA ToldTail ==
  ASSUME NEW X, NEW tags \in Seq(X), NEW t \in Seq(BrokerFrames), t # <<>>, NEW S, NEW T,
         NEW U, NEW A, Tells(t, tags, S, U, A), S \subseteq T,
         Head(t).kind \in Confirmations => About(Head(t), tags) \subseteq T
  PROVE  /\ Tells(Tail(t), tags, T, U, A)
         /\ AllTold(t, tags, S, U) => AllTold(Tail(t), tags, T, U)
<1> DEFINE u == Tail(t)
<1>1. /\ DOMAIN t = 1..Len(t) /\ Len(t) \in Nat /\ Len(t) > 0 /\ Head(t) = t[1]
      /\ DOMAIN u = 1..(Len(t) - 1) /\ Len(u) = Len(t) - 1
      /\ \A i \in 1..(Len(t) - 1) : u[i] = t[i + 1]
  OBVIOUS
<1> HIDE DEF u
<1>2. ASSUME NEW k \in 1..(Len(u) + 1), NEW p, Explained(t, k + 1, p, tags, S)
      PROVE  Explained(u, k, p, tags, T)
  <2> SUFFICES ASSUME p \notin T PROVE ToldBefore(u, k, p, tags)
    BY DEF Explained
  <2>1. PICK j \in DOMAIN t : j < k + 1 /\ t[j].kind \in Confirmations /\ p \in About(t[j], tags)
    BY <1>2 DEF Explained, ToldBefore
  <2>2. j # 1
    BY <1>1, <2>1
  <2>3. j - 1 \in DOMAIN u /\ j - 1 < k /\ u[j - 1] = t[j]
    BY <1>1, <2>1, <2>2
  <2> QED BY <2>1, <2>3 DEF ToldBefore
<1>3. ASSUME NEW k \in DOMAIN u, u[k].kind \in Confirmations
      PROVE  /\ u[k].tag \in DOMAIN tags
             /\ \A p \in About(u[k], tags) :
                  /\ p \notin U
                  /\ (p \in A <=> u[k].kind = "ack") \/ Explained(u, k, p, tags, T)
  <2>1. k + 1 \in DOMAIN t /\ u[k] = t[k + 1] /\ k \in 1..(Len(u) + 1)
    BY <1>1
  <2> QED BY <1>2, <1>3, <2>1 DEF Tells
<1>4. Tells(u, tags, T, U, A)
  BY <1>3 DEF Tells
<1>5. AllTold(t, tags, S, U) => AllTold(u, tags, T, U)
  <2>1. Len(u) + 1 \in 1..(Len(u) + 1) /\ (Len(u) + 1) + 1 = Len(t) + 1
    BY <1>1
  <2> QED BY <1>2, <2>1 DEF AllTold
<1> QED BY <1>4, <1>5 DEF u

(* A frame that comes in last, a confirmation or not, and what is settled  *)
(* meanwhile.                                                              *)
LEMMA ToldAppend ==
  ASSUME NEW X, NEW tags \in Seq(X), NEW t \in Seq(BrokerFrames), NEW f \in BrokerFrames, NEW S,
         NEW U, NEW V, NEW A, NEW B, Tells(t, tags, S, U, A),
         V \subseteq U, A \subseteq B, B \subseteq A \cup U, U \cap A = {},
         f.kind \in Confirmations =>
           /\ f.tag \in DOMAIN tags /\ About(f, tags) \cap V = {}
           /\ AllTold(t, tags, S, U)
           /\ \A p \in About(f, tags) \cap U : p \in B <=> f.kind = "ack"
  PROVE  /\ Tells(Append(t, f), tags, S, V, B)
         /\ /\ AllTold(t, tags, S, U)
            /\ \/ U = V
               \/ f.kind \in Confirmations /\ U \subseteq V \cup About(f, tags)
            => AllTold(Append(t, f), tags, S, V)
<1> DEFINE u == Append(t, f)
           n == Len(t) + 1
<1>1. /\ DOMAIN t = 1..Len(t) /\ Len(t) \in Nat /\ DOMAIN u = 1..n /\ Len(u) = n /\ u[n] = f
      /\ \A i \in DOMAIN t : i \in DOMAIN u /\ u[i] = t[i]
  OBVIOUS
<1> HIDE DEF u
<1>2. ASSUME NEW k, NEW p, Explained(t, k, p, tags, S) PROVE Explained(u, k, p, tags, S)
  BY <1>1, <1>2 DEF Explained, ToldBefore
<1>3. About(f, tags) \subseteq Elems(tags)
  BY AboutFacts
<1>4. ASSUME NEW k \in DOMAIN u, u[k].kind \in Confirmations, NEW p \in About(u[k], tags)
      PROVE  /\ u[k].tag \in DOMAIN tags /\ p \notin V
             /\ (p \in B <=> u[k].kind = "ack") \/ Explained(u, k, p, tags, S)
  <2>1. CASE k \in DOMAIN t
    <3>1. /\ t[k].tag \in DOMAIN tags /\ p \notin U
          /\ (p \in A <=> t[k].kind = "ack") \/ Explained(t, k, p, tags, S)
      BY <1>1, <1>4, <2>1 DEF Tells
    <3> QED BY <1>1, <1>2, <2>1, <3>1
  <2>2. CASE k \notin DOMAIN t
    <3>1. k = n /\ u[k] = f
      BY <1>1, <2>2
    <3>2. CASE p \in U
      BY <1>4, <3>1, <3>2
    <3>3. CASE p \notin U
      <4>1. Explained(t, n, p, tags, S)
        BY <1>3, <1>4, <3>1, <3>3 DEF AllTold
      <4> QED BY <1>2, <1>4, <3>1, <4>1
    <3> QED BY <3>2, <3>3
  <2> QED BY <2>1, <2>2
<1>5. Tells(u, tags, S, V, B)
  <2>1. ASSUME NEW k \in DOMAIN u, u[k].kind \in Confirmations PROVE u[k].tag \in DOMAIN tags
    <3>1. CASE k \in DOMAIN t
      BY <1>1, <2>1, <3>1 DEF Tells
    <3>2. CASE k \notin DOMAIN t
      <4>1. u[k] = f
        BY <1>1, <3>2
      <4> QED BY <2>1, <4>1
    <3> QED BY <3>1, <3>2
  <2> QED BY <1>4, <2>1 DEF Tells
<1>6. ASSUME AllTold(t, tags, S, U),
             \/ U = V
             \/ f.kind \in Confirmations /\ U \subseteq V \cup About(f, tags)
      PROVE  AllTold(u, tags, S, V)
  <2> SUFFICES ASSUME NEW p \in Elems(tags) \ V PROVE Explained(u, n + 1, p, tags, S)
    BY <1>1 DEF AllTold
  <2>1. CASE p \notin U
    <3>1. Explained(t, n, p, tags, S)
      BY <1>6, <2>1 DEF AllTold
    <3>2. \A j \in DOMAIN t : j < n => j < n + 1
      BY <1>1
    <3> QED BY <1>1, <3>1, <3>2 DEF Explained, ToldBefore
  <2>2. CASE p \in U
    <3>1. f.kind \in Confirmations /\ p \in About(f, tags)
      BY <1>6, <2>2
    <3>2. n \in DOMAIN u /\ n < n + 1
      BY <1>1
    <3> QED BY <1>1, <3>1, <3>2 DEF Explained, ToldBefore
  <2> QED BY <2>1, <2>2
<1> QED BY <1>5, <1>6 DEF u

(* A publish that is new to the broker has no outcome yet.                 *)
LEMMA ToldPublish ==
  ASSUME NEW X, NEW tags \in Seq(X), NEW t \in Seq(BrokerFrames), NEW x \in X,
         x \notin Elems(tags), NEW S, NEW U, NEW A, Tells(t, tags, S, U, A)
  PROVE  /\ Tells(t, Append(tags, x), S, U \cup {x}, A)
         /\ AllTold(t, tags, S, U) => AllTold(t, Append(tags, x), S, U \cup {x})
<1> DEFINE more == Append(tags, x)
<1>1. /\ more \in Seq(X) /\ Len(tags) \in Nat /\ Len(more) = Len(tags) + 1
      /\ DOMAIN tags = 1..Len(tags) /\ DOMAIN more = 1..Len(more)
      /\ \A i \in DOMAIN tags \cap DOMAIN more : tags[i] = more[i]
  OBVIOUS
<1>2. Elems(more) = Elems(tags) \cup {x}
  BY ElemsFacts
<1> HIDE DEF more
<1>3. ASSUME NEW k \in DOMAIN t, t[k].kind \in Confirmations
      PROVE  /\ t[k].tag \in DOMAIN more /\ About(t[k], more) = About(t[k], tags)
             /\ x \notin About(t[k], tags)
  <2>1. t[k] \in BrokerFrames /\ t[k].tag \in DOMAIN tags
    BY <1>3 DEF Tells
  <2>2. t[k].tag <= Len(more) /\ t[k].tag \in DOMAIN more
    BY <1>1, <2>1
  <2>3. About(t[k], more) = About(t[k], tags) /\ About(t[k], tags) \subseteq Elems(tags)
    BY <1>1, <2>1, <2>2, AboutFacts
  <2> QED BY <2>2, <2>3
<1>4. ASSUME NEW k, NEW p, Explained(t, k, p, tags, S) PROVE Explained(t, k, p, more, S)
  BY <1>3, <1>4 DEF Explained, ToldBefore
<1>5. Tells(t, more, S, U \cup {x}, A)
  BY <1>3, <1>4 DEF Tells
<1>6. AllTold(t, tags, S, U) => AllTold(t, more, S, U \cup {x})
  BY <1>2, <1>4 DEF AllTold
<1> QED BY <1>5, <1>6 DEF more

(* More settled publishes explain no less.                                 *)
LEMMA ToldSettled ==
  ASSUME NEW t, NEW tags, NEW S, NEW T, S \subseteq T, NEW U, NEW A
  PROVE  /\ Tells(t, tags, S, U, A) => Tells(t, tags, T, U, A)
         /\ AllTold(t, tags, S, U) => AllTold(t, tags, T, U)
BY DEF Tells, AllTold, Explained

(* The answers under way when a frame is taken, added or read.             *)
LEMMA InboundFacts ==
  ASSUME NEW S, NEW s \in Seq(S), NEW t \in Seq(S)
  PROVE  /\ s \o t \in Seq(S)
         /\ s # <<>> => s \o t # <<>> /\ Head(s \o t) = Head(s) /\ Tail(s) \o t = Tail(s \o t)
         /\ \A f \in S : s \o Append(t, f) = Append(s \o t, f)
         /\ \A n \in 1..Len(t) :
              s = <<>> => SubSeq(t, 1, n) \o SubSeq(t, n + 1, Len(t)) = s \o t
<1>1. s \o t \in Seq(S)
  OBVIOUS
<1>2. ASSUME s # <<>> PROVE s \o t # <<>> /\ Head(s \o t) = Head(s) /\ Tail(s) \o t = Tail(s \o t)
  <2>1. Len(s) \in Nat /\ Len(s) > 0 /\ Len(t) \in Nat /\ Len(s \o t) = Len(s) + Len(t)
        /\ (s \o t)[1] = s[1]
    BY <1>2
  <2>2. s \o t # <<>> /\ Head(s \o t) = Head(s)
    BY <1>1, <1>2, <2>1
  <2>3. Tail(s) \o t = Tail(s \o t)
    BY <1>1, <1>2, <2>1, <2>2
  <2> QED BY <2>2, <2>3
<1>3. ASSUME NEW f \in S PROVE s \o Append(t, f) = Append(s \o t, f)
  OBVIOUS
<1>4. ASSUME NEW n \in 1..Len(t), s = <<>>
      PROVE  SubSeq(t, 1, n) \o SubSeq(t, n + 1, Len(t)) = s \o t
  <2>1. <<>> \o t = t
    OBVIOUS
  <2>2. SubSeq(t, 1, n) \o SubSeq(t, n + 1, Len(t)) = t
    OBVIOUS
  <2> QED BY <1>4, <2>1, <2>2
<1> QED BY <1>1, <1>2, <1>3, <1>4

(* A settled publish stays settled.                                        *)
LEMMA SettledGrows ==
  ASSUME ChannelAssumption, TypeOK, OwnerInv, [Next]_vars PROVE Settled \subseteq Settled'
<1>1. \A p \in Settled : p \in Ops /\ promise'[p] = promise[p]
  BY SettledStep DEF Settled, Ops
<1> QED BY <1>1 DEF Settled

(* What a confirmation settles is what it is about, as far as the client   *)
(* still waits for it, and it settles that as the broker decided.          *)
LEMMA TakesConfirm ==
  ASSUME ChannelAssumption, TypeOK, Shape, OwnerInv, TagsAgree, Awaits, Outcomes, OnConfirm
  PROVE  LET f == Head(chunk)
         IN  /\ chunk # <<>> /\ f.kind \in {"ack", "nack"} /\ Leased
             /\ Inbound # <<>> /\ Head(Inbound) = f
             /\ About(f, published) \subseteq Hit(f) \cup Settled
             /\ Hit(f) \subseteq Elems(published) \ unacked
             /\ \A p \in Hit(f) : p \in acked <=> f.kind = "ack"
<1> DEFINE f == Head(chunk)
<1>1. /\ chunk # <<>> /\ f.kind \in {"ack", "nack"} /\ ~cleared
  BY DEF OnConfirm, Receive
<1>2. Leased
  BY <1>1 DEF Shape, Leased
<1>3. /\ chunk \in Seq(BrokerFrames) /\ s2c \in Seq(BrokerFrames) /\ published \in Seq(Ops)
      /\ registered \in Seq(Pubs) /\ unconfirmed \subseteq Pubs
      /\ promise \in [Ops -> {"none", "pending", "resolved", "rejected"}]
  BY DEF TypeOK, TypeWire, TypeBroker, TypeChannel, TypeUser
<1>4. /\ Inbound \in Seq(BrokerFrames) /\ Inbound # <<>> /\ Head(Inbound) = f
      /\ f \in Elems(chunk) /\ f \in BrokerFrames
  BY <1>1, <1>3, InboundFacts, HeadTail, ElemsFacts DEF Inbound
<1>5. 1 \in DOMAIN Inbound /\ Inbound[1] = f /\ DOMAIN Inbound \subseteq Nat \ {0}
  BY <1>4
<1>6. f.kind \in Confirmations /\ f.tag <= Len(registered)
      /\ Tells(Inbound, published, Settled, unacked, acked)
  BY <1>1, <1>2, <1>4 DEF Outcomes, Confirmations
<1>7. /\ f.tag \in DOMAIN published
      /\ \A p \in About(f, published) :
           /\ p \notin unacked
           /\ (p \in acked <=> f.kind = "ack") \/ Explained(Inbound, 1, p, published, Settled)
  BY <1>5, <1>6 DEF Tells
<1>8. \A p : ~ToldBefore(Inbound, 1, p, published)
  BY <1>5 DEF ToldBefore
<1> HIDE DEF f
<1>9. About(f, registered) = About(f, published) /\ About(f, published) \subseteq Elems(published)
      /\ About(f, registered) \subseteq Elems(registered)
  <2>1. \A i \in DOMAIN published \cap DOMAIN registered : published[i] = registered[i]
    BY DEF TagsAgree
  <2> QED BY <1>3, <1>4, <1>6, <1>7, <2>1, AboutFacts
<1>10. Hit(f) = About(f, published) \cap unconfirmed
  BY <1>9 DEF Hit, About
<1>11. unconfirmed \cap Settled = {}
  BY DEF OwnerInv, HeldPending, Held, Settled, Ops
<1>12. About(f, published) \subseteq Hit(f) \cup Settled
  BY <1>9, <1>10 DEF Awaits
<1>13. \A p \in Hit(f) : p \in acked <=> f.kind = "ack"
  BY <1>7, <1>8, <1>10, <1>11 DEF Explained
<1> QED BY <1>1, <1>2, <1>4, <1>7, <1>9, <1>10, <1>12, <1>13 DEF f

(* The client waits for the outcome of what it counts.                     *)
LEMMA AwaitsStep ==
  ASSUME ChannelAssumption, TypeOK, OwnerInv, Awaits, [Next]_vars PROVE Awaits'
<1>1. /\ registered \in Seq(Pubs) /\ written \in Seq(Pubs) /\ unconfirmed \subseteq Pubs
      /\ promise \in [Ops -> {"none", "pending", "resolved", "rejected"}]
      /\ Settled \subseteq Settled'
  BY SettledGrows DEF TypeOK, TypeChannel, TypeStream, TypeUser
<1>2. CASE UNCHANGED <<registered, unconfirmed>>
  BY <1>1, <1>2 DEF Awaits
<1>3. CASE AfterWrite
  <2> DEFINE p == Head(written)
  <2>1. /\ written # <<>> /\ p \in Pubs
        /\ \/ UNCHANGED <<registered, unconfirmed>>
           \/ registered' = Append(registered, p) /\ unconfirmed' = unconfirmed \cup {p}
    BY <1>1, <1>3, HeadTail DEF AfterWrite
  <2>2. Elems(Append(registered, p)) = Elems(registered) \cup {p}
    BY <1>1, <2>1, ElemsFacts
  <2> HIDE DEF p
  <2>3. CASE registered' = Append(registered, p) /\ unconfirmed' = unconfirmed \cup {p}
    BY <1>1, <2>2, <2>3 DEF Awaits
  <2> QED BY <1>2, <2>1, <2>3
<1>4. CASE OnConfirm
  <2> DEFINE hit == Hit(Head(chunk))
  <2>1. /\ registered' = registered /\ unconfirmed' = unconfirmed \ hit /\ hit \subseteq unconfirmed
        /\ \E how \in {"resolved", "rejected"} : Settle(hit, how)
    BY <1>4 DEF OnConfirm, Hit
  <2>2. hit \subseteq Settled'
    BY <1>1, <2>1 DEF Settle, Settled, Ops
  <2> HIDE DEF hit
  <2> QED BY <1>1, <2>1, <2>2 DEF Awaits
<1>5. CASE Clear
  <2>1. registered' = registered /\ unconfirmed' = {} /\ Settle(ClearedCalls, "rejected")
    BY <1>5 DEF Clear, EmptyAll
  <2>2. unconfirmed \subseteq Settled'
    BY <1>1, <2>1 DEF Settle, Settled, ClearedCalls, Ops
  <2>3. Elems(registered) \subseteq Settled'
    BY <1>1, <2>2 DEF Awaits
  <2> QED BY <2>1, <2>3 DEF Awaits
<1>6. UNCHANGED <<registered, unconfirmed>> \/ AfterWrite \/ OnConfirm \/ Clear
  <2>1. CASE UserCall \/ UNCHANGED vars
    BY <2>1 DEF UserCall, CallClosed, Invoke, InvokeNowait, BasicPublish, Close, vars, chan
  <2>2. CASE \/ WriteFrame \/ FinishWrite \/ FailWrite \/ Environment \/ Drain
             \/ StreamFinish \/ StreamFail \/ CloseImmediate \/ ReadChunk \/ OnReply \/ OnUnexpected
    BY <2>2 DEF WriteFrame, FinishWrite, FailWrite, Environment, Stall, Drain, Bypass, Lose,
       StreamFinish, StreamFail, CloseImmediate, ReadChunk, OnReply, OnUnexpected,
       BrokerKick, BrokerCloses, chan
  <2>3. CASE OnCloseOk \/ OnChannelClose \/ SocketClosed
    BY <2>3 DEF OnCloseOk, OnChannelClose, SocketClosed, chan
  <2>4. CASE BrokerStep \/ BrokerConfirm
    BY <2>4 DEF BrokerStep, BrokerHead, BrokerServe, BrokerConfirm, BrokerRefuse, BrokerCloses,
       BrokerOnClose, BrokerDiscard, BrokerOnCloseOk, BrokerAbort, chan
  <2> QED BY <2>1, <2>2, <2>3, <2>4 DEF Next, EventLoop
<1> QED BY <1>2, <1>3, <1>4, <1>5, <1>6

(* What is new to the broker is a publish it has not counted.              *)
LEMMA FreshPublish ==
  ASSUME ChannelAssumption, TypeOK, Tied, OrderInv, FramesGenuine, Selecting, Parting, Publishes,
         BrokerServe
  PROVE  LET x == Head(c2s).op
         IN  \/ UNCHANGED <<published, unacked>>
             \/ /\ x \in Ops /\ x \notin Elems(published) /\ s2c' = s2c
                /\ published' = Append(published, x) /\ unacked' = unacked \cup {x}
<1> DEFINE x == Head(c2s).op
<1>1. /\ x \in Ops /\ (x \in Pubs <=> Head(c2s).kind = "body")
      /\ Before(Elems(served), {x}, Earlier)
  BY NextPublish
<1>2. CASE Head(c2s).kind = "body" /\ bConfirm
  <2>1. x \notin Elems(published)
    <3> SUFFICES ASSUME x \in Elems(published) PROVE FALSE
      OBVIOUS
    <3>1. <<x, x>> \in Earlier
      BY <1>1, <1>2 DEF Before, Publishes
    <3> QED BY <3>1, EarlierStrict DEF OrderInv, TypeOK, TypeUser
  <2> QED BY <1>1, <1>2, <2>1 DEF BrokerServe
<1>3. CASE ~(Head(c2s).kind = "body" /\ bConfirm)
  BY <1>3 DEF BrokerServe
<1> QED BY <1>2, <1>3

(* What a confirmation of the broker is about.                             *)
LEMMA GivesConfirm ==
  ASSUME TypeOK, Apart, BrokerConfirm
  PROVE  \E f \in BrokerFrames :
           LET hit == About(f, published) \cap unacked
           IN  /\ f.kind \in Confirmations /\ f.tag \in DOMAIN published
               /\ s2c' = Append(s2c, f) /\ unacked' = unacked \ hit
               /\ acked' = IF f.kind = "ack" THEN acked \cup hit ELSE acked
               /\ bState = "open" /\ UNCHANGED <<published, chunk, bState>>
<1>1. PICK i \in DOMAIN published, kind \in {"ack", "nack"}, multiple \in BOOLEAN :
        LET hit == Covered(published, i, multiple) \cap unacked
        IN  /\ s2c' = Append(s2c, Confirmation(kind, i, multiple))
            /\ unacked' = unacked \ hit
            /\ acked' = IF kind = "ack" THEN acked \cup hit ELSE acked
            /\ bState = "open" /\ UNCHANGED <<published, chunk, bState>>
  BY DEF BrokerConfirm
<1> DEFINE f == Confirmation(kind, i, multiple)
<1>2. f \in BrokerFrames /\ f.kind = kind /\ f.tag = i /\ f.multiple = multiple
  <2>1. i \in Nat
    BY DEF TypeOK, TypeBroker
  <2> QED BY <2>1 DEF Confirmation, BrokerFrames
<1> HIDE DEF f
<1>3. f.kind \in Confirmations /\ About(f, published) = Covered(published, i, multiple)
  BY <1>2 DEF Confirmations, About
<1> QED BY <1>1, <1>2, <1>3 DEF f

(* The steps that change what the broker knows of the publishes.           *)
LEMMA AnswersMove ==
  ASSUME [Next]_vars
  PROVE  \/ BrokerServe \/ BrokerConfirm
         \/ UNCHANGED <<published, acked>> /\ unacked' \in {unacked, {}}
<1>1. CASE UserCall \/ UNCHANGED vars
  BY <1>1 DEF UserCall, CallClosed, Invoke, InvokeNowait, BasicPublish, Close, vars, broker
<1>2. CASE EventLoop
  BY <1>2 DEF EventLoop, WriteFrame, FinishWrite, FailWrite, Drain, AfterWrite, StreamFinish,
     StreamFail, CloseImmediate, ReadChunk, OnReply, OnCloseOk, OnChannelClose, OnConfirm,
     OnUnexpected, SocketClosed, broker
<1>3. CASE BrokerStep \/ Environment
  BY <1>3 DEF BrokerStep, BrokerHead, BrokerRefuse, BrokerCloses, BrokerOnClose, BrokerDiscard,
     BrokerOnCloseOk, BrokerAbort, Environment, Stall, Bypass, Lose, BrokerKick, broker
<1> QED BY <1>1, <1>2, <1>3 DEF Next

(* The broker decides on what it has counted, and once.                    *)
LEMMA ApartStep ==
  ASSUME ChannelAssumption, TypeOK, Tied, OrderInv, FramesGenuine, Selecting, Parting, Publishes,
         Apart, [Next]_vars
  PROVE  Apart'
<1>1. published \in Seq(Ops) /\ unacked \subseteq Ops
  BY DEF TypeOK, TypeBroker
<1>2. CASE UNCHANGED <<published, acked>> /\ unacked' \in {unacked, {}}
  BY <1>2 DEF Apart
<1>3. CASE BrokerServe
  <2> DEFINE x == Head(c2s).op
  <2>1. \/ UNCHANGED <<published, unacked>>
        \/ /\ x \in Ops /\ x \notin Elems(published) /\ s2c' = s2c
           /\ published' = Append(published, x) /\ unacked' = unacked \cup {x}
    BY <1>3, FreshPublish
  <2>2. acked' = acked
    BY <1>3 DEF BrokerServe
  <2> HIDE DEF x
  <2>3. x \in Ops => Elems(Append(published, x)) = Elems(published) \cup {x}
    BY <1>1, ElemsFacts
  <2> QED BY <2>1, <2>2, <2>3 DEF Apart
<1>4. CASE BrokerConfirm
  <2>1. PICK f \in BrokerFrames :
          LET hit == About(f, published) \cap unacked
          IN  /\ f.kind \in Confirmations /\ f.tag \in DOMAIN published
              /\ s2c' = Append(s2c, f) /\ unacked' = unacked \ hit
              /\ acked' = IF f.kind = "ack" THEN acked \cup hit ELSE acked
              /\ bState = "open" /\ UNCHANGED <<published, chunk, bState>>
    BY <1>4, GivesConfirm
  <2> QED BY <2>1 DEF Apart
<1> QED BY <1>2, <1>3, <1>4, AnswersMove

(* The answers under way keep telling the outcomes.                        *)
LEMMA OutcomesStep ==
  ASSUME ChannelAssumption, TypeOK, Shape, Tied, OrderInv, FramesGenuine, Selecting, Parting,
         Publishes, OwnerInv, TagsAgree, InTime, Awaits, Apart, Outcomes, [Next]_vars
  PROVE  Outcomes'
<1> DEFINE Known(s, r) == \A f \in Elems(s) : f.kind \in Confirmations => f.tag <= Len(r)
           Tell == Tells(Inbound', published', Settled', unacked', acked')
           All == bState' = "open" => AllTold(Inbound', published', Settled', unacked')
<1> SUFFICES ASSUME Leased' PROVE Known(chunk', registered') /\ Tell /\ All
  BY DEF Outcomes
<1>1. Leased /\ socket = "up" /\ ~cleared
  BY StaysUp, StaysCleared DEF Leased
<1>2. /\ Known(chunk, registered)
      /\ Tells(Inbound, published, Settled, unacked, acked)
      /\ bState = "open" => AllTold(Inbound, published, Settled, unacked)
  BY <1>1 DEF Outcomes
<1>3. /\ chunk \in Seq(BrokerFrames) /\ s2c \in Seq(BrokerFrames) /\ published \in Seq(Ops)
      /\ registered \in Seq(Pubs) /\ written \in Seq(Pubs) /\ Inbound \in Seq(BrokerFrames)
      /\ calls \in Seq(Ops)
  BY InboundFacts DEF Inbound, TypeOK, TypeWire, TypeBroker, TypeChannel, TypeStream, TypeUser
<1>4. Settled \subseteq Settled'
  BY SettledGrows
<1>5. unacked \cap acked = {}
  BY DEF Apart
<1>6. ASSUME Elems(chunk') \subseteq Elems(chunk), registered' = registered \/ AfterWrite
      PROVE  Known(chunk', registered')
  <2>1. /\ Len(registered) \in Nat /\ Len(registered') \in Nat
        /\ Len(registered) <= Len(registered')
    <3>1. CASE registered' = registered
      BY <1>3, <3>1
    <3>2. CASE AfterWrite
      <4>1. /\ registered' = registered \/ registered' = Append(registered, Head(written))
            /\ Head(written) \in Pubs
        BY <1>3, <3>2, HeadTail DEF AfterWrite
      <4> QED BY <1>3, <4>1
    <3> QED BY <1>6, <3>1, <3>2
  <2>2. \A f \in Elems(chunk') : f.tag \in Nat
    <3>1. Elems(chunk) \subseteq BrokerFrames
      BY <1>3, ElemsParts
    <3>2. \A f \in BrokerFrames : f.tag \in Nat
      BY DEF BrokerFrames
    <3> QED BY <1>6, <3>1, <3>2
  <2> QED BY <1>2, <1>6, <2>1, <2>2
<1>7. ASSUME Inbound' = Inbound, UNCHANGED <<published, unacked, acked>>,
             bState' = "open" => bState = "open"
      PROVE  Tell /\ All
  BY <1>2, <1>4, <1>7, ToldSettled
<1>8. CASE \/ UserCall \/ UNCHANGED vars
           \/ WriteFrame \/ FinishWrite \/ FailWrite \/ Drain \/ AfterWrite
           \/ StreamFinish \/ StreamFail \/ CloseImmediate \/ Stall \/ Bypass
           \/ BrokerHead \/ BrokerDiscard \/ BrokerOnCloseOk
  <2>1. /\ UNCHANGED <<chunk, s2c, published, unacked, acked>>
        /\ bState' = "open" => bState = "open"
    BY <1>8 DEF UserCall, CallClosed, Invoke, InvokeNowait, BasicPublish, Close, WriteFrame,
       FinishWrite, FailWrite, Drain, AfterWrite, StreamFinish, StreamFail, CloseImmediate, Stall,
       Bypass, BrokerHead, BrokerDiscard, BrokerOnCloseOk, vars, wire, broker
  <2>2. registered' = registered \/ AfterWrite
    <3>1. ~BrokerServe \/ registered' = registered
      BY DEF BrokerServe, chan
    <3> QED BY <3>1, CountsMove
  <2>3. Inbound' = Inbound
    BY <2>1 DEF Inbound
  <2> QED BY <1>6, <1>7, <2>1, <2>2, <2>3
<1>9. CASE ReadChunk
  <2>1. PICK n \in 1..Len(s2c) :
          /\ chunk' = SubSeq(s2c, 1, n) /\ s2c' = SubSeq(s2c, n + 1, Len(s2c))
          /\ chunk = <<>> /\ Macrotask
          /\ UNCHANGED <<registered, published, unacked, acked, bState>>
    BY <1>9 DEF ReadChunk, Macrotask, chan, broker
  <2>2. Inbound' = Inbound
    BY <1>3, <2>1, InboundFacts DEF Inbound
  <2>3. Elems(published) \subseteq Elems(registered)
    BY <1>1, <2>1, ReadInTime
  <2>4. Len(published) <= Len(registered)
    BY <1>3, <2>3, CountsLength DEF OrderInv, TagsAgree, Publishes
  <2>5. Known(chunk', registered')
    <3> SUFFICES ASSUME NEW f \in Elems(chunk'), f.kind \in Confirmations
                 PROVE  f.tag <= Len(registered)
      BY <2>1
    <3>1. f \in Elems(s2c)
      BY <1>3, <2>1, ElemsFacts
    <3>2. f \in Elems(Inbound)
      BY <1>3, <3>1, ElemsConcat DEF Inbound
    <3>3. f.tag \in DOMAIN published
      BY <1>2, <3>2 DEF Tells, Elems
    <3> QED BY <1>3, <2>4, <3>3
  <2> QED BY <1>7, <2>1, <2>2, <2>5
<1>10. ASSUME chunk # <<>>, chunk' = Tail(chunk),
              UNCHANGED <<s2c, published, unacked, acked, bState>>,
              Head(chunk).kind \in Confirmations =>
                About(Head(chunk), published) \subseteq Settled'
       PROVE  Tell /\ All
  <2>1. Inbound # <<>> /\ Head(Inbound) = Head(chunk) /\ Inbound' = Tail(Inbound)
    <3>1. /\ chunk \o s2c # <<>> /\ Head(chunk \o s2c) = Head(chunk)
          /\ Tail(chunk) \o s2c = Tail(chunk \o s2c)
      BY ZenonT(30), <1>3, <1>10, InboundFacts
    <3> QED BY <1>10, <3>1 DEF Inbound
  <2>2. /\ Tells(Tail(Inbound), published, Settled', unacked, acked)
        /\ AllTold(Inbound, published, Settled, unacked) =>
             AllTold(Tail(Inbound), published, Settled', unacked)
    <3>1. Head(Inbound).kind \in Confirmations =>
            About(Head(Inbound), published) \subseteq Settled'
      BY <1>10, <2>1
    <3> QED BY <1>2, <1>3, <1>4, <2>1, <3>1, ToldTail
  <2> QED BY <1>2, <1>10, <2>1, <2>2
<1>11. CASE OnReply
  <2>1. /\ chunk # <<>> /\ chunk' = Tail(chunk) /\ Head(chunk).kind = "reply"
        /\ UNCHANGED <<registered, s2c, published, unacked, acked, bState>>
    BY <1>11 DEF OnReply, Receive, broker
  <2>2. Elems(chunk') \subseteq Elems(chunk)
    BY <1>3, <2>1, ElemsFacts
  <2> QED BY <1>6, <1>10, <2>1, <2>2 DEF Confirmations
<1>12. CASE OnConfirm
  <2> DEFINE f == Head(chunk)
  <2>1. /\ chunk # <<>> /\ chunk' = Tail(chunk)
        /\ UNCHANGED <<registered, s2c, published, unacked, acked, bState>>
        /\ \E how \in {"resolved", "rejected"} : Settle(Hit(f), how)
    BY <1>12 DEF OnConfirm, Receive, broker
  <2>2. Elems(chunk') \subseteq Elems(chunk)
    BY <1>3, <2>1, ElemsFacts
  <2>3. Hit(f) \subseteq Settled'
    BY <2>1 DEF Settle, Settled, Ops, Hit, TypeOK, TypeChannel
  <2>4. About(f, published) \subseteq Settled'
    BY <1>4, <1>12, <2>3, TakesConfirm
  <2> QED BY <1>6, <1>10, <2>1, <2>2, <2>4
<1>13. CASE BrokerServe
  <2> DEFINE x == Head(c2s).op
  <2>1. /\ UNCHANGED <<chunk, registered, acked, bState>>
        /\ s2c' = s2c \/ s2c' = Append(s2c, FromBroker("reply", x))
    BY <1>13 DEF BrokerServe, chan
  <2>2. \/ UNCHANGED <<published, unacked>>
        \/ /\ x \in Ops /\ x \notin Elems(published) /\ s2c' = s2c
           /\ published' = Append(published, x) /\ unacked' = unacked \cup {x}
    BY <1>13, FreshPublish
  <2>3. x \in Ops
    BY <1>13, NextPublish
  <2> HIDE DEF x
  <2>4. Known(chunk', registered')
    BY <1>6, <2>1
  <2>5. CASE s2c' = s2c /\ UNCHANGED <<published, unacked>>
    BY <1>7, <2>1, <2>4, <2>5 DEF Inbound
  <2>6. CASE s2c' = Append(s2c, FromBroker("reply", x)) /\ UNCHANGED <<published, unacked>>
    <3> DEFINE f == FromBroker("reply", x)
    <3>1. f \in BrokerFrames /\ f.kind \notin Confirmations
      BY <2>3 DEF FromBroker, BrokerFrames, Confirmations
    <3> HIDE DEF f
    <3>2. Inbound' = Append(Inbound, f)
      BY <1>3, <2>1, <2>6, <3>1, InboundFacts DEF Inbound, f
    <3>3. /\ Tells(Append(Inbound, f), published, Settled, unacked, acked)
          /\ AllTold(Inbound, published, Settled, unacked) =>
               AllTold(Append(Inbound, f), published, Settled, unacked)
      BY <1>2, <1>3, <1>5, <3>1, ToldAppend
    <3> QED BY <1>2, <1>4, <2>1, <2>4, <2>6, <3>2, <3>3, ToldSettled
  <2>7. CASE /\ x \notin Elems(published) /\ s2c' = s2c
             /\ published' = Append(published, x) /\ unacked' = unacked \cup {x}
    <3>1. Inbound' = Inbound
      BY <2>1, <2>7 DEF Inbound
    <3>2. /\ Tells(Inbound, Append(published, x), Settled, unacked \cup {x}, acked)
          /\ AllTold(Inbound, published, Settled, unacked) =>
               AllTold(Inbound, Append(published, x), Settled, unacked \cup {x})
      BY <1>2, <1>3, <2>3, <2>7, ToldPublish
    <3> QED BY <1>2, <1>4, <2>1, <2>4, <2>7, <3>1, <3>2, ToldSettled
  <2> QED BY <2>1, <2>2, <2>5, <2>6, <2>7
<1>14. CASE BrokerConfirm
  <2>1. PICK f \in BrokerFrames :
          LET hit == About(f, published) \cap unacked
          IN  /\ f.kind \in Confirmations /\ f.tag \in DOMAIN published
              /\ s2c' = Append(s2c, f) /\ unacked' = unacked \ hit
              /\ acked' = IF f.kind = "ack" THEN acked \cup hit ELSE acked
              /\ bState = "open" /\ UNCHANGED <<published, chunk, bState>>
    BY <1>14, GivesConfirm
  <2>2. Known(chunk', registered')
    <3>1. registered' = registered
      BY <1>14 DEF BrokerConfirm, chan
    <3> QED BY <1>6, <2>1, <3>1
  <2>3. Inbound' = Append(Inbound, f)
    BY <1>3, <2>1, InboundFacts DEF Inbound
  <2>4. AllTold(Inbound, published, Settled, unacked)
    BY <1>2, <2>1
  <2>5. /\ unacked' \subseteq unacked
        /\ acked \subseteq acked' /\ acked' \subseteq acked \cup unacked
        /\ About(f, published) \cap unacked' = {}
        /\ unacked \subseteq unacked' \cup About(f, published)
        /\ \A p \in About(f, published) \cap unacked : p \in acked' <=> f.kind = "ack"
    BY <1>5, <2>1
  <2>6. /\ Tells(Append(Inbound, f), published, Settled, unacked', acked')
        /\ AllTold(Append(Inbound, f), published, Settled, unacked')
    BY <1>2, <1>3, <1>5, <2>1, <2>4, <2>5, ToldAppend
  <2> QED BY <1>4, <2>1, <2>2, <2>3, <2>6, ToldSettled
<1>15. CASE BrokerRefuse \/ BrokerKick \/ BrokerOnClose
  <2>1. PICK f \in BrokerFrames :
          /\ f.kind \notin Confirmations /\ s2c' = Append(s2c, f) /\ unacked' = {}
          /\ bState' # "open" /\ UNCHANGED <<chunk, registered, published, acked>>
    <3>1. CASE BrokerRefuse \/ BrokerKick
      <4>1. PICK op \in Ops \cup {None} : BrokerCloses(op)
        <5>1. CASE BrokerRefuse
          <6>1. Head(c2s).op \in Ops
            BY <5>1 DEF BrokerRefuse, ChannelAssumption
          <6> QED BY <5>1, <6>1 DEF BrokerRefuse
        <5>2. CASE BrokerKick
          BY <5>2 DEF BrokerKick
        <5> QED BY <3>1, <5>1, <5>2
      <4>2. FromBroker("close", op) \in BrokerFrames
            /\ FromBroker("close", op).kind \notin Confirmations
        BY DEF FromBroker, BrokerFrames, Confirmations
      <4> QED BY <4>1, <4>2 DEF BrokerCloses, chan
    <3>2. CASE BrokerOnClose
      <4>1. FromBroker("closeOk", None) \in BrokerFrames
            /\ FromBroker("closeOk", None).kind \notin Confirmations
        BY DEF FromBroker, BrokerFrames, Confirmations
      <4> QED BY <3>2, <4>1 DEF BrokerOnClose, chan
    <3> QED BY <1>15, <3>1, <3>2
  <2>2. Known(chunk', registered')
    BY <1>6, <2>1
  <2>3. Inbound' = Append(Inbound, f)
    BY <1>3, <2>1, InboundFacts DEF Inbound
  <2>4. Tells(Append(Inbound, f), published, Settled, {}, acked)
    BY <1>2, <1>3, <1>5, <2>1, ToldAppend
  <2> QED BY <1>4, <2>1, <2>2, <2>3, <2>4, ToldSettled
<1>16. CASE OnCloseOk \/ OnChannelClose \/ SocketClosed \/ OnUnexpected \/ Lose \/ BrokerAbort
  BY <1>16 DEF OnCloseOk, OnChannelClose, SocketClosed, OnUnexpected, Lose, BrokerAbort, Clear,
     Leased
<1> QED
  BY <1>8, <1>9, <1>11, <1>12, <1>13, <1>14, <1>15, <1>16
  DEF Next, EventLoop, BrokerStep, Environment

(* A publish in confirm mode resolves through a confirmation only.         *)
LEMMA WhoResolves ==
  ASSUME ChannelAssumption, TypeOK, [Next]_vars, NEW p \in confirming', p \in Pubs,
         promise'[p] = "resolved"
  PROVE  \/ p \in confirming /\ promise[p] = "resolved"
         \/ OnConfirm /\ p \in Hit(Head(chunk)) /\ Head(chunk).kind = "ack"
<1> DEFINE G == \/ p \in confirming /\ promise[p] = "resolved"
                \/ OnConfirm /\ p \in Hit(Head(chunk)) /\ Head(chunk).kind = "ack"
<1>1. p \in Ops /\ p \notin Rpcs /\ p \notin Nowaits /\ None \notin Pubs /\ ChannelClose \notin Pubs
      /\ rpc \in Rpcs \cup {None, ChannelClose}
  BY DEF ChannelAssumption, Ops, TypeOK, TypeChannel
<1>2. ASSUME NEW T, NEW how, Settle(T, how), p \notin T \/ how # "resolved",
             confirming' = confirming
      PROVE  G
  BY <1>1, <1>2 DEF Settle
<1>3. ASSUME UNCHANGED <<promise, confirming>> PROVE G
  BY <1>3
<1>4. CASE \/ \E op \in Ops : CallClosed(op)
           \/ \E r \in Rpcs : Invoke(r)
           \/ \E n \in Nowaits : InvokeNowait(n)
  <2>1. PICK T : \E how \in {"pending", "resolved", "rejected"} :
          Settle(T, how) /\ (p \notin T \/ how # "resolved") /\ confirming' = confirming
    BY <1>1, <1>4 DEF CallClosed, Invoke, InvokeNowait, Call
  <2> QED BY <1>2, <2>1
<1>5. CASE \E q \in Pubs : BasicPublish(q)
  <2>1. PICK q \in Pubs : Settle({q}, "pending") /\ confirming' \subseteq confirming \cup {q}
    BY <1>5 DEF BasicPublish, Call
  <2>2. p # q /\ promise[p] = "resolved"
    BY <1>1, <2>1 DEF Settle
  <2> QED BY <2>1, <2>2
<1>6. CASE AfterWrite
  <2>1. /\ confirming' = confirming
        /\ \/ promise' = promise
           \/ Head(written) \notin confirming /\ Settle({Head(written)}, "resolved")
    BY <1>6 DEF AfterWrite
  <2> QED BY <1>2, <1>3, <2>1
<1>7. CASE StreamFail
  BY <1>2, <1>7 DEF StreamFail
<1>8. CASE OnReply
  <2>1. Settle({rpc}, "resolved") /\ rpc # p /\ confirming' = confirming
    BY <1>1, <1>8 DEF OnReply, Receive, SameMethod
  <2> QED BY <1>2, <2>1
<1>9. CASE Clear
  BY <1>2, <1>9 DEF Clear
<1>10. CASE OnConfirm
  <2>1. /\ Settle(Hit(Head(chunk)), IF Head(chunk).kind = "ack" THEN "resolved" ELSE "rejected")
        /\ confirming' = confirming
    BY <1>10 DEF OnConfirm
  <2> QED BY <1>1, <1>10, <2>1 DEF Settle
<1>11. CASE \/ Close \/ WriteFrame \/ FinishWrite \/ FailWrite \/ Stall \/ Drain \/ Bypass
            \/ StreamFinish \/ CloseImmediate \/ ReadChunk \/ OnUnexpected \/ Lose
            \/ (SocketClosed /\ cleared)
  BY <1>3, <1>11 DEF Close, WriteFrame, FinishWrite, FailWrite, Stall, Drain, Bypass, StreamFinish,
     CloseImmediate, ReadChunk, OnUnexpected, Lose, SocketClosed, user
<1>12. CASE BrokerStep \/ BrokerConfirm \/ BrokerKick \/ UNCHANGED vars
  BY <1>3, <1>12 DEF BrokerStep, BrokerHead, BrokerServe, BrokerConfirm, BrokerRefuse, BrokerKick,
     BrokerCloses, BrokerOnClose, BrokerDiscard, BrokerOnCloseOk, BrokerAbort, user, vars
<1>13. CASE OnCloseOk \/ OnChannelClose \/ (SocketClosed /\ ~cleared)
  BY <1>9, <1>13 DEF OnCloseOk, OnChannelClose, SocketClosed
<1> QED
  BY <1>4, <1>5, <1>6, <1>7, <1>8, <1>10, <1>11, <1>12, <1>13
  DEF Next, UserCall, EventLoop, Environment

(* As long as the channel is open a call fails through a nack only.        *)
LEMMA WhoFails ==
  ASSUME ChannelAssumption, TypeOK, CallsOnce, [Next]_vars, active', NEW op \in Elems(calls'),
         promise'[op] = "rejected"
  PROVE  /\ active
         /\ \/ op \in Elems(calls) /\ promise[op] = "rejected"
            \/ OnConfirm /\ op \in Hit(Head(chunk)) /\ Head(chunk).kind # "ack"
<1> DEFINE G == /\ active
                /\ \/ op \in Elems(calls) /\ promise[op] = "rejected"
                   \/ OnConfirm /\ op \in Hit(Head(chunk)) /\ Head(chunk).kind # "ack"
<1>1. calls \in Seq(Ops) /\ Elems(calls) \subseteq Ops
  BY ElemsParts DEF TypeOK, TypeUser
<1>2. ASSUME NEW T, NEW how \in {"pending", "resolved"}, Settle(T, how), active,
             calls' = calls
      PROVE  G
  BY <1>1, <1>2 DEF Settle
<1>3. ASSUME UNCHANGED <<promise, calls>>, active PROVE G
  BY <1>3
<1>4. ASSUME NEW x \in Ops, NEW how \in {"pending", "resolved"}, Call(x, how) PROVE G
  <2>1. active /\ Settle({x}, how) /\ Elems(calls') = Elems(calls) \cup {x}
    BY <1>1, <1>4, ElemsFacts DEF Call
  <2>2. op \in Ops /\ op # x
    BY <1>1, <1>4, <2>1 DEF Settle
  <2> QED BY <2>1, <2>2 DEF Settle
<1>5. CASE \/ \E r \in Rpcs : Invoke(r)
           \/ \E n \in Nowaits : InvokeNowait(n)
           \/ \E p \in Pubs : BasicPublish(p)
  BY <1>4, <1>5 DEF Invoke, InvokeNowait, BasicPublish, Ops
<1>6. CASE AfterWrite
  <2>1. /\ calls' = calls /\ active' = active
        /\ promise' = promise \/ Settle({Head(written)}, "resolved")
    BY <1>6 DEF AfterWrite
  <2> QED BY <1>2, <1>3, <2>1
<1>7. CASE OnReply
  BY <1>2, <1>7 DEF OnReply
<1>8. CASE OnConfirm
  <2>1. /\ Settle(Hit(Head(chunk)), IF Head(chunk).kind = "ack" THEN "resolved" ELSE "rejected")
        /\ calls' = calls /\ active' = active
    BY <1>8 DEF OnConfirm
  <2> QED BY <1>1, <1>8, <2>1 DEF Settle
<1>9. CASE \/ \E x \in Ops : CallClosed(x)
           \/ Close \/ StreamFail \/ OnCloseOk \/ OnChannelClose \/ (SocketClosed /\ ~cleared)
  <2>1. ~active'
    BY <1>9 DEF CallClosed, Close, StartClose, StreamFail, OnCloseOk, OnChannelClose, SocketClosed,
       Clear, chan
  <2> QED BY <2>1
<1>10. CASE \/ WriteFrame \/ FinishWrite \/ FailWrite \/ Stall \/ Drain \/ Bypass
            \/ StreamFinish \/ CloseImmediate \/ ReadChunk \/ OnUnexpected \/ Lose
            \/ (SocketClosed /\ cleared)
  BY <1>3, <1>10 DEF WriteFrame, FinishWrite, FailWrite, Stall, Drain, Bypass, StreamFinish,
     CloseImmediate, ReadChunk, OnUnexpected, Lose, SocketClosed, chan, user
<1>11. CASE BrokerStep \/ BrokerConfirm \/ BrokerKick \/ UNCHANGED vars
  BY <1>3, <1>11 DEF BrokerStep, BrokerHead, BrokerServe, BrokerConfirm, BrokerRefuse, BrokerKick,
     BrokerCloses, BrokerOnClose, BrokerDiscard, BrokerOnCloseOk, BrokerAbort, chan, user, vars
<1> QED
  BY <1>5, <1>6, <1>7, <1>8, <1>9, <1>10, <1>11
  DEF Next, UserCall, EventLoop, Environment

(* What has an outcome at the broker keeps it.                             *)
LEMMA OutcomesKept ==
  ASSUME ChannelAssumption, TypeOK, Tied, OrderInv, FramesGenuine, Selecting, Parting, Publishes,
         Apart, [Next]_vars
  PROVE  /\ acked \subseteq acked' /\ Elems(published) \subseteq Elems(published')
         /\ Elems(published) \ (unacked \cup acked) \subseteq
              Elems(published') \ (unacked' \cup acked')
<1>1. published \in Seq(Ops)
  BY DEF TypeOK, TypeBroker
<1>2. CASE UNCHANGED <<published, acked>> /\ unacked' \in {unacked, {}}
  BY <1>2
<1>3. CASE BrokerServe
  <2> DEFINE x == Head(c2s).op
  <2>1. \/ UNCHANGED <<published, unacked>>
        \/ /\ x \in Ops /\ x \notin Elems(published) /\ s2c' = s2c
           /\ published' = Append(published, x) /\ unacked' = unacked \cup {x}
    BY <1>3, FreshPublish
  <2>2. acked' = acked
    BY <1>3 DEF BrokerServe
  <2> HIDE DEF x
  <2>3. x \in Ops => Elems(Append(published, x)) = Elems(published) \cup {x}
    BY <1>1, ElemsFacts
  <2> QED BY <2>1, <2>2, <2>3
<1>4. CASE BrokerConfirm
  <2>1. PICK f \in BrokerFrames :
          LET hit == About(f, published) \cap unacked
          IN  /\ f.kind \in Confirmations /\ f.tag \in DOMAIN published
              /\ s2c' = Append(s2c, f) /\ unacked' = unacked \ hit
              /\ acked' = IF f.kind = "ack" THEN acked \cup hit ELSE acked
              /\ bState = "open" /\ UNCHANGED <<published, chunk, bState>>
    BY <1>4, GivesConfirm
  <2> QED BY <2>1
<1> QED BY <1>2, <1>3, <1>4, AnswersMove

(* The outcome a promise reports is the broker's.                          *)
LEMMA OutcomeStep ==
  ASSUME ChannelAssumption, TypeOK, Shape, Tied, OrderInv, FramesGenuine, Selecting, Parting,
         Publishes, OwnerInv, TagsAgree, Awaits, Apart, Outcomes, NoFalseAck, NoFalseFailure,
         [Next]_vars
  PROVE  NoFalseAck' /\ NoFalseFailure'
<1>1. /\ acked \subseteq acked' /\ Elems(published) \subseteq Elems(published')
      /\ Elems(published) \ (unacked \cup acked) \subseteq
           Elems(published') \ (unacked' \cup acked')
  BY OutcomesKept
<1>2. ASSUME OnConfirm, NEW p \in Hit(Head(chunk))
      PROVE  /\ p \in Elems(published) \ unacked
             /\ p \in acked <=> Head(chunk).kind = "ack"
  BY <1>2, TakesConfirm
<1>3. NoFalseAck'
  <2> SUFFICES ASSUME NEW p \in confirming', promise'[p] = "resolved" PROVE p \in acked'
    BY DEF NoFalseAck
  <2>1. p \in Pubs
    <3>1. confirming' \subseteq Pubs
      BY TypeStep DEF TypeOK, TypeUser
    <3> QED BY <3>1
  <2>2. \/ p \in confirming /\ promise[p] = "resolved"
        \/ OnConfirm /\ p \in Hit(Head(chunk)) /\ Head(chunk).kind = "ack"
    BY <2>1, WhoResolves
  <2> QED BY <1>1, <1>2, <2>2 DEF NoFalseAck
<1>4. NoFalseFailure'
  <2> SUFFICES ASSUME active', NEW op \in Elems(calls'), promise'[op] = "rejected"
               PROVE  op \in Elems(published') \ (unacked' \cup acked')
    BY DEF NoFalseFailure
  <2>1. /\ active
        /\ \/ op \in Elems(calls) /\ promise[op] = "rejected"
           \/ OnConfirm /\ op \in Hit(Head(chunk)) /\ Head(chunk).kind # "ack"
    BY WhoFails DEF OrderInv
  <2>2. op \in Elems(published) \ (unacked \cup acked)
    BY <1>2, <2>1 DEF NoFalseFailure
  <2> QED BY <1>1, <2>2
<1> QED BY <1>3, <1>4

(* How far the client and the broker can be apart in confirm mode.         *)
ConfirmInv ==
  /\ Registers /\ RegistersNext /\ Selecting /\ Parting /\ Publishes /\ TagsAgree /\ InTime
  /\ Awaits /\ Apart /\ Outcomes /\ NoFalseAck /\ NoFalseFailure

(* It holds at the start.                                                  *)
LEMMA ConfirmInit == ASSUME ChannelAssumption, Init PROVE ConfirmInv
<1> USE DEF Init
<1>1. Elems(<<>>) = {} /\ DOMAIN <<>> = {} /\ <<>> \o <<>> = <<>> /\ Len(<<>>) = 0
  BY DEF Elems
<1>2. Confirms \subseteq Ops /\ Rpcs \subseteq Ops /\ Pubs \subseteq Ops
  BY DEF ChannelAssumption, Ops
<1>3. Registers /\ RegistersNext /\ Publishes
  BY <1>1 DEF Registers, RegistersNext, Publishes, Follow, Before, Complete
<1>4. Selecting
  BY <1>1, <1>2 DEF Selecting
<1>5. Parting
  BY <1>1 DEF Parting, Parted, WireParted, OnTheWay
<1>6. TagsAgree /\ Awaits /\ Apart
  BY <1>1 DEF TagsAgree, Awaits, Apart
<1>7. InTime
  BY <1>1 DEF InTime, Bodies, Finished
<1>8. Outcomes
  BY <1>1 DEF Outcomes, Tells, AllTold, Inbound
<1>9. NoFalseAck /\ NoFalseFailure
  BY <1>1, <1>2 DEF NoFalseAck, NoFalseFailure
<1> QED BY <1>3, <1>4, <1>5, <1>6, <1>7, <1>8, <1>9 DEF ConfirmInv

(* In confirm mode every publish has its own outcome, with single and      *)
(* multiple acks and nacks, publishes before confirm.select and callbacks  *)
(* that run late, provided that nothing is published while confirmSelect() *)
(* is pending and that nobody writes behind a stalled frame (README says   *)
(* what happens otherwise).                                                *)
THEOREM ConfirmsOwn ==
  ASSUME Allowed \cap {"eager", "bypass"} = {} PROVE Spec => []OwnConfirm
<1> DEFINE I == Tied /\ Unended /\ OrderInv /\ FramesGenuine /\ OwnerInv
           J == Service /\ I
<1>1. Init => I /\ ConfirmInv
  BY StreamInit, ContainedInit, OwnerInit, ConfirmInit, ChannelAssumption
<1>2. J /\ [Next]_vars => I'
  BY TiedStep, UnendedStep, OrderStep, GenuineStep, OwnerStep, ChannelAssumption
  DEF Service, ServiceInv
<1>3. ASSUME J, J', ConfirmInv, [Next]_vars PROVE ConfirmInv'
  <2> USE DEF ConfirmInv
  <2>1. /\ TypeOK /\ Shape /\ RepliesServed /\ Tied /\ Unended /\ OrderInv /\ FramesGenuine
        /\ OwnerInv /\ QueuedCalled /\ CallsOnce /\ InCallOrder
    BY <1>3 DEF Service, ServiceInv, OrderInv, OwnerInv
  <2>2. TypeOK' /\ InCallOrder'
    BY <1>3 DEF Service, OrderInv
  <2>3. Registers' /\ RegistersNext'
    BY <1>3, <2>1, RegistersStep, ChannelAssumption
  <2>4. Selecting'
    BY <1>3, <2>1, SelectingStep, ChannelAssumption
  <2>5. Parting'
    BY <1>3, <2>1, PartingStep, ChannelAssumption
  <2>6. Publishes'
    BY <1>3, <2>1, PublishesStep, ChannelAssumption
  <2>7. TagsAgree'
    BY <1>3, <2>1, <2>2, <2>3, <2>6, TagsAgreeStep, ChannelAssumption
  <2>8. InTime'
    BY <1>3, <2>1, InTimeStep, ChannelAssumption
  <2>9. Awaits' /\ Apart'
    BY <1>3, <2>1, AwaitsStep, ApartStep, ChannelAssumption
  <2>10. Outcomes'
    BY <1>3, <2>1, OutcomesStep, ChannelAssumption
  <2>11. NoFalseAck' /\ NoFalseFailure'
    BY <1>3, <2>1, OutcomeStep, ChannelAssumption
  <2> QED BY <2>3, <2>4, <2>5, <2>6, <2>7, <2>8, <2>9, <2>10, <2>11
<1>4. J /\ J' /\ ConfirmInv /\ [Next]_vars => ConfirmInv'
  BY <1>3
<1>5. ConfirmInv => OwnConfirm
  BY DEF ConfirmInv, OwnConfirm
<1>6. Service /\ I <=> J
  OBVIOUS
<1> HIDE DEF I, J
<1> QED BY <1>1, <1>2, <1>4, <1>5, <1>6, ServiceCorrect, PTL DEF Spec
=============================================================================

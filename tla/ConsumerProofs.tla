--------------------------- MODULE ConsumerProofs ---------------------------
(***************************************************************************)
(* Proofs about Consumer for any number of messages, of faults, of starts  *)
(* and of calls of close(), one at a time, and any concurrency.            *)
(***************************************************************************)
EXTENDS Consumer, FiniteSetTheorems, TLAPS

(* close() is not called while one is running.                             *)
OneCloseAtATime == "twice" \notin Allowed

Elements(s) == {s[i] : i \in DOMAIN s}
Alive == {"open", "inactive"}

(* The messages of a sequence, apart from Cancel, are in the order of      *)
(* their delivery.                                                         *)
Rising(s) == \A i, j \in DOMAIN s : i < j /\ s[j] # Cancel => s[i] < s[j]

-----------------------------------------------------------------------------
(* The types, in three parts.                                              *)
TypePhase ==
  /\ noAck \in BOOLEAN /\ limit \in Limits /\ consumerTag \in BOOLEAN
  /\ readyState \in {"CONNECTING", "OPEN", "CLOSING", "CLOSED"}
  /\ setup \in {"none", "jobs", "acquire", "declare", "opened", "failing"}
  /\ closing \in [Closers -> {"none", "returned", "rejected"} \cup Waiting]
  /\ retryTimer \in BOOLEAN /\ connClosing \in BOOLEAN
  /\ faults \in 0..MaxFaults /\ starts \in 0..MaxStarts
TypeChans ==
  /\ ch \in Channels \cup {0} /\ subs \in [Channels -> 0..1]
  /\ chan \in [Channels -> {"none", "open", "inactive", "closed"}]
TypeMsgs ==
  /\ prefetched \in Seq(Msgs) /\ immediates \in Seq(Msgs \cup {Cancel})
  /\ processing \in SUBSET Msgs /\ late \in SUBSET Msgs /\ behind \in SUBSET Msgs
  /\ from \in [Msgs -> Channels \cup {0}] /\ via \in [Msgs -> Channels \cup {0}]
  /\ awaited \in SUBSET Msgs /\ awaiting \in [Closers -> SUBSET Msgs]

(* Channels are numbered as they come; the last one only is alive, and it  *)
(* only has a subscription.                                                *)
Numbered ==
  \A g \in Channels :
    /\ chan[g] = "none" <=> g > ch
    /\ chan[g] \in Alive => g = ch
    /\ subs[g] # 0 => chan[g] \in Alive

(* The one close() that runs, what it has seen to and what it waits for.   *)
CloserPhase ==
  \A k \in Closers :
    /\ \A j \in Closers : closing[k] \in Waiting /\ closing[j] \in Waiting => k = j
    /\ closing[k] \in Waiting => readyState = "CLOSING"
    /\ closing[k] \in Waiting \ {"setup"} => setup = "none"
    /\ closing[k] = "cancel" => Active
    /\ closing[k] \in {"idle", "jobs", "channel"} => \A g \in Channels : subs[g] = 0
InactiveIsClosing ==
  \A g \in Channels : chan[g] = "inactive" => \E k \in Closers : closing[k] = "channel"

(* What a setup at some point says of the channel it works on.             *)
SetupPhase ==
  /\ setup \in {"acquire", "failing"} => \A g \in Channels : chan[g] \notin Alive
  /\ setup = "declare" => Active /\ subs[ch] = 0

(* OpenIsSubscribed, in terms of what is being passed on.                  *)
Subscribed ==
  readyState = "OPEN" => Active /\ (subs[ch] = 1 \/ Cancel \in Elements(immediates))

(* A subscription is known: by the phase, by the tag that close() is to    *)
(* cancel, and by the end of what was read before.                         *)
SubscriptionKnown ==
  \A g \in Channels : subs[g] # 0 =>
    /\ readyState \in {"OPEN", "CLOSING"}
    /\ consumerTag \/ \E k \in Closers : closing[k] = "cancel"
    /\ Cancel \notin Elements(immediates)

(* Messages come in their order: those that have started, those in the     *)
(* buffer, those that are being passed on, those to be delivered.          *)
InOrder ==
  /\ Rising(prefetched) /\ Rising(immediates)
  /\ \A m \in Buffered, n \in Elements(immediates) \ {Cancel} : m < n
  /\ \A m \in Buffered \cup (Elements(immediates) \ {Cancel}) :
       from[m] # 0 /\ \A n \in Msgs : via[n] # 0 => n < m
Delivered ==
  \A m \in Msgs :
    /\ from[m] # 0 => from[m] <= ch /\ \A n \in 1..m : from[n] # 0
    /\ via[m] # 0 => from[m] # 0
    /\ m \in processing => via[m] # 0

(* What waits in the buffer is to be acked on the present channel.         *)
BufferOfChannel ==
  ~noAck => \A m \in Buffered \ late : from[m] = ch /\ chan[ch] \in Alive

NoBufferNeeded == limit = Infinity => prefetched = <<>>

(* Once close() has had the consumer cancelled, new messages come late, so *)
(* that the handlers it has found are all that can matter.                 *)
HandlersFound ==
  \A k \in Closers :
    /\ closing[k] = "jobs" => processing \subseteq awaiting[k] \cup late
    /\ closing[k] \in {"jobs", "channel"} => Buffered \subseteq late

IInv ==
  /\ TypePhase /\ TypeChans /\ TypeMsgs
  /\ Numbered /\ CloserPhase /\ InactiveIsClosing /\ SetupPhase
  /\ OneAttempt /\ Subscribed /\ SubscriptionKnown
  /\ InOrder /\ Delivered /\ BufferOfChannel /\ AckOnOwnChannel
  /\ NoBufferNeeded /\ LimitKept /\ BacklogBusy
  /\ HandlersFound /\ ClosesAfterHandlers /\ ClosedIsStopped

-----------------------------------------------------------------------------
(* Taking the first of a sequence.                                         *)
LEMMA TailFacts ==
  ASSUME NEW S, NEW s \in Seq(S), s # <<>>
  PROVE  /\ Tail(s) \in Seq(S) /\ Head(s) \in S
         /\ Elements(s) = Elements(Tail(s)) \cup {Head(s)}
         /\ Elements(s) \subseteq S
<1>1. /\ Tail(s) \in Seq(S) /\ Len(s) \in Nat /\ Len(s) > 0 /\ Head(s) = s[1]
      /\ DOMAIN s = 1..Len(s) /\ DOMAIN Tail(s) = 1..(Len(s) - 1)
      /\ \A i \in 1..(Len(s) - 1) : Tail(s)[i] = s[i + 1]
  OBVIOUS
<1>2. \A i \in DOMAIN s : i = 1 \/ (i - 1 \in DOMAIN Tail(s) /\ s[i] = Tail(s)[i - 1])
  BY <1>1
<1>3. \A i \in DOMAIN Tail(s) : i + 1 \in DOMAIN s /\ Tail(s)[i] = s[i + 1]
  BY <1>1
<1>4. 1 \in DOMAIN s /\ \A i \in DOMAIN s : s[i] \in S
  BY <1>1
<1> QED BY <1>1, <1>2, <1>3, <1>4 DEF Elements

LEMMA TailRising ==
  ASSUME NEW s \in Seq(Nat), s # <<>>, Rising(s)
  PROVE  Rising(Tail(s)) /\ \A e \in Elements(Tail(s)) \ {Cancel} : Head(s) < e
<1>1. /\ Len(s) \in Nat /\ Len(s) > 0 /\ Head(s) = s[1]
      /\ DOMAIN s = 1..Len(s) /\ DOMAIN Tail(s) = 1..(Len(s) - 1)
      /\ \A i \in 1..(Len(s) - 1) : Tail(s)[i] = s[i + 1]
  OBVIOUS
<1>2. \A i \in DOMAIN Tail(s) : i + 1 \in DOMAIN s /\ 1 \in DOMAIN s /\ 1 < i + 1
  BY <1>1
<1>3. \A i, j \in DOMAIN Tail(s) : i < j => i + 1 < j + 1
  BY <1>1
<1> QED BY <1>1, <1>2, <1>3 DEF Rising, Elements

(* Adding to a sequence at its end.                                        *)
LEMMA AppendFacts ==
  ASSUME NEW S, NEW s \in Seq(S), NEW e \in S
  PROVE  /\ Append(s, e) \in Seq(S) /\ Append(s, e) # <<>>
         /\ Elements(Append(s, e)) = Elements(s) \cup {e}
         /\ Rising(s) /\ (e = Cancel \/ \A d \in Elements(s) : d < e) => Rising(Append(s, e))
<1> DEFINE t == Append(s, e)
<1>1. /\ Len(s) \in Nat /\ DOMAIN s = 1..Len(s) /\ DOMAIN t = 1..(Len(s) + 1)
      /\ \A i \in 1..Len(s) : t[i] = s[i]
      /\ t[Len(s) + 1] = e /\ t \in Seq(S) /\ t # <<>>
  OBVIOUS
<1> HIDE DEF t
<1>2. \A i \in DOMAIN t : (i = Len(s) + 1 /\ t[i] = e) \/ (i \in DOMAIN s /\ t[i] = s[i])
  BY <1>1
<1>3. Elements(t) = Elements(s) \cup {e}
  <2>1. Len(s) + 1 \in DOMAIN t /\ \A i \in DOMAIN s : i \in DOMAIN t
    BY <1>1
  <2> QED BY <1>1, <1>2, <2>1 DEF Elements
<1>4. ASSUME Rising(s), e = Cancel \/ \A d \in Elements(s) : d < e PROVE Rising(t)
  <2> SUFFICES ASSUME NEW i \in DOMAIN t, NEW j \in DOMAIN t, i < j, t[j] # Cancel
               PROVE  t[i] < t[j]
    BY DEF Rising
  <2>1. i \in DOMAIN s /\ t[i] = s[i]
    BY <1>1
  <2>2. CASE j \in DOMAIN s
    BY <1>1, <1>4, <2>1, <2>2 DEF Rising
  <2>3. CASE t[j] = e
    BY <1>4, <2>1, <2>3 DEF Elements
  <2> QED BY <1>2, <2>2, <2>3
<1> QED BY <1>1, <1>3, <1>4 DEF t

LEMMA EmptyFacts == Elements(<<>>) = {} /\ Rising(<<>>)
BY DEF Elements, Rising

(* Messages are numbers, and the handlers are finitely many.               *)
LEMMA MsgFacts ==
  ASSUME ConsumerAssumption, TypePhase, TypeMsgs
  PROVE  /\ Msgs \subseteq Nat /\ Cancel \notin Msgs
         /\ limit \in Nat /\ limit >= 1
         /\ prefetched \in Seq(Nat) /\ immediates \in Seq(Nat)
         /\ IsFiniteSet(processing) /\ Cardinality(processing) \in Nat
<1>1. /\ Msgs \subseteq Nat /\ Cancel \notin Msgs /\ Cancel \in Nat
      /\ limit \in Nat /\ limit >= 1
  BY DEF ConsumerAssumption, TypePhase, Msgs, Infinity, Cancel
<1>2. prefetched \in Seq(Nat) /\ immediates \in Seq(Nat)
  BY <1>1 DEF TypeMsgs
<1>3. IsFiniteSet(Msgs)
  BY FS_Interval DEF ConsumerAssumption, Msgs
<1>4. IsFiniteSet(processing)
  BY <1>3, FS_Subset DEF TypeMsgs
<1> QED BY <1>1, <1>2, <1>4, FS_CardinalityType

(* One handler more, and one less.                                         *)
LEMMA OneMore ==
  ASSUME ConsumerAssumption, TypePhase, TypeMsgs, NEW m \in Msgs, m \notin processing
  PROVE  /\ Cardinality(processing \cup {m}) = Cardinality(processing) + 1
         /\ Cardinality(processing \cup {m}) <= MaxMsgs
<1>1. Cardinality(processing \cup {m}) = Cardinality(processing) + 1
  BY MsgFacts, FS_AddElement
<1>2. IsFiniteSet(Msgs) /\ Cardinality(Msgs) = MaxMsgs
  <2>1. IsFiniteSet(1..MaxMsgs) /\ Cardinality(1..MaxMsgs) = MaxMsgs
    BY FS_Interval DEF ConsumerAssumption
  <2> QED BY <2>1 DEF Msgs
<1>3. processing \cup {m} \subseteq Msgs
  BY DEF TypeMsgs
<1> QED BY <1>1, <1>2, <1>3, FS_Subset
LEMMA OneLess ==
  ASSUME ConsumerAssumption, TypePhase, TypeMsgs, NEW m \in processing
  PROVE  Cardinality(processing \ {m}) = Cardinality(processing) - 1
BY MsgFacts, FS_RemoveElement

-----------------------------------------------------------------------------
(* The buffer as the elements of a sequence; what waits are messages.      *)
LEMMA BufferIs == Buffered = Elements(prefetched) /\ Buffered' = Elements(prefetched')
BY DEF Buffered, Elements
LEMMA WaitingMsgs ==
  ASSUME TypeMsgs
  PROVE  /\ Buffered \subseteq Msgs /\ Elements(immediates) \subseteq Msgs \cup {Cancel}
         /\ prefetched # <<>> => Buffered # {}
<1>1. Buffered \subseteq Msgs /\ Elements(immediates) \subseteq Msgs \cup {Cancel}
  BY DEF TypeMsgs, Buffered, Elements
<1>2. ASSUME prefetched # <<>> PROVE Buffered # {}
  BY SMTT(30), <1>2, TailFacts, BufferIs DEF TypeMsgs
<1> QED BY <1>1, <1>2

(* A message that waits has come by a channel, and has not started.        *)
LEMMA Waits ==
  ASSUME ConsumerAssumption, IInv, NEW m \in Msgs, m \in Buffered \cup Elements(immediates)
  PROVE  via[m] = 0 /\ m \notin processing /\ from[m] \in 1..ch /\ ch \in Channels
<1> USE DEF IInv
<1>1. m # Cancel /\ m \in Nat
  BY MsgFacts
<1>2. from[m] # 0 /\ \A n \in Msgs : via[n] # 0 => n < m
  BY <1>1 DEF InOrder
<1>3. via[m] = 0 /\ m \notin processing
  BY <1>1, <1>2 DEF Delivered
<1>4. from[m] \in Channels /\ from[m] <= ch
  BY <1>2 DEF Delivered, TypeMsgs
<1> QED BY <1>3, <1>4 DEF TypeChans, Channels, ConsumerAssumption

(* The message that DeliverFrame adds comes after all others.              *)
LEMMA DeliverStep ==
  ASSUME ConsumerAssumption, IInv, DeliverFrame
  PROVE  \E m \in Msgs :
           /\ from[m] = 0 /\ \A n \in 1..(m - 1) : from[n] # 0
           /\ from' = [from EXCEPT ![m] = ch] /\ ch # 0 /\ chan[ch] \in Alive
           /\ subs[ch] # 0
           /\ immediates' \in Seq(Msgs \cup {Cancel})
           /\ Elements(immediates') = Elements(immediates) \cup {m}
           /\ Rising(immediates')
           /\ \A n \in Msgs : from[n] # 0 => n < m
           /\ via[m] = 0
<1> USE DEF IInv
<1>1. PICK m \in Msgs :
        /\ from[m] = 0 /\ \A n \in 1..(m - 1) : from[n] # 0
        /\ from' = [from EXCEPT ![m] = ch] /\ ch # 0 /\ chan[ch] \in {"open", "inactive"}
        /\ subs[ch] > 0 /\ immediates' = Append(immediates, m)
  BY DEF DeliverFrame
<1>2. Msgs \subseteq Nat /\ \A n \in Msgs : n >= 1
  BY MsgFacts DEF Msgs, Cancel, ConsumerAssumption
<1>3. \A n \in Msgs : from[n] # 0 => n < m
  <2> SUFFICES ASSUME NEW n \in Msgs, from[n] # 0, ~(n < m) PROVE FALSE
    OBVIOUS
  <2>1. m \in 1..n
    BY <1>2
  <2> QED BY <1>1, <2>1 DEF Delivered
<1>4. \A d \in Elements(immediates) : d # Cancel => d \in Msgs /\ from[d] # 0
  BY DEF InOrder, TypeMsgs, Elements
<1>5. \A d \in Elements(immediates) : d < m
  <2> SUFFICES ASSUME NEW d \in Elements(immediates) PROVE d < m
    OBVIOUS
  <2>1. CASE d = Cancel
    BY <1>2, <2>1 DEF Cancel
  <2>2. CASE d # Cancel
    BY <1>3, <1>4, <2>2
  <2> QED BY <2>1, <2>2
<1>6. /\ immediates' \in Seq(Msgs \cup {Cancel})
      /\ Elements(immediates') = Elements(immediates) \cup {m} /\ Rising(immediates')
  <2> DEFINE S == Msgs \cup {Cancel}
  <2>1. immediates \in Seq(S) /\ m \in S /\ Rising(immediates)
    BY DEF InOrder, TypeMsgs
  <2> HIDE DEF S
  <2>2. /\ Append(immediates, m) \in Seq(S) /\ Rising(Append(immediates, m))
        /\ Elements(Append(immediates, m)) = Elements(immediates) \cup {m}
    BY <1>5, <2>1, AppendFacts
  <2> QED BY <1>1, <2>2 DEF S
<1>7. via[m] = 0 /\ chan[ch] \in Alive /\ subs[ch] # 0
  BY <1>1 DEF Delivered, Alive, TypeChans
<1> QED BY <1>1, <1>3, <1>6, <1>7

(* The first that is passed on comes before the rest, after the buffer.    *)
LEMMA PassedOn ==
  ASSUME ConsumerAssumption, IInv, OnMessage
  PROVE  /\ Head(immediates) \in Msgs
         /\ immediates' \in Seq(Msgs \cup {Cancel}) /\ Rising(immediates')
         /\ Elements(immediates) = Elements(immediates') \cup {Head(immediates)}
         /\ \A n \in Elements(immediates') \ {Cancel} : Head(immediates) < n
         /\ via[Head(immediates)] = 0 /\ Head(immediates) \notin processing /\ ch # 0
         /\ from[Head(immediates)] \in Channels
         /\ ShouldBuffer => /\ prefetched' \in Seq(Msgs) /\ prefetched' # <<>>
                            /\ Elements(prefetched') = Elements(prefetched) \cup {Head(immediates)}
                            /\ Rising(prefetched')
         /\ ~ShouldBuffer => prefetched = <<>> /\ Cardinality(processing') <= limit
<1> USE DEF IInv
<1> DEFINE m == Head(immediates)
<1>1. immediates # <<>> /\ m # Cancel /\ immediates' = Tail(immediates)
  BY DEF OnMessage
<1>2. /\ m \in Msgs /\ immediates' \in Seq(Msgs \cup {Cancel})
      /\ Elements(immediates) = Elements(immediates') \cup {m}
  BY <1>1, TailFacts DEF TypeMsgs
<1>3. Rising(immediates') /\ \A n \in Elements(immediates') \ {Cancel} : m < n
  BY <1>1, MsgFacts, TailRising DEF InOrder
<1>4. via[m] = 0 /\ m \notin processing /\ from[m] \in Channels /\ ch # 0
  <2>1. m \in Elements(immediates)
    BY <1>2
  <2>2. /\ via[m] = 0 /\ m \notin processing /\ from[m] \in 1..ch /\ ch \in Channels
    BY <1>2, <2>1, Waits
  <2> QED BY <2>2 DEF Channels, ConsumerAssumption
<1>5. ASSUME ShouldBuffer
      PROVE  /\ prefetched' \in Seq(Msgs) /\ prefetched' # <<>> /\ Rising(prefetched')
             /\ Elements(prefetched') = Elements(prefetched) \cup {m}
  <2>1. prefetched' = Append(prefetched, m)
    BY <1>5 DEF OnMessage
  <2>2. \A d \in Elements(prefetched) : d < m
    BY <1>1, <1>2 DEF InOrder, Buffered, Elements
  <2> QED BY <1>2, <2>1, <2>2, AppendFacts DEF InOrder, TypeMsgs
<1>6. ASSUME ~ShouldBuffer PROVE prefetched = <<>> /\ Cardinality(processing') <= limit
  <2>1. /\ processing' = processing \cup {m}
        /\ limit = Infinity \/ (prefetched = <<>> /\ ~(Cardinality(processing) >= limit))
    BY <1>6 DEF OnMessage, Prepare, ShouldBuffer, AtLimit
  <2>2. /\ Cardinality(processing') = Cardinality(processing) + 1
        /\ Cardinality(processing') <= MaxMsgs
    BY <1>2, <1>4, <2>1, OneMore
  <2>3. limit \in Nat /\ Cardinality(processing) \in Nat
    BY MsgFacts
  <2> QED BY <2>1, <2>2, <2>3 DEF NoBufferNeeded, Infinity, ConsumerAssumption
<1> QED BY <1>1, <1>2, <1>3, <1>4, <1>5, <1>6

(* The end of a handler leaves room for one more.                          *)
LEMMA NextStarts ==
  ASSUME ConsumerAssumption, IInv, NEW m \in Msgs, HandlerEnds(m)
  PROVE  /\ m \in processing
         /\ prefetched # <<>> =>
              /\ Head(prefetched) \in Msgs \ processing /\ via[Head(prefetched)] = 0 /\ ch # 0
              /\ processing' = (processing \ {m}) \cup {Head(prefetched)}
              /\ via' = [via EXCEPT ![Head(prefetched)] = ch]
              /\ prefetched' \in Seq(Msgs) /\ Rising(prefetched')
              /\ Elements(prefetched) = Elements(prefetched') \cup {Head(prefetched)}
              /\ \A n \in Elements(prefetched') : Head(prefetched) < n
              /\ Cardinality(processing') = Cardinality(processing)
              /\ UNCHANGED closing
         /\ prefetched = <<>> =>
              /\ processing' = processing \ {m} /\ UNCHANGED <<prefetched, via>>
              /\ Cardinality(processing') <= limit
              /\ IF processing' = {} THEN EmitIdle ELSE UNCHANGED closing
<1> USE DEF IInv
<1>1. m \in processing
  BY DEF HandlerEnds
<1>2. /\ Cardinality(processing \ {m}) = Cardinality(processing) - 1
      /\ limit \in Nat /\ Cardinality(processing) \in Nat
  BY <1>1, OneLess, MsgFacts
<1>3. Cardinality(processing \ {m}) < limit
  BY <1>2 DEF LimitKept
<1>4. ASSUME prefetched # <<>>
      PROVE  /\ Head(prefetched) \in Msgs \ processing /\ via[Head(prefetched)] = 0 /\ ch # 0
             /\ processing' = (processing \ {m}) \cup {Head(prefetched)}
             /\ via' = [via EXCEPT ![Head(prefetched)] = ch]
             /\ prefetched' \in Seq(Msgs) /\ Rising(prefetched')
             /\ Elements(prefetched) = Elements(prefetched') \cup {Head(prefetched)}
             /\ \A n \in Elements(prefetched') : Head(prefetched) < n
             /\ Cardinality(processing') = Cardinality(processing)
             /\ UNCHANGED closing
  <2>1. /\ processing' = (processing \ {m}) \cup {Head(prefetched)}
        /\ via' = [via EXCEPT ![Head(prefetched)] = ch]
        /\ prefetched' = Tail(prefetched) /\ UNCHANGED closing
    BY <1>3, <1>4 DEF HandlerEnds, ShiftNext
  <2>2. /\ Head(prefetched) \in Msgs /\ prefetched' \in Seq(Msgs)
        /\ Elements(prefetched) = Elements(prefetched') \cup {Head(prefetched)}
        /\ Elements(prefetched) \subseteq Msgs
    BY <1>4, <2>1, TailFacts DEF TypeMsgs
  <2>3. /\ Rising(prefetched')
        /\ \A n \in Elements(prefetched') \ {Cancel} : Head(prefetched) < n
    BY <1>4, <2>1, MsgFacts, TailRising DEF InOrder
  <2>4. Cancel \notin Elements(prefetched')
    BY <2>2, MsgFacts
  <2>5. Head(prefetched) \in Buffered
    BY <2>2 DEF Buffered, Elements
  <2>6. /\ via[Head(prefetched)] = 0 /\ Head(prefetched) \notin processing
        /\ ch \in Channels
    BY <2>2, <2>5, Waits
  <2>7. ch # 0
    BY <2>6 DEF Channels, ConsumerAssumption
  <2>8. Cardinality(processing') = Cardinality(processing)
    <3>1. IsFiniteSet(processing \ {m}) /\ Head(prefetched) \notin processing \ {m}
      BY <2>6, MsgFacts, FS_Subset
    <3>2. Cardinality(processing') = Cardinality(processing \ {m}) + 1
      BY <2>1, <3>1, FS_AddElement
    <3> QED BY <1>2, <3>2
  <2> QED BY <2>1, <2>2, <2>3, <2>4, <2>6, <2>7, <2>8
<1>5. ASSUME prefetched = <<>>
      PROVE  /\ processing' = processing \ {m} /\ UNCHANGED <<prefetched, via>>
             /\ Cardinality(processing') <= limit
             /\ IF processing' = {} THEN EmitIdle ELSE UNCHANGED closing
  <2>1. /\ processing' = processing \ {m} /\ UNCHANGED <<prefetched, via>>
        /\ IF processing' = {} THEN EmitIdle ELSE UNCHANGED closing
    BY <1>5 DEF HandlerEnds
  <2> QED BY <1>2, <1>3, <2>1
<1> QED BY <1>1, <1>4, <1>5

(* Every step keeps the invariant.                                         *)
LEMMA InvStep == ASSUME ConsumerAssumption, OneCloseAtATime, IInv, [Next]_vars PROVE IInv'
<1> USE DEF IInv
<1>0. CASE UNCHANGED vars
  BY <1>0 DEF vars, AckOnOwnChannel, Active, Alive, BacklogBusy,
     BufferOfChannel, Buffered, Cancel, Channels, ClosedIsStopped,
     CloserPhase, ClosesAfterHandlers, ConsumerAssumption, Delivered,
     Elements, HandlersFound, InOrder, InactiveIsClosing, Late, LimitKept,
     Msgs, NoBufferNeeded, Numbered, OneAttempt, OneCloseAtATime, SetupPhase,
     Stopping, Subscribed, SubscriptionKnown, TypeChans, TypeMsgs, TypePhase,
     Waiting, history, props, work
<1>1. ASSUME DeliverFrame PROVE IInv'
  <2>0. PICK m \in Msgs :
          /\ from[m] = 0 /\ \A n \in 1..(m - 1) : from[n] # 0
          /\ from' = [from EXCEPT ![m] = ch] /\ ch # 0 /\ chan[ch] \in Alive
          /\ subs[ch] # 0
          /\ immediates' \in Seq(Msgs \cup {Cancel})
          /\ Elements(immediates') = Elements(immediates) \cup {m}
          /\ Rising(immediates')
          /\ \A n \in Msgs : from[n] # 0 => n < m
          /\ via[m] = 0 /\ m \in Nat /\ m # Cancel /\ Buffered' = Buffered
          /\ UNCHANGED <<props, readyState, consumerTag, ch, chan, subs, work, late, behind,
                         retryTimer, setup, awaited, closing, awaiting, connClosing, faults,
                         starts>>
    <3>1. UNCHANGED <<props, readyState, consumerTag, ch, chan, subs, work, late, behind,
                         retryTimer, setup, awaited, closing, awaiting, connClosing, faults,
                         starts>>
      BY <1>1 DEF DeliverFrame
    <3>2. Buffered' = Buffered
      BY <3>1 DEF Buffered, work
    <3>3. \A m \in Msgs : m \in Nat /\ m # Cancel
      BY MsgFacts
    <3> QED BY <1>1, <3>1, <3>2, <3>3, DeliverStep
  <2>1. TypeMsgs'
    BY <2>0, WaitingMsgs DEF TypeChans, TypeMsgs, Cancel, props, work, history
  <2>2. Subscribed'
    BY <2>0, WaitingMsgs DEF Subscribed, TypePhase, TypeChans, Active,
       Numbered, CloserPhase, Cancel, SubscriptionKnown, props, work, history
  <2>3. SubscriptionKnown'
    BY <2>0, WaitingMsgs DEF SubscriptionKnown, TypePhase, TypeChans,
       Numbered, Alive, SetupPhase, CloserPhase, ClosedIsStopped, Active,
       Waiting, props, work, history
  <2>4. InOrder'
    <3>1. UNCHANGED <<prefetched, via>> /\ Buffered \subseteq Msgs
      BY <2>0, WaitingMsgs DEF work
    <3>2. \A n \in Msgs : (from[n] # 0 => from'[n] # 0) /\ from'[m] # 0
      BY <2>0 DEF TypeMsgs
    <3>3. \A n \in Msgs : n \in Buffered \/ via[n] # 0 => n < m
      BY <2>0 DEF InOrder, Delivered
    <3>4. Elements(immediates) \ {Cancel} \subseteq Msgs
      BY WaitingMsgs
    <3>5. \A a \in Buffered, b \in Elements(immediates') \ {Cancel} : a < b
      BY <2>0, <3>1, <3>3 DEF InOrder
    <3>6. \A a \in Buffered \cup (Elements(immediates') \ {Cancel}) :
            from'[a] # 0 /\ \A n \in Msgs : via[n] # 0 => n < a
      BY <2>0, <3>1, <3>2, <3>3, <3>4 DEF InOrder
    <3> QED BY <2>0, <3>1, <3>5, <3>6 DEF InOrder
  <2>5. Delivered'
    <3>1. \A n \in Msgs : from'[n] = IF n = m THEN ch ELSE from[n]
      BY <2>0 DEF TypeMsgs
    <3>2. ch' = ch /\ ch \in Nat /\ ch # 0 /\ UNCHANGED <<via, processing>>
      BY <2>0 DEF TypeChans, Channels, ConsumerAssumption, work
    <3>3. \A n \in Msgs : from'[n] # 0 => from'[n] <= ch'
      BY <3>1, <3>2 DEF Delivered
    <3>4. \A n \in Msgs : n \in Nat /\ \A e \in 1..n : e \in Msgs
      BY DEF Msgs, ConsumerAssumption
    <3>5. \A n \in Msgs : from'[n] # 0 => \A e \in 1..n : from'[e] # 0
      <4>1. \A e \in 1..m : e = m \/ e \in 1..(m - 1)
        BY <2>0
      <4> QED BY <2>0, <3>1, <3>2, <3>4, <4>1 DEF Delivered
    <3>6. \A n \in Msgs : (via'[n] # 0 => from'[n] # 0) /\ (n \in processing' => via'[n] # 0)
      BY <3>1, <3>2 DEF Delivered
    <3> QED BY <3>3, <3>5, <3>6 DEF Delivered
  <2>6. BufferOfChannel'
    BY <2>0, WaitingMsgs DEF BufferOfChannel, TypeMsgs, TypeChans, Numbered,
       Alive, SetupPhase, Active, props, work, history
  <2>7. AckOnOwnChannel'
    BY <2>0, WaitingMsgs DEF AckOnOwnChannel, TypeMsgs, TypeChans,
       BufferOfChannel, Numbered, Alive, Late, props, work, history
  <2>8. TypePhase' /\ TypeChans' /\ Numbered' /\ CloserPhase' /\
     InactiveIsClosing' /\ SetupPhase' /\ OneAttempt' /\ NoBufferNeeded' /\
     LimitKept' /\ BacklogBusy' /\ HandlersFound' /\ ClosesAfterHandlers' /\
     ClosedIsStopped'
    BY <2>0, WaitingMsgs DEF props, work, history, TypePhase, TypeChans,
       Numbered, CloserPhase, InactiveIsClosing, SetupPhase, OneAttempt,
       NoBufferNeeded, LimitKept, BacklogBusy, HandlersFound,
       ClosesAfterHandlers, ClosedIsStopped, Active, Stopping
  <2> QED BY <2>1, <2>2, <2>3, <2>4, <2>5, <2>6, <2>7, <2>8
<1>2. ASSUME OnMessage, ShouldBuffer PROVE IInv'
  <2> DEFINE m == Head(immediates)
  <2>0. /\ m \in Msgs /\ m \in Elements(immediates) /\ from[m] \in Channels
        /\ prefetched' # <<>> /\ prefetched' \in Seq(Msgs)
        /\ Buffered' = Buffered \cup {m} /\ Rising(prefetched')
        /\ immediates' \in Seq(Msgs \cup {Cancel})
        /\ Elements(immediates) = Elements(immediates') \cup {m} /\ Rising(immediates')
        /\ \A n \in Elements(immediates') \ {Cancel} : m < n
        /\ late' = IF Late(m) THEN late \cup {m} ELSE late
        /\ behind' = IF Buffered \cap (late \cup behind) # {} THEN behind \cup {m} ELSE behind
        /\ UNCHANGED <<processing, via>>
        /\ via[m] = 0 /\ m # Cancel /\ m \in Nat /\ Msgs \subseteq Nat /\ ch # 0
        /\ limit # Infinity
        /\ UNCHANGED <<props, readyState, consumerTag, ch, chan, subs, from, retryTimer,
                       setup, awaited, closing, awaiting, connClosing, faults, starts>>
        /\ prefetched # <<>> \/ Cardinality(processing) >= limit \/ (~noAck /\ readyState = "CLOSING")
    BY <1>2, PassedOn, MsgFacts, BufferIs DEF OnMessage, ShouldBuffer, AtLimit
  <2> HIDE DEF m
  <2>1. TypeMsgs'
    BY <2>0, WaitingMsgs DEF TypeMsgs, Cancel, props, work, history
  <2>2. Subscribed'
    BY <2>0, WaitingMsgs DEF Subscribed, TypePhase, TypeChans, Active,
       Numbered, CloserPhase, Cancel, SubscriptionKnown, props, work, history
  <2>3. SubscriptionKnown'
    BY <2>0, WaitingMsgs DEF SubscriptionKnown, TypePhase, TypeChans,
       Numbered, Alive, SetupPhase, CloserPhase, ClosedIsStopped, Active,
       Waiting, props, work, history
  <2>4. InOrder'
    BY SMTT(30), <2>0, WaitingMsgs DEF InOrder, TypeMsgs, Delivered, props, work,
       history
  <2>5. BufferOfChannel'
    BY <2>0, WaitingMsgs DEF Late, BufferOfChannel, TypeMsgs, TypeChans,
       Numbered, Alive, SetupPhase, Active, props, work, history
  <2>6. AckOnOwnChannel'
    BY <2>0, WaitingMsgs DEF AckOnOwnChannel, TypeMsgs, TypeChans,
       BufferOfChannel, Numbered, Alive, Late, props, work, history
  <2>7. NoBufferNeeded'
    BY <2>0, WaitingMsgs DEF NoBufferNeeded, TypePhase, props, work, history
  <2>8. BacklogBusy'
    BY <2>0, WaitingMsgs DEF BacklogBusy, Stopping, TypeMsgs, TypePhase,
       ClosedIsStopped, props, work, history
  <2>9. HandlersFound'
    BY <2>0, WaitingMsgs DEF Late, Numbered, Alive, HandlersFound, TypeMsgs,
       TypePhase, CloserPhase, Waiting, props, work, history
  <2>10. ClosesAfterHandlers'
    BY <2>0, WaitingMsgs DEF Late, Waiting, ClosesAfterHandlers, TypeMsgs,
       TypePhase, HandlersFound, CloserPhase, props, work, history
  <2>11. ClosedIsStopped'
    BY <2>0, WaitingMsgs DEF Late, ClosedIsStopped, Active, TypePhase,
       TypeChans, OneAttempt, CloserPhase, Waiting, HandlersFound,
       ClosesAfterHandlers, Numbered, Alive, props, work, history
  <2>12. TypePhase' /\ TypeChans' /\ Numbered' /\ CloserPhase' /\
     InactiveIsClosing' /\ SetupPhase' /\ OneAttempt' /\ Delivered' /\
     LimitKept'
    BY <2>0, WaitingMsgs DEF props, work, history, TypePhase, TypeChans,
       Numbered, CloserPhase, InactiveIsClosing, SetupPhase, OneAttempt,
       Delivered, LimitKept, Active
  <2> QED BY <2>1, <2>2, <2>3, <2>4, <2>5, <2>6, <2>7, <2>8, <2>9, <2>10,
     <2>11, <2>12
<1>3. ASSUME OnMessage, ~ShouldBuffer PROVE IInv'
  <2> DEFINE m == Head(immediates)
  <2>0. /\ m \in Msgs /\ m \in Elements(immediates) /\ from[m] \in Channels
        /\ prefetched = <<>> /\ prefetched' = prefetched /\ Buffered = {} /\ Buffered' = {}
        /\ immediates' \in Seq(Msgs \cup {Cancel})
        /\ Elements(immediates) = Elements(immediates') \cup {m} /\ Rising(immediates')
        /\ \A n \in Elements(immediates') \ {Cancel} : m < n
        /\ late' = IF Late(m) THEN late \cup {m} ELSE late
        /\ behind' = behind
        /\ UNCHANGED <<props, readyState, consumerTag, ch, chan, subs, from, retryTimer,
                       setup, awaited, closing, awaiting, connClosing, faults, starts>>
        /\ processing' = processing \cup {m} /\ via' = [via EXCEPT ![m] = ch]
        /\ via[m] = 0 /\ ch # 0 /\ m # Cancel /\ m \in Nat /\ Msgs \subseteq Nat
        /\ Cardinality(processing') <= limit
    BY <1>3, PassedOn, MsgFacts, EmptyFacts, BufferIs DEF OnMessage, Prepare
  <2> HIDE DEF m
  <2>1. TypeMsgs'
    BY <2>0, WaitingMsgs DEF TypeChans, TypeMsgs, Cancel, props, work, history
  <2>2. Subscribed'
    BY <2>0, WaitingMsgs DEF Subscribed, TypePhase, TypeChans, Active,
       Numbered, CloserPhase, Cancel, SubscriptionKnown, props, work, history
  <2>3. SubscriptionKnown'
    BY <2>0, WaitingMsgs DEF SubscriptionKnown, TypePhase, TypeChans,
       Numbered, Alive, SetupPhase, CloserPhase, ClosedIsStopped, Active,
       Waiting, props, work, history
  <2>4. InOrder'
    BY <2>0, WaitingMsgs DEF InOrder, TypeMsgs, Delivered, props, work,
       history
  <2>5. Delivered'
    BY SMTT(30), <2>0, WaitingMsgs DEF Delivered, TypeMsgs, TypeChans, Msgs, Channels,
       ConsumerAssumption, props, work, history
  <2>6. BufferOfChannel'
    BY <2>0, WaitingMsgs DEF BufferOfChannel, TypeMsgs, TypeChans, Numbered,
       Alive, SetupPhase, Active, props, work, history
  <2>7. AckOnOwnChannel'
    BY <2>0, WaitingMsgs DEF AckOnOwnChannel, TypeMsgs, TypeChans,
       BufferOfChannel, Numbered, Alive, Late, props, work, history
  <2>8. LimitKept'
    BY <2>0, WaitingMsgs DEF LimitKept, TypePhase, props, work, history
  <2>9. BacklogBusy'
    BY <2>0, WaitingMsgs DEF BacklogBusy, Stopping, TypeMsgs, TypePhase,
       ClosedIsStopped, props, work, history
  <2>10. HandlersFound'
    BY <2>0, WaitingMsgs DEF Late, Numbered, Alive, HandlersFound, TypeMsgs,
       TypePhase, CloserPhase, Waiting, props, work, history
  <2>11. ClosesAfterHandlers'
    BY <2>0, WaitingMsgs DEF Late, Waiting, ClosesAfterHandlers, TypeMsgs,
       TypePhase, HandlersFound, CloserPhase, props, work, history
  <2>12. ClosedIsStopped'
    BY <2>0, WaitingMsgs DEF Late, ClosedIsStopped, Active, TypePhase,
       TypeChans, OneAttempt, CloserPhase, Waiting, HandlersFound,
       ClosesAfterHandlers, Numbered, Alive, props, work, history
  <2>13. TypePhase' /\ TypeChans' /\ Numbered' /\ CloserPhase' /\
     InactiveIsClosing' /\ SetupPhase' /\ OneAttempt' /\ NoBufferNeeded'
    BY <2>0, WaitingMsgs DEF props, work, history, TypePhase, TypeChans,
       Numbered, CloserPhase, InactiveIsClosing, SetupPhase, OneAttempt,
       NoBufferNeeded, Active
  <2> QED BY <2>1, <2>2, <2>3, <2>4, <2>5, <2>6, <2>7, <2>8, <2>9, <2>10,
     <2>11, <2>12, <2>13
<1>4. ASSUME NEW m \in Msgs, HandlerEnds(m), prefetched # <<>> PROVE IInv'
  <2> DEFINE n == Head(prefetched)
  <2>0. /\ m \in processing /\ n \in Msgs \ processing /\ via[n] = 0 /\ ch # 0
        /\ processing' = (processing \ {m}) \cup {n}
        /\ via' = [via EXCEPT ![n] = ch]
        /\ prefetched' \in Seq(Msgs) /\ Rising(prefetched')
        /\ Buffered = Buffered' \cup {n}
        /\ \A e \in Buffered' : n < e
        /\ Cardinality(processing') = Cardinality(processing)
        /\ prefetched # <<>> /\ Msgs \subseteq Nat
        /\ UNCHANGED <<props, readyState, consumerTag, ch, chan, subs, history, immediates,
                       retryTimer, setup, awaited, closing, awaiting, connClosing, faults, starts>>
    BY <1>4, NextStarts, MsgFacts, BufferIs DEF HandlerEnds
  <2> HIDE DEF n
  <2>1. TypeMsgs'
    BY <2>0, WaitingMsgs DEF TypeChans, TypeMsgs, Cancel, props, work, history
  <2>2. InOrder'
    BY <2>0, WaitingMsgs DEF InOrder, TypeMsgs, Delivered, props, work,
       history
  <2>3. Delivered'
    BY <2>0, WaitingMsgs DEF InOrder, Delivered, TypeMsgs, TypeChans, Msgs,
       Channels, ConsumerAssumption, props, work, history
  <2>4. BufferOfChannel'
    BY <2>0, WaitingMsgs DEF BufferOfChannel, TypeMsgs, TypeChans, Numbered,
       Alive, SetupPhase, Active, props, work, history
  <2>5. AckOnOwnChannel'
    BY <2>0, WaitingMsgs DEF AckOnOwnChannel, TypeMsgs, TypeChans,
       BufferOfChannel, Numbered, Alive, Late, props, work, history
  <2>6. NoBufferNeeded'
    BY <2>0, WaitingMsgs DEF NoBufferNeeded, TypePhase, props, work, history
  <2>7. LimitKept'
    BY <2>0, WaitingMsgs DEF LimitKept, TypePhase, props, work, history
  <2>8. BacklogBusy'
    BY <2>0, WaitingMsgs DEF BacklogBusy, Stopping, TypeMsgs, TypePhase,
       ClosedIsStopped, props, work, history
  <2>9. HandlersFound'
    BY <2>0, WaitingMsgs DEF HandlersFound, TypeMsgs, TypePhase, CloserPhase,
       Waiting, props, work, history
  <2>10. ClosesAfterHandlers'
    BY <2>0, WaitingMsgs DEF ClosesAfterHandlers, TypeMsgs, TypePhase,
       HandlersFound, CloserPhase, props, work, history
  <2>11. ClosedIsStopped'
    BY <2>0, WaitingMsgs DEF ClosedIsStopped, Active, TypePhase, TypeChans,
       OneAttempt, CloserPhase, Waiting, HandlersFound, ClosesAfterHandlers,
       Numbered, Alive, props, work, history
  <2>12. TypePhase' /\ TypeChans' /\ Numbered' /\ CloserPhase' /\
     InactiveIsClosing' /\ SetupPhase' /\ OneAttempt' /\ Subscribed' /\
     SubscriptionKnown'
    BY <2>0, WaitingMsgs DEF props, work, history, TypePhase, TypeChans,
       Numbered, CloserPhase, InactiveIsClosing, SetupPhase, OneAttempt,
       Subscribed, SubscriptionKnown, Active
  <2> QED BY <2>1, <2>2, <2>3, <2>4, <2>5, <2>6, <2>7, <2>8, <2>9, <2>10,
     <2>11, <2>12
<1>5. ASSUME NEW m \in Msgs, HandlerEnds(m), prefetched = <<>> PROVE IInv'
  <2>0. /\ m \in processing /\ processing' = processing \ {m}
        /\ UNCHANGED <<prefetched, via>> /\ prefetched = <<>> /\ Buffered = {} /\ Buffered' = {}
        /\ Cardinality(processing') <= limit
        /\ IF processing' = {} THEN EmitIdle ELSE UNCHANGED closing
        /\ UNCHANGED <<props, readyState, consumerTag, ch, chan, subs, history, immediates,
                       retryTimer, setup, awaited, awaiting, connClosing, faults, starts>>
    BY <1>5, NextStarts, EmptyFacts, BufferIs DEF HandlerEnds
  <2>1. TypePhase'
    BY <2>0, WaitingMsgs DEF EmitIdle, TypePhase, Waiting, props, work,
       history
  <2>2. TypeMsgs'
    BY <2>0, WaitingMsgs DEF EmitIdle, TypeMsgs, Cancel, props, work, history
  <2>3. CloserPhase'
    BY <2>0, WaitingMsgs DEF EmitIdle, CloserPhase, TypePhase, TypeChans,
       Waiting, Active, Numbered, Alive, OneAttempt, SubscriptionKnown,
       SetupPhase, OneCloseAtATime, props, work, history
  <2>4. InactiveIsClosing'
    BY <2>0, WaitingMsgs DEF EmitIdle, InactiveIsClosing, TypePhase,
       TypeChans, Numbered, CloserPhase, Waiting, Alive, props, work, history
  <2>5. SubscriptionKnown'
    BY <2>0, WaitingMsgs DEF EmitIdle, SubscriptionKnown, TypePhase,
       TypeChans, Numbered, Alive, SetupPhase, CloserPhase, ClosedIsStopped,
       Active, Waiting, props, work, history
  <2>6. Delivered'
    BY <2>0, WaitingMsgs DEF EmitIdle, Delivered, TypeMsgs, TypeChans, Msgs,
       Channels, ConsumerAssumption, props, work, history
  <2>7. LimitKept'
    BY <2>0, WaitingMsgs DEF EmitIdle, LimitKept, TypePhase, props, work,
       history
  <2>8. BacklogBusy'
    BY <2>0, WaitingMsgs DEF EmitIdle, BacklogBusy, Stopping, TypeMsgs,
       TypePhase, ClosedIsStopped, props, work, history
  <2>9. HandlersFound'
    BY <2>0, WaitingMsgs DEF EmitIdle, HandlersFound, TypeMsgs, TypePhase,
       CloserPhase, Waiting, props, work, history
  <2>10. ClosesAfterHandlers'
    BY <2>0, WaitingMsgs DEF EmitIdle, ClosesAfterHandlers, TypeMsgs,
       TypePhase, HandlersFound, CloserPhase, props, work, history
  <2>11. ClosedIsStopped'
    BY <2>0, WaitingMsgs DEF EmitIdle, ClosedIsStopped, Active, TypePhase,
       TypeChans, OneAttempt, CloserPhase, Waiting, HandlersFound,
       ClosesAfterHandlers, Numbered, Alive, props, work, history
  <2>12. TypeChans' /\ Numbered' /\ SetupPhase' /\ OneAttempt' /\ Subscribed'
     /\ InOrder' /\ BufferOfChannel' /\ AckOnOwnChannel' /\ NoBufferNeeded'
    BY <2>0, WaitingMsgs DEF props, work, history, TypeChans, Numbered,
       SetupPhase, OneAttempt, Subscribed, InOrder, BufferOfChannel,
       AckOnOwnChannel, NoBufferNeeded, Active
  <2> QED BY <2>1, <2>2, <2>3, <2>4, <2>5, <2>6, <2>7, <2>8, <2>9, <2>10,
     <2>11, <2>12
<1>6. ASSUME RetryFires PROVE IInv'
  <2>1. TypePhase'
    BY <1>6 DEF RetryFires, Connect, TypePhase, Waiting, props, work, history
  <2>2. TypeMsgs'
    BY <1>6 DEF RetryFires, Connect, TypeMsgs, Cancel, props, work, history
  <2>3. CloserPhase'
    BY <1>6 DEF RetryFires, Connect, CloserPhase, TypePhase, TypeChans,
       Waiting, Active, Numbered, Alive, OneAttempt, SubscriptionKnown,
       SetupPhase, OneCloseAtATime, props, work, history
  <2>4. SetupPhase'
    BY <1>6 DEF RetryFires, Connect, SetupPhase, TypePhase, TypeChans, Active,
       Alive, Numbered, CloserPhase, InactiveIsClosing, SubscriptionKnown,
       OneAttempt, Waiting, props, work, history
  <2>5. OneAttempt'
    BY <1>6 DEF RetryFires, Connect, OneAttempt, TypePhase, CloserPhase,
       Waiting, ClosedIsStopped, props, work, history
  <2>6. ClosedIsStopped'
    BY <1>6 DEF RetryFires, Connect, ClosedIsStopped, Active, TypePhase,
       TypeChans, OneAttempt, CloserPhase, Waiting, HandlersFound,
       ClosesAfterHandlers, Numbered, Alive, Buffered, props, work, history
  <2>7. TypeChans' /\ Numbered' /\ InactiveIsClosing' /\ Subscribed' /\
     SubscriptionKnown' /\ InOrder' /\ Delivered' /\ BufferOfChannel' /\
     AckOnOwnChannel' /\ NoBufferNeeded' /\ LimitKept' /\ BacklogBusy' /\
     HandlersFound' /\ ClosesAfterHandlers'
    BY <1>6 DEF RetryFires, Connect, props, work, history, TypeChans,
       Numbered, InactiveIsClosing, Subscribed, SubscriptionKnown, InOrder,
       Delivered, BufferOfChannel, AckOnOwnChannel, NoBufferNeeded, LimitKept,
       BacklogBusy, HandlersFound, ClosesAfterHandlers, Active, Buffered,
       Stopping
  <2> QED BY <2>1, <2>2, <2>3, <2>4, <2>5, <2>6, <2>7
<1>7. ASSUME SetupAfterJobs PROVE IInv'
  <2>1. TypePhase'
    BY <1>7 DEF SetupAfterJobs, TypePhase, Waiting, props, work, history
  <2>2. TypeMsgs'
    BY <1>7 DEF SetupAfterJobs, TypeMsgs, Cancel, props, work, history
  <2>3. CloserPhase'
    BY <1>7 DEF SetupAfterJobs, CloserPhase, TypePhase, TypeChans, Waiting,
       Active, Numbered, Alive, OneAttempt, SubscriptionKnown, SetupPhase,
       OneCloseAtATime, props, work, history
  <2>4. SetupPhase'
    <3>1. setup = "jobs" /\ UNCHANGED <<ch, chan, subs>>
      BY <1>7 DEF SetupAfterJobs
    <3>2. CASE readyState = "CLOSING"
      BY <1>7, <3>2 DEF SetupAfterJobs, SetupPhase
    <3>3. CASE readyState # "CLOSING" /\ Active
      <4>1. setup' = "declare" /\ ch \in Channels
        BY <1>7, <3>3 DEF SetupAfterJobs, Active, TypeChans
      <4>2. subs[ch] = 0
        BY <3>1, <3>3, <4>1 DEF SubscriptionKnown, OneAttempt
      <4> QED BY <3>1, <3>3, <4>1, <4>2 DEF SetupPhase, Active
    <3>4. CASE readyState # "CLOSING" /\ ~Active
      <4>1. setup' = "acquire"
        BY <1>7, <3>4 DEF SetupAfterJobs
      <4>2. \A g \in Channels : chan[g] # "inactive"
        BY <3>1 DEF InactiveIsClosing, CloserPhase, Waiting
      <4>3. \A g \in Channels : chan[g] # "open"
        BY <3>4 DEF Active, Numbered, Alive, Channels, ConsumerAssumption
      <4> QED BY <3>1, <4>1, <4>2, <4>3 DEF SetupPhase, Alive
    <3> QED BY <3>2, <3>3, <3>4
  <2>5. OneAttempt'
    BY <1>7 DEF SetupAfterJobs, OneAttempt, TypePhase, CloserPhase, Waiting,
       ClosedIsStopped, props, work, history
  <2>6. ClosedIsStopped'
    BY <1>7 DEF SetupAfterJobs, ClosedIsStopped, Active, TypePhase, TypeChans,
       OneAttempt, CloserPhase, Waiting, HandlersFound, ClosesAfterHandlers,
       Numbered, Alive, Buffered, props, work, history
  <2>7. TypeChans' /\ Numbered' /\ InactiveIsClosing' /\ Subscribed' /\
     SubscriptionKnown' /\ InOrder' /\ Delivered' /\ BufferOfChannel' /\
     AckOnOwnChannel' /\ NoBufferNeeded' /\ LimitKept' /\ BacklogBusy' /\
     HandlersFound' /\ ClosesAfterHandlers'
    BY <1>7 DEF SetupAfterJobs, props, work, history, TypeChans, Numbered,
       InactiveIsClosing, Subscribed, SubscriptionKnown, InOrder, Delivered,
       BufferOfChannel, AckOnOwnChannel, NoBufferNeeded, LimitKept,
       BacklogBusy, HandlersFound, ClosesAfterHandlers, Active, Buffered,
       Stopping
  <2> QED BY <2>1, <2>2, <2>3, <2>4, <2>5, <2>6, <2>7
<1>8. ASSUME SetupAcquired PROVE IInv'
  <2>1. TypePhase'
    BY <1>8 DEF SetupAcquired, TypePhase, Waiting, props, work, history
  <2>2. TypeChans'
    BY <1>8 DEF SetupAcquired, TypeChans, Channels, props, work, history
  <2>3. Numbered'
    BY <1>8 DEF SetupAcquired, Numbered, TypeChans, Alive, Channels,
       SetupPhase, Active, ConsumerAssumption, props, work, history
  <2>4. CloserPhase'
    BY <1>8 DEF SetupAcquired, CloserPhase, TypePhase, TypeChans, Waiting,
       Active, Numbered, Alive, OneAttempt, SubscriptionKnown, SetupPhase,
       OneCloseAtATime, props, work, history
  <2>5. InactiveIsClosing'
    BY <1>8 DEF SetupAcquired, InactiveIsClosing, TypePhase, TypeChans,
       Numbered, CloserPhase, Waiting, Alive, props, work, history
  <2>6. SetupPhase'
    <3>1. setup' = "declare" /\ ch' = ch + 1 /\ chan' = [chan EXCEPT ![ch + 1] = "open"]
      BY <1>8 DEF SetupAcquired
    <3>2. ch \in Nat /\ ch + 1 \in Channels /\ subs' = subs
      BY <1>8 DEF SetupAcquired, TypeChans, Channels, ConsumerAssumption
    <3>3. subs[ch + 1] = 0
      BY <3>2 DEF Numbered, Alive
    <3> QED BY <3>1, <3>2, <3>3 DEF SetupPhase, Active, TypeChans
  <2>7. OneAttempt'
    BY <1>8 DEF SetupAcquired, OneAttempt, TypePhase, CloserPhase, Waiting,
       ClosedIsStopped, props, work, history
  <2>8. Subscribed'
    BY <1>8 DEF OneAttempt, SetupAcquired, Subscribed, TypePhase, TypeChans,
       Elements, Active, Numbered, CloserPhase, Cancel, SubscriptionKnown,
       props, work, history
  <2>9. Delivered'
    BY SMTT(30), <1>8 DEF SetupAcquired, Delivered, TypeMsgs, TypeChans, Msgs, Channels,
       ConsumerAssumption, props, work, history
  <2>10. BufferOfChannel'
    <3>1. \A g \in Channels : chan[g] \notin Alive
      BY <1>8 DEF SetupAcquired, SetupPhase
    <3>2. ~noAck => Buffered \subseteq late
      BY <3>1, WaitingMsgs DEF BufferOfChannel, TypeMsgs, InOrder
    <3>3. UNCHANGED <<noAck, prefetched, late>>
      BY <1>8 DEF SetupAcquired, props, work, history
    <3> QED BY <3>2, <3>3 DEF BufferOfChannel, Buffered
  <2>11. ClosedIsStopped'
    BY <1>8 DEF SetupAcquired, ClosedIsStopped, Active, TypePhase, TypeChans,
       OneAttempt, CloserPhase, Waiting, HandlersFound, ClosesAfterHandlers,
       Numbered, Alive, Buffered, props, work, history
  <2>12. TypeMsgs' /\ SubscriptionKnown' /\ InOrder' /\ AckOnOwnChannel' /\
     NoBufferNeeded' /\ LimitKept' /\ BacklogBusy' /\ HandlersFound' /\
     ClosesAfterHandlers'
    BY <1>8 DEF SetupAcquired, props, work, history, TypeMsgs,
       SubscriptionKnown, InOrder, AckOnOwnChannel, NoBufferNeeded, LimitKept,
       BacklogBusy, HandlersFound, ClosesAfterHandlers, Buffered, Stopping
  <2> QED BY <2>1, <2>2, <2>3, <2>4, <2>5, <2>6, <2>7, <2>8, <2>9, <2>10,
     <2>11, <2>12
<1>9. ASSUME AcquireFails PROVE IInv'
  <2>1. TypePhase'
    BY <1>9 DEF AcquireFails, Fault, TypePhase, Waiting, props, work, history
  <2>2. CloserPhase'
    BY <1>9 DEF AcquireFails, Fault, CloserPhase, TypePhase, TypeChans,
       Waiting, Active, Numbered, Alive, OneAttempt, SubscriptionKnown,
       SetupPhase, OneCloseAtATime, props, work, history
  <2>3. SetupPhase'
    BY <1>9 DEF AcquireFails, Fault, SetupPhase, TypePhase, TypeChans, Active,
       Alive, Numbered, CloserPhase, InactiveIsClosing, SubscriptionKnown,
       OneAttempt, Waiting, props, work, history
  <2>4. OneAttempt'
    BY <1>9 DEF AcquireFails, Fault, OneAttempt, TypePhase, CloserPhase,
       Waiting, ClosedIsStopped, props, work, history
  <2>5. ClosedIsStopped'
    BY <1>9 DEF AcquireFails, Fault, ClosedIsStopped, Active, TypePhase,
       TypeChans, OneAttempt, CloserPhase, Waiting, HandlersFound,
       ClosesAfterHandlers, Numbered, Alive, Buffered, props, work, history
  <2>6. TypeChans' /\ TypeMsgs' /\ Numbered' /\ InactiveIsClosing' /\
     Subscribed' /\ SubscriptionKnown' /\ InOrder' /\ Delivered' /\
     BufferOfChannel' /\ AckOnOwnChannel' /\ NoBufferNeeded' /\ LimitKept' /\
     BacklogBusy' /\ HandlersFound' /\ ClosesAfterHandlers'
    BY <1>9 DEF AcquireFails, Fault, props, work, history, TypeChans,
       TypeMsgs, Numbered, InactiveIsClosing, Subscribed, SubscriptionKnown,
       InOrder, Delivered, BufferOfChannel, AckOnOwnChannel, NoBufferNeeded,
       LimitKept, BacklogBusy, HandlersFound, ClosesAfterHandlers, Active,
       Buffered, Stopping
  <2> QED BY <2>1, <2>2, <2>3, <2>4, <2>5, <2>6
<1>10. ASSUME SetupConsumes PROVE IInv'
  <2>1. TypePhase'
    BY <1>10 DEF SetupConsumes, NextTurn, Opened, TypePhase, Waiting, props,
       work, history
  <2>2. TypeChans'
    BY <1>10 DEF SetupPhase, Active, SetupConsumes, NextTurn, Opened,
       TypeChans, Channels, props, work, history
  <2>3. Numbered'
    BY <1>10 DEF SetupConsumes, NextTurn, Opened, Numbered, TypeChans, Alive,
       Channels, SetupPhase, Active, ConsumerAssumption, props, work, history
  <2>4. CloserPhase'
    BY <1>10 DEF SetupConsumes, NextTurn, Opened, CloserPhase, TypePhase,
       TypeChans, Waiting, Active, Numbered, Alive, OneAttempt,
       SubscriptionKnown, SetupPhase, OneCloseAtATime, props, work, history
  <2>5. SetupPhase'
    BY <1>10 DEF SetupConsumes, NextTurn, Opened, SetupPhase, TypePhase,
       TypeChans, Active, Alive, Numbered, CloserPhase, InactiveIsClosing,
       SubscriptionKnown, OneAttempt, Waiting, props, work, history
  <2>6. OneAttempt'
    BY <1>10 DEF SetupConsumes, NextTurn, Opened, OneAttempt, TypePhase,
       CloserPhase, Waiting, ClosedIsStopped, props, work, history
  <2>7. Subscribed'
    BY <1>10 DEF SetupPhase, Numbered, Alive, SetupConsumes, NextTurn, Opened,
       Subscribed, TypePhase, TypeChans, Elements, Active, CloserPhase,
       Cancel, SubscriptionKnown, props, work, history
  <2>8. SubscriptionKnown'
    BY <1>10, EmptyFacts DEF SetupConsumes, NextTurn, Opened,
       SubscriptionKnown, TypePhase, TypeChans, Numbered, Alive, SetupPhase,
       CloserPhase, ClosedIsStopped, Active, Elements, Waiting, props, work,
       history
  <2>9. BacklogBusy'
    BY <1>10 DEF SetupConsumes, NextTurn, Opened, BacklogBusy, Buffered,
       Stopping, TypeMsgs, TypePhase, ClosedIsStopped, props, work, history
  <2>10. ClosedIsStopped'
    BY <1>10 DEF SetupConsumes, NextTurn, Opened, ClosedIsStopped, Active,
       TypePhase, TypeChans, OneAttempt, CloserPhase, Waiting, HandlersFound,
       ClosesAfterHandlers, Numbered, Alive, Buffered, props, work, history
  <2>11. TypeMsgs' /\ InactiveIsClosing' /\ InOrder' /\ Delivered' /\
     BufferOfChannel' /\ AckOnOwnChannel' /\ NoBufferNeeded' /\ LimitKept' /\
     HandlersFound' /\ ClosesAfterHandlers'
    BY <1>10 DEF SetupConsumes, NextTurn, Opened, props, work, history,
       TypeMsgs, InactiveIsClosing, InOrder, Delivered, BufferOfChannel,
       AckOnOwnChannel, NoBufferNeeded, LimitKept, HandlersFound,
       ClosesAfterHandlers, Buffered
  <2> QED BY <2>1, <2>2, <2>3, <2>4, <2>5, <2>6, <2>7, <2>8, <2>9, <2>10,
     <2>11
<1>11. ASSUME SetupDone PROVE IInv'
  <2>1. TypePhase'
    BY <1>11 DEF SetupDone, TypePhase, Waiting, props, work, history
  <2>2. CloserPhase'
    BY <1>11 DEF SetupDone, CloserPhase, TypePhase, TypeChans, Waiting,
       Active, Numbered, Alive, OneAttempt, SubscriptionKnown, SetupPhase,
       OneCloseAtATime, props, work, history
  <2>3. SetupPhase'
    BY <1>11 DEF SetupDone, SetupPhase, TypePhase, TypeChans, Active, Alive,
       Numbered, CloserPhase, InactiveIsClosing, SubscriptionKnown,
       OneAttempt, Waiting, props, work, history
  <2>4. OneAttempt'
    BY <1>11 DEF SetupDone, OneAttempt, TypePhase, CloserPhase, Waiting,
       ClosedIsStopped, props, work, history
  <2>5. ClosedIsStopped'
    BY <1>11 DEF SetupDone, ClosedIsStopped, Active, TypePhase, TypeChans,
       OneAttempt, CloserPhase, Waiting, HandlersFound, ClosesAfterHandlers,
       Numbered, Alive, Buffered, props, work, history
  <2>6. TypeChans' /\ TypeMsgs' /\ Numbered' /\ InactiveIsClosing' /\
     Subscribed' /\ SubscriptionKnown' /\ InOrder' /\ Delivered' /\
     BufferOfChannel' /\ AckOnOwnChannel' /\ NoBufferNeeded' /\ LimitKept' /\
     BacklogBusy' /\ HandlersFound' /\ ClosesAfterHandlers'
    BY <1>11 DEF SetupDone, props, work, history, TypeChans, TypeMsgs,
       Numbered, InactiveIsClosing, Subscribed, SubscriptionKnown, InOrder,
       Delivered, BufferOfChannel, AckOnOwnChannel, NoBufferNeeded, LimitKept,
       BacklogBusy, HandlersFound, ClosesAfterHandlers, Active, Buffered,
       Stopping
  <2> QED BY <2>1, <2>2, <2>3, <2>4, <2>5, <2>6
<1>12. ASSUME SetupFailed PROVE IInv'
  <2>1. TypePhase'
    BY <1>12 DEF SetupFailed, RetrySetup, Stopping, Reconnect, ScheduleRetry,
       TypePhase, Waiting, props, work, history
  <2>2. CloserPhase'
    BY <1>12 DEF SetupFailed, RetrySetup, Stopping, Reconnect, ScheduleRetry,
       CloserPhase, TypePhase, TypeChans, Waiting, Active, Numbered, Alive,
       OneAttempt, SubscriptionKnown, SetupPhase, OneCloseAtATime, props,
       work, history
  <2>3. SetupPhase'
    BY <1>12 DEF SetupFailed, RetrySetup, Stopping, Reconnect, ScheduleRetry,
       SetupPhase, TypePhase, TypeChans, Active, Alive, Numbered, CloserPhase,
       InactiveIsClosing, SubscriptionKnown, OneAttempt, Waiting, props, work,
       history
  <2>4. OneAttempt'
    BY <1>12 DEF SetupFailed, RetrySetup, Stopping, Reconnect, ScheduleRetry,
       OneAttempt, TypePhase, CloserPhase, Waiting, ClosedIsStopped, props,
       work, history
  <2>5. Subscribed'
    BY <1>12 DEF SetupFailed, RetrySetup, Stopping, Reconnect, ScheduleRetry,
       Subscribed, TypePhase, TypeChans, Elements, Active, Numbered,
       CloserPhase, Cancel, SubscriptionKnown, props, work, history
  <2>6. SubscriptionKnown'
    BY <1>12 DEF SetupFailed, RetrySetup, Stopping, Reconnect, ScheduleRetry,
       SubscriptionKnown, TypePhase, TypeChans, Numbered, Alive, SetupPhase,
       CloserPhase, ClosedIsStopped, Active, Elements, Waiting, props, work,
       history
  <2>7. BacklogBusy'
    BY <1>12 DEF SetupFailed, RetrySetup, Stopping, Reconnect, ScheduleRetry,
       BacklogBusy, Buffered, Stopping, TypeMsgs, TypePhase, ClosedIsStopped,
       props, work, history
  <2>8. ClosedIsStopped'
    BY <1>12 DEF SetupFailed, RetrySetup, Stopping, Reconnect, ScheduleRetry,
       ClosedIsStopped, Active, TypePhase, TypeChans, OneAttempt, CloserPhase,
       Waiting, HandlersFound, ClosesAfterHandlers, Numbered, Alive, Buffered,
       props, work, history
  <2>9. TypeChans' /\ TypeMsgs' /\ Numbered' /\ InactiveIsClosing' /\ InOrder'
     /\ Delivered' /\ BufferOfChannel' /\ AckOnOwnChannel' /\ NoBufferNeeded'
     /\ LimitKept' /\ HandlersFound' /\ ClosesAfterHandlers'
    BY <1>12 DEF SetupFailed, RetrySetup, Stopping, Reconnect, ScheduleRetry,
       props, work, history, TypeChans, TypeMsgs, Numbered, InactiveIsClosing,
       InOrder, Delivered, BufferOfChannel, AckOnOwnChannel, NoBufferNeeded,
       LimitKept, HandlersFound, ClosesAfterHandlers, Buffered
  <2> QED BY <2>1, <2>2, <2>3, <2>4, <2>5, <2>6, <2>7, <2>8, <2>9
<1>13. ASSUME ChannelLost \/ ChannelCloseOk PROVE IInv'
  <2>0. /\ ch \in Channels /\ ch # 0 /\ chan[ch] \in Alive /\ ChannelGone
        /\ prefetched' = <<>> \/ (noAck /\ prefetched' = prefetched)
        /\ Elements(<<>>) = {} /\ Rising(<<>>)
    BY <1>13, EmptyFacts DEF ChannelLost, ChannelCloseOk, ChannelGone, DropBuffer, Alive, TypeChans
  <2>1. TypePhase'
    <3>1. faults' \in 0..MaxFaults
      BY <1>13 DEF ChannelLost, ChannelCloseOk, Fault, TypePhase, ConsumerAssumption
    <3>2. closing' \in [Closers -> {"none", "returned", "rejected"} \cup Waiting]
      BY <2>0 DEF ChannelGone, TypePhase
    <3>3. /\ readyState' \in {"CONNECTING", "OPEN", "CLOSING", "CLOSED"}
          /\ consumerTag' \in BOOLEAN /\ retryTimer' \in BOOLEAN
          /\ setup' \in {"none", "jobs", "acquire", "declare", "opened", "failing"}
      BY <2>0 DEF ChannelGone, TypePhase, Reconnect, ScheduleRetry
    <3>4. UNCHANGED <<props, connClosing, starts>>
      BY <2>0 DEF ChannelGone
    <3> QED BY <3>1, <3>2, <3>3, <3>4 DEF TypePhase, props
  <2>2. TypeChans'
    BY <1>13, <2>0 DEF ChannelLost, ChannelCloseOk, ChannelGone, DropBuffer,
       Stopping, Fault, Reconnect, ScheduleRetry, TypeChans, Channels, props,
       work, history
  <2>3. TypeMsgs'
    BY <1>13, <2>0 DEF ChannelLost, ChannelCloseOk, ChannelGone, DropBuffer,
       Stopping, Fault, Reconnect, ScheduleRetry, TypeMsgs, Cancel, props,
       work, history
  <2>4. Numbered'
    BY <1>13, <2>0 DEF ChannelLost, ChannelCloseOk, ChannelGone, DropBuffer,
       Stopping, Fault, Reconnect, ScheduleRetry, Numbered, TypeChans, Alive,
       Channels, SetupPhase, Active, ConsumerAssumption, props, work, history
  <2>5. CloserPhase'
    BY <1>13, <2>0 DEF ChannelLost, ChannelCloseOk, ChannelGone, DropBuffer,
       Stopping, Fault, Reconnect, ScheduleRetry, CloserPhase, TypePhase,
       TypeChans, Waiting, Active, Numbered, Alive, OneAttempt,
       SubscriptionKnown, SetupPhase, OneCloseAtATime, props, work, history
  <2>6. InactiveIsClosing'
    BY <1>13, <2>0 DEF ChannelLost, ChannelCloseOk, ChannelGone, DropBuffer,
       Stopping, Fault, Reconnect, ScheduleRetry, InactiveIsClosing,
       TypePhase, TypeChans, Numbered, CloserPhase, Waiting, Alive, props,
       work, history
  <2>7. SetupPhase'
    BY <1>13, <2>0 DEF ChannelLost, ChannelCloseOk, ChannelGone, DropBuffer,
       Stopping, Fault, Reconnect, ScheduleRetry, SetupPhase, TypePhase,
       TypeChans, Active, Alive, Numbered, CloserPhase, InactiveIsClosing,
       SubscriptionKnown, OneAttempt, Waiting, props, work, history
  <2>8. OneAttempt'
    BY <1>13, <2>0 DEF ChannelLost, ChannelCloseOk, ChannelGone, DropBuffer,
       Stopping, Fault, Reconnect, ScheduleRetry, OneAttempt, TypePhase,
       CloserPhase, Waiting, ClosedIsStopped, props, work, history
  <2>9. Subscribed'
    BY <1>13, <2>0 DEF ChannelLost, ChannelCloseOk, ChannelGone, DropBuffer,
       Stopping, Fault, Reconnect, ScheduleRetry, Subscribed, TypePhase,
       TypeChans, Elements, Active, Numbered, CloserPhase, Cancel,
       SubscriptionKnown, props, work, history
  <2>10. SubscriptionKnown'
    BY <1>13, <2>0 DEF ChannelLost, ChannelCloseOk, ChannelGone, DropBuffer,
       Stopping, Fault, Reconnect, ScheduleRetry, SubscriptionKnown,
       TypePhase, TypeChans, Numbered, Alive, SetupPhase, CloserPhase,
       ClosedIsStopped, Active, Elements, Waiting, props, work, history
  <2>11. InOrder'
    BY <1>13, <2>0 DEF ChannelLost, ChannelCloseOk, ChannelGone, DropBuffer,
       Stopping, Fault, Reconnect, ScheduleRetry, InOrder, Buffered, TypeMsgs,
       Delivered, props, work, history
  <2>12. BufferOfChannel'
    BY <1>13, <2>0 DEF ChannelLost, ChannelCloseOk, ChannelGone, DropBuffer,
       Stopping, Fault, Reconnect, ScheduleRetry, BufferOfChannel, Buffered,
       TypeMsgs, TypeChans, Numbered, Alive, SetupPhase, Active, props, work,
       history
  <2>13. NoBufferNeeded'
    BY <1>13, <2>0 DEF ChannelLost, ChannelCloseOk, ChannelGone, DropBuffer,
       Stopping, Fault, Reconnect, ScheduleRetry, NoBufferNeeded, TypePhase,
       props, work, history
  <2>14. BacklogBusy'
    BY <1>13, <2>0 DEF ChannelLost, ChannelCloseOk, ChannelGone, DropBuffer,
       Stopping, Fault, Reconnect, ScheduleRetry, BacklogBusy, Buffered,
       Stopping, TypeMsgs, TypePhase, ClosedIsStopped, props, work, history
  <2>15. HandlersFound'
    BY <1>13, <2>0 DEF ChannelLost, ChannelCloseOk, ChannelGone, DropBuffer,
       Stopping, Fault, Reconnect, ScheduleRetry, HandlersFound, Buffered,
       TypeMsgs, TypePhase, CloserPhase, Waiting, props, work, history
  <2>16. ClosesAfterHandlers'
    BY <1>13, <2>0 DEF ChannelLost, ChannelCloseOk, ChannelGone, DropBuffer,
       Stopping, Fault, Reconnect, ScheduleRetry, ClosesAfterHandlers,
       TypeMsgs, TypePhase, HandlersFound, CloserPhase, props, work, history
  <2>17. ClosedIsStopped'
    BY <1>13, <2>0 DEF ChannelLost, ChannelCloseOk, ChannelGone, DropBuffer,
       Stopping, Fault, Reconnect, ScheduleRetry, ClosedIsStopped, Active,
       TypePhase, TypeChans, OneAttempt, CloserPhase, Waiting, HandlersFound,
       ClosesAfterHandlers, Numbered, Alive, Buffered, props, work, history
  <2>18. Delivered' /\ AckOnOwnChannel' /\ LimitKept'
    BY <1>13 DEF ChannelLost, ChannelCloseOk, ChannelGone, DropBuffer,
       Stopping, Fault, Reconnect, ScheduleRetry, props, work, history,
       Delivered, AckOnOwnChannel, LimitKept
  <2> QED BY <2>1, <2>2, <2>3, <2>4, <2>5, <2>6, <2>7, <2>8, <2>9, <2>10,
     <2>11, <2>12, <2>13, <2>14, <2>15, <2>16, <2>17, <2>18
<1>14. ASSUME BrokerCancels PROVE IInv'
  <2>0. /\ ch \in Channels /\ ch # 0 /\ chan[ch] = "open" /\ subs[ch] # 0
        /\ immediates' = Append(immediates, Cancel)
        /\ immediates' \in Seq(Msgs \cup {Cancel}) /\ Rising(immediates')
        /\ Elements(immediates') = Elements(immediates) \cup {Cancel}
    <3> DEFINE S == Msgs \cup {Cancel}
    <3>1. immediates \in Seq(S) /\ Cancel \in S /\ Rising(immediates)
      BY DEF InOrder, TypeMsgs
    <3> HIDE DEF S
    <3>2. /\ Append(immediates, Cancel) \in Seq(S) /\ Rising(Append(immediates, Cancel))
          /\ Elements(Append(immediates, Cancel)) = Elements(immediates) \cup {Cancel}
      BY <3>1, AppendFacts
    <3>3. ch \in Channels /\ ch # 0 /\ chan[ch] = "open" /\ subs[ch] # 0
      BY <1>14 DEF BrokerCancels, Active, TypeChans
    <3> QED BY <1>14, <3>2, <3>3 DEF BrokerCancels, S
  <2>1. TypePhase'
    BY <1>14, <2>0 DEF BrokerCancels, Fault, TypePhase, Waiting, props, work,
       history
  <2>2. TypeChans'
    BY <1>14, <2>0 DEF BrokerCancels, Fault, TypeChans, Channels, props, work,
       history
  <2>3. TypeMsgs'
    BY <1>14, <2>0 DEF BrokerCancels, Fault, TypeMsgs, Cancel, props, work,
       history
  <2>4. Numbered'
    BY <1>14, <2>0 DEF BrokerCancels, Fault, Numbered, TypeChans, Alive,
       Channels, SetupPhase, Active, ConsumerAssumption, props, work, history
  <2>5. CloserPhase'
    BY <1>14, <2>0 DEF BrokerCancels, Fault, CloserPhase, TypePhase,
       TypeChans, Waiting, Active, Numbered, Alive, OneAttempt,
       SubscriptionKnown, SetupPhase, OneCloseAtATime, props, work, history
  <2>6. SetupPhase'
    BY <1>14, <2>0 DEF BrokerCancels, Fault, SetupPhase, TypePhase, TypeChans,
       Active, Alive, Numbered, CloserPhase, InactiveIsClosing,
       SubscriptionKnown, OneAttempt, Waiting, props, work, history
  <2>7. Subscribed'
    BY <1>14, <2>0 DEF BrokerCancels, Fault, Subscribed, TypePhase, TypeChans,
       Elements, Active, Numbered, CloserPhase, Cancel, SubscriptionKnown,
       props, work, history
  <2>8. SubscriptionKnown'
    BY <1>14, <2>0 DEF BrokerCancels, Fault, SubscriptionKnown, TypePhase,
       TypeChans, Numbered, Alive, SetupPhase, CloserPhase, ClosedIsStopped,
       Active, Elements, Waiting, props, work, history
  <2>9. InOrder'
    BY <1>14, <2>0 DEF BrokerCancels, Fault, InOrder, Buffered, TypeMsgs,
       Delivered, props, work, history
  <2>10. InactiveIsClosing' /\ OneAttempt' /\ Delivered' /\ BufferOfChannel'
     /\ AckOnOwnChannel' /\ NoBufferNeeded' /\ LimitKept' /\ BacklogBusy' /\
     HandlersFound' /\ ClosesAfterHandlers' /\ ClosedIsStopped'
    BY <1>14 DEF BrokerCancels, Fault, props, work, history,
       InactiveIsClosing, OneAttempt, Delivered, BufferOfChannel,
       AckOnOwnChannel, NoBufferNeeded, LimitKept, BacklogBusy, HandlersFound,
       ClosesAfterHandlers, ClosedIsStopped, Buffered, Stopping, Active
  <2> QED BY <2>1, <2>2, <2>3, <2>4, <2>5, <2>6, <2>7, <2>8, <2>9, <2>10
<1>15. ASSUME OnCancel PROVE IInv'
  <2>0. /\ Head(immediates) = Cancel /\ Cancel \in Elements(immediates)
        /\ immediates' \in Seq(Msgs \cup {Cancel}) /\ Rising(immediates')
        /\ Elements(immediates) = Elements(immediates') \cup {Cancel}
    BY SMTT(30), <1>15, TailFacts, TailRising, MsgFacts DEF OnCancel, InOrder, TypeMsgs
  <2>1. TypePhase'
    BY <1>15, <2>0 DEF OnCancel, Reconnect, ScheduleRetry, TypePhase, Waiting,
       props, work, history
  <2>2. TypeMsgs'
    BY <1>15, <2>0 DEF OnCancel, Reconnect, ScheduleRetry, TypeMsgs, Cancel,
       props, work, history
  <2>3. CloserPhase'
    BY <1>15, <2>0 DEF OnCancel, Reconnect, ScheduleRetry, CloserPhase,
       TypePhase, TypeChans, Waiting, Active, Numbered, Alive, OneAttempt,
       SubscriptionKnown, SetupPhase, OneCloseAtATime, props, work, history
  <2>4. OneAttempt'
    BY <1>15, <2>0 DEF OnCancel, Reconnect, ScheduleRetry, OneAttempt,
       TypePhase, CloserPhase, Waiting, ClosedIsStopped, props, work, history
  <2>5. Subscribed'
    BY <1>15, <2>0 DEF OnCancel, Reconnect, ScheduleRetry, Subscribed,
       TypePhase, TypeChans, Elements, Active, Numbered, CloserPhase, Cancel,
       SubscriptionKnown, props, work, history
  <2>6. SubscriptionKnown'
    BY <1>15, <2>0 DEF OnCancel, Reconnect, ScheduleRetry, SubscriptionKnown,
       TypePhase, TypeChans, Numbered, Alive, SetupPhase, CloserPhase,
       ClosedIsStopped, Active, Elements, Waiting, props, work, history
  <2>7. InOrder'
    BY <1>15, <2>0 DEF OnCancel, Reconnect, ScheduleRetry, InOrder, Buffered,
       TypeMsgs, Delivered, props, work, history
  <2>8. BacklogBusy'
    BY <1>15, <2>0 DEF OnCancel, Reconnect, ScheduleRetry, BacklogBusy,
       Buffered, Stopping, TypeMsgs, TypePhase, ClosedIsStopped, props, work,
       history
  <2>9. ClosedIsStopped'
    BY <1>15, <2>0 DEF OnCancel, Reconnect, ScheduleRetry, ClosedIsStopped,
       Active, TypePhase, TypeChans, OneAttempt, CloserPhase, Waiting,
       HandlersFound, ClosesAfterHandlers, Numbered, Alive, Buffered, props,
       work, history
  <2>10. TypeChans' /\ Numbered' /\ InactiveIsClosing' /\ SetupPhase' /\
     Delivered' /\ BufferOfChannel' /\ AckOnOwnChannel' /\ NoBufferNeeded' /\
     LimitKept' /\ HandlersFound' /\ ClosesAfterHandlers'
    BY <1>15 DEF OnCancel, Reconnect, ScheduleRetry, props, work, history,
       TypeChans, Numbered, InactiveIsClosing, SetupPhase, Delivered,
       BufferOfChannel, AckOnOwnChannel, NoBufferNeeded, LimitKept,
       HandlersFound, ClosesAfterHandlers, Active, Buffered
  <2> QED BY <2>1, <2>2, <2>3, <2>4, <2>5, <2>6, <2>7, <2>8, <2>9, <2>10
<1>16. ASSUME Start PROVE IInv'
  <2>1. TypePhase'
    <3>1. starts' \in 0..MaxStarts
      BY <1>16 DEF Start, TypePhase, ConsumerAssumption
    <3> QED BY <1>16, <3>1 DEF Start, Connect, TypePhase, props
  <2>2. TypeMsgs'
    BY <1>16 DEF Start, Connect, TypeMsgs, Cancel, props, work, history
  <2>3. CloserPhase'
    BY <1>16 DEF Start, Connect, CloserPhase, TypePhase, TypeChans, Waiting,
       Active, Numbered, Alive, OneAttempt, SubscriptionKnown, SetupPhase,
       OneCloseAtATime, props, work, history
  <2>4. SetupPhase'
    BY <1>16 DEF Start, Connect, SetupPhase, TypePhase, TypeChans, Active,
       Alive, Numbered, CloserPhase, InactiveIsClosing, SubscriptionKnown,
       OneAttempt, Waiting, props, work, history
  <2>5. OneAttempt'
    BY <1>16 DEF Start, Connect, OneAttempt, TypePhase, CloserPhase, Waiting,
       ClosedIsStopped, props, work, history
  <2>6. Subscribed'
    BY <1>16 DEF Start, Connect, Subscribed, TypePhase, TypeChans, Elements,
       Active, Numbered, CloserPhase, Cancel, SubscriptionKnown, props, work,
       history
  <2>7. SubscriptionKnown'
    BY <1>16 DEF Start, Connect, SubscriptionKnown, TypePhase, TypeChans,
       Numbered, Alive, SetupPhase, CloserPhase, ClosedIsStopped, Active,
       Elements, Waiting, props, work, history
  <2>8. BacklogBusy'
    BY <1>16 DEF Start, Connect, BacklogBusy, Buffered, Stopping, TypeMsgs,
       TypePhase, ClosedIsStopped, props, work, history
  <2>9. ClosedIsStopped'
    BY <1>16 DEF Start, Connect, ClosedIsStopped, Active, TypePhase,
       TypeChans, OneAttempt, CloserPhase, Waiting, HandlersFound,
       ClosesAfterHandlers, Numbered, Alive, Buffered, props, work, history
  <2>10. TypeChans' /\ Numbered' /\ InactiveIsClosing' /\ InOrder' /\
     Delivered' /\ BufferOfChannel' /\ AckOnOwnChannel' /\ NoBufferNeeded' /\
     LimitKept' /\ HandlersFound' /\ ClosesAfterHandlers'
    BY <1>16 DEF Start, Connect, props, work, history, TypeChans, Numbered,
       InactiveIsClosing, InOrder, Delivered, BufferOfChannel,
       AckOnOwnChannel, NoBufferNeeded, LimitKept, HandlersFound,
       ClosesAfterHandlers, Buffered
  <2> QED BY <2>1, <2>2, <2>3, <2>4, <2>5, <2>6, <2>7, <2>8, <2>9, <2>10
<1>17. ASSUME NEW k \in Closers, Close(k) PROVE IInv'
  <2>1. TypePhase'
    BY <1>17 DEF Close, ClearTimer, TypePhase, Waiting, props, work, history
  <2>2. CloserPhase'
    BY <1>17 DEF Close, ClearTimer, CloserPhase, TypePhase, TypeChans,
       Waiting, Active, Numbered, Alive, OneAttempt, SubscriptionKnown,
       SetupPhase, OneCloseAtATime, props, work, history
  <2>3. InactiveIsClosing'
    BY <1>17 DEF Close, ClearTimer, InactiveIsClosing, TypePhase, TypeChans,
       Numbered, CloserPhase, Waiting, Alive, props, work, history
  <2>4. OneAttempt'
    BY <1>17 DEF Close, ClearTimer, OneAttempt, TypePhase, CloserPhase,
       Waiting, ClosedIsStopped, props, work, history
  <2>5. Subscribed'
    BY <1>17 DEF Close, ClearTimer, Subscribed, TypePhase, TypeChans,
       Elements, Active, Numbered, CloserPhase, Cancel, SubscriptionKnown,
       props, work, history
  <2>6. SubscriptionKnown'
    BY <1>17 DEF Close, ClearTimer, SubscriptionKnown, TypePhase, TypeChans,
       Numbered, Alive, SetupPhase, CloserPhase, ClosedIsStopped, Active,
       Elements, Waiting, props, work, history
  <2>7. BacklogBusy'
    BY <1>17 DEF Close, ClearTimer, BacklogBusy, Buffered, Stopping, TypeMsgs,
       TypePhase, ClosedIsStopped, props, work, history
  <2>8. HandlersFound'
    BY <1>17 DEF Close, ClearTimer, HandlersFound, Buffered, TypeMsgs,
       TypePhase, CloserPhase, Waiting, props, work, history
  <2>9. ClosesAfterHandlers'
    BY <1>17 DEF Close, ClearTimer, ClosesAfterHandlers, TypeMsgs, TypePhase,
       HandlersFound, CloserPhase, props, work, history
  <2>10. ClosedIsStopped'
    BY <1>17 DEF Close, ClearTimer, ClosedIsStopped, Active, TypePhase,
       TypeChans, OneAttempt, CloserPhase, Waiting, HandlersFound,
       ClosesAfterHandlers, Numbered, Alive, Buffered, props, work, history
  <2>11. TypeChans' /\ TypeMsgs' /\ Numbered' /\ SetupPhase' /\ InOrder' /\
     Delivered' /\ BufferOfChannel' /\ AckOnOwnChannel' /\ NoBufferNeeded' /\
     LimitKept'
    BY <1>17 DEF Close, ClearTimer, props, work, history, TypeChans, TypeMsgs,
       Numbered, SetupPhase, InOrder, Delivered, BufferOfChannel,
       AckOnOwnChannel, NoBufferNeeded, LimitKept, Active, Buffered
  <2> QED BY <2>1, <2>2, <2>3, <2>4, <2>5, <2>6, <2>7, <2>8, <2>9, <2>10,
     <2>11
<1>18. ASSUME NEW k \in Closers, CloseAfterSetup(k), Active /\ consumerTag PROVE IInv'
  <2>1. TypePhase'
    BY <1>18 DEF CloseAfterSetup, NoSetup, TypePhase, Waiting, props, work,
       history
  <2>2. CloserPhase'
    BY <1>18 DEF CloseAfterSetup, NoSetup, CloserPhase, TypePhase, TypeChans,
       Waiting, Active, Numbered, Alive, OneAttempt, SubscriptionKnown,
       SetupPhase, OneCloseAtATime, props, work, history
  <2>3. InactiveIsClosing'
    BY <1>18 DEF CloseAfterSetup, NoSetup, InactiveIsClosing, TypePhase,
       TypeChans, Numbered, CloserPhase, Waiting, Alive, props, work, history
  <2>4. SubscriptionKnown'
    BY <1>18 DEF CloseAfterSetup, NoSetup, SubscriptionKnown, TypePhase,
       TypeChans, Numbered, Alive, SetupPhase, CloserPhase, ClosedIsStopped,
       Active, Elements, Waiting, props, work, history
  <2>5. HandlersFound'
    BY <1>18 DEF CloseAfterSetup, NoSetup, HandlersFound, Buffered, TypeMsgs,
       TypePhase, CloserPhase, Waiting, props, work, history
  <2>6. ClosesAfterHandlers'
    BY <1>18 DEF CloseAfterSetup, NoSetup, ClosesAfterHandlers, TypeMsgs,
       TypePhase, HandlersFound, CloserPhase, props, work, history
  <2>7. TypeChans' /\ TypeMsgs' /\ Numbered' /\ SetupPhase' /\ OneAttempt' /\
     Subscribed' /\ InOrder' /\ Delivered' /\ BufferOfChannel' /\
     AckOnOwnChannel' /\ NoBufferNeeded' /\ LimitKept' /\ BacklogBusy' /\
     ClosedIsStopped'
    BY <1>18 DEF CloseAfterSetup, NoSetup, props, work, history, TypeChans,
       TypeMsgs, Numbered, SetupPhase, OneAttempt, Subscribed, InOrder,
       Delivered, BufferOfChannel, AckOnOwnChannel, NoBufferNeeded, LimitKept,
       BacklogBusy, ClosedIsStopped, Active, Buffered, Stopping
  <2> QED BY <2>1, <2>2, <2>3, <2>4, <2>5, <2>6, <2>7
<1>19. ASSUME NEW k \in Closers, CloseAfterSetup(k), ~(Active /\ consumerTag) PROVE IInv'
  <2>0. /\ Elements(<<>>) = {} /\ Rising(<<>>)
        /\ prefetched' = <<>> \/ (noAck /\ prefetched' = prefetched)
        /\ closing' = [closing EXCEPT ![k] = IF noAck /\ prefetched # <<>> THEN "idle" ELSE "jobs"]
        /\ closing[k] \in {"setup", "cancel"} /\ setup = "none"
        /\ (noAck /\ prefetched # <<>>) \/ (prefetched' = <<>> /\ awaiting'[k] = processing)
        /\ awaiting' \in [Closers -> SUBSET Msgs] /\ \A j \in Closers \ {k} : awaiting'[j] = awaiting[j]
        /\ \A g \in Channels : subs'[g] = 0 
        /\ UNCHANGED <<props, readyState, consumerTag, ch, chan, processing, via, history,
                       immediates, retryTimer, setup, awaited, connClosing, faults, starts>>
    <3>1. /\ closing[k] \in {"setup", "cancel"} /\ setup = "none" /\ Wind(k)
          /\ UNCHANGED <<props, readyState, consumerTag, ch, chan, processing, via, history,
                         immediates, retryTimer, setup, awaited, connClosing, faults, starts>>
      BY <1>19 DEF CloseAfterSetup, CloseCancelOk, NoSetup, CloserPhase, Waiting
    <3>2. \A g \in Channels : subs'[g] = 0
      <4> SUFFICES ASSUME NEW g \in Channels, subs[g] # 0 PROVE FALSE
        BY <1>19 DEF CloseAfterSetup
      <4>1. closing[k] = "setup" /\ ~(Active /\ consumerTag)
        BY <1>19 DEF CloseAfterSetup
      <4>2. \A j \in Closers : closing[j] \notin {"cancel", "channel"}
        BY <4>1 DEF CloserPhase, Waiting
      <4>3. consumerTag /\ g = ch /\ chan[ch] = "open" /\ ch # 0
        BY <4>2 DEF SubscriptionKnown, Numbered, InactiveIsClosing, Alive, Channels, ConsumerAssumption
      <4> QED BY <4>1, <4>3 DEF Active
    <3>3. /\ prefetched' = IF noAck THEN prefetched ELSE <<>>
          /\ closing' = [closing EXCEPT ![k] = IF noAck /\ prefetched # <<>> THEN "idle" ELSE "jobs"]
          /\ awaiting' = [awaiting EXCEPT ![k] = IF noAck /\ prefetched # <<>> THEN {} ELSE processing]
      BY <3>1 DEF Wind, ForHandlers
    <3>4. /\ awaiting' \in [Closers -> SUBSET Msgs]
          /\ \A j \in Closers \ {k} : awaiting'[j] = awaiting[j]
          /\ (noAck /\ prefetched # <<>>) \/ awaiting'[k] = processing
      BY <3>3 DEF TypeMsgs
    <3> QED BY <3>1, <3>2, <3>3, <3>4, EmptyFacts
  <2>1. TypePhase'
    BY <1>19, <2>0 DEF CloseAfterSetup, NoSetup, Wind, ForHandlers, TypePhase,
       Waiting, props, work, history
  <2>2. TypeMsgs'
    <3>1. <<>> \in Seq(Msgs) /\ prefetched \in Seq(Msgs)
      BY DEF TypeMsgs
    <3>2. prefetched' \in {<<>>, prefetched}
      BY <2>0
    <3>3. prefetched' \in Seq(Msgs)
      BY <3>1, <3>2
    <3> QED BY <2>0, <3>3 DEF TypeMsgs, history
  <2>3. CloserPhase'
    BY <1>19, <2>0 DEF CloseAfterSetup, NoSetup, Wind, ForHandlers,
       CloserPhase, TypePhase, TypeChans, Waiting, Active, Numbered, Alive,
       OneAttempt, SubscriptionKnown, SetupPhase, OneCloseAtATime, props,
       work, history
  <2>4. InactiveIsClosing'
    BY <1>19, <2>0 DEF CloseAfterSetup, NoSetup, Wind, ForHandlers,
       InactiveIsClosing, TypePhase, TypeChans, Numbered, CloserPhase,
       Waiting, Alive, props, work, history
  <2>5. SubscriptionKnown'
    BY <1>19, <2>0 DEF CloseAfterSetup, NoSetup, Wind, ForHandlers,
       SubscriptionKnown, TypePhase, TypeChans, Numbered, Alive, SetupPhase,
       CloserPhase, ClosedIsStopped, Active, Elements, Waiting, props, work,
       history
  <2>6. InOrder'
    BY <1>19, <2>0 DEF CloseAfterSetup, NoSetup, Wind, ForHandlers, InOrder,
       Buffered, TypeMsgs, Delivered, props, work, history
  <2>7. BufferOfChannel'
    BY <1>19, <2>0 DEF CloseAfterSetup, NoSetup, Wind, ForHandlers,
       BufferOfChannel, Buffered, TypeMsgs, TypeChans, Numbered, Alive,
       SetupPhase, Active, props, work, history
  <2>8. NoBufferNeeded'
    BY <1>19, <2>0 DEF CloseAfterSetup, NoSetup, Wind, ForHandlers,
       NoBufferNeeded, TypePhase, props, work, history
  <2>9. BacklogBusy'
    BY <1>19, <2>0 DEF CloseAfterSetup, NoSetup, Wind, ForHandlers,
       BacklogBusy, Buffered, Stopping, TypeMsgs, TypePhase, ClosedIsStopped,
       props, work, history
  <2>10. HandlersFound'
    BY <1>19, <2>0 DEF CloseAfterSetup, NoSetup, Wind, ForHandlers,
       HandlersFound, Buffered, TypeMsgs, TypePhase, CloserPhase, Waiting,
       props, work, history
  <2>11. ClosesAfterHandlers'
    BY <1>19, <2>0 DEF CloseAfterSetup, NoSetup, Wind, ForHandlers,
       ClosesAfterHandlers, TypeMsgs, TypePhase, HandlersFound, CloserPhase,
       props, work, history
  <2>12. ClosedIsStopped'
    BY <1>19, <2>0 DEF CloseAfterSetup, NoSetup, Wind, ForHandlers,
       ClosedIsStopped, Active, TypePhase, TypeChans, OneAttempt, CloserPhase,
       Waiting, HandlersFound, ClosesAfterHandlers, Numbered, Alive, Buffered,
       props, work, history
  <2>13. TypeChans' /\ Numbered' /\ SetupPhase' /\ OneAttempt' /\ Subscribed'
     /\ Delivered' /\ AckOnOwnChannel' /\ LimitKept'
    BY <1>19 DEF CloseAfterSetup, NoSetup, Wind, ForHandlers, props, work,
       history, TypeChans, Numbered, SetupPhase, OneAttempt, Subscribed,
       Delivered, AckOnOwnChannel, LimitKept, Active
  <2> QED BY <2>1, <2>2, <2>3, <2>4, <2>5, <2>6, <2>7, <2>8, <2>9, <2>10,
     <2>11, <2>12, <2>13
<1>20. ASSUME NEW k \in Closers, CloseCancelOk(k) PROVE IInv'
  <2>0. /\ Elements(<<>>) = {} /\ Rising(<<>>)
        /\ prefetched' = <<>> \/ (noAck /\ prefetched' = prefetched)
        /\ closing' = [closing EXCEPT ![k] = IF noAck /\ prefetched # <<>> THEN "idle" ELSE "jobs"]
        /\ closing[k] \in {"setup", "cancel"} /\ setup = "none"
        /\ (noAck /\ prefetched # <<>>) \/ (prefetched' = <<>> /\ awaiting'[k] = processing)
        /\ awaiting' \in [Closers -> SUBSET Msgs] /\ \A j \in Closers \ {k} : awaiting'[j] = awaiting[j]
        /\ \A g \in Channels : subs'[g] = 0 
        /\ UNCHANGED <<props, readyState, consumerTag, ch, chan, processing, via, history,
                       immediates, retryTimer, setup, awaited, connClosing, faults, starts>>
    <3>1. /\ closing[k] \in {"setup", "cancel"} /\ setup = "none" /\ Wind(k)
          /\ UNCHANGED <<props, readyState, consumerTag, ch, chan, processing, via, history,
                         immediates, retryTimer, setup, awaited, connClosing, faults, starts>>
      BY <1>20 DEF CloseAfterSetup, CloseCancelOk, NoSetup, CloserPhase, Waiting
    <3>2. \A g \in Channels : subs'[g] = 0
      BY <1>20 DEF CloseCancelOk, Numbered, TypeChans
    <3>3. /\ prefetched' = IF noAck THEN prefetched ELSE <<>>
          /\ closing' = [closing EXCEPT ![k] = IF noAck /\ prefetched # <<>> THEN "idle" ELSE "jobs"]
          /\ awaiting' = [awaiting EXCEPT ![k] = IF noAck /\ prefetched # <<>> THEN {} ELSE processing]
      BY <3>1 DEF Wind, ForHandlers
    <3>4. /\ awaiting' \in [Closers -> SUBSET Msgs]
          /\ \A j \in Closers \ {k} : awaiting'[j] = awaiting[j]
          /\ (noAck /\ prefetched # <<>>) \/ awaiting'[k] = processing
      BY <3>3 DEF TypeMsgs
    <3> QED BY <3>1, <3>2, <3>3, <3>4, EmptyFacts
  <2>1. TypePhase'
    BY <1>20, <2>0 DEF CloseCancelOk, Wind, ForHandlers, TypePhase, Waiting,
       props, work, history
  <2>2. TypeChans'
    <3>1. subs' = [subs EXCEPT ![ch] = 0] /\ UNCHANGED <<ch, chan>>
      BY <1>20 DEF CloseCancelOk
    <3>2. subs' = [g \in Channels |-> IF g = ch THEN 0 ELSE subs[g]]
      BY <3>1 DEF TypeChans
    <3>3. \A g \in Channels : subs[g] \in 0..1 /\ 0 \in 0..1
      BY DEF TypeChans
    <3>4. subs' \in [Channels -> 0..1]
      BY <3>2, <3>3
    <3> QED BY <3>1, <3>4 DEF TypeChans
  <2>3. TypeMsgs'
    BY <1>20, <2>0 DEF CloseCancelOk, Wind, ForHandlers, TypeMsgs, Cancel,
       props, work, history
  <2>4. Numbered'
    BY <1>20, <2>0 DEF CloseCancelOk, Wind, ForHandlers, Numbered, TypeChans,
       Alive, Channels, SetupPhase, Active, ConsumerAssumption, props, work,
       history
  <2>5. CloserPhase'
    BY <1>20, <2>0 DEF CloseCancelOk, Wind, ForHandlers, CloserPhase,
       TypePhase, TypeChans, Waiting, Active, Numbered, Alive, OneAttempt,
       SubscriptionKnown, SetupPhase, OneCloseAtATime, props, work, history
  <2>6. InactiveIsClosing'
    BY <1>20, <2>0 DEF CloseCancelOk, Wind, ForHandlers, InactiveIsClosing,
       TypePhase, TypeChans, Numbered, CloserPhase, Waiting, Alive, props,
       work, history
  <2>7. SetupPhase'
    BY <1>20, <2>0 DEF CloseCancelOk, Wind, ForHandlers, SetupPhase,
       TypePhase, TypeChans, Active, Alive, Numbered, CloserPhase,
       InactiveIsClosing, SubscriptionKnown, OneAttempt, Waiting, props, work,
       history
  <2>8. Subscribed'
    BY <1>20, <2>0 DEF CloseCancelOk, Wind, ForHandlers, Subscribed,
       TypePhase, TypeChans, Elements, Active, Numbered, CloserPhase, Cancel,
       SubscriptionKnown, props, work, history
  <2>9. SubscriptionKnown'
    BY <1>20, <2>0 DEF CloseCancelOk, Wind, ForHandlers, SubscriptionKnown,
       TypePhase, TypeChans, Numbered, Alive, SetupPhase, CloserPhase,
       ClosedIsStopped, Active, Elements, Waiting, props, work, history
  <2>10. InOrder'
    BY <1>20, <2>0 DEF CloseCancelOk, Wind, ForHandlers, InOrder, Buffered,
       TypeMsgs, Delivered, props, work, history
  <2>11. BufferOfChannel'
    BY <1>20, <2>0 DEF CloseCancelOk, Wind, ForHandlers, BufferOfChannel,
       Buffered, TypeMsgs, TypeChans, Numbered, Alive, SetupPhase, Active,
       props, work, history
  <2>12. NoBufferNeeded'
    BY <1>20, <2>0 DEF CloseCancelOk, Wind, ForHandlers, NoBufferNeeded,
       TypePhase, props, work, history
  <2>13. BacklogBusy'
    BY <1>20, <2>0 DEF CloseCancelOk, Wind, ForHandlers, BacklogBusy,
       Buffered, Stopping, TypeMsgs, TypePhase, ClosedIsStopped, props, work,
       history
  <2>14. HandlersFound'
    BY <1>20, <2>0 DEF CloseCancelOk, Wind, ForHandlers, HandlersFound,
       Buffered, TypeMsgs, TypePhase, CloserPhase, Waiting, props, work,
       history
  <2>15. ClosesAfterHandlers'
    BY <1>20, <2>0 DEF CloseCancelOk, Wind, ForHandlers, ClosesAfterHandlers,
       TypeMsgs, TypePhase, HandlersFound, CloserPhase, props, work, history
  <2>16. ClosedIsStopped'
    BY <1>20, <2>0 DEF CloseCancelOk, Wind, ForHandlers, ClosedIsStopped,
       Active, TypePhase, TypeChans, OneAttempt, CloserPhase, Waiting,
       HandlersFound, ClosesAfterHandlers, Numbered, Alive, Buffered, props,
       work, history
  <2>17. OneAttempt' /\ Delivered' /\ AckOnOwnChannel' /\ LimitKept'
    BY <1>20 DEF CloseCancelOk, Wind, ForHandlers, props, work, history,
       OneAttempt, Delivered, AckOnOwnChannel, LimitKept
  <2> QED BY <2>1, <2>2, <2>3, <2>4, <2>5, <2>6, <2>7, <2>8, <2>9, <2>10,
     <2>11, <2>12, <2>13, <2>14, <2>15, <2>16, <2>17
<1>21. ASSUME NEW k \in Closers, CloseAfterJobs(k) PROVE IInv'
  <2>1. TypePhase'
    BY <1>21 DEF CloseAfterJobs, TypePhase, Waiting, props, work, history
  <2>2. TypeChans'
    BY <1>21 DEF CloseAfterJobs, TypeChans, Channels, props, work, history
  <2>3. Numbered'
    BY <1>21 DEF CloseAfterJobs, Numbered, TypeChans, Alive, Channels,
       SetupPhase, Active, ConsumerAssumption, props, work, history
  <2>4. CloserPhase'
    BY <1>21 DEF CloseAfterJobs, CloserPhase, TypePhase, TypeChans, Waiting,
       Active, Numbered, Alive, OneAttempt, SubscriptionKnown, SetupPhase,
       OneCloseAtATime, props, work, history
  <2>5. InactiveIsClosing'
    BY <1>21 DEF CloseAfterJobs, InactiveIsClosing, TypePhase, TypeChans,
       Numbered, CloserPhase, Waiting, Alive, props, work, history
  <2>6. SetupPhase'
    BY <1>21 DEF CloseAfterJobs, SetupPhase, TypePhase, TypeChans, Active,
       Alive, Numbered, CloserPhase, InactiveIsClosing, SubscriptionKnown,
       OneAttempt, Waiting, props, work, history
  <2>7. OneAttempt'
    BY <1>21 DEF CloseAfterJobs, OneAttempt, TypePhase, CloserPhase, Waiting,
       ClosedIsStopped, props, work, history
  <2>8. Subscribed'
    BY <1>21 DEF CloseAfterJobs, Subscribed, TypePhase, TypeChans, Elements,
       Active, Numbered, CloserPhase, Cancel, SubscriptionKnown, props, work,
       history
  <2>9. SubscriptionKnown'
    BY <1>21 DEF CloseAfterJobs, SubscriptionKnown, TypePhase, TypeChans,
       Numbered, Alive, SetupPhase, CloserPhase, ClosedIsStopped, Active,
       Elements, Waiting, props, work, history
  <2>10. BufferOfChannel'
    BY <1>21 DEF CloseAfterJobs, BufferOfChannel, Buffered, TypeMsgs,
       TypeChans, Numbered, Alive, SetupPhase, Active, props, work, history
  <2>11. BacklogBusy'
    BY <1>21 DEF CloseAfterJobs, BacklogBusy, Buffered, Stopping, TypeMsgs,
       TypePhase, ClosedIsStopped, props, work, history
  <2>12. HandlersFound'
    BY <1>21 DEF CloseAfterJobs, HandlersFound, Buffered, TypeMsgs, TypePhase,
       CloserPhase, Waiting, props, work, history
  <2>13. ClosesAfterHandlers'
    BY <1>21 DEF CloseAfterJobs, ClosesAfterHandlers, TypeMsgs, TypePhase,
       HandlersFound, CloserPhase, props, work, history
  <2>14. ClosedIsStopped'
    BY <1>21 DEF CloseAfterJobs, ClosedIsStopped, Active, TypePhase,
       TypeChans, OneAttempt, CloserPhase, Waiting, HandlersFound,
       ClosesAfterHandlers, Numbered, Alive, Buffered, props, work, history
  <2>15. TypeMsgs' /\ InOrder' /\ Delivered' /\ AckOnOwnChannel' /\
     NoBufferNeeded' /\ LimitKept'
    BY <1>21 DEF CloseAfterJobs, props, work, history, TypeMsgs, InOrder,
       Delivered, AckOnOwnChannel, NoBufferNeeded, LimitKept, Buffered
  <2> QED BY <2>1, <2>2, <2>3, <2>4, <2>5, <2>6, <2>7, <2>8, <2>9, <2>10,
     <2>11, <2>12, <2>13, <2>14, <2>15
<1>22. ASSUME ConnectionCloses PROVE IInv'
  <2>1. TypePhase'
    BY <1>22 DEF ConnectionCloses, TypePhase, Waiting, props, work, history
  <2>2. TypeChans' /\ TypeMsgs' /\ Numbered' /\ CloserPhase' /\
     InactiveIsClosing' /\ SetupPhase' /\ OneAttempt' /\ Subscribed' /\
     SubscriptionKnown' /\ InOrder' /\ Delivered' /\ BufferOfChannel' /\
     AckOnOwnChannel' /\ NoBufferNeeded' /\ LimitKept' /\ BacklogBusy' /\
     HandlersFound' /\ ClosesAfterHandlers' /\ ClosedIsStopped'
    BY <1>22 DEF ConnectionCloses, props, work, history, TypeChans, TypeMsgs,
       Numbered, CloserPhase, InactiveIsClosing, SetupPhase, OneAttempt,
       Subscribed, SubscriptionKnown, InOrder, Delivered, BufferOfChannel,
       AckOnOwnChannel, NoBufferNeeded, LimitKept, BacklogBusy, HandlersFound,
       ClosesAfterHandlers, ClosedIsStopped, Active, Buffered, Stopping
  <2> QED BY <2>1, <2>2
<1> QED BY <1>0, <1>1, <1>2, <1>3, <1>4, <1>5, <1>6, <1>7, <1>8, <1>9, <1>10,
   <1>11, <1>12, <1>13, <1>14, <1>15, <1>16, <1>17, <1>18, <1>19, <1>20,
   <1>21, <1>22 DEF Next, Handlers, Jobs, Environment

(* At the start the consumer is connecting, or it is lazy and closed.      *)
LEMMA InitInv == ASSUME ConsumerAssumption, Init PROVE IInv
<1> USE DEF Init
<1>1. TypePhase
  <2>1. faults \in 0..MaxFaults /\ starts \in 0..MaxStarts
    BY DEF ConsumerAssumption
  <2>2. setup \in {"none", "jobs", "acquire", "declare", "opened", "failing"}
        /\ readyState \in {"CONNECTING", "OPEN", "CLOSING", "CLOSED"}
    OBVIOUS
  <2>3. closing \in [Closers -> {"none", "returned", "rejected"} \cup Waiting]
    OBVIOUS
  <2> QED BY <2>1, <2>2, <2>3 DEF TypePhase
<1>2. TypeChans
  BY DEF TypeChans
<1>3. TypeMsgs
  <2>1. \A S : <<>> \in Seq(S)
    OBVIOUS
  <2> QED BY <2>1 DEF TypeMsgs
<1>4. Numbered /\ CloserPhase /\ InactiveIsClosing /\ SetupPhase /\ SubscriptionKnown
  BY DEF ConsumerAssumption, Channels, Numbered, CloserPhase, InactiveIsClosing, SetupPhase,
     SubscriptionKnown, Alive, Waiting
<1>5. OneAttempt /\ Subscribed
  BY DEF OneAttempt, Subscribed
<1>6. Buffered = {} /\ Elements(immediates) = {} /\ Rising(prefetched) /\ Rising(immediates)
  BY EmptyFacts, BufferIs
<1>7. InOrder /\ Delivered /\ BufferOfChannel /\ AckOnOwnChannel /\ NoBufferNeeded
  BY <1>6 DEF InOrder, Delivered, BufferOfChannel, AckOnOwnChannel, NoBufferNeeded
<1>8. LimitKept
  <2>1. Cardinality(processing) = 0 /\ limit \in Nat
    BY FS_EmptySet DEF ConsumerAssumption, Infinity
  <2> QED BY <2>1 DEF LimitKept
<1>9. BacklogBusy /\ HandlersFound /\ ClosesAfterHandlers /\ ClosedIsStopped
  BY <1>6 DEF BacklogBusy, HandlersFound, ClosesAfterHandlers, ClosedIsStopped, Active
<1> QED BY <1>1, <1>2, <1>3, <1>4, <1>5, <1>7, <1>8, <1>9 DEF IInv

(* The invariant holds in every state.                                     *)
THEOREM InvAlways == ASSUME ConsumerAssumption, OneCloseAtATime PROVE Spec => []IInv
<1>1. Init => IInv
  BY InitInv
<1>2. IInv /\ [Next]_vars => IInv'
  BY InvStep
<1> QED BY <1>1, <1>2, PTL DEF Spec

(* What waits in the buffer has not started, what is processed has.        *)
LEMMA Typed == ASSUME ConsumerAssumption, IInv PROVE TypeOK
<1> USE DEF IInv
<1>1. prefetched \in Seq({m \in Msgs : via[m] = 0})
  <2>1. \A i \in DOMAIN prefetched : prefetched[i] \in {m \in Msgs : via[m] = 0}
    <3> SUFFICES ASSUME NEW i \in DOMAIN prefetched
                 PROVE  prefetched[i] \in Msgs /\ via[prefetched[i]] = 0
      OBVIOUS
    <3>1. prefetched[i] \in Msgs /\ prefetched[i] \in Buffered
      BY DEF TypeMsgs, Buffered
    <3> QED BY <3>1, Waits
  <2> QED BY <2>1 DEF TypeMsgs
<1>2. processing \in SUBSET {m \in Msgs : via[m] # 0}
  BY DEF Delivered, TypeMsgs
<1> QED BY <1>1, <1>2 DEF TypeOK, TypePhase, TypeChans, TypeMsgs

(* Phase, setup, timer and subscription agree in every state: there is     *)
(* never a retry beside a setup, and an OPEN consumer has a subscription,  *)
(* or the news of its cancellation is on its way (Consumer.ts 267-390).    *)
THEOREM SafeAlways == ASSUME ConsumerAssumption, OneCloseAtATime PROVE Spec => []Safe
<1>1. IInv => Safe
  <2> SUFFICES ASSUME IInv PROVE Safe
    OBVIOUS
  <2>1. OpenIsSubscribed
    BY DEF IInv, Subscribed, OpenIsSubscribed, Elements
  <2> QED BY <2>1, Typed DEF Safe, IInv
<1> QED BY <1>1, InvAlways, PTL

(* Over reconnects, closes and restarts, no more handlers run than the     *)
(* concurrency allows, and no message waits while one more could run,      *)
(* apart from those named in BacklogBusy (Consumer.ts 253-264, 311-322).   *)
THEOREM HandlersScheduled ==
  ASSUME ConsumerAssumption, OneCloseAtATime PROVE Spec => []Scheduled
<1>1. IInv => Scheduled
  BY DEF IInv, Scheduled
<1> QED BY <1>1, InvAlways, PTL

(* A message is acked on the channel it came by (Consumer.ts 217-250).     *)
THEOREM AcksOnOwnChannel ==
  ASSUME ConsumerAssumption, OneCloseAtATime PROVE Spec => []AckOnOwnChannel
<1>1. IInv => AckOnOwnChannel
  BY DEF IInv
<1> QED BY <1>1, InvAlways, PTL

(* close() closes the channel after the handlers, and a closed consumer    *)
(* has nothing left that could start it again (Consumer.ts 389-421).       *)
THEOREM ClosesOrderly ==
  ASSUME ConsumerAssumption, OneCloseAtATime PROVE Spec => []CloseOrderly
<1>1. IInv => CloseOrderly
  BY DEF IInv, CloseOrderly
<1> QED BY <1>1, InvAlways, PTL

(* Handlers start in the order of delivery: who starts is either the first *)
(* that is passed on, when nobody waits, or the first of the buffer        *)
(* (Consumer.ts 253-264, 311-322).                                         *)
THEOREM HandlersStartInOrder ==
  ASSUME ConsumerAssumption, OneCloseAtATime PROVE Spec => StartsInOrder
<1> DEFINE Ordered == \A m, n \in Msgs : via[m] = 0 /\ via'[m] # 0 /\ via[n] # 0 => n < m
<1>1. IInv /\ [Next]_vars => [Ordered]_vars
  <2> SUFFICES ASSUME IInv, Next PROVE Ordered
    BY DEF vars
  <2>1. CASE OnMessage
    <3>1. CASE UNCHANGED via
      BY <3>1
    <3>2. CASE ~UNCHANGED via
      <4>1. via' = [via EXCEPT ![Head(immediates)] = ch]
        BY <2>1, <3>2 DEF OnMessage, Prepare
      <4>2. Head(immediates) \in Elements(immediates) \ {Cancel}
        BY <2>1, PassedOn, MsgFacts DEF IInv
      <4>3. \A n \in Msgs : via[n] # 0 => n < Head(immediates)
        BY <4>2 DEF IInv, InOrder
      <4> QED BY <4>1, <4>3 DEF IInv, TypeMsgs
    <3> QED BY <3>1, <3>2
  <2>2. ASSUME NEW h \in Msgs, HandlerEnds(h) PROVE Ordered
    <3>1. CASE prefetched = <<>>
      BY <2>2, <3>1, NextStarts
    <3>2. CASE prefetched # <<>>
      <4>1. via' = [via EXCEPT ![Head(prefetched)] = ch] /\ Head(prefetched) \in Buffered
        BY <2>2, <3>2, NextStarts, BufferIs
      <4>2. \A n \in Msgs : via[n] # 0 => n < Head(prefetched)
        BY <4>1 DEF IInv, InOrder
      <4> QED BY <4>1, <4>2 DEF IInv, TypeMsgs
    <3> QED BY <3>1, <3>2
  <2>3. CASE UNCHANGED via
    BY <2>3
  <2>4. OnMessage \/ (\E h \in Msgs : HandlerEnds(h)) \/ UNCHANGED via
    <3>1. CASE Handlers
      BY <3>1 DEF Handlers
    <3>2. CASE Jobs
      BY <3>2 DEF Jobs, work, OnCancel, RetryFires, SetupAfterJobs, SetupAcquired, AcquireFails,
         SetupConsumes, SetupDone, SetupFailed, CloseAfterSetup, CloseCancelOk, CloseAfterJobs,
         ChannelCloseOk, ChannelGone
    <3>3. CASE Environment
      BY <3>3 DEF Environment, work, Start, Close, ConnectionCloses, DeliverFrame, BrokerCancels,
         ChannelLost, ChannelGone, AcquireFails
    <3> QED BY <3>1, <3>2, <3>3 DEF Next
  <2> QED BY <2>1, <2>2, <2>3, <2>4
<1>2. Spec => [][Ordered]_vars
  BY <1>1, InvAlways, PTL DEF Spec
<1> QED BY <1>2 DEF StartsInOrder
=============================================================================

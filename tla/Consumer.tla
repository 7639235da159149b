------------------------------ MODULE Consumer ------------------------------
(***************************************************************************)
(* A consumer that recovers from lost channels (src/src/Consumer.ts): its  *)
(* setup and retries, the buffer and the handlers of its messages, start() *)
(* and close().                                                            *)
(*                                                                         *)
(* Granularity.  A step is a call by the user, the end of a handler, a     *)
(* frame, a timer, a setImmediate callback, or the continuation of an      *)
(* await.  Continuations that are ready come before frames, timers and     *)
(* immediates.  Channel (Channel.ts 334, 396) passes a message, or the     *)
(* cancellation, on in a setImmediate: frames of the same read come first, *)
(* but no answer to anything sent meanwhile, and no timer.                 *)
(* Channels are numbered; the n-th message delivered is message n.         *)
(***************************************************************************)
EXTENDS Naturals, Sequences, FiniteSets

CONSTANTS
  MaxMsgs,   \* bound: messages delivered
  MaxFaults, \* bound: channels lost or refused, cancellations, failed acquires
  Limits,    \* the values of ConsumerProps.concurrency
  Closers,   \* calls of close()
  MaxStarts, \* bound: calls of start()
  Allowed    \* what the environment may do, see below

Msgs == 1..MaxMsgs
Infinity == MaxMsgs + 1
Channels == 1..(1 + MaxFaults + MaxStarts)

(* "samechunk": the end of the channel may be read together with           *)
(* consume-ok; "twice": close() may be called while one is running.        *)
ASSUME ConsumerAssumption ==
  /\ MaxMsgs \in Nat /\ MaxFaults \in Nat /\ MaxStarts \in Nat
  /\ Limits \subseteq 1..Infinity
  /\ Allowed \subseteq {"samechunk", "twice"}

VARIABLES
  noAck, limit,           \* ConsumerProps.noAck, concurrency
  readyState, consumerTag,\* _readyState; is there a _consumerTag?
  ch, chan, subs,         \* _ch; each channel; its subscriptions
  prefetched, processing, \* _prefetched, _processing
  from, via,              \* the channel a message came from, and the one that
                          \* _execHandler noted; 0 if it did not come, or start
  late, behind,           \* messages passed on when their consumer was gone,
                          \* and those that were buffered behind such a one
  immediates,             \* setImmediate: messages, or Cancel
  retryTimer,             \* is it set?
  setup, awaited,         \* where _setup() waits, and for which handlers
  closing, awaiting,      \* where each close() waits, and for which handlers
  connClosing,            \* the connection is CLOSING or CLOSED
  faults, starts

props == <<noAck, limit>>
work  == <<prefetched, processing, via>>
history == <<from, late, behind>>
vars  == <<props, readyState, consumerTag, ch, chan, subs, work, history, immediates,
           retryTimer, setup, awaited, closing, awaiting, connClosing, faults, starts>>

Cancel == 0
Stopping == readyState \in {"CLOSING", "CLOSED"}
Active == ch # 0 /\ chan[ch] = "open"
Waiting == {"setup", "cancel", "idle", "jobs", "channel"}
Fault == faults < MaxFaults /\ faults' = faults + 1

Connect == setup' = "jobs" /\ awaited' = processing /\ retryTimer' = FALSE

Init ==
  /\ noAck \in BOOLEAN /\ limit \in Limits
  /\ consumerTag = FALSE /\ ch = 0
  /\ chan = [g \in Channels |-> "none"] /\ subs = [g \in Channels |-> 0]
  /\ prefetched = <<>> /\ processing = {}
  /\ from = [m \in Msgs |-> 0] /\ via = [m \in Msgs |-> 0] /\ late = {} /\ behind = {}
  /\ immediates = <<>> /\ retryTimer = FALSE
  /\ awaited = {}
  /\ \/ readyState = "CONNECTING" /\ setup = "jobs"
     \/ readyState = "CLOSED" /\ setup = "none"      \* ConsumerProps.lazy
  /\ closing = [k \in Closers |-> "none"] /\ awaiting = [k \in Closers |-> {}]
  /\ connClosing = FALSE /\ faults = 0 /\ starts = 0

(* Continuations that are ready.                                           *)
SetupReady ==
  \/ setup = "jobs" /\ awaited \cap processing = {}
  \/ setup \in {"failing", "opened"}
CloserReady(k) ==
  \/ closing[k] = "setup" /\ setup = "none"
  \/ closing[k] = "jobs" /\ awaiting[k] \cap processing = {}
Macrotask == ~SetupReady /\ \A k \in Closers : ~CloserReady(k)
(* ... and no immediate: timers, and answers to what was sent just now.    *)
NextTurn == Macrotask /\ immediates = <<>>

-----------------------------------------------------------------------------
(* Messages and their handlers.                                            *)

(* _prepareMessage and _execHandler: the handler is called at once, and    *)
(* the present channel is noted for the ack.                               *)
Prepare(m) == processing' = processing \cup {m} /\ via' = [via EXCEPT ![m] = ch]

Buffered == {prefetched[i] : i \in DOMAIN prefetched}
AtLimit == Cardinality(processing) >= limit

ShouldBuffer ==
  /\ prefetched # <<>> \/ AtLimit \/ (~noAck /\ readyState = "CLOSING")
  /\ limit # Infinity

(* basic.deliver.                                                          *)
DeliverFrame ==
  \E m \in Msgs :
    /\ Macrotask /\ ch # 0 /\ chan[ch] \in {"open", "inactive"} /\ subs[ch] > 0
    /\ from[m] = 0 /\ \A n \in 1..(m - 1) : from[n] # 0
    /\ from' = [from EXCEPT ![m] = ch]
    /\ immediates' = Append(immediates, m)
    /\ UNCHANGED <<props, readyState, consumerTag, ch, chan, subs, work, late, behind,
                   retryTimer, setup, awaited, closing, awaiting, connClosing, faults,
                   starts>>

(* The channel of the message has ended, or close() has been told that its *)
(* consumer is cancelled.                                                  *)
Late(m) ==
  chan[from[m]] # "open" \/ (readyState = "CLOSING" /\ subs[from[m]] = 0)

OnMessage ==
  LET m == Head(immediates)
  IN /\ Macrotask /\ immediates # <<>> /\ m # Cancel
     /\ immediates' = Tail(immediates)
     /\ IF ShouldBuffer
          THEN prefetched' = Append(prefetched, m) /\ UNCHANGED <<processing, via>>
          ELSE Prepare(m) /\ UNCHANGED prefetched
     /\ late' = IF Late(m) THEN late \cup {m} ELSE late
     /\ behind' = IF ShouldBuffer /\ Buffered \cap (late \cup behind) # {}
                    THEN behind \cup {m} ELSE behind
     /\ UNCHANGED <<props, readyState, consumerTag, ch, chan, subs, from, retryTimer,
                    setup, awaited, closing, awaiting, connClosing, faults, starts>>

(* Mutants: the last one is taken; the buffer is not looked at.            *)
PopNext(left) ==
  /\ processing' = left \cup {prefetched[Len(prefetched)]}
  /\ via' = [via EXCEPT ![prefetched[Len(prefetched)]] = ch]
  /\ prefetched' = SubSeq(prefetched, 1, Len(prefetched) - 1)
ForgetNext(left) == processing' = left /\ UNCHANGED <<prefetched, via>>
ShiftNext(left) ==
  /\ processing' = left \cup {Head(prefetched)}
  /\ via' = [via EXCEPT ![Head(prefetched)] = ch]
  /\ prefetched' = Tail(prefetched)

(* Mutant: IDLE_EVENT is not emitted.                                      *)
NobodyWoken == UNCHANGED closing
EmitIdle == closing' = [k \in Closers |-> IF closing[k] = "idle" THEN "jobs" ELSE closing[k]]

(* A handler settles: the message is acked or nacked on the channel noted, *)
(* or that fails as it is gone; then the next message starts.              *)
HandlerEnds(m) ==
  LET left == processing \ {m}
  IN /\ m \in processing
     /\ IF Cardinality(left) < limit /\ prefetched # <<>>
          THEN ShiftNext(left) /\ UNCHANGED closing
          ELSE /\ processing' = left /\ UNCHANGED <<prefetched, via>>
               /\ IF left = {} THEN EmitIdle ELSE UNCHANGED closing
     /\ UNCHANGED <<props, readyState, consumerTag, ch, chan, subs, history, immediates,
                    retryTimer, setup, awaited, awaiting, connClosing, faults, starts>>

-----------------------------------------------------------------------------
(* Setup and retries.                                                      *)

(* Mutant: a pending setup is not looked at.                               *)
RetryAnyway(pending) == retryTimer' = (retryTimer \/ ~connClosing)
ScheduleRetry(pending) == retryTimer' = (retryTimer \/ (~connClosing /\ ~pending))
Reconnect(pending) == consumerTag' = FALSE /\ ScheduleRetry(pending)

RetryFires ==
  /\ retryTimer /\ NextTurn
  /\ Connect
  /\ UNCHANGED <<props, readyState, consumerTag, ch, chan, subs, work, history, immediates,
                 closing, awaiting, connClosing, faults, starts>>

(* "wait for in-progress jobs to complete before retrying"                 *)
SetupAfterJobs ==
  /\ setup = "jobs" /\ awaited \cap processing = {}
  /\ setup' = IF readyState = "CLOSING" THEN "none" ELSE IF Active THEN "declare" ELSE "acquire"
  /\ awaited' = {}
  /\ UNCHANGED <<props, readyState, consumerTag, ch, chan, subs, work, history, immediates,
                 retryTimer, closing, awaiting, connClosing, faults, starts>>

SetupAcquired ==
  /\ setup = "acquire" /\ ~connClosing /\ NextTurn /\ ch + 1 \in Channels
  /\ ch' = ch + 1 /\ chan' = [chan EXCEPT ![ch + 1] = "open"]
  /\ setup' = "declare"
  /\ UNCHANGED <<props, readyState, consumerTag, subs, work, history, immediates,
                 retryTimer, awaited, closing, awaiting, connClosing, faults, starts>>

(* acquireTimeout, or the connection is closing.                           *)
AcquireFails ==
  /\ setup = "acquire" /\ NextTurn
  /\ IF connClosing THEN UNCHANGED faults ELSE Fault
  /\ setup' = "failing"
  /\ UNCHANGED <<props, readyState, consumerTag, ch, chan, subs, work, history, immediates,
                 retryTimer, awaited, closing, awaiting, connClosing, starts>>

Opened == IF readyState = "CONNECTING" THEN "OPEN" ELSE readyState

(* The requests from queue.declare to basic.consume have been answered.    *)
SetupConsumes ==
  /\ setup = "declare" /\ Active /\ NextTurn
  /\ subs' = [subs EXCEPT ![ch] = @ + 1] /\ consumerTag' = TRUE
  /\ readyState' = Opened /\ setup' = "opened"
  /\ UNCHANGED <<props, ch, chan, work, history, immediates, retryTimer, awaited, closing,
                 awaiting, connClosing, faults, starts>>

(* A microtask later: _pendingSetup is undefined.                          *)
SetupDone ==
  /\ setup = "opened"
  /\ setup' = "none"
  /\ UNCHANGED <<props, readyState, consumerTag, ch, chan, subs, work, history, immediates,
                 retryTimer, awaited, closing, awaiting, connClosing, faults, starts>>

(* Mutant: no retry after a failed setup.                                  *)
GiveUp == consumerTag' = FALSE /\ UNCHANGED retryTimer
RetrySetup == Reconnect(FALSE)

SetupFailed ==
  /\ setup = "failing"
  /\ setup' = "none"
  /\ IF Stopping THEN UNCHANGED <<readyState, consumerTag, retryTimer>>
     ELSE readyState' = "CONNECTING" /\ RetrySetup
  /\ UNCHANGED <<props, ch, chan, subs, work, history, immediates, awaited, closing,
                 awaiting, connClosing, faults, starts>>

(* Mutant: the buffer is kept.                                             *)
KeepBuffer == UNCHANGED prefetched
DropBuffer == prefetched' = IF noAck THEN prefetched ELSE <<>>

(* The channel's 'close' event.  It ends a close() that waited for it, and *)
(* fails the request in flight, of a setup or of a close().                *)
ChannelGone ==
  /\ chan' = [chan EXCEPT ![ch] = "closed"] /\ subs' = [subs EXCEPT ![ch] = 0]
  /\ DropBuffer
  /\ IF Stopping
       THEN /\ readyState' = IF \E k \in Closers : closing[k] = "channel" THEN "CLOSED"
                             ELSE readyState
            /\ UNCHANGED <<consumerTag, retryTimer>>
       ELSE readyState' = "CONNECTING" /\ Reconnect(setup # "none")
  /\ setup' = IF setup = "declare" THEN "failing" ELSE setup
  /\ closing' = [k \in Closers |-> CASE closing[k] = "cancel"  -> "rejected"
                                     [] closing[k] = "channel" -> "returned"
                                     [] OTHER -> closing[k]]
  /\ UNCHANGED <<props, ch, processing, via, history, immediates, awaited, awaiting,
                 connClosing, starts>>

(* The broker closes the channel, or the connection is lost.               *)
ChannelLost ==
  /\ ch # 0 /\ chan[ch] \in {"open", "inactive"} /\ Fault
  /\ Macrotask \/ ("samechunk" \in Allowed /\ setup = "opened")
  /\ ChannelGone

(* basic.cancel: the queue was deleted, for instance.                      *)
BrokerCancels ==
  /\ Macrotask /\ Active /\ subs[ch] > 0 /\ Fault
  /\ subs' = [subs EXCEPT ![ch] = 0]
  /\ immediates' = Append(immediates, Cancel)
  /\ UNCHANGED <<props, readyState, consumerTag, ch, chan, work, history, retryTimer, setup,
                 awaited, closing, awaiting, connClosing, starts>>

OnCancel ==
  /\ Macrotask /\ immediates # <<>> /\ Head(immediates) = Cancel
  /\ immediates' = Tail(immediates)
  /\ IF readyState = "CLOSING" THEN UNCHANGED <<readyState, consumerTag, retryTimer>>
     ELSE readyState' = "CONNECTING" /\ Reconnect(setup # "none")
  /\ UNCHANGED <<props, ch, chan, subs, work, history, setup, awaited, closing, awaiting,
                 connClosing, faults, starts>>

-----------------------------------------------------------------------------
(* start() and close().                                                    *)

Start ==
  /\ readyState = "CLOSED" /\ starts < MaxStarts
  /\ starts' = starts + 1
  /\ readyState' = "CONNECTING" /\ Connect
  /\ UNCHANGED <<props, consumerTag, ch, chan, subs, work, history, immediates, closing,
                 awaiting, connClosing, faults>>

ClearTimer == retryTimer' = FALSE

Close(k) ==
  /\ closing[k] = "none"
  /\ "twice" \in Allowed \/ \A j \in Closers : closing[j] \notin Waiting
  /\ IF readyState = "CLOSED"
       THEN closing' = [closing EXCEPT ![k] = "returned"] /\ UNCHANGED <<readyState, retryTimer>>
       ELSE /\ closing' = [closing EXCEPT ![k] = "setup"]
            /\ readyState' = "CLOSING" /\ ClearTimer
  /\ UNCHANGED <<props, consumerTag, ch, chan, subs, work, history, immediates, setup,
                 awaited, awaiting, connClosing, faults, starts>>

(* Mutant: it does not wait for the handlers.                              *)
NotForHandlers == {}
ForHandlers == processing

(* close() once basic.cancel is answered, or was not needed: drop the      *)
(* buffer, or wait until it is processed; then wait for the handlers.      *)
Wind(k) ==
  /\ prefetched' = IF noAck THEN prefetched ELSE <<>>
  /\ closing' = [closing EXCEPT ![k] = IF noAck /\ prefetched # <<>> THEN "idle" ELSE "jobs"]
  /\ awaiting' = [awaiting EXCEPT ![k] = IF noAck /\ prefetched # <<>> THEN {} ELSE ForHandlers]

NoSetup == setup = "none"

CloseAfterSetup(k) ==
  /\ closing[k] = "setup" /\ NoSetup
  /\ IF Active /\ consumerTag
       THEN /\ consumerTag' = FALSE
            /\ closing' = [closing EXCEPT ![k] = "cancel"]
            /\ UNCHANGED <<prefetched, awaiting>>
       ELSE Wind(k) /\ UNCHANGED consumerTag
  /\ UNCHANGED <<props, readyState, ch, chan, subs, processing, via, history, immediates,
                 retryTimer, setup, awaited, connClosing, faults, starts>>

(* basic.cancel-ok: messages may have arrived before it.                   *)
CloseCancelOk(k) ==
  /\ closing[k] = "cancel" /\ Macrotask
  /\ subs' = [subs EXCEPT ![ch] = 0]
  /\ Wind(k)
  /\ UNCHANGED <<props, readyState, consumerTag, ch, chan, processing, via, history,
                 immediates, retryTimer, setup, awaited, connClosing, faults, starts>>

(* The handlers have settled: close the channel, if it is still active.    *)
CloseAfterJobs(k) ==
  /\ closing[k] = "jobs" /\ awaiting[k] \cap processing = {}
  /\ IF Active
       THEN /\ chan' = [chan EXCEPT ![ch] = "inactive"]
            /\ closing' = [closing EXCEPT ![k] = "channel"]
            /\ UNCHANGED readyState
       ELSE /\ closing' = [closing EXCEPT ![k] = "returned"] /\ readyState' = "CLOSED"
            /\ UNCHANGED chan
  /\ UNCHANGED <<props, consumerTag, ch, subs, work, history, immediates, retryTimer, setup,
                 awaited, awaiting, connClosing, faults, starts>>

(* channel.close-ok.                                                       *)
ChannelCloseOk ==
  /\ ch # 0 /\ chan[ch] = "inactive" /\ NextTurn
  /\ ChannelGone
  /\ UNCHANGED faults

(* The user closes the connection.                                         *)
ConnectionCloses ==
  /\ ~connClosing /\ connClosing' = TRUE
  /\ UNCHANGED <<props, readyState, consumerTag, ch, chan, subs, work, history, immediates,
                 retryTimer, setup, awaited, closing, awaiting, faults, starts>>

-----------------------------------------------------------------------------
Handlers == \E m \in Msgs : HandlerEnds(m)
Jobs ==
  \/ OnMessage \/ OnCancel \/ RetryFires
  \/ SetupAfterJobs \/ SetupAcquired \/ (connClosing /\ AcquireFails) \/ SetupConsumes
  \/ SetupDone \/ SetupFailed
  \/ \E k \in Closers : CloseAfterSetup(k) \/ CloseCancelOk(k) \/ CloseAfterJobs(k)
  \/ ChannelCloseOk
Environment ==
  \/ Start \/ (\E k \in Closers : Close(k)) \/ ConnectionCloses
  \/ DeliverFrame \/ BrokerCancels \/ ChannelLost \/ AcquireFails

Next == Handlers \/ Jobs \/ Environment
Spec == Init /\ [][Next]_vars

(* Jobs that are ready run and a server that is there answers; nothing is  *)
(* assumed of the user.                                                    *)
FairSpec == Spec /\ WF_vars(Jobs)

(* The user's handlers settle.                                             *)
HandlersSettle == WF_vars(Handlers)

-----------------------------------------------------------------------------
(* The type of every variable.  A message in the buffer has not started.   *)
TypeOK ==
  /\ noAck \in BOOLEAN /\ limit \in Limits /\ consumerTag \in BOOLEAN
  /\ readyState \in {"CONNECTING", "OPEN", "CLOSING", "CLOSED"}
  /\ ch \in Channels \cup {0} /\ subs \in [Channels -> 0..1]
  /\ chan \in [Channels -> {"none", "open", "inactive", "closed"}]
  /\ prefetched \in Seq({m \in Msgs : via[m] = 0})
  /\ processing \in SUBSET {m \in Msgs : via[m] # 0} /\ late \in SUBSET Msgs
  /\ behind \in SUBSET Msgs
  /\ from \in [Msgs -> Channels \cup {0}] /\ via \in [Msgs -> Channels \cup {0}]
  /\ immediates \in Seq(Msgs \cup {Cancel})
  /\ setup \in {"none", "jobs", "acquire", "declare", "opened", "failing"}
  /\ awaited \in SUBSET Msgs /\ awaiting \in [Closers -> SUBSET Msgs]
  /\ closing \in [Closers -> {"none", "returned", "rejected"} \cup Waiting]
  /\ retryTimer \in BOOLEAN /\ connClosing \in BOOLEAN
  /\ faults \in 0..MaxFaults /\ starts \in 0..MaxStarts

(* "honor the concurrency limit", over reconnects, closes and restarts.    *)
LimitKept == Cardinality(processing) <= limit

(* No message waits while a handler could run, except those that are not   *)
(* to be started as the consumer is closing, came late when it was, or     *)
(* came behind such a one that a start() has found in the buffer.          *)
BacklogBusy ==
  \/ Buffered \subseteq late \cup behind
  \/ Cardinality(processing) >= limit
  \/ ~noAck /\ Stopping

(* Handlers run up to the limit and no more.                               *)
Scheduled == LimitKept /\ BacklogBusy

(* Messages start in the order of their delivery ("don't skip the queue"). *)
StartsInOrder ==
  [][\A m, n \in Msgs : via[m] = 0 /\ via'[m] # 0 /\ via[n] # 0 => n < m]_vars

(* "message MUST ack/nack on the same channel to which it is delivered",   *)
(* although the channel may be replaced while messages wait or handlers    *)
(* run.  (For those that are passed on late it does not hold, see the      *)
(* README.)                                                                *)
AckOnOwnChannel == ~noAck => \A m \in Msgs \ late : via[m] \in {0, from[m]}

(* One way to go on at a time: never a retry beside a running setup.       *)
OneAttempt ==
  /\ ~(retryTimer /\ setup # "none") /\ (retryTimer => readyState = "CONNECTING")
  /\ readyState = "OPEN" => setup \in {"none", "opened"}

(* A consumer that was not closed and has no subscription is on its way to *)
(* one ("reconnect when: setup fails, basic.cancel, channel closed").      *)
NeverStranded ==
  readyState = "CONNECTING" /\ ~connClosing => retryTimer \/ setup # "none"

(* OPEN is true: there is a live channel with a subscription, or the news  *)
(* of its cancellation is on its way.                                      *)
OpenIsSubscribed ==
  readyState = "OPEN" =>
    Active /\ (subs[ch] = 1 \/ \E i \in DOMAIN immediates : immediates[i] = Cancel)

(* Phase, setup, timer and subscription agree.                             *)
Safe == TypeOK /\ OneAttempt /\ OpenIsSubscribed

(* close() closes the channel when every handler has settled, but for      *)
(* those of messages passed on late.                                       *)
ClosesAfterHandlers ==
  \A k \in Closers : closing[k] = "channel" => processing \subseteq late

(* "Close the channel once all pending message handlers have settled."     *)
HandlersSettleFirst == \A k \in Closers : closing[k] = "channel" => processing = {}

(* A closed consumer is stopped: nothing is pending that could start it    *)
(* again or bring it a message.                                            *)
ClosedIsStopped ==
  readyState = "CLOSED" =>
    /\ ~retryTimer /\ setup = "none" /\ ~Active
    /\ processing \cup Buffered \subseteq late

(* close() ends after the handlers, and for good.                          *)
CloseOrderly == ClosesAfterHandlers /\ ClosedIsStopped

(* A consumer that lost its channel or its queue gets another one, or is   *)
(* closed, if handlers settle.                                             *)
Recovers ==
  HandlersSettle =>
    (readyState = "CONNECTING" ~> readyState # "CONNECTING" \/ connClosing)

(* close() settles, if handlers settle.                                    *)
CloseSettles ==
  HandlersSettle =>
    \A k \in Closers : closing[k] # "none" ~> closing[k] \in {"returned", "rejected"}
=============================================================================

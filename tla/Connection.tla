----------------------------- MODULE Connection -----------------------------
(***************************************************************************)
(* The life of a connection (src/src/Connection.ts): dialing, negotiation, *)
(* reconnects and their timers, the leased channel ids, acquire(), close(),*)
(* unsafeDestroy() and the lazy channel.                                   *)
(*                                                                         *)
(* Granularity.  A step is one JavaScript job: a call by the user, a       *)
(* socket event, a timer, a frame, or the continuation of an await.        *)
(* Continuations that are ready come before any event or timer, but user   *)
(* code can run before them (the 'connection' event is emitted while the   *)
(* acquires it wakes are still to go on).  One job is two steps: the       *)
(* 'close' handler of a socket emits 'close' for every channel before it   *)
(* schedules the retry, and the user's handlers may call anything.  What a *)
(* channel does between channel.open-ok and its release is the subject of  *)
(* module Channel.                                                         *)
(***************************************************************************)
EXTENDS Naturals, FiniteSets

CONSTANTS
  Chans,      \* calls of acquire(), each with the channel it may get
  LazyChans,  \* those of them that _lazy() may make
  Closers,    \* calls of close()
  MaxId,      \* channelMax, the highest channel id
  MaxFaults,  \* how often the network or the server ends a connection
  MayDestroy, \* may the user call unsafeDestroy()?
  FromEvent,  \* may a handler of a channel's 'close' close the connection?
  None        \* no channel

ASSUME ConnectionAssumption ==
  /\ LazyChans \subseteq Chans /\ None \notin Chans
  /\ MaxId \in Nat /\ MaxFaults \in Nat
  /\ MayDestroy \in BOOLEAN /\ FromEvent \in BOOLEAN

VARIABLES
  readyState, retryCount,     \* _state.readyState, _state.retryCount
  retryTimer, connectionTimer, heartbeatTimer,
                              \* is the timer set?
  onConnect, onEmpty,         \* the two deferreds: onConnect is replaced when
                              \* an open connection is lost
  leased,                     \* _state.leased: from the ids in use to their channels
  lazy,                       \* the acquire() that _state.lazyChannel is about
  socket, dials,              \* this._socket and how many there have been
  acq, born,                  \* each acquire(), the socket its channel was made on
  closing,                    \* each close()
  afterReset,                 \* the rest of a 'close' handler is still to run; the
                              \* channels' events have been emitted, or there were none
  closeLazy,                  \* close() follows the promise of the lazy channel
  faults, reported            \* faults so far; 'error' events since it was open

timers == <<retryTimer, connectionTimer, heartbeatTimer>>
vars == <<readyState, retryCount, timers, onConnect, onEmpty, leased, lazy, socket,
          dials, acq, born, closing, afterReset, closeLazy, faults, reported>>

Ids == 1..MaxId
Leases == UNION {[S -> Chans] : S \in SUBSET Ids}
Live == {"opening", "ready", "closing"}
Pending == {"waiting", "woken", "opening"}

(* socket.writable, and destroy(): its 'close' event follows, but only if  *)
(* it was not emitted before.                                              *)
Writable == socket \in {"dialing", "open"}
Destroyed(s) == IF s = "closed" THEN "closed" ELSE "destroyed"

Init ==
  /\ readyState = "CONNECTING" /\ retryCount = 1
  /\ retryTimer = FALSE /\ connectionTimer = TRUE /\ heartbeatTimer = FALSE
  /\ onConnect = "pending" /\ onEmpty = FALSE
  /\ leased = << >> /\ lazy = None
  /\ socket = "dialing" /\ dials = 1
  /\ acq = [c \in Chans |-> "none"] /\ born = [c \in Chans |-> 0]
  /\ closing = [k \in Closers |-> "none"] /\ afterReset = "none"
  /\ closeLazy = FALSE
  /\ faults = 0 /\ reported = 0

(* _checkEmpty, at the end of a step.                                      *)
CheckEmpty ==
  onEmpty' = (onEmpty \/ (DOMAIN leased' = {} /\ readyState' = "CLOSING"))

(* The lazy channel, if there is one, is in one of these states.           *)
LazyIn(S) == \E c \in LazyChans : c = lazy /\ acq[c] \in S

(* Continuations that are ready to run; close() has the shorter chain.     *)
CloseReady == onEmpty /\ \E k \in Closers : closing[k] = "empty"
Macrotask == ~CloseReady /\ afterReset = "none" /\ \A c \in Chans : acq[c] # "woken"

(* The user's code may call: from outside, or from a channel's event.      *)
UserRuns == afterReset # "silent"
UserCloses == afterReset = "none" \/ (afterReset = "events" /\ FromEvent)

-----------------------------------------------------------------------------
(* acquire() and the channels.                                             *)

(* leased.pick() returns a free id; acquire() throws if it is above        *)
(* channelMax.  Mutant: one that is in use may be picked.                  *)
FreeOrNot == Ids
Free == Ids \ DOMAIN leased

(* The part of acquire() from leased.pick() on.  channel.open is written;  *)
(* on a socket that was ended, that write destroys it.  Nothing looks at   *)
(* readyState.                                                             *)
Lease(c) ==
  \/ /\ Free = {}
     /\ acq' = [acq EXCEPT ![c] = "failed"]
     /\ UNCHANGED <<leased, born, socket>>
  \/ \E id \in Free :
       /\ leased' = [i \in DOMAIN leased \cup {id} |-> IF i = id THEN c ELSE leased[i]]
       /\ acq' = [acq EXCEPT ![c] = "opening"]
       /\ born' = [born EXCEPT ![c] = dials]
       /\ socket' = IF socket = "ended" THEN "destroyed" ELSE socket

(* What becomes of an acquire() that awaits onConnect.                     *)
AwaitConnect == CASE onConnect = "pending" -> "waiting"
                  [] onConnect = "resolved" -> "woken"
                  [] onConnect = "rejected" -> "failed"

StartAcquire(c) ==
  /\ acq[c] = "none" /\ UserRuns
  /\ \/ /\ readyState \in {"CLOSING", "CLOSED"}
        /\ acq' = [acq EXCEPT ![c] = "failed"]
        /\ UNCHANGED <<leased, born, socket>>
     \/ /\ readyState = "CONNECTING"
        /\ acq' = [acq EXCEPT ![c] = AwaitConnect]
        /\ UNCHANGED <<leased, born, socket>>
     \/ readyState = "OPEN" /\ Lease(c)
  /\ UNCHANGED <<readyState, retryCount, timers, onConnect, onEmpty, dials, closing,
                 afterReset, closeLazy, faults, reported>>

Acquire(c) == c \notin LazyChans /\ StartAcquire(c) /\ UNCHANGED lazy

(* _lazy() makes a channel if there is none, none on its way, and none     *)
(* that is active; otherwise it returns what there is (also while a        *)
(* rejection of the one on its way is still to be noticed).                *)
(* Mutant: it does not see the one on its way.                             *)
NeedsLazyOften == ~LazyIn({"ready"})
NeedsLazy == ~LazyIn(Pending \cup {"ready"})
Lazy(c) ==
  c \in LazyChans /\ NeedsLazy /\ afterReset = "none" /\ StartAcquire(c) /\ lazy' = c

(* acquire() after 'connection'.                                           *)
Continue(c) ==
  /\ acq[c] = "woken" /\ ~CloseReady /\ afterReset = "none"
  /\ Lease(c)
  /\ UNCHANGED <<readyState, retryCount, timers, onConnect, onEmpty, lazy, dials,
                 closing, afterReset, closeLazy, faults, reported>>

(* acquireTimeout.                                                         *)
AcquireTimeout(c) ==
  /\ acq[c] = "waiting" /\ Macrotask
  /\ acq' = [acq EXCEPT ![c] = "failed"]
  /\ UNCHANGED <<readyState, retryCount, timers, onConnect, onEmpty, leased, lazy,
                 socket, dials, born, closing, afterReset, closeLazy, faults, reported>>

(* channel.open-ok.  A close() that waits for the lazy channel closes it.  *)
OpenOk(c) ==
  /\ acq[c] = "opening" /\ socket = "open" /\ Macrotask
  /\ acq' = [acq EXCEPT ![c] = IF closeLazy /\ lazy = c THEN "closing" ELSE "ready"]
  /\ UNCHANGED <<readyState, retryCount, timers, onConnect, onEmpty, leased, lazy,
                 socket, dials, born, closing, afterReset, closeLazy, faults, reported>>

CloseChannel(c) ==
  /\ acq[c] = "ready" /\ UserRuns
  /\ acq' = [acq EXCEPT ![c] = "closing"]
  /\ UNCHANGED <<readyState, retryCount, timers, onConnect, onEmpty, leased, lazy,
                 socket, dials, born, closing, afterReset, closeLazy, faults, reported>>

(* The channel's 'close' event: the id is given back.  Mutant: nobody      *)
(* looks whether that was the last one.                                    *)
NeverChecked == UNCHANGED onEmpty
AfterRelease == CheckEmpty

Release(c) ==
  /\ leased' = [id \in {i \in DOMAIN leased : leased[i] # c} |-> leased[id]]
  /\ UNCHANGED <<readyState, retryCount, timers, onConnect, lazy, socket, dials, born,
                 closing, afterReset, closeLazy, faults, reported>>
  /\ AfterRelease

ChannelCloseOk(c) ==
  /\ acq[c] = "closing" /\ socket = "open" /\ Macrotask
  /\ acq' = [acq EXCEPT ![c] = "closed"]
  /\ Release(c)

(* The broker refuses or closes a channel.                                 *)
ChannelKilled(c) ==
  /\ acq[c] \in Live /\ socket = "open" /\ Macrotask
  /\ acq' = [acq EXCEPT ![c] = IF acq[c] = "opening" THEN "failed" ELSE "closed"]
  /\ Release(c)

-----------------------------------------------------------------------------
(* Dialing, negotiation, and the end of a socket.                          *)

(* connection.open-ok: the connection is established.                      *)
Negotiated ==
  /\ socket = "dialing" /\ Macrotask
  /\ socket' = "open" /\ readyState' = "OPEN" /\ retryCount' = 1
  /\ heartbeatTimer' = TRUE /\ connectionTimer' = FALSE
  /\ onConnect' = IF onConnect = "pending" THEN "resolved" ELSE onConnect
  /\ acq' = [c \in Chans |-> IF acq[c] = "waiting" THEN "woken" ELSE acq[c]]
  /\ reported' = 0
  /\ UNCHANGED <<retryTimer, onEmpty, leased, lazy, dials, born, closing, afterReset,
                 closeLazy, faults>>

(* Refused, timed out, negotiation failed, reset, no heartbeat: destroyed. *)
Drop ==
  /\ socket \in {"dialing", "open", "ended"} /\ faults < MaxFaults /\ Macrotask
  /\ socket' = "destroyed" /\ faults' = faults + 1
  /\ UNCHANGED <<readyState, retryCount, timers, onConnect, onEmpty, leased, lazy,
                 dials, acq, born, closing, afterReset, closeLazy, reported>>

(* connection.close from the server is answered, and our side is ended.    *)
ServerClose ==
  /\ socket = "open" /\ faults < MaxFaults /\ Macrotask
  /\ socket' = "ended" /\ faults' = faults + 1
  /\ UNCHANGED <<readyState, retryCount, timers, onConnect, onEmpty, leased, lazy,
                 dials, acq, born, closing, afterReset, closeLazy, reported>>

(* The server ends its side too.                                           *)
ServerEnds ==
  /\ socket = "ended" /\ Macrotask
  /\ socket' = "destroyed"
  /\ UNCHANGED <<readyState, retryCount, timers, onConnect, onEmpty, leased, lazy,
                 dials, acq, born, closing, afterReset, closeLazy, faults, reported>>

(* _reset: clear every leased channel, release its id, stop the timers.    *)
(* Mutant: the channels are forgotten without being cleared.               *)
Forgotten == acq
Cleared == [c \in Chans |-> IF acq[c] = "opening" THEN "failed"
                            ELSE IF acq[c] \in Live THEN "closed" ELSE acq[c]]
StopHeartbeat == heartbeatTimer' = FALSE

Reset ==
  /\ acq' = Cleared
  /\ leased' = << >>
  /\ CheckEmpty
  /\ connectionTimer' = FALSE /\ StopHeartbeat

(* The onConnect deferred of the next connection.  Mutant: the one that is *)
(* already resolved stays in place.                                        *)
StaleOnConnect == onConnect
NextOnConnect == IF readyState = "OPEN" THEN "pending" ELSE onConnect

(* Mutant: only the first failure is followed by a retry.                  *)
RetryOnce == retryTimer' = (retryCount <= 1)
ScheduleRetry == retryTimer' = TRUE

(* Mutant: every failed attempt is reported.                               *)
AlwaysReports == TRUE
Reports == retryCount <= 1

(* The socket's 'close' event: the end, or the wait for the next attempt.  *)
SocketClosed ==
  /\ socket = "destroyed" /\ Macrotask
  /\ socket' = "closed"
  /\ IF readyState = "CLOSING"
       THEN readyState' = "CLOSED" /\ UNCHANGED <<onConnect, afterReset>>
       ELSE /\ readyState' = "CONNECTING"
            /\ onConnect' = NextOnConnect
            /\ afterReset' = IF DOMAIN leased = {} THEN "silent" ELSE "events"
  /\ Reset
  /\ closing' = [k \in Closers |-> IF closing[k] = "socket" THEN "returned" ELSE closing[k]]
  /\ UNCHANGED <<retryCount, retryTimer, lazy, dials, born, closeLazy, faults,
                 reported>>

(* The rest of that handler.  It does not look at readyState again.        *)
AfterReset ==
  /\ afterReset # "none"
  /\ afterReset' = "none"
  /\ retryCount' = retryCount + 1 /\ ScheduleRetry
  /\ reported' = IF Reports THEN reported + 1 ELSE reported
  /\ UNCHANGED <<readyState, connectionTimer, heartbeatTimer, onConnect, onEmpty,
                 leased, lazy, socket, dials, acq, born, closing, closeLazy, faults>>

(* The retry timer: _connect.                                              *)
Retry ==
  /\ retryTimer /\ Macrotask
  /\ retryTimer' = FALSE /\ connectionTimer' = TRUE
  /\ socket' = "dialing" /\ dials' = dials + 1
  /\ UNCHANGED <<readyState, retryCount, heartbeatTimer, onConnect, onEmpty, leased,
                 lazy, acq, born, closing, afterReset, closeLazy, faults, reported>>

-----------------------------------------------------------------------------
(* close() and unsafeDestroy().                                            *)

(* Mutant: the retry timer is left to fire.                                *)
LeaveRetry == UNCHANGED retryTimer
StopRetry == retryTimer' = FALSE

(* What close() while connecting and unsafeDestroy() have in common.       *)
Abandon ==
  LET waiting == {c \in Chans : acq[c] = "waiting"}
  IN /\ readyState' = "CLOSING" /\ StopRetry
     /\ onConnect' = IF onConnect = "pending" THEN "rejected" ELSE onConnect
     /\ acq' = [c \in Chans |-> IF c \in waiting THEN "failed" ELSE acq[c]]
     /\ socket' = Destroyed(socket)
     /\ UNCHANGED <<retryCount, connectionTimer, heartbeatTimer, onEmpty, leased, lazy,
                    dials, born, afterReset, closeLazy, faults, reported>>

CloseConnecting(k) ==
  /\ closing[k] = "none" /\ readyState = "CONNECTING" /\ UserCloses
  /\ closing' = [closing EXCEPT ![k] = "returned"]
  /\ Abandon

(* Close the lazy channel, or follow its promise; wait for the others.     *)
CloseOpen(k) ==
  /\ closing[k] = "none" /\ readyState = "OPEN" /\ afterReset = "none"
  /\ closing' = [closing EXCEPT ![k] = "empty"]
  /\ readyState' = "CLOSING"
  /\ closeLazy' = LazyIn(Pending)
  /\ acq' = IF LazyIn({"ready"}) THEN [acq EXCEPT ![lazy] = "closing"] ELSE acq
  /\ leased' = leased /\ CheckEmpty
  /\ UNCHANGED <<retryCount, timers, onConnect, lazy, socket, dials, born, afterReset,
                 faults, reported>>

(* A second call waits for the socket's 'close' event, for ever if it has  *)
(* been emitted.                                                           *)
CloseAgain(k) ==
  /\ closing[k] = "none" /\ readyState \in {"CLOSING", "CLOSED"} /\ UserCloses
  /\ closing' = [closing EXCEPT ![k] = IF readyState = "CLOSED" THEN "returned"
                                       ELSE IF socket = "closed" THEN "never" ELSE "socket"]
  /\ UNCHANGED <<readyState, retryCount, timers, onConnect, onEmpty, leased, lazy,
                 socket, dials, acq, born, afterReset, closeLazy, faults, reported>>

(* All channels are closed: say goodbye and end the socket.                *)
CloseResume(k) ==
  /\ closing[k] = "empty" /\ onEmpty /\ afterReset = "none"
  /\ heartbeatTimer' = FALSE
  /\ closing' = [closing EXCEPT ![k] = IF Writable THEN "socket" ELSE "returned"]
  /\ socket' = IF Writable THEN "ended" ELSE socket
  /\ UNCHANGED <<readyState, retryCount, retryTimer, connectionTimer, onConnect,
                 onEmpty, leased, lazy, dials, acq, born, afterReset, closeLazy, faults,
                 reported>>

UnsafeDestroy ==
  /\ MayDestroy /\ readyState # "CLOSED" /\ UserCloses
  /\ Abandon
  /\ UNCHANGED closing

-----------------------------------------------------------------------------
User ==
  \/ \E c \in Chans : Acquire(c) \/ Lazy(c) \/ CloseChannel(c)
  \/ \E k \in Closers : CloseConnecting(k) \/ CloseOpen(k) \/ CloseAgain(k)
  \/ UnsafeDestroy

(* Jobs of the event loop, and answers of a live server.                   *)
Jobs ==
  \/ \E c \in Chans : Continue(c) \/ OpenOk(c) \/ ChannelCloseOk(c)
  \/ Negotiated \/ ServerEnds \/ SocketClosed \/ AfterReset \/ Retry
  \/ \E k \in Closers : CloseResume(k)

Environment ==
  \/ \E c \in Chans : AcquireTimeout(c) \/ ChannelKilled(c)
  \/ Drop \/ ServerClose

Next == User \/ Jobs \/ Environment
Spec == Init /\ [][Next]_vars

(* Jobs that are ready run, and a server that is there answers.  Faults    *)
(* are never forced, and the user need not close its channels.             *)
FairSpec == Spec /\ WF_vars(Jobs)

(* The user closes the channels it was given, as close() asks it to.       *)
UserIsTidy == \A c \in Chans : WF_vars(CloseChannel(c))
TidySpec == FairSpec /\ UserIsTidy

-----------------------------------------------------------------------------
(* The type of every variable.                                             *)
TypeOK ==
  /\ readyState \in {"CONNECTING", "OPEN", "CLOSING", "CLOSED"}
  /\ retryCount \in Nat /\ dials \in Nat /\ faults \in Nat /\ reported \in Nat
  /\ retryTimer \in BOOLEAN /\ connectionTimer \in BOOLEAN /\ heartbeatTimer \in BOOLEAN
  /\ onConnect \in {"pending", "resolved", "rejected"} /\ onEmpty \in BOOLEAN
  /\ leased \in Leases /\ lazy \in LazyChans \cup {None}
  /\ socket \in {"dialing", "open", "ended", "destroyed", "closed"}
  /\ acq \in [Chans -> {"none", "waiting", "woken", "failed", "closed"} \cup Live]
  /\ born \in [Chans -> Nat]
  /\ closing \in [Closers -> {"none", "empty", "socket", "never", "returned"}]
  /\ afterReset \in {"none", "silent", "events"}
  /\ closeLazy \in BOOLEAN

(* A channel has an id from its creation to its end, one id, and no two    *)
(* channels have the same: none is lost from the books of _reset, and none *)
(* stays there when it is gone.                                            *)
LeasedExactly ==
  /\ \A id \in DOMAIN leased : acq[leased[id]] \in Live
  /\ \A c \in Chans : acq[c] \in Live => \E id \in DOMAIN leased : leased[id] = c
  /\ \A i, j \in DOMAIN leased : leased[i] = leased[j] => i = j

(* However acquires, ends of channels, resets and closes interleave, an id *)
(* belongs to one channel from its lease to the end of that channel, and   *)
(* acquire() on an established connection, or after it waited for one, is  *)
(* refused only when all ids are in use.                                   *)
StageOf(a) ==
  CASE a \in {"none", "waiting"} -> "asks"
    [] a = "woken" -> "due"
    [] a \in Live -> "holds"
    [] OTHER -> "done"
Pool == INSTANCE IdPool WITH
  Owners  <- Chans,
  serving <- readyState = "OPEN",
  stage   <- [c \in Chans |-> StageOf(acq[c])],
  holder  <- leased
ImplementsPool == Pool!Spec

(* A leased channel was made on the current socket, after that socket was  *)
(* negotiated and before its 'close' event: no channel outlives the        *)
(* connection it was opened on.                                            *)
LeasedOnThisSocket ==
  \A id \in DOMAIN leased :
    born[leased[id]] = dials /\ socket \in {"open", "ended", "destroyed"}

(* A timer never outlives the socket it was set for: this._socket.destroy  *)
(* of a heartbeat would hit the next one.                                  *)
TimersOfThisSocket ==
  /\ heartbeatTimer => socket \in {"open", "ended", "destroyed"}
  /\ connectionTimer => socket \in {"dialing", "destroyed"}

(* A connection that was not closed always has a next step: a socket that  *)
(* will report its end, or the timer of the next attempt, never both.      *)
NeverAbandoned ==
  /\ readyState \in {"CONNECTING", "OPEN"} =>
       (socket = "closed" <=> (retryTimer \/ afterReset # "none"))
  /\ retryTimer => readyState = "CONNECTING" /\ socket = "closed"

(* What the phase says of the socket and the other way around: acquires    *)
(* wait only for a connection to come and go on only while it is there,    *)
(* and a closed one has no socket, no timer and no handler left.           *)
PhaseOfSocket ==
  /\ readyState = "CONNECTING" =>
       onConnect = "pending" /\ socket \in {"dialing", "destroyed", "closed"}
  /\ readyState = "OPEN" => socket \in {"open", "ended", "destroyed"}
  /\ readyState = "CLOSED" => socket = "closed"
  /\ afterReset # "none" \/ retryTimer =>
       socket = "closed" /\ readyState \in {"CONNECTING", "CLOSING"}
  /\ \A c \in Chans :
       /\ acq[c] = "waiting" => readyState = "CONNECTING"
       /\ acq[c] = "woken" => socket \in {"open", "ended", "destroyed"}
  /\ CloseReady => socket # "dialing"

(* The inductive invariant.  PhaseOfSocket is what the others need: that   *)
(* acquire() goes on only while the socket it finds is negotiated, and that*)
(* the retry timer dials only when the last socket is gone.                *)
Safe == TypeOK /\ LeasedExactly /\ LeasedOnThisSocket /\ TimersOfThisSocket /\ PhaseOfSocket

(* 'error' is emitted once per outage ("suppress spam during reconnect").  *)
ReportedOnce == reported <= 1

(* Every outage is reported once and has exactly one next step, however    *)
(* many attempts fail.                                                     *)
OutageHandled == NeverAbandoned /\ ReportedOnce

(* Concurrent calls share one lazy channel.                                *)
LazySingle ==
  \A c, d \in LazyChans :
    acq[c] \in Pending \cup {"ready"} /\ acq[d] \in Pending \cup {"ready"} => c = d

(* After close() or unsafeDestroy() the connection is never dialed again.  *)
ClosedForGood ==
  [][(readyState \in {"CLOSING", "CLOSED"} =>
        readyState' \in {"CLOSING", "CLOSED"} /\ dials' = dials)]_vars

(* Every acquire() settles.                                                *)
AcquireSettles == \A c \in Chans : acq[c] \in Pending ~> acq[c] \notin Pending

(* A lost or failed connection is established again, or was closed.        *)
Reconnects == readyState = "CONNECTING" ~> readyState # "CONNECTING"

(* close() returns, or the connection is lost, if the user is tidy.        *)
CloseReturnsIfUp ==
  UserIsTidy =>
    \A k \in Closers :
      closing[k] # "none" ~> closing[k] = "returned" \/ socket = "closed"

(* close() returns.                                                        *)
CloseReturns == \A k \in Closers : closing[k] # "none" ~> closing[k] = "returned"

(* A connection that is closing while it has a socket ends, whatever the    *)
(* network does and whoever waits for a channel meanwhile, if the user is  *)
(* tidy.                                                                   *)
LiveClosingEnds ==
  UserIsTidy => (readyState = "CLOSING" /\ socket # "closed" ~> readyState = "CLOSED")

(* So close() leads to an end, unless the connection drops under it.       *)
CloseEnds == CloseReturnsIfUp /\ LiveClosingEnds

(* A connection that is closing ends.                                      *)
ClosingEnds == readyState = "CLOSING" ~> readyState = "CLOSED"
=============================================================================

--------------------------- MODULE ConnectionProofs ---------------------------
(***************************************************************************)
(* Proofs about Connection for any number of channels, of calls of close() *)
(* and of faults, and whatever the user's event handlers call.             *)
(***************************************************************************)
EXTENDS Connection, TLAPS

(* What it means to be in Leases.                                          *)
LEMMA LeasesElim ==
  ASSUME NEW f \in Leases
  PROVE  /\ DOMAIN f \subseteq Ids
         /\ \A i \in DOMAIN f : f[i] \in Chans
<1>1. PICK S \in SUBSET Ids : f \in [S -> Chans]
  BY DEF Leases
<1> QED BY <1>1

LEMMA LeasesIntro ==
  ASSUME NEW S \in SUBSET Ids, NEW f \in [S -> Chans]
  PROVE  f \in Leases
BY DEF Leases

LEMMA NoLeases == << >> \in Leases /\ DOMAIN << >> = {}
<1>1. << >> \in [{} -> Chans]
  OBVIOUS
<1> QED BY <1>1, LeasesIntro

(* What the second part of acquire() does to the books.                    *)
LEMMA LeaseBooks ==
  ASSUME Safe, NEW c \in Chans, acq[c] \notin Live, Lease(c), UNCHANGED dials,
         socket \in {"open", "ended", "destroyed"}
  PROVE  /\ leased' \in Leases
         /\ acq' \in [Chans -> {"none", "waiting", "woken", "failed", "closed"} \cup Live]
         /\ born' \in [Chans -> Nat]
         /\ socket' \in {"open", "ended", "destroyed"}
         /\ \A d \in Chans : d # c => acq'[d] = acq[d]
         /\ acq'[c] \in {"failed", "opening"}
         /\ LeasedExactly' /\ LeasedOnThisSocket'
<1> USE DEF Safe, TypeOK, Live
<1>1. CASE Free = {} /\ acq' = [acq EXCEPT ![c] = "failed"]
           /\ UNCHANGED <<leased, born, socket>>
  <2>1. LeasedExactly'
    BY <1>1, LeasesElim DEF LeasedExactly
  <2>2. LeasedOnThisSocket'
    BY <1>1 DEF LeasedOnThisSocket
  <2> QED BY <1>1, <2>1, <2>2
<1>2. ASSUME NEW id \in Free,
             leased' = [i \in DOMAIN leased \cup {id} |-> IF i = id THEN c ELSE leased[i]],
             acq' = [acq EXCEPT ![c] = "opening"],
             born' = [born EXCEPT ![c] = dials],
             socket' = IF socket = "ended" THEN "destroyed" ELSE socket
      PROVE  /\ leased' \in Leases /\ LeasedExactly' /\ LeasedOnThisSocket'
             /\ socket' \in {"open", "ended", "destroyed"}
  <2>1. DOMAIN leased \subseteq Ids /\ \A i \in DOMAIN leased : leased[i] \in Chans
    BY LeasesElim
  <2>2. leased' \in Leases
    <3>1. /\ leased' \in [DOMAIN leased \cup {id} -> Chans]
          /\ DOMAIN leased \cup {id} \in SUBSET Ids
      BY <1>2, <2>1 DEF Free
    <3> QED BY <3>1, LeasesIntro
  <2>3. DOMAIN leased' = DOMAIN leased \cup {id} /\ id \notin DOMAIN leased
    BY <1>2 DEF Free
  <2>4. leased'[id] = c /\ \A i \in DOMAIN leased : leased'[i] = leased[i] /\ leased[i] # c
    BY <1>2, <2>3 DEF LeasedExactly
  <2>5. LeasedExactly'
    BY <1>2, <2>1, <2>3, <2>4 DEF LeasedExactly
  <2>6. LeasedOnThisSocket'
    BY <1>2, <2>1, <2>3, <2>4 DEF LeasedOnThisSocket
  <2> QED BY <1>2, <2>2, <2>5, <2>6
<1> QED BY ZenonT(30), <1>1, <1>2 DEF Lease

(* What the release of a channel does to them.                             *)
LEMMA ReleaseBooks ==
  ASSUME Safe, NEW c \in Chans, Release(c), NEW s \in {"failed", "closed"},
         acq' = [acq EXCEPT ![c] = s]
  PROVE  leased' \in Leases /\ onEmpty' \in BOOLEAN /\ LeasedExactly' /\ LeasedOnThisSocket'
<1> USE DEF Safe, TypeOK
<1> DEFINE S == {i \in DOMAIN leased : leased[i] # c}
<1>1. DOMAIN leased \subseteq Ids /\ \A i \in DOMAIN leased : leased[i] \in Chans
  BY LeasesElim
<1>2. leased' = [id \in S |-> leased[id]] /\ UNCHANGED <<born, dials, socket>>
  BY DEF Release
<1>3. leased' \in [S -> Chans] /\ S \in SUBSET Ids
  BY <1>1, <1>2
<1>4. leased' \in Leases
  BY <1>3, LeasesIntro
<1>5. onEmpty' \in BOOLEAN
  BY DEF Release, AfterRelease, CheckEmpty
<1>6. LeasedExactly'
  BY <1>1, <1>2, <1>3 DEF LeasedExactly, Live
<1>7. LeasedOnThisSocket'
  BY <1>1, <1>2, <1>3 DEF LeasedOnThisSocket
<1> QED BY <1>4, <1>5, <1>6, <1>7

(* The write of channel.open only ends a socket that was ending.            *)
LEMMA LeaseSocket ==
  ASSUME NEW c \in Chans, Lease(c)
  PROVE  socket' = socket \/ (socket = "ended" /\ socket' = "destroyed")
BY DEF Lease

(* acquire(), also for the lazy channel: it fails, waits, or goes on.      *)
LEMMA AcquireStep ==
  ASSUME Safe, NEW c \in Chans, StartAcquire(c), lazy' \in LazyChans \cup {None}
  PROVE  Safe'
<1> USE DEF Live
<1>1. CASE readyState # "OPEN"
  <2>1. /\ acq' = [acq EXCEPT ![c] = "failed"] \/
           (acq' = [acq EXCEPT ![c] = "waiting"] /\ readyState = "CONNECTING")
        /\ UNCHANGED <<leased, born, socket>>
    BY <1>1 DEF StartAcquire, AwaitConnect, Safe, PhaseOfSocket, TypeOK
  <2>2. TypeOK'
    BY <2>1 DEF StartAcquire, timers, Safe, TypeOK
  <2>3. LeasedExactly'
    BY <2>1, LeasesElim DEF StartAcquire, Safe, TypeOK, LeasedExactly
  <2>4. LeasedOnThisSocket' /\ TimersOfThisSocket'
    BY <2>1 DEF StartAcquire, timers, Safe, LeasedOnThisSocket, TimersOfThisSocket
  <2>5. PhaseOfSocket'
    BY <2>1 DEF StartAcquire, timers, Safe, TypeOK, PhaseOfSocket, CloseReady
  <2> QED BY <2>2, <2>3, <2>4, <2>5 DEF Safe
<1>2. CASE readyState = "OPEN"
  <2>1. Lease(c) /\ acq[c] \notin Live /\ UNCHANGED dials
        /\ socket \in {"open", "ended", "destroyed"}
    BY <1>2 DEF StartAcquire, Safe, PhaseOfSocket
  <2>2. /\ leased' \in Leases
        /\ acq' \in [Chans -> {"none", "waiting", "woken", "failed", "closed"} \cup Live]
        /\ born' \in [Chans -> Nat]
        /\ socket' \in {"open", "ended", "destroyed"}
        /\ \A d \in Chans : d # c => acq'[d] = acq[d]
        /\ acq'[c] \in {"failed", "opening"}
        /\ LeasedExactly' /\ LeasedOnThisSocket'
    BY <2>1, LeaseBooks
  <2>3. TypeOK'
    BY <2>2 DEF StartAcquire, timers, Safe, TypeOK
  <2>4. TimersOfThisSocket'
    BY <2>1, <2>2, LeaseSocket DEF StartAcquire, timers, Safe, TimersOfThisSocket
  <2>5. PhaseOfSocket'
    BY <1>2, <2>1, <2>2, LeaseSocket
       DEF StartAcquire, timers, Safe, TypeOK, PhaseOfSocket, CloseReady
  <2> QED BY <2>2, <2>3, <2>4, <2>5 DEF Safe
<1> QED BY <1>1, <1>2

(* Every step keeps the invariant.                                         *)
LEMMA SafeStep == ASSUME ConnectionAssumption, Safe, [Next]_vars PROVE Safe'
<1> USE DEF Live
<1>0. CASE UNCHANGED vars
  BY <1>0 DEF Safe, TypeOK, LeasedExactly, LeasedOnThisSocket, TimersOfThisSocket,
     PhaseOfSocket, CloseReady, vars, timers
<1>1. ASSUME NEW c \in Chans, Acquire(c) PROVE Safe'
  BY <1>1, AcquireStep DEF Acquire, Safe, TypeOK
<1>2. ASSUME NEW c \in Chans, Lazy(c) PROVE Safe'
  BY <1>2, AcquireStep DEF Lazy, Safe, TypeOK
<1>3. ASSUME NEW c \in Chans, CloseChannel(c) PROVE Safe'
  <2>1. TypeOK'
    BY <1>3 DEF CloseChannel, timers, Safe, TypeOK
  <2>2. LeasedExactly'
    BY <1>3, LeasesElim DEF CloseChannel, timers, Safe, TypeOK, LeasedExactly
  <2>3. LeasedOnThisSocket'
    BY <1>3 DEF CloseChannel, timers, Safe, LeasedOnThisSocket
  <2>4. TimersOfThisSocket'
    BY <1>3 DEF CloseChannel, timers, Safe, TimersOfThisSocket
  <2>5. PhaseOfSocket'
    BY <1>3 DEF CloseChannel, timers, Safe, TypeOK, PhaseOfSocket, CloseReady
  <2> QED BY <2>1, <2>2, <2>3, <2>4, <2>5 DEF Safe
<1>4. ASSUME NEW c \in Chans, Continue(c) PROVE Safe'
  <2>1. Lease(c) /\ acq[c] \notin Live /\ UNCHANGED dials
        /\ socket \in {"open", "ended", "destroyed"}
    BY <1>4 DEF Continue, Safe, PhaseOfSocket
  <2>2. /\ leased' \in Leases
        /\ acq' \in [Chans -> {"none", "waiting", "woken", "failed", "closed"} \cup Live]
        /\ born' \in [Chans -> Nat]
        /\ socket' \in {"open", "ended", "destroyed"}
        /\ \A d \in Chans : d # c => acq'[d] = acq[d]
        /\ acq'[c] \in {"failed", "opening"}
        /\ LeasedExactly' /\ LeasedOnThisSocket'
    BY <2>1, LeaseBooks
  <2>3. TypeOK'
    BY <1>4, <2>2 DEF Continue, timers, Safe, TypeOK
  <2>4. TimersOfThisSocket'
    BY <1>4, <2>1, <2>2, LeaseSocket DEF Continue, timers, Safe, TimersOfThisSocket
  <2>5. PhaseOfSocket'
    BY <1>4, <2>1, <2>2, LeaseSocket
       DEF Continue, timers, Safe, TypeOK, PhaseOfSocket, CloseReady
  <2> QED BY <2>2, <2>3, <2>4, <2>5 DEF Safe
<1>5. ASSUME NEW c \in Chans, OpenOk(c) PROVE Safe'
  <2>1. TypeOK'
    BY <1>5 DEF OpenOk, timers, Safe, TypeOK
  <2>2. LeasedExactly'
    BY <1>5, LeasesElim DEF OpenOk, timers, Safe, TypeOK, LeasedExactly
  <2>3. LeasedOnThisSocket'
    BY <1>5 DEF OpenOk, timers, Safe, LeasedOnThisSocket
  <2>4. TimersOfThisSocket'
    BY <1>5 DEF OpenOk, timers, Safe, TimersOfThisSocket
  <2>5. PhaseOfSocket'
    BY <1>5 DEF OpenOk, timers, Safe, TypeOK, PhaseOfSocket, CloseReady
  <2> QED BY <2>1, <2>2, <2>3, <2>4, <2>5 DEF Safe
<1>6. ASSUME NEW c \in Chans, AcquireTimeout(c) PROVE Safe'
  <2>1. TypeOK'
    BY <1>6 DEF AcquireTimeout, timers, Safe, TypeOK
  <2>2. LeasedExactly'
    BY <1>6, LeasesElim DEF AcquireTimeout, timers, Safe, TypeOK, LeasedExactly
  <2>3. LeasedOnThisSocket'
    BY <1>6 DEF AcquireTimeout, timers, Safe, LeasedOnThisSocket
  <2>4. TimersOfThisSocket'
    BY <1>6 DEF AcquireTimeout, timers, Safe, TimersOfThisSocket
  <2>5. PhaseOfSocket'
    BY <1>6 DEF AcquireTimeout, timers, Safe, TypeOK, PhaseOfSocket, CloseReady
  <2> QED BY <2>1, <2>2, <2>3, <2>4, <2>5 DEF Safe
<1>7. ASSUME NEW c \in Chans, ChannelCloseOk(c) PROVE Safe'
  <2>1. leased' \in Leases /\ onEmpty' \in BOOLEAN /\ LeasedExactly' /\ LeasedOnThisSocket'
    BY <1>7, ReleaseBooks DEF ChannelCloseOk
  <2>2. TypeOK'
    BY <1>7, <2>1 DEF ChannelCloseOk, Release, timers, Safe, TypeOK
  <2>3. TimersOfThisSocket'
    BY <1>7, <2>1 DEF ChannelCloseOk, Release, timers, Safe, TimersOfThisSocket
  <2>4. PhaseOfSocket'
    BY <1>7, <2>1 DEF ChannelCloseOk, Release, timers, Safe, TypeOK, PhaseOfSocket,
       CloseReady
  <2> QED BY <2>1, <2>2, <2>3, <2>4 DEF Safe
<1>8. ASSUME NEW c \in Chans, ChannelKilled(c) PROVE Safe'
  <2>1. leased' \in Leases /\ onEmpty' \in BOOLEAN /\ LeasedExactly' /\ LeasedOnThisSocket'
    BY <1>8, ReleaseBooks DEF ChannelKilled
  <2>2. TypeOK'
    BY <1>8, <2>1 DEF ChannelKilled, Release, timers, Safe, TypeOK
  <2>3. TimersOfThisSocket'
    BY <1>8, <2>1 DEF ChannelKilled, Release, timers, Safe, TimersOfThisSocket
  <2>4. PhaseOfSocket'
    BY <1>8, <2>1 DEF ChannelKilled, Release, timers, Safe, TypeOK,
       PhaseOfSocket, CloseReady
  <2> QED BY <2>1, <2>2, <2>3, <2>4 DEF Safe
<1>9. ASSUME NEW k \in Closers, CloseConnecting(k) PROVE Safe'
  <2>1. TypeOK'
    BY <1>9 DEF CloseConnecting, Abandon, Destroyed, StopRetry, timers, Safe,
       TypeOK
  <2>2. LeasedExactly'
    BY <1>9, LeasesElim DEF CloseConnecting, Abandon, Destroyed, StopRetry, timers, Safe,
           TypeOK, LeasedExactly
  <2>3. LeasedOnThisSocket'
    BY <1>9 DEF CloseConnecting, Abandon, Destroyed, StopRetry, timers, Safe,
       LeasedOnThisSocket
  <2>4. TimersOfThisSocket'
    BY <1>9 DEF CloseConnecting, Abandon, Destroyed, StopRetry, timers, Safe,
       TimersOfThisSocket
  <2>5. PhaseOfSocket'
    BY <1>9 DEF CloseConnecting, Abandon, Destroyed, StopRetry, timers, Safe,
       TypeOK, PhaseOfSocket, CloseReady
  <2> QED BY <2>1, <2>2, <2>3, <2>4, <2>5 DEF Safe
<1>10. ASSUME NEW k \in Closers, CloseOpen(k) PROVE Safe'
  <2>1. TypeOK'
    BY <1>10 DEF CloseOpen, LazyIn, CheckEmpty, timers, Safe, TypeOK
  <2>2. LeasedExactly'
    BY <1>10, LeasesElim DEF CloseOpen, LazyIn, CheckEmpty, timers, Safe, TypeOK,
       LeasedExactly
  <2>3. LeasedOnThisSocket'
    BY <1>10 DEF CloseOpen, LazyIn, CheckEmpty, timers, Safe, LeasedOnThisSocket
  <2>4. TimersOfThisSocket'
    BY <1>10 DEF CloseOpen, LazyIn, CheckEmpty, timers, Safe, TimersOfThisSocket
  <2>5. PhaseOfSocket'
    BY <1>10 DEF CloseOpen, LazyIn, CheckEmpty, timers, Safe, TypeOK, PhaseOfSocket,
       CloseReady
  <2> QED BY <2>1, <2>2, <2>3, <2>4, <2>5 DEF Safe
<1>11. ASSUME NEW k \in Closers, CloseAgain(k) PROVE Safe'
  <2>1. TypeOK'
    BY <1>11 DEF CloseAgain, timers, Safe, TypeOK
  <2>2. LeasedExactly'
    BY <1>11, LeasesElim DEF CloseAgain, timers, Safe, TypeOK, LeasedExactly
  <2>3. LeasedOnThisSocket'
    BY <1>11 DEF CloseAgain, timers, Safe, LeasedOnThisSocket
  <2>4. TimersOfThisSocket'
    BY <1>11 DEF CloseAgain, timers, Safe, TimersOfThisSocket
  <2>5. PhaseOfSocket'
    BY <1>11 DEF CloseAgain, timers, Safe, TypeOK, PhaseOfSocket, CloseReady
  <2> QED BY <2>1, <2>2, <2>3, <2>4, <2>5 DEF Safe
<1>12. ASSUME NEW k \in Closers, CloseResume(k) PROVE Safe'
  <2>1. TypeOK'
    BY <1>12 DEF CloseResume, Writable, timers, Safe, TypeOK
  <2>2. LeasedExactly'
    BY <1>12, LeasesElim DEF CloseResume, Writable, timers, Safe, TypeOK, LeasedExactly
  <2>3. LeasedOnThisSocket'
    BY <1>12 DEF CloseResume, Writable, timers, Safe, LeasedOnThisSocket
  <2>4. TimersOfThisSocket'
    BY <1>12 DEF CloseResume, Writable, timers, Safe, TimersOfThisSocket, PhaseOfSocket,
       CloseReady
  <2>5. PhaseOfSocket'
    BY <1>12 DEF CloseResume, Writable, timers, Safe, TypeOK, PhaseOfSocket, CloseReady
  <2> QED BY <2>1, <2>2, <2>3, <2>4, <2>5 DEF Safe
<1>13. CASE UnsafeDestroy
  <2>1. TypeOK'
    BY <1>13 DEF UnsafeDestroy, Abandon, Destroyed, StopRetry, timers, Safe,
       TypeOK
  <2>2. LeasedExactly'
    BY <1>13, LeasesElim DEF UnsafeDestroy, Abandon, Destroyed, StopRetry, timers, Safe,
           TypeOK, LeasedExactly
  <2>3. LeasedOnThisSocket'
    BY <1>13 DEF UnsafeDestroy, Abandon, Destroyed, StopRetry, timers, Safe,
       LeasedOnThisSocket
  <2>4. TimersOfThisSocket'
    BY <1>13 DEF UnsafeDestroy, Abandon, Destroyed, StopRetry, timers, Safe,
       TimersOfThisSocket
  <2>5. PhaseOfSocket'
    BY <1>13 DEF UnsafeDestroy, Abandon, Destroyed, StopRetry, timers, Safe,
       TypeOK, PhaseOfSocket, CloseReady
  <2> QED BY <2>1, <2>2, <2>3, <2>4, <2>5 DEF Safe
<1>14. CASE Negotiated
  <2>1. TypeOK'
    BY <1>14 DEF Negotiated, timers, Safe, TypeOK
  <2>2. LeasedExactly'
    BY <1>14, LeasesElim DEF Negotiated, timers, Safe, TypeOK, LeasedExactly
  <2>3. LeasedOnThisSocket'
    BY <1>14 DEF Negotiated, timers, Safe, LeasedOnThisSocket
  <2>4. TimersOfThisSocket'
    BY <1>14 DEF Negotiated, timers, Safe, TimersOfThisSocket
  <2>5. PhaseOfSocket'
    BY <1>14 DEF Negotiated, timers, Safe, TypeOK, PhaseOfSocket, CloseReady
  <2> QED BY <2>1, <2>2, <2>3, <2>4, <2>5 DEF Safe
<1>15. CASE ServerEnds
  <2>1. TypeOK'
    BY <1>15 DEF ServerEnds, timers, Safe, TypeOK
  <2>2. LeasedExactly'
    BY <1>15, LeasesElim DEF ServerEnds, timers, Safe, TypeOK, LeasedExactly
  <2>3. LeasedOnThisSocket'
    BY <1>15 DEF ServerEnds, timers, Safe, LeasedOnThisSocket
  <2>4. TimersOfThisSocket'
    BY <1>15 DEF ServerEnds, timers, Safe, TimersOfThisSocket
  <2>5. PhaseOfSocket'
    BY <1>15 DEF ServerEnds, timers, Safe, TypeOK, PhaseOfSocket, CloseReady
  <2> QED BY <2>1, <2>2, <2>3, <2>4, <2>5 DEF Safe
<1>16. CASE SocketClosed
  <2>1. TypeOK'
    BY <1>16, NoLeases DEF SocketClosed, Reset, Cleared, CheckEmpty, StopHeartbeat,
       NextOnConnect, timers, Safe, TypeOK
  <2>2. LeasedExactly'
    BY <1>16, LeasesElim, NoLeases DEF SocketClosed, Reset, Cleared, CheckEmpty,
       StopHeartbeat, NextOnConnect, timers, Safe, TypeOK, LeasedExactly
  <2>3. LeasedOnThisSocket'
    BY <1>16, NoLeases DEF SocketClosed, Reset, Cleared, CheckEmpty, StopHeartbeat,
       NextOnConnect, timers, Safe, LeasedOnThisSocket
  <2>4. TimersOfThisSocket'
    BY <1>16, NoLeases DEF SocketClosed, Reset, Cleared, CheckEmpty, StopHeartbeat,
       NextOnConnect, timers, Safe, TimersOfThisSocket
  <2>5. PhaseOfSocket'
    BY <1>16, NoLeases DEF SocketClosed, Reset, Cleared, CheckEmpty, StopHeartbeat,
       NextOnConnect, timers, Safe, TypeOK, PhaseOfSocket, CloseReady, Macrotask
  <2> QED BY <2>1, <2>2, <2>3, <2>4, <2>5 DEF Safe
<1>17. CASE AfterReset
  <2>1. TypeOK'
    BY <1>17 DEF AfterReset, ScheduleRetry, Reports, timers, Safe, TypeOK
  <2>2. LeasedExactly'
    BY <1>17, LeasesElim DEF AfterReset, ScheduleRetry, Reports, timers, Safe, TypeOK,
       LeasedExactly
  <2>3. LeasedOnThisSocket'
    BY <1>17 DEF AfterReset, ScheduleRetry, Reports, timers, Safe, LeasedOnThisSocket
  <2>4. TimersOfThisSocket'
    BY <1>17 DEF AfterReset, ScheduleRetry, Reports, timers, Safe, TimersOfThisSocket
  <2>5. PhaseOfSocket'
    BY <1>17 DEF AfterReset, ScheduleRetry, Reports, timers, Safe, TypeOK,
       PhaseOfSocket, CloseReady
  <2> QED BY <2>1, <2>2, <2>3, <2>4, <2>5 DEF Safe
<1>18. CASE Retry
  <2>1. /\ retryTimer' = FALSE /\ connectionTimer' = TRUE
        /\ socket' = "dialing" /\ dials' = dials + 1
        /\ UNCHANGED <<readyState, retryCount, heartbeatTimer, onConnect, onEmpty,
                       leased, lazy, acq, born, closing, afterReset, closeLazy,
                       faults, reported>>
    BY <1>18 DEF Retry
  <2>2. socket = "closed" /\ readyState \in {"CONNECTING", "CLOSING"}
    BY <1>18 DEF Retry, Safe, PhaseOfSocket
  <2>3. ~CloseReady /\ afterReset = "none" /\ \A c \in Chans : acq[c] # "woken"
    BY <1>18 DEF Retry, Macrotask
  <2>4. TypeOK'
    <3>1. dials' \in Nat
      BY <2>1 DEF Safe, TypeOK
    <3>2. retryTimer' \in BOOLEAN /\ connectionTimer' \in BOOLEAN
      BY <2>1
    <3> QED BY <2>1, <3>1, <3>2, Zenon DEF Safe, TypeOK
  <2>5. LeasedExactly'
    BY <2>1 DEF Safe, LeasedExactly
  <2>6. LeasedOnThisSocket' /\ TimersOfThisSocket'
    BY <2>1, <2>2 DEF Safe, TypeOK, LeasedOnThisSocket, TimersOfThisSocket
  <2>7. PhaseOfSocket'
    BY <2>1, <2>2, <2>3 DEF Safe, TypeOK, PhaseOfSocket, CloseReady
  <2> QED BY <2>4, <2>5, <2>6, <2>7 DEF Safe
<1>19. CASE Drop
  <2>1. TypeOK'
    BY <1>19 DEF Drop, timers, Safe, TypeOK
  <2>2. LeasedExactly'
    BY <1>19, LeasesElim DEF Drop, timers, Safe, TypeOK, LeasedExactly
  <2>3. LeasedOnThisSocket'
    BY <1>19 DEF Drop, timers, Safe, LeasedOnThisSocket
  <2>4. TimersOfThisSocket'
    BY <1>19 DEF Drop, timers, Safe, TimersOfThisSocket
  <2>5. PhaseOfSocket'
    BY <1>19 DEF Drop, timers, Safe, TypeOK, PhaseOfSocket, CloseReady
  <2> QED BY <2>1, <2>2, <2>3, <2>4, <2>5 DEF Safe
<1>20. CASE ServerClose
  <2>1. TypeOK'
    BY <1>20 DEF ServerClose, timers, Safe, TypeOK
  <2>2. LeasedExactly'
    BY <1>20, LeasesElim DEF ServerClose, timers, Safe, TypeOK, LeasedExactly
  <2>3. LeasedOnThisSocket'
    BY <1>20 DEF ServerClose, timers, Safe, LeasedOnThisSocket
  <2>4. TimersOfThisSocket'
    BY <1>20 DEF ServerClose, timers, Safe, TimersOfThisSocket
  <2>5. PhaseOfSocket'
    BY <1>20 DEF ServerClose, timers, Safe, TypeOK, PhaseOfSocket, CloseReady
  <2> QED BY <2>1, <2>2, <2>3, <2>4, <2>5 DEF Safe
<1> QED
    BY <1>0, <1>1, <1>2, <1>3, <1>4, <1>5, <1>6, <1>7, <1>8, <1>9, <1>10, <1>11, <1>12,
     <1>13, <1>14, <1>15, <1>16, <1>17, <1>18, <1>19, <1>20 DEF Next, User, Jobs,
     Environment

LEMMA SafeInit == ASSUME ConnectionAssumption, Init PROVE Safe
<1> USE DEF Init, Live
<1>1. TypeOK
  BY NoLeases DEF TypeOK
<1>2. LeasedExactly /\ LeasedOnThisSocket /\ TimersOfThisSocket
  BY NoLeases DEF LeasedExactly, LeasedOnThisSocket, TimersOfThisSocket
<1>3. PhaseOfSocket
  BY DEF PhaseOfSocket, CloseReady
<1> QED BY <1>1, <1>2, <1>3 DEF Safe

(* Types, books, sockets, timers and phases agree always, whatever fails   *)
(* and whatever the user's handlers call.                                  *)
THEOREM SafeAlways == Spec => []Safe
<1>1. Init => Safe
  BY SafeInit, ConnectionAssumption
<1>2. Safe /\ [Next]_vars => Safe'
  BY SafeStep, ConnectionAssumption
<1> QED BY <1>1, <1>2, PTL DEF Spec

(* Every variable always has its type; in particular no id is above        *)
(* channelMax.                                                             *)
THEOREM TypeCorrect == Spec => []TypeOK
<1>1. Safe => TypeOK
  BY DEF Safe
<1> QED BY <1>1, SafeAlways, PTL

(* The books of leased channels are exact: acquire(), the channels' ends   *)
(* and _reset agree on who has which id.                                   *)
THEOREM BooksExact == Spec => []LeasedExactly
<1>1. Safe => LeasedExactly
  BY DEF Safe
<1> QED BY <1>1, SafeAlways, PTL

(* No channel is leased on a socket other than the current one.            *)
THEOREM NoChannelOutlivesSocket == Spec => []LeasedOnThisSocket
<1>1. Safe => LeasedOnThisSocket
  BY DEF Safe
<1> QED BY <1>1, SafeAlways, PTL

(* No heartbeat and no connection timer outlives its socket.               *)
THEOREM NoTimerOutlivesSocket == Spec => []TimersOfThisSocket
<1>1. Safe => TimersOfThisSocket
  BY DEF Safe
<1> QED BY <1>1, SafeAlways, PTL

(* Phase, socket, timers and waiting acquires agree.                       *)
THEOREM PhaseAgrees == Spec => []PhaseOfSocket
<1>1. Safe => PhaseOfSocket
  BY DEF Safe
<1> QED BY <1>1, SafeAlways, PTL
-----------------------------------------------------------------------------
(* When nobody closes the connection from a channel's event, only a        *)
(* connection that is connecting has a next attempt or one on its way.     *)
Attempts ==
  /\ NeverAbandoned
  /\ afterReset # "none" \/ socket = "dialing" => readyState = "CONNECTING"

LEMMA AttemptsStep ==
  ASSUME ~FromEvent, Safe, Attempts, [Next]_vars
  PROVE  /\ Attempts'
         /\ readyState \in {"CLOSING", "CLOSED"} =>
              readyState' \in {"CLOSING", "CLOSED"} /\ dials' = dials
<1> DEFINE Stays == readyState \in {"CLOSING", "CLOSED"} =>
                      readyState' \in {"CLOSING", "CLOSED"} /\ dials' = dials
<1> USE DEF Safe
<1>0. CASE UNCHANGED vars
  BY <1>0 DEF Attempts, NeverAbandoned, vars, timers
<1>1. ASSUME NEW c \in Chans, Acquire(c) PROVE Attempts' /\ Stays
  BY <1>1, LeaseSocket DEF Acquire, StartAcquire, timers, TypeOK, Attempts,
     NeverAbandoned
<1>2. ASSUME NEW c \in Chans, Lazy(c) PROVE Attempts' /\ Stays
  BY <1>2, LeaseSocket DEF Lazy, StartAcquire, timers, TypeOK, Attempts,
     NeverAbandoned
<1>3. ASSUME NEW c \in Chans, CloseChannel(c) PROVE Attempts' /\ Stays
  BY <1>3 DEF CloseChannel, timers, TypeOK, Attempts, NeverAbandoned
<1>4. ASSUME NEW c \in Chans, Continue(c) PROVE Attempts' /\ Stays
  BY <1>4, LeaseSocket DEF Continue, timers, TypeOK, Attempts, NeverAbandoned
<1>5. ASSUME NEW c \in Chans, OpenOk(c) PROVE Attempts' /\ Stays
  BY <1>5 DEF OpenOk, timers, TypeOK, Attempts, NeverAbandoned
<1>6. ASSUME NEW c \in Chans, AcquireTimeout(c) PROVE Attempts' /\ Stays
  BY <1>6 DEF AcquireTimeout, timers, TypeOK, Attempts, NeverAbandoned
<1>7. ASSUME NEW c \in Chans, ChannelCloseOk(c) PROVE Attempts' /\ Stays
  BY <1>7 DEF ChannelCloseOk, Release, timers, TypeOK, Attempts, NeverAbandoned
<1>8. ASSUME NEW c \in Chans, ChannelKilled(c) PROVE Attempts' /\ Stays
  BY <1>8 DEF ChannelKilled, Release, timers, TypeOK, Attempts, NeverAbandoned
<1>9. ASSUME NEW k \in Closers, CloseConnecting(k) PROVE Attempts' /\ Stays
  BY <1>9 DEF CloseConnecting, Abandon, Destroyed, StopRetry, UserCloses, timers,
     TypeOK, Attempts, NeverAbandoned
<1>10. ASSUME NEW k \in Closers, CloseOpen(k) PROVE Attempts' /\ Stays
  BY <1>10 DEF CloseOpen, PhaseOfSocket, timers, TypeOK, Attempts, NeverAbandoned
<1>11. ASSUME NEW k \in Closers, CloseAgain(k) PROVE Attempts' /\ Stays
  BY <1>11 DEF CloseAgain, timers, TypeOK, Attempts, NeverAbandoned
<1>12. ASSUME NEW k \in Closers, CloseResume(k) PROVE Attempts' /\ Stays
  BY <1>12 DEF CloseResume, Writable, timers, TypeOK, Attempts, NeverAbandoned
<1>13. CASE UnsafeDestroy
  BY <1>13 DEF UnsafeDestroy, Abandon, Destroyed, StopRetry, UserCloses, timers,
     TypeOK, Attempts, NeverAbandoned
<1>14. CASE Negotiated
  BY <1>14 DEF Negotiated, PhaseOfSocket, Macrotask, timers, TypeOK, Attempts,
     NeverAbandoned
<1>15. CASE ServerEnds
  BY <1>15 DEF ServerEnds, timers, TypeOK, Attempts, NeverAbandoned
<1>16. CASE SocketClosed
  BY <1>16 DEF SocketClosed, PhaseOfSocket, Reset, StopHeartbeat, Macrotask, timers,
     TypeOK, Attempts, NeverAbandoned
<1>17. CASE AfterReset
  BY <1>17 DEF AfterReset, PhaseOfSocket, ScheduleRetry, timers, TypeOK, Attempts,
     NeverAbandoned
<1>18. CASE Retry
  BY <1>18 DEF Retry, Macrotask, timers, TypeOK, Attempts, NeverAbandoned
<1>19. CASE Drop
  BY <1>19 DEF Drop, timers, TypeOK, Attempts, NeverAbandoned
<1>20. CASE ServerClose
  BY <1>20 DEF ServerClose, timers, TypeOK, Attempts, NeverAbandoned
<1> QED
  BY <1>0, <1>1, <1>2, <1>3, <1>4, <1>5, <1>6, <1>7, <1>8, <1>9, <1>10, <1>11, <1>12,
     <1>13, <1>14, <1>15, <1>16, <1>17, <1>18, <1>19, <1>20 DEF Next, User, Jobs,
     Environment

LEMMA AlwaysAttempts == ASSUME ~FromEvent PROVE Spec => [](Safe /\ Attempts)
<1>1. Init => Attempts
  BY DEF Init, Attempts, NeverAbandoned
<1>2. Safe /\ Attempts /\ [Next]_vars => Attempts'
  BY AttemptsStep
<1> QED BY <1>1, <1>2, SafeAlways, PTL DEF Spec

(* retryCount tells whether the outage was reported.                       *)
Counted ==
  /\ retryCount >= 1 /\ ReportedOnce
  /\ retryCount = 1 => reported = 0

LEMMA CountedStep == ASSUME TypeOK, Counted, [Next]_vars PROVE Counted'
<1> DEFINE Same == UNCHANGED <<retryCount, reported>>
<1> USE DEF Counted, ReportedOnce
<1>1. CASE AfterReset
  BY <1>1 DEF AfterReset, Reports, TypeOK
<1>2. CASE Negotiated
  BY <1>2 DEF Negotiated
<1>3. CASE Same
  BY <1>3
<1>4. ASSUME NEW c \in Chans,
             Acquire(c) \/ Lazy(c) \/ CloseChannel(c) \/ Continue(c) \/ OpenOk(c)
               \/ ChannelCloseOk(c) \/ AcquireTimeout(c) \/ ChannelKilled(c)
      PROVE  Same
  BY <1>4 DEF Acquire, Lazy, StartAcquire, CloseChannel, Continue, OpenOk, ChannelCloseOk,
     AcquireTimeout, ChannelKilled, Release
<1>5. ASSUME NEW k \in Closers,
             CloseConnecting(k) \/ CloseOpen(k) \/ CloseAgain(k) \/ CloseResume(k)
      PROVE  Same
  BY <1>5 DEF CloseConnecting, Abandon, CloseOpen, CloseAgain, CloseResume
<1>6. CASE UnsafeDestroy \/ ServerEnds \/ SocketClosed \/ Retry \/ Drop \/ ServerClose
  <2>1. Same
    BY <1>6 DEF UnsafeDestroy, Abandon, ServerEnds, SocketClosed, Retry, Drop, ServerClose
  <2> QED BY <2>1, <1>3
<1>7. CASE UNCHANGED vars
  <2>1. Same
    BY <1>7 DEF vars
  <2> QED BY <2>1, <1>3
<1> QED
  BY <1>1, <1>2, <1>3, <1>4, <1>5, <1>6, <1>7 DEF Next, User, Jobs, Environment

LEMMA AlwaysCounted == Spec => []Counted
<1>1. Init => Counted
  BY DEF Init, Counted, ReportedOnce
<1>2. Safe /\ Counted /\ [Next]_vars => Counted'
  BY CountedStep DEF Safe
<1> QED BY <1>1, <1>2, SafeAlways, PTL DEF Spec

(* A connection that was not closed always has exactly one next step, if   *)
(* no channel's event handler closes it, and reports one error until it is *)
(* established again.                                                      *)
THEOREM AlwaysRetried == ASSUME ~FromEvent PROVE Spec => []OutageHandled
<1>1. Attempts /\ Counted => OutageHandled
  BY DEF Attempts, Counted, OutageHandled
<1> QED BY <1>1, AlwaysAttempts, AlwaysCounted, PTL

(* Then a closed connection is never dialed again either.                  *)
THEOREM StaysClosed == ASSUME ~FromEvent PROVE Spec => ClosedForGood
<1>1. Safe /\ Attempts /\ [Next]_vars =>
        [(readyState \in {"CLOSING", "CLOSED"} =>
            readyState' \in {"CLOSING", "CLOSED"} /\ dials' = dials)]_vars
  BY AttemptsStep
<1> QED BY <1>1, AlwaysAttempts, PTL DEF Spec, ClosedForGood

(* acquire(), as far as it is owed an id.                                  *)
LEMMA LeasePools ==
  ASSUME Safe, NEW c \in Chans, Lease(c), UNCHANGED readyState,
         acq[c] = "woken" \/ (acq[c] = "none" /\ readyState = "OPEN")
  PROVE  Pool!Next
<1> USE DEF Safe, TypeOK
<1>1. Pool!Owed(c)
  BY DEF Pool!Owed, StageOf, Live
<1>2. CASE Free = {} /\ acq' = [acq EXCEPT ![c] = "failed"] /\ UNCHANGED leased
  <2>1. Pool!Become({c}, "done")
    BY <1>2 DEF Pool!Become, StageOf, Live
  <2>2. Pool!Refuse(c)
    BY <1>1, <1>2, <2>1 DEF Pool!Refuse, Pool!Free, Free
  <2> QED BY <2>2 DEF Pool!Next
<1>3. ASSUME NEW id \in Free, acq' = [acq EXCEPT ![c] = "opening"],
             leased' = [i \in DOMAIN leased \cup {id} |-> IF i = id THEN c ELSE leased[i]]
      PROVE  Pool!Next
  <2>1. Pool!Become({c}, "holds")
    BY <1>3 DEF Pool!Become, StageOf, Live
  <2>2. id \in Ids /\ Pool!Take(c, id)
    BY <1>1, <1>3, <2>1 DEF Pool!Take, Pool!Free, Free
  <2> QED BY <2>2 DEF Pool!Next
<1> QED BY <1>2, <1>3 DEF Lease

LEMMA StartAcquirePools ==
  ASSUME Safe, NEW c \in Chans, StartAcquire(c)
  PROVE  Pool!Next \/ UNCHANGED Pool!vars
<1> USE DEF Safe, TypeOK
<1>1. CASE readyState = "OPEN"
  BY <1>1, LeasePools DEF StartAcquire
<1>2. CASE readyState # "OPEN" /\ acq'[c] = "failed"
  <2>1. Pool!Become({c}, "done")
    BY <1>2 DEF StartAcquire, Pool!Become, StageOf, Live
  <2>2. UNCHANGED <<readyState = "OPEN", leased>>
    BY <1>2 DEF StartAcquire
  <2>3. Pool!TurnAway({c})
    BY <1>2, <2>1, <2>2 DEF StartAcquire, Pool!TurnAway, StageOf, Live
  <2> QED BY <2>3 DEF Pool!Next
<1>3. CASE readyState # "OPEN" /\ acq'[c] # "failed"
  <2>1. UNCHANGED <<readyState = "OPEN", leased>>
    BY <1>3 DEF StartAcquire
  <2>2. acq' = [acq EXCEPT ![c] = "waiting"]
    BY <1>3 DEF StartAcquire, PhaseOfSocket, AwaitConnect
  <2>3. \A d \in Chans : StageOf(acq'[d]) = StageOf(acq[d])
    BY <2>2 DEF StartAcquire, StageOf, Live
  <2> QED BY <2>1, <2>3 DEF Pool!vars
<1> QED BY <1>1, <1>2, <1>3

(* The end of a channel.                                                   *)
LEMMA ReleasePools ==
  ASSUME Safe, NEW c \in Chans, acq[c] \in Live, Release(c),
         acq' = [acq EXCEPT ![c] = "failed"] \/ acq' = [acq EXCEPT ![c] = "closed"]
  PROVE  Pool!Next
<1> USE DEF Safe, TypeOK
<1>1. Pool!Become({c}, "done")
  BY DEF Pool!Become, StageOf, Live
<1>2. leased' = [id \in {i \in DOMAIN leased : leased[i] \notin {c}} |-> leased[id]]
  BY DEF Release
<1>3. Pool!GiveBack({c})
  BY <1>1, <1>2 DEF Release, Pool!GiveBack, StageOf, Live
<1> QED BY <1>3 DEF Pool!Next

(* The end of the socket: all channels end.                                *)
LEMMA ResetPools == ASSUME Safe, SocketClosed PROVE Pool!Next
<1> DEFINE O == {c \in Chans : acq[c] \in Live}
<1> USE DEF Safe, TypeOK
<1>1. Pool!Become(O, "done")
  BY DEF SocketClosed, Reset, Cleared, Pool!Become, StageOf, Live
<1>2. {i \in DOMAIN leased : leased[i] \notin O} = {}
  BY LeasesElim DEF LeasedExactly
<1>3. leased' = [id \in {i \in DOMAIN leased : leased[i] \notin O} |-> leased[id]]
  BY <1>2 DEF SocketClosed, Reset
<1>4. readyState' # "OPEN"
  BY DEF SocketClosed
<1>5. \A c \in O : [d \in Chans |-> StageOf(acq[d])][c] = "holds"
  BY DEF StageOf, Live
<1>6. Pool!GiveBack(O)
  BY <1>1, <1>3, <1>4, <1>5 DEF Pool!GiveBack
<1> QED BY <1>6 DEF Pool!Next

(* close() and unsafeDestroy() while somebody waits for the connection.    *)
LEMMA AbandonPools == ASSUME Safe, Abandon PROVE Pool!Next \/ UNCHANGED Pool!vars
<1> DEFINE O == {c \in Chans : acq[c] = "waiting"}
<1> USE DEF Safe, TypeOK
<1>1. CASE readyState = "OPEN"
  <2>1. O = {}
    BY <1>1 DEF PhaseOfSocket
  <2>2. \A c \in Chans : acq'[c] = acq[c]
    BY <2>1 DEF Abandon
  <2>3. Pool!Stop
    BY <1>1, <2>2 DEF Abandon, Pool!Stop
  <2> QED BY <2>3 DEF Pool!Next
<1>2. CASE readyState # "OPEN"
  <2>1. Pool!Become(O, "done")
    BY DEF Abandon, Pool!Become, StageOf, Live
  <2>2. UNCHANGED <<readyState = "OPEN", leased>>
    BY <1>2 DEF Abandon
  <2>3. Pool!TurnAway(O)
    BY <1>2, <2>1, <2>2 DEF Abandon, Pool!TurnAway, StageOf, Live
  <2> QED BY <2>3 DEF Pool!Next
<1> QED BY <1>1, <1>2

LEMMA NegotiatedPools == ASSUME Safe, Negotiated PROVE Pool!Next
<1> DEFINE O == {c \in Chans : acq[c] = "waiting"}
<1> USE DEF Safe, TypeOK
<1>1. readyState # "OPEN"
  BY DEF Negotiated, PhaseOfSocket
<1>2. Pool!Become(O, "due")
  BY DEF Negotiated, Pool!Become, StageOf, Live
<1>3. Pool!Start(O)
  BY <1>1, <1>2 DEF Negotiated, Pool!Start, StageOf, Live
<1> QED BY <1>3 DEF Pool!Next

LEMMA PoolStep == ASSUME Safe, [Next]_vars PROVE [Pool!Next]_(Pool!vars)
<1> DEFINE Same == UNCHANGED Pool!vars
<1> USE DEF Safe, TypeOK
<1>1. CASE UNCHANGED vars
  BY <1>1 DEF vars, Pool!vars
<1>2. ASSUME NEW c \in Chans, Acquire(c) \/ Lazy(c) PROVE Pool!Next \/ Same
  BY <1>2, StartAcquirePools DEF Acquire, Lazy
<1>3. ASSUME NEW c \in Chans, Continue(c) PROVE Pool!Next
  BY <1>3, LeasePools DEF Continue
<1>4. ASSUME NEW c \in Chans, ChannelCloseOk(c) \/ ChannelKilled(c) PROVE Pool!Next
  <2>1. acq' = [acq EXCEPT ![c] = "failed"] \/ acq' = [acq EXCEPT ![c] = "closed"]
    BY <1>4 DEF ChannelCloseOk, ChannelKilled
  <2> QED BY <1>4, <2>1, ReleasePools DEF ChannelCloseOk, ChannelKilled, Live
<1>5. ASSUME NEW c \in Chans, AcquireTimeout(c) PROVE Pool!Next
  <2>1. readyState # "OPEN"
    BY <1>5 DEF AcquireTimeout, PhaseOfSocket
  <2>2. Pool!Become({c}, "done")
    BY <1>5 DEF AcquireTimeout, Pool!Become, StageOf, Live
  <2>3. UNCHANGED <<readyState = "OPEN", leased>>
    BY <1>5 DEF AcquireTimeout
  <2>4. Pool!TurnAway({c})
    BY <1>5, <2>1, <2>2, <2>3 DEF AcquireTimeout, Pool!TurnAway, StageOf, Live
  <2> QED BY <2>4 DEF Pool!Next
<1>6. ASSUME NEW c \in Chans, OpenOk(c) \/ CloseChannel(c) PROVE Same
  <2>1. \A d \in Chans : acq'[d] = acq[d] \/ (acq[d] \in Live /\ acq'[d] \in Live)
    BY <1>6 DEF OpenOk, CloseChannel, Live
  <2>2. \A d \in Chans : StageOf(acq'[d]) = StageOf(acq[d])
    BY <2>1 DEF StageOf, Live
  <2> QED BY <1>6, <2>2 DEF OpenOk, CloseChannel, Pool!vars
<1>7. ASSUME NEW k \in Closers, CloseOpen(k) PROVE Pool!Next
  <2>1. \A d \in Chans : acq'[d] = acq[d] \/ (acq[d] \in Live /\ acq'[d] \in Live)
    BY <1>7 DEF CloseOpen, LazyIn, Live
  <2>2. \A d \in Chans : StageOf(acq'[d]) = StageOf(acq[d])
    BY <2>1 DEF StageOf, Live
  <2>3. Pool!Stop
    BY <1>7, <2>2 DEF CloseOpen, Pool!Stop
  <2> QED BY <2>3 DEF Pool!Next
<1>8. ASSUME UnsafeDestroy \/ \E k \in Closers : CloseConnecting(k)
      PROVE  Pool!Next \/ Same
  BY <1>8, AbandonPools DEF UnsafeDestroy, CloseConnecting
<1>9. ASSUME \/ \E k \in Closers : CloseAgain(k) \/ CloseResume(k)
             \/ ServerEnds \/ AfterReset \/ Retry \/ Drop \/ ServerClose
      PROVE  Same
  BY <1>9 DEF CloseAgain, CloseResume, ServerEnds, AfterReset, Retry, Drop, ServerClose,
     Pool!vars
<1>10. CASE Negotiated
  BY <1>10, NegotiatedPools
<1>11. CASE SocketClosed
  BY <1>11, ResetPools
<1> QED
  BY <1>1, <1>2, <1>3, <1>4, <1>5, <1>6, <1>7, <1>8, <1>9, <1>10, <1>11
  DEF Next, User, Jobs, Environment

(* However channels come and go, an id has one owner until the end of that *)
(* channel, and acquire() is refused an id it is owed only if none is left.*)
THEOREM IdsArePool == Spec => ImplementsPool
<1>1. Init => Pool!Init
  BY NoLeases DEF Init, Pool!Init, StageOf, Live
<1>2. Safe /\ [Next]_vars => [Pool!Next]_(Pool!vars)
  BY PoolStep
<1> QED BY <1>1, <1>2, SafeAlways, PTL DEF Spec, ImplementsPool, Pool!Spec

(* Only the call that the lazy channel is about can be on its way or have  *)
(* a channel to use.                                                       *)
Using == Pending \cup {"ready"}
LazyIsLast == \A c \in LazyChans : acq[c] \in Using => lazy = c

(* acquire() changes nothing about other calls.                            *)
LEMMA AcquireAlone ==
  ASSUME TypeOK, NEW c \in Chans, StartAcquire(c) \/ Continue(c)
  PROVE  \A d \in Chans : d # c => acq'[d] = acq[d]
BY DEF TypeOK, StartAcquire, Continue, Lease

LEMMA LazyStep == ASSUME TypeOK, LazyIsLast, [Next]_vars PROVE LazyIsLast'
<1> DEFINE NoOther == lazy' = lazy /\ \A d \in LazyChans : acq'[d] \in Using => acq[d] \in Using
<1> USE ConnectionAssumption DEF Using, Pending
<1>1. ASSUME NoOther PROVE LazyIsLast'
  BY <1>1 DEF LazyIsLast
<1>2. ASSUME NEW c \in Chans, Lazy(c) PROVE LazyIsLast'
  <2>1. c \in LazyChans /\ lazy' = c /\ NeedsLazy /\ StartAcquire(c)
    BY <1>2 DEF Lazy
  <2>2. \A d \in LazyChans : acq[d] \notin Using
    BY <2>1 DEF NeedsLazy, LazyIn, LazyIsLast
  <2>3. \A d \in LazyChans : d # c => acq'[d] = acq[d]
    BY <2>1, AcquireAlone
  <2> QED BY <2>1, <2>2, <2>3 DEF LazyIsLast
<1>3. ASSUME NEW c \in Chans, Acquire(c) PROVE NoOther
  BY <1>3, AcquireAlone DEF Acquire
<1>4. ASSUME NEW c \in Chans, Continue(c) PROVE NoOther
  BY <1>4, AcquireAlone DEF Continue
<1>5. ASSUME NEW c \in Chans,
             OpenOk(c) \/ CloseChannel(c) \/ ChannelCloseOk(c) \/ ChannelKilled(c)
               \/ AcquireTimeout(c)
      PROVE  NoOther
  BY <1>5 DEF TypeOK, OpenOk, CloseChannel, ChannelCloseOk, ChannelKilled, Release, AcquireTimeout
<1>6. ASSUME NEW k \in Closers,
             CloseConnecting(k) \/ CloseOpen(k) \/ CloseAgain(k) \/ CloseResume(k)
      PROVE  NoOther
  BY <1>6 DEF TypeOK, CloseConnecting, Abandon, CloseOpen, CloseAgain, CloseResume
<1>7. ASSUME UnsafeDestroy \/ Negotiated \/ ServerEnds \/ SocketClosed \/ AfterReset \/ Retry
               \/ Drop \/ ServerClose \/ UNCHANGED vars
      PROVE  NoOther
  BY <1>7 DEF TypeOK, UnsafeDestroy, Abandon, Negotiated, ServerEnds, SocketClosed, Reset, Cleared,
     AfterReset, Retry, Drop, ServerClose, vars
<1> QED
  BY <1>1, <1>2, <1>3, <1>4, <1>5, <1>6, <1>7 DEF Next, User, Jobs, Environment

(* Concurrent calls of the shortcuts share one lazy channel, whatever      *)
(* becomes of it (Connection.ts 587-600).                                  *)
THEOREM OneLazyChannel == Spec => []LazySingle
<1>1. Init => LazyIsLast
  BY ConnectionAssumption DEF Init, LazyIsLast, Using, Pending
<1>2. Safe /\ LazyIsLast /\ [Next]_vars => LazyIsLast'
  BY LazyStep DEF Safe
<1>3. LazyIsLast => LazySingle
  BY DEF LazyIsLast, LazySingle, Using
<1> QED BY <1>1, <1>2, <1>3, SafeAlways, PTL DEF Spec
=============================================================================

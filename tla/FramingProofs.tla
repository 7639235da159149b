--------------------------- MODULE FramingProofs ---------------------------
(***************************************************************************)
(* Proofs about Framing for any number of channels, contents, sizes and    *)
(* lost sockets: the heartbeat, whatever is read and written; contents in  *)
(* order, bodies cut without loss; and contents that are whole, if no      *)
(* broker offers a smaller frame than the client.                          *)
(***************************************************************************)
EXTENDS Framing, TLAPS, WellFoundedInduction

(* Between two reads the misses and the silence grow together; a read is   *)
(* counted by the next tick only, so the silence may be one ahead.  What   *)
(* was written since the last tick has just left.                          *)
Flags == link \in {"up", "timeout", "down"} /\ hasRead \in BOOLEAN /\ hasWrite \in BOOLEAN
         /\ corked \in BOOLEAN /\ miss \in 0..4 /\ silence \in Nat /\ quiet \in Nat
SilenceCounted ==
  link = "up" => /\ miss < 4
                 /\ hasRead => silence = 0
                 /\ ~hasRead => silence \in {miss, miss + 1}
WritesSeen ==
  link = "up" /\ ~corked => quiet <= 1 /\ (hasWrite => quiet = 0)
BeatInv == Flags /\ SilenceCounted /\ WritesSeen /\ KilledOnlySilent

-----------------------------------------------------------------------------
(* What a step may do to the heartbeat's state.                            *)
OnlyReads == link = "up" /\ Read /\ UNCHANGED <<link, hasWrite, miss, corked, quiet>>
OnlyWrites == link = "up" /\ Write /\ UNCHANGED <<link, hasRead, miss, corked, silence>>
Drops == link = "up" /\ link' = "down" /\ hasRead' \in BOOLEAN /\ silence' \in Nat
         /\ UNCHANGED <<hasWrite, miss, corked, quiet>>
BeatStep ==
  \/ UNCHANGED beat
  \/ OnlyReads \/ OnlyWrites \/ Drops \/ BeatRestart
  \/ OnBlocked \/ OnUnblocked \/ Tick

(* Every step of the connection is one of these.                           *)
LEMMA StepsAreBeats == Flags /\ [Next]_vars => BeatStep
<1> SUFFICES ASSUME Flags, [Next]_vars
             PROVE  BeatStep
  OBVIOUS
<1> USE DEF BeatStep
<1>1. CASE UNCHANGED vars
  BY <1>1 DEF vars
<1>2. ASSUME NEW c \in Chans, NEW kind \in Kinds, NEW size \in Incoming, Begin(c, kind, size)
      PROVE  BeatStep
  BY <1>2 DEF Begin
<1>3. ASSUME NEW c \in Chans, OnMethod(c)
      PROVE  BeatStep
  <2>1. CASE incoming[c] # None
    BY <1>3, <2>1 DEF OnMethod, Refused, Read, Drops, Flags
  <2>2. CASE incoming[c] = None
    BY <1>3, <2>2 DEF OnMethod, OnlyReads
  <2>3. QED
    BY <2>1, <2>2
<1>4. ASSUME NEW c \in Chans, OnHeader(c)
      PROVE  BeatStep
  <2>1. CASE incoming[c] = None \/ incoming[c].at # "method"
    BY <1>4, <2>1 DEF OnHeader, Refused, Read, Drops, Flags
  <2>2. CASE ~(incoming[c] = None \/ incoming[c].at # "method")
    BY <1>4, <2>2 DEF OnHeader, OnlyReads
  <2>3. QED
    BY <2>1, <2>2
<1>5. ASSUME NEW c \in Chans, OnBody(c)
      PROVE  BeatStep
  <2>1. CASE incoming[c] = None \/ incoming[c].at # "header"
    BY <1>5, <2>1 DEF OnBody, Refused, Read, Drops, Flags
  <2>2. CASE ~(incoming[c] = None \/ incoming[c].at # "header")
    BY <1>5, <2>2 DEF OnBody, OnlyReads
  <2>3. QED
    BY <2>1, <2>2
<1>6. ASSUME NEW size \in Outgoing, Publish(size)
      PROVE  BeatStep
  <2>1. CASE \E n \in Range(Slices(size)) : n > frameMax
    BY <1>6, <2>1 DEF Publish, Drops, Flags
  <2>2. CASE ~\E n \in Range(Slices(size)) : n > frameMax
    BY <1>6, <2>2 DEF Publish, OnlyWrites
  <2>3. QED
    BY <2>1, <2>2
<1>7. CASE Handle
  BY <1>7 DEF Handle
<1>8. CASE Pulse
  <2>1. CASE OnHeartbeat
    BY <2>1 DEF OnHeartbeat, OnlyReads
  <2>2. QED
    BY <1>8, <2>1 DEF Pulse
<1>9. CASE Lost
  BY <1>9 DEF Lost, Drops, Flags
<1>10. CASE Reconnect
  BY <1>10 DEF Reconnect
<1>11. QED
  BY <1>1, <1>2, <1>3, <1>4, <1>5, <1>6, <1>7, <1>8, <1>9, <1>10 DEF Next

-----------------------------------------------------------------------------
(* A new socket has the flags down and the counts at zero.                 *)
Fresh == /\ link = "up" /\ ~hasRead /\ ~hasWrite /\ ~corked
         /\ hasRead \in BOOLEAN /\ hasWrite \in BOOLEAN /\ corked \in BOOLEAN
         /\ miss = 0 /\ silence = 0 /\ quiet = 0

LEMMA FreshInv == Fresh => BeatInv
BY DEF Fresh, BeatInv, Flags, SilenceCounted, WritesSeen, KilledOnlySilent

LEMMA BeatInvInit == Init => BeatInv
<1>1. BeatInit => Fresh
  BY Zenon DEF BeatInit, Fresh
<1>2. QED
  BY <1>1, FreshInv DEF Init

LEMMA FreshInvNext == Fresh' => BeatInv'
BY DEF Fresh, BeatInv, Flags, SilenceCounted, WritesSeen, KilledOnlySilent

LEMMA BeatInvNext == BeatInv /\ [Next]_vars => BeatInv'
<1> SUFFICES ASSUME BeatInv, [Next]_vars
             PROVE  BeatInv'
  OBVIOUS
<1> USE DEF BeatInv, Flags, SilenceCounted, WritesSeen, KilledOnlySilent
<1>1. BeatStep
  BY StepsAreBeats
<1>2. CASE UNCHANGED beat
  BY <1>2 DEF beat
<1>3. CASE OnlyReads
  BY <1>3 DEF OnlyReads, Read
<1>4. CASE OnlyWrites
  BY <1>4 DEF OnlyWrites, Write
<1>5. CASE Drops
  BY <1>5 DEF Drops
<1>6. CASE BeatRestart
  <2>1. Fresh'
    BY <1>6, Zenon DEF BeatRestart, Fresh
  <2>2. QED
    BY <2>1, FreshInvNext
<1>7. CASE OnBlocked
  BY <1>7 DEF OnBlocked, Read
<1>8. CASE OnUnblocked
  <2>1. hasRead' /\ ~corked' /\ hasRead' \in BOOLEAN /\ corked' \in BOOLEAN
    BY <1>8, Zenon DEF OnUnblocked, Read
  <2>2. /\ link' = link /\ link = "up" /\ silence' = 0 /\ quiet' = 0
        /\ UNCHANGED <<hasWrite, miss>>
    BY <1>8 DEF OnUnblocked, Read
  <2>3. QED
    BY <2>1, <2>2
<1>9. CASE Tick
  <2>1. ~hasRead' /\ ~hasWrite' /\ hasRead' \in BOOLEAN /\ hasWrite' \in BOOLEAN
    BY <1>9, Zenon DEF Tick, ClearRead, ClearWrite
  <2>2. link = "up" /\ silence' = silence + 1 /\ corked' = corked
    BY <1>9 DEF Tick
  <2>3. quiet' = 0 \/ (corked /\ quiet' = quiet) \/ (hasWrite /\ ~corked /\ quiet' = quiet + 1)
    BY <1>9, Zenon DEF Tick
  <2>4. CASE hasRead
    <3>1. miss' = 0 /\ link' = "up"
      BY <1>9, <2>4 DEF Tick, Reset
    <3>2. QED
      BY <2>1, <2>2, <2>3, <2>4, <3>1
  <2>5. CASE ~hasRead
    <3>1. miss' = miss + 1 /\ link' = IF miss + 1 >= 4 THEN "timeout" ELSE "up"
      BY <1>9, <2>5 DEF Tick, TooMany
    <3>2. QED
      BY <2>1, <2>2, <2>3, <2>5, <3>1
  <2>6. QED
    BY <2>4, <2>5
<1>10. QED
  BY <1>1, <1>2, <1>3, <1>4, <1>5, <1>6, <1>7, <1>8, <1>9 DEF BeatStep

LEMMA BeatInvariant == Spec => []BeatInv
BY BeatInvInit, BeatInvNext, PTL DEF Spec

(* No connection is given up while its broker sends a frame per heartbeat: *)
(* whatever the channels do, the timer destroys a socket only after four   *)
(* intervals without a frame.                                              *)
THEOREM NeverKilledEarly == Spec => []KilledOnlySilent
<1>1. BeatInv => KilledOnlySilent
  BY DEF BeatInv
<1>2. QED
  BY <1>1, BeatInvariant, PTL

(* A broker that went away is noticed at the fifth tick.                   *)
THEOREM SilenceNoticed == Spec => []DeadNoticed
<1>1. BeatInv => DeadNoticed
  BY DEF BeatInv, Flags, SilenceCounted, DeadNoticed
<1>2. QED
  BY <1>1, BeatInvariant, PTL

(* A broker that does not block the connection hears from it once per      *)
(* heartbeat, whatever is written and whenever.                            *)
THEOREM LifeShown == Spec => []ShowsLife
<1>1. BeatInv => ShowsLife
  BY DEF BeatInv, WritesSeen, ShowsLife
<1>2. QED
  BY <1>1, BeatInvariant, PTL

(* All of it: dead connections end, and no others.                         *)
THEOREM HeartbeatSound == Spec => []BeatSound
<1>1. BeatInv => BeatSound
  BY DEF BeatInv, Flags, SilenceCounted, WritesSeen, BeatSound, DeadNoticed, ShowsLife
<1>2. QED
  BY <1>1, BeatInvariant, PTL

-----------------------------------------------------------------------------
(* Contents.                                                               *)

(* The broker's offer leaves the client's frame size as it is.             *)
Agreed == \A f \in Offers : f = 0 \/ f >= OptFrameMax

(* Types of what is on its way.                                            *)
Feeds == [at : {"method", "header", "body"}, of : Nat, kind : Kinds, size : Incoming, left : Nat]
Contents == [at : {"method", "header"}, chan : Chans, of : Nat, kind : Kinds, size : Incoming,
             expected : Nat, received : Nat, bytes : Nat, from : SUBSET Nat]
WholeOnes == {m \in Contents : m.bytes = m.size /\ m.from \subseteq {m.of}}

(* A channel has of a content what the broker has sent of it, and expects  *)
(* as many more frames as the broker will send.                            *)
Between(f, m) == m.of = f.of /\ m.size = f.size
Untouched(m) == m.received = 0 /\ m.bytes = 0 /\ m.from = {}
InStep(f, m) ==
  \/ f = None /\ m = None
  \/ f \in Feeds /\ f.at = "method" /\ f.left = f.size /\ m = None
  \/ f \in Feeds /\ f.at = "header" /\ f.left = f.size /\ m \in Contents /\ m.at = "method"
       /\ Between(f, m) /\ Untouched(m)
  \/ f \in Feeds /\ f.at = "body" /\ f.left > 0 /\ m \in Contents /\ m.at = "header"
       /\ Between(f, m) /\ m.from \subseteq {m.of} /\ m.bytes + f.left = m.size
       /\ m.expected = m.received + Expected(f.left)

ContentInv ==
  /\ frameMax = OptFrameMax /\ started \in Nat /\ error = "none"
  /\ feed \in [Chans -> Feeds \cup {None}] /\ incoming \in [Chans -> Contents \cup {None}]
  /\ \A c \in Chans : InStep(feed[c], incoming[c])
  /\ immediates \in Seq(WholeOnes) /\ handled \in Seq(WholeOnes)

(* The frames expected for what is left: none for nothing, and one more    *)
(* than for what is left after the next.                                   *)
LEMMA DivShift ==
  ASSUME NEW a \in Nat, NEW k \in Nat, k > 0
  PROVE  (a + k) \div k = a \div k + 1
OBVIOUS

LEMMA DivSmall ==
  ASSUME NEW a \in Nat, NEW k \in Nat, a < k
  PROVE  a \div k = 0
OBVIOUS

LEMMA DivNat ==
  ASSUME NEW a \in Nat, NEW k \in Nat, k > 0
  PROVE  a \div k \in Nat
OBVIOUS

LEMMA ExpectedCounts ==
  ASSUME NEW left \in Nat, frameMax = OptFrameMax
  PROVE  /\ Expected(left) \in Nat
         /\ left = 0 => Expected(left) = 0
         /\ left > 0 => /\ Payload(left) \in 1..left /\ Expected(left) > 0
                        /\ Expected(left) = 1 + Expected(left - Payload(left))
<1> DEFINE k == OptFrameMax - Overhead
<1>1. k \in Nat /\ k > 0
  BY FramingAssumption DEF Overhead
<1>2. \A x \in Nat : Expected(x) = (x + k - 1) \div k
  BY <1>1 DEF Expected, Overhead
<1>3. Payload(left) = IF left < k THEN left ELSE k
  BY <1>1 DEF Payload, Least, Overhead
<1> HIDE DEF k
<1>4. Expected(left) \in Nat
  BY <1>1, <1>2, DivNat
<1>5. Expected(0) = 0
  BY <1>1, <1>2, DivSmall
<1>6. ASSUME left > 0
      PROVE  Payload(left) \in 1..left /\ Expected(left) > 0 /\ Expected(left) = 1 + Expected(left - Payload(left))
  <2>1. Payload(left) \in 1..left
    BY <1>1, <1>3, <1>6
  <2>2. Expected(left) = ((left - 1) + k) \div k
    <3>1. left + k - 1 = (left - 1) + k
      BY <1>1
    <3>2. QED
      BY <1>2, <3>1
  <2>3. Expected(left) = (left - 1) \div k + 1
    BY <2>2, <1>1, <1>6, DivShift
  <2>0. Expected(left) > 0
    BY <2>3, <1>1, <1>6, DivNat
  <2>4. CASE left < k
    BY <2>0, <2>1, <2>3, <2>4, <1>1, <1>3, <1>5, <1>6, DivSmall
  <2>5. CASE ~(left < k)
    <3>1. (left - k) + k - 1 = left - 1
      BY <1>1
    <3>2. Expected(left - k) = (left - 1) \div k
      BY <3>1, <2>5, <1>1, <1>2
    <3>3. QED
      BY <3>2, <2>0, <2>1, <2>3, <2>5, <1>1, <1>3
  <2>6. QED
    BY <2>1, <2>4, <2>5
<1>7. QED
  BY <1>4, <1>5, <1>6

(* Rounding up: as many times k as are needed, and not one more.           *)
LEMMA Multiples ==
  ASSUME NEW k \in Nat, k > 0, NEW size \in Nat, NEW n \in Nat
  PROVE  /\ (size + k - 1) \div k \in Nat
         /\ ((size + k - 1) \div k) * k >= size
         /\ n > 0 /\ n <= (size + k - 1) \div k => (n - 1) * k < size
<1> DEFINE q == (size + k - 1) \div k
<1>1. q \in Nat /\ q * k <= size + k - 1 /\ size + k - 1 < q * k + k
  OBVIOUS
<1> HIDE DEF q
<1>2. ASSUME n > 0, n <= q PROVE (n - 1) * k < size
  <2>1. (q - n) * k >= 0 /\ (q - n) * k = q * k - n * k
    BY <1>1, <1>2
  <2>2. (n - 1) * k = n * k - k
    OBVIOUS
  <2> QED BY <1>1, <2>1, <2>2
<1> QED BY <1>1, <1>2 DEF q

LEMMA ExpectedNat ==
  ASSUME NEW size \in Nat
  PROVE  Expected(size) \in Nat
<1> DEFINE k == OptFrameMax - Overhead
<1>1. k \in Nat /\ k > 0
  BY FramingAssumption DEF Overhead
<1>2. Expected(size) = (size + k - 1) \div k
  BY <1>1 DEF Expected, Overhead
<1> HIDE DEF k
<1> QED BY <1>1, <1>2, Multiples

(* None is no content, so the cases of InStep exclude each other.          *)
LEMMA NoneIsNone == None \notin Feeds /\ None \notin Contents
  /\ \A f \in Feeds : f.at # "none" /\ \A m \in Contents : m.at # "none"
BY DEF None, Feeds, Contents

LEMMA ContentInit == Agreed /\ Init => ContentInv
<1> SUFFICES ASSUME Agreed, Init
             PROVE  ContentInv
  OBVIOUS
<1>1. \A f \in Offers : Negotiated(f) = OptFrameMax
  BY FramingAssumption DEF Agreed, Negotiated, Least
<1>2. frameMax = OptFrameMax
  BY <1>1 DEF Init
<1>3. QED
  BY <1>2 DEF Init, ContentInv, InStep

(* A content that is passed on is whole.                                   *)
LEMMA PassedOn ==
  ASSUME ContentInv, NEW c \in Chans, NEW m \in WholeOnes, PassOn(c, m)
  PROVE  /\ immediates' \in Seq(WholeOnes) /\ handled' \in Seq(WholeOnes)
         /\ incoming' = [incoming EXCEPT ![c] = None]
<1>1. immediates \in Seq(WholeOnes) /\ handled \in Seq(WholeOnes)
  BY DEF ContentInv
<1>2. incoming' = [incoming EXCEPT ![c] = None]
  BY DEF PassOn, Cleared
<1>3. CASE m.kind = "get"
  <2>1. handled' = Append(handled, m) /\ immediates' = immediates
    BY <1>3 DEF PassOn
  <2>2. Append(handled, m) \in Seq(WholeOnes)
    BY <1>1
  <2>3. QED
    BY <1>1, <1>2, <2>1, <2>2
<1>4. CASE m.kind # "get"
  <2>1. immediates' = Append(immediates, m) /\ handled' = handled
    BY <1>4 DEF PassOn, Scheduled
  <2>2. Append(immediates, m) \in Seq(WholeOnes)
    BY <1>1
  <2>3. QED
    BY <1>1, <1>2, <2>1, <2>2
<1>5. QED
  BY <1>3, <1>4

(* When only channel c changes, the others stay in step.                   *)
LEMMA OthersInStep ==
  ASSUME ContentInv, NEW c \in Chans, NEW f \in Feeds \cup {None}, NEW m \in Contents \cup {None},
         feed' = [feed EXCEPT ![c] = f], incoming' = [incoming EXCEPT ![c] = m], InStep(f, m)
  PROVE  /\ feed' \in [Chans -> Feeds \cup {None}] /\ incoming' \in [Chans -> Contents \cup {None}]
         /\ \A d \in Chans : InStep(feed'[d], incoming'[d])
<1>1. /\ feed \in [Chans -> Feeds \cup {None}] /\ incoming \in [Chans -> Contents \cup {None}]
      /\ \A d \in Chans : InStep(feed[d], incoming[d])
  BY DEF ContentInv
<1>2. feed' \in [Chans -> Feeds \cup {None}] /\ incoming' \in [Chans -> Contents \cup {None}]
  BY <1>1
<1>3. ASSUME NEW d \in Chans
      PROVE  InStep(feed'[d], incoming'[d])
  <2>1. CASE d = c
    <3>1. feed'[d] = f /\ incoming'[d] = m
      BY <1>1, <2>1
    <3>2. QED
      BY <3>1
  <2>2. CASE d # c
    <3>1. feed'[d] = feed[d] /\ incoming'[d] = incoming[d]
      BY <1>1, <2>2
    <3>2. QED
      BY <1>1, <3>1
  <2>3. QED
    BY <2>1, <2>2
<1>4. QED
  BY <1>2, <1>3

LEMMA BeginsInStep ==
  ASSUME ContentInv, NEW c \in Chans, NEW kind \in Kinds, NEW size \in Incoming,
         Begin(c, kind, size)
  PROVE  ContentInv'
<1> DEFINE f == [at |-> "method", of |-> started + 1, kind |-> kind, size |-> size, left |-> size]
<1>1. size \in Nat
  BY FramingAssumption
<1>2. f \in Feeds /\ f.at = "method" /\ f.left = f.size
  BY <1>1 DEF ContentInv, Feeds
<1>3. feed[c] = None /\ feed' = [feed EXCEPT ![c] = f] /\ UNCHANGED incoming
  BY DEF Begin
<1>4. incoming[c] = None
  <2>1. InStep(feed[c], incoming[c])
    BY DEF ContentInv
  <2>2. QED
    BY <1>3, <2>1, NoneIsNone DEF InStep
<1>5. InStep(f, None)
  BY <1>2 DEF InStep
<1>6. incoming' = [incoming EXCEPT ![c] = None]
  BY <1>3, <1>4 DEF ContentInv
<1> HIDE DEF f
<1>7. /\ feed' \in [Chans -> Feeds \cup {None}] /\ incoming' \in [Chans -> Contents \cup {None}]
      /\ \A d \in Chans : InStep(feed'[d], incoming'[d])
  BY <1>2, <1>3, <1>5, <1>6, OthersInStep
<1>8. frameMax' = frameMax /\ error' = error /\ started' = started + 1
      /\ immediates' = immediates /\ handled' = handled
  BY DEF Begin
<1>9. QED
  BY <1>7, <1>8 DEF ContentInv

LEMMA MethodInStep ==
  ASSUME ContentInv, NEW c \in Chans, OnMethod(c)
  PROVE  ContentInv'
<1>1. /\ InStep(feed[c], incoming[c]) /\ feed[c].at = "method"
      /\ feed \in [Chans -> Feeds \cup {None}] /\ incoming \in [Chans -> Contents \cup {None}]
  BY DEF ContentInv, OnMethod
<1>2. feed[c] \in Feeds /\ feed[c].left = feed[c].size /\ incoming[c] = None
  BY <1>1 DEF InStep, None
<1> DEFINE f == [feed[c] EXCEPT !.at = "header"]
           m == [at |-> "method", chan |-> c, of |-> feed[c].of, kind |-> feed[c].kind,
                 size |-> feed[c].size, expected |-> 0, received |-> 0, bytes |-> 0, from |-> {}]
<1>3. feed' = [feed EXCEPT ![c] = f] /\ incoming' = [incoming EXCEPT ![c] = m] /\ error' = error
  BY <1>1, <1>2 DEF OnMethod
<1>4. f \in Feeds /\ f.at = "header" /\ f.left = f.size
  BY <1>2 DEF Feeds
<1>5. m \in Contents /\ m.at = "method" /\ Between(f, m) /\ Untouched(m)
  BY <1>2 DEF Feeds, Contents, Between, Untouched
<1> HIDE DEF f, m
<1>6. InStep(f, m)
  BY <1>4, <1>5 DEF InStep
<1>7. /\ feed' \in [Chans -> Feeds \cup {None}] /\ incoming' \in [Chans -> Contents \cup {None}]
      /\ \A d \in Chans : InStep(feed'[d], incoming'[d])
  BY <1>3, <1>4, <1>5, <1>6, OthersInStep
<1>8. UNCHANGED <<frameMax, started, immediates, handled>>
  BY DEF OnMethod
<1>9. QED
  BY <1>3, <1>7, <1>8 DEF ContentInv

(* A frame of a content is its last one, and the content is passed on, or  *)
(* it is not.                                                              *)
Completes(c) ==
  /\ feed[c] \in Feeds /\ feed' = [feed EXCEPT ![c] = None]
  /\ arrived' = arrived \cup {feed[c].of}
  /\ \E m \in WholeOnes : m.of = feed[c].of /\ PassOn(c, m)
Proceeds(c) ==
  /\ feed[c] \in Feeds
  /\ \E f \in Feeds : f.of = feed[c].of /\ feed' = [feed EXCEPT ![c] = f]
  /\ UNCHANGED <<arrived, immediates, handled>>
Grows(c) == UNCHANGED started /\ (Completes(c) \/ Proceeds(c))

LEMMA HeaderInStep ==
  ASSUME ContentInv, NEW c \in Chans, OnHeader(c)
  PROVE  ContentInv' /\ Grows(c)
<1> DEFINE size == feed[c].size
           m == [incoming[c] EXCEPT !.at = "header", !.expected = Expected(size)]
           f == IF size = 0 THEN None ELSE [feed[c] EXCEPT !.at = "body"]
<1>1. /\ InStep(feed[c], incoming[c]) /\ feed[c].at = "header"
      /\ feed \in [Chans -> Feeds \cup {None}] /\ incoming \in [Chans -> Contents \cup {None}]
  BY DEF ContentInv, OnHeader
<1>2. /\ feed[c] \in Feeds /\ feed[c].left = size
      /\ incoming[c] \in Contents /\ incoming[c].at = "method"
      /\ Between(feed[c], incoming[c]) /\ Untouched(incoming[c])
  BY <1>1 DEF InStep, None
<1>3. size \in Nat /\ size \in Incoming
  BY <1>2, FramingAssumption DEF Feeds
<1>4. Expected(size) \in Nat /\ (size = 0 <=> Expected(size) = 0)
  BY SMTT(30), <1>3, ExpectedCounts DEF ContentInv, Payload
<1>5. /\ m \in Contents /\ m.at = "header" /\ m.of = feed[c].of /\ m.size = size
      /\ Untouched(m) /\ m.expected = Expected(size)
  BY <1>2, <1>4 DEF Contents, Between, Untouched
<1>6. /\ feed' = [feed EXCEPT ![c] = f]
      /\ UNCHANGED <<frameMax, started, error>>
      /\ IF m.expected = 0 THEN PassOn(c, m)
         ELSE incoming' = [incoming EXCEPT ![c] = m] /\ UNCHANGED <<immediates, handled>>
      /\ arrived' = IF size = 0 THEN arrived \cup {feed[c].of} ELSE arrived
  <2>1. ~(incoming[c] = None \/ incoming[c].at # "method")
    BY <1>2, NoneIsNone
  <2>2. QED
    BY <1>1, <2>1 DEF OnHeader, Arrives
<1>7. CASE size = 0
  <2>1. m \in WholeOnes /\ PassOn(c, m) /\ f = None
    BY <1>4, <1>5, <1>6, <1>7 DEF WholeOnes, Untouched
  <2> HIDE DEF m, f
  <2>2. /\ immediates' \in Seq(WholeOnes) /\ handled' \in Seq(WholeOnes)
        /\ incoming' = [incoming EXCEPT ![c] = None]
    BY <2>1, PassedOn
  <2>3. /\ feed' \in [Chans -> Feeds \cup {None}] /\ incoming' \in [Chans -> Contents \cup {None}]
        /\ \A d \in Chans : InStep(feed'[d], incoming'[d])
    <3>1. InStep(f, None)
      BY <2>1 DEF InStep
    <3>2. QED
      BY <1>6, <2>1, <2>2, <3>1, OthersInStep
  <2>4. Completes(c)
    BY <1>2, <1>5, <1>6, <1>7, <2>1 DEF Completes
  <2>5. QED
    BY <1>6, <2>2, <2>3, <2>4 DEF ContentInv, Grows
<1>8. CASE size # 0
  <2>1. /\ f \in Feeds /\ f.at = "body" /\ f.left = size /\ f.of = feed[c].of /\ f.size = size
    BY <1>2, <1>8 DEF Feeds
  <2>2. incoming' = [incoming EXCEPT ![c] = m] /\ UNCHANGED <<immediates, handled>>
    BY <1>4, <1>5, <1>6, <1>8
  <2> HIDE DEF m, f
  <2>3. InStep(f, m)
    <3>1. m.received = 0 /\ m.bytes = 0 /\ m.from = {}
      BY <1>5 DEF Untouched
    <3>2. m.bytes + f.left = m.size /\ m.expected = m.received + Expected(f.left) /\ f.left > 0
      BY <1>3, <1>4, <1>5, <1>8, <2>1, <3>1
    <3>3. Between(f, m)
      BY <1>5, <2>1 DEF Between
    <3>4. QED
      BY <1>5, <2>1, <3>1, <3>2, <3>3 DEF InStep
  <2>4. /\ feed' \in [Chans -> Feeds \cup {None}] /\ incoming' \in [Chans -> Contents \cup {None}]
        /\ \A d \in Chans : InStep(feed'[d], incoming'[d])
    BY <1>5, <1>6, <2>1, <2>2, <2>3, OthersInStep
  <2>5. Proceeds(c)
    BY <1>2, <1>6, <1>8, <2>1, <2>2 DEF Proceeds
  <2>6. QED
    BY <1>6, <2>2, <2>4, <2>5 DEF ContentInv, Grows
<1>9. QED
  BY <1>7, <1>8

LEMMA BodyInStep ==
  ASSUME ContentInv, NEW c \in Chans, OnBody(c)
  PROVE  ContentInv' /\ Grows(c)
<1> DEFINE n == Payload(feed[c].left)
           m == [incoming[c] EXCEPT !.received = @ + 1, !.bytes = @ + n, !.from = @ \cup {feed[c].of}]
           f == IF n = feed[c].left THEN None ELSE [feed[c] EXCEPT !.left = @ - n]
<1>1. /\ InStep(feed[c], incoming[c]) /\ feed[c].at = "body"
      /\ feed \in [Chans -> Feeds \cup {None}] /\ incoming \in [Chans -> Contents \cup {None}]
  BY DEF ContentInv, OnBody
<1>2. /\ feed[c] \in Feeds /\ feed[c].left > 0
      /\ incoming[c] \in Contents /\ incoming[c].at = "header" /\ Between(feed[c], incoming[c])
      /\ incoming[c].from \subseteq {incoming[c].of}
      /\ incoming[c].bytes + feed[c].left = incoming[c].size
      /\ incoming[c].expected = incoming[c].received + Expected(feed[c].left)
  BY <1>1 DEF InStep, None
<1>3. feed[c].left \in Nat /\ feed[c].of \in Nat
  BY <1>2 DEF Feeds
<1>4. n \in 1..feed[c].left /\ Expected(feed[c].left) = 1 + Expected(feed[c].left - n)
  BY <1>2, <1>3, ExpectedCounts DEF ContentInv
<1>5. Expected(feed[c].left - n) \in Nat /\ (feed[c].left = n <=> Expected(feed[c].left - n) = 0)
  <2>1. feed[c].left - n \in Nat
    BY <1>3, <1>4
  <2>2. QED
    <3> DEFINE rest == feed[c].left - n
    <3>1. rest \in Nat /\ (rest = 0 <=> feed[c].left = n)
      BY <1>3, <1>4, <2>1
    <3> HIDE DEF rest
    <3>2. Expected(rest) \in Nat /\ (rest = 0 <=> Expected(rest) = 0)
      BY <3>1, ExpectedCounts DEF ContentInv
    <3>3. QED
      BY <3>1, <3>2 DEF rest
<1>6. incoming[c] # None
  BY <1>2, NoneIsNone
<1>7. /\ feed' = [feed EXCEPT ![c] = f]
      /\ UNCHANGED <<frameMax, started, error>>
      /\ IF m.received = m.expected THEN PassOn(c, m)
         ELSE incoming' = [incoming EXCEPT ![c] = m] /\ UNCHANGED <<immediates, handled>>
      /\ arrived' = IF n = feed[c].left THEN arrived \cup {feed[c].of} ELSE arrived
  <2>1. ~(incoming[c] = None \/ incoming[c].at # "header")
    BY <1>2, <1>6
  <2>2. QED
    BY <2>1 DEF OnBody, Arrives
<1> HIDE DEF n
<1>8. /\ m \in Contents /\ m.at = "header" /\ m.of = incoming[c].of /\ m.size = incoming[c].size
      /\ m.expected = incoming[c].expected /\ m.received = incoming[c].received + 1
      /\ m.bytes = incoming[c].bytes + n /\ m.from = incoming[c].from \cup {feed[c].of}
  <2>1. incoming[c].from \cup {feed[c].of} \in SUBSET Nat
    BY <1>2, <1>3 DEF Contents
  <2>2. incoming[c].received + 1 \in Nat /\ incoming[c].bytes + n \in Nat
    BY <1>2, <1>4 DEF Contents
  <2>3. QED
    BY <1>2, <2>1, <2>2 DEF Contents
<1>9. m.from \subseteq {m.of} /\ m.size \in Nat /\ incoming[c].bytes \in Nat /\ incoming[c].received \in Nat
  BY <1>2, <1>8, FramingAssumption DEF Between, Contents
<1>10. CASE n = feed[c].left
  <2>1. m.received = m.expected /\ m.bytes = m.size
    BY <1>2, <1>4, <1>5, <1>8, <1>9, <1>10
  <2>2. m \in WholeOnes /\ PassOn(c, m) /\ f = None
    BY <1>7, <1>8, <1>9, <1>10, <2>1 DEF WholeOnes
  <2> HIDE DEF m, f
  <2>3. /\ immediates' \in Seq(WholeOnes) /\ handled' \in Seq(WholeOnes)
        /\ incoming' = [incoming EXCEPT ![c] = None]
    BY <2>2, PassedOn
  <2>4. /\ feed' \in [Chans -> Feeds \cup {None}] /\ incoming' \in [Chans -> Contents \cup {None}]
        /\ \A d \in Chans : InStep(feed'[d], incoming'[d])
    <3>1. InStep(f, None)
      BY <2>2 DEF InStep
    <3>2. QED
      BY <1>7, <2>2, <2>3, <3>1, OthersInStep
  <2>5. Completes(c)
    <3>1. m.of = feed[c].of
      BY <1>2, <1>8 DEF Between, m
    <3> QED BY <1>2, <1>7, <1>10, <2>2, <3>1 DEF Completes
  <2>6. QED
    BY <1>7, <2>3, <2>4, <2>5 DEF ContentInv, Grows
<1>11. CASE n # feed[c].left
  <2>1. /\ f \in Feeds /\ f.at = "body" /\ f.left = feed[c].left - n /\ f.left > 0
        /\ f.of = feed[c].of /\ f.size = feed[c].size
    BY <1>1, <1>2, <1>3, <1>4, <1>11 DEF Feeds
  <2>2. m.received # m.expected /\ m.bytes + f.left = m.size /\ m.expected = m.received + Expected(f.left)
    BY <1>2, <1>3, <1>4, <1>5, <1>8, <1>9, <1>11, <2>1
  <2>3. incoming' = [incoming EXCEPT ![c] = m] /\ UNCHANGED <<immediates, handled>>
    BY <1>7, <2>2
  <2>4. Between(f, m)
    BY <1>2, <1>8, <2>1 DEF Between
  <2> HIDE DEF m, f
  <2>5. InStep(f, m)
    BY <1>8, <1>9, <2>1, <2>2, <2>4 DEF InStep
  <2>6. /\ feed' \in [Chans -> Feeds \cup {None}] /\ incoming' \in [Chans -> Contents \cup {None}]
        /\ \A d \in Chans : InStep(feed'[d], incoming'[d])
    BY <1>7, <1>8, <2>1, <2>3, <2>5, OthersInStep
  <2>7. Proceeds(c)
    BY <1>2, <1>7, <1>11, <2>1, <2>3 DEF Proceeds
  <2>8. QED
    BY <1>7, <2>3, <2>6, <2>7 DEF ContentInv, Grows
<1>12. QED
  BY <1>10, <1>11

LEMMA PublishInStep ==
  ASSUME ContentInv, NEW size \in Outgoing, Publish(size)
  PROVE  ContentInv'
<1>1. \A n \in Range(Slices(size)) : ~(n > frameMax)
  <2> SUFFICES ASSUME NEW n \in Range(Slices(size))
               PROVE  ~(n > frameMax)
    OBVIOUS
  <2>1. size \in Nat
    BY FramingAssumption
  <2>2. n <= OptFrameMax /\ n \in Int
    <3>1. PICK i \in DOMAIN Slices(size) : n = Slices(size)[i]
      BY DEF Range
    <3>2. n = Least(size - (i - 1) * OptFrameMax, OptFrameMax) /\ i \in Int
      BY <3>1 DEF Slices
    <3>3. size - (i - 1) * OptFrameMax \in Int /\ OptFrameMax \in Nat
      BY <3>2, <2>1, FramingAssumption
    <3>4. QED
      BY <3>2, <3>3 DEF Least
  <2>3. QED
    BY <2>2, FramingAssumption DEF ContentInv
<1>2. error' = error
  BY <1>1 DEF Publish
<1>3. UNCHANGED <<frameMax, feed, incoming, immediates, handled, started>>
  BY DEF Publish
<1>4. QED
  BY <1>2, <1>3 DEF ContentInv

LEMMA HandleInStep == ContentInv /\ Handle => ContentInv'
<1> SUFFICES ASSUME ContentInv, Handle
             PROVE  ContentInv'
  OBVIOUS
<1>1. /\ immediates # <<>> /\ handled' = Append(handled, Head(immediates))
      /\ immediates' = Tail(immediates)
      /\ UNCHANGED <<frameMax, feed, incoming, started, error>>
  BY DEF Handle
<1>2. immediates \in Seq(WholeOnes) /\ handled \in Seq(WholeOnes)
  BY DEF ContentInv
<1>3. handled' \in Seq(WholeOnes)
  BY <1>1, <1>2
<1>4. immediates' \in Seq(WholeOnes)
  BY <1>1, <1>2
<1>5. QED
  BY <1>1, <1>3, <1>4 DEF ContentInv

LEMMA ContentNext == Agreed /\ ContentInv /\ [Next]_vars => ContentInv'
<1> SUFFICES ASSUME Agreed, ContentInv, [Next]_vars
             PROVE  ContentInv'
  OBVIOUS
<1>1. CASE UNCHANGED vars
  BY <1>1 DEF vars, content, ContentInv
<1>2. CASE Pulse
  BY <1>2 DEF Pulse, content, ContentInv
<1>3. CASE Lost
  BY <1>3 DEF Lost, content, ContentInv
<1>4. CASE Reconnect
  <2>1. \A f \in Offers : Negotiated(f) = OptFrameMax
    BY FramingAssumption DEF Agreed, Negotiated, Least
  <2>2. frameMax' = OptFrameMax /\ error' = "none" /\ UNCHANGED <<started, immediates, handled>>
    BY <1>4, <2>1 DEF Reconnect
  <2>3. feed' = [c \in Chans |-> None] /\ incoming' = [c \in Chans |-> None]
    BY <1>4 DEF Reconnect
  <2>4. QED
    BY <2>2, <2>3 DEF ContentInv, InStep
<1>5. QED
  BY <1>1, <1>2, <1>3, <1>4, BeginsInStep, MethodInStep, HeaderInStep, BodyInStep,
     PublishInStep, HandleInStep DEF Next

LEMMA ContentInvariant ==
  ASSUME Agreed
  PROVE  Spec => []ContentInv
<1>1. Init => ContentInv
  BY ContentInit
<1>2. ContentInv /\ [Next]_vars => ContentInv'
  BY ContentNext
<1>3. QED
  BY <1>1, <1>2, PTL DEF Spec

(* With brokers that leave the frame size to the client, the user is given *)
(* whole and unmixed contents only (the run truncated_body shows what      *)
(* happens with others).                                                   *)
THEOREM ContentsWhole ==
  ASSUME Agreed
  PROVE  Spec => []Whole
<1>1. ContentInv => Whole
  BY DEF ContentInv, Whole, WholeOnes, Range
<1>2. QED
  BY <1>1, ContentInvariant, PTL

(* And neither side ends the connection over a frame.                      *)
THEOREM FramesAccepted ==
  ASSUME Agreed
  PROVE  Spec => []NoFrameError
<1>1. ContentInv => NoFrameError
  BY DEF ContentInv, NoFrameError
<1>2. QED
  BY <1>1, ContentInvariant, PTL

-----------------------------------------------------------------------------
(* The order of contents, whatever the broker offers.                      *)

(* Deliveries and returns that a channel has passed on.                    *)
Passed(c) == {m \in Range(handled) \cup Range(immediates) : m.chan = c /\ m.kind # "get"}
Before(c, n) == \A m \in Passed(c) : m.of < n
After(a, b) == a.chan = b.chan /\ a.kind # "get" /\ b.kind # "get" => a.of < b.of
Sorted(s) == \A i, j \in DOMAIN s : i < j => After(s[i], s[j])

(* Nothing is older than what was passed on before it on its channel: the  *)
(* content that is put together, and the one that the broker begins.       *)
Latest(c) ==
  /\ feed[c].at # "none" => feed[c].of <= started
  /\ feed[c].at = "method" => Before(c, feed[c].of)
  /\ feed[c].at = "header" => incoming[c].at = "method"
  /\ incoming[c].at # "none" =>
       incoming[c].chan = c /\ incoming[c].of <= started /\ Before(c, incoming[c].of)

OrderTypes ==
  /\ frameMax \in Nat /\ frameMax > Overhead /\ started \in Nat
  /\ feed \in [Chans -> Feeds \cup {None}] /\ incoming \in [Chans -> Contents \cup {None}]
  /\ immediates \in Seq(Contents) /\ handled \in Seq(Contents)
InLine ==
  /\ Sorted(handled) /\ Sorted(immediates)
  /\ \A a \in Range(handled), b \in Range(immediates) : After(a, b)
  /\ \A c \in Chans : \A m \in Passed(c) : m.of <= started
OrderInv == OrderTypes /\ InLine /\ \A c \in Chans : Latest(c)

(* Adding a content to a sequence, and taking the first one from it.       *)
LEMMA Added ==
  ASSUME NEW s \in Seq(Contents), NEW m \in Contents
  PROVE  /\ Append(s, m) \in Seq(Contents)
         /\ Range(Append(s, m)) = Range(s) \cup {m}
         /\ Sorted(s) /\ (\A a \in Range(s) : After(a, m)) => Sorted(Append(s, m))
         /\ NoneTwice(s) /\ (\A a \in Range(s) : a.of # m.of) => NoneTwice(Append(s, m))
<1> DEFINE t == Append(s, m)
<1>1. /\ t \in Seq(Contents) /\ Len(s) \in Nat /\ DOMAIN s = 1..Len(s)
      /\ DOMAIN t = 1..(Len(s) + 1) /\ t[Len(s) + 1] = m
      /\ \A i \in 1..Len(s) : t[i] = s[i]
  OBVIOUS
<1> HIDE DEF t
<1>2. \A i \in DOMAIN t : (i = Len(s) + 1 /\ t[i] = m) \/ (i \in DOMAIN s /\ t[i] = s[i])
  BY <1>1
<1>3. Range(t) = Range(s) \cup {m}
  <2>1. Len(s) + 1 \in DOMAIN t /\ \A i \in DOMAIN s : i \in DOMAIN t
    BY <1>1
  <2> QED BY <1>1, <1>2, <2>1 DEF Range
<1>4. ASSUME Sorted(s), \A a \in Range(s) : After(a, m) PROVE Sorted(t)
  <2> SUFFICES ASSUME NEW i \in DOMAIN t, NEW j \in DOMAIN t, i < j PROVE After(t[i], t[j])
    BY DEF Sorted
  <2>1. i \in DOMAIN s /\ t[i] = s[i]
    BY <1>1
  <2>2. CASE j \in DOMAIN s
    BY <1>1, <1>4, <2>1, <2>2 DEF Sorted
  <2>3. CASE t[j] = m
    BY <1>4, <2>1, <2>3 DEF Range
  <2> QED BY <1>2, <2>2, <2>3
<1>5. ASSUME NoneTwice(s), \A a \in Range(s) : a.of # m.of PROVE NoneTwice(t)
  BY <1>1, <1>2, <1>5 DEF NoneTwice, Range
<1> QED BY <1>1, <1>3, <1>4, <1>5 DEF t

LEMMA FirstTaken ==
  ASSUME NEW s \in Seq(Contents), s # <<>>
  PROVE  /\ Head(s) \in Contents /\ Tail(s) \in Seq(Contents)
         /\ Range(s) = Range(Tail(s)) \cup {Head(s)}
         /\ Sorted(s) => Sorted(Tail(s)) /\ \A b \in Range(Tail(s)) : After(Head(s), b)
         /\ NoneTwice(s) => NoneTwice(Tail(s)) /\ \A b \in Range(Tail(s)) : b.of # Head(s).of
<1> DEFINE t == Tail(s)
<1>1. Len(s) \in Nat /\ Len(s) >= 1 /\ DOMAIN s = 1..Len(s) /\ s[1] \in Contents /\ Head(s) = s[1]
  OBVIOUS
<1>3. /\ t \in Seq(Contents) /\ DOMAIN t = 1..(Len(s) - 1)
      /\ \A i \in 1..(Len(s) - 1) : t[i] = s[i + 1]
  BY <1>1
<1> HIDE DEF t
<1>4. \A i \in DOMAIN s : i = 1 \/ (i - 1 \in DOMAIN t /\ s[i] = t[i - 1])
  BY <1>1, <1>3
<1>5. \A i \in DOMAIN t : i + 1 \in DOMAIN s /\ 1 < i + 1 /\ t[i] = s[i + 1]
  BY <1>1, <1>3
<1>6. Range(s) = Range(t) \cup {s[1]}
  BY <1>4, <1>5 DEF Range
<1>7. ASSUME Sorted(s) PROVE Sorted(t) /\ \A b \in Range(t) : After(s[1], b)
  <2>1. \A i, j \in DOMAIN t : i < j => i + 1 < j + 1
    BY <1>3
  <2> QED BY <1>5, <1>7, <2>1 DEF Sorted, Range
<1>8. ASSUME NoneTwice(s) PROVE NoneTwice(t) /\ \A b \in Range(t) : b.of # s[1].of
  <2>1. \A i, j \in DOMAIN t : i # j => i + 1 # j + 1
    BY <1>3
  <2>2. 1 \in DOMAIN s /\ \A i \in DOMAIN t : i + 1 # 1
    BY <1>1, <1>3
  <2> QED BY <1>5, <1>8, <2>1, <2>2 DEF NoneTwice, Range
<1> QED BY <1>1, <1>3, <1>6, <1>7, <1>8 DEF t

(* A content that is passed on goes to the end of the line.                *)
LEMMA PassedInLine ==
  ASSUME OrderInv, NEW c \in Chans, NEW m \in Contents, PassOn(c, m), UNCHANGED started,
         m.chan = c, m.of <= started, Before(c, m.of)
  PROVE  /\ immediates' \in Seq(Contents) /\ handled' \in Seq(Contents)
         /\ incoming' = [incoming EXCEPT ![c] = None]
         /\ InLine'
         /\ \A d \in Chans : d # c => Passed(d)' = Passed(d)
<1> USE DEF OrderInv, OrderTypes
<1>1. incoming' = [incoming EXCEPT ![c] = None]
  BY DEF PassOn, Cleared
<1>2. CASE m.kind = "get"
  <2>1. handled' = Append(handled, m) /\ immediates' = immediates
    BY <1>2 DEF PassOn
  <2>2. handled' \in Seq(Contents) /\ Range(handled') = Range(handled) \cup {m}
    BY <2>1, Added
  <2>3. \A a \in Contents : After(a, m) /\ After(m, a)
    BY <1>2 DEF After
  <2>4. Range(handled) \subseteq Contents /\ Range(immediates) \subseteq Contents
    BY DEF Range
  <2>5. Sorted(handled')
    BY <2>1, <2>3, <2>4, Added DEF InLine
  <2>6. \A d \in Chans : Passed(d)' = Passed(d)
    BY <1>2, <2>1, <2>2 DEF Passed
  <2>7. InLine'
    BY <2>1, <2>2, <2>3, <2>4, <2>5, <2>6 DEF InLine
  <2> QED BY <1>1, <2>1, <2>2, <2>6, <2>7
<1>3. CASE m.kind # "get"
  <2>1. immediates' = Append(immediates, m) /\ handled' = handled
    BY <1>3 DEF PassOn, Scheduled
  <2>2. immediates' \in Seq(Contents) /\ Range(immediates') = Range(immediates) \cup {m}
    BY <2>1, Added
  <2>3. \A a \in Range(handled) \cup Range(immediates) : After(a, m)
    BY DEF After, Before, Passed
  <2>4. Sorted(immediates')
    BY <2>1, <2>3, Added DEF InLine
  <2>5. \A d \in Chans : Passed(d)' = IF d = c THEN Passed(d) \cup {m} ELSE Passed(d)
    BY <1>3, <2>1, <2>2 DEF Passed
  <2>6. InLine'
    BY <2>1, <2>2, <2>3, <2>4, <2>5 DEF InLine
  <2> QED BY <1>1, <2>1, <2>2, <2>5, <2>6
<1> QED BY <1>2, <1>3

(* What the steps leave alone stays in line.                               *)
LEMMA Untroubled ==
  ASSUME OrderInv, UNCHANGED <<started, immediates, handled>>
  PROVE  InLine' /\ \A d \in Chans : Passed(d)' = Passed(d)
BY DEF OrderInv, InLine, Before, Passed

(* Channel c has taken a step, the others are as they were.                *)
Elsewhere(c) ==
  \A d \in Chans : d # c => /\ feed'[d] = feed[d] /\ incoming'[d] = incoming[d]
                            /\ Passed(d)' = Passed(d)

(* They keep to their own line.                                            *)
LEMMA OthersLatest ==
  ASSUME OrderInv, NEW c \in Chans, started' \in Nat, started <= started', Elsewhere(c)
  PROVE  \A d \in Chans : d # c => Latest(d)'
<1> SUFFICES ASSUME NEW d \in Chans, d # c PROVE Latest(d)'
  OBVIOUS
<1>1. feed'[d] = feed[d] /\ incoming'[d] = incoming[d] /\ Passed(d)' = Passed(d) /\ Latest(d)
  BY DEF Elsewhere, OrderInv
<1>2. /\ feed[d].at # "none" => feed[d].of \in Nat
      /\ incoming[d].at # "none" => incoming[d].of \in Nat
      /\ started \in Nat
  BY DEF OrderInv, OrderTypes, Feeds, Contents, None
<1> QED BY <1>1, <1>2 DEF Latest, Before

(* The broker's next content is newer than all there was.                  *)
LEMMA BeginsInLine ==
  ASSUME OrderInv, NEW c \in Chans, NEW kind \in Kinds, NEW size \in Incoming,
         Begin(c, kind, size)
  PROVE  OrderInv'
<1> USE DEF OrderInv, OrderTypes
<1> DEFINE f == [at |-> "method", of |-> started + 1, kind |-> kind, size |-> size, left |-> size]
<1>1. /\ feed' = [feed EXCEPT ![c] = f] /\ started' = started + 1
      /\ UNCHANGED <<frameMax, incoming, immediates, handled>>
  BY DEF Begin
<1>2. f \in Feeds /\ f.at = "method" /\ f.of = started + 1
  BY FramingAssumption DEF Feeds
<1> HIDE DEF f
<1>3. \A d \in Chans : Passed(d)' = Passed(d) /\ Passed(d) \subseteq Contents
  BY <1>1 DEF Passed, Range
<1>4. \A d \in Chans : \A m \in Passed(d) : m.of <= started'
  BY <1>1, <1>3 DEF InLine, Contents
<1>5. InLine'
  BY <1>1, <1>3, <1>4 DEF InLine
<1>6. feed'[c] = f /\ incoming'[c] = incoming[c]
  BY <1>1
<1>7. incoming[c].at # "none" => incoming[c].of \in Nat
  BY DEF Contents, None
<1>8. Latest(c)'
  <2>1. \A m \in Passed(c) : m.of < f.of
    BY <1>2, <1>3 DEF InLine, Contents
  <2>2. incoming'[c].at # "none" =>
          /\ incoming'[c].chan = c /\ incoming'[c].of <= started'
          /\ \A m \in Passed(c)' : m.of < incoming'[c].of
    BY <1>1, <1>3, <1>6, <1>7 DEF Latest, Before
  <2>3. /\ feed'[c].at = "method" /\ feed'[c].of <= started'
        /\ \A m \in Passed(c)' : m.of < feed'[c].of
    BY <1>1, <1>2, <1>3, <1>6, <2>1
  <2> QED BY <2>2, <2>3 DEF Latest, Before
<1>9. Elsewhere(c) /\ started' \in Nat /\ started <= started'
  BY <1>1, <1>3 DEF Elsewhere
<1>10. feed' \in [Chans -> Feeds \cup {None}]
  BY <1>1, <1>2
<1> QED BY <1>1, <1>5, <1>8, <1>9, <1>10, OthersLatest

(* The channel starts to put together what the broker has begun.           *)
LEMMA MethodInLine == ASSUME OrderInv, NEW c \in Chans, OnMethod(c) PROVE OrderInv'
<1> USE DEF OrderInv, OrderTypes
<1>1. UNCHANGED <<frameMax, immediates, handled, started>>
  BY DEF OnMethod
<1>2. InLine' /\ \A d \in Chans : Passed(d)' = Passed(d)
  BY <1>1, Untroubled
<1>3. feed[c] \in Feeds /\ feed[c].at = "method"
  BY DEF OnMethod, None
<1>4. CASE incoming[c] # None
  <2>1. UNCHANGED <<feed, incoming>>
    BY <1>4 DEF OnMethod
  <2> QED BY <1>1, <1>2, <2>1 DEF Latest, Before
<1>5. CASE incoming[c] = None
  <2> DEFINE m == [at |-> "method", chan |-> c, of |-> feed[c].of, kind |-> feed[c].kind,
                   size |-> feed[c].size, expected |-> 0, received |-> 0, bytes |-> 0,
                   from |-> {}]
             f == [feed[c] EXCEPT !.at = "header"]
  <2>1. incoming' = [incoming EXCEPT ![c] = m] /\ feed' = [feed EXCEPT ![c] = f]
    BY <1>5 DEF OnMethod
  <2>2. m \in Contents /\ m.at = "method" /\ m.chan = c /\ m.of = feed[c].of
    BY <1>3 DEF Contents, Feeds
  <2>3. f \in Feeds /\ f.at = "header" /\ f.of = feed[c].of
    BY <1>3 DEF Feeds
  <2> HIDE DEF m, f
  <2>4. feed'[c] = f /\ incoming'[c] = m
    BY <2>1
  <2>5. Latest(c)'
    BY <1>1, <1>2, <1>3, <2>2, <2>3, <2>4 DEF Latest, Before
  <2>6. Elsewhere(c) /\ started' \in Nat /\ started <= started'
    BY <1>1, <1>2, <2>1 DEF Elsewhere
  <2>7. /\ feed' \in [Chans -> Feeds \cup {None}]
        /\ incoming' \in [Chans -> Contents \cup {None}]
    BY <2>1, <2>2, <2>3
  <2> QED BY <1>1, <1>2, <2>5, <2>6, <2>7, OthersLatest
<1> QED BY <1>4, <1>5

(* A header or a body frame either completes the content or adds to it.    *)
LEMMA GrownInLine ==
  ASSUME OrderInv, NEW c \in Chans, NEW m \in Contents, NEW f \in Feeds \cup {None},
         incoming[c] # None, m.at # "none", m.chan = incoming[c].chan, m.of = incoming[c].of,
         feed[c].at # "none",
         f # None => f.at = "body" /\ f.of = feed[c].of,
         feed' = [feed EXCEPT ![c] = f],
         PassOn(c, m) \/ (incoming' = [incoming EXCEPT ![c] = m] /\ UNCHANGED <<immediates, handled>>),
         UNCHANGED <<frameMax, started>>
  PROVE  OrderInv'
<1> USE DEF OrderInv, OrderTypes
<1>1. incoming[c] \in Contents /\ incoming[c].at # "none"
  BY DEF Contents
<1>2. m.chan = c /\ m.of <= started /\ Before(c, m.of)
  BY <1>1 DEF Latest
<1>3. feed'[c] = f /\ f.at # "method" /\ f.at # "header" /\ (f.at # "none" => f.of <= started)
  BY DEF Latest, None
<1>4. CASE PassOn(c, m)
  <2>1. /\ immediates' \in Seq(Contents) /\ handled' \in Seq(Contents)
        /\ incoming' = [incoming EXCEPT ![c] = None]
        /\ InLine'
        /\ \A d \in Chans : d # c => Passed(d)' = Passed(d)
    BY <1>2, <1>4, PassedInLine
  <2>2. incoming'[c] = None
    BY <2>1
  <2>3. Latest(c)'
    BY <1>3, <2>2 DEF Latest, None
  <2>4. Elsewhere(c) /\ started' \in Nat /\ started <= started'
    BY <2>1 DEF Elsewhere
  <2>5. /\ feed' \in [Chans -> Feeds \cup {None}]
        /\ incoming' \in [Chans -> Contents \cup {None}]
    BY <2>1
  <2> QED BY <2>1, <2>3, <2>4, <2>5, OthersLatest
<1>5. CASE incoming' = [incoming EXCEPT ![c] = m] /\ UNCHANGED <<immediates, handled>>
  <2>1. InLine' /\ \A d \in Chans : Passed(d)' = Passed(d)
    BY <1>5, Untroubled
  <2>2. incoming'[c] = m
    BY <1>5
  <2>3. Latest(c)'
    BY <1>2, <1>3, <2>1, <2>2 DEF Latest, Before
  <2>4. Elsewhere(c) /\ started' \in Nat /\ started <= started'
    BY <1>5, <2>1 DEF Elsewhere
  <2>5. /\ feed' \in [Chans -> Feeds \cup {None}]
        /\ incoming' \in [Chans -> Contents \cup {None}]
    BY <1>5
  <2> QED BY <1>5, <2>1, <2>3, <2>4, <2>5, OthersLatest
<1> QED BY <1>4, <1>5

(* Neither a header nor a body frame changes whose content it is.          *)
LEMMA HeaderInLine == ASSUME OrderInv, NEW c \in Chans, OnHeader(c) PROVE OrderInv'
<1> USE DEF OrderInv, OrderTypes
<1> DEFINE m == [incoming[c] EXCEPT !.at = "header", !.expected = Expected(feed[c].size)]
           f == IF feed[c].size = 0 THEN None ELSE [feed[c] EXCEPT !.at = "body"]
<1>0. feed[c].at = "header" /\ incoming[c].at = "method" /\ incoming[c] # None
  BY DEF OnHeader, Latest, None
<1>1. /\ feed[c] \in Feeds /\ feed[c].at = "header" /\ feed' = [feed EXCEPT ![c] = f]
      /\ PassOn(c, m) \/ (incoming' = [incoming EXCEPT ![c] = m] /\ UNCHANGED <<immediates, handled>>)
      /\ UNCHANGED <<frameMax, started>>
  BY <1>0 DEF OnHeader, None
<1>2. incoming[c] # None /\ incoming[c] \in Contents
  BY <1>0
<1>3. Expected(feed[c].size) \in Nat
  BY <1>1, ExpectedNat, FramingAssumption DEF Feeds
<1>4. m \in Contents /\ m.at = "header" /\ m.chan = incoming[c].chan /\ m.of = incoming[c].of
  BY <1>2, <1>3 DEF Contents
<1>5. f \in Feeds \cup {None} /\ (f # None => f.at = "body" /\ f.of = feed[c].of)
  BY <1>1 DEF Feeds
<1> HIDE DEF m, f
<1> QED BY <1>1, <1>2, <1>4, <1>5, GrownInLine

(* A body frame nobody waits for ends the socket and passes nothing on.    *)
LEMMA BodyInLine == ASSUME OrderInv, NEW c \in Chans, OnBody(c) PROVE OrderInv'
<1> USE DEF OrderInv, OrderTypes
<1> DEFINE n == Payload(feed[c].left)
           m == [incoming[c] EXCEPT !.received = @ + 1, !.bytes = @ + n, !.from = @ \cup {feed[c].of}]
           f == IF n = feed[c].left THEN None ELSE [feed[c] EXCEPT !.left = @ - n]
<1>1. /\ feed[c] \in Feeds /\ feed[c].at = "body" /\ feed' = [feed EXCEPT ![c] = f]
      /\ UNCHANGED <<frameMax, started>>
  BY DEF OnBody, None
<1>2. feed[c].left \in Nat /\ feed[c].of \in Nat /\ n \in 0..feed[c].left
  BY <1>1 DEF Feeds, Payload, Least, Overhead
<1>3. f \in Feeds \cup {None} /\ (f # None => f.at = "body" /\ f.of = feed[c].of)
  <2>1. CASE n = feed[c].left
    BY <2>1
  <2>2. CASE n # feed[c].left
    <3>1. feed[c].left - n \in Nat
      BY <1>2
    <3> HIDE DEF n
    <3> QED BY <1>1, <2>2, <3>1 DEF Feeds
  <2> QED BY <2>1, <2>2
<1>4. CASE incoming[c] = None \/ incoming[c].at # "header"
  <2>1. UNCHANGED <<incoming, immediates, handled>>
    BY <1>4 DEF OnBody
  <2>2. InLine' /\ \A d \in Chans : Passed(d)' = Passed(d)
    BY <1>1, <2>1, Untroubled
  <2> HIDE DEF f
  <2>3. feed'[c] = f /\ f.at # "method" /\ f.at # "header" /\ (f.at # "none" => f.of <= started)
    BY <1>1, <1>3 DEF Latest, None
  <2>4. Latest(c)'
    BY <1>1, <2>1, <2>2, <2>3 DEF Latest, Before
  <2>5. Elsewhere(c) /\ started' \in Nat /\ started <= started'
    BY <1>1, <2>1, <2>2 DEF Elsewhere
  <2>6. feed' \in [Chans -> Feeds \cup {None}]
    BY <1>1, <1>3
  <2> QED BY <1>1, <2>1, <2>2, <2>4, <2>5, <2>6, OthersLatest
<1>5. CASE incoming[c] # None /\ incoming[c].at = "header"
  <2>1. PassOn(c, m) \/ (incoming' = [incoming EXCEPT ![c] = m] /\ UNCHANGED <<immediates, handled>>)
    BY <1>5 DEF OnBody
  <2>2. incoming[c] \in Contents
    BY <1>5
  <2>3. m \in Contents /\ m.at = "header" /\ m.chan = incoming[c].chan /\ m.of = incoming[c].of
    <3>1. /\ incoming[c].received + 1 \in Nat /\ incoming[c].bytes + n \in Nat
          /\ incoming[c].from \cup {feed[c].of} \in SUBSET Nat
      BY <1>2, <2>2 DEF Contents
    <3> HIDE DEF n
    <3> QED BY <1>5, <2>2, <3>1 DEF Contents
  <2> HIDE DEF m, f
  <2> QED BY <1>1, <1>3, <1>5, <2>1, <2>3, GrownInLine
<1> QED BY <1>4, <1>5

(* The first of the immediates comes after all that was handled.           *)
LEMMA HandleInLine == ASSUME OrderInv, Handle PROVE OrderInv'
<1> USE DEF OrderInv, OrderTypes
<1>1. /\ immediates # <<>> /\ handled' = Append(handled, Head(immediates))
      /\ immediates' = Tail(immediates)
      /\ UNCHANGED <<frameMax, feed, incoming, started>>
  BY DEF Handle
<1>2. /\ Head(immediates) \in Contents /\ immediates' \in Seq(Contents)
      /\ Range(immediates) = Range(immediates') \cup {Head(immediates)}
      /\ Sorted(immediates') /\ \A b \in Range(immediates') : After(Head(immediates), b)
  BY <1>1, FirstTaken DEF InLine
<1>3. /\ handled' \in Seq(Contents) /\ Range(handled') = Range(handled) \cup {Head(immediates)}
      /\ Sorted(handled')
  BY <1>1, <1>2, Added DEF InLine
<1>4. \A d \in Chans : Passed(d)' = Passed(d)
  BY <1>2, <1>3 DEF Passed
<1>5. InLine'
  BY <1>1, <1>2, <1>3, <1>4 DEF InLine
<1>6. \A d \in Chans : Latest(d)'
  BY <1>1, <1>4 DEF Latest, Before
<1> QED BY <1>1, <1>2, <1>3, <1>5, <1>6

(* What is agreed on leaves room for a payload.                            *)
LEMMA RoomForPayload == \A f \in Offers : Negotiated(f) \in Nat /\ Negotiated(f) > Overhead
BY FramingAssumption DEF Negotiated, Least, Overhead

(* Every other step leaves the contents alone, or forgets them all.        *)
LEMMA OrderStep == ASSUME OrderInv, [Next]_vars PROVE OrderInv'
<1> DEFINE Same == UNCHANGED <<frameMax, started, feed, incoming, immediates, handled>>
<1>1. ASSUME Same PROVE OrderInv'
  <2>1. InLine' /\ \A d \in Chans : Passed(d)' = Passed(d)
    BY <1>1, Untroubled
  <2>2. \A d \in Chans : Latest(d)'
    BY <1>1, <2>1 DEF OrderInv, Latest, Before
  <2> QED BY <1>1, <2>1, <2>2 DEF OrderInv, OrderTypes
<1>2. CASE UNCHANGED vars
  BY <1>1, <1>2 DEF vars, content
<1>3. CASE Pulse
  BY <1>1, <1>3 DEF Pulse, content
<1>4. CASE Lost
  BY <1>1, <1>4 DEF Lost, content
<1>5. ASSUME NEW size \in Outgoing, Publish(size) PROVE OrderInv'
  BY <1>1, <1>5 DEF Publish
<1>6. CASE Reconnect
  <2>1. frameMax' \in Nat /\ frameMax' > Overhead /\ UNCHANGED <<started, immediates, handled>>
    BY <1>6, RoomForPayload DEF Reconnect
  <2>2. feed' = [c \in Chans |-> None] /\ incoming' = [c \in Chans |-> None]
    BY <1>6 DEF Reconnect
  <2>3. InLine'
    BY <2>1, Untroubled
  <2>4. \A d \in Chans : Latest(d)'
    BY <2>2 DEF Latest, None
  <2> QED BY <2>1, <2>2, <2>3, <2>4 DEF OrderInv, OrderTypes
<1> QED
  BY <1>2, <1>3, <1>4, <1>5, <1>6, BeginsInLine, MethodInLine, HeaderInLine, BodyInLine,
     HandleInLine DEF Next

(* At first there is no content.                                           *)
LEMMA OrderInit == ASSUME Init PROVE OrderInv
<1>1. OrderTypes
  BY RoomForPayload DEF Init, OrderTypes
<1>2. Range(handled) = {} /\ Range(immediates) = {} /\ Sorted(handled) /\ Sorted(immediates)
  BY DEF Init, Range, Sorted
<1>3. InLine
  BY <1>2 DEF InLine, Before, Passed
<1>4. \A c \in Chans : Latest(c)
  BY DEF Init, Latest, None
<1> QED BY <1>1, <1>3, <1>4 DEF OrderInv

(* Deliveries and returns of a channel reach the user in the order the     *)
(* broker sent them, whatever frame size it offers, and however contents   *)
(* of other channels and lost sockets come between (Channel.ts 342-403).   *)
THEOREM SentOrderKept == Spec => []InSentOrder
<1>1. Init => OrderInv
  BY OrderInit
<1>2. OrderInv /\ [Next]_vars => OrderInv'
  BY OrderStep
<1>3. OrderInv => InSentOrder
  BY DEF OrderInv, InLine, Sorted, After, InSentOrder
<1> QED BY <1>1, <1>2, <1>3, PTL DEF Spec

-----------------------------------------------------------------------------
(* The number of contents, with brokers that leave the frame size to the   *)
(* client.                                                                 *)

(* What the broker is sending has not arrived, and goes to one channel.    *)
Sending(c) == feed[c] # None
CountInv ==
  /\ EachOnce
  /\ \A n \in arrived : n <= started
  /\ \A c \in Chans : Sending(c) => feed[c].of <= started /\ feed[c].of \notin arrived
  /\ \A c, d \in Chans : Sending(c) /\ Sending(d) /\ feed[c].of = feed[d].of => c = d

(* A content that is passed on when its last frame has arrived is counted. *)
LEMMA PassedCounts ==
  ASSUME ContentInv, OrderInv, EachOnce, NEW c \in Chans, NEW m \in Contents, PassOn(c, m),
         m.of \notin arrived, arrived' = arrived \cup {m.of}
  PROVE  EachOnce'
<1>0. immediates \in Seq(Contents) /\ handled \in Seq(Contents)
  BY DEF OrderInv, OrderTypes
<1>1. \A a \in Range(handled) \cup Range(immediates) : a.of # m.of
  BY DEF EachOnce
<1>2. CASE m.kind = "get"
  <2>1. handled' = Append(handled, m) /\ immediates' = immediates
    BY <1>2 DEF PassOn
  <2>2. Range(handled') = Range(handled) \cup {m} /\ NoneTwice(handled')
    BY <1>0, <1>1, <2>1, Added DEF EachOnce
  <2> QED BY <1>1, <2>1, <2>2 DEF EachOnce
<1>3. CASE m.kind # "get"
  <2>1. immediates' = Append(immediates, m) /\ handled' = handled
    BY <1>3 DEF PassOn, Scheduled
  <2>2. Range(immediates') = Range(immediates) \cup {m} /\ NoneTwice(immediates')
    BY <1>0, <1>1, <2>1, Added DEF EachOnce
  <2> QED BY <1>1, <2>1, <2>2 DEF EachOnce
<1> QED BY <1>2, <1>3

(* A content that is completed leaves the feed, another one stays in it.   *)
LEMMA GrowsCounts ==
  ASSUME ContentInv, OrderInv, CountInv, NEW c \in Chans, Grows(c)
  PROVE  CountInv'
<1>1. feed \in [Chans -> Feeds \cup {None}] /\ started' = started
  BY DEF ContentInv, Grows
<1>2. CASE Completes(c)
  <2>1. PICK m \in WholeOnes : m.of = feed[c].of /\ PassOn(c, m)
    BY <1>2 DEF Completes
  <2>2. /\ feed[c] # None /\ feed' = [feed EXCEPT ![c] = None]
        /\ arrived' = arrived \cup {feed[c].of} /\ m \in Contents
    BY <1>2, <2>1, NoneIsNone DEF Completes, WholeOnes
  <2>3. feed[c].of <= started /\ feed[c].of \notin arrived
    BY <2>2 DEF CountInv, Sending
  <2>4. EachOnce'
    BY <2>1, <2>2, <2>3, PassedCounts DEF CountInv
  <2>5. \A d \in Chans : Sending(d)' => d # c /\ feed'[d] = feed[d] /\ Sending(d)
    BY <1>1, <2>2 DEF Sending
  <2>6. \A d \in Chans : Sending(d)' => feed[d].of # feed[c].of
    BY <2>2, <2>5 DEF CountInv, Sending
  <2>7. \A d \in Chans : Sending(d)' => feed'[d].of <= started' /\ feed'[d].of \notin arrived'
    BY <1>1, <2>2, <2>5, <2>6 DEF CountInv
  <2>8. \A n \in arrived' : n <= started'
    BY <1>1, <2>2, <2>3 DEF CountInv
  <2>9. \A d, e \in Chans : Sending(d)' /\ Sending(e)' /\ feed'[d].of = feed'[e].of => d = e
    BY <2>5 DEF CountInv
  <2> QED BY <2>4, <2>7, <2>8, <2>9 DEF CountInv
<1>3. CASE Proceeds(c)
  <2>1. PICK f \in Feeds : f.of = feed[c].of /\ feed' = [feed EXCEPT ![c] = f]
    BY <1>3 DEF Proceeds
  <2>2. UNCHANGED <<arrived, immediates, handled>> /\ feed[c] # None
    BY <1>3, NoneIsNone DEF Proceeds
  <2>3. \A d \in Chans : Sending(d)' => Sending(d) /\ feed'[d].of = feed[d].of
    BY <1>1, <2>1, <2>2 DEF Sending
  <2> QED BY <1>1, <2>2, <2>3 DEF CountInv, EachOnce, NoneTwice
<1> QED BY <1>2, <1>3 DEF Grows

(* A content that begins has a number of its own.                          *)
LEMMA BeginCounts ==
  ASSUME ContentInv, CountInv, NEW c \in Chans, NEW kind \in Kinds, NEW size \in Incoming,
         Begin(c, kind, size)
  PROVE  CountInv'
<1> DEFINE f == [at |-> "method", of |-> started + 1, kind |-> kind, size |-> size, left |-> size]
<1>1. /\ feed' = [feed EXCEPT ![c] = f] /\ started' = started + 1
      /\ UNCHANGED <<arrived, immediates, handled>>
  BY DEF Begin
<1>2. f.of = started + 1
  OBVIOUS
<1> HIDE DEF f
<1>3. /\ feed \in [Chans -> Feeds \cup {None}] /\ started \in Nat
      /\ \A m \in Range(handled) \cup Range(immediates) : m.of \in Nat
  BY DEF ContentInv, WholeOnes, Contents, Range
<1>4. arrived \subseteq Nat
  BY <1>3 DEF CountInv, EachOnce
<1>5. \A d \in Chans : d # c /\ Sending(d)' => Sending(d) /\ feed'[d] = feed[d] /\ feed[d].of \in Nat
  BY <1>1, <1>3 DEF Sending, Feeds
<1>6. feed'[c].of = started + 1
  BY <1>1, <1>2, <1>3
<1>7. \A n \in arrived : n <= started' /\ n # started + 1
  BY <1>1, <1>3, <1>4 DEF CountInv
<1>8. \A d \in Chans : d # c /\ Sending(d)' => feed'[d].of <= started' /\ feed'[d].of # started + 1
  BY <1>1, <1>3, <1>5 DEF CountInv
<1>9. \A d \in Chans : Sending(d)' => feed'[d].of <= started' /\ feed'[d].of \notin arrived
  BY <1>1, <1>3, <1>5, <1>6, <1>7, <1>8 DEF CountInv
<1>10. \A d, e \in Chans : Sending(d)' /\ Sending(e)' /\ feed'[d].of = feed'[e].of => d = e
  BY <1>5, <1>6, <1>8 DEF CountInv
<1> QED BY <1>1, <1>7, <1>9, <1>10 DEF CountInv, EachOnce, NoneTwice

(* The first of the immediates changes its place.                          *)
LEMMA HandleCounts == ASSUME OrderInv, CountInv, Handle PROVE CountInv'
<1>0. immediates \in Seq(Contents) /\ handled \in Seq(Contents)
  BY DEF OrderInv, OrderTypes
<1>1. /\ immediates # <<>> /\ handled' = Append(handled, Head(immediates))
      /\ immediates' = Tail(immediates)
      /\ UNCHANGED <<feed, started, arrived>>
  BY DEF Handle
<1>2. /\ Head(immediates) \in Contents
      /\ Range(immediates) = Range(immediates') \cup {Head(immediates)}
      /\ NoneTwice(immediates')
      /\ \A b \in Range(immediates') : b.of # Head(immediates).of
  BY <1>0, <1>1, FirstTaken DEF CountInv, EachOnce
<1>3. \A a \in Range(handled) : a.of # Head(immediates).of
  BY <1>2 DEF CountInv, EachOnce
<1>4. Range(handled') = Range(handled) \cup {Head(immediates)} /\ NoneTwice(handled')
  BY <1>0, <1>1, <1>2, <1>3, Added DEF CountInv, EachOnce
<1>5. EachOnce'
  <2>1. {m.of : m \in Range(handled') \cup Range(immediates')} = arrived'
    BY <1>1, <1>2, <1>4 DEF CountInv, EachOnce
  <2>2. \A a \in Range(handled'), b \in Range(immediates') : a.of # b.of
    BY <1>2, <1>4 DEF CountInv, EachOnce
  <2> QED BY <1>2, <1>4, <2>1, <2>2 DEF EachOnce
<1> QED BY <1>1, <1>5 DEF CountInv, Sending

LEMMA CountStep == ASSUME ContentInv, OrderInv, CountInv, [Next]_vars PROVE CountInv'
<1>1. ASSUME UNCHANGED <<feed, started, arrived, immediates, handled>> PROVE CountInv'
  BY <1>1 DEF CountInv, EachOnce, NoneTwice, Sending
<1>2. CASE UNCHANGED vars
  BY <1>1, <1>2 DEF vars, content
<1>3. CASE Pulse
  BY <1>1, <1>3 DEF Pulse, content
<1>4. CASE Lost
  BY <1>1, <1>4 DEF Lost, content
<1>5. ASSUME NEW size \in Outgoing, Publish(size) PROVE CountInv'
  BY <1>1, <1>5 DEF Publish
<1>6. CASE Reconnect
  <2>1. UNCHANGED <<started, arrived, immediates, handled>> /\ feed' = [c \in Chans |-> None]
    BY <1>6 DEF Reconnect
  <2> QED BY <2>1 DEF CountInv, EachOnce, NoneTwice, Sending
<1>7. ASSUME NEW c \in Chans, OnMethod(c) PROVE CountInv'
  <2>1. UNCHANGED <<started, arrived, immediates, handled>>
    BY <1>7 DEF OnMethod
  <2>2. feed[c] # None /\ feed \in [Chans -> Feeds \cup {None}]
    BY <1>7 DEF OnMethod, ContentInv, None
  <2>3. \A d \in Chans : Sending(d)' => Sending(d) /\ feed'[d].of = feed[d].of
    <3>1. CASE incoming[c] # None
      BY <1>7, <3>1 DEF OnMethod, Sending
    <3>2. CASE incoming[c] = None
      <4> DEFINE f == [feed[c] EXCEPT !.at = "header"]
      <4>1. feed' = [feed EXCEPT ![c] = f]
        BY <1>7, <3>2 DEF OnMethod
      <4>2. f.of = feed[c].of
        BY <2>2 DEF Feeds
      <4> HIDE DEF f
      <4> QED BY <2>2, <4>1, <4>2 DEF Sending
    <3> QED BY <3>1, <3>2
  <2> QED BY <2>1, <2>3 DEF CountInv, EachOnce, NoneTwice
<1>8. ASSUME NEW c \in Chans, OnHeader(c) \/ OnBody(c) PROVE CountInv'
  BY <1>8, HeaderInStep, BodyInStep, GrowsCounts
<1> QED
  BY <1>2, <1>3, <1>4, <1>5, <1>6, <1>7, <1>8, BeginCounts, HandleCounts DEF Next

(* With brokers that leave the frame size to the client, order and number  *)
(* of the contents are the broker's: every content that has arrived is     *)
(* given to the user once, in its order (Channel.ts 342-403).              *)
THEOREM HandledInOrder == ASSUME Agreed PROVE Spec => []InOrder
<1>1. Init => OrderInv /\ CountInv
  BY OrderInit DEF Init, CountInv, EachOnce, NoneTwice, Range, Sending
<1>2. ContentInv /\ OrderInv /\ CountInv /\ [Next]_vars => (OrderInv /\ CountInv)'
  BY OrderStep, CountStep
<1>3. CountInv => EachOnce
  BY DEF CountInv
<1> QED BY <1>1, <1>2, <1>3, ContentInvariant, SentOrderKept, PTL DEF Spec, InOrder
-----------------------------------------------------------------------------
(* Bodies that are cut, and the form of what is on its way.                *)

(* A set of natural numbers has a least element.                           *)
LEMMA LeastOf ==
  ASSUME NEW T \in SUBSET Nat, T # {}
  PROVE  \E n \in T : \A m \in T : n <= m
<1>1. \E n \in T : \A m \in T : ~(<<m, n>> \in OpToRel(<, Nat))
  BY NatLessThanWellFounded, WFMin, Zenon
<1>2. PICK n \in T : \A m \in T : ~(<<m, n>> \in OpToRel(<, Nat))
  BY <1>1
<1>3. \A m \in T : ~(m < n)
  BY <1>2 DEF OpToRel
<1> QED BY <1>3

(* The sum of a sequence is what any function that satisfies its recursion *)
(* says: the two cannot differ at a least place.                           *)
LEMMA TotalIs ==
  ASSUME NEW s \in Seq(Nat), NEW g, g = [n \in 0..Len(s) |-> IF n = 0 THEN 0 ELSE g[n - 1] + s[n]]
  PROVE  Total(s) = g[Len(s)]
<1> DEFINE Sums(h) == h = [n \in 0..Len(s) |-> IF n = 0 THEN 0 ELSE h[n - 1] + s[n]]
           up == CHOOSE h : Sums(h)
<1>1. Sums(up)
  <2>1. Sums(g)
    OBVIOUS
  <2> HIDE DEF Sums
  <2> QED BY <2>1
<1>2. Total(s) = up[Len(s)]
  BY DEF Total
<1> HIDE DEF up
<1>3. Len(s) \in Nat
  OBVIOUS
<1>4. ASSUME up[Len(s)] # g[Len(s)] PROVE FALSE
  <2> DEFINE T == {n \in 0..Len(s) : up[n] # g[n]}
  <2>1. T \in SUBSET Nat /\ T # {}
    <3>1. Len(s) \in T
      BY <1>3, <1>4
    <3>2. \A n \in T : n \in Nat
      BY <1>3
    <3> HIDE DEF T
    <3> QED BY <3>1, <3>2
  <2>2. PICK n \in T : \A m \in T : n <= m
    BY <2>1, LeastOf
  <2>3. n # 0
    BY <1>1
  <2>4. n - 1 \in 0..Len(s) /\ n - 1 \notin T
    BY <2>1, <2>2, <2>3, <1>3
  <2>5. up[n - 1] = g[n - 1]
    BY <2>4
  <2>6. up[n] = up[n - 1] + s[n] /\ g[n] = g[n - 1] + s[n]
    BY <1>1, <2>2, <2>3
  <2> QED BY <2>2, <2>5, <2>6
<1> QED BY <1>2, <1>4

(* The payloads of a body of any size: up to the n-th they are the first   *)
(* n * frameMax bytes of it, or all (codec.ts 834-842).                    *)
LEMMA SlicesWhole ==
  ASSUME NEW size \in Nat
  PROVE  /\ Slices(size) \in Seq(Nat) /\ Total(Slices(size)) = size
         /\ \A n \in Range(Slices(size)) : n \in 1..OptFrameMax
<1> DEFINE k == OptFrameMax
           s == Slices(size)
           N == ContentFrames(size)
           g == [n \in 0..N |-> Least(n * k, size)]
<1>1. k \in Nat /\ k > 0
  BY FramingAssumption
<1>2. N \in Nat /\ N * k >= size /\ \A n \in 1..N : (n - 1) * k < size
  BY <1>1, Multiples DEF ContentFrames
<1> HIDE DEF N
<1>3. s = [i \in 1..N |-> Least(size - (i - 1) * k, k)]
  BY DEF Slices, N
<1>4. ASSUME NEW i \in 1..N PROVE s[i] \in 1..k
  <2>1. (i - 1) * k \in Nat /\ (i - 1) * k < size
    BY <1>1, <1>2
  <2> QED BY <1>1, <1>3, <2>1 DEF Least
<1> HIDE DEF s, k
<1>5. s \in Seq(Nat) /\ Len(s) = N
  <2>1. \A i \in 1..N : s[i] \in Nat
    BY <1>1, <1>4
  <2>2. s \in [1..N -> Nat]
    BY <1>3, <2>1
  <2> QED BY <1>2, <2>2
<1>6. ASSUME NEW n \in 0..N PROVE g[n] = IF n = 0 THEN 0 ELSE g[n - 1] + s[n]
  <2>1. CASE n = 0
    BY <1>1, <2>1 DEF Least
  <2>2. CASE n # 0
    <3>1. n - 1 \in 0..N /\ n \in 1..N
      BY <1>2, <2>2
    <3>2. (n - 1) * k \in Nat /\ n * k = (n - 1) * k + k /\ (n - 1) * k < size
      BY <1>1, <1>2, <3>1
    <3>3. g[n] = Least(n * k, size) /\ g[n - 1] = Least((n - 1) * k, size)
      BY <3>1
    <3>4. s[n] = Least(size - (n - 1) * k, k)
      BY <1>3, <3>1
    <3> QED BY <1>1, <2>2, <3>2, <3>3, <3>4 DEF Least
  <2> QED BY <2>1, <2>2
<1>7. g = [n \in 0..Len(s) |-> IF n = 0 THEN 0 ELSE g[n - 1] + s[n]]
  BY <1>5, <1>6
<1>8. Total(s) = g[N]
  <2> HIDE DEF g
  <2> QED BY <1>5, <1>7, TotalIs
<1>9. g[N] = size
  BY <1>1, <1>2 DEF Least
<1>10. \A n \in Range(s) : n \in 1..k
  BY <1>3, <1>4 DEF Range
<1> QED BY <1>5, <1>8, <1>9, <1>10 DEF s, k

(* What is put together or has been passed on is one of the contents begun; *)
(* a header comes before the content is given up or complete, and what has *)
(* all of its frames has been passed on.                                   *)
Known(m) == m.of \in Messages /\ m.from \subseteq Messages
Begun(f) == f.at # "none" => f.of \in Messages /\ f.left <= f.size
Arriving(m) ==
  m.at # "none" => /\ Known(m)
                   /\ m.at = "method" => m.received = 0
                   /\ m.at = "header" => m.received < m.expected
FormInv ==
  /\ frameMax \in (Overhead + 1)..OptFrameMax
  /\ arrived \subseteq Messages /\ error \in {"none", "client", "broker"}
  /\ losses \in 0..MaxLosses /\ started <= MaxMessages
  /\ \A c \in Chans : Begun(feed[c])
  /\ \A c \in Chans : feed[c].at = "header" => incoming[c].at = "method"
  /\ \A c \in Chans : Arriving(incoming[c])
  /\ \A m \in Range(immediates) \cup Range(handled) : Known(m)
  /\ CutWhole

(* At first there is no content, and the last body published is empty.     *)
LEMMA FormInit == ASSUME Init PROVE FormInv
<1> USE DEF Begun, Arriving
<1>1. frameMax \in (Overhead + 1)..OptFrameMax
  BY FramingAssumption DEF Init, Negotiated, Least, Overhead
<1>2. CutWhole
  <2> DEFINE g == [n \in 0..0 |-> 0]
  <2>1. cut.payloads = <<>> /\ cut.size = 0
    BY DEF Init
  <2>2. <<>> \in Seq(Nat) /\ Len(<<>>) = 0 /\ Range(<<>>) = {}
    BY DEF Range
  <2>3. g = [n \in 0..0 |-> IF n = 0 THEN 0 ELSE g[n - 1] + <<>>[n]]
    <3>1. \A n \in 0..0 : n = 0
      OBVIOUS
    <3> QED BY <3>1
  <2>4. g[0] = 0
    OBVIOUS
  <2> HIDE DEF g
  <2>5. Total(<<>>) = g[Len(<<>>)]
    BY <2>2, <2>3, TotalIs
  <2> QED BY <2>1, <2>2, <2>4, <2>5 DEF CutWhole
<1>3. Range(handled) = {} /\ Range(immediates) = {}
  BY DEF Init, Range
<1>4. arrived \subseteq Messages
  BY DEF Init
<1> QED BY <1>1, <1>2, <1>3, <1>4, FramingAssumption DEF Init, FormInv, None

(* A content that is passed on is put at the end of one of the sequences.  *)
LEMMA PassedKnown ==
  ASSUME OrderInv, FormInv, NEW c \in Chans, NEW m \in Contents, Known(m), PassOn(c, m)
  PROVE  /\ incoming' = [incoming EXCEPT ![c] = None]
         /\ \A k \in Range(immediates') \cup Range(handled') : Known(k)
<1>0. immediates \in Seq(Contents) /\ handled \in Seq(Contents)
  BY DEF OrderInv, OrderTypes
<1>1. incoming' = [incoming EXCEPT ![c] = None]
  BY DEF PassOn, Cleared
<1>2. CASE m.kind = "get"
  <2>1. handled' = Append(handled, m) /\ immediates' = immediates
    BY <1>2 DEF PassOn
  <2>2. Range(handled') = Range(handled) \cup {m}
    BY <1>0, <2>1, Added
  <2> QED BY <1>1, <2>1, <2>2 DEF FormInv
<1>3. CASE m.kind # "get"
  <2>1. immediates' = Append(immediates, m) /\ handled' = handled
    BY <1>3 DEF PassOn, Scheduled
  <2>2. Range(immediates') = Range(immediates) \cup {m}
    BY <1>0, <2>1, Added
  <2> QED BY <1>1, <2>1, <2>2 DEF FormInv
<1> QED BY <1>2, <1>3

(* The steps of a content: it begins, its method, its header, its body.    *)
LEMMA BeginForm ==
  ASSUME OrderInv, FormInv, NEW c \in Chans, NEW kind \in Kinds, NEW size \in Incoming,
         Begin(c, kind, size)
  PROVE  FormInv'
<1> USE DEF OrderInv, OrderTypes, Begun, Arriving
<1> DEFINE f == [at |-> "method", of |-> started + 1, kind |-> kind, size |-> size, left |-> size]
<1>1. /\ feed' = [feed EXCEPT ![c] = f] /\ started' = started + 1 /\ started < MaxMessages
      /\ UNCHANGED <<frameMax, incoming, immediates, handled, arrived, cut, error, losses>>
  BY DEF Begin
<1>2. f.of \in Messages /\ f.left <= f.size
  BY <1>1, FramingAssumption DEF Messages
<1>3. f.at = "method"
  OBVIOUS
<1> HIDE DEF f
<1>4. \A d \in Chans : feed'[d].at = "header" => incoming'[d].at = "method"
  BY <1>1, <1>3 DEF FormInv
<1>5. \A d \in Chans : Begun(feed'[d])
  BY <1>1, <1>2 DEF FormInv
<1>6. started' <= MaxMessages
  BY <1>1, FramingAssumption
<1> QED BY <1>1, <1>4, <1>5, <1>6 DEF FormInv, CutWhole

LEMMA MethodForm == ASSUME OrderInv, FormInv, NEW c \in Chans, OnMethod(c) PROVE FormInv'
<1> USE DEF OrderInv, OrderTypes, Begun, Arriving
<1>1. UNCHANGED <<frameMax, immediates, handled, started, cut, losses, arrived>>
  BY DEF OnMethod, Refused
<1>2. feed[c] \in Feeds /\ feed[c].at = "method"
  BY DEF OnMethod, None
<1>3. CASE incoming[c] # None
  BY <1>1, <1>3 DEF OnMethod, Refused, FormInv, CutWhole
<1>4. CASE incoming[c] = None
  <2> DEFINE m == [at |-> "method", chan |-> c, of |-> feed[c].of, kind |-> feed[c].kind,
                   size |-> feed[c].size, expected |-> 0, received |-> 0, bytes |-> 0,
                   from |-> {}]
             f == [feed[c] EXCEPT !.at = "header"]
  <2>1. incoming' = [incoming EXCEPT ![c] = m] /\ feed' = [feed EXCEPT ![c] = f] /\ error' = error
    BY <1>4 DEF OnMethod
  <2>2. m.at = "method" /\ m.received = 0 /\ Known(m)
    BY <1>2 DEF FormInv, Known
  <2>3. f.of \in Messages /\ f.left <= f.size
    BY <1>2 DEF FormInv, Feeds
  <2> HIDE DEF m, f
  <2>4. \A d \in Chans : Begun(feed'[d])
    BY <2>1, <2>3 DEF FormInv
  <2>5. \A d \in Chans : Arriving(incoming'[d])
    BY <2>1, <2>2 DEF FormInv
  <2>6. \A d \in Chans : feed'[d].at = "header" => incoming'[d].at = "method"
    BY <2>1, <2>2 DEF FormInv
  <2> QED BY <1>1, <2>1, <2>4, <2>5, <2>6 DEF FormInv, CutWhole, Known
<1> QED BY <1>3, <1>4

LEMMA HeaderForm == ASSUME OrderInv, FormInv, NEW c \in Chans, OnHeader(c) PROVE FormInv'
<1> USE DEF OrderInv, OrderTypes, Begun, Arriving
<1> DEFINE m == [incoming[c] EXCEPT !.at = "header", !.expected = Expected(feed[c].size)]
           f == IF feed[c].size = 0 THEN None ELSE [feed[c] EXCEPT !.at = "body"]
<1>0. incoming[c].at = "method" /\ incoming[c] # None
  BY DEF OnHeader, FormInv, None
<1>1. /\ feed[c] \in Feeds /\ feed[c].at = "header" /\ feed' = [feed EXCEPT ![c] = f]
      /\ IF m.expected = 0 THEN PassOn(c, m)
         ELSE incoming' = [incoming EXCEPT ![c] = m] /\ UNCHANGED <<immediates, handled>>
      /\ arrived' \in {arrived, arrived \cup {feed[c].of}}
      /\ UNCHANGED <<frameMax, started, cut, losses, error>>
  BY <1>0 DEF OnHeader, Arrives, None
<1>2. /\ incoming[c] \in Contents /\ incoming[c].at = "method" /\ incoming[c].received = 0
      /\ Known(incoming[c])
  BY <1>1 DEF FormInv, None
<1>3. feed[c].size \in Nat /\ Expected(feed[c].size) \in Nat
  BY <1>1, FramingAssumption, ExpectedNat DEF Feeds
<1>4. /\ m \in Contents /\ m.at = "header" /\ Known(m) /\ m.received = 0
      /\ m.expected \in Nat
  BY <1>2, <1>3 DEF Contents, Known
<1>5. f.at # "none" => f.at # "header" /\ f.of \in Messages /\ f.left <= f.size
  BY <1>1 DEF FormInv, Feeds, None
<1>6. f.at # "header"
  BY <1>1, <1>5 DEF Feeds, None
<1>10. arrived' \subseteq Messages
  BY <1>1 DEF FormInv
<1> HIDE DEF m, f
<1>7. \A d \in Chans : Begun(feed'[d])
  BY <1>1, <1>5 DEF FormInv
<1>8. CASE m.expected = 0
  <2>1. /\ incoming' = [incoming EXCEPT ![c] = None]
        /\ \A k \in Range(immediates') \cup Range(handled') : Known(k)
    BY <1>1, <1>4, <1>8, PassedKnown
  <2>2. \A d \in Chans : feed'[d].at = "header" => incoming'[d].at = "method"
    BY <1>1, <1>6, <2>1 DEF FormInv
  <2>3. \A d \in Chans : incoming'[d].at # "none" => d # c /\ incoming'[d] = incoming[d]
    BY <2>1 DEF None
  <2> QED BY <1>1, <1>7, <1>10, <2>1, <2>2, <2>3 DEF FormInv, CutWhole, Known
<1>9. CASE m.expected # 0
  <2>1. incoming' = [incoming EXCEPT ![c] = m] /\ UNCHANGED <<immediates, handled>>
    BY <1>1, <1>9
  <2>2. \A d \in Chans : feed'[d].at = "header" => incoming'[d].at = "method"
    BY <1>1, <1>6, <2>1 DEF FormInv
  <2>3. m.received < m.expected
    BY <1>4, <1>9
  <2>4. \A d \in Chans : Arriving(incoming'[d])
    BY <1>4, <2>1, <2>3 DEF FormInv
  <2> QED BY <1>1, <1>7, <1>10, <2>1, <2>2, <2>4 DEF FormInv, CutWhole, Known
<1> QED BY <1>8, <1>9

LEMMA BodyForm == ASSUME OrderInv, FormInv, NEW c \in Chans, OnBody(c) PROVE FormInv'
<1> USE DEF OrderInv, OrderTypes, Begun, Arriving
<1> DEFINE n == Payload(feed[c].left)
           m == [incoming[c] EXCEPT !.received = @ + 1, !.bytes = @ + n,
                                    !.from = @ \cup {feed[c].of}]
           f == IF n = feed[c].left THEN None ELSE [feed[c] EXCEPT !.left = @ - n]
<1>1. /\ feed[c] \in Feeds /\ feed[c].at = "body" /\ feed' = [feed EXCEPT ![c] = f]
      /\ arrived' \in {arrived, arrived \cup {feed[c].of}}
      /\ UNCHANGED <<frameMax, started, cut, losses>>
      /\ error' \in {error, "client"}
  BY DEF OnBody, Arrives, Refused, None
<1>2. feed[c].left \in Nat /\ feed[c].of \in Nat /\ n \in 0..feed[c].left
  BY <1>1 DEF Feeds, Payload, Least, Overhead
<1>3. feed[c].of \in Messages /\ feed[c].left <= feed[c].size
  BY <1>1 DEF FormInv
<1>4. f.at # "none" => f.of \in Messages /\ f.left <= f.size
  <2>1. CASE n = feed[c].left
    BY <2>1 DEF None
  <2>2. CASE n # feed[c].left
    <3>1. feed[c].size \in Nat
      BY <1>1, FramingAssumption DEF Feeds
    <3>2. feed[c].left - n <= feed[c].size
      BY <1>2, <1>3, <3>1
    <3> HIDE DEF n
    <3> QED BY <1>1, <1>3, <2>2, <3>2 DEF Feeds
  <2> QED BY <2>1, <2>2
<1>8. arrived' \subseteq Messages
  BY <1>1, <1>3 DEF FormInv
<1>5. f.at # "header"
  BY <1>1 DEF Feeds, None
<1>6. CASE incoming[c] = None \/ incoming[c].at # "header"
  <2>1. UNCHANGED <<incoming, immediates, handled>>
    BY <1>6 DEF OnBody
  <2> HIDE DEF f
  <2>2. \A d \in Chans : /\ feed'[d].at = "header" => incoming'[d].at = "method"
                         /\ Begun(feed'[d])
    BY <1>1, <1>4, <1>5, <2>1 DEF FormInv
  <2> QED BY <1>1, <1>8, <2>1, <2>2 DEF FormInv, CutWhole, Known
<1>7. CASE incoming[c] # None /\ incoming[c].at = "header"
  <2>1. /\ IF m.received = m.expected THEN PassOn(c, m)
           ELSE incoming' = [incoming EXCEPT ![c] = m] /\ UNCHANGED <<immediates, handled>>
        /\ error' = error
    BY <1>7 DEF OnBody
  <2>2. /\ incoming[c] \in Contents /\ Known(incoming[c])
        /\ incoming[c].received < incoming[c].expected
    BY <1>7 DEF FormInv
  <2>3. /\ incoming[c].received + 1 \in Nat /\ incoming[c].bytes + n \in Nat
        /\ incoming[c].from \cup {feed[c].of} \in SUBSET Nat
    BY <1>2, <2>2 DEF Contents
  <2>4. /\ m \in Contents /\ m.at = "header" /\ Known(m)
        /\ m.received # m.expected => m.received < m.expected
    <3> HIDE DEF n
    <3>1. m \in Contents /\ m.at = "header"
      BY <1>7, <2>2, <2>3 DEF Contents
    <3>2. Known(m)
      BY <1>3, <2>2 DEF Known, Contents
    <3>3. m.received = incoming[c].received + 1 /\ m.expected = incoming[c].expected
      BY <2>2 DEF Contents
    <3>4. m.received # m.expected => m.received < m.expected
      BY <2>2, <3>3 DEF Contents
    <3> QED BY <3>1, <3>2, <3>4
  <2> HIDE DEF m, f
  <2>5. \A d \in Chans : Begun(feed'[d])
    BY <1>1, <1>4 DEF FormInv
  <2>6. CASE m.received = m.expected
    <3>1. /\ incoming' = [incoming EXCEPT ![c] = None]
          /\ \A k \in Range(immediates') \cup Range(handled') : Known(k)
      BY <2>1, <2>4, <2>6, PassedKnown
    <3>2. \A d \in Chans : feed'[d].at = "header" => incoming'[d].at = "method"
      BY <1>1, <1>5, <3>1 DEF FormInv
    <3>3. \A d \in Chans : incoming'[d].at # "none" => d # c /\ incoming'[d] = incoming[d]
      BY <3>1 DEF None
    <3> QED BY <1>1, <1>8, <2>1, <2>5, <3>1, <3>2, <3>3 DEF FormInv, CutWhole, Known
  <2>7. CASE m.received # m.expected
    <3>1. incoming' = [incoming EXCEPT ![c] = m] /\ UNCHANGED <<immediates, handled>>
      BY <2>1, <2>7
    <3>2. \A d \in Chans : feed'[d].at = "header" => incoming'[d].at = "method"
      BY <1>1, <1>5, <3>1 DEF FormInv
    <3>3. \A d \in Chans : Arriving(incoming'[d])
      BY <2>4, <2>7, <3>1 DEF FormInv
    <3> QED BY <1>1, <1>8, <2>1, <2>5, <3>1, <3>2, <3>3 DEF FormInv, CutWhole, Known
  <2> QED BY <2>6, <2>7
<1> QED BY <1>6, <1>7

(* A publish cuts its body whole; the other steps keep the last one.       *)
LEMMA FormStep == ASSUME OrderInv, FormInv, [Next]_vars PROVE FormInv'
<1> USE DEF Begun, Arriving
<1> DEFINE Same == UNCHANGED <<frameMax, started, feed, incoming, immediates, handled, arrived, cut>>
<1>1. ASSUME Same, UNCHANGED <<error, losses>> PROVE FormInv'
  BY <1>1 DEF FormInv, CutWhole, Known
<1>2. CASE UNCHANGED vars
  BY <1>1, <1>2 DEF vars, content
<1>3. CASE Pulse
  BY <1>1, <1>3 DEF Pulse, content
<1>4. CASE Lost
  <2>1. Same /\ UNCHANGED error /\ losses' = losses + 1 /\ losses < MaxLosses
    BY <1>4 DEF Lost, content
  <2>2. losses' \in 0..MaxLosses
    BY <2>1, FramingAssumption DEF FormInv
  <2> QED BY <2>1, <2>2 DEF FormInv, CutWhole, Known
<1>5. ASSUME NEW size \in Outgoing, Publish(size) PROVE FormInv'
  <2>1. /\ UNCHANGED <<frameMax, started, feed, incoming, immediates, handled, arrived, losses>>
        /\ cut' = [size |-> size, payloads |-> Slices(size)] /\ error' \in {error, "broker"}
    BY <1>5 DEF Publish
  <2>3. size \in Nat
    BY FramingAssumption
  <2>4. CutWhole'
    BY <2>1, <2>3, SlicesWhole DEF CutWhole
  <2> QED BY <2>1, <2>4 DEF FormInv, Known
<1>6. CASE Reconnect
  <2>1. frameMax' \in (Overhead + 1)..OptFrameMax
    BY <1>6, FramingAssumption DEF Reconnect, Negotiated, Least, Overhead
  <2>2. /\ UNCHANGED <<immediates, handled, started, arrived, cut, losses>> /\ error' = "none"
        /\ feed' = [c \in Chans |-> None] /\ incoming' = [c \in Chans |-> None]
    BY <1>6 DEF Reconnect
  <2> QED BY <2>1, <2>2 DEF FormInv, CutWhole, Known, None
<1>7. CASE Handle
  <2>1. /\ immediates # <<>> /\ handled' = Append(handled, Head(immediates))
        /\ immediates' = Tail(immediates)
        /\ UNCHANGED <<frameMax, feed, incoming, started, arrived, cut, error, losses>>
    BY <1>7 DEF Handle
  <2>2. /\ Head(immediates) \in Contents
        /\ Range(immediates) = Range(immediates') \cup {Head(immediates)}
    BY <2>1, FirstTaken DEF OrderInv, OrderTypes
  <2>3. Range(handled') = Range(handled) \cup {Head(immediates)}
    BY <2>1, <2>2, Added DEF OrderInv, OrderTypes
  <2> QED BY <2>1, <2>2, <2>3 DEF FormInv, CutWhole, Known
<1> QED
  BY <1>2, <1>3, <1>4, <1>5, <1>6, <1>7, BeginForm, MethodForm, HeaderForm, BodyForm DEF Next

(* Whatever is on its way is well formed, whatever frame size the broker   *)
(* offers: a content that waits for frames is never complete, so it cannot *)
(* be given to the user twice or kept for ever; and the payloads of a      *)
(* publish add up to its body, none of them empty or too long.             *)
THEOREM FramesFormed == Spec => []Framed
<1>1. Init => OrderInv /\ FormInv
  BY OrderInit, FormInit
<1>2. OrderInv /\ FormInv /\ [Next]_vars => (OrderInv /\ FormInv)'
  BY OrderStep, FormStep
<1>3. BeatInv /\ OrderInv /\ FormInv => Framed
  <2> SUFFICES ASSUME BeatInv, OrderInv, FormInv PROVE Framed
    OBVIOUS
  <2> USE DEF Begun, Arriving
  <2>1. BeatType
    BY DEF BeatInv, Flags, FormInv, BeatType
  <2>2. /\ feed \in [Chans -> Feeds \cup {None}] /\ incoming \in [Chans -> Contents \cup {None}]
        /\ immediates \in Seq(Contents) /\ handled \in Seq(Contents) /\ started \in Nat
    BY DEF OrderInv, OrderTypes
  <2>3. ASSUME NEW m \in Contents, Known(m) PROVE IsContent(m, m.chan)
    BY <2>3 DEF Contents, Known, IsContent
  <2>4. \A m \in Range(immediates) \cup Range(handled) : IsContent(m, m.chan)
    BY <2>2, <2>3 DEF FormInv, Range
  <2>5. ASSUME NEW c \in Chans, feed[c] # None
        PROVE  feed[c].at \in {"method", "header", "body"} /\ feed[c].left \in 0..feed[c].size
    <3>1. feed[c] \in Feeds
      BY <2>2, <2>5
    <3>2. /\ feed[c].at \in {"method", "header", "body"}
          /\ feed[c].left \in Nat /\ feed[c].size \in Nat
      BY <3>1, FramingAssumption DEF Feeds
    <3>3. feed[c].left <= feed[c].size
      BY <3>2 DEF FormInv
    <3> QED BY <3>2, <3>3
  <2>6. ASSUME NEW c \in Chans, incoming[c] # None
        PROVE  /\ incoming[c].at \in {"method", "header"} /\ IsContent(incoming[c], c)
               /\ incoming[c].at = "header" => incoming[c].received < incoming[c].expected
    <3>1. incoming[c] \in Contents
      BY <2>2, <2>6
    <3>2. incoming[c].at \in {"method", "header"}
      BY <3>1 DEF Contents
    <3>3. incoming[c].chan = c
      BY <3>2 DEF OrderInv, Latest
    <3>4. IsContent(incoming[c], incoming[c].chan)
      BY <2>3, <3>1, <3>2 DEF FormInv
    <3> QED BY <3>2, <3>3, <3>4 DEF FormInv
  <2>7. started \in 0..MaxMessages
    BY <2>2, FramingAssumption DEF FormInv
  <2> QED BY <2>1, <2>4, <2>5, <2>6, <2>7 DEF FormInv, TypeOK, Framed
<1> QED BY <1>1, <1>2, <1>3, BeatInvariant, PTL DEF Spec
=============================================================================

-------------------------- MODULE RPCClientProofs --------------------------
(***************************************************************************)
(* Proofs about RPCClient for any number of sends, of calls of close(), of *)
(* attempts and of faults.                                                 *)
(***************************************************************************)
EXTENDS RPCClient, FiniteSetTheorems, FunctionTheorems, TLAPS

Alive == {"open", "inactive"}

(* The types, in three parts.                                              *)
TypeChans ==
  /\ ch \in Channels \cup {0} /\ active \in BOOLEAN
  /\ pendingSetup \in {"none", "acquire", "declare", "done", "failing"}
  /\ chan \in [Channels -> {"none", "open", "inactive", "closed"}] /\ ready \subseteq Channels
  /\ closing \in [Closers -> {"none", "setup", "requests", "channel", "returned"}]
  /\ faults \in 0..MaxFaults
TypeCalls ==
  /\ id \in Nat
  /\ send \in [Sends -> {"none", "resolved", "rejected"} \cup Unsettled]
  /\ via \in [Sends -> Channels \cup {0}] /\ number \in [Sends -> Nat]
  /\ attempts \in [Sends -> 0..MaxAttempts]
  /\ answer \in [Sends -> SUBSET Sends]
TypeMaps ==
  /\ DOMAIN requests \subseteq Ids /\ \A n \in DOMAIN requests : requests[n] \in Sends
  /\ asked \cup replies \subseteq [id : Ids, of : Sends, on : Channels]
  /\ awaiting \in [Closers -> SUBSET Ids] /\ inTime \subseteq Ids

(* Channels are numbered as they come, and only the last one is open.      *)
Numbered ==
  /\ \A g \in Channels : chan[g] # "none" <=> g <= ch
  /\ \A g \in Channels : chan[g] = "open" => g = ch
  /\ ready \subseteq 1..ch

(* What a setup at some point says of the channel it works on.             *)
SetupPhase ==
  /\ pendingSetup \in {"acquire", "failing"} => ~Usable
  /\ pendingSetup \in {"declare", "done"} => ch # 0
  /\ pendingSetup = "declare" => chan[ch] = "open" /\ ch \notin ready
  /\ pendingSetup # "declare" /\ Usable => ch \in ready
  /\ \A s \in Sends : send[s] = "setup" => pendingSetup # "none"

(* A request that is being published or waits has a channel that lives and *)
(* an id of its own, no greater than the last one given.                   *)
OnTheWay ==
  \A s \in Sends :
    /\ send[s] \in {"publish", "waiting"} =>
         via[s] \in ready /\ chan[via[s]] \in Alive /\ number[s] \in 1..id
    /\ send[s] \notin {"publish", "waiting"} => number[s] = 0
OwnNumber == \A s, t \in Sends : number[s] = number[t] /\ number[s] # 0 => s = t

(* What the server was asked, and what it replied, is known by an id that  *)
(* belongs to that send() or, by now, to none.                             *)
Traced ==
  \A r \in asked \cup replies :
    /\ r.id <= id
    /\ \A s \in Sends : number[s] = r.id => r.of = s

(* A close() waits for the setup, then for requests, and nothing is set up *)
(* after that.                                                             *)
CloseWaits ==
  \A k \in Closers :
    /\ closing[k] # "none" => ~active
    /\ closing[k] = "setup" => pendingSetup # "none"
    /\ closing[k] \in {"requests", "channel", "returned"} => pendingSetup = "none"
    /\ closing[k] \in {"channel", "returned"} => ~Usable

(* The requests that the first close() found are told from later ones.     *)
InTimeIds ==
  /\ \A n \in inTime : n <= id
  /\ \A s \in Sends : send[s] = "publish" => number[s] \notin inTime
  /\ active => inTime = {}

(* Each close() waits for those that are left, unless the channel has gone. *)
WaitsForThem ==
  \A k \in Closers :
    closing[k] = "requests" /\ Usable => inTime \cap DOMAIN requests \subseteq awaiting[k]

IInv ==
  /\ TypeChans /\ TypeCalls /\ TypeMaps
  /\ Numbered /\ SetupPhase /\ CloseWaits
  /\ OnTheWay /\ OwnNumber /\ RequestsAreWaiting /\ Traced /\ OwnReply
  /\ InTimeIds /\ WaitsForThem /\ ClosesAfterReplies

-----------------------------------------------------------------------------
(* The number of channels so far is the last one's.                        *)
LEMMA NextNumber ==
  ASSUME RPCAssumption, TypeChans, Numbered
  PROVE  Cardinality({c \in Channels : chan[c] # "none"}) = ch
<1>1. ch \in Nat /\ {c \in Channels : chan[c] # "none"} = 1..ch
  BY DEF RPCAssumption, TypeChans, Numbered, Channels
<1>2. Cardinality(1..ch) = ch
  BY <1>1, FS_Interval
<1> QED BY <1>1, <1>2

(* One channel is open at most.                                            *)
LEMMA OneOpen == ASSUME Numbered PROVE OneChannel
<1> DEFINE Open == {g \in Channels : chan[g] = "open"}
<1>1. Open = {} \/ Open = {ch}
  BY DEF Numbered
<1>2. CASE Open = {}
  <2>1. Cardinality(Open) = 0
    BY <1>2, FS_EmptySet
  <2> QED BY <2>1 DEF OneChannel
<1>3. CASE Open = {ch}
  <2>1. Cardinality(Open) = 1
    BY <1>3, FS_Singleton
  <2> QED BY <2>1 DEF OneChannel
<1> QED BY <1>1, <1>2, <1>3

(* There are as many new ids as sends that need one.                       *)
LEMMA NewIds ==
  ASSUME RPCAssumption, NEW S \in SUBSET Sends, NEW i \in Nat
  PROVE  /\ Cardinality(S) \in Nat
         /\ \E f \in [S -> i + 1 .. i + Cardinality(S)] : \A s, t \in S : s # t => f[s] # f[t]
<1>1. IsFiniteSet(Sends)
  BY FS_Interval DEF RPCAssumption, Sends
<1>2. IsFiniteSet(S)
  BY <1>1, FS_Subset
<1> DEFINE c == Cardinality(S)
<1>3. c \in Nat /\ ExistsBijection(1..c, S)
  BY <1>2, FS_CardinalityType
<1>4. PICK g \in Bijection(1..c, S) : TRUE
  BY <1>3, Fun_ExistsBij
<1>5. PICK h \in Bijection(S, 1..c) : TRUE
  BY ZenonT(40), <1>4, Fun_BijInverse
<1>6. h \in [S -> 1..c] /\ \A s, t \in S : h[s] = h[t] => s = t
  BY ZenonT(30), <1>5, Fun_BijectionProperties
<1> HIDE DEF c
<1> DEFINE f == [s \in S |-> i + h[s]]
<1>7. f \in [S -> i + 1 .. i + c]
  BY <1>3, <1>6
<1>8. \A s, t \in S : s # t => f[s] # f[t]
  BY <1>3, <1>6
<1> QED BY <1>3, <1>7, <1>8 DEF c

(* Publish gives each of S an id of its own, above all that were given.    *)
LEMMA PublishIds ==
  ASSUME RPCAssumption, TypeCalls, NEW S \in SUBSET Sends, Publish(S)
  PROVE  /\ id' \in Nat /\ id' >= id
         /\ number' \in [Sends -> Nat]
         /\ \A s \in S : number'[s] \in id + 1 .. id'
         /\ \A s \in Sends \ S : number'[s] = number[s]
         /\ \A s, t \in S : number'[s] = number'[t] => s = t
         /\ asked' = asked \cup {[id |-> number'[s], of |-> s, on |-> ch] : s \in S}
         /\ send' = [s \in Sends |-> IF s \in S THEN "publish" ELSE send[s]]
         /\ via' = [s \in Sends |-> IF s \in S THEN ch ELSE via[s]]
         /\ UNCHANGED <<attempts, answer>>
<1> DEFINE Fits(f) == \A s, t \in S : s # t => f[s] # f[t]
           n == CHOOSE f \in [S -> id + 1 .. id + Cardinality(S)] : Fits(f)
<1>1. id \in Nat /\ Cardinality(S) \in Nat
  BY NewIds DEF TypeCalls
<1>2. n \in [S -> id + 1 .. id + Cardinality(S)] /\ Fits(n)
  BY <1>1, NewIds
<1>3. /\ id' = id + Cardinality(S)
      /\ send' = [s \in Sends |-> IF s \in S THEN "publish" ELSE send[s]]
      /\ via' = [s \in Sends |-> IF s \in S THEN ch ELSE via[s]]
      /\ number' = [s \in Sends |-> IF s \in S THEN n[s] ELSE number[s]]
      /\ asked' = asked \cup {[id |-> n[s], of |-> s, on |-> ch] : s \in S}
      /\ UNCHANGED <<attempts, answer>>
  BY DEF Publish, LastId
<1> HIDE DEF n
<1>4. number \in [Sends -> Nat] /\ S \subseteq Sends
  BY DEF TypeCalls
<1>5. \A s \in S : number'[s] = n[s]
  BY <1>3, <1>4
<1>6. {[id |-> n[s], of |-> s, on |-> ch] : s \in S}
        = {[id |-> number'[s], of |-> s, on |-> ch] : s \in S}
  BY <1>5
<1>7. number' \in [Sends -> Nat]
  BY <1>1, <1>2, <1>3, <1>4
<1>8. \A s \in S : number'[s] \in id + 1 .. id'
  BY <1>1, <1>2, <1>3, <1>5
<1> QED BY <1>1, <1>2, <1>3, <1>4, <1>5, <1>6, <1>7, <1>8

(* What those in S have published is on its way.                           *)
LEMMA PublishStep ==
  ASSUME RPCAssumption, IInv, NEW S \in SUBSET Sends, Publish(S), ch \in ready, Usable,
         \A s \in S : send[s] \in {"none", "again", "setup"},
         UNCHANGED <<chans, requests, replies, inTime>>
  PROVE  /\ TypeCalls' /\ OnTheWay' /\ OwnNumber' /\ RequestsAreWaiting' /\ Traced' /\ OwnReply'
         /\ asked' \subseteq [id : Ids, of : Sends, on : Channels]
         /\ \A n \in inTime : n <= id'
         /\ \A s \in Sends : send'[s] = "publish" => number'[s] \notin inTime
         /\ \A s \in Sends \ S : send'[s] = send[s]
         /\ \A s \in S : send'[s] = "publish"
<1> USE DEF IInv
<1>1. /\ id \in Nat /\ id' \in Nat /\ id' >= id
      /\ number \in [Sends -> Nat] /\ number' \in [Sends -> Nat]
      /\ \A s \in S : number'[s] \in id + 1 .. id'
      /\ \A s \in Sends \ S : number'[s] = number[s]
      /\ \A s, t \in S : number'[s] = number'[t] => s = t
      /\ UNCHANGED <<attempts, answer>>
  BY PublishIds DEF TypeCalls
<1>2. /\ send' = [s \in Sends |-> IF s \in S THEN "publish" ELSE send[s]]
      /\ via' = [s \in Sends |-> IF s \in S THEN ch ELSE via[s]]
  BY PublishIds
<1>3. asked' = asked \cup {[id |-> number'[s], of |-> s, on |-> ch] : s \in S}
  BY PublishIds
<1>4. \A s \in Sends : number[s] <= id
  BY <1>1 DEF OnTheWay
<1>5. ch \in Channels /\ chan[ch] = "open"
  BY DEF TypeChans, Usable
<1>6. TypeCalls'
  BY <1>1, <1>2, <1>5 DEF TypeCalls, Unsettled
<1>7. OnTheWay'
  BY <1>1, <1>2, <1>5 DEF OnTheWay, Alive, chans
<1>8. OwnNumber'
  BY <1>1, <1>4 DEF OwnNumber
<1>9. RequestsAreWaiting'
  BY <1>1, <1>2 DEF RequestsAreWaiting, TypeMaps
<1>10. asked' \subseteq [id : Ids, of : Sends, on : Channels]
  BY <1>1, <1>3, <1>5 DEF TypeMaps, Ids
<1>11. Traced'
  <2>1. SUFFICES ASSUME NEW r \in asked' \cup replies
                 PROVE  r.id <= id' /\ \A s \in Sends : number'[s] = r.id => r.of = s
    BY DEF Traced
  <2>2. CASE r \in asked \cup replies
    <3>1. r.id \in Nat /\ r.id <= id /\ \A s \in Sends : number[s] = r.id => r.of = s
      BY <2>2 DEF Traced, TypeMaps, Ids
    <3> QED BY <3>1, <1>1
  <2>3. ASSUME NEW t \in S, r = [id |-> number'[t], of |-> t, on |-> ch]
        PROVE  r.id <= id' /\ \A s \in Sends : number'[s] = r.id => r.of = s
    BY <2>3, <1>1, <1>4
  <2> QED BY <2>1, <2>2, <2>3, <1>3
<1>12. OwnReply'
  BY <1>1 DEF OwnReply
<1>13. /\ \A n \in inTime : n <= id'
       /\ \A s \in Sends : send'[s] = "publish" => number'[s] \notin inTime
  BY <1>1, <1>2 DEF InTimeIds, TypeMaps, Ids
<1>14. /\ \A s \in Sends \ S : send'[s] = send[s]
       /\ \A s \in S : send'[s] = "publish"
  BY <1>2
<1> QED BY <1>6, <1>7, <1>8, <1>9, <1>10, <1>11, <1>12, <1>13, <1>14

(* A reply that finds a request finds the one it belongs to.               *)
LEMMA ReplyMeets ==
  ASSUME IInv, NEW r \in replies, r.id \in DOMAIN requests
  PROVE  requests[r.id] \in Sends /\ number[requests[r.id]] = r.id /\ r.of = requests[r.id]
BY DEF IInv, TypeMaps, RequestsAreWaiting, Traced

(* Each send() that waits is in the map.                                   *)
LEMMA WaitingInMap ==
  ASSUME IInv, NEW s \in Sends, send[s] = "waiting"
  PROVE  number[s] \in DOMAIN requests /\ requests[number[s]] = s
BY DEF IInv, TypeMaps, TypeCalls, Ids, RequestsAreWaiting, OwnNumber

(* The next channel.                                                       *)
LEMMA NextChannel ==
  ASSUME RPCAssumption, IInv, SetupAcquired
  PROVE  /\ ch' = ch + 1 /\ ch \in Nat /\ ch + 1 \in Channels
         /\ chan' = [chan EXCEPT ![ch + 1] = "open"]
<1>1. Cardinality({c \in Channels : chan[c] # "none"}) = ch
  BY NextNumber DEF IInv
<1>2. ch \in Nat
  BY DEF IInv, TypeChans, Channels, RPCAssumption
<1> QED BY <1>1, <1>2 DEF SetupAcquired

LEMMA InvInit == ASSUME RPCAssumption, Init PROVE IInv
<1> USE DEF Init, RPCAssumption
<1>1. TypeChans
  BY DEF TypeChans, Channels
<1>2. TypeCalls
  BY DEF TypeCalls, Channels
<1>3. TypeMaps
  BY DEF TypeMaps
<1>4. Numbered
  BY DEF Numbered, Channels
<1>5. SetupPhase /\ OnTheWay /\ OwnNumber /\ Traced /\ CloseWaits
  BY DEF SetupPhase, OnTheWay, OwnNumber, Usable, Traced, CloseWaits
<1>6. InTimeIds /\ WaitsForThem /\ RequestsAreWaiting /\ OwnReply /\ ClosesAfterReplies
  BY DEF InTimeIds, WaitsForThem, RequestsAreWaiting, OwnReply, ClosesAfterReplies, ClosersIn
<1> QED BY <1>1, <1>2, <1>3, <1>4, <1>5, <1>6 DEF IInv

(* Every step keeps the invariant.                                         *)
LEMMA InvStep == ASSUME RPCAssumption, IInv, [Next]_vars PROVE IInv'
<1> USE DEF IInv
<1>0. CASE UNCHANGED vars
  BY <1>0 DEF vars, Alive, Channels, CloseWaits, ClosersIn,
     ClosesAfterReplies, Ids, InTimeIds, Numbered, OnTheWay, OwnNumber,
     OwnReply, RPCAssumption, RequestsAreWaiting, SetupPhase, Traced,
     TypeCalls, TypeChans, TypeMaps, Unsettled, Usable, WaitsForThem, calls,
     chans, closes
<1>1. ASSUME NEW s \in Sends, Turn(s), ~active PROVE IInv'
  <2>1. TypeChans'
    BY <1>1 DEF Turn, Fail, Over, Left, TypeChans, SetupPhase, Channels,
       RPCAssumption, chans, calls, closes
  <2>2. TypeCalls'
    BY <1>1 DEF Turn, Fail, Over, Left, TypeCalls, TypeMaps, Unsettled,
       Channels, chans, calls, closes
  <2>3. TypeMaps'
    BY <1>1 DEF Turn, Fail, Over, Left, TypeMaps, TypeCalls, TypeChans,
       OnTheWay, Ids, chans, calls, closes
  <2>4. Numbered'
    BY <1>1 DEF Turn, Fail, Over, Left, Numbered, TypeChans, SetupPhase,
       Channels, chans, calls, closes
  <2>5. SetupPhase'
    BY <1>1 DEF Turn, Fail, Over, Left, SetupPhase, TypeChans, TypeCalls,
       Numbered, CloseWaits, OnTheWay, Usable, chans, calls, closes
  <2>6. CloseWaits'
    BY <1>1 DEF Turn, Fail, Over, Left, CloseWaits, TypeChans, Numbered,
       SetupPhase, Usable, chans, calls, closes
  <2>7. OnTheWay'
    BY <1>1 DEF Turn, Fail, Over, Left, OnTheWay, TypeChans, TypeCalls,
       TypeMaps, Numbered, SetupPhase, Alive, RequestsAreWaiting, chans,
       calls, closes
  <2>8. OwnNumber'
    BY <1>1 DEF Turn, Fail, Over, Left, OwnNumber, TypeCalls, OnTheWay, chans,
       calls, closes
  <2>9. RequestsAreWaiting'
    BY <1>1 DEF Turn, Fail, Over, Left, RequestsAreWaiting, TypeCalls,
       TypeMaps, OnTheWay, OwnNumber, chans, calls, closes
  <2>10. Traced'
    BY <1>1 DEF Turn, Fail, Over, Left, Traced, TypeCalls, TypeMaps, OnTheWay,
       Ids, chans, calls, closes
  <2>11. OwnReply'
    BY <1>1 DEF Turn, Fail, Over, Left, OwnReply, TypeCalls, TypeMaps, chans,
       calls, closes
  <2>12. InTimeIds'
    BY <1>1 DEF Turn, Fail, Over, Left, InTimeIds, TypeCalls, TypeMaps,
       OnTheWay, RequestsAreWaiting, OwnNumber, CloseWaits, Ids, chans, calls,
       closes
  <2>13. WaitsForThem'
    BY <1>1 DEF Turn, Fail, Over, Left, WaitsForThem, InTimeIds, TypeChans,
       TypeMaps, TypeCalls, CloseWaits, Usable, SetupPhase, chans, calls,
       closes
  <2>14. ClosesAfterReplies'
    BY <1>1 DEF Turn, Fail, Over, Left, ClosesAfterReplies, TypeChans,
       WaitsForThem, InTimeIds, CloseWaits, RequestsAreWaiting, Usable,
       ClosersIn, chans, calls, closes
  <2> QED BY <2>1, <2>2, <2>3, <2>4, <2>5, <2>6, <2>7, <2>8, <2>9, <2>10, <2>11, <2>12, <2>13, <2>14
<1>2. ASSUME NEW s \in Sends, Turn(s), active, NeedsSetup PROVE IInv'
  <2>1. TypeChans'
    BY <1>2 DEF Turn, NeedsSetup, SharedSetup, TypeChans, SetupPhase,
       Channels, RPCAssumption, chans, calls, closes
  <2>2. TypeCalls'
    BY <1>2 DEF Turn, NeedsSetup, SharedSetup, TypeCalls, TypeMaps, Unsettled,
       Channels, chans, calls, closes
  <2>3. TypeMaps'
    BY <1>2 DEF Turn, NeedsSetup, SharedSetup, TypeMaps, TypeCalls, TypeChans,
       OnTheWay, Ids, chans, calls, closes
  <2>4. Numbered'
    BY <1>2 DEF Turn, NeedsSetup, SharedSetup, Numbered, TypeChans,
       SetupPhase, Channels, chans, calls, closes
  <2>5. SetupPhase'
    BY <1>2 DEF Turn, NeedsSetup, SharedSetup, SetupPhase, TypeChans,
       TypeCalls, Numbered, CloseWaits, OnTheWay, Usable, chans, calls, closes
  <2>6. CloseWaits'
    BY <1>2 DEF Turn, NeedsSetup, SharedSetup, CloseWaits, TypeChans,
       Numbered, SetupPhase, Usable, chans, calls, closes
  <2>7. OnTheWay'
    BY <1>2 DEF Turn, NeedsSetup, SharedSetup, OnTheWay, TypeChans, TypeCalls,
       TypeMaps, Numbered, SetupPhase, Alive, RequestsAreWaiting, chans,
       calls, closes
  <2>8. OwnNumber'
    BY <1>2 DEF Turn, NeedsSetup, SharedSetup, OwnNumber, TypeCalls, OnTheWay,
       chans, calls, closes
  <2>9. RequestsAreWaiting'
    BY <1>2 DEF Turn, NeedsSetup, SharedSetup, RequestsAreWaiting, TypeCalls,
       TypeMaps, OnTheWay, OwnNumber, chans, calls, closes
  <2>10. Traced'
    BY <1>2 DEF Turn, NeedsSetup, SharedSetup, Traced, TypeCalls, TypeMaps,
       OnTheWay, Ids, chans, calls, closes
  <2>11. OwnReply'
    BY <1>2 DEF Turn, NeedsSetup, SharedSetup, OwnReply, TypeCalls, TypeMaps,
       chans, calls, closes
  <2>12. InTimeIds'
    BY <1>2 DEF Turn, NeedsSetup, SharedSetup, InTimeIds, TypeCalls, TypeMaps,
       OnTheWay, RequestsAreWaiting, OwnNumber, CloseWaits, Ids, chans, calls,
       closes
  <2>13. WaitsForThem'
    BY <1>2 DEF Turn, NeedsSetup, SharedSetup, WaitsForThem, InTimeIds,
       TypeChans, TypeMaps, TypeCalls, CloseWaits, Usable, SetupPhase, chans,
       calls, closes
  <2>14. ClosesAfterReplies'
    BY <1>2 DEF Turn, NeedsSetup, SharedSetup, ClosesAfterReplies, TypeChans,
       WaitsForThem, InTimeIds, CloseWaits, RequestsAreWaiting, Usable,
       ClosersIn, chans, calls, closes
  <2> QED BY <2>1, <2>2, <2>3, <2>4, <2>5, <2>6, <2>7, <2>8, <2>9, <2>10, <2>11, <2>12, <2>13, <2>14
<1>3. ASSUME NEW s \in Sends, Turn(s), active, ~NeedsSetup PROVE IInv'
  <2>0. /\ TypeCalls' /\ OnTheWay' /\ OwnNumber' /\ RequestsAreWaiting' /\ Traced' /\ OwnReply'
        /\ asked' \subseteq [id : Ids, of : Sends, on : Channels]
        /\ \A n \in inTime : n <= id'
        /\ \A t \in Sends : send'[t] = "publish" => number'[t] \notin inTime
        /\ \A t \in Sends \ {s} : send'[t] = send[t]
        /\ \A t \in {s} : send'[t] = "publish"
    BY <1>3, PublishStep DEF Turn, NeedsSetup, SetupPhase, closes
  <2>1. TypeChans'
    BY <1>3, <2>0 DEF Turn, TypeChans, SetupPhase, Channels, RPCAssumption,
       chans, calls, closes
  <2>2. TypeCalls'
    BY <1>3, <2>0 DEF Turn, TypeCalls, TypeMaps, Unsettled, Channels, chans,
       calls, closes
  <2>3. TypeMaps'
    BY <1>3, <2>0 DEF Turn, TypeMaps, TypeCalls, TypeChans, OnTheWay, Ids,
       chans, calls, closes
  <2>4. Numbered'
    BY <1>3, <2>0 DEF Turn, Numbered, TypeChans, SetupPhase, Channels, chans,
       calls, closes
  <2>5. SetupPhase'
    BY <1>3, <2>0 DEF Turn, SetupPhase, TypeChans, TypeCalls, Numbered,
       CloseWaits, OnTheWay, Usable, chans, calls, closes
  <2>6. CloseWaits'
    BY <1>3, <2>0 DEF Turn, CloseWaits, TypeChans, Numbered, SetupPhase,
       Usable, chans, calls, closes
  <2>7. OnTheWay'
    BY <1>3, <2>0 DEF Turn, OnTheWay, TypeChans, TypeCalls, TypeMaps,
       Numbered, SetupPhase, Alive, RequestsAreWaiting, chans, calls, closes
  <2>8. OwnNumber'
    BY <1>3, <2>0 DEF Turn, OwnNumber, TypeCalls, OnTheWay, chans, calls,
       closes
  <2>9. RequestsAreWaiting'
    BY <1>3, <2>0 DEF Turn, RequestsAreWaiting, TypeCalls, TypeMaps, OnTheWay,
       OwnNumber, chans, calls, closes
  <2>10. Traced'
    BY <1>3, <2>0 DEF Turn, Traced, TypeCalls, TypeMaps, OnTheWay, Ids, chans,
       calls, closes
  <2>11. OwnReply'
    BY <1>3, <2>0 DEF Turn, OwnReply, TypeCalls, TypeMaps, chans, calls,
       closes
  <2>12. InTimeIds'
    BY <1>3, <2>0 DEF Turn, InTimeIds, TypeCalls, TypeMaps, OnTheWay,
       RequestsAreWaiting, OwnNumber, CloseWaits, Ids, chans, calls, closes
  <2>13. WaitsForThem'
    BY <1>3, <2>0 DEF Turn, WaitsForThem, InTimeIds, TypeChans, TypeMaps,
       TypeCalls, CloseWaits, Usable, SetupPhase, chans, calls, closes
  <2>14. ClosesAfterReplies'
    BY <1>3, <2>0 DEF Turn, ClosesAfterReplies, TypeChans, WaitsForThem,
       InTimeIds, CloseWaits, RequestsAreWaiting, Usable, ClosersIn, chans,
       calls, closes
  <2> QED BY <2>1, <2>2, <2>3, <2>4, <2>5, <2>6, <2>7, <2>8, <2>9, <2>10, <2>11, <2>12, <2>13, <2>14
<1>4. ASSUME NEW s \in Sends, Published(s) PROVE IInv'
  <2>1. TypeChans'
    BY <1>4 DEF Published, TypeChans, SetupPhase, Channels, RPCAssumption,
       chans, calls, closes
  <2>2. TypeCalls'
    BY <1>4 DEF Published, TypeCalls, TypeMaps, Unsettled, Channels, chans,
       calls, closes
  <2>3. TypeMaps'
    BY <1>4 DEF Published, TypeMaps, TypeCalls, TypeChans, OnTheWay, Ids,
       chans, calls, closes
  <2>4. Numbered'
    BY <1>4 DEF Published, Numbered, TypeChans, SetupPhase, Channels, chans,
       calls, closes
  <2>5. SetupPhase'
    BY <1>4 DEF Published, SetupPhase, TypeChans, TypeCalls, Numbered,
       CloseWaits, OnTheWay, Usable, chans, calls, closes
  <2>6. CloseWaits'
    BY <1>4 DEF Published, CloseWaits, TypeChans, Numbered, SetupPhase,
       Usable, chans, calls, closes
  <2>7. OnTheWay'
    BY <1>4 DEF Published, OnTheWay, TypeChans, TypeCalls, TypeMaps, Numbered,
       SetupPhase, Alive, RequestsAreWaiting, chans, calls, closes
  <2>8. OwnNumber'
    BY <1>4 DEF Published, OwnNumber, TypeCalls, OnTheWay, chans, calls,
       closes
  <2>9. RequestsAreWaiting'
    BY <1>4 DEF Published, RequestsAreWaiting, TypeCalls, TypeMaps, OnTheWay,
       OwnNumber, chans, calls, closes
  <2>10. Traced'
    BY <1>4 DEF Published, Traced, TypeCalls, TypeMaps, OnTheWay, Ids, chans,
       calls, closes
  <2>11. OwnReply'
    BY <1>4 DEF Published, OwnReply, TypeCalls, TypeMaps, chans, calls, closes
  <2>12. InTimeIds'
    BY <1>4 DEF Published, InTimeIds, TypeCalls, TypeMaps, OnTheWay,
       RequestsAreWaiting, OwnNumber, CloseWaits, Ids, chans, calls, closes
  <2>13. WaitsForThem'
    BY <1>4 DEF Published, WaitsForThem, InTimeIds, TypeChans, TypeMaps,
       TypeCalls, CloseWaits, Usable, SetupPhase, chans, calls, closes
  <2>14. ClosesAfterReplies'
    BY <1>4 DEF Published, ClosesAfterReplies, TypeChans, WaitsForThem,
       InTimeIds, CloseWaits, RequestsAreWaiting, Usable, ClosersIn, chans,
       calls, closes
  <2> QED BY <2>1, <2>2, <2>3, <2>4, <2>5, <2>6, <2>7, <2>8, <2>9, <2>10, <2>11, <2>12, <2>13, <2>14
<1>5. ASSUME NEW s \in Sends, Nacked(s) PROVE IInv'
  <2>1. TypeChans'
    BY <1>5 DEF Nacked, Fault, Fail, Over, Left, TypeChans, SetupPhase,
       Channels, RPCAssumption, chans, calls, closes
  <2>2. TypeCalls'
    BY <1>5 DEF Nacked, Fault, Fail, Over, Left, TypeCalls, TypeMaps,
       Unsettled, Channels, chans, calls, closes
  <2>3. TypeMaps'
    BY <1>5 DEF Nacked, Fault, Fail, Over, Left, TypeMaps, TypeCalls,
       TypeChans, OnTheWay, Ids, chans, calls, closes
  <2>4. Numbered'
    BY <1>5 DEF Nacked, Fault, Fail, Over, Left, Numbered, TypeChans,
       SetupPhase, Channels, chans, calls, closes
  <2>5. SetupPhase'
    BY <1>5 DEF Nacked, Fault, Fail, Over, Left, SetupPhase, TypeChans,
       TypeCalls, Numbered, CloseWaits, OnTheWay, Usable, chans, calls, closes
  <2>6. CloseWaits'
    BY <1>5 DEF Nacked, Fault, Fail, Over, Left, CloseWaits, TypeChans,
       Numbered, SetupPhase, Usable, chans, calls, closes
  <2>7. OnTheWay'
    BY <1>5 DEF Nacked, Fault, Fail, Over, Left, OnTheWay, TypeChans,
       TypeCalls, TypeMaps, Numbered, SetupPhase, Alive, RequestsAreWaiting,
       chans, calls, closes
  <2>8. OwnNumber'
    BY <1>5 DEF Nacked, Fault, Fail, Over, Left, OwnNumber, TypeCalls,
       OnTheWay, chans, calls, closes
  <2>9. RequestsAreWaiting'
    BY <1>5 DEF Nacked, Fault, Fail, Over, Left, RequestsAreWaiting,
       TypeCalls, TypeMaps, OnTheWay, OwnNumber, chans, calls, closes
  <2>10. Traced'
    BY <1>5 DEF Nacked, Fault, Fail, Over, Left, Traced, TypeCalls, TypeMaps,
       OnTheWay, Ids, chans, calls, closes
  <2>11. OwnReply'
    BY <1>5 DEF Nacked, Fault, Fail, Over, Left, OwnReply, TypeCalls,
       TypeMaps, chans, calls, closes
  <2>12. InTimeIds'
    BY <1>5 DEF Nacked, Fault, Fail, Over, Left, InTimeIds, TypeCalls,
       TypeMaps, OnTheWay, RequestsAreWaiting, OwnNumber, CloseWaits, Ids,
       chans, calls, closes
  <2>13. WaitsForThem'
    BY <1>5 DEF Nacked, Fault, Fail, Over, Left, WaitsForThem, InTimeIds,
       TypeChans, TypeMaps, TypeCalls, CloseWaits, Usable, SetupPhase, chans,
       calls, closes
  <2>14. ClosesAfterReplies'
    BY <1>5 DEF Nacked, Fault, Fail, Over, Left, ClosesAfterReplies,
       TypeChans, WaitsForThem, InTimeIds, CloseWaits, RequestsAreWaiting,
       Usable, ClosersIn, chans, calls, closes
  <2> QED BY <2>1, <2>2, <2>3, <2>4, <2>5, <2>6, <2>7, <2>8, <2>9, <2>10, <2>11, <2>12, <2>13, <2>14
<1>6. ASSUME NEW s \in Sends, EncodingFails(s) PROVE IInv'
  <2>1. TypeChans'
    <3>1. chan' \in [Channels -> {"none", "open", "inactive", "closed"}]
      BY <1>6 DEF EncodingFails, TypeChans
    <3>2. faults' \in 0..MaxFaults
      BY <1>6 DEF EncodingFails, Fault, TypeChans, RPCAssumption
    <3> QED BY <1>6, <3>1, <3>2 DEF EncodingFails, TypeChans, closes
  <2>2. TypeCalls'
    BY <1>6 DEF EncodingFails, Fault, Fail, Over, Left, TypeCalls, TypeMaps,
       Unsettled, Channels, chans, calls, closes
  <2>3. TypeMaps'
    BY <1>6 DEF EncodingFails, Fault, Fail, Over, Left, TypeMaps, TypeCalls,
       TypeChans, OnTheWay, Ids, chans, calls, closes
  <2>4. Numbered'
    BY <1>6 DEF EncodingFails, Fault, Fail, Over, Left, Numbered, TypeChans,
       SetupPhase, Channels, chans, calls, closes
  <2>5. SetupPhase'
    BY <1>6 DEF EncodingFails, Fault, Fail, Over, Left, SetupPhase, TypeChans,
       TypeCalls, Numbered, CloseWaits, OnTheWay, Usable, chans, calls, closes
  <2>6. CloseWaits'
    BY <1>6 DEF EncodingFails, Fault, Fail, Over, Left, CloseWaits, TypeChans,
       Numbered, SetupPhase, Usable, chans, calls, closes
  <2>7. OnTheWay'
    BY <1>6 DEF EncodingFails, Fault, Fail, Over, Left, OnTheWay, TypeChans,
       TypeCalls, TypeMaps, Numbered, SetupPhase, Alive, RequestsAreWaiting,
       chans, calls, closes
  <2>8. OwnNumber'
    BY <1>6 DEF EncodingFails, Fault, Fail, Over, Left, OwnNumber, TypeCalls,
       OnTheWay, chans, calls, closes
  <2>9. RequestsAreWaiting'
    BY <1>6 DEF EncodingFails, Fault, Fail, Over, Left, RequestsAreWaiting,
       TypeCalls, TypeMaps, OnTheWay, OwnNumber, chans, calls, closes
  <2>10. Traced'
    BY <1>6 DEF EncodingFails, Fault, Fail, Over, Left, Traced, TypeCalls,
       TypeMaps, OnTheWay, Ids, chans, calls, closes
  <2>11. OwnReply'
    BY <1>6 DEF EncodingFails, Fault, Fail, Over, Left, OwnReply, TypeCalls,
       TypeMaps, chans, calls, closes
  <2>12. InTimeIds'
    BY <1>6 DEF EncodingFails, Fault, Fail, Over, Left, InTimeIds, TypeCalls,
       TypeMaps, OnTheWay, RequestsAreWaiting, OwnNumber, CloseWaits, Ids,
       chans, calls, closes
  <2>13. WaitsForThem'
    BY <1>6 DEF EncodingFails, Fault, Fail, Over, Left, WaitsForThem,
       InTimeIds, TypeChans, TypeMaps, TypeCalls, CloseWaits, Usable,
       SetupPhase, chans, calls, closes
  <2>14. ClosesAfterReplies'
    BY <1>6 DEF EncodingFails, Fault, Fail, Over, Left, ClosesAfterReplies,
       TypeChans, WaitsForThem, InTimeIds, CloseWaits, RequestsAreWaiting,
       Usable, ClosersIn, chans, calls, closes
  <2> QED BY <2>1, <2>2, <2>3, <2>4, <2>5, <2>6, <2>7, <2>8, <2>9, <2>10, <2>11, <2>12, <2>13, <2>14
<1>7. ASSUME NEW n \in DOMAIN requests, Timeout(n) PROVE IInv'
  <2>1. TypeChans'
    BY <1>7 DEF Timeout, Forget, Fail, Over, Left, TypeChans, SetupPhase,
       Channels, RPCAssumption, chans, calls, closes
  <2>2. TypeCalls'
    BY <1>7 DEF Timeout, Forget, Fail, Over, Left, TypeCalls, TypeMaps,
       Unsettled, Channels, chans, calls, closes
  <2>3. TypeMaps'
    BY <1>7 DEF Timeout, Forget, Fail, Over, Left, TypeMaps, TypeCalls,
       TypeChans, OnTheWay, Ids, chans, calls, closes
  <2>4. Numbered'
    BY <1>7 DEF Timeout, Forget, Fail, Over, Left, Numbered, TypeChans,
       SetupPhase, Channels, chans, calls, closes
  <2>5. SetupPhase'
    BY <1>7 DEF Timeout, Forget, Fail, Over, Left, SetupPhase, TypeChans,
       TypeCalls, Numbered, CloseWaits, OnTheWay, Usable, chans, calls, closes
  <2>6. CloseWaits'
    BY <1>7 DEF Timeout, Forget, Fail, Over, Left, CloseWaits, TypeChans,
       Numbered, SetupPhase, Usable, chans, calls, closes
  <2>7. OnTheWay'
    BY <1>7 DEF Timeout, Forget, Fail, Over, Left, OnTheWay, TypeChans,
       TypeCalls, TypeMaps, Numbered, SetupPhase, Alive, RequestsAreWaiting,
       chans, calls, closes
  <2>8. OwnNumber'
    BY <1>7 DEF Timeout, Forget, Fail, Over, Left, OwnNumber, TypeCalls,
       OnTheWay, chans, calls, closes
  <2>9. RequestsAreWaiting'
    BY <1>7 DEF Timeout, Forget, Fail, Over, Left, RequestsAreWaiting,
       TypeCalls, TypeMaps, OnTheWay, OwnNumber, chans, calls, closes
  <2>10. Traced'
    BY <1>7 DEF Timeout, Forget, Fail, Over, Left, Traced, TypeCalls,
       TypeMaps, OnTheWay, Ids, chans, calls, closes
  <2>11. OwnReply'
    BY <1>7 DEF Timeout, Forget, Fail, Over, Left, OwnReply, TypeCalls,
       TypeMaps, chans, calls, closes
  <2>12. InTimeIds'
    BY <1>7 DEF Timeout, Forget, Fail, Over, Left, InTimeIds, TypeCalls,
       TypeMaps, OnTheWay, RequestsAreWaiting, OwnNumber, CloseWaits, Ids,
       chans, calls, closes
  <2>13. WaitsForThem'
    BY <1>7 DEF Timeout, Forget, Fail, Over, Left, WaitsForThem, InTimeIds,
       TypeChans, TypeMaps, TypeCalls, CloseWaits, Usable, SetupPhase, chans,
       calls, closes
  <2>14. ClosesAfterReplies'
    BY <1>7 DEF Timeout, Forget, Fail, Over, Left, ClosesAfterReplies,
       TypeChans, WaitsForThem, InTimeIds, CloseWaits, RequestsAreWaiting,
       Usable, ClosersIn, chans, calls, closes
  <2> QED BY <2>1, <2>2, <2>3, <2>4, <2>5, <2>6, <2>7, <2>8, <2>9, <2>10, <2>11, <2>12, <2>13, <2>14
<1>8. ASSUME NEW r \in asked, Reply(r) PROVE IInv'
  <2>1. TypeChans'
    BY <1>8 DEF Reply, Fault, TypeChans, SetupPhase, Channels, RPCAssumption,
       chans, calls, closes
  <2>2. TypeCalls'
    BY <1>8 DEF Reply, Fault, TypeCalls, TypeMaps, Unsettled, Channels, chans,
       calls, closes
  <2>3. TypeMaps'
    BY <1>8 DEF Reply, Fault, TypeMaps, TypeCalls, TypeChans, OnTheWay, Ids,
       chans, calls, closes
  <2>4. Numbered'
    BY <1>8 DEF Reply, Fault, Numbered, TypeChans, SetupPhase, Channels,
       chans, calls, closes
  <2>5. SetupPhase'
    BY <1>8 DEF Reply, Fault, SetupPhase, TypeChans, TypeCalls, Numbered,
       CloseWaits, OnTheWay, Usable, chans, calls, closes
  <2>6. CloseWaits'
    BY <1>8 DEF Reply, Fault, CloseWaits, TypeChans, Numbered, SetupPhase,
       Usable, chans, calls, closes
  <2>7. OnTheWay'
    BY <1>8 DEF Reply, Fault, OnTheWay, TypeChans, TypeCalls, TypeMaps,
       Numbered, SetupPhase, Alive, RequestsAreWaiting, chans, calls, closes
  <2>8. OwnNumber'
    BY <1>8 DEF Reply, Fault, OwnNumber, TypeCalls, OnTheWay, chans, calls,
       closes
  <2>9. RequestsAreWaiting'
    BY <1>8 DEF Reply, Fault, RequestsAreWaiting, TypeCalls, TypeMaps,
       OnTheWay, OwnNumber, chans, calls, closes
  <2>10. Traced'
    BY <1>8 DEF Reply, Fault, Traced, TypeCalls, TypeMaps, OnTheWay, Ids,
       chans, calls, closes
  <2>11. OwnReply'
    BY <1>8 DEF Reply, Fault, OwnReply, TypeCalls, TypeMaps, chans, calls,
       closes
  <2>12. InTimeIds'
    BY <1>8 DEF Reply, Fault, InTimeIds, TypeCalls, TypeMaps, OnTheWay,
       RequestsAreWaiting, OwnNumber, CloseWaits, Ids, chans, calls, closes
  <2>13. WaitsForThem'
    BY <1>8 DEF Reply, Fault, WaitsForThem, InTimeIds, TypeChans, TypeMaps,
       TypeCalls, CloseWaits, Usable, SetupPhase, chans, calls, closes
  <2>14. ClosesAfterReplies'
    BY <1>8 DEF Reply, Fault, ClosesAfterReplies, TypeChans, WaitsForThem,
       InTimeIds, CloseWaits, RequestsAreWaiting, Usable, ClosersIn, chans,
       calls, closes
  <2> QED BY <2>1, <2>2, <2>3, <2>4, <2>5, <2>6, <2>7, <2>8, <2>9, <2>10, <2>11, <2>12, <2>13, <2>14
<1>9. ASSUME NEW r \in replies, OnReply(r) PROVE IInv'
  <2>1. TypeChans'
    BY <1>9, ReplyMeets DEF OnReply, Over, Forget, TypeChans, SetupPhase,
       Channels, RPCAssumption, chans, calls, closes
  <2>2. TypeCalls'
    BY <1>9, ReplyMeets DEF OnReply, Over, Forget, TypeCalls, TypeMaps,
       Unsettled, Channels, chans, calls, closes
  <2>3. TypeMaps'
    BY <1>9, ReplyMeets DEF OnReply, Over, Forget, TypeMaps, TypeCalls,
       TypeChans, OnTheWay, Ids, chans, calls, closes
  <2>4. Numbered'
    BY <1>9, ReplyMeets DEF OnReply, Over, Forget, Numbered, TypeChans,
       SetupPhase, Channels, chans, calls, closes
  <2>5. SetupPhase'
    BY <1>9, ReplyMeets DEF OnReply, Over, Forget, SetupPhase, TypeChans,
       TypeCalls, Numbered, CloseWaits, OnTheWay, Usable, chans, calls, closes
  <2>6. CloseWaits'
    BY <1>9, ReplyMeets DEF OnReply, Over, Forget, CloseWaits, TypeChans,
       Numbered, SetupPhase, Usable, chans, calls, closes
  <2>7. OnTheWay'
    BY <1>9, ReplyMeets DEF OnReply, Over, Forget, OnTheWay, TypeChans,
       TypeCalls, TypeMaps, Numbered, SetupPhase, Alive, RequestsAreWaiting,
       chans, calls, closes
  <2>8. OwnNumber'
    BY <1>9, ReplyMeets DEF OnReply, Over, Forget, OwnNumber, TypeCalls,
       OnTheWay, chans, calls, closes
  <2>9. RequestsAreWaiting'
    BY <1>9, ReplyMeets DEF OnReply, Over, Forget, RequestsAreWaiting,
       TypeCalls, TypeMaps, OnTheWay, OwnNumber, chans, calls, closes
  <2>10. Traced'
    BY <1>9, ReplyMeets DEF OnReply, Over, Forget, Traced, TypeCalls,
       TypeMaps, OnTheWay, Ids, chans, calls, closes
  <2>11. OwnReply'
    BY <1>9, ReplyMeets DEF OnReply, Over, Forget, OwnReply, TypeCalls,
       TypeMaps, chans, calls, closes
  <2>12. InTimeIds'
    BY <1>9, ReplyMeets DEF OnReply, Over, Forget, InTimeIds, TypeCalls,
       TypeMaps, OnTheWay, RequestsAreWaiting, OwnNumber, CloseWaits, Ids,
       chans, calls, closes
  <2>13. WaitsForThem'
    BY <1>9, ReplyMeets DEF OnReply, Over, Forget, WaitsForThem, InTimeIds,
       TypeChans, TypeMaps, TypeCalls, CloseWaits, Usable, SetupPhase, chans,
       calls, closes
  <2>14. ClosesAfterReplies'
    BY <1>9, ReplyMeets DEF OnReply, Over, Forget, ClosesAfterReplies,
       TypeChans, WaitsForThem, InTimeIds, CloseWaits, RequestsAreWaiting,
       Usable, ClosersIn, chans, calls, closes
  <2> QED BY <2>1, <2>2, <2>3, <2>4, <2>5, <2>6, <2>7, <2>8, <2>9, <2>10, <2>11, <2>12, <2>13, <2>14
<1>10. ASSUME SetupAcquired PROVE IInv'
  <2>1. TypeChans'
    BY <1>10, NextChannel DEF SetupAcquired, TypeChans, SetupPhase, Channels,
       RPCAssumption, chans, calls, closes
  <2>2. TypeCalls'
    BY <1>10, NextChannel DEF SetupAcquired, TypeCalls, TypeMaps, Unsettled,
       Channels, chans, calls, closes
  <2>3. TypeMaps'
    BY <1>10, NextChannel DEF SetupAcquired, TypeMaps, TypeCalls, TypeChans,
       OnTheWay, Ids, chans, calls, closes
  <2>4. Numbered'
    <3>1. /\ ch' = ch + 1 /\ ch \in Nat /\ ch + 1 \in Channels /\ ready' = ready
          /\ chan' = [chan EXCEPT ![ch + 1] = "open"]
      BY <1>10, NextChannel DEF SetupAcquired
    <3>2. \A h \in Channels : h # ch + 1 => chan'[h] = chan[h] /\ chan[h] # "open"
      BY <1>10, <3>1 DEF SetupAcquired, Numbered, SetupPhase, Usable, TypeChans, Channels
    <3>3. chan'[ch + 1] = "open" /\ Channels \subseteq Nat
      BY <3>1 DEF TypeChans, Channels
    <3> QED BY <3>1, <3>2, <3>3 DEF Numbered
  <2>5. SetupPhase'
    BY <1>10, NextChannel DEF SetupAcquired, SetupPhase, TypeChans, TypeCalls,
       Numbered, CloseWaits, OnTheWay, Usable, chans, calls, closes
  <2>6. CloseWaits'
    BY <1>10, NextChannel DEF SetupAcquired, CloseWaits, TypeChans, Numbered,
       SetupPhase, Usable, chans, calls, closes
  <2>7. OnTheWay'
    BY <1>10, NextChannel DEF SetupAcquired, OnTheWay, TypeChans, TypeCalls,
       TypeMaps, Numbered, SetupPhase, Alive, RequestsAreWaiting, chans,
       calls, closes
  <2>8. OwnNumber'
    BY <1>10, NextChannel DEF SetupAcquired, OwnNumber, TypeCalls, OnTheWay,
       chans, calls, closes
  <2>9. RequestsAreWaiting'
    BY <1>10, NextChannel DEF SetupAcquired, RequestsAreWaiting, TypeCalls,
       TypeMaps, OnTheWay, OwnNumber, chans, calls, closes
  <2>10. Traced'
    BY <1>10, NextChannel DEF SetupAcquired, Traced, TypeCalls, TypeMaps,
       OnTheWay, Ids, chans, calls, closes
  <2>11. OwnReply'
    BY <1>10, NextChannel DEF SetupAcquired, OwnReply, TypeCalls, TypeMaps,
       chans, calls, closes
  <2>12. InTimeIds'
    BY <1>10, NextChannel DEF SetupAcquired, InTimeIds, TypeCalls, TypeMaps,
       OnTheWay, RequestsAreWaiting, OwnNumber, CloseWaits, Ids, chans, calls,
       closes
  <2>13. WaitsForThem'
    BY <1>10, NextChannel DEF SetupAcquired, WaitsForThem, InTimeIds,
       TypeChans, TypeMaps, TypeCalls, CloseWaits, Usable, SetupPhase, chans,
       calls, closes
  <2>14. ClosesAfterReplies'
    BY <1>10, NextChannel DEF SetupAcquired, ClosesAfterReplies, TypeChans,
       WaitsForThem, InTimeIds, CloseWaits, RequestsAreWaiting, Usable,
       ClosersIn, chans, calls, closes
  <2> QED BY <2>1, <2>2, <2>3, <2>4, <2>5, <2>6, <2>7, <2>8, <2>9, <2>10, <2>11, <2>12, <2>13, <2>14
<1>11. ASSUME AcquireFails PROVE IInv'
  <2>1. TypeChans'
    BY <1>11 DEF AcquireFails, Fault, TypeChans, SetupPhase, Channels,
       RPCAssumption, chans, calls, closes
  <2>2. TypeCalls'
    BY <1>11 DEF AcquireFails, Fault, TypeCalls, TypeMaps, Unsettled,
       Channels, chans, calls, closes
  <2>3. TypeMaps'
    BY <1>11 DEF AcquireFails, Fault, TypeMaps, TypeCalls, TypeChans,
       OnTheWay, Ids, chans, calls, closes
  <2>4. Numbered'
    BY <1>11 DEF AcquireFails, Fault, Numbered, TypeChans, SetupPhase,
       Channels, chans, calls, closes
  <2>5. SetupPhase'
    BY <1>11 DEF AcquireFails, Fault, SetupPhase, TypeChans, TypeCalls,
       Numbered, CloseWaits, OnTheWay, Usable, chans, calls, closes
  <2>6. CloseWaits'
    BY <1>11 DEF AcquireFails, Fault, CloseWaits, TypeChans, Numbered,
       SetupPhase, Usable, chans, calls, closes
  <2>7. OnTheWay'
    BY <1>11 DEF AcquireFails, Fault, OnTheWay, TypeChans, TypeCalls,
       TypeMaps, Numbered, SetupPhase, Alive, RequestsAreWaiting, chans,
       calls, closes
  <2>8. OwnNumber'
    BY <1>11 DEF AcquireFails, Fault, OwnNumber, TypeCalls, OnTheWay, chans,
       calls, closes
  <2>9. RequestsAreWaiting'
    BY <1>11 DEF AcquireFails, Fault, RequestsAreWaiting, TypeCalls, TypeMaps,
       OnTheWay, OwnNumber, chans, calls, closes
  <2>10. Traced'
    BY <1>11 DEF AcquireFails, Fault, Traced, TypeCalls, TypeMaps, OnTheWay,
       Ids, chans, calls, closes
  <2>11. OwnReply'
    BY <1>11 DEF AcquireFails, Fault, OwnReply, TypeCalls, TypeMaps, chans,
       calls, closes
  <2>12. InTimeIds'
    BY <1>11 DEF AcquireFails, Fault, InTimeIds, TypeCalls, TypeMaps,
       OnTheWay, RequestsAreWaiting, OwnNumber, CloseWaits, Ids, chans, calls,
       closes
  <2>13. WaitsForThem'
    BY <1>11 DEF AcquireFails, Fault, WaitsForThem, InTimeIds, TypeChans,
       TypeMaps, TypeCalls, CloseWaits, Usable, SetupPhase, chans, calls,
       closes
  <2>14. ClosesAfterReplies'
    BY <1>11 DEF AcquireFails, Fault, ClosesAfterReplies, TypeChans,
       WaitsForThem, InTimeIds, CloseWaits, RequestsAreWaiting, Usable,
       ClosersIn, chans, calls, closes
  <2> QED BY <2>1, <2>2, <2>3, <2>4, <2>5, <2>6, <2>7, <2>8, <2>9, <2>10, <2>11, <2>12, <2>13, <2>14
<1>12. ASSUME SetupDeclared PROVE IInv'
  <2>1. TypeChans'
    BY <1>12 DEF SetupDeclared, TypeChans, SetupPhase, Channels,
       RPCAssumption, chans, calls, closes
  <2>2. TypeCalls'
    BY <1>12 DEF SetupDeclared, TypeCalls, TypeMaps, Unsettled, Channels,
       chans, calls, closes
  <2>3. TypeMaps'
    BY <1>12 DEF SetupDeclared, TypeMaps, TypeCalls, TypeChans, OnTheWay, Ids,
       chans, calls, closes
  <2>4. Numbered'
    BY <1>12 DEF SetupDeclared, Numbered, TypeChans, SetupPhase, Channels,
       chans, calls, closes
  <2>5. SetupPhase'
    BY <1>12 DEF SetupDeclared, SetupPhase, TypeChans, TypeCalls, Numbered,
       CloseWaits, OnTheWay, Usable, chans, calls, closes
  <2>6. CloseWaits'
    BY <1>12 DEF SetupDeclared, CloseWaits, TypeChans, Numbered, SetupPhase,
       Usable, chans, calls, closes
  <2>7. OnTheWay'
    BY <1>12 DEF SetupDeclared, OnTheWay, TypeChans, TypeCalls, TypeMaps,
       Numbered, SetupPhase, Alive, RequestsAreWaiting, chans, calls, closes
  <2>8. OwnNumber'
    BY <1>12 DEF SetupDeclared, OwnNumber, TypeCalls, OnTheWay, chans, calls,
       closes
  <2>9. RequestsAreWaiting'
    BY <1>12 DEF SetupDeclared, RequestsAreWaiting, TypeCalls, TypeMaps,
       OnTheWay, OwnNumber, chans, calls, closes
  <2>10. Traced'
    BY <1>12 DEF SetupDeclared, Traced, TypeCalls, TypeMaps, OnTheWay, Ids,
       chans, calls, closes
  <2>11. OwnReply'
    BY <1>12 DEF SetupDeclared, OwnReply, TypeCalls, TypeMaps, chans, calls,
       closes
  <2>12. InTimeIds'
    BY <1>12 DEF SetupDeclared, InTimeIds, TypeCalls, TypeMaps, OnTheWay,
       RequestsAreWaiting, OwnNumber, CloseWaits, Ids, chans, calls, closes
  <2>13. WaitsForThem'
    BY <1>12 DEF SetupDeclared, WaitsForThem, InTimeIds, TypeChans, TypeMaps,
       TypeCalls, CloseWaits, Usable, SetupPhase, chans, calls, closes
  <2>14. ClosesAfterReplies'
    BY <1>12 DEF SetupDeclared, ClosesAfterReplies, TypeChans, WaitsForThem,
       InTimeIds, CloseWaits, RequestsAreWaiting, Usable, ClosersIn, chans,
       calls, closes
  <2> QED BY <2>1, <2>2, <2>3, <2>4, <2>5, <2>6, <2>7, <2>8, <2>9, <2>10, <2>11, <2>12, <2>13, <2>14
<1>13. ASSUME SetupResolves, Usable PROVE IInv'
  <2>0. /\ TypeCalls' /\ OnTheWay' /\ OwnNumber' /\ RequestsAreWaiting' /\ Traced' /\ OwnReply'
        /\ asked' \subseteq [id : Ids, of : Sends, on : Channels]
        /\ \A n \in inTime : n <= id'
        /\ \A t \in Sends : send'[t] = "publish" => number'[t] \notin inTime
        /\ \A t \in Sends \ InSetup : send'[t] = send[t]
        /\ \A t \in InSetup : send'[t] = "publish"
    BY <1>13, PublishStep DEF SetupResolves, SetupOver, InSetup, SetupPhase
  <2>1. TypeChans'
    BY <1>13, <2>0 DEF SetupResolves, SetupOver, Snapshot, ClosersIn, Moved,
       InSetup, TypeChans, SetupPhase, Channels, RPCAssumption, chans, calls,
       closes
  <2>2. TypeCalls'
    BY <1>13, <2>0 DEF SetupResolves, SetupOver, Snapshot, ClosersIn, Moved,
       InSetup, TypeCalls, TypeMaps, Unsettled, Channels, chans, calls, closes
  <2>3. TypeMaps'
    BY <1>13, <2>0 DEF SetupResolves, SetupOver, Snapshot, ClosersIn, Moved,
       InSetup, TypeMaps, TypeCalls, TypeChans, OnTheWay, Ids, chans, calls,
       closes
  <2>4. Numbered'
    BY <1>13, <2>0 DEF SetupResolves, SetupOver, Snapshot, ClosersIn, Moved,
       InSetup, Numbered, TypeChans, SetupPhase, Channels, chans, calls,
       closes
  <2>5. SetupPhase'
    BY <1>13, <2>0 DEF SetupResolves, SetupOver, Snapshot, ClosersIn, Moved,
       InSetup, SetupPhase, TypeChans, TypeCalls, Numbered, CloseWaits,
       OnTheWay, Usable, chans, calls, closes
  <2>6. CloseWaits'
    BY <1>13, <2>0 DEF SetupResolves, SetupOver, Snapshot, ClosersIn, Moved,
       InSetup, CloseWaits, TypeChans, Numbered, SetupPhase, Usable, chans,
       calls, closes
  <2>7. OnTheWay'
    BY <1>13, <2>0 DEF SetupResolves, SetupOver, Snapshot, ClosersIn, Moved,
       InSetup, OnTheWay, TypeChans, TypeCalls, TypeMaps, Numbered,
       SetupPhase, Alive, RequestsAreWaiting, chans, calls, closes
  <2>8. OwnNumber'
    BY <1>13, <2>0 DEF SetupResolves, SetupOver, Snapshot, ClosersIn, Moved,
       InSetup, OwnNumber, TypeCalls, OnTheWay, chans, calls, closes
  <2>9. RequestsAreWaiting'
    BY <1>13, <2>0 DEF SetupResolves, SetupOver, Snapshot, ClosersIn, Moved,
       InSetup, RequestsAreWaiting, TypeCalls, TypeMaps, OnTheWay, OwnNumber,
       chans, calls, closes
  <2>10. Traced'
    BY <1>13, <2>0 DEF SetupResolves, SetupOver, Snapshot, ClosersIn, Moved,
       InSetup, Traced, TypeCalls, TypeMaps, OnTheWay, Ids, chans, calls,
       closes
  <2>11. OwnReply'
    BY <1>13, <2>0 DEF SetupResolves, SetupOver, Snapshot, ClosersIn, Moved,
       InSetup, OwnReply, TypeCalls, TypeMaps, chans, calls, closes
  <2>12. InTimeIds'
    BY <1>13, <2>0 DEF SetupResolves, SetupOver, Snapshot, ClosersIn, Moved,
       InSetup, InTimeIds, TypeCalls, TypeMaps, OnTheWay, RequestsAreWaiting,
       OwnNumber, CloseWaits, Ids, chans, calls, closes
  <2>13. WaitsForThem'
    BY <1>13, <2>0 DEF SetupResolves, SetupOver, Snapshot, ClosersIn, Moved,
       InSetup, WaitsForThem, InTimeIds, TypeChans, TypeMaps, TypeCalls,
       CloseWaits, Usable, SetupPhase, chans, calls, closes
  <2>14. ClosesAfterReplies'
    BY <1>13, <2>0 DEF SetupResolves, SetupOver, Snapshot, ClosersIn, Moved,
       InSetup, ClosesAfterReplies, TypeChans, WaitsForThem, InTimeIds,
       CloseWaits, RequestsAreWaiting, Usable, ClosersIn, chans, calls, closes
  <2> QED BY <2>1, <2>2, <2>3, <2>4, <2>5, <2>6, <2>7, <2>8, <2>9, <2>10, <2>11, <2>12, <2>13, <2>14
<1>14. ASSUME SetupResolves, ~Usable PROVE IInv'
  <2>1. TypeChans'
    BY <1>14 DEF SetupResolves, SetupOver, Snapshot, ClosersIn, Moved,
       InSetup, Fail, Over, Left, TypeChans, SetupPhase, Channels,
       RPCAssumption, chans, calls, closes
  <2>2. TypeCalls'
    BY <1>14 DEF SetupResolves, SetupOver, Snapshot, ClosersIn, Moved,
       InSetup, Fail, Over, Left, TypeCalls, TypeMaps, Unsettled, Channels,
       chans, calls, closes
  <2>3. TypeMaps'
    BY <1>14 DEF SetupResolves, SetupOver, Snapshot, ClosersIn, Moved,
       InSetup, Fail, Over, Left, TypeMaps, TypeCalls, TypeChans, OnTheWay,
       Ids, chans, calls, closes
  <2>4. Numbered'
    BY <1>14 DEF SetupResolves, SetupOver, Snapshot, ClosersIn, Moved,
       InSetup, Fail, Over, Left, Numbered, TypeChans, SetupPhase, Channels,
       chans, calls, closes
  <2>5. SetupPhase'
    BY <1>14 DEF SetupResolves, SetupOver, Snapshot, ClosersIn, Moved,
       InSetup, Fail, Over, Left, SetupPhase, TypeChans, TypeCalls, Numbered,
       CloseWaits, OnTheWay, Usable, chans, calls, closes
  <2>6. CloseWaits'
    BY <1>14 DEF SetupResolves, SetupOver, Snapshot, ClosersIn, Moved,
       InSetup, Fail, Over, Left, CloseWaits, TypeChans, Numbered, SetupPhase,
       Usable, chans, calls, closes
  <2>7. OnTheWay'
    BY <1>14 DEF SetupResolves, SetupOver, Snapshot, ClosersIn, Moved,
       InSetup, Fail, Over, Left, OnTheWay, TypeChans, TypeCalls, TypeMaps,
       Numbered, SetupPhase, Alive, RequestsAreWaiting, chans, calls, closes
  <2>8. OwnNumber'
    BY <1>14 DEF SetupResolves, SetupOver, Snapshot, ClosersIn, Moved,
       InSetup, Fail, Over, Left, OwnNumber, TypeCalls, OnTheWay, chans,
       calls, closes
  <2>9. RequestsAreWaiting'
    BY <1>14 DEF SetupResolves, SetupOver, Snapshot, ClosersIn, Moved,
       InSetup, Fail, Over, Left, RequestsAreWaiting, TypeCalls, TypeMaps,
       OnTheWay, OwnNumber, chans, calls, closes
  <2>10. Traced'
    BY <1>14 DEF SetupResolves, SetupOver, Snapshot, ClosersIn, Moved,
       InSetup, Fail, Over, Left, Traced, TypeCalls, TypeMaps, OnTheWay, Ids,
       chans, calls, closes
  <2>11. OwnReply'
    BY <1>14 DEF SetupResolves, SetupOver, Snapshot, ClosersIn, Moved,
       InSetup, Fail, Over, Left, OwnReply, TypeCalls, TypeMaps, chans, calls,
       closes
  <2>12. InTimeIds'
    BY <1>14 DEF SetupResolves, SetupOver, Snapshot, ClosersIn, Moved,
       InSetup, Fail, Over, Left, InTimeIds, TypeCalls, TypeMaps, OnTheWay,
       RequestsAreWaiting, OwnNumber, CloseWaits, Ids, chans, calls, closes
  <2>13. WaitsForThem'
    BY <1>14 DEF SetupResolves, SetupOver, Snapshot, ClosersIn, Moved,
       InSetup, Fail, Over, Left, WaitsForThem, InTimeIds, TypeChans,
       TypeMaps, TypeCalls, CloseWaits, Usable, SetupPhase, chans, calls,
       closes
  <2>14. ClosesAfterReplies'
    BY <1>14 DEF SetupResolves, SetupOver, Snapshot, ClosersIn, Moved,
       InSetup, Fail, Over, Left, ClosesAfterReplies, TypeChans, WaitsForThem,
       InTimeIds, CloseWaits, RequestsAreWaiting, Usable, ClosersIn, chans,
       calls, closes
  <2> QED BY <2>1, <2>2, <2>3, <2>4, <2>5, <2>6, <2>7, <2>8, <2>9, <2>10, <2>11, <2>12, <2>13, <2>14
<1>15. ASSUME SetupRejects PROVE IInv'
  <2>1. TypeChans'
    BY <1>15 DEF SetupRejects, SetupOver, ClosersIn, Moved, InSetup, Fail,
       Over, Left, TypeChans, SetupPhase, Channels, RPCAssumption, chans,
       calls, closes
  <2>2. TypeCalls'
    BY <1>15 DEF SetupRejects, SetupOver, ClosersIn, Moved, InSetup, Fail,
       Over, Left, TypeCalls, TypeMaps, Unsettled, Channels, chans, calls,
       closes
  <2>3. TypeMaps'
    BY <1>15 DEF SetupRejects, SetupOver, ClosersIn, Moved, InSetup, Fail,
       Over, Left, TypeMaps, TypeCalls, TypeChans, OnTheWay, Ids, chans,
       calls, closes
  <2>4. Numbered'
    BY <1>15 DEF SetupRejects, SetupOver, ClosersIn, Moved, InSetup, Fail,
       Over, Left, Numbered, TypeChans, SetupPhase, Channels, chans, calls,
       closes
  <2>5. SetupPhase'
    BY <1>15 DEF SetupRejects, SetupOver, ClosersIn, Moved, InSetup, Fail,
       Over, Left, SetupPhase, TypeChans, TypeCalls, Numbered, CloseWaits,
       OnTheWay, Usable, chans, calls, closes
  <2>6. CloseWaits'
    BY <1>15 DEF SetupRejects, SetupOver, ClosersIn, Moved, InSetup, Fail,
       Over, Left, CloseWaits, TypeChans, Numbered, SetupPhase, Usable, chans,
       calls, closes
  <2>7. OnTheWay'
    BY <1>15 DEF SetupRejects, SetupOver, ClosersIn, Moved, InSetup, Fail,
       Over, Left, OnTheWay, TypeChans, TypeCalls, TypeMaps, Numbered,
       SetupPhase, Alive, RequestsAreWaiting, chans, calls, closes
  <2>8. OwnNumber'
    BY <1>15 DEF SetupRejects, SetupOver, ClosersIn, Moved, InSetup, Fail,
       Over, Left, OwnNumber, TypeCalls, OnTheWay, chans, calls, closes
  <2>9. RequestsAreWaiting'
    BY <1>15 DEF SetupRejects, SetupOver, ClosersIn, Moved, InSetup, Fail,
       Over, Left, RequestsAreWaiting, TypeCalls, TypeMaps, OnTheWay,
       OwnNumber, chans, calls, closes
  <2>10. Traced'
    BY <1>15 DEF SetupRejects, SetupOver, ClosersIn, Moved, InSetup, Fail,
       Over, Left, Traced, TypeCalls, TypeMaps, OnTheWay, Ids, chans, calls,
       closes
  <2>11. OwnReply'
    BY <1>15 DEF SetupRejects, SetupOver, ClosersIn, Moved, InSetup, Fail,
       Over, Left, OwnReply, TypeCalls, TypeMaps, chans, calls, closes
  <2>12. InTimeIds'
    BY <1>15 DEF SetupRejects, SetupOver, ClosersIn, Moved, InSetup, Fail,
       Over, Left, InTimeIds, TypeCalls, TypeMaps, OnTheWay,
       RequestsAreWaiting, OwnNumber, CloseWaits, Ids, chans, calls, closes
  <2>13. WaitsForThem'
    BY <1>15 DEF SetupRejects, SetupOver, ClosersIn, Moved, InSetup, Fail,
       Over, Left, WaitsForThem, InTimeIds, TypeChans, TypeMaps, TypeCalls,
       CloseWaits, Usable, SetupPhase, chans, calls, closes
  <2>14. ClosesAfterReplies'
    BY <1>15 DEF SetupRejects, SetupOver, ClosersIn, Moved, InSetup, Fail,
       Over, Left, ClosesAfterReplies, TypeChans, WaitsForThem, InTimeIds,
       CloseWaits, RequestsAreWaiting, Usable, ClosersIn, chans, calls, closes
  <2> QED BY <2>1, <2>2, <2>3, <2>4, <2>5, <2>6, <2>7, <2>8, <2>9, <2>10, <2>11, <2>12, <2>13, <2>14
<1>16. ASSUME NEW g \in Channels, ChannelLost(g) \/ ChannelCloseOk(g) PROVE IInv'
  <2>0. /\ chan[g] \in Alive /\ chan' = [chan EXCEPT ![g] = "closed"]
        /\ pendingSetup' = IF pendingSetup = "declare" /\ ch = g THEN "failing" ELSE pendingSetup
        /\ closing' = Moved(IF g = ch THEN ClosersIn("channel") ELSE {}, "returned")
        /\ UNCHANGED <<ch, ready, id, active, inTime>>
        /\ \A s \in Sends :
             \/ send'[s] \in {"again", "rejected"} /\ number'[s] = 0
             \/ /\ send'[s] = send[s] /\ number'[s] = number[s] /\ via'[s] = via[s]
                /\ send[s] # "waiting" /\ ~(send[s] = "publish" /\ via[s] = g)
    <3>1. Ends(g) /\ chan[g] \in Alive
      BY <1>16 DEF ChannelLost, ChannelCloseOk, Alive
    <3> DEFINE S == {s \in Sends : send[s] = "publish" /\ via[s] = g} \cup {requests[n] : n \in DOMAIN requests}
    <3>2. Fail(S)
      BY <3>1 DEF Ends, ClearedIds
    <3>3. \A s \in Sends : send[s] = "waiting" => s \in S
      BY WaitingInMap
    <3>4. \A s \in Sends \ S : send[s] # "waiting" /\ ~(send[s] = "publish" /\ via[s] = g)
      BY <3>3
    <3> HIDE DEF S
    <3>5. \A s \in Sends : s \in S => send'[s] \in {"again", "rejected"} /\ number'[s] = 0
      BY <3>2 DEF Fail, Over
    <3>6. \A s \in Sends \ S : send'[s] = send[s] /\ number'[s] = number[s] /\ via'[s] = via[s]
      BY <3>2 DEF Fail, Over
    <3> QED BY <3>1, <3>4, <3>5, <3>6 DEF Ends
  <2>1. TypeChans'
    BY <1>16, <2>0 DEF Moved, ClosersIn, Fault, ChannelLost, ChannelCloseOk,
       TypeChans, RPCAssumption
  <2>2. TypeCalls'
    BY SMTT(30), <1>16 DEF ChannelLost, ChannelCloseOk, Ends, ClearedIds, Fault,
       ClosersIn, Moved, Fail, Over, Left, TypeCalls, TypeMaps, Unsettled,
       Channels, chans, calls, closes
  <2>3. TypeMaps'
    BY <1>16 DEF ChannelLost, ChannelCloseOk, Ends, ClearedIds, Fault,
       ClosersIn, Moved, Fail, Over, Left, TypeMaps, TypeCalls, TypeChans,
       OnTheWay, Ids, chans, calls, closes
  <2>4. Numbered'
    BY <2>0 DEF Numbered, TypeChans, Alive
  <2>5. SetupPhase'
    BY <2>0 DEF SetupPhase, TypeChans, Usable, Numbered
  <2>6. CloseWaits'
    BY <2>0 DEF CloseWaits, Moved, ClosersIn, TypeChans, Usable
  <2>7. OnTheWay'
    BY <2>0 DEF OnTheWay, TypeChans, TypeCalls
  <2>8. OwnNumber'
    BY <2>0 DEF OwnNumber
  <2>9. RequestsAreWaiting'
    BY <1>16 DEF ChannelLost, ChannelCloseOk, Ends, ClearedIds, Fault,
       ClosersIn, Moved, Fail, Over, Left, RequestsAreWaiting, TypeCalls,
       TypeMaps, OnTheWay, OwnNumber, chans, calls, closes
  <2>10. Traced'
    BY <1>16 DEF ChannelLost, ChannelCloseOk, Ends, ClearedIds, Fault,
       ClosersIn, Moved, Fail, Over, Left, Traced, TypeCalls, TypeMaps,
       OnTheWay, Ids, chans, calls, closes
  <2>11. OwnReply'
    BY <1>16 DEF ChannelLost, ChannelCloseOk, Ends, ClearedIds, Fault,
       ClosersIn, Moved, Fail, Over, Left, OwnReply, TypeCalls, TypeMaps,
       chans, calls, closes
  <2>12. InTimeIds'
    BY <2>0 DEF InTimeIds
  <2>13. WaitsForThem'
    BY <1>16 DEF ChannelLost, ChannelCloseOk, Ends, ClearedIds, Fault,
       ClosersIn, Moved, Fail, Over, Left, WaitsForThem, InTimeIds, TypeChans,
       TypeMaps, TypeCalls, CloseWaits, Usable, SetupPhase, chans, calls,
       closes
  <2>14. ClosesAfterReplies'
    BY <1>16 DEF ChannelLost, ChannelCloseOk, Ends, ClearedIds, Fault,
       ClosersIn, Moved, Fail, Over, Left, ClosesAfterReplies, TypeChans,
       WaitsForThem, InTimeIds, CloseWaits, RequestsAreWaiting, Usable,
       ClosersIn, chans, calls, closes
  <2> QED BY <2>1, <2>2, <2>3, <2>4, <2>5, <2>6, <2>7, <2>8, <2>9, <2>10, <2>11, <2>12, <2>13, <2>14
<1>17. ASSUME NEW k \in Closers, Close(k) PROVE IInv'
  <2>1. TypeChans'
    BY <1>17 DEF Close, FirstWait, Snapshot, TypeChans, SetupPhase, Channels,
       RPCAssumption, chans, calls, closes
  <2>2. TypeCalls'
    BY <1>17 DEF Close, FirstWait, Snapshot, TypeCalls, TypeMaps, Unsettled,
       Channels, chans, calls, closes
  <2>3. TypeMaps'
    BY <1>17 DEF Close, FirstWait, Snapshot, TypeMaps, TypeCalls, TypeChans,
       OnTheWay, Ids, chans, calls, closes
  <2>4. Numbered'
    BY <1>17 DEF Close, FirstWait, Snapshot, Numbered, TypeChans, SetupPhase,
       Channels, chans, calls, closes
  <2>5. SetupPhase'
    BY <1>17 DEF Close, FirstWait, Snapshot, SetupPhase, TypeChans, TypeCalls,
       Numbered, CloseWaits, OnTheWay, Usable, chans, calls, closes
  <2>6. CloseWaits'
    BY <1>17 DEF Close, FirstWait, Snapshot, CloseWaits, TypeChans, Numbered,
       SetupPhase, Usable, chans, calls, closes
  <2>7. OnTheWay'
    BY <1>17 DEF Close, FirstWait, Snapshot, OnTheWay, TypeChans, TypeCalls,
       TypeMaps, Numbered, SetupPhase, Alive, RequestsAreWaiting, chans,
       calls, closes
  <2>8. OwnNumber'
    BY <1>17 DEF Close, FirstWait, Snapshot, OwnNumber, TypeCalls, OnTheWay,
       chans, calls, closes
  <2>9. RequestsAreWaiting'
    BY <1>17 DEF Close, FirstWait, Snapshot, RequestsAreWaiting, TypeCalls,
       TypeMaps, OnTheWay, OwnNumber, chans, calls, closes
  <2>10. Traced'
    BY <1>17 DEF Close, FirstWait, Snapshot, Traced, TypeCalls, TypeMaps,
       OnTheWay, Ids, chans, calls, closes
  <2>11. OwnReply'
    BY <1>17 DEF Close, FirstWait, Snapshot, OwnReply, TypeCalls, TypeMaps,
       chans, calls, closes
  <2>12. InTimeIds'
    <3>1. \A n \in DOMAIN requests : n <= id
      BY DEF TypeMaps, RequestsAreWaiting, OnTheWay, TypeCalls, Ids
    <3>2. \A s \in Sends : send[s] = "publish" => number[s] \notin DOMAIN requests
      BY DEF TypeMaps, RequestsAreWaiting, OwnNumber, TypeCalls, Ids
    <3> QED BY <1>17, <3>1, <3>2 DEF Close, InTimeIds, calls
  <2>13. WaitsForThem'
    BY <1>17 DEF Close, FirstWait, Snapshot, WaitsForThem, InTimeIds,
       TypeChans, TypeMaps, TypeCalls, CloseWaits, Usable, SetupPhase, chans,
       calls, closes
  <2>14. ClosesAfterReplies'
    BY <1>17 DEF Close, FirstWait, Snapshot, ClosesAfterReplies, TypeChans,
       WaitsForThem, InTimeIds, CloseWaits, RequestsAreWaiting, Usable,
       ClosersIn, chans, calls, closes
  <2> QED BY <2>1, <2>2, <2>3, <2>4, <2>5, <2>6, <2>7, <2>8, <2>9, <2>10, <2>11, <2>12, <2>13, <2>14
<1>18. ASSUME NEW k \in Closers, CloseChannel(k) PROVE IInv'
  <2>1. TypeChans'
    BY <1>18 DEF CloseChannel, CloserReady, Usable, TypeChans, SetupPhase,
       Channels, RPCAssumption, chans, calls, closes
  <2>2. TypeCalls'
    BY <1>18 DEF CloseChannel, CloserReady, Usable, TypeCalls, TypeMaps,
       Unsettled, Channels, chans, calls, closes
  <2>3. TypeMaps'
    BY <1>18 DEF CloseChannel, CloserReady, Usable, TypeMaps, TypeCalls,
       TypeChans, OnTheWay, Ids, chans, calls, closes
  <2>4. Numbered'
    BY <1>18 DEF CloseChannel, CloserReady, Usable, Numbered, TypeChans,
       SetupPhase, Channels, chans, calls, closes
  <2>5. SetupPhase'
    BY <1>18 DEF CloseChannel, CloserReady, Usable, SetupPhase, TypeChans,
       TypeCalls, Numbered, CloseWaits, OnTheWay, Usable, chans, calls, closes
  <2>6. CloseWaits'
    BY <1>18 DEF CloseChannel, CloserReady, Usable, CloseWaits, TypeChans,
       Numbered, SetupPhase, Usable, chans, calls, closes
  <2>7. OnTheWay'
    <3>1. \A g \in Channels : chan[g] \in Alive => chan'[g] \in Alive
      BY <1>18 DEF CloseChannel, TypeChans, Alive
    <3>2. UNCHANGED <<calls, id, ready>>
      BY <1>18 DEF CloseChannel
    <3> QED BY <3>1, <3>2 DEF OnTheWay, TypeChans, TypeCalls, calls
  <2>8. OwnNumber'
    BY <1>18 DEF CloseChannel, CloserReady, Usable, OwnNumber, TypeCalls,
       OnTheWay, chans, calls, closes
  <2>9. RequestsAreWaiting'
    BY <1>18 DEF CloseChannel, CloserReady, Usable, RequestsAreWaiting,
       TypeCalls, TypeMaps, OnTheWay, OwnNumber, chans, calls, closes
  <2>10. Traced'
    BY <1>18 DEF CloseChannel, CloserReady, Usable, Traced, TypeCalls,
       TypeMaps, OnTheWay, Ids, chans, calls, closes
  <2>11. OwnReply'
    BY <1>18 DEF CloseChannel, CloserReady, Usable, OwnReply, TypeCalls,
       TypeMaps, chans, calls, closes
  <2>12. InTimeIds'
    BY <1>18 DEF CloseChannel, CloserReady, Usable, InTimeIds, TypeCalls,
       TypeMaps, OnTheWay, RequestsAreWaiting, OwnNumber, CloseWaits, Ids,
       chans, calls, closes
  <2>13. WaitsForThem'
    BY <1>18 DEF CloseChannel, CloserReady, Usable, WaitsForThem, InTimeIds,
       TypeChans, TypeMaps, TypeCalls, CloseWaits, Usable, SetupPhase, chans,
       calls, closes
  <2>14. ClosesAfterReplies'
    BY <1>18 DEF CloseChannel, CloserReady, Usable, ClosesAfterReplies,
       TypeChans, WaitsForThem, InTimeIds, CloseWaits, RequestsAreWaiting,
       Usable, ClosersIn, chans, calls, closes
  <2> QED BY <2>1, <2>2, <2>3, <2>4, <2>5, <2>6, <2>7, <2>8, <2>9, <2>10, <2>11, <2>12, <2>13, <2>14
<1> QED BY <1>0, <1>1, <1>2, <1>3, <1>4, <1>5, <1>6, <1>7, <1>8, <1>9, <1>10,
   <1>11, <1>12, <1>13, <1>14, <1>15, <1>16, <1>17, <1>18 DEF Next, Jobs,
   Environment

-----------------------------------------------------------------------------
(* However sends, setups, replies, timeouts, losses and calls of close()   *)
(* come together, the invariant holds.                                     *)
THEOREM InvAlways == ASSUME RPCAssumption PROVE Spec => []IInv
<1>1. Init => IInv
  BY InvInit
<1>2. IInv /\ [Next]_vars => IInv'
  BY InvStep
<1> QED BY <1>1, <1>2, PTL DEF Spec

(* Safe: the map of requests, the sends and the channels agree; no send()  *)
(* waits on a channel that has ended (RPCClient.ts 112-136, 181-215).      *)
THEOREM SafeAlways == ASSUME RPCAssumption PROVE Spec => []Safe
<1>1. IInv => DiesWithChannel
  BY DEF IInv, TypeMaps, RequestsAreWaiting, OnTheWay, Alive, DiesWithChannel
<1>2. IInv => AskedWhenReady
  BY DEF IInv, OnTheWay, AskedWhenReady
<1>3. IInv => TypeOK
  BY DEF IInv, TypeChans, TypeCalls, TypeMaps, TypeOK, Ids
<1>4. IInv => Safe
  BY <1>1, <1>2, <1>3, OneOpen DEF IInv, Safe
<1> QED BY <1>4, InvAlways, PTL

(* OwnReply: a send() resolves with the reply to its own request only.     *)
THEOREM RepliesOwn == ASSUME RPCAssumption PROVE Spec => []OwnReply
<1>1. IInv => OwnReply
  BY DEF IInv
<1> QED BY <1>1, InvAlways, PTL

(* CloseDrains: close() ends the channel after the replies it waits for,   *)
(* and leaves nothing.                                                     *)
THEOREM ClosedLeavesNothing == ASSUME RPCAssumption PROVE Spec => []CloseDrains
<1>1. ASSUME IInv PROVE Drained
  <2> SUFFICES ASSUME NEW k \in Closers, closing[k] = "returned",
                      \A g \in Channels : chan[g] # "inactive"
               PROVE  /\ pendingSetup = "none" /\ ~Usable
                      /\ \A s \in Sends : send[s] \notin {"publish", "setup"}
                      /\ DOMAIN requests = {}
    BY DEF Drained, ClosersIn
  <2>1. pendingSetup = "none" /\ ~Usable
    BY <1>1 DEF IInv, CloseWaits
  <2>2. \A g \in Channels : chan[g] \notin Alive
    BY <1>1, <2>1 DEF IInv, Numbered, Usable, Alive, Channels
  <2>3. \A s \in Sends : send[s] \notin {"publish", "waiting"}
    BY <1>1, <2>2 DEF IInv, TypeChans, OnTheWay
  <2>4. \A s \in Sends : send[s] # "setup"
    BY <1>1, <2>1 DEF IInv, SetupPhase
  <2>5. DOMAIN requests = {}
    BY ZenonT(30), <1>1, <2>3 DEF IInv, TypeMaps, RequestsAreWaiting
  <2> QED BY <2>1, <2>3, <2>4, <2>5
<1>2. IInv => CloseDrains
  BY <1>1 DEF IInv, CloseDrains
<1> QED BY <1>2, InvAlways, PTL
=============================================================================

-------------------------- MODULE PublisherProofs --------------------------
(***************************************************************************)
(* Proofs about Publisher for any number of sends, of calls of close(), of *)
(* attempts and of faults.                                                 *)
(***************************************************************************)
EXTENDS Publisher, FiniteSetTheorems, TLAPS

(* Channels are numbered as they come, _ch is one of them that was set up. *)
Numbered ==
  /\ \A g \in Channels : chan[g] # "none" <=> g <= fresh
  /\ ch <= fresh /\ (ch # 0 => ch \in ready)

(* Only the last channel is in use: by its setup, or by the publisher.     *)
InUse ==
  /\ \A g \in Channels : chan[g] = "open" => g = fresh /\ pending \in {"none", "declare", "done"}
  /\ pending = "declare" => fresh # 0 /\ chan[fresh] = "open" /\ ch # fresh
  /\ pending \in {"none", "done"} => \A g \in Channels : chan[g] = "open" => g = ch
  /\ pending = "done" => fresh = ch /\ ch # 0
  /\ \A g \in Channels : chan[g] = "inactive" => isClosed /\ pending = "none"

(* What a close() waits for is there, and no other call comes after it.    *)
CloseWaits ==
  \A k \in Closers :
    /\ closing[k] # "none" => isClosed
    /\ closing[k] = "setup" => pending # "none"
    /\ closing[k] = "channel" => ch # 0 /\ chan[ch] = "inactive"

(* A send() that goes on has an attempt left.                              *)
AttemptLeft ==
  \A s \in Sends : send[s] \in {"none", "again", "setup", "publish"} => attempts[s] < MaxAttempts

IInv ==
  /\ TypeOK /\ Numbered /\ InUse /\ CloseWaits /\ AttemptLeft
  /\ PublishedAfterSetup /\ CopiesBounded /\ NothingLeft

-----------------------------------------------------------------------------
(* The number of channels so far is the last one's.                        *)
LEMMA NextNumber ==
  ASSUME PublisherAssumption, TypeOK, Numbered
  PROVE  Cardinality({c \in Channels : chan[c] # "none"}) = fresh
<1>1. fresh \in Nat /\ {c \in Channels : chan[c] # "none"} = 1..fresh
  BY DEF TypeOK, Numbered, Channels
<1>2. Cardinality(1..fresh) = fresh
  BY <1>1, FS_Interval
<1> QED BY <1>1, <1>2

(* One channel is in use at most.                                          *)
LEMMA OneInUse == ASSUME IInv PROVE OneChannel
<1> DEFINE Open == {g \in Channels : chan[g] = "open"}
<1>1. Open = {} \/ Open = {fresh}
  BY DEF IInv, InUse
<1>2. Cardinality(Open) <= 1
  <2>1. CASE Open = {}
    <3>1. Cardinality(Open) = 0
      BY <2>1, FS_EmptySet
    <3> QED BY <3>1
  <2>2. CASE Open = {fresh}
    <3>1. Cardinality(Open) = 1
      BY <2>2, FS_Singleton
    <3> QED BY <3>1
  <2> QED BY <1>1, <2>1, <2>2
<1>3. pending \in {"acquire", "declare"} => ~Active
  BY DEF IInv, TypeOK, InUse, Active
<1> QED BY <1>2, <1>3 DEF OneChannel

(* A send() that will publish has a copy left.                             *)
LEMMA CopyLeft ==
  ASSUME PublisherAssumption, TypeOK, AttemptLeft, CopiesBounded
  PROVE  \A s \in Sends : send[s] \in {"none", "again", "setup"} => copies[s] + 1 \in 0..MaxAttempts
BY DEF TypeOK, AttemptLeft, CopiesBounded

LEMMA InvInit == ASSUME PublisherAssumption, Init PROVE IInv
<1> USE DEF Init, PublisherAssumption, Channels
<1>1. TypeOK
  <2>1. attempts \in [Sends -> 0..MaxAttempts] /\ copies \in [Sends -> 0..MaxAttempts]
    OBVIOUS
  <2>2. ch \in Channels \cup {0} /\ via \in [Sends -> Channels \cup {0}]
    OBVIOUS
  <2>3. chan \in [Channels -> {"none", "open", "inactive", "closed"}] /\ faults \in 0..MaxFaults
    OBVIOUS
  <2>4. send \in [Sends -> {"none", "resolved", "rejected"} \cup Unsettled]
    OBVIOUS
  <2> QED BY <2>1, <2>2, <2>3, <2>4 DEF TypeOK
<1>2. \A g \in Channels : chan[g] = "none" /\ g >= 1
  OBVIOUS
<1>3. Numbered
  BY <1>2 DEF Numbered
<1>4. InUse
  BY <1>2 DEF InUse
<1>5. CloseWaits /\ AttemptLeft /\ PublishedAfterSetup /\ CopiesBounded /\ NothingLeft
  BY DEF CloseWaits, AttemptLeft, PublishedAfterSetup, CopiesBounded,
     NothingLeft
<1> QED BY <1>1, <1>3, <1>4, <1>5 DEF IInv


(* Every step keeps the invariant.                                         *)
LEMMA InvStep == ASSUME PublisherAssumption, IInv, [Next]_vars PROVE IInv'
<1> USE DEF IInv
<1>0. CASE UNCHANGED vars
  BY <1>0 DEF vars, AttemptLeft, CloseWaits, CopiesBounded, InUse,
     NothingLeft, Numbered, PublishedAfterSetup, TypeOK
<1>1. ASSUME NEW s \in Sends, Turn(s) PROVE IInv'
  <2>1. TypeOK'
    <3>1. /\ attempts' \in [Sends -> 0..MaxAttempts]
          /\ copies' \in [Sends -> 0..MaxAttempts]
      BY <1>1, CopyLeft DEF Turn, Publish, Fail, TypeOK
    <3>2. /\ send' \in [Sends -> {"none", "resolved", "rejected"} \cup Unsettled]
          /\ via' \in [Sends -> Channels \cup {0}]
      BY <1>1 DEF Turn, Publish, Fail, TypeOK, Unsettled
    <3> QED BY <1>1, <3>1, <3>2 DEF Turn, SharedSetup, TypeOK
  <2>2. Numbered'
    BY <1>1 DEF Turn, Numbered
  <2>3. InUse'
    BY <1>1 DEF Turn, Refuses, SharedSetup, Active, InUse, Channels
  <2>4. CloseWaits'
    BY <1>1 DEF Turn, Refuses, CloseWaits
  <2>5. AttemptLeft'
    BY <1>1 DEF Turn, Publish, Fail, Left, AttemptLeft, TypeOK
  <2>6. PublishedAfterSetup'
    BY <1>1 DEF Turn, Publish, Active, Fail, PublishedAfterSetup, TypeOK,
       Numbered
  <2>7. CopiesBounded'
    BY <1>1 DEF Turn, Publish, Fail, CopiesBounded, TypeOK, AttemptLeft
  <2>8. NothingLeft'
    BY <1>1 DEF Turn, Refuses, NothingLeft, CloseWaits
  <2> QED BY <2>1, <2>2, <2>3, <2>4, <2>5, <2>6, <2>7, <2>8
<1>2. ASSUME NEW s \in Sends, Published(s) PROVE IInv'
  <2>1. TypeOK'
    BY <1>2 DEF Published, TypeOK
  <2>2. Numbered'
    BY <1>2 DEF Published, Numbered
  <2>3. InUse'
    BY <1>2 DEF Published, InUse
  <2>4. CloseWaits'
    BY <1>2 DEF Published, CloseWaits
  <2>5. AttemptLeft'
    BY <1>2 DEF Published, AttemptLeft
  <2>6. PublishedAfterSetup'
    BY <1>2 DEF Published, PublishedAfterSetup
  <2>7. CopiesBounded'
    BY <1>2 DEF Published, CopiesBounded
  <2>8. NothingLeft'
    BY <1>2 DEF Published, NothingLeft
  <2> QED BY <2>1, <2>2, <2>3, <2>4, <2>5, <2>6, <2>7, <2>8
<1>3. ASSUME NEW s \in Sends, Nacked(s) PROVE IInv'
  <2>1. TypeOK'
    BY <1>3 DEF Nacked, Fault, Fail, TypeOK, Unsettled
  <2>2. Numbered'
    BY <1>3 DEF Nacked, Numbered
  <2>3. InUse'
    BY <1>3 DEF Nacked, InUse
  <2>4. CloseWaits'
    BY <1>3 DEF Nacked, CloseWaits
  <2>5. AttemptLeft'
    BY <1>3 DEF Nacked, Fail, Left, AttemptLeft
  <2>6. PublishedAfterSetup'
    BY <1>3 DEF Nacked, Fail, PublishedAfterSetup
  <2>7. CopiesBounded'
    BY <1>3 DEF Nacked, Fail, CopiesBounded, TypeOK
  <2>8. NothingLeft'
    BY <1>3 DEF Nacked, NothingLeft
  <2> QED BY <2>1, <2>2, <2>3, <2>4, <2>5, <2>6, <2>7, <2>8
<1>4. ASSUME SetupAcquired PROVE IInv'
  <2>1. TypeOK'
    BY <1>4 DEF SetupAcquired, AssignLater, TypeOK
  <2>2. Numbered'
    <3>1. fresh' = fresh + 1 /\ chan' = [chan EXCEPT ![fresh + 1] = "open"]
      BY <1>4, NextNumber DEF SetupAcquired
    <3>2. fresh \in Nat /\ fresh + 1 \in Channels /\ Channels \subseteq Nat
      BY <1>4, NextNumber DEF SetupAcquired, TypeOK, Channels
    <3>3. \A h \in Channels : chan'[h] # "none" <=> h = fresh + 1 \/ chan[h] # "none"
      BY <3>1 DEF TypeOK
    <3>4. \A h \in Channels : chan'[h] # "none" <=> h <= fresh'
      BY <3>1, <3>2, <3>3 DEF Numbered
    <3>5. ch' <= fresh' /\ ch' = ch /\ ready' = ready
      BY <1>4, <3>1, <3>2 DEF SetupAcquired, AssignLater, Numbered, TypeOK
    <3> QED BY <3>4, <3>5 DEF Numbered
  <2>3. InUse'
    <3>1. fresh' = fresh + 1 /\ chan' = [chan EXCEPT ![fresh + 1] = "open"]
      BY <1>4, NextNumber DEF SetupAcquired
    <3> QED BY <1>4, <3>1 DEF SetupAcquired, AssignLater, InUse, Numbered,
       TypeOK, Channels
  <2>4. CloseWaits'
    BY <1>4 DEF SetupAcquired, AssignLater, CloseWaits, InUse
  <2>5. AttemptLeft'
    BY <1>4 DEF SetupAcquired, AttemptLeft
  <2>6. PublishedAfterSetup'
    BY <1>4 DEF SetupAcquired, PublishedAfterSetup
  <2>7. CopiesBounded'
    BY <1>4 DEF SetupAcquired, CopiesBounded
  <2>8. NothingLeft'
    BY <1>4 DEF SetupAcquired, NothingLeft
  <2> QED BY <2>1, <2>2, <2>3, <2>4, <2>5, <2>6, <2>7, <2>8
<1>5. ASSUME AcquireFails PROVE IInv'
  <2>1. TypeOK'
    BY <1>5 DEF AcquireFails, Fault, TypeOK
  <2>2. Numbered'
    BY <1>5 DEF AcquireFails, Numbered
  <2>3. InUse'
    BY <1>5 DEF AcquireFails, InUse
  <2>4. CloseWaits'
    BY <1>5 DEF AcquireFails, CloseWaits
  <2>5. AttemptLeft'
    BY <1>5 DEF AcquireFails, AttemptLeft
  <2>6. PublishedAfterSetup'
    BY <1>5 DEF AcquireFails, PublishedAfterSetup
  <2>7. CopiesBounded'
    BY <1>5 DEF AcquireFails, CopiesBounded
  <2>8. NothingLeft'
    BY <1>5 DEF AcquireFails, NothingLeft
  <2> QED BY <2>1, <2>2, <2>3, <2>4, <2>5, <2>6, <2>7, <2>8
<1>6. ASSUME SetupDeclared PROVE IInv'
  <2>1. TypeOK'
    BY <1>6 DEF SetupDeclared, TypeOK, InUse
  <2>2. Numbered'
    BY <1>6 DEF SetupDeclared, Numbered, TypeOK
  <2>3. InUse'
    BY <1>6 DEF SetupDeclared, InUse
  <2>4. CloseWaits'
    BY <1>6 DEF SetupDeclared, CloseWaits, TypeOK, InUse
  <2>5. AttemptLeft'
    BY <1>6 DEF SetupDeclared, AttemptLeft
  <2>6. PublishedAfterSetup'
    BY <1>6 DEF SetupDeclared, PublishedAfterSetup
  <2>7. CopiesBounded'
    BY <1>6 DEF SetupDeclared, CopiesBounded
  <2>8. NothingLeft'
    BY <1>6 DEF SetupDeclared, NothingLeft
  <2> QED BY <2>1, <2>2, <2>3, <2>4, <2>5, <2>6, <2>7, <2>8
<1>7. ASSUME SetupResolves PROVE IInv'
  <2>1. TypeOK'
    <3>1. /\ attempts' \in [Sends -> 0..MaxAttempts]
          /\ copies' \in [Sends -> 0..MaxAttempts]
      BY <1>7, CopyLeft DEF SetupResolves, Publish, InSetup, Fail, TypeOK
    <3>2. /\ send' \in [Sends -> {"none", "resolved", "rejected"} \cup Unsettled]
          /\ via' \in [Sends -> Channels \cup {0}]
      BY <1>7 DEF SetupResolves, Publish, Fail, TypeOK, Unsettled
    <3> QED BY <1>7, <3>1, <3>2 DEF SetupResolves, ThenClose, Moved, TypeOK
  <2>2. Numbered'
    BY <1>7 DEF SetupResolves, ThenClose, Numbered, TypeOK
  <2>3. InUse'
    BY <1>7 DEF SetupResolves, ThenClose, ClosersIn, InUse, TypeOK, CloseWaits
  <2>4. CloseWaits'
    BY <1>7 DEF SetupResolves, ThenClose, ClosersIn, Moved, CloseWaits,
       TypeOK, InUse
  <2>5. AttemptLeft'
    BY <1>7 DEF SetupResolves, Publish, InSetup, Fail, Left, AttemptLeft
  <2>6. PublishedAfterSetup'
    BY <1>7 DEF SetupResolves, Publish, Fail, PublishedAfterSetup, Numbered,
       InUse
  <2>7. CopiesBounded'
    BY <1>7 DEF SetupResolves, Publish, InSetup, Fail, CopiesBounded, TypeOK,
       AttemptLeft
  <2>8. NothingLeft'
    BY <1>7 DEF SetupResolves, ThenClose, Moved, NothingLeft, InUse
  <2> QED BY <2>1, <2>2, <2>3, <2>4, <2>5, <2>6, <2>7, <2>8
<1>8. ASSUME SetupRejects PROVE IInv'
  <2>1. TypeOK'
    BY <1>8 DEF SetupRejects, Fail, Moved, TypeOK, Unsettled
  <2>2. Numbered'
    BY <1>8 DEF SetupRejects, Numbered
  <2>3. InUse'
    BY <1>8 DEF SetupRejects, InUse
  <2>4. CloseWaits'
    BY <1>8 DEF SetupRejects, ClosersIn, Moved, CloseWaits
  <2>5. AttemptLeft'
    BY <1>8 DEF SetupRejects, InSetup, Fail, Left, AttemptLeft
  <2>6. PublishedAfterSetup'
    BY <1>8 DEF SetupRejects, Fail, PublishedAfterSetup
  <2>7. CopiesBounded'
    BY <1>8 DEF SetupRejects, Fail, CopiesBounded, TypeOK
  <2>8. NothingLeft'
    BY <1>8 DEF SetupRejects, NothingLeft, InUse
  <2> QED BY <2>1, <2>2, <2>3, <2>4, <2>5, <2>6, <2>7, <2>8
<1>9. ASSUME NEW g \in Channels, ChannelLost(g) PROVE IInv'
  <2>1. TypeOK'
    BY <1>9 DEF ChannelLost, Ends, Fault, Fail, Moved, TypeOK, Unsettled
  <2>2. Numbered'
    BY <1>9 DEF ChannelLost, Ends, Numbered
  <2>3. InUse'
    BY <1>9 DEF ChannelLost, Ends, InUse, TypeOK
  <2>4. CloseWaits'
    BY <1>9 DEF ChannelLost, Ends, ClosersIn, Moved, CloseWaits
  <2>5. AttemptLeft'
    BY <1>9 DEF ChannelLost, Ends, Fail, Left, AttemptLeft
  <2>6. PublishedAfterSetup'
    BY <1>9 DEF ChannelLost, Ends, Fail, PublishedAfterSetup
  <2>7. CopiesBounded'
    BY <1>9 DEF ChannelLost, Ends, Fail, CopiesBounded, TypeOK
  <2>8. NothingLeft'
    BY <1>9 DEF ChannelLost, Ends, ClosersIn, Moved, NothingLeft, InUse,
       CloseWaits
  <2> QED BY <2>1, <2>2, <2>3, <2>4, <2>5, <2>6, <2>7, <2>8
<1>10. ASSUME NEW g \in Channels, ChannelCloseOk(g) PROVE IInv'
  <2>1. TypeOK'
    BY <1>10 DEF ChannelCloseOk, Ends, Fail, Moved, TypeOK, Unsettled
  <2>2. Numbered'
    BY <1>10 DEF ChannelCloseOk, Ends, Numbered
  <2>3. InUse'
    BY <1>10 DEF ChannelCloseOk, Ends, InUse
  <2>4. CloseWaits'
    BY <1>10 DEF ChannelCloseOk, Ends, ClosersIn, Moved, CloseWaits
  <2>5. AttemptLeft'
    BY <1>10 DEF ChannelCloseOk, Ends, Fail, Left, AttemptLeft
  <2>6. PublishedAfterSetup'
    BY <1>10 DEF ChannelCloseOk, Ends, Fail, PublishedAfterSetup
  <2>7. CopiesBounded'
    BY <1>10 DEF ChannelCloseOk, Ends, Fail, CopiesBounded, TypeOK
  <2>8. NothingLeft'
    BY <1>10 DEF ChannelCloseOk, Ends, Moved, NothingLeft, InUse
  <2> QED BY <2>1, <2>2, <2>3, <2>4, <2>5, <2>6, <2>7, <2>8
<1>11. ASSUME NEW k \in Closers, Close(k) PROVE IInv'
  <2>1. TypeOK'
    BY <1>11 DEF Close, TypeOK
  <2>2. Numbered'
    BY <1>11 DEF Close, Numbered, TypeOK
  <2>3. InUse'
    BY <1>11 DEF Close, InUse, TypeOK
  <2>4. CloseWaits'
    BY <1>11 DEF Close, Active, CloseWaits, TypeOK
  <2>5. AttemptLeft'
    BY <1>11 DEF Close, AttemptLeft
  <2>6. PublishedAfterSetup'
    BY <1>11 DEF Close, PublishedAfterSetup
  <2>7. CopiesBounded'
    BY <1>11 DEF Close, CopiesBounded
  <2>8. NothingLeft'
    BY <1>11 DEF Close, Active, NothingLeft, TypeOK, InUse, Channels
  <2> QED BY <2>1, <2>2, <2>3, <2>4, <2>5, <2>6, <2>7, <2>8
<1> QED BY <1>0, <1>1, <1>2, <1>3, <1>4, <1>5, <1>6, <1>7, <1>8, <1>9, <1>10,
   <1>11 DEF Next, Jobs, Environment

-----------------------------------------------------------------------------
(* However many sends, setups, losses and calls of close() come in         *)
(* whatever order, the invariant holds.                                    *)
THEOREM InvAlways == ASSUME PublisherAssumption PROVE Spec => []IInv
<1>1. Init => IInv
  BY InvInit
<1>2. IInv /\ [Next]_vars => IInv'
  BY InvStep
<1> QED BY <1>1, <1>2, PTL DEF Spec

(* Safe: all sends share one channel, and publish on it only when its      *)
(* setup is complete (Connection.ts 262-303).                              *)
THEOREM SafeAlways == ASSUME PublisherAssumption PROVE Spec => []Safe
<1>1. IInv => Safe
  BY OneInUse DEF IInv, Safe
<1> QED BY <1>1, InvAlways, PTL

(* CopiesBounded: a message is published at most maxAttempts times, and    *)
(* once more only after the attempt before has failed (287-303).           *)
THEOREM NoExtraCopies == ASSUME PublisherAssumption PROVE Spec => []CopiesBounded
<1>1. IInv => CopiesBounded
  BY DEF IInv
<1> QED BY <1>1, InvAlways, PTL

(* NothingLeft: when a close() has settled there is no channel in use and  *)
(* no setup that would open one (309-315).                                 *)
THEOREM ClosedLeavesNothing == ASSUME PublisherAssumption PROVE Spec => []NothingLeft
<1>1. IInv => NothingLeft
  BY DEF IInv
<1> QED BY <1>1, InvAlways, PTL
=============================================================================

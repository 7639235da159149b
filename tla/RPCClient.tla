----------------------------- MODULE RPCClient -----------------------------
(***************************************************************************)
(* The client side of direct reply-to (src/src/RPCClient.ts): requests     *)
(* that share a channel and its setup, their replies, timeouts and         *)
(* retries, and close().                                                   *)
(*                                                                         *)
(* Granularity as in module Consumer: a continuation that is ready comes   *)
(* before frames, timers and immediates; a reply is passed on in a         *)
(* setImmediate (Channel.ts 396), before any timer.  Channels, and         *)
(* correlation ids, are numbered.                                          *)
(***************************************************************************)
EXTENDS Naturals, FiniteSets

CONSTANTS
  NumSends,     \* bound: calls of send(), numbered in the order they come
  Closers,      \* calls of close()
  MaxAttempts,  \* RPCProps.maxAttempts
  MaxFaults     \* bound: lost channels, failed acquires, nacks, encoding errors

ASSUME RPCAssumption ==
  /\ NumSends \in Nat /\ MaxAttempts \in Nat \ {0} /\ MaxFaults \in Nat

VARIABLES
  ch, active,        \* _ch (0: none), active
  pendingSetup,      \* where _pendingSetup is
  chan, ready,       \* each channel; those that consume replies
  id, requests,      \* _id; _requests: the send() that waits for an id
  send, via, number, \* where each send() is; its channel and _id
  attempts,          \* its failed attempts
  asked, replies,    \* requests at the server; replies in a setImmediate
  answer,            \* whom the reply was for
  closing, awaiting, \* where each close() is; the ids it waits for
  inTime,            \* the ids that waited when the first close() came
  faults

chans  == <<ch, chan, ready>>
calls  == <<send, via, number, attempts, answer>>
closes == <<active, closing, awaiting, inTime>>
vars   == <<chans, pendingSetup, id, requests, calls, asked, replies, closes, faults>>

Sends == 1..NumSends
Channels == 1..(1 + MaxFaults)
Ids == Nat \ {0}
Usable == ch # 0 /\ chan[ch] = "open"
Fault == faults < MaxFaults /\ faults' = faults + 1

Init ==
  /\ ch = 0 /\ active = TRUE /\ pendingSetup = "none" /\ id = 0
  /\ chan = [g \in Channels |-> "none"] /\ ready = {}
  /\ requests = [n \in {} |-> 0]
  /\ send = [s \in Sends |-> "none"] /\ via = [s \in Sends |-> 0]
  /\ number = [s \in Sends |-> 0] /\ answer = [s \in Sends |-> {}]
  /\ attempts = [s \in Sends |-> 0]
  /\ asked = {} /\ replies = {}
  /\ closing = [k \in Closers |-> "none"] /\ awaiting = [k \in Closers |-> {}]
  /\ inTime = {} /\ faults = 0

(* Continuations are ready.                                                *)
CloserReady(k) == closing[k] = "requests" /\ awaiting[k] \cap DOMAIN requests = {}
Macrotask ==
  /\ pendingSetup \notin {"done", "failing"}
  /\ \A s \in Sends : send[s] # "again"
  /\ \A k \in Closers : ~CloserReady(k)

-----------------------------------------------------------------------------
(* send()                                                                  *)

Left(n) == n < MaxAttempts

(* The attempt of those in S is over: no channel, no id.                   *)
Over(S) ==
  /\ via' = [s \in Sends |-> IF s \in S THEN 0 ELSE via[s]]
  /\ number' = [s \in Sends |-> IF s \in S THEN 0 ELSE number[s]]

(* The catch clause of those in S: give up, or loop.                       *)
Fail(S) ==
  /\ Over(S)
  /\ attempts' = [s \in Sends |-> IF s \in S /\ attempts[s] < MaxAttempts
                                    THEN attempts[s] + 1 ELSE attempts[s]]
  /\ send' = [s \in Sends |-> IF s \notin S THEN send[s]
                              ELSE IF Left(attempts[s] + 1) THEN "again" ELSE "rejected"]

(* Mutant: ids are used again.                                             *)
UseAgain == Cardinality(DOMAIN requests)
LastId == id

(* Each of those in S takes the next id and publishes its request on _ch.  *)
Publish(S) ==
  LET n == CHOOSE f \in [S -> LastId + 1 .. LastId + Cardinality(S)] :
             \A s, t \in S : s # t => f[s] # f[t]
  IN /\ id' = LastId + Cardinality(S)
     /\ send' = [s \in Sends |-> IF s \in S THEN "publish" ELSE send[s]]
     /\ via' = [s \in Sends |-> IF s \in S THEN ch ELSE via[s]]
     /\ number' = [s \in Sends |-> IF s \in S THEN n[s] ELSE number[s]]
     /\ asked' = asked \cup {[id |-> n[s], of |-> s, on |-> ch] : s \in S}
     /\ UNCHANGED <<attempts, answer>>

NeedsSetup == pendingSetup # "none" \/ ~Usable
SharedSetup == IF pendingSetup = "none" THEN "acquire" ELSE pendingSetup

(* One turn of the loop, up to its await.                                  *)
Turn(s) ==
  /\ send[s] \in {"none", "again"}
  /\ \A t \in 1..(s - 1) : send[t] # "none"
  /\ \/ /\ ~active
        /\ Fail({s})
        /\ UNCHANGED <<pendingSetup, id, answer, asked>>
     \/ /\ active /\ NeedsSetup
        /\ pendingSetup' = SharedSetup
        /\ send' = [send EXCEPT ![s] = "setup"]
        /\ UNCHANGED <<id, via, number, attempts, answer, asked>>
     \/ /\ active /\ ~NeedsSetup
        /\ Publish({s})
        /\ UNCHANGED pendingSetup
  /\ UNCHANGED <<chans, requests, replies, closes, faults>>

(* The request is written, or confirmed; then send() waits for the reply.  *)
Published(s) ==
  /\ send[s] = "publish" /\ chan[via[s]] \in {"open", "inactive"} /\ Macrotask
  /\ send' = [send EXCEPT ![s] = "waiting"]
  /\ requests' = [n \in DOMAIN requests \cup {number[s]} |->
                    IF n = number[s] THEN s ELSE requests[n]]
  /\ UNCHANGED <<chans, pendingSetup, id, via, number, attempts, answer, asked,
                 replies, closes, faults>>

(* basic.nack                                                              *)
Nacked(s) ==
  /\ send[s] = "publish" /\ chan[via[s]] \in {"open", "inactive"} /\ Macrotask /\ Fault
  /\ Fail({s})
  /\ asked' = {r \in asked : r.id # number[s]}
  /\ UNCHANGED <<chans, pendingSetup, id, requests, answer, replies,
                 closes>>

(* The request cannot be encoded: the channel closes itself                *)
(* (Channel.ts 154).                                                       *)
EncodingFails(s) ==
  /\ send[s] = "publish" /\ chan[via[s]] = "open" /\ Macrotask /\ Fault
  /\ \E r \in asked : r.of = s /\ r.id = number[s]
  /\ chan' = [chan EXCEPT ![via[s]] = "inactive"]
  /\ Fail({s})
  /\ asked' = {r \in asked : r.id # number[s]}
  /\ UNCHANGED <<ch, ready, pendingSetup, id, requests, answer,
                 replies, closes>>

(* A request has no entry any more.  Mutant: the entry is left.            *)
Keep(n) == UNCHANGED requests
Forget(n) == requests' = [i \in DOMAIN requests \ {n} |-> requests[i]]

(* The timer of request n.                                                 *)
Timeout(n) ==
  /\ Macrotask /\ replies = {} /\ n \in DOMAIN requests
  /\ send[requests[n]] = "waiting"
  /\ Fail({requests[n]})
  /\ Forget(n)
  /\ UNCHANGED <<chans, pendingSetup, id, answer, asked, replies,
                 closes, faults>>

-----------------------------------------------------------------------------
(* A service answers a request, maybe twice; it may do so before the       *)
(* confirm comes, or when the request has timed out.                       *)
Reply(r) ==
  /\ Macrotask /\ chan[r.on] \in {"open", "inactive"}
  /\ replies' = replies \cup {r}
  /\ \/ asked' = asked \ {r} /\ UNCHANGED faults
     \/ UNCHANGED asked /\ Fault
  /\ UNCHANGED <<chans, pendingSetup, id, requests, calls, closes>>

OnReply(r) ==
  /\ Macrotask
  /\ replies' = replies \ {r}
  /\ IF r.id \in DOMAIN requests
       THEN /\ send' = [send EXCEPT ![requests[r.id]] = "resolved"]
            /\ answer' = [answer EXCEPT ![requests[r.id]] = {r.of}]
            /\ Over({requests[r.id]})
            /\ Forget(r.id)
       ELSE UNCHANGED <<send, answer, requests, via, number>>
  /\ UNCHANGED <<chans, pendingSetup, id, attempts, asked, closes, faults>>

-----------------------------------------------------------------------------
(* _setup()                                                                *)

SetupAcquired ==
  LET g == Cardinality({c \in Channels : chan[c] # "none"}) + 1
  IN /\ pendingSetup = "acquire" /\ Macrotask /\ g \in Channels
     /\ ch' = g /\ chan' = [chan EXCEPT ![g] = "open"]
     /\ pendingSetup' = "declare"
     /\ UNCHANGED <<ready, id, requests, calls, asked, replies, closes, faults>>

AcquireFails ==
  /\ pendingSetup = "acquire" /\ Macrotask /\ Fault
  /\ pendingSetup' = "failing"
  /\ UNCHANGED <<chans, id, requests, calls, asked, replies, closes>>

(* Queues and bindings are declared, replies are consumed.                 *)
SetupDeclared ==
  /\ pendingSetup = "declare" /\ chan[ch] = "open" /\ Macrotask
  /\ ready' = ready \cup {ch}
  /\ pendingSetup' = "done"
  /\ UNCHANGED <<ch, chan, id, requests, calls, asked, replies, closes, faults>>

InSetup == {s \in Sends : send[s] = "setup"}
ClosersIn(where) == {k \in Closers : closing[k] = where}
Moved(S, where) == [k \in Closers |-> IF k \in S THEN where ELSE closing[k]]

(* What close() waits for.                                                 *)
Snapshot == DOMAIN requests

(* close(), when the setup it waits for is over: wait for those in S.      *)
SetupOver(S) ==
  /\ closing' = Moved(ClosersIn("setup"), "requests")
  /\ awaiting' = [k \in Closers |-> IF closing[k] = "setup" THEN S ELSE awaiting[k]]
  /\ UNCHANGED <<active, inTime>>

(* Those who wait for the setup go on; on a channel that is closed by now  *)
(* the publish is rejected.                                                *)
SetupResolves ==
  /\ pendingSetup = "done"
  /\ pendingSetup' = "none"
  /\ IF Usable THEN Publish(InSetup)
     ELSE Fail(InSetup) /\ UNCHANGED <<id, answer, asked>>
  /\ SetupOver(Snapshot)
  /\ UNCHANGED <<chans, requests, replies, faults>>

SetupRejects ==
  /\ pendingSetup = "failing"
  /\ pendingSetup' = "none"
  /\ Fail(InSetup)
  /\ SetupOver({})
  /\ UNCHANGED <<chans, id, requests, answer, asked, replies, faults>>

-----------------------------------------------------------------------------
(* A channel ends.                                                         *)

(* Its 'close' event rejects every request.  Mutant: none.                 *)
ClearNone == {}
ClearedIds == DOMAIN requests

Ends(g) ==
  /\ chan' = [chan EXCEPT ![g] = "closed"]
  /\ pendingSetup' = IF pendingSetup = "declare" /\ ch = g THEN "failing" ELSE pendingSetup
  /\ Fail({s \in Sends : send[s] = "publish" /\ via[s] = g} \cup {requests[n] : n \in ClearedIds})
  /\ requests' = [n \in DOMAIN requests \ ClearedIds |-> requests[n]]
  /\ asked' = {r \in asked : r.on # g}
  /\ closing' = Moved(IF g = ch THEN ClosersIn("channel") ELSE {}, "returned")
  /\ UNCHANGED <<ch, ready, id, answer, replies, active, awaiting, inTime>>

(* Lost, or closed by the server; maybe in the read that resolved a        *)
(* promise whose continuation has not run.                                 *)
ChannelLost(g) ==
  /\ chan[g] \in {"open", "inactive"} /\ Fault
  /\ \/ Macrotask
     \/ pendingSetup = "done"
  /\ Ends(g)

ChannelCloseOk(g) ==
  /\ chan[g] = "inactive" /\ Macrotask
  /\ Ends(g) /\ UNCHANGED faults

-----------------------------------------------------------------------------
(* close()                                                                 *)

(* Mutant: a pending setup is not waited for.                              *)
AtOnce == "requests"
FirstWait == IF pendingSetup # "none" THEN "setup" ELSE "requests"

Close(k) ==
  /\ closing[k] = "none"
  /\ active' = FALSE
  /\ closing' = [closing EXCEPT ![k] = FirstWait]
  /\ awaiting' = [awaiting EXCEPT ![k] = Snapshot]
  /\ inTime' = IF active THEN DOMAIN requests ELSE inTime
  /\ UNCHANGED <<chans, pendingSetup, id, requests, calls, asked, replies, faults>>

CloseChannel(k) ==
  /\ CloserReady(k)
  /\ IF Usable
       THEN closing' = [closing EXCEPT ![k] = "channel"] /\ chan' = [chan EXCEPT ![ch] = "inactive"]
       ELSE closing' = [closing EXCEPT ![k] = "returned"] /\ UNCHANGED chan
  /\ UNCHANGED <<ch, ready, pendingSetup, id, requests, calls, asked, replies, active, awaiting,
                 inTime, faults>>

-----------------------------------------------------------------------------
Jobs ==
  \/ \E s \in Sends : (send[s] = "again" /\ Turn(s)) \/ Published(s)
  \/ \E n \in DOMAIN requests : Timeout(n)
  \/ \E r \in replies : OnReply(r)
  \/ SetupAcquired \/ SetupDeclared \/ SetupResolves \/ SetupRejects
  \/ \E g \in Channels : ChannelCloseOk(g)
  \/ \E k \in Closers : CloseChannel(k)
Environment ==
  \/ \E s \in Sends : (send[s] = "none" /\ Turn(s)) \/ Nacked(s) \/ EncodingFails(s)
  \/ \E r \in asked : Reply(r)
  \/ \E k \in Closers : Close(k)
  \/ AcquireFails
  \/ \E g \in Channels : ChannelLost(g)

Next == Jobs \/ Environment
Spec == Init /\ [][Next]_vars

(* Jobs that are ready run, timers fire, and a server that is there        *)
(* answers what the channel asks; nobody has to reply to a request.        *)
FairSpec == Spec /\ WF_vars(Jobs)

-----------------------------------------------------------------------------
(* The type of every variable.                                             *)
Unsettled == {"again", "setup", "publish", "waiting"}
TypeOK ==
  /\ ch \in Channels \cup {0} /\ active \in BOOLEAN /\ id \in Ids \cup {0}
  /\ pendingSetup \in {"none", "acquire", "declare", "done", "failing"}
  /\ chan \in [Channels -> {"none", "open", "inactive", "closed"}] /\ ready \subseteq Channels
  /\ DOMAIN requests \subseteq Ids /\ \A n \in DOMAIN requests : requests[n] \in Sends
  /\ send \in [Sends -> {"none", "resolved", "rejected"} \cup Unsettled]
  /\ via \in [Sends -> Channels \cup {0}] /\ number \in [Sends -> Ids \cup {0}]
  /\ attempts \in [Sends -> 0..MaxAttempts]
  /\ asked \cup replies \subseteq [id : Ids, of : Sends, on : Channels]
  /\ answer \in [Sends -> SUBSET Sends]
  /\ closing \in [Closers -> {"none", "setup", "requests", "channel", "returned"}]
  /\ awaiting \in [Closers -> SUBSET Ids] /\ inTime \subseteq Ids
  /\ faults \in 0..MaxFaults

(* A send() resolves with the reply to its own request, whatever replies   *)
(* come late, twice, or for an attempt that was given up.                  *)
OwnReply == \A s \in Sends : answer[s] \subseteq {s}

(* Every request that is registered belongs to a send() that waits for it, *)
(* and to no other: none is forgotten when its send() goes on or retries.  *)
RequestsAreWaiting ==
  /\ \A n \in DOMAIN requests : send[requests[n]] = "waiting" /\ number[requests[n]] = n
  /\ \A s \in Sends : send[s] = "waiting" => number[s] \in DOMAIN requests

(* Requests are published only where replies are consumed, also while      *)
(* _ch is a new channel whose setup is not complete.                       *)
AskedWhenReady == \A s \in Sends : send[s] = "publish" => via[s] \in ready

(* However many sends find the channel gone, one new channel is set up.    *)
OneChannel == Cardinality({g \in Channels : chan[g] = "open"}) <= 1

(* A channel that ends takes its requests with it: no send() waits for a   *)
(* reply that cannot come.                                                 *)
DiesWithChannel == \A n \in DOMAIN requests : chan[via[requests[n]]] # "closed"

(* The map of requests, the sends and the channels agree.                  *)
Safe == TypeOK /\ RequestsAreWaiting /\ DiesWithChannel /\ OneChannel /\ AskedWhenReady

(* close() ends the channel only when every request that waited when it    *)
(* was called has its reply or has failed.                                 *)
ClosesAfterReplies == ClosersIn("channel") # {} => inTime \cap DOMAIN requests = {}

(* When close() has returned and the channel has ended nothing is left:    *)
(* no channel, no setup, no request.                                       *)
Drained ==
  ClosersIn("returned") # {} /\ (\A g \in Channels : chan[g] # "inactive") =>
    /\ pendingSetup = "none" /\ ~Usable
    /\ \A s \in Sends : send[s] \notin {"publish", "setup"}
    /\ DOMAIN requests = {}

(* close() waits for replies, and for whatever could leave more behind.    *)
CloseDrains == ClosesAfterReplies /\ Drained

(* Every send() settles, though nobody may ever reply.                     *)
SendSettles == \A s \in Sends : send[s] \in Unsettled ~> send[s] \notin Unsettled

(* Every close() returns.                                                  *)
CloseReturns == \A k \in Closers : closing[k] # "none" ~> closing[k] = "returned"

(* No call of the client is left waiting.                                  *)
AllSettle == SendSettles /\ CloseReturns
=============================================================================

----------------------------- MODULE Publisher -----------------------------
(***************************************************************************)
(* createPublisher (src/src/Connection.ts 258-316): sends that share a     *)
(* channel and its setup, retry when either fails, and race with close().  *)
(*                                                                         *)
(* A step is a call by the user, an answer or a loss, or the continuation  *)
(* of an await; continuations that are ready come before frames.  Channels *)
(* are numbered.  A channel settles what is published on it (module        *)
(* Channel), acquire() succeeds or fails (module Connection).              *)
(***************************************************************************)
EXTENDS Naturals, FiniteSets

CONSTANTS
  Sends,        \* calls of send()
  Closers,      \* calls of close()
  MaxAttempts,  \* PublisherProps.maxAttempts
  MaxFaults     \* bound: failed acquires, lost or refused channels, nacks

ASSUME PublisherAssumption == MaxAttempts \in Nat \ {0} /\ MaxFaults \in Nat

VARIABLES
  ch, isClosed,       \* _ch (0: none), isClosed
  pending, fresh,     \* where pendingSetup is; the channel it has acquired
  chan, ready,        \* each channel; those whose setup was completed
  send, via,          \* where each send() is, the channel it published on
  attempts, copies,   \* its failed attempts; how often it was published
  closing, faults     \* where each close() is; faults so far

vars == <<ch, isClosed, pending, fresh, chan, ready, send, via, attempts, copies,
          closing, faults>>

Channels == 1..(1 + MaxFaults)
Active == ch # 0 /\ chan[ch] = "open"
Unsettled == {"again", "setup", "publish"}

Init ==
  /\ ch = 0 /\ isClosed = FALSE /\ pending = "none" /\ fresh = 0
  /\ chan = [g \in Channels |-> "none"] /\ ready = {}
  /\ send = [s \in Sends |-> "none"] /\ via = [s \in Sends |-> 0]
  /\ attempts = [s \in Sends |-> 0] /\ copies = [s \in Sends |-> 0]
  /\ closing = [k \in Closers |-> "none"] /\ faults = 0

Fault == faults < MaxFaults /\ faults' = faults + 1

(* Continuations are ready.                                                *)
Macrotask == pending \notin {"done", "failing"} /\ \A s \in Sends : send[s] # "again"

-----------------------------------------------------------------------------
(* send()                                                                  *)

(* Mutant: one attempt too many.                                           *)
OneMore(n) == n <= MaxAttempts
Left(n) == n < MaxAttempts

(* The catch clause of those in S: give up, or notify and loop.            *)
Fail(S) ==
  /\ attempts' = [s \in Sends |->
                    IF s \in S /\ attempts[s] < MaxAttempts
                      THEN attempts[s] + 1 ELSE attempts[s]]
  /\ send' = [s \in Sends |-> IF s \notin S THEN send[s]
                              ELSE IF Left(attempts[s] + 1) THEN "again" ELSE "rejected"]

Publish(S, g) ==
  /\ send' = [s \in Sends |-> IF s \in S THEN "publish" ELSE send[s]]
  /\ via' = [s \in Sends |-> IF s \in S THEN g ELSE via[s]]
  /\ copies' = [s \in Sends |-> IF s \in S THEN copies[s] + 1 ELSE copies[s]]

Refuses == isClosed
SharedSetup == IF pending = "none" THEN "acquire" ELSE pending

(* One turn of the loop, up to its await.                                  *)
Turn(s) ==
  /\ \/ send[s] = "none"
     \/ send[s] = "again"
  /\ IF Refuses
       THEN Fail({s}) /\ UNCHANGED <<pending, via, copies>>
       ELSE IF Active THEN Publish({s}, ch) /\ UNCHANGED <<pending, attempts>>
       ELSE /\ pending' = SharedSetup
            /\ send' = [send EXCEPT ![s] = "setup"]
            /\ UNCHANGED <<via, attempts, copies>>
  /\ UNCHANGED <<ch, isClosed, fresh, chan, ready, closing, faults>>

(* The message was written, or confirmed.                                  *)
Published(s) ==
  /\ send[s] = "publish" /\ chan[via[s]] \in {"open", "inactive"} /\ Macrotask
  /\ send' = [send EXCEPT ![s] = "resolved"]
  /\ UNCHANGED <<ch, isClosed, pending, fresh, chan, ready, via, attempts, copies,
                 closing, faults>>

(* basic.nack                                                              *)
Nacked(s) ==
  /\ send[s] = "publish" /\ chan[via[s]] \in {"open", "inactive"} /\ Macrotask /\ Fault
  /\ Fail({s})
  /\ UNCHANGED <<ch, isClosed, pending, fresh, chan, ready, via, copies, closing>>

-----------------------------------------------------------------------------
(* setup()                                                                 *)

(* Mutant: _ch is assigned as soon as it is acquired.                      *)
AssignEarly(g) == g
AssignLater(g) == ch

SetupAcquired ==
  LET g == Cardinality({c \in Channels : chan[c] # "none"}) + 1
  IN /\ pending = "acquire" /\ Macrotask /\ g \in Channels
     /\ chan' = [chan EXCEPT ![g] = "open"] /\ fresh' = g /\ ch' = AssignLater(g)
     /\ pending' = "declare"
     /\ UNCHANGED <<isClosed, ready, send, via, attempts, copies, closing, faults>>

AcquireFails ==
  /\ pending = "acquire" /\ Macrotask /\ Fault
  /\ pending' = "failing"
  /\ UNCHANGED <<ch, isClosed, fresh, chan, ready, send, via, attempts, copies, closing>>

(* Queues, exchanges and bindings are declared, confirms are on.           *)
SetupDeclared ==
  /\ pending = "declare" /\ chan[fresh] = "open" /\ Macrotask
  /\ ch' = fresh /\ ready' = ready \cup {fresh}
  /\ pending' = "done"
  /\ UNCHANGED <<isClosed, fresh, chan, send, via, attempts, copies, closing, faults>>

InSetup == {s \in Sends : send[s] = "setup"}
ClosersIn(where) == {k \in Closers : closing[k] = where}
Moved(S, where) == [k \in Closers |-> IF k \in S THEN where ELSE closing[k]]

(* Mutants: a close() during the setup is forgotten; it closes nothing.    *)
NotClosed(g) == UNCHANGED <<chan, closing>>
OnlyReturns(g) == UNCHANGED chan /\ closing' = Moved(ClosersIn("setup"), "returned")
ThenClose(g) ==
  IF ClosersIn("setup") # {} /\ chan[g] = "open"
    THEN chan' = [chan EXCEPT ![g] = "inactive"] /\ closing' = Moved(ClosersIn("setup"), "channel")
    ELSE UNCHANGED chan /\ closing' = Moved(ClosersIn("setup"), "returned")

(* pendingSetup is undefined; those who await it go on, in the order of    *)
(* the calls, which puts close() last.                                     *)
SetupResolves ==
  /\ pending = "done"
  /\ pending' = "none"
  /\ IF chan[fresh] = "open" THEN Publish(InSetup, fresh) /\ UNCHANGED attempts
     ELSE Fail(InSetup) /\ UNCHANGED <<via, copies>>
  /\ ThenClose(fresh)
  /\ UNCHANGED <<ch, isClosed, fresh, ready, faults>>

SetupRejects ==
  /\ pending = "failing"
  /\ pending' = "none"
  /\ Fail(InSetup)
  /\ closing' = Moved(ClosersIn("setup"), "rejected")
  /\ UNCHANGED <<ch, isClosed, fresh, chan, ready, via, copies, faults>>

-----------------------------------------------------------------------------
(* The channel ends: what is published on it fails, a setup that uses it   *)
(* too, and a close() that waits for that returns.                         *)
Ends(g) ==
  /\ chan' = [chan EXCEPT ![g] = "closed"]
  /\ pending' = IF pending = "declare" /\ fresh = g THEN "failing" ELSE pending
  /\ Fail({s \in Sends : send[s] = "publish" /\ via[s] = g})
  /\ closing' = Moved(IF g = ch THEN ClosersIn("channel") ELSE {}, "returned")
  /\ UNCHANGED <<ch, isClosed, fresh, ready, via, copies>>

(* Lost, or closed by the broker: for a request of the setup it refuses,   *)
(* for instance, or in the same read as the answer to its last one.        *)
ChannelLost(g) ==
  /\ chan[g] \in {"open", "inactive"} /\ Fault
  /\ Macrotask \/ pending = "done"
  /\ Ends(g)

ChannelCloseOk(g) ==
  /\ chan[g] = "inactive" /\ Macrotask
  /\ Ends(g) /\ UNCHANGED faults

Close(k) ==
  /\ closing[k] = "none"
  /\ isClosed' = TRUE
  /\ IF pending # "none" THEN closing' = [closing EXCEPT ![k] = "setup"] /\ UNCHANGED chan
     ELSE IF Active
       THEN closing' = [closing EXCEPT ![k] = "channel"] /\ chan' = [chan EXCEPT ![ch] = "inactive"]
       ELSE closing' = [closing EXCEPT ![k] = "returned"] /\ UNCHANGED chan
  /\ UNCHANGED <<ch, pending, fresh, ready, send, via, attempts, copies, faults>>

-----------------------------------------------------------------------------
(* A send() that has not begun is a call by the user; the others go on by  *)
(* themselves.                                                             *)
Jobs ==
  \/ \E s \in Sends : (send[s] = "again" /\ Turn(s)) \/ Published(s)
  \/ SetupAcquired \/ SetupDeclared \/ SetupResolves \/ SetupRejects
  \/ \E g \in Channels : ChannelCloseOk(g)
Environment ==
  \/ \E s \in Sends : (send[s] = "none" /\ Turn(s)) \/ Nacked(s)
  \/ \E k \in Closers : Close(k)
  \/ AcquireFails
  \/ \E g \in Channels : ChannelLost(g)

Next == Jobs \/ Environment
Spec == Init /\ [][Next]_vars

(* Jobs that are ready run, and a server that is there answers.            *)
FairSpec == Spec /\ WF_vars(Jobs)

-----------------------------------------------------------------------------
(* The type of every variable.                                             *)
TypeOK ==
  /\ ch \in Channels \cup {0} /\ fresh \in Channels \cup {0} /\ isClosed \in BOOLEAN
  /\ pending \in {"none", "acquire", "declare", "done", "failing"}
  /\ chan \in [Channels -> {"none", "open", "inactive", "closed"}]
  /\ ready \in SUBSET Channels
  /\ send \in [Sends -> {"none", "resolved", "rejected"} \cup Unsettled]
  /\ via \in [Sends -> Channels \cup {0}]
  /\ attempts \in [Sends -> 0..MaxAttempts] /\ copies \in [Sends -> 0..MaxAttempts]
  /\ closing \in [Closers -> {"none", "setup", "channel", "returned", "rejected"}]
  /\ faults \in 0..MaxFaults

(* However many sends find the channel gone, one new channel is set up.    *)
OneChannel ==
  /\ Cardinality({g \in Channels : chan[g] = "open"}) <= 1
  /\ pending \in {"acquire", "declare"} => ~Active

(* A message is published at most maxAttempts times, and once more only    *)
(* after the attempt before has failed.                                    *)
CopiesBounded ==
  \A s \in Sends :
    /\ copies[s] <= MaxAttempts
    /\ copies[s] <= attempts[s] + (IF send[s] \in {"publish", "resolved"} THEN 1 ELSE 0)

(* A message is published only on a channel whose setup is complete: in    *)
(* confirm mode, to exchanges that were declared.                          *)
PublishedAfterSetup == \A s \in Sends : send[s] = "publish" => via[s] \in ready

(* All sends agree on the channel they share and on its state.             *)
Safe == TypeOK /\ OneChannel /\ PublishedAfterSetup

(* Once a close() has settled nothing is left behind: no channel in use,   *)
(* no setup that would open one.                                           *)
NothingLeft ==
  (\E k \in Closers : closing[k] \in {"returned", "rejected"}) =>
    pending = "none" /\ \A g \in Channels : chan[g] # "open"

(* Every send() settles, whatever fails and whoever closes.                *)
SendSettles == \A s \in Sends : send[s] \in Unsettled ~> send[s] \notin Unsettled

(* Every close() settles.                                                  *)
CloseSettles ==
  \A k \in Closers : closing[k] # "none" ~> closing[k] \in {"returned", "rejected"}

(* No call of the publisher is left waiting.                               *)
AllSettle == SendSettles /\ CloseSettles
=============================================================================

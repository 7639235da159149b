----------------------------- MODULE Heartbeat -----------------------------
(***************************************************************************)
(* The life of one socket as the two flags and the interval timer of       *)
(* Connection.ts 466-487 see it: what is read and written between two      *)
(* ticks, a socket corked by connection.blocked, the timeout.  The module  *)
(* that reads and writes (Framing) takes its steps from here.              *)
(***************************************************************************)
EXTENDS Naturals

VARIABLES
  link,               \* the socket: "up", "timeout" (by the timer), "down"
  hasRead, hasWrite,  \* the flags, since the last tick
  miss,               \* ticks without hasRead
  corked,             \* connection.blocked: what is written waits
  silence, quiet      \* ticks since the last frame read; since bytes left

beat == <<link, hasRead, hasWrite, miss, corked, silence, quiet>>

(* The timer starts when the negotiation is over.                          *)
BeatInit ==
  /\ link = "up" /\ hasRead = FALSE /\ hasWrite = FALSE /\ miss = 0
  /\ corked = FALSE /\ silence = 0 /\ quiet = 0

BeatRestart ==
  /\ link' = "up" /\ hasRead' = FALSE /\ hasWrite' = FALSE /\ miss' = 0
  /\ corked' = FALSE /\ silence' = 0 /\ quiet' = 0

-----------------------------------------------------------------------------
(* _handleChunk: any frame is a sign of life.                              *)
Read == hasRead' = TRUE /\ silence' = 0

(* socket.write, on a socket that may be corked.                           *)
Write ==
  /\ hasWrite' = TRUE
  /\ quiet' = IF corked THEN quiet ELSE 0

(* A frame that only says that the broker is there.                        *)
OnHeartbeat ==
  /\ link = "up" /\ Read
  /\ UNCHANGED <<link, hasWrite, miss, corked, quiet>>

OnBlocked ==
  /\ link = "up" /\ ~corked /\ Read
  /\ corked' = TRUE
  /\ UNCHANGED <<link, hasWrite, miss, quiet>>

(* Bytes that waited go out.  A broker that blocks a connection does not   *)
(* read from it, and counts from now.                                      *)
OnUnblocked ==
  /\ link = "up" /\ corked /\ Read
  /\ corked' = FALSE /\ quiet' = 0
  /\ UNCHANGED <<link, hasWrite, miss>>

(* Mutant: a flag is not cleared.                                          *)
TooMany(n) == n >= 4
Reset == 0
ClearRead == FALSE
LeaveWrite == hasWrite
ClearWrite == FALSE

(* The timer, every half heartbeat.                                        *)
Tick ==
  LET missed == IF hasRead THEN Reset ELSE miss + 1
      beats  == ~hasWrite /\ ~corked
  IN /\ link = "up"
     /\ miss' = missed
     /\ link' = IF ~hasRead /\ TooMany(missed) THEN "timeout" ELSE "up"
     /\ hasRead' = ClearRead
     /\ hasWrite' = ClearWrite
     /\ silence' = silence + 1
     /\ quiet' = IF beats THEN 0 ELSE IF corked THEN quiet ELSE quiet + 1
     /\ UNCHANGED corked

-----------------------------------------------------------------------------
(* The type of every variable.                                             *)
BeatType ==
  /\ link \in {"up", "timeout", "down"}
  /\ hasRead \in BOOLEAN /\ hasWrite \in BOOLEAN
  /\ corked \in BOOLEAN
  /\ miss \in 0..4 /\ silence \in Nat /\ quiet \in Nat

(* A socket is destroyed for its silence only if nothing was read for four *)
(* ticks: never when the broker sends a frame per heartbeat.               *)
KilledOnlySilent == link = "timeout" => silence >= 4

(* A broker that says nothing is noticed at the fifth tick at the latest,  *)
(* two and a half heartbeats, whatever this side writes meanwhile and      *)
(* whether it is blocked or not.  (DeadInTime is what was promised.)       *)
DeadNoticed == link = "up" => silence <= 4

(* The broker hears something of a connection that it does not block at    *)
(* least every other tick, that is once a heartbeat.                       *)
ShowsLife == link = "up" /\ ~corked => quiet <= 1

(* The heartbeat ends dead connections and no others, on both sides.       *)
BeatSound == KilledOnlySilent /\ DeadNoticed /\ ShowsLife

(* After `heartbeat` seconds, "two missed heartbeats", the connection is   *)
(* given up (normalize.ts 30-34): at the third tick since the last frame   *)
(* two whole intervals of half a heartbeat have passed.                    *)
DeadInTime == link = "up" => silence < 3
=============================================================================

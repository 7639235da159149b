------------------------------- MODULE IdPool -------------------------------
(***************************************************************************)
(* What those who ask for a channel id are promised, whatever keeps the    *)
(* books: an id has one owner at a time, who has it until the owner itself *)
(* is done with it; and who is owed an id is refused only if others own    *)
(* all of them.  Connection, who leases the ids, implements it.            *)
(***************************************************************************)
CONSTANTS Ids, Owners

VARIABLES
  serving,  \* whoever asks now is owed an id
  stage,    \* of each owner: "asks", "due", "holds", "done"
  holder    \* from the ids in use to their owners

vars == <<serving, stage, holder>>

Init == serving = FALSE /\ stage = [o \in Owners |-> "asks"] /\ holder = << >>

Free == Ids \ DOMAIN holder
Owed(o) == stage[o] = "due" \/ (stage[o] = "asks" /\ serving)
Become(O, s) == stage' = [o \in Owners |-> IF o \in O THEN s ELSE stage[o]]

Take(o, id) ==
  /\ Owed(o) /\ id \in Free
  /\ holder' = [i \in DOMAIN holder \cup {id} |-> IF i = id THEN o ELSE holder[i]]
  /\ Become({o}, "holds") /\ UNCHANGED serving

Refuse(o) == Owed(o) /\ Free = {} /\ Become({o}, "done") /\ UNCHANGED <<serving, holder>>

(* Nothing is owed to those who ask meanwhile.                             *)
TurnAway(O) ==
  /\ ~serving /\ \A o \in O : stage[o] = "asks"
  /\ Become(O, "done") /\ UNCHANGED <<serving, holder>>

Start(O) ==
  /\ ~serving /\ serving' /\ \A o \in O : stage[o] = "asks"
  /\ Become(O, "due") /\ UNCHANGED holder
Stop == serving /\ ~serving' /\ UNCHANGED <<stage, holder>>

(* Their ids come back together with the end of their owners, all of them  *)
(* and no others.                                                          *)
GiveBack(O) ==
  /\ \A o \in O : stage[o] = "holds"
  /\ holder' = [id \in {i \in DOMAIN holder : holder[i] \notin O} |-> holder[id]]
  /\ Become(O, "done") /\ (serving' => serving)

Next ==
  \/ \E o \in Owners : Refuse(o) \/ \E id \in Ids : Take(o, id)
  \/ \E O \in SUBSET Owners : TurnAway(O) \/ Start(O) \/ GiveBack(O)
  \/ Stop
Spec == Init /\ [][Next]_vars
=============================================================================

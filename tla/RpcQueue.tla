------------------------------ MODULE RpcQueue ------------------------------
(***************************************************************************)
(* What a channel promises of its synchronous methods: requests wait in    *)
(* the order of the calls and are answered in that order; one of them may  *)
(* fail and takes the channel with it, and when the channel ends all those *)
(* that wait fail together.  Nothing is said of slots, streams and frames. *)
(* Channel implements it, if no publish or no-wait call fails to be        *)
(* encoded (README, section 3, says why not then).                         *)
(***************************************************************************)
EXTENDS Sequences
CONSTANT Requests
VARIABLES
  waiting,  \* the requests without an answer, in the order of the calls
  outcome,  \* what each caller has been told
  open      \* are calls accepted?

vars == <<waiting, outcome, open>>
Waiting == {waiting[i] : i \in DOMAIN waiting}

Init == waiting = <<>> /\ outcome = [r \in Requests |-> "none"] /\ open = TRUE

Enter(r) ==
  /\ open /\ outcome[r] = "none"
  /\ waiting' = Append(waiting, r) /\ outcome' = [outcome EXCEPT ![r] = "pending"]
  /\ UNCHANGED open

Refuse(r) ==
  /\ ~open /\ outcome[r] = "none"
  /\ outcome' = [outcome EXCEPT ![r] = "rejected"]
  /\ UNCHANGED <<waiting, open>>

Answer ==
  /\ waiting # <<>>
  /\ waiting' = Tail(waiting) /\ outcome' = [outcome EXCEPT ![Head(waiting)] = "resolved"]
  /\ UNCHANGED open

Fail ==
  /\ waiting # <<>>
  /\ waiting' = Tail(waiting) /\ outcome' = [outcome EXCEPT ![Head(waiting)] = "rejected"]
  /\ open' = FALSE

Shut == open' = FALSE /\ UNCHANGED <<waiting, outcome>>

End ==
  /\ waiting' = <<>> /\ open' = FALSE
  /\ outcome' = [r \in Requests |-> IF r \in Waiting THEN "rejected" ELSE outcome[r]]

Next == (\E r \in Requests : Enter(r) \/ Refuse(r)) \/ Answer \/ Fail \/ Shut \/ End
Spec == Init /\ [][Next]_vars
=============================================================================

------------------------------ MODULE RemoteCall ------------------------------
(***************************************************************************)
(* What a caller may rely on when it calls a tool of the opponent: the     *)
(* tool runs at most once, before or after the call fails, but never when  *)
(* the call says that the opponent could not be reached.                   *)
(***************************************************************************)
EXTENDS Naturals

CONSTANTS
  Calls  \* the calls that may be made

VARIABLES
  outcome,  \* how each call ended, if it did
  executed  \* how often its tool has run

vars == <<outcome, executed>>

\* refused: the call failed in a way that may mean that the tool has run.
Endings == {"returned", "deadline", "refused", "unreachable"}
Outcomes == {"none", "pending"} \cup Endings

Init ==
  /\ outcome = [c \in Calls |-> "none"]
  /\ executed = [c \in Calls |-> 0]

Begin(c) ==
  /\ outcome[c] = "none"
  /\ outcome' = [outcome EXCEPT ![c] = "pending"]
  /\ UNCHANGED executed

Execute(c) ==
  /\ outcome[c] \notin {"none", "unreachable"}
  /\ executed[c] = 0
  /\ executed' = [executed EXCEPT ![c] = 1]
  /\ UNCHANGED outcome

End(c, how) ==
  /\ outcome[c] = "pending"
  /\ how = "returned" => executed[c] = 1
  /\ how = "unreachable" => executed[c] = 0
  /\ outcome' = [outcome EXCEPT ![c] = how]
  /\ UNCHANGED executed

Next == \E c \in Calls : Begin(c) \/ Execute(c) \/ \E how \in Endings : End(c, how)

Spec == Init /\ [][Next]_vars

=============================================================================

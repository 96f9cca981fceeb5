---------------------------- MODULE MatchOutcome ----------------------------
(***************************************************************************)
(* What a peer promises about one match, whatever its threads do: rounds   *)
(* are recorded one at a time while the match is being played, the match   *)
(* ends once with one verdict that its rounds justify, and the records are *)
(* shown to the opponent only afterwards, when nothing can change them.    *)
(***************************************************************************)
EXTENDS Integers

CONSTANTS
  Threshold,   \* recorded rounds that make a survival
  RoundLimit   \* most rounds a match may have

VARIABLES
  phase,       \* "setup", "playing", "over", "reported" or "crashed"
  rounds,      \* rounds recorded so far
  verdict,     \* how the match ended, "none" until it has
  shown        \* rounds in the log shown to the opponent, -1 before that

vars == <<phase, rounds, verdict, shown>>

Verdicts == {"survived", "captured", "max_moves_reached", "technical_loss"}

Justified(v, n) ==
  /\ v = "survived" => n >= Threshold
  /\ v = "max_moves_reached" => n = RoundLimit

TypeOK ==
  /\ phase \in {"setup", "playing", "over", "reported", "crashed"}
  /\ rounds \in 0 .. RoundLimit
  /\ verdict \in Verdicts \cup {"none"}
  /\ shown \in -1 .. RoundLimit

Init ==
  /\ phase = "setup"
  /\ rounds = 0
  /\ verdict = "none"
  /\ shown = -1

Agree ==
  /\ phase = "setup"
  /\ phase' \in {"playing", "crashed"}
  /\ UNCHANGED <<rounds, verdict, shown>>

\* A round is recorded; the verdict may be reached with it.
Round ==
  /\ phase = "playing"
  /\ verdict = "none"
  /\ rounds < RoundLimit
  /\ rounds' = rounds + 1
  /\ verdict' \in {v \in Verdicts : Justified(v, rounds')} \cup {"none"}
  /\ UNCHANGED <<phase, shown>>

\* The verdict is reached between rounds, or in a round that has no record.
Decide ==
  /\ phase = "playing"
  /\ verdict = "none"
  /\ verdict' \in {v \in Verdicts \ {"survived"} : Justified(v, rounds)}
  /\ UNCHANGED <<phase, rounds, shown>>

End ==
  /\ phase = "playing"
  /\ verdict # "none"
  /\ phase' = "over"
  /\ UNCHANGED <<rounds, verdict, shown>>

Show ==
  /\ phase = "over"
  /\ shown' = rounds
  /\ UNCHANGED <<phase, rounds, verdict>>

Conclude ==
  /\ phase = "over"
  /\ phase' \in {"reported", "crashed"}
  /\ UNCHANGED <<rounds, verdict, shown>>

Next == Agree \/ Round \/ Decide \/ End \/ Show \/ Conclude

Spec == Init /\ [][Next]_vars

=============================================================================

---------------------------- MODULE MatchVerdict ----------------------------
(***************************************************************************)
(* What a finished match is worth: the audits that count, the winner and   *)
(* the value of the report's "result" field.  Pure operators, used by      *)
(* PeerMatch when it files its report.                                     *)
(***************************************************************************)
EXTENDS Integers

EndReasons == {"survived", "captured", "max_moves_reached", "technical_loss"}
Audits == {"not_evaluated", "passed", "failed"}
Winners == {"me", "opponent"}
ResultValues == {"capture", "survival", "timeout", "tamper_forfeit"}

RESULT_VALUE == [r \in EndReasons |->
                    CASE r = "captured"       -> "capture"
                      [] r = "technical_loss" -> "timeout"
                      [] OTHER                -> "survival"]

AuditWasEvaluatedAlways(reason, selfAudit, opponentAudit) ==
  {selfAudit, opponentAudit} # {"not_evaluated"}

\* A technical loss is never audited, whatever the audits came back with.
AuditWasEvaluated(reason, selfAudit, opponentAudit) ==
  /\ reason # "technical_loss"
  /\ {selfAudit, opponentAudit} # {"not_evaluated"}

AuditOverride(reason, selfAudit, opponentAudit) ==
  /\ AuditWasEvaluated(reason, selfAudit, opponentAudit)
  /\ "failed" \in {selfAudit, opponentAudit}

\* Catching the opponent takes precedence over being caught.
Winner(reason, selfAudit, opponentAudit) ==
  IF AuditOverride(reason, selfAudit, opponentAudit)
  THEN IF opponentAudit = "failed" THEN "me" ELSE "opponent"
  ELSE IF reason \in {"technical_loss", "captured"} THEN "opponent" ELSE "me"

Result(reason, selfAudit, opponentAudit) ==
  IF AuditOverride(reason, selfAudit, opponentAudit)
  THEN "tamper_forfeit"
  ELSE RESULT_VALUE[reason]

=============================================================================

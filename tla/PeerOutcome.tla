---------------------------- MODULE PeerOutcome ----------------------------
(***************************************************************************)
(* PeerMatch implements MatchOutcome: the four threads of a peer together  *)
(* keep the promise that MatchOutcome makes of one match.                  *)
(***************************************************************************)
EXTENDS PeerMatch

PhaseOf(at) ==
  CASE at = "handshake" -> "setup"
    [] at \in Ended     -> at
    [] OTHER            -> IF matchOver THEN "over" ELSE "playing"

Outcome == INSTANCE MatchOutcome WITH
  Threshold  <- SurvivalThreshold,
  RoundLimit <- MaxMoves,
  phase      <- PhaseOf(pc),
  rounds     <- Len(records),
  verdict    <- endReason,
  shown      <- shown

\* Every behaviour of the peer is one of the abstract match: a record per
\* round, one verdict that the records justify, nothing shown before the end
\* and nothing changed after it.
ImplementsOutcome == Outcome!Spec

=============================================================================

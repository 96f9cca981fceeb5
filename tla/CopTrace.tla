------------------------------ MODULE CopTrace ------------------------------
(***************************************************************************)
(* What a cop_v1 thief records of the cop's rounds and how it audits them  *)
(* at the end (interop/cop_peer_audit.py), as pure operators.  The wire    *)
(* carries no round number, so the trace numbers what arrives.  A hash is  *)
(* the record of what it seals: SHA-256 with a fresh nonce is injective as *)
(* far as the audit can tell.  The hint travels and is sealed with the     *)
(* move, and the intent with the nonce, so neither has a field of its own. *)
(***************************************************************************)
EXTENDS BoardRules, Sequences

CONSTANT CopStart   \* board_and_agents.cop_start

ASSUME CopStartAssumption == CopStart \in Cells

\* A move of the cop: a direction, or a barrier that leaves her where she is.
Step(direction) == [type |-> "move", direction |-> direction, cell |-> CopStart]
Wall(cell) == [type |-> "place_barrier", direction |-> "STAY", cell |-> cell]
CopMoves == [type : {"move", "place_barrier"}, direction : Moves, cell : Cells]

\* Where a replay has got to.
Standing(cell, barriers) == [cell |-> cell, barriers |-> barriers]
Standings == [cell : Cells, barriers : SUBSET Cells]

AppliedPastTheEdge(at, move) ==
  IF move.type = "place_barrier"
  THEN Standing(at.cell, at.barriers \cup {move.cell})
  ELSE Standing(Target(at.cell, move.direction), at.barriers)

\* _apply: a step off the board stays where it is.
Applied(at, move) ==
  IF move.type = "place_barrier"
  THEN Standing(at.cell, at.barriers \cup {move.cell})
  ELSE IF Target(at.cell, move.direction) \in Cells
       THEN Standing(Target(at.cell, move.direction), at.barriers)
       ELSE at

\* What h_commit seals: the state string, the move and the step.
Seal(step, at, move) == [step |-> step, at |-> at, move |-> move]

NoCommit == [step |-> 0]
NoMove == [type |-> "none"]
Entry(commit, move, nonce) == [commit |-> commit, move |-> move, nonce |-> nonce]
NoEntry == Entry(NoCommit, NoMove, FALSE)

\* CopPeerEntry objects are made on first use, by whichever of the three
\* recordings comes first.
EmptyTrace == [entries |-> <<>>, nextCommit |-> 1, nextReveal |-> 1, claims |-> <<>>]

EntryAt(trace, step) ==
  IF step \in DOMAIN trace.entries THEN trace.entries[step] ELSE NoEntry

WithEntry(trace, step, entry) ==
  [s \in DOMAIN trace.entries \cup {step} |-> IF s = step THEN entry ELSE trace.entries[s]]

Trace(entries, nextCommit, nextReveal, claims) ==
  [entries |-> entries, nextCommit |-> nextCommit, nextReveal |-> nextReveal, claims |-> claims]

\* record_commit and record_reveal once they have read the step: write its
\* entry, then count on from whatever the count is by now.
RecordCommit(trace, step, commit) ==
  LET old == EntryAt(trace, step)
  IN  Trace(WithEntry(trace, step, Entry(commit, old.move, old.nonce)),
            trace.nextCommit + 1, trace.nextReveal, trace.claims)

RecordReveal(trace, step, move) ==
  LET old == EntryAt(trace, step)
  IN  Trace(WithEntry(trace, step, Entry(old.commit, move, old.nonce)),
            trace.nextCommit, trace.nextReveal + 1, trace.claims)

\* The final reveal carries one nonce for every step she committed to.
RecordFinalReveal(trace, steps) ==
  Trace([s \in DOMAIN trace.entries \cup steps |->
           LET old == EntryAt(trace, s)
           IN  Entry(old.commit, old.move, old.nonce \/ s \in steps)],
        trace.nextCommit, trace.nextReveal, trace.claims)

RecordClaim(trace, claim) ==
  Trace(trace.entries, trace.nextCommit, trace.nextReveal, Append(trace.claims, claim))

-----------------------------------------------------------------------------
(* audit_cop_peer_trace.                                                   *)

Complete(entry) == entry.commit # NoCommit /\ entry.move # NoMove /\ entry.nonce

\* The replay from cop_start.  An incomplete entry is failed and skipped.
Replay(entries, last) ==
  LET at[n \in 0 .. last] ==
        IF n = 0 THEN Standing(CopStart, {})
        ELSE IF n \in DOMAIN entries /\ Complete(entries[n])
             THEN Applied(at[n - 1], entries[n].move)
             ELSE at[n - 1]
  IN  at

CheckedSteps(trace) == {s \in DOMAIN trace.entries : Complete(trace.entries[s])}

FailedStepsByMove(trace, last) ==
  {s \in DOMAIN trace.entries :
     s \in CheckedSteps(trace) => trace.entries[s].commit.move # trace.entries[s].move}

FailedSteps(trace, last) ==
  {s \in DOMAIN trace.entries :
     s \in CheckedSteps(trace)
       => trace.entries[s].commit
            # Seal(s, Replay(trace.entries, last)[s], trace.entries[s].move)}

\* claims_by_step keeps the last claim of a step.
LastClaims(trace) ==
  {i \in DOMAIN trace.claims :
     \A j \in DOMAIN trace.claims : trace.claims[j].step = trace.claims[i].step => j <= i}

\* A claim about a step that was not checked cannot be verified and fails.
FailedClaims(trace, last) ==
  {i \in LastClaims(trace) :
     trace.claims[i].step \in CheckedSteps(trace)
       => trace.claims[i].copCell # Replay(trace.entries, last)[trace.claims[i].step].cell}

AuditPassed(trace, last) ==
  /\ FailedSteps(trace, last) = {}
  /\ FailedClaims(trace, last) = {}
  /\ CheckedSteps(trace) # {}

=============================================================================

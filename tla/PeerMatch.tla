------------------------------ MODULE PeerMatch ------------------------------
(***************************************************************************)
(* One peer's match, as PeerRuntime.run plays it in its native and cop_v1  *)
(* protocols.  Four kinds of threads share the peer's state: the main      *)
(* thread, which runs the round loop and files the report; the strategy    *)
(* thread of the current round, which the main thread may abandon; the     *)
(* worker threads of the MCP server, each running one tool handler at a    *)
(* time; and the opponent, who calls those tools whenever she likes.       *)
(***************************************************************************)
EXTENDS BoardRules, MatchVerdict, Sequences

CONSTANTS
  Protocol,           \* network.opponent_protocol: "native" or "cop_v1"
  Workers,            \* threads on which FastMCP runs tool handlers
  Start,              \* board_and_agents.thief_start
  SurvivalThreshold,  \* movement_and_barriers.survival_threshold
  MaxMoves,           \* movement_and_barriers.max_moves
  MaxBarriers,        \* movement_and_barriers.max_barriers
  BarrierCells        \* the cells a barrier may be declared on: nothing checks
                      \* that they are on the board

ASSUME MatchAssumption ==
  /\ Protocol \in {"native", "cop_v1"}
  /\ IsFiniteSet(Workers) /\ Workers # {}
  /\ Start \in Cells
  /\ SurvivalThreshold \in Nat \ {0}
  /\ MaxMoves \in Nat
  /\ MaxBarriers \in Nat
  /\ BarrierCells \subseteq Int \X Int

VARIABLES
  pc,                 \* where the main thread is
  fsm,                \* TurnFsm._state
  step,               \* the loop's round number
  sealed,             \* the round's sealed record, NoRecord when there is none
  records,            \* PeerRuntime.records
  endReason,          \* end_reason, "none" while the loop runs
  matchOver,          \* _match_over
  thinker,            \* where the round's strategy thread is
  choice,             \* the direction it decided on
  position,           \* OwnGameState.position
  stepCount,          \* OwnGameState.step_count
  known,              \* OwnGameState.known_barriers
  commits,            \* rounds with a hash in RoundExchange._commits
  reveals,            \* rounds with a message in RoundExchange._reveals
  capturedByBarrier,  \* _captured_by_barrier
  capturedByLanding,  \* _captured_by_landing
  wakeup,             \* _round_wakeup, never cleared
  job,                \* what each worker thread is running
  copAudit,           \* CopContextAdapter.opponent_audit
  selfAudit,          \* the opponent's audit of us
  opponentAudit,      \* our audit of the opponent
  shown,              \* records served by get_revealed_records, -1 before any
  report              \* what run() came to: NoReport while it runs, then the
                      \* filed result or the exception it raised

mainVars    == <<pc, fsm, step, sealed, records, endReason, matchOver>>
thinkVars   == <<thinker, choice>>
stateVars   == <<position, stepCount>>
inboxVars   == <<commits, reveals>>
captureVars == <<capturedByBarrier, capturedByLanding, wakeup>>
endVars     == <<selfAudit, opponentAudit, report>>
serverVars  == <<known, captureVars, job>>

vars == <<mainVars, thinkVars, stateVars, inboxVars, serverVars, copAudit, endVars, shown>>

-----------------------------------------------------------------------------
(* The turn state machine.                                                 *)

FsmStates == {"WAITING_FOR_OPPONENT", "COMPUTING_MOVE", "COMMITTING",
              "AWAITING_REVEAL", "VERIFYING", "TECHNICAL_LOSS"}

TRANSITIONS == [s \in FsmStates |->
  CASE s = "WAITING_FOR_OPPONENT" -> {"COMPUTING_MOVE"}
    [] s = "COMPUTING_MOVE"       -> {"COMMITTING", "TECHNICAL_LOSS"}
    [] s = "COMMITTING"           -> {"AWAITING_REVEAL"}
    [] s = "AWAITING_REVEAL"      -> {"VERIFYING", "TECHNICAL_LOSS"}
    [] s = "VERIFYING"            -> {"WAITING_FOR_OPPONENT"}
    [] s = "TECHNICAL_LOSS"       -> {}]

\* The catch-all of run(): a technical loss, and the round has no record.
CatchAll ==
  /\ endReason' = "technical_loss"
  /\ pc' = "close"

\* One transition of the FSM, then the main thread goes on at next; an
\* illegal one raises into the catch-all.
Transition(target, next) ==
  IF target \in TRANSITIONS[fsm]
  THEN /\ fsm' = target
       /\ pc' = next
       /\ UNCHANGED endReason
  ELSE /\ CatchAll
       /\ UNCHANGED fsm

\* Two transitions in a row, as the code makes them with nothing in between.
Transitions2(first, second, next) ==
  IF first \in TRANSITIONS[fsm] /\ second \in TRANSITIONS[first]
  THEN /\ fsm' = second
       /\ pc' = next
       /\ UNCHANGED endReason
  ELSE /\ CatchAll
       /\ fsm' = IF first \in TRANSITIONS[fsm] THEN first ELSE fsm

-----------------------------------------------------------------------------
(* Types and the initial state.                                            *)

Steps == 1 .. MaxMoves
StepRecord ==
  IF Protocol = "cop_v1"
  THEN [step : Steps, move : Moves, cell : Cells, count : 0 .. MaxMoves]
  ELSE [step : Steps, move : Moves]
NoRecord == [step |-> 0]
NoReport == [result |-> "none"]
Causes == {"handshake", "call", "answer", "names", "files"}
Report == [result : ResultValues, winner : Winners]
Exception == [raised : Causes]
NoCell == <<-1, -1>>
Job == [at : {"record", "compare"}, cell : BarrierCells]
         \cup [at : {"idle", "flag", "land", "wake"}, cell : {NoCell}]
Idle == [at |-> "idle", cell |-> NoCell]

InRound == {"pull", "think", "commit", "reveal", "await", "check", "lost"}
Ended == {"reported", "crashed"}
MainPoints == {"handshake", "top", "close", "final_reveal", "grace",
               "names", "submit_audit", "pull_records", "finalize"} \cup InRound \cup Ended

Init ==
  /\ pc = "handshake"
  /\ fsm = "WAITING_FOR_OPPONENT"
  /\ step = 0
  /\ sealed = NoRecord
  /\ records = <<>>
  /\ endReason = "none"
  /\ matchOver = FALSE
  /\ thinker = "idle"
  /\ choice = "STAY"
  /\ position = Start
  /\ stepCount = 0
  /\ known = {}
  /\ commits = {}
  /\ reveals = {}
  /\ capturedByBarrier = FALSE
  /\ capturedByLanding = FALSE
  /\ wakeup = FALSE
  /\ job = [w \in Workers |-> Idle]
  /\ copAudit = "not_evaluated"
  /\ selfAudit = "not_evaluated"
  /\ opponentAudit = "not_evaluated"
  /\ shown = -1
  /\ report = NoReport

-----------------------------------------------------------------------------
(* The main thread: handshake and the top of the loop.                     *)

RoundsLeft == step < MaxMoves

\* An exception that nothing in run() catches.
Raise(cause) ==
  /\ pc' = "crashed"
  /\ report' = [raised |-> cause]

Handshake ==
  /\ pc = "handshake"
  /\ \/ pc' = "top" /\ UNCHANGED report
     \/ Raise("handshake")
  /\ UNCHANGED <<fsm, step, sealed, records, endReason, matchOver, thinkVars, stateVars,
                 inboxVars, serverVars, copAudit, selfAudit, opponentAudit, shown>>

\* The loop condition comes first, so a landing confirmed once the last
\* round is over is not looked at.
LeaveLoop ==
  /\ pc = "top"
  /\ \/ ~RoundsLeft /\ endReason' = "max_moves_reached"
     \/ RoundsLeft /\ capturedByLanding /\ endReason' = "captured"
  /\ pc' = "close"
  /\ UNCHANGED <<fsm, step, sealed, records, matchOver, thinkVars, stateVars, inboxVars,
                 serverVars, copAudit, endVars, shown>>

StartRound ==
  /\ pc = "top"
  /\ RoundsLeft
  /\ ~capturedByLanding
  /\ step' = step + 1
  /\ Transition("COMPUTING_MOVE", IF Protocol = "cop_v1" THEN "pull" ELSE "think")
  /\ thinker' = IF Protocol = "cop_v1" THEN "idle" ELSE "decide"
  /\ UNCHANGED <<sealed, records, matchOver, choice, stateVars, inboxVars, serverVars,
                 copAudit, endVars, shown>>

\* cop_v1 pulls the cop's scent first; a failed pull keeps the last one, a
\* malformed answer raises.
PullScent ==
  /\ pc = "pull"
  /\ \/ /\ pc' = "think"
        /\ thinker' = "decide"
        /\ UNCHANGED endReason
     \/ /\ CatchAll
        /\ UNCHANGED thinker
  /\ UNCHANGED <<fsm, step, sealed, records, matchOver, choice, stateVars, inboxVars,
                 serverVars, copAudit, endVars, shown>>

-----------------------------------------------------------------------------
(* The strategy thread: TurnHandler.play_turn, then the hint.  It reads    *)
(* the barriers twice, when the brain decides and when apply_move checks.  *)

Decide ==
  /\ thinker = "decide"
  /\ choice' \in LegalMoves(position, known)
  /\ thinker' = "validate"
  /\ UNCHANGED <<mainVars, stateVars, inboxVars, serverVars, copAudit, endVars, shown>>

Validate ==
  /\ thinker = "validate"
  /\ thinker' = IF choice \in LegalMoves(position, known) THEN "apply" ELSE "raised"
  /\ UNCHANGED <<mainVars, choice, stateVars, inboxVars, serverVars, copAudit, endVars, shown>>

StepsAfterUnlessStay == IF choice = "STAY" THEN stepCount ELSE stepCount + 1
StepsAfter == stepCount + 1

ApplyMove ==
  /\ thinker = "apply"
  /\ position' = Target(position, choice)
  /\ stepCount' = StepsAfter
  /\ thinker' = "hint"
  /\ UNCHANGED <<mainVars, choice, inboxVars, serverVars, copAudit, endVars, shown>>

GenerateHint ==
  /\ thinker = "hint"
  /\ thinker' = "done"
  /\ UNCHANGED <<mainVars, choice, stateVars, inboxVars, serverVars, copAudit, endVars, shown>>

-----------------------------------------------------------------------------
(* The main thread: one commit/reveal round.                               *)

\* What the seal commits to.  cop_v1 seals the cell and the step count beside
\* the move, for the cop to replay; native's state is the round number alone.
SealedRecord ==
  IF Protocol = "cop_v1"
  THEN [step |-> step, move |-> choice, cell |-> position, count |-> stepCount]
  ELSE [step |-> step, move |-> choice]

\* The thread came back in time: seal the move it made.
SealMove ==
  /\ pc = "think"
  /\ thinker = "done"
  /\ sealed' = SealedRecord
  /\ thinker' = "idle"
  /\ Transition("COMMITTING", "commit")
  /\ UNCHANGED <<step, records, matchOver, choice, stateVars, inboxVars, serverVars,
                 copAudit, endVars, shown>>

\* The thread raised, or is still running at the strategy deadline; in the
\* second case it is left running.
StrategyFails ==
  /\ pc = "think"
  /\ thinker # "done"
  /\ CatchAll
  /\ UNCHANGED <<fsm, step, sealed, records, matchOver, thinkVars, stateVars, inboxVars,
                 serverVars, copAudit, endVars, shown>>

SendCommit ==
  /\ pc = "commit"
  /\ pc' = "reveal"
  /\ UNCHANGED <<fsm, step, sealed, records, endReason, matchOver, thinkVars, stateVars,
                 inboxVars, serverVars, copAudit, endVars, shown>>

SendReveal ==
  /\ pc = "reveal"
  /\ Transition("AWAITING_REVEAL", "await")
  /\ UNCHANGED <<step, sealed, records, matchOver, thinkVars, stateVars, inboxVars,
                 serverVars, copAudit, endVars, shown>>

\* The table has no edge from COMMITTING to the loss, so a failed send goes
\* through AWAITING_REVEAL.
LoseAfterSendDirectly == Transition("TECHNICAL_LOSS", "lost")
LoseAfterSend == Transitions2("AWAITING_REVEAL", "TECHNICAL_LOSS", "lost")

SendFails ==
  /\ pc \in {"commit", "reveal"}
  /\ LoseAfterSend
  /\ UNCHANGED <<step, sealed, records, matchOver, thinkVars, stateVars, inboxVars,
                 serverVars, copAudit, endVars, shown>>

\* A poll of wait_for_reveal looks at the wake-up first, then at the mailbox.
PollEnds == wakeup \/ step \in reveals

AwaitReveal ==
  /\ pc = "await"
  /\ PollEnds
  /\ Transitions2("VERIFYING", "WAITING_FOR_OPPONENT", "check")
  /\ UNCHANGED <<step, sealed, records, matchOver, thinkVars, stateVars, inboxVars,
                 serverVars, copAudit, endVars, shown>>

AwaitTimeoutNever == FALSE

\* The deadline may pass in the sleep after a poll that found nothing, so
\* it may win over a reveal or a wake-up that came during that sleep.
AwaitTimeout ==
  /\ pc = "await"
  /\ Transition("TECHNICAL_LOSS", "lost")
  /\ UNCHANGED <<step, sealed, records, matchOver, thinkVars, stateVars, inboxVars,
                 serverVars, copAudit, endVars, shown>>

CapturedIgnoringFlags == Stuck(position, known)
Captured == Stuck(position, known) \/ capturedByBarrier \/ capturedByLanding

RoundVerdict ==
  IF Survived(stepCount, SurvivalThreshold) THEN "survived"
  ELSE IF Captured THEN "captured" ELSE "none"

KeepNoRecord ==
  /\ UNCHANGED records
  /\ sealed' = NoRecord

KeepRecord ==
  /\ records' = Append(records, sealed)
  /\ sealed' = NoRecord

CheckRound ==
  /\ pc = "check"
  /\ KeepRecord
  /\ endReason' = RoundVerdict
  /\ pc' = IF RoundVerdict = "none" THEN "top" ELSE "close"
  /\ UNCHANGED <<fsm, step, matchOver, thinkVars, stateVars, inboxVars, serverVars,
                 copAudit, endVars, shown>>

CheckLostRound ==
  /\ pc = "lost"
  /\ KeepRecord
  /\ CatchAll
  /\ UNCHANGED <<fsm, step, matchOver, thinkVars, stateVars, inboxVars, serverVars,
                 copAudit, endVars, shown>>

-----------------------------------------------------------------------------
(* The main thread: the end of the match.                                  *)

CloseLoop ==
  /\ pc = "close"
  /\ matchOver' = TRUE
  /\ pc' = IF Protocol = "cop_v1" THEN "final_reveal" ELSE "names"
  /\ UNCHANGED <<fsm, step, sealed, records, endReason, thinkVars, stateVars, inboxVars,
                 serverVars, copAudit, endVars, shown>>

\* cop_v1: the cop's answer to our final reveal is her audit of us.  A failed
\* call or an answer that is no audit counts as not evaluated; an audit whose
\* counts are no numbers or lists raises, outside the try.
HerAuditUnguarded ==
  \/ selfAudit' \in Audits /\ pc' = "grace" /\ UNCHANGED report
  \/ \E cause \in {"call", "answer"} : Raise(cause) /\ UNCHANGED selfAudit
HerAudit ==
  \/ selfAudit' \in Audits /\ pc' = "grace" /\ UNCHANGED report
  \/ Raise("answer") /\ UNCHANGED selfAudit

FinalReveal ==
  /\ pc = "final_reveal"
  /\ HerAudit
  /\ UNCHANGED <<fsm, step, sealed, records, endReason, matchOver, thinkVars, stateVars,
                 inboxVars, serverVars, copAudit, opponentAudit, shown>>

\* cop_v1: wait for her final reveal, no longer than the grace ceiling, then
\* take whatever audit the adapter holds.
ShutdownGrace ==
  /\ pc = "grace"
  /\ opponentAudit' = copAudit
  /\ pc' = "names"
  /\ UNCHANGED <<fsm, step, sealed, records, endReason, matchOver, thinkVars, stateVars,
                 inboxVars, serverVars, copAudit, selfAudit, report, shown>>

\* finalize_match begins by refusing two groups of one name; a native match
\* that was played to its end is audited first, any other is filed as it is.
CheckNames ==
  /\ pc = "names"
  /\ \/ Raise("names")
     \/ /\ pc' = IF Protocol = "cop_v1" \/ endReason = "technical_loss"
                 THEN "finalize" ELSE "submit_audit"
        /\ UNCHANGED report
  /\ UNCHANGED <<fsm, step, sealed, records, endReason, matchOver, thinkVars, stateVars,
                 inboxVars, serverVars, copAudit, selfAudit, opponentAudit, shown>>

\* native: the opponent audits the records we submit; neither a failed call
\* nor an answer that is no audit is caught.
SubmitAudit ==
  /\ pc = "submit_audit"
  /\ \/ /\ selfAudit' \in {"passed", "failed"}
        /\ pc' = "pull_records"
        /\ UNCHANGED report
     \/ /\ \E cause \in {"call", "answer"} : Raise(cause)
        /\ UNCHANGED selfAudit
  /\ UNCHANGED <<fsm, step, sealed, records, endReason, matchOver, thinkVars, stateVars,
                 inboxVars, serverVars, copAudit, opponentAudit, shown>>

\* native: we pull her records and audit them; nothing is caught here either.
PullRecords ==
  /\ pc = "pull_records"
  /\ \/ /\ opponentAudit' \in {"passed", "failed"}
        /\ pc' = "finalize"
        /\ UNCHANGED report
     \/ /\ \E cause \in {"call", "answer"} : Raise(cause)
        /\ UNCHANGED opponentAudit
  /\ UNCHANGED <<fsm, step, sealed, records, endReason, matchOver, thinkVars, stateVars,
                 inboxVars, serverVars, copAudit, selfAudit, shown>>

\* write_and_send raises on a counter or result file it cannot read or write
\* (PeerProcess has the files).
Finalize ==
  /\ pc = "finalize"
  /\ \/ /\ report' = [result |-> Result(endReason, selfAudit, opponentAudit),
                      winner |-> Winner(endReason, selfAudit, opponentAudit)]
        /\ pc' = "reported"
     \/ Raise("files")
  /\ UNCHANGED <<fsm, step, sealed, records, endReason, matchOver, thinkVars, stateVars,
                 inboxVars, serverVars, copAudit, selfAudit, opponentAudit, shown>>

-----------------------------------------------------------------------------
(* The MCP server: tool handlers, on worker threads of their own, as long  *)
(* as the process lives.                                                   *)

Serving == pc \notin Ended

\* A native opponent numbers her own messages; a cop_v1 opponent's messages
\* are numbered by the adapter as they arrive.
Numbering(inbox) ==
  IF Protocol = "cop_v1" THEN {Cardinality(inbox) + 1} \cap Steps ELSE Steps

CommitArrives ==
  /\ Serving
  /\ \E s \in Numbering(commits) : commits' = commits \cup {s}
  /\ UNCHANGED <<mainVars, thinkVars, stateVars, reveals, serverVars, copAudit, endVars, shown>>

RevealArrives ==
  /\ Serving
  /\ \E s \in Numbering(reveals) : reveals' = reveals \cup {s}
  /\ UNCHANGED <<mainVars, thinkVars, stateVars, commits, serverVars, copAudit, endVars, shown>>

WithinQuotaBeforeCell(cell) == Cardinality(known) <= MaxBarriers
WithinQuota(cell) == Cardinality(known \cup {cell}) <= MaxBarriers

\* receive_barrier_declaration: check the quota, record the cell, compare it
\* with the position, raise the flag, wake the main thread.
DeclareBarrier(w, cell) ==
  /\ Serving
  /\ job[w] = Idle
  /\ WithinQuota(cell)
  /\ job' = [job EXCEPT ![w] = [at |-> "record", cell |-> cell]]
  /\ UNCHANGED <<mainVars, thinkVars, stateVars, inboxVars, known, captureVars, copAudit,
                 endVars, shown>>

RecordBarrier(w) ==
  /\ Serving
  /\ job[w].at = "record"
  /\ known' = known \cup {job[w].cell}
  /\ job' = [job EXCEPT ![w].at = "compare"]
  /\ UNCHANGED <<mainVars, thinkVars, stateVars, inboxVars, captureVars, copAudit, endVars, shown>>

CompareBarrier(w) ==
  /\ Serving
  /\ job[w].at = "compare"
  /\ job' = [job EXCEPT ![w] = IF job[w].cell = position
                               THEN [at |-> "flag", cell |-> NoCell] ELSE Idle]
  /\ UNCHANGED <<mainVars, thinkVars, stateVars, inboxVars, known, captureVars, copAudit,
                 endVars, shown>>

FlagBarrier(w) ==
  /\ Serving
  /\ job[w].at = "flag"
  /\ capturedByBarrier' = TRUE
  /\ job' = [job EXCEPT ![w] = [at |-> "wake", cell |-> NoCell]]
  /\ UNCHANGED <<mainVars, thinkVars, stateVars, inboxVars, known, capturedByLanding, wakeup,
                 copAudit, endVars, shown>>

\* cop_v1's receive_capture_claim, when the claimed cell is the position.
ConfirmLanding(w) ==
  /\ Serving
  /\ Protocol = "cop_v1"
  /\ job[w] = Idle
  /\ job' = [job EXCEPT ![w] = [at |-> "land", cell |-> NoCell]]
  /\ UNCHANGED <<mainVars, thinkVars, stateVars, inboxVars, known, captureVars, copAudit,
                 endVars, shown>>

FlagLanding(w) ==
  /\ Serving
  /\ job[w].at = "land"
  /\ capturedByLanding' = TRUE
  /\ job' = [job EXCEPT ![w] = [at |-> "wake", cell |-> NoCell]]
  /\ UNCHANGED <<mainVars, thinkVars, stateVars, inboxVars, known, capturedByBarrier, wakeup,
                 copAudit, endVars, shown>>

Wake(w) ==
  /\ Serving
  /\ job[w].at = "wake"
  /\ wakeup' = TRUE
  /\ job' = [job EXCEPT ![w] = Idle]
  /\ UNCHANGED <<mainVars, thinkVars, stateVars, inboxVars, known, capturedByBarrier,
                 capturedByLanding, copAudit, endVars, shown>>

MayShowAlways == TRUE
MayShow == matchOver

\* get_revealed_records refuses until this peer has ended its own match.
ShowRecords ==
  /\ Serving
  /\ MayShow
  /\ shown' = Len(records)
  /\ UNCHANGED <<mainVars, thinkVars, stateVars, inboxVars, serverVars, copAudit, endVars>>

\* cop_v1's receive_final_reveal: audit the cop's trace, at any time.
FinalRevealArrives ==
  /\ Serving
  /\ Protocol = "cop_v1"
  /\ copAudit' \in {"passed", "failed"}
  /\ UNCHANGED <<mainVars, thinkVars, stateVars, inboxVars, serverVars, endVars, shown>>

-----------------------------------------------------------------------------
(* The specification.                                                      *)

MainThread ==
  \/ Handshake \/ LeaveLoop \/ StartRound \/ PullScent
  \/ SealMove \/ StrategyFails \/ SendCommit \/ SendReveal \/ SendFails
  \/ AwaitReveal \/ AwaitTimeout \/ CheckRound \/ CheckLostRound
  \/ CloseLoop \/ FinalReveal \/ ShutdownGrace \/ CheckNames
  \/ SubmitAudit \/ PullRecords \/ Finalize

StrategyThread == Decide \/ Validate \/ ApplyMove \/ GenerateHint

Worker(w) ==
  \/ \E cell \in BarrierCells : DeclareBarrier(w, cell)
  \/ RecordBarrier(w) \/ CompareBarrier(w) \/ FlagBarrier(w)
  \/ ConfirmLanding(w) \/ FlagLanding(w) \/ Wake(w)

Opponent == CommitArrives \/ RevealArrives \/ ShowRecords \/ FinalRevealArrives

\* The process is gone; an abandoned strategy thread goes with it.
Exit == pc \in Ended /\ UNCHANGED vars

Next ==
  \/ MainThread
  \/ Serving /\ StrategyThread
  \/ \E w \in Workers : Worker(w)
  \/ Opponent
  \/ Exit

Spec == Init /\ [][Next]_vars

\* The main thread is never blocked for good: every wait of its own has a
\* deadline.  Nothing is assumed of the strategy thread or of the opponent.
FairSpec == Spec /\ WF_vars(MainThread)

-----------------------------------------------------------------------------
(* Properties.                                                             *)

TypeOK ==
  /\ pc \in MainPoints
  /\ fsm \in FsmStates
  /\ step \in 0 .. MaxMoves
  /\ sealed \in StepRecord \cup {NoRecord}
  /\ records \in Seq(StepRecord)
  /\ endReason \in EndReasons \cup {"none"}
  /\ matchOver \in BOOLEAN
  /\ thinker \in {"idle", "decide", "validate", "apply", "hint", "done", "raised"}
  /\ choice \in Moves
  /\ position \in Cells
  /\ stepCount \in 0 .. MaxMoves
  /\ known \subseteq BarrierCells
  /\ commits \subseteq Steps
  /\ reveals \subseteq Steps
  /\ capturedByBarrier \in BOOLEAN
  /\ capturedByLanding \in BOOLEAN
  /\ wakeup \in BOOLEAN
  /\ job \in [Workers -> Job]
  /\ {copAudit, selfAudit, opponentAudit} \subseteq Audits
  /\ shown \in -1 .. MaxMoves
  /\ report \in Report \cup Exception \cup {NoReport}

\* A round is begun only once the opponent has revealed every earlier one: a
\* wake-up that ends a wait without her reveal also ends the match.
Lockstep == pc = "top" => 1 .. step \subseteq reveals

\* cop_v1: the log is one record per round, in order, each sealing the step
\* count and the cell that the moves in it, replayed from the start, lead to:
\* the cop's audit, which replays them, cannot fail an honest thief, whatever
\* barriers came in between decision and move and whichever strategy threads
\* were abandoned (cop_round_loop.py:80-92).
SealedTrail ==
  \A i \in 1 .. Len(records) :
    LET from == IF i = 1 THEN Start ELSE records[i - 1].cell
    IN  /\ records[i].step = i
        /\ records[i].count = i
        /\ records[i].cell = Target(from, records[i].move)

\* A round whose move was sealed is in the log when the match is over, also
\* when the round was lost to a failed send or to a deadline.
NoSealedRoundDropped == matchOver => sealed = NoRecord

\* A verdict other than a technical loss is backed by the log and the state:
\* a survival by as many recorded moves as the threshold, the move cap by a
\* full log, a capture by something that captures.
VerdictJustified ==
  /\ endReason = "survived" => Len(records) = stepCount /\ stepCount >= SurvivalThreshold
  /\ endReason = "max_moves_reached" => Len(records) = MaxMoves
  /\ endReason = "captured" => Captured

\* Worker threads that pass the quota check together overshoot the quota by
\* at most their number less one.
QuotaSlack == Cardinality(known) <= MaxBarriers + Cardinality(Workers) - 1

\* Rule 18 and the audit: what get_revealed_records has served is the final
\* log of a match whose verdict no longer changes.
ShownIsFinal ==
  [][shown # -1 => records' = records /\ endReason' = endReason]_vars

\* No audit, however it came out, turns a technical loss into a win.
LossStands ==
  pc = "reported" /\ endReason = "technical_loss"
    => report = [result |-> "timeout", winner |-> "opponent"]

\* In cop_v1 no failed call costs an ended match its report, as it does in
\* native: run() raises after the match only on an audit of the cop's that
\* cannot be read, on two groups of one name, or on the files.
EndedIsReported ==
  pc = "crashed" /\ matchOver => report.raised \in {"answer", "names", "files"}

\* A survival is reported only of a thief nobody has captured: match_end.py
\* reads the survival row of the scoring table as "survives
\* survival_threshold valid steps without capture".
SurvivalIsUncaptured ==
  [][endReason = "none" /\ endReason' = "survived"
       => ~capturedByBarrier /\ ~capturedByLanding]_vars

\* The move of a round leaves this peer only when the opponent's hash for
\* that round is in, so that neither side can choose knowing the other's
\* move (docs/PRD_8_peer_runtime.md, 2.3 and 2.5).
RevealAfterBothCommits ==
  [][pc = "reveal" /\ pc' = "await" => step \in commits]_vars

\* run() returns or raises even if the opponent falls silent for ever and
\* the strategy thread never comes back.
Terminates == <>(pc \in Ended)

=============================================================================

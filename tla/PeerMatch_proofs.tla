--------------------------- MODULE PeerMatch_proofs ---------------------------
(***************************************************************************)
(* Proofs about PeerMatch, for every protocol, board, threshold, quota and *)
(* set of worker threads.  One inductive invariant, IInv, says for every   *)
(* point of the main thread what the round's record, the log, the step     *)
(* count, the strategy thread and the turn machine are; the theorems at    *)
(* the end follow from it.                                                 *)
(***************************************************************************)
EXTENDS PeerMatch, TLAPS

-----------------------------------------------------------------------------
(* The inductive invariant.                                                *)

BetweenRounds == {"handshake", "top"}
BeforeSeal == {"pull", "think"}
AfterSeal == {"commit", "reveal", "await", "check", "lost"}
Closing == {"final_reveal", "grace", "names", "submit_audit", "pull_records", "finalize"}

\* The turn machine follows the main thread, so its transitions are legal.
FsmInv ==
  /\ pc \in {"handshake", "top", "check"} => fsm = "WAITING_FOR_OPPONENT"
  /\ pc \in BeforeSeal => fsm = "COMPUTING_MOVE"
  /\ pc \in {"commit", "reveal"} => fsm = "COMMITTING"
  /\ pc = "await" => fsm = "AWAITING_REVEAL"

\* The log lacks exactly the round being played, and a round has a sealed
\* record from its seal to its check.
LogInv ==
  /\ Len(records) <= step
  /\ pc \in BetweenRounds => Len(records) = step
  /\ pc \in InRound => step \in Steps /\ Len(records) = step - 1
  /\ pc \in AfterSeal => sealed \in StepRecord
  /\ pc \notin AfterSeal => sealed = NoRecord

\* The strategy thread adds one to the step count, once a round.
ThinkerInv ==
  /\ pc \in BetweenRounds \cup {"pull"} \cup AfterSeal => thinker = "idle"
  /\ pc \in BetweenRounds \cup AfterSeal => stepCount = step
  /\ pc = "pull" => stepCount = step - 1
  /\ pc = "think" => thinker # "idle"
  /\ thinker \in {"decide", "validate", "apply"} => step \in Steps /\ stepCount = step - 1
  /\ thinker \in {"hint", "done"} => stepCount = step
  /\ thinker \in {"validate", "apply"} => Target(position, choice) \in Cells

\* The verdict is reached once, when the loop is left.
VerdictInv ==
  /\ pc \in BetweenRounds \cup InRound => endReason = "none" /\ ~matchOver
  /\ pc = "close" => endReason \in EndReasons /\ ~matchOver
  /\ pc \in Closing => endReason \in EndReasons
  /\ shown # -1 => matchOver

\* The wake-up is never raised before a flag, and a round is only ever begun
\* or completed behind the opponent's own reveals.
RevealInv ==
  /\ wakeup => capturedByBarrier \/ capturedByLanding
  /\ \A w \in Workers : job[w].at = "wake" => capturedByBarrier \/ capturedByLanding
  /\ pc \in BetweenRounds => 1 .. step \subseteq reveals
  /\ pc \in InRound => 1 .. (step - 1) \subseteq reveals
  /\ pc = "check" => step \in reveals \/ capturedByBarrier \/ capturedByLanding

IInv == TypeOK /\ FsmInv /\ LogInv /\ ThinkerInv /\ VerdictInv /\ RevealInv

-----------------------------------------------------------------------------
(* Facts about the board and the verdict.                                  *)

\* STAY goes nowhere.
LEMMA StayStays ==
  ASSUME NEW cell \in Cells
  PROVE  Target(cell, "STAY") = cell
<1>1. DELTAS["STAY"] = <<0, 0>>
  BY DEF DELTAS, Moves, Directions
<1> QED
  BY <1>1 DEF Target, Cells

\* A legal move ends on the board, whatever barriers are known: what the
\* brain decides and what apply_move accepts are both moves of this kind.
LEMMA LegalMoveStays ==
  ASSUME NEW cell \in Cells, NEW barriers, NEW m \in LegalMoves(cell, barriers)
  PROVE  m \in Moves /\ Target(cell, m) \in Cells
<1>1. CASE m = "STAY"
  BY <1>1, StayStays DEF Moves
<1>2. CASE m # "STAY"
  BY <1>2 DEF LegalMoves, Moves
<1> QED
  BY <1>1, <1>2

\* Every verdict has a value and a winner in the report.
LEMMA ResultType ==
  ASSUME NEW reason \in EndReasons, NEW mine, NEW hers
  PROVE  Result(reason, mine, hers) \in ResultValues /\ Winner(reason, mine, hers) \in Winners
<1>1. RESULT_VALUE[reason] \in ResultValues
  BY DEF RESULT_VALUE, EndReasons, ResultValues
<1> QED
  BY <1>1 DEF Result, Winner, ResultValues, Winners

-----------------------------------------------------------------------------
(* The invariant is inductive.                                             *)

LEMMA InitIInv == Init => IInv
<1> SUFFICES ASSUME Init PROVE IInv
  OBVIOUS
<1> USE MatchAssumption DEF Init, BetweenRounds, BeforeSeal, AfterSeal, Closing, InRound,
        MainPoints, Ended
<1>1. TypeOK
  <2>1. records \in Seq(StepRecord)
    BY DEF Init
  <2>2. job \in [Workers -> Job]
    BY DEF Job, Idle, NoCell
  <2>3. step \in 0 .. MaxMoves /\ stepCount \in 0 .. MaxMoves /\ shown \in -1 .. MaxMoves
    OBVIOUS
  <2> QED
    BY <2>1, <2>2, <2>3 DEF TypeOK, FsmStates, Audits, Moves
<1>2. FsmInv /\ LogInv /\ ThinkerInv /\ VerdictInv
  BY DEF FsmInv, LogInv, ThinkerInv, VerdictInv
<1>3. RevealInv
  BY DEF RevealInv, Idle
<1> QED
  BY <1>1, <1>2, <1>3 DEF IInv

LEMMA NextIInv == IInv /\ [Next]_vars => IInv'
<1> SUFFICES ASSUME IInv, [Next]_vars PROVE IInv'
  OBVIOUS
<1> USE MatchAssumption DEF IInv, BetweenRounds, BeforeSeal, AfterSeal, Closing, InRound,
        MainPoints, Ended, Steps, vars, mainVars, thinkVars, stateVars, inboxVars,
        captureVars, endVars, serverVars
<1>1. CASE Handshake
  <2>1. TypeOK'
    BY <1>1 DEF TypeOK, Exception, Causes, Raise, Handshake
  <2>2. LogInv'
    BY <1>1 DEF LogInv, TypeOK, Handshake, Raise
  <2>3. VerdictInv'
    BY <1>1 DEF VerdictInv, Handshake, Raise
  <2>4. FsmInv' /\ ThinkerInv' /\ RevealInv'
    BY <1>1 DEF FsmInv, ThinkerInv, RevealInv, Handshake, Raise
  <2> QED BY <2>1, <2>2, <2>3, <2>4 DEF IInv
<1>2. CASE LeaveLoop
  <2>1. TypeOK'
    BY <1>2 DEF TypeOK, EndReasons, LeaveLoop
  <2>2. VerdictInv'
    BY <1>2 DEF VerdictInv, EndReasons, LeaveLoop
  <2>3. FsmInv' /\ LogInv' /\ ThinkerInv' /\ RevealInv'
    BY <1>2 DEF FsmInv, LogInv, ThinkerInv, RevealInv, LeaveLoop
  <2> QED BY <2>1, <2>2, <2>3 DEF IInv
<1>3. CASE StartRound
  <2>1. TypeOK'
    BY <1>3 DEF TypeOK, FsmInv, StartRound, RoundsLeft, Transition, TRANSITIONS, CatchAll,
       FsmStates
  <2>2. FsmInv'
    BY <1>3 DEF FsmInv, StartRound, RoundsLeft, Transition, TRANSITIONS, CatchAll,
       FsmStates
  <2>3. LogInv'
    BY <1>3 DEF LogInv, TypeOK, StartRound, RoundsLeft, Transition, TRANSITIONS, CatchAll,
       FsmStates
  <2>4. ThinkerInv'
    BY <1>3 DEF ThinkerInv, TypeOK, LogInv, StartRound, RoundsLeft, Transition,
       TRANSITIONS, CatchAll, FsmStates
  <2>5. VerdictInv'
    BY <1>3 DEF VerdictInv, FsmInv, StartRound, RoundsLeft, Transition, TRANSITIONS,
       CatchAll, FsmStates
  <2>6. RevealInv'
    BY <1>3 DEF RevealInv, TypeOK, StartRound, RoundsLeft, Transition, TRANSITIONS,
       CatchAll, FsmStates
  <2> QED BY <2>1, <2>2, <2>3, <2>4, <2>5, <2>6 DEF IInv
<1>4. CASE PullScent
  <2>1. TypeOK'
    BY <1>4 DEF TypeOK, EndReasons, PullScent, CatchAll
  <2>2. FsmInv'
    BY <1>4 DEF FsmInv, PullScent, CatchAll
  <2>3. ThinkerInv'
    BY <1>4 DEF ThinkerInv, TypeOK, LogInv, PullScent, CatchAll
  <2>4. VerdictInv'
    BY <1>4 DEF VerdictInv, EndReasons, PullScent, CatchAll
  <2>5. LogInv' /\ RevealInv'
    BY <1>4 DEF LogInv, RevealInv, PullScent, CatchAll
  <2> QED BY <2>1, <2>2, <2>3, <2>4, <2>5 DEF IInv
<1>5. CASE Decide
  <2>1. TypeOK'
    BY <1>5, LegalMoveStays DEF TypeOK, Decide
  <2>2. ThinkerInv'
    BY <1>5, LegalMoveStays DEF ThinkerInv, TypeOK, Decide
  <2>3. FsmInv' /\ LogInv' /\ VerdictInv' /\ RevealInv'
    BY <1>5 DEF FsmInv, LogInv, VerdictInv, RevealInv, Decide
  <2> QED BY <2>1, <2>2, <2>3 DEF IInv
<1>6. CASE Validate
  <2>1. TypeOK'
    BY <1>6 DEF TypeOK, Validate
  <2>2. ThinkerInv'
    BY <1>6 DEF ThinkerInv, Validate
  <2>3. FsmInv' /\ LogInv' /\ VerdictInv' /\ RevealInv'
    BY <1>6 DEF FsmInv, LogInv, VerdictInv, RevealInv, Validate
  <2> QED BY <2>1, <2>2, <2>3 DEF IInv
<1>7. CASE ApplyMove
  <2>1. TypeOK'
    BY <1>7 DEF TypeOK, ThinkerInv, ApplyMove, StepsAfter
  <2>2. ThinkerInv'
    BY <1>7 DEF ThinkerInv, TypeOK, ApplyMove, StepsAfter
  <2>3. FsmInv' /\ LogInv' /\ VerdictInv' /\ RevealInv'
    BY <1>7 DEF FsmInv, LogInv, VerdictInv, RevealInv, ApplyMove, StepsAfter
  <2> QED BY <2>1, <2>2, <2>3 DEF IInv
<1>8. CASE GenerateHint
  <2>1. TypeOK'
    BY <1>8 DEF TypeOK, GenerateHint
  <2>2. ThinkerInv'
    BY <1>8 DEF ThinkerInv, GenerateHint
  <2>3. FsmInv' /\ LogInv' /\ VerdictInv' /\ RevealInv'
    BY <1>8 DEF FsmInv, LogInv, VerdictInv, RevealInv, GenerateHint
  <2> QED BY <2>1, <2>2, <2>3 DEF IInv
<1>9. CASE SealMove
  <2>1. TypeOK'
    BY <1>9 DEF TypeOK, StepRecord, SealedRecord, FsmInv, LogInv, SealMove, Transition, TRANSITIONS,
       CatchAll, FsmStates
  <2>2. FsmInv'
    BY <1>9 DEF FsmInv, SealMove, Transition, TRANSITIONS, CatchAll, FsmStates
  <2>3. LogInv'
    BY <1>9 DEF LogInv, TypeOK, FsmInv, StepRecord, SealedRecord, SealMove, Transition, TRANSITIONS,
       CatchAll, FsmStates
  <2>4. ThinkerInv'
    BY <1>9 DEF ThinkerInv, FsmInv, SealMove, Transition, TRANSITIONS, CatchAll, FsmStates
  <2>5. VerdictInv'
    BY <1>9 DEF VerdictInv, FsmInv, SealMove, Transition, TRANSITIONS, CatchAll, FsmStates
  <2>6. RevealInv'
    BY <1>9 DEF RevealInv, FsmInv, SealMove, Transition, TRANSITIONS, CatchAll, FsmStates
  <2> QED BY <2>1, <2>2, <2>3, <2>4, <2>5, <2>6 DEF IInv
<1>10. CASE StrategyFails
  <2>1. TypeOK'
    BY <1>10 DEF TypeOK, EndReasons, StrategyFails, CatchAll
  <2>2. LogInv'
    BY <1>10 DEF LogInv, StrategyFails, CatchAll
  <2>3. VerdictInv'
    BY <1>10 DEF VerdictInv, EndReasons, StrategyFails, CatchAll
  <2>4. FsmInv' /\ ThinkerInv' /\ RevealInv'
    BY <1>10 DEF FsmInv, ThinkerInv, RevealInv, StrategyFails, CatchAll
  <2> QED BY <2>1, <2>2, <2>3, <2>4 DEF IInv
<1>11. CASE SendCommit
  <2>1. TypeOK'
    BY <1>11 DEF TypeOK, SendCommit
  <2>2. FsmInv'
    BY <1>11 DEF FsmInv, SendCommit
  <2>3. LogInv' /\ ThinkerInv' /\ VerdictInv' /\ RevealInv'
    BY <1>11 DEF LogInv, ThinkerInv, VerdictInv, RevealInv, SendCommit
  <2> QED BY <2>1, <2>2, <2>3 DEF IInv
<1>12. CASE SendReveal
  <2>1. TypeOK'
    BY <1>12 DEF TypeOK, FsmInv, SendReveal, Transition, TRANSITIONS, CatchAll, FsmStates
  <2>2. FsmInv'
    BY <1>12 DEF FsmInv, SendReveal, Transition, TRANSITIONS, CatchAll, FsmStates
  <2>3. LogInv'
    BY <1>12 DEF LogInv, FsmInv, SendReveal, Transition, TRANSITIONS, CatchAll, FsmStates
  <2>4. VerdictInv'
    BY <1>12 DEF VerdictInv, FsmInv, SendReveal, Transition, TRANSITIONS, CatchAll,
       FsmStates
  <2>5. RevealInv'
    BY <1>12 DEF RevealInv, FsmInv, SendReveal, Transition, TRANSITIONS, CatchAll,
       FsmStates
  <2>6. ThinkerInv'
    BY <1>12 DEF ThinkerInv, SendReveal, Transition, TRANSITIONS, CatchAll, FsmStates
  <2> QED BY <2>1, <2>2, <2>3, <2>4, <2>5, <2>6 DEF IInv
<1>13. CASE SendFails
  <2>1. TypeOK'
    BY <1>13 DEF TypeOK, FsmInv, SendFails, LoseAfterSend, Transitions2, TRANSITIONS,
       CatchAll, FsmStates
  <2>2. FsmInv'
    BY <1>13 DEF FsmInv, SendFails, LoseAfterSend, Transitions2, TRANSITIONS, CatchAll,
       FsmStates
  <2>3. LogInv'
    BY <1>13 DEF LogInv, FsmInv, SendFails, LoseAfterSend, Transitions2, TRANSITIONS,
       CatchAll, FsmStates
  <2>4. VerdictInv'
    BY <1>13 DEF VerdictInv, FsmInv, SendFails, LoseAfterSend, Transitions2, TRANSITIONS,
       CatchAll, FsmStates
  <2>5. RevealInv'
    BY <1>13 DEF RevealInv, FsmInv, SendFails, LoseAfterSend, Transitions2, TRANSITIONS,
       CatchAll, FsmStates
  <2>6. ThinkerInv'
    BY <1>13 DEF ThinkerInv, SendFails, LoseAfterSend, Transitions2, TRANSITIONS,
       CatchAll, FsmStates
  <2> QED BY <2>1, <2>2, <2>3, <2>4, <2>5, <2>6 DEF IInv
<1>14. CASE AwaitReveal
  <2>1. TypeOK'
    BY <1>14 DEF TypeOK, FsmInv, AwaitReveal, PollEnds, Transitions2, TRANSITIONS,
       CatchAll, FsmStates
  <2>2. FsmInv'
    BY <1>14 DEF FsmInv, AwaitReveal, PollEnds, Transitions2, TRANSITIONS, CatchAll,
       FsmStates
  <2>3. LogInv'
    BY <1>14 DEF LogInv, FsmInv, AwaitReveal, PollEnds, Transitions2, TRANSITIONS,
       CatchAll, FsmStates
  <2>4. VerdictInv'
    BY <1>14 DEF VerdictInv, FsmInv, AwaitReveal, PollEnds, Transitions2, TRANSITIONS,
       CatchAll, FsmStates
  <2>5. RevealInv'
    BY <1>14 DEF RevealInv, FsmInv, AwaitReveal, PollEnds, Transitions2, TRANSITIONS,
       CatchAll, FsmStates
  <2>6. ThinkerInv'
    BY <1>14 DEF ThinkerInv, AwaitReveal, PollEnds, Transitions2, TRANSITIONS, CatchAll,
       FsmStates
  <2> QED BY <2>1, <2>2, <2>3, <2>4, <2>5, <2>6 DEF IInv
<1>15. CASE AwaitTimeout
  <2>1. TypeOK'
    BY <1>15 DEF TypeOK, FsmInv, AwaitTimeout, Transition, TRANSITIONS, CatchAll,
       FsmStates
  <2>2. FsmInv'
    BY <1>15 DEF FsmInv, AwaitTimeout, Transition, TRANSITIONS, CatchAll, FsmStates
  <2>3. LogInv'
    BY <1>15 DEF LogInv, FsmInv, AwaitTimeout, Transition, TRANSITIONS, CatchAll,
       FsmStates
  <2>4. VerdictInv'
    BY <1>15 DEF VerdictInv, FsmInv, AwaitTimeout, Transition, TRANSITIONS, CatchAll,
       FsmStates
  <2>5. RevealInv'
    BY <1>15 DEF RevealInv, FsmInv, AwaitTimeout, Transition, TRANSITIONS, CatchAll,
       FsmStates
  <2>6. ThinkerInv'
    BY <1>15 DEF ThinkerInv, AwaitTimeout, Transition, TRANSITIONS, CatchAll, FsmStates
  <2> QED BY <2>1, <2>2, <2>3, <2>4, <2>5, <2>6 DEF IInv
<1>16. CASE CheckRound
  <2>1. TypeOK'
    BY <1>16 DEF TypeOK, LogInv, EndReasons, CheckRound, KeepRecord, RoundVerdict
  <2>2. FsmInv'
    BY <1>16 DEF FsmInv, CheckRound, KeepRecord, RoundVerdict
  <2>3. LogInv'
    BY <1>16 DEF LogInv, TypeOK, CheckRound, KeepRecord, RoundVerdict
  <2>4. ThinkerInv'
    BY <1>16 DEF ThinkerInv, TypeOK, CheckRound, KeepRecord, RoundVerdict
  <2>5. VerdictInv'
    BY <1>16 DEF VerdictInv, EndReasons, CheckRound, KeepRecord, RoundVerdict
  <2>6. RevealInv'
    BY <1>16 DEF RevealInv, TypeOK, LogInv, Captured, CheckRound, KeepRecord, RoundVerdict
  <2> QED BY <2>1, <2>2, <2>3, <2>4, <2>5, <2>6 DEF IInv
<1>17. CASE CheckLostRound
  <2>1. TypeOK'
    BY <1>17 DEF TypeOK, LogInv, EndReasons, CheckLostRound, KeepRecord, CatchAll
  <2>2. LogInv'
    BY <1>17 DEF LogInv, TypeOK, CheckLostRound, KeepRecord, CatchAll
  <2>3. VerdictInv'
    BY <1>17 DEF VerdictInv, EndReasons, CheckLostRound, KeepRecord, CatchAll
  <2>4. FsmInv' /\ ThinkerInv' /\ RevealInv'
    BY <1>17 DEF FsmInv, ThinkerInv, RevealInv, CheckLostRound, KeepRecord, CatchAll
  <2> QED BY <2>1, <2>2, <2>3, <2>4 DEF IInv
<1>18. CASE CloseLoop
  <2>1. TypeOK'
    BY <1>18 DEF TypeOK, CloseLoop
  <2>2. VerdictInv'
    BY <1>18 DEF VerdictInv, CloseLoop
  <2>3. FsmInv' /\ LogInv' /\ ThinkerInv' /\ RevealInv'
    BY <1>18 DEF FsmInv, LogInv, ThinkerInv, RevealInv, CloseLoop
  <2> QED BY <2>1, <2>2, <2>3 DEF IInv
<1>19. CASE FinalReveal
  <2>1. TypeOK'
    BY <1>19 DEF TypeOK, Exception, Causes, Raise, FinalReveal, HerAudit
  <2>2. FsmInv' /\ LogInv' /\ ThinkerInv' /\ VerdictInv' /\ RevealInv'
    BY <1>19 DEF FsmInv, LogInv, ThinkerInv, VerdictInv, RevealInv, FinalReveal, HerAudit, Raise
  <2> QED BY <2>1, <2>2 DEF IInv
<1>20. CASE ShutdownGrace
  <2>1. TypeOK'
    BY <1>20 DEF TypeOK, ShutdownGrace
  <2>2. FsmInv' /\ LogInv' /\ ThinkerInv' /\ VerdictInv' /\ RevealInv'
    BY <1>20 DEF FsmInv, LogInv, ThinkerInv, VerdictInv, RevealInv, ShutdownGrace
  <2> QED BY <2>1, <2>2 DEF IInv
<1>21. CASE SubmitAudit
  <2>1. TypeOK'
    BY <1>21 DEF TypeOK, Exception, Causes, Raise, Audits, SubmitAudit
  <2>2. FsmInv' /\ LogInv' /\ ThinkerInv' /\ VerdictInv' /\ RevealInv'
    BY <1>21 DEF FsmInv, LogInv, ThinkerInv, VerdictInv, RevealInv, SubmitAudit, Raise
  <2> QED BY <2>1, <2>2 DEF IInv
<1>22. CASE PullRecords
  <2>1. TypeOK'
    BY <1>22 DEF TypeOK, Exception, Causes, Raise, Audits, PullRecords
  <2>2. FsmInv' /\ LogInv' /\ ThinkerInv' /\ VerdictInv' /\ RevealInv'
    BY <1>22 DEF FsmInv, LogInv, ThinkerInv, VerdictInv, RevealInv, PullRecords, Raise
  <2> QED BY <2>1, <2>2 DEF IInv
<1>23. CASE Finalize
  <2>1. TypeOK'
    BY <1>23, ResultType DEF TypeOK, Exception, Causes, Raise, VerdictInv, Report, Finalize
  <2>2. FsmInv' /\ LogInv' /\ ThinkerInv' /\ VerdictInv' /\ RevealInv'
    BY <1>23 DEF FsmInv, LogInv, ThinkerInv, VerdictInv, RevealInv, Finalize, Raise
  <2> QED BY <2>1, <2>2 DEF IInv
<1>24. CASE CommitArrives
  <2>1. TypeOK'
    BY <1>24 DEF TypeOK, CommitArrives, Numbering
  <2>2. FsmInv' /\ LogInv' /\ ThinkerInv' /\ VerdictInv' /\ RevealInv'
    BY <1>24 DEF FsmInv, LogInv, ThinkerInv, VerdictInv, RevealInv, CommitArrives,
       Numbering
  <2> QED BY <2>1, <2>2 DEF IInv
<1>25. CASE RevealArrives
  <2>1. TypeOK'
    BY <1>25 DEF TypeOK, RevealArrives, Numbering
  <2>2. RevealInv'
    BY <1>25 DEF RevealInv, RevealArrives, Numbering
  <2>3. FsmInv' /\ LogInv' /\ ThinkerInv' /\ VerdictInv'
    BY <1>25 DEF FsmInv, LogInv, ThinkerInv, VerdictInv, RevealArrives, Numbering
  <2> QED BY <2>1, <2>2, <2>3 DEF IInv
<1>26. CASE ShowRecords
  <2>1. TypeOK'
    BY <1>26 DEF TypeOK, LogInv, ShowRecords, MayShow
  <2>2. VerdictInv'
    BY <1>26 DEF VerdictInv, ShowRecords, MayShow
  <2>3. FsmInv' /\ LogInv' /\ ThinkerInv' /\ RevealInv'
    BY <1>26 DEF FsmInv, LogInv, ThinkerInv, RevealInv, ShowRecords, MayShow
  <2> QED BY <2>1, <2>2, <2>3 DEF IInv
<1>27. CASE FinalRevealArrives
  <2>1. TypeOK'
    BY <1>27 DEF TypeOK, Audits, FinalRevealArrives
  <2>2. FsmInv' /\ LogInv' /\ ThinkerInv' /\ VerdictInv' /\ RevealInv'
    BY <1>27 DEF FsmInv, LogInv, ThinkerInv, VerdictInv, RevealInv, FinalRevealArrives
  <2> QED BY <2>1, <2>2 DEF IInv
<1>28. ASSUME NEW w \in Workers, NEW cell \in BarrierCells, DeclareBarrier(w, cell)
      PROVE  IInv'
  <2>1. TypeOK'
    BY <1>28 DEF TypeOK, Job, DeclareBarrier
  <2>2. RevealInv'
    BY <1>28 DEF RevealInv, TypeOK, Job, DeclareBarrier
  <2>3. FsmInv' /\ LogInv' /\ ThinkerInv' /\ VerdictInv'
    BY <1>28 DEF FsmInv, LogInv, ThinkerInv, VerdictInv, DeclareBarrier
  <2> QED BY <2>1, <2>2, <2>3 DEF IInv
<1>29. ASSUME NEW w \in Workers, RecordBarrier(w)
      PROVE  IInv'
  <2>1. TypeOK'
    BY <1>29 DEF TypeOK, Job, RecordBarrier
  <2>2. RevealInv'
    BY <1>29 DEF RevealInv, TypeOK, Job, RecordBarrier
  <2>3. FsmInv' /\ LogInv' /\ ThinkerInv' /\ VerdictInv'
    BY <1>29 DEF FsmInv, LogInv, ThinkerInv, VerdictInv, RecordBarrier
  <2> QED BY <2>1, <2>2, <2>3 DEF IInv
<1>30. ASSUME NEW w \in Workers, CompareBarrier(w)
      PROVE  IInv'
  <2>1. TypeOK'
    BY <1>30 DEF TypeOK, Job, CompareBarrier, Idle
  <2>2. RevealInv'
    BY <1>30 DEF RevealInv, TypeOK, Job, CompareBarrier, Idle
  <2>3. FsmInv' /\ LogInv' /\ ThinkerInv' /\ VerdictInv'
    BY <1>30 DEF FsmInv, LogInv, ThinkerInv, VerdictInv, CompareBarrier, Idle
  <2> QED BY <2>1, <2>2, <2>3 DEF IInv
<1>31. ASSUME NEW w \in Workers, FlagBarrier(w)
      PROVE  IInv'
  <2>1. TypeOK'
    BY <1>31 DEF TypeOK, Job, FlagBarrier
  <2>2. RevealInv'
    BY <1>31 DEF RevealInv, TypeOK, Job, FlagBarrier
  <2>3. FsmInv' /\ LogInv' /\ ThinkerInv' /\ VerdictInv'
    BY <1>31 DEF FsmInv, LogInv, ThinkerInv, VerdictInv, FlagBarrier
  <2> QED BY <2>1, <2>2, <2>3 DEF IInv
<1>32. ASSUME NEW w \in Workers, ConfirmLanding(w)
      PROVE  IInv'
  <2>1. TypeOK'
    BY <1>32 DEF TypeOK, Job, ConfirmLanding
  <2>2. RevealInv'
    BY <1>32 DEF RevealInv, TypeOK, Job, ConfirmLanding
  <2>3. FsmInv' /\ LogInv' /\ ThinkerInv' /\ VerdictInv'
    BY <1>32 DEF FsmInv, LogInv, ThinkerInv, VerdictInv, ConfirmLanding
  <2> QED BY <2>1, <2>2, <2>3 DEF IInv
<1>33. ASSUME NEW w \in Workers, FlagLanding(w)
      PROVE  IInv'
  <2>1. TypeOK'
    BY <1>33 DEF TypeOK, Job, FlagLanding
  <2>2. RevealInv'
    BY <1>33 DEF RevealInv, TypeOK, Job, FlagLanding
  <2>3. FsmInv' /\ LogInv' /\ ThinkerInv' /\ VerdictInv'
    BY <1>33 DEF FsmInv, LogInv, ThinkerInv, VerdictInv, FlagLanding
  <2> QED BY <2>1, <2>2, <2>3 DEF IInv
<1>34. ASSUME NEW w \in Workers, Wake(w)
      PROVE  IInv'
  <2>1. TypeOK'
    BY <1>34 DEF TypeOK, Job, Wake, Idle
  <2>2. RevealInv'
    BY <1>34 DEF RevealInv, TypeOK, Job, Wake, Idle
  <2>3. FsmInv' /\ LogInv' /\ ThinkerInv' /\ VerdictInv'
    BY <1>34 DEF FsmInv, LogInv, ThinkerInv, VerdictInv, Wake, Idle
  <2> QED BY <2>1, <2>2, <2>3 DEF IInv
<1>35. CASE CheckNames
  <2>1. TypeOK'
    BY <1>35 DEF TypeOK, Exception, Causes, Raise, CheckNames
  <2>2. FsmInv' /\ LogInv' /\ ThinkerInv' /\ VerdictInv' /\ RevealInv'
    BY <1>35 DEF FsmInv, LogInv, ThinkerInv, VerdictInv, RevealInv, CheckNames, Raise
  <2> QED BY <2>1, <2>2 DEF IInv
<1>36. CASE Exit \/ UNCHANGED vars
  <2>1. UNCHANGED vars
    BY <1>36 DEF Exit
  <2>2. TypeOK'
    BY <2>1 DEF TypeOK
  <2>3. FsmInv'
    BY <2>1 DEF FsmInv
  <2>4. LogInv'
    BY <2>1 DEF LogInv
  <2>5. ThinkerInv'
    BY <2>1 DEF ThinkerInv
  <2>6. VerdictInv'
    BY <2>1 DEF VerdictInv
  <2>7. RevealInv'
    BY <2>1 DEF RevealInv
  <2> QED BY <2>2, <2>3, <2>4, <2>5, <2>6, <2>7 DEF IInv
<1> QED
  BY <1>1, <1>2, <1>3, <1>4, <1>5, <1>6, <1>7, <1>8, <1>9, <1>10, <1>11, <1>12, <1>13, <1>14,
     <1>15, <1>16, <1>17, <1>18, <1>19, <1>20, <1>21, <1>22, <1>23, <1>24, <1>25, <1>26, <1>27,
     <1>28, <1>29, <1>30, <1>31, <1>32, <1>33, <1>34, <1>35, <1>36
     DEF Next, MainThread, StrategyThread, Worker, Opponent

THEOREM Invariance == Spec => []IInv
<1> QED
  BY InitIInv, NextIInv, PTL DEF Spec

-----------------------------------------------------------------------------
(* What follows from it.                                                   *)

\* Every variable of the peer keeps to its type: in particular the step
\* count and the log never outgrow the negotiated number of moves.
THEOREM TypeCorrectness == Spec => []TypeOK
<1>1. IInv => TypeOK
  BY DEF IInv
<1> QED
  BY <1>1, Invariance, PTL

\* A round begins only once the opponent has revealed every earlier one,
\* although an interrupted wait completes its round without her reveal.
THEOREM RoundsInLockstep == Spec => []Lockstep
<1>1. IInv => Lockstep
  BY DEF IInv, RevealInv, BetweenRounds, Lockstep
<1> QED
  BY <1>1, Invariance, PTL

\* Every sealed move is in the log once the match is over, on the paths that
\* lose the round as well: no send failure or deadline takes the turn
\* machine to an edge its table lacks.
THEOREM SealedRoundsKept == Spec => []NoSealedRoundDropped
<1>1. IInv => NoSealedRoundDropped
  BY DEF IInv, LogInv, VerdictInv, AfterSeal, BetweenRounds, InRound, NoSealedRoundDropped
<1> QED
  BY <1>1, Invariance, PTL

\* Once get_revealed_records has answered, neither the log nor the verdict
\* changes any more.
THEOREM ShownRecordsFinal == Spec => ShownIsFinal
<1>1. IInv /\ [Next]_vars => [shown # -1 => records' = records /\ endReason' = endReason]_vars
  <2> SUFFICES ASSUME IInv, [Next]_vars, shown # -1
               PROVE  records' = records /\ endReason' = endReason
    OBVIOUS
  <2>1. pc \notin {"handshake", "top", "close"} \cup InRound
    BY DEF IInv, VerdictInv, BetweenRounds
  <2> QED
    BY <2>1 DEF Next, MainThread, StrategyThread, Worker, Opponent, Handshake, LeaveLoop,
         StartRound, PullScent, SealMove, StrategyFails, SendCommit, SendReveal, SendFails,
         AwaitReveal, AwaitTimeout, CheckRound, CheckLostRound, CloseLoop, FinalReveal,
         ShutdownGrace, CheckNames, SubmitAudit, PullRecords, Finalize, Decide, Validate, ApplyMove,
         GenerateHint, CommitArrives, RevealArrives, DeclareBarrier, RecordBarrier,
         CompareBarrier, FlagBarrier, ConfirmLanding, FlagLanding, Wake, ShowRecords,
         FinalRevealArrives, Exit, vars, mainVars, InRound
<1> QED
  BY <1>1, Invariance, PTL DEF Spec, ShownIsFinal

=============================================================================

------------------------- MODULE PeerEvidence_proofs -------------------------
(***************************************************************************)
(* More proofs about PeerMatch: what the log, the verdict and the report   *)
(* of a match rest on, how far the barrier quota can be overshot, and that *)
(* every step is one of the abstract match or leaves it alone.             *)
(* They build on IInv, the inductive invariant of PeerMatch_proofs.        *)
(***************************************************************************)
EXTENDS PeerMatch_proofs, PeerOutcome, FiniteSetTheorems

-----------------------------------------------------------------------------
(* The verdict.                                                            *)

\* More barriers never free a thief who is stuck.
LEMMA StuckForGood ==
  ASSUME NEW cell, NEW fewer, NEW more, fewer \subseteq more, Stuck(cell, fewer)
  PROVE  Stuck(cell, more)
<1> QED
  BY DEF Stuck, LegalMoves

\* A verdict reached by playing is reached between two moves, and no
\* strategy thread is left to make another.
VerdictFinalInv ==
  /\ endReason \in {"survived", "captured", "max_moves_reached"} => thinker = "idle"
  /\ VerdictJustified

LEMMA VerdictFinalStep ==
  IInv /\ IInv' /\ VerdictFinalInv /\ [Next]_vars => VerdictFinalInv'
<1> SUFFICES ASSUME IInv, IInv', VerdictFinalInv, [Next]_vars
             PROVE  VerdictFinalInv'
  OBVIOUS
<1> USE MatchAssumption DEF vars, mainVars, thinkVars, stateVars, inboxVars, captureVars,
        endVars, serverVars
<1>1. CASE LeaveLoop
  BY <1>1 DEF LeaveLoop, RoundsLeft, VerdictFinalInv, VerdictJustified, Captured, IInv, TypeOK,
       LogInv, ThinkerInv, VerdictInv, BetweenRounds
<1>2. CASE CheckRound
  BY <1>2 DEF CheckRound, RoundVerdict, KeepRecord, Survived, VerdictFinalInv, VerdictJustified,
       Captured, IInv, TypeOK, LogInv, ThinkerInv, VerdictInv, AfterSeal, InRound, Steps
<1>3. ASSUME endReason' \in {"none", "technical_loss"}
      PROVE  VerdictFinalInv'
  BY <1>3 DEF VerdictFinalInv, VerdictJustified
<1>4. ASSUME UNCHANGED <<endReason, thinker, records, stepCount, position, known>>,
             capturedByBarrier => capturedByBarrier', capturedByLanding => capturedByLanding'
      PROVE  VerdictFinalInv'
  BY <1>4 DEF VerdictFinalInv, VerdictJustified, Captured
<1>5. CASE Handshake \/ StartRound \/ PullScent \/ SealMove \/ StrategyFails \/ SendCommit
             \/ SendReveal \/ SendFails \/ AwaitReveal \/ AwaitTimeout \/ CheckLostRound
  <2>1. endReason = "none"
    BY <1>5 DEF IInv, VerdictInv, BetweenRounds, InRound, Handshake, StartRound, PullScent,
         SealMove, StrategyFails, SendCommit, SendReveal, SendFails, AwaitReveal,
         AwaitTimeout, CheckLostRound
  <2>2. endReason' \in {endReason, "technical_loss"}
    BY <1>5 DEF Handshake, StartRound, PullScent, SealMove, StrategyFails, SendCommit,
         SendReveal, SendFails, AwaitReveal, AwaitTimeout, CheckLostRound, LoseAfterSend,
         Transition, Transitions2, CatchAll
  <2> QED
    BY <1>3, <2>1, <2>2
<1>6. CASE CloseLoop \/ FinalReveal \/ ShutdownGrace \/ CheckNames \/ SubmitAudit
             \/ PullRecords \/ Finalize
  BY <1>4, <1>6 DEF CloseLoop, FinalReveal, ShutdownGrace, CheckNames, SubmitAudit, PullRecords,
       Finalize
<1>7. CASE StrategyThread
  <2>1. endReason \notin {"survived", "captured", "max_moves_reached"} /\ endReason' = endReason
    BY <1>7 DEF StrategyThread, Decide, Validate, ApplyMove, GenerateHint, VerdictFinalInv
  <2> QED
    BY <1>3, <2>1 DEF IInv, TypeOK, EndReasons
<1>8. ASSUME NEW w \in Workers, RecordBarrier(w)
      PROVE  VerdictFinalInv'
  <2>1. Stuck(position, known) => Stuck(position, known')
    BY <1>8, StuckForGood DEF RecordBarrier
  <2> QED
    BY <1>8, <2>1 DEF RecordBarrier, VerdictFinalInv, VerdictJustified, Captured
<1>9. ASSUME NEW w \in Workers, Worker(w), ~RecordBarrier(w)
      PROVE  VerdictFinalInv'
  BY <1>4, <1>9 DEF Worker, DeclareBarrier, CompareBarrier, FlagBarrier, ConfirmLanding,
       FlagLanding, Wake
<1>10. CASE Opponent
  BY <1>4, <1>10 DEF Opponent, CommitArrives, RevealArrives, ShowRecords, FinalRevealArrives
<1>11. CASE Exit \/ UNCHANGED vars
  BY <1>4, <1>11 DEF Exit
<1> QED
  BY <1>1, <1>2, <1>5, <1>6, <1>7, <1>8, <1>9, <1>10, <1>11 DEF Next, MainThread

\* A survival, a move cap or a capture is backed by the log and the state
\* when it is decided, and stays backed while server threads and abandoned
\* strategy threads still run.
THEOREM VerdictsJustified == Spec => []VerdictJustified
<1>1. Init => VerdictFinalInv
  BY DEF Init, VerdictFinalInv, VerdictJustified
<1>2. VerdictFinalInv => VerdictJustified
  BY DEF VerdictFinalInv
<1> QED
  BY <1>1, <1>2, Invariance, VerdictFinalStep, PTL DEF Spec

-----------------------------------------------------------------------------
(* The report.                                                             *)

\* A report was made from the verdict and the audits as they still are, and
\* a cop_v1 match never takes the unguarded audit calls of the native one: what
\* it raises after the match is none of theirs.
ReportInv ==
  /\ pc = "reported" =>
       report = [result |-> Result(endReason, selfAudit, opponentAudit),
                 winner |-> Winner(endReason, selfAudit, opponentAudit)]
  /\ Protocol = "cop_v1" =>
       /\ pc \notin {"submit_audit", "pull_records"}
       /\ pc = "crashed" /\ matchOver => report.raised \in {"answer", "names", "files"}

LEMMA ReportStep == IInv /\ ReportInv /\ [Next]_vars => ReportInv'
<1> SUFFICES ASSUME IInv, ReportInv, [Next]_vars
             PROVE  ReportInv'
  OBVIOUS
<1> USE DEF vars, mainVars, thinkVars, stateVars, inboxVars, captureVars, endVars, serverVars
<1>1. CASE Handshake
  <2>1. ~matchOver /\ matchOver' = matchOver /\ pc' \in {"top", "crashed"}
    BY <1>1 DEF Handshake, Raise, endVars, IInv, VerdictInv, BetweenRounds
  <2> QED
    BY <2>1 DEF ReportInv
<1>2. CASE LeaveLoop \/ StartRound \/ PullScent \/ SealMove \/ StrategyFails \/ SendCommit
             \/ SendReveal \/ SendFails \/ AwaitReveal \/ AwaitTimeout \/ CheckRound
             \/ CheckLostRound
  <2>1. pc' \in {"top", "close"} \cup InRound
    BY <1>2 DEF LeaveLoop, StartRound, PullScent, SealMove, StrategyFails, SendCommit,
         SendReveal, SendFails, AwaitReveal, AwaitTimeout, CheckRound, CheckLostRound,
         LoseAfterSend, Transition, Transitions2, CatchAll, InRound
  <2> QED
    BY <2>1 DEF ReportInv, InRound
<1>3. CASE CloseLoop \/ FinalReveal \/ ShutdownGrace \/ CheckNames
  BY <1>3 DEF CloseLoop, FinalReveal, HerAudit, ShutdownGrace, CheckNames, Raise, ReportInv
<1>4. CASE SubmitAudit \/ PullRecords
  BY <1>4 DEF SubmitAudit, PullRecords, Raise, ReportInv
<1>5. CASE Finalize
  BY <1>5 DEF Finalize, Raise, ReportInv
<1>6. ASSUME UNCHANGED <<pc, endReason, matchOver, selfAudit, opponentAudit, report>>
      PROVE  ReportInv'
  BY <1>6 DEF ReportInv
<1>7. CASE StrategyThread \/ Opponent \/ Exit \/ UNCHANGED vars
  BY <1>6, <1>7 DEF StrategyThread, Decide, Validate, ApplyMove, GenerateHint, Opponent,
       CommitArrives, RevealArrives, ShowRecords, FinalRevealArrives, Exit
<1>8. ASSUME NEW w \in Workers, Worker(w)
      PROVE  ReportInv'
  BY <1>6, <1>8 DEF Worker, DeclareBarrier, RecordBarrier, CompareBarrier, FlagBarrier,
       ConfirmLanding, FlagLanding, Wake
<1> QED
  BY <1>1, <1>2, <1>3, <1>4, <1>5, <1>7, <1>8 DEF Next, MainThread

LEMMA ReportInvariance == Spec => []ReportInv
<1>1. Init => ReportInv
  BY DEF Init, ReportInv
<1> QED
  BY <1>1, Invariance, ReportStep, PTL DEF Spec

\* However the audits came out, a technical loss is reported as one.
THEOREM LossesStand == Spec => []LossStands
<1>1. ReportInv => LossStands
  <2> SUFFICES ASSUME ReportInv, pc = "reported", endReason = "technical_loss"
               PROVE  report = [result |-> "timeout", winner |-> "opponent"]
    BY DEF LossStands
  <2>1. ~AuditOverride(endReason, selfAudit, opponentAudit)
    BY DEF AuditOverride, AuditWasEvaluated
  <2>2. RESULT_VALUE["technical_loss"] = "timeout"
    BY DEF RESULT_VALUE, EndReasons
  <2> QED
    BY <2>1, <2>2 DEF ReportInv, Result, Winner
<1> QED
  BY <1>1, ReportInvariance, PTL

\* In cop_v1 no failed call costs a match that ended its report: what is
\* raised after the match is raised on an audit of the cop's that cannot be
\* read, on two groups of one name, or on the files.
THEOREM CopMatchesReported ==
  ASSUME Protocol = "cop_v1"
  PROVE  Spec => []EndedIsReported
<1>1. ReportInv => EndedIsReported
  BY DEF ReportInv, EndedIsReported
<1> QED
  BY <1>1, ReportInvariance, PTL

-----------------------------------------------------------------------------
(* The trail.                                                              *)

LastCell == IF Len(records) = 0 THEN Start ELSE records[Len(records)].cell

OneMoveFrom(cell) == position = Target(cell, choice)

\* Until the round's move is made the thief stands where the log ends, then
\* that move from there; the sealed record of a cop_v1 match says which cell
\* and which move that is.
PositionInv ==
  /\ pc \in BetweenRounds \cup {"pull"} => position = LastCell
  /\ pc = "think" /\ thinker \in {"decide", "validate", "apply"} => position = LastCell
  /\ pc = "think" /\ thinker \in {"hint", "done"} => OneMoveFrom(LastCell)
  /\ pc \in AfterSeal =>
       /\ sealed = [step |-> step, move |-> choice, cell |-> position, count |-> step]
       /\ OneMoveFrom(LastCell)

TrailInv == SealedTrail /\ PositionInv

LEMMA RecordKept ==
  IInv /\ TrailInv /\ pc \in AfterSeal /\ KeepRecord
    => SealedTrail' /\ LastCell' = position
<1> SUFFICES ASSUME IInv, TrailInv, pc \in AfterSeal, KeepRecord
             PROVE  SealedTrail' /\ LastCell' = position
  OBVIOUS
<1>1. /\ records \in Seq(StepRecord) /\ step \in Steps
      /\ Len(records) = step - 1 /\ step \in Nat
  BY MatchAssumption DEF IInv, TypeOK, LogInv, AfterSeal, InRound, Steps
<1>2. /\ Len(records') = Len(records) + 1
      /\ records'[Len(records) + 1] = sealed
      /\ \A i \in 1 .. Len(records) : records'[i] = records[i]
  BY <1>1 DEF KeepRecord
<1>3. sealed.step = step /\ sealed.count = step /\ sealed.cell = position /\ sealed.move = choice
  BY DEF TrailInv, PositionInv
<1>4. LastCell' = position
  BY <1>1, <1>2, <1>3 DEF LastCell
<1>5. ASSUME NEW i \in 1 .. Len(records)
      PROVE  LET from == IF i = 1 THEN Start ELSE records'[i - 1].cell
             IN  /\ records'[i].step = i
                 /\ records'[i].count = i
                 /\ records'[i].cell = Target(from, records'[i].move)
  <2>1. records'[i] = records[i] /\ (i # 1 => records'[i - 1] = records[i - 1])
    BY <1>1, <1>2
  <2> QED
    BY <2>1 DEF TrailInv, SealedTrail
<1>6. LET i == Len(records) + 1
          from == IF i = 1 THEN Start ELSE records'[i - 1].cell
      IN  /\ records'[i].step = i
          /\ records'[i].count = i
          /\ records'[i].cell = Target(from, records'[i].move)
  <2>1. (IF Len(records) + 1 = 1 THEN Start ELSE records'[Len(records)].cell) = LastCell
    BY <1>1, <1>2 DEF LastCell
  <2>2. sealed.cell = Target(LastCell, sealed.move)
    BY <1>3 DEF TrailInv, PositionInv, OneMoveFrom
  <2> QED
    BY <1>1, <1>2, <1>3, <2>1, <2>2
<1>7. SealedTrail'
  BY <1>1, <1>2, <1>5, <1>6 DEF SealedTrail
<1> QED
  BY <1>4, <1>7

LEMMA TrailStep ==
  ASSUME Protocol = "cop_v1"
  PROVE  IInv /\ TrailInv /\ [Next]_vars => TrailInv'
<1> SUFFICES ASSUME IInv, TrailInv, [Next]_vars
             PROVE  TrailInv'
  OBVIOUS
<1> USE DEF vars, mainVars, thinkVars, stateVars, inboxVars, captureVars, endVars, serverVars,
        BetweenRounds, AfterSeal
<1>1. ASSUME UNCHANGED records PROVE SealedTrail' /\ LastCell' = LastCell
  BY <1>1 DEF TrailInv, SealedTrail, LastCell
<1>2. CASE Handshake \/ StartRound \/ PullScent
  <2>1. PositionInv'
    BY <1>1, <1>2 DEF Handshake, StartRound, PullScent, Transition, CatchAll, Raise, TRANSITIONS,
         TrailInv, PositionInv, IInv, FsmInv, ThinkerInv
  <2> QED
    BY <1>1, <1>2, <2>1 DEF Handshake, StartRound, PullScent, TrailInv
<1>3. CASE Decide \/ Validate \/ GenerateHint
  <2>1. PositionInv'
    BY <1>1, <1>3 DEF Decide, Validate, GenerateHint, TrailInv, PositionInv, OneMoveFrom, IInv,
         ThinkerInv
  <2> QED
    BY <1>1, <1>3, <2>1 DEF Decide, Validate, GenerateHint, TrailInv
<1>4. CASE ApplyMove
  <2>1. PositionInv'
    BY <1>1, <1>4 DEF ApplyMove, TrailInv, PositionInv, OneMoveFrom, IInv, ThinkerInv
  <2> QED
    BY <1>1, <1>4, <2>1 DEF ApplyMove, TrailInv
<1>5. CASE SealMove
  <2>1. stepCount = step
    BY <1>5 DEF SealMove, IInv, ThinkerInv
  <2>2. PositionInv'
    BY <1>1, <1>5, <2>1 DEF SealMove, SealedRecord, Transition, CatchAll, TRANSITIONS, TrailInv,
         PositionInv,
         OneMoveFrom
  <2> QED
    BY <1>1, <1>5, <2>2 DEF SealMove, TrailInv
<1>6. CASE SendCommit \/ SendReveal \/ SendFails \/ AwaitReveal \/ AwaitTimeout
  <2>1. PositionInv'
    BY <1>1, <1>6 DEF SendCommit, SendReveal, SendFails, AwaitReveal, AwaitTimeout,
         LoseAfterSend, Transition, Transitions2, CatchAll, TrailInv, PositionInv, OneMoveFrom
  <2> QED
    BY <1>1, <1>6, <2>1 DEF SendCommit, SendReveal, SendFails, AwaitReveal, AwaitTimeout,
       TrailInv
<1>7. CASE CheckRound \/ CheckLostRound
  <2>1. SealedTrail' /\ LastCell' = position
    BY <1>7, RecordKept DEF CheckRound, CheckLostRound
  <2>2. PositionInv'
    BY <1>7, <2>1 DEF CheckRound, CheckLostRound, CatchAll, PositionInv
  <2> QED
    BY <2>1, <2>2 DEF TrailInv
<1>8. CASE LeaveLoop \/ StrategyFails \/ CloseLoop \/ FinalReveal \/ ShutdownGrace
             \/ CheckNames \/ SubmitAudit \/ PullRecords \/ Finalize
  <2>1. pc' \in {"close", "crashed", "reported"} \cup Closing /\ UNCHANGED records
    BY <1>8 DEF LeaveLoop, StrategyFails, CatchAll, CloseLoop, FinalReveal, HerAudit,
         ShutdownGrace, CheckNames, SubmitAudit, PullRecords, Finalize, Raise, Closing
  <2> QED
    BY <1>1, <2>1 DEF TrailInv, PositionInv, Closing
<1>9. ASSUME UNCHANGED <<pc, records, thinker, choice, position, sealed, step>>
      PROVE  TrailInv'
  BY <1>1, <1>9 DEF TrailInv, PositionInv, OneMoveFrom
<1>10. ASSUME NEW w \in Workers, Worker(w)
       PROVE  TrailInv'
  BY <1>9, <1>10 DEF Worker, DeclareBarrier, RecordBarrier, CompareBarrier, FlagBarrier,
       ConfirmLanding, FlagLanding, Wake
<1>11. CASE Opponent \/ Exit \/ UNCHANGED vars
  BY <1>9, <1>11 DEF Opponent, CommitArrives, RevealArrives, ShowRecords, FinalRevealArrives,
       Exit
<1> QED
  BY <1>2, <1>3, <1>4, <1>5, <1>6, <1>7, <1>8, <1>10, <1>11 DEF Next, MainThread, StrategyThread

\* The log of a cop_v1 match is a trail the cop's audit can replay: consecutive
\* rounds and step counts, and every cell where its own move leads from the one
\* before, whatever barriers arrive between decision and move and however many
\* strategy threads are abandoned.
THEOREM TrailSealed ==
  ASSUME Protocol = "cop_v1"
  PROVE  Spec => []SealedTrail
<1>1. Init => TrailInv
  BY DEF Init, TrailInv, SealedTrail, PositionInv, LastCell, BetweenRounds, AfterSeal
<1>2. TrailInv => SealedTrail
  BY DEF TrailInv
<1> QED
  BY <1>1, <1>2, Invariance, TrailStep, PTL DEF Spec

-----------------------------------------------------------------------------
(* The quota.                                                              *)

Recorders == {w \in Workers : job[w].at = "record"}
Pending == {job[w].cell : w \in Recorders}

\* Barriers recorded or about to be: every thread but the last one to pass
\* the quota check may add a cell that the check did not count.
QuotaInv ==
  /\ IsFiniteSet(known)
  /\ Cardinality(known \cup Pending) <= MaxBarriers + Cardinality(Workers) - 1

\* Each thread has at most one cell pending.
LEMMA PendingBound ==
  ASSUME NEW threads \in SUBSET Workers
  PROVE  LET cells == {job[w].cell : w \in threads}
         IN  IsFiniteSet(cells) /\ Cardinality(cells) <= Cardinality(threads)
<1> DEFINE cells == {job[w].cell : w \in threads}
           f == [w \in threads |-> job[w].cell]
<1>1. f \in Surjection(threads, cells)
  BY DEF Surjection
<1>2. IsFiniteSet(threads)
  BY MatchAssumption, FS_Subset
<1> QED
  BY <1>1, <1>2, FS_Surjection

\* A step that adds no cell to those recorded or pending keeps the bound.
LEMMA QuotaShrinks ==
  ASSUME QuotaInv, known' \cup Pending' \subseteq known \cup Pending
  PROVE  QuotaInv'
<1>1. IsFiniteSet(Pending)
  BY PendingBound DEF Pending, Recorders
<1>2. IsFiniteSet(known \cup Pending)
  BY <1>1, FS_Union DEF QuotaInv
<1>3. IsFiniteSet(known' \cup Pending')
      /\ Cardinality(known' \cup Pending') <= Cardinality(known \cup Pending)
  BY <1>2, FS_Subset
<1>4. IsFiniteSet(known')
  BY <1>3, FS_Subset, known' \subseteq known' \cup Pending'
<1>5. Cardinality(known' \cup Pending') \in Nat /\ Cardinality(known \cup Pending) \in Nat
      /\ Cardinality(Workers) \in Nat /\ MaxBarriers \in Nat
  BY <1>2, <1>3, FS_CardinalityType, MatchAssumption
<1> QED
  BY <1>3, <1>4, <1>5 DEF QuotaInv

\* A thread passes the check: the cells recorded and its own are within the
\* quota, and each of the other threads has at most one more.
LEMMA DeclareKeepsQuota ==
  ASSUME IInv, QuotaInv, NEW w \in Workers, NEW cell \in BarrierCells, DeclareBarrier(w, cell)
  PROVE  QuotaInv'
<1> DEFINE others == Recorders \ {w}
           theirs == {job[v].cell : v \in others}
           checked == known \cup {cell}
<1>1. job' = [job EXCEPT ![w] = [at |-> "record", cell |-> cell]] /\ known' = known
  BY DEF DeclareBarrier, serverVars
<1>2. \A v \in Workers \ {w} : job'[v] = job[v]
  BY <1>1 DEF IInv, TypeOK
<1>3. job'[w] = [at |-> "record", cell |-> cell]
  BY <1>1 DEF IInv, TypeOK
<1>4. known' \cup Pending' \subseteq checked \cup theirs
  BY <1>1, <1>2, <1>3 DEF Pending, Recorders
<1>5. IsFiniteSet(theirs) /\ Cardinality(theirs) <= Cardinality(others)
  BY PendingBound DEF Recorders
<1>6. IsFiniteSet(others) /\ Cardinality(others) <= Cardinality(Workers) - 1
  <2>1. IsFiniteSet(Workers \ {w}) /\ Cardinality(Workers \ {w}) = Cardinality(Workers) - 1
    BY MatchAssumption, FS_RemoveElement
  <2> QED
    BY <2>1, FS_Subset, others \subseteq Workers \ {w} DEF Recorders
<1>7. IsFiniteSet(checked) /\ Cardinality(checked) <= MaxBarriers
  BY FS_AddElement DEF QuotaInv, DeclareBarrier, WithinQuota
<1>8. IsFiniteSet(checked \cup theirs)
      /\ Cardinality(checked \cup theirs)
           = Cardinality(checked) + Cardinality(theirs) - Cardinality(checked \cap theirs)
  BY <1>5, <1>7, FS_Union
<1>9. IsFiniteSet(known' \cup Pending')
      /\ Cardinality(known' \cup Pending') <= Cardinality(checked \cup theirs)
  BY <1>4, <1>8, FS_Subset
<1>10. IsFiniteSet(checked \cap theirs)
  BY <1>7, FS_Subset, checked \cap theirs \subseteq checked
<1> HIDE DEF others, theirs, checked
<1>11. /\ Cardinality(checked) \in Nat /\ Cardinality(theirs) \in Nat
       /\ Cardinality(others) \in Nat /\ Cardinality(checked \cap theirs) \in Nat
       /\ Cardinality(checked \cup theirs) \in Nat /\ Cardinality(known' \cup Pending') \in Nat
       /\ Cardinality(Workers) \in Nat /\ MaxBarriers \in Nat
  BY <1>5, <1>6, <1>7, <1>8, <1>9, <1>10, FS_CardinalityType, MatchAssumption
<1>12. Cardinality(known' \cup Pending') <= MaxBarriers + Cardinality(Workers) - 1
  BY <1>5, <1>6, <1>7, <1>8, <1>9, <1>11
<1> QED
  BY <1>1, <1>12 DEF QuotaInv

LEMMA QuotaStep == IInv /\ QuotaInv /\ [Next]_vars => QuotaInv'
<1> SUFFICES ASSUME IInv, QuotaInv, [Next]_vars
             PROVE  QuotaInv'
  OBVIOUS
<1>1. ASSUME known' = known, \A w \in Workers : job'[w].at = "record" => job'[w] = job[w]
      PROVE  QuotaInv'
  BY <1>1, QuotaShrinks DEF Pending, Recorders
<1>2. CASE MainThread
  BY <1>1, <1>2 DEF MainThread, Handshake, LeaveLoop, StartRound, PullScent, SealMove,
     StrategyFails, SendCommit, SendReveal, SendFails, AwaitReveal, AwaitTimeout, CheckRound,
     CheckLostRound, CloseLoop, FinalReveal, ShutdownGrace, CheckNames, SubmitAudit, PullRecords,
     Finalize, serverVars
<1>3. CASE StrategyThread \/ Opponent
  BY <1>1, <1>3 DEF StrategyThread, Decide, Validate, ApplyMove, GenerateHint, Opponent,
     CommitArrives, RevealArrives, ShowRecords, FinalRevealArrives, serverVars
<1>4. ASSUME NEW w \in Workers, RecordBarrier(w)
      PROVE  QuotaInv'
  <2>1. known' \cup Pending' \subseteq known \cup Pending
    BY <1>4 DEF RecordBarrier, Pending, Recorders, IInv, TypeOK
  <2> QED
    BY <2>1, QuotaShrinks
<1>5. ASSUME NEW w \in Workers, CompareBarrier(w) \/ FlagBarrier(w) \/ ConfirmLanding(w)
                                \/ FlagLanding(w) \/ Wake(w)
      PROVE  QuotaInv'
  BY <1>1, <1>5 DEF CompareBarrier, FlagBarrier, ConfirmLanding, FlagLanding, Wake, Idle,
     IInv, TypeOK
<1>6. CASE Exit \/ UNCHANGED vars
  BY <1>1, <1>6 DEF Exit, vars, serverVars
<1> QED
  BY <1>2, <1>3, <1>4, <1>5, <1>6, DeclareKeepsQuota DEF Next, Worker

\* Threads that pass the quota check together overshoot the quota by at most
\* their number less one, however their steps interleave.
THEOREM QuotaOvershootBounded == Spec => []QuotaSlack
<1>1. Init => QuotaInv
  <2> SUFFICES ASSUME Init PROVE QuotaInv
    OBVIOUS
  <2>1. known \cup Pending = {}
    BY DEF Init, Pending, Recorders, Idle
  <2>2. Cardinality(Workers) \in Nat \ {0} /\ MaxBarriers \in Nat
    BY MatchAssumption, FS_CardinalityType, FS_EmptySet
  <2>3. Cardinality(known \cup Pending) = 0 /\ IsFiniteSet(known)
    BY <2>1, FS_EmptySet, known = {} DEF Init
  <2>4. Cardinality(known \cup Pending) <= MaxBarriers + Cardinality(Workers) - 1
    BY <2>2, <2>3
  <2> QED
    BY <2>3, <2>4 DEF QuotaInv
<1>2. QuotaInv => QuotaSlack
  <2> SUFFICES ASSUME QuotaInv PROVE QuotaSlack
    OBVIOUS
  <2>1. IsFiniteSet(known \cup Pending)
    BY FS_Union, PendingBound DEF Pending, Recorders, QuotaInv
  <2>2. Cardinality(known) <= Cardinality(known \cup Pending)
    BY <2>1, FS_Subset, known \subseteq known \cup Pending
  <2>3. Cardinality(known) \in Nat /\ Cardinality(known \cup Pending) \in Nat
        /\ Cardinality(Workers) \in Nat /\ MaxBarriers \in Nat
    BY <2>1, FS_CardinalityType, MatchAssumption DEF QuotaInv
  <2> QED
    BY <2>2, <2>3 DEF QuotaInv, QuotaSlack
<1> QED
  BY <1>1, <1>2, Invariance, QuotaStep, PTL DEF Spec

-----------------------------------------------------------------------------
(* The abstract match.                                                     *)

\* From the end of the loop on the match is over.
OverInv == pc \in Closing => matchOver

LEMMA OverStep == IInv /\ OverInv /\ [Next]_vars => OverInv'
<1> SUFFICES ASSUME IInv, OverInv, [Next]_vars
             PROVE  OverInv'
  OBVIOUS
<1> USE DEF vars, mainVars, thinkVars, stateVars, inboxVars, captureVars, endVars, serverVars
<1>1. CASE Handshake \/ LeaveLoop \/ StartRound \/ PullScent \/ SealMove \/ StrategyFails
             \/ SendCommit \/ SendReveal \/ SendFails \/ AwaitReveal \/ AwaitTimeout
             \/ CheckRound \/ CheckLostRound
  <2>1. pc' \in {"top", "close", "crashed"} \cup InRound
    BY <1>1 DEF Handshake, LeaveLoop, StartRound, PullScent, SealMove, StrategyFails, SendCommit,
         SendReveal, SendFails, AwaitReveal, AwaitTimeout, CheckRound, CheckLostRound,
         LoseAfterSend, Transition, Transitions2, CatchAll, Raise, InRound
  <2> QED
    BY <2>1 DEF OverInv, InRound, Closing
<1>2. CASE CloseLoop \/ FinalReveal \/ ShutdownGrace \/ CheckNames \/ SubmitAudit
             \/ PullRecords \/ Finalize
  BY <1>2 DEF CloseLoop, FinalReveal, HerAudit, ShutdownGrace, CheckNames, SubmitAudit,
     PullRecords, Finalize, Raise, OverInv, Closing
<1>3. ASSUME UNCHANGED <<pc, matchOver>>
      PROVE  OverInv'
  BY <1>3 DEF OverInv
<1>4. CASE StrategyThread \/ Opponent \/ Exit \/ UNCHANGED vars
  BY <1>3, <1>4 DEF StrategyThread, Decide, Validate, ApplyMove, GenerateHint, Opponent,
       CommitArrives, RevealArrives, ShowRecords, FinalRevealArrives, Exit
<1>5. ASSUME NEW w \in Workers, Worker(w)
      PROVE  OverInv'
  BY <1>3, <1>5 DEF Worker, DeclareBarrier, RecordBarrier, CompareBarrier, FlagBarrier,
       ConfirmLanding, FlagLanding, Wake
<1> QED
  BY <1>1, <1>2, <1>4, <1>5 DEF Next, MainThread

\* The mapped phase at every point of the main thread.
LEMMA Phases ==
  ASSUME IInv, OverInv
  PROVE  /\ pc = "handshake" => PhaseOf(pc) = "setup"
         /\ pc \in {"top", "close"} \cup InRound => PhaseOf(pc) = "playing"
         /\ pc \in Closing => PhaseOf(pc) = "over"
         /\ pc \in Ended => PhaseOf(pc) = pc
<1> QED
  BY DEF PhaseOf, OverInv, IInv, VerdictInv, BetweenRounds, InRound, Closing, Ended

LEMMA StepSimulation ==
  IInv /\ IInv' /\ OverInv /\ OverInv' /\ [Next]_vars => [Outcome!Next]_(Outcome!vars)
<1> SUFFICES ASSUME IInv, IInv', OverInv, OverInv', [Next]_vars
             PROVE  [Outcome!Next]_(Outcome!vars)
  OBVIOUS
<1> USE DEF vars, mainVars, thinkVars, stateVars, inboxVars, captureVars, endVars, serverVars
<1> DEFINE phase == PhaseOf(pc)
           abstract == <<phase, records, endReason, shown>>
<1>1. /\ pc = "handshake" => phase = "setup"
      /\ pc \in {"top", "close"} \cup InRound => phase = "playing"
      /\ pc \in Closing => phase = "over"
      /\ pc \in Ended => phase = pc
  BY Phases
<1>2. /\ pc' = "handshake" => phase' = "setup"
      /\ pc' \in {"top", "close"} \cup InRound => phase' = "playing"
      /\ pc' \in Closing => phase' = "over"
      /\ pc' \in Ended => phase' = pc'
  BY DEF PhaseOf, OverInv, IInv, VerdictInv, BetweenRounds, InRound, Closing, Ended
<1>3. ASSUME UNCHANGED <<pc, matchOver, records, endReason, shown>>
      PROVE  [Outcome!Next]_(Outcome!vars)
  BY <1>3 DEF PhaseOf, Outcome!vars
<1> HIDE DEF phase
<1>4. CASE Handshake
  <2>1. Outcome!Agree
    BY <1>1, <1>2, <1>4 DEF Handshake, Raise, Outcome!Agree, InRound, Ended, phase
  <2> QED
    BY <2>1 DEF Outcome!Next
<1>5. CASE LeaveLoop
  <2>1. /\ phase = "playing" /\ endReason = "none" /\ phase' = phase
        /\ endReason' \in {"max_moves_reached", "captured"}
        /\ endReason' = "max_moves_reached" => Len(records) = MaxMoves
        /\ UNCHANGED <<records, shown>>
    BY <1>1, <1>2, <1>5, MatchAssumption DEF LeaveLoop, RoundsLeft, IInv, TypeOK, LogInv,
       VerdictInv, BetweenRounds
  <2>2. Outcome!Decide
    BY <2>1 DEF Outcome!Decide, Outcome!Verdicts, Outcome!Justified, phase
  <2> QED
    BY <2>2 DEF Outcome!Next
<1>6. CASE CheckRound \/ CheckLostRound
  <2>1. /\ phase = "playing" /\ endReason = "none" /\ phase' = phase
        /\ Len(records) < MaxMoves /\ Len(records') = Len(records) + 1
        /\ UNCHANGED shown
    BY <1>1, <1>2, <1>6, MatchAssumption DEF CheckRound, CheckLostRound, KeepRecord, CatchAll,
       IInv, TypeOK, LogInv, VerdictInv, AfterSeal, InRound, Steps
  <2>2. /\ endReason' \in {"survived", "captured", "technical_loss", "none"}
        /\ endReason' = "survived" => Len(records') >= SurvivalThreshold
    BY <1>6, <2>1, MatchAssumption DEF CheckRound, CheckLostRound, RoundVerdict, CatchAll,
       Survived, IInv, LogInv, ThinkerInv, TypeOK, AfterSeal, InRound, Steps
  <2>3. Outcome!Round
    BY <2>1, <2>2 DEF Outcome!Round, Outcome!Verdicts, Outcome!Justified, phase
  <2> QED
    BY <2>3 DEF Outcome!Next
<1>7. CASE StartRound \/ PullScent \/ SealMove \/ StrategyFails \/ SendCommit \/ SendReveal
             \/ SendFails \/ AwaitReveal \/ AwaitTimeout
  <2>1. /\ phase = "playing" /\ endReason = "none" /\ phase' = phase
        /\ endReason' \in {"none", "technical_loss"}
        /\ UNCHANGED <<records, shown>>
    BY <1>1, <1>2, <1>7 DEF StartRound, PullScent, SealMove, StrategyFails, SendCommit,
         SendReveal, SendFails, AwaitReveal, AwaitTimeout, LoseAfterSend, Transition,
         Transitions2, CatchAll, IInv, VerdictInv, BetweenRounds, InRound
  <2>2. CASE endReason' = "technical_loss"
    <3>1. Outcome!Decide
      BY <2>1, <2>2 DEF Outcome!Decide, Outcome!Verdicts, Outcome!Justified, phase
    <3> QED
      BY <3>1 DEF Outcome!Next
  <2>3. CASE endReason' = "none"
    BY <2>1, <2>3 DEF Outcome!vars, phase
  <2> QED
    BY <2>1, <2>2, <2>3
<1>8. CASE CloseLoop
  <2>1. Outcome!End
    BY <1>1, <1>2, <1>8 DEF CloseLoop, Outcome!End, IInv, VerdictInv, EndReasons, Closing, phase
  <2> QED
    BY <2>1 DEF Outcome!Next
<1>9. CASE FinalReveal \/ ShutdownGrace \/ CheckNames \/ SubmitAudit \/ PullRecords \/ Finalize
  <2>1. phase = "over" /\ phase' \in {"over", "reported", "crashed"}
        /\ UNCHANGED <<records, endReason, shown>>
    BY <1>1, <1>2, <1>9 DEF FinalReveal, HerAudit, ShutdownGrace, CheckNames, SubmitAudit,
         PullRecords, Finalize, Raise, Closing, Ended
  <2>2. CASE phase' = "over"
    BY <2>1, <2>2 DEF Outcome!vars, phase
  <2>3. CASE phase' # "over"
    <3>1. Outcome!Conclude
      BY <2>1, <2>3 DEF Outcome!Conclude, phase
    <3> QED
      BY <3>1 DEF Outcome!Next
  <2> QED
    BY <2>2, <2>3
<1>10. CASE ShowRecords
  <2>1. pc \in Closing
    BY <1>10 DEF ShowRecords, MayShow, Serving, IInv, TypeOK, MainPoints, VerdictInv, Closing,
         BetweenRounds
  <2>2. phase = "over" /\ phase' = phase /\ shown' = Len(records)
        /\ UNCHANGED <<records, endReason>>
    BY <1>1, <1>2, <1>10, <2>1 DEF ShowRecords
  <2>3. Outcome!Show
    BY <2>2 DEF Outcome!Show, phase
  <2> QED
    BY <2>3 DEF Outcome!Next
<1>11. CASE StrategyThread \/ CommitArrives \/ RevealArrives \/ FinalRevealArrives \/ Exit
              \/ UNCHANGED vars
  BY <1>3, <1>11 DEF StrategyThread, Decide, Validate, ApplyMove, GenerateHint, CommitArrives,
       RevealArrives, FinalRevealArrives, Exit
<1>12. ASSUME NEW w \in Workers, Worker(w)
       PROVE  [Outcome!Next]_(Outcome!vars)
  BY <1>3, <1>12 DEF Worker, DeclareBarrier, RecordBarrier, CompareBarrier, FlagBarrier,
       ConfirmLanding, FlagLanding, Wake
<1> QED
  BY <1>4, <1>5, <1>6, <1>7, <1>8, <1>9, <1>10, <1>11, <1>12 DEF Next, MainThread, Opponent

\* The four threads of a peer together keep the abstract promise of one
\* match: a record per round, one verdict that the records justify, nothing
\* shown before the end and nothing changed after it.
THEOREM PeerImplementsOutcome == Spec => ImplementsOutcome
<1>1. Init => OverInv
  BY DEF Init, OverInv, Closing
<1>2. Init => Outcome!Init
  <2> SUFFICES ASSUME Init PROVE Outcome!Init
    OBVIOUS
  <2>1. PhaseOf(pc) = "setup"
    BY DEF Init, PhaseOf, Ended
  <2>2. Len(records) = 0
    BY DEF Init
  <2> QED
    BY <2>1, <2>2 DEF Init, Outcome!Init
<1>3. Spec => []OverInv
  BY <1>1, Invariance, OverStep, PTL DEF Spec
<1>4. Spec => Outcome!Init /\ [][Outcome!Next]_(Outcome!vars)
  BY <1>2, <1>3, Invariance, StepSimulation, PTL DEF Spec
<1> QED
  BY <1>4 DEF Outcome!Spec, ImplementsOutcome

-----------------------------------------------------------------------------
(* The end of every match.                                                 *)

\* How far each place of the main thread is from the end of run(), within the
\* round being played.
PlacesLeft ==
  [p \in MainPoints |->
     CASE p = "handshake" -> 15
       [] p = "top" -> 14
       [] p = "pull" -> 13
       [] p = "think" -> 12
       [] p = "commit" -> 11
       [] p = "reveal" -> 10
       [] p = "await" -> 9
       [] p \in {"check", "lost"} -> 8
       [] p = "close" -> 7
       [] p = "final_reveal" -> 6
       [] p = "grace" -> 5
       [] p = "names" -> 4
       [] p = "submit_audit" -> 3
       [] p = "pull_records" -> 2
       [] p = "finalize" -> 1
       [] OTHER -> 0]

\* At most this many steps of the main thread are left: seven for each round
\* that has no record yet, and those of the round and the end.
StepsLeft == 7 * (MaxMoves - Len(records)) + PlacesLeft[pc]

LEMMA PlacesLeftIs ==
  /\ PlacesLeft["handshake"] = 15 /\ PlacesLeft["top"] = 14 /\ PlacesLeft["pull"] = 13
  /\ PlacesLeft["think"] = 12 /\ PlacesLeft["commit"] = 11 /\ PlacesLeft["reveal"] = 10
  /\ PlacesLeft["await"] = 9 /\ PlacesLeft["check"] = 8 /\ PlacesLeft["lost"] = 8
  /\ PlacesLeft["close"] = 7 /\ PlacesLeft["final_reveal"] = 6 /\ PlacesLeft["grace"] = 5
  /\ PlacesLeft["names"] = 4 /\ PlacesLeft["submit_audit"] = 3 /\ PlacesLeft["pull_records"] = 2
  /\ PlacesLeft["finalize"] = 1 /\ \A p \in Ended : PlacesLeft[p] = 0
BY DEF PlacesLeft, MainPoints, InRound, Ended

LEMMA PlacesLeftType ==
  \A p \in MainPoints : PlacesLeft[p] \in 0 .. 15 /\ (PlacesLeft[p] = 0 => p \in Ended)
BY PlacesLeftIs DEF MainPoints, InRound

\* What the main thread does to its place and the log.
LEMMA MainDescends ==
  ASSUME IInv, MainThread
  PROVE  StepsLeft' < StepsLeft
<1>t. pc \in MainPoints /\ records \in Seq(StepRecord) /\ MaxMoves \in Nat
      /\ Len(records) \in Nat
  BY MatchAssumption DEF IInv, TypeOK
<1>1. CASE Handshake \/ LeaveLoop \/ StartRound \/ PullScent \/ SealMove \/ StrategyFails
             \/ SendCommit \/ SendReveal \/ SendFails \/ AwaitReveal \/ AwaitTimeout
  <2>1. /\ records' = records
        /\ \/ pc = "handshake" /\ pc' \in {"top", "crashed"}
           \/ pc = "top" /\ pc' \in {"pull", "think", "close"}
           \/ pc = "pull" /\ pc' \in {"think", "close"}
           \/ pc = "think" /\ pc' \in {"commit", "close"}
           \/ pc = "commit" /\ pc' \in {"reveal", "lost", "close"}
           \/ pc = "reveal" /\ pc' \in {"await", "lost", "close"}
           \/ pc = "await" /\ pc' \in {"check", "lost", "close"}
    BY <1>1
    DEF Handshake, LeaveLoop, StartRound, PullScent, SealMove, StrategyFails, SendCommit,
        SendReveal, SendFails, AwaitReveal, AwaitTimeout, Transition, Transitions2, CatchAll,
        LoseAfterSend, Raise
  <2>2. PlacesLeft[pc] \in Int /\ PlacesLeft[pc'] \in Int /\ PlacesLeft[pc'] < PlacesLeft[pc]
    BY <2>1, PlacesLeftIs DEF Ended
  <2> QED
    BY <1>t, <2>1, <2>2 DEF StepsLeft
<1>2. CASE CheckRound \/ CheckLostRound
  <2>1. records' = Append(records, sealed) /\ pc \in {"check", "lost"} /\ pc' \in {"top", "close"}
    BY <1>2 DEF CheckRound, CheckLostRound, KeepRecord, CatchAll
  <2>2. Len(records') = Len(records) + 1
    BY <1>t, <2>1
  <2>3. PlacesLeft[pc] = 8 /\ PlacesLeft[pc'] \in {14, 7}
    BY <2>1, PlacesLeftIs
  <2> QED
    BY <1>t, <2>2, <2>3 DEF StepsLeft
<1>3. CASE CloseLoop \/ FinalReveal \/ ShutdownGrace \/ CheckNames \/ SubmitAudit
             \/ PullRecords \/ Finalize
  <2>1. /\ records' = records
        /\ \/ pc = "close" /\ pc' \in {"final_reveal", "names"}
           \/ pc = "final_reveal" /\ pc' \in {"grace", "crashed"}
           \/ pc = "grace" /\ pc' = "names"
           \/ pc = "names" /\ pc' \in {"submit_audit", "finalize", "crashed"}
           \/ pc = "submit_audit" /\ pc' \in {"pull_records", "crashed"}
           \/ pc = "pull_records" /\ pc' \in {"finalize", "crashed"}
           \/ pc = "finalize" /\ pc' \in {"reported", "crashed"}
    BY <1>3
    DEF CloseLoop, FinalReveal, HerAudit, ShutdownGrace, CheckNames, SubmitAudit, PullRecords,
        Finalize, Raise
  <2>2. PlacesLeft[pc] \in Int /\ PlacesLeft[pc'] \in Int /\ PlacesLeft[pc'] < PlacesLeft[pc]
    BY <2>1, PlacesLeftIs DEF Ended
  <2> QED
    BY <1>t, <2>1, <2>2 DEF StepsLeft
<1> QED
  BY <1>1, <1>2, <1>3 DEF MainThread

\* run() ends, as far as safety goes: each step of the main thread brings it
\* nearer to the end, nothing else in the process does or sends it back, and
\* it has at most seven steps a round and fifteen beside them (runtime.py's
\* loop).  Terminates adds that the thread is not held up for ever.
THEOREM RunsDown ==
  Spec => /\ [](StepsLeft \in 0 .. 7 * MaxMoves + 15 /\ (StepsLeft = 0 => pc \in Ended))
          /\ [][/\ MainThread => StepsLeft' < StepsLeft
                /\ StepsLeft' <= StepsLeft]_vars
<1>1. IInv => StepsLeft \in 0 .. 7 * MaxMoves + 15 /\ (StepsLeft = 0 => pc \in Ended)
  <2> SUFFICES ASSUME IInv
               PROVE  StepsLeft \in 0 .. 7 * MaxMoves + 15 /\ (StepsLeft = 0 => pc \in Ended)
    OBVIOUS
  <2>1. /\ pc \in MainPoints /\ Len(records) \in Nat /\ MaxMoves \in Nat
        /\ step \in 0 .. MaxMoves /\ Len(records) <= step
    BY MatchAssumption DEF IInv, TypeOK, LogInv
  <2>2. PlacesLeft[pc] \in 0 .. 15 /\ (PlacesLeft[pc] = 0 => pc \in Ended)
    BY <2>1, PlacesLeftType
  <2> DEFINE logged == Len(records)
             left == PlacesLeft[pc]
  <2>3. /\ StepsLeft = 7 * (MaxMoves - logged) + left
        /\ logged \in Nat /\ MaxMoves \in Nat /\ logged <= MaxMoves
        /\ left \in 0 .. 15 /\ (left = 0 => pc \in Ended)
    BY <2>1, <2>2 DEF StepsLeft
  <2> HIDE DEF logged, left
  <2>4. StepsLeft \in 0 .. 7 * MaxMoves + 15
    BY ONLY <2>3
  <2>5. StepsLeft = 0 => left = 0
    BY ONLY <2>3
  <2> QED
    BY <2>3, <2>4, <2>5
<1>2. IInv /\ IInv' /\ [Next]_vars => [/\ MainThread => StepsLeft' < StepsLeft
                                       /\ StepsLeft' <= StepsLeft]_vars
  <2>0. IInv' => (StepsLeft \in 0 .. 7 * MaxMoves + 15)'
    BY <1>1, PTL
  <2> SUFFICES ASSUME IInv, IInv', [Next]_vars
               PROVE  (MainThread => StepsLeft' < StepsLeft) /\ StepsLeft' <= StepsLeft
    OBVIOUS
  <2>1. StepsLeft \in Int /\ StepsLeft' \in Int
    <3>1. StepsLeft' \in 0 .. 7 * MaxMoves + 15
      BY <2>0
    <3> QED
      BY <1>1, <3>1
  <2>2. CASE MainThread
    BY <2>1, <2>2, MainDescends
  <2>3. CASE ~MainThread
    <3>1. pc' = pc /\ records' = records
      BY <2>3
      DEF Next, StrategyThread, Decide, Validate, ApplyMove, GenerateHint, Worker, DeclareBarrier,
          RecordBarrier, CompareBarrier, FlagBarrier, ConfirmLanding, FlagLanding, Wake, Opponent,
          CommitArrives, RevealArrives, ShowRecords, FinalRevealArrives, Exit, vars, mainVars
    <3> QED
      BY <2>1, <2>3, <3>1 DEF StepsLeft
  <2> QED
    BY <2>2, <2>3
<1> QED
  BY <1>1, <1>2, Invariance, PTL DEF Spec

=============================================================================

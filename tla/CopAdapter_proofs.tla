-------------------------- MODULE CopAdapter_proofs --------------------------
(***************************************************************************)
(* Proofs about CopAdapter, for every board, every set of threads, moves,  *)
(* claims and lies, and every number of rounds and retries.  The wire      *)
(* carries no round number; the proofs show that the count of the adapter  *)
(* and its duplicate filter make up for it as long as calls are handled    *)
(* one at a time.                                                          *)
(***************************************************************************)
EXTENDS CopAdapter, FiniteSetTheorems, TLAPS

-----------------------------------------------------------------------------
(* The invariants.                                                         *)

\* The round of hers that is under way: the last one she committed to.
Round == Len(sealed)

\* Where her program is tells what she has sealed, shown and sent.
HerInv ==
  /\ cop.phase = "commit" =>
       IF pending = NoCall THEN Len(shown) = Round /\ Round < HerRounds
       ELSE pending = CommitCall(Round) /\ Round > 0 /\ Len(shown) = Round - 1
  /\ cop.phase = "reveal" =>
       /\ Round > 0
       /\ IF pending = NoCall THEN Len(shown) = Round - 1
          ELSE pending = RevealCall(Round) /\ Len(shown) = Round
  /\ cop.phase = "claim" =>
       /\ Round > 0 /\ Len(shown) = Round
       /\ pending # NoCall => pending.kind = "claim" /\ pending.round = Round
  /\ cop.phase = "claimed" => Round > 0 /\ Len(shown) = Round /\ pending = NoCall
  /\ cop.phase = "final" => pending \in {NoCall, FinalCall(Round)}
  /\ cop.phase = "done" => pending = NoCall

\* The statements of each handler.
CommitPlaces == {"commit", "post_commit", "number_commit", "count_commit", "advance_commit",
                 "mark_commit"}
RevealPlaces == {"reveal", "post_reveal", "number_reveal", "count_reveal", "advance_reveal",
                 "mark_reveal"}
ClaimPlaces == {"claim", "confirm", "refuse"}
FinalPlaces == {"final", "audit"}

\* A thread is idle or at a statement of the handler its call is for.
InPlace(j) ==
  \/ j = Idle
  \/ j.call.kind = "commit" /\ j.at \in CommitPlaces
  \/ j.call.kind = "reveal" /\ j.at \in RevealPlaces
  \/ j.call.kind = "claim" /\ j.at \in ClaimPlaces
  \/ j.call.kind = "final" /\ j.at \in FinalPlaces

\* A call is about what she has sealed and, for a reveal, shown.
Made(call) ==
  /\ call.kind \in {"commit", "reveal", "claim"} => call.round \in 1 .. Round
  /\ call.kind = "reveal" => call.round <= Len(shown)
  /\ call.kind = "final" => call.round \in 0 .. Round

\* Every copy and every call at work is one she made.
CallInv ==
  /\ \A copy \in wire : copy[1].kind # "none" /\ Made(copy[1])
  /\ \A w \in Workers : InPlace(job[w]) /\ Made(job[w].call)

\* The trace counts.
TraceInv ==
  /\ trace.nextCommit \in Nat /\ trace.nextReveal \in Nat
  /\ IsFiniteSet(DOMAIN trace.entries) /\ DOMAIN trace.entries \subseteq Nat

\* How many of her commitments and reveals were numbered, by the adapter and by
\* the trace.
Numbered(commitsDone, revealsDone) ==
  adapter.commitStep = commitsDone + 1 /\ adapter.revealStep = revealsDone + 1
Recording(commitsDone, revealsDone) ==
  trace.nextCommit = commitsDone + 1 /\ trace.nextReveal = revealsDone + 1
Counted(commitsDone, revealsDone) ==
  Numbered(commitsDone, revealsDone) /\ Recording(commitsDone, revealsDone)
\* Before, between and after the two calls of her round r, as the duplicate
\* filter has to see it.
Before(r) == Counted(r - 1, r - 1) /\ adapter.lastCommit < r
Between(r) == Counted(r, r - 1) /\ adapter.lastCommit = r /\ ~adapter.revealDone
After(r) == Counted(r, r) /\ adapter.lastCommit = r /\ adapter.revealDone

\* The case the numbering is about.
Tidy == tidy /\ Serving

\* At most one call is being handled.
Alone == \A v, w \in Workers : job[v] # Idle /\ job[w] # Idle => v = w

\* What holds when no call of hers is being handled.
AtRest ==
  /\ cop.phase = "commit" =>
       IF pending = NoCall THEN Counted(Round, Round) /\ adapter.lastCommit <= Round
       ELSE Before(Round) \/ Between(Round)
  /\ cop.phase = "reveal" => Between(Round) \/ (pending # NoCall /\ After(Round))
  /\ cop.phase \in {"claim", "claimed"} => After(Round)

IdleInv == (\A w \in Workers : job[w] = Idle) => AtRest

\* What holds while thread w handles a call: it is the one she waits on, or
\* she gave up and will send no other commitment or reveal.
AtWork(w) ==
  /\ job[w].call = pending \/ cop.phase \in {"final", "done"}
  /\ job[w].call.round = Round
  /\ job[w].call.kind = "commit" => Len(shown) = Round - 1
  /\ job[w].at = "commit" => Before(Round) \/ Between(Round)
  /\ job[w].at \in {"post_commit", "number_commit", "count_commit"} => Before(Round)
  /\ job[w].at \in {"count_commit", "count_reveal"} => job[w].step = Round
  /\ job[w].at = "advance_commit" => Numbered(Round - 1, Round - 1) /\ Recording(Round, Round - 1)
  /\ job[w].at = "mark_commit" => Counted(Round, Round - 1)
  /\ job[w].at = "reveal" => Between(Round) \/ After(Round)
  /\ job[w].at \in {"post_reveal", "number_reveal", "count_reveal"} => Between(Round)
  /\ job[w].at = "advance_reveal" =>
       /\ Numbered(Round, Round - 1) /\ Recording(Round, Round)
       /\ adapter.lastCommit = Round
  /\ job[w].at = "mark_reveal" => Counted(Round, Round) /\ adapter.lastCommit = Round
  /\ job[w].call.kind = "claim" => After(Round)

WorkInv == \A w \in Workers : job[w] # Idle => AtWork(w)

\* The thief plays no round before she showed the one before.
PaceInv ==
  /\ DOMAIN reveals \subseteq 1 .. Len(shown)
  /\ thief.round <= Len(shown) + 1

\* The parts about order hold only while the calls come in order.
TallyInv == Tidy => Alone /\ IdleInv /\ WorkInv
NumberInv == Tidy => PaceInv /\ InStep

\* Once the process is gone nothing of it is left.
GoneInv ==
  ~Serving => /\ \A w \in Workers : job[w] = Idle
              /\ commits = <<>> /\ reveals = <<>> /\ trace = EmptyTrace
              /\ landing = NotLanded

\* A confirmation is sent, or about to be, only when the capture is flagged.
ToldInv ==
  Serving =>
  /\ told => landing # NotLanded
  /\ \A w \in Workers : job[w].at = "confirm" => landing # NotLanded

\* The inductive invariant; the parts about order rest on it.
IInv == TypeOK /\ HerInv /\ CallInv /\ TraceInv

-----------------------------------------------------------------------------
(* Types.                                                                  *)

\* A legal move ends on the board.
LEMMA TargetStays ==
  ASSUME SizeAssumption, NEW cell \in Cells, NEW barriers, NEW m \in LegalMoves(cell, barriers)
  PROVE  m \in Moves /\ Target(cell, m) \in Cells
<1>1. CASE m = "STAY"
  <2>1. DELTAS["STAY"] = <<0, 0>>
    BY DEF DELTAS, Moves, Directions
  <2> QED
    BY <1>1, <2>1 DEF Target, Cells, Moves
<1>2. CASE m # "STAY"
  BY <1>2 DEF LegalMoves, Moves
<1> QED
  BY <1>1, <1>2

\* A replayed move leads to a standing.
LEMMA AppliedStands ==
  ASSUME NEW at \in Standings, NEW move \in CopMoves
  PROVE  Applied(at, move) \in Standings
BY DEF Applied, Standing, Standings, CopMoves

\* The fields of a call, by its kind.
LEMMA CallTypes ==
  ASSUME NEW c \in Calls
  PROVE  /\ c.kind \in {"none", "commit", "reveal", "claim", "final"}
         /\ c.kind = "none" <=> c = NoCall
         /\ c.round \in 0 .. MaxRounds
         /\ c.kind \in {"commit", "reveal", "claim"} => c.round \in Rounds
         /\ c.kind = "claim" => c.cell \in Cells /\ c.copCell \in Cells
BY CopAdapterAssumption DEF Calls, NoCall, Rounds, CopAdapterAssumption

\* The constructors build calls.
LEMMA CallsMade ==
  ASSUME NEW r \in Rounds
  PROVE  /\ CommitCall(r) \in Calls /\ RevealCall(r) \in Calls
         /\ FinalCall(r) \in Calls /\ FinalCall(0) \in Calls /\ NoCall \in Calls
         /\ \A c, d \in Cells : ClaimCall(r, c, d) \in Calls
BY CopAdapterAssumption DEF Calls, CommitCall, RevealCall, ClaimCall, FinalCall, NoCall, Rounds

\* An element of a sequence is of its type.
LEMMA Elements ==
  ASSUME NEW S, NEW s \in Seq(S), NEW i \in 1 .. Len(s)
  PROVE  s[i] \in S
OBVIOUS

\* The cop stands somewhere.
LEMMA HerStands ==
  ASSUME TypeOK, CopStartAssumption
  PROVE  HerStanding \in Standings
<1>1. CASE sealed = <<>>
  BY <1>1, CopStartAssumption DEF HerStanding, Standing, Standings
<1>2. CASE sealed # <<>>
  <2>1. /\ Len(sealed) \in 1 .. Len(sealed)
        /\ sealed[Len(sealed)] \in [step : Rounds, at : Standings, move : CopMoves]
    <3>1. sealed \in Seq([step : Rounds, at : Standings, move : CopMoves])
      BY DEF TypeOK
    <3>2. Len(sealed) \in 1 .. Len(sealed)
      BY <1>2, <3>1
    <3> QED
      BY ONLY <3>1, <3>2, Elements
  <2> QED
    BY <1>2, <2>1 DEF HerStanding, Last
<1> QED
  BY <1>1, <1>2

Phases == {"commit", "reveal", "claim", "claimed", "final", "done"}

\* A handler that returns leaves her waiting, or on to what is next.
LEMMA AnswerTypes ==
  ASSUME TypeOK, NEW w \in Workers, job[w] # Idle, Answer(w)
  PROVE  /\ cop' \in [phase : Phases, whole : BOOLEAN]
         /\ pending' \in Calls
         /\ job' \in [Workers -> [at : Places, call : Calls, step : Nat]]
<1>1. Idle \in [at : Places, call : Calls, step : Nat]
  BY DEF Idle, Places, Calls
<1>2. PhaseAfter(pending.kind) \in Phases
  BY DEF PhaseAfter, Phases
<1>3. NoCall \in Calls
  BY DEF Calls
<1> QED
  BY <1>1, <1>2, <1>3 DEF Answer, TypeOK, Phases

\* The initial values have their types.
LEMMA InitTypes == Init => TypeOK
<1> SUFFICES ASSUME Init PROVE TypeOK
  OBVIOUS
<1>1. NoCall \in Calls /\ Idle \in [at : Places, call : Calls, step : Nat]
  BY DEF Calls, Idle, Places
<1>2. /\ sealed \in Seq([step : Rounds, at : Standings, move : CopMoves])
      /\ shown \in Seq(CopMoves) /\ Len(shown) = 0 /\ Len(sealed) = 0
  BY DEF Init
<1>3. /\ adapter \in [commitStep : Nat, revealStep : Nat, lastCommit : 0 .. MaxRounds,
                       revealDone : BOOLEAN]
      /\ thief \in [at : {"move", "wait", "grace", "gone"}, round : Rounds, cell : Cells,
                     taken : {"none", "not_evaluated", "passed", "failed"}]
      /\ landing \in [step : 0 .. MaxRounds, cell : Cells, round : 0 .. MaxRounds]
  BY CopAdapterAssumption DEF Init, FreshAdapter, NotLanded, CopAdapterAssumption, Rounds
<1>4. /\ cop \in [phase : {"commit", "reveal", "claim", "claimed", "final", "done"},
                   whole : BOOLEAN]
      /\ audit \in [verdict : {"not_evaluated", "passed", "failed"}, verified : Nat]
      /\ retries \in 0 .. MaxRetries /\ HerRounds \in Nat
  BY CopAdapterAssumption DEF Init, NotEvaluated, CopAdapterAssumption
<1>5. job \in [Workers -> [at : Places, call : Calls, step : Nat]] /\ pending \in Calls
      /\ wire \subseteq Calls \X Nat
  BY <1>1 DEF Init
<1>6. told \in BOOLEAN /\ tidy \in BOOLEAN /\ lie \in Lies
  BY DEF Init
<1>7. Len(shown) <= Len(sealed) /\ Len(sealed) <= HerRounds
  BY <1>2, <1>4
<1> QED
  BY <1>2, <1>3, <1>4, <1>5, <1>6, <1>7 DEF TypeOK

\* Every step keeps the types.
LEMMA TypeStep == IInv /\ [Next]_vars => TypeOK'
<1> SUFFICES ASSUME IInv, [Next]_vars PROVE TypeOK'
  OBVIOUS
<1> USE DEF IInv
<1>h. HerRounds \in 1 .. MaxRounds /\ MaxRounds \in Nat \ {0} /\ MaxRetries \in Nat
  BY CopAdapterAssumption DEF CopAdapterAssumption
<1>r. Round \in 0 .. MaxRounds /\ (Round > 0 => Round \in Rounds)
  BY <1>h DEF TypeOK, Round, Rounds
<1>1. CASE UNCHANGED vars
  BY <1>1 DEF vars, herVars, adapterVars, TypeOK
<1>s. ASSUME NEW c \in Calls, Send(c)
      PROVE  pending' \in Calls /\ wire' \subseteq Calls \X Nat
  BY <1>s, <1>h DEF Send, TypeOK
<1>2. CASE CopCommits
  <2>1. Round < HerRounds
    BY <1>2 DEF CopCommits, Send, HerInv, TypeOK
  <2>2. Round + 1 \in Rounds /\ Round + 1 \in 1 .. HerRounds
    BY <2>1, <1>h, <1>r DEF Rounds
  <2>3. PICK move \in HerMoves[Round + 1], at \in Standings :
          sealed' = Append(sealed, Seal(Round + 1, at, move))
    <3>1. PICK move \in HerMoves[Round + 1] :
            LET false == lie = [about |-> "standing", round |-> Len(sealed) + 1]
                at == IF false THEN HerStanding ELSE Applied(HerStanding, move)
            IN  sealed' = Append(sealed, Seal(Len(sealed) + 1, at, move))
      BY <1>2 DEF CopCommits, Round
    <3>2. move \in CopMoves
      BY <2>2, CopAdapterAssumption DEF CopAdapterAssumption
    <3>3. HerStanding \in Standings /\ Applied(HerStanding, move) \in Standings
      BY <3>2, HerStands, AppliedStands, CopStartAssumption
    <3> QED
      BY <3>1, <3>3 DEF Round
  <2>4. move \in CopMoves
    BY <2>2, CopAdapterAssumption DEF CopAdapterAssumption
  <2>5. Seal(Round + 1, at, move) \in [step : Rounds, at : Standings, move : CopMoves]
    BY <2>2, <2>3, <2>4 DEF Seal
  <2>6. /\ sealed' \in Seq([step : Rounds, at : Standings, move : CopMoves])
        /\ Len(sealed') = Round + 1
    BY <2>3, <2>5 DEF TypeOK, Round
  <2>7. pending' \in Calls /\ wire' \subseteq Calls \X Nat
    BY <1>2, <1>s, <2>2, CallsMade DEF CopCommits, Round
  <2> QED
    BY <1>2, <2>1, <2>6, <2>7, <1>h DEF CopCommits, TypeOK, Round, adapterVars
<1>3. CASE CopReveals
  <2>1. Round \in Rounds /\ Len(shown) = Round - 1
    BY <1>3, <1>r DEF CopReveals, Send, HerInv
  <2>2. PICK move \in IF LiesAbout("move") THEN HerMoves[Round] \ {Last(sealed).move}
                  ELSE {Last(sealed).move} :
          shown' = Append(shown, move)
    BY <1>3 DEF CopReveals, Round
  <2>3. move \in CopMoves
    <3>1. Round \in 1 .. HerRounds /\ sealed[Round].move \in CopMoves
      <4>1. Round \in 1 .. Len(sealed) /\ Round \in 1 .. HerRounds
        BY <2>1, <1>h DEF Round, TypeOK, Rounds
      <4>2. sealed[Round] \in [step : Rounds, at : Standings, move : CopMoves]
        <5>1. sealed \in Seq([step : Rounds, at : Standings, move : CopMoves])
          BY DEF TypeOK
        <5> QED
          BY ONLY <4>1, <5>1, Elements
      <4> QED
        BY <4>1, <4>2
    <3>2. HerMoves[Round] \subseteq CopMoves
      BY <3>1, CopAdapterAssumption DEF CopAdapterAssumption
    <3> QED
      BY <2>2, <3>1, <3>2 DEF Last, Round
  <2>4. shown' \in Seq(CopMoves) /\ Len(shown') = Round
    BY <2>1, <2>2, <2>3 DEF TypeOK, Rounds
  <2>5. pending' \in Calls /\ wire' \subseteq Calls \X Nat
    BY <1>3, <1>s, <2>1, CallsMade DEF CopReveals, Round
  <2> QED
    BY <1>3, <2>4, <2>5 DEF CopReveals, TypeOK, Round, adapterVars
<1>4. CASE CopClaims
  <2>1. Round \in Rounds
    BY <1>4, <1>r DEF CopClaims, HerInv
  <2>2. PICK cell \in Suspects, from \in Cells : Send(ClaimCall(Round, cell, from))
    <3>1. HerStanding.cell \in Cells
      BY HerStands, CopStartAssumption DEF Standings
    <3> QED
      BY <1>4, <3>1 DEF CopClaims, Round
  <2>3. cell \in Cells
    BY CopAdapterAssumption DEF CopAdapterAssumption
  <2>4. pending' \in Calls /\ wire' \subseteq Calls \X Nat
    BY <1>s, <2>1, <2>2, <2>3, CallsMade
  <2> QED
    BY <1>4, <2>4 DEF CopClaims, TypeOK, adapterVars
<1>5. CASE CopMovesOn
  BY <1>5 DEF CopMovesOn, TypeOK, adapterVars
<1>6. CASE CopEnds
  <2>1. FinalCall(Round) \in Calls
    BY <1>r DEF FinalCall, Calls
  <2>2. pending' \in Calls /\ wire' \subseteq Calls \X Nat
    BY <1>6, <1>s, <2>1 DEF CopEnds, Round
  <2> QED
    BY <1>6, <2>2 DEF CopEnds, TypeOK, adapterVars
<1>7. CASE Retry
  BY <1>7, <1>h DEF Retry, TypeOK, adapterVars
<1>8. CASE GiveUp
  BY <1>8, <1>r, CallsMade DEF GiveUp, TypeOK, adapterVars, Calls
<1>9. CASE \E w \in Workers : Worker(w)
  <2> PICK w \in Workers : Worker(w)
    BY <1>9
  <2>g. ASSUME NEW place \in Places, Goto(w, place)
        PROVE  job' \in [Workers -> [at : Places, call : Calls, step : Nat]]
    BY <2>g DEF Goto, TypeOK
  <2>n. ASSUME NEW place \in Places, NEW step \in Nat,
               job' = [job EXCEPT ![w].at = place, ![w].step = step]
        PROVE  job' \in [Workers -> [at : Places, call : Calls, step : Nat]]
    <3>1. job \in [Workers -> [at : Places, call : Calls, step : Nat]]
      BY DEF TypeOK
    <3>2. [[job[w] EXCEPT !.at = place] EXCEPT !.step = step]
            \in [at : Places, call : Calls, step : Nat]
      BY <3>1
    <3>3. \A v \in Workers : job'[v] = IF v = w
                                       THEN [[job[w] EXCEPT !.at = place] EXCEPT !.step = step]
                                       ELSE job[v]
      BY <2>n, <3>1
    <3>4. job' = [v \in Workers |-> job'[v]]
      BY <2>n, <3>1
    <3> QED
      BY ONLY <3>1, <3>2, <3>3, <3>4
  <2>k. /\ InPlace(job[w]) /\ Made(job[w].call)
        /\ job[w].call \in Calls
    BY DEF CallInv, TypeOK
  <2>i. job[w].at # "idle" => job[w] # Idle
    BY DEF Idle
  <2>1. CASE Deliver(w)
    <3>1. PICK copy \in wire :
            job' = [job EXCEPT ![w] = [at |-> copy[1].kind, call |-> copy[1], step |-> 0]]
      BY <2>1 DEF Deliver
    <3>2. copy[1] \in Calls /\ copy[1].kind \in Places
      BY CallTypes DEF TypeOK, CallInv, Places
    <3>3. job' \in [Workers -> [at : Places, call : Calls, step : Nat]]
      BY <3>1, <3>2 DEF TypeOK
    <3> QED
      BY <2>1, <3>3 DEF Deliver, TypeOK, herVars, adapterVars
  <2>2. CASE CheckCommit(w)
    <3>1. CASE Answer(w)
      BY <2>2, <3>1, <2>i, AnswerTypes DEF CheckCommit, TypeOK, adapterVars, Phases
    <3>2. CASE Goto(w, "post_commit") /\ UNCHANGED <<cop, pending>>
      BY <2>2, <3>2, <2>g DEF CheckCommit, TypeOK, adapterVars, Places
    <3> QED
      BY <2>2, <3>1, <3>2 DEF CheckCommit
  <2>3. CASE PostCommit(w)
    BY <2>3, <2>g DEF PostCommit, TypeOK, herVars, Places
  <2>4. CASE NumberCommit(w) \/ CountCommit(w) \/ AdvanceCommit(w)
    <3>1. CASE NumberCommit(w)
      <4>1. job' = [job EXCEPT ![w].at = "count_commit", ![w].step = trace.nextCommit]
            /\ trace.nextCommit \in Nat
        BY <3>1 DEF NumberCommit, TraceInv
      <4>2. job' \in [Workers -> [at : Places, call : Calls, step : Nat]]
        BY <2>n, <4>1 DEF Places
      <4> QED
        BY <3>1, <4>2 DEF NumberCommit, TypeOK, herVars, adapterVars
    <3>2. CASE CountCommit(w)
      <4>1. job' = [job EXCEPT ![w].at = "advance_commit", ![w].step = 0]
        BY <3>2 DEF CountCommit
      <4>2. job' \in [Workers -> [at : Places, call : Calls, step : Nat]]
        BY <2>n, <4>1 DEF Places
      <4> QED
        BY <3>2, <4>2 DEF CountCommit, TypeOK, herVars
    <3>3. CASE AdvanceCommit(w)
      <4>1. adapter' = [adapter EXCEPT !.commitStep = adapter.commitStep + 1]
        BY <3>3 DEF AdvanceCommit
      <4>2. adapter \in [commitStep : Nat, revealStep : Nat, lastCommit : 0 .. MaxRounds,
                          revealDone : BOOLEAN]
        BY DEF TypeOK
      <4>3. adapter' \in [commitStep : Nat, revealStep : Nat, lastCommit : 0 .. MaxRounds,
                           revealDone : BOOLEAN]
        BY ONLY <4>1, <4>2
      <4>4. job' \in [Workers -> [at : Places, call : Calls, step : Nat]]
        BY <3>3, <2>g DEF AdvanceCommit, Places
      <4> QED
        BY <3>3, <4>3, <4>4 DEF AdvanceCommit, TypeOK, herVars
    <3> QED
      BY <2>4, <3>1, <3>2, <3>3
  <2>5. CASE MarkCommit(w)
    <3>1. job[w].call.round \in 0 .. MaxRounds
      BY <2>k, CallTypes
    <3> QED
      BY <2>5, <3>1, <2>i, AnswerTypes DEF MarkCommit, TypeOK, Phases
  <2>6. CASE CheckReveal(w)
    <3>1. CASE Answer(w)
      BY <2>6, <3>1, <2>i, AnswerTypes DEF CheckReveal, TypeOK, adapterVars, Phases
    <3>2. CASE Goto(w, "post_reveal") /\ UNCHANGED <<cop, pending>>
      BY <2>6, <3>2, <2>g DEF CheckReveal, TypeOK, adapterVars, Places
    <3> QED
      BY <2>6, <3>1, <3>2 DEF CheckReveal
  <2>7. CASE PostReveal(w)
    BY <2>7, <2>g DEF PostReveal, TypeOK, herVars, Places
  <2>8. CASE NumberReveal(w) \/ CountReveal(w) \/ AdvanceReveal(w)
    <3>1. CASE NumberReveal(w)
      <4>1. job' = [job EXCEPT ![w].at = "count_reveal", ![w].step = trace.nextReveal]
            /\ trace.nextReveal \in Nat
        BY <3>1 DEF NumberReveal, TraceInv
      <4>2. job' \in [Workers -> [at : Places, call : Calls, step : Nat]]
        BY <2>n, <4>1 DEF Places
      <4> QED
        BY <3>1, <4>2 DEF NumberReveal, TypeOK, herVars, adapterVars
    <3>2. CASE CountReveal(w)
      <4>1. job' = [job EXCEPT ![w].at = "advance_reveal", ![w].step = 0]
        BY <3>2 DEF CountReveal
      <4>2. job' \in [Workers -> [at : Places, call : Calls, step : Nat]]
        BY <2>n, <4>1 DEF Places
      <4> QED
        BY <3>2, <4>2 DEF CountReveal, TypeOK, herVars
    <3>3. CASE AdvanceReveal(w)
      <4>1. adapter' = [adapter EXCEPT !.revealStep = adapter.revealStep + 1]
        BY <3>3 DEF AdvanceReveal
      <4>2. adapter \in [commitStep : Nat, revealStep : Nat, lastCommit : 0 .. MaxRounds,
                          revealDone : BOOLEAN]
        BY DEF TypeOK
      <4>3. adapter' \in [commitStep : Nat, revealStep : Nat, lastCommit : 0 .. MaxRounds,
                           revealDone : BOOLEAN]
        BY ONLY <4>1, <4>2
      <4>4. job' \in [Workers -> [at : Places, call : Calls, step : Nat]]
        BY <3>3, <2>g DEF AdvanceReveal, Places
      <4> QED
        BY <3>3, <4>3, <4>4 DEF AdvanceReveal, TypeOK, herVars
    <3> QED
      BY <2>8, <3>1, <3>2, <3>3
  <2>9. CASE MarkReveal(w)
    BY <2>9, <2>i, AnswerTypes DEF MarkReveal, TypeOK, Phases
  <2>10. CASE JudgeClaim(w)
    <3>1. job[w].call.kind = "claim"
      BY <2>10, <2>k DEF JudgeClaim, InPlace, Idle, CommitPlaces, RevealPlaces, FinalPlaces
    <3>2. job[w].call.round \in 0 .. MaxRounds
      BY <2>k, CallTypes
    <3>3. landing' \in [step : 0 .. MaxRounds, cell : Cells, round : 0 .. MaxRounds]
      BY <2>10, <3>2, <1>h DEF JudgeClaim, TypeOK, Rounds
    <3>4. job' \in [Workers -> [at : Places, call : Calls, step : Nat]]
      BY <2>10, <2>g DEF JudgeClaim, Places
    <3> QED
      BY <2>10, <3>3, <3>4 DEF JudgeClaim, TypeOK, herVars
  <2>11. CASE RespondToClaim(w)
    <3>1. CASE Answer(w)
      BY <2>11, <3>1, <2>i, AnswerTypes DEF RespondToClaim, TypeOK, adapterVars, Phases
    <3>2. CASE job' = [job EXCEPT ![w] = Idle] /\ UNCHANGED <<told, cop, pending>>
      <4>1. Idle \in [at : Places, call : Calls, step : Nat]
        BY DEF Idle, Places, Calls
      <4> QED
        BY <2>11, <3>2, <4>1 DEF RespondToClaim, TypeOK, adapterVars
    <3> QED
      BY <2>11, <3>1, <3>2 DEF RespondToClaim, TypeOK
  <2>12. CASE KeepNonces(w)
    BY <2>12, <2>g DEF KeepNonces, TypeOK, herVars, Places
  <2>13. CASE AuditTrace(w)
    <3>1. Cardinality(CheckedSteps(trace)) \in Nat
      BY FS_CardinalityType, FS_Subset DEF TraceInv, CheckedSteps
    <3> QED
      BY <2>13, <3>1, <2>i, AnswerTypes DEF AuditTrace, TypeOK, Phases
  <2> QED
    BY <2>1, <2>2, <2>3, <2>4, <2>5, <2>6, <2>7, <2>8, <2>9, <2>10, <2>11, <2>12, <2>13
    DEF Worker
<1>10. CASE ThiefMoves
  <2>1. PICK m \in LegalMoves(thief.cell, {}) :
          thief' = [thief EXCEPT !.cell = Target(@, m), !.at = "wait"]
    BY <1>10 DEF ThiefMoves
  <2>2. Target(thief.cell, m) \in Cells
    BY TargetStays, SizeAssumption DEF TypeOK
  <2> QED
    BY <1>10, <2>1, <2>2 DEF ThiefMoves, TypeOK, herVars, adapterVars
<1>11. CASE RoundArrived
  <2>1. thief.round # MaxRounds => thief.round + 1 \in Rounds
    BY <1>h DEF TypeOK, Rounds
  <2> QED
    BY <1>11, <2>1 DEF RoundArrived, RoundEnds, TypeOK, herVars, adapterVars
<1>12. CASE RoundLost
  BY <1>12 DEF RoundLost, TypeOK, herVars, adapterVars
<1>13. CASE GraceEnds
  <2>1. job' \in [Workers -> [at : Places, call : Calls, step : Nat]]
    BY <1>13 DEF GraceEnds, Idle, Places, Calls
  <2>2. /\ adapter' \in [commitStep : Nat, revealStep : Nat, lastCommit : 0 .. MaxRounds,
                          revealDone : BOOLEAN]
        /\ audit' \in [verdict : {"not_evaluated", "passed", "failed"}, verified : Nat]
        /\ landing' \in [step : 0 .. MaxRounds, cell : Cells, round : 0 .. MaxRounds]
    BY <1>13, <1>h, CopAdapterAssumption
    DEF GraceEnds, FreshAdapter, NotEvaluated, NotLanded, CopAdapterAssumption
  <2>3. thief' \in [at : {"move", "wait", "grace", "gone"}, round : Rounds, cell : Cells,
                    taken : {"none", "not_evaluated", "passed", "failed"}]
    BY <1>13 DEF GraceEnds, TypeOK
  <2> QED
    BY <1>13, <2>1, <2>2, <2>3 DEF GraceEnds, TypeOK, herVars
<1>14. CASE Gone
  BY <1>1, <1>14 DEF Gone
<1> QED
  BY <1>1, <1>2, <1>3, <1>4, <1>5, <1>6, <1>7, <1>8, <1>9, <1>10, <1>11, <1>12, <1>13, <1>14
  DEF Next, Cop, Thief

-----------------------------------------------------------------------------
(* Her program.                                                            *)

\* The phase after an answer.
LEMMA NextPhase ==
  /\ PhaseAfter("commit") = "reveal" /\ PhaseAfter("reveal") = "claim"
  /\ PhaseAfter("claim") = "claimed" /\ PhaseAfter("final") = "done"
BY DEF PhaseAfter

\* A thread that is not idle handles a call, and its place says of which kind.
LEMMA AtCalls ==
  ASSUME IInv, NEW w \in Workers, job[w] # Idle
  PROVE  /\ job[w].call \in Calls /\ job[w].call # NoCall /\ job[w].call.kind # "none"
         /\ job[w].at # "idle"
         /\ job[w].call.kind = "commit" <=> job[w].at \in CommitPlaces
         /\ job[w].call.kind = "reveal" <=> job[w].at \in RevealPlaces
         /\ job[w].call.kind = "claim" <=> job[w].at \in ClaimPlaces
         /\ job[w].call.kind = "final" <=> job[w].at \in FinalPlaces
<1>1. job[w].call \in Calls /\ InPlace(job[w])
  BY DEF IInv, TypeOK, CallInv
<1>2. job[w].call.kind # "none"
  BY <1>1 DEF InPlace
<1>3. job[w].call # NoCall
  BY <1>1, <1>2, CallTypes
<1>4. /\ job[w].at # "idle"
      /\ job[w].call.kind = "commit" <=> job[w].at \in CommitPlaces
      /\ job[w].call.kind = "reveal" <=> job[w].at \in RevealPlaces
      /\ job[w].call.kind = "claim" <=> job[w].at \in ClaimPlaces
      /\ job[w].call.kind = "final" <=> job[w].at \in FinalPlaces
  BY <1>1 DEF InPlace, CommitPlaces, RevealPlaces, ClaimPlaces, FinalPlaces
<1> QED
  BY <1>1, <1>2, <1>3, <1>4

\* The steps of the server and of the thief that touch her program answer a call.
Answered(w) == job[w].call = pending /\ pending' = NoCall
               /\ cop' = [cop EXCEPT !.phase = PhaseAfter(pending.kind)]

LEMMA WhatAnswers ==
  ASSUME IInv, NEW w \in Workers, Worker(w)
  PROVE  /\ UNCHANGED <<lie, sealed, shown, retries, thief>>
         /\ \/ Answered(w) /\ job[w] # Idle /\ job' = [job EXCEPT ![w] = Idle]
            \/ UNCHANGED <<cop, pending>>
BY
DEF Worker, Deliver, CheckCommit, PostCommit, NumberCommit, CountCommit, AdvanceCommit,
    MarkCommit, CheckReveal, PostReveal, NumberReveal, CountReveal, AdvanceReveal, MarkReveal,
    JudgeClaim, RespondToClaim, KeepNonces, AuditTrace, Answer, Answered, herVars, Idle

\* Every step keeps her program and what she sent in line.
LEMMA HerStep == IInv /\ [Next]_vars => HerInv'
<1> SUFFICES ASSUME IInv, [Next]_vars PROVE HerInv'
  OBVIOUS
<1> USE DEF IInv
<1>s. /\ sealed \in Seq([step : Rounds, at : Standings, move : CopMoves])
      /\ shown \in Seq(CopMoves) /\ Round \in Nat /\ Len(shown) \in Nat
  BY DEF TypeOK, Round
<1>1. CASE UNCHANGED <<cop, pending, sealed, shown>>
  BY <1>1 DEF HerInv, Round
<1>2. CASE CopCommits
  <2>1. Round < HerRounds /\ Len(shown) = Round
    BY <1>2 DEF CopCommits, Send, HerInv
  <2>2. Len(sealed') = Round + 1 /\ shown' = shown
    BY <1>2, <1>s DEF CopCommits, Round
  <2>3. cop'.phase = "commit" /\ pending' = CommitCall(Round + 1)
    BY <1>2 DEF CopCommits, Send, Round
  <2>4. pending' # NoCall
    BY <2>3 DEF CommitCall, NoCall
  <2> QED
    BY <2>1, <2>2, <2>3, <2>4, <1>s DEF HerInv, Round
<1>3. CASE CopReveals
  <2>1. Round > 0 /\ Len(shown) = Round - 1
    BY <1>3 DEF CopReveals, Send, HerInv
  <2>2. Len(shown') = Round /\ sealed' = sealed
    BY <1>3, <1>s, <2>1 DEF CopReveals
  <2>3. cop'.phase = "reveal" /\ pending' = RevealCall(Round)
    BY <1>3 DEF CopReveals, Send, Round
  <2>4. pending' # NoCall
    BY <2>3 DEF RevealCall, NoCall
  <2> QED
    BY <2>1, <2>2, <2>3, <2>4 DEF HerInv, Round
<1>4. CASE CopClaims
  <2>1. PICK cell, copCell : pending' = ClaimCall(Round, cell, copCell)
    BY <1>4 DEF CopClaims, Send, Round
  <2>2. pending'.kind = "claim" /\ pending'.round = Round
    BY <2>1 DEF ClaimCall
  <2> QED
    BY <1>4, <2>2 DEF CopClaims, HerInv, Round
<1>5. CASE CopMovesOn
  <2>1. cop'.phase = "commit" => Round < HerRounds
    BY <1>5 DEF CopMovesOn, TypeOK, Round
  <2>2. cop'.phase \in {"commit", "final"}
    BY <1>5 DEF CopMovesOn, TypeOK
  <2> QED
    BY <1>5, <2>1, <2>2 DEF CopMovesOn, HerInv, Round
<1>6. CASE CopEnds
  BY <1>6 DEF CopEnds, Send, HerInv, Round
<1>7. CASE GiveUp
  BY <1>7 DEF GiveUp, HerInv, Round
<1>8. ASSUME NEW w \in Workers, Worker(w) PROVE HerInv'
  <2>1. UNCHANGED <<sealed, shown>>
    BY <1>8, WhatAnswers
  <2>2. CASE UNCHANGED <<cop, pending>>
    BY <1>1, <2>1, <2>2
  <2>3. CASE Answered(w) /\ job[w] # Idle
    <3>1. pending \in Calls /\ pending # NoCall /\ pending.kind # "none"
      BY <2>3, AtCalls DEF Answered
    <3>2. cop.phase \in Phases
      BY DEF TypeOK, Phases
    <3>3. cop'.phase = PhaseAfter(pending.kind) /\ pending' = NoCall
      BY <2>3 DEF Answered, TypeOK
    <3>4. CASE cop.phase = "commit"
      BY <2>1, <3>1, <3>3, <3>4, NextPhase DEF HerInv, Round, CommitCall
    <3>5. CASE cop.phase = "reveal"
      BY <2>1, <3>1, <3>3, <3>5, NextPhase DEF HerInv, Round, RevealCall
    <3>6. CASE cop.phase = "claim"
      BY <2>1, <3>1, <3>3, <3>6, NextPhase DEF HerInv, Round
    <3>7. CASE cop.phase = "final"
      BY <2>1, <3>1, <3>3, <3>7, NextPhase DEF HerInv, Round, FinalCall
    <3> QED
      BY <3>1, <3>2, <3>4, <3>5, <3>6, <3>7 DEF HerInv, Phases
  <2> QED
    BY <1>8, <2>2, <2>3, WhatAnswers
<1> QED
  BY <1>1, <1>2, <1>3, <1>4, <1>5, <1>6, <1>7, <1>8
  DEF Next, Cop, Thief, Retry, ThiefMoves, RoundArrived, RoundLost, GraceEnds, Gone, vars, herVars

-----------------------------------------------------------------------------
(* The calls under way.                                                    *)

PendingMade == pending # NoCall => pending.kind # "none" /\ Made(pending)

\* The call she waits on is one she made.
LEMMA WhatPends == TypeOK /\ HerInv => PendingMade
<1> SUFFICES ASSUME TypeOK, HerInv, pending # NoCall PROVE pending.kind # "none" /\ Made(pending)
  BY DEF PendingMade
<1>s. Round \in Nat /\ Len(shown) \in Nat /\ Len(shown) <= Round /\ cop.phase \in Phases
  BY DEF TypeOK, Round, Phases
<1>1. CASE cop.phase = "commit"
  BY <1>1, <1>s DEF HerInv, CommitCall, Made
<1>2. CASE cop.phase = "reveal"
  BY <1>2, <1>s DEF HerInv, RevealCall, Made
<1>3. CASE cop.phase = "claim"
  BY <1>3, <1>s DEF HerInv, Made
<1>4. CASE cop.phase = "final"
  BY <1>4, <1>s DEF HerInv, FinalCall, Made
<1> QED
  BY <1>s, <1>1, <1>2, <1>3, <1>4 DEF HerInv, Phases

\* Nothing she sealed or showed is taken back.
LEMMA Grows == IInv /\ [Next]_vars => Round' >= Round /\ Len(shown') >= Len(shown)
<1> SUFFICES ASSUME IInv, [Next]_vars PROVE Round' >= Round /\ Len(shown') >= Len(shown)
  OBVIOUS
<1>s. /\ sealed \in Seq([step : Rounds, at : Standings, move : CopMoves])
      /\ shown \in Seq(CopMoves)
  BY DEF IInv, TypeOK
<1>1. CASE UNCHANGED <<sealed, shown>>
  BY <1>1, <1>s DEF Round
<1>2. CASE CopCommits
  BY <1>2, <1>s DEF CopCommits, Round
<1>3. CASE CopReveals
  BY <1>3, <1>s DEF CopReveals, Round
<1> QED
  BY <1>1, <1>2, <1>3, WhatAnswers
  DEF Next, Cop, CopClaims, CopMovesOn, CopEnds, Retry, GiveUp, Thief, ThiefMoves, RoundArrived,
      RoundLost, GraceEnds, Gone, vars, herVars

\* What a step does to the threads and the copies under way.
Takes(w, copy) ==
  /\ job[w] = Idle /\ copy \in wire /\ wire' = wire \ {copy}
  /\ job' = [job EXCEPT ![w] = [at |-> copy[1].kind, call |-> copy[1], step |-> 0]]

\* A handler goes on to a statement of its own.
GoesOn(w, place) ==
  /\ job'[w].at = place /\ job'[w].call = job[w].call
  /\ \A v \in Workers \ {w} : job'[v] = job[v]

\* The four things a step can do to the threads and the copies under way: she
\* sends, the process goes, a copy is taken, a handler goes on or returns.
LEMMA WireSteps ==
  ASSUME IInv, [Next]_vars
  PROVE  \/ /\ job' = job
            /\ \A copy \in wire' : copy \in wire \/ (copy[1] = pending' /\ pending' # NoCall)
         \/ wire' = {} /\ job' = [w \in Workers |-> Idle]
         \/ \E w \in Workers, copy \in wire : Takes(w, copy)
         \/ /\ wire' = wire
            /\ \E w \in Workers :
                 /\ job[w] # Idle
                 /\ \/ job' = [job EXCEPT ![w] = Idle]
                    \/ \E place \in Places :
                         /\ GoesOn(w, place)
                         /\ \/ {job[w].at, place} \subseteq CommitPlaces
                            \/ {job[w].at, place} \subseteq RevealPlaces
                            \/ {job[w].at, place} \subseteq ClaimPlaces
                            \/ {job[w].at, place} \subseteq FinalPlaces
<1>1. CASE UNCHANGED <<job, wire>>
  BY <1>1
<1>2. CASE CopCommits \/ CopReveals \/ CopClaims \/ CopEnds
  <2>1. PICK c \in [kind : {"commit", "reveal", "final"}, round : Int]
              \cup {ClaimCall(Len(sealed), cell, d) :
                       cell \in Suspects, d \in {HerStanding.cell} \cup Cells} :
          Send(c)
    BY <1>2 DEF CopCommits, CopReveals, CopClaims, CopEnds, CommitCall, RevealCall, FinalCall,
       IInv, TypeOK
  <2>2. c # NoCall
    BY <2>1 DEF ClaimCall, NoCall
  <2> QED
    BY <1>2, <2>1, <2>2 DEF CopCommits, CopReveals, CopClaims, CopEnds, Send
<1>3. CASE Retry
  BY <1>3 DEF Retry
<1>4. ASSUME NEW w \in Workers, Deliver(w)
      PROVE  \E copy \in wire : Takes(w, copy)
  BY <1>4 DEF Deliver, Takes
<1>5. ASSUME NEW w \in Workers, Worker(w), ~Deliver(w)
      PROVE  /\ wire' = wire /\ job[w] # Idle
             /\ \/ job' = [job EXCEPT ![w] = Idle]
                \/ \E place \in Places :
                     /\ GoesOn(w, place)
                     /\ \/ {job[w].at, place} \subseteq CommitPlaces
                        \/ {job[w].at, place} \subseteq RevealPlaces
                        \/ {job[w].at, place} \subseteq ClaimPlaces
                        \/ {job[w].at, place} \subseteq FinalPlaces
  <2>j. job \in [Workers -> [at : Places, call : Calls, step : Nat]]
    BY DEF IInv, TypeOK
  <2>g. ASSUME NEW place, Goto(w, place) PROVE GoesOn(w, place)
    BY <2>j, <2>g DEF Goto, GoesOn
  <2>n. ASSUME NEW place, NEW step, job' = [job EXCEPT ![w].at = place, ![w].step = step]
        PROVE  GoesOn(w, place)
    BY <2>j, <2>n DEF GoesOn
  <2> USE <1>5 DEF Places, CommitPlaces, RevealPlaces, ClaimPlaces, FinalPlaces, Idle, herVars
  <2>1. CASE CheckCommit(w) \/ MarkCommit(w) \/ CheckReveal(w) \/ MarkReveal(w) \/ AuditTrace(w)
             \/ RespondToClaim(w)
    BY <2>1, <2>g
    DEF CheckCommit, MarkCommit, CheckReveal, MarkReveal, AuditTrace, RespondToClaim, Answer
  <2>2. CASE PostCommit(w) \/ AdvanceCommit(w) \/ PostReveal(w) \/ AdvanceReveal(w)
    BY <2>2, <2>g DEF PostCommit, AdvanceCommit, PostReveal, AdvanceReveal
  <2>3. CASE JudgeClaim(w) \/ KeepNonces(w)
    BY <2>3, <2>g DEF JudgeClaim, KeepNonces
  <2>4. CASE NumberCommit(w) \/ CountCommit(w) \/ NumberReveal(w) \/ CountReveal(w)
    <3>1. CASE NumberCommit(w)
      <4>1. GoesOn(w, "count_commit")
        BY <2>n, <3>1 DEF NumberCommit
      <4>2. job[w].at = "number_commit" /\ wire' = wire
        BY <3>1 DEF NumberCommit
      <4> QED
        BY <4>1, <4>2
    <3>2. CASE CountCommit(w)
      <4>1. GoesOn(w, "advance_commit")
        BY <2>n, <3>2 DEF CountCommit
      <4>2. job[w].at = "count_commit" /\ wire' = wire
        BY <3>2 DEF CountCommit
      <4> QED
        BY <4>1, <4>2
    <3>3. CASE NumberReveal(w)
      <4>1. GoesOn(w, "count_reveal")
        BY <2>n, <3>3 DEF NumberReveal
      <4>2. job[w].at = "number_reveal" /\ wire' = wire
        BY <3>3 DEF NumberReveal
      <4> QED
        BY <4>1, <4>2
    <3>4. CASE CountReveal(w)
      <4>1. GoesOn(w, "advance_reveal")
        BY <2>n, <3>4 DEF CountReveal
      <4>2. job[w].at = "count_reveal" /\ wire' = wire
        BY <3>4 DEF CountReveal
      <4> QED
        BY <4>1, <4>2
    <3> QED
      BY <2>4, <3>1, <3>2, <3>3, <3>4
  <2> QED
    BY <2>1, <2>2, <2>3, <2>4 DEF Worker
<1> QED
  BY <1>1, <1>2, <1>3, <1>4, <1>5
  DEF Next, Cop, CopMovesOn, GiveUp, Thief, ThiefMoves, RoundArrived, RoundLost, GraceEnds,
      Gone, vars, herVars

\* Every call is still one she made.
LEMMA CallStep == IInv /\ [Next]_vars => CallInv'
<1> SUFFICES ASSUME IInv, [Next]_vars PROVE CallInv'
  OBVIOUS
<1>m. ASSUME NEW c, Made(c) PROVE Made(c)'
  BY <1>m, Grows DEF Made, IInv, TypeOK, Round
<1>p. PendingMade'
  BY TypeStep, HerStep, WhatPends, PTL
<1>n. NoCall.kind = "none" /\ Made(NoCall) /\ Idle.call = NoCall
  BY DEF NoCall, Made, Idle
<1>c. /\ \A copy \in wire : copy[1].kind # "none" /\ Made(copy[1])'
      /\ \A w \in Workers : InPlace(job[w]) /\ \E c : c = job[w].call /\ Made(c)'
  BY <1>m DEF IInv, CallInv
<1>j. job \in [Workers -> [at : Places, call : Calls, step : Nat]] /\ wire \subseteq Calls \X Nat
  BY DEF IInv, TypeOK
<1>1. CASE /\ job' = job
           /\ \A copy \in wire' : copy \in wire \/ (copy[1] = pending' /\ pending' # NoCall)
  BY <1>1, <1>c, <1>p DEF CallInv, PendingMade, InPlace
<1>2. CASE wire' = {} /\ job' = [w \in Workers |-> Idle]
  BY <1>2, <1>n, <1>m DEF CallInv, InPlace
<1>3. ASSUME NEW w \in Workers, NEW copy \in wire, Takes(w, copy) PROVE CallInv'
  <2>1. copy[1].kind \in {"commit", "reveal", "claim", "final"} /\ Made(copy[1])'
    BY <1>c, <1>j, CallTypes
  <2>2. InPlace([at |-> copy[1].kind, call |-> copy[1], step |-> 0])
    BY <2>1 DEF InPlace, CommitPlaces, RevealPlaces, ClaimPlaces, FinalPlaces
  <2> QED
    BY <1>3, <1>c, <1>j, <2>1, <2>2 DEF CallInv, Takes, InPlace
<1>4. ASSUME wire' = wire, NEW w \in Workers, job[w] # Idle, job' = [job EXCEPT ![w] = Idle]
      PROVE  CallInv'
  BY <1>4, <1>c, <1>j, <1>n, <1>m DEF CallInv, InPlace
<1>5. ASSUME wire' = wire, NEW w \in Workers, job[w] # Idle, NEW place \in Places,
             GoesOn(w, place),
             \/ {job[w].at, place} \subseteq CommitPlaces
             \/ {job[w].at, place} \subseteq RevealPlaces
             \/ {job[w].at, place} \subseteq ClaimPlaces
             \/ {job[w].at, place} \subseteq FinalPlaces
      PROVE  CallInv'
  <2>1. /\ job'[w].at = place /\ job'[w].call = job[w].call
        /\ \A v \in Workers \ {w} : job'[v] = job[v]
    BY <1>5 DEF GoesOn
  <2>2. InPlace(job[w])' /\ Made(job[w].call)'
    BY <1>5, <1>c, <2>1, AtCalls DEF InPlace
  <2> QED
    BY <1>5, <1>c, <2>1, <2>2 DEF CallInv, InPlace
<1> QED
  BY <1>1, <1>2, <1>3, <1>4, <1>5, WireSteps

-----------------------------------------------------------------------------
(* The trace.                                                              *)

\* What recording does to the counts and the numbered entries.
LEMMA Recorded ==
  ASSUME NEW t, NEW e, NEW k
  PROVE  /\ RecordCommit(t, k, e).nextCommit = t.nextCommit + 1
         /\ RecordCommit(t, k, e).nextReveal = t.nextReveal
         /\ DOMAIN RecordCommit(t, k, e).entries = DOMAIN t.entries \cup {k}
         /\ RecordReveal(t, k, e).nextReveal = t.nextReveal + 1
         /\ RecordReveal(t, k, e).nextCommit = t.nextCommit
         /\ DOMAIN RecordReveal(t, k, e).entries = DOMAIN t.entries \cup {k}
         /\ RecordFinalReveal(t, e).nextCommit = t.nextCommit
         /\ RecordFinalReveal(t, e).nextReveal = t.nextReveal
         /\ DOMAIN RecordFinalReveal(t, e).entries = DOMAIN t.entries \cup e
         /\ RecordClaim(t, e).nextCommit = t.nextCommit
         /\ RecordClaim(t, e).nextReveal = t.nextReveal
         /\ RecordClaim(t, e).entries = t.entries
BY DEF RecordCommit, RecordReveal, RecordFinalReveal, RecordClaim, Trace, WithEntry

\* Only one thread's own statements change the trace.
LEMMA WorkerRecords ==
  ASSUME NEW w \in Workers, Worker(w)
  PROVE  \/ trace' = trace
         \/ CountCommit(w) /\ trace' = RecordCommit(trace, job[w].step, sealed[job[w].call.round])
         \/ CountReveal(w) /\ trace' = RecordReveal(trace, job[w].step, shown[job[w].call.round])
         \/ KeepNonces(w) /\ trace' = RecordFinalReveal(trace, 1 .. job[w].call.round)
         \/ JudgeClaim(w) /\ trace' = RecordClaim(trace, Claimed(w))
BY DEF Worker, Deliver, CheckCommit, PostCommit, NumberCommit, CountCommit, AdvanceCommit,
       MarkCommit, CheckReveal, PostReveal, NumberReveal, CountReveal, AdvanceReveal, MarkReveal,
       JudgeClaim, RespondToClaim, KeepNonces, AuditTrace, adapterVars

\* Every step keeps the trace counting.
LEMMA TraceStep == IInv /\ [Next]_vars => TraceInv'
<1> SUFFICES ASSUME IInv, [Next]_vars PROVE TraceInv'
  OBVIOUS
<1>i. TraceInv
  BY DEF IInv
<1>1. CASE trace' = trace
  BY <1>1, <1>i DEF TraceInv
<1>f. ASSUME NEW S \in SUBSET Nat, IsFiniteSet(S),
             DOMAIN trace'.entries = DOMAIN trace.entries \cup S,
             trace'.nextCommit \in {trace.nextCommit, trace.nextCommit + 1},
             trace'.nextReveal \in {trace.nextReveal, trace.nextReveal + 1}
      PROVE  TraceInv'
  <2>1. IsFiniteSet(DOMAIN trace.entries \cup S)
    BY <1>i, <1>f, FS_Union DEF TraceInv
  <2>2. /\ trace.nextCommit \in Nat /\ trace.nextReveal \in Nat
        /\ DOMAIN trace.entries \subseteq Nat
    BY <1>i DEF TraceInv
  <2>3. trace'.nextCommit \in Nat /\ trace'.nextReveal \in Nat
    BY ONLY <1>f, <2>2
  <2>4. IsFiniteSet(DOMAIN trace'.entries) /\ DOMAIN trace'.entries \subseteq Nat
    <3>1. DOMAIN trace'.entries = DOMAIN trace.entries \cup S
      BY <1>f
    <3> QED
      BY ONLY <2>1, <2>2, <3>1, S \subseteq Nat
  <2> QED
    BY ONLY <2>3, <2>4 DEF TraceInv
<1>2. ASSUME NEW w \in Workers, Worker(w) PROVE TraceInv'
  <2>k. job[w].step \in Nat /\ job[w].call.round \in Nat
    <3>1. job[w] \in [at : Places, call : Calls, step : Nat]
      BY DEF IInv, TypeOK
    <3>2. job[w].call.round \in 0 .. MaxRounds /\ MaxRounds \in Nat
      BY <3>1, CallTypes, CopAdapterAssumption DEF CopAdapterAssumption
    <3> QED
      BY <3>1, <3>2
  <2>s. IsFiniteSet({job[w].step}) /\ {job[w].step} \subseteq Nat
    BY <2>k, FS_Singleton
  <2>1. CASE trace' = RecordCommit(trace, job[w].step, sealed[job[w].call.round])
    BY <1>f, <2>1, <2>s, Recorded
  <2>2. CASE trace' = RecordReveal(trace, job[w].step, shown[job[w].call.round])
    BY <1>f, <2>2, <2>s, Recorded
  <2>3. CASE trace' = RecordFinalReveal(trace, 1 .. job[w].call.round)
    <3>0. \A k \in Int : IsFiniteSet(1 .. k)
      BY ONLY FS_Interval, 1 \in Int
    <3>1. IsFiniteSet(1 .. job[w].call.round) /\ 1 .. job[w].call.round \subseteq Nat
      BY <2>k, <3>0
    <3> QED
      BY <1>f, <2>3, <3>1, Recorded
  <2>4. CASE trace' = RecordClaim(trace, Claimed(w))
    BY <1>i, <2>4, Recorded DEF TraceInv
  <2> QED
    BY <1>1, <1>2, <2>1, <2>2, <2>3, <2>4, WorkerRecords
<1>3. CASE GraceEnds
  <2>1. trace' = EmptyTrace
    BY <1>3 DEF GraceEnds
  <2> QED
    BY <2>1, FS_EmptySet DEF TraceInv, EmptyTrace
<1> QED
  BY <1>1, <1>2, <1>3
  DEF Next, Cop, CopCommits, CopReveals, CopClaims, CopMovesOn, CopEnds, Retry, GiveUp, Thief,
      ThiefMoves, RoundArrived, RoundLost, Gone, vars, adapterVars

\* The invariant holds at the start.
LEMMA InitIInv == Init => IInv
<1> SUFFICES ASSUME Init PROVE IInv
  OBVIOUS
<1>1. TypeOK
  BY InitTypes
<1>2. HerInv
  BY CopAdapterAssumption DEF Init, HerInv, Round, CopAdapterAssumption
<1>3. CallInv
  BY DEF Init, CallInv, InPlace, Idle, NoCall, Made
<1>4. TraceInv
  BY FS_EmptySet DEF Init, TraceInv, EmptyTrace
<1> QED
  BY <1>1, <1>2, <1>3, <1>4 DEF IInv

\* The invariant holds for good.
LEMMA InductiveIInv == Spec => []IInv
<1>1. IInv /\ [Next]_vars => IInv'
  BY TypeStep, HerStep, CallStep, TraceStep DEF IInv
<1> QED
  BY <1>1, InitIInv, PTL DEF Spec

\* For every board, every choice of moves and claims, every number of threads,
\* rounds and retries, each variable of the adapter keeps its type.
THEOREM TypeCorrectness == Spec => []TypeOK
<1>1. IInv => TypeOK
  BY DEF IInv
<1> QED
  BY <1>1, InductiveIInv, PTL

-----------------------------------------------------------------------------
(* The end of the process, and a capture that was confirmed.               *)

\* Nothing comes back to a process that is gone.
LEMMA GoneStep == TypeOK /\ GoneInv /\ [Next]_vars => GoneInv'
<1> SUFFICES ASSUME TypeOK, GoneInv, [Next]_vars PROVE GoneInv'
  OBVIOUS
<1>1. CASE UNCHANGED vars
  BY <1>1 DEF GoneInv, Serving, vars, adapterVars
<1>2. CASE Serving /\ thief' = thief
  BY <1>2 DEF GoneInv, Serving
<1>3. CASE ThiefMoves \/ RoundArrived \/ RoundLost
  <2>1. Serving /\ thief'.at # "gone"
    BY <1>3 DEF TypeOK, ThiefMoves, RoundArrived, RoundLost, RoundEnds, Serving
  <2> QED
    BY <2>1 DEF GoneInv, Serving
<1>4. CASE GraceEnds
  BY <1>4 DEF GraceEnds, GoneInv
<1> QED
  BY <1>1, <1>2, <1>3, <1>4
  DEF Next, Cop, CopCommits, CopReveals, CopClaims, CopMovesOn, CopEnds, Retry, GiveUp, Thief,
      Gone, Worker, Deliver, CheckCommit, PostCommit, NumberCommit, CountCommit, AdvanceCommit,
      MarkCommit, CheckReveal, PostReveal, NumberReveal, CountReveal, AdvanceReveal, MarkReveal,
      JudgeClaim, RespondToClaim, KeepNonces, AuditTrace

\* A confirmed capture stays flagged until the process goes.
LEMMA ToldStep == IInv /\ ToldInv /\ [Next]_vars => ToldInv'
<1> SUFFICES ASSUME IInv, ToldInv, [Next]_vars PROVE ToldInv'
  OBVIOUS
<1>j. job \in [Workers -> [at : Places, call : Calls, step : Nat]]
  BY DEF IInv, TypeOK
<1>1. CASE UNCHANGED <<told, job, landing, thief>>
  BY <1>1 DEF ToldInv, Serving
<1>2. CASE ThiefMoves \/ RoundArrived \/ RoundLost
  <2>1. Serving /\ UNCHANGED <<told, job, landing>>
    BY <1>2 DEF ThiefMoves, RoundArrived, RoundLost, Serving
  <2> QED
    BY <2>1 DEF ToldInv
<1>3. CASE GraceEnds
  BY <1>3 DEF GraceEnds, ToldInv, Serving, IInv, TypeOK
<1>4. ASSUME NEW w \in Workers, JudgeClaim(w) PROVE ToldInv'
  <2>1. Serving /\ UNCHANGED <<told, thief>>
    BY <1>4 DEF JudgeClaim
  <2>2. landing' = landing \/ (landing' # NotLanded /\ landing = NotLanded)
    <3>1. job[w].call.kind = "claim" /\ job[w].call.round > 0
      BY <1>4, <1>j, AtCalls, CallTypes DEF JudgeClaim, ClaimPlaces, Idle, Rounds
    <3> QED
      BY <1>4, <3>1 DEF JudgeClaim, NotLanded
  <2>3. job'[w].at = "confirm" => landing' # NotLanded
    <3>1. job'[w].at = "confirm" => thief.cell = job[w].call.cell
      BY <1>4, <1>j DEF JudgeClaim, Goto
    <3>2. job[w].call.kind = "claim" /\ job[w].call.round > 0
      BY <1>4, <1>j, AtCalls, CallTypes DEF JudgeClaim, ClaimPlaces, Idle, Rounds
    <3> QED
      BY <1>4, <3>1, <3>2 DEF JudgeClaim, NotLanded
  <2>4. \A v \in Workers \ {w} : job'[v] = job[v]
    BY <1>4, <1>j DEF JudgeClaim, Goto
  <2> QED
    BY <2>1, <2>2, <2>3, <2>4 DEF ToldInv, Serving
<1>5. ASSUME NEW w \in Workers, Worker(w), ~JudgeClaim(w) PROVE ToldInv'
  <2>1. Serving /\ UNCHANGED <<landing, thief>>
    BY <1>5
    DEF Worker, Deliver, CheckCommit, PostCommit, NumberCommit, CountCommit, AdvanceCommit,
        MarkCommit, CheckReveal, PostReveal, NumberReveal, CountReveal, AdvanceReveal, MarkReveal,
        RespondToClaim, KeepNonces, AuditTrace
  <2>2. told' => told \/ (\E v \in Workers : job[v].at = "confirm")
    BY <1>5
    DEF Worker, Deliver, CheckCommit, PostCommit, NumberCommit, CountCommit, AdvanceCommit,
        MarkCommit, CheckReveal, PostReveal, NumberReveal, CountReveal, AdvanceReveal, MarkReveal,
        RespondToClaim, KeepNonces, AuditTrace, herVars
  <2>3. \A v \in Workers : job'[v].at = "confirm" => job[v].at = "confirm"
    <3>1. \A copy \in wire : copy[1].kind # "confirm"
      BY CallTypes DEF IInv, TypeOK
    <3> QED
      BY <1>5, <1>j, <3>1
      DEF Worker, Deliver, CheckCommit, PostCommit, NumberCommit, CountCommit, AdvanceCommit,
          MarkCommit, CheckReveal, PostReveal, NumberReveal, CountReveal, AdvanceReveal,
          MarkReveal, RespondToClaim, KeepNonces, AuditTrace, herVars, Goto, Answer, Idle
  <2> QED
    BY <2>1, <2>2, <2>3 DEF ToldInv, Serving
<1> QED
  BY <1>1, <1>2, <1>3, <1>4, <1>5
  DEF Next, Cop, CopCommits, CopReveals, CopClaims, CopMovesOn, CopEnds, Retry, GiveUp, Thief,
      Gone, vars, herVars, adapterVars

\* A cop who has the confirmation of a capture meets no further round of the
\* thief, however her calls are repeated, delayed or handled at once.
THEOREM ToldMeansOver == Spec => CaughtThiefStops
<1>1. Init => ToldInv
  BY DEF Init, ToldInv, Idle
<1>2. TypeOK /\ ToldInv /\ [Next]_vars => (told => thief'.round = thief.round) \/ UNCHANGED vars
  <2> SUFFICES ASSUME TypeOK, ToldInv, Next, told PROVE thief'.round = thief.round
    BY DEF vars
  <2>1. CASE RoundArrived
    BY <2>1 DEF TypeOK, RoundArrived, RoundEnds, Woken, ToldInv, Serving
  <2>2. CASE thief' = thief
    BY <2>2
  <2>3. CASE ThiefMoves \/ RoundLost \/ GraceEnds
    BY <2>3 DEF TypeOK, ThiefMoves, RoundLost, GraceEnds
  <2> QED
    BY <2>1, <2>2, <2>3
    DEF Next, Cop, CopCommits, CopReveals, CopClaims, CopMovesOn, CopEnds, Retry, GiveUp, Thief,
        Gone, Worker, Deliver, CheckCommit, PostCommit, NumberCommit, CountCommit, AdvanceCommit,
        MarkCommit, CheckReveal, PostReveal, NumberReveal, CountReveal, AdvanceReveal, MarkReveal,
        JudgeClaim, RespondToClaim, KeepNonces, AuditTrace, vars
<1> QED
  BY <1>1, <1>2, ToldStep, TypeCorrectness, InductiveIInv, PTL DEF Spec, CaughtThiefStops

-----------------------------------------------------------------------------
(* The count of her rounds.                                                *)

TidyInv == IInv /\ TallyInv /\ NumberInv

\* Order once lost is not regained.
LEMMA TidyStays == TypeOK /\ [Next]_vars /\ Tidy' => Tidy
<1> SUFFICES ASSUME TypeOK, [Next]_vars, ~Tidy PROVE ~Tidy'
  OBVIOUS
<1> USE DEF Tidy, Serving
<1>1. CASE UNCHANGED <<tidy, thief>>
  BY <1>1
<1>2. CASE Thief
  BY <1>2 DEF Thief, ThiefMoves, RoundArrived, RoundLost, RoundEnds, GraceEnds, TypeOK
<1>3. ASSUME NEW w \in Workers, Deliver(w) PROVE ~Tidy'
  BY <1>3 DEF Deliver, TypeOK
<1> QED
  BY <1>1, <1>2, <1>3
  DEF Next, Cop, CopCommits, CopReveals, CopClaims, CopMovesOn, CopEnds, Retry, GiveUp, Gone,
      vars, herVars, Worker, CheckCommit, PostCommit, NumberCommit, CountCommit, AdvanceCommit,
      MarkCommit, CheckReveal, PostReveal, NumberReveal, CountReveal, AdvanceReveal, MarkReveal,
      JudgeClaim, RespondToClaim, KeepNonces, AuditTrace

\* The phase she waits in, by the call she waits on.
LEMMA PendingPhase ==
  ASSUME IInv
  PROVE  /\ pending.kind = "commit" =>
               cop.phase = "commit" /\ pending.round = Round /\ Len(shown) = Round - 1 /\ Round > 0
         /\ pending.kind = "reveal" =>
               cop.phase = "reveal" /\ pending.round = Round /\ Len(shown) = Round /\ Round > 0
         /\ pending.kind = "claim" =>
               cop.phase = "claim" /\ pending.round = Round /\ Len(shown) = Round /\ Round > 0
         /\ pending.kind = "final" => cop.phase = "final" /\ pending.round = Round
<1>1. cop.phase \in Phases
  BY DEF IInv, TypeOK, Phases
<1> QED
  BY <1>1 DEF IInv, HerInv, Phases, NoCall, CommitCall, RevealCall, FinalCall

\* Her own steps keep the numbers in step: she sends only at rest.
LEMMA HerTally ==
  ASSUME IInv, TallyInv, Tidy, Cop
  PROVE  Alone' /\ IdleInv' /\ WorkInv'
<1>a. Alone /\ IdleInv /\ WorkInv
  BY DEF TallyInv
<1>b. job' = job /\ adapter' = adapter /\ trace' = trace
  BY DEF Cop, CopCommits, CopReveals, CopClaims, CopMovesOn, CopEnds, Retry, GiveUp, adapterVars
<1>c. cop \in [phase : Phases, whole : BOOLEAN] /\ Round \in Nat
      /\ sealed \in Seq([step : Rounds, at : Standings, move : CopMoves])
      /\ adapter \in [commitStep : Nat, revealStep : Nat, lastCommit : 0 .. MaxRounds,
                       revealDone : BOOLEAN]
  BY DEF IInv, TypeOK, Phases, Round
<1>1. Alone'
  BY <1>a, <1>b DEF Alone
<1>2. ASSUME pending = NoCall, cop.phase \notin {"final", "done"}
      PROVE  AtRest /\ \A w \in Workers : job[w] = Idle
  BY <1>2, <1>a, AtCalls DEF WorkInv, AtWork, IdleInv
<1>3. CASE CopCommits
  <2>1. pending = NoCall /\ cop.phase = "commit" /\ cop' = cop /\ pending' # NoCall
    BY <1>3 DEF CopCommits, Send, CommitCall, NoCall
  <2>2. Counted(Round, Round) /\ adapter.lastCommit <= Round
    BY <1>2, <2>1 DEF AtRest
  <2>3. Round' = Round + 1
    BY <1>3, <1>c DEF CopCommits, Round
  <2>4. AtRest'
    BY <1>b, <1>c, <2>1, <2>2, <2>3 DEF AtRest, Before, Counted, Numbered, Recording
  <2> QED
    BY <1>1, <1>2, <1>b, <2>1, <2>4 DEF IdleInv, WorkInv
<1>4. CASE CopReveals
  <2>1. pending = NoCall /\ cop.phase = "reveal" /\ cop' = cop /\ sealed' = sealed
    BY <1>4 DEF CopReveals, Send
  <2>2. Between(Round)
    BY <1>2, <2>1 DEF AtRest
  <2>3. AtRest'
    BY <1>b, <2>1, <2>2 DEF AtRest, Between, Counted, Numbered, Recording, Round
  <2> QED
    BY <1>1, <1>2, <1>b, <2>1, <2>3 DEF IdleInv, WorkInv
<1>5. CASE CopClaims
  <2>1. pending = NoCall /\ cop.phase = "claim" /\ cop' = cop /\ sealed' = sealed
    BY <1>5 DEF CopClaims, Send
  <2>2. AtRest'
    BY <1>2, <1>b, <2>1 DEF AtRest, After, Counted, Numbered, Recording, Round
  <2> QED
    BY <1>1, <1>2, <1>b, <2>1, <2>2 DEF IdleInv, WorkInv
<1>6. CASE CopMovesOn
  <2>1. /\ pending = NoCall /\ cop.phase \in {"claim", "claimed"}
        /\ sealed' = sealed /\ pending' = pending
        /\ cop'.phase \in {"commit", "final"}
    BY <1>6, <1>c DEF CopMovesOn
  <2>2. AtRest'
    BY <1>2, <1>b, <1>c, <2>1 DEF AtRest, After, Counted, Numbered, Recording, Round
  <2> QED
    BY <1>1, <1>2, <1>b, <2>1, <2>2 DEF IdleInv, WorkInv
<1>7. CASE CopEnds \/ GiveUp
  <2>1. cop'.phase \in {"final", "done"} /\ sealed' = sealed /\ shown' = shown
    BY <1>7 DEF CopEnds, GiveUp
  <2>2. AtRest'
    BY <2>1 DEF AtRest
  <2>3. WorkInv'
    BY <1>a, <1>b, <2>1 DEF WorkInv, AtWork, Before, Between, After, Counted, Numbered, Recording,
                            Round
  <2> QED
    BY <1>1, <2>2, <2>3 DEF IdleInv
<1>8. CASE Retry
  <2>1. UNCHANGED <<cop, pending, sealed, shown>>
    BY <1>8 DEF Retry
  <2> QED
    BY <1>1, <1>a, <1>b, <2>1
    DEF IdleInv, AtRest, WorkInv, AtWork, Before, Between, After, Counted, Numbered, Recording,
        Round
<1> QED
  BY <1>3, <1>4, <1>5, <1>6, <1>7, <1>8 DEF Cop

\* It is enough to look at the thread that stepped.
LEMMA OneWorks ==
  ASSUME TypeOK, NEW w \in Workers, \A v \in Workers \ {w} : job'[v] = Idle,
         IF job'[w] = Idle THEN AtRest' ELSE AtWork(w)'
  PROVE  Alone' /\ IdleInv' /\ WorkInv'
BY DEF Alone, IdleInv, WorkInv

\* Each handler, one statement at a time, keeps the numbers in step.
LEMMA WorkerTally ==
  ASSUME IInv, TallyInv, Tidy, Tidy', NEW w \in Workers, Worker(w)
  PROVE  Alone' /\ IdleInv' /\ WorkInv'
<1>a. Alone /\ IdleInv /\ WorkInv
  BY DEF TallyInv
<1>j. job \in [Workers -> [at : Places, call : Calls, step : Nat]]
  BY DEF IInv, TypeOK
<1>c. cop \in [phase : Phases, whole : BOOLEAN] /\ Round \in Nat
      /\ adapter \in [commitStep : Nat, revealStep : Nat, lastCommit : 0 .. MaxRounds,
                       revealDone : BOOLEAN]
  BY DEF IInv, TypeOK, Phases, Round
<1>s. Round' = Round /\ shown' = shown
  BY WhatAnswers DEF Round
<1> DEFINE Others == \A v \in Workers \ {w} : job'[v] = Idle
<1>1. CASE Deliver(w)
  <2>1. PICK copy \in wire :
          /\ job' = [job EXCEPT ![w] = [at |-> copy[1].kind, call |-> copy[1], step |-> 0]]
          /\ tidy' = (tidy /\ copy[1] = pending /\ \A v \in Workers : job[v] = Idle)
    BY <1>1 DEF Deliver
  <2>2. copy[1] = pending /\ \A v \in Workers : job[v] = Idle
    BY <2>1 DEF Tidy
  <2>3. UNCHANGED <<cop, pending, adapter, trace>>
    BY <1>1 DEF Deliver, herVars, adapterVars
  <2>4. job'[w].at = pending.kind /\ job'[w].call = pending /\ Others
    BY <1>j, <2>1, <2>2
  <2>5. pending.kind \in {"commit", "reveal", "claim", "final"}
    BY <2>2, CallTypes DEF IInv, TypeOK, CallInv
  <2>6. AtRest
    BY <1>a, <2>2 DEF IdleInv
  <2>7. AtWork(w)'
    BY <1>c, <1>s, <2>3, <2>4, <2>5, <2>6, PendingPhase
    DEF AtRest, AtWork, Before, Between, After, Counted, Numbered, Recording, NoCall
  <2> QED
    BY <2>4, <2>5, <2>7, OneWorks DEF Idle, IInv
<1>2. CASE ~Deliver(w)
  <2>1. job[w] # Idle
    BY <1>2 DEF Worker, CheckCommit, PostCommit, NumberCommit, CountCommit, AdvanceCommit,
                MarkCommit, CheckReveal, PostReveal, NumberReveal, CountReveal, AdvanceReveal,
                MarkReveal, JudgeClaim, RespondToClaim, KeepNonces, AuditTrace, Idle
  <2>2. Others
    <3>1. \A v \in Workers \ {w} : job[v] = Idle
      BY <1>a, <2>1 DEF Alone
    <3> QED
      BY <1>2, <1>j, <3>1
      DEF Worker, CheckCommit, PostCommit, NumberCommit, CountCommit, AdvanceCommit, MarkCommit,
          CheckReveal, PostReveal, NumberReveal, CountReveal, AdvanceReveal, MarkReveal,
          JudgeClaim, RespondToClaim, KeepNonces, AuditTrace, Goto, Answer
  <2>3. AtWork(w)
    BY <1>a, <2>1 DEF WorkInv
  <2>4. job[w].call.round = Round /\ (job[w].call = pending \/ cop.phase \in {"final", "done"})
    BY <2>3 DEF AtWork
  <2>g. ASSUME NEW place \in Places, place # "idle", Goto(w, place)
        PROVE  job'[w].at = place /\ job'[w].call = job[w].call /\ job'[w] # Idle
    BY <1>j, <2>g DEF Goto, Idle
  <2>k. /\ job[w].call.kind = "commit" <=> job[w].at \in CommitPlaces
        /\ job[w].call.kind = "reveal" <=> job[w].at \in RevealPlaces
        /\ job[w].call.kind = "claim" <=> job[w].at \in ClaimPlaces
        /\ job[w].call.kind = "final" <=> job[w].at \in FinalPlaces
    BY <2>1, AtCalls
  <2>u. ASSUME Answer(w) \/ (job' = [job EXCEPT ![w] = Idle] /\ UNCHANGED <<cop, pending>>)
        PROVE  /\ job'[w] = Idle
               /\ \/ /\ job[w].call = pending /\ pending' = NoCall
                     /\ cop'.phase = PhaseAfter(pending.kind)
                  \/ UNCHANGED <<cop, pending>>
    BY <1>j, <1>c, <2>u DEF Answer
  <2>5. CASE CheckCommit(w) /\ ~Echo(Round)
    <3>1. /\ job[w].at = "commit" /\ Goto(w, "post_commit")
          /\ UNCHANGED <<cop, pending, adapter, trace>>
      BY <2>5, <2>4 DEF CheckCommit, adapterVars
    <3>2. Before(Round)
      BY <2>3, <2>5, <3>1 DEF AtWork, Between, Echo
    <3>3. AtWork(w)'
      BY <1>s, <2>3, <2>4, <2>k, <2>g, <3>1, <3>2
      DEF AtWork, Before, Counted, Numbered, Recording, Places, CommitPlaces
    <3> QED
      BY <2>2, <2>g, <3>1, <3>3, OneWorks DEF Places, IInv
  <2>6. CASE CheckCommit(w) /\ Echo(Round)
    <3>1. job[w].at = "commit" /\ Answer(w) /\ adapter' = adapter /\ trace' = trace
      BY <2>6, <2>4 DEF CheckCommit, adapterVars
    <3>2. Between(Round)
      BY <2>3, <2>6, <3>1, <1>c DEF AtWork, Before, Echo
    <3>3. job[w].call.kind = "commit"
      BY <2>k, <3>1 DEF CommitPlaces
    <3>4. AtRest'
      BY <1>s, <2>4, <2>u, <3>1, <3>2, <3>3, AtCalls, <2>1, PendingPhase, NextPhase
      DEF AtRest, Between, Counted, Numbered, Recording
    <3> QED
      BY <2>2, <2>u, <3>1, <3>4, OneWorks DEF IInv
  <2>7. CASE PostCommit(w)
    <3>1. /\ job[w].at = "post_commit" /\ Goto(w, "number_commit")
          /\ UNCHANGED <<cop, pending, adapter, trace>>
      BY <2>7 DEF PostCommit, herVars
    <3>3. AtWork(w)'
      BY <1>s, <2>3, <2>4, <2>k, <2>g, <3>1 DEF AtWork, Before, Counted, Numbered, Recording,
        Places, CommitPlaces
    <3> QED
      BY <2>2, <2>g, <3>1, <3>3, OneWorks DEF Places, IInv
  <2>8a. CASE NumberCommit(w)
    <3>1. /\ job[w].at = "number_commit"
          /\ job' = [job EXCEPT ![w].at = "count_commit", ![w].step = trace.nextCommit]
          /\ UNCHANGED <<cop, pending, adapter, trace>>
      BY <2>8a DEF NumberCommit, herVars, adapterVars
    <3>2. Before(Round)
      BY <2>3, <3>1 DEF AtWork
    <3>4. /\ job'[w].at = "count_commit" /\ job'[w].call = job[w].call
          /\ job'[w].step = trace.nextCommit
      BY <1>j, <3>1
    <3>5. trace.nextCommit = Round
      BY <1>c, <3>2 DEF Before, Counted, Recording
    <3>3. AtWork(w)'
      BY <1>s, <2>3, <2>4, <2>k, <3>1, <3>2, <3>4, <3>5
      DEF AtWork, Before, Counted, Numbered, Recording, CommitPlaces
    <3> QED
      BY <2>2, <3>4, <3>3, OneWorks DEF Idle, IInv
  <2>8b. CASE CountCommit(w)
    <3>1. /\ job[w].at = "count_commit"
          /\ job' = [job EXCEPT ![w].at = "advance_commit", ![w].step = 0]
          /\ UNCHANGED <<cop, pending, adapter>>
          /\ trace'.nextCommit = trace.nextCommit + 1
          /\ trace'.nextReveal = trace.nextReveal
      BY <2>8b, Recorded DEF CountCommit, herVars
    <3>2. Before(Round)
      BY <2>3, <3>1 DEF AtWork
    <3>4. job'[w].at = "advance_commit" /\ job'[w].call = job[w].call
      BY <1>j, <3>1
    <3>3. AtWork(w)'
      BY <1>s, <1>c, <2>3, <2>4, <2>k, <3>1, <3>2, <3>4
      DEF AtWork, Before, Counted, Numbered, Recording, CommitPlaces
    <3> QED
      BY <2>2, <3>4, <3>3, OneWorks DEF Idle, IInv
  <2>8c. CASE AdvanceCommit(w)
    <3>1. job[w].at = "advance_commit" /\ Goto(w, "mark_commit") /\ UNCHANGED <<cop, pending, trace>>
          /\ adapter' = [adapter EXCEPT !.commitStep = adapter.commitStep + 1]
      BY <2>8c DEF AdvanceCommit, herVars
    <3>3. AtWork(w)'
      BY <1>s, <1>c, <2>3, <2>4, <2>k, <2>g, <3>1
      DEF AtWork, Counted, Numbered, Recording, Places, CommitPlaces
    <3> QED
      BY <2>2, <2>g, <3>1, <3>3, OneWorks DEF Places, IInv
  <2>9. CASE MarkCommit(w)
    <3>1. job[w].at = "mark_commit" /\ Answer(w)
          /\ adapter' = [adapter EXCEPT !.lastCommit = Round, !.revealDone = FALSE]
          /\ trace' = trace
      BY <2>9, <2>4 DEF MarkCommit
    <3>2. Between(Round)'
      BY <1>s, <1>c, <2>3, <3>1 DEF AtWork, Between, Counted, Numbered, Recording
    <3>3. job[w].call.kind = "commit"
      BY <2>k, <3>1 DEF CommitPlaces
    <3>4. AtRest'
      BY <1>s, <2>4, <2>u, <3>1, <3>2, <3>3, AtCalls, <2>1, PendingPhase, NextPhase DEF AtRest
    <3> QED
      BY <2>2, <2>u, <3>1, <3>4, OneWorks DEF IInv
  <2>10. CASE CheckReveal(w) /\ ~adapter.revealDone
    <3>1. /\ job[w].at = "reveal" /\ Goto(w, "post_reveal")
          /\ UNCHANGED <<cop, pending, adapter, trace>>
      BY <2>10 DEF CheckReveal, adapterVars
    <3>2. Between(Round)
      BY <2>3, <2>10, <3>1 DEF AtWork, After
    <3>3. AtWork(w)'
      BY <1>s, <2>3, <2>4, <2>k, <2>g, <3>1, <3>2
      DEF AtWork, Between, Counted, Numbered, Recording, Places, RevealPlaces
    <3> QED
      BY <2>2, <2>g, <3>1, <3>3, OneWorks DEF Places, IInv
  <2>11. CASE CheckReveal(w) /\ adapter.revealDone
    <3>1. job[w].at = "reveal" /\ Answer(w) /\ adapter' = adapter /\ trace' = trace
      BY <2>11 DEF CheckReveal, adapterVars
    <3>2. After(Round)
      BY <2>3, <2>11, <3>1 DEF AtWork, Between
    <3>3. job[w].call.kind = "reveal"
      BY <2>k, <3>1 DEF RevealPlaces
    <3>4. AtRest'
      BY <1>s, <2>4, <2>u, <3>1, <3>2, <3>3, AtCalls, <2>1, PendingPhase, NextPhase
      DEF AtRest, After, Counted, Numbered, Recording
    <3> QED
      BY <2>2, <2>u, <3>1, <3>4, OneWorks DEF IInv
  <2>12. CASE PostReveal(w)
    <3>1. /\ job[w].at = "post_reveal" /\ Goto(w, "number_reveal")
          /\ UNCHANGED <<cop, pending, adapter, trace>>
      BY <2>12 DEF PostReveal, herVars
    <3>3. AtWork(w)'
      BY <1>s, <2>3, <2>4, <2>k, <2>g, <3>1 DEF AtWork, Between, Counted, Numbered, Recording,
        Places, RevealPlaces
    <3> QED
      BY <2>2, <2>g, <3>1, <3>3, OneWorks DEF Places, IInv
  <2>13a. CASE NumberReveal(w)
    <3>1. /\ job[w].at = "number_reveal"
          /\ job' = [job EXCEPT ![w].at = "count_reveal", ![w].step = trace.nextReveal]
          /\ UNCHANGED <<cop, pending, adapter, trace>>
      BY <2>13a DEF NumberReveal, herVars, adapterVars
    <3>2. Between(Round)
      BY <2>3, <3>1 DEF AtWork
    <3>4. /\ job'[w].at = "count_reveal" /\ job'[w].call = job[w].call
          /\ job'[w].step = trace.nextReveal
      BY <1>j, <3>1
    <3>5. trace.nextReveal = Round
      BY <1>c, <3>2 DEF Between, Counted, Recording
    <3>3. AtWork(w)'
      BY <1>s, <2>3, <2>4, <2>k, <3>1, <3>2, <3>4, <3>5
      DEF AtWork, Between, Counted, Numbered, Recording, RevealPlaces
    <3> QED
      BY <2>2, <3>4, <3>3, OneWorks DEF Idle, IInv
  <2>13b. CASE CountReveal(w)
    <3>1. /\ job[w].at = "count_reveal"
          /\ job' = [job EXCEPT ![w].at = "advance_reveal", ![w].step = 0]
          /\ UNCHANGED <<cop, pending, adapter>>
          /\ trace'.nextReveal = trace.nextReveal + 1
          /\ trace'.nextCommit = trace.nextCommit
      BY <2>13b, Recorded DEF CountReveal, herVars
    <3>2. Between(Round)
      BY <2>3, <3>1 DEF AtWork
    <3>4. job'[w].at = "advance_reveal" /\ job'[w].call = job[w].call
      BY <1>j, <3>1
    <3>3. AtWork(w)'
      BY <1>s, <1>c, <2>3, <2>4, <2>k, <3>1, <3>2, <3>4
      DEF AtWork, Between, Counted, Numbered, Recording, RevealPlaces
    <3> QED
      BY <2>2, <3>4, <3>3, OneWorks DEF Idle, IInv
  <2>13c. CASE AdvanceReveal(w)
    <3>1. job[w].at = "advance_reveal" /\ Goto(w, "mark_reveal") /\ UNCHANGED <<cop, pending, trace>>
          /\ adapter' = [adapter EXCEPT !.revealStep = adapter.revealStep + 1]
      BY <2>13c DEF AdvanceReveal, herVars
    <3>3. AtWork(w)'
      BY <1>s, <1>c, <2>3, <2>4, <2>k, <2>g, <3>1
      DEF AtWork, Counted, Numbered, Recording, Places, RevealPlaces
    <3> QED
      BY <2>2, <2>g, <3>1, <3>3, OneWorks DEF Places, IInv
  <2>14. CASE MarkReveal(w)
    <3>1. job[w].at = "mark_reveal" /\ Answer(w) /\ adapter' = [adapter EXCEPT !.revealDone = TRUE]
          /\ trace' = trace
      BY <2>14 DEF MarkReveal
    <3>2. After(Round)'
      BY <1>s, <1>c, <2>3, <3>1 DEF AtWork, After, Counted, Numbered, Recording
    <3>3. job[w].call.kind = "reveal"
      BY <2>k, <3>1 DEF RevealPlaces
    <3>4. AtRest'
      BY <1>s, <2>4, <2>u, <3>1, <3>2, <3>3, AtCalls, <2>1, PendingPhase, NextPhase DEF AtRest
    <3> QED
      BY <2>2, <2>u, <3>1, <3>4, OneWorks DEF IInv
  <2>15. CASE JudgeClaim(w)
    <3>1. /\ job[w].at = "claim" /\ UNCHANGED <<cop, pending, adapter>>
          /\ trace'.nextCommit = trace.nextCommit /\ trace'.nextReveal = trace.nextReveal
          /\ Goto(w, "confirm") \/ Goto(w, "refuse")
      BY <2>15, Recorded DEF JudgeClaim, herVars
    <3>3. AtWork(w)'
      BY <1>s, <2>3, <2>4, <2>k, <2>g, <3>1 DEF AtWork, After, Counted, Numbered, Recording,
        Places, ClaimPlaces
    <3> QED
      BY <2>2, <2>g, <3>1, <3>3, OneWorks DEF Places, IInv
  <2>16. CASE RespondToClaim(w)
    <3>1. /\ job[w].at \in {"confirm", "refuse"} /\ adapter' = adapter /\ trace' = trace
          /\ Answer(w) \/ (job' = [job EXCEPT ![w] = Idle] /\ UNCHANGED <<cop, pending>>)
      BY <2>16 DEF RespondToClaim, adapterVars
    <3>3. job[w].call.kind = "claim"
      BY <2>k, <3>1 DEF ClaimPlaces
    <3>2. After(Round)
      BY <2>3, <3>3 DEF AtWork
    <3>4. AtRest'
      BY <1>s, <2>4, <2>u, <3>1, <3>2, <3>3, PendingPhase, NextPhase
      DEF AtRest, After, Counted, Numbered, Recording
    <3> QED
      BY <2>2, <2>u, <3>1, <3>4, OneWorks DEF IInv
  <2>17. CASE KeepNonces(w)
    <3>1. job[w].at = "final" /\ Goto(w, "audit") /\ UNCHANGED <<cop, pending, adapter>>
      BY <2>17 DEF KeepNonces, herVars
    <3>3. AtWork(w)'
      BY <1>s, <2>3, <2>4, <2>k, <2>g, <3>1
      DEF AtWork, Places, FinalPlaces, CommitPlaces, RevealPlaces, ClaimPlaces
    <3> QED
      BY <2>2, <2>g, <3>1, <3>3, OneWorks DEF Places, IInv
  <2>18. CASE AuditTrace(w)
    <3>1. job[w].at = "audit" /\ Answer(w)
      BY <2>18 DEF AuditTrace
    <3>3. job[w].call.kind = "final"
      BY <2>k, <3>1 DEF FinalPlaces
    <3>4. AtRest'
      BY <2>4, <2>u, <3>1, <3>3, PendingPhase, NextPhase DEF AtRest
    <3> QED
      BY <2>2, <2>u, <3>1, <3>4, OneWorks DEF IInv
  <2> QED
    BY <1>2, <2>5, <2>6, <2>7, <2>8a, <2>8b, <2>8c, <2>9, <2>10, <2>11, <2>12,
        <2>13a, <2>13b, <2>13c, <2>14, <2>15, <2>16,
        <2>17, <2>18
    DEF Worker
<1> QED
  BY <1>1, <1>2

-----------------------------------------------------------------------------
(* The mailbox and the entries.                                            *)

\* InStep in two parts: the mailbox and the trace.
MailInStep ==
  /\ \A k \in DOMAIN commits : commits[k] = k
  /\ \A k \in DOMAIN reveals : reveals[k] = k

\* An entry of the trace holds what she sent in that round.
RightEntry(s, entry) ==
  /\ s \in 1 .. Round
  /\ entry.commit \in {NoCommit, sealed[s]}
  /\ entry.move # NoMove => s <= Len(shown) /\ entry.move = shown[s]

TraceInStep == \A s \in DOMAIN trace.entries : RightEntry(s, trace.entries[s])

LEMMA InStepParts == InStep <=> (tidy => MailInStep /\ TraceInStep)
BY DEF InStep, MailInStep, TraceInStep, RightEntry, Round

\* What recording does to the entries.
LEMMA Entered ==
  ASSUME NEW t, NEW e, NEW k
  PROVE  /\ \A s \in DOMAIN RecordCommit(t, k, e).entries :
               /\ s # k => /\ s \in DOMAIN t.entries
                           /\ RecordCommit(t, k, e).entries[s] = t.entries[s]
               /\ s = k => /\ RecordCommit(t, k, e).entries[s].commit = e
                           /\ RecordCommit(t, k, e).entries[s].move = EntryAt(t, s).move
                           /\ RecordCommit(t, k, e).entries[s].nonce = EntryAt(t, s).nonce
         /\ \A s \in DOMAIN RecordReveal(t, k, e).entries :
               /\ s # k => /\ s \in DOMAIN t.entries
                           /\ RecordReveal(t, k, e).entries[s] = t.entries[s]
               /\ s = k => /\ RecordReveal(t, k, e).entries[s].move = e
                           /\ RecordReveal(t, k, e).entries[s].commit = EntryAt(t, s).commit
                           /\ RecordReveal(t, k, e).entries[s].nonce = EntryAt(t, s).nonce
BY DEF RecordCommit, RecordReveal, Trace, WithEntry, Entry

\* What keeping the nonces of some steps does to the entries.
LEMMA NoncesEntered ==
  ASSUME NEW t, NEW steps
  PROVE  \A s \in DOMAIN RecordFinalReveal(t, steps).entries :
           /\ s \in DOMAIN t.entries \cup steps
           /\ RecordFinalReveal(t, steps).entries[s].commit = EntryAt(t, s).commit
           /\ RecordFinalReveal(t, steps).entries[s].move = EntryAt(t, s).move
           /\ RecordFinalReveal(t, steps).entries[s].nonce = (EntryAt(t, s).nonce \/ s \in steps)
BY DEF RecordFinalReveal, Trace, Entry

\* While calls come in order what is filed is filed under her own round.
LEMMA NumberStep ==
  ASSUME IInv, TallyInv, NumberInv, [Next]_vars, Tidy, Tidy'
  PROVE  PaceInv' /\ MailInStep' /\ TraceInStep'
<1>a. PaceInv /\ MailInStep /\ TraceInStep /\ WorkInv
  BY InStepParts DEF NumberInv, TallyInv, Tidy
<1>s. /\ sealed \in Seq([step : Rounds, at : Standings, move : CopMoves])
      /\ shown \in Seq(CopMoves) /\ Len(shown) <= Len(sealed) /\ Round = Len(sealed)
      /\ Round \in Nat /\ Len(shown) \in Nat
      /\ thief \in [at : {"move", "wait", "grace", "gone"}, round : Rounds, cell : Cells,
                     taken : {"none", "not_evaluated", "passed", "failed"}]
      /\ adapter \in [commitStep : Nat, revealStep : Nat, lastCommit : 0 .. MaxRounds,
                       revealDone : BOOLEAN]
  BY DEF IInv, TypeOK, Round
<1>1. CASE UNCHANGED <<sealed, shown, thief, commits, reveals, trace>>
  BY <1>a, <1>1 DEF PaceInv, MailInStep, TraceInStep, RightEntry, Round
<1>2. CASE CopCommits
  <2>1. UNCHANGED <<shown, thief, commits, reveals, trace>> /\ Round' = Round + 1
        /\ \A s \in 1 .. Round : sealed'[s] = sealed[s]
    BY <1>2, <1>s DEF CopCommits, adapterVars, Round
  <2> QED
    BY <1>a, <1>s, <2>1 DEF PaceInv, MailInStep, TraceInStep, RightEntry
<1>3. CASE CopReveals
  <2>1. UNCHANGED <<sealed, thief, commits, reveals, trace>> /\ Len(shown') = Len(shown) + 1
        /\ \A s \in 1 .. Len(shown) : shown'[s] = shown[s]
    BY <1>3, <1>s DEF CopReveals, adapterVars
  <2>2. PaceInv'
    BY <1>a, <1>s, <2>1 DEF PaceInv, Rounds
  <2>3. ASSUME NEW s, NEW entry, RightEntry(s, entry) PROVE RightEntry(s, entry)'
    BY <1>s, <2>1, <2>3 DEF RightEntry, Round
  <2> QED
    BY <1>a, <2>1, <2>2, <2>3 DEF MailInStep, TraceInStep
<1>4. ASSUME NEW w \in Workers, Worker(w)
      PROVE  PaceInv' /\ MailInStep' /\ TraceInStep'
  <2>s. UNCHANGED <<sealed, shown, thief>>
    BY <1>4, WhatAnswers
  <2>w. job[w].at \notin {"idle"} => AtWork(w) /\ job[w] # Idle
    BY <1>a DEF WorkInv, Idle
  <2>k. job[w] # Idle =>
          /\ job[w].call.kind = "commit" <=> job[w].at \in CommitPlaces
          /\ job[w].call.kind = "reveal" <=> job[w].at \in RevealPlaces
          /\ Made(job[w].call)
    BY AtCalls DEF IInv, CallInv
  <2>1. CASE UNCHANGED <<commits, reveals, trace>>
    BY <1>1, <2>s, <2>1
  <2>2. CASE PostCommit(w)
    <3>1. /\ commits' = Post(commits, adapter.commitStep, job[w].call.round)
          /\ UNCHANGED <<reveals, trace>> /\ job[w].at = "post_commit"
      BY <2>2 DEF PostCommit
    <3>2. adapter.commitStep = job[w].call.round
      BY <2>w, <3>1, <1>s DEF AtWork, Before, Counted, Numbered, Recording
    <3> QED
      BY <1>a, <2>s, <3>1, <3>2 DEF PaceInv, MailInStep, TraceInStep, RightEntry, Round, Post
  <2>3. CASE PostReveal(w)
    <3>1. /\ reveals' = Post(reveals, adapter.revealStep, job[w].call.round)
          /\ UNCHANGED <<commits, trace>> /\ job[w].at = "post_reveal"
      BY <2>3 DEF PostReveal
    <3>2. adapter.revealStep = job[w].call.round /\ job[w].call.round \in 1 .. Len(shown)
      BY <2>w, <2>k, <3>1, <1>s DEF AtWork, Between, Counted, Numbered, Recording, RevealPlaces,
                                    Made
    <3> QED
      BY <1>a, <2>s, <3>1, <3>2 DEF PaceInv, MailInStep, TraceInStep, RightEntry, Round, Post
  <2>4. CASE CountCommit(w)
    <3>1. trace' = RecordCommit(trace, job[w].step, sealed[job[w].call.round])
          /\ UNCHANGED <<commits, reveals>> /\ job[w].at = "count_commit"
      BY <2>4 DEF CountCommit
    <3>2. job[w].step = job[w].call.round /\ job[w].call.round \in 1 .. Round
      BY <2>w, <2>k, <3>1, <1>s DEF AtWork, Before, Counted, Numbered, Recording, CommitPlaces,
                                    Made
    <3>e. ASSUME NEW s \in DOMAIN trace'.entries
          PROVE  /\ s # job[w].step => /\ s \in DOMAIN trace.entries
                                       /\ trace'.entries[s] = trace.entries[s]
                 /\ s = job[w].step => /\ trace'.entries[s].commit = sealed[job[w].call.round]
                                       /\ trace'.entries[s].move = EntryAt(trace, s).move
      BY <3>1, Entered
    <3>3. ASSUME NEW s \in DOMAIN trace'.entries PROVE RightEntry(s, trace'.entries[s])
      <4>1. CASE s # job[w].step
        BY <1>a, <3>e, <4>1 DEF TraceInStep
      <4>2. CASE s = job[w].step
        BY <1>a, <1>s, <3>e, <3>2, <4>2 DEF TraceInStep, RightEntry, EntryAt, NoEntry, Entry
      <4> QED
        BY <4>1, <4>2
    <3> QED
      BY <1>a, <2>s, <3>1, <3>3 DEF PaceInv, MailInStep, TraceInStep, RightEntry, Round
  <2>5. CASE CountReveal(w)
    <3>1. trace' = RecordReveal(trace, job[w].step, shown[job[w].call.round])
          /\ UNCHANGED <<commits, reveals>> /\ job[w].at = "count_reveal"
      BY <2>5 DEF CountReveal
    <3>2. job[w].step = job[w].call.round /\ job[w].call.round \in 1 .. Len(shown)
      BY <2>w, <2>k, <3>1, <1>s DEF AtWork, Between, Counted, Numbered, Recording, RevealPlaces,
                                    Made
    <3>e. ASSUME NEW s \in DOMAIN trace'.entries
          PROVE  /\ s # job[w].step => /\ s \in DOMAIN trace.entries
                                       /\ trace'.entries[s] = trace.entries[s]
                 /\ s = job[w].step => /\ trace'.entries[s].move = shown[job[w].call.round]
                                       /\ trace'.entries[s].commit = EntryAt(trace, s).commit
      BY <3>1, Entered
    <3>3. ASSUME NEW s \in DOMAIN trace'.entries PROVE RightEntry(s, trace'.entries[s])
      <4>1. CASE s # job[w].step
        BY <1>a, <3>e, <4>1 DEF TraceInStep
      <4>2. CASE s = job[w].step
        <5>1. s \in 1 .. Round /\ s \in 1 .. Len(shown) /\ trace'.entries[s].move = shown[s]
          BY <1>s, <3>e, <3>2, <4>2
        <5>2. trace'.entries[s].commit \in {NoCommit, sealed[s]}
          <6>1. CASE s \in DOMAIN trace.entries
            BY <1>a, <3>e, <4>2, <6>1 DEF TraceInStep, RightEntry, EntryAt
          <6>2. CASE s \notin DOMAIN trace.entries
            BY <3>e, <4>2, <6>2 DEF EntryAt, NoEntry, Entry
          <6> QED
            BY <6>1, <6>2
        <5> QED
          BY <5>1, <5>2 DEF RightEntry
      <4> QED
        BY <4>1, <4>2
    <3> QED
      BY <1>a, <2>s, <3>1, <3>3 DEF PaceInv, MailInStep, TraceInStep, RightEntry, Round
  <2>6. CASE KeepNonces(w)
    <3>1. /\ trace' = RecordFinalReveal(trace, 1 .. job[w].call.round)
          /\ UNCHANGED <<commits, reveals>> /\ job[w].at = "final"
      BY <2>6 DEF KeepNonces
    <3>2. job[w].call.round = Round
      BY <2>w, <3>1 DEF AtWork
    <3>3. ASSUME NEW s \in DOMAIN trace'.entries PROVE RightEntry(s, trace'.entries[s])
      BY <1>a, <1>s, <3>1, <3>2, <3>3, NoncesEntered
      DEF TraceInStep, RightEntry, EntryAt, NoEntry, Entry
    <3> QED
      BY <1>a, <2>s, <3>1, <3>3 DEF PaceInv, MailInStep, TraceInStep, RightEntry, Round
  <2>7. CASE JudgeClaim(w)
    <3>1. trace'.entries = trace.entries /\ UNCHANGED <<commits, reveals>>
      BY <2>7 DEF JudgeClaim, RecordClaim, Trace
    <3> QED
      BY <1>a, <2>s, <3>1 DEF PaceInv, MailInStep, TraceInStep, RightEntry, Round
  <2> QED
    BY <1>4, <2>1, <2>2, <2>3, <2>4, <2>5, <2>6, <2>7
    DEF Worker, Deliver, CheckCommit, NumberCommit, AdvanceCommit, MarkCommit, CheckReveal,
        NumberReveal, AdvanceReveal, MarkReveal, RespondToClaim, AuditTrace, adapterVars
<1>5. CASE ThiefMoves \/ RoundArrived \/ RoundLost
  <2>1. UNCHANGED <<sealed, shown, commits, reveals, trace>>
    BY <1>5 DEF ThiefMoves, RoundArrived, RoundLost, herVars, adapterVars
  <2>2. thief'.round <= Len(shown) + 1
    <3>1. CASE ThiefMoves \/ RoundLost
      BY <1>a, <1>s, <3>1 DEF ThiefMoves, RoundLost, PaceInv
    <3>2. CASE RoundArrived
      <4>1. \/ thief'.round = thief.round
            \/ thief.round \in DOMAIN reveals /\ thief'.round = thief.round + 1
        BY <1>s, <3>2 DEF RoundArrived, RoundEnds
      <4> QED
        BY <1>a, <1>s, <4>1 DEF PaceInv
    <3> QED
      BY <1>5, <3>1, <3>2
  <2> QED
    BY <1>a, <2>1, <2>2 DEF PaceInv, MailInStep, TraceInStep, RightEntry, Round
<1>6. CASE GraceEnds
  BY <1>6, <1>s DEF GraceEnds, Tidy, Serving
<1> QED
  BY <1>1, <1>2, <1>3, <1>4, <1>5, <1>6
  DEF Next, Cop, CopClaims, CopMovesOn, CopEnds, Retry, GiveUp, Thief, Gone, vars, herVars,
      adapterVars

\* The parts about order are kept by every step.
LEMMA TidyStep == TidyInv /\ [Next]_vars => TallyInv' /\ NumberInv'
<1> SUFFICES ASSUME TidyInv, [Next]_vars, Tidy' PROVE TallyInv' /\ NumberInv'
  BY DEF TallyInv, NumberInv
<1>1. IInv /\ TallyInv /\ NumberInv /\ Tidy
  BY TidyStays DEF TidyInv, IInv
<1>2. NumberInv'
  <2>1. PaceInv' /\ MailInStep' /\ TraceInStep'
    BY <1>1, NumberStep
  <2>2. InStep' <=> (tidy => MailInStep /\ TraceInStep)'
    BY InStepParts, PTL
  <2> QED
    BY <2>1, <2>2 DEF NumberInv
<1>3. Alone' /\ IdleInv' /\ WorkInv'
  <2>a. Alone /\ IdleInv /\ WorkInv
    BY <1>1 DEF TallyInv
  <2>1. CASE UNCHANGED <<sealed, shown, cop, pending, adapter, job, trace>>
    BY <2>a, <2>1
    DEF Alone, IdleInv, AtRest, WorkInv, AtWork, Before, Between, After, Counted, Numbered,
        Recording, Round
  <2>2. CASE Cop
    BY <1>1, <2>2, HerTally
  <2>3. ASSUME NEW w \in Workers, Worker(w) PROVE Alone' /\ IdleInv' /\ WorkInv'
    BY <1>1, <2>3, WorkerTally
  <2>4. CASE GraceEnds
    BY <2>4, <1>1 DEF GraceEnds, Tidy, Serving, IInv, TypeOK
  <2> QED
    BY <2>1, <2>2, <2>3, <2>4
    DEF Next, Thief, ThiefMoves, RoundArrived, RoundLost, Gone, vars, herVars, adapterVars
<1> QED
  BY <1>2, <1>3 DEF TallyInv

\* They hold at the start.
LEMMA InitTidy == Init => TallyInv /\ NumberInv
<1> SUFFICES ASSUME Init PROVE TallyInv /\ NumberInv
  OBVIOUS
<1>1. TallyInv
  BY DEF Init, TallyInv, Alone, IdleInv, AtRest, WorkInv, Counted, Numbered, Recording, Round,
         FreshAdapter, EmptyTrace
<1>2. NumberInv
  BY DEF Init, NumberInv, PaceInv, InStep, EmptyTrace
<1> QED
  BY <1>1, <1>2

\* They hold for good.
LEMMA InductiveTidy == Spec => [](TidyInv /\ GoneInv)
<1>1. Init => TidyInv /\ GoneInv
  BY InitIInv, InitTidy DEF TidyInv, Init, GoneInv, Serving
<1>2. TidyInv /\ GoneInv /\ [Next]_vars => (TidyInv /\ GoneInv)'
  BY TypeStep, HerStep, CallStep, TraceStep, TidyStep, GoneStep DEF TidyInv, IInv
<1> QED
  BY <1>1, <1>2, PTL DEF Spec

\* As long as calls are handled one at a time, whatever is repeated and whatever
\* answer is lost, each number the adapter gives is her own round.
THEOREM NumbersAreRounds == Spec => []InStep
<1>1. TidyInv /\ GoneInv => InStep
  <2> SUFFICES ASSUME TidyInv, GoneInv PROVE InStep
    OBVIOUS
  <2>1. CASE Tidy
    BY <2>1 DEF TidyInv, NumberInv
  <2>2. CASE tidy /\ ~Serving
    BY <2>2 DEF GoneInv, InStep, EmptyTrace
  <2> QED
    BY <2>1, <2>2 DEF Tidy, InStep
<1> QED
  BY <1>1, InductiveTidy, PTL

\* As long as calls are handled one at a time, a claim is judged by the cell of
\* the round it names or the one after.
THEOREM ClaimsJudgedInTime == Spec => []ClaimTimely
<1> DEFINE Timely == tidy => (landing # NotLanded => landing.round <= landing.step + 1)
<1>1. ASSUME TidyInv, GoneInv, tidy, NEW w \in Workers, job[w].at = "claim"
      PROVE  thief.round <= job[w].call.round + 1 /\ Tidy
  <2>1. job[w] # Idle /\ Serving /\ tidy
    BY <1>1 DEF GoneInv, Idle
  <2>2. AtWork(w) /\ PaceInv
    BY <1>1, <2>1 DEF TidyInv, TallyInv, NumberInv, Tidy, WorkInv
  <2>3. Len(shown) \in Nat /\ Round \in Nat /\ Len(shown) <= Round /\ thief.round \in Nat
    BY <1>1 DEF TidyInv, IInv, TypeOK, Round, Rounds
  <2> QED
    BY <2>1, <2>2, <2>3 DEF AtWork, PaceInv, Tidy
<1>2. Init => Timely
  BY DEF Init
<1>3. TidyInv /\ GoneInv /\ Timely /\ [Next]_vars => Timely'
  <2> SUFFICES ASSUME TidyInv, GoneInv, Timely, [Next]_vars, tidy' PROVE Timely'
    OBVIOUS
  <2>0. tidy
    BY
    DEF Next, Cop, CopCommits, CopReveals, CopClaims, CopMovesOn, CopEnds, Retry, GiveUp, Thief,
        ThiefMoves, RoundArrived, RoundLost, GraceEnds, Gone, vars, Worker, Deliver, CheckCommit,
        PostCommit, NumberCommit, CountCommit, AdvanceCommit, MarkCommit, CheckReveal, PostReveal,
        NumberReveal, CountReveal, AdvanceReveal, MarkReveal, JudgeClaim, RespondToClaim,
        KeepNonces, AuditTrace
  <2>1. CASE landing' = landing
    BY <2>0, <2>1
  <2>2. CASE GraceEnds
    BY <2>2 DEF GraceEnds
  <2>3. ASSUME NEW w \in Workers, JudgeClaim(w) PROVE Timely'
    <3>1. thief.round <= job[w].call.round + 1
      BY <1>1, <2>0, <2>3 DEF JudgeClaim
    <3>2. \/ landing' = landing
          \/ landing' = [step |-> job[w].call.round, cell |-> thief.cell, round |-> thief.round]
      BY <2>3 DEF JudgeClaim
    <3> QED
      BY <2>0, <3>1, <3>2
  <2> QED
    BY <2>1, <2>2, <2>3
    DEF Next, Cop, CopCommits, CopReveals, CopClaims, CopMovesOn, CopEnds, Retry, GiveUp, Thief,
        ThiefMoves, RoundArrived, RoundLost, Gone, vars, Worker, Deliver, CheckCommit, PostCommit,
        NumberCommit, CountCommit, AdvanceCommit, MarkCommit, CheckReveal, PostReveal,
        NumberReveal, CountReveal, AdvanceReveal, MarkReveal, RespondToClaim, KeepNonces,
        AuditTrace
<1>4. TidyInv /\ GoneInv /\ Timely => ClaimTimely
  BY <1>1 DEF ClaimTimely
<1> HIDE DEF Timely
<1> QED
  BY <1>2, <1>3, <1>4, InductiveTidy, PTL DEF Spec
=============================================================================

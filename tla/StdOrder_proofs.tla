---------------------------- MODULE StdOrder_proofs ----------------------------
(***************************************************************************)
(* Proofs about the order of play in StdSeries: what a police files of a   *)
(* sub-game the thief said, and only a late turn makes two honest peers    *)
(* find each other tampering or dispute a series.                          *)
(***************************************************************************)
EXTENDS StdSeries_proofs

-----------------------------------------------------------------------------
(* The steps, for what is played: offers and digests are left out.         *)

SentTurns == {m \in net : m.kind = "turn"}
SentAudits == {m \in net : m.kind = "audit"}

Held(p) == box'[p].turns = box[p].turns /\ box'[p].audits = box[p].audits
Still(p) ==
  /\ phase'[p] = phase[p] /\ at'[p] = at[p] /\ game'[p] = game[p] /\ sealed'[p] = sealed[p]
  /\ seen'[p] = seen[p] /\ ends'[p] = ends[p] /\ Held(p)

Begins(p) ==
  /\ phase[p] \in {"start", "audit"} /\ Len(ends[p]) = game[p]
  /\ phase'[p] = "offer" /\ at'[p] = "call"
  /\ game'[p] = game[p] + 1 /\ sealed'[p] = 0 /\ ends'[p] = ends[p]
  /\ box'[p].turns = {} /\ box'[p].audits = box[p].audits
  /\ SentTurns' = SentTurns /\ SentAudits' = SentAudits

\* From one phase to another, with nothing read, sealed or ended.
MovesOn(p) ==
  \/ phase[p] \in Resending /\ phase'[p] = phase[p]
  \/ phase[p] \in Playing /\ phase'[p] = "raised"
  \/ phase[p] = "offer" /\ phase'[p] = "think" /\ Role(p) = "thief"
  \/ /\ phase[p] \in {"offer", "opening"} /\ Role(p) # "thief"
     /\ phase'[p] = "opening" \/ (phase'[p] = "turn" /\ at'[p] = "wait")
  \/ /\ phase[p] = "turn" /\ Returned(p) /\ SaysIn(p, sealed[p]) # "survival"
     /\ phase'[p] = "turn" /\ at'[p] = "wait"
  \/ phase[p] \in {"audit"} \cup Closed /\ phase'[p] \in Closed

Moves(p) ==
  /\ game'[p] = game[p] /\ sealed'[p] = sealed[p] /\ seen'[p] = seen[p] /\ ends'[p] = ends[p]
  /\ Held(p)
  /\ SentTurns' = SentTurns
  /\ \A m \in SentAudits' \ SentAudits :
       phase[p] = "audit" /\ m = AuditTo(Other(p), game[p], sealed[p], ends[p][game[p]])
  /\ MovesOn(p)

\* p seals its next turn and sends it.
Seals(p, says) ==
  /\ sealed'[p] = sealed[p] + 1 /\ at'[p] = "call"
  /\ SentTurns' = SentTurns \cup {TurnTo(Other(p), game[p], sealed[p] + 1, says)}
  /\ SentAudits' = SentAudits
  /\ game'[p] = game[p] /\ ends'[p] = ends[p] /\ Held(p)

Sends(p) ==
  /\ phase[p] = "think" /\ phase'[p] = "turn" /\ seen'[p] = seen[p]
  /\ Seals(p, SaysIn(p, sealed[p] + 1))

\* p reads turn t of the step it waits for.
Reads(p, t) ==
  /\ phase[p] = "turn" /\ at[p] = "wait"
  /\ t \in box[p].turns /\ t.step = (IF Role(p) = "thief" THEN sealed[p] ELSE sealed[p] + 1)
  /\ seen'[p] = seen[p] \cup {<<t.step, t.game>>}

Admits(p, t) ==
  /\ Reads(p, t) /\ Role(p) = "thief"
  /\ phase'[p] = "final"
  /\ Seals(p, "caught")

GoesOn(p, t) ==
  /\ Reads(p, t) /\ (Role(p) # "thief" => EndSeen(p, t) = "none")
  /\ phase'[p] = "think"
  /\ game'[p] = game[p] /\ sealed'[p] = sealed[p] /\ ends'[p] = ends[p] /\ Held(p)
  /\ SentTurns' = SentTurns /\ SentAudits' = SentAudits

\* p ends its sub-game.
Finishes(p, end) ==
  /\ phase'[p] = "audit" /\ at'[p] = "call" /\ ends'[p] = Append(ends[p], end)
  /\ game'[p] = game[p] /\ sealed'[p] = sealed[p] /\ Held(p)
  /\ SentTurns' = SentTurns
  /\ SentAudits' = SentAudits \cup {AuditTo(Other(p), game[p], sealed[p], end)}

EndsByTurn(p) ==
  /\ phase[p] = "turn" /\ Returned(p) /\ SaysIn(p, sealed[p]) = "survival" /\ seen'[p] = seen[p]
  /\ Finishes(p, "survival")
EndsCaught(p) ==
  /\ phase[p] = "final" /\ Returned(p) /\ seen'[p] = seen[p]
  /\ Finishes(p, "capture")
EndsLate(p) ==
  /\ phase[p] = "turn" /\ at[p] = "wait" /\ seen'[p] = seen[p]
  /\ Finishes(p, "timeout")
EndsReading(p, t) ==
  /\ Reads(p, t) /\ Role(p) # "thief" /\ EndSeen(p, t) # "none"
  /\ Finishes(p, EndSeen(p, t))

Plays(p) ==
  \/ Begins(p) \/ Moves(p) \/ Sends(p)
  \/ \E t \in box[p].turns : Admits(p, t) \/ GoesOn(p, t) \/ EndsReading(p, t)
  \/ EndsByTurn(p) \/ EndsCaught(p) \/ EndsLate(p)

Arrives(m) ==
  /\ UNCHANGED <<phase, at, game, sealed, seen, ends>>
  /\ \A p \in Peers \ {m.to} : Held(p)
  /\ SentTurns' = SentTurns \ {m} /\ SentAudits' = SentAudits \ {m}
  /\ box'[m.to].turns = IF m.kind = "turn"
                        THEN {o \in box[m.to].turns : o.step # m.turn.step} \cup {m.turn}
                        ELSE box[m.to].turns
  /\ box'[m.to].audits = IF m.kind = "audit"
                         THEN {o \in box[m.to].audits : o.game # m.audit.game} \cup {m.audit}
                         ELSE box[m.to].audits

Nothing == (\A p \in Peers : Still(p)) /\ SentTurns' = SentTurns /\ SentAudits' = SentAudits

\* p begins a sub-game.
LEMMA BeginSteps ==
  ASSUME CountInv, NEW p \in Peers, NEW n \in Nat, BeginSubGame(p, n), n = game[p] + 1,
         phase[p] \in {"start", "audit"}, Len(ends[p]) = game[p], ends' = ends
  PROVE  Begins(p) /\ Still(Other(p))
<1> USE OtherPeer DEF CountInv, TypeOK
<1>1. /\ phase'[p] = "offer" /\ at'[p] = "call"
      /\ game'[p] = game[p] + 1 /\ sealed'[p] = 0 /\ Still(Other(p))
      /\ box'[p].turns = {} /\ box'[p].audits = box[p].audits
  BY DEF BeginSubGame, Goto, reset_turns, Mailbox, Still, Held
<1>2. SentTurns' = SentTurns /\ SentAudits' = SentAudits
  BY DEF BeginSubGame, OfferTo, SentTurns, SentAudits
<1> QED
  BY <1>1, <1>2 DEF Begins

\* p ends one.
LEMMA EndSteps ==
  ASSUME CountInv, NEW p \in Peers, NEW end \in EndReasons, EndPlay(p, end),
         \A r \in Peers \ {p} : seen'[r] = seen[r]
  PROVE  Finishes(p, end) /\ Still(Other(p))
<1> USE OtherPeer DEF CountInv, TypeOK
<1>1. /\ phase'[p] = "audit" /\ at'[p] = "call" /\ ends'[p] = Append(ends[p], end)
      /\ game'[p] = game[p] /\ sealed'[p] = sealed[p] /\ Held(p) /\ Still(Other(p))
  BY DEF EndPlay, Goto, Still, Held
<1>2. SentTurns' = SentTurns
  BY DEF EndPlay, AuditTo, SentTurns
<1>3. SentAudits' = SentAudits \cup {AuditTo(Other(p), game[p], sealed[p], end)}
  BY DEF EndPlay, AuditTo, SentAudits
<1> QED
  BY <1>1, <1>2, <1>3 DEF Finishes

\* p moves its main thread, with the messages in flight as they were.
LEMMA MoveSteps ==
  ASSUME CountInv, NEW p \in Peers, NEW ph, NEW pt, Goto(p, ph, pt),
         UNCHANGED <<progressVars, ends, box>>,
         SentTurns' = SentTurns, SentAudits' = SentAudits
  PROVE  /\ Still(Other(p)) /\ phase'[p] = ph /\ at'[p] = pt
         /\ MovesOn(p) => Moves(p)
BY OtherPeer DEF CountInv, TypeOK, Goto, progressVars, Still, Held, Moves

\* The steps that only move a main thread.
LEMMA RestSteps ==
  ASSUME CountInv, NEW p \in Peers,
         \/ CallReturns(p) \/ Resend(p) \/ TakeOffer(p) \/ Open(p) \/ LookAgain(p) \/ Leave(p)
         \/ OfferFails(p) \/ RelayFails(p) \/ TurnFails(p)
         \/ TakeConsensus(p) \/ GraceExpires(p) \/ Watchdog(p)
  PROVE  Moves(p) /\ Still(Other(p))
<1> USE OtherPeer DEF CountInv
<1>n. UNCHANGED net => SentTurns' = SentTurns /\ SentAudits' = SentAudits
  BY DEF SentTurns, SentAudits
<1>1. CASE CallReturns(p)
  <2>1. Goto(p, phase[p], "wait") /\ phase[p] \in Resending
        /\ UNCHANGED <<progressVars, ends, box, net>>
    BY <1>1 DEF CallReturns, resultVars
  <2> QED
    BY <1>n, <2>1, MoveSteps DEF MovesOn
<1>2. CASE Resend(p)
  <2>1. /\ phase[p] \in Resending /\ net' = net \cup {MessageOf(p)}
        /\ Goto(p, phase[p], "call") /\ UNCHANGED <<progressVars, ends, box>>
    BY <1>2 DEF Resend, resultVars
  <2>2. Still(Other(p)) /\ phase'[p] = phase[p] /\ MovesOn(p)
    BY <2>1 DEF Goto, progressVars, Still, Held, MovesOn, TypeOK
  <2>3. /\ MessageOf(p).kind # "turn"
        /\ MessageOf(p).kind = "audit" =>
             phase[p] = "audit" /\ MessageOf(p) = AuditTo(Other(p), game[p], sealed[p], ends[p][game[p]])
    <3>1. CASE phase[p] = "offer"
      BY <3>1 DEF MessageOf, OfferTo
    <3>2. CASE phase[p] = "audit"
      BY <3>2 DEF MessageOf, AuditTo
    <3>3. CASE phase[p] = "consensus"
      BY <3>3 DEF MessageOf, ConsensusTo
    <3> QED
      BY <2>1, <3>1, <3>2, <3>3 DEF Resending
  <2>4. SentTurns' = SentTurns
    BY <2>1, <2>3 DEF SentTurns
  <2>5. \A m \in SentAudits' \ SentAudits :
          phase[p] = "audit" /\ m = AuditTo(Other(p), game[p], sealed[p], ends[p][game[p]])
    BY <2>1, <2>3 DEF SentAudits
  <2> QED
    BY <2>1, <2>2, <2>4, <2>5 DEF Moves, Held, progressVars
<1>3. CASE TakeOffer(p)
  <2>1. UNCHANGED <<progressVars, ends, box, net>> /\ phase[p] = "offer"
    BY <1>3 DEF TakeOffer, resultVars
  <2>2. \/ Goto(p, "raised", "run")
        \/ Goto(p, "think", "run") /\ Role(p) = "thief"
        \/ (Goto(p, "opening", "run") \/ Goto(p, "turn", "wait")) /\ Role(p) # "thief"
    BY <1>3 DEF TakeOffer, Raise
  <2> QED
    BY <1>n, <2>1, <2>2, MoveSteps DEF MovesOn, Playing
<1>4. CASE Open(p)
  <2>1. UNCHANGED <<progressVars, ends, box, net>> /\ phase[p] = "opening" /\ Goto(p, "turn", "wait")
    BY <1>4 DEF Open, resultVars
  <2>2. Role(p) # "thief"
    BY <2>1 DEF TurnsInv
  <2> QED
    BY <1>n, <2>1, <2>2, MoveSteps DEF MovesOn
<1>5. CASE LookAgain(p) \/ Leave(p)
  BY <1>5, <1>n, MoveSteps DEF LookAgain, Leave, resultVars, MovesOn, Closed
<1>6. CASE OfferFails(p) \/ RelayFails(p) \/ TurnFails(p)
  BY <1>6, <1>n, MoveSteps DEF OfferFails, RelayFails, TurnFails, Raise, resultVars, MovesOn, Playing
<1>7. CASE TakeConsensus(p) \/ GraceExpires(p) \/ Watchdog(p)
  <2>1. /\ phase[p] \in Closed /\ Goto(p, "filed", "run")
        /\ UNCHANGED <<progressVars, ends, box, net>>
    BY <1>7 DEF TakeConsensus, GraceExpires, Watchdog, Settle, Closed
  <2> QED
    BY <1>n, <2>1, MoveSteps DEF MovesOn, Closed
<1> QED
  BY <1>1, <1>2, <1>3, <1>4, <1>5, <1>6, <1>7

\* Every step of a main thread is one of these.
LEMMA MainSteps ==
  ASSUME CountInv, NEW p \in Peers, Main(p)
  PROVE  Plays(p) /\ Still(Other(p)) /\ natural' = natural
<1> USE OtherPeer DEF CountInv
<1>0. natural' = natural
  <2>1. CASE TurnReturns(p) \/ PoliceReads(p)
    BY <2>1 DEF TurnReturns, PoliceReads, EndPlay, setupVars
  <2>2. CASE ~(TurnReturns(p) \/ PoliceReads(p))
    BY <2>2 DEF Main, Start, CallReturns, Resend, TakeOffer, Open, SendTurn, FinalReturns,
         TurnWaitExpires, ThiefReads, TakeAudit, TakeConsensus, LookAgain, GraceExpires,
         Leave, OfferFails, RelayFails, TurnFails, AuditMissed, Watchdog, EndPlay, FileRow, Settle,
         setupVars
  <2> QED
    BY <2>1, <2>2
<1>1. CASE Start(p)
  <2>1. /\ phase[p] = "start" /\ game[p] = 0 /\ Len(ends[p]) = game[p] /\ ends' = ends
        /\ BeginSubGame(p, 1)
    BY <1>1 DEF Start, FiledInv, resultVars
  <2> QED
    BY <1>0, <2>1, BeginSteps DEF Plays
<1>2. CASE \/ CallReturns(p) \/ Resend(p) \/ TakeOffer(p) \/ Open(p) \/ LookAgain(p) \/ Leave(p)
           \/ OfferFails(p) \/ RelayFails(p) \/ TurnFails(p)
           \/ TakeConsensus(p) \/ GraceExpires(p) \/ Watchdog(p)
  BY <1>0, <1>2, RestSteps DEF Plays
<1>3. CASE SendTurn(p)
  <2>1. /\ phase[p] = "think" /\ phase'[p] = "turn" /\ at'[p] = "call"
        /\ sealed'[p] = sealed[p] + 1 /\ seen'[p] = seen[p]
        /\ game'[p] = game[p] /\ ends'[p] = ends[p] /\ Held(p) /\ Still(Other(p))
    BY <1>3 DEF SendTurn, Goto, Held, Still, TypeOK, resultVars
  <2>2. SentTurns' = SentTurns \cup {TurnTo(Other(p), game[p], sealed[p] + 1, SaysIn(p, sealed[p] + 1))}
    BY <1>3 DEF SendTurn, SentTurns, TurnTo
  <2>3. SentAudits' = SentAudits
    BY <1>3 DEF SendTurn, SentAudits, TurnTo
  <2> QED
    BY <1>0, <2>1, <2>2, <2>3 DEF Plays, Sends, Seals
<1>4. CASE TurnReturns(p)
  <2>1. phase[p] = "turn" /\ Returned(p)
    BY <1>4 DEF TurnReturns
  <2>2. CASE SaysIn(p, sealed[p]) = "survival"
    <3>1. EndPlay(p, "survival") /\ UNCHANGED seen
      BY <1>4, <2>2 DEF TurnReturns
    <3> QED
      BY <1>0, <2>1, <2>2, <3>1, EndSteps DEF Plays, EndsByTurn, EndReasons
  <2>3. CASE SaysIn(p, sealed[p]) # "survival"
    <3>1. Goto(p, "turn", "wait") /\ UNCHANGED <<progressVars, ends, box, net>>
      BY <1>4, <2>3 DEF TurnReturns, resultVars
    <3>2. SentTurns' = SentTurns /\ SentAudits' = SentAudits
      BY <3>1 DEF SentTurns, SentAudits
    <3> QED
      BY <1>0, <2>1, <2>3, <3>1, <3>2, MoveSteps DEF Plays, MovesOn
  <2> QED
    BY <2>2, <2>3
<1>5. CASE FinalReturns(p)
  BY <1>0, <1>5, EndSteps DEF FinalReturns, Plays, EndsCaught, EndReasons
<1>6. CASE TurnWaitExpires(p)
  BY <1>0, <1>6, EndSteps DEF TurnWaitExpires, Plays, EndsLate, EndReasons
<1>7. CASE ThiefReads(p)
  <2>1. PICK t \in wait_for_turn(box[p], sealed[p]), caught \in BOOLEAN :
          /\ See(p, t)
          /\ IF caught
             THEN /\ sealed' = [sealed EXCEPT ![p] = @ + 1]
                  /\ net' = net \cup {TurnTo(Other(p), game[p], sealed[p] + 1, "caught")}
                  /\ Goto(p, "final", "call")
             ELSE /\ Goto(p, "think", "run")
                  /\ UNCHANGED <<sealed, net>>
    BY <1>7 DEF ThiefReads
  <2>2. /\ phase[p] = "turn" /\ at[p] = "wait" /\ Role(p) = "thief"
        /\ UNCHANGED <<game, ends, box>>
    BY <1>7 DEF ThiefReads, resultVars
  <2>3. Reads(p, t) /\ \A r \in Peers \ {p} : seen'[r] = seen[r]
    BY <2>1, <2>2 DEF Reads, See, wait_for_turn, TypeOK
  <2>4. CASE caught
    <3>1. /\ phase'[p] = "final" /\ at'[p] = "call" /\ sealed'[p] = sealed[p] + 1
          /\ Held(p) /\ Still(Other(p))
      BY <2>1, <2>2, <2>3, <2>4 DEF Goto, Held, Still, TypeOK
    <3>2. SentTurns' = SentTurns \cup {TurnTo(Other(p), game[p], sealed[p] + 1, "caught")}
      BY <2>1, <2>4 DEF SentTurns, TurnTo
    <3>3. SentAudits' = SentAudits
      BY <2>1, <2>4 DEF SentAudits, TurnTo
    <3>4. Admits(p, t) /\ t \in box[p].turns
      BY <2>2, <2>3, <3>1, <3>2, <3>3 DEF Admits, Seals, Reads
    <3> QED
      BY <1>0, <3>1, <3>4 DEF Plays
  <2>5. CASE ~caught
    <3>1. /\ phase'[p] = "think" /\ sealed'[p] = sealed[p] /\ Held(p) /\ Still(Other(p))
      BY <2>1, <2>2, <2>3, <2>5 DEF Goto, Held, Still, TypeOK
    <3>2. SentTurns' = SentTurns /\ SentAudits' = SentAudits
      BY <2>1, <2>5 DEF SentTurns, SentAudits
    <3>3. GoesOn(p, t) /\ t \in box[p].turns
      BY <2>2, <2>3, <3>1, <3>2 DEF GoesOn, Reads
    <3> QED
      BY <1>0, <3>1, <3>3 DEF Plays
  <2> QED
    BY <2>4, <2>5
<1>8. CASE PoliceReads(p)
  <2>1. PICK t \in wait_for_turn(box[p], sealed[p] + 1) :
          /\ See(p, t)
          /\ IF EndSeen(p, t) = "none"
             THEN /\ Goto(p, "think", "run")
                  /\ UNCHANGED <<setupVars, game, sealed, resultVars, box, net>>
             ELSE EndPlay(p, EndSeen(p, t))
    BY <1>8 DEF PoliceReads
  <2>2. phase[p] = "turn" /\ at[p] = "wait" /\ Role(p) # "thief"
    BY <1>8 DEF PoliceReads
  <2>3. Reads(p, t) /\ \A r \in Peers \ {p} : seen'[r] = seen[r]
    BY <2>1, <2>2 DEF Reads, See, wait_for_turn, TypeOK
  <2>4. CASE EndSeen(p, t) = "none"
    <3>1. /\ phase'[p] = "think" /\ sealed'[p] = sealed[p] /\ game'[p] = game[p]
          /\ ends'[p] = ends[p] /\ Held(p) /\ Still(Other(p))
      BY <2>1, <2>3, <2>4 DEF Goto, Held, Still, TypeOK, resultVars
    <3>2. SentTurns' = SentTurns /\ SentAudits' = SentAudits
      BY <2>1, <2>4 DEF SentTurns, SentAudits
    <3>3. GoesOn(p, t) /\ t \in box[p].turns
      BY <2>3, <2>4, <3>1, <3>2 DEF GoesOn, Reads
    <3> QED
      BY <1>0, <3>1, <3>3 DEF Plays
  <2>5. CASE EndSeen(p, t) # "none"
    <3>1. EndSeen(p, t) \in EndReasons
      BY <2>5 DEF EndSeen, EndReasons
    <3>2. Finishes(p, EndSeen(p, t)) /\ Still(Other(p))
      BY <2>1, <2>3, <2>5, <3>1, EndSteps
    <3>3. EndsReading(p, t) /\ t \in box[p].turns
      BY <2>2, <2>3, <2>5, <3>2 DEF EndsReading, Reads
    <3> QED
      BY <1>0, <3>2, <3>3 DEF Plays
  <2> QED
    BY <2>4, <2>5
<1>9. CASE TakeAudit(p) \/ AuditMissed(p)
  <2>1. PICK report : FileRow(p, report) /\ phase[p] = "audit"
    BY <1>9 DEF TakeAudit, AuditMissed
  <2>2. game[p] \in Games /\ Len(ends[p]) = game[p] /\ ends' = ends
    BY <2>1 DEF FiledInv, FileRow
  <2>3. CASE game[p] < NumGames
    <3>1. BeginSubGame(p, game[p] + 1)
      BY <2>1, <2>3 DEF FileRow
    <3> QED
      BY <1>0, <2>1, <2>2, <3>1, BeginSteps DEF Plays, Games
  <2>4. CASE ~(game[p] < NumGames)
    <3>1. /\ net' = net \cup {ConsensusTo(Other(p), RowsOf(p, Append(reports[p], report)))}
          /\ Goto(p, "consensus", "call") /\ UNCHANGED <<progressVars, box>>
      BY <2>1, <2>4 DEF FileRow
    <3>2. SentTurns' = SentTurns /\ SentAudits' = SentAudits
      BY <3>1 DEF SentTurns, SentAudits, ConsensusTo
    <3> QED
      BY <1>0, <2>1, <2>2, <3>1, <3>2, MoveSteps DEF Plays, MovesOn, Closed
  <2> QED
    BY <2>3, <2>4
<1> QED
  BY <1>1, <1>2, <1>3, <1>4, <1>5, <1>6, <1>7, <1>8, <1>9 DEF Main

\* And every step at all.
LEMMA StepKinds ==
  ASSUME CountInv, [Next]_vars
  PROVE  /\ natural' = natural
         /\ \/ \E p \in Peers : Plays(p) /\ Still(Other(p))
            \/ \E m \in net : Arrives(m)
            \/ Nothing
<1>1. ASSUME NEW m \in net, Deliver(m)
      PROVE  Arrives(m) /\ natural' = natural
  <2> USE DEF CountInv, TypeOK
  <2>1. m \in Messages /\ m.to \in Peers /\ box[m.to] \in Mailbox
    BY DEF Messages
  <2>2. /\ UNCHANGED <<phase, at, game, sealed, seen, ends, natural>>
        /\ net' = net \ {m} /\ box' = [box EXCEPT ![m.to] = Store(@, m)]
    BY <1>1 DEF Deliver, progressVars, resultVars, setupVars
  <2>3. SentTurns' = SentTurns \ {m} /\ SentAudits' = SentAudits \ {m}
    BY <2>2 DEF SentTurns, SentAudits
  <2>4. \A p \in Peers \ {m.to} : Held(p)
    BY <2>2 DEF Held
  <2>5. box'[m.to] = Store(box[m.to], m)
    BY <2>1, <2>2
  <2>6. CASE m.kind = "turn"
    BY <2>1, <2>2, <2>3, <2>4, <2>5, <2>6 DEF Arrives, Store, record_turn, Mailbox
  <2>7. CASE m.kind = "audit"
    BY <2>1, <2>2, <2>3, <2>4, <2>5, <2>7 DEF Arrives, Store, record_audit, Mailbox
  <2>8. CASE m.kind = "offer"
    BY <2>1, <2>2, <2>3, <2>4, <2>5, <2>8 DEF Arrives, Store, record_offer, Mailbox
  <2>9. CASE m.kind = "consensus"
    BY <2>1, <2>2, <2>3, <2>4, <2>5, <2>9 DEF Arrives, Store, record_consensus, Mailbox
  <2> QED
    BY <2>1, <2>6, <2>7, <2>8, <2>9 DEF Messages
<1>2. CASE UNCHANGED vars
  BY <1>2 DEF vars, setupVars, progressVars, resultVars, Nothing, Still, Held, SentTurns, SentAudits
<1> QED
  BY <1>1, <1>2, MainSteps DEF Next, Finished

-----------------------------------------------------------------------------
(* What the thief said.                                                    *)

EndOf(says) == IF says = "caught" THEN "capture" ELSE "survival"

\* q is in the call of a turn, or raised in one.
Calling(q) == phase[q] \in {"turn", "final"} /\ at[q] = "call"

\* q, the thief of sub-game n, ended it with what says tells, or is in the
\* call that says so, or raised while in it.
Said(q, n, says) ==
  /\ RoleIn(q, n) = "thief"
  /\ n <= Len(ends[q]) => ends[q][n] = EndOf(says)
  /\ n > Len(ends[q]) =>
       /\ game[q] = n
       /\ phase[q] = "raised" \/ (Calling(q) /\ SaysIn(q, sealed[q]) = says)

\* A turn in flight is the one of its sender's call, or its sender raised.
SentInv ==
  \A m \in SentTurns :
    LET q == Other(m.to) IN
    /\ m.turn.game = game[q] /\ game[q] <= game[m.to] /\ m.turn.step = sealed[q]
    /\ phase[q] = "raised" \/ (Calling(q) /\ m.turn.says = SaysIn(q, sealed[q]))
    /\ m.turn.says # "nothing" => Said(q, m.turn.game, m.turn.says)

\* A turn in a mailbox is of this sub-game or left over from the one before.
HeldInv ==
  \A p \in Peers : \A t \in box[p].turns :
    /\ t.game \in {game[p] - 1, game[p]} /\ t.game <= game[Other(p)]
    /\ t.says # "nothing" => Said(Other(p), t.game, t.says)

FinalInv == \A p \in Peers : phase[p] = "final" => Role(p) = "thief"

PoliceInv ==
  \A p \in Peers : \A n \in 1 .. Len(ends[p]) :
    RoleIn(p, n) # "thief" /\ ends[p][n] # "timeout" =>
      \E says \in Says \ {"nothing"} : ends[p][n] = EndOf(says) /\ Said(Other(p), n, says)

SaidInv == FinalInv /\ SentInv /\ HeldInv /\ (Complementary => PoliceInv)

\* What a peer said of a sub-game stays said.
LEMMA SaidStays ==
  ASSUME CountInv, natural' = natural, NEW p \in Peers, Plays(p) \/ Still(p),
         NEW n \in Nat \ {0}, NEW says \in Says \ {"nothing"}, Said(p, n, says)
  PROVE  Said(p, n, says)'
<1> USE SeriesAssumption DEF CountInv
<1>0. RoleIn(p, n)' = RoleIn(p, n) /\ ends[p] \in Seq(EndReasons) /\ says # "nothing"
  BY DEF RoleIn, TypeOK
<1>1. CASE Still(p)
  BY <1>0, <1>1 DEF Still, Said, Calling, SaysIn, Role, RoleIn
<1>2. CASE Plays(p) /\ n <= Len(ends[p])
  <2>1. ends'[p] = ends[p] \/ \E end : ends'[p] = Append(ends[p], end)
    BY <1>2 DEF Plays, Begins, Moves, Sends, Admits, Seals, GoesOn, EndsReading, EndsByTurn,
       EndsCaught, EndsLate, Finishes
  <2>2. n <= Len(ends'[p]) /\ ends'[p][n] = ends[p][n]
    BY <1>0, <1>2, <2>1
  <2> QED
    BY <1>0, <1>2, <2>2 DEF Said
<1>3. CASE Plays(p) /\ n > Len(ends[p])
  <2>1. /\ RoleIn(p, n) = "thief" /\ game[p] = n
        /\ phase[p] = "raised" \/ (Calling(p) /\ SaysIn(p, sealed[p]) = says)
    BY <1>3 DEF Said
  <2>2. phase[p] # "raised"
    BY <1>3 DEF Plays, Begins, Moves, MovesOn, Resending, Playing, Closed, Sends, Admits, GoesOn, Reads,
       EndsReading, EndsByTurn, EndsCaught, EndsLate
  <2>3. \/ Moves(p) /\ phase'[p] = "raised"
        \/ EndsByTurn(p) \/ EndsCaught(p)
    BY <1>0, <1>3, <2>1, <2>2
       DEF Plays, Begins, Moves, MovesOn, Resending, Closed, Sends, Admits, GoesOn, Reads,
           EndsReading, EndsLate, Calling, SaysIn
  <2>4. CASE Moves(p) /\ phase'[p] = "raised"
    BY <1>0, <1>3, <2>1, <2>4 DEF Moves, Said
  <2>5. CASE EndsByTurn(p) \/ EndsCaught(p)
    <3>1. PICK end : /\ Finishes(p, end) /\ end = EndOf(says)
                     /\ phase[p] \in {"turn", "final"}
      BY <2>1, <2>2, <2>5 DEF EndsByTurn, EndsCaught, EndOf, SaysIn
    <3>2. Len(ends[p]) = n - 1
      BY <2>1, <3>1 DEF FiledInv, Playing
    <3>3. n <= Len(ends'[p]) /\ ends'[p][n] = end
      BY <1>0, <3>1, <3>2 DEF Finishes
    <3> QED
      BY <1>0, <2>1, <3>1, <3>3 DEF Said
  <2> QED
    BY <2>3, <2>4, <2>5
<1> QED
  BY <1>1, <1>2, <1>3 DEF TypeOK

\* Once a call has returned nothing of it is in flight.
LEMMA ReturnedEmpty ==
  ASSUME CountInv, SentInv, NEW p \in Peers, phase[p] # "raised", ~Calling(p) \/ Returned(p),
         NEW m \in SentTurns
  PROVE  Other(m.to) # p
<1> SUFFICES ASSUME Other(m.to) = p PROVE FALSE
  OBVIOUS
<1>1. m \in Messages /\ m.kind = "turn"
  BY DEF SentTurns, CountInv, TypeOK
<1>2. m.turn \in TurnBody /\ m.to \in Peers
  BY <1>1 DEF Messages
<1>3. /\ Calling(p) /\ m.turn.step = sealed[p] /\ m.turn.says = SaysIn(p, sealed[p])
      /\ m.turn.game = game[p]
  BY DEF SentInv
<1>4. m.to = Other(p)
  BY <1>2, OtherPeer
<1>5. m = TurnTo(Other(p), game[p], sealed[p], SaysIn(p, sealed[p]))
  BY <1>1, <1>2, <1>3, <1>4 DEF TurnTo, Messages, TurnBody
<1>6. MessageOf(p) = m
  BY <1>3, <1>5 DEF MessageOf, Calling
<1> QED
  BY <1>3, <1>6 DEF Returned, Calling, SentTurns

\* The sub-game of a peer changes only as it begins the next.
LEMMA GamesGrow ==
  ASSUME CountInv, NEW p \in Peers, Plays(p) \/ Still(p)
  PROVE  /\ ~Begins(p) => game'[p] = game[p]
         /\ game[p] \in Nat /\ game'[p] \in Nat /\ game'[p] >= game[p]
<1>1. ~Begins(p) => game'[p] = game[p]
  BY DEF Plays, Moves, Sends, Admits, Seals, GoesOn, EndsReading, EndsByTurn, EndsCaught, EndsLate,
     Finishes, Still
<1>2. Begins(p) => game'[p] = game[p] + 1
  BY DEF Begins
<1>3. game[p] \in Nat
  BY SeriesAssumption DEF CountInv, TypeOK
<1> QED
  BY <1>1, <1>2, <1>3

\* What SentInv says of one message.
Sent(m) ==
  LET q == Other(m.to) IN
  /\ m.turn.game = game[q] /\ game[q] <= game[m.to] /\ m.turn.step = sealed[q]
  /\ phase[q] = "raised" \/ (Calling(q) /\ m.turn.says = SaysIn(q, sealed[q]))
  /\ m.turn.says # "nothing" => Said(q, m.turn.game, m.turn.says)

\* A peer that seals a turn says in it what its role lets it say.
LEMMA SealsSent ==
  ASSUME CountInv, FinalInv, Abreast, natural' = natural, NEW p \in Peers, Still(Other(p)),
         Sends(p) \/ (\E t \in box[p].turns : Admits(p, t)),
         NEW m \in SentTurns', m \notin SentTurns
  PROVE  Sent(m)'
<1> USE SeriesAssumption, OtherPeer DEF CountInv
<1>1. PICK says : /\ Seals(p, says) /\ says = SaysIn(p, sealed[p])' /\ Calling(p)'
                  /\ phase[p] \in {"think", "turn"}
                  /\ phase'[p] = "final" => Role(p) = "thief"
  <2>1. CASE Sends(p)
    <3>1. SaysIn(p, sealed[p])' = SaysIn(p, sealed[p] + 1)
      BY <2>1 DEF Sends, Seals, SaysIn, Role, RoleIn, TypeOK
    <3> QED
      BY <2>1, <3>1 DEF Sends, Seals, Calling
  <2>2. ASSUME NEW t, Admits(p, t)
        PROVE  /\ Seals(p, "caught") /\ SaysIn(p, sealed[p])' = "caught" /\ Calling(p)'
               /\ phase[p] = "turn" /\ Role(p) = "thief"
    BY <2>2 DEF Admits, Reads, Seals, SaysIn, Calling
  <2> QED
    BY <2>1, <2>2
<1>2. /\ game[p] \in Games /\ Len(ends[p]) = game[p] - 1 /\ game[p] <= game[Other(p)]
      /\ game'[p] = game[p] /\ game'[Other(p)] = game[Other(p)] /\ ends'[p] = ends[p]
  <2>1. phase[p] \in Playing /\ Agreed(p)
    BY <1>1 DEF Playing, Agreed
  <2> QED
    BY <1>1, <2>1 DEF FiledInv, Abreast, Seals, Still
<1>3. /\ m.to = Other(p) /\ Other(m.to) = p /\ m.turn.game = game[p]
      /\ m.turn.step = sealed'[p] /\ m.turn.says = says
  BY <1>1 DEF Seals, TurnTo
<1>4. says # "nothing" => RoleIn(p, game[p])' = "thief"
  BY <1>1, <1>2 DEF SaysIn, Role, RoleIn
<1>5. says # "nothing" => Said(p, game[p], says)'
  BY <1>1, <1>2, <1>4 DEF Said, Games
<1> QED
  BY <1>1, <1>2, <1>3, <1>5 DEF Sent

\* A turn in flight stays what it is while its sender is in the call.
LEMMA SentStays ==
  ASSUME CountInv, SentInv, natural' = natural, NEW m \in SentTurns,
         \A r \in Peers : Plays(r) \/ Still(r)
  PROVE  Sent(m)'
<1> USE OtherPeer DEF CountInv
<1>1. PICK q \in Peers : q = Other(m.to) /\ m.to = Other(q) /\ m.turn \in TurnBody
  BY DEF SentTurns, TypeOK, Messages
<1>2. Sent(m)
  BY DEF SentInv, Sent
<1>3. game'[q] = game[q] /\ \A r \in Peers : game'[r] >= game[r] /\ {game[r], game'[r]} \subseteq Nat
  <2>1. ~Begins(q)
    BY <1>1, <1>2 DEF Sent, Begins, Calling
  <2> QED
    BY <2>1, GamesGrow
<1>4. /\ sealed'[q] = sealed[q]
      /\ \/ phase'[q] = "raised"
         \/ phase'[q] = phase[q] /\ at'[q] = at[q] /\ phase[q] # "raised"
  <2>1. CASE Still(q)
    BY <2>1 DEF Still
  <2>2. CASE Plays(q)
    <3>1. phase[q] # "raised"
      BY <2>2 DEF Plays, Begins, Moves, MovesOn, Resending, Playing, Closed, Sends, Admits, GoesOn,
         Reads, EndsReading, EndsByTurn, EndsCaught, EndsLate
    <3>2. Calling(q) /\ ~Returned(q)
      BY <1>1, <1>2, <3>1, ReturnedEmpty DEF Sent
    <3> QED
      BY <2>2, <3>2 DEF Calling, Plays, Begins, Moves, MovesOn, Resending, Closed, Sends, Admits,
         GoesOn, Reads, EndsReading, EndsByTurn, EndsCaught, EndsLate
  <2> QED
    BY <2>1, <2>2
<1>5. m.turn.says # "nothing" => Said(q, m.turn.game, m.turn.says)'
  BY <1>1, <1>2, SaidStays, SeriesAssumption DEF Sent, TurnBody, Games
<1>6. SaysIn(q, sealed[q])' = SaysIn(q, sealed[q]) \/ phase'[q] = "raised"
  BY <1>3, <1>4 DEF SaysIn, Role, RoleIn
<1>7. m.turn.game = game'[q] /\ game'[q] <= game'[Other(q)]
  BY <1>1, <1>2, <1>3 DEF Sent, TypeOK
<1> QED
  BY <1>1, <1>2, <1>4, <1>5, <1>6, <1>7 DEF Sent, Calling

\* Only Seals adds a turn to those in flight.
LEMMA NextSent ==
  ASSUME CountInv, Abreast, FinalInv, SentInv, [Next]_vars
  PROVE  SentInv'
<1> USE OtherPeer
<1> SUFFICES ASSUME NEW m \in SentTurns' PROVE Sent(m)'
  BY DEF SentInv, Sent
<1>0. natural' = natural
  BY StepKinds
<1>1. ASSUME NEW p \in Peers, Plays(p), Still(Other(p))
      PROVE  Sent(m)'
  <2>1. \A r \in Peers : Plays(r) \/ Still(r)
    BY <1>1 DEF Peers, Other
  <2>2. CASE m \in SentTurns
    BY <1>0, <2>1, <2>2, SentStays
  <2>3. CASE m \notin SentTurns
    BY <1>0, <1>1, <2>3, SealsSent
       DEF Plays, Begins, Moves, GoesOn, EndsReading, EndsByTurn, EndsCaught, EndsLate, Finishes
  <2> QED
    BY <2>2, <2>3
<1>2. ASSUME NEW o \in net, Arrives(o)
      PROVE  Sent(m)'
  BY <1>0, <1>2 DEF Arrives, SentInv, Sent, Said, Calling, SaysIn, Role, RoleIn
<1>3. CASE Nothing
  <2>1. m \in SentTurns /\ \A r \in Peers : Still(r)
    BY <1>3 DEF Nothing
  <2> QED
    BY <1>0, <2>1, SentStays
<1> QED
  BY <1>1, <1>2, <1>3, StepKinds

\* A turn that is stored was in flight, and a sub-game begins with none.
LEMMA NextHeld ==
  ASSUME CountInv, Abreast, SentInv, HeldInv, [Next]_vars
  PROVE  HeldInv'
<1> USE OtherPeer, SeriesAssumption
<1> SUFFICES ASSUME NEW p \in Peers, NEW t \in box'[p].turns
             PROVE  /\ t.game \in {game'[p] - 1, game'[p]} /\ t.game <= game'[Other(p)]
                    /\ t.says # "nothing" => Said(Other(p), t.game, t.says)'
  BY DEF HeldInv
<1>0. natural' = natural
  BY StepKinds
<1>1. ASSUME NEW r \in Peers, Plays(r) \/ Still(r)
      PROVE  box'[r].turns = {} \/ (box'[r].turns = box[r].turns /\ game'[r] = game[r])
  BY <1>1 DEF Plays, Begins, Moves, Sends, Admits, Seals, GoesOn, EndsReading, EndsByTurn, EndsCaught,
     EndsLate, Finishes, Still, Held
<1>2. CASE \A r \in Peers : Plays(r) \/ Still(r)
  <2>1. t \in box[p].turns /\ game'[p] = game[p] /\ t \in TurnBody
    BY <1>1, <1>2 DEF CountInv, TypeOK, Mailbox
  <2>2. t.game \in {game'[p] - 1, game'[p]} /\ t.game <= game'[Other(p)]
    <3>1. game'[Other(p)] >= game[Other(p)] /\ {game[Other(p)], game'[Other(p)]} \subseteq Nat
      BY <1>2, GamesGrow
    <3>2. t.game \in Nat
      BY <2>1 DEF TurnBody, Games
    <3> QED
      BY <2>1, <3>1, <3>2 DEF HeldInv
  <2>3. t.says # "nothing" => Said(Other(p), t.game, t.says)'
    BY <1>0, <1>2, <2>1, SaidStays DEF HeldInv, TurnBody, Games
  <2> QED
    BY <2>2, <2>3
<1>3. ASSUME NEW m \in net, Arrives(m)
      PROVE  /\ t.game \in {game'[p] - 1, game'[p]} /\ t.game <= game'[Other(p)]
             /\ t.says # "nothing" => Said(Other(p), t.game, t.says)'
  <2>1. UNCHANGED <<phase, at, game, sealed, ends>>
    BY <1>3 DEF Arrives
  <2>2. \A n, says : Said(Other(p), n, says) => Said(Other(p), n, says)'
    BY <1>0, <2>1 DEF Said, Calling, SaysIn, Role, RoleIn
  <2>3. CASE t \in box[p].turns
    BY <2>1, <2>2, <2>3 DEF HeldInv
  <2>4. CASE t \notin box[p].turns
    <3>1. m.to = p /\ m \in SentTurns /\ t = m.turn
      BY <1>3, <2>4 DEF Arrives, Held, SentTurns
    <3>2. /\ t.game = game[Other(p)] /\ game[Other(p)] <= game[p]
          /\ t.says # "nothing" => Said(Other(p), t.game, t.says)
      BY <3>1 DEF SentInv
    <3>3. game[p] <= game[Other(p)] + 1 /\ game[p] \in Nat /\ game[Other(p)] \in Nat
      BY DEF Abreast, CountInv, TypeOK
    <3> QED
      BY <2>1, <2>2, <3>2, <3>3
  <2> QED
    BY <2>3, <2>4
<1> QED
  BY <1>2, <1>3, StepKinds DEF Nothing, Peers, Other

\* Only a thief admits a capture.
LEMMA NextFinal ==
  ASSUME CountInv, FinalInv, [Next]_vars
  PROVE  FinalInv'
<1> SUFFICES ASSUME NEW p \in Peers, phase'[p] = "final"
             PROVE  RoleIn(p, game[p])' = "thief"
  BY DEF FinalInv, Role
<1>0. natural' = natural
  BY StepKinds
<1>1. ASSUME NEW r \in Peers, Plays(r)
      PROVE  r = p => game'[p] = game[p] /\ Role(p) = "thief"
  BY <1>1 DEF Plays, Begins, Moves, MovesOn, Resending, Closed, Sends, Admits, Seals, GoesOn, EndsReading,
     EndsByTurn, EndsCaught, EndsLate, Finishes
<1>2. phase'[p] = phase[p] /\ game'[p] = game[p] => Role(p) = "thief"
  BY DEF FinalInv
<1>3. game'[p] = game[p] /\ Role(p) = "thief"
  <2>1. CASE \E r \in Peers : Plays(r) /\ Still(Other(r))
    BY <1>1, <1>2, <2>1 DEF Still, Peers, Other
  <2> QED
    BY <1>2, <2>1, StepKinds DEF Arrives, Nothing, Still
<1> QED
  BY <1>0, <1>3 DEF Role, RoleIn

\* What a peer that is not the thief ends a sub-game with, if no turn was
\* late, is what the other, the thief, said of it: what a left-over turn says
\* was said by the thief of the sub-game before, which is now the police.
LEMMA PoliceReadsSaid ==
  ASSUME CountInv, HeldInv, Complementary, NEW p \in Peers, NEW t \in box[p].turns, EndsReading(p, t)
  PROVE  \E says \in Says \ {"nothing"} :
           EndSeen(p, t) = EndOf(says) /\ Said(Other(p), game[p], says)
<1> USE OtherPeer, SeriesAssumption DEF CountInv
<1>1. t \in TurnBody /\ game[p] \in Nat
  BY DEF TypeOK, Mailbox
<1>2. t.says \in Says \ {"nothing"} /\ EndSeen(p, t) = EndOf(t.says)
  BY <1>1 DEF EndsReading, EndSeen, EndOf, Says, TurnBody, TurnNumbers
<1>3. t.game \in {game[p] - 1, game[p]} /\ Said(Other(p), t.game, t.says)
  BY <1>2 DEF HeldInv
<1>4. t.game # game[p] - 1
  <2>1. natural[1] # natural[2] /\ \A r \in Peers : natural[r] \in Roles
    BY DEF Complementary, TypeOK
  <2>2. Role(p) # "thief" /\ RoleIn(Other(p), t.game) = "thief"
    BY <1>3 DEF EndsReading, Said
  <2> QED
    BY <1>1, <2>1, <2>2 DEF Role, RoleIn, Opposite, Roles, Peers, Other
<1> QED
  BY <1>2, <1>3, <1>4

\* What the police files was said, and stays said.
LEMMA NextPolice ==
  ASSUME CountInv, HeldInv, FinalInv, Complementary, PoliceInv, [Next]_vars
  PROVE  PoliceInv'
<1> USE OtherPeer, SeriesAssumption DEF CountInv
<1> SUFFICES ASSUME NEW p \in Peers, NEW n \in 1 .. Len(ends'[p]),
                    RoleIn(p, n)' # "thief", ends'[p][n] # "timeout"
             PROVE  \E says \in Says \ {"nothing"} :
                      ends'[p][n] = EndOf(says) /\ Said(Other(p), n, says)'
  BY DEF PoliceInv
<1>0. natural' = natural /\ RoleIn(p, n) # "thief" /\ ends[p] \in Seq(EndReasons)
  BY StepKinds DEF RoleIn, TypeOK
<1>1. ASSUME \A r \in Peers : Plays(r) \/ Still(r), NEW says \in Says \ {"nothing"},
             Said(Other(p), n, says)
      PROVE  Said(Other(p), n, says)'
  BY <1>0, <1>1, SaidStays
<1>2. CASE n \in 1 .. Len(ends[p]) /\ ends'[p][n] = ends[p][n]
  <2>1. PICK says \in Says \ {"nothing"} : ends[p][n] = EndOf(says) /\ Said(Other(p), n, says)
    BY <1>0, <1>2 DEF PoliceInv
  <2>2. Said(Other(p), n, says)'
    <3>1. CASE \A r \in Peers : Plays(r) \/ Still(r)
      BY <1>1, <2>1, <3>1
    <3>2. ASSUME NEW m \in net, Arrives(m)
          PROVE  Said(Other(p), n, says)'
      BY <1>0, <2>1, <3>2 DEF Arrives, Said, Calling, SaysIn, Role, RoleIn
    <3> QED
      BY <3>1, <3>2, StepKinds DEF Nothing, Peers, Other
  <2> QED
    BY <1>2, <2>1, <2>2
<1>3. CASE ~(n \in 1 .. Len(ends[p]) /\ ends'[p][n] = ends[p][n])
  <2>1. ends'[p] # ends[p]
    BY <1>3
  <2>2. Plays(p) /\ Still(Other(p))
    <3>1. PICK r \in Peers : Plays(r) /\ Still(Other(r))
      BY <2>1, StepKinds DEF Arrives, Nothing, Still
    <3>2. r = p
      BY <2>1, <3>1 DEF Still, Peers, Other
    <3> QED
      BY <3>1, <3>2
  <2>3. \/ EndsByTurn(p) \/ EndsCaught(p) \/ EndsLate(p)
        \/ \E t \in box[p].turns : EndsReading(p, t)
    BY <2>1, <2>2 DEF Plays, Begins, Moves, Sends, Admits, Seals, GoesOn
  <2>9. PICK end : /\ Finishes(p, end) /\ phase[p] \in Playing
                   /\ EndsLate(p) => end = "timeout"
                   /\ \A t \in box[p].turns : EndsReading(p, t) => end = EndSeen(p, t)
    <3>1. ASSUME NEW t, NEW end, EndsReading(p, t), Finishes(p, end)
          PROVE  end = EndSeen(p, t)
      <4>1. Append(ends[p], end) = Append(ends[p], EndSeen(p, t))
        BY <3>1 DEF EndsReading, Finishes
      <4> QED
        BY <1>0, <4>1
    <3>2. ASSUME NEW end, EndsLate(p), Finishes(p, end)
          PROVE  end = "timeout"
      <4>1. Append(ends[p], end) = Append(ends[p], "timeout")
        BY <3>2 DEF EndsLate, Finishes
      <4> QED
        BY <1>0, <4>1
    <3>3. phase[p] \in Playing /\ \E end : Finishes(p, end)
      BY <2>3 DEF EndsByTurn, EndsCaught, EndsLate, EndsReading, Reads, Playing
    <3> QED
      BY <3>1, <3>2, <3>3
  <2>4. n = game[p] /\ ends'[p][n] = end
    <3>1. Len(ends[p]) = game[p] - 1 /\ game[p] \in Nat
      BY <2>9 DEF FiledInv, Games
    <3> QED
      BY <1>0, <1>3, <2>9, <3>1 DEF Finishes
  <2>5. Role(p) # "thief" /\ end # "timeout"
    BY <1>0, <2>4 DEF Role
  <2>6. ~EndsByTurn(p) /\ ~EndsCaught(p)
    BY <2>5 DEF EndsByTurn, EndsCaught, SaysIn, FinalInv
  <2>7. PICK says \in Says \ {"nothing"} : end = EndOf(says) /\ Said(Other(p), n, says)
    BY <2>3, <2>9, <2>4, <2>5, <2>6, PoliceReadsSaid
  <2>8. Said(Other(p), n, says)'
    BY <1>1, <2>2, <2>7 DEF Peers, Other
  <2> QED
    BY <2>4, <2>7, <2>8
<1> QED
  BY <1>2, <1>3

\* The roles the operators set stay.
LEMMA NextComplementary ==
  ASSUME CountInv, [Next]_vars
  PROVE  Complementary' = Complementary
BY StepKinds DEF Complementary

\* What was said, and who said it, at every step.
LEMMA InductiveSaid == Spec => []SaidInv
<1>1. Init => SaidInv
  <2> SUFFICES ASSUME Init PROVE SaidInv
    OBVIOUS
  <2> QED
    BY OtherPeer DEF Init, SaidInv, FinalInv, SentInv, SentTurns, HeldInv, PoliceInv, EmptyBox
<1>2. IInv /\ SaidInv /\ [Next]_vars => SaidInv'
  <2> SUFFICES ASSUME IInv, SaidInv, [Next]_vars PROVE SaidInv'
    OBVIOUS
  <2>1. CountInv /\ Abreast
    BY DEF IInv, CountInv
  <2>2. FinalInv' /\ SentInv' /\ HeldInv'
    BY <2>1, NextFinal, NextSent, NextHeld DEF SaidInv
  <2>3. Complementary' => PoliceInv'
    BY <2>1, NextComplementary, NextPolice DEF SaidInv
  <2> QED
    BY <2>2, <2>3 DEF SaidInv
<1> QED
  BY <1>1, <1>2, InductiveIInv, PTL DEF Spec

\* What the police files of a sub-game, unless it is a timeout, is what its
\* thief said: filed the same, said in the turn it is sending, or raised in
\* sending.
THEOREM PoliceFilesWhatWasSaid == Spec => []PoliceEndsAsThiefSaid
<1>1. IInv /\ SaidInv => PoliceEndsAsThiefSaid
  <2> SUFFICES ASSUME IInv, SaidInv, Complementary, NEW p \in Peers, NEW n \in 1 .. Len(ends[p]),
                      RoleIn(p, n) = "police", ends[p][n] # "timeout"
               PROVE  LET q == Other(p) IN
                      IF n <= Len(ends[q])
                      THEN ends[q][n] = ends[p][n]
                      ELSE /\ game[q] = n
                           /\ \/ phase[q] = "raised"
                              \/ at[q] = "call" /\ SaysIn(q, sealed[q]) # "nothing"
    BY DEF PoliceEndsAsThiefSaid
  <2>1. PICK says \in Says \ {"nothing"} : ends[p][n] = EndOf(says) /\ Said(Other(p), n, says)
    BY DEF SaidInv, PoliceInv
  <2>2. Len(ends[Other(p)]) \in Nat
    BY OtherPeer DEF IInv, TypeOK
  <2> QED
    BY <2>1, <2>2 DEF Said, Calling
<1> QED
  BY <1>1, InductiveIInv, InductiveSaid, PTL

-----------------------------------------------------------------------------
(* How far the peers have come, and what is in flight.                     *)

PaceInv ==
  \A p \in Peers :
    /\ game[p] - 1 <= Len(ends[p]) /\ Len(ends[p]) <= game[p]
    /\ Len(ends[p]) <= game[Other(p)]
    /\ phase[p] = "raised" => Len(ends[p]) < game[p]
    /\ game[p] > game[Other(p)] => sealed[p] = 0

\* A peer has at most one turn in flight.
OneInv == \A m, o \in SentTurns : m.to = o.to => m = o

\* An audit envelope claims what its sender filed.
Claimed(p, a) == a.game <= Len(ends[Other(p)]) /\ a.claim = ends[Other(p)][a.game]
ClaimInv ==
  /\ \A m \in SentAudits : Claimed(m.to, m.audit)
  /\ \A p \in Peers : \A a \in box[p].audits : Claimed(p, a)

\* The steps of one main thread, and of both.
LEMMA TwoPeers ==
  ASSUME CountInv, [Next]_vars, NEW p \in Peers
  PROVE  /\ natural' = natural
         /\ \/ Plays(p) /\ Still(Other(p))
            \/ Plays(Other(p)) /\ Still(p)
            \/ \E m \in net : Arrives(m)
            \/ Nothing
BY StepKinds DEF Peers, Other

\* Which of the steps end a sub-game.
LEMMA EndKinds ==
  ASSUME CountInv, NEW p \in Peers, Plays(p)
  PROVE  \/ ends'[p] = ends[p]
         \/ /\ phase[p] \in {"turn", "final"} /\ phase'[p] = "audit" /\ game'[p] = game[p]
            /\ sealed'[p] = sealed[p]
            /\ game[p] \in Games /\ Len(ends[p]) = game[p] - 1 /\ Len(ends'[p]) = game[p]
            /\ ends[p] = SubSeq(ends'[p], 1, game[p] - 1)
            /\ \E end \in EndReasons : ends'[p] = Append(ends[p], end)
            /\ \/ EndsByTurn(p) \/ EndsCaught(p) \/ EndsLate(p)
               \/ \E t \in box[p].turns : EndsReading(p, t)
<1> SUFFICES ASSUME ends'[p] # ends[p]
             PROVE  /\ phase[p] \in {"turn", "final"} /\ phase'[p] = "audit" /\ game'[p] = game[p]
                    /\ sealed'[p] = sealed[p]
                    /\ game[p] \in Games /\ Len(ends[p]) = game[p] - 1 /\ Len(ends'[p]) = game[p]
                    /\ ends[p] = SubSeq(ends'[p], 1, game[p] - 1)
                    /\ \E end \in EndReasons : ends'[p] = Append(ends[p], end)
                    /\ \/ EndsByTurn(p) \/ EndsCaught(p) \/ EndsLate(p)
                       \/ \E t \in box[p].turns : EndsReading(p, t)
  OBVIOUS
<1> USE SeriesAssumption DEF CountInv
<1>1. EndsByTurn(p) \/ EndsCaught(p) \/ EndsLate(p) \/ \E t \in box[p].turns : EndsReading(p, t)
  BY DEF Plays, Begins, Moves, Sends, Admits, Seals, GoesOn
<1>2. PICK end \in EndReasons : Finishes(p, end) /\ phase[p] \in {"turn", "final"}
  BY <1>1 DEF EndsByTurn, EndsCaught, EndsLate, EndsReading, EndSeen, Reads, EndReasons
<1>3. game[p] \in Games /\ Len(ends[p]) = game[p] - 1 /\ ends[p] \in Seq(EndReasons)
  BY <1>2 DEF FiledInv, Playing, TypeOK
<1>4. Len(ends'[p]) = game[p] /\ ends[p] = SubSeq(ends'[p], 1, game[p] - 1)
  BY <1>2, <1>3 DEF Finishes, Games
<1> QED
  BY <1>1, <1>2, <1>3, <1>4 DEF Finishes

\* A peer that begins a sub-game has sealed nothing in it, and one that seals
\* in a sub-game plays it with the other there.
LEMMA NextPace ==
  ASSUME CountInv, Abreast, PaceInv, [Next]_vars
  PROVE  PaceInv'
<1> USE OtherPeer, SeriesAssumption DEF CountInv
<1> SUFFICES ASSUME NEW p \in Peers
             PROVE  /\ game'[p] - 1 <= Len(ends'[p]) /\ Len(ends'[p]) <= game'[p]
                    /\ Len(ends'[p]) <= game'[Other(p)]
                    /\ phase'[p] = "raised" => Len(ends'[p]) < game'[p]
                    /\ game'[p] > game'[Other(p)] => sealed'[p] = 0
  BY DEF PaceInv
<1> DEFINE q == Other(p)
<1>0. /\ {game[p], game[q], Len(ends[p])} \subseteq Nat
      /\ game[p] - 1 <= Len(ends[p]) /\ Len(ends[p]) <= game[p] /\ Len(ends[p]) <= game[q]
      /\ phase[p] = "raised" => Len(ends[p]) < game[p]
      /\ game[p] > game[q] => sealed[p] = 0
  BY DEF PaceInv, TypeOK
<1>1. CASE Plays(p) /\ Still(q)
  <2>1. CASE Begins(p)
    BY <1>0, <1>1, <2>1 DEF Begins, Still
  <2>2. CASE ends'[p] # ends[p]
    BY <1>0, <1>1, <2>2, EndKinds DEF Still, Abreast, Agreed, Games
  <2>3. CASE ~Begins(p) /\ ends'[p] = ends[p]
    <3>1. game'[p] = game[p] /\ game'[q] = game[q]
      BY <1>1, <2>3, GamesGrow DEF Still
    <3>2. phase'[p] = "raised" => phase[p] \in Playing
      BY <1>1, <2>3
         DEF Plays, Moves, MovesOn, Resending, Playing, Closed, Sends, Admits, Seals, GoesOn, EndsReading,
             EndsByTurn, EndsCaught, EndsLate, Finishes
    <3>3. sealed'[p] = sealed[p] \/ game[p] <= game[q]
      BY <1>1, <2>3
         DEF Plays, Moves, Sends, Admits, Reads, Seals, GoesOn, EndsReading, EndsByTurn,
             EndsCaught, EndsLate, Finishes, Abreast, Agreed
    <3> QED
      BY <1>0, <2>3, <3>1, <3>2, <3>3 DEF FiledInv, Games
  <2> QED
    BY <2>1, <2>2, <2>3
<1>2. CASE Plays(q) /\ Still(p)
  <2>1. game'[q] \in Nat /\ game'[q] >= game[q]
    BY <1>2, GamesGrow
  <2> QED
    BY <1>0, <1>2, <2>1 DEF Still
<1>3. CASE (\E m \in net : Arrives(m)) \/ Nothing
  BY <1>0, <1>3 DEF Arrives, Nothing, Still
<1> QED
  BY <1>1, <1>2, <1>3, TwoPeers

\* It seals no turn before the call of the last one is over.
LEMMA NextOne ==
  ASSUME CountInv, SentInv, OneInv, [Next]_vars
  PROVE  OneInv'
<1> USE OtherPeer
<1>1. ASSUME NEW p \in Peers, Plays(p)
      PROVE  OneInv'
  <2>1. CASE SentTurns' = SentTurns
    BY <2>1 DEF OneInv
  <2>2. CASE SentTurns' # SentTurns
    <3>1. /\ phase[p] = "think" \/ (phase[p] = "turn" /\ at[p] = "wait")
          /\ \E says : Seals(p, says)
      BY <1>1, <2>2 DEF Plays, Begins, Moves, Sends, Admits, GoesOn, Reads, EndsReading, EndsByTurn,
         EndsCaught, EndsLate, Finishes
    <3>2. PICK o : o.to = Other(p) /\ SentTurns' = SentTurns \cup {o}
      BY <3>1 DEF Seals, TurnTo
    <3>3. \A m \in SentTurns : m.to # Other(p)
      BY <3>1, ReturnedEmpty DEF Calling
    <3> QED
      BY <3>2, <3>3 DEF OneInv
  <2> QED
    BY <2>1, <2>2
<1>2. ASSUME NEW m \in net, Arrives(m)
      PROVE  OneInv'
  BY <1>2 DEF OneInv, Arrives
<1> QED
  BY <1>1, <1>2, StepKinds DEF OneInv, Nothing

\* What was filed stays filed.
LEMMA EndsStay ==
  ASSUME CountInv, NEW p \in Peers, [Next]_vars
  PROVE  /\ Len(ends[p]) <= Len(ends'[p])
         /\ \A n \in 1 .. Len(ends[p]) : ends'[p][n] = ends[p][n]
<1> DEFINE Grows(f) == Len(ends[p]) <= Len(f) /\ \A n \in 1 .. Len(ends[p]) : f[n] = ends[p][n]
<1>1. ends'[p] = ends[p] \/ \E end \in EndReasons : ends'[p] = Append(ends[p], end)
  BY OtherPeer, EndKinds, TwoPeers DEF Still, Arrives, Nothing
<1>2. ends[p] \in Seq(EndReasons)
  BY DEF CountInv, TypeOK
<1>3. \A end \in EndReasons : Grows(Append(ends[p], end))
  BY <1>2
<1>4. Grows(ends'[p])
  BY <1>1, <1>2, <1>3
<1> QED
  BY <1>4

\* So a claim stays what its sender filed.
LEMMA ClaimStays ==
  ASSUME CountInv, [Next]_vars, NEW p \in Peers, NEW a \in AuditBody, Claimed(p, a)
  PROVE  Claimed(p, a)'
<1> DEFINE q == Other(p)
<1>1. Len(ends[q]) \in Nat /\ Len(ends'[q]) \in Nat
  <2>1. TypeOK /\ TypeOK'
    BY NextCountInv DEF CountInv
  <2> QED
    BY <2>1, OtherPeer DEF TypeOK
<1>2. a.game \in 1 .. Len(ends[q]) /\ a.game \in Nat
  BY <1>1 DEF Claimed, AuditBody, Games
<1>3. Len(ends[q]) <= Len(ends'[q]) /\ ends'[q][a.game] = ends[q][a.game]
  BY <1>2, OtherPeer, EndsStay
<1> QED
  BY <1>1, <1>2, <1>3 DEF Claimed

\* An envelope is sent with what was just filed, or again.
LEMMA NextClaim ==
  ASSUME CountInv, ClaimInv, [Next]_vars
  PROVE  ClaimInv'
<1> USE OtherPeer, SeriesAssumption DEF CountInv
<1>0. \A m \in SentAudits : m.to \in Peers /\ m.audit \in AuditBody
  BY DEF SentAudits, TypeOK, Messages
<1>1. ASSUME NEW m \in SentAudits', m \notin SentAudits
      PROVE  Claimed(m.to, m.audit)'
  <2>1. PICK p \in Peers : Plays(p)
    BY <1>1, StepKinds DEF Arrives, Nothing
  <2>2. CASE ends'[p] = ends[p]
    <3>1. Moves(p)
      <4>1. ASSUME NEW end, Finishes(p, end)
            PROVE  FALSE
        <5>1. Len(Append(ends[p], end)) = Len(ends[p]) + 1
          BY DEF TypeOK
        <5> QED
          BY <2>2, <4>1, <5>1 DEF Finishes, TypeOK
      <4> QED
        BY <1>1, <2>1, <4>1 DEF Plays, Begins, Sends, Admits, Seals, GoesOn, EndsReading, EndsByTurn,
           EndsCaught, EndsLate
    <3>2. phase[p] = "audit" /\ m = AuditTo(Other(p), game[p], sealed[p], ends[p][game[p]])
      BY <1>1, <3>1 DEF Moves
    <3>3. Len(ends[p]) = game[p] /\ game[p] \in Nat
      BY <3>2 DEF FiledInv, Games
    <3> QED
      BY <2>2, <3>2, <3>3 DEF Claimed, AuditTo
  <2>3. CASE ends'[p] # ends[p]
    <3>1. game[p] \in Games /\ Len(ends[p]) = game[p] - 1 /\ Len(ends'[p]) = game[p]
      BY <2>1, <2>3, EndKinds
    <3>2. PICK end : Finishes(p, end)
      BY <2>1, <2>3, EndKinds DEF EndsByTurn, EndsCaught, EndsLate, EndsReading
    <3>3. m = AuditTo(Other(p), game[p], sealed[p], end)
      BY <1>1, <3>2 DEF Finishes
    <3>4. ends'[p][game[p]] = end
      BY <3>1, <3>2 DEF Finishes, TypeOK, Games
    <3> QED
      BY <3>1, <3>3, <3>4 DEF Claimed, AuditTo, Games
  <2> QED
    BY <2>2, <2>3
<1>2. \A m \in SentAudits' : Claimed(m.to, m.audit)'
  BY <1>0, <1>1, ClaimStays DEF ClaimInv
<1>3. ASSUME NEW p \in Peers, NEW a \in box'[p].audits
      PROVE  Claimed(p, a)'
  <2>1. CASE a \in box[p].audits
    <3>1. a \in AuditBody /\ Claimed(p, a)
      BY <2>1 DEF TypeOK, Mailbox, ClaimInv
    <3> QED
      BY <3>1, ClaimStays
  <2>2. CASE a \notin box[p].audits
    <3>1. PICK m \in net : Arrives(m)
      BY <1>3, <2>2, TwoPeers
         DEF Plays, Begins, Moves, Sends, Admits, Seals, GoesOn, EndsReading, EndsByTurn, EndsCaught,
             EndsLate, Finishes, Still, Held, Nothing
    <3>2. m.to = p /\ m \in SentAudits /\ a = m.audit
      BY <1>3, <2>2, <3>1 DEF Arrives, Held, SentAudits
    <3> QED
      BY <1>0, <3>2, ClaimStays DEF ClaimInv
  <2> QED
    BY <2>1, <2>2
<1> QED
  BY <1>2, <1>3 DEF ClaimInv

-----------------------------------------------------------------------------
(* The order of play while no turn was late.                               *)

InTime == \A p \in Peers : \A n \in 1 .. Len(ends[p]) : ends[p][n] # "timeout"

\* The thief has sealed its last turn of the sub-game.
Ending(p) == phase[p] \in {"final", "audit"} \/ (phase[p] = "turn" /\ sealed[p] = MaxSteps)

\* A turn finds its receiver in the same sub-game, waiting for that very turn
\* or about to, and with none of that step in its mailbox.
Transit(m) ==
  LET p == m.to  q == Other(p) IN
  /\ game[p] = game[q] /\ Len(ends[p]) < game[p]
  /\ sealed[q] = IF Role(p) = "thief" THEN sealed[p] ELSE sealed[p] + 1
  /\ phase[p] # "think"
  /\ \A t \in box[p].turns : t.step < sealed[q]

\* A turn in a mailbox is of this sub-game, and the latest is as it was said.
Stored(p, t) ==
  LET q == Other(p) IN
  /\ t.game = game[p]
  /\ game[q] = game[p] =>
       /\ t.step <= sealed[q]
       /\ t.step = sealed[q] =>
            /\ phase[q] \in {"turn", "final"} => t.says = SaysIn(q, sealed[q])
            /\ phase[q] = "audit" /\ Role(q) = "thief" => t.says # "nothing"

\* Thief p and the police take turns, and after the thief's last the police
\* has none.
Alternate(p) ==
  LET q == Other(p) IN
  Role(p) = "thief" /\ game[q] = game[p] =>
    /\ sealed[q] <= sealed[p] /\ sealed[p] <= sealed[q] + 1
    /\ phase[p] = "think" => sealed[q] = sealed[p]
    /\ Ending(p) => sealed[p] = sealed[q] + 1 /\ sealed[q] >= 1
    /\ phase[q] = "think" => sealed[q] < sealed[p] /\ ~Ending(p)
    /\ phase[q] = "audit" => sealed[q] < sealed[p]

\* When the other has ended the sub-game, p is in the call or about to read
\* the turn that ends it for p too.
EndedFirst(p) ==
  game[p] >= 1 /\ Len(ends[Other(p)]) >= game[p] =>
    /\ phase[p] \notin {"offer", "opening", "think"}
    /\ phase[p] = "turn" /\ Role(p) = "thief" => at[p] = "call" /\ SaysIn(p, sealed[p]) # "nothing"
    /\ phase[p] = "turn" /\ Role(p) # "thief" =>
         /\ sealed[p] >= 1
         /\ \A t \in box[p].turns : t.step = sealed[p] + 1 => t.says # "nothing"

\* How many of the other's turns p has read.
Read(p) ==
  IF Role(p) = "thief"
  THEN IF phase[p] = "think" THEN sealed[p] ELSE sealed[p] - 1
  ELSE IF phase[p] \in {"think", "audit"} THEN sealed[p] + 1 ELSE sealed[p]

Seen(p) ==
  phase[p] \in {"think", "turn", "final", "audit"} => \A k \in 1 .. Read(p) : <<k, game[p]>> \in seen[p]

\* No envelope holds more turns of p's sub-game than p has read, or will have
\* at the end of it.
Covers(p, a) == a.game = game[p] => a.records <= IF Role(p) = "thief" THEN sealed[p] - 1 ELSE sealed[p] + 1
Records(p) ==
  /\ \A a \in box[p].audits : Covers(p, a)
  /\ \A m \in SentAudits : m.to = p => Covers(p, m.audit)

InOrder ==
  /\ \A m \in SentTurns : Transit(m)
  /\ \A p \in Peers : /\ \A t \in box[p].turns : Stored(p, t)
                      /\ Alternate(p) /\ EndedFirst(p) /\ Seen(p) /\ Records(p)

Base == /\ CountInv /\ Abreast /\ FinalInv /\ SentInv /\ HeldInv
        /\ PaceInv /\ OneInv /\ ClaimInv

\* The counts are numbers.
LEMMA Numbers ==
  ASSUME CountInv, NEW p \in Peers
  PROVE  game[p] \in Nat /\ sealed[p] \in Nat /\ Len(ends[p]) \in Nat
BY SeriesAssumption DEF CountInv, TypeOK

\* The turns in a mailbox are turns.
LEMMA HeldTurns ==
  ASSUME CountInv, NEW p \in Peers, NEW t \in box[p].turns
  PROVE  t \in TurnBody /\ t.step \in Nat \ {0} /\ t.step <= MaxSteps /\ t.game \in Nat
BY SeriesAssumption DEF CountInv, TypeOK, Mailbox, TurnBody, TurnNumbers, Games

\* In one sub-game the peers play opposite roles.
LEMMA RolesDiffer ==
  ASSUME CountInv, Complementary, NEW p \in Peers, game[Other(p)] = game[p]
  PROVE  Role(p) = "thief" <=> Role(Other(p)) # "thief"
<1>1. natural[1] # natural[2] /\ \A r \in Peers : natural[r] \in Roles
  BY SeriesAssumption DEF Complementary, CountInv, TypeOK
<1> QED
  BY <1>1 DEF Role, RoleIn, Opposite, Roles, Peers, Other

\* p has read t, of this sub-game, and no other is ahead of it.
LEMMA ReadsInOrder ==
  ASSUME Base, InOrder, Complementary, NEW p \in Peers, NEW t \in box[p].turns, Reads(p, t)
  PROVE  /\ t.game = game[p]
         /\ game[Other(p)] = game[p] =>
              IF Role(p) = "thief" THEN sealed[Other(p)] = sealed[p] ELSE sealed[Other(p)] = sealed[p] + 1
         /\ game[Other(p)] = game[p] => t.step = sealed[Other(p)]
<1> USE OtherPeer DEF Base
<1> DEFINE q == Other(p)
<1>1. t.game = game[p] /\ (game[q] = game[p] => t.step <= sealed[q])
  BY DEF InOrder, Stored
<1>2. t.step = IF Role(p) = "thief" THEN sealed[p] ELSE sealed[p] + 1
  BY DEF Reads
<1>3. game[q] = game[p] =>
        IF Role(p) = "thief" THEN sealed[q] <= sealed[p] ELSE sealed[q] <= sealed[p] + 1
  BY RolesDiffer DEF InOrder, Alternate
<1> QED
  BY <1>1, <1>2, <1>3, Numbers

\* A peer that is to seal a turn plays with the other, who waits for it.
LEMMA SealsInOrder ==
  ASSUME Base, InOrder, Complementary, NEW p \in Peers,
         phase[p] = "think" \/ \E t \in box[p].turns : Reads(p, t) /\ Role(p) = "thief"
  PROVE  LET q == Other(p) IN
         /\ game[q] = game[p] /\ Len(ends[q]) < game[p]
         /\ IF Role(p) = "thief" THEN sealed[p] = sealed[q] ELSE sealed[p] + 1 = sealed[q]
         /\ phase[q] # "think"
         /\ \A t \in box[q].turns : t.step <= sealed[p]
<1> USE OtherPeer, Numbers DEF Base
<1> DEFINE q == Other(p)
<1>1. /\ phase[p] = "think" \/ (phase[p] = "turn" /\ at[p] = "wait" /\ Role(p) = "thief")
      /\ game[p] >= 1
  BY SeriesAssumption DEF Reads, CountInv, FiledInv, Playing, Games
<1>2. Len(ends[q]) < game[p]
  BY <1>1 DEF InOrder, EndedFirst
<1>3. game[q] = game[p]
  <2>1. game[p] <= game[q] /\ game[q] <= game[p] + 1
    BY <1>1 DEF Abreast, Agreed
  <2>2. game[q] - 1 <= Len(ends[q])
    BY DEF PaceInv
  <2> QED
    BY <1>2, <2>1, <2>2
<1>4. Alternate(p) /\ Alternate(q)
  BY DEF InOrder
<1>5. (IF Role(p) = "thief" THEN sealed[p] = sealed[q] ELSE sealed[p] + 1 = sealed[q]) /\ phase[q] # "think"
  <2>1. CASE Role(p) = "thief"
    <3>1. sealed[p] = sealed[q]
      BY <1>3, <1>4, <2>1, ReadsInOrder DEF Alternate
    <3> QED
      BY <1>3, <1>4, <2>1, <3>1 DEF Alternate
  <2>2. CASE Role(p) # "thief"
    <3>1. phase[p] = "think" /\ Role(q) = "thief"
      BY <1>1, <1>3, <2>2, RolesDiffer
    <3> QED
      BY <1>3, <1>4, <2>2, <3>1 DEF Alternate
  <2> QED
    BY <2>1, <2>2
<1>6. \A t \in box[q].turns : t.step <= sealed[p]
  BY <1>3 DEF InOrder, Stored
<1> QED
  BY <1>2, <1>3, <1>5, <1>6

\* While every turn is in time nobody gives a sub-game up.
LEMMA NotLate ==
  ASSUME CountInv, InTime', NEW p \in Peers
  PROVE  ~EndsLate(p)
<1> SUFFICES ASSUME EndsLate(p) PROVE FALSE
  OBVIOUS
<1>1. ends'[p] = Append(ends[p], "timeout") /\ ends[p] \in Seq(EndReasons)
  BY DEF EndsLate, Finishes, CountInv, TypeOK
<1>2. Len(ends'[p]) \in 1 .. Len(ends'[p]) /\ ends'[p][Len(ends'[p])] = "timeout"
  BY <1>1
<1> QED
  BY <1>2 DEF InTime

\* A peer whose turn is in flight can only raise.
LEMMA InFlight ==
  ASSUME CountInv, SentInv, NEW q \in Peers, NEW m \in SentTurns, Other(m.to) = q, Plays(q)
  PROVE  Moves(q) /\ phase'[q] = "raised"
<1>1. phase[q] = "raised" \/ Calling(q)
  BY DEF SentInv
<1>2. phase[q] # "raised"
  BY DEF Plays, Begins, Moves, MovesOn, Resending, Playing, Closed, Sends, Admits, GoesOn, Reads, EndsReading,
     EndsByTurn, EndsCaught, EndsLate
<1>3. ~Returned(q)
  BY <1>2, ReturnedEmpty
<1> QED
  BY <1>1, <1>2, <1>3 DEF Calling, Plays, Begins, Moves, MovesOn, Resending, Closed, Sends, Admits,
     GoesOn, Reads, EndsReading, EndsByTurn, EndsCaught, EndsLate

\* A turn is sent to one that waits for it, and overtakes nothing.
LEMMA NextTransit ==
  ASSUME Base, InOrder, Complementary, InTime', [Next]_vars, NEW m \in SentTurns'
  PROVE  Transit(m)'
<1> USE OtherPeer, Numbers DEF Base
<1>0. natural' = natural
  BY StepKinds
<1>1. PICK p \in Peers : m.to = p
  <2>1. m \in Messages
    BY NextCountInv DEF CountInv, TypeOK, SentTurns
  <2> QED
    BY <2>1 DEF Messages
<1> DEFINE q == Other(p)
<1>2. CASE m \in SentTurns
  <2>1. /\ game[p] = game[q] /\ Len(ends[p]) < game[p]
        /\ sealed[q] = IF Role(p) = "thief" THEN sealed[p] ELSE sealed[p] + 1
        /\ phase[p] # "think"
        /\ \A t \in box[p].turns : t.step < sealed[q]
    BY <1>1, <1>2 DEF InOrder, Transit
  <2>2. m.turn.step = sealed[q] /\ sealed[q] >= 1
    <3>1. m.turn \in TurnBody
      BY <1>2 DEF SentTurns, CountInv, TypeOK, Messages
    <3> QED
      BY <1>1, <1>2, <3>1, SeriesAssumption DEF SentInv, TurnBody, TurnNumbers
  <2>3. CASE Plays(p) /\ Still(q)
    <3>1. ~Begins(p)
      BY <2>1, <2>2, SeriesAssumption DEF Begins
    <3>2. ~Sends(p)
      BY <2>1 DEF Sends
    <3>3. \A t \in box[p].turns : ~Reads(p, t)
      BY <2>1, HeldTurns DEF Reads
    <3>4. ~EndsByTurn(p) /\ ~EndsCaught(p)
      <4>1. SUFFICES ASSUME EndsByTurn(p) \/ EndsCaught(p) PROVE FALSE
        OBVIOUS
      <4>2. Role(p) = "thief" /\ Ending(p)
        BY <4>1 DEF EndsByTurn, EndsCaught, SaysIn, FinalInv, Ending
      <4> QED
        BY <2>1, <4>2 DEF InOrder, Alternate
    <3>5. Moves(p)
      BY <2>3, <3>1, <3>2, <3>3, <3>4, NotLate DEF Plays, Admits, GoesOn, EndsReading
    <3>6. phase'[p] # "think"
      <4>1. CASE phase[p] = "offer" /\ Role(p) = "thief"
        BY <2>1, <2>2, <4>1 DEF CountInv, TurnsInv
      <4> QED
        BY <2>1, <3>5, <4>1 DEF Moves, MovesOn, Closed, Resending
    <3> QED
      BY <1>0, <1>1, <2>1, <2>3, <3>5, <3>6 DEF Transit, Moves, Still, Held, Role, RoleIn
  <2>4. CASE Plays(q) /\ Still(p)
    BY <1>0, <1>1, <1>2, <2>1, <2>4, InFlight DEF Transit, Moves, Still, Held, Role, RoleIn
  <2>5. ASSUME NEW o \in net, Arrives(o)
        PROVE  Transit(m)'
    <3>1. ~(o.kind = "turn" /\ o.to = p)
      BY <1>1, <1>2, <2>5 DEF Arrives, OneInv, SentTurns
    <3>2. box'[p].turns = box[p].turns
      BY <2>5, <3>1 DEF Arrives, Held
    <3> QED
      BY <1>0, <1>1, <2>1, <2>5, <3>2 DEF Arrives, Transit, Role, RoleIn
  <2>6. CASE Nothing
    BY <1>0, <1>1, <2>1, <2>6 DEF Nothing, Still, Held, Transit, Role, RoleIn
  <2> QED
    BY <2>3, <2>4, <2>5, <2>6, TwoPeers
<1>3. CASE m \notin SentTurns
  <2>1. PICK r \in Peers : Plays(r) /\ Still(Other(r))
    BY <1>3, StepKinds DEF Arrives, Nothing
  <2>2. PICK says : Seals(r, says)
    BY <1>3, <2>1 DEF Plays, Begins, Moves, Sends, Admits, GoesOn, EndsReading, EndsByTurn, EndsCaught,
       EndsLate, Finishes
  <2>3. m.to = Other(r)
    BY <1>3, <2>2 DEF Seals, TurnTo
  <2>4. r = q /\ Other(r) = p
    BY <1>1, <2>3
  <2>5. phase[q] = "think" \/ \E t \in box[q].turns : Reads(q, t) /\ Role(q) = "thief"
    BY <1>3, <2>1, <2>4 DEF Plays, Begins, Moves, Sends, Admits, GoesOn, EndsReading, EndsByTurn, EndsCaught,
       EndsLate, Finishes
  <2>6. /\ game[p] = game[q] /\ Len(ends[p]) < game[q]
        /\ IF Role(q) = "thief" THEN sealed[q] = sealed[p] ELSE sealed[q] + 1 = sealed[p]
        /\ phase[p] # "think"
        /\ \A t \in box[p].turns : t.step <= sealed[q]
    BY <2>5, SealsInOrder
  <2>7. \A t \in box[p].turns : t.step < sealed[q] + 1
    BY <2>6, HeldTurns
  <2>8. Role(p) = "thief" <=> Role(q) # "thief"
    BY <2>6, RolesDiffer
  <2> QED
    BY <1>0, <1>1, <2>1, <2>2, <2>4, <2>6, <2>7, <2>8 DEF Transit, Seals, Still, Held, Role, RoleIn
<1> QED
  BY <1>2, <1>3

\* What a mailbox holds of turns once its peer has moved.
LEMMA TurnsHeld ==
  ASSUME NEW p \in Peers, Plays(p) \/ Still(p)
  PROVE  box'[p].turns = {} \/ (box'[p].turns = box[p].turns /\ game'[p] = game[p])
BY DEF Plays, Begins, Moves, Sends, Admits, Seals, GoesOn, EndsReading, EndsByTurn, EndsCaught,
   EndsLate, Finishes, Still, Held

\* What is stored was in transit, and is the latest until the other seals again.
LEMMA NextStored ==
  ASSUME Base, InOrder, Complementary, InTime', [Next]_vars, NEW p \in Peers, NEW t \in box'[p].turns
  PROVE  Stored(p, t)'
<1> USE OtherPeer, Numbers DEF Base
<1> DEFINE q == Other(p)
<1>0. natural' = natural
  BY StepKinds
<1>1. ASSUME t \in box[p].turns
      PROVE  /\ t.game = game[p] /\ t.game <= game[q]
             /\ t.step \in Nat \ {0}
             /\ game[q] = game[p] =>
                  /\ t.step <= sealed[q]
                  /\ t.step = sealed[q] =>
                       /\ phase[q] \in {"turn", "final"} => t.says = SaysIn(q, sealed[q])
                       /\ phase[q] = "audit" /\ Role(q) = "thief" => t.says # "nothing"
  BY <1>1, HeldTurns DEF InOrder, Stored, HeldInv
<1>2. CASE Plays(p) /\ Still(q)
  <2>1. t \in box[p].turns /\ game'[p] = game[p]
    BY <1>2, TurnsHeld
  <2> QED
    BY <1>0, <1>1, <1>2, <2>1 DEF Still, Stored, SaysIn, Role, RoleIn
<1>3. CASE Plays(q) /\ Still(p)
  <2>0. t \in box[p].turns /\ game'[p] = game[p]
    BY <1>3 DEF Still, Held
  <2>1. CASE Begins(q)
    BY <1>1, <2>0, <2>1 DEF Begins, Stored
  <2>2. CASE \E says : Seals(q, says)
    BY <1>1, <2>0, <2>2 DEF Seals, Stored
  <2>3. CASE Moves(q)
    <3>1. CASE t.step = sealed[q] /\ phase'[q] \in {"turn", "final"}
      <4>1. phase[q] = "turn"
        BY <1>1, <2>0, <2>3, <3>1 DEF Moves, MovesOn, Resending, Closed, CountInv, TurnsInv
      <4> QED
        BY <1>0, <1>1, <2>0, <2>3, <3>1, <4>1
           DEF Moves, MovesOn, Resending, Closed, Stored, SaysIn, Role, RoleIn
    <3>2. CASE t.step = sealed[q] /\ phase'[q] = "audit"
      BY <1>0, <1>1, <2>0, <2>3, <3>2 DEF Moves, MovesOn, Resending, Closed, Stored, Role, RoleIn
    <3>3. CASE t.step # sealed[q] \/ phase'[q] \notin {"turn", "final", "audit"}
      BY <1>1, <2>0, <2>3, <3>3 DEF Moves, Stored
    <3> QED
      BY <3>1, <3>2, <3>3
  <2>4. CASE \E o \in box[q].turns : GoesOn(q, o)
    BY <1>1, <2>0, <2>4 DEF GoesOn, Stored
  <2>5. CASE EndsByTurn(q) \/ EndsCaught(q)
    <3>1. /\ SaysIn(q, sealed[q]) # "nothing" /\ phase[q] \in {"turn", "final"} /\ phase'[q] = "audit"
          /\ game'[q] = game[q] /\ sealed'[q] = sealed[q]
      BY <2>5 DEF EndsByTurn, EndsCaught, Finishes, SaysIn
    <3> QED
      BY <1>1, <2>0, <3>1 DEF Stored
  <2>6. CASE \E o \in box[q].turns : EndsReading(q, o)
    BY <1>0, <1>1, <2>0, <2>6 DEF EndsReading, Finishes, Stored, Role, RoleIn
  <2> QED
    BY <1>3, <2>1, <2>2, <2>3, <2>4, <2>5, <2>6, NotLate DEF Plays, Sends, Admits
<1>4. ASSUME NEW m \in net, Arrives(m)
      PROVE  Stored(p, t)'
  <2>0. UNCHANGED <<phase, game, sealed, ends>>
    BY <1>4 DEF Arrives
  <2>1. CASE t \in box[p].turns
    BY <1>0, <1>1, <2>0, <2>1 DEF Stored, SaysIn, Role, RoleIn
  <2>2. CASE t \notin box[p].turns
    <3>1. m.to = p /\ m \in SentTurns /\ t = m.turn
      BY <1>4, <2>2 DEF Arrives, Held, SentTurns
    <3>2. /\ t.game = game[q] /\ t.step = sealed[q]
          /\ phase[q] = "raised" \/ (Calling(q) /\ t.says = SaysIn(q, sealed[q]))
      BY <3>1 DEF SentInv
    <3>3. game[q] = game[p]
      BY <3>1 DEF InOrder, Transit
    <3> QED
      BY <1>0, <2>0, <3>2, <3>3 DEF Stored, Calling, SaysIn, Role, RoleIn
  <2> QED
    BY <2>1, <2>2
<1>5. CASE Nothing
  BY <1>0, <1>1, <1>5 DEF Nothing, Still, Held, Stored, SaysIn, Role, RoleIn
<1> QED
  BY <1>2, <1>3, <1>4, <1>5, TwoPeers

\* The police that reads a turn and goes on has read no ending one.
LEMMA GoesOnInOrder ==
  ASSUME Base, InOrder, Complementary, NEW p \in Peers, NEW t \in box[p].turns, GoesOn(p, t),
         Role(p) # "thief", game[Other(p)] = game[p]
  PROVE  ~Ending(Other(p)) /\ sealed[Other(p)] = sealed[p] + 1
<1> USE OtherPeer, Numbers DEF Base
<1> DEFINE q == Other(p)
<1>1. sealed[q] = sealed[p] + 1 /\ t.step = sealed[q]
  BY ReadsInOrder DEF GoesOn
<1>2. Role(q) = "thief" /\ EndSeen(p, t) = "none"
  BY RolesDiffer DEF GoesOn
<1>3. ASSUME Ending(q)
      PROVE  t.says # "nothing" /\ sealed[p] # 0
  <2>1. sealed[p] >= 1
    BY <1>2, <1>3 DEF InOrder, Alternate
  <2>2. \/ phase[q] \in {"turn", "final"} /\ t.says = SaysIn(q, sealed[q])
        \/ phase[q] = "audit" /\ t.says # "nothing"
    BY <1>1, <1>2, <1>3 DEF InOrder, Stored, Ending
  <2> QED
    BY <1>2, <1>3, <2>1, <2>2 DEF SaysIn, Ending
<1>4. t.says \in Says
  BY HeldTurns DEF TurnBody
<1>5. ~Ending(q)
  BY <1>2, <1>3, <1>4 DEF EndSeen, Says
<1> QED
  BY <1>1, <1>5

\* A peer ahead of the other has sealed nothing and is not under way.
LEMMA AheadIdle ==
  ASSUME Base, NEW p \in Peers, game[p] > game[Other(p)]
  PROVE  sealed[p] = 0 /\ phase[p] \notin {"think", "turn", "final", "audit"}
BY OtherPeer, Numbers DEF Base, PaceInv, Abreast, Agreed

\* Neither seals a turn before it has read the one it answers.
LEMMA NextAlternate ==
  ASSUME Base, InOrder, Complementary, InTime', [Next]_vars, NEW p \in Peers
  PROVE  Alternate(p)'
<1> USE OtherPeer, Numbers DEF Base
<1> DEFINE q == Other(p)
<1>0. natural' = natural /\ MaxSteps >= 2
  BY StepKinds, SeriesAssumption
<1>a. Role(p) = "thief" /\ game[q] = game[p] =>
        /\ Role(q) # "thief"
        /\ sealed[q] <= sealed[p] /\ sealed[p] <= sealed[q] + 1
        /\ phase[p] = "think" => sealed[q] = sealed[p]
        /\ Ending(p) => sealed[p] = sealed[q] + 1 /\ sealed[q] >= 1
        /\ phase[q] = "think" => sealed[q] < sealed[p] /\ ~Ending(p)
        /\ phase[q] = "audit" => sealed[q] < sealed[p]
  BY RolesDiffer DEF InOrder, Alternate
<1>1. CASE Plays(p) /\ Still(q)
  <2>s. phase'[q] = phase[q] /\ game'[q] = game[q] /\ sealed'[q] = sealed[q]
    BY <1>1 DEF Still
  <2>1. CASE Begins(p)
    <3>1. phase'[p] = "offer" /\ sealed'[p] = 0 /\ game'[p] = game[p] + 1
      BY <2>1 DEF Begins
    <3>2. game'[q] = game'[p] =>
            sealed[q] = 0 /\ phase[q] \notin {"think", "audit"}
      <4>1. q \in Peers /\ Other(q) = p /\ (game'[q] = game'[p] => game[q] > game[p])
        BY <2>s, <3>1
      <4> QED
        BY <4>1, AheadIdle
    <3> QED
      BY <2>s, <3>1, <3>2 DEF Alternate, Ending
  <2>2. CASE Moves(p)
    <3>1. /\ game'[p] = game[p] /\ sealed'[p] = sealed[p] /\ MovesOn(p)
          /\ phase[p] = "offer" => sealed[p] = 0
      BY <2>2 DEF Moves, CountInv, TurnsInv
    <3>2. /\ phase'[p] = "think" => phase[p] = "offer"
          /\ Ending(p)' /\ Role(p) = "thief" => Ending(p)
      BY <3>1 DEF MovesOn, Resending, Closed, Ending
    <3> QED
      BY <1>0, <1>a, <2>s, <3>1, <3>2 DEF Alternate, Role, RoleIn
  <2>3. CASE Sends(p)
    <3>1. /\ game'[p] = game[p] /\ sealed'[p] = sealed[p] + 1 /\ phase[p] = "think" /\ phase'[p] = "turn"
      BY <2>3 DEF Sends, Seals
    <3> QED
      BY <1>0, <1>a, <2>s, <3>1 DEF Alternate, Ending, Role, RoleIn
  <2>4. ASSUME NEW t \in box[p].turns, Admits(p, t)
        PROVE  Alternate(p)'
    <3>1. /\ game'[p] = game[p] /\ sealed'[p] = sealed[p] + 1 /\ phase'[p] = "final"
          /\ Reads(p, t) /\ Role(p) = "thief"
      BY <2>4 DEF Admits, Seals
    <3>2. game[q] = game[p] => sealed[q] = sealed[p] /\ sealed[q] >= 1
      BY <3>1, ReadsInOrder, HeldTurns DEF Reads
    <3> QED
      BY <1>0, <1>a, <2>s, <3>1, <3>2 DEF Alternate, Role, RoleIn
  <2>5. ASSUME NEW t \in box[p].turns, GoesOn(p, t)
        PROVE  Alternate(p)'
    <3>1. game'[p] = game[p] /\ sealed'[p] = sealed[p] /\ phase'[p] = "think" /\ Reads(p, t)
      BY <2>5 DEF GoesOn
    <3>2. Role(p) = "thief" /\ game[q] = game[p] => sealed[q] = sealed[p]
      BY <3>1, ReadsInOrder
    <3> QED
      BY <1>0, <1>a, <2>s, <3>1, <3>2 DEF Alternate, Ending, Role, RoleIn
  <2>6. CASE EndsByTurn(p) \/ EndsCaught(p)
    <3>1. Ending(p) /\ phase'[p] = "audit" /\ game'[p] = game[p] /\ sealed'[p] = sealed[p]
      BY <2>6 DEF EndsByTurn, EndsCaught, Finishes, Ending, SaysIn
    <3> QED
      BY <1>0, <1>a, <2>s, <3>1 DEF Alternate, Ending, Role, RoleIn
  <2>7. CASE \E t \in box[p].turns : EndsReading(p, t)
    BY <1>0, <2>7 DEF EndsReading, Finishes, Alternate, Role, RoleIn
  <2> QED
    BY <1>1, <2>1, <2>2, <2>3, <2>4, <2>5, <2>6, <2>7, NotLate DEF Plays
<1>2. CASE Plays(q) /\ Still(p)
  <2>s. phase'[p] = phase[p] /\ game'[p] = game[p] /\ sealed'[p] = sealed[p]
    BY <1>2 DEF Still
  <2>e. Ending(p)' = Ending(p) /\ Role(p)' = Role(p)
    BY <1>0, <2>s DEF Ending, Role, RoleIn
  <2>1. CASE Begins(q)
    <3>1. phase'[q] = "offer" /\ sealed'[q] = 0 /\ game'[q] = game[q] + 1
      BY <2>1 DEF Begins
    <3>2. game'[q] = game'[p] =>
            sealed[p] = 0 /\ phase[p] \notin {"think", "turn", "final", "audit"}
      BY <2>s, <3>1, AheadIdle
    <3> QED
      BY <2>s, <3>1, <3>2 DEF Alternate, Ending
  <2>2. CASE Moves(q)
    <3>1. game'[q] = game[q] /\ sealed'[q] = sealed[q] /\ MovesOn(q)
      BY <2>2 DEF Moves
    <3>2. /\ phase'[q] = "think" => Role(q) = "thief"
          /\ phase'[q] = "audit" => phase[q] = "audit"
      BY <3>1 DEF MovesOn, Resending, Closed
    <3> QED
      BY <1>a, <2>s, <2>e, <3>1, <3>2 DEF Alternate
  <2>3. CASE Sends(q)
    <3>1. game'[q] = game[q] /\ sealed'[q] = sealed[q] + 1 /\ phase[q] = "think" /\ phase'[q] = "turn"
      BY <2>3 DEF Sends, Seals
    <3> QED
      BY <1>a, <2>s, <2>e, <3>1 DEF Alternate
  <2>4. CASE \E t \in box[q].turns : Admits(q, t)
    BY <1>a, <2>s, <2>e, <2>4 DEF Admits, Seals, Alternate
  <2>5. ASSUME NEW t \in box[q].turns, GoesOn(q, t)
        PROVE  Alternate(p)'
    <3>1. game'[q] = game[q] /\ sealed'[q] = sealed[q] /\ phase'[q] = "think"
      BY <2>5 DEF GoesOn
    <3>2. Role(p) = "thief" /\ game[q] = game[p] => ~Ending(p) /\ sealed[p] = sealed[q] + 1
      BY <1>a, <2>5, GoesOnInOrder
    <3> QED
      BY <1>a, <2>s, <2>e, <3>1, <3>2 DEF Alternate
  <2>6. CASE EndsByTurn(q) \/ EndsCaught(q)
    <3>1. Role(q) = "thief" /\ game'[q] = game[q]
      BY <2>6 DEF EndsByTurn, EndsCaught, Finishes, SaysIn, FinalInv
    <3> QED
      BY <1>a, <2>s, <2>e, <3>1 DEF Alternate
  <2>7. ASSUME NEW t \in box[q].turns, EndsReading(q, t)
        PROVE  Alternate(p)'
    <3>1. /\ game'[q] = game[q] /\ sealed'[q] = sealed[q] /\ phase'[q] = "audit"
          /\ Reads(q, t) /\ Role(q) # "thief"
      BY <2>7 DEF EndsReading, Finishes
    <3>2. game[q] = game[p] => sealed[q] < sealed[p]
      BY <3>1, ReadsInOrder
    <3> QED
      BY <1>a, <2>s, <2>e, <3>1, <3>2 DEF Alternate
  <2> QED
    BY <1>2, <2>1, <2>2, <2>3, <2>4, <2>5, <2>6, <2>7, NotLate DEF Plays
<1>3. CASE (\E m \in net : Arrives(m)) \/ Nothing
  <2>1. /\ phase'[p] = phase[p] /\ game'[p] = game[p] /\ sealed'[p] = sealed[p]
        /\ phase'[q] = phase[q] /\ game'[q] = game[q] /\ sealed'[q] = sealed[q]
    BY <1>3 DEF Arrives, Nothing, Still
  <2> QED
    BY <1>0, <1>a, <2>1 DEF Alternate, Ending, Role, RoleIn
<1> QED
  BY <1>1, <1>2, <1>3, TwoPeers

\* Thief q ends the sub-game: the police has the turn that says so, or waits for it.
LEMMA ThiefEnds ==
  ASSUME Base, InOrder, Complementary, NEW q \in Peers, EndsByTurn(q) \/ EndsCaught(q),
         game[Other(q)] = game[q]
  PROVE  LET p == Other(q) IN
         /\ Role(p) # "thief" /\ phase[p] \notin {"offer", "opening", "think"} /\ sealed[p] >= 1
         /\ sealed[q] = sealed[p] + 1
         /\ \A t \in box[p].turns : t.step = sealed[p] + 1 => t.says # "nothing"
<1> USE OtherPeer, Numbers DEF Base
<1> DEFINE p == Other(q)
<1>1. Ending(q) /\ Role(q) = "thief" /\ SaysIn(q, sealed[q]) # "nothing" /\ phase[q] \in {"turn", "final"}
  BY DEF EndsByTurn, EndsCaught, Ending, SaysIn, FinalInv
<1>2. Role(p) # "thief"
  BY <1>1, RolesDiffer
<1>3. sealed[q] = sealed[p] + 1 /\ sealed[p] >= 1 /\ phase[p] # "think"
  BY <1>1 DEF InOrder, Alternate
<1>4. phase[p] \notin {"offer", "opening"}
  BY <1>3 DEF CountInv, TurnsInv
<1>5. \A t \in box[p].turns : t.step = sealed[p] + 1 => t.says # "nothing"
  BY <1>1, <1>3 DEF InOrder, Stored
<1> QED
  BY <1>2, <1>3, <1>4, <1>5

\* Police q ends it: the thief is still in the call of the turn that did it,
\* or has ended it too.
LEMMA PoliceEnds ==
  ASSUME Base, InOrder, Complementary, NEW q \in Peers, NEW t \in box[q].turns, EndsReading(q, t),
         game[Other(q)] = game[q]
  PROVE  LET p == Other(q) IN
         /\ Role(p) = "thief" /\ phase[p] \notin {"offer", "opening", "think"}
         /\ sealed[p] = sealed[q] + 1
         /\ phase[p] = "turn" => at[p] = "call" /\ SaysIn(p, sealed[p]) # "nothing"
<1> USE OtherPeer, Numbers DEF Base
<1> DEFINE p == Other(q)
<1>1. Role(p) = "thief"
  BY RolesDiffer DEF EndsReading
<1>2. sealed[p] = sealed[q] + 1 /\ t.step = sealed[p]
  BY ReadsInOrder DEF EndsReading
<1>3. phase[p] \notin {"offer", "opening", "think"}
  BY <1>1, <1>2 DEF InOrder, Alternate, CountInv, TurnsInv
<1>4. t.says # "nothing"
  <2>1. ~(t.step > MaxSteps)
    BY HeldTurns, SeriesAssumption
  <2>2. EndSeen(q, t) # "none"
    BY DEF EndsReading
  <2> QED
    BY <2>1, <2>2 DEF EndSeen
<1>5. ASSUME phase[p] = "turn"
      PROVE  at[p] = "call" /\ SaysIn(p, sealed[p]) # "nothing"
  <2>1. SaysIn(p, sealed[p]) # "nothing"
    BY <1>2, <1>4, <1>5 DEF InOrder, Stored
  <2>2. sealed[p] = MaxSteps
    BY <1>5, <2>1 DEF SaysIn
  <2> QED
    BY <1>1, <1>5, <2>1, <2>2, SeriesAssumption DEF CountInv, TurnsInv
<1> QED
  BY <1>1, <1>2, <1>3, <1>5

\* Who ends a sub-game has left the other the turn that ends it there.
LEMMA NextEndedFirst ==
  ASSUME Base, InOrder, Complementary, InTime', [Next]_vars, NEW p \in Peers
  PROVE  EndedFirst(p)'
<1> USE OtherPeer, Numbers DEF Base
<1> DEFINE q == Other(p)
<1>0. natural' = natural
  BY StepKinds
<1>a. game[p] >= 1 /\ Len(ends[q]) >= game[p] =>
        /\ phase[p] \notin {"offer", "opening", "think"}
        /\ phase[p] = "turn" /\ Role(p) = "thief" => at[p] = "call" /\ SaysIn(p, sealed[p]) # "nothing"
        /\ phase[p] = "turn" /\ Role(p) # "thief" =>
             /\ sealed[p] >= 1
             /\ \A t \in box[p].turns : t.step = sealed[p] + 1 => t.says # "nothing"
  BY DEF InOrder, EndedFirst
<1>b. Len(ends[q]) <= game[q] /\ Len(ends[q]) <= game[p]
  BY DEF PaceInv
<1>1. CASE Plays(p) /\ Still(q)
  <2>s. ends'[q] = ends[q]
    BY <1>1 DEF Still
  <2>1. CASE Begins(p)
    BY <1>b, <2>s, <2>1 DEF Begins, EndedFirst
  <2>2. CASE Moves(p)
    <3>1. game'[p] = game[p] /\ sealed'[p] = sealed[p] /\ box'[p].turns = box[p].turns /\ MovesOn(p)
      BY <2>2 DEF Moves, Held
    <3>2. /\ phase'[p] = "think" => phase[p] = "offer"
          /\ phase'[p] = "opening" => phase[p] \in {"offer", "opening"}
          /\ phase'[p] = "offer" => phase[p] = "offer"
          /\ phase'[p] = "turn" => phase[p] \in {"offer", "opening"}
                                     \/ (phase[p] = "turn" /\ SaysIn(p, sealed[p]) # "survival")
      BY <3>1 DEF MovesOn, Resending, Closed
    <3>3. phase[p] = "turn" /\ SaysIn(p, sealed[p]) # "survival" => SaysIn(p, sealed[p]) = "nothing"
      BY DEF SaysIn
    <3> QED
      BY <1>0, <1>a, <2>s, <3>1, <3>2, <3>3 DEF EndedFirst, Role, RoleIn
  <2>3. CASE Sends(p)
    BY <1>a, <2>s, <2>3, SeriesAssumption DEF Sends, Seals, EndedFirst
  <2>4. CASE \E t \in box[p].turns : Admits(p, t)
    BY <2>4 DEF Admits, EndedFirst
  <2>5. ASSUME NEW t \in box[p].turns, GoesOn(p, t)
        PROVE  EndedFirst(p)'
    <3>1. /\ game'[p] = game[p] /\ phase[p] = "turn" /\ at[p] = "wait"
          /\ Role(p) # "thief" => t.step = sealed[p] + 1 /\ EndSeen(p, t) = "none"
      BY <2>5 DEF GoesOn, Reads
    <3>2. t.says \in Says
      BY HeldTurns DEF TurnBody
    <3>3. sealed[p] >= 1 /\ EndSeen(p, t) = "none" => t.says = "nothing"
      BY <3>2 DEF EndSeen, Says
    <3>4. ~(game[p] >= 1 /\ Len(ends[q]) >= game[p])
      BY <1>a, <3>1, <3>3
    <3> QED
      BY <2>s, <3>1, <3>4 DEF EndedFirst
  <2>6. CASE EndsByTurn(p) \/ EndsCaught(p) \/ \E t \in box[p].turns : EndsReading(p, t)
    BY <2>6 DEF EndsByTurn, EndsCaught, EndsReading, Finishes, EndedFirst
  <2> QED
    BY <1>1, <2>1, <2>2, <2>3, <2>4, <2>5, <2>6, NotLate DEF Plays
<1>2. CASE Plays(q) /\ Still(p)
  <2>s. /\ phase'[p] = phase[p] /\ at'[p] = at[p] /\ game'[p] = game[p] /\ sealed'[p] = sealed[p]
        /\ box'[p].turns = box[p].turns
        /\ Role(p)' = Role(p) /\ SaysIn(p, sealed[p])' = SaysIn(p, sealed[p])
    BY <1>0, <1>2 DEF Still, Held, SaysIn, Role, RoleIn
  <2>1. CASE ends'[q] = ends[q]
    BY <1>a, <2>s, <2>1 DEF EndedFirst
  <2>2. CASE ends'[q] # ends[q]
    <3>1. /\ phase[q] \in {"turn", "final"} /\ Len(ends'[q]) = game[q]
          /\ EndsByTurn(q) \/ EndsCaught(q) \/ EndsLate(q) \/ \E t \in box[q].turns : EndsReading(q, t)
      BY <1>2, <2>2, EndKinds
    <3>2. game[q] <= game[p]
      BY <3>1 DEF Abreast, Agreed
    <3>3. CASE game[q] # game[p]
      BY <2>s, <3>1, <3>2, <3>3 DEF EndedFirst
    <3>4. CASE game[q] = game[p] /\ (EndsByTurn(q) \/ EndsCaught(q))
      BY <2>s, <3>4, ThiefEnds DEF EndedFirst
    <3>5. CASE game[q] = game[p] /\ \E t \in box[q].turns : EndsReading(q, t)
      BY <2>s, <3>5, PoliceEnds DEF EndedFirst
    <3> QED
      BY <3>1, <3>3, <3>4, <3>5, NotLate
  <2> QED
    BY <2>1, <2>2
<1>3. ASSUME NEW m \in net, Arrives(m)
      PROVE  EndedFirst(p)'
  <2>0. /\ UNCHANGED <<phase, at, game, sealed, ends>>
        /\ Role(p)' = Role(p) /\ SaysIn(p, sealed[p])' = SaysIn(p, sealed[p])
    BY <1>0, <1>3 DEF Arrives, SaysIn, Role, RoleIn
  <2>1. CASE m.kind = "turn" /\ m.to = p
    <3>1. m \in SentTurns
      BY <2>1 DEF SentTurns
    <3>2. (phase[q] = "raised" \/ Calling(q)) /\ game[p] = game[q]
      BY <2>1, <3>1 DEF SentInv, InOrder, Transit
    <3>3. Len(ends[q]) < game[q]
      BY <3>2 DEF PaceInv, Calling, CountInv, FiledInv, Playing
    <3> QED
      BY <2>0, <3>2, <3>3 DEF EndedFirst
  <2>2. CASE ~(m.kind = "turn" /\ m.to = p)
    <3>1. box'[p].turns = box[p].turns
      BY <1>3, <2>2 DEF Arrives, Held
    <3> QED
      BY <1>a, <2>0, <3>1 DEF EndedFirst
  <2> QED
    BY <2>1, <2>2
<1>4. CASE Nothing
  BY <1>0, <1>a, <1>4 DEF Nothing, Still, Held, EndedFirst, SaysIn, Role, RoleIn
<1> QED
  BY <1>1, <1>2, <1>3, <1>4, TwoPeers

\* p has read every turn the other sealed before the one p waits for.
LEMMA NextSeen ==
  ASSUME Base, InOrder, Complementary, InTime', [Next]_vars, NEW p \in Peers
  PROVE  Seen(p)'
<1> USE OtherPeer, Numbers DEF Base
<1>0. natural' = natural
  BY StepKinds
<1>a. Seen(p)
  BY DEF InOrder
<1>1. CASE Plays(p)
  <2>1. CASE Begins(p)
    BY <2>1 DEF Begins, Seen
  <2>2. CASE Moves(p)
    <3>1. /\ game'[p] = game[p] /\ sealed'[p] = sealed[p] /\ seen'[p] = seen[p]
          /\ Role(p)' = Role(p) /\ MovesOn(p)
      BY <1>0, <2>2 DEF Moves, Role, RoleIn
    <3>2. CASE phase[p] \in {"offer", "opening"}
      <4>1. sealed[p] = 0
        BY <3>2 DEF CountInv, TurnsInv
      <4>2. phase'[p] \in {"think", "turn", "final", "audit"} => Read(p)' <= 0 /\ Read(p)' \in Int
        BY <3>1, <3>2, <4>1 DEF MovesOn, Resending, Playing, Closed, Read
      <4> QED
        BY <4>2 DEF Seen
    <3>3. CASE phase[p] \notin {"offer", "opening"}
      <4>1. phase'[p] \in {"think", "turn", "final", "audit"} => phase'[p] = phase[p]
        BY <3>1, <3>3 DEF MovesOn, Resending, Playing, Closed
      <4> QED
        BY <1>a, <3>1, <4>1 DEF Seen, Read
    <3> QED
      BY <3>2, <3>3
  <2>3. CASE Sends(p)
    <3>1. /\ game'[p] = game[p] /\ sealed'[p] = sealed[p] + 1 /\ seen'[p] = seen[p]
          /\ Role(p)' = Role(p) /\ phase[p] = "think" /\ phase'[p] = "turn"
      BY <1>0, <2>3 DEF Sends, Seals, Role, RoleIn
    <3>2. Read(p)' = Read(p)
      BY <3>1 DEF Read
    <3> QED
      BY <1>a, <3>1, <3>2 DEF Seen
  <2>4. ASSUME NEW t \in box[p].turns, Admits(p, t) \/ GoesOn(p, t) \/ EndsReading(p, t)
        PROVE  Seen(p)'
    <3>1. /\ Reads(p, t) /\ game'[p] = game[p] /\ Role(p)' = Role(p)
          /\ \/ phase'[p] = "final" /\ sealed'[p] = sealed[p] + 1 /\ Role(p) = "thief"
             \/ phase'[p] = "think" /\ sealed'[p] = sealed[p]
             \/ phase'[p] = "audit" /\ sealed'[p] = sealed[p] /\ Role(p) # "thief"
      BY <1>0, <2>4 DEF Admits, Seals, GoesOn, EndsReading, Finishes, Role, RoleIn
    <3>2. t.game = game[p] /\ t.step \in Nat
      BY <3>1, ReadsInOrder, HeldTurns
    <3>3. Read(p)' = t.step /\ Read(p) = t.step - 1
      BY <3>1, <3>2 DEF Reads, Read
    <3>4. /\ seen'[p] = seen[p] \cup {<<t.step, game[p]>>}
          /\ \A k \in 1 .. (t.step - 1) : <<k, game[p]>> \in seen[p]
      BY <1>a, <3>1, <3>2, <3>3 DEF Reads, Seen
    <3>5. \A k \in 1 .. t.step : k \in 1 .. (t.step - 1) \/ k = t.step
      BY <3>2
    <3> QED
      BY <3>1, <3>3, <3>4, <3>5 DEF Seen
  <2>5. CASE EndsByTurn(p) \/ EndsCaught(p)
    <3>1. /\ game'[p] = game[p] /\ sealed'[p] = sealed[p] /\ seen'[p] = seen[p]
          /\ Role(p)' = Role(p) /\ phase[p] \in {"turn", "final"} /\ phase'[p] = "audit"
          /\ Role(p) = "thief"
      BY <1>0, <2>5 DEF EndsByTurn, EndsCaught, Finishes, SaysIn, FinalInv, Role, RoleIn
    <3>2. Read(p)' = Read(p)
      BY <3>1 DEF Read
    <3> QED
      BY <1>a, <3>1, <3>2 DEF Seen
  <2> QED
    BY <1>1, <2>1, <2>2, <2>3, <2>4, <2>5, NotLate DEF Plays
<1>2. CASE Still(p) \/ (\E m \in net : Arrives(m)) \/ Nothing
  <2>1. /\ phase'[p] = phase[p] /\ game'[p] = game[p] /\ sealed'[p] = sealed[p] /\ seen'[p] = seen[p]
        /\ Role(p)' = Role(p)
    BY <1>0, <1>2 DEF Still, Arrives, Nothing, Role, RoleIn
  <2> QED
    BY <1>a, <2>1 DEF Seen, Read
<1> QED
  BY <1>1, <1>2, TwoPeers

\* An envelope covers what its sender sealed up to the end of the sub-game.
LEMMA NextRecords ==
  ASSUME Base, InOrder, Complementary, InTime', [Next]_vars, NEW p \in Peers
  PROVE  Records(p)'
<1> USE OtherPeer, Numbers DEF Base
<1> DEFINE q == Other(p)
<1>0. natural' = natural
  BY StepKinds
<1>1. ASSUME NEW a \in AuditBody, Claimed(p, a), Covers(p, a)
      PROVE  Covers(p, a)'
  <2>1. a.game <= game[p] /\ a.game \in Nat /\ a.records \in Nat
    BY <1>1, SeriesAssumption DEF PaceInv, Claimed, AuditBody, Games
  <2>2. CASE Begins(p)
    BY <2>1, <2>2 DEF Begins, Covers
  <2>3. CASE ~Begins(p)
    <3>1. game'[p] = game[p] /\ (sealed'[p] = sealed[p] \/ sealed'[p] = sealed[p] + 1)
      BY <2>3, TwoPeers DEF Plays, Moves, Sends, Admits, Seals, GoesOn, EndsReading, EndsByTurn,
         EndsCaught, EndsLate, Finishes, Still, Arrives, Nothing
    <3>2. Role(p)' = Role(p)
      BY <1>0, <3>1 DEF Role, RoleIn
    <3> QED
      BY <1>1, <2>1, <3>1, <3>2 DEF Covers
  <2> QED
    BY <2>2, <2>3
<1>2. ASSUME NEW m \in SentAudits', m.to = p
      PROVE  Covers(p, m.audit)'
  <2>1. CASE m \in SentAudits
    <3>1. m.audit \in AuditBody
      BY <2>1 DEF SentAudits, CountInv, TypeOK, Messages
    <3> QED
      BY <1>1, <1>2, <2>1, <3>1 DEF InOrder, Records, ClaimInv
  <2>2. CASE m \notin SentAudits
    <3>1. PICK r \in Peers : Plays(r) /\ Still(Other(r))
      BY <1>2, <2>2, StepKinds DEF Arrives, Nothing
    <3>2. PICK claim : m = AuditTo(Other(r), game[r], sealed[r], claim)
      BY <1>2, <2>2, <3>1 DEF Plays, Begins, Moves, Sends, Admits, Seals, GoesOn, EndsReading, EndsByTurn,
         EndsCaught, EndsLate, Finishes
    <3>3. r = q /\ Other(r) = p
      BY <1>2, <3>2 DEF AuditTo
    <3>4. phase[q] = "audit" \/ EndsByTurn(q) \/ EndsCaught(q) \/ \E t \in box[q].turns : EndsReading(q, t)
      BY <1>2, <2>2, <3>1, <3>3, NotLate DEF Plays, Begins, Moves, Sends, Admits, Seals, GoesOn
    <3>5. game'[p] = game[p] /\ sealed'[p] = sealed[p] /\ Role(p)' = Role(p)
      BY <1>0, <3>1, <3>3 DEF Still, Role, RoleIn
    <3>6. ASSUME game[q] = game[p]
          PROVE  sealed[q] <= IF Role(p) = "thief" THEN sealed[p] - 1 ELSE sealed[p] + 1
      <4>1. CASE phase[q] = "audit"
        <5>1. Alternate(p) /\ Alternate(q)
          BY DEF InOrder
        <5> QED
          BY <3>6, <4>1, <5>1, RolesDiffer DEF Alternate, Ending
      <4>2. CASE EndsByTurn(q) \/ EndsCaught(q)
        BY <3>6, <4>2, ThiefEnds
      <4>3. CASE \E t \in box[q].turns : EndsReading(q, t)
        BY <3>6, <4>3, PoliceEnds
      <4> QED
        BY <3>4, <4>1, <4>2, <4>3
    <3> QED
      BY <3>2, <3>3, <3>5, <3>6 DEF Covers, AuditTo
  <2> QED
    BY <2>1, <2>2
<1>3. ASSUME NEW a \in box'[p].audits
      PROVE  Covers(p, a)'
  <2>1. CASE a \in box[p].audits
    <3>1. a \in AuditBody
      BY <2>1 DEF CountInv, TypeOK, Mailbox
    <3> QED
      BY <1>1, <2>1, <3>1 DEF InOrder, Records, ClaimInv
  <2>2. CASE a \notin box[p].audits
    <3>1. PICK m \in net : Arrives(m)
      BY <1>3, <2>2, TwoPeers
         DEF Plays, Begins, Moves, Sends, Admits, Seals, GoesOn, EndsReading, EndsByTurn, EndsCaught,
             EndsLate, Finishes, Still, Held, Nothing
    <3>2. m.to = p /\ m \in SentAudits /\ a = m.audit /\ a \in AuditBody
      BY <1>3, <2>2, <3>1 DEF Arrives, Held, SentAudits, CountInv, TypeOK, Messages
    <3> QED
      BY <1>1, <3>2 DEF InOrder, Records, ClaimInv
  <2> QED
    BY <2>1, <2>2
<1> QED
  BY <1>2, <1>3 DEF Records

\* What is in time now was in time before.
LEMMA InTimeBefore ==
  ASSUME CountInv, [Next]_vars, InTime'
  PROVE  InTime
<1> SUFFICES ASSUME NEW p \in Peers, NEW n \in 1 .. Len(ends[p])
             PROVE  ends[p][n] # "timeout"
  BY DEF InTime
<1>1. CountInv'
  BY NextCountInv
<1>2. n \in 1 .. Len(ends'[p]) /\ ends'[p][n] = ends[p][n]
  <2>1. Len(ends[p]) \in Nat /\ Len(ends'[p]) \in Nat
    BY <1>1 DEF CountInv, TypeOK
  <2> QED
    BY <2>1, EndsStay
<1> QED
  BY <1>2 DEF InTime

\* What holds whether or not turns are late.
LEMMA InductiveBase == Spec => []Base
<1>1. Init => PaceInv /\ OneInv /\ ClaimInv
  <2> SUFFICES ASSUME Init PROVE PaceInv /\ OneInv /\ ClaimInv
    OBVIOUS
  <2> QED
    BY OtherPeer DEF Init, PaceInv, OneInv, ClaimInv, SentTurns, SentAudits, EmptyBox
<1>2. IInv /\ SaidInv /\ PaceInv /\ OneInv /\ ClaimInv /\ [Next]_vars
        => PaceInv' /\ OneInv' /\ ClaimInv'
  BY NextPace, NextOne, NextClaim DEF IInv, CountInv, SaidInv
<1>3. IInv /\ SaidInv /\ PaceInv /\ OneInv /\ ClaimInv => Base
  BY DEF IInv, CountInv, SaidInv, Base
<1> QED
  BY <1>1, <1>2, <1>3, InductiveIInv, InductiveSaid, PTL DEF Spec

OrderInv == Complementary /\ InTime => InOrder

\* And the order of play, while none is.
LEMMA InductiveOrder == Spec => []OrderInv
<1>1. Init => OrderInv
  <2> SUFFICES ASSUME Init PROVE InOrder
    BY DEF OrderInv
  <2> QED
    BY OtherPeer DEF Init, InOrder, SentTurns, SentAudits, EmptyBox, Alternate, EndedFirst, Seen, Records,
       Ending
<1>2. Base /\ OrderInv /\ [Next]_vars => OrderInv'
  <2> SUFFICES ASSUME Base, OrderInv, [Next]_vars, Complementary', InTime' PROVE InOrder'
    BY DEF OrderInv
  <2>1. Complementary /\ InTime
    BY NextComplementary, InTimeBefore DEF Base
  <2>2. InOrder
    BY <2>1 DEF OrderInv
  <2> QED
    BY <2>1, <2>2, NextTransit, NextStored, NextAlternate, NextEndedFirst, NextSeen, NextRecords DEF InOrder
<1> QED
  BY <1>1, <1>2, InductiveBase, PTL DEF Spec

-----------------------------------------------------------------------------
(* The audits and the dispute.                                             *)

\* p takes envelope a.
Audits(p, a) ==
  /\ phase[p] = "audit" /\ a \in box[p].audits /\ a.game = game[p]
  /\ reports'[p] = Append(reports[p], [verdict |-> IF Tampered(p, a) THEN "tampered" ELSE "clean",
                                       claim |-> a.claim])

\* What a step does to the reports.
LEMMA ReportSteps ==
  ASSUME CountInv, [Next]_vars, NEW p \in Peers
  PROVE  \/ reports'[p] = reports[p]
         \/ reports'[p] = Append(reports[p], Missing)
         \/ \E a \in box[p].audits : Audits(p, a)
<1> USE DEF CountInv
<1>1. ASSUME NEW r \in Peers, TakeAudit(r) \/ AuditMissed(r)
      PROVE  \/ reports'[p] = reports[p]
             \/ reports'[p] = Append(reports[p], Missing)
             \/ \E a \in box[p].audits : Audits(p, a)
  <2>1. ASSUME NEW report, FileRow(r, report)
        PROVE  reports'[p] = IF p = r THEN Append(reports[p], report) ELSE reports[p]
    BY <2>1 DEF FileRow, TypeOK
  <2>2. CASE AuditMissed(r)
    BY <2>1, <2>2 DEF AuditMissed
  <2>3. CASE TakeAudit(r)
    <3>1. PICK a \in wait_for_audit(box[r], game[r]) :
            FileRow(r, [verdict |-> IF Tampered(r, a) THEN "tampered" ELSE "clean", claim |-> a.claim])
      BY <2>3 DEF TakeAudit
    <3>2. a \in box[r].audits /\ a.game = game[r] /\ phase[r] = "audit"
      BY <2>3 DEF TakeAudit, wait_for_audit
    <3> QED
      BY <2>1, <3>1, <3>2 DEF Audits
  <2> QED
    BY <1>1, <2>2, <2>3
<1>2. ASSUME NEW r \in Peers, Main(r), ~TakeAudit(r), ~AuditMissed(r)
      PROVE  reports' = reports
  <2>1. CASE TurnReturns(r) \/ PoliceReads(r)
    BY <2>1 DEF TurnReturns, PoliceReads, EndPlay, resultVars
  <2>2. CASE ~(TurnReturns(r) \/ PoliceReads(r))
    BY <1>2, <2>2 DEF Main, Start, CallReturns, Resend, TakeOffer, Open, SendTurn, FinalReturns,
         TurnWaitExpires, ThiefReads, TakeConsensus, LookAgain, GraceExpires, Leave, OfferFails,
         RelayFails, TurnFails, Watchdog, EndPlay, Settle, resultVars
  <2> QED
    BY <2>1, <2>2
<1> QED
  BY <1>1, <1>2 DEF Next, Finished, Deliver, vars, resultVars

\* The sub-game a report is filed for.
LEMMA AuditsGame ==
  ASSUME CountInv, NEW p \in Peers, NEW a \in box[p].audits, Audits(p, a)
  PROVE  /\ Len(reports'[p]) = game[p] /\ Len(reports[p]) = game[p] - 1 /\ game[p] \in Nat \ {0}
         /\ \A n \in 1 .. Len(reports[p]) : reports'[p][n] = reports[p][n]
         /\ reports'[p][game[p]].claim = a.claim
         /\ reports'[p][game[p]].verdict = IF Tampered(p, a) THEN "tampered" ELSE "clean"
<1>1. phase[p] = "audit" /\ reports[p] \in Seq(Report)
  BY DEF Audits, CountInv, TypeOK
<1>2. Len(reports[p]) = game[p] - 1 /\ game[p] \in Nat \ {0}
  BY <1>1, SeriesAssumption DEF CountInv, FiledInv, Games
<1> DEFINE report == [verdict |-> IF Tampered(p, a) THEN "tampered" ELSE "clean", claim |-> a.claim]
<1>3. reports'[p] = Append(reports[p], report)
  BY DEF Audits
<1>4. report.claim = a.claim /\ report.verdict = IF Tampered(p, a) THEN "tampered" ELSE "clean"
  OBVIOUS
<1> HIDE DEF report
<1>5. /\ Len(reports'[p]) = game[p] /\ reports'[p][game[p]] = report
      /\ \A n \in 1 .. Len(reports[p]) : reports'[p][n] = reports[p][n]
  BY <1>1, <1>2, <1>3
<1> QED
  BY <1>2, <1>4, <1>5

\* While every turn was in time, an audit finds nothing.
LEMMA CleanInTime ==
  ASSUME Base, OrderInv, Complementary, InTime, NEW p \in Peers, NEW a \in box[p].audits, Audits(p, a)
  PROVE  ~Tampered(p, a)
<1> USE Numbers DEF Base
<1>1. InOrder
  BY DEF OrderInv
<1>2. phase[p] = "audit" /\ a.game = game[p] /\ a.records \in Nat
  BY SeriesAssumption DEF Audits, CountInv, TypeOK, Mailbox, AuditBody
<1>3. a.records <= Read(p) /\ Read(p) \in Int
  BY <1>1, <1>2 DEF InOrder, Records, Covers, Read
<1>4. \A k \in 1 .. Read(p) : <<k, game[p]>> \in seen[p]
  BY <1>1, <1>2 DEF InOrder, Seen
<1>5. \A k \in 1 .. a.records : k \in 1 .. Read(p)
  BY <1>2, <1>3
<1>6. \A k \in 1 .. a.records : <<k, a.game>> \in seen[p]
  BY <1>2, <1>4, <1>5
<1> QED
  BY <1>6, Zenon DEF Tampered

\* A timeout filed stays filed.
LEMMA TimedOutStays ==
  ASSUME CountInv, [Next]_vars, NEW k \in Nat, TimedOut(k)
  PROVE  TimedOut(k)'
<1>1. PICK p \in Peers : k \in 1 .. Len(ends[p]) /\ ends[p][k] = "timeout"
  BY DEF TimedOut
<1>2. Len(ends[p]) \in Nat /\ Len(ends'[p]) \in Nat
  BY NextCountInv DEF CountInv, TypeOK
<1>3. k \in 1 .. Len(ends'[p]) /\ ends'[p][k] = "timeout"
  BY <1>1, <1>2, EndsStay
<1> QED
  BY <1>3 DEF TimedOut

\* An audit that finds a turn unseen is preceded by a timeout.
LEMMA NextTampered ==
  ASSUME Base, OrderInv, TamperedOnlyAfterTimeout, [Next]_vars
  PROVE  TamperedOnlyAfterTimeout'
<1> USE OtherPeer, Numbers DEF Base
<1> SUFFICES ASSUME Complementary', NEW p \in Peers, NEW n \in 1 .. Len(reports'[p]),
                    reports'[p][n].verdict = "tampered"
             PROVE  \E k \in 1 .. n : TimedOut(k)'
  BY DEF TamperedOnlyAfterTimeout
<1>0. Complementary
  BY NextComplementary
<1>1. Len(reports'[p]) \in Nat /\ Len(reports[p]) \in Nat /\ reports[p] \in Seq(Report) /\ n \in Nat
  BY NextCountInv DEF CountInv, TypeOK
<1>2. SUFFICES \E k \in 1 .. n : TimedOut(k)
  <2>1. PICK k \in 1 .. n : TimedOut(k)
    BY <1>2
  <2> QED
    BY <1>1, <2>1, TimedOutStays
<1>3. CASE n \in 1 .. Len(reports[p]) /\ reports'[p][n] = reports[p][n]
  BY <1>0, <1>3 DEF TamperedOnlyAfterTimeout
<1>4. CASE ~(n \in 1 .. Len(reports[p]) /\ reports'[p][n] = reports[p][n])
  <2>1. reports'[p] # Append(reports[p], Missing)
    <3>1. Missing.verdict = "missing" /\ Missing \in Report
      BY DEF Missing, Report
    <3>2. SUFFICES ASSUME reports'[p] = Append(reports[p], Missing) PROVE FALSE
      OBVIOUS
    <3>3. n = Len(reports[p]) + 1 /\ reports'[p][n] = Missing
      BY <1>1, <1>4, <3>2
    <3> QED
      BY <3>1, <3>3
  <2>2. PICK a \in box[p].audits : Audits(p, a)
    BY <1>4, <2>1, ReportSteps
  <2>3. n = game[p] /\ Tampered(p, a)
    BY <1>1, <1>4, <2>2, AuditsGame
  <2>4. PICK r \in Peers : \E k \in 1 .. Len(ends[r]) : ends[r][k] = "timeout"
    BY <1>0, <2>2, <2>3, CleanInTime DEF InTime
  <2>5. Len(ends[r]) <= game[p]
    BY DEF PaceInv, Peers, Other
  <2> QED
    BY <2>3, <2>4, <2>5 DEF TimedOut
<1> QED
  BY <1>3, <1>4

\* Two peers in opposite roles call each other tamperers only after one of
\* them timed out, however many sub-games and steps there are.
THEOREM TamperingIsLateness == Spec => []TamperedOnlyAfterTimeout
<1>1. Init => TamperedOnlyAfterTimeout
  BY DEF Init, TamperedOnlyAfterTimeout
<1>2. Base /\ OrderInv /\ TamperedOnlyAfterTimeout /\ [Next]_vars => TamperedOnlyAfterTimeout'
  BY NextTampered
<1> QED
  BY <1>1, <1>2, InductiveBase, InductiveOrder, PTL DEF Spec

\* What an audit showed of the other's claim is what the other filed.
HeardInv ==
  \A p \in Peers : \A n \in 1 .. Len(reports[p]) :
    reports[p][n].verdict # "missing" =>
      n <= Len(ends[Other(p)]) /\ reports[p][n].claim = ends[Other(p)][n]

\* A claim is heard as it was sent.
LEMMA NextHeard ==
  ASSUME Base, HeardInv, [Next]_vars
  PROVE  HeardInv'
<1> USE OtherPeer DEF Base
<1> SUFFICES ASSUME NEW p \in Peers, NEW n \in 1 .. Len(reports'[p]), reports'[p][n].verdict # "missing"
             PROVE  n <= Len(ends'[Other(p)]) /\ reports'[p][n].claim = ends'[Other(p)][n]
  BY DEF HeardInv
<1> DEFINE q == Other(p)
<1>1. /\ Len(reports'[p]) \in Nat /\ Len(reports[p]) \in Nat /\ reports[p] \in Seq(Report) /\ n \in Nat \ {0}
      /\ Len(ends[q]) \in Nat /\ Len(ends'[q]) \in Nat
  <2>1. TypeOK /\ TypeOK'
    BY NextCountInv DEF CountInv
  <2>2. /\ reports'[p] \in Seq(Report) /\ reports[p] \in Seq(Report)
        /\ ends[q] \in Seq(EndReasons) /\ ends'[q] \in Seq(EndReasons)
    BY <2>1 DEF TypeOK
  <2>3. /\ Len(reports'[p]) \in Nat /\ Len(reports[p]) \in Nat
        /\ Len(ends[q]) \in Nat /\ Len(ends'[q]) \in Nat
    BY <2>2
  <2> QED
    BY <2>2, <2>3
<1>2. SUFFICES n <= Len(ends[q]) /\ reports'[p][n].claim = ends[q][n]
  BY <1>1, <1>2, EndsStay
<1>3. CASE n \in 1 .. Len(reports[p]) /\ reports'[p][n] = reports[p][n]
  BY <1>3 DEF HeardInv
<1>4. CASE ~(n \in 1 .. Len(reports[p]) /\ reports'[p][n] = reports[p][n])
  <2>1. reports'[p] # Append(reports[p], Missing)
    <3>1. Missing.verdict = "missing" /\ Missing \in Report
      BY DEF Missing, Report
    <3>2. SUFFICES ASSUME reports'[p] = Append(reports[p], Missing) PROVE FALSE
      OBVIOUS
    <3>3. n = Len(reports[p]) + 1 /\ reports'[p][n] = Missing
      BY <1>1, <1>4, <3>2
    <3> QED
      BY <3>1, <3>3
  <2>2. PICK a \in box[p].audits : Audits(p, a)
    BY <1>4, <2>1, ReportSteps
  <2>3. n = game[p] /\ reports'[p][n].claim = a.claim
    BY <1>1, <1>4, <2>2, AuditsGame
  <2>4. a.game = n /\ Claimed(p, a)
    BY <2>2, <2>3 DEF Audits, ClaimInv
  <2> QED
    BY <2>3, <2>4 DEF Claimed
<1> QED
  BY <1>3, <1>4

\* Two peers that played opposite roles in time and heard each other filed
\* the same, so that their digests are equal.
LEMMA AgreedInTime ==
  ASSUME IInv, HeardInv, TamperedOnlyAfterTimeout, PoliceEndsAsThiefSaid,
         NEW p \in Peers, NEW rows \in box[p].consensus, Len(reports[p]) = NumGames,
         Complementary, \A n \in Games : ~TimedOut(n),
         \A n \in Games : reports[p][n].verdict # "missing"
  PROVE  confirm_agreement(p, rows)
<1> USE OtherPeer, SeriesAssumption DEF IInv
<1> DEFINE q == Other(p)
<1>1. Len(reports[q]) = NumGames /\ rows = RowsOf(q, reports[q])
  BY DEF DigestInv, IsDigestOf
<1>2. \A r \in Peers : Len(reports[r]) = NumGames
  BY <1>1 DEF Peers, Other
<1>3. \A r \in Peers : Len(ends[r]) = NumGames
  <2>1. ASSUME NEW r \in Peers PROVE Len(ends[r]) = NumGames
    <3>1. Len(reports[r]) <= Len(ends[r]) /\ Len(ends[r]) <= NumGames /\ Len(ends[r]) \in Nat
      BY DEF TypeOK
    <3> QED
      BY <1>2, <3>1
  <2> QED
    BY <2>1
<1>4. ASSUME NEW n \in Games, NEW r \in Peers
      PROVE  reports[r][n].verdict # "tampered" /\ ends[r][n] # "timeout"
  <2>1. n \in 1 .. Len(reports[r]) /\ n \in 1 .. Len(ends[r]) /\ \A k \in 1 .. n : k \in Games
    BY <1>2, <1>3 DEF Games
  <2> QED
    BY <2>1 DEF TamperedOnlyAfterTimeout, TimedOut
<1>5. ASSUME NEW n \in Games
      PROVE  reports[p][n].verdict = "clean" /\ reports[p][n].claim = ends[q][n]
  <2>1. n \in 1 .. Len(reports[p]) /\ reports[p] \in Seq(Report)
    BY <1>2 DEF Games, TypeOK
  <2>2. reports[p][n].verdict \in {"clean", "tampered", "missing"}
    BY <2>1 DEF Report
  <2>3. reports[p][n].claim = ends[q][n]
    BY <2>1 DEF HeardInv
  <2> QED
    BY <1>4, <2>2, <2>3
<1>6. ASSUME NEW n \in Games
      PROVE  RoleIn(p, n) = "thief" <=> RoleIn(q, n) # "thief"
  <2>1. natural[1] # natural[2] /\ \A r \in Peers : natural[r] \in Roles
    BY DEF Complementary, TypeOK
  <2> QED
    BY <2>1 DEF RoleIn, Opposite, Roles, Peers, Other
<1>7. ASSUME NEW n \in Games
      PROVE  ends[p][n] = ends[q][n]
  <2>1. n \in 1 .. Len(ends[p]) /\ n \in 1 .. Len(ends[q]) /\ n <= Len(ends[p]) /\ n <= Len(ends[q])
    BY <1>3 DEF Games
  <2>2. RoleIn(p, n) = "police" \/ RoleIn(q, n) = "police"
    <3>1. \A r \in Peers : natural[r] \in Roles
      BY DEF TypeOK
    <3> QED
      BY <1>6, <3>1 DEF RoleIn, Opposite, Roles
  <2>3. ASSUME NEW r \in Peers, RoleIn(r, n) = "police"
        PROVE  ends[Other(r)][n] = ends[r][n]
    <3>1. n \in 1 .. Len(ends[r]) /\ ends[r][n] # "timeout" /\ n <= Len(ends[Other(r)])
      BY <1>3, <1>4 DEF Games
    <3> QED
      BY <2>3, <3>1 DEF PoliceEndsAsThiefSaid
  <2> QED
    BY <2>2, <2>3
<1>8. rows = RowsOf(p, reports[p])
  <2>1. ASSUME NEW n \in Games
        PROVE  Row(q, n, reports[q][n]) = Row(p, n, reports[p][n])
    BY <1>4, <1>6, <1>7 DEF Row
  <2> QED
    BY <1>1, <2>1 DEF RowsOf, Games
<1> QED
  BY <1>5, <1>7, <1>8 DEF confirm_agreement

\* The step that notes a dispute.
LEMMA DisputeSteps ==
  ASSUME CountInv, [Next]_vars, NEW p \in Peers, outcome'[p] = "disputed", outcome[p] # "disputed"
  PROVE  /\ Len(reports[p]) = NumGames
         /\ \E rows \in box[p].consensus : ~confirm_agreement(p, rows)
<1>1. ASSUME NEW r \in Peers, NEW how, Settle(r, how)
      PROVE  r = p /\ how = "disputed"
  BY <1>1 DEF Settle, CountInv, TypeOK
<1>2. PICK r \in Peers : TakeConsensus(r) \/ GraceExpires(r) \/ Watchdog(r)
  <2>1. outcome' # outcome
    OBVIOUS
  <2> QED
    BY <2>1
       DEF Next, Main, Start, CallReturns, Resend, TakeOffer, Open, SendTurn, TurnReturns,
           FinalReturns, TurnWaitExpires, ThiefReads, PoliceReads, TakeAudit, LookAgain,
           Leave, OfferFails, RelayFails, TurnFails, AuditMissed, EndPlay, FileRow, Deliver,
           Finished, vars, resultVars
<1>3. TakeConsensus(p)
  BY <1>1, <1>2 DEF GraceExpires, Watchdog, TakeConsensus
<1>4. PICK rows \in box[p].consensus :
        Settle(p, IF confirm_agreement(p, rows) THEN "confirmed" ELSE "disputed")
  BY <1>3 DEF TakeConsensus, wait_for_consensus
<1>5. ~confirm_agreement(p, rows)
  BY <1>1, <1>4
<1>6. Len(reports[p]) = NumGames
  BY <1>3 DEF TakeConsensus, CountInv, FiledInv, Closed
<1> QED
  BY <1>4, <1>5, <1>6

\* A dispute is noted with its cause there, which stays.
LEMMA NextDispute ==
  ASSUME IInv, HeardInv, TamperedOnlyAfterTimeout, PoliceEndsAsThiefSaid, DisputeHasCause, [Next]_vars
  PROVE  DisputeHasCause'
<1>0. CountInv
  BY DEF IInv, CountInv
<1> SUFFICES ASSUME NEW p \in Peers, outcome'[p] = "disputed", Complementary'
             PROVE  \/ \E n \in Games : TimedOut(n)'
                    \/ \E n \in Games : reports'[p][n].verdict = "missing"
  BY DEF DisputeHasCause
<1>1. Complementary
  BY <1>0, NextComplementary
<1>2. Len(reports[p]) = NumGames
  BY <1>0, DisputeSteps DEF IInv, DigestInv
<1>3. (\E n \in Games : TimedOut(n)) \/ (\E n \in Games : reports[p][n].verdict = "missing")
  <2>1. CASE outcome[p] = "disputed"
    BY <1>1, <2>1 DEF DisputeHasCause
  <2>2. CASE outcome[p] # "disputed"
    BY <1>0, <1>1, <1>2, <2>2, DisputeSteps, AgreedInTime
  <2> QED
    BY <2>1, <2>2
<1>4. reports'[p] = reports[p]
  BY <1>0, <1>2, RowsFinal
<1> QED
  BY <1>0, <1>3, <1>4, TimedOutStays DEF Games

\* A disputed series has a cause: clashing roles, a late turn or a missing
\* audit, for every number of sub-games and steps.
THEOREM DisputesAreCaused == Spec => []DisputeHasCause
<1>1. Init => HeardInv /\ DisputeHasCause
  BY DEF Init, HeardInv, DisputeHasCause
<1>2. Base /\ HeardInv /\ [Next]_vars => HeardInv'
  BY NextHeard
<1>3. IInv /\ HeardInv /\ TamperedOnlyAfterTimeout /\ PoliceEndsAsThiefSaid /\ DisputeHasCause /\ [Next]_vars
        => DisputeHasCause'
  BY NextDispute
<1> QED
  BY <1>1, <1>2, <1>3, InductiveIInv, InductiveBase, TamperingIsLateness, PoliceFilesWhatWasSaid, PTL DEF Spec

=============================================================================

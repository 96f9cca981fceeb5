--------------------------- MODULE StdSeries_proofs ---------------------------
(***************************************************************************)
(* Proofs about StdSeries, for every number of sub-games and steps, every  *)
(* pair of roles the operators may set and every set of relayed peers.     *)
(***************************************************************************)
EXTENDS StdSeries, TLAPS

-----------------------------------------------------------------------------
(* The inductive invariant.                                                *)

Playing == {"offer", "opening", "think", "turn", "final"}
Closed == {"consensus", "grace", "filed", "done"}

\* How many sub-games are played and filed follows from the phase.
FiledInv ==
  \A p \in Peers :
    /\ phase[p] = "start" => game[p] = 0 /\ Len(ends[p]) = 0 /\ Len(reports[p]) = 0
    /\ phase[p] \in Playing =>
         game[p] \in Games /\ Len(ends[p]) = game[p] - 1 /\ Len(reports[p]) = game[p] - 1
    /\ phase[p] = "audit" =>
         game[p] \in Games /\ Len(ends[p]) = game[p] /\ Len(reports[p]) = game[p] - 1
    /\ phase[p] \in Closed =>
         game[p] = NumGames /\ Len(ends[p]) = NumGames /\ Len(reports[p]) = NumGames

\* A peer that is to seal another turn has one left: the thief's turn
\* max_steps ends its sub-game, and the police answers turns that were sealed.
TurnsInv ==
  \A p \in Peers :
    /\ phase[p] \in {"offer", "opening"} => sealed[p] = 0
    /\ phase[p] = "opening" => Role(p) # "thief"
    /\ phase[p] = "think" => sealed[p] < MaxSteps
    /\ phase[p] = "final" => sealed[p] \in TurnNumbers
    /\ phase[p] = "turn" => at[p] \in {"call", "wait"}
    /\ phase[p] = "turn" /\ at[p] = "call" => sealed[p] \in TurnNumbers
    /\ phase[p] = "turn" /\ at[p] = "wait" /\ Role(p) = "thief" => sealed[p] \in 1 .. (MaxSteps - 1)

\* No offer is for a sub-game its sender has not come to.
OffersInv ==
  /\ \A m \in net : m.kind = "offer" => m.game <= game[Other(m.to)]
  /\ \A p \in Peers : \A n \in box[p].offers : n <= game[Other(p)]

\* A digest is its sender's rows, which are complete and so final.
IsDigestOf(q, rows) == Len(reports[q]) = NumGames /\ rows = RowsOf(q, reports[q])

DigestInv ==
  /\ \A m \in net : m.kind = "consensus" => IsDigestOf(Other(m.to), m.rows)
  /\ \A p \in Peers : \A rows \in box[p].consensus : IsDigestOf(Other(p), rows)
  /\ \A p \in Peers : outcome[p] # "none" => Len(reports[p]) = NumGames

IInv == TypeOK /\ FiledInv /\ TurnsInv /\ OffersInv /\ Abreast /\ DigestInv /\ ConfirmedSettles

-----------------------------------------------------------------------------
(* Facts about the messages and the mailbox.                               *)

\* The other of the two peers is a peer, and the other of that one is p.
LEMMA OtherPeer ==
  ASSUME NEW p \in Peers
  PROVE  Other(p) \in Peers /\ Other(p) # p /\ Other(Other(p)) = p
  BY DEF Peers, Other

\* Storing a message keeps a mailbox a mailbox.
LEMMA StoreType ==
  ASSUME NEW b \in Mailbox, NEW m \in Messages
  PROVE  Store(b, m) \in Mailbox
<1>1. CASE m.kind = "offer"
  <2>1. m.game \in Games
    BY <1>1 DEF Messages
  <2>2. Store(b, m) = [b EXCEPT !.offers = @ \cup {m.game}]
    BY <1>1 DEF Store, record_offer
  <2> QED
    BY <2>1, <2>2 DEF Mailbox
<1>2. CASE m.kind = "turn"
  <2>1. m.turn \in TurnBody
    BY <1>2 DEF Messages
  <2>2. Store(b, m) = [b EXCEPT !.turns = {o \in @ : o.step # m.turn.step} \cup {m.turn}]
    BY <1>2 DEF Store, record_turn
  <2> QED
    BY <2>1, <2>2 DEF Mailbox
<1>3. CASE m.kind = "audit"
  <2>1. m.audit \in AuditBody
    BY <1>3 DEF Messages
  <2>2. Store(b, m) = [b EXCEPT !.audits = {o \in @ : o.game # m.audit.game} \cup {m.audit}]
    BY <1>3 DEF Store, record_audit
  <2> QED
    BY <2>1, <2>2 DEF Mailbox
<1>4. CASE m.kind = "consensus"
  <2>1. m.rows \in Rows
    BY <1>4 DEF Messages
  <2>2. Store(b, m) = [b EXCEPT !.consensus = {m.rows}]
    BY <1>4 DEF Store, record_consensus
  <2> QED
    BY <2>1, <2>2 DEF Mailbox
<1> QED
  BY <1>1, <1>2, <1>3, <1>4 DEF Messages

\* What a turn says is one of the three things a turn can say.
LEMMA SaysType ==
  ASSUME NEW p \in Peers, NEW step
  PROVE  SaysIn(p, step) \in Says
  BY DEF SaysIn, Says

\* The rows of a peer that has filed every sub-game are rows.
LEMMA RowsType ==
  ASSUME TypeOK, NEW p \in Peers, NEW reps \in Seq(Report), Len(ends[p]) = NumGames
  PROVE  RowsOf(p, reps) \in Rows
<1>1. \A n \in Games : ends[p][n] \in EndReasons
  BY SeriesAssumption DEF TypeOK, Games
<1>2. ASSUME NEW n \in Games
      PROVE  Row(p, n, reps[n]) \in [result : ResultValues, thief : Peers]
  BY <1>1, OtherPeer DEF Row, ResultValues
<1> QED
  BY <1>2 DEF RowsOf, Rows, Games

\* What a peer resends is a message.
LEMMA ResentType ==
  ASSUME TypeOK, FiledInv, NEW p \in Peers, phase[p] \in Resending
  PROVE  MessageOf(p) \in Messages
<1>1. CASE phase[p] = "offer"
  <2>1. game[p] \in Games
    BY <1>1 DEF FiledInv, Playing
  <2> QED
    BY <1>1, <2>1, OtherPeer DEF MessageOf, OfferTo, Messages
<1>2. CASE phase[p] = "audit"
  <2>1. game[p] \in Games /\ ends[p][game[p]] \in EndReasons /\ sealed[p] \in 0 .. MaxSteps
    BY <1>2 DEF FiledInv, TypeOK, Games
  <2> QED
    BY <1>2, <2>1, OtherPeer DEF MessageOf, AuditTo, AuditBody, Messages
<1>3. CASE phase[p] = "consensus"
  <2>1. RowsOf(p, reports[p]) \in Rows
    BY <1>3, RowsType DEF FiledInv, Closed, TypeOK
  <2> QED
    BY <1>3, <2>1, OtherPeer DEF MessageOf, ConsensusTo, Messages
<1> QED
  BY <1>1, <1>2, <1>3 DEF Resending

-----------------------------------------------------------------------------
(* The types and the counts behind them.                                   *)

CountInv == TypeOK /\ FiledInv /\ TurnsInv

LEMMA InitCountInv == Init => CountInv
<1> SUFFICES ASSUME Init PROVE CountInv
  OBVIOUS
<1>1. TypeOK
  BY SeriesAssumption DEF Init, TypeOK, Phases, EmptyBox, Mailbox
<1>2. FiledInv /\ TurnsInv
  BY DEF Init, FiledInv, TurnsInv, Playing, Closed
<1> QED
  BY <1>1, <1>2 DEF CountInv

\* The head of the sub-game loop, reached with the sub-games before it filed.
LEMMA BeginCountInv ==
  ASSUME CountInv, NEW p \in Peers, NEW n \in Games, BeginSubGame(p, n),
         UNCHANGED <<setupVars, ends, outcome>>,
         reports' \in [Peers -> Seq(Report)],
         \A q \in Peers \ {p} : reports'[q] = reports[q],
         Len(ends[p]) = n - 1, Len(reports'[p]) = n - 1
  PROVE  CountInv'
<1> USE SeriesAssumption DEF CountInv, BeginSubGame, Goto, setupVars
<1>1. TypeOK'
  <2>1. OfferTo(Other(p), n) \in Messages
    BY OtherPeer DEF OfferTo, Messages
  <2>2. box' \in [Peers -> Mailbox]
    BY DEF TypeOK, Mailbox, reset_turns
  <2>3. Len(reports'[p]) <= Len(ends[p])
    OBVIOUS
  <2>4. \A q \in Peers : Len(reports'[q]) <= Len(ends'[q]) /\ Len(ends'[q]) <= NumGames
    BY <2>3 DEF TypeOK
  <2>5. phase' \in [Peers -> Phases] /\ at' \in [Peers -> {"run", "call", "wait"}]
    BY DEF TypeOK, Phases, Resending
  <2>6. game' \in [Peers -> 0 .. NumGames] /\ sealed' \in [Peers -> 0 .. MaxSteps]
          /\ seen' \in [Peers -> SUBSET (TurnNumbers \X Games)]
    BY DEF TypeOK, Games
  <2> QED
    BY <2>1, <2>2, <2>4, <2>5, <2>6 DEF TypeOK
<1>2. FiledInv'
  BY DEF FiledInv, TypeOK, Playing, Closed
<1>3. TurnsInv'
  BY DEF TurnsInv, TypeOK, Role, RoleIn
<1> QED
  BY <1>1, <1>2, <1>3

\* The end of play, from any place where this sub-game is not filed yet.
LEMMA EndPlayCountInv ==
  ASSUME CountInv, NEW p \in Peers, NEW end \in EndReasons, EndPlay(p, end), seen' \in [Peers -> SUBSET (TurnNumbers \X Games)],
         phase[p] \in Playing
  PROVE  CountInv'
<1> USE SeriesAssumption DEF CountInv, EndPlay, Goto, setupVars
<1>1. game[p] \in Games /\ Len(ends[p]) = game[p] - 1 /\ Len(reports[p]) = game[p] - 1
  BY DEF FiledInv
<1>2. ends' \in [Peers -> Seq(EndReasons)] /\ Len(ends'[p]) = game[p]
  BY <1>1 DEF TypeOK
<1>3. TypeOK'
  <2>1. AuditTo(Other(p), game[p], sealed[p], end) \in Messages
    BY <1>1, OtherPeer DEF AuditTo, AuditBody, Messages, TypeOK
  <2>2. \A q \in Peers : Len(reports'[q]) <= Len(ends'[q]) /\ Len(ends'[q]) <= NumGames
    BY <1>1, <1>2 DEF TypeOK, Games
  <2>3. phase' \in [Peers -> Phases] /\ at' \in [Peers -> {"run", "call", "wait"}]
    BY DEF TypeOK, Phases, Resending
  <2> QED
    BY <1>2, <2>1, <2>2, <2>3 DEF TypeOK
<1>4. FiledInv'
  BY <1>1, <1>2 DEF FiledInv, TypeOK, Playing, Closed
<1>5. TurnsInv'
  BY DEF TurnsInv, TypeOK, Role, RoleIn
<1> QED
  BY <1>3, <1>4, <1>5

\* A step that only moves p's main thread, sends a message again or notes how
\* the consensus exchange ended.
LEMMA MoveCountInv ==
  ASSUME CountInv, NEW p \in Peers, NEW ph \in Phases, NEW pt \in {"run", "call", "wait"},
         Goto(p, ph, pt), UNCHANGED <<setupVars, progressVars, ends, reports, box>>,
         net' \subseteq Messages,
         outcome' \in [Peers -> {"none", "confirmed", "disputed", "unheard"}],
         ph \notin {"start", "final"},
         ph \in Playing => phase[p] \in Playing,
         ph = "audit" => phase[p] = "audit",
         ph \in Closed => phase[p] \in Closed,
         ph \in {"offer", "opening"} => sealed[p] = 0,
         ph = "opening" => Role(p) # "thief",
         ph = "think" => sealed[p] < MaxSteps,
         ph = "turn" => pt = "wait" /\ (Role(p) = "thief" => sealed[p] \in 1 .. (MaxSteps - 1))
  PROVE  CountInv'
<1> USE SeriesAssumption DEF CountInv, Goto, setupVars, progressVars
<1>1. TypeOK'
  BY DEF TypeOK
<1>2. FiledInv'
  BY DEF FiledInv, TypeOK
<1>3. TurnsInv'
  BY DEF TurnsInv, TypeOK, Role, RoleIn
<1> QED
  BY <1>1, <1>2, <1>3

LEMMA NextCountInv == CountInv /\ [Next]_vars => CountInv'
<1> SUFFICES ASSUME CountInv, [Next]_vars PROVE CountInv'
  OBVIOUS
<1> USE SeriesAssumption DEF CountInv
<1>1. ASSUME NEW p \in Peers, Start(p)
      PROVE  CountInv'
  <2>1. Len(ends[p]) = 0 /\ Len(reports'[p]) = 0 /\ 1 \in Games
    BY <1>1 DEF Start, FiledInv, resultVars, Games
  <2> QED
    <3>1. BeginSubGame(p, 1) /\ Len(ends[p]) = 1 - 1 /\ Len(reports'[p]) = 1 - 1
      BY <1>1, <2>1 DEF Start
    <3>2. UNCHANGED <<setupVars, ends, reports, outcome>>
      BY <1>1 DEF Start, setupVars, resultVars
    <3>3. reports' \in [Peers -> Seq(Report)]
      BY <3>2 DEF TypeOK
    <3> QED
      BY <2>1, <3>1, <3>2, <3>3, BeginCountInv
<1>2. ASSUME NEW p \in Peers, CallReturns(p) \/ OfferFails(p) \/ Open(p) \/ RelayFails(p)
               \/ TurnFails(p) \/ LookAgain(p) \/ Leave(p)
      PROVE  CountInv'
  <2>1. UNCHANGED <<setupVars, progressVars, resultVars, box, net>>
    BY <1>2 DEF CallReturns, OfferFails, Open, RelayFails, TurnFails, LookAgain, Leave
  <2>2. net' \subseteq Messages /\ outcome' \in [Peers -> {"none", "confirmed", "disputed", "unheard"}]
    BY <2>1 DEF TypeOK, resultVars
  <2>3. CASE CallReturns(p)
    <3>1. Goto(p, phase[p], "wait") /\ phase[p] \in Resending
      BY <2>3 DEF CallReturns
    <3> QED
      BY <2>1, <2>2, <3>1, MoveCountInv
         DEF TurnsInv, Resending, Phases, Playing, Closed, progressVars, resultVars
  <2>4. CASE OfferFails(p) \/ RelayFails(p) \/ TurnFails(p)
    BY <2>1, <2>2, <2>4, MoveCountInv
       DEF OfferFails, RelayFails, TurnFails, Raise, Phases, Playing, Closed, progressVars,
           resultVars
  <2>5. CASE Open(p)
    BY <2>1, <2>2, <2>5, MoveCountInv
       DEF Open, TurnsInv, Phases, Playing, Closed, progressVars, resultVars
  <2>6. CASE LookAgain(p) \/ Leave(p)
    BY <2>1, <2>2, <2>6, MoveCountInv
       DEF LookAgain, Leave, Phases, Playing, Closed, progressVars, resultVars
  <2> QED
    BY <1>2, <2>3, <2>4, <2>5, <2>6
<1>14. ASSUME NEW p \in Peers, TakeOffer(p)
       PROVE  CountInv'
  <2>1. UNCHANGED <<setupVars, progressVars, resultVars, box, net>>
    BY <1>14 DEF TakeOffer
  <2>2. net' \subseteq Messages /\ outcome' \in [Peers -> {"none", "confirmed", "disputed", "unheard"}]
    BY <2>1 DEF TypeOK, resultVars
  <2>3. phase[p] = "offer" /\ sealed[p] = 0
    BY <1>14 DEF TakeOffer, TurnsInv
  <2>4. CASE Goto(p, "raised", "run")
    BY <2>1, <2>2, <2>4, MoveCountInv DEF Phases, Playing, Closed, progressVars, resultVars
  <2>5. CASE Goto(p, "think", "run")
    BY <2>1, <2>2, <2>3, <2>5, MoveCountInv
       DEF Phases, Playing, Closed, progressVars, resultVars
  <2>6. CASE Goto(p, "opening", "run") /\ Role(p) # "thief"
    BY <2>1, <2>2, <2>3, <2>6, MoveCountInv
       DEF Phases, Playing, Closed, progressVars, resultVars
  <2>7. CASE Goto(p, "turn", "wait") /\ Role(p) # "thief"
    BY <2>1, <2>2, <2>3, <2>7, MoveCountInv
       DEF Phases, Playing, Closed, progressVars, resultVars
  <2> QED
    BY <1>14, <2>4, <2>5, <2>6, <2>7 DEF TakeOffer, Raise
<1>3. ASSUME NEW p \in Peers, Resend(p)
      PROVE  CountInv'
  <2>1. MessageOf(p) \in Messages /\ phase[p] \in Resending
    BY <1>3, ResentType DEF Resend
  <2>2. net' \subseteq Messages /\ outcome' \in [Peers -> {"none", "confirmed", "disputed", "unheard"}]
    BY <1>3, <2>1 DEF Resend, TypeOK, resultVars
  <2> QED
    BY <1>3, <2>1, <2>2, MoveCountInv
       DEF Resend, TurnsInv, Resending, Phases, Playing, Closed, progressVars, resultVars
<1>4. ASSUME NEW p \in Peers, SendTurn(p)
      PROVE  CountInv'
  <2>1. game[p] \in Games /\ sealed[p] + 1 \in TurnNumbers
    BY <1>4 DEF SendTurn, FiledInv, TurnsInv, TypeOK, Playing, TurnNumbers
  <2>2. TurnTo(Other(p), game[p], sealed[p] + 1, SaysIn(p, sealed[p] + 1)) \in Messages
    BY <2>1, OtherPeer, SaysType DEF TurnTo, TurnBody, Messages
  <2> USE DEF SendTurn, Goto, setupVars, resultVars
  <2>3. TypeOK'
    BY <1>4, <2>1, <2>2 DEF TypeOK, Phases, TurnNumbers
  <2>4. FiledInv'
    BY <1>4 DEF FiledInv, TypeOK, Playing, Closed
  <2>5. TurnsInv'
    BY <1>4, <2>1 DEF TurnsInv, TypeOK, Role, RoleIn, TurnNumbers
  <2> QED
    BY <2>3, <2>4, <2>5
<1>5. ASSUME NEW p \in Peers, TurnReturns(p)
      PROVE  CountInv'
  <2>1. CASE SaysIn(p, sealed[p]) = "survival"
    BY <1>5, <2>1, EndPlayCountInv DEF TurnReturns, TypeOK, EndReasons, Playing
  <2>2. CASE SaysIn(p, sealed[p]) # "survival"
    <3>1. Goto(p, "turn", "wait") /\ phase[p] = "turn"
            /\ UNCHANGED <<setupVars, progressVars, resultVars, box, net>>
      BY <1>5, <2>2 DEF TurnReturns
    <3>2. net' \subseteq Messages /\ outcome' \in [Peers -> {"none", "confirmed", "disputed", "unheard"}]
      BY <3>1 DEF TypeOK, resultVars
    <3>3. Role(p) = "thief" => sealed[p] \in 1 .. (MaxSteps - 1)
      BY <1>5, <2>2 DEF TurnReturns, Returned, TurnsInv, TurnNumbers, SaysIn
    <3> QED
      BY <3>1, <3>2, <3>3, MoveCountInv DEF Phases, Playing, Closed, progressVars, resultVars
  <2> QED
    BY <2>1, <2>2
<1>6. ASSUME NEW p \in Peers, FinalReturns(p) \/ TurnWaitExpires(p)
      PROVE  CountInv'
  BY <1>6, EndPlayCountInv DEF FinalReturns, TurnWaitExpires, TypeOK, EndReasons, Playing
<1>7. ASSUME NEW p \in Peers, ThiefReads(p)
      PROVE  CountInv'
  <2>1. PICK t \in wait_for_turn(box[p], sealed[p]) :
          /\ See(p, t)
          /\ \/ /\ sealed' = [sealed EXCEPT ![p] = @ + 1]
                /\ net' = net \cup {TurnTo(Other(p), game[p], sealed[p] + 1, "caught")}
                /\ Goto(p, "final", "call")
             \/ /\ Goto(p, "think", "run")
                /\ UNCHANGED <<sealed, net>>
    BY <1>7, Zenon DEF ThiefReads
  <2>2. t \in TurnBody /\ game[p] \in Games /\ sealed[p] \in 1 .. (MaxSteps - 1)
    BY <1>7 DEF ThiefReads, wait_for_turn, TypeOK, Mailbox, FiledInv, TurnsInv, Playing
  <2>3. TurnTo(Other(p), game[p], sealed[p] + 1, "caught") \in Messages
    BY <2>2, OtherPeer DEF TurnTo, TurnBody, TurnNumbers, Says, Messages
  <2>4. seen' \in [Peers -> SUBSET (TurnNumbers \X Games)]
    BY <2>1, <2>2 DEF See, TypeOK, TurnBody
  <2>5. UNCHANGED <<setupVars, game, resultVars, box>> /\ phase[p] = "turn"
    BY <1>7 DEF ThiefReads
  <2>6. CASE Goto(p, "think", "run") /\ UNCHANGED <<sealed, net>>
    <3> USE <2>6 DEF Goto, setupVars, resultVars
    <3>1. TypeOK'
      BY <2>4, <2>5 DEF TypeOK, Phases
    <3>2. FiledInv'
      BY <2>5 DEF FiledInv, TypeOK, Playing, Closed
    <3>3. TurnsInv'
      BY <2>2, <2>5 DEF TurnsInv, TypeOK, Role, RoleIn
    <3> QED
      BY <3>1, <3>2, <3>3
  <2>7. CASE /\ sealed' = [sealed EXCEPT ![p] = @ + 1]
             /\ net' = net \cup {TurnTo(Other(p), game[p], sealed[p] + 1, "caught")}
             /\ Goto(p, "final", "call")
    <3> USE <2>7 DEF Goto, setupVars, resultVars
    <3>1. TypeOK'
      <4>1. net' \subseteq Messages
        BY <2>3 DEF TypeOK
      <4>2. sealed[p] + 1 \in 0 .. MaxSteps
        BY <2>2
      <4>3. sealed' \in [Peers -> 0 .. MaxSteps]
        BY <4>2 DEF TypeOK
      <4> QED
        BY <2>4, <2>5, <4>1, <4>3 DEF TypeOK, Phases
    <3>2. FiledInv'
      BY <2>5 DEF FiledInv, TypeOK, Playing, Closed
    <3>3. TurnsInv'
      <4>1. sealed'[p] \in TurnNumbers
        BY <2>2 DEF TypeOK, TurnNumbers
      <4> QED
        BY <2>5, <4>1 DEF TurnsInv, TypeOK, Role, RoleIn
    <3> QED
      BY <3>1, <3>2, <3>3
  <2> QED
    BY <2>1, <2>6, <2>7
<1>8. ASSUME NEW p \in Peers, PoliceReads(p)
      PROVE  CountInv'
  <2>1. PICK t \in wait_for_turn(box[p], sealed[p] + 1) :
          /\ See(p, t)
          /\ IF EndSeen(p, t) = "none"
             THEN /\ Goto(p, "think", "run")
                  /\ UNCHANGED <<setupVars, game, sealed, resultVars, box, net>>
             ELSE EndPlay(p, EndSeen(p, t))
    BY <1>8 DEF PoliceReads
  <2>2. t \in TurnBody /\ t.step = sealed[p] + 1
    BY <1>8 DEF wait_for_turn, TypeOK, Mailbox
  <2>3. seen' \in [Peers -> SUBSET (TurnNumbers \X Games)]
    BY <2>1, <2>2 DEF See, TypeOK, TurnBody
  <2>4. CASE EndSeen(p, t) = "none"
    <3> USE DEF Goto, setupVars, resultVars
    <3>1. TypeOK'
      BY <2>1, <2>3, <2>4 DEF TypeOK, Phases
    <3>2. FiledInv'
      BY <1>8, <2>1, <2>4 DEF PoliceReads, FiledInv, TypeOK, Playing, Closed
    <3>3. sealed[p] < MaxSteps
      BY <2>2 DEF TurnBody, TurnNumbers, TypeOK
    <3>4. TurnsInv'
      BY <2>1, <2>4, <3>3 DEF TurnsInv, TypeOK, Role, RoleIn
    <3> QED
      BY <3>1, <3>2, <3>4
  <2>5. CASE EndSeen(p, t) # "none"
    <3>1. EndSeen(p, t) \in EndReasons
      BY <2>5 DEF EndSeen, EndReasons
    <3> QED
      BY <1>8, <2>1, <2>3, <2>5, <3>1, EndPlayCountInv DEF PoliceReads, Playing
  <2> QED
    BY <2>4, <2>5
<1>9. ASSUME NEW p \in Peers, NEW report \in Report, phase[p] = "audit", FileRow(p, report)
      PROVE  CountInv'
  <2>1. /\ game[p] \in Games /\ Len(ends[p]) = game[p] /\ Len(reports[p]) = game[p] - 1
        /\ Append(reports[p], report) \in Seq(Report)
    BY <1>9 DEF FiledInv, TypeOK
  <2>2. /\ reports' \in [Peers -> Seq(Report)]
        /\ reports'[p] = Append(reports[p], report)
        /\ Len(reports'[p]) = game[p]
        /\ \A q \in Peers \ {p} : reports'[q] = reports[q]
    BY <1>9, <2>1 DEF FileRow, TypeOK
  <2>3. CASE game[p] < NumGames
    <3>1. game[p] + 1 \in Games /\ BeginSubGame(p, game[p] + 1)
      BY <1>9, <2>1, <2>3 DEF FileRow, Games
    <3> QED
      BY <1>9, <2>1, <2>2, <3>1, BeginCountInv DEF FileRow, Games
  <2>4. CASE ~ game[p] < NumGames
    <3>1. game[p] = NumGames
      BY <2>1, <2>4 DEF Games
    <3>2. RowsOf(p, Append(reports[p], report)) \in Rows
      BY <2>1, <3>1, RowsType
    <3>3. ConsensusTo(Other(p), RowsOf(p, Append(reports[p], report))) \in Messages
      BY <3>2, OtherPeer DEF ConsensusTo, Messages
    <3>7. /\ net' = net \cup {ConsensusTo(Other(p), RowsOf(p, Append(reports[p], report)))}
          /\ Goto(p, "consensus", "call")
          /\ UNCHANGED <<progressVars, box>>
          /\ UNCHANGED <<setupVars, ends, outcome>>
      BY <1>9, <2>4 DEF FileRow
    <3> USE DEF Goto, setupVars, progressVars
    <3>4. TypeOK'
      <4>1. Len(reports'[p]) <= Len(ends[p])
        BY <2>1, <2>2
      <4>2. \A q \in Peers : Len(reports'[q]) <= Len(ends[q]) /\ Len(ends[q]) <= NumGames
        BY <2>2, <4>1 DEF TypeOK
      <4>3. phase' \in [Peers -> Phases] /\ at' \in [Peers -> {"run", "call", "wait"}]
              /\ net' \subseteq Messages
        BY <3>3, <3>7 DEF TypeOK, Phases, Resending
      <4> QED
        BY <2>2, <3>7, <4>2, <4>3 DEF TypeOK
    <3>5. FiledInv'
      BY <1>9, <2>1, <2>2, <3>1, <3>7 DEF FiledInv, TypeOK, Playing, Closed
    <3>6. TurnsInv'
      BY <3>7 DEF TurnsInv, TypeOK, Role, RoleIn
    <3> QED
      BY <3>4, <3>5, <3>6
  <2> QED
    BY <2>3, <2>4
<1>10. ASSUME NEW p \in Peers, TakeAudit(p) \/ AuditMissed(p)
       PROVE  CountInv'
  <2>1. CASE TakeAudit(p)
    <3>1. PICK a \in wait_for_audit(box[p], game[p]) :
            FileRow(p, [verdict |-> IF Tampered(p, a) THEN "tampered" ELSE "clean",
                        claim |-> a.claim])
      BY <2>1 DEF TakeAudit
    <3>2. a \in AuditBody
      BY DEF wait_for_audit, TypeOK, Mailbox
    <3>3. [verdict |-> IF Tampered(p, a) THEN "tampered" ELSE "clean", claim |-> a.claim] \in Report
      BY <3>2 DEF Report, AuditBody
    <3> QED
      BY <1>9, <2>1, <3>1, <3>3 DEF TakeAudit
  <2>2. CASE AuditMissed(p)
    BY <1>9, <2>2 DEF AuditMissed, Missing, Report
  <2> QED
    BY <1>10, <2>1, <2>2
<1>11. ASSUME NEW p \in Peers, TakeConsensus(p) \/ GraceExpires(p) \/ Watchdog(p)
       PROVE  CountInv'
  <2>1. PICK how \in {"confirmed", "disputed", "unheard"} : Settle(p, how)
    BY <1>11 DEF TakeConsensus, GraceExpires, Watchdog
  <2>2. phase[p] \in {"consensus", "grace"}
    BY <1>11 DEF TakeConsensus, GraceExpires, Watchdog
  <2>3. net' \subseteq Messages /\ outcome' \in [Peers -> {"none", "confirmed", "disputed", "unheard"}]
    BY <2>1 DEF Settle, TypeOK
  <2> QED
    BY <2>1, <2>2, <2>3, MoveCountInv DEF Settle, Phases, Playing, Closed, progressVars
<1>12. ASSUME NEW m \in net, Deliver(m)
       PROVE  CountInv'
  <2>1. m \in Messages /\ m.to \in Peers
    BY DEF TypeOK, Messages
  <2>2. Store(box[m.to], m) \in Mailbox
    BY <2>1, StoreType DEF TypeOK
  <2> USE DEF Deliver, setupVars, progressVars, resultVars
  <2>3. TypeOK'
    BY <1>12, <2>1, <2>2 DEF TypeOK
  <2>4. FiledInv' /\ TurnsInv'
    BY <1>12 DEF FiledInv, TurnsInv, Role, RoleIn
  <2> QED
    BY <2>3, <2>4
<1>13. CASE UNCHANGED vars
  <2> USE <1>13 DEF vars, setupVars, progressVars, resultVars
  <2>1. TypeOK'
    BY DEF TypeOK
  <2>2. FiledInv' /\ TurnsInv'
    BY DEF FiledInv, TurnsInv, Role, RoleIn
  <2> QED
    BY <2>1, <2>2
<1> QED
  BY <1>1, <1>2, <1>14, <1>3, <1>4, <1>5, <1>6, <1>7, <1>8, <1>10, <1>11, <1>12, <1>13
     DEF Next, Main, Finished

-----------------------------------------------------------------------------
(* The peers stay abreast.                                                 *)

AbreastInv == OffersInv /\ Abreast

\* The head of the sub-game loop: p has come to sub-game n before it offers it,
\* and may do so while the other is still at the sub-game before.
LEMMA BeginAbreast ==
  ASSUME CountInv, AbreastInv, NEW p \in Peers, BeginSubGame(p, game[p] + 1),
         game[p] <= game[Other(p)]
  PROVE  AbreastInv'
<1> USE OtherPeer DEF CountInv, AbreastInv, BeginSubGame, Goto
<1>1. \A q \in Peers : game[q] \in Nat /\ game'[q] \in Nat /\ game[q] <= game'[q]
  BY SeriesAssumption DEF TypeOK
<1>2. game'[p] = game[p] + 1 /\ game'[Other(p)] = game[Other(p)]
  BY DEF TypeOK
<1>3. OffersInv'
  <2>1. ASSUME NEW m \in net', m.kind = "offer"
        PROVE  m.game <= game'[Other(m.to)]
    <3>1. CASE m \in net
      <4>1. m.to \in Peers /\ m.game \in Nat /\ m.game <= game[Other(m.to)]
        BY <2>1, <3>1 DEF OffersInv, TypeOK, Messages, Games
      <4> QED
        BY <1>1, <4>1
    <3>2. CASE m = OfferTo(Other(p), game[p] + 1)
      BY <1>1, <1>2, <3>2 DEF OfferTo
    <3> QED
      BY <2>1, <3>1, <3>2
  <2>2. ASSUME NEW q \in Peers, NEW n \in box'[q].offers
        PROVE  n <= game'[Other(q)]
    <3>1. n \in box[q].offers
      BY <2>2 DEF reset_turns, TypeOK, Mailbox
    <3>2. n \in Nat /\ n <= game[Other(q)]
      BY <3>1 DEF OffersInv, TypeOK, Mailbox, Games
    <3> QED
      BY <1>1, <3>2
  <2> QED
    BY <2>1, <2>2 DEF OffersInv
<1>4. Abreast'
  <2>1. ~Agreed(p)'
    BY DEF Agreed, TypeOK
  <2>2. \A q \in Peers : q = p \/ q = Other(p)
    BY DEF Peers, Other
  <2>3. game'[p] <= game'[Other(p)] + 1
    BY <1>1, <1>2
  <2>4. game'[Other(p)] <= game'[p] + 1
    BY <1>1, <1>2 DEF Abreast
  <2>5. Agreed(Other(p))' => game'[Other(p)] <= game'[p]
    BY <1>1, <1>2 DEF Abreast, Agreed, TypeOK
  <2> QED
    BY <2>1, <2>2, <2>3, <2>4, <2>5 DEF Abreast
<1> QED
  BY <1>3, <1>4

\* A step within a sub-game: it may send again an offer that has been made,
\* and may agree on a sub-game the other has come to.
LEMMA WithinAbreast ==
  ASSUME CountInv, AbreastInv, UNCHANGED game,
         \A q \in Peers : box'[q].offers = box[q].offers,
         \A m \in net' \ net : m.kind = "offer" => m.game <= game[Other(m.to)],
         \A q \in Peers : Agreed(q)' => Agreed(q) \/ game[q] <= game[Other(q)]
  PROVE  AbreastInv'
<1>1. OffersInv'
  BY DEF AbreastInv, OffersInv
<1>2. Abreast'
  BY DEF AbreastInv, Abreast
<1> QED
  BY <1>1, <1>2 DEF AbreastInv

LEMMA NextAbreast == CountInv /\ AbreastInv /\ [Next]_vars => AbreastInv'
<1> SUFFICES ASSUME CountInv, AbreastInv, [Next]_vars PROVE AbreastInv'
  OBVIOUS
<1> USE OtherPeer
<1>1. ASSUME NEW p \in Peers, Start(p)
      PROVE  AbreastInv'
  <2>1. game[p] = 0 /\ game[Other(p)] \in Nat
    BY <1>1, SeriesAssumption DEF Start, CountInv, FiledInv, TypeOK
  <2>2. BeginSubGame(p, game[p] + 1)
    BY <1>1, <2>1 DEF Start
  <2> QED
    BY <2>1, <2>2, BeginAbreast
<1>2. ASSUME NEW p \in Peers,
             CallReturns(p) \/ OfferFails(p) \/ Open(p) \/ RelayFails(p) \/ TurnFails(p)
               \/ LookAgain(p) \/ Leave(p)
      PROVE  AbreastInv'
  BY <1>2, WithinAbreast
     DEF CallReturns, OfferFails, Open, RelayFails, TurnFails, LookAgain, Leave, Raise, Goto,
         progressVars, Agreed, Resending, CountInv, TypeOK
<1>3. ASSUME NEW p \in Peers, TakeOffer(p)
      PROVE  AbreastInv'
  <2>1. game[p] <= game[Other(p)]
    BY <1>3 DEF TakeOffer, wait_for_offer, AbreastInv, OffersInv
  <2>2. \A q \in Peers \ {p} : phase'[q] = phase[q]
    BY <1>3 DEF TakeOffer, Raise, Goto, CountInv, TypeOK
  <2> QED
    BY <1>3, <2>1, <2>2, WithinAbreast DEF TakeOffer, progressVars, Agreed
<1>4. ASSUME NEW p \in Peers, Resend(p)
      PROVE  AbreastInv'
  <2>1. MessageOf(p).kind = "offer" => MessageOf(p) = OfferTo(Other(p), game[p])
    <3>1. CASE phase[p] = "offer"
      BY <3>1 DEF MessageOf
    <3>2. CASE phase[p] = "audit"
      BY <3>2 DEF MessageOf, AuditTo
    <3>3. CASE phase[p] = "consensus"
      BY <3>3 DEF MessageOf, ConsensusTo
    <3> QED
      BY <1>4, <3>1, <3>2, <3>3 DEF Resend, Resending
  <2>2. MessageOf(p).kind = "offer" => MessageOf(p).game <= game[Other(MessageOf(p).to)]
    BY <2>1, SeriesAssumption DEF OfferTo, CountInv, TypeOK
  <2>3. phase' = phase /\ UNCHANGED <<game, box>> /\ net' = net \cup {MessageOf(p)}
    BY <1>4 DEF Resend, Goto, progressVars, CountInv, TypeOK
  <2> QED
    BY <2>2, <2>3, WithinAbreast DEF Agreed
<1>5. ASSUME NEW p \in Peers, SendTurn(p)
      PROVE  AbreastInv'
  BY <1>5, WithinAbreast DEF SendTurn, Goto, TurnTo, Agreed, CountInv, TypeOK
<1>6. ASSUME NEW p \in Peers, NEW end, EndPlay(p, end), phase[p] \in {"turn", "final"}
      PROVE  AbreastInv'
  BY <1>6, WithinAbreast DEF EndPlay, Goto, AuditTo, Agreed, CountInv, TypeOK
<1>7. ASSUME NEW p \in Peers, TurnReturns(p) \/ FinalReturns(p) \/ TurnWaitExpires(p)
      PROVE  AbreastInv'
  <2>1. CASE TurnReturns(p) /\ SaysIn(p, sealed[p]) # "survival"
    BY <2>1, WithinAbreast DEF TurnReturns, Goto, progressVars, Agreed, CountInv, TypeOK
  <2> QED
    BY <1>6, <1>7, <2>1 DEF TurnReturns, FinalReturns, TurnWaitExpires
<1>8. ASSUME NEW p \in Peers, ThiefReads(p)
      PROVE  AbreastInv'
  <2>1. /\ phase[p] = "turn"
        /\ UNCHANGED <<game, box>>
        /\ Goto(p, "final", "call") \/ Goto(p, "think", "run")
        /\ net' \subseteq net \cup {TurnTo(Other(p), game[p], sealed[p] + 1, "caught")}
    BY <1>8 DEF ThiefReads
  <2> QED
    BY <2>1, WithinAbreast DEF Goto, TurnTo, Agreed, CountInv, TypeOK
<1>9. ASSUME NEW p \in Peers, PoliceReads(p)
      PROVE  AbreastInv'
  <2>1. PICK t \in wait_for_turn(box[p], sealed[p] + 1) :
          \/ Goto(p, "think", "run") /\ UNCHANGED <<game, box, net>>
          \/ EndPlay(p, EndSeen(p, t))
    BY <1>9 DEF PoliceReads
  <2>2. CASE Goto(p, "think", "run") /\ UNCHANGED <<game, box, net>>
    BY <1>9, <2>2, WithinAbreast DEF PoliceReads, Goto, Agreed, CountInv, TypeOK
  <2> QED
    BY <1>6, <1>9, <2>1, <2>2 DEF PoliceReads
<1>10. ASSUME NEW p \in Peers, NEW report, phase[p] = "audit", FileRow(p, report)
       PROVE  AbreastInv'
  <2>1. game[p] <= game[Other(p)]
    BY <1>10 DEF AbreastInv, Abreast, Agreed
  <2>2. CASE game[p] < NumGames
    BY <1>10, <2>1, <2>2, BeginAbreast DEF FileRow
  <2>3. CASE ~ game[p] < NumGames
    BY <1>10, <2>1, <2>3, WithinAbreast
       DEF FileRow, Goto, ConsensusTo, progressVars, Agreed, CountInv, TypeOK
  <2> QED
    BY <2>2, <2>3
<1>11. ASSUME NEW p \in Peers, TakeAudit(p) \/ AuditMissed(p)
       PROVE  AbreastInv'
  BY <1>10, <1>11 DEF TakeAudit, AuditMissed
<1>12. ASSUME NEW p \in Peers, TakeConsensus(p) \/ GraceExpires(p) \/ Watchdog(p)
       PROVE  AbreastInv'
  <2>1. Goto(p, "filed", "run") /\ phase[p] \in {"consensus", "grace"} /\ UNCHANGED <<game, box, net>>
    BY <1>12 DEF TakeConsensus, GraceExpires, Watchdog, Settle, progressVars
  <2> QED
    BY <2>1, WithinAbreast DEF Goto, Agreed, CountInv, TypeOK
<1>13. ASSUME NEW m \in net, Deliver(m)
       PROVE  AbreastInv'
  <2>1. m \in Messages /\ m.to \in Peers /\ box[m.to] \in Mailbox
    BY DEF CountInv, TypeOK, Messages
  <2>2. UNCHANGED <<game, phase>> /\ net' \subseteq net /\ box' = [box EXCEPT ![m.to] = Store(@, m)]
    BY <1>13 DEF Deliver, progressVars
  <2>3. CASE m.kind = "offer"
    <3>1. Store(box[m.to], m).offers = box[m.to].offers \cup {m.game}
      BY <2>1, <2>3 DEF Store, record_offer, Mailbox
    <3>2. m.game <= game[Other(m.to)]
      BY <2>3 DEF AbreastInv, OffersInv
    <3>3. OffersInv'
      BY <2>1, <2>2, <3>1, <3>2 DEF AbreastInv, OffersInv, CountInv, TypeOK
    <3>4. Abreast'
      BY <2>2 DEF AbreastInv, Abreast, Agreed
    <3> QED
      BY <3>3, <3>4 DEF AbreastInv
  <2>4. CASE m.kind # "offer"
    <3>1. Store(box[m.to], m).offers = box[m.to].offers
      BY <2>1, <2>4 DEF Store, record_turn, record_audit, record_consensus, Mailbox, Messages
    <3> QED
      BY <2>1, <2>2, <3>1, WithinAbreast DEF Agreed, CountInv, TypeOK
  <2> QED
    BY <2>3, <2>4
<1>14. CASE UNCHANGED vars
  BY <1>14, WithinAbreast DEF vars, progressVars, Agreed
<1> QED
  BY <1>1, <1>2, <1>3, <1>4, <1>5, <1>7, <1>8, <1>9, <1>11, <1>12, <1>13, <1>14
     DEF Next, Main, Finished

-----------------------------------------------------------------------------
(* A confirmed series is settled.                                          *)

\* The rows of a peer that has filed every sub-game are final.
LEMMA RowsFinal ==
  ASSUME CountInv, [Next]_vars, NEW q \in Peers, Len(reports[q]) = NumGames
  PROVE  reports'[q] = reports[q] /\ ends'[q] = ends[q] /\ natural' = natural
<1> USE SeriesAssumption
<1>1. /\ phase[q] \notin Playing \cup {"audit"}
      /\ game[q] \in Nat
  BY DEF CountInv, FiledInv, TypeOK, Games
<1>2. ASSUME NEW p \in Peers, NEW end, EndPlay(p, end), phase[p] \in Playing
      PROVE  reports'[q] = reports[q] /\ ends'[q] = ends[q] /\ natural' = natural
  BY <1>1, <1>2 DEF EndPlay, setupVars, CountInv, TypeOK
<1>3. ASSUME NEW p \in Peers, NEW report, FileRow(p, report), phase[p] = "audit"
      PROVE  reports'[q] = reports[q] /\ ends'[q] = ends[q] /\ natural' = natural
  BY <1>1, <1>3 DEF FileRow, setupVars, CountInv, TypeOK
<1>4. ASSUME NEW p \in Peers,
             TurnReturns(p) \/ FinalReturns(p) \/ TurnWaitExpires(p) \/ PoliceReads(p)
      PROVE  reports'[q] = reports[q] /\ ends'[q] = ends[q] /\ natural' = natural
  <2>1. phase[p] \in Playing
    BY <1>4 DEF TurnReturns, FinalReturns, TurnWaitExpires, PoliceReads, Playing
  <2>2. (\E end : EndPlay(p, end)) \/ UNCHANGED <<setupVars, resultVars>>
    BY <1>4 DEF TurnReturns, FinalReturns, TurnWaitExpires, PoliceReads
  <2> QED
    BY <1>2, <2>1, <2>2 DEF setupVars, resultVars
<1>5. ASSUME NEW p \in Peers, TakeAudit(p) \/ AuditMissed(p)
      PROVE  reports'[q] = reports[q] /\ ends'[q] = ends[q] /\ natural' = natural
  BY <1>3, <1>5 DEF TakeAudit, AuditMissed
<1>6. ASSUME NEW p \in Peers, Main(p)
      PROVE  reports'[q] = reports[q] /\ ends'[q] = ends[q] /\ natural' = natural
  <2>1. CASE Start(p) \/ CallReturns(p) \/ Resend(p) \/ TakeOffer(p) \/ Open(p) \/ SendTurn(p)
              \/ ThiefReads(p) \/ LookAgain(p) \/ Leave(p) \/ OfferFails(p) \/ RelayFails(p)
              \/ TurnFails(p)
    BY <2>1 DEF Start, CallReturns, Resend, TakeOffer, Open, SendTurn, ThiefReads, LookAgain,
         Leave, OfferFails, RelayFails, TurnFails, setupVars, resultVars
  <2>2. CASE TakeConsensus(p) \/ GraceExpires(p) \/ Watchdog(p)
    BY <2>2 DEF TakeConsensus, GraceExpires, Watchdog, Settle, setupVars
  <2> QED
    BY <1>4, <1>5, <1>6, <2>1, <2>2 DEF Main
<1>7. ASSUME NEW m \in net, Deliver(m)
      PROVE  reports'[q] = reports[q] /\ ends'[q] = ends[q] /\ natural' = natural
  BY <1>7 DEF Deliver, setupVars, resultVars
<1>8. CASE UNCHANGED vars
  BY <1>8 DEF vars, setupVars, resultVars
<1> QED
  BY <1>6, <1>7, <1>8 DEF Next, Finished

\* So a digest stays its sender's.
LEMMA DigestFinal ==
  ASSUME CountInv, [Next]_vars, NEW q \in Peers, NEW rows, IsDigestOf(q, rows)
  PROVE  IsDigestOf(q, rows)'
<1>1. /\ Len(reports[q]) = NumGames
      /\ reports'[q] = reports[q] /\ ends'[q] = ends[q] /\ natural' = natural
  BY RowsFinal DEF IsDigestOf
<1>2. \A n \in Games : Row(q, n, reports[q][n])' = Row(q, n, reports[q][n])
  BY <1>1 DEF Row, RoleIn
<1>3. RowsOf(q, reports[q])' = RowsOf(q, reports[q])
  BY <1>1, <1>2 DEF RowsOf, Games
<1> QED
  BY <1>1, <1>3 DEF IsDigestOf

\* A step that stores no digest: what it sends must be complete rows, and what
\* it settles a series filed to its end.
LEMMA NoDigest ==
  ASSUME CountInv, DigestInv, [Next]_vars,
         \A m \in net' \ net : m.kind = "consensus" => IsDigestOf(Other(m.to), m.rows)',
         \A q \in Peers : box'[q].consensus = box[q].consensus,
         \A q \in Peers : outcome'[q] # "none" => Len(reports[q]) = NumGames
  PROVE  DigestInv'
<1>1. ASSUME NEW m \in net', m.kind = "consensus"
      PROVE  IsDigestOf(Other(m.to), m.rows)'
  <2>1. CASE m \in net
    <3>1. m.to \in Peers /\ IsDigestOf(Other(m.to), m.rows)
      BY <1>1, <2>1 DEF DigestInv, CountInv, TypeOK, Messages
    <3> QED
      BY <3>1, OtherPeer, DigestFinal
  <2> QED
    BY <1>1, <2>1
<1>2. ASSUME NEW q \in Peers, NEW rows \in box'[q].consensus
      PROVE  IsDigestOf(Other(q), rows)'
  BY <1>2, OtherPeer, DigestFinal DEF DigestInv
<1>3. \A q \in Peers : outcome'[q] # "none" => Len(reports'[q]) = NumGames
  BY RowsFinal
<1> QED
  BY <1>1, <1>2, <1>3 DEF DigestInv

\* Two peers that hold the same digest, one of them having found every
\* sub-game clean, played opposite roles to the same ends.
LEMMA SameRowsSettle ==
  ASSUME TypeOK, NEW p \in Peers, RowsOf(p, reports[p]) = RowsOf(Other(p), reports[Other(p)]),
         \A q \in Peers : Len(reports[q]) = NumGames,
         \A n \in Games : reports[p][n].verdict = "clean"
  PROVE  /\ Complementary
         /\ ends[1] = ends[2]
         /\ \A q \in Peers, n \in Games : reports[q][n].verdict # "tampered"
<1> USE SeriesAssumption, OtherPeer
<1> DEFINE q == Other(p)
<1>1. \A n \in Games : Row(p, n, reports[p][n]) = Row(q, n, reports[q][n])
  BY DEF RowsOf, Games
<1>2. \A n \in Games : Row(p, n, reports[p][n]).result = ends[p][n]
  BY DEF Row
<1>3. \A n \in Games : ends[p][n] \in EndReasons /\ ends[q][n] \in EndReasons
  BY DEF TypeOK, Games
<1>4. ASSUME NEW n \in Games
      PROVE  reports[q][n].verdict # "tampered" /\ ends[q][n] = ends[p][n]
  <2>1. Row(q, n, reports[q][n]).result = ends[p][n]
    BY <1>1, <1>2
  <2>2. ends[p][n] # "tamper_forfeit"
    BY <1>3 DEF EndReasons
  <2> QED
    BY <2>1, <2>2 DEF Row
<1>5. Complementary
  <2>1. Row(p, 1, reports[p][1]).thief = Row(q, 1, reports[q][1]).thief
    BY <1>1 DEF Games
  <2>2. RoleIn(p, 1) = "thief" <=> RoleIn(q, 1) # "thief"
    BY <2>1 DEF Row
  <2>3. RoleIn(p, 1) = natural[p] /\ RoleIn(q, 1) = natural[q]
    BY DEF RoleIn
  <2>4. natural[p] # natural[q]
    BY <2>2, <2>3
  <2> QED
    BY <2>4 DEF Complementary, Other, Peers
<1>6. ends[p] = ends[q]
  <2>1. Len(ends[p]) = NumGames /\ Len(ends[q]) = NumGames
    BY DEF TypeOK
  <2> QED
    BY <1>4, <2>1 DEF TypeOK, Games
<1>7. \A r \in Peers : r = p \/ r = q
  BY DEF Peers, Other
<1> QED
  BY <1>4, <1>5, <1>6, <1>7 DEF Peers

LEMMA NextDigest == CountInv /\ DigestInv /\ [Next]_vars => DigestInv'
<1> SUFFICES ASSUME CountInv, DigestInv, [Next]_vars PROVE DigestInv'
  OBVIOUS
<1> USE OtherPeer
<1>1. \A q \in Peers : outcome[q] # "none" => Len(reports[q]) = NumGames
  BY DEF DigestInv
<1>2. ASSUME NEW p \in Peers, NEW n \in Nat, BeginSubGame(p, n), UNCHANGED outcome
      PROVE  DigestInv'
  <2>1. \A q \in Peers : box'[q].consensus = box[q].consensus
    BY <1>2 DEF BeginSubGame, reset_turns, CountInv, TypeOK, Mailbox
  <2> QED
    BY <1>1, <1>2, <2>1, NoDigest DEF BeginSubGame, OfferTo
<1>3. ASSUME NEW p \in Peers, NEW end, EndPlay(p, end)
      PROVE  DigestInv'
  BY <1>1, <1>3, NoDigest DEF EndPlay, AuditTo
<1>4. ASSUME NEW p \in Peers, Start(p)
      PROVE  DigestInv'
  BY <1>2, <1>4 DEF Start, resultVars
<1>5. ASSUME NEW p \in Peers,
             CallReturns(p) \/ TakeOffer(p) \/ OfferFails(p) \/ Open(p) \/ RelayFails(p)
               \/ TurnFails(p) \/ LookAgain(p) \/ Leave(p)
      PROVE  DigestInv'
  <2>1. UNCHANGED <<outcome, box, net>>
    BY <1>5 DEF CallReturns, TakeOffer, OfferFails, Open, RelayFails, TurnFails, LookAgain,
       Leave, resultVars
  <2> QED
    BY <1>1, <2>1, NoDigest
<1>6. ASSUME NEW p \in Peers, Resend(p)
      PROVE  DigestInv'
  <2>1. PICK m : m = MessageOf(p)
    OBVIOUS
  <2>2. m.kind = "consensus" => Other(m.to) = p /\ IsDigestOf(p, m.rows)
    <3>1. CASE phase[p] = "offer"
      BY <2>1, <3>1 DEF MessageOf, OfferTo
    <3>2. CASE phase[p] = "audit"
      BY <2>1, <3>2 DEF MessageOf, AuditTo
    <3>3. CASE phase[p] = "consensus"
      BY <2>1, <3>3 DEF MessageOf, ConsensusTo, IsDigestOf, CountInv, FiledInv, Closed
    <3> QED
      BY <1>6, <3>1, <3>2, <3>3 DEF Resend, Resending
  <2>3. m.kind = "consensus" => IsDigestOf(Other(m.to), m.rows)'
    BY <2>2, DigestFinal
  <2>4. UNCHANGED <<outcome, box>> /\ net' = net \cup {m}
    BY <1>6, <2>1 DEF Resend, resultVars
  <2> QED
    BY <1>1, <2>3, <2>4, NoDigest
<1>7. ASSUME NEW p \in Peers, SendTurn(p) \/ ThiefReads(p)
      PROVE  DigestInv'
  <2>1. /\ UNCHANGED <<outcome, box>>
        /\ \A m \in net' \ net : m.kind = "turn"
    BY <1>7 DEF SendTurn, ThiefReads, TurnTo, resultVars
  <2> QED
    BY <1>1, <2>1, NoDigest
<1>8. ASSUME NEW p \in Peers,
             TurnReturns(p) \/ FinalReturns(p) \/ TurnWaitExpires(p) \/ PoliceReads(p)
      PROVE  DigestInv'
  <2>1. (\E end : EndPlay(p, end)) \/ UNCHANGED <<outcome, box, net>>
    BY <1>8 DEF TurnReturns, FinalReturns, TurnWaitExpires, PoliceReads, resultVars
  <2> QED
    BY <1>1, <1>3, <2>1, NoDigest
<1>9. ASSUME NEW p \in Peers, NEW report \in Report, phase[p] = "audit", FileRow(p, report)
      PROVE  DigestInv'
  <2>1. CASE game[p] < NumGames
    BY <1>2, <1>9, <2>1, SeriesAssumption DEF FileRow, CountInv, TypeOK
  <2>2. CASE ~ game[p] < NumGames
    <3>1. PICK rows : rows = RowsOf(p, Append(reports[p], report))
      OBVIOUS
    <3>2. /\ net' = net \cup {ConsensusTo(Other(p), rows)}
          /\ UNCHANGED <<outcome, box, natural, ends>>
          /\ reports' = [reports EXCEPT ![p] = Append(@, report)]
      BY <1>9, <2>2, <3>1 DEF FileRow, setupVars
    <3>3. reports'[p] = Append(reports[p], report) /\ reports[p] \in Seq(Report)
      BY <3>2 DEF CountInv, TypeOK
    <3>4. Len(reports'[p]) = NumGames
      BY <1>9, <2>2, <3>3, SeriesAssumption DEF CountInv, FiledInv, TypeOK, Games
    <3>5. RowsOf(p, reports[p])' = rows
      BY <3>1, <3>2, <3>3 DEF RowsOf, Row, RoleIn
    <3>6. IsDigestOf(p, rows)'
      BY <3>4, <3>5 DEF IsDigestOf
    <3> QED
      BY <1>1, <3>2, <3>6, NoDigest DEF ConsensusTo
  <2> QED
    BY <2>1, <2>2
<1>10. ASSUME NEW p \in Peers, TakeAudit(p) \/ AuditMissed(p)
       PROVE  DigestInv'
  <2>1. CASE AuditMissed(p)
    BY <1>9, <2>1 DEF AuditMissed, Missing, Report
  <2>2. CASE TakeAudit(p)
    <3>1. PICK a \in wait_for_audit(box[p], game[p]) :
            FileRow(p, [verdict |-> IF Tampered(p, a) THEN "tampered" ELSE "clean",
                        claim |-> a.claim])
      BY <2>2 DEF TakeAudit
    <3>2. a \in AuditBody
      BY DEF wait_for_audit, CountInv, TypeOK, Mailbox
    <3>3. [verdict |-> IF Tampered(p, a) THEN "tampered" ELSE "clean", claim |-> a.claim] \in Report
      BY <3>2 DEF Report, AuditBody
    <3> QED
      BY <1>9, <2>2, <3>1, <3>3 DEF TakeAudit
  <2> QED
    BY <1>10, <2>1, <2>2
<1>11. ASSUME NEW p \in Peers, TakeConsensus(p) \/ GraceExpires(p) \/ Watchdog(p)
       PROVE  DigestInv'
  <2>1. PICK how : Settle(p, how)
    BY <1>11 DEF TakeConsensus, GraceExpires, Watchdog
  <2>2. Len(reports[p]) = NumGames
    BY <1>11 DEF TakeConsensus, GraceExpires, Watchdog, CountInv, FiledInv, Closed
  <2> QED
    BY <1>1, <2>1, <2>2, NoDigest DEF Settle, CountInv, TypeOK
<1>12. ASSUME NEW m \in net, Deliver(m)
       PROVE  DigestInv'
  <2>1. m \in Messages /\ m.to \in Peers /\ box[m.to] \in Mailbox
    BY DEF CountInv, TypeOK, Messages
  <2>2. UNCHANGED <<outcome, reports>> /\ net' \subseteq net
          /\ box' = [box EXCEPT ![m.to] = Store(@, m)]
    BY <1>12 DEF Deliver, resultVars
  <2>3. CASE m.kind = "consensus"
    <3>1. Store(box[m.to], m).consensus = {m.rows}
      BY <2>1, <2>3 DEF Store, record_consensus, Mailbox
    <3>2. IsDigestOf(Other(m.to), m.rows)
      BY <2>3 DEF DigestInv
    <3>3. ASSUME NEW o \in net', o.kind = "consensus"
          PROVE  IsDigestOf(Other(o.to), o.rows)'
      <4>1. o.to \in Peers /\ IsDigestOf(Other(o.to), o.rows)
        BY <2>2, <3>3 DEF DigestInv, CountInv, TypeOK, Messages
      <4> QED
        BY <4>1, DigestFinal
    <3>4. ASSUME NEW q \in Peers, NEW rows \in box'[q].consensus
          PROVE  IsDigestOf(Other(q), rows)'
      <4>1. IsDigestOf(Other(q), rows)
        BY <2>1, <2>2, <3>1, <3>2, <3>4 DEF DigestInv, CountInv, TypeOK
      <4> QED
        BY <4>1, DigestFinal
    <3> QED
      BY <1>1, <2>2, <3>3, <3>4 DEF DigestInv
  <2>4. CASE m.kind # "consensus"
    <3>1. Store(box[m.to], m).consensus = box[m.to].consensus
      BY <2>1, <2>4 DEF Store, record_offer, record_turn, record_audit, Mailbox, Messages
    <3> QED
      BY <1>1, <2>1, <2>2, <3>1, NoDigest DEF CountInv, TypeOK
  <2> QED
    BY <2>3, <2>4
<1>13. CASE UNCHANGED vars
  BY <1>1, <1>13, NoDigest DEF vars, resultVars
<1> QED
  BY <1>4, <1>5, <1>6, <1>7, <1>8, <1>10, <1>11, <1>12, <1>13 DEF Next, Main, Finished

LEMMA NextConfirmed == CountInv /\ DigestInv /\ ConfirmedSettles /\ [Next]_vars => ConfirmedSettles'
<1> SUFFICES ASSUME CountInv, DigestInv, ConfirmedSettles, [Next]_vars,
                    NEW p \in Peers, outcome'[p] = "confirmed"
             PROVE  /\ Complementary'
                    /\ \A q \in Peers : Len(reports'[q]) = NumGames
                    /\ ends'[1] = ends'[2]
                    /\ \A q \in Peers, n \in Games : reports'[q][n].verdict # "tampered"
  BY DEF ConfirmedSettles
<1>1. /\ Complementary
      /\ \A q \in Peers : Len(reports[q]) = NumGames
      /\ ends[1] = ends[2]
      /\ \A q \in Peers, n \in Games : reports[q][n].verdict # "tampered"
  <2>1. CASE outcome[p] = "confirmed"
    BY <2>1 DEF ConfirmedSettles
  <2>2. ASSUME NEW r \in Peers, NEW how, Settle(r, how), outcome[p] # "confirmed"
        PROVE  r = p /\ how = "confirmed"
    BY <2>2 DEF Settle, CountInv, TypeOK
  <2>3. CASE outcome[p] # "confirmed"
    <3>1. PICK r \in Peers : TakeConsensus(r) \/ GraceExpires(r) \/ Watchdog(r)
      <4>1. outcome' # outcome
        BY <2>3
      <4> QED
        BY <4>1
           DEF Next, Main, Start, CallReturns, Resend, TakeOffer, Open, SendTurn, TurnReturns,
               FinalReturns, TurnWaitExpires, ThiefReads, PoliceReads, TakeAudit, LookAgain,
               Leave, OfferFails, RelayFails, TurnFails, AuditMissed, EndPlay, FileRow, Deliver,
               Finished, vars, resultVars
    <3>2. TakeConsensus(p)
      BY <2>2, <2>3, <3>1 DEF GraceExpires, Watchdog, TakeConsensus
    <3>3. PICK rows \in box[p].consensus :
            Settle(p, IF confirm_agreement(p, rows) THEN "confirmed" ELSE "disputed")
      BY <3>2 DEF TakeConsensus, wait_for_consensus
    <3>4. confirm_agreement(p, rows)
      BY <2>2, <2>3, <3>3
    <3>5. Len(reports[Other(p)]) = NumGames /\ rows = RowsOf(Other(p), reports[Other(p)])
      BY DEF DigestInv, IsDigestOf
    <3>6. Len(reports[p]) = NumGames
      BY <3>2 DEF TakeConsensus, CountInv, FiledInv, Closed
    <3>7. \A q \in Peers : Len(reports[q]) = NumGames
      BY <3>5, <3>6 DEF Peers, Other
    <3> QED
      BY <3>4, <3>5, <3>7, SameRowsSettle DEF confirm_agreement, CountInv
  <2> QED
    BY <2>1, <2>3
<1>2. natural' = natural /\ \A q \in Peers : reports'[q] = reports[q] /\ ends'[q] = ends[q]
  BY <1>1, RowsFinal DEF Peers
<1> QED
  BY <1>1, <1>2 DEF Complementary, Peers

-----------------------------------------------------------------------------
(* The theorems.                                                           *)

LEMMA InitIInv == Init => IInv
<1> SUFFICES ASSUME Init PROVE IInv
  OBVIOUS
<1>1. TypeOK /\ FiledInv /\ TurnsInv
  BY InitCountInv DEF CountInv
<1>2. OffersInv /\ Abreast
  BY OtherPeer DEF Init, OffersInv, Abreast, Agreed, EmptyBox
<1>3. DigestInv /\ ConfirmedSettles
  BY DEF Init, DigestInv, ConfirmedSettles, EmptyBox
<1> QED
  BY <1>1, <1>2, <1>3 DEF IInv

LEMMA InductiveIInv == Spec => []IInv
<1>1. Init => IInv
  BY InitIInv
<1>2. IInv /\ [Next]_vars => IInv'
  BY NextCountInv, NextAbreast, NextDigest, NextConfirmed DEF IInv, CountInv, AbreastInv
<1> QED
  BY <1>1, <1>2, PTL DEF Spec

\* The variables have their types: in particular no peer ever seals a turn past
\* max_steps or files more sub-games than the series has.
THEOREM TypeCorrectness == Spec => []TypeOK
<1>1. IInv => TypeOK
  BY DEF IInv
<1> QED
  BY <1>1, InductiveIInv, PTL

\* The two peers stay abreast: a peer that has negotiated a sub-game plays it
\* with a peer that has come to that sub-game, and neither gets more than one
\* ahead, however long the series and whatever the network loses.
THEOREM PeersAbreast == Spec => []Abreast
<1>1. IInv => Abreast
  BY DEF IInv
<1> QED
  BY <1>1, InductiveIInv, PTL

\* A series one peer confirms is one both played to the end of every sub-game,
\* in opposite roles and with the same ends, and neither filed a forfeit.
THEOREM ConfirmedSeriesSettled == Spec => []ConfirmedSettles
<1>1. IInv => ConfirmedSettles
  BY DEF IInv
<1> QED
  BY <1>1, InductiveIInv, PTL

-----------------------------------------------------------------------------
(* How long a series can take.                                             *)

\* The steps p may still take before its sub-game is over, three for a turn,
\* and after the last sub-game.
PlaceLeft(p) ==
  CASE phase[p] = "start" -> 1
    [] phase[p] = "offer" -> 8 + 3 * (MaxSteps - sealed[p])
    [] phase[p] = "opening" -> 7 + 3 * (MaxSteps - sealed[p])
    [] phase[p] = "turn" /\ at[p] = "call" -> 7 + 3 * (MaxSteps - sealed[p])
    [] phase[p] = "turn" /\ at[p] = "wait" -> 6 + 3 * (MaxSteps - sealed[p])
    [] phase[p] = "think" -> 5 + 3 * (MaxSteps - sealed[p])
    [] phase[p] = "final" -> 5
    [] phase[p] = "audit" -> 4
    [] phase[p] = "consensus" -> 3
    [] phase[p] = "grace" -> 2
    [] phase[p] = "filed" -> 1
    [] OTHER -> 0

LongestGame == 8 + 3 * MaxSteps

\* The steps p may still take in the series, those of a resend loop apart.
SeriesLeft(p) ==
  IF phase[p] \in {"done", "raised"} THEN 0
  ELSE (NumGames - game[p]) * LongestGame + PlaceLeft(p)

\* Another call, or another wait, of a resend loop.
GoesRound(p) == CallReturns(p) \/ Resend(p)

LEMMA LongestGameNat == NumGames \in Nat /\ LongestGame \in Nat
BY SeriesAssumption DEF LongestGame

\* The values the place a peer is in can have.
LEMMA PlaceLeftIs ==
  ASSUME CountInv, NEW p \in Peers
  PROVE  /\ PlaceLeft(p) \in 0 .. LongestGame /\ LongestGame \in Nat
         /\ phase[p] \in {"start", "filed"} => PlaceLeft(p) = 1
         /\ phase[p] = "offer" => PlaceLeft(p) = 8 + 3 * (MaxSteps - sealed[p])
         /\ phase[p] = "opening" => PlaceLeft(p) = 7 + 3 * (MaxSteps - sealed[p])
         /\ phase[p] = "turn" /\ at[p] = "call" => PlaceLeft(p) = 7 + 3 * (MaxSteps - sealed[p])
         /\ phase[p] = "turn" /\ at[p] = "wait" => PlaceLeft(p) = 6 + 3 * (MaxSteps - sealed[p])
         /\ phase[p] = "think" => PlaceLeft(p) = 5 + 3 * (MaxSteps - sealed[p])
         /\ phase[p] = "final" => PlaceLeft(p) = 5
         /\ phase[p] = "audit" => PlaceLeft(p) = 4
         /\ phase[p] = "consensus" => PlaceLeft(p) = 3
         /\ phase[p] = "grace" => PlaceLeft(p) = 2
         /\ phase[p] \notin {"done", "raised"} => PlaceLeft(p) >= 1
<1>1. /\ phase[p] \in Phases /\ at[p] \in {"run", "call", "wait"} /\ MaxSteps \in Nat
      /\ sealed[p] \in Nat /\ sealed[p] <= MaxSteps
      /\ phase[p] = "turn" => at[p] \in {"call", "wait"}
  BY SeriesAssumption DEF CountInv, TypeOK, TurnsInv
<1> DEFINE turns == 3 * (MaxSteps - sealed[p])
<1>2. turns \in 0 .. 3 * MaxSteps
  BY <1>1
<1> HIDE DEF turns
<1>3. /\ phase[p] \in {"start", "filed"} => PlaceLeft(p) = 1
      /\ phase[p] = "offer" => PlaceLeft(p) = 8 + turns
      /\ phase[p] = "opening" => PlaceLeft(p) = 7 + turns
      /\ phase[p] = "turn" /\ at[p] = "call" => PlaceLeft(p) = 7 + turns
      /\ phase[p] = "turn" /\ at[p] = "wait" => PlaceLeft(p) = 6 + turns
      /\ phase[p] = "think" => PlaceLeft(p) = 5 + turns
      /\ phase[p] = "final" => PlaceLeft(p) = 5
      /\ phase[p] = "audit" => PlaceLeft(p) = 4
      /\ phase[p] = "consensus" => PlaceLeft(p) = 3
      /\ phase[p] = "grace" => PlaceLeft(p) = 2
      /\ phase[p] \in {"done", "raised"} => PlaceLeft(p) = 0
  BY DEF PlaceLeft, turns
<1>4. /\ PlaceLeft(p) \in 0 .. 8 + 3 * MaxSteps
      /\ phase[p] \notin {"done", "raised"} => PlaceLeft(p) >= 1
  BY <1>1, <1>2, <1>3 DEF Phases, Resending
<1>5. QED
  BY <1>1, <1>3, <1>4 DEF turns, LongestGame

\* The sub-games p has still to begin.
LEMMA GamesLeft ==
  ASSUME CountInv, NEW p \in Peers
  PROVE  /\ (NumGames - game[p]) * LongestGame \in 0 .. NumGames * LongestGame
         /\ (NumGames - game[p]) * LongestGame
              = (NumGames - (game[p] + 1)) * LongestGame + LongestGame
<1>1. NumGames \in Nat /\ game[p] \in Nat /\ game[p] <= NumGames /\ LongestGame \in Nat
  BY LongestGameNat DEF CountInv, TypeOK
<1>2. \A a, b \in Nat : a * b \in Nat
  OBVIOUS
<1>3. NumGames - game[p] \in Nat
  BY <1>1
<1>4. (NumGames - game[p]) * LongestGame \in Nat
  BY <1>1, <1>2, <1>3
<1>5. NumGames * LongestGame = (NumGames - game[p]) * LongestGame + game[p] * LongestGame
  BY <1>1
<1>6. game[p] * LongestGame \in Nat /\ NumGames * LongestGame \in Nat
  BY <1>1, <1>2
<1>7. (NumGames - game[p]) * LongestGame <= NumGames * LongestGame
  BY <1>4, <1>5, <1>6
<1>8. (NumGames - game[p]) * LongestGame
        = (NumGames - (game[p] + 1)) * LongestGame + LongestGame
  BY <1>1
<1>9. QED
  BY <1>4, <1>6, <1>7, <1>8

LEMMA SeriesLeftIs ==
  ASSUME CountInv, NEW p \in Peers
  PROVE  /\ SeriesLeft(p) \in 0 .. (NumGames + 1) * LongestGame
         /\ SeriesLeft(p) = 0 <=> phase[p] \in {"done", "raised"}
<1> DEFINE games == (NumGames - game[p]) * LongestGame
           all == NumGames * LongestGame
<1>1. games \in Nat /\ games <= all /\ all \in Nat
  <2>1. games \in 0 .. all
    BY GamesLeft
  <2>2. all \in Nat
    <3>1. NumGames \in Nat /\ LongestGame \in Nat
      BY LongestGameNat
    <3>2. \A a, b \in Nat : a * b \in Nat
      OBVIOUS
    <3>3. QED
      BY <3>1, <3>2
  <2>3. QED
    BY <2>1, <2>2
<1>2. (NumGames + 1) * LongestGame = all + LongestGame
  BY LongestGameNat
<1>3. SeriesLeft(p) = IF phase[p] \in {"done", "raised"} THEN 0 ELSE games + PlaceLeft(p)
  BY DEF SeriesLeft
<1> HIDE DEF games, all
<1>4. /\ PlaceLeft(p) \in 0 .. LongestGame /\ LongestGame \in Nat
      /\ phase[p] \notin {"done", "raised"} => PlaceLeft(p) >= 1
  BY PlaceLeftIs
<1>5. QED
  BY <1>1, <1>2, <1>3, <1>4

\* What p's main thread makes of it.
Descends(p) == SeriesLeft(p)' < SeriesLeft(p)

\* A step within a sub-game, or within what follows the last.
LEMMA WithinDescends ==
  ASSUME CountInv, CountInv', NEW p \in Peers, game'[p] = game[p],
         phase[p] \notin {"done", "raised"},
         phase'[p] \in {"done", "raised"} \/ PlaceLeft(p)' < PlaceLeft(p)
  PROVE  Descends(p)
<1> DEFINE games == (NumGames - game[p]) * LongestGame
<1>0. SeriesLeft(p) \in Nat \ {0}
  BY SeriesLeftIs
<1>1. CASE phase'[p] \in {"done", "raised"}
  <2>1. SeriesLeft(p)' = 0
    BY <1>1 DEF SeriesLeft
  <2>2. QED
    BY <1>0, <2>1 DEF Descends
<1>2. CASE phase'[p] \notin {"done", "raised"}
  <2>1. SeriesLeft(p) = games + PlaceLeft(p)
    BY DEF SeriesLeft
  <2>2. SeriesLeft(p)' = games + PlaceLeft(p)'
    BY <1>2 DEF SeriesLeft, LongestGame
  <2>3. PlaceLeft(p) \in Nat /\ games \in Int
    <3>1. games \in 0 .. NumGames * LongestGame
      BY GamesLeft
    <3>2. PlaceLeft(p) \in 0 .. LongestGame
      BY PlaceLeftIs
    <3>3. QED
      BY <3>1, <3>2
  <2>4. PlaceLeft(p)' \in Nat
    <3>1. (PlaceLeft(p) \in 0 .. LongestGame)'
      BY PlaceLeftIs, PTL
    <3>2. QED
      BY <3>1
  <2> HIDE DEF games
  <2>5. QED
    BY <1>2, <2>1, <2>2, <2>3, <2>4 DEF Descends
<1>3. QED
  BY <1>1, <1>2

\* The next sub-game, at its longest, is less than this one and it.
LEMMA BeginDescends ==
  ASSUME CountInv, CountInv', NEW p \in Peers, NEW n \in Games, BeginSubGame(p, n),
         n = game[p] + 1, phase[p] \in {"start", "audit"}
  PROVE  Descends(p)
<1> DEFINE next == (NumGames - (game[p] + 1)) * LongestGame
<1>1. phase'[p] = "offer" /\ game'[p] = game[p] + 1
  BY DEF BeginSubGame, Goto, CountInv, TypeOK
<1>2. SeriesLeft(p) = (NumGames - game[p]) * LongestGame + PlaceLeft(p)
  BY DEF SeriesLeft
<1>3. SeriesLeft(p)' = next + PlaceLeft(p)'
  BY <1>1 DEF SeriesLeft, LongestGame
<1>4. (NumGames - game[p]) * LongestGame = next + LongestGame /\ next \in Int
  <2>1. (NumGames - game[p]) * LongestGame = next + LongestGame
    BY GamesLeft
  <2>2. NumGames - (game[p] + 1) \in Int /\ LongestGame \in Int
    <3>1. NumGames \in Nat /\ game[p] \in Nat /\ LongestGame \in Nat
      BY LongestGameNat DEF CountInv, TypeOK
    <3>2. QED
      BY <3>1
  <2>3. \A a, b \in Int : a * b \in Int
    OBVIOUS
  <2>4. QED
    BY <2>1, <2>2, <2>3
<1>5. PlaceLeft(p)' \in Nat /\ PlaceLeft(p)' <= LongestGame
  <2>1. (PlaceLeft(p) \in 0 .. LongestGame)'
    BY PlaceLeftIs, PTL
  <2>2. QED
    BY <2>1, PlaceLeftIs DEF LongestGame
<1>6. PlaceLeft(p) \in Nat \ {0} /\ LongestGame \in Nat
  BY PlaceLeftIs
<1> HIDE DEF next
<1>7. QED
  BY <1>2, <1>3, <1>4, <1>5, <1>6 DEF Descends

LEMMA MainDescends ==
  ASSUME CountInv, CountInv', NEW p \in Peers, Main(p)
  PROVE  Descends(p) \/ (GoesRound(p) /\ SeriesLeft(p)' = SeriesLeft(p))
<1> DEFINE turns == 3 * (MaxSteps - sealed[p])
<1>t. /\ phase \in [Peers -> Phases] /\ at \in [Peers -> {"run", "call", "wait"}]
      /\ sealed \in [Peers -> 0 .. MaxSteps] /\ game \in [Peers -> 0 .. NumGames]
      /\ MaxSteps \in Nat /\ NumGames \in Nat
  BY SeriesAssumption DEF CountInv, TypeOK
<1>n. /\ turns \in Nat
      /\ sealed'[p] = sealed[p] + 1 => (3 * (MaxSteps - sealed'[p]) = turns - 3 /\ turns >= 3)
  <2>1. sealed[p] \in Nat /\ sealed[p] <= MaxSteps /\ sealed'[p] <= MaxSteps
    BY DEF CountInv, TypeOK
  <2>2. QED
    BY <1>t, <2>1
\* The place after the step.
<1>l. /\ phase'[p] = "opening" => PlaceLeft(p)' = 7 + 3 * (MaxSteps - sealed'[p])
      /\ phase'[p] = "turn" /\ at'[p] = "call" =>
           PlaceLeft(p)' = 7 + 3 * (MaxSteps - sealed'[p])
      /\ phase'[p] = "turn" /\ at'[p] = "wait" =>
           PlaceLeft(p)' = 6 + 3 * (MaxSteps - sealed'[p])
      /\ phase'[p] = "think" => PlaceLeft(p)' = 5 + 3 * (MaxSteps - sealed'[p])
      /\ phase'[p] = "final" => PlaceLeft(p)' = 5
      /\ phase'[p] = "audit" => PlaceLeft(p)' = 4
      /\ phase'[p] = "consensus" => PlaceLeft(p)' = 3
      /\ phase'[p] = "grace" => PlaceLeft(p)' = 2
      /\ phase'[p] = "filed" => PlaceLeft(p)' = 1
  <2>1. (/\ phase[p] \in {"start", "filed"} => PlaceLeft(p) = 1
         /\ phase[p] = "opening" => PlaceLeft(p) = 7 + 3 * (MaxSteps - sealed[p])
         /\ phase[p] = "turn" /\ at[p] = "call" => PlaceLeft(p) = 7 + 3 * (MaxSteps - sealed[p])
         /\ phase[p] = "turn" /\ at[p] = "wait" => PlaceLeft(p) = 6 + 3 * (MaxSteps - sealed[p])
         /\ phase[p] = "think" => PlaceLeft(p) = 5 + 3 * (MaxSteps - sealed[p])
         /\ phase[p] = "final" => PlaceLeft(p) = 5
         /\ phase[p] = "audit" => PlaceLeft(p) = 4
         /\ phase[p] = "consensus" => PlaceLeft(p) = 3
         /\ phase[p] = "grace" => PlaceLeft(p) = 2)'
    BY PlaceLeftIs, PTL
  <2>2. QED
    BY ONLY <2>1
<1>p. PlaceLeft(p) \in Nat
  <2>1. PlaceLeft(p) \in 0 .. LongestGame
    BY PlaceLeftIs
  <2>2. QED
    BY <2>1
<1> HIDE DEF turns
\* A step that leaves the sub-game's turns alone.
<1>m. ASSUME NEW ph \in Phases, NEW pt \in {"run", "call", "wait"}, Goto(p, ph, pt),
             UNCHANGED <<game, sealed>>, phase[p] \notin {"done", "raised"},
             \/ ph \in {"done", "raised"}
             \/ phase[p] = "offer" /\ ph = "think"
             \/ phase[p] = "offer" /\ ph = "opening"
             \/ phase[p] = "offer" /\ ph = "turn" /\ pt = "wait"
             \/ phase[p] = "opening" /\ ph = "turn" /\ pt = "wait"
             \/ phase[p] = "turn" /\ at[p] = "call" /\ ph = "turn" /\ pt = "wait"
             \/ phase[p] = "turn" /\ at[p] = "wait" /\ ph = "think"
             \/ phase[p] \in {"turn", "final"} /\ ph = "audit"
             \/ phase[p] = "audit" /\ ph = "consensus"
             \/ phase[p] = "consensus" /\ ph \in {"grace", "filed"}
             \/ phase[p] = "grace" /\ ph = "filed"
      PROVE  Descends(p)
  <2>1. phase'[p] = ph /\ at'[p] = pt /\ game'[p] = game[p]
    BY <1>t, <1>m DEF Goto
  <2>2. /\ phase[p] = "offer" => PlaceLeft(p) = 8 + turns
        /\ phase[p] = "opening" => PlaceLeft(p) = 7 + turns
        /\ phase[p] = "turn" /\ at[p] = "call" => PlaceLeft(p) = 7 + turns
        /\ phase[p] = "turn" /\ at[p] = "wait" => PlaceLeft(p) = 6 + turns
        /\ phase[p] = "final" => PlaceLeft(p) = 5
        /\ phase[p] = "audit" => PlaceLeft(p) = 4
        /\ phase[p] = "consensus" => PlaceLeft(p) = 3
        /\ phase[p] = "grace" => PlaceLeft(p) = 2
        /\ phase[p] = "turn" => at[p] \in {"call", "wait"}
    BY PlaceLeftIs DEF turns, CountInv, TurnsInv
  <2>3. /\ phase'[p] = "opening" => PlaceLeft(p)' = 7 + turns
        /\ phase'[p] = "turn" /\ at'[p] = "call" => PlaceLeft(p)' = 7 + turns
        /\ phase'[p] = "turn" /\ at'[p] = "wait" => PlaceLeft(p)' = 6 + turns
        /\ phase'[p] = "think" => PlaceLeft(p)' = 5 + turns
    BY <1>l, <1>m DEF turns
  <2>4. phase'[p] \in {"done", "raised"} \/ PlaceLeft(p)' < PlaceLeft(p)
    BY <1>l, <1>m, <1>n, <2>1, <2>2, <2>3
  <2>5. QED
    BY <1>m, <2>1, <2>4, WithinDescends
<1> USE DEF Phases, Resending
<1>r. ASSUME Raise(p), UNCHANGED <<game, sealed>>, phase[p] \notin {"done", "raised"}
      PROVE  Descends(p)
  BY <1>m, <1>r DEF Raise
<1>e. ASSUME NEW end, EndPlay(p, end), phase[p] \in {"turn", "final"} PROVE Descends(p)
  BY <1>m, <1>e DEF EndPlay
\* A step that seals a turn.
<1>s. ASSUME sealed'[p] = sealed[p] + 1, game'[p] = game[p],
             \/ phase[p] = "think" /\ phase'[p] = "turn" /\ at'[p] = "call"
             \/ phase[p] = "turn" /\ at[p] = "wait" /\ phase'[p] = "final"
      PROVE  Descends(p)
  <2>1. /\ phase[p] = "think" => PlaceLeft(p) = 5 + turns
        /\ phase[p] = "turn" /\ at[p] = "wait" => PlaceLeft(p) = 6 + turns
    BY PlaceLeftIs DEF turns
  <2>2. 3 * (MaxSteps - sealed'[p]) = turns - 3 /\ turns >= 3
    BY <1>n, <1>s
  <2>3. PlaceLeft(p)' < PlaceLeft(p)
    BY <1>l, <1>n, <1>s, <2>1, <2>2
  <2>4. QED
    BY <1>s, <2>3, WithinDescends
<1>1. CASE Start(p)
  <2>1. game[p] = 0 /\ phase[p] = "start" /\ 1 \in Games
    BY <1>1, SeriesAssumption DEF Start, CountInv, FiledInv, Games
  <2>2. QED
    BY <1>1, <2>1, BeginDescends DEF Start
<1>2. CASE GoesRound(p)
  <2>1. /\ phase'[p] = phase[p] /\ phase[p] \in Resending
        /\ game'[p] = game[p] /\ sealed'[p] = sealed[p]
    BY <1>2, <1>t DEF GoesRound, CallReturns, Resend, Goto, progressVars
  <2>2. PlaceLeft(p)' = PlaceLeft(p)
    BY <2>1 DEF PlaceLeft
  <2>3. SeriesLeft(p)' = SeriesLeft(p)
    BY <2>1, <2>2 DEF SeriesLeft, LongestGame
  <2>4. QED
    BY <1>2, <2>3
<1>3. CASE TakeOffer(p)
  <2>1. phase[p] = "offer" /\ UNCHANGED <<game, sealed>>
    BY <1>3 DEF TakeOffer, progressVars
  <2>2. \/ Raise(p) \/ Goto(p, "think", "run") \/ Goto(p, "opening", "run")
        \/ Goto(p, "turn", "wait")
    BY <1>3 DEF TakeOffer
  <2>3. CASE Goto(p, "turn", "wait")
    BY <1>m, <2>1, <2>3
  <2>4. CASE Goto(p, "think", "run")
    BY <1>m, <2>1, <2>4
  <2>5. CASE Goto(p, "opening", "run")
    BY <1>m, <2>1, <2>5
  <2>6. QED
    BY <1>r, <2>1, <2>2, <2>3, <2>4, <2>5
<1>4. CASE Open(p)
  BY <1>4, <1>m DEF Open, progressVars
<1>5. CASE SendTurn(p)
  <2>1. /\ sealed'[p] = sealed[p] + 1 /\ game'[p] = game[p] /\ phase[p] = "think"
        /\ phase'[p] = "turn" /\ at'[p] = "call"
    BY <1>5, <1>t DEF SendTurn, Goto
  <2>2. QED
    BY <1>s, <2>1
<1>6. CASE TurnReturns(p)
  BY <1>6, <1>m, <1>e DEF TurnReturns, Returned, progressVars
<1>7. CASE FinalReturns(p)
  BY <1>7, <1>e DEF FinalReturns
<1>8. CASE TurnWaitExpires(p)
  BY <1>8, <1>e DEF TurnWaitExpires
<1>9. CASE ThiefReads(p)
  <2>1. phase[p] = "turn" /\ at[p] = "wait" /\ game' = game
    BY <1>9 DEF ThiefReads
  <2>2. \/ sealed' = [sealed EXCEPT ![p] = @ + 1] /\ Goto(p, "final", "call")
        \/ Goto(p, "think", "run") /\ sealed' = sealed
    BY <1>9 DEF ThiefReads
  <2>3. CASE sealed' = [sealed EXCEPT ![p] = @ + 1] /\ Goto(p, "final", "call")
    <3>1. sealed'[p] = sealed[p] + 1 /\ phase'[p] = "final"
      BY <1>t, <2>3 DEF Goto
    <3>2. QED
      BY <1>s, <2>1, <3>1
  <2>4. CASE Goto(p, "think", "run") /\ sealed' = sealed
    BY <1>m, <2>1, <2>4
  <2>5. QED
    BY <2>2, <2>3, <2>4
<1>10. CASE PoliceReads(p)
  <2>1. phase[p] = "turn" /\ at[p] = "wait"
    BY <1>10 DEF PoliceReads
  <2>2. \/ Goto(p, "think", "run") /\ UNCHANGED <<game, sealed>>
        \/ \E end : EndPlay(p, end)
    BY <1>10 DEF PoliceReads
  <2>3. QED
    BY <1>m, <1>e, <2>1, <2>2
<1>11. CASE TakeAudit(p) \/ AuditMissed(p)
  <2>1. phase[p] = "audit" /\ \E report : FileRow(p, report)
    BY <1>11 DEF TakeAudit, AuditMissed
  <2>2. CASE game[p] < NumGames
    <3>1. BeginSubGame(p, game[p] + 1)
      BY <2>1, <2>2 DEF FileRow
    <3>2. game[p] + 1 \in Games
      BY <1>t, <2>2 DEF Games
    <3>3. QED
      BY <2>1, <3>1, <3>2, BeginDescends
  <2>3. CASE ~(game[p] < NumGames)
    BY <1>m, <2>1, <2>3 DEF FileRow, progressVars
  <2>4. QED
    BY <2>2, <2>3
<1>12. CASE TakeConsensus(p) \/ GraceExpires(p) \/ Watchdog(p)
  <2>1. /\ phase[p] \in {"consensus", "grace"} /\ Goto(p, "filed", "run")
        /\ UNCHANGED <<game, sealed>>
    BY <1>12 DEF TakeConsensus, GraceExpires, Watchdog, Settle, progressVars
  <2>2. QED
    BY <1>m, <2>1
<1>13. CASE LookAgain(p) \/ Leave(p)
  BY <1>13, <1>m DEF LookAgain, Leave, progressVars
<1>14. CASE OfferFails(p) \/ RelayFails(p) \/ TurnFails(p)
  BY <1>14, <1>r DEF OfferFails, RelayFails, TurnFails, progressVars
<1>15. QED
  BY <1>1, <1>2, <1>3, <1>4, <1>5, <1>6, <1>7, <1>8, <1>9, <1>10, <1>11, <1>12, <1>13, <1>14
  DEF Main, GoesRound

\* The ceiling of a resend loop takes a peer out of it.
LEMMA CeilingDescends ==
  ASSUME CountInv, CountInv', NEW p \in Peers, Ceiling(p)
  PROVE  Descends(p)
<1>1. Main(p)
  BY DEF Ceiling, Main
<1>2. ~(phase'[p] = phase[p] /\ game'[p] = game[p])
  <2>1. phase \in [Peers -> Phases] /\ game \in [Peers -> 0 .. NumGames] /\ NumGames \in Nat
    BY SeriesAssumption DEF CountInv, TypeOK
  <2>2. CASE OfferFails(p)
    BY <2>1, <2>2 DEF OfferFails, Raise, Goto
  <2>3. CASE AuditMissed(p)
    BY <2>1, <2>3 DEF AuditMissed, FileRow, BeginSubGame, Goto
  <2>4. CASE LookAgain(p)
    BY <2>1, <2>4 DEF LookAgain, Goto
  <2>5. QED
    BY <2>2, <2>3, <2>4 DEF Ceiling
<1>3. GoesRound(p) => phase'[p] = phase[p] /\ game'[p] = game[p]
  BY DEF GoesRound, CallReturns, Resend, Goto, progressVars, CountInv, TypeOK
<1>4. QED
  BY <1>1, <1>2, <1>3, MainDescends

\* What the other peer or the network does costs p nothing.
LEMMA OthersSpare ==
  ASSUME CountInv, NEW p \in Peers, [Next]_vars, ~Main(p)
  PROVE  SeriesLeft(p)' = SeriesLeft(p)
<1>1. phase'[p] = phase[p] /\ at'[p] = at[p] /\ game'[p] = game[p] /\ sealed'[p] = sealed[p]
  <2>1. CASE UNCHANGED vars
    BY <2>1 DEF vars, progressVars
  <2>2. ASSUME NEW m \in net, Deliver(m)
        PROVE  UNCHANGED <<phase, at, game, sealed>>
    BY <2>2 DEF Deliver, progressVars
  <2>3. ASSUME NEW q \in Peers, Main(q), q # p
        PROVE  /\ phase'[p] = phase[p] /\ at'[p] = at[p]
               /\ game'[p] = game[p] /\ sealed'[p] = sealed[p]
    <3> USE <2>3 DEF CountInv, TypeOK, Goto, progressVars
    <3>b. ASSUME NEW n, BeginSubGame(q, n)
          PROVE  /\ phase'[p] = phase[p] /\ at'[p] = at[p]
                 /\ game'[p] = game[p] /\ sealed'[p] = sealed[p]
      BY <3>b DEF BeginSubGame
    <3>1. CASE Start(q) \/ TakeAudit(q) \/ AuditMissed(q)
      <4>1. \/ \E n : BeginSubGame(q, n)
            \/ Goto(q, "consensus", "call") /\ UNCHANGED <<game, sealed>>
        <5>1. Start(q) \/ \E report : FileRow(q, report)
          BY <3>1 DEF TakeAudit, AuditMissed
        <5>2. QED
          BY <5>1 DEF Start, FileRow
      <4>2. QED
        BY <3>b, <4>1
    <3>2. CASE CallReturns(q) \/ Resend(q) \/ TakeOffer(q) \/ Open(q) \/ SendTurn(q)
      BY <3>2 DEF CallReturns, Resend, TakeOffer, Open, SendTurn, Raise
    <3>3. CASE TurnReturns(q) \/ FinalReturns(q) \/ TurnWaitExpires(q)
      BY <3>3 DEF TurnReturns, FinalReturns, TurnWaitExpires, EndPlay
    <3>4. CASE ThiefReads(q) \/ PoliceReads(q)
      BY <3>4 DEF ThiefReads, PoliceReads, EndPlay
    <3>5. CASE TakeConsensus(q) \/ LookAgain(q) \/ GraceExpires(q) \/ Leave(q) \/ Watchdog(q)
      BY <3>5 DEF TakeConsensus, LookAgain, GraceExpires, Leave, Watchdog, Settle
    <3>6. CASE OfferFails(q) \/ RelayFails(q) \/ TurnFails(q)
      BY <3>6 DEF OfferFails, RelayFails, TurnFails, Raise
    <3>7. QED
      BY <3>1, <3>2, <3>3, <3>4, <3>5, <3>6 DEF Main
  <2>4. QED
    BY <2>1, <2>2, <2>3 DEF Next
<1>2. PlaceLeft(p)' = PlaceLeft(p)
  BY <1>1 DEF PlaceLeft
<1>3. QED
  BY <1>1, <1>2 DEF SeriesLeft, LongestGame

\* A series ends unless a resend loop goes on for ever: whatever the network
\* does, each step of a peer's main thread but another round of such a loop
\* takes the peer nearer to its end, nothing takes it back, and the ceiling of
\* a loop takes it nearer too.
THEOREM SeriesRunsDown ==
  Spec => \A p \in Peers :
            /\ [](/\ SeriesLeft(p) \in 0 .. (NumGames + 1) * LongestGame
                  /\ SeriesLeft(p) = 0 <=> phase[p] \in {"done", "raised"})
            /\ [][/\ SeriesLeft(p)' <= SeriesLeft(p)
                  /\ Main(p) /\ ~GoesRound(p) => SeriesLeft(p)' < SeriesLeft(p)
                  /\ Ceiling(p) => SeriesLeft(p)' < SeriesLeft(p)]_vars
<1> SUFFICES ASSUME NEW p \in Peers
             PROVE  Spec => /\ [](/\ SeriesLeft(p) \in 0 .. (NumGames + 1) * LongestGame
                                  /\ SeriesLeft(p) = 0 <=> phase[p] \in {"done", "raised"})
                            /\ [][/\ SeriesLeft(p)' <= SeriesLeft(p)
                                  /\ Main(p) /\ ~GoesRound(p) =>
                                       SeriesLeft(p)' < SeriesLeft(p)
                                  /\ Ceiling(p) => SeriesLeft(p)' < SeriesLeft(p)]_vars
  OBVIOUS
<1>1. IInv => CountInv
  BY DEF IInv, CountInv
<1>2. CountInv => /\ SeriesLeft(p) \in 0 .. (NumGames + 1) * LongestGame
                  /\ SeriesLeft(p) = 0 <=> phase[p] \in {"done", "raised"}
  BY SeriesLeftIs
<1>3. CountInv /\ CountInv' /\ [Next]_vars =>
        [/\ SeriesLeft(p)' <= SeriesLeft(p)
         /\ Main(p) /\ ~GoesRound(p) => SeriesLeft(p)' < SeriesLeft(p)
         /\ Ceiling(p) => SeriesLeft(p)' < SeriesLeft(p)]_vars
  <2> SUFFICES ASSUME CountInv, CountInv', [Next]_vars
               PROVE  /\ SeriesLeft(p)' <= SeriesLeft(p)
                      /\ Main(p) /\ ~GoesRound(p) => SeriesLeft(p)' < SeriesLeft(p)
                      /\ Ceiling(p) => SeriesLeft(p)' < SeriesLeft(p)
    OBVIOUS
  <2>1. SeriesLeft(p) \in Nat /\ SeriesLeft(p)' \in Nat
    <3>1. SeriesLeft(p) \in 0 .. (NumGames + 1) * LongestGame
      BY SeriesLeftIs
    <3>2. (SeriesLeft(p) \in 0 .. (NumGames + 1) * LongestGame)'
      BY SeriesLeftIs, PTL
    <3>3. QED
      BY <3>1, <3>2
  <2>2. Main(p) => Descends(p) \/ (GoesRound(p) /\ SeriesLeft(p)' = SeriesLeft(p))
    BY MainDescends
  <2>3. ~Main(p) => SeriesLeft(p)' = SeriesLeft(p)
    BY OthersSpare
  <2>4. Ceiling(p) => Descends(p)
    BY CeilingDescends
  <2>5. QED
    BY <2>1, <2>2, <2>3, <2>4 DEF Descends
<1>4. QED
  BY <1>1, <1>2, <1>3, InductiveIInv, PTL DEF Spec

=============================================================================

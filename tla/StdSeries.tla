------------------------------ MODULE StdSeries ------------------------------
(***************************************************************************)
(* Two peers of this program playing one std_v1 series against each other: *)
(* for every sub-game the two negotiate, play and audit, and after the     *)
(* last they exchange the digest of their rows.  Each peer has a main      *)
(* thread, which runs play_series, and a server that stores whatever the   *)
(* other sends it.  A call puts its message in the network at once; it is  *)
(* delivered when the network likes, even after the caller gave up, or     *)
(* never.  Time is left to chance: any wait may end, any call may fail.    *)
(***************************************************************************)
EXTENDS StdExchange, Sequences, FiniteSets

CONSTANTS
  NumGames,      \* my_terms["num_games"]
  MaxSteps,      \* my_terms["max_steps"]
  NaturalRoles,  \* the pairs of std_v1.natural_role the operators may set
  Relayed        \* the peers with a network.cop_relay_url

Peers == {1, 2}
Other(p) == 3 - p
Roles == {"thief", "police"}

ASSUME SeriesAssumption ==
  /\ NumGames \in Nat \ {0}
  /\ MaxSteps \in Nat \ {0, 1}
  /\ NaturalRoles \subseteq [Peers -> Roles]
  /\ Relayed \subseteq Peers

VARIABLES
  natural,    \* each peer's natural_role
  sameTerms,  \* whether the peers hold the same terms and derive one game_uid
  phase,      \* what each main thread is doing
  at,         \* where it is in that phase's exchange
  game,       \* sub_game_number, 0 before the first
  sealed,     \* turns it has sealed in this sub-game: records 1 .. sealed
  seen,       \* peer_commits: <<step, sub-game the commit was sealed in>>
  ends,       \* the end_reason of every sub-game played
  reports,    \* what the audit of each showed
  outcome,    \* how the consensus exchange ended
  box,        \* each peer's StdExchange
  net         \* messages sent and not delivered

progressVars == <<game, sealed, seen>>
resultVars   == <<ends, reports, outcome>>
setupVars    == <<natural, sameTerms>>

vars == <<setupVars, phase, at, progressVars, resultVars, box, net>>

-----------------------------------------------------------------------------
(* Roles, rows and messages.                                               *)

Opposite(role) == IF role = "thief" THEN "police" ELSE "thief"

RoleIn(p, n) == IF n % 2 = 1 THEN natural[p] ELSE Opposite(natural[p])
Role(p) == RoleIn(p, game[p])

EndReasons == {"capture", "survival", "timeout"}

RowOfThisSide(p, n, rep) ==
  [result |-> IF rep.verdict = "tampered" THEN "tamper_forfeit" ELSE ends[p][n],
   thief  |-> IF RoleIn(p, n) = "thief" THEN 1 ELSE 2]

\* One consensus row: the result and who played the thief; the scores and the
\* winner follow from these.
Row(p, n, rep) ==
  [result |-> IF rep.verdict = "tampered" THEN "tamper_forfeit" ELSE ends[p][n],
   thief  |-> IF RoleIn(p, n) = "thief" THEN p ELSE Other(p)]

\* The digest of the rows, as the rows: equal digests are equal rows.
RowsOf(p, reps) == [n \in 1 .. NumGames |-> Row(p, n, reps[n])]

OfferTo(q, n) == [kind |-> "offer", to |-> q, game |-> n]
TurnTo(q, n, step, says) ==
  [kind |-> "turn", to |-> q, turn |-> [step |-> step, game |-> n, says |-> says]]
AuditTo(q, n, records, claim) ==
  [kind |-> "audit", to |-> q, audit |-> [game |-> n, records |-> records, claim |-> claim]]
ConsensusTo(q, rows) == [kind |-> "consensus", to |-> q, rows |-> rows]

SaysPastTheLastStep(p, step) ==
  IF phase[p] = "final" THEN "caught"
  ELSE IF Role(p) = "thief" /\ step > MaxSteps THEN "survival"
  ELSE "nothing"

\* What p says in its turn number step: the thief's turn max_steps claims
\* survival, its turn after a capture admits the capture.
SaysIn(p, step) ==
  IF phase[p] = "final" THEN "caught"
  ELSE IF Role(p) = "thief" /\ step = MaxSteps THEN "survival"
  ELSE "nothing"

\* The message of the call p is in.
MessageOf(p) ==
  CASE phase[p] = "offer"     -> OfferTo(Other(p), game[p])
    [] phase[p] = "audit"     -> AuditTo(Other(p), game[p], sealed[p], ends[p][game[p]])
    [] phase[p] = "consensus" -> ConsensusTo(Other(p), RowsOf(p, reports[p]))
    [] OTHER                  -> TurnTo(Other(p), game[p], sealed[p], SaysIn(p, sealed[p]))

-----------------------------------------------------------------------------
(* Types and the initial state.                                            *)

Resending == {"offer", "audit", "consensus"}
Phases == {"start", "opening", "think", "turn", "final", "grace", "filed", "done", "raised"}
            \cup Resending
Games == 1 .. NumGames
TurnNumbers == 1 .. MaxSteps
ResultValues == EndReasons \cup {"tamper_forfeit"}
Rows == [Games -> [result : ResultValues, thief : Peers]]

TurnBody == [step : TurnNumbers, game : Games, says : Says]
AuditBody == [game : Games, records : 0 .. MaxSteps, claim : EndReasons]
Mailbox == [offers : SUBSET Games, turns : SUBSET TurnBody, audits : SUBSET AuditBody,
            consensus : SUBSET Rows]
Messages ==
  [kind : {"offer"}, to : Peers, game : Games]
    \cup [kind : {"turn"}, to : Peers, turn : TurnBody]
    \cup [kind : {"audit"}, to : Peers, audit : AuditBody]
    \cup [kind : {"consensus"}, to : Peers, rows : Rows]
Report == [verdict : {"clean", "tampered"}, claim : EndReasons]
            \cup [verdict : {"missing"}, claim : {"none"}]

Init ==
  /\ natural \in NaturalRoles
  /\ sameTerms \in BOOLEAN
  /\ phase = [p \in Peers |-> "start"]
  /\ at = [p \in Peers |-> "run"]
  /\ game = [p \in Peers |-> 0]
  /\ sealed = [p \in Peers |-> 0]
  /\ seen = [p \in Peers |-> {}]
  /\ ends = [p \in Peers |-> <<>>]
  /\ reports = [p \in Peers |-> <<>>]
  /\ outcome = [p \in Peers |-> "none"]
  /\ box = [p \in Peers |-> EmptyBox]
  /\ net = {}

-----------------------------------------------------------------------------
(* The server of a peer: it runs from the start of run() to the end of the *)
(* process, and stores what arrives.                                       *)

Serving(p) == phase[p] \notin {"start", "done", "raised"}

Store(b, m) ==
  CASE m.kind = "offer"     -> record_offer(b, m.game)
    [] m.kind = "turn"      -> record_turn(b, m.turn)
    [] m.kind = "audit"     -> record_audit(b, m.audit)
    [] m.kind = "consensus" -> record_consensus(b, m.rows)

Deliver(m) ==
  /\ Serving(m.to)
  /\ box' = [box EXCEPT ![m.to] = Store(@, m)]
  /\ net' = net \ {m}
  /\ UNCHANGED <<setupVars, phase, at, progressVars, resultVars>>

-----------------------------------------------------------------------------
(* Moving p's main thread.                                                 *)

Goto(p, ph, pt) ==
  /\ phase' = [phase EXCEPT ![p] = ph]
  /\ at' = [at EXCEPT ![p] = pt]

\* An exception nothing catches: it leaves run() and the process ends.
Raise(p) == Goto(p, "raised", "run")

\* McpTransport.call returns once the other's server has run the tool.
Returned(p) == at[p] = "call" /\ MessageOf(p) \notin net

\* The head of the sub-game loop: the turns are cleared, then p offers.
BeginSubGame(p, n) ==
  /\ game' = [game EXCEPT ![p] = n]
  /\ sealed' = [sealed EXCEPT ![p] = 0]
  /\ seen' = [seen EXCEPT ![p] = {}]
  /\ box' = [box EXCEPT ![p] = reset_turns(@)]
  /\ net' = net \cup {OfferTo(Other(p), n)}
  /\ Goto(p, "offer", "call")

Start(p) ==
  /\ phase[p] = "start"
  /\ BeginSubGame(p, 1)
  /\ UNCHANGED <<setupVars, resultVars>>

-----------------------------------------------------------------------------
(* The resend loop that negotiation, audit and consensus share: call, wait *)
(* for the other's message, and begin again until the ceiling, which is    *)
(* looked at before each call.                                             *)

CallReturns(p) ==
  /\ phase[p] \in Resending
  /\ Returned(p)
  /\ Goto(p, phase[p], "wait")
  /\ UNCHANGED <<setupVars, progressVars, resultVars, box, net>>

\* After a TransportError p sleeps, with no look at its mailbox, and after a
\* wait it has had one; then it sends the same message again.
Resend(p) ==
  /\ phase[p] \in Resending
  /\ at[p] \in {"call", "wait"}
  /\ net' = net \cup {MessageOf(p)}
  /\ Goto(p, phase[p], "call")
  /\ UNCHANGED <<setupVars, progressVars, resultVars, box>>

-----------------------------------------------------------------------------
(* Negotiation.                                                            *)

TakeOffer(p) ==
  /\ phase[p] = "offer"
  /\ at[p] = "wait"
  /\ wait_for_offer(box[p], game[p])
  /\ IF ~sameTerms THEN Raise(p)
     ELSE IF Role(p) = "thief" THEN Goto(p, "think", "run")
     ELSE IF p \in Relayed THEN Goto(p, "opening", "run")
     ELSE Goto(p, "turn", "wait")
  /\ UNCHANGED <<setupVars, progressVars, resultVars, box, net>>

OfferFailsNever(p) == FALSE

\* The ceiling has passed, or the call itself took too long: nothing catches
\* DeadlineExceededError.
OfferFails(p) ==
  /\ phase[p] = "offer"
  /\ Raise(p)
  /\ UNCHANGED <<setupVars, progressVars, resultVars, box, net>>

-----------------------------------------------------------------------------
(* Play.                                                                   *)

\* The sub-game is over for p, which sends its audit envelope at once.
EndPlay(p, end) ==
  /\ ends' = [ends EXCEPT ![p] = Append(@, end)]
  /\ net' = net \cup {AuditTo(Other(p), game[p], sealed[p], end)}
  /\ Goto(p, "audit", "call")
  /\ UNCHANGED <<setupVars, game, sealed, reports, outcome, box>>

\* A relayed police starts the sub-game at its relay before it waits.
Open(p) ==
  /\ phase[p] = "opening"
  /\ Goto(p, "turn", "wait")
  /\ UNCHANGED <<setupVars, progressVars, resultVars, box, net>>

RelayFails(p) ==
  /\ p \in Relayed
  /\ Role(p) = "police"
  /\ phase[p] \in {"opening", "think"}
  /\ Raise(p)
  /\ UNCHANGED <<setupVars, progressVars, resultVars, box, net>>

\* p decides, seals and sends its next turn.
SendTurn(p) ==
  /\ phase[p] = "think"
  /\ sealed' = [sealed EXCEPT ![p] = @ + 1]
  /\ net' = net \cup {TurnTo(Other(p), game[p], sealed[p] + 1, SaysIn(p, sealed[p] + 1))}
  /\ Goto(p, "turn", "call")
  /\ UNCHANGED <<setupVars, game, seen, resultVars, box>>

TurnReturns(p) ==
  /\ phase[p] = "turn"
  /\ Returned(p)
  /\ IF SaysIn(p, sealed[p]) = "survival"
     THEN /\ EndPlay(p, "survival")
          /\ UNCHANGED seen
     ELSE /\ Goto(p, "turn", "wait")
          /\ UNCHANGED <<setupVars, progressVars, resultVars, box, net>>

FinalReturns(p) ==
  /\ phase[p] = "final"
  /\ Returned(p)
  /\ EndPlay(p, "capture")
  /\ UNCHANGED seen

\* Either exception of a turn's call: neither loop catches it.
TurnFails(p) ==
  /\ phase[p] \in {"turn", "final"}
  /\ at[p] = "call"
  /\ Raise(p)
  /\ UNCHANGED <<setupVars, progressVars, resultVars, box, net>>

TurnWaitExpires(p) ==
  /\ phase[p] = "turn"
  /\ at[p] = "wait"
  /\ EndPlay(p, "timeout")
  /\ UNCHANGED seen

See(p, t) == seen' = [seen EXCEPT ![p] = @ \cup {<<t.step, t.game>>}]

\* The thief reads the reply to its last turn; its position and the claim
\* decide whether it is caught, and then it owes one more turn.
ThiefReads(p) ==
  /\ phase[p] = "turn"
  /\ at[p] = "wait"
  /\ Role(p) = "thief"
  /\ \E t \in wait_for_turn(box[p], sealed[p]), caught \in BOOLEAN :
       /\ See(p, t)
       /\ IF caught
          THEN /\ sealed' = [sealed EXCEPT ![p] = @ + 1]
               /\ net' = net \cup {TurnTo(Other(p), game[p], sealed[p] + 1, "caught")}
               /\ Goto(p, "final", "call")
          ELSE /\ Goto(p, "think", "run")
               /\ UNCHANGED <<sealed, net>>
  /\ UNCHANGED <<setupVars, game, resultVars, box>>

EndSeenBySteps(p, t) ==
  IF sealed[p] = 0 THEN "none"
  ELSE IF t.step >= MaxSteps THEN "survival"
  ELSE IF t.says = "caught" THEN "capture"
  ELSE "none"

\* What the thief's turn t ends the police's sub-game with, if it does; what
\* an opening turn says is not looked at.
EndSeen(p, t) ==
  IF sealed[p] = 0 THEN "none"
  ELSE IF t.says = "caught" THEN "capture"
  ELSE IF t.says = "survival" \/ t.step > MaxSteps THEN "survival"
  ELSE "none"

PoliceReads(p) ==
  /\ phase[p] = "turn"
  /\ at[p] = "wait"
  /\ Role(p) = "police"
  /\ \E t \in wait_for_turn(box[p], sealed[p] + 1) :
       /\ See(p, t)
       /\ IF EndSeen(p, t) = "none"
          THEN /\ Goto(p, "think", "run")
               /\ UNCHANGED <<setupVars, game, sealed, resultVars, box, net>>
          ELSE EndPlay(p, EndSeen(p, t))

-----------------------------------------------------------------------------
(* The audit of a sub-game and the row it makes.                           *)

\* verify_peer_records: the records are those the other sealed in sub-game
\* a.game; each must hash to the commit seen live for its step.
Tampered(p, a) == \E step \in 1 .. a.records : <<step, a.game>> \notin seen[p]

\* The row is filed; the next sub-game begins, or the consensus exchange.
FileRow(p, report) ==
  /\ reports' = [reports EXCEPT ![p] = Append(@, report)]
  /\ IF game[p] < NumGames
     THEN BeginSubGame(p, game[p] + 1)
     ELSE /\ net' = net \cup {ConsensusTo(Other(p), RowsOf(p, Append(reports[p], report)))}
          /\ Goto(p, "consensus", "call")
          /\ UNCHANGED <<progressVars, box>>
  /\ UNCHANGED <<setupVars, ends, outcome>>

TakeAudit(p) ==
  /\ phase[p] = "audit"
  /\ at[p] = "wait"
  /\ \E a \in wait_for_audit(box[p], game[p]) :
       FileRow(p, [verdict |-> IF Tampered(p, a) THEN "tampered" ELSE "clean",
                   claim |-> a.claim])

Missing == [verdict |-> "missing", claim |-> "none"]

\* The ceiling has passed, or the call itself took too long, which ends the
\* exchange even with the other's envelope in the mailbox.
AuditMissed(p) ==
  /\ phase[p] = "audit"
  /\ FileRow(p, Missing)

-----------------------------------------------------------------------------
(* The consensus exchange, on a worker thread the main thread joins for a  *)
(* bounded time.                                                           *)

confirm_agreement_by_audits(p, rows) ==
  /\ \A n \in Games : reports[p][n].verdict = "clean"
  /\ \A n \in Games : reports[p][n].claim = ends[p][n]

confirm_agreement(p, rows) ==
  /\ \A n \in Games : reports[p][n].verdict = "clean"
  /\ \A n \in Games : reports[p][n].claim = ends[p][n]
  /\ rows = RowsOf(p, reports[p])

Settle(p, how) ==
  /\ outcome' = [outcome EXCEPT ![p] = how]
  /\ Goto(p, "filed", "run")
  /\ UNCHANGED <<setupVars, progressVars, ends, reports, box, net>>

TakeConsensus(p) ==
  /\ \/ phase[p] = "consensus" /\ at[p] = "wait"
     \/ phase[p] = "grace"
  /\ \E rows \in wait_for_consensus(box[p]) :
       Settle(p, IF confirm_agreement(p, rows) THEN "confirmed" ELSE "disputed")

\* The ceiling has passed, or the call took too long: one more look.
LookAgain(p) ==
  /\ phase[p] = "consensus"
  /\ Goto(p, "grace", "run")
  /\ UNCHANGED <<setupVars, progressVars, resultVars, box, net>>

GraceExpires(p) ==
  /\ phase[p] = "grace"
  /\ Settle(p, "unheard")

\* The join ends wherever the worker is; the worker may go on alone, but all
\* it can do is resend the envelope it has already sent.
Watchdog(p) ==
  /\ phase[p] = "consensus"
  /\ Settle(p, "unheard")

\* The fixed hold, then the process and its server end.
Leave(p) ==
  /\ phase[p] = "filed"
  /\ Goto(p, "done", "run")
  /\ UNCHANGED <<setupVars, progressVars, resultVars, box, net>>

-----------------------------------------------------------------------------
(* The specification.                                                      *)

Main(p) ==
  \/ Start(p) \/ CallReturns(p) \/ Resend(p) \/ TakeOffer(p)
  \/ Open(p) \/ SendTurn(p) \/ TurnReturns(p) \/ FinalReturns(p)
  \/ TurnWaitExpires(p) \/ ThiefReads(p) \/ PoliceReads(p) \/ TakeAudit(p)
  \/ TakeConsensus(p) \/ LookAgain(p) \/ GraceExpires(p) \/ Leave(p)
  \/ OfferFails(p) \/ RelayFails(p) \/ TurnFails(p) \/ AuditMissed(p)
  \/ Watchdog(p)

\* What ends a resend loop.
Ceiling(p) == OfferFails(p) \/ AuditMissed(p) \/ LookAgain(p)

Finished == \A p \in Peers : phase[p] \in {"done", "raised"}

Next ==
  \/ \E p \in Peers : Main(p)
  \/ \E m \in net : Deliver(m)
  \/ Finished /\ UNCHANGED vars

Spec == Init /\ [][Next]_vars

\* A peer's main thread goes on, since its calls and waits are bounded, and
\* so are its resend loops.
FairSpec ==
  /\ Spec
  /\ \A p \in Peers : WF_vars(Main(p)) /\ WF_vars(Ceiling(p))

-----------------------------------------------------------------------------
(* Properties.                                                             *)

TypeOK ==
  /\ natural \in NaturalRoles
  /\ sameTerms \in BOOLEAN
  /\ phase \in [Peers -> Phases]
  /\ at \in [Peers -> {"run", "call", "wait"}]
  /\ game \in [Peers -> 0 .. NumGames]
  /\ sealed \in [Peers -> 0 .. MaxSteps]
  /\ seen \in [Peers -> SUBSET (TurnNumbers \X Games)]
  /\ ends \in [Peers -> Seq(EndReasons)]
  /\ reports \in [Peers -> Seq(Report)]
  /\ \A p \in Peers : Len(reports[p]) <= Len(ends[p]) /\ Len(ends[p]) <= NumGames
  /\ outcome \in [Peers -> {"none", "confirmed", "disputed", "unheard"}]
  /\ box \in [Peers -> Mailbox]
  /\ net \subseteq Messages

\* Past the negotiation of its sub-game, and not raised.
Agreed(p) == phase[p] \in {"opening", "think", "turn", "final", "audit", "consensus", "grace",
                           "filed", "done"}

\* The peers stay abreast: a peer that plays a sub-game plays it with a peer
\* that has come to that sub-game too, so that neither is ever more than one
\* sub-game ahead of the other, whatever is lost, late or given up on.
Abreast ==
  \A p \in Peers :
    /\ game[p] <= game[Other(p)] + 1
    /\ Agreed(p) => game[p] <= game[Other(p)]

Complementary == natural[1] # natural[2]

TimedOut(n) == \E p \in Peers : n \in 1 .. Len(ends[p]) /\ ends[p][n] = "timeout"

\* A capture or a survival is the thief's own: when the police files one, the
\* thief has filed the same, or is still in the call that says it, or that
\* call has failed under it.  No late or left-over turn makes the police end a
\* sub-game the thief did not end so.
PoliceEndsAsThiefSaid ==
  Complementary =>
    \A p \in Peers : \A n \in 1 .. Len(ends[p]) :
      RoleIn(p, n) = "police" /\ ends[p][n] # "timeout" =>
        LET q == Other(p) IN
        IF n <= Len(ends[q])
        THEN ends[q][n] = ends[p][n]
        ELSE /\ game[q] = n
             /\ \/ phase[q] = "raised"
                \/ at[q] = "call" /\ SaysIn(q, sealed[q]) # "nothing"

\* An honest peer is called a tamperer only after a turn was late: if a row
\* is filed as tamper_forfeit, one of the two peers timed out in that
\* sub-game or an earlier one.  (Not always the one before: the turn that was
\* late may shift the peers against each other for a sub-game or two.)
TamperedOnlyAfterTimeout ==
  Complementary =>
    \A p \in Peers : \A n \in 1 .. Len(reports[p]) :
      reports[p][n].verdict = "tampered" => \E k \in 1 .. n : TimedOut(k)

\* A confirmed series is one both peers played to its end and filed alike:
\* opposite roles, the same end of every sub-game, and nobody found tampering.
ConfirmedSettles ==
  \A p \in Peers : outcome[p] = "confirmed" =>
    /\ Complementary
    /\ \A q \in Peers : Len(reports[q]) = NumGames
    /\ ends[1] = ends[2]
    /\ \A q \in Peers, n \in Games : reports[q][n].verdict # "tampered"

\* A series is disputed for a reason that can be named: roles that clash, a
\* turn that was late, or an audit the disputing peer did not get.  Two peers
\* that play complementary roles in time and hear each other always settle.
DisputeHasCause ==
  \A p \in Peers : outcome[p] = "disputed" =>
    \/ ~Complementary
    \/ \E n \in Games : TimedOut(n)
    \/ \E n \in Games : reports[p][n].verdict = "missing"

\* Whatever the network and the other peer do, the main thread of each peer
\* comes to the end of its series or to an exception that ends it.
Concludes == \A p \in Peers : <>(phase[p] \in {"done", "raised"})

\* reset_turns: "a leftover message from the *previous* sub-game's identical
\* step number can never be mistaken for the new one" (exchange.py:121-123).
NoLeftoverTurn == \A p \in Peers : \A c \in seen[p] : c[2] = game[p]

\* A call that fails costs one sub-game, never those already played: "A
\* slow/missing peer audit for THIS sub-game must not lose the other five"
\* (series_runner.py:399-400), and a peer unreachable at negotiate or turn
\* costs "that sub-game alone ... and the series continues" (the published
\* guide, line 446).
PlayedSubGamesKept ==
  sameTerms => \A p \in Peers : phase[p] = "raised" => reports[p] = <<>>

=============================================================================

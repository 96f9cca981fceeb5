----------------------------- MODULE CopAdapter -----------------------------
(***************************************************************************)
(* The cop_v1 tool handlers of a thief (interop/cop_server_tools.py) under *)
(* the calls of a real cop.  Her commits and reveals carry no step, so the *)
(* adapter numbers them itself; she retries a call whose answer she did    *)
(* not see, and the copies of a call may reach two handler threads at once,*)
(* late, or never.  The main thread of the thief is reduced to what the    *)
(* handlers share with it: its round, its position, the mailbox it waits   *)
(* on and the audit it takes at the end (PeerMatch has the rest).          *)
(*                                                                         *)
(* Nothing the handlers share but the mailbox is locked: between two       *)
(* statements every other thread may run.  A `+=` of a field, an append    *)
(* and a dictionary write are one step each.  Her program is not in this   *)
(* repository: it is modelled from the calls the handlers accept.          *)
(***************************************************************************)
EXTENDS CopTrace, SequencesExt, TLC

CONSTANTS
  Workers,        \* handler threads of the server
  ThiefStart,     \* board_and_agents.thief_start
  HerMoves,       \* per round of hers: the moves the cop picks from
  MovesPlayed,    \* the moves the thief picks from
  Suspects,       \* the cells the cop may claim the thief on
  MaxRounds,      \* game_rules.max_moves
  HerRounds,      \* bound: the rounds the cop plays before she ends the match
  MaxRetries,     \* bound: repeated sends of the cop, over the whole match
  Lies            \* the ways of cheating looked at, each [about, round]

ASSUME CopAdapterAssumption ==
  /\ ThiefStart \in Cells
  /\ MovesPlayed \subseteq Moves
  /\ Suspects \subseteq Cells
  /\ MaxRounds \in Nat \ {0}
  /\ HerRounds \in 1 .. MaxRounds
  /\ HerMoves \in [1 .. HerRounds -> SUBSET CopMoves]
  /\ MaxRetries \in Nat
  /\ Lies \subseteq [about : {"nothing", "standing", "move", "claim"}, round : Nat]

VARIABLES
  lie,          \* what she cheats about, and in which of her rounds
  cop,          \* [phase, whole]: what she does next; whole until she gives a call up
  sealed,       \* her commitments, by her own round
  shown,        \* the moves she revealed, by her own round
  pending,      \* the call she waits on
  retries,      \* repeated sends so far
  wire,         \* copies under way, each <<call, repeated sends before it>>
  told,         \* whether a confirmation of a capture reached her
  job,          \* per handler thread: the statement it is at, its call and the step it read
  adapter,      \* [commitStep, revealStep, lastCommit, revealDone]
  commits,      \* mailbox: step -> her round
  reveals,      \* mailbox: step -> her round
  trace,        \* CopPeerTrace
  audit,        \* opponent_audit: [verdict, verified]
  thief,        \* [at, round, cell, taken]
  landing,      \* the claim that flagged a capture: [step, cell, round], step 0 for none
  tidy          \* so far every call was handled alone and while she waited on it

herVars == <<lie, cop, sealed, shown, pending, retries>>
adapterVars == <<adapter, commits, reveals, trace, audit>>
vars == <<herVars, wire, told, job, adapterVars, thief, landing, tidy>>

-----------------------------------------------------------------------------
(* Her calls.                                                              *)

NoCall == [kind |-> "none", round |-> 0]
CommitCall(r) == [kind |-> "commit", round |-> r]
RevealCall(r) == [kind |-> "reveal", round |-> r]
ClaimCall(r, cell, copCell) == [kind |-> "claim", round |-> r, cell |-> cell, copCell |-> copCell]
FinalCall(r) == [kind |-> "final", round |-> r]

Idle == [at |-> "idle", call |-> NoCall, step |-> 0]
NotEvaluated == [verdict |-> "not_evaluated", verified |-> 0]
NotLanded == [step |-> 0, cell |-> ThiefStart, round |-> 0]

FreshAdapter == [commitStep |-> 1, revealStep |-> 1, lastCommit |-> 0, revealDone |-> FALSE]

Init ==
  /\ lie \in Lies
  /\ cop = [phase |-> "commit", whole |-> TRUE]
  /\ sealed = <<>> /\ shown = <<>>
  /\ pending = NoCall /\ retries = 0
  /\ wire = {} /\ told = FALSE
  /\ job = [w \in Workers |-> Idle]
  /\ adapter = FreshAdapter
  /\ commits = <<>> /\ reveals = <<>>
  /\ trace = EmptyTrace /\ audit = NotEvaluated
  /\ thief = [at |-> "move", round |-> 1, cell |-> ThiefStart, taken |-> "none"]
  /\ landing = NotLanded
  /\ tidy = TRUE

Serving == thief.at # "gone"

Send(call) ==
  /\ pending = NoCall
  /\ pending' = call
  /\ wire' = wire \cup {<<call, retries>>}

LiesAbout(what) == lie = [about |-> what, round |-> Len(sealed)]

\* Where she stands by what she sealed last.
HerStanding == IF sealed = <<>> THEN Standing(CopStart, {}) ELSE Last(sealed).at

CopCommits ==
  /\ Serving
  /\ cop.phase = "commit"
  /\ Send(CommitCall(Len(sealed) + 1))
  /\ \E move \in HerMoves[Len(sealed) + 1] :
       LET false == lie = [about |-> "standing", round |-> Len(sealed) + 1]
           at == IF false THEN HerStanding ELSE Applied(HerStanding, move)
       IN  sealed' = Append(sealed, Seal(Len(sealed) + 1, at, move))
  /\ UNCHANGED <<lie, cop, shown, retries, told, job, adapterVars, thief, landing, tidy>>

CopReveals ==
  /\ Serving
  /\ cop.phase = "reveal"
  /\ Send(RevealCall(Len(sealed)))
  /\ \E move \in IF LiesAbout("move") THEN HerMoves[Len(sealed)] \ {Last(sealed).move}
                ELSE {Last(sealed).move} :
       shown' = Append(shown, move)
  /\ UNCHANGED <<lie, cop, sealed, retries, told, job, adapterVars, thief, landing, tidy>>

\* At most one claim after a reveal, about the cell she believes the thief on.
\* A false one says she stands where she does not.
CopClaims ==
  /\ Serving
  /\ cop.phase = "claim"
  /\ \E cell \in Suspects :
       \E from \in IF LiesAbout("claim") THEN Cells \ {HerStanding.cell} ELSE {HerStanding.cell} :
         Send(ClaimCall(Len(sealed), cell, from))
  /\ UNCHANGED <<lie, cop, sealed, shown, retries, told, job, adapterVars, thief, landing, tidy>>

\* She goes on to the next round, or ends the match.
CopMovesOn ==
  /\ Serving
  /\ pending = NoCall
  /\ cop.phase \in {"claim", "claimed"}
  /\ \/ Len(sealed) < HerRounds /\ cop' = [cop EXCEPT !.phase = "commit"]
     \/ cop' = [cop EXCEPT !.phase = "final"]
  /\ UNCHANGED <<lie, sealed, shown, pending, retries, wire, told, job, adapterVars,
                 thief, landing, tidy>>

\* One nonce for every step she committed to.
CopEnds ==
  /\ Serving
  /\ cop.phase = "final"
  /\ Send(FinalCall(Len(sealed)))
  /\ UNCHANGED <<lie, cop, sealed, shown, retries, told, job, adapterVars, thief, landing, tidy>>

\* No answer in time: she sends the same call again ...
Retry ==
  /\ Serving
  /\ pending # NoCall
  /\ retries < MaxRetries
  /\ retries' = retries + 1
  /\ wire' = wire \cup {<<pending, retries + 1>>}
  /\ UNCHANGED <<lie, cop, sealed, shown, pending, told, job, adapterVars, thief, landing, tidy>>

\* ... or gives the match up; copies of the call may still arrive.
GiveUp ==
  /\ Serving
  /\ pending # NoCall
  /\ pending' = NoCall
  /\ cop' = [phase |-> IF pending.kind = "final" THEN "done" ELSE "final", whole |-> FALSE]
  /\ UNCHANGED <<lie, sealed, shown, retries, wire, told, job, adapterVars, thief, landing,
                 tidy>>

PhaseAfter(kind) ==
  CASE kind = "commit" -> "reveal"
    [] kind = "reveal" -> "claim"
    [] kind = "claim" -> "claimed"
    [] OTHER -> "done"

\* A handler returns: its answer reaches her while she waits on the call, or
\* is lost.
Answer(w) ==
  /\ job' = [job EXCEPT ![w] = Idle]
  /\ \/ /\ job[w].call = pending
        /\ pending' = NoCall
        /\ cop' = [cop EXCEPT !.phase = PhaseAfter(pending.kind)]
     \/ UNCHANGED <<cop, pending>>

Goto(w, place) == job' = [job EXCEPT ![w].at = place]

-----------------------------------------------------------------------------
(* The handlers.                                                           *)

\* A copy reaches a free handler thread.
Deliver(w) ==
  /\ Serving
  /\ job[w] = Idle
  /\ \E copy \in wire :
       /\ wire' = wire \ {copy}
       /\ job' = [job EXCEPT ![w] = [at |-> copy[1].kind, call |-> copy[1], step |-> 0]]
       /\ tidy' = (tidy /\ copy[1] = pending /\ \A v \in Workers : job[v] = Idle)
  /\ UNCHANGED <<herVars, told, adapterVars, thief, landing>>

Echo(r) == adapter.lastCommit = r /\ ~adapter.revealDone

\* handle_receive_commit: a repeat of the commit whose reveal is awaited is
\* acknowledged and nothing else.
CheckCommit(w) ==
  /\ Serving
  /\ job[w].at = "commit"
  /\ IF Echo(job[w].call.round)
     THEN Answer(w)
     ELSE Goto(w, "post_commit") /\ UNCHANGED <<cop, pending>>
  /\ UNCHANGED <<lie, sealed, shown, retries, wire, told, adapterVars, thief, landing,
                 tidy>>

\* The mailbox keeps the last content of a step.
Post(box, step, content) ==
  [s \in DOMAIN box \cup {step} |-> IF s = step THEN content ELSE box[s]]

PostCommit(w) ==
  /\ Serving
  /\ job[w].at = "post_commit"
  /\ commits' = Post(commits, adapter.commitStep, job[w].call.round)
  /\ Goto(w, "number_commit")
  /\ UNCHANGED <<herVars, wire, told, adapter, reveals, trace, audit, thief,
                 landing, tidy>>

\* record_commit reads the step ...
NumberCommit(w) ==
  /\ Serving
  /\ job[w].at = "number_commit"
  /\ job' = [job EXCEPT ![w].at = "count_commit", ![w].step = trace.nextCommit]
  /\ UNCHANGED <<herVars, wire, told, adapterVars, thief, landing, tidy>>

\* ... and writes its entry, whoever read or counted in between.  A thread that
\* read the count between the write and the `+=` would read what it reads
\* before the write, so the two are one step; the adapter's count is another.
\* (CPython does not switch threads within a `+= 1`.)
CountCommit(w) ==
  /\ Serving
  /\ job[w].at = "count_commit"
  /\ trace' = RecordCommit(trace, job[w].step, sealed[job[w].call.round])
  /\ job' = [job EXCEPT ![w].at = "advance_commit", ![w].step = 0]
  /\ UNCHANGED <<herVars, wire, told, adapter, commits, reveals, audit, thief, landing, tidy>>

AdvanceCommit(w) ==
  /\ Serving
  /\ job[w].at = "advance_commit"
  /\ adapter' = [adapter EXCEPT !.commitStep = @ + 1]
  /\ Goto(w, "mark_commit")
  /\ UNCHANGED <<herVars, wire, told, commits, reveals, trace, audit, thief, landing, tidy>>

MarkCommitKeepsDone(w) ==
  /\ Serving
  /\ job[w].at = "mark_commit"
  /\ adapter' = [adapter EXCEPT !.lastCommit = job[w].call.round]
  /\ Answer(w)
  /\ UNCHANGED <<lie, sealed, shown, retries, wire, told, commits, reveals, trace,
                 audit, thief, landing, tidy>>

MarkCommit(w) ==
  /\ Serving
  /\ job[w].at = "mark_commit"
  /\ adapter' = [adapter EXCEPT !.lastCommit = job[w].call.round, !.revealDone = FALSE]
  /\ Answer(w)
  /\ UNCHANGED <<lie, sealed, shown, retries, wire, told, commits, reveals, trace,
                 audit, thief, landing, tidy>>

CheckRevealNever(w) ==
  /\ Serving
  /\ job[w].at = "reveal"
  /\ Goto(w, "post_reveal")
  /\ UNCHANGED <<herVars, wire, told, adapterVars, thief, landing, tidy>>

\* handle_receive_reveal: content may repeat between rounds, so only the mark
\* tells a repeat.
CheckReveal(w) ==
  /\ Serving
  /\ job[w].at = "reveal"
  /\ IF adapter.revealDone
     THEN Answer(w)
     ELSE Goto(w, "post_reveal") /\ UNCHANGED <<cop, pending>>
  /\ UNCHANGED <<lie, sealed, shown, retries, wire, told, adapterVars, thief, landing,
                 tidy>>

PostReveal(w) ==
  /\ Serving
  /\ job[w].at = "post_reveal"
  /\ reveals' = Post(reveals, adapter.revealStep, job[w].call.round)
  /\ Goto(w, "number_reveal")
  /\ UNCHANGED <<herVars, wire, told, adapter, commits, trace, audit, thief,
                 landing, tidy>>

\* record_reveal, in the same steps.
NumberReveal(w) ==
  /\ Serving
  /\ job[w].at = "number_reveal"
  /\ job' = [job EXCEPT ![w].at = "count_reveal", ![w].step = trace.nextReveal]
  /\ UNCHANGED <<herVars, wire, told, adapterVars, thief, landing, tidy>>

CountReveal(w) ==
  /\ Serving
  /\ job[w].at = "count_reveal"
  /\ trace' = RecordReveal(trace, job[w].step, shown[job[w].call.round])
  /\ job' = [job EXCEPT ![w].at = "advance_reveal", ![w].step = 0]
  /\ UNCHANGED <<herVars, wire, told, adapter, commits, reveals, audit, thief, landing, tidy>>

AdvanceReveal(w) ==
  /\ Serving
  /\ job[w].at = "advance_reveal"
  /\ adapter' = [adapter EXCEPT !.revealStep = @ + 1]
  /\ Goto(w, "mark_reveal")
  /\ UNCHANGED <<herVars, wire, told, commits, reveals, trace, audit, thief, landing, tidy>>

MarkReveal(w) ==
  /\ Serving
  /\ job[w].at = "mark_reveal"
  /\ adapter' = [adapter EXCEPT !.revealDone = TRUE]
  /\ Answer(w)
  /\ UNCHANGED <<lie, sealed, shown, retries, wire, told, commits, reveals, trace,
                 audit, thief, landing, tidy>>

Claimed(w) == [step |-> job[w].call.round, copCell |-> job[w].call.copCell]

JudgeSilently(w) ==
  /\ Serving
  /\ job[w].at = "claim"
  /\ trace' = RecordClaim(trace, Claimed(w))
  /\ Goto(w, IF thief.cell = job[w].call.cell THEN "confirm" ELSE "refuse")
  /\ UNCHANGED <<herVars, wire, told, adapter, commits, reveals, audit, thief, landing, tidy>>

\* handle_receive_capture_claim compares with where the thief is now; the step
\* she names is only recorded.  A confirmed claim flags the capture and wakes
\* the main thread (PeerMatch has the comparison and the flag apart).
JudgeClaim(w) ==
  /\ Serving
  /\ job[w].at = "claim"
  /\ LET confirmed == thief.cell = job[w].call.cell
     IN  /\ landing' = IF confirmed /\ landing = NotLanded
                       THEN [step |-> job[w].call.round, cell |-> thief.cell, round |-> thief.round]
                       ELSE landing
         /\ Goto(w, IF confirmed THEN "confirm" ELSE "refuse")
  /\ trace' = RecordClaim(trace, Claimed(w))
  /\ UNCHANGED <<herVars, wire, told, adapter, commits, reveals, audit, thief, tidy>>

\* cop_send_capture_response: a failed send raises, and she gets no answer
\* to her claim either.
RespondToClaim(w) ==
  /\ Serving
  /\ job[w].at \in {"confirm", "refuse"}
  /\ \/ /\ told' = (told \/ job[w].at = "confirm")
        /\ Answer(w)
     \/ /\ job' = [job EXCEPT ![w] = Idle]
        /\ UNCHANGED <<told, cop, pending>>
  /\ UNCHANGED <<lie, sealed, shown, retries, wire, adapterVars, thief, landing, tidy>>

\* handle_receive_final_reveal: keep the nonces, audit what is there, answer.
\* Of the event it sets on the way, see GraceEnds.
KeepNonces(w) ==
  /\ Serving
  /\ job[w].at = "final"
  /\ trace' = RecordFinalReveal(trace, 1 .. job[w].call.round)
  /\ Goto(w, "audit")
  /\ UNCHANGED <<herVars, wire, told, adapter, commits, reveals, audit, thief, landing, tidy>>

\* The replay looks no further than the last entry.
Entries(t) == Max(DOMAIN t.entries \cup {0})

AuditTrace(w) ==
  /\ Serving
  /\ job[w].at = "audit"
  /\ audit' = [verdict |-> IF AuditPassed(trace, Entries(trace)) THEN "passed" ELSE "failed",
               verified |-> Cardinality(CheckedSteps(trace))]
  /\ Answer(w)
  /\ UNCHANGED <<lie, sealed, shown, retries, wire, told, adapter, commits, reveals, trace, thief,
                 landing, tidy>>

-----------------------------------------------------------------------------
(* The thief's main thread.                                                *)

\* It moves, then waits for the cop's reveal of the round.
ThiefMoves ==
  /\ thief.at = "move"
  /\ \E m \in MovesPlayed :
       /\ m \in LegalMoves(thief.cell, {})
       /\ thief' = [thief EXCEPT !.cell = Target(@, m), !.at = "wait"]
  /\ UNCHANGED <<herVars, wire, told, job, adapterVars, landing, tidy>>

Woken == landing # NotLanded

RoundEnds ==
  thief' = IF Woken \/ thief.round = MaxRounds
           THEN [thief EXCEPT !.at = "grace"]
           ELSE [thief EXCEPT !.at = "move", !.round = @ + 1]

RoundUnheld ==
  /\ thief.at = "wait"
  /\ RoundEnds
  /\ UNCHANGED <<herVars, wire, told, job, adapterVars, landing, tidy>>

RoundArrived ==
  /\ thief.at = "wait"
  /\ Woken \/ thief.round \in DOMAIN reveals
  /\ RoundEnds
  /\ UNCHANGED <<herVars, wire, told, job, adapterVars, landing, tidy>>

\* The deadline of the round, or a send of its own that failed.
RoundLost ==
  /\ thief.at = "wait"
  /\ thief' = [thief EXCEPT !.at = "grace"]
  /\ UNCHANGED <<herVars, wire, told, job, adapterVars, landing, tidy>>

\* cop_shutdown_grace ends with the event or at its ceiling, so the event alone
\* decides nothing; then the adapter's
\* audit is taken and the process goes, with all it had received.
GraceEnds ==
  /\ thief.at = "grace"
  /\ thief' = [thief EXCEPT !.at = "gone", !.taken = audit.verdict]
  /\ wire' = {} /\ job' = [w \in Workers |-> Idle]
  /\ adapter' = FreshAdapter /\ commits' = <<>> /\ reveals' = <<>>
  /\ trace' = EmptyTrace /\ audit' = NotEvaluated
  /\ landing' = NotLanded
  /\ UNCHANGED <<herVars, told, tidy>>

Gone == thief.at = "gone" /\ UNCHANGED vars

Cop == CopCommits \/ CopReveals \/ CopClaims \/ CopMovesOn \/ CopEnds \/ Retry \/ GiveUp

Worker(w) ==
  \/ Deliver(w)
  \/ CheckCommit(w) \/ PostCommit(w) \/ MarkCommit(w)
  \/ NumberCommit(w) \/ CountCommit(w) \/ AdvanceCommit(w)
  \/ CheckReveal(w) \/ PostReveal(w) \/ MarkReveal(w)
  \/ NumberReveal(w) \/ CountReveal(w) \/ AdvanceReveal(w)
  \/ JudgeClaim(w) \/ RespondToClaim(w)
  \/ KeepNonces(w) \/ AuditTrace(w)

Thief == ThiefMoves \/ RoundArrived \/ RoundLost \/ GraceEnds

Next == Cop \/ (\E w \in Workers : Worker(w)) \/ Thief \/ Gone

Spec == Init /\ [][Next]_vars

-----------------------------------------------------------------------------
(* Properties.                                                             *)

Rounds == 1 .. MaxRounds
Calls ==
  {NoCall} \cup [kind : {"commit", "reveal"}, round : Rounds] \cup [kind : {"final"}, round : 0 .. MaxRounds]
    \cup [kind : {"claim"}, round : Rounds, cell : Cells, copCell : Cells]
Places ==
  {"idle",
   "commit", "post_commit", "number_commit", "count_commit", "advance_commit",
   "mark_commit",
   "reveal", "post_reveal", "number_reveal", "count_reveal", "advance_reveal",
   "mark_reveal",
   "claim", "confirm", "refuse", "final", "audit"}

\* Every variable keeps its type.
TypeOK ==
  /\ lie \in Lies
  /\ cop \in [phase : {"commit", "reveal", "claim", "claimed", "final", "done"}, whole : BOOLEAN]
  /\ sealed \in Seq([step : Rounds, at : Standings, move : CopMoves])
  /\ shown \in Seq(CopMoves)
  /\ Len(shown) <= Len(sealed) /\ Len(sealed) <= HerRounds
  /\ pending \in Calls /\ retries \in 0 .. MaxRetries
  /\ wire \subseteq Calls \X Nat
  /\ told \in BOOLEAN
  /\ job \in [Workers -> [at : Places, call : Calls, step : Nat]]
  /\ adapter \in [commitStep : Nat, revealStep : Nat, lastCommit : 0 .. MaxRounds,
                   revealDone : BOOLEAN]
  /\ audit \in [verdict : {"not_evaluated", "passed", "failed"}, verified : Nat]
  /\ thief \in [at : {"move", "wait", "grace", "gone"}, round : Rounds, cell : Cells,
                 taken : {"none", "not_evaluated", "passed", "failed"}]
  /\ landing \in [step : 0 .. MaxRounds, cell : Cells, round : 0 .. MaxRounds]
  /\ tidy \in BOOLEAN

\* As long as her calls are handled one at a time, whatever is repeated and
\* whatever answer is lost, each number the adapter gives is her own round:
\* nothing she sent is filed, or waited for, under another step
\* (cop_server_tools.py:50-66, 75-97).
InStep ==
  tidy =>
    /\ \A k \in DOMAIN commits : commits[k] = k
    /\ \A k \in DOMAIN reveals : reveals[k] = k
    /\ \A s \in DOMAIN trace.entries :
         /\ s \in 1 .. Len(sealed)
         /\ trace.entries[s].commit \in {NoCommit, sealed[s]}
         /\ trace.entries[s].move # NoMove => s <= Len(shown) /\ trace.entries[s].move = shown[s]

\* However her calls were repeated, delayed, lost or handled at once, an audit
\* that passed vouches for something: from cop_start, each commitment up to
\* the last verified step was to the standing the move in it leads to.  When
\* the calls were handled in order, the moves are those she showed, and she
\* claimed captures from where she stood (cop_peer_audit.py:134-160).
AuditIsFaithful ==
  audit.verdict = "passed" =>
    /\ audit.verified \in 1 .. Len(sealed)
    /\ \A s \in 1 .. audit.verified :
         /\ sealed[s].at = Applied(IF s = 1 THEN Standing(CopStart, {}) ELSE sealed[s - 1].at,
                                   sealed[s].move)
         /\ tidy => s <= Len(shown) /\ shown[s] = sealed[s].move
    /\ tidy => \A i \in DOMAIN trace.claims :
                 trace.claims[i].copCell = sealed[trace.claims[i].step].at.cell

\* A cop who sealed what she did, claimed from where she stood and was
\* answered on every call, if need be after a repeat, is not failed, so the
\* match is not turned into a forfeit of hers (cop_server_tools.py:147-158,
\* match_end.py:180-186).
HonestCopPasses ==
  lie.about = "nothing" /\ cop.whole /\ tidy => audit.verdict # "failed" /\ thief.taken # "failed"

\* A claim is judged by where the thief stands now, not at the step it names
\* (cop_server_tools.py:110).  While her calls are handled in order that is at
\* the latest the cell of the round after: the thief waits there for a reveal
\* she sends only after the answer.
ClaimTimely ==
  tidy =>
    /\ \A w \in Workers : job[w].at = "claim" => thief.round <= job[w].call.round + 1
    /\ landing # NotLanded => landing.round <= landing.step + 1

\* Once she has been told the thief is captured, he plays no further round
\* (cop_server_tools.py:112-127, 136).
CaughtThiefStops == [][(told => thief'.round = thief.round)]_vars

=============================================================================

# Thief peer: a TLA+ model of the match, its protocols, and the process around it

The program is one peer of a two-player pursuit game played without a referee: a
thief and a cop move on a grid, each on its own machine, and talk through MCP tool
calls. Every round is a commit and a reveal; at the end each side audits the other's
log and files its own report. Nobody but the two peers decides anything, so a peer has
to reach one well-founded verdict from what its own threads saw.

Paths below are relative to `src/thief_peer/` of the repository.

## The parts of the system

| part | state | operations | what makes it correct |
|---|---|---|---|
| match runtime (`peer/runtime.py`, `peer/round_loop.py`, `interop/cop_round_loop.py`, `peer/turn_fsm.py`, `peer/round_exchange.py`, `peer/strategy_deadline.py`) | turn FSM, round number, records, end reason, capture flags, wake-up event, mailbox of commits and reveals | handshake, one round, end of match | always ends, with one verdict that its log and state justify; every sealed move stays in the log |
| tool handlers (`peer/runtime_context.py`, `infra/mcp_server.py`) | the runtime's, from server threads | commit, reveal, barrier, capture claim, pull records | barrier quota, no record shown during play |
| board and own state (`domain/board.py`, `own_state.py`, `rules.py`) | position, step count, known barriers | legal moves, apply, record barrier, end conditions | position always on the board, one step per round |
| finalisation (`peer/match_end.py`) | audits, winner, result | audit exchange, override, report | a forged log forfeits, a technical loss is never turned into a win |
| cop_v1 adapter (`interop/cop_*.py`) | round numbers of a wire that carries none, the cop's trace, her audit | commit, reveal, claim, final reveal | a repeated call does not shift the numbering; the audit passes an honest cop |
| transport (`infra/mcp_client.py`) | one session, one event loop | call, retry, close | no call runs twice at the opponent, every call ends in bounded time, one session at a time |
| std_v1 (`interop/std_v1/`, `interop/std_v1_opponent.py`) | offers, turns, audits, consensus, one series of sub-games | negotiate, play, audit, agree | a message of one sub-game is never used in another; agreement is mutual |
| watchdog (`peer/heartbeat_monitor.py`, `shared/watchdog.py`) | last heartbeat | beat, check, kill | ends a frozen process and spares one that keeps its time limits |
| gatekeeper (`shared/gatekeeper.py`, `rate_limiter.py`) | tokens, queue, lock, retries | execute | bounded calls; the report is sent, and not over and over |
| persistence (`report/report_writer.py`, `sub_game_counter.py`, `series_result.py`, `sdk/sdk.py`) | two counter files, the result files | number a run, record, merge, write, mail | a counted game, its number, its result and its mail go together over many runs |

How they interact: the main thread runs `PeerRuntime.run`. In each round it starts a
daemon thread for the strategy and joins it with a deadline, sends commit and reveal
through the transport, then polls the mailbox, which the MCP server's worker threads
fill. Those threads also write the barriers the strategy thread reads, and raise the
capture flags and the wake-up that the main thread looks at; apart from the mailbox's
own lock nothing protects the shared fields. After the loop the main thread calls the
opponent's audit tools while its own server keeps answering hers.

The hard behaviours follow from that: unlocked fields written by four kinds of threads,
a strategy thread that outlives its deadline, checks whose order decides the verdict,
deadlines racing the event they wait for, calls that fail after they took effect, and
two ends of a match that nobody synchronises. `PROJECT.json` lists each one with its
line under `hazards`.

## The modules

| module | what it is |
|---|---|
| `BoardRules` | cells, moves, legal moves, the end conditions, as pure operators |
| `MatchVerdict` | which audits count, winner and result value, as pure operators |
| `PeerMatch` | one peer's match: main thread, strategy thread, server threads, opponent |
| `MatchOutcome` | what a match promises: rounds, one justified verdict, then disclosure |
| `PeerOutcome` | the refinement mapping from `PeerMatch` to `MatchOutcome` |
| `MCPeerMatch` | instances of it for TLC |
| `CopTrace` | what a cop_v1 thief records of the cop and how it audits it, as pure operators |
| `CopAdapter` | the cop_v1 handlers on several threads under a cop who retries, gives up or lies |
| `MCCopAdapter` | an instance of it for TLC |
| `RemoteCall` | what a caller may rely on when it calls a tool of the opponent |
| `McpTransport` | one transport: its callers, the coroutines of their attempts, the session, the close |
| `StdExchange` | the std_v1 mailbox of one peer, as pure operators |
| `StdSeries` | two peers of this program playing one std_v1 series against each other |
| `MCStdSeries` | instances of it for TLC |
| `PeerProcess` | the process run after run: its files, the watchdog, the mailed report |
| `MCPeerProcess` | an instance of it for TLC |
| `PeerMatch_proofs` | the inductive invariant and the theorems that follow from it |
| `PeerEvidence_proofs` | theorems on the trail, the verdict, the report, the quota and the end of a run; `PeerMatch` implements `MatchOutcome` |
| `McpTransport_proofs` | its inductive invariant, bounded calls, one session, `RemoteCall` implemented |
| `StdSeries_proofs` | its inductive invariant, the peers abreast, confirmed series settled |
| `StdOrder_proofs` | theorems on the order of its turns: what the police files, who is found tampering, why a series is disputed |
| `CopAdapter_proofs` | theorems on the numbering of her rounds, the claims and the confirmation of a capture |
| `CopAudit_proofs` | theorems on the replay and on what the audit of a cop passes and fails |
| `PeerProcess_proofs` | theorems on its files, its mails, the watchdog and how long a run takes |

### One match: `PeerMatch`

`PeerMatch` keeps the code's fields under their names in its comments: `fsm` is
`TurnFsm._state`, `commits` and `reveals` are the key sets of `RoundExchange`, `known`
is `known_barriers`, `wakeup` the event `_round_wakeup`, `shown` the number of records
`get_revealed_records` last served. `pc` is the place of the main thread between two
statements another thread could see a difference between, `thinker` the same for the
strategy thread, `job[w]` for the server thread `w`.

* Main thread: `Handshake`, then rounds of `StartRound` (`PullScent` first in cop_v1),
  `SealMove` or `StrategyFails`, `SendCommit`, `SendReveal` or `SendFails`,
  `AwaitReveal` or `AwaitTimeout`, `CheckRound` or `CheckLostRound`, until `LeaveLoop`
  or a verdict; then `CloseLoop`, in cop_v1 `FinalReveal` and `ShutdownGrace`, and what
  `finalize_match` does: `CheckNames`, in native `SubmitAudit` and `PullRecords`, and
  `Finalize`. `CatchAll` is the `except Exception` of the loop; after the loop nothing
  catches, and `Raise` ends the run with its cause: a `call` that failed, an `answer` that
  is no audit, two groups of one name (`names`), a counter or result file that
  cannot be read (`files`). FSM transitions go through the table, and an illegal one takes the
  catch-all, so the model finds an FSM mistake rather than assuming it away.
* Strategy thread: `Decide`, `Validate`, `ApplyMove`, `GenerateHint`. The barriers are
  read twice, as in the code. A brain may pick any legal move, which covers every
  strategy. After a deadline the thread goes on, also while the match is reported.
* Server threads: `DeclareBarrier`, `RecordBarrier`, `CompareBarrier`, `FlagBarrier`,
  `Wake` are the statements of one handler; `ConfirmLanding`, `FlagLanding`, `Wake` those
  of the cop_v1 claim handler.
* Opponent: `CommitArrives`, `RevealArrives`, `ShowRecords`, `FinalRevealArrives`, at any
  time the process lives, in any order, repeated or never.

Abstractions: a record is what it seals and what another reads in it: the round and the
move, and in cop_v1, whose `build_cop_state_string` seals them for the cop to replay, the
cell and the step count too. A native record seals `step-N` and the move, and its audit only hashes
again. Hashes and hints play no part in the control; a call either returns or fails, with what the
callee did left to her; time is left out, so a deadline may pass whenever its wait is
open. Two native tools stay registered next to the cop_v1 ones; the model gives a
cop_v1 opponent only her own wire's numbering. What a handler does after its last
shared write, such as answering a claim, is not modelled.

### The cop_v1 handlers: `CopAdapter`

A cop_v1 cop is another program. Her `receive_commit` and `receive_reveal` carry no round,
so `interop/cop_server_tools.py` counts them itself, drops a repeat that it recognises, and
keeps a trace of what she sealed, showed and claimed, which `audit_cop_peer_trace` replays
after her final reveal. `PeerMatch` numbers distinct messages only and leaves the outcome of
the audit open; `CopAdapter` is what is behind both.

* `adapter` holds `_commit_step`, `_reveal_step`, `_last_commit` and `_reveal_received`;
  `trace` is the `CopPeerTrace`, whose operators are those of `CopTrace`.
* `job[w]` is the statement a handler thread is at. `CheckCommit`, `PostCommit`,
  `NumberCommit`, `CountCommit`, `AdvanceCommit`, `MarkCommit` are the parts of one handler between
  which another thread can see a difference, and so for the reveal; a claim is judged in one and
  answered in another.
* Nothing there is locked. `NumberCommit` reads `next_commit_step` into `job[w].step`, `CountCommit`
  writes the entry of that step and adds one to whatever the count is by then, and `AdvanceCommit`
  adds one to the adapter's own count. Two threads may take one step and one overwrites the other's
  entry, the counts go up by two, and the step in between has no entry. A `+= 1`, one
  dictionary write and one append are each one step, as CPython switches threads at
  none of them.
* The cop is the calls she makes: in turn, one at a time, each awaited. `Retry` sends the
  pending call again, `GiveUp` ends her match early and leaves its copies on the way;
  `Deliver` takes any copy on the way to any free thread, at once, late or never. An answer may be
  lost. `Lies` are the ways she cheats: she seals a standing her move does not lead to, shows a
  move she did not seal, or claims from a cell she is not on.
* The thief is reduced to `thief`, its round, its cell and where the main thread waits.
  A round without her reveal ends the match (`RoundLost`).

A commitment is the record it seals and an empty trace is told from an incomplete one; the
barriers on the board are left out of the thief's moves here, as `PeerMatch` has them.
Her program is not in the repository, so everything about her is marked external.

### The transport: `McpTransport`

Every call of a match goes through one `McpTransport`, from the main thread and, in
cop_v1, also from the handler of a capture claim, which answers with a call of its own
(`interop/cop_server_tools.py:136`). `PeerMatch` and `StdSeries` take a call for something
that returns or fails; `McpTransport` is what is behind it, and `RemoteCall` what it promises.

* `caller[t]` is the thread in `call`: `attempt` at the head of the retry loop, `result` in
  `future.result`, `sleep` in the back-off. `spent` is the time since `start`, `remaining` the
  local of that name, which the loop computes before the attempt and uses after it.
* `task[t]` is the coroutine of that attempt, from one `await` to the next: `lock` and
  `connect` in the first `async with`, `ready` before `call_tool`, `asked` in it, `failing`
  before the second `async with`, `closing` in it, then `raised` or `answered`. `error` is
  what it raised, in the classes `call` tells apart: safe to retry, unsafe, `TimeoutError`.
* `client` is `_connected`, the holder of `_connect_lock` and whether a session is open.
  `shutdown` is the main thread in `close`, which reads and writes `_connected` without
  the lock while a handler may still be calling.
* `wire` and `executed` are the opponent: a request that was transmitted runs at any time or
  never, also after its call has failed. A call that is retried keeps its identity, so a
  second run is a second run of the same call.

What the FastMCP client does is modelled from how the code relies on it: the errors that
`_is_safe_to_retry` accepts are raised before a request is transmitted, as its docstring
says (lines 59-62), and a close that raises does not raise one of them. Whoever
waits for the lock may get it next, whereas `asyncio.Lock` serves in order. A deadline cancels the
coroutine at once; in the program the loop does so at its next turn, before which that
coroutine can at most transmit the request, which counts like one transmitted before.
Time passes in whole units, and a thread whose wait is over goes on before the next.

### A std_v1 series: `StdSeries`

In std_v1 a series of sub-games is played by two peers that need not run the same
program. `StdSeries` has two peers that both run this one, so that each message in it
is one the code sends and one the code reads. A peer is its main thread
(`phase`, `at`), what `play_series` keeps of the sub-game in hand (`game`, `sealed`,
`seen`) and of those played (`ends`, `reports`, `outcome`), and its mailbox `box`, whose
operators are those of `StdExchange` in `interop/std_v1/exchange.py`.

* `phase[p]` is the exchange the main thread is in: `offer` for `negotiate_sub_game`;
  `opening`, `think`, `turn`, `final` for the thief's and the police's loops; `audit` for
  `exchange_audit`; `consensus`, `grace` for `exchange_consensus`; `filed` from the report
  to the end of the process. `at[p]` says whether it is inside the transport's call, in a
  wait on the mailbox, or in neither.
* `net` holds what was sent and not delivered. A call puts its message there at once, and
  returns only after `Deliver`, since the transport waits for the tool's answer; it may
  also fail, before or after the delivery. A message a failed call left behind is still
  delivered later, or never, into whatever sub-game the other is in by then.
* A commit is the step and the sub-game it was sealed in, so an audit verifies exactly
  when each record is the one whose commit was seen live. Turn messages carry a step and
  no sub-game, as on the wire: `wait_for_turn` looks at the step alone. Offers
  and audits are kept by sub-game.
* A digest is the rows it is computed from, each the result and who was the thief: the
  winner, the scores and the totals follow from these.
* Time is left to chance. `TransportError`, the ceiling of a resend loop and
  `DeadlineExceededError` are merged where they have one effect: `OfferFails`, `TurnFails`
  and `RelayFails` leave `run` through no handler, `AuditMissed` files a row without an
  audit, `LookAgain` takes the grace look of the consensus. The join on the consensus
  worker (`Watchdog`) may end anywhere; the worker it leaves behind can only resend the
  envelope it has sent, which changes no mailbox, so it is not kept.

Position and claim decide a capture, and the model leaves them open: any reply of the
police may catch the thief. Whether the two hold the same terms (`sameTerms`) is settled
before the first call and leads to the exception at once. Not in the model: a foreign kit
that omits `sub_game_number` (the `None` buckets of the mailbox), control
messages, which are stored and read by nothing, and the resume of a counted series.

### Run after run: `PeerProcess`

A league is played over many runs of the program: a sub-game per run against a native or
cop_v1 opponent, a whole series per run against a std_v1 one. What ties the runs together
is on disk. `PeerProcess` has one process at a time on one results directory, as `run` and
its `at`, and the files it leaves.

* `numbers`, `league`, `results[o]` are `sub_game_counter.json`, `league_counter.json` and
  `result_<game_id>.json`. `Path.write_text` truncates and then fills, so each write is two
  steps (`Start` and `SaveNumber`, `RecordGame` and `SaveGame`, `FileResult` and
  `SaveResult`). In between the file is `Torn`: it holds nothing, what is to be written is in
  `text` and goes with the process, and whoever parses the file raises (`RaisesOnRead`, and the
  guard of `Start`).
* The number of a sub-game is kept by `network.opponent_url` (`sdk/sdk.py:127-129`), the count and
  the result file by the opponent's group. `UrlsOf` gives an opponent one URL or several. A result
  file of another `schema_version` counts for none, hence for `File({})`.
* `seen` is what a std_v1 run read in the league's file before its series (`ReadCounts`).
  `DeclaredGames` is the number of games it then declares: the configured override or the total of
  the file, and one more if the run was begun as counted.
* `Dies` ends the process anywhere: killed, or by an exception nothing catches, like a
  failed handshake or audit. `Freeze` hangs the main thread anywhere.
* `watch` is the `HeartbeatMonitor`. `Tick` is one unit of time; a healthy handshake takes at most
  `HandshakeLimit`, a round `RoundLimit`, the sums of the deadlines of their calls. `RoundDone`
  beats; the end of the handshake does not.
* `mail` is the report in the gatekeeper's `_call_with_retry`, whose last error
  `send_report_email` catches. A send may be delivered and still raise.
* `given`, `agreed`, `concluded`, `filed` and `mails` are history, to state the properties with.

The match itself is reduced to how it ends: `EndRounds` for a sub-game, `SeriesEnds` for a series
that was confirmed on the wire, only agreed, or neither. Agreed is `results_agreed`, which compares
the two claims of each sub-game's result and no audit (`interop/std_v1/series_runner.py:486-488`),
although `runtime.py:176` speaks of audits. Facts about the code that writing it down showed, beyond
the properties:

* a torn file is never repaired: a torn `sub_game_counter.json` ends every later run at its start,
  a torn league or result file at its report, a torn league file a std_v1 run before its series; with a
  torn result file every further counted run is still recorded in the league before it raises (that
  someone deletes the file by hand is not modelled);
* a torn result file has lost all its counted sub-games, not the last one only;
* an opponent who comes back under another URL begins again at number 1, and the merge, which goes
  by the number alone, puts that sub-game in the place of the counted one of number 1;
* a counted run that dies between the saved number and the end of its handshake has used the
  number up, and the opponent never hears of it;
* the declared count is fixed before the series: one that was begun as counted and does not settle
  has declared a game that is never recorded;
* a std_v1 report is written over what `result_<game_id>.json` held, so that a warm-up after a
  counted series replaces its result; `CountedStay` is therefore about the other opponents;
* a warm-up against a native opponent with no `email.opponent_recipient` is mailed to
  `email.recipient`, although `sdk/sdk.py:110-112` speaks of keeping the lecturer out of it;
  `KeepsLecturerApart` names the configurations that do keep it out, the shipped `game.toml` among them;
* no sender raises `RateLimitedError`, so the gatekeeper's longer retry loop is never used.

## The runs

| run | what it asks | bounds |
|---|---|---|
| `peer_native` | types, lockstep with the opponent's reveals, no lost record, justified verdicts, barrier quota, disclosure, refinement of `MatchOutcome` | 2x2 board, 2 rounds, threshold 2, quota 1 with 3 cells to declare, 2 symmetric server threads |
| `peer_cop` | the sealed trail the cop replays, verdicts with landing captures and a threshold past the move cap, losses stay losses, what may cost a finished match its report, termination | 2x2 board, 2 rounds, threshold 3, 1 server thread, 1 barrier cell |
| `peer_capture_last_round` | counterexample: captured, reported as survived | 2 rounds, 1 server thread |
| `peer_reveal_first` | counterexample: the move leaves before the opponent's commitment is in | as above |
| `cop_adapter` | types, the adapter's numbering in step, an audit that passed vouches for the cop, an honest cop passes, claims judged in time, a thief told captured stops | 2 server threads, 3 rounds of which she plays 2, 1 repeated send, one lie of each kind, 2x2 board |
| `std_series` | types, the peers abreast, sub-games ended as the thief said, forfeits and disputes with a cause, confirmed series settled | 2 sub-games of 2 steps, complementary roles, a relayed peer |
| `std_one_game` | a confirmed series is settled whatever roles the operators set; a series comes to an end | 1 sub-game of 2 steps, all four pairs of roles, a relayed peer |
| `std_leftover` | counterexample: a turn of the last sub-game is read in the next | as `std_series` |
| `std_lost` | counterexample: a failed call loses the sub-games already played | as `std_series` |
| `transport_calls` | bounded calls, one session, refinement of `RemoteCall`, every call ends | 2 threads with a call each, 3 attempts, back-off 1, timeout 4 |
| `transport_deadline` | counterexample: a call outlasts `response_timeout_sec` | as above |
| `peer_process` | types, the runs' numbers in turn, an honest league count, the declared count, counted games stay filed, one reward per opponent, who is mailed and how often, whom the watchdog shoots, every watched run ends | 3 runs of 2 rounds, two native opponents, one of them under two URLs, and a std_v1 opponent under one of these; handshake and round 1 each, watchdog limit 2 |

### Bounds

Why the bounds are enough: two rounds give a round before and a round after every
event, including one that is first and one that is last; two server threads are the
least for a race between handlers; a corner of a 2x2 board is walled in by two
barriers, the least that makes a thief stuck, and the third cell, off the board,
is there because nothing checks that a declared cell is on it and because the quota can
only be overshot with more cells than the quota allows. One run has the threshold at the move
cap, as the shipped configuration has, the other past it, where
`max_moves_reached` can happen. The theorems need none of these bounds.

For the series, two sub-games let each peer play both roles, with a sub-game to leave
messages behind and one to find them; two steps are the least with a capture before the
last turn and a survival at it. Relayed is peer 1 in one run and peer 2 in the other, so
that a relayed police is met both first and second. Liveness is asked of one sub-game,
since each sub-game passes through the same loops. The safety properties were also run
over all of the larger instance with 3 steps (10.6 million states, 4 minutes), with no
error. What two sub-games cannot show is a late turn that tells only two sub-games on; a partial
run of three found one, and `TamperedOnlyAfterTimeout` allows for it. The theorems hold for any number.

For the transport, two threads are the least for a race on the session, and three attempts
the least with a back-off that is longer than the first; the timeout of four is the least
that reaches the third attempt with time left, so that a call can also run out of attempts. Two calls
of each thread were run over all of an instance with 2 attempts and a timeout of 2, for
the inductive invariant of the proofs (5.9 million states), with no error.

For the adapter, two threads are the least for a race between two copies of a call, one repeated
send the least for a copy to be repeated (she can also give a call up and leave it on the way), and
two rounds of hers the least for a duplicate of one to fall into the next; the thief has a round
more, so that a claim can meet the round after. In her first round she may step, in her second step
past the edge or put up a barrier. Each lie is told in the round where the replay has something to
compare it with, and is one: a false claim is made from any cell but the one she stands on. With the
unlocked counters in steps of their own the instance has 6,438,084 distinct states (3 minutes).

For the process, three runs are the least for a counted game, something that disturbs it and
something that reads what is left; the opponents share the two counter files, and two of them a URL.
The watchdog's limit is exactly `HandshakeLimit + RoundLimit`, where `SparesTheHealthy` begins to
forbid a shot. All three opponents' mail configurations are of those that `KeepsLecturerApart`
names. No opponent has an override of the declared count, which is a constant that
`DeclaredAsRecorded` excepts. The instance has 3,097,858 distinct states (under 3 minutes).

Deadlock checking is on, but for `peer_process`: the only states without progress are those of ended
processes, which `Exit`, `Finished` and `Gone` mark. `peer_process` may stop between two runs,
since nobody need start another.

### What the properties say

Of one match:

* `Lockstep` - the wake-up is never cleared, so a wait can end without the opponent's
  reveal; yet no further round is begun, since the flag behind the wake-up ends the match.
  Checked for native matches, proved for cop_v1 too.
* `SealedTrail` - in cop_v1 the log is what the cop's audit will replay: consecutive rounds,
  consecutive step counts, each cell one move from the cell before, although barriers change
  between decision and move and abandoned threads go on moving. A native log is not replayed and
  has no cells, so nothing of the kind is said of it.
* `NoSealedRoundDropped` - the round lost to a failed send or a deadline is in the log.
* `VerdictJustified` - a verdict other than a technical loss has its evidence in the log
  and the state, and keeps it while late threads still run.
* `QuotaSlack` - the quota check and the record are not atomic: `n` server threads can
  exceed `max_barriers` by at most `n - 1`. The bound is reached, so the quota itself
  does not hold.
* `ShownIsFinal`, `ImplementsOutcome` - what is disclosed is final, and the four threads
  together behave as `MatchOutcome`.
* `LossStands` - audits do not overturn a technical loss.
* `EndedIsReported` - in cop_v1 no failed call costs a match that ended its report. Three things
  still can: an answer to our final reveal that is a dict with `passed` and no audit, since the `int()`
  and `list()` of `interop/cop_opponent.py:132-138` are outside its `try`; two groups of one name
  (`match_end.py:130`); and a file (`match_end.py:274`). In native mode a failed call can too: the
  two audit calls are not guarded, which `SubmitAudit` and `PullRecords` model.
* `Terminates` - `run` ends even if the opponent and the strategy never answer. Only
  weak fairness of the main thread is assumed: each wait of that thread has a deadline
  (`thread.join(timeout)`, the poll loop, the transport's timeout, the grace ceiling), so
  some step of it is always possible until the process ends. Nothing is assumed of
  other threads or of the opponent.

Of the cop_v1 handlers:

* `InStep` - the filter looks at the last commitment and one flag only; while her calls are handled
  one at a time, repeats and lost answers included, every number is her own round. It does not hold
  for a copy that arrives later: one of commitment 1 after reveal 1 was marked is taken for
  commitment 2.
* `AuditIsFaithful` - however copies raced on the unlocked counts, a passed audit means that each
  commitment up to the last verified step was to where its own move led her; no entry overwritten or
  left out makes up for a false one. Only `tidy` histories tie the moves she showed to it.
* `HonestCopPasses` - a cop who did nothing wrong must not forfeit. Both premises are needed:
  without `tidy` a late copy of a commitment, or two copies at once, shifts the trace and fails her,
  and without `whole` a cop who gives up between commitment and reveal leaves an entry the audit
  counts as failed.
* `ClaimTimely` - a claim is judged by the cell of the moment; the wait for her next reveal
  holds the thief back, so that the cell is that of the step she named or of the one after.
* `CaughtThiefStops` - the flag is raised before the answer is sent, so a cop who has the
  confirmation never meets a further round; the converse fails, her answer can be lost.

Of a series:

* `Abreast` - nothing synchronises the two series but the offers, and either peer may
  give up an exchange the other completes; yet a peer plays a sub-game only with one that
  has come to it too.
* `PoliceEndsAsThiefSaid` - late and left-over turns reach the police, since turns are
  told apart by their step alone; none of them makes it end a sub-game by
  capture or survival unless the thief ended it so, or raised while saying so.
* `TamperedOnlyAfterTimeout` - an honest peer can be filed as a tamperer: the audit covers
  all it sealed, and a turn that came too late was never seen. The property bounds the damage: it takes
  a timeout in that sub-game or an earlier one. It need not be the one before: one late turn
  can shift the peers against each other for the sub-games that follow, which shows from three
  sub-games on.
* `ConfirmedSettles` - confirmation is one peer's decision on what it received; it implies
  that the other finished the series too, with opposite roles, the same ends and no forfeit.
  That the other confirms as well does not follow: its wait may have ended. Two peers
  set to the same role never confirm.
* `DisputeHasCause` - the converse: peers with complementary roles, no late turn and no
  missed audit do not dispute.
* `Concludes` - weak fairness of each main thread, whose calls and waits are bounded by the
  transport's timeout and the poll deadlines, and of `Ceiling`, since the resend loops
  compare the clock with their ceiling before each call; nothing is assumed of the network.
  This is what the code's own bounds promise. `series_runner.py:177-192` reports a live run that
  broke them: the series "stuck for 8+ minutes with zero further log activity", past both the
  call's timeout and the consensus ceiling, "the process had to be killed by hand", for a
  cause "below McpTransport's own documented timeout guarantees" that was never found. `Concludes`
  and `CallsEnd` say nothing against that report: the one assumes that a call ends, the other that
  `future.result` keeps its timeout. `Freeze` in `PeerProcess` has such a hang.

Of the transport:

* `ImplementsRemoteCall` - the retry rule, the deadline and the cancelled coroutines together
  keep the promise that the rest of the program builds on: the opponent's `receive_commit` and
  `receive_reveal` run at most once per call, have run if the call returns, and never run if it says
  that the opponent could not be reached. A call that was refused or timed out may still run.
* `OneSession` - two calls that start or fail close together, one cancelled while it
  connects or closes, never leave two sessions open.
* `CallBounded` - what is left of the deadline: one back-off may follow it.
* `CallsEnd` - weak fairness of the calling threads and of the clock only. Each wait of
  `call` has a timeout or is a sleep, so it ends although the event loop, which `close` may
  have stopped, and the opponent never answer. The hang reported at `series_runner.py:177-192` (see
  `Concludes`) would be one of these waits outlasting its timeout.

Of the process:

* `NumbersInTurn` - the number is saved before the match, a warm-up looks at it and saves
  nothing, and a crash comes anywhere: the counted runs under a URL are given 1, 2, 3, ... in turn,
  and the numbers a handshake agreed on only rise. The opponent may see a hole: the number of a
  counted run that ended before its handshake did, or of a std_v1 run under the same URL.
* `LeagueIsHonest` - three writes in two files and a crash in between: the count in the league's file
  may exceed what is filed, by games that were played and not filed, and never the games played to
  their end and, for std_v1, settled. It is about the file, where it can be read, not about
  what was declared from it.
* `DeclaredAsRecorded` - what a std_v1 run declares and files was fixed before its series, from what
  it was begun as. When it is filed the number agrees with the league's file, but for a
  series begun as counted that did not settle, which has declared one game more. An override says
  whatever it is set to and is excepted.
* `CountedStay` - the merge finds the entry of the same number and replaces it; a warm-up is
  given the number a later counted run will get, never that of one before. That holds of an
  opponent with one URL, and of a file that can be read: see above for what a crash in the
  write and a second URL do.
* `RewardedOnce` - whether this is the first meeting is read from the league's file before the
  series, the count is written after it and the result after that: a crash in between may lose
  the reward, never repeat it. The flag follows what the series was begun as: one that comes out
  unsettled is filed with `league.counted` false and may still carry it, since `runtime.py:185`
  corrects the former alone. So the property is about entries that have both.
* `LecturerHearsOfCounted` - recipients are built at the start, from the intention to
  count, and for std_v1 again at the end, from what came of it.
* `AtMostTwoCopies` - a send that was delivered and raised is repeated once, not more.
* `SparesTheHealthy` - the limit that is enough is a handshake and a round, not the round that
  the beats suggest. The program does not compare the two: `config/thief/game.json`
  gives each call and the wait for a reveal 90 s and the watchdog 120 s, so a round of slow
  answers, none of them late, can be shot.
* `RunEnds` - weak fairness of the main thread while it is not frozen, of time, and of the
  watchdog's polling thread, which `heartbeat_monitor.py` starts as a daemon and nothing joins.
  A frozen run is ended by the watchdog alone, and only where that looks: from `heartbeat.start` to
  `heartbeat.stop`, around the handshake and the rounds of a native or cop_v1 run. Hung anywhere
  else, in the report or in any part of a std_v1 run, the process stays until someone kills it;
  the property names this exception, as `watchdog.py:1-5` ("whole-system") does not and the report at
  `series_runner.py:177-192` does.

### The counterexamples

Five disagreements between documentation and code, quoted in
`PROJECT.json` under `findings`:

* `peer_capture_last_round`: the round check looks at the threshold before the capture flags.
* `peer_reveal_first`: `wait_for_commit` is never called.
* `std_leftover`: `reset_turns` runs at the head of the loop, so a turn of the last
  sub-game that is delivered after it is taken for one of the new. Moved after the
  negotiation it could erase a new turn that came early instead: only a sub-game
  number in the turn message would tell the two apart.
* `std_lost`: a `DeadlineExceededError` or `TransportError` of an offer or a turn leaves
  `run` and takes the rows of the sub-games already played with it.

* `transport_deadline`: `call` sleeps `remaining` seconds at most, but those that remained
  before the attempt.

## The proofs

The theorems on `PeerMatch` hold for every board size, protocol, threshold, move cap, quota
and finite non-empty set of server threads (the assumptions `SizeAssumption` and
`MatchAssumption`), those on `StdSeries` for every positive number of sub-games, every
number of steps from two, every pair of roles the operators may set and every set of
relayed peers (`SeriesAssumption`), those on `McpTransport` for every set of threads, number of
calls, timeout, back-off and positive number of attempts (`TransportAssumption`), those on
`CopAdapter` for every board, set of threads, choice of moves and claims, way of cheating and number of
rounds and retries (`SizeAssumption`, `CopStartAssumption`, `CopAdapterAssumption`), those on
`PeerProcess` for every set of opponents, mail configuration, time limits, watchdog limits, number of
rounds and of runs (`PeerProcessAssumption`). TLC evaluates these assumptions in every run.

| module | theorem | statement |
|---|---|---|
| `PeerMatch_proofs` | `TypeCorrectness` | `Spec => []TypeOK` |
| | `RoundsInLockstep` | `Spec => []Lockstep` |
| | `SealedRoundsKept` | `Spec => []NoSealedRoundDropped` |
| | `ShownRecordsFinal` | `Spec => ShownIsFinal` |
| `PeerEvidence_proofs` | `VerdictsJustified` | `Spec => []VerdictJustified` |
| | `LossesStand` | `Spec => []LossStands` |
| | `CopMatchesReported` | `Spec => []EndedIsReported`, if the protocol is cop_v1 |
| | `TrailSealed` | `Spec => []SealedTrail`, if the protocol is cop_v1 |
| | `QuotaOvershootBounded` | `Spec => []QuotaSlack` |
| | `PeerImplementsOutcome` | `Spec => ImplementsOutcome` |
| | `RunsDown` | each step of the main thread takes it nearer to its end, by a measure no other step raises |
| `McpTransport_proofs` | `TypeCorrectness` | `Spec => []TypeOK` |
| | `CallsBounded` | `Spec => []CallBounded` |
| | `SessionsSingle` | `Spec => []OneSession` |
| | `TransportImplementsRemoteCall` | `Spec => ImplementsRemoteCall` |
| | `CallsRunDown` | the same of a call, for each step of its thread and each tick |
| `StdSeries_proofs` | `TypeCorrectness` | `Spec => []TypeOK` |
| | `PeersAbreast` | `Spec => []Abreast` |
| | `ConfirmedSeriesSettled` | `Spec => []ConfirmedSettles` |
| | `SeriesRunsDown` | the same of a peer's series, for each step of its main thread but another round of a resend loop |
| `StdOrder_proofs` | `PoliceFilesWhatWasSaid` | `Spec => []PoliceEndsAsThiefSaid` |
| | `TamperingIsLateness` | `Spec => []TamperedOnlyAfterTimeout` |
| | `DisputesAreCaused` | `Spec => []DisputeHasCause` |
| `CopAdapter_proofs` | `TypeCorrectness` | `Spec => []TypeOK` |
| | `NumbersAreRounds` | `Spec => []InStep` |
| | `ClaimsJudgedInTime` | `Spec => []ClaimTimely` |
| | `ToldMeansOver` | `Spec => CaughtThiefStops` |
| `CopAudit_proofs` | `PassedAuditVouches` | `Spec => []AuditIsFaithful` |
| | `HonestCopNotFailed` | `Spec => []HonestCopPasses` |
| `PeerProcess_proofs` | `TypeCorrectness` | `Spec => []TypeOK` |
| | `WatchdogSparesTheHealthy` | `Spec => []SparesTheHealthy` |
| | `NumbersGoInTurn` | `Spec => []NumbersInTurn` |
| | `LeagueCountIsHonest` | `Spec => []LeagueIsHonest` |
| | `CountedGamesStay` | `Spec => []CountedStay` |
| | `RewardGoesOnce` | `Spec => []RewardedOnce` |
| | `LecturerHearsOnlyOfCounted` | `Spec => []LecturerHearsOfCounted` |
| | `ReportAtMostTwice` | `Spec => []AtMostTwoCopies` |
| | `RunsRunDown` | the same of a run of the process, for each step of anyone; the watchdog runs wherever it looks, and a run that hangs elsewhere takes no step but to be killed |

None of these is inductive. `TypeOK` needs to know that a step count below the cap is
left when the strategy thread moves, also when that thread was abandoned, and that the
move it applies was legal under some set of barriers; `Lockstep` needs to know that a
raised wake-up means a raised flag, through the handler that is about to raise it. The
invariant `IInv` says for each place of the main thread what the FSM (`FsmInv`), the log
and the sealed record (`LogInv`), the strategy thread and the step count (`ThinkerInv`),
the verdict (`VerdictInv`) and the opponent's reveals (`RevealInv`) are. The proof that a
step preserves it has one step per action and, below, one per conjunct the action can
disturb; the facts about the board (`LegalMoveStays`) and the verdict (`ResultType`)
are lemmas. `IInv` was checked with TLC on both instances before it was proved.

The other theorems add to `IInv` what they need and no more: `VerdictFinalInv`, that no strategy
thread is left once a verdict was reached by playing, so that the position and the step count behind
the verdict stay (a thief who is stuck stays stuck as barriers are added, `StuckForGood`);
`ReportInv`, that the report was made from the verdict and the audits as they still are, and that a
cop_v1 match never comes to the unguarded calls; `TrailInv`, where the thief stands between
decision, move, seal and log; `QuotaInv`, that the cells recorded *or about to be* number at most
the quota and the server threads less one, since each thread has at most one pending
(`PendingBound`); `OverInv`, that the match is over from the end of the loop on, for the refinement.

For the series `IInv` of `StdSeries_proofs` ties the number of sub-games played and filed
to the phase (`FiledInv`), leaves a turn to any peer that will seal one (`TurnsInv`: the
thief's turn `max_steps` ends its sub-game, and the police answers a turn that was
sealed), says that no offer anywhere is for a sub-game its sender has not reached
(`OffersInv`, which carries `Abreast`), and that a digest anywhere is its sender's rows
(`DigestInv`). The last needs the rows to be final once the last one is filed
(`RowsFinal`); then equal digests and a clean audit give equal ends and opposite roles
(`SameRowsSettle`).

`StdOrder_proofs` first reduces every step to what it does to play, offers and digests left
out (`StepKinds`). Whatever is late, `SaidInv` holds: a turn in flight or in a mailbox is one
its sender sealed, in the sub-game of its receiver or the one before; in that one the roles were
swapped, so a claim to have ended it, left over, cannot end the police's sub-game.
`PoliceFilesWhatWasSaid` needs no more. The other two rest on `OrderInv`: as long as no
turn was late the peers alternate, a turn finds its receiver in the same sub-game, waiting for
it, an ending is filed by the thief first and then by the police, and an envelope covers no
more turns than its receiver has read. So no audit of a sub-game in time finds
tampering (`CleanInTime`). `HeardInv` adds that the claim a peer heard is the one the other
filed; two peers in time with both audits then file the same rows (`AgreedInTime`) and have
nothing to dispute. Before they were proved these invariants were checked with TLC, on
two sub-games with two steps each and, under a restricted next-state relation, on three
sub-games.

For the transport `IInv` says how far in its time a call is (`TimeInv`: a thread waits
within the timeout and sleeps to an end that was set with the `remaining` of that attempt), that
who connects or closes holds the lock (`LockInv`), that until the close begins a session
that is open is flagged as connected (`SessionInv`), and, stage by stage, whether the
request in hand can have been transmitted (`WireInv`, with `OutcomeInv` for how a call stands): only
an attempt that cannot have been leaves a safe error behind. These parts are
independent but for the types, and each has a step lemma of its own.

For the adapter `IInv` says where the cop's program stands (`HerInv`), that whatever is on
the wire or at work is a call she made (`CallInv`), and that the trace counts along with the
adapter (`TraceInv`). `TallyInv` is the heart: while calls are handled one at a time, the two
counts and the marks of the duplicate filter are in one of three states for her round -
before its commit, between commit and reveal, after both - and the phase she is in, with
the statement the one busy thread is at, tells which. A repeat of a call she still waits on finds
the marks of its first copy; a call she gave up is the last of its kind. `NumberInv`
draws the conclusion for the mailbox and the trace, and adds that the thief plays no round
before she showed the one before, which is what bounds a claim. `ToldInv` carries the
confirmation back to the flag.

The audit of a cop needs induction over data: the replay is a recursive function of the step.
The induction theorems of the library take a predicate, which the provers cannot
instantiate, so `CopAudit_proofs` states induction about a set instead (`SetInduction`): a set
of naturals with zero and every successor holds them all, since what it lacks would have
a least element (`LeastElement`, from `WFMin` and the well-foundedness of `<`). From it
follow that a function as the replay defines exists for every number of entries, hence
`ReplayUnfolds`, and that the replay of an honest trace stands where she sealed
(`ReplayFollows`).

`AuditInv` says what an audit finds. Whatever became of her calls, a commitment holds the round it
is of (`SealedInv`), the nonces are those of her first rounds, without a gap, and each commitment in
the entries is one of hers, under whatever step (`EntriesInv`), the nonces of a final reveal are
kept until its audit (`NonceInv`) and a claim is about a round she has sealed (`ClaimsInv`). So if
the audit passes, entry `s`, which hashes to a commitment for step `s`, holds her commitment of
round `s`, and the replay her standing there. That every thread could be at any statement does not
matter: an entry swapped or doubled fails the comparison, and so does one left out, since the nonces
of the final reveal make it an entry without a commitment. While the calls come in order there is
more: a claim repeated is the same claim (`OneClaimInv`), so that the last claim of a step, the only
one looked at, speaks for the others; when she ends the match after an answer to every call, all her
rounds are counted and nothing but the final reveal is at work (`FinalInv`); and what an audit has
seen is not added to (`AuditedInv`). For a cop who does not lie `HonestInv` follows each claim from
her hand to the trace. `FinalInv` with the counts gives an entry for each of her rounds, complete
(`WholeTrace`); `NumberInv` says they are what she sent, and `SealedInv` that this is what the
replay compares with. All parts were checked with TLC on the constants of `cop_adapter` before they
were proved.

For the process `TypeOK` is in four parts, the run, the files, the text under way and the history
(`RunOK`, `FilesOK`, `TextOK`, `HistoryOK`), as the text has the type of the file it is for. Each
theorem has an invariant of its own over the types. `WatchInv` bounds the age of
the last beat by the time spent since it, handshake included while no round is done. `NumberInv`
ties the numbers given to the file or the text, with the number of the run in hand beyond all that were
agreed on until its handshake ends. `GameInv` says that the games concluded are runs so far, the
games filed among those concluded, and, of an opponent with one URL, that the run's own number is
beyond those filed before; it is what makes each game new to the sets, so that `LeagueInv` can
count them: the league's count is the games concluded and recorded, give or take the one that is
`Owed`. `PathInv` keeps what a std_v1 run read equal to the file until its series ends, and
`RewardInv` rests on both: a count of zero means that nothing is filed (`NothingFiledBeforeFirst`),
and nothing is until the run that read it files its own series.
`ResultInv` and `CopiesInv` say what the file, the text and the mail hold at each place of the report.

Four theorems are the part of liveness that is safety. Each gives a measure, a natural number with a
bound the constants fix, that is zero only at the end, that the steps of the actor lower and that
nothing raises. `StepsLeft` of `PeerEvidence_proofs` counts seven steps for each round still to come
and those left in this one. `CallLeft` counts four steps for each attempt that may still be made and
the time till the end of the last back-off there can be; the event loop, the network and the other
threads leave it alone. `RunLeft` has the rounds and the time left in each (`OneRoundLess`), and
holds the watchdog's limit in reserve for a process that freezes; frozen it waits for the watchdog
or for a kill, and `HangInv` says that the watchdog is on wherever it looks. `SeriesLeft` has the
sub-games, three steps for each turn that may still be sealed, and what follows the last. There the
measure shows where the danger is: a resend loop can go round without lowering it, which is why
`FairSpec` asks for the ceiling of each loop, and the ceiling lowers it. TLC checked the measures on
the constants of the runs before they were proved.

Only model-checked: `DeclaredAsRecorded`, since a sum over the opponents is defined by recursion
over a set, whose induction is beyond the provers; and `Terminates`, `Concludes`, `CallsEnd` and
`RunEnds` themselves. What these four add to the measures is that a step of the actor stays enabled
until the end and that fairness takes it; neither ENABLED nor fairness is within the provers' reach.
Every other property of a passing run is a theorem; the types of `McpTransport` are a theorem only.
No theorem is about a counterexample.

## The plan

Done, in order of weight: `PeerMatch` with its proofs and its refinement of `MatchOutcome`;
`McpTransport` with its proofs and its refinement of `RemoteCall`; `StdExchange` and `StdSeries`
with the proofs of all its invariants; `CopTrace` and `CopAdapter` with the proofs of all
their properties, what the replay computes included; `PeerProcess`, which
has the counters, the artifacts, the heartbeat and the mail in one, with its proofs.

Left, in order of weight:

1. `NativePair`: two native peers' ends of match against each other.
2. Scoring and series totals as operators against a reference definition.

## Not modelled

The GUI (read-only views), mail and LLM providers (external services), command line,
configuration and system information (start-up values, which are the constants here),
formatting, hashing and canonical JSON (a sealed record is opaque), beliefs and scent
(floating-point input to a choice the model leaves open). Two processes on one results
directory, which nothing in the program excludes or provides for. The gatekeeper's volume
limit, token bucket and queue: the report is its only call, one per run, which none of them
can refuse. The comparison of terms and hashes in a handshake, a pure function of two static
files. A foreign std_v1 kit. Each component not or only partly modelled is listed in
`PROJECT.json` with the reason.

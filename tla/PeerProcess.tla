----------------------------- MODULE PeerProcess -----------------------------
(***************************************************************************)
(* The life of one peer's process, run after run: the files it reads at    *)
(* the start and writes at the end, the watchdog that may shoot it in      *)
(* between, and the report it mails.  The match itself (PeerMatch,         *)
(* StdSeries) is reduced to how long it may take and how it ends.  A       *)
(* native or cop_v1 opponent is played one sub-game per run, a std_v1      *)
(* opponent a whole series per run.                                        *)
(*                                                                         *)
(* The number of a sub-game is kept by the opponent's URL, the count of    *)
(* games and the result file by the opponent.  write_text truncates the    *)
(* file and then writes it: a process that ends in between leaves an empty *)
(* file, which the next json.loads raises on.  A run may be killed, raise  *)
(* or hang anywhere.  Time passes in whole units; what lies between two    *)
(* deadlines takes none.                                                   *)
(***************************************************************************)
EXTENDS Integers, Sequences, FiniteSets, Functions

CONSTANTS
  Opponents,
  StdOpponents,      \* those with network.opponent_protocol = "std_v1"
  Urls,
  UrlsOf,            \* per opponent: the values network.opponent_url takes
  Addresses,         \* mail addresses
  Lecturer,          \* the league's reporting address
  Recipient,         \* per opponent: the addresses of email.recipient
  OpponentRecipient, \* per opponent: those of email.opponent_recipient, {} if unset
  CcOpponent,        \* per opponent: email.cc_opponent_on_counted_report
  TrustDocumented,   \* per opponent: std_v1.trust_documented_consensus
  DeclaredOverride,  \* per opponent: std_v1.declared_games_played_override, {} if unset
  HandshakeLimit,    \* the time limits of the calls of a handshake, summed
  RoundLimit,        \* the time limits of one round, summed
  WatchdogLimits,    \* the values of watchdog_timeout_sec looked at
  MaxMoves,          \* game_rules.max_moves
  MaxRuns            \* bound: runs of the process

ASSUME PeerProcessAssumption ==
  /\ StdOpponents \subseteq Opponents
  /\ Lecturer \in Addresses
  /\ Recipient \in [Opponents -> (SUBSET Addresses) \ {{}}]
  /\ OpponentRecipient \in [Opponents -> SUBSET Addresses]
  /\ TrustDocumented \in [Opponents -> BOOLEAN]
  /\ CcOpponent \in [Opponents -> BOOLEAN]
  /\ UrlsOf \in [Opponents -> (SUBSET Urls) \ {{}}]
  /\ DeclaredOverride \in [Opponents -> SUBSET Nat]
  /\ HandshakeLimit \in Nat /\ RoundLimit \in Nat /\ MaxMoves \in Nat /\ MaxRuns \in Nat
  /\ WatchdogLimits \subseteq Nat

VARIABLES
  run,      \* the main thread: [at, opponent, url, counted, counts, reward, number, frozen, end]
  round,    \* rounds completed in this run
  spent,    \* time the handshake or the round under way has taken
  watch,    \* HeartbeatMonitor: [on, limit, age], age since the last beat
  seen,     \* the league's counts, as a std_v1 run read them before its series
  mail,     \* the report under way: [attempt, copies], copies that were delivered
  numbers,  \* sub_game_counter.json: URL -> number
  league,   \* league_counter.json: opponent -> games
  results,  \* result_<game_id>.json, per opponent: the sub-games it holds
  text,     \* what write_text is about to fill its file with, Torn when it is not
  runs,     \* runs so far; the number of the run under way
  given,    \* history: the numbers saved for counted runs, per URL
  agreed,   \* history: those of them a handshake then agreed on, per URL
  concluded,\* history: the runs whose game came to count, per opponent
  filed,    \* history: the runs filed as counted, and their numbers, per opponent
  mails     \* history: the reports delivered

clock == <<round, spent, watch>>
files == <<numbers, league, results, text>>
history == <<given, agreed, concluded, filed, mails>>
vars == <<run, clock, seen, mail, files, runs, history>>

\* A text file: what it holds, or nothing that can be read.
File(data) == [ok |-> TRUE, data |-> data]
Torn == [ok |-> FALSE]

IsStd(o) == o \in StdOpponents
Goto(place) == run' = [run EXCEPT !.at = place]
Leave(end) == run' = [run EXCEPT !.at = "off", !.end = end]

\* HeartbeatMonitor.beat, watchdog_check's comparison, and what it does then:
\* os._exit, with no report.
Beat == watch' = [watch EXCEPT !.age = 0]
Stale == watch.age > watch.limit
ControlledShutdown == Leave("shot") /\ watch' = [watch EXCEPT !.on = FALSE]

\* A result file that is missing, or of another schema_version, counts for
\* one that holds no sub-game.
Init ==
  /\ \E o \in Opponents : \E url \in UrlsOf[o] :
       run = [at |-> "off", opponent |-> o, url |-> url, counted |-> FALSE, counts |-> FALSE,
              reward |-> FALSE, number |-> 0, frozen |-> FALSE, end |-> "none"]
  /\ round = 0 /\ spent = 0
  /\ \E limit \in WatchdogLimits : watch = [on |-> FALSE, limit |-> limit, age |-> 0]
  /\ seen = [o \in Opponents |-> 0]
  /\ mail = [attempt |-> 1, copies |-> 0]
  /\ numbers = File([url \in Urls |-> 0])
  /\ league = File([o \in Opponents |-> 0])
  /\ results = [o \in Opponents |-> File({})]
  /\ text = Torn
  /\ runs = 0
  /\ given = [url \in Urls |-> <<>>] /\ agreed = [url \in Urls |-> <<>>]
  /\ concluded = [o \in Opponents |-> {}] /\ filed = [o \in Opponents |-> {}]
  /\ mails = {}

-----------------------------------------------------------------------------
(* The start of a run.                                                     *)

\* next_sub_game_number: a counted run saves the number, a warm-up only looks.
SavesAlways(counted) == TRUE
Saves(counted) == counted

\* _build_runtime asks for the sub-game's number; a torn file raises and
\* nothing has happened.  The heartbeat's age counts from its construction.
Start ==
  /\ run.at = "off" /\ runs < MaxRuns /\ numbers.ok
  /\ \E o \in Opponents, counted \in BOOLEAN : \E url \in UrlsOf[o] :
       /\ run' = [at |-> IF Saves(counted) THEN "save_number" ELSE "boot", opponent |-> o,
                  url |-> url, counted |-> counted, counts |-> FALSE, reward |-> FALSE,
                  number |-> numbers.data[url] + 1, frozen |-> FALSE, end |-> "none"]
       /\ IF Saves(counted)
          THEN numbers' = Torn /\ text' = File([numbers.data EXCEPT ![url] = @ + 1])
          ELSE UNCHANGED <<numbers, text>>
  /\ runs' = runs + 1
  /\ round' = 0 /\ spent' = 0
  /\ watch' = [watch EXCEPT !.on = FALSE, !.age = 0]
  /\ seen' = [o \in Opponents |-> 0]
  /\ mail' = [attempt |-> 1, copies |-> 0]
  /\ UNCHANGED <<league, results, history>>

SaveNumber ==
  /\ run.at = "save_number"
  /\ numbers' = text /\ text' = Torn
  /\ given' = [given EXCEPT ![run.url] = IF run.counted THEN Append(@, run.number) ELSE @]
  /\ Goto("boot")
  /\ UNCHANGED <<clock, seen, mail, league, results, runs, agreed, concluded, filed, mails>>

\* A std_v1 run never starts the heartbeat.
BootUnwatched ==
  /\ run.at = "boot"
  /\ Goto(IF IsStd(run.opponent) THEN "series" ELSE "handshake")
  /\ UNCHANGED <<clock, seen, mail, files, runs, history>>
Boot ==
  /\ run.at = "boot"
  /\ IF IsStd(run.opponent)
     THEN Goto("series") /\ watch' = watch
     ELSE Goto("handshake") /\ watch' = [watch EXCEPT !.on = TRUE]
  /\ UNCHANGED <<round, spent, seen, mail, files, runs, history>>

-----------------------------------------------------------------------------
(* The game.                                                               *)

\* The game is over; it is to be reported as one that counts or as one that
\* does not, with the league's diversity reward or without.
Conclude(counts, reward) ==
  /\ run' = [run EXCEPT !.at = "record", !.counts = counts, !.reward = reward]
  /\ concluded' = [concluded EXCEPT ![run.opponent] = IF counts THEN @ \cup {runs} ELSE @]

\* A sub-game against a native or cop_v1 opponent.

\* Both sides have the sub-game's number now.  No beat: the first round's time
\* adds to the handshake's.
HandshakeDone ==
  /\ run.at = "handshake"
  /\ Goto("rounds") /\ spent' = 0
  /\ agreed' = [agreed EXCEPT ![run.url] = IF run.counted THEN Append(@, run.number) ELSE @]
  /\ UNCHANGED <<round, watch, seen, mail, files, runs, given, concluded, filed, mails>>

RoundDoneNoBeat ==
  /\ run.at = "rounds" /\ round < MaxMoves
  /\ round' = round + 1 /\ spent' = 0
  /\ UNCHANGED <<run, watch, seen, mail, files, runs, history>>
RoundDoneOnceMore ==
  /\ run.at = "rounds" /\ round <= MaxMoves
  /\ round' = round + 1 /\ spent' = 0
  /\ Beat
  /\ UNCHANGED <<run, seen, mail, files, runs, history>>
RoundDone ==
  /\ run.at = "rounds" /\ round < MaxMoves
  /\ round' = round + 1 /\ spent' = 0
  /\ Beat
  /\ UNCHANGED <<run, seen, mail, files, runs, history>>

\* A check after a round or before the next, or a round that raised.
EndRounds ==
  /\ run.at = "rounds"
  /\ Conclude(run.counted, FALSE)
  /\ watch' = [watch EXCEPT !.on = FALSE]
  /\ UNCHANGED <<round, spent, seen, mail, files, runs, given, agreed, filed, mails>>

\* A series against a std_v1 opponent.

\* The league file is read before the series: the number of games it declares
\* and whether it is a first meeting are fixed from here on.
ReadCounts ==
  /\ run.at = "series" /\ league.ok
  /\ seen' = league.data
  /\ Goto("play")
  /\ UNCHANGED <<clock, mail, files, runs, history>>

\* total_games_played, over all opponents.
Total(games) == FoldFunction(+, 0, games)

\* The number of games a std_v1 run declares on the wire and files: what the
\* configuration says or what the league file said, and one more if the run
\* was begun as counted.
Played(o, games) ==
  IF DeclaredOverride[o] = {} THEN Total(games) ELSE CHOOSE n \in DeclaredOverride[o] : TRUE
DeclaredFromFile(o) == Played(o, league.data) + IF run.counted THEN 1 ELSE 0
DeclaredGames(o) == Played(o, seen) + IF run.counted THEN 1 ELSE 0

\* It counts only if both sides confirmed it on the wire or, where the
\* configuration trusts a written agreement, if their claims of the result
\* agree (results_agreed compares the two claims of each sub-game, not the
\* audits).
EffectivelyConfirmed(o, outcome) ==
  outcome = "confirmed" \/ (TrustDocumented[o] /\ outcome = "agreed")

\* first_meeting_between_groups.
MetAtMostOnce(o) == seen[o] <= 1
FirstMeeting(o) == seen[o] = 0

\* final_result rewards the winner of a first meeting that was to count; a tie
\* has none.
Rewards(o) == IF run.counted /\ FirstMeeting(o) THEN BOOLEAN ELSE {FALSE}

SeriesEnds ==
  /\ run.at = "play"
  /\ \E outcome \in {"confirmed", "agreed", "unsettled"}, reward \in Rewards(run.opponent) :
       Conclude(run.counted /\ EffectivelyConfirmed(run.opponent, outcome), reward)
  /\ UNCHANGED <<clock, seen, mail, files, runs, given, agreed, filed, mails>>

-----------------------------------------------------------------------------
(* The report: the league's counter, the result file, the mail.            *)

RecordAttempted ==
  /\ run.at = "record" /\ league.ok
  /\ IF run.counted
     THEN /\ league' = Torn /\ text' = File([league.data EXCEPT ![run.opponent] = @ + 1])
          /\ Goto("save_game")
     ELSE Goto("file") /\ UNCHANGED <<league, text>>
  /\ UNCHANGED <<clock, seen, mail, numbers, results, runs, history>>
RecordGame ==
  /\ run.at = "record" /\ league.ok
  /\ IF run.counts
     THEN /\ league' = Torn /\ text' = File([league.data EXCEPT ![run.opponent] = @ + 1])
          /\ Goto("save_game")
     ELSE Goto("file") /\ UNCHANGED <<league, text>>
  /\ UNCHANGED <<clock, seen, mail, numbers, results, runs, history>>

SaveGame ==
  /\ run.at = "save_game"
  /\ league' = text /\ text' = Torn
  /\ Goto("file")
  /\ UNCHANGED <<clock, seen, mail, numbers, results, runs, history>>

\* merge_sub_game_into_series replaces the entry of the same number and keeps
\* the others; write_std_v1_result writes the series over what was there.
Entry(number, counted, rewarded) ==
  [number |-> number, counted |-> counted, rewarded |-> rewarded]
MergedAfresh(o) == {Entry(run.number, run.counts, run.reward)}
Merged(o) ==
  (IF IsStd(o) THEN {} ELSE {entry \in results[o].data : entry.number # run.number})
    \cup {Entry(run.number, run.counts, run.reward)}

FileResult ==
  /\ run.at = "file"
  /\ IsStd(run.opponent) \/ results[run.opponent].ok
  /\ results' = [results EXCEPT ![run.opponent] = Torn]
  /\ text' = File(Merged(run.opponent))
  /\ Goto("save_result")
  /\ UNCHANGED <<clock, seen, mail, numbers, league, runs, history>>

SaveResult ==
  /\ run.at = "save_result"
  /\ results' = [results EXCEPT ![run.opponent] = text] /\ text' = Torn
  /\ filed' = [filed EXCEPT ![run.opponent] =
                 IF run.counts THEN @ \cup {[run |-> runs, number |-> run.number]} ELSE @]
  /\ Goto("mail")
  /\ UNCHANGED <<clock, seen, mail, numbers, league, runs, given, agreed, concluded, mails>>

BuildRecipients(recipient, opponent, counted) ==
  IF opponent = {} THEN recipient
  ELSE opponent \cup (IF counted THEN recipient ELSE {})

\* The recipients of the run, as the SDK built them from what was attempted.
RunRecipients(o) == BuildRecipients(Recipient[o], OpponentRecipient[o], run.counted)

\* A std_v1 report goes by what came of the series.
MailedAsAttempted(o) ==
  IF IsStd(o) THEN BuildRecipients({Lecturer}, RunRecipients(o), run.counted) ELSE RunRecipients(o)
MailedTo(o) ==
  IF IsStd(o)
  THEN BuildRecipients({Lecturer}, IF run.counts /\ ~CcOpponent[o] THEN {} ELSE RunRecipients(o),
                       run.counts)
  ELSE RunRecipients(o)

\* The second attempt is the last: no sender raises RateLimitedError.
MayRetryTwice(attempt) == attempt < 3
MayRetry(attempt) == attempt < 2

\* The mail is the only call that passes the gatekeeper, so its volume limit
\* and its token bucket let it through.  A send may be delivered and raise all
\* the same; the last error is caught.
SendReport ==
  /\ run.at = "mail"
  /\ \E delivered, answered \in BOOLEAN :
       /\ answered => delivered
       /\ IF ~answered /\ MayRetry(mail.attempt)
          THEN run' = run /\ mail' = [attempt |-> mail.attempt + 1,
                                      copies |-> mail.copies + IF delivered THEN 1 ELSE 0]
          ELSE Goto("grace") /\ mail' = [mail EXCEPT !.copies = @ + IF delivered THEN 1 ELSE 0]
       /\ mails' = IF delivered
                   THEN mails \cup {[opponent |-> run.opponent, run |-> runs,
                                     to |-> MailedTo(run.opponent)]}
                   ELSE mails
  /\ UNCHANGED <<clock, seen, files, runs, given, agreed, concluded, filed>>

Finish ==
  /\ run.at = "grace"
  /\ Leave("done")
  /\ UNCHANGED <<clock, seen, mail, files, runs, history>>

-----------------------------------------------------------------------------
(* What ends a run early, and what keeps it from ending.                   *)

\* json.loads on a torn file.
RaisesOnRead ==
  /\ \/ run.at \in {"series", "record"} /\ ~league.ok
     \/ run.at = "file" /\ ~IsStd(run.opponent) /\ ~results[run.opponent].ok
  /\ Leave("raised")
  /\ UNCHANGED <<clock, seen, mail, files, runs, history>>

\* Killed, perhaps while it hung, or an exception nothing catches.  A file
\* under way stays empty.
Dies ==
  /\ run.at # "off"
  /\ Leave("died")
  /\ watch' = [watch EXCEPT !.on = FALSE]
  /\ text' = Torn
  /\ UNCHANGED <<round, spent, seen, mail, numbers, league, results, runs, history>>

\* The main thread hangs, in whatever it is doing; nothing it waits on ends it.
Freeze ==
  /\ run.at # "off" /\ ~run.frozen
  /\ run' = [run EXCEPT !.frozen = TRUE]
  /\ UNCHANGED <<clock, seen, mail, files, runs, history>>

\* The places the watchdog watches: from heartbeat.start to heartbeat.stop.
Watched == {"handshake", "rounds"}

TimeLeft ==
  \/ run.at = "handshake" /\ spent < HandshakeLimit
  \/ run.at = "rounds" /\ round < MaxMoves /\ spent < RoundLimit

\* Time matters where the watchdog counts it; in a frozen process it runs on,
\* only as far as the watchdog's limit.
Tick ==
  /\ run.at \in Watched
  /\ IF run.frozen THEN watch.age <= watch.limit /\ spent' = spent
     ELSE TimeLeft /\ spent' = spent + 1
  /\ watch' = [watch EXCEPT !.age = @ + 1]
  /\ UNCHANGED <<run, round, seen, mail, files, runs, history>>

WatchdogFires ==
  /\ watch.on /\ Stale
  /\ ControlledShutdown
  /\ UNCHANGED <<round, spent, seen, mail, files, runs, history>>

-----------------------------------------------------------------------------

MainThread ==
  /\ ~run.frozen
  /\ \/ SaveNumber \/ Boot
     \/ HandshakeDone \/ RoundDone \/ EndRounds
     \/ ReadCounts \/ SeriesEnds
     \/ RecordGame \/ SaveGame \/ FileResult \/ SaveResult \/ SendReport \/ Finish
     \/ RaisesOnRead

Next == Start \/ MainThread \/ Dies \/ Freeze \/ Tick \/ WatchdogFires

\* The main thread goes on while it is not frozen, time passes, and the
\* watchdog's thread polls; nobody need start another run, nor kill one.
Spec ==
  /\ Init /\ [][Next]_vars
  /\ WF_vars(MainThread) /\ WF_vars(Tick) /\ WF_vars(WatchdogFires)

-----------------------------------------------------------------------------
(* The properties.                                                         *)

Reporting == {"file", "save_result", "mail", "grace"}
Places == {"off", "save_number", "boot", "handshake", "rounds", "series", "play", "record",
           "save_game"} \cup Reporting
RunStates ==
  [at : Places, opponent : Opponents, url : Urls, counted : BOOLEAN, counts : BOOLEAN,
   reward : BOOLEAN, number : Nat, frozen : BOOLEAN,
   end : {"none", "done", "raised", "died", "shot"}]
Watches == [on : BOOLEAN, limit : WatchdogLimits, age : Nat]
Entries == [number : Nat, counted : BOOLEAN, rewarded : BOOLEAN]
Texts(S) == [ok : {TRUE}, data : S]
TextFile(S) == Texts(S) \cup {Torn}

RunOK ==
  /\ run \in RunStates
  /\ round \in 0 .. MaxMoves /\ spent \in Nat
  /\ watch \in Watches
  /\ seen \in [Opponents -> Nat]
  /\ mail \in [attempt : Nat, copies : Nat]
FilesOK ==
  /\ numbers \in TextFile([Urls -> Nat])
  /\ league \in TextFile([Opponents -> Nat])
  /\ results \in [Opponents -> TextFile(SUBSET Entries)]
TextOK ==
  /\ run.at = "save_number" => text \in Texts([Urls -> Nat])
  /\ run.at = "save_game" => text \in Texts([Opponents -> Nat])
  /\ run.at = "save_result" => text \in Texts(SUBSET Entries)
  /\ run.at \notin {"save_number", "save_game", "save_result"} => text = Torn
HistoryOK ==
  /\ runs \in 0 .. MaxRuns
  /\ given \in [Urls -> Seq(Nat)] /\ agreed \in [Urls -> Seq(Nat)]
  /\ concluded \in [Opponents -> SUBSET Nat]
  /\ filed \in [Opponents -> SUBSET [run : Nat, number : Nat]]
  /\ mails \subseteq [opponent : Opponents, run : Nat, to : SUBSET Addresses]

\* Every variable has its type, and the text under way is one for the file it
\* is meant for.
TypeOK == RunOK /\ FilesOK /\ TextOK /\ HistoryOK

\* Whatever crashed and whatever was a warm-up, the counted runs under a URL
\* were given the numbers 1, 2, 3, ... in turn, and no number was agreed on
\* twice or after a later one.  An opponent who misses a number misses one
\* that was given to a counted run which ended before its handshake did (or to
\* a std_v1 series under the same URL).
NumbersInTurn ==
  \A url \in Urls :
    /\ \A i \in DOMAIN given[url] : given[url][i] = i
    /\ \A i, j \in DOMAIN agreed[url] : i < j => agreed[url][i] < agreed[url][j]
    /\ \A i \in DOMAIN agreed[url] : agreed[url][i] \in DOMAIN given[url]

\* The league file holds, per opponent, no less than the games filed as counted
\* and no more than the counted games that were played to their end and, for
\* std_v1, settled: a crash, a warm-up or an unconfirmed series spends nothing.
LeagueIsHonest ==
  \A o \in Opponents :
    league.ok => Cardinality(filed[o]) <= league.data[o] /\ league.data[o] <= Cardinality(concluded[o])

\* Where the configuration does not override it, the number of games a std_v1
\* report declares, fixed before the series, is what the league file says when
\* it is filed; except that a series begun as counted that did not settle has
\* declared one game more than were recorded, never more than one, and a
\* warm-up none.
DeclaredAsRecorded ==
  IsStd(run.opponent) /\ run.at \in Reporting /\ DeclaredOverride[run.opponent] = {} =>
    DeclaredGames(run.opponent)
      = Total(league.data) + IF run.counted /\ ~run.counts THEN 1 ELSE 0

OneUrl(o) == \E url \in Urls : UrlsOf[o] = {url}

\* A native or cop_v1 opponent who is always reached under one URL: a game
\* filed as counted stays in the result file, no warm-up, retry or later run
\* takes its place, as long as no write of the file was cut off.  (A crash in
\* the write loses them all; and a new URL begins again at number 1, whose
\* entry replaces the one of that number.)
CountedStay ==
  \A o \in Opponents \ StdOpponents :
    OneUrl(o) /\ results[o].ok =>
      \A game \in filed[o] : Entry(game.number, TRUE, FALSE) \in results[o].data

\* A series is filed as counted and rewarded only if it is the only one filed
\* as counted against that opponent: whatever crashed between the count and
\* the file, no opponent is worth the diversity reward twice.
RewardedOnce ==
  \A o \in Opponents : results[o].ok =>
    \A entry \in results[o].data :
      entry.counted /\ entry.rewarded => Cardinality(filed[o]) <= 1

\* The league's address is under none of the opponent's, and for a native
\* opponent is not the only one configured.
KeepsLecturerApart(o) ==
  /\ Lecturer \notin OpponentRecipient[o]
  /\ Lecturer \in Recipient[o] => ~IsStd(o) /\ OpponentRecipient[o] # {}

\* Under such a configuration the lecturer is only mailed games that counted,
\* and only after they were recorded and filed: a warm-up, or a series that
\* was begun as counted and not settled, never reaches the lecturer.
LecturerHearsOfCounted ==
  \A m \in mails :
    KeepsLecturerApart(m.opponent) /\ Lecturer \in m.to
      => \E game \in filed[m.opponent] : game.run = m.run

\* However the sends fail, a run delivers its report at most twice.
AtMostTwoCopies == mail.copies <= 2

\* The watchdog shoots no process that keeps its time limits, provided its own
\* limit covers a handshake and a round: the handshake ends without a beat.
SparesTheHealthy ==
  run.end = "shot" /\ ~run.frozen => watch.limit < HandshakeLimit + RoundLimit

\* Every run ends, a frozen one by the watchdog, unless it hangs where nobody
\* watches it: before the heartbeat starts, after it stops, and in the whole of
\* a std_v1 series (series_runner.py:177-192 tells of such a run, killed by
\* hand).
RunEnds == run.at # "off" ~> (run.at = "off" \/ (run.frozen /\ run.at \notin Watched))
=============================================================================

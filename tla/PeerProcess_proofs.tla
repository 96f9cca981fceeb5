------------------------- MODULE PeerProcess_proofs -------------------------
(***************************************************************************)
(* Proofs about PeerProcess, for all opponents, URLs, addresses, time      *)
(* limits, caps and numbers of runs.                                       *)
(***************************************************************************)
EXTENDS PeerProcess, FiniteSetTheorems, TLAPS

-----------------------------------------------------------------------------
(* Types.                                                                  *)

\* What the steps make of the main thread's record.
LEMMA RunUpdates ==
  ASSUME NEW r \in RunStates, NEW place \in Places, NEW b \in BOOLEAN,
         NEW c \in BOOLEAN, NEW end \in {"none", "done", "raised", "died", "shot"}
  PROVE /\ [r EXCEPT !.at = place] \in RunStates
        /\ [r EXCEPT !.at = "off", !.end = end] \in RunStates
        /\ [r EXCEPT !.at = "record", !.counts = b, !.reward = c] \in RunStates
        /\ [r EXCEPT !.frozen = TRUE] \in RunStates
<1>1. [r EXCEPT !.at = place] \in RunStates
  BY DEF RunStates
<1>2. "off" \in Places /\ "record" \in Places
  BY DEF Places
<1>3. [r EXCEPT !.at = "off", !.end = end] \in RunStates
  BY <1>2 DEF RunStates
<1>4. [r EXCEPT !.at = "record", !.counts = b, !.reward = c] \in RunStates
  BY <1>2 DEF RunStates
<1>5. [r EXCEPT !.frozen = TRUE] \in RunStates
  BY DEF RunStates
<1>6. QED
  BY <1>1, <1>3, <1>4, <1>5

\* A text that is written reads back.
LEMMA FileIsText ==
  ASSUME NEW S, NEW data \in S
  PROVE  File(data) \in Texts(S) /\ File(data).data = data /\ File(data).ok = TRUE
BY DEF Texts, File

LEMMA TextFacts ==
  ASSUME NEW S, NEW t \in Texts(S)
  PROVE  t.ok = TRUE /\ t.data \in S /\ t \in TextFile(S)
BY DEF Texts, TextFile

LEMMA TornFacts ==
  ASSUME NEW S
  PROVE  Torn \in TextFile(S) /\ Torn.ok = FALSE
BY DEF TextFile, Torn

\* A file that can be read holds what its type says.
LEMMA FileFacts ==
  ASSUME NEW S, NEW f \in TextFile(S), f.ok
  PROVE  f \in Texts(S) /\ f.data \in S
<1>1. f \in Texts(S) \/ f = Torn
  BY DEF TextFile
<1>2. f # Torn
  BY TornFacts
<1>3. QED
  BY <1>1, <1>2, TextFacts

\* The main thread, its clocks and its mail.
LEMMA RunStep == PeerProcessAssumption /\ TypeOK /\ [Next]_vars => RunOK'
<1> SUFFICES ASSUME PeerProcessAssumption, TypeOK, [Next]_vars PROVE RunOK'
  OBVIOUS
<1> USE DEF TypeOK, RunOK, clock
<1>1. CASE UNCHANGED vars
  BY <1>1 DEF vars
<1>go. ASSUME NEW place \in Places, Goto(place) PROVE run' \in RunStates
  BY <1>go, RunUpdates DEF Goto
<1>2. CASE Start
  <2>1. PICK o \in Opponents, counted \in BOOLEAN : \E url \in UrlsOf[o] :
          run' = [at |-> IF Saves(counted) THEN "save_number" ELSE "boot", opponent |-> o,
                  url |-> url, counted |-> counted, counts |-> FALSE, reward |-> FALSE,
                  number |-> numbers.data[url] + 1, frozen |-> FALSE, end |-> "none"]
    BY <1>2 DEF Start
  <2>2. PICK url \in UrlsOf[o] :
          run' = [at |-> IF Saves(counted) THEN "save_number" ELSE "boot", opponent |-> o,
                  url |-> url, counted |-> counted, counts |-> FALSE, reward |-> FALSE,
                  number |-> numbers.data[url] + 1, frozen |-> FALSE, end |-> "none"]
    BY <2>1
  <2>3. url \in Urls
    BY <2>2, PeerProcessAssumption DEF PeerProcessAssumption
  <2>4. numbers.data \in [Urls -> Nat]
    BY <1>2, FileFacts DEF Start, FilesOK
  <2>5. numbers.data[url] + 1 \in Nat
    BY <2>3, <2>4
  <2>6. run' \in RunStates
    BY <2>2, <2>3, <2>5 DEF RunStates, Places, Reporting
  <2>7. watch' \in Watches
    BY <1>2 DEF Start, Watches
  <2>8. /\ round' \in 0 .. MaxMoves /\ spent' \in Nat
        /\ mail' \in [attempt : Nat, copies : Nat] /\ seen' \in [Opponents -> Nat]
    BY <1>2, PeerProcessAssumption DEF Start, PeerProcessAssumption
  <2>9. QED
    BY <2>6, <2>7, <2>8
<1>3. CASE SaveNumber
  BY <1>3, <1>go DEF SaveNumber, Places
<1>4. CASE Boot
  <2>1. run' \in RunStates
    <3>1. Goto("series") \/ Goto("handshake")
      BY <1>4 DEF Boot
    <3>2. QED
      BY <1>go, <3>1 DEF Places
  <2>2. watch' \in Watches
    BY <1>4 DEF Boot, Watches
  <2>3. QED
    BY <1>4, <2>1, <2>2 DEF Boot
<1>5. CASE HandshakeDone
  BY <1>5, <1>go DEF HandshakeDone, Places
<1>6. CASE RoundDone
  <2>1. watch' \in Watches
    BY <1>6 DEF RoundDone, Beat, Watches
  <2>2. QED
    BY <1>6, <2>1, PeerProcessAssumption DEF RoundDone, Beat, PeerProcessAssumption
<1>7. ASSUME NEW counts \in BOOLEAN, NEW reward \in BOOLEAN, Conclude(counts, reward)
      PROVE  run' \in RunStates
  BY <1>7, RunUpdates DEF Conclude, Places
<1>8. CASE EndRounds
  <2>1. run.counted \in BOOLEAN
    BY DEF RunStates
  <2>2. watch' \in Watches
    BY <1>8 DEF EndRounds, Watches
  <2>3. QED
    BY <1>7, <1>8, <2>1, <2>2 DEF EndRounds
<1>9. CASE ReadCounts
  <2>1. seen' \in [Opponents -> Nat]
    BY <1>9, FileFacts DEF ReadCounts, FilesOK
  <2>2. QED
    BY <1>9, <1>go, <2>1 DEF ReadCounts, Places
<1>10. CASE SeriesEnds
  <2>1. PICK outcome \in {"confirmed", "agreed", "unsettled"}, reward \in Rewards(run.opponent) :
          Conclude(run.counted /\ EffectivelyConfirmed(run.opponent, outcome), reward)
    BY <1>10 DEF SeriesEnds
  <2>2. (run.counted /\ EffectivelyConfirmed(run.opponent, outcome)) \in BOOLEAN
    OBVIOUS
  <2>3. reward \in BOOLEAN
    BY DEF Rewards
  <2>4. run' \in RunStates
    BY <1>7, <2>1, <2>2, <2>3
  <2>5. QED
    BY <1>10, <2>4 DEF SeriesEnds
<1>11. CASE RecordGame
  <2>1. Goto("save_game") \/ Goto("file")
    BY <1>11 DEF RecordGame
  <2>2. run' \in RunStates
    BY <1>go, <2>1 DEF Places, Reporting
  <2>3. QED
    BY <1>11, <2>2 DEF RecordGame
<1>12. CASE SaveGame
  BY <1>12, <1>go DEF SaveGame, Places, Reporting
<1>13. CASE FileResult
  BY <1>13, <1>go DEF FileResult, Places, Reporting
<1>14. CASE SaveResult
  BY <1>14, <1>go DEF SaveResult, Places, Reporting
<1>15. CASE SendReport
  <2>1. PICK delivered \in BOOLEAN, answered \in BOOLEAN :
          IF ~answered /\ MayRetry(mail.attempt)
          THEN run' = run /\ mail' = [attempt |-> mail.attempt + 1,
                                      copies |-> mail.copies + IF delivered THEN 1 ELSE 0]
          ELSE Goto("grace") /\ mail' = [mail EXCEPT !.copies = @ + IF delivered THEN 1 ELSE 0]
    BY <1>15 DEF SendReport
  <2>2. run' = run \/ Goto("grace")
    BY <2>1
  <2>3. run' \in RunStates
    BY <1>go, <2>2 DEF Places, Reporting
  <2>4. mail' \in [attempt : Nat, copies : Nat]
    BY <2>1
  <2>5. QED
    BY <1>15, <2>3, <2>4 DEF SendReport
<1>16. CASE Finish
  BY <1>16, RunUpdates DEF Finish, Leave, Places
<1>17. CASE RaisesOnRead
  BY <1>17, RunUpdates DEF RaisesOnRead, Leave, Places
<1>18. CASE Dies
  <2>1. run' \in RunStates
    BY <1>18, RunUpdates DEF Dies, Leave, Places
  <2>2. watch' \in Watches
    BY <1>18 DEF Dies, Watches
  <2>3. QED
    BY <1>18, <2>1, <2>2 DEF Dies
<1>19. CASE Freeze
  BY <1>19, RunUpdates DEF Freeze, Places
<1>20. CASE Tick
  <2>1. watch' \in Watches
    <3>1. watch.age + 1 \in Nat
      BY DEF Watches
    <3>2. [watch EXCEPT !.age = watch.age + 1] \in Watches
      BY <3>1 DEF Watches
    <3>3. QED
      BY <1>20, <3>2 DEF Tick
  <2>2. spent' \in Nat
    BY <1>20 DEF Tick
  <2>3. QED
    BY <1>20, <2>1, <2>2 DEF Tick
<1>21. CASE WatchdogFires
  <2>1. run' \in RunStates
    BY <1>21, RunUpdates DEF WatchdogFires, Stale, ControlledShutdown, Leave, Places
  <2>2. watch' \in Watches
    BY <1>21 DEF WatchdogFires, Stale, ControlledShutdown, Watches
  <2>3. QED
    BY <1>21, <2>1, <2>2 DEF WatchdogFires, Stale, ControlledShutdown
<1>22. QED
  BY <1>1, <1>2, <1>3, <1>4, <1>5, <1>6, <1>8, <1>9, <1>10, <1>11, <1>12, <1>13, <1>14, <1>15,
     <1>16, <1>17, <1>18, <1>19, <1>20, <1>21 DEF Next, MainThread

\* Who touches the files: a write truncates, the next step fills.
FilesKept == UNCHANGED <<numbers, league, results>>

LEMMA FilesStep == TypeOK /\ [Next]_vars => FilesOK'
<1> SUFFICES ASSUME TypeOK, [Next]_vars PROVE FilesOK'
  OBVIOUS
<1> USE DEF TypeOK, FilesOK
<1>1. CASE Start
  <2>1. numbers' = numbers \/ numbers' = Torn
    BY <1>1 DEF Start
  <2>2. numbers' \in TextFile([Urls -> Nat])
    BY <2>1, TornFacts
  <2>3. QED
    BY <1>1, <2>2 DEF Start
<1>2. CASE SaveNumber
  <2>1. text \in Texts([Urls -> Nat])
    BY <1>2 DEF SaveNumber, TextOK
  <2>2. QED
    BY <1>2, <2>1, TextFacts DEF SaveNumber
<1>3. CASE RecordGame
  <2>1. league' = league \/ league' = Torn
    BY <1>3 DEF RecordGame
  <2>2. league' \in TextFile([Opponents -> Nat])
    BY <2>1, TornFacts
  <2>3. QED
    BY <1>3, <2>2 DEF RecordGame
<1>4. CASE SaveGame
  <2>1. text \in Texts([Opponents -> Nat])
    BY <1>4 DEF SaveGame, TextOK
  <2>2. QED
    BY <1>4, <2>1, TextFacts DEF SaveGame
<1>5. CASE FileResult
  <2>1. results' = [results EXCEPT ![run.opponent] = Torn]
    BY <1>5 DEF FileResult
  <2>2. Torn \in TextFile(SUBSET Entries)
    BY DEF TextFile
  <2>3. results' \in [Opponents -> TextFile(SUBSET Entries)]
    BY <2>1, <2>2
  <2>4. QED
    BY <1>5, <2>3 DEF FileResult
<1>6. CASE SaveResult
  <2>1. results' = [results EXCEPT ![run.opponent] = text] /\ text \in Texts(SUBSET Entries)
    BY <1>6 DEF SaveResult, TextOK
  <2>2. text \in TextFile(SUBSET Entries)
    BY <2>1 DEF TextFile
  <2>3. results' \in [Opponents -> TextFile(SUBSET Entries)]
    BY <2>1, <2>2
  <2>4. QED
    BY <1>6, <2>3 DEF SaveResult
<1>7. CASE ~(Start \/ SaveNumber \/ RecordGame \/ SaveGame \/ FileResult \/ SaveResult)
  <2>1. FilesKept
    BY <1>7
    DEF FilesKept, Next, MainThread, Boot, HandshakeDone, RoundDone, EndRounds, ReadCounts,
        SeriesEnds, SendReport, Finish, RaisesOnRead, Dies, Freeze, Tick, WatchdogFires, vars,
        files
  <2>2. QED
    BY <2>1 DEF FilesKept
<1>8. QED
  BY <1>1, <1>2, <1>3, <1>4, <1>5, <1>6, <1>7

-----------------------------------------------------------------------------
(* The watchdog.                                                           *)

\* How old the last beat is where the watchdog looks.  The handshake ends
\* without one, so the first round begins with the handshake's time.
WatchInv ==
  /\ watch.on => run.at \in Watched
  /\ run.at \in {"save_number", "boot"} => watch.age = 0 /\ spent = 0
  /\ run.at = "handshake" /\ ~run.frozen => watch.age <= spent /\ spent <= HandshakeLimit
  /\ run.at = "rounds" /\ ~run.frozen =>
       watch.age <= HandshakeLimit + spent /\ spent <= RoundLimit
  /\ SparesTheHealthy

LEMMA WatchStep == PeerProcessAssumption /\ TypeOK /\ WatchInv /\ [Next]_vars => WatchInv'
<1> SUFFICES ASSUME PeerProcessAssumption, TypeOK, WatchInv, [Next]_vars PROVE WatchInv'
  OBVIOUS
<1> USE PeerProcessAssumption
    DEF WatchInv, SparesTheHealthy, Watched, clock, files, history, PeerProcessAssumption
<1>t. /\ run \in RunStates /\ watch \in Watches /\ spent \in Nat
      /\ watch.limit \in Nat /\ watch.age \in Nat
  BY DEF TypeOK, RunOK, Watches
<1>a. ASSUME UNCHANGED <<spent, watch>>, NEW place \in Places, Goto(place),
             run.at \notin {"handshake", "rounds"},
             place \notin {"save_number", "boot", "handshake", "rounds"}
      PROVE  WatchInv'
  <2>1. run'.at = place /\ run'.frozen = run.frozen /\ run'.end = run.end
    BY <1>t, <1>a DEF Goto, RunStates
  <2>2. QED
    BY <1>t, <1>a, <2>1
<1>1. CASE UNCHANGED vars
  BY <1>1 DEF vars
<1>2. CASE Start
  BY <1>2, <1>t DEF Start, Watches
<1>3. CASE SaveNumber
  BY <1>3, <1>t DEF SaveNumber, Goto, RunStates
<1>4. CASE Boot
  BY <1>4, <1>t DEF Boot, Goto, RunStates, Watches
<1>5. CASE HandshakeDone
  BY <1>5, <1>t DEF HandshakeDone, Goto, RunStates
<1>6. CASE RoundDone
  BY <1>6, <1>t DEF RoundDone, Beat, Watches
<1>7. CASE EndRounds
  BY <1>7, <1>t DEF EndRounds, Conclude, RunStates, Watches
<1>8. CASE SeriesEnds
  BY <1>8, <1>t DEF SeriesEnds, Conclude, RunStates
<1>9. CASE RecordGame
  <2>1. run.at = "record" /\ (Goto("save_game") \/ Goto("file")) /\ UNCHANGED <<spent, watch>>
    BY <1>9 DEF RecordGame
  <2>2. QED
    BY <1>a, <2>1 DEF Places, Reporting
<1>10. CASE SaveGame
  BY <1>10, <1>t, <1>a DEF SaveGame, Places, Reporting
<1>11. CASE FileResult
  BY <1>11, <1>t, <1>a DEF FileResult, Places, Reporting
<1>12. CASE SaveResult
  BY <1>12, <1>t, <1>a DEF SaveResult, Places, Reporting
<1>13. CASE SendReport
  <2>1. (run' = run \/ Goto("grace")) /\ UNCHANGED <<spent, watch>> /\ run.at = "mail"
    BY <1>13 DEF SendReport
  <2>2. QED
    BY <1>t, <1>a, <2>1 DEF Places, Reporting
<1>14. CASE Finish
  BY <1>14, <1>t DEF Finish, Leave, RunStates
<1>15. CASE RaisesOnRead
  BY <1>15, <1>t DEF RaisesOnRead, Leave, RunStates
<1>16. CASE Dies
  BY <1>16, <1>t DEF Dies, Leave, RunStates, Watches
<1>17. CASE Freeze
  BY <1>17, <1>t DEF Freeze, RunStates
<1>18. CASE Tick
  <2>1. watch'.age = watch.age + 1 /\ watch'.limit = watch.limit /\ watch'.on = watch.on
    BY <1>18, <1>t DEF Tick, Watches
  <2>2. QED
    BY <1>18, <1>t, <2>1 DEF Tick, TimeLeft
<1>19. CASE WatchdogFires
  <2>1. watch.limit < watch.age /\ run.at \in {"handshake", "rounds"}
    BY <1>19, <1>t DEF WatchdogFires, Stale, ControlledShutdown
  <2>2. /\ run'.at = "off" /\ run'.frozen = run.frozen /\ run'.end = "shot"
        /\ watch'.limit = watch.limit /\ watch'.on = FALSE
    BY <1>19, <1>t DEF WatchdogFires, Stale, ControlledShutdown, Leave, RunStates, Watches
  <2>3. ~run.frozen => watch.age <= HandshakeLimit + RoundLimit
    BY <1>t, <2>1 DEF TypeOK, RunOK, RunStates
  <2>4. QED
    BY <1>t, <2>1, <2>2, <2>3
<1>21. CASE ReadCounts
  BY <1>21, <1>t, <1>a DEF ReadCounts, Places
<1>20. QED
  BY <1>1, <1>2, <1>3, <1>4, <1>5, <1>6, <1>7, <1>8, <1>9, <1>10, <1>11, <1>12, <1>13, <1>14,
     <1>15, <1>16, <1>17, <1>18, <1>19, <1>21 DEF Next, MainThread

-----------------------------------------------------------------------------
(* What is under way to a file, and the history.                           *)

Saving == {"save_number", "save_game", "save_result"}

LEMMA TextStep == PeerProcessAssumption /\ TypeOK /\ WatchInv /\ [Next]_vars => TextOK'
<1> SUFFICES ASSUME PeerProcessAssumption, TypeOK, WatchInv, [Next]_vars PROVE TextOK'
  OBVIOUS
<1> USE DEF TextOK, TypeOK
<1>t. run \in RunStates /\ run.opponent \in Opponents
  BY DEF RunOK, RunStates
<1>a. ASSUME text' = Torn, run'.at \notin Saving PROVE TextOK'
  BY <1>a DEF Saving
<1>b. ASSUME text' = text, run'.at = run.at PROVE TextOK'
  BY <1>b
<1>c. ASSUME run.at \notin Saving, text' = text, run'.at \notin Saving PROVE TextOK'
  BY <1>a, <1>c DEF Saving
<1>g. ASSUME NEW place, Goto(place) PROVE run'.at = place
  BY <1>t, <1>g DEF Goto, RunStates
<1>l. ASSUME NEW end, Leave(end) PROVE run'.at = "off"
  BY <1>t, <1>l DEF Leave, RunStates
<1>k. ASSUME NEW counts, NEW reward, Conclude(counts, reward) PROVE run'.at = "record"
  BY <1>t, <1>k DEF Conclude, RunStates
<1>1. CASE Start
  <2>1. PICK o \in Opponents, counted \in BOOLEAN : \E url \in UrlsOf[o] :
          /\ run' = [at |-> IF Saves(counted) THEN "save_number" ELSE "boot", opponent |-> o,
                     url |-> url, counted |-> counted, counts |-> FALSE, reward |-> FALSE,
                     number |-> numbers.data[url] + 1, frozen |-> FALSE, end |-> "none"]
          /\ IF Saves(counted)
             THEN numbers' = Torn /\ text' = File([numbers.data EXCEPT ![url] = @ + 1])
             ELSE UNCHANGED <<numbers, text>>
    BY <1>1 DEF Start
  <2>2. PICK url \in UrlsOf[o] :
          /\ run' = [at |-> IF Saves(counted) THEN "save_number" ELSE "boot", opponent |-> o,
                     url |-> url, counted |-> counted, counts |-> FALSE, reward |-> FALSE,
                     number |-> numbers.data[url] + 1, frozen |-> FALSE, end |-> "none"]
          /\ IF Saves(counted)
             THEN numbers' = Torn /\ text' = File([numbers.data EXCEPT ![url] = @ + 1])
             ELSE UNCHANGED <<numbers, text>>
    BY <2>1
  <2>3. CASE Saves(counted)
    <3>1. numbers.data \in [Urls -> Nat] /\ url \in Urls
      BY <1>1, <2>2, FileFacts, PeerProcessAssumption
      DEF Start, FilesOK, PeerProcessAssumption
    <3>2. [numbers.data EXCEPT ![url] = @ + 1] \in [Urls -> Nat]
      BY <3>1
    <3>3. run'.at = "save_number" /\ text' = File([numbers.data EXCEPT ![url] = @ + 1])
      BY <2>2, <2>3
    <3>5. text' \in Texts([Urls -> Nat])
      BY <3>2, <3>3, FileIsText
    <3>6. QED
      BY <3>3, <3>5
  <2>4. CASE ~Saves(counted)
    <3>1. text = Torn
      BY <1>1 DEF Start
    <3>2. run'.at = "boot" /\ text' = Torn
      BY <2>2, <2>4, <3>1
    <3>3. QED
      BY <1>a, <3>2 DEF Saving
  <2>5. QED
    BY <2>3, <2>4
<1>2. CASE SaveNumber \/ SaveGame \/ SaveResult
  <2>1. text' = Torn /\ (Goto("boot") \/ Goto("file") \/ Goto("mail"))
    BY <1>2 DEF SaveNumber, SaveGame, SaveResult
  <2>2. run'.at \notin Saving
    BY <1>t, <2>1 DEF Goto, RunStates, Saving
  <2>3. QED
    BY <1>a, <2>1, <2>2
<1>3. CASE RecordGame
  <2>1. CASE run.counts
    <3>1. league.data \in [Opponents -> Nat]
      BY <1>3, FileFacts DEF RecordGame, FilesOK
    <3>2. [league.data EXCEPT ![run.opponent] = @ + 1] \in [Opponents -> Nat]
      BY <1>t, <3>1
    <3>6. text' = File([league.data EXCEPT ![run.opponent] = @ + 1])
      BY <1>3, <2>1 DEF RecordGame
    <3>3. text' \in Texts([Opponents -> Nat])
      BY <3>2, <3>6, FileIsText
    <3>4. run'.at = "save_game"
      BY <1>3, <1>t, <2>1 DEF RecordGame, Goto, RunStates
    <3>5. QED
      BY <3>3, <3>4
  <2>2. CASE ~run.counts
    <3>1. run.at \notin Saving /\ text' = text /\ Goto("file")
      BY <1>3, <2>2 DEF RecordGame, Saving
    <3>2. QED
      BY <1>c, <1>g, <3>1 DEF Saving
  <2>3. QED
    BY <2>1, <2>2
<1>4. CASE FileResult
  <2>1. run.opponent \in Opponents /\ Entry(run.number, run.counts, run.reward) \in Entries
    BY <1>t DEF RunStates, Entries, Entry
  <2>2. results[run.opponent] \in TextFile(SUBSET Entries)
    BY <1>t DEF FilesOK
  <2>3. ~IsStd(run.opponent) => results[run.opponent].data \in SUBSET Entries
    BY <1>4, <2>2, FileFacts DEF FileResult
  <2>4. Merged(run.opponent) \in SUBSET Entries
    BY <2>1, <2>3 DEF Merged
  <2>5. text' \in Texts(SUBSET Entries)
    BY <1>4, <2>4, FileIsText DEF FileResult
  <2>6. run'.at = "save_result"
    BY <1>4, <1>t DEF FileResult, Goto, RunStates
  <2>7. QED
    BY <2>5, <2>6
<1>5. CASE Boot
  <2>1. Goto("series") \/ Goto("handshake")
    BY <1>5 DEF Boot
  <2>2. QED
    BY <1>5, <1>c, <1>g, <2>1 DEF Boot, Saving, files
<1>6. CASE HandshakeDone
  BY <1>6, <1>c, <1>g DEF HandshakeDone, Saving, files
<1>7. CASE RoundDone
  BY <1>7, <1>b DEF RoundDone, files
<1>8. CASE EndRounds
  BY <1>8, <1>c, <1>k DEF EndRounds, Saving, files
<1>9. CASE ReadCounts
  BY <1>9, <1>c, <1>g DEF ReadCounts, Saving, files
<1>10. CASE SeriesEnds
  BY <1>10, <1>c, <1>k DEF SeriesEnds, Saving, files
<1>11. CASE SendReport
  <2>1. (run' = run \/ Goto("grace")) /\ run.at = "mail" /\ text' = text
    BY <1>11 DEF SendReport, files
  <2>2. QED
    BY <1>b, <1>c, <1>g, <2>1 DEF Saving
<1>12. CASE Finish \/ RaisesOnRead
  <2>1. run.at \notin Saving /\ text' = text /\ (Leave("done") \/ Leave("raised"))
    BY <1>12 DEF Finish, RaisesOnRead, Saving, files
  <2>2. QED
    BY <1>c, <1>l, <2>1 DEF Saving
<1>13. CASE Dies
  <2>1. run'.at = "off" /\ text' = Torn
    BY <1>13, <1>t DEF Dies, Leave, RunStates
  <2>2. QED
    BY <1>a, <2>1 DEF Saving
<1>14. CASE Freeze \/ Tick
  <2>1. run'.at = run.at /\ text' = text
    BY <1>14, <1>t DEF Freeze, Tick, RunStates, files
  <2>2. QED
    BY <1>b, <2>1
<1>15. CASE UNCHANGED vars
  BY <1>15, <1>b DEF vars, files
<1>16. CASE WatchdogFires
  <2>1. text' = text /\ Leave("shot")
    BY <1>16 DEF WatchdogFires, ControlledShutdown, files
  <2>2. run.at \notin Saving
    BY <1>16 DEF WatchdogFires, WatchInv, Watched, Saving
  <2>3. QED
    BY <1>c, <1>l, <2>1, <2>2 DEF Saving
<1>17. QED
  BY <1>1, <1>2, <1>3, <1>4, <1>5, <1>6, <1>7, <1>8, <1>9, <1>10, <1>11, <1>12, <1>13, <1>14,
     <1>15, <1>16 DEF Next, MainThread

\* What the steps make of the history.
LEMMA HistoryStep == PeerProcessAssumption /\ TypeOK /\ [Next]_vars => HistoryOK'
<1> SUFFICES ASSUME PeerProcessAssumption, TypeOK, [Next]_vars PROVE HistoryOK'
  OBVIOUS
<1> USE DEF TypeOK, HistoryOK, history
<1>t. /\ run \in RunStates /\ run.opponent \in Opponents /\ run.url \in Urls
      /\ run.number \in Nat /\ run.counted \in BOOLEAN /\ runs \in Nat
  BY PeerProcessAssumption DEF RunOK, RunStates, PeerProcessAssumption
<1>1. CASE Start
  <2>1. runs' \in 0 .. MaxRuns
    BY <1>1, PeerProcessAssumption DEF Start, PeerProcessAssumption
  <2>2. QED
    BY <1>1, <2>1 DEF Start
<1>2. CASE SaveNumber
  <2>1. given' \in [Urls -> Seq(Nat)]
    BY <1>2, <1>t DEF SaveNumber
  <2>2. QED
    BY <1>2, <2>1 DEF SaveNumber
<1>3. CASE HandshakeDone
  <2>1. agreed' \in [Urls -> Seq(Nat)]
    BY <1>3, <1>t DEF HandshakeDone
  <2>2. QED
    BY <1>3, <2>1 DEF HandshakeDone
<1>4. ASSUME NEW counts, NEW reward, Conclude(counts, reward)
      PROVE  concluded' \in [Opponents -> SUBSET Nat]
  BY <1>4, <1>t DEF Conclude
<1>5. CASE EndRounds
  <2>1. concluded' \in [Opponents -> SUBSET Nat]
    BY <1>4, <1>5 DEF EndRounds
  <2>2. QED
    BY <1>5, <2>1 DEF EndRounds
<1>6. CASE SeriesEnds
  <2>1. concluded' \in [Opponents -> SUBSET Nat]
    BY <1>4, <1>6 DEF SeriesEnds
  <2>2. QED
    BY <1>6, <2>1 DEF SeriesEnds
<1>7. CASE SaveResult
  <2>1. [run |-> runs, number |-> run.number] \in [run : Nat, number : Nat]
    BY <1>t
  <2>2. filed' \in [Opponents -> SUBSET [run : Nat, number : Nat]]
    BY <1>7, <1>t, <2>1 DEF SaveResult
  <2>3. QED
    BY <1>7, <2>2 DEF SaveResult
<1>8. CASE SendReport
  <2>1. MailedTo(run.opponent) \in SUBSET Addresses
    BY <1>t, PeerProcessAssumption
    DEF MailedTo, RunRecipients, BuildRecipients, PeerProcessAssumption
  <2>2. [opponent |-> run.opponent, run |-> runs, to |-> MailedTo(run.opponent)]
          \in [opponent : Opponents, run : Nat, to : SUBSET Addresses]
    BY <1>t, <2>1
  <2>3. mails' \subseteq mails \cup
          {[opponent |-> run.opponent, run |-> runs, to |-> MailedTo(run.opponent)]}
    BY <1>8 DEF SendReport
  <2>4. QED
    BY <1>8, <2>2, <2>3 DEF SendReport
<1>9. CASE ~(Start \/ SaveNumber \/ HandshakeDone \/ EndRounds \/ SeriesEnds \/ SaveResult
             \/ SendReport)
  <2>1. UNCHANGED <<runs, history>>
    BY <1>9
    DEF Next, MainThread, Boot, RoundDone, ReadCounts, RecordGame, SaveGame, FileResult, Finish,
        RaisesOnRead, Dies, Freeze, Tick, WatchdogFires, vars
  <2>2. QED
    BY <2>1
<1>10. QED
  BY <1>1, <1>2, <1>3, <1>5, <1>6, <1>7, <1>8, <1>9

LEMMA TypeInit == PeerProcessAssumption /\ Init => TypeOK /\ WatchInv
<1> SUFFICES ASSUME PeerProcessAssumption, Init PROVE TypeOK /\ WatchInv
  OBVIOUS
<1>1. \A o \in Opponents : UrlsOf[o] \subseteq Urls
  BY DEF PeerProcessAssumption
<1>2. RunOK
  BY <1>1 DEF PeerProcessAssumption, Init, RunOK, RunStates, Places, Reporting, Watches
<1>3. /\ numbers \in TextFile([Urls -> Nat]) /\ league \in TextFile([Opponents -> Nat])
      /\ results \in [Opponents -> TextFile(SUBSET Entries)]
  BY DEF Init, TextFile, Texts, File
<1>4. TextOK /\ HistoryOK
  BY DEF PeerProcessAssumption, Init, TextOK, HistoryOK
<1>5. WatchInv
  BY DEF PeerProcessAssumption, Init, WatchInv, SparesTheHealthy
<1>6. QED
  BY <1>2, <1>3, <1>4, <1>5 DEF TypeOK, FilesOK

LEMMA TypeInvariant == Spec => [](TypeOK /\ WatchInv)
<1>1. PeerProcessAssumption /\ TypeOK /\ WatchInv /\ [Next]_vars => TypeOK'
  BY RunStep, FilesStep, TextStep, HistoryStep DEF TypeOK
<1>2. QED
  BY <1>1, PeerProcessAssumption, TypeInit, WatchStep, PTL DEF Spec

\* Every variable keeps its type, whatever crashes; in particular, what is
\* under way to a file is of that file's type.
THEOREM TypeCorrectness == Spec => []TypeOK
BY TypeInvariant, PTL

\* A process that keeps its time limits is shot only when the watchdog's own
\* limit is less than a handshake and a round together.
THEOREM WatchdogSparesTheHealthy == Spec => []SparesTheHealthy
<1>1. WatchInv => SparesTheHealthy
  BY DEF WatchInv
<1>2. QED
  BY <1>1, TypeInvariant, PTL

-----------------------------------------------------------------------------
(* What moving, leaving and concluding leave of the main thread's record.  *)

LEMMA GotoFields ==
  ASSUME run \in RunStates, NEW place, Goto(place)
  PROVE  /\ run'.at = place /\ run'.opponent = run.opponent /\ run'.url = run.url
         /\ run'.number = run.number /\ run'.counted = run.counted /\ run'.counts = run.counts
         /\ run'.reward = run.reward /\ run'.frozen = run.frozen
BY DEF Goto, RunStates

LEMMA LeaveFields ==
  ASSUME run \in RunStates, NEW end, Leave(end)
  PROVE  /\ run'.at = "off" /\ run'.opponent = run.opponent /\ run'.url = run.url
         /\ run'.number = run.number /\ run'.counted = run.counted /\ run'.counts = run.counts
         /\ run'.reward = run.reward /\ run'.frozen = run.frozen
BY DEF Leave, RunStates

LEMMA ConcludeFields ==
  ASSUME run \in RunStates, NEW counts, NEW reward, Conclude(counts, reward)
  PROVE  /\ run'.at = "record" /\ run'.opponent = run.opponent /\ run'.url = run.url
         /\ run'.number = run.number /\ run'.counted = run.counted /\ run'.counts = counts
         /\ run'.reward = reward /\ run'.frozen = run.frozen
BY DEF Conclude, RunStates

LEMMA FreezeFields ==
  ASSUME run \in RunStates, Freeze
  PROVE  /\ run'.at = run.at /\ run'.opponent = run.opponent /\ run'.url = run.url
         /\ run'.number = run.number /\ run'.counted = run.counted /\ run'.counts = run.counts
         /\ run'.reward = run.reward /\ run'.frozen
BY DEF Freeze, RunStates

-----------------------------------------------------------------------------
(* The numbers of the runs.                                                *)

IsNamed == run.at \notin {"off", "save_number"}

\* The file follows the numbers given; the text under way is one ahead.  The
\* run's number is the last one given under its URL or, for a warm-up, the
\* next; up to the handshake it is beyond all that were agreed on.
NumberInv ==
  /\ NumbersInTurn
  /\ numbers.ok => \A url \in Urls : numbers.data[url] = Len(given[url])
  /\ run.at = "save_number" =>
       /\ run.counted
       /\ run.number = Len(given[run.url]) + 1
       /\ \A url \in Urls :
            text.data[url] = Len(given[url]) + (IF url = run.url THEN 1 ELSE 0)
  /\ IsNamed => run.number = Len(given[run.url]) + (IF run.counted THEN 0 ELSE 1)
  /\ run.at # "off" => run.number >= 1
  /\ run.at \in {"save_number", "boot", "handshake"} =>
       \A i \in DOMAIN agreed[run.url] : agreed[run.url][i] < run.number

LEMMA AppendInTurn ==
  ASSUME NEW S, NEW g \in [S -> Seq(Nat)], NEW p \in S,
         \A o \in S : \A i \in DOMAIN g[o] : g[o][i] = i,
         NEW h, h = [g EXCEPT ![p] = Append(@, Len(g[p]) + 1)]
  PROVE  \A o \in S :
           /\ Len(h[o]) = Len(g[o]) + (IF o = p THEN 1 ELSE 0)
           /\ \A i \in DOMAIN h[o] : h[o][i] = i
           /\ DOMAIN g[o] \subseteq DOMAIN h[o]
<1> TAKE o \in S
<1>1. CASE o = p
  <2>1. h[o] = Append(g[o], Len(g[o]) + 1) /\ g[o] \in Seq(Nat)
    BY <1>1
  <2>2. /\ Len(h[o]) = Len(g[o]) + 1 /\ DOMAIN h[o] = 1 .. Len(g[o]) + 1
        /\ DOMAIN g[o] = 1 .. Len(g[o]) /\ Len(g[o]) \in Nat
    BY <2>1
  <2>3. \A i \in 1 .. Len(g[o]) : h[o][i] = g[o][i]
    BY <2>1
  <2>4. h[o][Len(g[o]) + 1] = Len(g[o]) + 1
    BY <2>1
  <2>5. QED
    BY <1>1, <2>1, <2>2, <2>3, <2>4
<1>2. CASE o # p
  <2>1. h[o] = g[o] /\ g[o] \in Seq(Nat)
    BY <1>2
  <2>2. QED
    BY <1>2, <2>1
<1>3. QED
  BY <1>1, <1>2

LEMMA AppendRises ==
  ASSUME NEW s \in Seq(Nat), NEW n \in Nat, NEW t, t = Append(s, n),
         \A i, j \in DOMAIN s : i < j => s[i] < s[j],
         \A i \in DOMAIN s : s[i] < n
  PROVE  /\ \A i, j \in DOMAIN t : i < j => t[i] < t[j]
         /\ \A i \in DOMAIN t : t[i] = n \/ \E j \in DOMAIN s : t[i] = s[j]
<1>1. /\ DOMAIN s = 1 .. Len(s) /\ DOMAIN t = 1 .. Len(s) + 1 /\ Len(s) \in Nat
      /\ \A i \in 1 .. Len(s) : t[i] = s[i]
      /\ t[Len(s) + 1] = n
  OBVIOUS
<1>2. \A i \in DOMAIN t : i \in DOMAIN s \/ i = Len(s) + 1
  BY <1>1
<1>3. QED
  BY <1>1, <1>2

LEMMA NumberStep ==
  PeerProcessAssumption /\ TypeOK /\ WatchInv /\ NumberInv /\ [Next]_vars => NumberInv'
<1> SUFFICES ASSUME PeerProcessAssumption, TypeOK, WatchInv, NumberInv, [Next]_vars
             PROVE  NumberInv'
  OBVIOUS
<1> USE DEF clock, files, history
<1>t. /\ run \in RunStates /\ run.url \in Urls /\ run.number \in Nat /\ run.at \in Places
      /\ given \in [Urls -> Seq(Nat)] /\ \A url \in Urls : Len(given[url]) \in Nat
      /\ agreed \in [Urls -> Seq(Nat)]
  BY DEF TypeOK, RunOK, HistoryOK, RunStates
<1>s. ASSUME UNCHANGED <<numbers, given, agreed, text>>, run'.url = run.url, run'.at = run.at,
             run'.number = run.number, run'.counted = run.counted
      PROVE  NumberInv'
  BY <1>s DEF NumberInv, NumbersInTurn, IsNamed
<1>a. ASSUME UNCHANGED <<numbers, given, agreed>>, run'.url = run.url,
             run'.number = run.number, run'.counted = run.counted,
             \/ run'.at = "off"
             \/ /\ IsNamed /\ run'.at \notin {"off", "save_number"}
                /\ run'.at \in {"boot", "handshake"} => run.at \in {"boot", "handshake"}
      PROVE  NumberInv'
  BY <1>a DEF NumberInv, NumbersInTurn, IsNamed
<1>1. CASE Start
  <2>1. PICK o \in Opponents, counted \in BOOLEAN : \E url \in UrlsOf[o] :
          /\ run' = [at |-> IF Saves(counted) THEN "save_number" ELSE "boot", opponent |-> o,
                     url |-> url, counted |-> counted, counts |-> FALSE, reward |-> FALSE,
                     number |-> numbers.data[url] + 1, frozen |-> FALSE, end |-> "none"]
          /\ IF Saves(counted)
             THEN numbers' = Torn /\ text' = File([numbers.data EXCEPT ![url] = @ + 1])
             ELSE UNCHANGED <<numbers, text>>
    BY <1>1 DEF Start
  <2>2. PICK url \in UrlsOf[o] :
          /\ run' = [at |-> IF Saves(counted) THEN "save_number" ELSE "boot", opponent |-> o,
                     url |-> url, counted |-> counted, counts |-> FALSE, reward |-> FALSE,
                     number |-> numbers.data[url] + 1, frozen |-> FALSE, end |-> "none"]
          /\ IF Saves(counted)
             THEN numbers' = Torn /\ text' = File([numbers.data EXCEPT ![url] = @ + 1])
             ELSE UNCHANGED <<numbers, text>>
    BY <2>1
  <2>3. /\ url \in Urls /\ numbers.ok /\ UNCHANGED <<given, agreed>>
        /\ numbers.data \in [Urls -> Nat]
    BY <1>1, <2>2, FileFacts, PeerProcessAssumption
    DEF Start, TypeOK, FilesOK, PeerProcessAssumption
  <2>4. \A u \in Urls : numbers.data[u] = Len(given[u])
    BY <2>3 DEF NumberInv
  <2>5. /\ run'.number = Len(given[url]) + 1 /\ run'.url = url /\ run'.counted = counted
        /\ run'.at = IF counted THEN "save_number" ELSE "boot"
    BY <2>2, <2>3, <2>4 DEF Saves
  <2>6. \A i \in DOMAIN agreed[url] : agreed[url][i] < run'.number
    <3>1. \A i \in DOMAIN agreed[url] : agreed[url][i] \in DOMAIN given[url]
      BY <2>3 DEF NumberInv, NumbersInTurn
    <3>2. DOMAIN given[url] = 1 .. Len(given[url])
      BY <1>t, <2>3
    <3>3. QED
      BY <1>t, <2>3, <2>5, <3>1, <3>2
  <2>7. NumbersInTurn'
    BY <2>3 DEF NumberInv, NumbersInTurn
  <2>8. CASE counted
    <3>1. numbers' = Torn /\ text' = File([numbers.data EXCEPT ![url] = @ + 1])
      BY <2>2, <2>8 DEF Saves
    <3>2. text'.data = [numbers.data EXCEPT ![url] = @ + 1] /\ numbers'.ok = FALSE
      BY <3>1 DEF File, Torn
    <3>5. \A u \in Urls :
            [numbers.data EXCEPT ![url] = @ + 1][u] = numbers.data[u] + (IF u = url THEN 1 ELSE 0)
      BY <2>3
    <3>3. \A u \in Urls : text'.data[u] = Len(given[u]) + (IF u = url THEN 1 ELSE 0)
      BY <2>4, <3>2, <3>5, Zenon
    <3>4. QED
      BY <1>t, <2>3, <2>5, <2>6, <2>7, <2>8, <3>2, <3>3 DEF NumberInv, IsNamed
  <2>9. CASE ~counted
    <3>1. numbers' = numbers
      BY <2>2, <2>9 DEF Saves
    <3>2. QED
      BY <1>t, <2>3, <2>4, <2>5, <2>6, <2>7, <2>9, <3>1 DEF NumberInv, IsNamed
  <2>10. QED
    BY <2>8, <2>9
<1>2. CASE SaveNumber
  <2>1. run.at = "save_number" /\ numbers' = text /\ Goto("boot") /\ agreed' = agreed
    BY <1>2 DEF SaveNumber
  <2>2. /\ run.counted /\ run.number = Len(given[run.url]) + 1 /\ run.number >= 1
        /\ \A i \in DOMAIN agreed[run.url] : agreed[run.url][i] < run.number
        /\ \A url \in Urls :
             text.data[url] = Len(given[url]) + (IF url = run.url THEN 1 ELSE 0)
    BY <2>1 DEF NumberInv
  <2>3. given' = [given EXCEPT ![run.url] = Append(@, Len(given[run.url]) + 1)]
    BY <1>2, <1>t, <2>2 DEF SaveNumber
  <2>4. /\ run'.at = "boot" /\ run'.url = run.url /\ run'.counted = run.counted
        /\ run'.number = run.number
    BY <1>t, <2>1, GotoFields
  <2>5. \A url \in Urls : \A i \in DOMAIN given[url] : given[url][i] = i
    BY DEF NumberInv, NumbersInTurn
  <2>6. \A url \in Urls :
          /\ Len(given'[url]) = Len(given[url]) + (IF url = run.url THEN 1 ELSE 0)
          /\ \A i \in DOMAIN given'[url] : given'[url][i] = i
          /\ DOMAIN given[url] \subseteq DOMAIN given'[url]
    BY <1>t, <2>3, <2>5, AppendInTurn
  <2>7. NumbersInTurn'
    BY <2>1, <2>6 DEF NumberInv, NumbersInTurn
  <2>8. \A url \in Urls : numbers'.data[url] = Len(given'[url])
    BY <2>1, <2>2, <2>6, Zenon
  <2>9. run'.number = Len(given'[run'.url])
    BY <1>t, <2>2, <2>4, <2>6
  <2>10. QED
    BY <1>t, <2>1, <2>2, <2>4, <2>7, <2>8, <2>9 DEF NumberInv, IsNamed
<1>3. CASE HandshakeDone
  <2>1. /\ run.at = "handshake" /\ Goto("rounds") /\ UNCHANGED <<numbers, given, text>>
        /\ agreed' = [agreed EXCEPT ![run.url] = IF run.counted THEN Append(@, run.number) ELSE @]
    BY <1>3 DEF HandshakeDone
  <2>2. /\ run'.at = "rounds" /\ run'.url = run.url /\ run'.counted = run.counted
        /\ run'.number = run.number
    BY <1>t, <2>1, GotoFields
  <2>3. \A i \in DOMAIN agreed[run.url] : agreed[run.url][i] < run.number
    BY <2>1 DEF NumberInv
  <2>4. run.counted => run.number \in DOMAIN given[run.url]
    <3>1. run.counted => run.number = Len(given[run.url])
      BY <1>t, <2>1 DEF NumberInv, IsNamed
    <3>2. run.number >= 1 /\ DOMAIN given[run.url] = 1 .. Len(given[run.url])
      BY <1>t, <2>1 DEF NumberInv
    <3>3. QED
      BY <1>t, <3>1, <3>2
  <2>5. ASSUME NEW url \in Urls
        PROVE  /\ \A i, j \in DOMAIN agreed'[url] : i < j => agreed'[url][i] < agreed'[url][j]
               /\ \A i \in DOMAIN agreed'[url] : agreed'[url][i] \in DOMAIN given'[url]
    <3>1. /\ \A i, j \in DOMAIN agreed[url] : i < j => agreed[url][i] < agreed[url][j]
          /\ \A i \in DOMAIN agreed[url] : agreed[url][i] \in DOMAIN given[url]
      BY DEF NumberInv, NumbersInTurn
    <3>2. CASE url = run.url /\ run.counted
      <4>1. agreed'[url] = Append(agreed[url], run.number) /\ agreed[url] \in Seq(Nat)
        BY <1>t, <2>1, <3>2
      <4> DEFINE before == agreed[url]
                 after == agreed'[url]
                 number == run.number
      <4>2. /\ before \in Seq(Nat) /\ number \in Nat /\ after = Append(before, number)
            /\ \A i, j \in DOMAIN before : i < j => before[i] < before[j]
            /\ \A i \in DOMAIN before : before[i] < number
        BY <1>t, <2>3, <3>1, <3>2, <4>1
      <4>3. /\ number \in DOMAIN given'[url]
            /\ \A i \in DOMAIN before : before[i] \in DOMAIN given'[url]
        BY <2>1, <2>4, <3>1, <3>2
      <4> HIDE DEF before, after, number
      <4>4. /\ \A i, j \in DOMAIN after : i < j => after[i] < after[j]
            /\ \A i \in DOMAIN after :
                 after[i] = number \/ \E j \in DOMAIN before : after[i] = before[j]
        BY <4>2, AppendRises
      <4>5. \A i \in DOMAIN after : after[i] \in DOMAIN given'[url]
        BY <4>3, <4>4
      <4>6. QED
        BY <4>4, <4>5 DEF after
    <3>3. CASE ~(url = run.url /\ run.counted)
      <4>1. agreed'[url] = agreed[url]
        BY <1>t, <2>1, <3>3
      <4>2. QED
        BY <2>1, <3>1, <4>1
    <3>4. QED
      BY <3>2, <3>3
  <2>6. NumbersInTurn'
    BY <2>1, <2>5 DEF NumberInv, NumbersInTurn
  <2>7. QED
    BY <2>1, <2>2, <2>6 DEF NumberInv, IsNamed
<1>4. CASE Boot
  <2>1. run.at = "boot" /\ (Goto("series") \/ Goto("handshake"))
    BY <1>4 DEF Boot
  <2>2. QED
    BY <1>4, <1>a, <1>t, <2>1, GotoFields DEF Boot, IsNamed
<1>5. CASE RoundDone
  BY <1>5, <1>s DEF RoundDone
<1>6. CASE EndRounds \/ SeriesEnds
  <2>1. /\ run.at \in {"rounds", "play"} /\ UNCHANGED <<numbers, given, agreed>>
        /\ \E counts, reward \in {run.counted, TRUE, FALSE} \cup BOOLEAN : Conclude(counts, reward)
    BY <1>6 DEF EndRounds, SeriesEnds, Rewards
  <2>2. QED
    BY <1>a, <1>t, <2>1, ConcludeFields DEF IsNamed
<1>7. CASE ReadCounts
  BY <1>7, <1>a, <1>t, GotoFields DEF ReadCounts, IsNamed
<1>8. CASE RecordGame
  <2>1. /\ run.at = "record" /\ (Goto("save_game") \/ Goto("file"))
        /\ UNCHANGED <<numbers, given, agreed>>
    BY <1>8 DEF RecordGame
  <2>2. QED
    BY <1>a, <1>t, <2>1, GotoFields DEF IsNamed
<1>9. CASE SaveGame
  BY <1>9, <1>a, <1>t, GotoFields DEF SaveGame, IsNamed
<1>10. CASE FileResult
  BY <1>10, <1>a, <1>t, GotoFields DEF FileResult, IsNamed
<1>11. CASE SaveResult
  BY <1>11, <1>a, <1>t, GotoFields DEF SaveResult, IsNamed
<1>12. CASE SendReport
  <2>1. /\ run.at = "mail" /\ (run' = run \/ Goto("grace"))
        /\ UNCHANGED <<numbers, given, agreed, text>>
    BY <1>12 DEF SendReport
  <2>2. QED
    BY <1>a, <1>s, <1>t, <2>1, GotoFields DEF IsNamed
<1>13. CASE Finish \/ RaisesOnRead \/ Dies \/ WatchdogFires
  <2>1. /\ UNCHANGED <<numbers, given, agreed>>
        /\ Leave("done") \/ Leave("raised") \/ Leave("died") \/ Leave("shot")
    BY <1>13 DEF Finish, RaisesOnRead, Dies, WatchdogFires, ControlledShutdown
  <2>2. QED
    BY <1>a, <1>t, <2>1, LeaveFields
<1>14. CASE Freeze
  BY <1>14, <1>s, <1>t, FreezeFields DEF Freeze
<1>15. CASE Tick
  BY <1>15, <1>s DEF Tick
<1>16. CASE UNCHANGED vars
  BY <1>16, <1>s DEF vars
<1>17. QED
  BY <1>1, <1>2, <1>3, <1>4, <1>5, <1>6, <1>7, <1>8, <1>9, <1>10, <1>11, <1>12, <1>13, <1>14,
     <1>15, <1>16 DEF Next, MainThread

LEMMA NumberInit == Init => NumberInv
BY DEF Init, NumberInv, NumbersInTurn, IsNamed, File

\* The counted runs under every URL have the numbers 1, 2, 3, ... in turn, and
\* what the handshakes agreed on rises.
THEOREM NumbersGoInTurn == Spec => []NumbersInTurn
<1>1. NumberInv => NumbersInTurn
  BY DEF NumberInv
<1>2. QED
  BY <1>1, NumberInit, NumberStep, TypeInvariant, PeerProcessAssumption, PTL DEF Spec

-----------------------------------------------------------------------------
(* The steps, for what is reported.                                        *)

Playing == {"boot", "handshake", "rounds", "series", "play"}
Recording == {"record", "save_game", "file", "save_result"}
Reported == {"mail", "grace"}

reports == <<league, results, mails, mail>>

SameRun ==
  /\ run'.opponent = run.opponent /\ run'.url = run.url /\ run'.number = run.number
  /\ run'.counted = run.counted /\ run'.counts = run.counts /\ run'.reward = run.reward
  /\ runs' = runs

\* A step within a run, or its end, that reports nothing.
Quiet ==
  /\ SameRun /\ UNCHANGED <<reports, given, concluded, filed>>
  /\ run'.at = "off" \/ text' = text
  /\ \/ run'.at \in {run.at, "off"} /\ seen' = seen
     \/ run.at = "boot" /\ run'.at = "handshake" /\ ~IsStd(run.opponent) /\ seen' = seen
     \/ run.at = "boot" /\ run'.at = "series" /\ IsStd(run.opponent) /\ seen' = seen
     \/ run.at = "handshake" /\ run'.at = "rounds" /\ seen' = seen
     \/ run.at = "series" /\ run'.at = "play" /\ league.ok /\ seen' = league.data

Concluding(counts) ==
  /\ run.at \in Playing /\ run'.at = "record"
  /\ run'.opponent = run.opponent /\ run'.url = run.url /\ run'.number = run.number
  /\ run'.counted = run.counted /\ run'.counts = counts
  /\ concluded' = [concluded EXCEPT ![run.opponent] = IF counts THEN @ \cup {runs} ELSE @]
  /\ counts => run.counted
  /\ IsStd(run.opponent) => run.at = "play"
  /\ IsStd(run.opponent) \/ counts = run.counted
  /\ run'.reward => IsStd(run.opponent) /\ FirstMeeting(run.opponent)
  /\ UNCHANGED <<reports, given, filed, seen, text, runs>>

\* From one place to the next.
Moving(from, to) == run.at = from /\ run'.at = to /\ SameRun

\* Only a std_v1 run gets to a series, only another one to rounds, and the
\* counts it has read are still those of the file when it plays.
PathInv ==
  /\ run.at \in {"series", "play"} => IsStd(run.opponent)
  /\ run.at \in {"handshake", "rounds"} => ~IsStd(run.opponent)
  /\ run.at = "play" => league.ok /\ seen = league.data

\* Every step is one of these, as far as numbers, games and files go.
LEMMA StepKinds ==
  ASSUME TypeOK, PathInv, [Next]_vars
  PROVE  \/ Start \/ SaveNumber \/ Quiet
         \/ \E counts \in BOOLEAN : Concluding(counts)
         \/ RecordGame \/ SaveGame \/ FileResult \/ SaveResult \/ SendReport
<1> USE DEF clock, files, history, reports, SameRun
<1>t. run \in RunStates /\ run.counted \in BOOLEAN
  BY DEF TypeOK, RunOK, RunStates
<1>1. CASE Boot
  BY <1>1, <1>t, GotoFields DEF Boot, Quiet
<1>2. CASE HandshakeDone
  BY <1>2, <1>t, GotoFields DEF HandshakeDone, Quiet
<1>3. CASE RoundDone
  BY <1>3 DEF RoundDone, Quiet
<1>4. CASE EndRounds
  <2>1. Conclude(run.counted, FALSE) /\ run.at = "rounds"
    BY <1>4 DEF EndRounds
  <2>2. /\ run'.at = "record" /\ run'.opponent = run.opponent /\ run'.url = run.url
        /\ run'.number = run.number /\ run'.counted = run.counted
        /\ run'.counts = run.counted /\ run'.reward = FALSE
    BY <1>t, <2>1, ConcludeFields
  <2>3. Concluding(run.counted)
    BY <1>4, <1>t, <2>1, <2>2 DEF EndRounds, Concluding, Conclude, Playing, PathInv
  <2>4. QED
    BY <1>t, <2>3
<1>5. CASE ReadCounts
  BY <1>5, <1>t, GotoFields DEF ReadCounts, Quiet
<1>6. CASE SeriesEnds
  <2>1. PICK outcome \in {"confirmed", "agreed", "unsettled"}, reward \in Rewards(run.opponent) :
          Conclude(run.counted /\ EffectivelyConfirmed(run.opponent, outcome), reward)
    BY <1>6 DEF SeriesEnds
  <2>2. PICK counts \in BOOLEAN :
          counts = (run.counted /\ EffectivelyConfirmed(run.opponent, outcome))
    OBVIOUS
  <2>3. /\ Conclude(counts, reward) /\ (counts => run.counted) /\ run.at = "play"
        /\ reward => FirstMeeting(run.opponent)
    BY <1>6, <2>1, <2>2 DEF SeriesEnds, Rewards
  <2>4. /\ run'.at = "record" /\ run'.opponent = run.opponent /\ run'.url = run.url
        /\ run'.number = run.number /\ run'.counted = run.counted
        /\ run'.counts = counts /\ run'.reward = reward
    BY <1>t, <2>3, ConcludeFields
  <2>5. Concluding(counts)
    BY <1>6, <2>3, <2>4 DEF SeriesEnds, Concluding, Conclude, Playing, PathInv
  <2>6. QED
    BY <2>5
<1>7. CASE Finish \/ RaisesOnRead \/ Dies \/ WatchdogFires
  <2>1. /\ UNCHANGED <<reports, given, concluded, filed, seen, runs>>
        /\ Leave("done") \/ Leave("raised") \/ Leave("died") \/ Leave("shot")
    BY <1>7 DEF Finish, RaisesOnRead, Dies, WatchdogFires, ControlledShutdown
  <2>2. QED
    BY <1>t, <2>1, LeaveFields DEF Quiet
<1>8. CASE Freeze
  BY <1>8, <1>t, FreezeFields DEF Freeze, Quiet
<1>9. CASE Tick
  BY <1>9 DEF Tick, Quiet
<1>10. CASE UNCHANGED vars
  BY <1>10 DEF vars, Quiet
<1>11. QED
  BY <1>1, <1>2, <1>3, <1>4, <1>5, <1>6, <1>7, <1>8, <1>9, <1>10 DEF Next, MainThread

\* What the reporting steps do.
LEMMA RecordGameStep ==
  ASSUME run \in RunStates, RecordGame
  PROVE  /\ UNCHANGED <<results, mails, mail, given, concluded, filed, seen>> /\ league.ok
         /\ \/ /\ run.counts /\ Moving("record", "save_game") /\ league' = Torn
               /\ text' = File([league.data EXCEPT ![run.opponent] = @ + 1])
            \/ ~run.counts /\ Moving("record", "file") /\ UNCHANGED <<league, text>>
<1> USE DEF history
<1>1. CASE run.counts
  BY <1>1, GotoFields DEF RecordGame, Moving, SameRun
<1>2. CASE ~run.counts
  BY <1>2, GotoFields DEF RecordGame, Moving, SameRun
<1>3. QED
  BY <1>1, <1>2

LEMMA SaveGameStep ==
  ASSUME run \in RunStates, SaveGame
  PROVE  /\ UNCHANGED <<results, mails, mail, given, concluded, filed, seen>>
         /\ Moving("save_game", "file") /\ league' = text
BY GotoFields DEF SaveGame, Moving, SameRun, history

LEMMA FileResultStep ==
  ASSUME run \in RunStates, FileResult
  PROVE  /\ UNCHANGED <<league, mails, mail, given, concluded, filed, seen>>
         /\ IsStd(run.opponent) \/ results[run.opponent].ok
         /\ results' = [results EXCEPT ![run.opponent] = Torn]
         /\ text' = File(Merged(run.opponent)) /\ Moving("file", "save_result")
BY GotoFields DEF FileResult, Moving, SameRun, history

LEMMA SaveResultStep ==
  ASSUME run \in RunStates, SaveResult
  PROVE  /\ UNCHANGED <<league, mails, mail, given, concluded, seen>>
         /\ results' = [results EXCEPT ![run.opponent] = text]
         /\ filed' = [filed EXCEPT ![run.opponent] =
                        IF run.counts THEN @ \cup {[run |-> runs, number |-> run.number]} ELSE @]
         /\ Moving("save_result", "mail")
BY GotoFields DEF SaveResult, Moving, SameRun, history

LEMMA SendReportStep ==
  ASSUME run \in RunStates, SendReport
  PROVE  /\ UNCHANGED <<league, results, given, concluded, filed, seen, text>>
         /\ Moving("mail", "mail") \/ Moving("mail", "grace")
<1>1. (run' = run \/ Goto("grace")) /\ run.at = "mail" /\ runs' = runs
  BY DEF SendReport
<1>2. QED
  BY <1>1, GotoFields DEF SendReport, Moving, SameRun, files

LEMMA StartStep ==
  ASSUME PeerProcessAssumption, Start
  PROVE  /\ UNCHANGED <<league, results, given, concluded, filed, mails>> /\ numbers.ok
         /\ run.at = "off" /\ run'.at \in {"save_number", "boot"} /\ runs' = runs + 1
         /\ run'.opponent \in Opponents /\ run'.url \in UrlsOf[run'.opponent]
         /\ run'.number = numbers.data[run'.url] + 1
         /\ mail' = [attempt |-> 1, copies |-> 0]
BY DEF Start, history

LEMMA SaveNumberStep ==
  ASSUME run \in RunStates, SaveNumber
  PROVE  /\ UNCHANGED <<league, results, concluded, filed, mails, mail, seen>>
         /\ given' = [given EXCEPT ![run.url] = IF run.counted THEN Append(@, run.number) ELSE @]
         /\ Moving("save_number", "boot")
BY GotoFields DEF SaveNumber, Moving, SameRun

-----------------------------------------------------------------------------
(* Which games count, and which are filed.                                 *)

\* A run's game is concluded once; only concluded games are filed, each when
\* its result is saved, under a number that was given and, while there is one
\* URL only, beyond the numbers filed before.
GameInv ==
  /\ PathInv
  /\ run.at # "off" => run.url \in UrlsOf[run.opponent] /\ runs >= 1
  /\ \A o \in Opponents :
       /\ concluded[o] \subseteq 1 .. runs /\ IsFiniteSet(filed[o])
       /\ \A game \in filed[o] : game.run \in concluded[o]
       /\ \A url \in UrlsOf[o] : UrlsOf[o] = {url} =>
            \A game \in filed[o] : game.number <= Len(given[url])
  /\ run.at \in Playing \cup {"save_number"} => runs \notin concluded[run.opponent]
  /\ run.at \in Recording => \A game \in filed[run.opponent] : game.run # runs
  /\ run.at \in {"save_number"} \cup Playing \cup Recording /\ UrlsOf[run.opponent] = {run.url} =>
       \A game \in filed[run.opponent] : game.number < run.number
  /\ run.at \in Recording \cup Reported =>
       /\ run.counts => run.counted /\ runs \in concluded[run.opponent]
       /\ ~IsStd(run.opponent) => run.counts = run.counted /\ ~run.reward
  /\ run.at \in Reported /\ run.counts =>
       [run |-> runs, number |-> run.number] \in filed[run.opponent]

\* Appending to one sequence lengthens it and keeps the others.
LEMMA AppendLengthens ==
  ASSUME NEW S, NEW g \in [S -> Seq(Nat)], NEW p \in S, NEW n \in Nat, NEW b,
         NEW h, h = [g EXCEPT ![p] = IF b THEN Append(@, n) ELSE @]
  PROVE  \A o \in S : Len(g[o]) \in Nat /\ Len(g[o]) <= Len(h[o]) /\ Len(h[o]) \in Nat
<1> TAKE o \in S
<1>1. CASE o = p /\ b
  <2>1. g[o] \in Seq(Nat) /\ h[o] = Append(g[o], n)
    BY <1>1
  <2>2. QED
    BY <2>1
<1>2. CASE ~(o = p /\ b)
  <2>1. g[o] \in Seq(Nat) /\ h[o] = g[o]
    BY <1>2
  <2>2. QED
    BY <2>1
<1>3. QED
  BY <1>1, <1>2

LEMMA GameStep ==
  PeerProcessAssumption /\ TypeOK /\ NumberInv /\ GameInv /\ [Next]_vars => GameInv'
<1> SUFFICES ASSUME PeerProcessAssumption, TypeOK, NumberInv, GameInv, [Next]_vars
             PROVE  GameInv'
  OBVIOUS
<1>t. /\ run \in RunStates /\ run.opponent \in Opponents /\ run.url \in Urls
      /\ run.number \in Nat /\ run.counted \in BOOLEAN /\ run.counts \in BOOLEAN
      /\ given \in [Urls -> Seq(Nat)] /\ \A url \in Urls : Len(given[url]) \in Nat
      /\ concluded \in [Opponents -> SUBSET Nat] /\ runs \in Nat
      /\ filed \in [Opponents -> SUBSET [run : Nat, number : Nat]]
      /\ \A o \in Opponents : UrlsOf[o] \subseteq Urls
  BY DEF TypeOK, RunOK, HistoryOK, RunStates, PeerProcessAssumption
<1>1. CASE Start
  <2>1. /\ UNCHANGED <<league, given, concluded, filed>> /\ numbers.ok
        /\ run'.at \in {"save_number", "boot"} /\ runs' = runs + 1
        /\ run'.opponent \in Opponents /\ run'.url \in UrlsOf[run'.opponent]
        /\ run'.number = numbers.data[run'.url] + 1
    BY <1>1, StartStep
  <2>2. run'.url \in Urls /\ run'.number = Len(given[run'.url]) + 1
    BY <1>t, <2>1 DEF NumberInv
  <2>3. \A o \in Opponents : concluded[o] \subseteq 1 .. runs + 1 /\ runs + 1 \notin concluded[o]
    BY <1>t DEF GameInv
  <2>4. UrlsOf[run'.opponent] = {run'.url} =>
          \A game \in filed[run'.opponent] : game.number < run'.number
    <3>1. UrlsOf[run'.opponent] = {run'.url} =>
            \A game \in filed[run'.opponent] : game.number <= Len(given[run'.url])
      BY <2>1 DEF GameInv
    <3>2. \A game \in filed[run'.opponent] : game.number \in Nat
      BY <1>t, <2>1
    <3>3. QED
      BY <1>t, <2>2, <3>1, <3>2
  <2>5. \A o \in Opponents :
          /\ concluded'[o] \subseteq 1 .. runs' /\ IsFiniteSet(filed'[o])
          /\ \A game \in filed'[o] : game.run \in concluded'[o]
          /\ \A url \in UrlsOf[o] : UrlsOf[o] = {url} =>
               \A game \in filed'[o] : game.number <= Len(given'[url])
    BY <2>1, <2>3 DEF GameInv
  <2>6. PathInv'
    BY <2>1 DEF PathInv
  <2>7. /\ run'.at \notin Recording \cup Reported /\ runs' >= 1
        /\ runs' \notin concluded'[run'.opponent] /\ filed' = filed
    BY <1>t, <2>1, <2>3 DEF Recording, Reported
  <2>8. QED
    BY <2>1, <2>4, <2>5, <2>6, <2>7 DEF GameInv
<1>2. CASE SaveNumber
  <2>1. /\ UNCHANGED <<league, concluded, filed>> /\ Moving("save_number", "boot")
        /\ given' = [given EXCEPT ![run.url] = IF run.counted THEN Append(@, run.number) ELSE @]
    BY <1>2, <1>t, SaveNumberStep
  <2>2. \A url \in Urls : Len(given[url]) <= Len(given'[url]) /\ Len(given'[url]) \in Nat
    BY <1>t, <2>1, AppendLengthens
  <2>3. \A o \in Opponents : \A url \in UrlsOf[o] : UrlsOf[o] = {url} =>
          \A game \in filed[o] : game.number <= Len(given'[url])
    <3> SUFFICES ASSUME NEW o \in Opponents, NEW url \in UrlsOf[o], UrlsOf[o] = {url},
                        NEW game \in filed[o]
                 PROVE  game.number <= Len(given'[url])
      OBVIOUS
    <3>1. url \in Urls /\ game.number \in Nat
      BY <1>t
    <3>2. game.number <= Len(given[url])
      BY DEF GameInv
    <3>3. QED
      BY <1>t, <2>2, <3>1, <3>2
  <2>4. PathInv'
    BY <2>1 DEF PathInv, Moving
  <2>5. QED
    BY <2>1, <2>3, <2>4 DEF GameInv, Moving, SameRun, Playing, Recording, Reported
<1>3. CASE Quiet
  <2>1. SameRun /\ UNCHANGED <<league, given, concluded, filed>>
    BY <1>3 DEF Quiet, reports
  <2>2. CASE run'.at = "off"
    BY <2>1, <2>2 DEF GameInv, PathInv, SameRun, Playing, Recording, Reported
  <2>3. CASE run'.at = run.at /\ seen' = seen
    BY <2>1, <2>3 DEF GameInv, PathInv, SameRun
  <2>4. CASE run'.at # "off" /\ ~(run'.at = run.at /\ seen' = seen)
    <3>1. /\ run.at \in Playing /\ run'.at \in Playing
          /\ run'.at \in {"series", "play"} => IsStd(run.opponent)
          /\ run'.at \in {"handshake", "rounds"} => ~IsStd(run.opponent)
          /\ run'.at = "play" => league.ok /\ seen' = league.data
      BY <1>3, <2>4 DEF Quiet, GameInv, PathInv, Playing
    <3>2. PathInv'
      BY <2>1, <3>1 DEF PathInv, SameRun, IsStd
    <3>3. QED
      BY <2>1, <3>1, <3>2 DEF GameInv, SameRun, Playing, Recording, Reported
  <2>5. QED
    BY <2>2, <2>3, <2>4
<1>4. ASSUME NEW counts \in BOOLEAN, Concluding(counts) PROVE GameInv'
  <2>1. /\ run.at \in Playing /\ run'.at = "record"
        /\ run'.opponent = run.opponent /\ run'.url = run.url
        /\ run'.number = run.number /\ run'.counted = run.counted
        /\ run'.counts = counts /\ UNCHANGED <<given, filed, runs>>
        /\ counts => run.counted
        /\ ~IsStd(run.opponent) => counts = run.counted /\ ~run'.reward
        /\ concluded' = [concluded EXCEPT ![run.opponent] = IF counts THEN @ \cup {runs} ELSE @]
    BY <1>4 DEF Concluding
  <2>2. runs \in 1 .. runs
    BY <1>t, <2>1 DEF GameInv, Playing
  <2>3. \A o \in Opponents :
          concluded[o] \subseteq concluded'[o] /\ concluded'[o] \subseteq 1 .. runs
    BY <1>t, <2>1, <2>2 DEF GameInv
  <2>4. counts => runs \in concluded'[run.opponent]
    BY <1>t, <2>1
  <2>5. \A game \in filed[run.opponent] : game.run # runs
    BY <1>t, <2>1 DEF GameInv
  <2>6. PathInv'
    BY <2>1 DEF PathInv
  <2>7. \A o \in Opponents :
          /\ concluded'[o] \subseteq 1 .. runs' /\ IsFiniteSet(filed'[o])
          /\ \A game \in filed'[o] : game.run \in concluded'[o]
          /\ \A url \in UrlsOf[o] : UrlsOf[o] = {url} =>
               \A game \in filed'[o] : game.number <= Len(given'[url])
    BY <2>1, <2>3 DEF GameInv
  <2>8. run.url \in UrlsOf[run.opponent]
    BY <2>1 DEF GameInv, Playing
  <2>9. UrlsOf[run.opponent] = {run.url} =>
          \A game \in filed[run.opponent] : game.number < run.number
    BY <2>1 DEF GameInv
  <2>10. QED
    BY <2>1, <2>4, <2>5, <2>6, <2>7, <2>8, <2>9 DEF GameInv, Playing, Recording, Reported, IsStd
\* The reporting steps that conclude and file nothing.
<1>5. ASSUME NEW from \in Recording \cup Reported, NEW to \in Recording \cup Reported,
             Moving(from, to),
             from \in Recording \/ to \in Reported, from \in Reported \/ to \in Recording,
             UNCHANGED <<given, concluded, filed>>
      PROVE  GameInv'
  <2>1. PathInv'
    BY <1>5 DEF PathInv, Moving, Recording, Reported
  <2>2. QED
    BY <1>5, <2>1 DEF GameInv, Moving, SameRun, Playing, Recording, Reported, IsStd
<1>6. CASE RecordGame
  <2>1. UNCHANGED <<given, concluded, filed>>
        /\ (Moving("record", "save_game") \/ Moving("record", "file"))
    BY <1>6, <1>t, RecordGameStep
  <2>2. QED
    BY <1>5, <2>1 DEF Recording, Reported
<1>7. CASE SaveGame
  BY <1>5, <1>7, <1>t, SaveGameStep DEF Recording, Reported
<1>8. CASE FileResult
  BY <1>5, <1>8, <1>t, FileResultStep DEF Recording, Reported
<1>9. CASE SaveResult
  <2>1. /\ Moving("save_result", "mail") /\ UNCHANGED <<given, concluded>>
        /\ filed' = [filed EXCEPT ![run.opponent] =
                       IF run.counts THEN @ \cup {[run |-> runs, number |-> run.number]} ELSE @]
    BY <1>9, <1>t, SaveResultStep
  <2> DEFINE game == [run |-> runs, number |-> run.number]
  <2>2. game.run = runs /\ game.number = run.number
    OBVIOUS
  <2>3. run.counts => run.counted /\ game.run \in concluded[run.opponent]
    BY <2>1, <2>2 DEF GameInv, Moving, Recording
  <2>4. run.counts => game.number <= Len(given[run.url])
    <3>1. run.counted => run.number = Len(given[run.url])
      BY <1>t, <2>1 DEF NumberInv, IsNamed, Moving
    <3>2. QED
      BY <1>t, <2>2, <2>3, <3>1
  <2>5. run.url \in UrlsOf[run.opponent]
    BY <2>1 DEF GameInv, Moving
  <2> HIDE DEF game
  <2>6. ASSUME NEW o \in Opponents
        PROVE  /\ concluded'[o] \subseteq 1 .. runs' /\ IsFiniteSet(filed'[o])
               /\ \A g \in filed'[o] : g.run \in concluded'[o]
               /\ \A url \in UrlsOf[o] : UrlsOf[o] = {url} =>
                    \A g \in filed'[o] : g.number <= Len(given'[url])
    <3>1. /\ concluded[o] \subseteq 1 .. runs /\ IsFiniteSet(filed[o])
          /\ \A g \in filed[o] : g.run \in concluded[o]
          /\ \A url \in UrlsOf[o] : UrlsOf[o] = {url} =>
               \A g \in filed[o] : g.number <= Len(given[url])
      BY DEF GameInv
    <3>2. CASE o = run.opponent /\ run.counts
      <4>1. filed'[o] = filed[o] \cup {game}
        BY <1>t, <2>1, <3>2 DEF game
      <4>2. IsFiniteSet(filed'[o])
        <5>1. IsFiniteSet(filed[o] \cup {game})
          BY <3>1, FS_AddElement
        <5>2. QED
          BY <4>1, <5>1
      <4>3. \A url \in UrlsOf[o] : UrlsOf[o] = {url} =>
              \A g \in filed'[o] : g.number <= Len(given'[url])
        <5> SUFFICES ASSUME NEW url \in UrlsOf[o], UrlsOf[o] = {url}, NEW g \in filed'[o]
                     PROVE  g.number <= Len(given[url])
          BY <2>1
        <5>1. url = run.url
          BY <2>5, <3>2
        <5>2. CASE g = game
          BY <2>4, <3>2, <5>1, <5>2
        <5>3. CASE g \in filed[o]
          BY <3>1, <5>3
        <5>4. QED
          BY <4>1, <5>2, <5>3
      <4>4. \A g \in filed'[o] : g.run \in concluded'[o]
        BY <2>1, <2>3, <3>1, <3>2, <4>1
      <4>5. QED
        BY <2>1, <3>1, <4>2, <4>3, <4>4 DEF Moving, SameRun
    <3>3. CASE ~(o = run.opponent /\ run.counts)
      <4>1. filed'[o] = filed[o]
        BY <1>t, <2>1, <3>3
      <4>2. QED
        BY <2>1, <3>1, <4>1 DEF Moving, SameRun
    <3>4. QED
      BY <3>2, <3>3
  <2>7. run.counts => game \in filed'[run.opponent]
    BY <1>t, <2>1 DEF game
  <2>8. PathInv'
    BY <2>1 DEF PathInv, Moving
  <2>9. QED
    BY <2>1, <2>6, <2>7, <2>8
    DEF GameInv, Moving, SameRun, Playing, Recording, Reported, IsStd, game
<1>10. CASE SendReport
  <2>1. UNCHANGED <<given, concluded, filed>> /\ (Moving("mail", "mail") \/ Moving("mail", "grace"))
    BY <1>10, <1>t, SendReportStep
  <2>2. QED
    BY <1>5, <2>1 DEF Recording, Reported
<1>11. QED
  BY <1>1, <1>2, <1>3, <1>4, <1>6, <1>7, <1>8, <1>9, <1>10, StepKinds DEF GameInv

LEMMA GameInit == Init => GameInv
BY FS_EmptySet DEF Init, GameInv, PathInv, Playing, Recording, Reported

LEMMA GamesInvariant == Spec => [](TypeOK /\ WatchInv /\ NumberInv /\ GameInv)
BY GameInit, GameStep, NumberInit, NumberStep, TypeInvariant, PeerProcessAssumption, PTL DEF Spec


-----------------------------------------------------------------------------
(* The league's counter.                                                   *)

\* The one game that the run under way still owes a set.
Owed(o, places) == IF run.opponent = o /\ run.at \in places /\ run.counts THEN 1 ELSE 0

\* The counter, or the text it is about to be filled with, is between the games
\* filed and the games concluded, with the game under way on the side of what
\* is still to be done for it.
LeagueInv ==
  /\ run.at = "save_game" => run.counts
  /\ league.ok => \A o \in Opponents :
       /\ Cardinality(filed[o]) + Owed(o, {"file", "save_result"}) <= league.data[o]
       /\ league.data[o] + Owed(o, {"record"}) <= Cardinality(concluded[o])
  /\ run.at = "save_game" => \A o \in Opponents :
       /\ Cardinality(filed[o]) + Owed(o, {"save_game"}) <= text.data[o]
       /\ text.data[o] <= Cardinality(concluded[o])

LEMMA GamesAreFinite ==
  ASSUME TypeOK, GameInv
  PROVE  \A o \in Opponents :
           /\ IsFiniteSet(concluded[o]) /\ IsFiniteSet(filed[o])
           /\ Cardinality(concluded[o]) \in Nat /\ Cardinality(filed[o]) \in Nat
<1> TAKE o \in Opponents
<1>1. runs \in Int
  BY DEF TypeOK, HistoryOK
<1>2. IsFiniteSet(1 .. runs)
  BY <1>1, FS_Interval
<1>3. concluded[o] \subseteq 1 .. runs /\ IsFiniteSet(filed[o])
  BY DEF GameInv
<1>4. IsFiniteSet(concluded[o])
  BY <1>2, <1>3, FS_Subset
<1>5. QED
  BY <1>3, <1>4, FS_CardinalityType

LEMMA LeagueStep ==
  PeerProcessAssumption /\ TypeOK /\ NumberInv /\ GameInv /\ LeagueInv /\ [Next]_vars => LeagueInv'
<1> SUFFICES ASSUME PeerProcessAssumption, TypeOK, NumberInv, GameInv, LeagueInv, [Next]_vars
             PROVE  LeagueInv'
  OBVIOUS
<1>t. /\ run \in RunStates /\ run.opponent \in Opponents /\ run.counts \in BOOLEAN
      /\ concluded \in [Opponents -> SUBSET Nat] /\ runs \in Nat
      /\ filed \in [Opponents -> SUBSET [run : Nat, number : Nat]]
      /\ league.ok => league.data \in [Opponents -> Nat]
  BY FileFacts DEF TypeOK, RunOK, HistoryOK, RunStates, FilesOK
<1>f. \A o \in Opponents :
        /\ IsFiniteSet(concluded[o]) /\ IsFiniteSet(filed[o])
        /\ Cardinality(concluded[o]) \in Nat /\ Cardinality(filed[o]) \in Nat
        /\ league.ok => league.data[o] \in Nat
  BY <1>t, GamesAreFinite
<1>x. run.at = "save_game" => text \in Texts([Opponents -> Nat])
  BY DEF TypeOK, TextOK
<1>a. ASSUME UNCHANGED <<league, concluded, filed>>,
             \/ run.at \notin Recording /\ run'.at \notin Recording
             \/ run'.at = "off"
      PROVE  LeagueInv'
  BY <1>a, <1>f DEF Recording, LeagueInv, Owed
<1>1. CASE Start
  <2>1. /\ UNCHANGED <<league, concluded, filed>>
        /\ run.at = "off" /\ run'.at \in {"save_number", "boot"}
    BY <1>1, StartStep
  <2>2. QED
    BY <1>a, <2>1 DEF Recording
<1>2. CASE SaveNumber
  <2>1. UNCHANGED <<league, concluded, filed>> /\ Moving("save_number", "boot")
    BY <1>2, <1>t, SaveNumberStep
  <2>2. QED
    BY <1>a, <2>1 DEF Moving, Recording
<1>3. CASE Quiet
  <2>1. SameRun /\ UNCHANGED <<league, concluded, filed>> /\ (run'.at = "off" \/ text' = text)
    BY <1>3 DEF Quiet, reports
  <2>2. CASE run'.at = run.at /\ run'.at # "off"
    BY <2>1, <2>2 DEF SameRun, LeagueInv, Owed
  <2>3. CASE run'.at # run.at \/ run'.at = "off"
    BY <1>3, <1>a, <2>1, <2>3 DEF Quiet, Recording
  <2>4. QED
    BY <2>2, <2>3
<1>4. ASSUME NEW counts \in BOOLEAN, Concluding(counts) PROVE LeagueInv'
  <2>1. /\ run.at \in Playing /\ run'.at = "record" /\ run'.opponent = run.opponent
        /\ run'.counts = counts /\ UNCHANGED <<league, filed>>
        /\ concluded' = [concluded EXCEPT ![run.opponent] = IF counts THEN @ \cup {runs} ELSE @]
    BY <1>4 DEF Concluding, reports
  <2>2. runs \notin concluded[run.opponent]
    BY <2>1 DEF GameInv
  <2>3. \A o \in Opponents :
          Cardinality(concluded'[o]) =
            Cardinality(concluded[o]) + (IF o = run.opponent /\ counts THEN 1 ELSE 0)
    <3> TAKE o \in Opponents
    <3>1. CASE o = run.opponent /\ counts
      <4>1. concluded'[o] = concluded[o] \cup {runs} /\ runs \notin concluded[o]
        BY <1>t, <2>1, <2>2, <3>1
      <4>2. Cardinality(concluded[o] \cup {runs}) = Cardinality(concluded[o]) + 1
        BY <1>f, <4>1, FS_AddElement
      <4>3. QED
        BY <3>1, <4>1, <4>2
    <3>2. CASE ~(o = run.opponent /\ counts)
      <4>1. concluded'[o] = concluded[o]
        BY <1>t, <2>1, <3>2
      <4>2. QED
        BY <1>f, <3>2, <4>1
    <3>3. QED
      BY <3>1, <3>2
  <2>4. ASSUME NEW o \in Opponents, league.ok
        PROVE  /\ Cardinality(filed'[o]) + Owed(o, {"file", "save_result"})' <= league'.data[o]
               /\ league'.data[o] + Owed(o, {"record"})' <= Cardinality(concluded'[o])
    <3>1. /\ Owed(o, {"file", "save_result"})' = 0
          /\ Owed(o, {"record"})' = IF o = run.opponent /\ counts THEN 1 ELSE 0
      BY <2>1 DEF Owed
    <3>2. Owed(o, {"file", "save_result"}) = 0 /\ Owed(o, {"record"}) = 0
      BY <2>1 DEF Owed, Playing
    <3>3. Cardinality(filed[o]) <= league.data[o] /\ league.data[o] <= Cardinality(concluded[o])
      BY <1>f, <2>4, <3>2 DEF LeagueInv
    <3>4. filed'[o] = filed[o] /\ league'.data[o] = league.data[o]
      BY <2>1
    <3>5. /\ Cardinality(filed[o]) \in Nat /\ Cardinality(concluded[o]) \in Nat
          /\ league.data[o] \in Nat
      BY <1>f, <2>4
    <3>6. Cardinality(filed'[o]) + 0 <= league'.data[o]
      BY <3>3, <3>4, <3>5
    <3>7. Cardinality(concluded'[o]) = Cardinality(concluded[o]) + Owed(o, {"record"})'
      BY <2>3, <3>1
    <3>8. league'.data[o] + Owed(o, {"record"})' <= Cardinality(concluded'[o])
      BY <3>1, <3>3, <3>4, <3>5, <3>7
    <3>9. QED
      BY <3>1, <3>6, <3>8
  <2>5. QED
    BY <2>1, <2>4 DEF LeagueInv
<1>5. CASE RecordGame
  <2>1. UNCHANGED <<concluded, filed>> /\ league.ok
    BY <1>5, <1>t, RecordGameStep
  <2>2. CASE run.counts
    <3>1. /\ Moving("record", "save_game") /\ league' = Torn
          /\ text' = File([league.data EXCEPT ![run.opponent] = @ + 1])
      BY <1>5, <1>t, <2>2, RecordGameStep
    <3>2. \A o \in Opponents :
            text'.data[o] = league.data[o] + (IF o = run.opponent THEN 1 ELSE 0)
      <4>1. text'.data = [league.data EXCEPT ![run.opponent] = @ + 1]
        BY <3>1 DEF File
      <4>2. QED
        BY <1>t, <2>1, <4>1
    <3>3. ~league'.ok
      BY <3>1 DEF Torn
    <3>4. \A o \in Opponents :
            /\ Cardinality(filed[o]) + Owed(o, {"file", "save_result"}) <= league.data[o]
            /\ league.data[o] + Owed(o, {"record"}) <= Cardinality(concluded[o])
      BY <2>1 DEF LeagueInv
    <3>5. QED
      BY <1>f, <2>1, <2>2, <3>1, <3>2, <3>3, <3>4 DEF Moving, SameRun, LeagueInv, Owed
  <2>3. CASE ~run.counts
    <3>1. Moving("record", "file") /\ league' = league
      BY <1>5, <1>t, <2>3, RecordGameStep
    <3>2. QED
      BY <1>f, <2>1, <2>3, <3>1 DEF Moving, SameRun, LeagueInv, Owed
  <2>4. QED
    BY <2>2, <2>3
<1>6. CASE SaveGame
  <2>1. UNCHANGED <<concluded, filed>> /\ Moving("save_game", "file") /\ league' = text
    BY <1>6, <1>t, SaveGameStep
  <2>2. \A o \in Opponents : text.data[o] \in Nat
    <3>1. text \in Texts([Opponents -> Nat])
      BY <1>x, <2>1 DEF Moving
    <3>2. QED
      BY <3>1 DEF Texts
  <2>3. QED
    BY <1>f, <2>1, <2>2 DEF Moving, SameRun, LeagueInv, Owed
<1>7. CASE FileResult
  <2>1. UNCHANGED <<league, concluded, filed>> /\ Moving("file", "save_result")
    BY <1>7, <1>t, FileResultStep
  <2>2. QED
    BY <1>f, <2>1 DEF Moving, SameRun, LeagueInv, Owed
<1>8. CASE SaveResult
  <2>1. Moving("save_result", "mail") /\ UNCHANGED <<league, concluded>>
        /\ filed' = [filed EXCEPT ![run.opponent] =
                       IF run.counts THEN @ \cup {[run |-> runs, number |-> run.number]} ELSE @]
    BY <1>8, <1>t, SaveResultStep
  <2>3. [run |-> runs, number |-> run.number] \notin filed[run.opponent]
    BY <2>1 DEF GameInv, Moving, Recording
  <2>4. \A o \in Opponents :
          Cardinality(filed'[o]) =
            Cardinality(filed[o]) + (IF o = run.opponent /\ run.counts THEN 1 ELSE 0)
    <3> DEFINE game == [run |-> runs, number |-> run.number]
    <3>1. /\ filed' = [filed EXCEPT ![run.opponent] = IF run.counts THEN @ \cup {game} ELSE @]
          /\ game \notin filed[run.opponent]
      BY <2>1, <2>3
    <3> HIDE DEF game
    <3> TAKE o \in Opponents
    <3>2. CASE o = run.opponent /\ run.counts
      <4>1. filed'[o] = filed[o] \cup {game} /\ game \notin filed[o]
        BY <1>t, <3>1, <3>2
      <4>2. Cardinality(filed[o] \cup {game}) = Cardinality(filed[o]) + 1
        BY <1>f, <4>1, FS_AddElement
      <4>3. QED
        BY <3>2, <4>1, <4>2
    <3>3. CASE ~(o = run.opponent /\ run.counts)
      <4>1. filed'[o] = filed[o]
        BY <1>t, <3>1, <3>3
      <4>2. QED
        BY <1>f, <3>3, <4>1
    <3>4. QED
      BY <3>2, <3>3
  <2>5. ASSUME NEW o \in Opponents, league.ok
        PROVE  /\ Cardinality(filed'[o]) + Owed(o, {"file", "save_result"})' <= league'.data[o]
               /\ league'.data[o] + Owed(o, {"record"})' <= Cardinality(concluded'[o])
    <3>1. Owed(o, {"file", "save_result"})' = 0 /\ Owed(o, {"record"})' = 0
      BY <2>1 DEF Owed, Moving
    <3>2. Owed(o, {"file", "save_result"}) = IF o = run.opponent /\ run.counts THEN 1 ELSE 0
      BY <2>1 DEF Owed, Moving
    <3>3. Owed(o, {"record"}) = 0
      BY <2>1 DEF Owed, Moving
    <3>4. /\ Cardinality(filed[o]) + Owed(o, {"file", "save_result"}) <= league.data[o]
          /\ league.data[o] <= Cardinality(concluded[o])
      BY <1>f, <2>5, <3>3 DEF LeagueInv
    <3>5. concluded'[o] = concluded[o] /\ league'.data[o] = league.data[o]
      BY <2>1
    <3>6. /\ Cardinality(filed[o]) \in Nat /\ Cardinality(concluded[o]) \in Nat
          /\ league.data[o] \in Nat
      BY <1>f, <2>5
    <3>7. Cardinality(filed'[o]) <= league.data[o] /\ Cardinality(filed'[o]) \in Nat
      BY <2>4, <3>2, <3>4, <3>6
    <3>8. Cardinality(filed'[o]) + 0 <= league'.data[o]
      BY <3>5, <3>6, <3>7
    <3>9. league'.data[o] + 0 <= Cardinality(concluded'[o])
      BY <3>4, <3>5, <3>6
    <3>10. QED
      BY <3>1, <3>8, <3>9
  <2>6. QED
    BY <2>1, <2>5 DEF LeagueInv, Moving
<1>9. CASE SendReport
  <2>1. /\ UNCHANGED <<league, concluded, filed>>
        /\ run.at = "mail" /\ run'.at \in {"mail", "grace"}
    BY <1>9, <1>t, SendReportStep DEF Moving
  <2>2. QED
    BY <1>a, <2>1 DEF Recording
<1>10. QED
  BY <1>1, <1>2, <1>3, <1>4, <1>5, <1>6, <1>7, <1>8, <1>9, StepKinds DEF GameInv

LEMMA LeagueInvariant == Spec => [](TypeOK /\ NumberInv /\ GameInv /\ LeagueInv)
<1>1. Init => LeagueInv
  BY FS_EmptySet DEF Init, LeagueInv, Owed, File
<1>2. QED
  BY <1>1, GamesInvariant, LeagueStep, PeerProcessAssumption, PTL DEF Spec

\* Where the league file can be read, its count for an opponent is between the
\* games filed as counted and the counted games concluded.
THEOREM LeagueCountIsHonest == Spec => []LeagueIsHonest
<1>1. TypeOK /\ GameInv /\ LeagueInv => LeagueIsHonest
  <2> SUFFICES ASSUME TypeOK, GameInv, LeagueInv, league.ok, NEW o \in Opponents
               PROVE  Cardinality(filed[o]) <= league.data[o]
                      /\ league.data[o] <= Cardinality(concluded[o])
    BY DEF LeagueIsHonest
  <2>1. Cardinality(filed[o]) \in Nat /\ Cardinality(concluded[o]) \in Nat
    BY GamesAreFinite
  <2>2. league.data[o] \in Nat
    BY FileFacts DEF TypeOK, FilesOK
  <2>3. QED
    BY <2>1, <2>2 DEF LeagueInv, Owed
<1>2. QED
  BY <1>1, LeagueInvariant, PTL

-----------------------------------------------------------------------------
(* The result files.                                                       *)

ThisEntry == Entry(run.number, run.counts, run.reward)
Holds(entries, games) == \A game \in games : Entry(game.number, TRUE, FALSE) \in entries

\* What is filed is in the file where it can be read, and in the text it is
\* about to be filled with, together with the game under way.
ResultInv ==
  /\ CountedStay
  /\ run.at = "save_result" =>
       /\ ThisEntry \in text.data
       /\ ~IsStd(run.opponent) /\ OneUrl(run.opponent) => Holds(text.data, filed[run.opponent])

LEMMA ResultStep ==
  PeerProcessAssumption /\ TypeOK /\ NumberInv /\ GameInv /\ ResultInv /\ [Next]_vars => ResultInv'
<1> SUFFICES ASSUME PeerProcessAssumption, TypeOK, NumberInv, GameInv, ResultInv, [Next]_vars
             PROVE  ResultInv'
  OBVIOUS
<1>t. /\ run \in RunStates /\ run.opponent \in Opponents /\ run.number \in Nat
      /\ run.counts \in BOOLEAN /\ run.reward \in BOOLEAN
      /\ results \in [Opponents -> TextFile(SUBSET Entries)]
      /\ filed \in [Opponents -> SUBSET [run : Nat, number : Nat]]
  BY DEF TypeOK, RunOK, FilesOK, HistoryOK, RunStates
<1>a. ASSUME UNCHANGED <<results, filed>>, run'.at # "save_result" PROVE ResultInv'
  BY <1>a DEF ResultInv, CountedStay, OneUrl
<1>1. CASE Start
  <2>1. UNCHANGED <<results, filed>> /\ run'.at \in {"save_number", "boot"}
    BY <1>1, StartStep
  <2>2. QED
    BY <1>a, <2>1
<1>2. CASE SaveNumber
  BY <1>2, <1>a, <1>t, SaveNumberStep DEF Moving
<1>3. CASE Quiet
  <2>1. SameRun /\ UNCHANGED <<results, filed>> /\ (run'.at = "off" \/ text' = text)
    BY <1>3 DEF Quiet, reports
  <2>2. CASE run'.at = run.at /\ run'.at # "off"
    BY <2>1, <2>2 DEF SameRun, ResultInv, CountedStay, OneUrl, ThisEntry, Entry, Holds, IsStd
  <2>3. CASE run'.at # run.at \/ run'.at = "off"
    BY <1>3, <1>a, <2>1, <2>3 DEF Quiet
  <2>4. QED
    BY <2>2, <2>3
<1>4. ASSUME NEW counts \in BOOLEAN, Concluding(counts) PROVE ResultInv'
  BY <1>4, <1>a DEF Concluding, reports
<1>5. CASE RecordGame
  BY <1>5, <1>a, <1>t, RecordGameStep DEF Moving
<1>6. CASE SaveGame
  BY <1>6, <1>a, <1>t, SaveGameStep DEF Moving
<1>7. CASE FileResult
  <2> DEFINE o == run.opponent
  <2>1. /\ Moving("file", "save_result") /\ UNCHANGED filed
        /\ IsStd(o) \/ results[o].ok
        /\ results' = [results EXCEPT ![o] = Torn] /\ text' = File(Merged(o))
    BY <1>7, <1>t, FileResultStep
  <2>2. text'.data = Merged(o)
    BY <2>1 DEF File
  <2>3. ThisEntry \in Merged(o)
    BY DEF Merged, ThisEntry
  <2>4. ASSUME ~IsStd(o), OneUrl(o) PROVE Holds(Merged(o), filed[o])
    <3>1. UrlsOf[o] = {run.url}
      <4>1. run.url \in UrlsOf[o]
        BY <2>1 DEF GameInv, Moving
      <4>2. QED
        BY <2>4, <4>1 DEF OneUrl
    <3>2. \A game \in filed[o] : game.number < run.number /\ game.number \in Nat
      BY <1>t, <2>1, <3>1 DEF GameInv, Moving, Recording
    <3>3. \A game \in filed[o] : Entry(game.number, TRUE, FALSE) \in results[o].data
      BY <1>t, <2>1, <2>4 DEF ResultInv, CountedStay, IsStd
    <3> SUFFICES ASSUME NEW game \in filed[o]
                 PROVE  Entry(game.number, TRUE, FALSE) \in Merged(o)
      BY DEF Holds
    <3>4. Entry(game.number, TRUE, FALSE).number # run.number
      BY <1>t, <3>2 DEF Entry
    <3>5. QED
      BY <2>4, <3>3, <3>4 DEF Merged
  <2>5. CountedStay'
    <3> SUFFICES ASSUME NEW p \in Opponents \ StdOpponents, OneUrl(p), results'[p].ok,
                        NEW game \in filed[p]
                 PROVE  Entry(game.number, TRUE, FALSE) \in results'[p].data
      BY <2>1 DEF CountedStay, OneUrl
    <3>1. p # o
      BY <1>t, <2>1, TornFacts
    <3>2. results'[p] = results[p]
      BY <1>t, <2>1, <3>1
    <3>3. QED
      BY <3>2 DEF ResultInv, CountedStay
  <2>6. ThisEntry' = ThisEntry /\ o' = o /\ OneUrl(o)' = OneUrl(o) /\ IsStd(o)' = IsStd(o)
    BY <2>1 DEF Moving, SameRun, ThisEntry, Entry, OneUrl, IsStd
  <2>7. ~IsStd(o) /\ OneUrl(o) => Holds(text.data, filed[o])'
    BY <2>1, <2>2, <2>4, <2>6 DEF Holds
  <2>8. QED
    BY <2>2, <2>3, <2>5, <2>6, <2>7 DEF ResultInv
<1>8. CASE SaveResult
  <2> DEFINE o == run.opponent
             game == [run |-> runs, number |-> run.number]
  <2>1. /\ Moving("save_result", "mail") /\ results' = [results EXCEPT ![o] = text]
        /\ filed' = [filed EXCEPT ![o] = IF run.counts THEN @ \cup {game} ELSE @]
    BY <1>8, <1>t, SaveResultStep
  <2>2. ThisEntry \in text.data /\ (~IsStd(o) /\ OneUrl(o) => Holds(text.data, filed[o]))
    BY <2>1 DEF ResultInv, Moving
  <2>3. ~IsStd(o) => ~run.reward
    BY <1>t, <2>1 DEF GameInv, Moving, Recording
  <2>4. run.counts /\ ~IsStd(o) => Entry(game.number, TRUE, FALSE) \in text.data
    <3>1. run.counts /\ ~IsStd(o) => ThisEntry = Entry(game.number, TRUE, FALSE)
      BY <1>t, <2>3 DEF ThisEntry
    <3>2. QED
      BY <2>2, <3>1
  <2> HIDE DEF game, o
  <2>5. CountedStay'
    <3> SUFFICES ASSUME NEW p \in Opponents \ StdOpponents, OneUrl(p), results'[p].ok,
                        NEW g \in filed'[p]
                 PROVE  Entry(g.number, TRUE, FALSE) \in results'[p].data
      BY <2>1 DEF CountedStay, OneUrl
    <3>1. CASE p = o
      <4>1. results'[p] = text /\ ~IsStd(o) /\ OneUrl(o)
        BY <1>t, <2>1, <3>1 DEF IsStd
      <4>2. g \in filed[o] \/ (run.counts /\ g = game)
        BY <1>t, <2>1, <3>1 DEF o
      <4>3. CASE g \in filed[o]
        BY <2>2, <4>1, <4>3 DEF Holds
      <4>4. CASE run.counts /\ g = game
        BY <2>4, <4>1, <4>4
      <4>5. QED
        BY <4>2, <4>3, <4>4
    <3>2. CASE p # o
      <4>1. results'[p] = results[p] /\ g \in filed[p]
        BY <1>t, <2>1, <3>2 DEF o
      <4>2. QED
        BY <4>1 DEF ResultInv, CountedStay
    <3>3. QED
      BY <3>1, <3>2
  <2>6. QED
    BY <2>1, <2>5 DEF ResultInv, Moving
<1>9. CASE SendReport
  BY <1>9, <1>a, <1>t, SendReportStep DEF Moving
<1>10. QED
  BY <1>1, <1>2, <1>3, <1>4, <1>5, <1>6, <1>7, <1>8, <1>9, StepKinds DEF GameInv

\* A game filed as counted against a native or cop_v1 opponent with one URL is
\* in its result file whenever that can be read.
THEOREM CountedGamesStay == Spec => []CountedStay
<1>1. Init => ResultInv
  BY DEF Init, ResultInv, CountedStay
<1>2. ResultInv => CountedStay
  BY DEF ResultInv
<1>3. QED
  BY <1>1, <1>2, GamesInvariant, ResultStep, PeerProcessAssumption, PTL DEF Spec

-----------------------------------------------------------------------------
(* The diversity reward.                                                   *)

Unrewarded(entries) == \A entry \in entries : ~entry.rewarded

\* A reward is under way only while nothing is filed as counted against the
\* opponent, since the count it was decided by bounds what is filed.  Only a
\* series earns one, and its file holds nothing else.
RewardInv ==
  /\ RewardedOnce
  /\ \A o \in Opponents \ StdOpponents : results[o].ok => Unrewarded(results[o].data)
  /\ run.at \in Recording /\ run.reward => filed[run.opponent] = {}
  /\ run.at = "save_result" =>
       IF IsStd(run.opponent) THEN text.data = {ThisEntry} ELSE Unrewarded(text.data)

\* Before a first meeting nothing is filed as counted.
LEMMA NothingFiledBeforeFirst ==
  ASSUME TypeOK, GameInv, LeagueInv, run.at = "play", FirstMeeting(run.opponent)
  PROVE  filed[run.opponent] = {}
<1> DEFINE o == run.opponent
<1>1. o \in Opponents
  BY DEF TypeOK, RunOK, RunStates
<1>2. IsFiniteSet(filed[o]) /\ Cardinality(filed[o]) \in Nat
  BY <1>1, GamesAreFinite
<1>3. league.ok /\ league.data[o] = 0
  BY DEF FirstMeeting, GameInv, PathInv
<1>4. Owed(o, {"file", "save_result"}) = 0
  BY DEF Owed
<1>5. Cardinality(filed[o]) + Owed(o, {"file", "save_result"}) <= league.data[o]
  BY <1>1, <1>3 DEF LeagueInv
<1>6. Cardinality(filed[o]) = 0
  BY <1>2, <1>3, <1>4, <1>5
<1>7. QED
  BY <1>2, <1>6, FS_EmptySet

LEMMA RewardStep ==
  PeerProcessAssumption /\ TypeOK /\ NumberInv /\ GameInv /\ LeagueInv /\ RewardInv /\ [Next]_vars
    => RewardInv'
<1> SUFFICES ASSUME PeerProcessAssumption, TypeOK, NumberInv, GameInv, LeagueInv, RewardInv,
                    [Next]_vars
             PROVE  RewardInv'
  OBVIOUS
<1>t. /\ run \in RunStates /\ run.opponent \in Opponents
      /\ run.counts \in BOOLEAN /\ run.reward \in BOOLEAN
      /\ results \in [Opponents -> TextFile(SUBSET Entries)]
      /\ filed \in [Opponents -> SUBSET [run : Nat, number : Nat]]
  BY DEF TypeOK, RunOK, FilesOK, HistoryOK, RunStates
<1>a. ASSUME UNCHANGED <<results, filed>>, run'.at \notin Recording PROVE RewardInv'
  BY <1>a DEF RewardInv, RewardedOnce, Recording
<1>b. ASSUME UNCHANGED <<results, filed>>, SameRun, run.at \in Recording,
             run'.at \in Recording, run'.at = "save_result" => run.at = run'.at /\ text' = text
      PROVE  RewardInv'
  BY <1>b DEF RewardInv, RewardedOnce, SameRun, ThisEntry, Entry, IsStd
<1>1. CASE Start
  <2>1. UNCHANGED <<results, filed>> /\ run'.at \in {"save_number", "boot"}
    BY <1>1, StartStep
  <2>2. QED
    BY <1>a, <2>1 DEF Recording
<1>2. CASE SaveNumber
  BY <1>2, <1>a, <1>t, SaveNumberStep DEF Moving, Recording
<1>3. CASE Quiet
  <2>1. SameRun /\ UNCHANGED <<results, filed>> /\ (run'.at = "off" \/ text' = text)
    BY <1>3 DEF Quiet, reports
  <2>2. CASE run'.at = run.at /\ run'.at \in Recording
    BY <1>b, <2>1, <2>2 DEF Recording
  <2>3. CASE run'.at # run.at \/ run'.at \notin Recording
    BY <1>3, <1>a, <2>1, <2>3 DEF Quiet, Recording
  <2>4. QED
    BY <2>2, <2>3
<1>4. ASSUME NEW counts \in BOOLEAN, Concluding(counts) PROVE RewardInv'
  <2>1. /\ run'.at = "record" /\ run'.opponent = run.opponent /\ UNCHANGED <<results, filed>>
        /\ run'.reward => run.at = "play" /\ FirstMeeting(run.opponent)
    BY <1>4 DEF Concluding, reports
  <2>2. run'.reward => filed[run.opponent] = {}
    BY <2>1, NothingFiledBeforeFirst
  <2>3. QED
    BY <2>1, <2>2 DEF RewardInv, RewardedOnce
<1>5. CASE RecordGame
  <2>1. UNCHANGED <<results, filed>> /\ (Moving("record", "save_game") \/ Moving("record", "file"))
    BY <1>5, <1>t, RecordGameStep
  <2>2. QED
    BY <1>b, <2>1 DEF Moving, Recording
<1>6. CASE SaveGame
  <2>1. UNCHANGED <<results, filed>> /\ Moving("save_game", "file")
    BY <1>6, <1>t, SaveGameStep
  <2>2. QED
    BY <1>b, <2>1 DEF Moving, Recording
<1>7. CASE FileResult
  <2> DEFINE o == run.opponent
  <2>1. /\ Moving("file", "save_result") /\ UNCHANGED filed
        /\ IsStd(o) \/ results[o].ok
        /\ results' = [results EXCEPT ![o] = Torn] /\ text' = File(Merged(o))
    BY <1>7, <1>t, FileResultStep
  <2>2. text'.data = Merged(o)
    BY <2>1 DEF File
  <2>3. ~results'[o].ok /\ \A p \in Opponents \ {o} : results'[p] = results[p]
    BY <1>t, <2>1, TornFacts
  <2>4. RewardedOnce'
    BY <2>1, <2>3 DEF RewardInv, RewardedOnce
  <2>5. \A p \in Opponents \ StdOpponents : results'[p].ok => Unrewarded(results'[p].data)
    BY <2>3 DEF RewardInv
  <2>6. IsStd(o) => Merged(o) = {ThisEntry}
    BY DEF Merged, ThisEntry
  <2>7. ~IsStd(o) => Unrewarded(Merged(o))
    <3> SUFFICES ASSUME ~IsStd(o), NEW entry \in Merged(o) PROVE ~entry.rewarded
      BY DEF Unrewarded
    <3>1. ~run.reward
      BY <2>1 DEF GameInv, Moving, Recording
    <3>2. CASE entry \in results[o].data
      BY <1>t, <2>1, <3>2 DEF RewardInv, Unrewarded, IsStd
    <3>3. CASE entry = Entry(run.number, run.counts, run.reward)
      BY <3>1, <3>3 DEF Entry
    <3>4. QED
      BY <3>2, <3>3 DEF Merged
  <2>8. /\ ThisEntry' = ThisEntry /\ run'.opponent = o /\ IsStd(o)' = IsStd(o)
        /\ run'.reward = run.reward
    BY <2>1 DEF Moving, SameRun, ThisEntry, Entry, IsStd
  <2>9. run'.reward => filed'[run'.opponent] = {}
    BY <2>1, <2>8 DEF RewardInv, Moving, Recording
  <2>10. IF IsStd(run.opponent)' THEN text'.data = {ThisEntry'} ELSE Unrewarded(text.data)'
    BY <2>2, <2>6, <2>7, <2>8 DEF Unrewarded
  <2>11. QED
    BY <2>4, <2>5, <2>9, <2>10 DEF RewardInv, Unrewarded
<1>8. CASE SaveResult
  <2> DEFINE o == run.opponent
             game == [run |-> runs, number |-> run.number]
  <2>1. /\ Moving("save_result", "mail") /\ results' = [results EXCEPT ![o] = text]
        /\ filed' = [filed EXCEPT ![o] = IF run.counts THEN @ \cup {game} ELSE @]
    BY <1>8, <1>t, SaveResultStep
  <2>2. IF IsStd(o) THEN text.data = {ThisEntry} ELSE Unrewarded(text.data)
    BY <2>1 DEF RewardInv, Moving
  <2>3. run.reward => filed[o] = {}
    BY <2>1 DEF RewardInv, Moving, Recording
  <2>4. run.reward => Cardinality(filed'[o]) <= 1
    <3>1. run.reward => filed'[o] = {} \/ filed'[o] = {game}
      BY <1>t, <2>1, <2>3
    <3>2. Cardinality({}) = 0 /\ Cardinality({game}) = 1
      BY FS_EmptySet, FS_Singleton
    <3>3. run.reward => Cardinality(filed'[o]) = 0 \/ Cardinality(filed'[o]) = 1
      BY <3>1, <3>2, Zenon
    <3>4. QED
      BY <3>3
  <2> HIDE DEF game
  <2>5. /\ results'[o] = text
        /\ \A p \in Opponents \ {o} : results'[p] = results[p] /\ filed'[p] = filed[p]
    BY <1>t, <2>1
  <2>6. \A entry \in text.data : entry.rewarded => Cardinality(filed'[o]) <= 1
    <3>1. CASE IsStd(o)
      BY <2>2, <2>4, <3>1 DEF ThisEntry, Entry
    <3>2. CASE ~IsStd(o)
      BY <2>2, <3>2 DEF Unrewarded
    <3>3. QED
      BY <3>1, <3>2
  <2>7. RewardedOnce'
    <3> SUFFICES ASSUME NEW p \in Opponents, results'[p].ok, NEW entry \in results'[p].data,
                        entry.counted, entry.rewarded
                 PROVE  Cardinality(filed'[p]) <= 1
      BY DEF RewardedOnce
    <3>1. CASE p = o
      BY <2>5, <2>6, <3>1
    <3>2. CASE p # o
      <4>1. results'[p] = results[p] /\ filed'[p] = filed[p]
        BY <2>5, <3>2
      <4>2. Cardinality(filed[p]) <= 1
        BY <4>1 DEF RewardInv, RewardedOnce
      <4>3. QED
        BY <4>1, <4>2
    <3>3. QED
      BY <3>1, <3>2
  <2>8. \A p \in Opponents \ StdOpponents : results'[p].ok => Unrewarded(results'[p].data)
    <3> TAKE p \in Opponents \ StdOpponents
    <3>1. CASE p = o
      BY <2>2, <2>5, <3>1 DEF IsStd
    <3>2. CASE p # o
      BY <2>5, <3>2 DEF RewardInv
    <3>3. QED
      BY <3>1, <3>2
  <2>9. QED
    BY <2>1, <2>7, <2>8 DEF RewardInv, Moving, Recording, Unrewarded
<1>9. CASE SendReport
  <2>1. UNCHANGED <<results, filed>> /\ run'.at \in {"mail", "grace"}
    BY <1>9, <1>t, SendReportStep DEF Moving
  <2>2. QED
    BY <1>a, <2>1 DEF Recording
<1>10. QED
  BY <1>1, <1>2, <1>3, <1>4, <1>5, <1>6, <1>7, <1>8, <1>9, StepKinds DEF GameInv

\* No opponent is worth the diversity reward twice, whatever crashed between
\* the count and the file.
THEOREM RewardGoesOnce == Spec => []RewardedOnce
<1>1. Init => RewardInv
  BY DEF Init, RewardInv, RewardedOnce, Unrewarded, File, Recording
<1>2. RewardInv => RewardedOnce
  BY DEF RewardInv
<1>3. QED
  BY <1>1, <1>2, LeagueInvariant, RewardStep, PeerProcessAssumption, PTL DEF Spec

-----------------------------------------------------------------------------
(* The mail.                                                               *)

\* Who a report goes to, where the lecturer's address is kept apart.
LEMMA LecturerIsMailedCounted ==
  ASSUME PeerProcessAssumption, TypeOK, GameInv, run.at \in Reported,
         KeepsLecturerApart(run.opponent), Lecturer \in MailedTo(run.opponent)
  PROVE  \E game \in filed[run.opponent] : game.run = runs
<1> DEFINE o == run.opponent
<1>1. /\ o \in Opponents /\ run.counted \in BOOLEAN /\ run.counts \in BOOLEAN
      /\ Recipient[o] # {}
  BY DEF TypeOK, RunOK, RunStates, PeerProcessAssumption
<1>f. run.counts => \E game \in filed[o] : game.run = runs
  <2> DEFINE game == [run |-> runs, number |-> run.number]
  <2>1. run.counts => game \in filed[o]
    BY DEF GameInv
  <2>2. game.run = runs
    OBVIOUS
  <2>3. QED
    BY <2>1, <2>2
<1>2. CASE IsStd(o)
  <2>1. Lecturer \notin Recipient[o] /\ Lecturer \notin OpponentRecipient[o]
    BY <1>2 DEF KeepsLecturerApart
  <2>2. Lecturer \notin RunRecipients(o) /\ RunRecipients(o) # {}
    BY <1>1, <2>1 DEF RunRecipients, BuildRecipients
  <2>3. run.counts
    BY <1>2, <2>2 DEF MailedTo, BuildRecipients
  <2>4. QED
    BY <1>f, <2>3
<1>3. CASE ~IsStd(o)
  <2>1. Lecturer \in BuildRecipients(Recipient[o], OpponentRecipient[o], run.counted)
    BY <1>3 DEF MailedTo, RunRecipients
  <2>2. run.counted
    BY <2>1 DEF BuildRecipients, KeepsLecturerApart
  <2>3. run.counts
    BY <1>3, <2>2 DEF GameInv
  <2>4. QED
    BY <1>f, <2>3
<1>4. QED
  BY <1>2, <1>3

LEMMA LecturerStep ==
  PeerProcessAssumption /\ TypeOK /\ NumberInv /\ GameInv /\ LecturerHearsOfCounted /\ [Next]_vars
    => LecturerHearsOfCounted'
<1> SUFFICES ASSUME PeerProcessAssumption, TypeOK, NumberInv, GameInv, LecturerHearsOfCounted,
                    [Next]_vars
             PROVE  LecturerHearsOfCounted'
  OBVIOUS
<1>t. /\ run \in RunStates
      /\ filed \in [Opponents -> SUBSET [run : Nat, number : Nat]]
      /\ mails \subseteq [opponent : Opponents, run : Nat, to : SUBSET Addresses]
  BY DEF TypeOK, RunOK, HistoryOK
<1>a. ASSUME mails' = mails, filed' = filed PROVE LecturerHearsOfCounted'
  BY <1>a DEF LecturerHearsOfCounted, KeepsLecturerApart, IsStd
<1>1. CASE SaveResult
  <2>1. mails' = mails /\ \A o \in Opponents : filed[o] \subseteq filed'[o]
    BY <1>1, <1>t DEF SaveResult
  <2>2. QED
    BY <1>t, <2>1 DEF LecturerHearsOfCounted, KeepsLecturerApart, IsStd
<1>2. CASE SendReport
  <2> DEFINE report == [opponent |-> run.opponent, run |-> runs,
                        to |-> MailedTo(run.opponent)]
  <2>1. run.at \in Reported /\ filed' = filed /\ mails' \subseteq mails \cup {report}
    BY <1>2 DEF SendReport, Reported
  <2>2. KeepsLecturerApart(report.opponent) /\ Lecturer \in report.to =>
          \E game \in filed[report.opponent] : game.run = report.run
    BY <2>1, LecturerIsMailedCounted
  <2> HIDE DEF report
  <2>3. QED
    BY <2>1, <2>2 DEF LecturerHearsOfCounted, KeepsLecturerApart, IsStd
<1>3. CASE ~SaveResult /\ ~SendReport
  <2>1. mails' = mails /\ filed' = filed
    BY <1>3, <1>t, StepKinds, StartStep, SaveNumberStep, RecordGameStep, SaveGameStep,
       FileResultStep
    DEF GameInv, Quiet, Concluding, reports
  <2>2. QED
    BY <1>a, <2>1
<1>4. QED
  BY <1>1, <1>2, <1>3

\* The lecturer hears of counted games only, once they are filed.
THEOREM LecturerHearsOnlyOfCounted == Spec => []LecturerHearsOfCounted
<1>1. Init => LecturerHearsOfCounted
  BY DEF Init, LecturerHearsOfCounted
<1>2. QED
  BY <1>1, PeerProcessAssumption, GamesInvariant, LecturerStep, PTL DEF Spec

\* How many copies may be out before each attempt.
CopiesInv ==
  /\ run.at \notin {"off"} \cup Reported => mail.attempt = 1 /\ mail.copies = 0
  /\ run.at = "mail" => mail.attempt \in 1 .. 2 /\ mail.copies < mail.attempt
  /\ AtMostTwoCopies

LEMMA CopiesStep ==
  PeerProcessAssumption /\ TypeOK /\ GameInv /\ CopiesInv /\ [Next]_vars => CopiesInv'
<1> SUFFICES ASSUME PeerProcessAssumption, TypeOK, GameInv, CopiesInv, [Next]_vars
             PROVE  CopiesInv'
  OBVIOUS
<1> USE DEF CopiesInv, AtMostTwoCopies, Reported
<1>t. run \in RunStates /\ mail \in [attempt : Nat, copies : Nat]
  BY DEF TypeOK, RunOK
<1>1. CASE Start
  BY <1>1, StartStep
<1>2. CASE SaveNumber
  BY <1>2, <1>t, SaveNumberStep DEF Moving
<1>3. CASE Quiet
  BY <1>3, <1>t DEF Quiet, reports
<1>4. ASSUME NEW counts \in BOOLEAN, Concluding(counts) PROVE CopiesInv'
  BY <1>4 DEF Concluding, reports, Playing
<1>5. CASE RecordGame
  BY <1>5, <1>t, RecordGameStep DEF Moving
<1>6. CASE SaveGame
  BY <1>6, <1>t, SaveGameStep DEF Moving
<1>7. CASE FileResult
  BY <1>7, <1>t, FileResultStep DEF Moving
<1>8. CASE SaveResult
  BY <1>8, <1>t, SaveResultStep DEF Moving
<1>9. CASE SendReport
  <2>1. run.at = "mail" /\ mail.attempt \in 1 .. 2 /\ mail.copies < mail.attempt
    BY <1>9 DEF SendReport
  <2>2. PICK delivered \in BOOLEAN, answered \in BOOLEAN :
          IF ~answered /\ MayRetry(mail.attempt)
          THEN run' = run /\ mail' = [attempt |-> mail.attempt + 1,
                                      copies |-> mail.copies + IF delivered THEN 1 ELSE 0]
          ELSE Goto("grace") /\ mail' = [mail EXCEPT !.copies = @ + IF delivered THEN 1 ELSE 0]
    BY <1>9 DEF SendReport
  <2>3. CASE ~answered /\ MayRetry(mail.attempt)
    BY <1>t, <2>1, <2>2, <2>3 DEF MayRetry
  <2>4. CASE ~(~answered /\ MayRetry(mail.attempt))
    <3>1. run'.at = "grace" /\ mail'.copies <= mail.copies + 1 /\ mail'.copies \in Nat
      BY <1>t, <2>2, <2>4 DEF Goto, RunStates
    <3>2. QED
      BY <1>t, <2>1, <3>1
  <2>5. QED
    BY <2>3, <2>4
<1>10. QED
  BY <1>1, <1>2, <1>3, <1>4, <1>5, <1>6, <1>7, <1>8, <1>9, StepKinds DEF GameInv

\* A run delivers its report at most twice, however the sends fail.
THEOREM ReportAtMostTwice == Spec => []AtMostTwoCopies
<1>1. Init => CopiesInv
  BY DEF Init, CopiesInv, AtMostTwoCopies
<1>2. CopiesInv => AtMostTwoCopies
  BY DEF CopiesInv
<1>3. QED
  BY <1>1, <1>2, GamesInvariant, CopiesStep, PeerProcessAssumption, PTL DEF Spec

-----------------------------------------------------------------------------
(* How long a run can take.                                                *)

\* The time the rounds still to come may take, and a step for each.
RoundsLeft(n) == (MaxMoves - n) * (RoundLimit + 1)

LEMMA OneRoundLess ==
  ASSUME PeerProcessAssumption, NEW n \in 0 .. MaxMoves
  PROVE  /\ RoundsLeft(n) \in Nat /\ RoundsLeft(n) <= RoundsLeft(0)
         /\ n < MaxMoves => RoundsLeft(n) = RoundsLeft(n + 1) + RoundLimit + 1
<1> DEFINE long == RoundLimit + 1
<1>1. MaxMoves \in Nat /\ RoundLimit \in Nat /\ n \in Nat /\ n <= MaxMoves /\ long \in Nat
  BY DEF PeerProcessAssumption
<1> HIDE DEF long
<1>2. \A a, b \in Nat : a * b \in Nat
  OBVIOUS
<1>3. (MaxMoves - n) * long \in Nat
  <2>1. MaxMoves - n \in Nat
    BY <1>1
  <2>2. QED
    BY <1>1, <1>2, <2>1
<1>4. MaxMoves * long = (MaxMoves - n) * long + n * long /\ n * long \in Nat
  BY <1>1, <1>2
<1>5. (MaxMoves - n) * long = (MaxMoves - (n + 1)) * long + long
  BY <1>1
<1>6. /\ RoundsLeft(n) = (MaxMoves - n) * long /\ RoundsLeft(0) = MaxMoves * long
      /\ RoundsLeft(n + 1) = (MaxMoves - (n + 1)) * long /\ long = RoundLimit + 1
  BY <1>1 DEF RoundsLeft, long
<1> DEFINE now == (MaxMoves - n) * long
           next == (MaxMoves - (n + 1)) * long
           all == MaxMoves * long
           past == n * long
<1>7. /\ now \in Nat /\ past \in Nat /\ all = now + past
      /\ now = next + long /\ next = now - long
  <2>1. next \in Int
    BY <1>1
  <2>2. QED
    BY <1>1, <1>3, <1>4, <1>5, <2>1
<1> HIDE DEF now, next, all, past
<1>8. RoundsLeft(n) = now /\ RoundsLeft(0) = all /\ RoundsLeft(n + 1) = next
  BY <1>6 DEF now, next, all
<1>9. QED
  BY <1>1, <1>6, <1>7, <1>8

\* The steps the main thread may still take, the time of a handshake and of
\* the rounds among them.
StepsLeft(place) ==
  CASE place = "save_number" -> 12 + RoundsLeft(0) + RoundLimit + HandshakeLimit
    [] place = "boot" -> 11 + RoundsLeft(0) + RoundLimit + HandshakeLimit
    [] place = "handshake" -> 10 + RoundsLeft(0) + RoundLimit + (HandshakeLimit - spent)
    [] place = "rounds" -> 8 + RoundsLeft(round) + (RoundLimit - spent)
    [] place = "series" -> 9
    [] place = "play" -> 8
    [] place = "record" -> 7
    [] place = "save_game" -> 6
    [] place = "file" -> 5
    [] place = "save_result" -> 4
    [] place = "mail" -> 4 - mail.attempt
    [] OTHER -> 1

\* How much a run can still do: a healthy one may freeze and have as long as
\* the watchdog's limit then; a frozen one only waits, for the watchdog or to be
\* killed.
RunLeft ==
  IF run.at = "off" THEN 0
  ELSE IF run.frozen THEN 1 + (IF Stale THEN 0 ELSE watch.limit + 1 - watch.age)
  ELSE watch.limit + 2 + StepsLeft(run.at)
LongestRun == watch.limit + 14 + RoundsLeft(0) + RoundLimit + HandshakeLimit

\* The rounds are counted from none, and the watchdog's thread is on wherever
\* it watches.
HangInv ==
  /\ run.at \in {"save_number", "boot", "handshake"} => round = 0
  /\ run.at \in Watched => watch.on

LEMMA HangStep == PeerProcessAssumption /\ TypeOK /\ HangInv /\ [Next]_vars => HangInv'
<1> SUFFICES ASSUME PeerProcessAssumption, TypeOK, HangInv, [Next]_vars PROVE HangInv'
  OBVIOUS
<1> USE DEF HangInv, Watched, clock, files, history
<1>t. run \in RunStates /\ watch \in Watches
  BY DEF TypeOK, RunOK
<1>a. ASSUME NEW place \in Places, Goto(place), UNCHANGED clock,
             place \notin {"save_number", "handshake", "rounds"},
             place = "boot" => round = 0
      PROVE  HangInv'
  <2>1. run'.at = place /\ run'.frozen = run.frozen
    BY <1>t, <1>a DEF Goto, RunStates
  <2>2. QED
    BY <1>a, <2>1
<1>b. ASSUME run'.at = "off" PROVE HangInv'
  BY <1>b
<1>1. CASE UNCHANGED vars
  BY <1>1 DEF vars
<1>2. CASE Start
  BY <1>2, <1>t DEF Start, Watches
<1>3. CASE SaveNumber
  BY <1>3, <1>a DEF SaveNumber, Places
<1>4. CASE Boot
  BY <1>4, <1>t DEF Boot, Goto, RunStates, Watches
<1>5. CASE HandshakeDone
  BY <1>5, <1>t DEF HandshakeDone, Goto, RunStates
<1>6. CASE RoundDone
  BY <1>6, <1>t DEF RoundDone, Beat, Watches
<1>7. CASE EndRounds
  BY <1>7, <1>t DEF EndRounds, Conclude, RunStates
<1>8. CASE SeriesEnds
  BY <1>8, <1>t DEF SeriesEnds, Conclude, RunStates
<1>9. CASE RecordGame
  BY <1>9, <1>a DEF RecordGame, Places, Reporting
<1>10. CASE SaveGame
  BY <1>10, <1>a DEF SaveGame, Places, Reporting
<1>11. CASE FileResult
  BY <1>11, <1>a DEF FileResult, Places, Reporting
<1>12. CASE SaveResult
  BY <1>12, <1>a DEF SaveResult, Places, Reporting
<1>13. CASE SendReport
  <2>1. (run' = run \/ Goto("grace")) /\ UNCHANGED clock /\ run.at = "mail"
    BY <1>13 DEF SendReport
  <2>2. QED
    BY <1>a, <2>1 DEF Places, Reporting
<1>14. CASE Finish
  BY <1>14, <1>t, <1>b DEF Finish, Leave, RunStates
<1>15. CASE RaisesOnRead
  BY <1>15, <1>t, <1>b DEF RaisesOnRead, Leave, RunStates
<1>16. CASE Dies
  BY <1>16, <1>t, <1>b DEF Dies, Leave, RunStates
<1>17. CASE Freeze
  BY <1>17, <1>t DEF Freeze, RunStates
<1>18. CASE Tick
  BY <1>18, <1>t DEF Tick, Watches
<1>19. CASE WatchdogFires
  BY <1>19, <1>t, <1>b DEF WatchdogFires, Stale, ControlledShutdown, Leave, RunStates
<1>20. CASE ReadCounts
  BY <1>20, <1>a DEF ReadCounts, Places
<1>21. QED
  BY <1>1, <1>2, <1>3, <1>4, <1>5, <1>6, <1>7, <1>8, <1>9, <1>10, <1>11, <1>12, <1>13, <1>14,
     <1>15, <1>16, <1>17, <1>18, <1>19, <1>20 DEF Next, MainThread

LEMMA RunLeftBounds ==
  ASSUME PeerProcessAssumption, TypeOK, WatchInv, CopiesInv, HangInv
  PROVE  /\ RunLeft \in 0 .. LongestRun
         /\ RunLeft = 0 => run.at = "off"
         /\ run.at # "off" /\ ~run.frozen => StepsLeft(run.at) \in Nat \ {0}
<1>1. /\ run.at \in Places /\ run.frozen \in BOOLEAN
      /\ watch.limit \in Nat /\ watch.age \in Nat /\ spent \in Nat
      /\ mail.attempt \in Nat
      /\ HandshakeLimit \in Nat /\ RoundLimit \in Nat
  BY DEF TypeOK, RunOK, RunStates, Watches, PeerProcessAssumption
<1>2. /\ RoundsLeft(round) \in Nat /\ RoundsLeft(0) \in Nat
      /\ RoundsLeft(round) <= RoundsLeft(0)
  <2>1. round \in 0 .. MaxMoves /\ 0 \in 0 .. MaxMoves
    BY DEF TypeOK, RunOK, PeerProcessAssumption
  <2>2. QED
    BY <2>1, OneRoundLess
<1>3. ASSUME run.at # "off", ~run.frozen
      PROVE  StepsLeft(run.at) \in 1 .. 12 + RoundsLeft(0) + RoundLimit + HandshakeLimit
  <2>1. /\ run.at = "handshake" => spent <= HandshakeLimit
        /\ run.at = "rounds" => spent <= RoundLimit
        /\ run.at = "mail" => mail.attempt \in 1 .. 2
    BY <1>3 DEF WatchInv, CopiesInv
  <2>2. CASE run.at \in {"save_number", "boot"}
    <3>1. \/ StepsLeft(run.at) = 12 + RoundsLeft(0) + RoundLimit + HandshakeLimit
          \/ StepsLeft(run.at) = 11 + RoundsLeft(0) + RoundLimit + HandshakeLimit
      BY <2>2 DEF StepsLeft
    <3>2. QED
      BY <1>1, <1>2, <3>1
  <2>3. CASE run.at = "handshake"
    BY <1>1, <1>2, <2>1, <2>3 DEF StepsLeft
  <2>4. CASE run.at = "rounds"
    <3>1. StepsLeft(run.at) = 8 + RoundsLeft(round) + (RoundLimit - spent)
      BY <2>4 DEF StepsLeft
    <3>2. QED
      BY <1>1, <1>2, <2>1, <2>4, <3>1
  <2>5. CASE run.at \in {"series", "play", "record", "save_game", "file", "save_result", "grace"}
    <3>1. StepsLeft(run.at) \in 1 .. 9
      BY <2>5 DEF StepsLeft
    <3>2. QED
      BY <1>1, <1>2, <3>1
  <2>6. CASE run.at = "mail"
    <3>1. StepsLeft(run.at) = 4 - mail.attempt
      BY <2>6 DEF StepsLeft
    <3>2. QED
      BY <1>1, <1>2, <2>1, <2>6, <3>1
  <2>7. QED
    BY <1>1, <1>3, <2>2, <2>3, <2>4, <2>5, <2>6 DEF Places, Reporting
<1>4. CASE run.at = "off"
  BY <1>1, <1>2, <1>4 DEF RunLeft, LongestRun
<1>5. CASE run.at # "off" /\ run.frozen
  BY <1>1, <1>2, <1>5 DEF RunLeft, LongestRun, Stale
<1>6. CASE run.at # "off" /\ ~run.frozen
  BY <1>1, <1>2, <1>3, <1>6 DEF RunLeft, LongestRun
<1>7. QED
  BY <1>3, <1>4, <1>5, <1>6

LEMMA RunDescends ==
  PeerProcessAssumption /\ TypeOK /\ WatchInv /\ CopiesInv /\ HangInv
    /\ (TypeOK /\ WatchInv /\ CopiesInv /\ HangInv)' /\ Next /\ run.at # "off"
    => RunLeft' < RunLeft
<1> SUFFICES ASSUME PeerProcessAssumption, TypeOK, WatchInv, CopiesInv, HangInv, Next,
                    TypeOK', HangInv', run.at # "off"
             PROVE  RunLeft' < RunLeft
  OBVIOUS
<1> USE DEF clock, files, history
<1>t. /\ run \in RunStates /\ watch \in Watches /\ spent \in Nat /\ round \in 0 .. MaxMoves
      /\ watch.limit \in Nat /\ watch.age \in Nat /\ mail.attempt \in Nat
      /\ HandshakeLimit \in Nat /\ RoundLimit \in Nat /\ MaxMoves \in Nat
  BY DEF TypeOK, RunOK, Watches, PeerProcessAssumption
<1>0. /\ RoundsLeft(round) \in Nat /\ RoundsLeft(0) \in Nat
      /\ RoundsLeft(round) <= RoundsLeft(0)
      /\ round < MaxMoves => RoundsLeft(round) = RoundsLeft(round + 1) + RoundLimit + 1
      /\ round < MaxMoves => RoundsLeft(round + 1) \in Nat
  <2>1. 0 \in 0 .. MaxMoves /\ (round < MaxMoves => round + 1 \in 0 .. MaxMoves)
    BY <1>t
  <2>2. QED
    BY <1>t, <2>1, OneRoundLess
<1>n. RunLeft \in Nat \ {0} /\ (~run.frozen => StepsLeft(run.at) \in Nat \ {0})
  <2>1. RunLeft \in 0 .. LongestRun /\ LongestRun \in Nat
    BY <1>t, <1>0, RunLeftBounds DEF LongestRun
  <2>2. QED
    BY <2>1, RunLeftBounds
<1>off. ASSUME run'.at = "off" PROVE RunLeft' < RunLeft
  BY <1>n, <1>off DEF RunLeft
\* A step of a healthy run that leaves it healthy.
<1>on. ASSUME run'.at # "off", ~run.frozen, ~run'.frozen, watch'.limit = watch.limit,
              StepsLeft(run.at)' \in Nat, StepsLeft(run.at)' < StepsLeft(run.at)
       PROVE  RunLeft' < RunLeft
  <2>1. StepsLeft(run.at) \in Nat
    BY <1>n, <1>on
  <2>2. RunLeft = watch.limit + 2 + StepsLeft(run.at)
    BY <1>on DEF RunLeft
  <2>3. RunLeft' = watch.limit + 2 + StepsLeft(run.at)'
    BY <1>on DEF RunLeft
  <2>4. QED
    BY <1>t, <1>on, <2>1, <2>2, <2>3
<1>go. ASSUME NEW place \in Places, Goto(place)
       PROVE  run'.at = place /\ run'.frozen = run.frozen
  BY <1>t, <1>go DEF Goto, RunStates
<1>1. CASE ~run.frozen /\ SaveNumber
  <2>1. /\ run.at = "save_number" /\ run'.at = "boot" /\ run'.frozen = run.frozen
        /\ UNCHANGED clock
    BY <1>1, <1>go DEF SaveNumber, Places
  <2>2. StepsLeft(run.at)' \in Nat /\ StepsLeft(run.at)' < StepsLeft(run.at)
    BY <1>t, <1>0, <2>1 DEF StepsLeft
  <2>3. QED
    BY <1>1, <1>on, <2>1, <2>2
<1>2. CASE ~run.frozen /\ Boot
  <2>1. /\ run.at = "boot" /\ run'.at \in {"series", "handshake"} /\ run'.frozen = run.frozen
        /\ UNCHANGED spent /\ watch'.limit = watch.limit
    BY <1>2, <1>t, <1>go DEF Boot, Places, Watches
  <2>2. spent = 0
    BY <2>1 DEF WatchInv
  <2>3. StepsLeft(run.at)' \in Nat /\ StepsLeft(run.at)' < StepsLeft(run.at)
    BY <1>t, <1>0, <2>1, <2>2 DEF StepsLeft
  <2>4. QED
    BY <1>2, <1>on, <2>1, <2>3
<1>3. CASE ~run.frozen /\ HandshakeDone
  <2>1. /\ run.at = "handshake" /\ run'.at = "rounds" /\ ~run.frozen /\ ~run'.frozen
        /\ UNCHANGED <<round, watch>> /\ spent' = 0
    BY <1>3, <1>go DEF HandshakeDone, Places
  <2>2. round = 0 /\ spent <= HandshakeLimit
    BY <2>1 DEF HangInv, WatchInv
  <2>3. StepsLeft(run.at)' \in Nat /\ StepsLeft(run.at)' < StepsLeft(run.at)
    BY <1>t, <1>0, <2>1, <2>2 DEF StepsLeft
  <2>4. QED
    BY <1>on, <2>1, <2>3
<1>4. CASE ~run.frozen /\ RoundDone
  <2>1. /\ run.at = "rounds" /\ round < MaxMoves /\ run' = run /\ ~run.frozen
        /\ round' = round + 1 /\ spent' = 0 /\ watch'.limit = watch.limit
    BY <1>4, <1>t DEF RoundDone, Beat, Watches
  <2>2. spent <= RoundLimit
    BY <2>1 DEF WatchInv
  <2>3. /\ StepsLeft(run.at) = 8 + RoundsLeft(round) + (RoundLimit - spent)
        /\ StepsLeft(run.at)' = 8 + RoundsLeft(round + 1) + (RoundLimit - 0)
    BY <2>1 DEF StepsLeft
  <2>4. StepsLeft(run.at)' \in Nat /\ StepsLeft(run.at)' < StepsLeft(run.at)
    BY <1>t, <1>0, <2>1, <2>2, <2>3
  <2>5. QED
    BY <1>on, <2>1, <2>4
<1>5. CASE ~run.frozen /\ EndRounds
  <2>1. /\ run.at = "rounds" /\ run'.at = "record" /\ ~run.frozen /\ ~run'.frozen
        /\ watch'.limit = watch.limit
    BY <1>5, <1>t DEF EndRounds, Conclude, RunStates, Watches
  <2>2. spent <= RoundLimit
    BY <2>1 DEF WatchInv
  <2>3. StepsLeft(run.at)' \in Nat /\ StepsLeft(run.at)' < StepsLeft(run.at)
    BY <1>t, <1>0, <2>1, <2>2 DEF StepsLeft
  <2>4. QED
    BY <1>on, <2>1, <2>3
<1>6. CASE ~run.frozen /\ SeriesEnds
  <2>1. /\ run.at = "play" /\ run'.at = "record" /\ run'.frozen = run.frozen
        /\ UNCHANGED watch
    <3>1. /\ run.at = "play" /\ UNCHANGED clock
          /\ \E counts, reward \in {TRUE, FALSE} : Conclude(counts, reward)
      BY <1>6 DEF SeriesEnds, Rewards
    <3>2. QED
      BY <1>t, <3>1, ConcludeFields
  <2>2. StepsLeft(run.at)' \in Nat /\ StepsLeft(run.at)' < StepsLeft(run.at)
    BY <2>1 DEF StepsLeft
  <2>3. QED
    BY <1>6, <1>on, <2>1, <2>2
<1>7. CASE ~run.frozen /\ (RecordGame \/ SaveGame \/ FileResult)
  <2>1. /\ \/ run.at = "record" /\ run'.at \in {"save_game", "file"}
           \/ run.at = "save_game" /\ run'.at = "file"
           \/ run.at = "file" /\ run'.at = "save_result"
        /\ run'.frozen = run.frozen /\ UNCHANGED watch
    BY <1>7, <1>go DEF RecordGame, SaveGame, FileResult, Places, Reporting
  <2>2. StepsLeft(run.at)' \in Nat /\ StepsLeft(run.at)' < StepsLeft(run.at)
    BY <2>1 DEF StepsLeft
  <2>3. QED
    BY <1>7, <1>on, <2>1, <2>2
<1>8. CASE ~run.frozen /\ SaveResult
  <2>1. /\ run.at = "save_result" /\ run'.at = "mail" /\ run'.frozen = run.frozen
        /\ UNCHANGED watch /\ mail' = mail
    BY <1>8, <1>go DEF SaveResult, Places, Reporting
  <2>2. mail.attempt = 1
    BY <2>1 DEF CopiesInv, Reported
  <2>3. StepsLeft(run.at)' \in Nat /\ StepsLeft(run.at)' < StepsLeft(run.at)
    BY <2>1, <2>2 DEF StepsLeft
  <2>4. QED
    BY <1>8, <1>on, <2>1, <2>3
<1>9. CASE ~run.frozen /\ SendReport
  <2>1. run.at = "mail" /\ mail.attempt \in 1 .. 2 /\ UNCHANGED watch /\ ~run.frozen
    BY <1>9 DEF SendReport, CopiesInv
  <2>2. \/ run' = run /\ mail'.attempt = mail.attempt + 1 /\ mail.attempt < 2
        \/ Goto("grace")
    BY <1>9 DEF SendReport, MayRetry
  <2>3. CASE run' = run /\ mail'.attempt = mail.attempt + 1 /\ mail.attempt < 2
    <3>1. StepsLeft(run.at)' \in Nat /\ StepsLeft(run.at)' < StepsLeft(run.at)
      BY <1>t, <2>1, <2>3 DEF StepsLeft
    <3>2. QED
      BY <1>on, <2>1, <2>3, <3>1
  <2>4. CASE Goto("grace")
    <3>1. run'.at = "grace" /\ run'.frozen = run.frozen
      BY <1>go, <2>4 DEF Places, Reporting
    <3>2. StepsLeft(run.at)' \in Nat /\ StepsLeft(run.at)' < StepsLeft(run.at)
      BY <1>t, <2>1, <3>1 DEF StepsLeft
    <3>3. QED
      BY <1>on, <2>1, <3>1, <3>2
  <2>5. QED
    BY <2>2, <2>3, <2>4
<1>10. CASE Finish \/ RaisesOnRead \/ Dies \/ WatchdogFires
  BY <1>10, <1>t, <1>off
  DEF Finish, RaisesOnRead, Dies, WatchdogFires, ControlledShutdown, Leave, RunStates
<1>11. CASE Freeze
  <2>1. /\ ~run.frozen /\ run'.frozen /\ run'.at = run.at /\ UNCHANGED watch
    BY <1>11, <1>t DEF Freeze, RunStates
  <2>2. RunLeft = watch.limit + 2 + StepsLeft(run.at)
    BY <2>1 DEF RunLeft
  <2>3. RunLeft' = 1 + (IF Stale THEN 0 ELSE watch.limit + 1 - watch.age)
    BY <2>1 DEF RunLeft, Stale
  <2>4. QED
    BY <1>t, <1>n, <2>1, <2>2, <2>3 DEF Stale
<1>12. CASE Tick
  <2>1. run' = run /\ watch'.age = watch.age + 1 /\ watch'.limit = watch.limit /\ round' = round
    BY <1>12, <1>t DEF Tick, Watches
  <2>2. CASE run.frozen
    <3>1. watch.age <= watch.limit
      BY <1>12, <2>2 DEF Tick
    <3>2. RunLeft = 1 + (watch.limit + 1 - watch.age)
      BY <1>t, <2>2, <3>1 DEF RunLeft, Stale
    <3>3. RunLeft' = 1 + (IF watch.age + 1 > watch.limit THEN 0
                          ELSE watch.limit + 1 - (watch.age + 1))
      BY <2>1, <2>2 DEF RunLeft, Stale
    <3>4. QED
      BY <1>t, <3>1, <3>2, <3>3
  <2>3. CASE ~run.frozen
    <3>1. /\ spent' = spent + 1
          /\ \/ run.at = "handshake" /\ spent < HandshakeLimit
             \/ run.at = "rounds" /\ spent < RoundLimit
      BY <1>12, <2>3 DEF Tick, TimeLeft
    <3>2. StepsLeft(run.at) \in Nat \ {0} /\ StepsLeft(run.at)' = StepsLeft(run.at) - 1
      <4>1. CASE run.at = "handshake"
        BY <1>t, <1>0, <2>1, <3>1, <4>1 DEF StepsLeft
      <4>2. CASE run.at = "rounds"
        <5>1. /\ StepsLeft(run.at) = 8 + RoundsLeft(round) + (RoundLimit - spent)
              /\ StepsLeft(run.at)' = 8 + RoundsLeft(round) + (RoundLimit - (spent + 1))
          BY <2>1, <3>1, <4>2 DEF StepsLeft
        <5>2. QED
          BY <1>t, <1>0, <3>1, <4>2, <5>1
      <4>3. QED
        BY <3>1, <4>1, <4>2
    <3>3. StepsLeft(run.at)' \in Nat /\ StepsLeft(run.at)' < StepsLeft(run.at)
      BY <3>2
    <3>4. QED
      BY <1>on, <2>1, <2>3, <3>3
  <2>4. QED
    BY <2>2, <2>3
<1>13. CASE ~run.frozen /\ ReadCounts
  <2>1. /\ run.at = "series" /\ run'.at = "play" /\ run'.frozen = run.frozen
        /\ UNCHANGED watch
    BY <1>13, <1>go DEF ReadCounts, Places
  <2>2. StepsLeft(run.at)' \in Nat /\ StepsLeft(run.at)' < StepsLeft(run.at)
    BY <2>1 DEF StepsLeft
  <2>3. QED
    BY <1>13, <1>on, <2>1, <2>2
<1>14. ~Start
  BY DEF Start
<1>15. QED
  BY <1>1, <1>2, <1>3, <1>4, <1>5, <1>6, <1>7, <1>8, <1>9, <1>10, <1>11, <1>12, <1>13, <1>14
  DEF Next, MainThread

\* While a run is on, each step of anyone, the clock's and a frozen run's
\* included, takes it nearer to its end, which its limits bound.  It may stand
\* still only where it hangs: a hang the watchdog watches is one it is on for,
\* and any other ends by a kill or not at all.
THEOREM RunsRunDown ==
  Spec => /\ [](/\ RunLeft \in 0 .. LongestRun
                /\ RunLeft = 0 => run.at = "off"
                /\ run.frozen /\ run.at \in Watched => watch.on)
          /\ [][run.at # "off" => RunLeft' < RunLeft]_vars
          /\ [][run.frozen /\ run.at \notin Watched \cup {"off"} => Dies]_vars
<1> DEFINE Held == TypeOK /\ WatchInv /\ CopiesInv /\ HangInv
<1>1. Init => WatchInv /\ CopiesInv /\ HangInv
  BY PeerProcessAssumption
  DEF Init, WatchInv, SparesTheHealthy, CopiesInv, AtMostTwoCopies, HangInv, Watched,
      PeerProcessAssumption
<1>2. Spec => []Held
  BY <1>1, PeerProcessAssumption, GamesInvariant, CopiesStep, HangStep, PTL DEF Spec
<1>3. Held => /\ RunLeft \in 0 .. LongestRun
              /\ RunLeft = 0 => run.at = "off"
              /\ run.frozen /\ run.at \in Watched => watch.on
  BY PeerProcessAssumption, RunLeftBounds DEF HangInv
<1>4. Held /\ Held' /\ [Next]_vars => [run.at # "off" => RunLeft' < RunLeft]_vars
  BY PeerProcessAssumption, RunDescends
<1>5. Held /\ [Next]_vars => [run.frozen /\ run.at \notin Watched \cup {"off"} => Dies]_vars
  <2>1. TypeOK => (run.frozen \in BOOLEAN)
    BY DEF TypeOK, RunOK, RunStates
  <2>2. QED
    BY <2>1 DEF Next, MainThread, Start, Freeze, Tick, WatchdogFires, WatchInv
<1>6. QED
  BY <1>2, <1>3, <1>4, <1>5, PTL DEF Spec
=============================================================================

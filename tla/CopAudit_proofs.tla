--------------------------- MODULE CopAudit_proofs ---------------------------
(***************************************************************************)
(* Proofs about the audit of a cop_v1 cop: what the replay of her trace    *)
(* computes for every number of entries, what an audit that passed vouches *)
(* for whatever became of her calls, and that a cop who did nothing wrong  *)
(* is not failed.  They build on the invariants of CopAdapter_proofs.      *)
(***************************************************************************)
EXTENDS CopAdapter_proofs, WellFoundedInduction

-----------------------------------------------------------------------------
(* Induction over the naturals, as a fact about sets.                      *)

\* A set of naturals that is not empty has a least element.
LEMMA LeastElement ==
  ASSUME NEW T \in SUBSET Nat, T # {}
  PROVE  \E x \in T : \A y \in T : x <= y
<1> DEFINE R == {pair \in Nat \X Nat : pair[1] < pair[2]}
<1>1. \A x, y \in Nat : y < x => <<y, x>> \in R
  OBVIOUS
<1>2. PICK x \in T : \A y \in T : ~ (<<y, x>> \in R)
  <2>1. IsWellFoundedOn(R, Nat)
    BY NatLessThanWellFounded DEF OpToRel
  <2> HIDE DEF R
  <2> QED
    BY <2>1, WFMin
<1> HIDE DEF R
<1>3. \A y \in T : ~ (y < x)
  BY <1>1, <1>2
<1> QED
  BY <1>3

\* A set that holds zero and every successor holds every natural.
LEMMA SetInduction ==
  ASSUME NEW S, 0 \in S, \A n \in Nat : n \in S => n + 1 \in S
  PROVE  Nat \subseteq S
<1> DEFINE T == Nat \ S
<1>1. SUFFICES ASSUME T # {} PROVE FALSE
  OBVIOUS
<1>2. PICK x \in T : \A y \in T : x <= y
  BY <1>1, LeastElement
<1>3. x # 0 /\ x - 1 \in Nat /\ x - 1 \notin T
  BY <1>2
<1> QED
  BY <1>2, <1>3

-----------------------------------------------------------------------------
(* The replay.                                                             *)

Start == Standing(CopStart, {})

\* What the replay does at step n, from where it was after step n - 1.
Replayed(entries, n, before) ==
  IF n \in DOMAIN entries /\ Complete(entries[n]) THEN Applied(before, entries[n].move) ELSE before

\* A function that replays the entries up to the last step.
Replays(at, entries, last) ==
  at = [n \in 0 .. last |-> IF n = 0 THEN Start ELSE Replayed(entries, n, at[n - 1])]

\* The replay can be carried on to every step.
LEMMA ReplayExists ==
  ASSUME NEW entries, NEW last \in Nat
  PROVE  \E at : Replays(at, entries, last)
<1> DEFINE S == {k \in Nat : \E at : Replays(at, entries, k)}
<1>1. 0 \in S
  <2>1. Replays([n \in 0 .. 0 |-> Start], entries, 0)
    BY DEF Replays
  <2> QED
    BY <2>1
<1>2. ASSUME NEW k \in Nat, k \in S PROVE k + 1 \in S
  <2>1. PICK at : Replays(at, entries, k)
    BY <1>2
  <2> DEFINE on == [n \in 0 .. k + 1 |-> IF n = k + 1 THEN Replayed(entries, k + 1, at[k])
                                         ELSE at[n]]
  <2>2. \A n \in 0 .. k : at[n] = IF n = 0 THEN Start ELSE Replayed(entries, n, at[n - 1])
    BY <2>1 DEF Replays
  <2>3. ASSUME NEW n \in 0 .. k + 1
        PROVE  on[n] = IF n = 0 THEN Start ELSE Replayed(entries, n, on[n - 1])
    <3>1. CASE n = k + 1
      BY <3>1
    <3>2. CASE n # k + 1
      BY <2>2, <3>2
    <3> QED
      BY <3>1, <3>2
  <2>4. Replays(on, entries, k + 1)
    <3>1. on = [n \in 0 .. k + 1 |-> on[n]]
      OBVIOUS
    <3> HIDE DEF on
    <3> QED
      BY <2>3, <3>1 DEF Replays
  <2> HIDE DEF on
  <2> QED
    BY <2>4
<1> HIDE DEF S
<1>3. Nat \subseteq S
  BY <1>1, <1>2, SetInduction
<1> QED
  BY <1>3 DEF S

\* The replay is what its recursion says, for every number of entries: from
\* cop_start on, each complete entry moves it by its own move.
LEMMA ReplayUnfolds ==
  ASSUME NEW entries, NEW last \in Nat
  PROVE  /\ Replay(entries, last)[0] = Start
         /\ \A n \in 1 .. last :
              Replay(entries, last)[n] = Replayed(entries, n, Replay(entries, last)[n - 1])
<1>1. Replay(entries, last)
        = CHOOSE at : at = [n \in 0 .. last |->
                              IF n = 0 THEN Standing(CopStart, {})
                              ELSE IF n \in DOMAIN entries /\ Complete(entries[n])
                                   THEN Applied(at[n - 1], entries[n].move)
                                   ELSE at[n - 1]]
  BY DEF Replay
<1>2. Replay(entries, last) = CHOOSE at : Replays(at, entries, last)
  BY <1>1 DEF Replays, Replayed, Start
<1>3. Replays(Replay(entries, last), entries, last)
  BY <1>2, ReplayExists
<1> QED
  BY <1>3 DEF Replays

-----------------------------------------------------------------------------
(* What she sealed and showed.                                             *)

\* Where she stood before her round k, by what she sealed.
From(k) == IF k = 1 THEN Start ELSE sealed[k - 1].at

\* She sealed the standing her move led to.
Led(k) == sealed[k].at = Applied(From(k), sealed[k].move)

\* A commitment holds the round it is of; only a lie of hers puts another
\* standing in it, or another move in the reveal.
SealedInv ==
  /\ \A k \in 1 .. Round : sealed[k].step = k
  /\ lie.about = "nothing" =>
       /\ \A k \in 1 .. Round : Led(k)
       /\ \A k \in 1 .. Len(shown) : shown[k] = sealed[k].move

\* What she sealed and showed stays as it was; only her own steps add to it.
LEMMA SealedStays ==
  ASSUME IInv, [Next]_vars
  PROVE  /\ lie' = lie /\ Round \in Nat /\ Round' \in Nat /\ Round' >= Round
         /\ Len(shown) \in Nat /\ Len(shown) <= Round
         /\ \A k \in 1 .. Round : sealed'[k] = sealed[k]
         /\ \A k \in 1 .. Len(shown) : shown'[k] = shown[k]
         /\ CopCommits \/ sealed' = sealed
         /\ CopReveals \/ shown' = shown
<1>s. /\ sealed \in Seq([step : Rounds, at : Standings, move : CopMoves])
      /\ shown \in Seq(CopMoves) /\ Len(shown) <= Len(sealed)
  BY DEF IInv, TypeOK
<1>1. CASE UNCHANGED <<lie, sealed, shown>>
  BY <1>1, <1>s DEF Round
<1>2. CASE CopCommits
  <2>1. PICK e : sealed' = Append(sealed, e)
    BY <1>2 DEF CopCommits
  <2> QED
    BY <1>2, <1>s, <2>1 DEF CopCommits, Round
<1>3. CASE CopReveals
  <2>1. PICK e : shown' = Append(shown, e)
    BY <1>3 DEF CopReveals
  <2>2. lie' = lie /\ sealed' = sealed
    BY <1>3 DEF CopReveals
  <2> QED
    BY <1>3, <1>s, <2>1, <2>2 DEF Round
<1> QED
  BY <1>1, <1>2, <1>3, WhatAnswers
  DEF Next, Cop, CopClaims, CopMovesOn, CopEnds, Retry, GiveUp, Thief, ThiefMoves, RoundArrived,
      RoundLost, GraceEnds, Gone, vars, herVars

\* Where she stands is where her next round starts.
LEMMA StandsThere ==
  ASSUME IInv
  PROVE  HerStanding = From(Round + 1)
<1>1. sealed \in Seq([step : Rounds, at : Standings, move : CopMoves]) /\ Round = Len(sealed)
  BY DEF IInv, TypeOK, Round
<1>2. CASE sealed = <<>>
  BY <1>1, <1>2 DEF HerStanding, From, Start
<1>3. CASE sealed # <<>>
  <2>1. Round # 0 /\ Round \in Nat
    BY <1>1, <1>3
  <2> QED
    BY <1>1, <1>3, <2>1 DEF HerStanding, From, Last
<1> QED
  BY <1>2, <1>3

\* Every step keeps what is sealed and shown in line.
LEMMA SealedStep == IInv /\ SealedInv /\ [Next]_vars => SealedInv'
<1> SUFFICES ASSUME IInv, SealedInv, [Next]_vars PROVE SealedInv'
  OBVIOUS
<1>s. /\ sealed \in Seq([step : Rounds, at : Standings, move : CopMoves])
      /\ shown \in Seq(CopMoves) /\ Len(shown) <= Len(sealed) /\ Round = Len(sealed)
      /\ Round \in Nat /\ Len(shown) \in Nat
  BY DEF IInv, TypeOK, Round
<1>1. CASE sealed' = sealed /\ shown' = shown
  BY <1>1, SealedStays DEF SealedInv, Led, From, Round
<1>2. CASE CopCommits
  <2>1. PICK move \in HerMoves[Round + 1] :
          LET false == lie = [about |-> "standing", round |-> Round + 1]
              at == IF false THEN HerStanding ELSE Applied(HerStanding, move)
          IN  sealed' = Append(sealed, Seal(Round + 1, at, move))
    BY <1>2 DEF CopCommits, Round
  <2>2. PICK there : /\ sealed' = Append(sealed, Seal(Round + 1, there, move))
                     /\ lie.about = "nothing" => there = Applied(HerStanding, move)
    BY <2>1
  <2>3. /\ Round' = Round + 1 /\ sealed'[Round + 1] = Seal(Round + 1, there, move)
        /\ \A k \in 1 .. Round : sealed'[k] = sealed[k]
        /\ shown' = shown /\ lie' = lie
    BY <1>2, <1>s, <2>2 DEF CopCommits, Round
  <2>4. \A k \in 1 .. Round + 1 : From(k)' = From(k)
    BY <1>s, <2>3 DEF From
  <2>5. \A k \in 1 .. Round' : sealed'[k].step = k
    BY <1>s, <2>3 DEF SealedInv, Seal
  <2>6. ASSUME lie.about = "nothing", NEW k \in 1 .. Round' PROVE Led(k)'
    <3>1. CASE k = Round + 1
      <4>1. sealed'[k].at = Applied(HerStanding, sealed'[k].move)
        <5>1. sealed'[k] = Seal(Round + 1, there, move) /\ there = Applied(HerStanding, move)
          BY <2>2, <2>3, <2>6, <3>1
        <5> QED
          BY ONLY <5>1 DEF Seal
      <4>2. From(k)' = HerStanding
        BY <1>s, <2>4, <3>1, StandsThere
      <4> QED
        BY <4>1, <4>2 DEF Led
    <3>2. CASE k # Round + 1
      <4>1. k \in 1 .. Round
        BY <1>s, <2>3, <2>6, <3>2
      <4> QED
        BY <2>3, <2>4, <2>6, <4>1 DEF SealedInv, Led
    <3> QED
      BY <3>1, <3>2
  <2>7. lie.about = "nothing" => \A k \in 1 .. Len(shown)' : shown'[k] = sealed'[k].move
    BY <1>s, <2>3 DEF SealedInv
  <2> QED
    BY <2>3, <2>5, <2>6, <2>7 DEF SealedInv
<1>3. CASE CopReveals
  <2>1. Round > 0 /\ Len(shown) = Round - 1 /\ UNCHANGED <<lie, sealed>>
    BY <1>3 DEF CopReveals, Send, IInv, HerInv
  <2>2. PICK move : /\ shown' = Append(shown, move)
                    /\ lie.about = "nothing" => move = sealed[Round].move
    BY <1>3 DEF CopReveals, LiesAbout, Last, Round
  <2>3. Len(shown') = Round /\ shown'[Round] = move
        /\ \A k \in 1 .. Round - 1 : shown'[k] = shown[k]
    BY <1>s, <2>1, <2>2
  <2> QED
    BY <1>s, <2>1, <2>2, <2>3 DEF SealedInv, Led, From, Round
<1> QED
  BY <1>1, <1>2, <1>3, SealedStays DEF CopCommits, CopReveals

-----------------------------------------------------------------------------
(* What the trace records, whatever became of her calls.                   *)

\* The steps whose nonce came.
Nonces(t) == {s \in DOMAIN t.entries : t.entries[s].nonce}

\* The nonces are those of her first rounds, and every commitment in the
\* entries is one of hers.
Kept(t, hers) ==
  /\ \E r \in Nat : Nonces(t) = 1 .. r
  /\ \A s \in DOMAIN t.entries : t.entries[s].commit \in hers \cup {NoCommit}

\* Entries without a gap are as many as the last of them says.
LEMMA LastEntry ==
  ASSUME NEW t, NEW k \in Nat, DOMAIN t.entries = 1 .. k
  PROVE  Entries(t) = k
<1>1. k \in 1 .. k \cup {0} /\ \A y \in 1 .. k \cup {0} : k >= y
  OBVIOUS
<1>2. \A x \in 1 .. k \cup {0} : (\A y \in 1 .. k \cup {0} : x >= y) => x = k
  OBVIOUS
<1> QED
  BY <1>1, <1>2 DEF Entries, Max

\* Recording a commitment of hers, under whatever step, keeps the trace in order.
LEMMA CommitKept ==
  ASSUME NEW t, NEW hers, Kept(t, hers), NEW e \in hers, NEW k
  PROVE  Kept(RecordCommit(t, k, e), hers)
<1> DEFINE u == RecordCommit(t, k, e)
<1>d. DOMAIN u.entries = DOMAIN t.entries \cup {k}
  BY Recorded
<1>e. \A s \in DOMAIN u.entries :
        /\ s # k => s \in DOMAIN t.entries /\ u.entries[s] = t.entries[s]
        /\ s = k => u.entries[s].commit = e /\ u.entries[s].nonce = EntryAt(t, s).nonce
  BY Entered
<1> HIDE DEF u
<1>1. Nonces(u) = Nonces(t)
  BY <1>d, <1>e DEF Nonces, EntryAt, NoEntry, Entry
<1>2. \A s \in DOMAIN u.entries : u.entries[s].commit \in hers \cup {NoCommit}
  BY <1>d, <1>e DEF Kept
<1>3. Kept(u, hers)
  BY <1>1, <1>2 DEF Kept
<1> QED
  BY <1>3 DEF u

\* So does recording a move.
LEMMA RevealKept ==
  ASSUME NEW t, NEW hers, Kept(t, hers), NEW e, NEW k
  PROVE  Kept(RecordReveal(t, k, e), hers)
<1> DEFINE u == RecordReveal(t, k, e)
<1>d. DOMAIN u.entries = DOMAIN t.entries \cup {k}
  BY Recorded
<1>e. \A s \in DOMAIN u.entries :
        /\ s # k => s \in DOMAIN t.entries /\ u.entries[s] = t.entries[s]
        /\ s = k => /\ u.entries[s].commit = EntryAt(t, s).commit
                    /\ u.entries[s].nonce = EntryAt(t, s).nonce
  BY Entered
<1> HIDE DEF u
<1>1. Nonces(u) = Nonces(t)
  BY <1>d, <1>e DEF Nonces, EntryAt, NoEntry, Entry
<1>2. \A s \in DOMAIN u.entries : u.entries[s].commit \in hers \cup {NoCommit}
  BY <1>d, <1>e DEF Kept, EntryAt, NoEntry, Entry
<1>3. Kept(u, hers)
  BY <1>1, <1>2 DEF Kept
<1> QED
  BY <1>3 DEF u

\* Keeping the nonces of her first r rounds keeps the trace in order.
LEMMA FinalRevealKept ==
  ASSUME NEW t, NEW hers, Kept(t, hers), NEW r \in Nat
  PROVE  Kept(RecordFinalReveal(t, 1 .. r), hers)
<1> DEFINE u == RecordFinalReveal(t, 1 .. r)
<1>d. DOMAIN u.entries = DOMAIN t.entries \cup 1 .. r
  BY Recorded
<1>e. \A s \in DOMAIN u.entries :
        /\ u.entries[s].commit = EntryAt(t, s).commit
        /\ u.entries[s].nonce = (EntryAt(t, s).nonce \/ s \in 1 .. r)
  BY NoncesEntered
<1> HIDE DEF u
<1>1. Nonces(u) = Nonces(t) \cup 1 .. r
  BY <1>d, <1>e DEF Nonces, EntryAt, NoEntry, Entry
<1>2. \E q \in Nat : Nonces(u) = 1 .. q
  <2>1. PICK q \in Nat : Nonces(t) = 1 .. q
    BY DEF Kept
  <2>2. Nonces(u) = 1 .. q \/ Nonces(u) = 1 .. r
    BY <1>1, <2>1
  <2> QED
    BY <2>2
<1>3. \A s \in DOMAIN u.entries : u.entries[s].commit \in hers \cup {NoCommit}
  BY <1>d, <1>e DEF Kept, EntryAt, NoEntry, Entry
<1>4. Kept(u, hers)
  BY <1>2, <1>3 DEF Kept
<1> QED
  BY <1>4 DEF u

\* A trace that is in order stays so when she has sealed more.
LEMMA KeptGrows ==
  ASSUME NEW t, NEW hers, NEW more, Kept(t, hers), hers \subseteq more
  PROVE  Kept(t, more)
BY DEF Kept

\* A claim is recorded beside the entries.
LEMMA ClaimKept ==
  ASSUME NEW t, NEW hers, Kept(t, hers), NEW claim
  PROVE  Kept(RecordClaim(t, claim), hers)
BY DEF Kept, RecordClaim, Trace, Nonces

\* An empty trace is in order.
LEMMA EmptyKept ==
  ASSUME NEW hers
  PROVE  Kept(EmptyTrace, hers)
<1>1. DOMAIN EmptyTrace.entries = {} /\ 1 .. 0 = {} /\ 0 \in Nat
  BY DEF EmptyTrace
<1>2. Nonces(EmptyTrace) = 1 .. 0
  BY <1>1 DEF Nonces
<1> QED
  BY <1>1, <1>2 DEF Kept

\* Her commitments so far.
HerCommits == {sealed[r] : r \in 1 .. Round}

EntriesInv == Kept(trace, HerCommits)

\* The steps that touch the trace.
LEMMA WhatRecords ==
  ASSUME [Next]_vars
  PROVE  \/ trace' = trace
         \/ \E w \in Workers :
              \/ /\ CountCommit(w)
                 /\ trace' = RecordCommit(trace, job[w].step, sealed[job[w].call.round])
              \/ /\ CountReveal(w)
                 /\ trace' = RecordReveal(trace, job[w].step, shown[job[w].call.round])
              \/ KeepNonces(w) /\ trace' = RecordFinalReveal(trace, 1 .. job[w].call.round)
              \/ JudgeClaim(w) /\ trace' = RecordClaim(trace, Claimed(w))
         \/ GraceEnds
BY WorkerRecords
DEF Next, Cop, CopCommits, CopReveals, CopClaims, CopMovesOn, CopEnds, Retry, GiveUp, Thief,
    ThiefMoves, RoundArrived, RoundLost, Gone, vars, adapterVars

\* Whatever is repeated, late, lost or handled at once, the trace stays in order.
LEMMA EntriesStep == IInv /\ SealedInv /\ EntriesInv /\ [Next]_vars => EntriesInv'
<1> SUFFICES ASSUME IInv, SealedInv, EntriesInv, [Next]_vars PROVE EntriesInv'
  OBVIOUS
<1>g. HerCommits \subseteq HerCommits'
  BY SealedStays DEF HerCommits
<1>1. SUFFICES Kept(trace', HerCommits) \/ trace' = EmptyTrace
  BY <1>g, KeptGrows, EmptyKept DEF EntriesInv
<1>k. ASSUME NEW w \in Workers, job[w].at # "idle"
      PROVE  /\ job[w].call.round \in 0 .. Round
             /\ job[w].at \in CommitPlaces => job[w].call.round \in 1 .. Round
             /\ job[w].at \in RevealPlaces => job[w].call.round \in 1 .. Len(shown)
  <2>1. job[w] # Idle
    BY <1>k DEF Idle
  <2>2. Made(job[w].call) /\ job[w].call \in Calls
    BY DEF IInv, CallInv, TypeOK
  <2>3. job[w].call.kind \in {"commit", "reveal", "claim", "final"}
    BY <2>1, <2>2, AtCalls, CallTypes
  <2>4. job[w].call.round \in 0 .. MaxRounds
    BY <2>2, CallTypes
  <2>5. Round \in Nat
    BY SealedStays
  <2> QED
    BY <2>1, <2>2, <2>3, <2>4, <2>5, AtCalls DEF Made
<1>2. CASE trace' = trace
  BY <1>2 DEF EntriesInv
<1>3. ASSUME NEW w \in Workers, CountCommit(w) PROVE Kept(trace', HerCommits)
  <2>1. /\ job[w].at = "count_commit"
        /\ trace' = RecordCommit(trace, job[w].step, sealed[job[w].call.round])
    BY <1>3 DEF CountCommit
  <2>2. sealed[job[w].call.round] \in HerCommits
    BY <1>k, <2>1 DEF CommitPlaces, HerCommits
  <2> QED
    BY <2>1, <2>2, CommitKept DEF EntriesInv
<1>4. ASSUME NEW w \in Workers, CountReveal(w) PROVE Kept(trace', HerCommits)
  BY <1>4, RevealKept DEF CountReveal, EntriesInv
<1>5. ASSUME NEW w \in Workers, KeepNonces(w) PROVE Kept(trace', HerCommits)
  <2>1. job[w].at = "final" /\ trace' = RecordFinalReveal(trace, 1 .. job[w].call.round)
    BY <1>5 DEF KeepNonces
  <2>2. job[w].call.round \in Nat
    BY <1>k, <2>1, SealedStays
  <2> QED
    BY <2>1, <2>2, FinalRevealKept DEF EntriesInv
<1>6. ASSUME NEW w \in Workers, JudgeClaim(w) PROVE Kept(trace', HerCommits)
  BY <1>6, ClaimKept DEF JudgeClaim, EntriesInv
<1>7. CASE GraceEnds
  BY <1>7 DEF GraceEnds
<1> QED
  BY <1>2, <1>3, <1>4, <1>5, <1>6, <1>7, WhatRecords

\* As long as calls come in order, what was counted is there.
Filed(t) ==
  /\ \A s \in 1 .. t.nextCommit - 1 : s \in DOMAIN t.entries /\ t.entries[s].commit # NoCommit
  /\ \A s \in 1 .. t.nextReveal - 1 : s \in DOMAIN t.entries /\ t.entries[s].move # NoMove

FiledInv == Tidy => Filed(trace)

\* An entry under the next number carries the count on.
LEMMA FiledOn ==
  ASSUME NEW t, Filed(t), NEW e, t.nextCommit \in Nat, t.nextReveal \in Nat
  PROVE  /\ e # NoCommit => Filed(RecordCommit(t, t.nextCommit, e))
         /\ e # NoMove => Filed(RecordReveal(t, t.nextReveal, e))
         /\ Filed(RecordFinalReveal(t, e)) /\ Filed(RecordClaim(t, e))
<1>1. ASSUME e # NoCommit PROVE Filed(RecordCommit(t, t.nextCommit, e))
  <2> DEFINE u == RecordCommit(t, t.nextCommit, e)
  <2>d. /\ u.nextCommit = t.nextCommit + 1 /\ u.nextReveal = t.nextReveal
        /\ DOMAIN u.entries = DOMAIN t.entries \cup {t.nextCommit}
    BY Recorded
  <2>e. \A s \in DOMAIN u.entries :
          /\ s # t.nextCommit => s \in DOMAIN t.entries /\ u.entries[s] = t.entries[s]
          /\ s = t.nextCommit => u.entries[s].commit = e /\ u.entries[s].move = EntryAt(t, s).move
    BY Entered
  <2> HIDE DEF u
  <2>1. ASSUME NEW s \in 1 .. u.nextCommit - 1
        PROVE  s \in DOMAIN u.entries /\ u.entries[s].commit # NoCommit
    <3>1. s = t.nextCommit \/ s \in 1 .. t.nextCommit - 1
      BY <2>d
    <3> QED
      BY <1>1, <2>d, <2>e, <3>1 DEF Filed
  <2>2. \A s \in 1 .. u.nextReveal - 1 : s \in DOMAIN u.entries /\ u.entries[s].move # NoMove
    BY <2>d, <2>e DEF Filed, EntryAt
  <2>3. Filed(u)
    BY <2>1, <2>2 DEF Filed
  <2> QED
    BY <2>3 DEF u
<1>2. ASSUME e # NoMove PROVE Filed(RecordReveal(t, t.nextReveal, e))
  <2> DEFINE u == RecordReveal(t, t.nextReveal, e)
  <2>d. /\ u.nextReveal = t.nextReveal + 1 /\ u.nextCommit = t.nextCommit
        /\ DOMAIN u.entries = DOMAIN t.entries \cup {t.nextReveal}
    BY Recorded
  <2>e. \A s \in DOMAIN u.entries :
          /\ s # t.nextReveal => s \in DOMAIN t.entries /\ u.entries[s] = t.entries[s]
          /\ s = t.nextReveal => u.entries[s].move = e /\ u.entries[s].commit = EntryAt(t, s).commit
    BY Entered
  <2> HIDE DEF u
  <2>1. ASSUME NEW s \in 1 .. u.nextReveal - 1
        PROVE  s \in DOMAIN u.entries /\ u.entries[s].move # NoMove
    <3>1. s = t.nextReveal \/ s \in 1 .. t.nextReveal - 1
      BY <2>d
    <3> QED
      BY <1>2, <2>d, <2>e, <3>1 DEF Filed
  <2>2. \A s \in 1 .. u.nextCommit - 1 : s \in DOMAIN u.entries /\ u.entries[s].commit # NoCommit
    BY <2>d, <2>e DEF Filed, EntryAt
  <2>3. Filed(u)
    BY <2>1, <2>2 DEF Filed
  <2> QED
    BY <2>3 DEF u
<1>3. Filed(RecordFinalReveal(t, e))
  <2> DEFINE u == RecordFinalReveal(t, e)
  <2>d. /\ u.nextReveal = t.nextReveal /\ u.nextCommit = t.nextCommit
        /\ DOMAIN u.entries = DOMAIN t.entries \cup e
    BY Recorded
  <2>e. \A s \in DOMAIN u.entries :
          u.entries[s].commit = EntryAt(t, s).commit /\ u.entries[s].move = EntryAt(t, s).move
    BY NoncesEntered
  <2> HIDE DEF u
  <2>1. Filed(u)
    BY <2>d, <2>e DEF Filed, EntryAt
  <2> QED
    BY <2>1 DEF u
<1>4. Filed(RecordClaim(t, e))
  BY DEF Filed, RecordClaim, Trace
<1> QED
  BY <1>1, <1>2, <1>3, <1>4

LEMMA FiledStep == TidyInv /\ SealedInv /\ FiledInv /\ [Next]_vars => FiledInv'
<1> SUFFICES ASSUME TidyInv, SealedInv, FiledInv, [Next]_vars, Tidy' PROVE Filed(trace')
  BY DEF FiledInv
<1>t. IInv /\ Tidy /\ WorkInv /\ Filed(trace)
  BY TidyStays DEF TidyInv, IInv, TallyInv, FiledInv
<1>n. trace.nextCommit \in Nat /\ trace.nextReveal \in Nat /\ Round \in Nat
  BY <1>t, SealedStays DEF IInv, TraceInv
<1>w. ASSUME NEW w \in Workers, job[w].at # "idle"
      PROVE  AtWork(w) /\ Made(job[w].call)
             /\ (job[w].call.kind = "commit" <=> job[w].at \in CommitPlaces)
             /\ (job[w].call.kind = "reveal" <=> job[w].at \in RevealPlaces)
  BY <1>t, <1>w, AtCalls DEF WorkInv, Idle, IInv, CallInv
<1>1. CASE trace' = trace
  BY <1>1, <1>t
<1>2. ASSUME NEW w \in Workers, CountCommit(w) PROVE Filed(trace')
  <2>1. /\ job[w].at = "count_commit"
        /\ trace' = RecordCommit(trace, job[w].step, sealed[job[w].call.round])
    BY <1>2 DEF CountCommit
  <2>2. /\ job[w].call.round \in 1 .. Round /\ job[w].step = Round /\ Before(Round)
    BY <1>w, <2>1 DEF AtWork, Made, CommitPlaces
  <2>3. job[w].step = trace.nextCommit
    BY <1>n, <2>2 DEF Before, Counted, Recording
  <2>4. sealed[job[w].call.round] # NoCommit
    BY <2>2 DEF SealedInv, NoCommit
  <2> QED
    BY <1>n, <1>t, <2>1, <2>3, <2>4, FiledOn
<1>3. ASSUME NEW w \in Workers, CountReveal(w) PROVE Filed(trace')
  <2>1. /\ job[w].at = "count_reveal"
        /\ trace' = RecordReveal(trace, job[w].step, shown[job[w].call.round])
    BY <1>3 DEF CountReveal
  <2>2. job[w].call.round \in 1 .. Len(shown) /\ job[w].step = Round /\ Between(Round)
    BY <1>w, <2>1 DEF AtWork, Made, RevealPlaces
  <2>3. job[w].step = trace.nextReveal
    BY <1>n, <2>2 DEF Between, Counted, Recording
  <2>4. shown[job[w].call.round] # NoMove
    <3>1. shown \in Seq(CopMoves)
      BY <1>t DEF IInv, TypeOK
    <3>2. shown[job[w].call.round] \in CopMoves
      BY ONLY <2>2, <3>1, Elements
    <3> QED
      BY <3>2 DEF NoMove, CopMoves
  <2> QED
    BY <1>n, <1>t, <2>1, <2>3, <2>4, FiledOn
<1>4. ASSUME NEW w \in Workers, KeepNonces(w) \/ JudgeClaim(w) PROVE Filed(trace')
  BY <1>4, <1>n, <1>t, FiledOn DEF KeepNonces, JudgeClaim
<1>5. ~GraceEnds
  BY <1>t DEF GraceEnds, Tidy, Serving, IInv, TypeOK
<1> QED
  BY <1>1, <1>2, <1>3, <1>4, <1>5, WhatRecords

\* The nonces of the first r rounds are in the trace.
HasNonces(t, r) == \A s \in 1 .. r : s \in DOMAIN t.entries /\ t.entries[s].nonce

\* A thread about to audit has kept the nonces of its call.
NonceInv == \A w \in Workers : job[w].at = "audit" => HasNonces(trace, job[w].call.round)

\* A nonce that was kept is not forgotten by what is recorded after it.
LEMMA NoncesStay ==
  ASSUME NEW t, NEW r, HasNonces(t, r), NEW e, NEW k
  PROVE  /\ HasNonces(RecordCommit(t, k, e), r) /\ HasNonces(RecordReveal(t, k, e), r)
         /\ HasNonces(RecordFinalReveal(t, e), r) /\ HasNonces(RecordClaim(t, e), r)
BY DEF HasNonces, RecordCommit, RecordReveal, RecordFinalReveal, RecordClaim, Trace, WithEntry,
       EntryAt, Entry

LEMMA NoncesCome ==
  ASSUME NEW t, NEW r
  PROVE  HasNonces(RecordFinalReveal(t, 1 .. r), r)
BY DEF HasNonces, RecordFinalReveal, Trace, EntryAt, Entry

\* Every step keeps the nonces an audit is about to look for.
LEMMA NonceStep == IInv /\ NonceInv /\ [Next]_vars => NonceInv'
<1> SUFFICES ASSUME IInv, NonceInv, [Next]_vars, NEW w \in Workers, job'[w].at = "audit"
             PROVE  HasNonces(trace', job'[w].call.round)
  BY DEF NonceInv
<1>j. job \in [Workers -> [at : Places, call : Calls, step : Nat]]
  BY DEF IInv, TypeOK
<1>1. ~GraceEnds
  BY DEF GraceEnds, Idle
<1>2. CASE KeepNonces(w)
  <2>1. job'[w].call = job[w].call /\ trace' = RecordFinalReveal(trace, 1 .. job[w].call.round)
    BY <1>2, <1>j DEF KeepNonces, Goto
  <2> QED
    BY <2>1, NoncesCome
<1>3. CASE ~KeepNonces(w)
  <2>1. job'[w] = job[w]
    <3>1. CASE job' = job
      BY <3>1
    <3>2. CASE \E v \in Workers, copy \in wire : Takes(v, copy)
      <4>1. PICK v \in Workers, copy \in wire : Takes(v, copy)
        BY <3>2
      <4>2. copy[1].kind # "audit"
        BY CallTypes DEF IInv, TypeOK
      <4> QED
        BY <1>j, <4>1, <4>2 DEF Takes
    <3>3. ASSUME NEW v \in Workers, Worker(v), ~Deliver(v) PROVE job'[w] = job[w]
      BY <1>3, <1>j, <3>3
      DEF Worker, CheckCommit, PostCommit, NumberCommit, CountCommit, AdvanceCommit, MarkCommit,
          CheckReveal, PostReveal, NumberReveal, CountReveal, AdvanceReveal, MarkReveal,
          JudgeClaim, RespondToClaim, KeepNonces, AuditTrace, Goto, Answer, Idle
    <3>4. ASSUME NEW v \in Workers, Deliver(v) PROVE job'[w] = job[w]
      BY <3>2, <3>4 DEF Deliver, Takes
    <3> QED
      BY <1>1, <3>1, <3>3, <3>4
      DEF Next, Cop, CopCommits, CopReveals, CopClaims, CopMovesOn, CopEnds, Retry, GiveUp,
          Thief, ThiefMoves, RoundArrived, RoundLost, Gone, vars
  <2>2. HasNonces(trace, job[w].call.round)
    BY <2>1 DEF NonceInv
  <2> DEFINE r == job[w].call.round
  <2>3. ASSUME NEW e, NEW k
        PROVE  /\ HasNonces(RecordCommit(trace, k, e), r)
               /\ HasNonces(RecordReveal(trace, k, e), r)
    BY <2>2, NoncesStay
  <2>4. ASSUME NEW e
        PROVE  HasNonces(RecordFinalReveal(trace, e), r) /\ HasNonces(RecordClaim(trace, e), r)
    BY <2>2, NoncesStay
  <2>5. HasNonces(trace', r)
    BY <1>1, <2>2, <2>3, <2>4, WhatRecords
  <2> QED
    BY <2>1, <2>5
<1> QED
  BY <1>2, <1>3

-----------------------------------------------------------------------------
(* The end of the match.                                                   *)

Ending == cop.phase \in {"final", "done"}
OnlyFinal == \A w \in Workers : job[w] = Idle \/ job[w].call.kind = "final"

SameCounts == trace'.nextCommit = trace.nextCommit /\ trace'.nextReveal = trace.nextReveal

\* Once she is at the end and nothing but her final reveal is handled, it stays
\* so, and nothing more is sealed or counted.
LEMMA EndingStays ==
  ASSUME TidyInv, [Next]_vars, Tidy', Ending, OnlyFinal
  PROVE  Ending' /\ OnlyFinal' /\ UNCHANGED <<adapter, sealed>> /\ SameCounts
<1>t. IInv /\ Tidy /\ Alone /\ WorkInv
  BY TidyStays DEF TidyInv, IInv, TallyInv
<1>j. job \in [Workers -> [at : Places, call : Calls, step : Nat]]
      /\ cop \in [phase : Phases, whole : BOOLEAN]
  BY <1>t DEF IInv, TypeOK, Phases
<1>1. CASE UNCHANGED <<cop, job, adapter, sealed, trace>>
  BY <1>1 DEF Ending, OnlyFinal, SameCounts
<1>2. CASE GiveUp
  BY <1>2 DEF GiveUp, Ending, OnlyFinal, SameCounts, adapterVars
<1>3. CASE CopCommits \/ CopReveals \/ CopClaims \/ CopMovesOn
  BY <1>3 DEF CopCommits, CopReveals, CopClaims, CopMovesOn, Ending
<1>4. ASSUME NEW w \in Workers, Deliver(w)
      PROVE  Ending' /\ OnlyFinal' /\ UNCHANGED <<adapter, sealed>> /\ SameCounts
  <2>1. PICK copy \in wire :
          /\ job' = [job EXCEPT ![w] = [at |-> copy[1].kind, call |-> copy[1], step |-> 0]]
          /\ tidy' = (tidy /\ copy[1] = pending /\ \A v \in Workers : job[v] = Idle)
    BY <1>4 DEF Deliver
  <2>2. copy[1] = pending /\ pending.kind # "none"
    BY <1>t, <2>1 DEF Tidy, IInv, CallInv
  <2>3. pending.kind = "final"
    BY <1>t, <2>2 DEF IInv, HerInv, Ending, NoCall, FinalCall
  <2>4. UNCHANGED <<cop, adapter, sealed>> /\ SameCounts
    BY <1>4 DEF Deliver, herVars, adapterVars, SameCounts
  <2>5. OnlyFinal'
    BY <1>j, <2>1, <2>2, <2>3 DEF OnlyFinal
  <2> QED
    BY <2>4, <2>5 DEF Ending
<1>5. ASSUME NEW w \in Workers, Worker(w), ~Deliver(w)
      PROVE  Ending' /\ OnlyFinal' /\ UNCHANGED <<adapter, sealed>> /\ SameCounts
  <2>1. job[w] # Idle
    BY <1>5 DEF Worker, CheckCommit, PostCommit, NumberCommit, CountCommit, AdvanceCommit,
                MarkCommit, CheckReveal, PostReveal, NumberReveal, CountReveal, AdvanceReveal,
                MarkReveal, JudgeClaim, RespondToClaim, KeepNonces, AuditTrace, Idle
  <2>2. job[w].at \in FinalPlaces /\ job[w].call.kind = "final"
    BY <1>t, <2>1, AtCalls DEF OnlyFinal
  <2>3. KeepNonces(w) \/ AuditTrace(w)
    BY <1>5, <2>2
    DEF Worker, CheckCommit, PostCommit, NumberCommit, CountCommit, AdvanceCommit, MarkCommit,
        CheckReveal, PostReveal, NumberReveal, CountReveal, AdvanceReveal, MarkReveal, JudgeClaim,
        RespondToClaim, FinalPlaces
  <2>4. UNCHANGED <<adapter, sealed>> /\ SameCounts
    BY <2>3
    DEF KeepNonces, AuditTrace, herVars, adapterVars, SameCounts, RecordFinalReveal, Trace
  <2>5. cop'.phase \in {cop.phase, "done"}
    BY <1>j, <2>2, <2>3, NextPhase DEF KeepNonces, AuditTrace, Answer, herVars
  <2>6. OnlyFinal'
    BY <1>j, <2>2, <2>3 DEF KeepNonces, AuditTrace, Answer, Goto, OnlyFinal
  <2> QED
    BY <2>4, <2>5, <2>6 DEF Ending
<1>6. CASE GraceEnds
  BY <1>6 DEF GraceEnds, Tidy, Serving, TidyInv, IInv, TypeOK
<1> QED
  BY <1>1, <1>2, <1>3, <1>4, <1>5, <1>6
  DEF Next, Cop, CopEnds, Retry, Thief, ThiefMoves, RoundArrived, RoundLost, Gone, vars, herVars,
      adapterVars

\* Only the answer to a final reveal, or giving up, brings her to the end
\* otherwise than by her own decision.
LEMMA ComesToEnd ==
  ASSUME IInv, [Next]_vars, ~Ending, Ending'
  PROVE  CopMovesOn \/ GiveUp
<1>c. cop \in [phase : Phases, whole : BOOLEAN]
  BY DEF IInv, TypeOK, Phases
<1>1. cop' # cop
  BY DEF Ending
<1>2. ASSUME NEW w \in Workers, Worker(w) PROVE FALSE
  <2>1. Answered(w) /\ job[w] # Idle
    BY <1>1, <1>2, WhatAnswers
  <2>2. pending \in Calls /\ pending.kind \in {"commit", "reveal", "claim", "final"}
    BY <2>1, AtCalls, CallTypes DEF Answered
  <2>3. pending.kind # "final"
    BY PendingPhase DEF Ending
  <2>4. cop'.phase = PhaseAfter(pending.kind)
    BY <1>c, <2>1 DEF Answered
  <2> QED
    BY <2>2, <2>3, <2>4, NextPhase DEF Ending
<1> QED
  BY <1>1, <1>2
  DEF Next, Cop, CopCommits, CopReveals, CopClaims, CopEnds, Retry, Thief, ThiefMoves,
      RoundArrived, RoundLost, GraceEnds, Gone, vars, herVars

\* A call she gave up is not taken back.
LEMMA StaysWhole == IInv /\ [Next]_vars /\ cop'.whole => cop.whole
<1> SUFFICES ASSUME IInv, [Next]_vars PROVE cop'.whole => cop.whole
  OBVIOUS
<1>c. cop \in [phase : Phases, whole : BOOLEAN]
  BY DEF IInv, TypeOK, Phases
<1>1. CASE cop' = cop
  BY <1>1
<1>2. CASE \E phase : cop' = [cop EXCEPT !.phase = phase]
  BY ONLY <1>2, <1>c
<1>3. CASE GiveUp
  BY <1>3 DEF GiveUp
<1>4. CASE CopMovesOn
  BY <1>2, <1>4 DEF CopMovesOn
<1>5. ASSUME NEW w \in Workers, Worker(w) PROVE cop'.whole => cop.whole
  BY <1>1, <1>2, <1>5, WhatAnswers DEF Answered
<1> QED
  BY <1>1, <1>3, <1>4, <1>5
  DEF Next, Cop, CopCommits, CopReveals, CopClaims, CopEnds, Retry, Thief, ThiefMoves,
      RoundArrived, RoundLost, GraceEnds, Gone, vars, herVars

\* A cop whose every call was answered ends the match with every round of hers
\* counted, and nothing of the match is handled beside her final reveal.
FinalInv == Tidy /\ cop.whole /\ Ending => Round > 0 /\ Counted(Round, Round) /\ OnlyFinal

\* What the audit has seen is not added to.
AuditedInv == Tidy /\ audit.verdict # "not_evaluated" => Ending /\ OnlyFinal

LEMMA FinalStep == TidyInv /\ FinalInv /\ [Next]_vars => FinalInv'
<1> SUFFICES ASSUME TidyInv, FinalInv, [Next]_vars, Tidy', cop'.whole, Ending'
             PROVE  (Round > 0 /\ Counted(Round, Round) /\ OnlyFinal)'
  BY DEF FinalInv
<1>t. IInv /\ Tidy /\ Alone /\ WorkInv /\ IdleInv
  BY TidyStays DEF TidyInv, IInv, TallyInv
<1>1. CASE Ending
  <2>1. cop.whole
    BY <1>t, StaysWhole
  <2>2. Round > 0 /\ Counted(Round, Round) /\ OnlyFinal
    BY <1>1, <1>t, <2>1 DEF FinalInv
  <2>3. OnlyFinal' /\ UNCHANGED <<adapter, sealed>> /\ SameCounts
    BY <1>1, <2>2, EndingStays
  <2> QED
    BY <2>2, <2>3 DEF Counted, Numbered, Recording, SameCounts, Round
<1>2. CASE ~Ending
  <2>1. CopMovesOn
    <3>1. ~GiveUp
      BY DEF GiveUp
    <3> QED
      BY <1>2, <1>t, <3>1, ComesToEnd
  <2>2. pending = NoCall /\ cop.phase \in {"claim", "claimed"}
    BY <2>1 DEF CopMovesOn
  <2>3. \A w \in Workers : job[w] = Idle
    BY <1>t, <2>2, AtCalls DEF WorkInv, AtWork
  <2>4. After(Round) /\ Round > 0
    BY <1>t, <2>2, <2>3 DEF IdleInv, AtRest, IInv, HerInv
  <2>5. UNCHANGED <<adapter, sealed, job, trace>>
    BY <2>1 DEF CopMovesOn, adapterVars
  <2> QED
    BY <2>3, <2>4, <2>5 DEF After, Counted, Numbered, Recording, Round, OnlyFinal
<1> QED
  BY <1>1, <1>2

LEMMA AuditedStep == TidyInv /\ AuditedInv /\ [Next]_vars => AuditedInv'
<1> SUFFICES ASSUME TidyInv, AuditedInv, [Next]_vars, Tidy', audit'.verdict # "not_evaluated"
             PROVE  Ending' /\ OnlyFinal'
  BY DEF AuditedInv
<1>t. IInv /\ Tidy /\ Alone /\ WorkInv
  BY TidyStays DEF TidyInv, IInv, TallyInv
<1>1. SUFFICES Ending /\ OnlyFinal
  BY EndingStays
<1>2. CASE audit' = audit
  BY <1>2, <1>t DEF AuditedInv
<1>3. ASSUME NEW w \in Workers, AuditTrace(w) PROVE Ending /\ OnlyFinal
  <2>1. job[w].at = "audit" /\ job[w] # Idle
    BY <1>3 DEF AuditTrace, Idle
  <2>2. job[w].call.kind = "final" /\ AtWork(w)
    BY <1>t, <2>1, AtCalls DEF FinalPlaces, WorkInv
  <2>3. Ending
    BY <1>t, <2>2, PendingPhase DEF AtWork, Ending
  <2> QED
    BY <1>t, <2>1, <2>2, <2>3 DEF Alone, OnlyFinal
<1>4. CASE GraceEnds
  BY <1>4 DEF GraceEnds, NotEvaluated
<1> QED
  BY <1>2, <1>3, <1>4
  DEF Next, Cop, CopCommits, CopReveals, CopClaims, CopMovesOn, CopEnds, Retry, GiveUp, Thief,
      ThiefMoves, RoundArrived, RoundLost, Gone, Worker, Deliver, CheckCommit, PostCommit,
      NumberCommit, CountCommit, AdvanceCommit, MarkCommit, CheckReveal, PostReveal, NumberReveal,
      CountReveal, AdvanceReveal, MarkReveal, JudgeClaim, RespondToClaim, KeepNonces, vars,
      adapterVars

-----------------------------------------------------------------------------
(* The claims.                                                             *)

ClaimRecords == [step : Rounds, copCell : Cells]

\* Every claim in the trace is about a round she has sealed.
ClaimsInv ==
  /\ trace.claims \in Seq(ClaimRecords)
  /\ \A i \in DOMAIN trace.claims : trace.claims[i].step <= Round

\* What is recorded of the call's round is what the call says.
Fits(call) ==
  \A i \in DOMAIN trace.claims :
    trace.claims[i].step = call.round => trace.claims[i].copCell = call.copCell

\* She has not claimed in her last round.
Unclaimed == \A i \in DOMAIN trace.claims : trace.claims[i].step < Round
BeforeClaim ==
  \/ cop.phase = "commit" /\ pending # NoCall
  \/ cop.phase = "reveal"
  \/ cop.phase = "claim" /\ pending = NoCall

\* While calls come in order, she claims once in a round, however often the
\* claim is recorded.
OneClaimInv ==
  Tidy =>
    /\ BeforeClaim => Unclaimed
    /\ \A i, j \in DOMAIN trace.claims :
         trace.claims[i].step = trace.claims[j].step
           => trace.claims[i].copCell = trace.claims[j].copCell
    /\ pending.kind = "claim" => Fits(pending)
    /\ \A w \in Workers : job[w].call.kind = "claim" => Fits(job[w].call)

\* A claim leaves the claims before it as they are.
LEMMA ClaimAdded ==
  ASSUME ClaimsInv, NEW claim \in ClaimRecords, trace' = RecordClaim(trace, claim)
  PROVE  /\ trace'.claims \in Seq(ClaimRecords)
         /\ \A i \in DOMAIN trace'.claims :
              \/ i \in DOMAIN trace.claims /\ trace'.claims[i] = trace.claims[i]
              \/ trace'.claims[i] = claim
<1>1. trace'.claims = Append(trace.claims, claim)
  BY DEF RecordClaim, Trace
<1>2. trace.claims \in Seq(ClaimRecords)
  BY DEF ClaimsInv
<1> QED
  BY ONLY <1>1, <1>2, claim \in ClaimRecords

\* Only a claim, and the end of the process, touch the claims.
LEMMA WhatClaims ==
  ASSUME [Next]_vars
  PROVE  \/ trace'.claims = trace.claims
         \/ \E w \in Workers : JudgeClaim(w)
         \/ GraceEnds
<1>1. ASSUME NEW e, NEW k
      PROVE  /\ RecordCommit(trace, k, e).claims = trace.claims
             /\ RecordReveal(trace, k, e).claims = trace.claims
             /\ RecordFinalReveal(trace, e).claims = trace.claims
  BY DEF RecordCommit, RecordReveal, RecordFinalReveal, Trace
<1> QED
  BY <1>1, WhatRecords

\* The claims by their types.
LEMMA ClaimTypes ==
  ASSUME ClaimsInv, NEW i \in DOMAIN trace.claims
  PROVE  /\ trace.claims[i] \in ClaimRecords
         /\ trace.claims[i].step \in Nat \ {0} /\ trace.claims[i].step <= Round
<1>1. trace.claims \in Seq(ClaimRecords) /\ trace.claims[i].step <= Round
  BY DEF ClaimsInv
<1>2. trace.claims[i] \in ClaimRecords
  BY ONLY <1>1, i \in DOMAIN trace.claims
<1> QED
  BY <1>1, <1>2, CopAdapterAssumption DEF ClaimRecords, Rounds, CopAdapterAssumption

\* The claim a thread is about to record.
LEMMA ClaimAtHand ==
  ASSUME IInv, NEW w \in Workers, JudgeClaim(w)
  PROVE  /\ job[w] # Idle /\ job[w].call.kind = "claim" /\ job[w].call.round \in 1 .. Round
         /\ Claimed(w) \in ClaimRecords /\ trace' = RecordClaim(trace, Claimed(w))
<1>1. job[w].at = "claim" /\ job[w] # Idle /\ trace' = RecordClaim(trace, Claimed(w))
  BY DEF JudgeClaim, Idle
<1>2. job[w].call.kind = "claim" /\ job[w].call \in Calls /\ Made(job[w].call)
  BY <1>1, AtCalls DEF ClaimPlaces, IInv, CallInv
<1> QED
  BY <1>1, <1>2, CallTypes DEF Made, Claimed, ClaimRecords

LEMMA ClaimsStep == IInv /\ ClaimsInv /\ [Next]_vars => ClaimsInv'
<1> SUFFICES ASSUME IInv, ClaimsInv, [Next]_vars PROVE ClaimsInv'
  OBVIOUS
<1>1. CASE trace'.claims = trace.claims
  <2>1. \A i \in DOMAIN trace.claims : trace.claims[i].step \in Int
    BY ClaimTypes
  <2> QED
    BY <1>1, <2>1, SealedStays DEF ClaimsInv
<1>2. ASSUME NEW w \in Workers, JudgeClaim(w) PROVE ClaimsInv'
  <2>1. sealed' = sealed /\ Claimed(w).step <= Round
    BY <1>2, ClaimAtHand, SealedStays DEF JudgeClaim, herVars, Claimed
  <2> QED
    BY <1>2, <2>1, ClaimAtHand, ClaimAdded DEF ClaimsInv, Round
<1>3. CASE GraceEnds
  <2>1. trace'.claims = <<>>
    BY <1>3 DEF GraceEnds, EmptyTrace
  <2> QED
    BY <2>1 DEF ClaimsInv
<1> QED
  BY <1>1, <1>2, <1>3, WhatClaims

LEMMA OneClaimStep == TidyInv /\ ClaimsInv /\ OneClaimInv /\ [Next]_vars => OneClaimInv'
<1> SUFFICES ASSUME TidyInv, ClaimsInv, OneClaimInv, [Next]_vars, Tidy' PROVE OneClaimInv'
  BY DEF OneClaimInv
<1>t. IInv /\ Tidy /\ Alone /\ WorkInv
  BY TidyStays DEF TidyInv, IInv, TallyInv
<1>o. /\ BeforeClaim => Unclaimed
      /\ \A i, j \in DOMAIN trace.claims :
           trace.claims[i].step = trace.claims[j].step
             => trace.claims[i].copCell = trace.claims[j].copCell
      /\ pending.kind = "claim" => Fits(pending)
      /\ \A w \in Workers : job[w].call.kind = "claim" => Fits(job[w].call)
  BY <1>t DEF OneClaimInv
<1>j. job \in [Workers -> [at : Places, call : Calls, step : Nat]]
      /\ cop \in [phase : Phases, whole : BOOLEAN] /\ Round \in Nat
  BY <1>t, SealedStays DEF IInv, TypeOK, Phases
<1>c. \A i \in DOMAIN trace.claims : trace.claims[i].step \in Int /\ trace.claims[i].step <= Round
  BY ClaimTypes
<1>1. CASE UNCHANGED <<sealed, cop, pending, job>> /\ trace'.claims = trace.claims
  BY <1>o, <1>1 DEF OneClaimInv, BeforeClaim, Unclaimed, Fits, Round
<1>2. CASE CopCommits
  <2>1. Round' = Round + 1 /\ UNCHANGED <<cop, job, trace>> /\ pending'.kind = "commit"
    BY <1>t, <1>2 DEF CopCommits, Send, CommitCall, Round, IInv, TypeOK, adapterVars
  <2> QED
    BY <1>o, <1>c, <1>j, <2>1 DEF OneClaimInv, Unclaimed, Fits
<1>3. CASE CopReveals
  <2>1. UNCHANGED <<cop, job, trace, sealed>> /\ pending'.kind = "reveal" /\ cop.phase = "reveal"
    BY <1>3 DEF CopReveals, Send, RevealCall, adapterVars
  <2> QED
    BY <1>o, <2>1 DEF OneClaimInv, BeforeClaim, Unclaimed, Fits, Round
<1>4. CASE CopClaims
  <2>1. UNCHANGED <<cop, job, trace, sealed>> /\ cop.phase = "claim" /\ pending = NoCall
    BY <1>4 DEF CopClaims, Send, adapterVars
  <2>2. PICK cell, copCell : pending' = ClaimCall(Round, cell, copCell)
    BY <1>4 DEF CopClaims, Send, Round
  <2>3. pending' # NoCall /\ pending'.round = Round
    BY <2>2 DEF ClaimCall, NoCall
  <2>4. Unclaimed
    BY <1>o, <2>1 DEF BeforeClaim
  <2>5. Fits(pending)' /\ ~BeforeClaim'
    BY <1>c, <1>j, <2>1, <2>3, <2>4 DEF Fits, Unclaimed, BeforeClaim
  <2> QED
    BY <1>o, <2>1, <2>5 DEF OneClaimInv, Fits
<1>5. CASE CopMovesOn \/ GiveUp \/ CopEnds
  <2>1. UNCHANGED <<job, trace, sealed>>
    BY <1>5 DEF CopMovesOn, GiveUp, CopEnds, adapterVars
  <2>2. pending'.kind # "claim" /\ ~BeforeClaim'
    BY <1>5, <1>j DEF CopMovesOn, GiveUp, CopEnds, Send, NoCall, FinalCall, BeforeClaim
  <2> QED
    BY <1>o, <2>1, <2>2 DEF OneClaimInv, Fits
<1>6. ASSUME NEW w \in Workers, Deliver(w) PROVE OneClaimInv'
  <2>1. PICK copy \in wire :
          /\ job' = [job EXCEPT ![w] = [at |-> copy[1].kind, call |-> copy[1], step |-> 0]]
          /\ tidy' = (tidy /\ copy[1] = pending /\ \A v \in Workers : job[v] = Idle)
    BY <1>6 DEF Deliver
  <2>2. UNCHANGED <<sealed, cop, pending, trace>> /\ copy[1] = pending
    BY <1>6, <2>1 DEF Deliver, herVars, adapterVars, Tidy
  <2>3. \A v \in Workers : job'[v].call \in {job[v].call, pending}
    BY <1>j, <2>1, <2>2
  <2> QED
    BY <1>o, <2>2, <2>3 DEF OneClaimInv, BeforeClaim, Unclaimed, Fits, Round
<1>7. ASSUME NEW w \in Workers, Worker(w), ~Deliver(w) PROVE OneClaimInv'
  <2>1. job[w] # Idle
    BY <1>7 DEF Worker, CheckCommit, PostCommit, NumberCommit, CountCommit, AdvanceCommit,
                MarkCommit, CheckReveal, PostReveal, NumberReveal, CountReveal, AdvanceReveal,
                MarkReveal, JudgeClaim, RespondToClaim, KeepNonces, AuditTrace, Idle
  <2>2. \A v \in Workers : job'[v].call \in {job[v].call, NoCall}
    <3>1. \/ job' = [job EXCEPT ![w] = Idle]
          \/ \E place, step : job' = [job EXCEPT ![w].at = place, ![w].step = step]
          \/ \E place : job' = [job EXCEPT ![w].at = place]
      BY <1>7
      DEF Worker, CheckCommit, PostCommit, NumberCommit, CountCommit, AdvanceCommit, MarkCommit,
          CheckReveal, PostReveal, NumberReveal, CountReveal, AdvanceReveal, MarkReveal,
          JudgeClaim, RespondToClaim, KeepNonces, AuditTrace, Goto, Answer
    <3>2. ASSUME NEW place, NEW step, job' = [job EXCEPT ![w].at = place, ![w].step = step]
          PROVE  \A v \in Workers : job'[v].call = job[v].call
      BY <1>j, <3>2
    <3>3. ASSUME NEW place, job' = [job EXCEPT ![w].at = place]
          PROVE  \A v \in Workers : job'[v].call = job[v].call
      BY <1>j, <3>3
    <3>4. ASSUME job' = [job EXCEPT ![w] = Idle]
          PROVE  \A v \in Workers : job'[v].call \in {job[v].call, NoCall}
      BY <1>j, <3>4 DEF Idle
    <3> QED
      BY <3>1, <3>2, <3>3, <3>4
  <2>3. sealed' = sealed /\ (Answered(w) \/ UNCHANGED <<cop, pending>>)
    BY <1>t, <1>7, WhatAnswers
  <2>4. BeforeClaim' => BeforeClaim
    <3>1. CASE UNCHANGED <<cop, pending>>
      BY <3>1 DEF BeforeClaim
    <3>2. CASE Answered(w)
      <4>1. pending # NoCall /\ pending \in Calls /\ pending.kind # "none"
        BY <1>t, <2>1, <3>2, AtCalls DEF Answered
      <4>2. pending' = NoCall /\ cop'.phase = PhaseAfter(pending.kind)
        BY <1>j, <3>2 DEF Answered
      <4>3. pending.kind \in {"commit", "reveal", "claim", "final"}
        BY <4>1, CallTypes
      <4> QED
        BY <1>t, <4>1, <4>2, <4>3, NextPhase, PendingPhase DEF BeforeClaim
    <3> QED
      BY <2>3, <3>1, <3>2
  <2>5. pending'.kind = "claim" => pending' = pending
    BY <2>3 DEF Answered, NoCall
  <2>6. CASE trace'.claims = trace.claims
    BY <1>o, <2>2, <2>3, <2>4, <2>5, <2>6 DEF OneClaimInv, Unclaimed, Fits, Round, NoCall
  <2>7. CASE JudgeClaim(w)
    <3>1. /\ job[w].call.kind = "claim" /\ job[w].call.round = Round
          /\ Claimed(w) \in ClaimRecords /\ trace' = RecordClaim(trace, Claimed(w))
          /\ UNCHANGED <<cop, pending>>
      BY <1>t, <2>1, <2>7, ClaimAtHand DEF WorkInv, AtWork, JudgeClaim, herVars
    <3>2. \A i \in DOMAIN trace'.claims :
             \/ i \in DOMAIN trace.claims /\ trace'.claims[i] = trace.claims[i]
             \/ trace'.claims[i] = Claimed(w)
      BY <3>1, ClaimAdded
    <3>3. Claimed(w).step = Round /\ Claimed(w).copCell = job[w].call.copCell
      BY <3>1 DEF Claimed
    <3>4. Fits(job[w].call)
      BY <1>o, <3>1
    <3>5. Fits(job[w].call)'
      <4>1. job'[w].call = job[w].call
        BY <1>j, <2>7 DEF JudgeClaim, Goto
      <4> QED
        BY <3>2, <3>3, <3>4, <4>1 DEF Fits
    <3>6. \A v \in Workers \ {w} : job'[v] = Idle
      BY <1>t, <1>j, <2>1, <2>7 DEF JudgeClaim, Goto, Alone
    <3>7. pending.kind = "claim" => pending = job[w].call
      BY <1>t, <2>1, PendingPhase DEF WorkInv, AtWork
    <3>8. ~BeforeClaim'
      <4>1. job[w].call = pending \/ cop.phase \in {"final", "done"}
        BY <1>t, <2>1 DEF WorkInv, AtWork
      <4>2. job[w].call = pending => cop.phase = "claim" /\ pending # NoCall
        BY <1>t, <3>1, PendingPhase DEF NoCall
      <4> QED
        BY <3>1, <4>1, <4>2 DEF BeforeClaim
    <3>9. \A i, j \in DOMAIN trace'.claims :
             trace'.claims[i].step = trace'.claims[j].step
               => trace'.claims[i].copCell = trace'.claims[j].copCell
      BY <1>o, <3>1, <3>2, <3>3, <3>4 DEF Fits
    <3>10. job'[w].call = job[w].call
      BY <1>j, <2>7 DEF JudgeClaim, Goto
    <3> QED
      BY <3>1, <3>5, <3>6, <3>7, <3>8, <3>9, <3>10 DEF OneClaimInv, Idle, NoCall, Fits
  <2> QED
    BY <1>7, <2>6, <2>7
    DEF Worker, CheckCommit, PostCommit, NumberCommit, CountCommit, AdvanceCommit, MarkCommit,
        CheckReveal, PostReveal, NumberReveal, CountReveal, AdvanceReveal, MarkReveal,
        RespondToClaim, KeepNonces, AuditTrace, RecordCommit, RecordReveal, RecordFinalReveal,
        Trace, adapterVars
<1>8. CASE GraceEnds
  BY <1>8, <1>t DEF GraceEnds, Tidy, Serving, IInv, TypeOK
<1> QED
  BY <1>1, <1>2, <1>3, <1>4, <1>5, <1>6, <1>7, <1>8
  DEF Next, Cop, Retry, Thief, ThiefMoves, RoundArrived, RoundLost, Gone, vars, herVars,
      adapterVars

\* A claim from where she stood.
Honest(call) == call.kind = "claim" => call.copCell = sealed[call.round].at.cell

\* A cop who does not lie claims from where she stood, and that is what is
\* recorded of her, whenever it arrives.
HonestInv ==
  lie.about = "nothing" =>
    /\ Honest(pending) /\ \A copy \in wire : Honest(copy[1])
    /\ \A w \in Workers : Honest(job[w].call)
    /\ \A i \in DOMAIN trace.claims :
         trace.claims[i].copCell = sealed[trace.claims[i].step].at.cell

LEMMA HonestStep == IInv /\ ClaimsInv /\ HonestInv /\ [Next]_vars => HonestInv'
<1> SUFFICES ASSUME IInv, ClaimsInv, HonestInv, [Next]_vars, lie.about = "nothing"
             PROVE  HonestInv'
  BY SealedStays DEF HonestInv
<1>j. job \in [Workers -> [at : Places, call : Calls, step : Nat]] /\ wire \subseteq Calls \X Nat
  BY DEF IInv, TypeOK
<1>h. ASSUME NEW c, Honest(c), Made(c) PROVE Honest(c)'
  BY <1>h, SealedStays DEF Honest, Made
<1>n. Honest(NoCall)' /\ Idle.call = NoCall
  BY DEF Honest, NoCall, Idle
<1>1. Honest(pending)'
  <2>1. pending' = pending \/ pending'.kind # "claim" \/ CopClaims
    <3>1. CASE CopCommits \/ CopReveals \/ CopEnds \/ GiveUp
      BY <3>1 DEF CopCommits, CopReveals, CopEnds, GiveUp, Send, CommitCall, RevealCall,
                  FinalCall, NoCall
    <3>2. ASSUME NEW w \in Workers, Worker(w) PROVE pending' = pending \/ pending' = NoCall
      BY <3>2, WhatAnswers DEF Answered
    <3>3. CASE CopMovesOn \/ Retry \/ Thief \/ Gone \/ UNCHANGED vars
      BY <3>3
      DEF CopMovesOn, Retry, Thief, ThiefMoves, RoundArrived, RoundLost, GraceEnds, Gone, vars,
          herVars
    <3>4. NoCall.kind # "claim"
      BY DEF NoCall
    <3> QED
      BY <3>1, <3>2, <3>3, <3>4 DEF Next, Cop
  <2>2. CASE pending' = pending
    <3>1. pending = NoCall \/ Made(pending)
      BY WhatPends DEF IInv, PendingMade
    <3> QED
      BY <1>h, <1>n, <2>2, <3>1 DEF HonestInv, Honest
  <2>3. CASE CopClaims
    <3>1. PICK cell : pending' = ClaimCall(Round, cell, HerStanding.cell)
      BY <2>3 DEF CopClaims, Send, LiesAbout, Round
    <3>2. Round > 0 /\ Round \in Nat /\ sealed' = sealed
      BY <2>3, SealedStays DEF CopClaims, IInv, HerInv
    <3>3. HerStanding = sealed[Round].at
      BY <3>2, StandsThere DEF From
    <3> QED
      BY <3>1, <3>2, <3>3 DEF Honest, ClaimCall
  <2> QED
    BY <2>1, <2>2, <2>3 DEF Honest
<1>2. \A copy \in wire : Honest(copy[1])'
  BY <1>h DEF HonestInv, IInv, CallInv
<1>3. \A w \in Workers : \A c : c = job[w].call => Honest(c)'
  BY <1>h DEF HonestInv, IInv, CallInv
<1>4. \A copy \in wire' : Honest(copy[1])'
  <2>1. \A copy \in wire' : copy \in wire \/ copy[1] = pending'
    BY WireSteps DEF Takes
  <2> QED
    BY <1>1, <1>2, <2>1 DEF Honest
<1>5. \A w \in Workers : Honest(job[w].call)'
  <2>1. ASSUME NEW w \in Workers
        PROVE  job'[w].call = job[w].call \/ job'[w].call = NoCall
                 \/ \E copy \in wire : job'[w].call = copy[1]
    BY <1>j, <1>n, WireSteps DEF Takes, GoesOn
  <2> QED
    BY <1>2, <1>3, <1>n, <2>1 DEF Honest
<1>6. \A i \in DOMAIN trace'.claims :
         trace'.claims[i].copCell = sealed'[trace'.claims[i].step].at.cell
  <2>1. \A i \in DOMAIN trace.claims :
           trace.claims[i].copCell = sealed'[trace.claims[i].step].at.cell
    BY ClaimTypes, SealedStays DEF HonestInv
  <2>2. ASSUME NEW w \in Workers, JudgeClaim(w)
        PROVE  Claimed(w).copCell = sealed'[Claimed(w).step].at.cell
    BY <1>3, <2>2, ClaimAtHand DEF Honest, Claimed
  <2>3. CASE GraceEnds
    BY <2>3 DEF GraceEnds, EmptyTrace
  <2> QED
    BY <2>1, <2>2, <2>3, WhatClaims, ClaimAtHand, ClaimAdded
<1> QED
  BY <1>1, <1>4, <1>5, <1>6 DEF HonestInv

-----------------------------------------------------------------------------
(* The invariant of the audit.                                             *)

\* What holds of the trace whatever became of her calls, and in order.
AuditInv ==
  /\ SealedInv /\ EntriesInv /\ NonceInv /\ ClaimsInv /\ HonestInv
  /\ FiledInv /\ OneClaimInv /\ FinalInv /\ AuditedInv

LEMMA InitAudit == Init => AuditInv
<1> SUFFICES ASSUME Init PROVE AuditInv
  OBVIOUS
<1>1. SealedInv
  BY DEF Init, SealedInv, Round
<1>2. EntriesInv /\ FiledInv
  BY EmptyKept DEF Init, EntriesInv, FiledInv, Filed, EmptyTrace
<1>3. NonceInv
  BY DEF Init, NonceInv, Idle
<1>4. ClaimsInv
  BY DEF Init, ClaimsInv, EmptyTrace
<1>5. HonestInv
  BY DEF Init, HonestInv, Honest, Idle, NoCall, EmptyTrace
<1>6. OneClaimInv
  BY DEF Init, OneClaimInv, Unclaimed, Idle, NoCall, EmptyTrace
<1>7. FinalInv /\ AuditedInv
  BY DEF Init, FinalInv, AuditedInv, Ending, NotEvaluated
<1> QED
  BY <1>1, <1>2, <1>3, <1>4, <1>5, <1>6, <1>7 DEF AuditInv

LEMMA InductiveAudit == Spec => [](TidyInv /\ GoneInv /\ AuditInv)
<1>1. TidyInv /\ AuditInv /\ [Next]_vars => AuditInv'
  <2> SUFFICES ASSUME TidyInv, AuditInv, [Next]_vars PROVE AuditInv'
    OBVIOUS
  <2>1. IInv
    BY DEF TidyInv
  <2>2. SealedInv' /\ EntriesInv' /\ NonceInv' /\ ClaimsInv' /\ HonestInv'
    BY <2>1, SealedStep, EntriesStep, NonceStep, ClaimsStep, HonestStep DEF AuditInv
  <2>3. FiledInv' /\ OneClaimInv' /\ FinalInv' /\ AuditedInv'
    BY FiledStep, OneClaimStep, FinalStep, AuditedStep DEF AuditInv
  <2> QED
    BY <2>2, <2>3 DEF AuditInv
<1> QED
  BY <1>1, InitAudit, InductiveTidy, PTL DEF Spec

-----------------------------------------------------------------------------
(* What a passed audit vouches for.                                        *)

\* The entries of a trace that passed are her commitments, each to the standing
\* its own move led to, with the move that was revealed.
LEMMA PassedEntries ==
  ASSUME IInv, SealedInv, EntriesInv, AuditPassed(trace, Entries(trace))
  PROVE  LET n == Cardinality(CheckedSteps(trace))
         IN  /\ n \in 1 .. Round /\ CheckedSteps(trace) = 1 .. n
             /\ DOMAIN trace.entries = 1 .. n
             /\ \A s \in 1 .. n :
                  /\ Led(s) /\ sealed[s].at = Replay(trace.entries, Entries(trace))[s]
                  /\ trace.entries[s].move = sealed[s].move /\ trace.entries[s].move # NoMove
<1> DEFINE last == Entries(trace)
           at == Replay(trace.entries, last)
<1>c. \A s \in DOMAIN trace.entries : Complete(trace.entries[s])
  BY DEF AuditPassed, FailedSteps, CheckedSteps
<1>n. PICK upto \in Nat : Nonces(trace) = 1 .. upto
  BY DEF EntriesInv, Kept
<1>d. DOMAIN trace.entries = 1 .. upto
  BY <1>c, <1>n DEF Nonces, Complete
<1>k. /\ DOMAIN trace.entries = 1 .. last /\ last \in Nat
      /\ \A s \in DOMAIN trace.entries : trace.entries[s].commit \in HerCommits \cup {NoCommit}
  BY <1>d, LastEntry DEF EntriesInv, Kept
<1>r. Round \in Nat /\ sealed \in Seq([step : Rounds, at : Standings, move : CopMoves])
  BY DEF IInv, TypeOK, Round
<1>p. /\ FailedSteps(trace, last) = {} /\ CheckedSteps(trace) # {}
  BY DEF AuditPassed
<1>1. \A s \in DOMAIN trace.entries :
        /\ Complete(trace.entries[s])
        /\ trace.entries[s].commit = Seal(s, at[s], trace.entries[s].move)
  BY <1>p DEF FailedSteps, CheckedSteps
<1>2. CheckedSteps(trace) = 1 .. last
  BY <1>k, <1>1 DEF CheckedSteps
<1>3. Cardinality(CheckedSteps(trace)) = last
  <2>1. Cardinality(1 .. last) = IF 1 > last THEN 0 ELSE last - 1 + 1
    BY <1>k, FS_Interval
  <2> QED
    BY <1>2, <1>k, <2>1
<1>4. last >= 1
  BY <1>k, <1>p, <1>2
<1>5. at[0] = Start /\ \A n \in 1 .. last : at[n] = Replayed(trace.entries, n, at[n - 1])
  BY <1>k, ReplayUnfolds
<1> HIDE DEF at, last
<1>6. ASSUME NEW s \in 1 .. last
      PROVE  /\ s \in 1 .. Round /\ trace.entries[s].commit = sealed[s]
             /\ sealed[s].at = at[s] /\ trace.entries[s].move = sealed[s].move
             /\ trace.entries[s].move # NoMove
  <2>1. /\ trace.entries[s].commit = Seal(s, at[s], trace.entries[s].move)
        /\ trace.entries[s].commit # NoCommit /\ trace.entries[s].move # NoMove
        /\ trace.entries[s].commit \in HerCommits \cup {NoCommit}
    BY <1>1, <1>k DEF Complete
  <2>2. PICK r \in 1 .. Round : trace.entries[s].commit = sealed[r]
    BY <2>1 DEF HerCommits
  <2>3. sealed[r].step = s /\ sealed[r].at = at[s] /\ sealed[r].move = trace.entries[s].move
    BY <2>1, <2>2 DEF Seal
  <2>4. r = s
    BY <2>3 DEF SealedInv
  <2> QED
    BY <2>1, <2>2, <2>3, <2>4
<1>7. last \in 1 .. Round
  BY <1>4, <1>6, <1>k
<1>8. ASSUME NEW s \in 1 .. last PROVE Led(s)
  <2>1. at[s] = Applied(at[s - 1], trace.entries[s].move)
    BY <1>1, <1>5, <1>k DEF Replayed
  <2>2. From(s) = at[s - 1]
    <3>1. CASE s = 1
      BY <1>5, <3>1 DEF From
    <3>2. CASE s # 1
      <4>1. s - 1 \in 1 .. last
        BY <1>k, <3>2
      <4> QED
        BY <1>6, <3>2, <4>1 DEF From
    <3> QED
      BY <3>1, <3>2
  <2> QED
    BY <1>6, <2>1, <2>2 DEF Led
<1> QED
  BY <1>k, <1>2, <1>3, <1>6, <1>7, <1>8 DEF at, last

\* The last claim of a step is there for every claim of it.
LEMMA LastClaimExists ==
  ASSUME ClaimsInv, NEW i \in DOMAIN trace.claims
  PROVE  \E j \in LastClaims(trace) : trace.claims[j].step = trace.claims[i].step
<1>1. trace.claims \in Seq(ClaimRecords)
  BY DEF ClaimsInv
<1> DEFINE len == Len(trace.claims)
           T == {m \in Nat : len - m \in DOMAIN trace.claims
                               /\ trace.claims[len - m].step = trace.claims[i].step}
<1>2. DOMAIN trace.claims = 1 .. len /\ len \in Nat
  BY <1>1
<1>3. len - i \in T
  <2>1. len - (len - i) = i /\ len - i \in Nat
    BY <1>2
  <2> QED
    BY <2>1
<1>4. PICK m \in T : \A k \in T : m <= k
  <2>1. T \in SUBSET Nat /\ T # {}
    BY <1>3
  <2> HIDE DEF T
  <2> QED
    BY <2>1, LeastElement
<1>5. ASSUME NEW j \in DOMAIN trace.claims, trace.claims[j].step = trace.claims[len - m].step
      PROVE  j <= len - m
  <2>1. len - (len - j) = j /\ len - j \in Nat
    BY <1>2
  <2>2. len - j \in T
    BY <1>4, <1>5, <2>1
  <2> QED
    BY <1>2, <1>4, <2>2
<1> QED
  BY <1>4, <1>5 DEF LastClaims

\* The flag of an order that was kept is not raised again.
LEMMA TidyFlag == [Next]_vars /\ tidy' => tidy
BY
DEF Next, Cop, CopCommits, CopReveals, CopClaims, CopMovesOn, CopEnds, Retry, GiveUp, Thief,
    ThiefMoves, RoundArrived, RoundLost, GraceEnds, Gone, vars, Worker, Deliver, CheckCommit,
    PostCommit, NumberCommit, CountCommit, AdvanceCommit, MarkCommit, CheckReveal, PostReveal,
    NumberReveal, CountReveal, AdvanceReveal, MarkReveal, JudgeClaim, RespondToClaim, KeepNonces,
    AuditTrace

\* An audit that passes vouches for what the property says.
LEMMA PassedFaithfully ==
  ASSUME TidyInv, AuditInv, NEW w \in Workers, AuditTrace(w)
  PROVE  AuditIsFaithful'
<1> SUFFICES ASSUME audit'.verdict = "passed" PROVE AuditIsFaithful'
  BY DEF AuditIsFaithful
<1>i. IInv /\ SealedInv /\ EntriesInv /\ ClaimsInv
  BY DEF TidyInv, AuditInv
<1>a. /\ Serving /\ UNCHANGED <<sealed, shown, trace, tidy>>
      /\ audit' = [verdict |-> IF AuditPassed(trace, Entries(trace)) THEN "passed" ELSE "failed",
                   verified |-> Cardinality(CheckedSteps(trace))]
  BY DEF AuditTrace
<1>p. AuditPassed(trace, Entries(trace))
  BY <1>a
<1> DEFINE n == Cardinality(CheckedSteps(trace))
<1>1. /\ n \in 1 .. Round /\ CheckedSteps(trace) = 1 .. n /\ DOMAIN trace.entries = 1 .. n
      /\ \A s \in 1 .. n :
           /\ Led(s) /\ sealed[s].at = Replay(trace.entries, Entries(trace))[s]
           /\ trace.entries[s].move = sealed[s].move /\ trace.entries[s].move # NoMove
  BY <1>i, <1>p, PassedEntries
<1> HIDE DEF n
<1>2. audit'.verified = n
  BY <1>a DEF n
<1>3. ASSUME tidy, NEW s \in 1 .. n PROVE s <= Len(shown) /\ shown[s] = sealed[s].move
  <2>1. RightEntry(s, trace.entries[s])
    BY <1>1, <1>3, <1>a, InStepParts DEF TidyInv, NumberInv, Tidy, TraceInStep
  <2> QED
    BY <1>1, <2>1 DEF RightEntry
<1>4. ASSUME tidy, NEW i \in DOMAIN trace.claims
      PROVE  trace.claims[i].copCell = sealed[trace.claims[i].step].at.cell
  <2>1. PICK j \in LastClaims(trace) : trace.claims[j].step = trace.claims[i].step
    BY <1>i, LastClaimExists
  <2>2. j \in DOMAIN trace.claims
    BY DEF LastClaims
  <2>3. /\ trace.claims[j].step \in CheckedSteps(trace)
        /\ trace.claims[j].copCell
             = Replay(trace.entries, Entries(trace))[trace.claims[j].step].cell
    BY <1>p DEF AuditPassed, FailedClaims
  <2>4. trace.claims[i].copCell = trace.claims[j].copCell
    BY <1>4, <1>a, <2>1, <2>2 DEF AuditInv, OneClaimInv, Tidy
  <2> QED
    BY <1>1, <2>1, <2>3, <2>4
<1>5. \A s \in 1 .. n :
        sealed[s].at = Applied(IF s = 1 THEN Standing(CopStart, {}) ELSE sealed[s - 1].at,
                               sealed[s].move)
  BY <1>1 DEF Led, From, Start
<1> QED
  BY <1>1, <1>2, <1>3, <1>4, <1>5, <1>a DEF AuditIsFaithful, Round

\* However her calls were repeated, delayed, lost or handled at once, an audit
\* that passed vouches for what she sealed up to the last step it verified.
THEOREM PassedAuditVouches == Spec => []AuditIsFaithful
<1>1. Init => AuditIsFaithful
  BY DEF Init, AuditIsFaithful, NotEvaluated
<1>2. TidyInv /\ AuditInv /\ AuditIsFaithful /\ [Next]_vars => AuditIsFaithful'
  <2> SUFFICES ASSUME TidyInv, AuditInv, AuditIsFaithful, [Next]_vars PROVE AuditIsFaithful'
    OBVIOUS
  <2>i. IInv /\ ClaimsInv
    BY DEF TidyInv, AuditInv
  <2>1. CASE \E w \in Workers : AuditTrace(w)
    BY <2>1, PassedFaithfully
  <2>2. CASE GraceEnds
    BY <2>2 DEF GraceEnds, NotEvaluated, AuditIsFaithful
  <2>3. CASE audit' = audit /\ ~GraceEnds
    <3> SUFFICES ASSUME audit.verdict = "passed" PROVE AuditIsFaithful'
      BY <2>3 DEF AuditIsFaithful
    <3>s. /\ Round \in Nat /\ Round' \in Nat /\ Round' >= Round /\ Len(shown) \in Nat
          /\ \A k \in 1 .. Round : sealed'[k] = sealed[k]
          /\ \A k \in 1 .. Len(shown) : shown'[k] = shown[k]
          /\ Len(shown') >= Len(shown) /\ Len(shown') \in Nat
      <4>1. Len(shown') \in Nat /\ Len(shown') >= Len(shown)
        <5>1. TypeOK' /\ Len(shown') >= Len(shown)
          BY <2>i, TypeStep, Grows
        <5> QED
          BY <5>1 DEF TypeOK
      <4> QED
        BY <2>i, <4>1, SealedStays
    <3>f. /\ audit.verified \in 1 .. Round
          /\ \A s \in 1 .. audit.verified :
               /\ sealed[s].at = Applied(IF s = 1 THEN Standing(CopStart, {})
                                         ELSE sealed[s - 1].at, sealed[s].move)
               /\ tidy => s <= Len(shown) /\ shown[s] = sealed[s].move
          /\ tidy => \A i \in DOMAIN trace.claims :
                       trace.claims[i].copCell = sealed[trace.claims[i].step].at.cell
      BY DEF AuditIsFaithful, Round
    <3>1. audit'.verified \in 1 .. Round'
      BY <2>3, <3>s, <3>f
    <3>2. ASSUME NEW s \in 1 .. audit.verified
          PROVE  /\ sealed'[s].at = Applied(IF s = 1 THEN Standing(CopStart, {})
                                            ELSE sealed'[s - 1].at, sealed'[s].move)
                 /\ tidy' => s <= Len(shown') /\ shown'[s] = sealed'[s].move
      <4>1. sealed'[s] = sealed[s] /\ (s # 1 => sealed'[s - 1] = sealed[s - 1])
        BY <3>s, <3>f
      <4>2. tidy' => s <= Len(shown') /\ shown'[s] = sealed'[s].move
        BY <3>s, <3>f, <4>1, TidyFlag
      <4> QED
        BY <3>f, <4>1, <4>2
    <3>3. ASSUME tidy', NEW i \in DOMAIN trace'.claims
          PROVE  trace'.claims[i].copCell = sealed'[trace'.claims[i].step].at.cell
      <4>1. ASSUME NEW w \in Workers, JudgeClaim(w) PROVE FALSE
        <5>1. job[w] # Idle /\ job[w].call.kind = "claim" /\ Tidy
          BY <2>i, <3>3, <4>1, ClaimAtHand, TidyFlag DEF JudgeClaim, Tidy
        <5>2. OnlyFinal
          BY <5>1 DEF AuditInv, AuditedInv
        <5> QED
          BY <5>1, <5>2 DEF OnlyFinal
      <4>2. trace'.claims = trace.claims
        BY <2>3, <4>1, WhatClaims
      <4>3. trace.claims[i].step \in 1 .. Round
        BY <2>i, <3>3, <4>2, <3>s, ClaimTypes
      <4> QED
        BY <3>3, <3>f, <3>s, <4>2, <4>3, TidyFlag
    <3> QED
      BY <2>3, <3>1, <3>2, <3>3 DEF AuditIsFaithful, Round
  <2> QED
    BY <2>1, <2>2, <2>3
    DEF Next, Cop, CopCommits, CopReveals, CopClaims, CopMovesOn, CopEnds, Retry, GiveUp, Thief,
        ThiefMoves, RoundArrived, RoundLost, Gone, Worker, Deliver, CheckCommit, PostCommit,
        NumberCommit, CountCommit, AdvanceCommit, MarkCommit, CheckReveal, PostReveal,
        NumberReveal, CountReveal, AdvanceReveal, MarkReveal, JudgeClaim, RespondToClaim,
        KeepNonces, vars, adapterVars
<1> QED
  BY <1>1, <1>2, InductiveAudit, PTL DEF Spec

-----------------------------------------------------------------------------
(* What becomes of an honest cop.                                          *)

\* The replay of entries whose moves led where she sealed is what she sealed.
LEMMA ReplayFollows ==
  ASSUME NEW entries, NEW last \in Nat, \A s \in 1 .. last :
                        s \in DOMAIN entries /\ Complete(entries[s]) /\ Led(s)
                          /\ entries[s].move = sealed[s].move
  PROVE  \A s \in 1 .. last : Replay(entries, last)[s] = sealed[s].at
<1> DEFINE at == Replay(entries, last)
           S == {k \in Nat : k \in 1 .. last => at[k] = sealed[k].at}
<1>1. at[0] = Start /\ \A n \in 1 .. last : at[n] = Replayed(entries, n, at[n - 1])
  BY ReplayUnfolds
<1> HIDE DEF at
<1>2. 0 \in S
  OBVIOUS
<1>3. ASSUME NEW n \in Nat, n \in S, n + 1 \in 1 .. last PROVE at[n + 1] = sealed[n + 1].at
  <2>1. at[n + 1] = Applied(at[n], sealed[n + 1].move)
    <3>1. at[n + 1] = Replayed(entries, n + 1, at[n + 1 - 1]) /\ n + 1 - 1 = n
      BY <1>1, <1>3
    <3> QED
      BY <1>3, <3>1 DEF Replayed
  <2>2. at[n] = From(n + 1)
    <3>1. CASE n = 0
      BY <1>1, <3>1 DEF From
    <3>2. CASE n # 0
      <4>1. n \in 1 .. last /\ n + 1 # 1 /\ n + 1 - 1 = n
        BY <1>3, <3>2
      <4> QED
        BY <1>3, <4>1 DEF From
    <3> QED
      BY <3>1, <3>2
  <2> QED
    BY <1>3, <2>1, <2>2 DEF Led
<1>4. Nat \subseteq S
  <2>1. \A n \in Nat : n \in S => n + 1 \in S
    BY <1>3
  <2> HIDE DEF S
  <2> QED
    BY <1>2, <2>1, SetInduction
<1> QED
  BY <1>4 DEF at

\* When a cop who was answered on every call is audited, the trace holds a
\* complete entry for each of her rounds, and nothing else.
LEMMA WholeTrace ==
  ASSUME TidyInv, AuditInv, Tidy, cop.whole, NEW w \in Workers, AuditTrace(w)
  PROVE  /\ Round \in Nat /\ Round > 0 /\ Entries(trace) = Round
         /\ DOMAIN trace.entries = 1 .. Round
         /\ \A s \in 1 .. Round :
              /\ Complete(trace.entries[s])
              /\ trace.entries[s].commit = sealed[s]
              /\ s <= Len(shown) /\ trace.entries[s].move = shown[s]
<1>t. IInv /\ Alone /\ WorkInv /\ TraceInStep
  BY InStepParts DEF TidyInv, TallyInv, NumberInv, Tidy
<1>1. job[w].at = "audit" /\ job[w] # Idle
  BY DEF AuditTrace, Idle
<1>2. job[w].call.kind = "final" /\ job[w].call.round = Round
      /\ (job[w].call = pending \/ cop.phase \in {"final", "done"})
  BY <1>t, <1>1, AtCalls DEF FinalPlaces, WorkInv, AtWork
<1>3. Ending
  BY <1>t, <1>2, PendingPhase DEF Ending
<1>4. Round > 0 /\ Counted(Round, Round)
  BY <1>3 DEF AuditInv, FinalInv
<1>5. Round \in Nat
  BY <1>t, SealedStays DEF IInv, TypeOK, Round
<1>6. trace.nextCommit = Round + 1 /\ trace.nextReveal = Round + 1
  BY <1>4 DEF Counted, Recording
<1>7. HasNonces(trace, Round)
  BY <1>1, <1>2 DEF AuditInv, NonceInv
<1>8. DOMAIN trace.entries = 1 .. Round
  BY <1>7, <1>t DEF HasNonces, TraceInStep, RightEntry
<1>9. Entries(trace) = Round
  BY <1>5, <1>8, LastEntry
<1>10. ASSUME NEW s \in 1 .. Round
       PROVE  /\ Complete(trace.entries[s])
              /\ trace.entries[s].commit = sealed[s]
              /\ s <= Len(shown) /\ trace.entries[s].move = shown[s]
  <2>1. s \in 1 .. trace.nextCommit - 1 /\ s \in 1 .. trace.nextReveal - 1
    BY <1>5, <1>6
  <2>2. trace.entries[s].commit # NoCommit /\ trace.entries[s].move # NoMove
    BY <2>1 DEF AuditInv, FiledInv, Filed
  <2>3. trace.entries[s].nonce
    BY <1>7 DEF HasNonces
  <2>4. RightEntry(s, trace.entries[s])
    BY <1>8, <1>t DEF TraceInStep
  <2> QED
    BY <2>2, <2>3, <2>4 DEF Complete, RightEntry
<1> QED
  BY <1>4, <1>5, <1>8, <1>9, <1>10

\* The audit of a cop who did nothing wrong and was answered on every call
\* passes.
LEMMA HonestAuditPasses ==
  ASSUME TidyInv, AuditInv, Tidy, cop.whole, lie.about = "nothing", NEW w \in Workers,
         AuditTrace(w)
  PROVE  AuditPassed(trace, Entries(trace))
<1>t. IInv /\ ClaimsInv /\ HonestInv /\ SealedInv
  BY DEF TidyInv, AuditInv
<1>w. /\ Round \in Nat /\ Round > 0 /\ Entries(trace) = Round
      /\ DOMAIN trace.entries = 1 .. Round
      /\ \A s \in 1 .. Round :
           /\ Complete(trace.entries[s])
           /\ trace.entries[s].commit = sealed[s]
           /\ s <= Len(shown) /\ trace.entries[s].move = shown[s]
  BY WholeTrace
<1> DEFINE at == Replay(trace.entries, Round)
<1>1. ASSUME NEW s \in 1 .. Round
      PROVE  Led(s) /\ trace.entries[s].move = sealed[s].move /\ sealed[s].step = s
  <2>1. s \in 1 .. Len(shown)
    <3>1. shown \in Seq(CopMoves)
      BY <1>t DEF IInv, TypeOK
    <3> QED
      BY <1>w, <3>1
  <2> QED
    BY <1>t, <1>w, <2>1 DEF SealedInv
<1>2. \A s \in 1 .. Round : at[s] = sealed[s].at
  BY <1>1, <1>w, ReplayFollows
<1> HIDE DEF at
<1>3. CheckedSteps(trace) = 1 .. Round
  BY <1>w DEF CheckedSteps
<1>4. ASSUME NEW s \in 1 .. Round
      PROVE  trace.entries[s].commit = Seal(s, at[s], trace.entries[s].move)
  <2>1. sealed[s] \in [step : Rounds, at : Standings, move : CopMoves]
    <3>1. sealed \in Seq([step : Rounds, at : Standings, move : CopMoves]) /\ s \in 1 .. Len(sealed)
      BY <1>t DEF IInv, TypeOK, Round
    <3> QED
      BY ONLY <3>1, Elements
  <2>2. sealed[s] = Seal(s, sealed[s].at, sealed[s].move)
    BY <1>1, <2>1 DEF Seal
  <2> QED
    BY <1>1, <1>2, <1>w, <2>2
<1>5. FailedSteps(trace, Round) = {}
  <2>1. FailedSteps(trace, Round)
          = {s \in 1 .. Round : s \in 1 .. Round =>
               trace.entries[s].commit # Seal(s, at[s], trace.entries[s].move)}
    BY <1>3, <1>w DEF FailedSteps, at
  <2>2. ASSUME NEW s \in FailedSteps(trace, Round) PROVE FALSE
    <3>1. /\ s \in 1 .. Round
          /\ trace.entries[s].commit # Seal(s, at[s], trace.entries[s].move)
      BY <2>1
    <3> QED
      BY <1>4, <3>1
  <2> QED
    BY <2>2
<1>6. ASSUME NEW i \in DOMAIN trace.claims
      PROVE  /\ trace.claims[i].step \in 1 .. Round
             /\ trace.claims[i].copCell = at[trace.claims[i].step].cell
  <2>1. trace.claims[i].step \in 1 .. Round
    BY <1>t, <1>w, ClaimTypes
  <2>2. trace.claims[i].copCell = sealed[trace.claims[i].step].at.cell
    BY <1>t DEF HonestInv
  <2> QED
    BY <1>2, <2>1, <2>2
<1>7. FailedClaims(trace, Round) = {}
  <2>1. ASSUME NEW i \in FailedClaims(trace, Round) PROVE FALSE
    <3>1. FailedClaims(trace, Round)
            = {k \in LastClaims(trace) : trace.claims[k].step \in CheckedSteps(trace)
                 => trace.claims[k].copCell # at[trace.claims[k].step].cell}
      BY DEF FailedClaims, at
    <3>2. i \in LastClaims(trace)
          /\ (trace.claims[i].step \in CheckedSteps(trace)
               => trace.claims[i].copCell # at[trace.claims[i].step].cell)
      BY <2>1, <3>1
    <3>3. i \in DOMAIN trace.claims
      BY <3>2 DEF LastClaims
    <3> QED
      BY <1>3, <1>6, <3>2, <3>3
  <2> QED
    BY <2>1
<1>8. 1 \in CheckedSteps(trace)
  <2>1. 1 \in 1 .. Round
    BY <1>w
  <2> QED
    BY <1>3, <2>1
<1> QED
  BY <1>5, <1>7, <1>8, <1>w DEF AuditPassed

\* A cop who sealed what she did, claimed from where she stood and was answered
\* on every call, if need be after a repeat, is not failed, and the thief takes
\* no failed audit to the end of the match.
THEOREM HonestCopNotFailed == Spec => []HonestCopPasses
<1>1. Init => HonestCopPasses
  BY DEF Init, HonestCopPasses, NotEvaluated
<1>2. TidyInv /\ AuditInv /\ HonestCopPasses /\ [Next]_vars => HonestCopPasses'
  <2> SUFFICES ASSUME TidyInv, AuditInv, HonestCopPasses, [Next]_vars,
                      lie'.about = "nothing", cop'.whole, tidy'
               PROVE  audit'.verdict # "failed" /\ thief'.taken # "failed"
    BY DEF HonestCopPasses
  <2>1. /\ lie.about = "nothing" /\ cop.whole /\ tidy
        /\ audit.verdict # "failed" /\ thief.taken # "failed"
    BY SealedStays, StaysWhole, TidyFlag DEF TidyInv, HonestCopPasses
  <2>2. ASSUME NEW w \in Workers, AuditTrace(w)
        PROVE  audit'.verdict # "failed" /\ thief'.taken # "failed"
    <3>1. AuditPassed(trace, Entries(trace))
      BY <2>1, <2>2, HonestAuditPasses DEF AuditTrace, Tidy
    <3> QED
      BY <2>1, <2>2, <3>1 DEF AuditTrace
  <2>3. CASE GraceEnds
    BY <2>1, <2>3 DEF GraceEnds, NotEvaluated, TidyInv, IInv, TypeOK
  <2>4. CASE ThiefMoves \/ RoundArrived \/ RoundLost
    BY <2>1, <2>4 DEF ThiefMoves, RoundArrived, RoundLost, RoundEnds, adapterVars, TidyInv, IInv,
                      TypeOK
  <2>5. CASE UNCHANGED <<audit, thief>>
    BY <2>1, <2>5
  <2> QED
    BY <2>2, <2>3, <2>4, <2>5
    DEF Next, Cop, CopCommits, CopReveals, CopClaims, CopMovesOn, CopEnds, Retry, GiveUp, Thief,
        Gone, Worker, Deliver, CheckCommit, PostCommit, NumberCommit, CountCommit, AdvanceCommit,
        MarkCommit, CheckReveal, PostReveal, NumberReveal, CountReveal, AdvanceReveal, MarkReveal,
        JudgeClaim, RespondToClaim, KeepNonces, vars, adapterVars
<1> QED
  BY <1>1, <1>2, InductiveAudit, PTL DEF Spec

=============================================================================

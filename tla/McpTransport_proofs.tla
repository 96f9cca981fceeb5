-------------------------- MODULE McpTransport_proofs --------------------------
(***************************************************************************)
(* Proofs about McpTransport, for every set of threads, every number of    *)
(* calls, every timeout, back-off and number of attempts.                  *)
(***************************************************************************)
EXTENDS McpTransport, TLAPS

-----------------------------------------------------------------------------
(* The inductive invariant.                                                *)

\* A coroutine runs only while its caller waits for it, in a call it has begun.
WaitInv ==
  \A t \in Threads :
    /\ caller[t].at # "idle" => number[t] > 0
    /\ caller[t].at # "result" => task[t].at = "none"

\* Where in its time a call is.  Only a back-off that began in time ends late.
TimeInv ==
  \A t \in Threads :
    /\ caller[t].at = "idle" => caller[t].spent = 0
    /\ caller[t].at = "result" => caller[t].spent <= ResponseTimeout
    /\ caller[t].at = "sleep" =>
         /\ caller[t].attempt < MaxRetries
         /\ caller[t].spent <= caller[t].wakeAt
         /\ caller[t].wakeAt <= ResponseTimeout + Least(LongestBackOff, caller[t].remaining)

\* Who connects or closes holds the lock.
LockInv == \A t \in Threads : task[t].at \in {"connect", "closing"} => client.lock = t

\* Nobody connects while the flag says that there is a session, and there is
\* none that it does not say.
SessionInv ==
  shutdown = "no" =>
    /\ client.session => client.connected
    /\ \A t \in Threads : task[t].at = "connect" => ~client.connected

Transmitted(c) == c \in wire \/ executed[c] = 1

\* How a call stands to its outcome.
OutcomeInv ==
  \A t \in Threads : \A n \in 1 .. MaxCalls :
    /\ outcome[<<t, n>>] = "none" <=> n > number[t]
    /\ outcome[<<t, n>>] = "pending" <=> n = number[t] /\ caller[t].at # "idle"

\* What may have been transmitted of the attempt a thread is in.
Attempt(t) ==
  /\ task[t].at \notin {"failing", "closing", "raised"} => task[t].error = "none"
  /\ caller[t].at # "idle" =>
       /\ task[t].at \in {"none", "lock", "connect", "ready"} => ~Transmitted(CallOf(t))
       /\ task[t].error = "safe" => ~Transmitted(CallOf(t))
       /\ task[t].at = "asked" => Transmitted(CallOf(t))
       /\ task[t].at = "answered" => executed[CallOf(t)] = 1

\* What may have been transmitted, and how far the opponent has come with it.
WireInv ==
  /\ \A c \in Calls :
       /\ executed[c] \in {0, 1}
       /\ c \in wire => executed[c] = 0
       /\ Transmitted(c) => outcome[c] \notin {"none", "unreachable"}
  /\ \A t \in Threads : Attempt(t)

IInv ==
  /\ TypeOK /\ WaitInv /\ TimeInv /\ CallBounded
  /\ LockInv /\ SessionInv /\ OutcomeInv /\ WireInv

-----------------------------------------------------------------------------
(* Time.                                                                   *)

\* The smaller of two numbers is a number, and no larger than either.
LEMMA LeastBelow ==
  ASSUME NEW a \in Nat, NEW b \in Nat
  PROVE  Least(a, b) \in Nat /\ Least(a, b) <= a /\ Least(a, b) <= b
  BY DEF Least

\* No back-off of a call is longer than its longest.
LEMMA BackOffType ==
  ASSUME TypeOK, NEW t \in Threads
  PROVE  /\ RetryBackoff * caller[t].attempt \in Nat
         /\ LongestBackOff \in Nat
         /\ backoff(t) \in Nat
<1>1. caller[t].attempt \in Nat /\ caller[t].remaining \in Nat
  BY TransportAssumption DEF TypeOK, CallerState
<1>2. \A k \in Nat : RetryBackoff * k \in Nat
  BY TransportAssumption
<1>3. MaxRetries - 1 \in Nat
  BY TransportAssumption
<1> QED
  BY <1>1, <1>2, <1>3, LeastBelow DEF LongestBackOff, backoff

LEMMA BackOffBelow ==
  ASSUME TypeOK, NEW t \in Threads, caller[t].attempt < MaxRetries
  PROVE  backoff(t) <= Least(LongestBackOff, caller[t].remaining)
<1>1. caller[t].attempt \in Nat /\ caller[t].remaining \in Nat
  BY TransportAssumption DEF TypeOK, CallerState
<1>2. \A j \in Nat, k \in Nat : j <= k => RetryBackoff * j <= RetryBackoff * k
  BY TransportAssumption
<1>3. MaxRetries - 1 \in Nat /\ caller[t].attempt <= MaxRetries - 1
  BY <1>1, TransportAssumption
<1>4. RetryBackoff * caller[t].attempt <= LongestBackOff
  BY <1>1, <1>2, <1>3 DEF LongestBackOff
<1> QED
  BY <1>1, <1>4, BackOffType DEF backoff, Least

-----------------------------------------------------------------------------
(* Types.                                                                  *)

LEMMA InitialTypes == Init => TypeOK
  BY TransportAssumption DEF Init, TypeOK, Idle, Fresh, NoTask, CallerState, TaskState, Calls, Errors

\* What a cancelled or closed session leaves of the tasks are tasks.
LEMMA UnderClosedType ==
  ASSUME NEW tasks \in [Threads -> TaskState]
  PROVE  UnderClosed(tasks) \in [Threads -> TaskState]
  BY DEF UnderClosed, TaskState

LEMMA TypeStep == TypeOK /\ WaitInv /\ TimeInv /\ [Next]_vars => TypeOK'
<1> SUFFICES ASSUME TypeOK, WaitInv, TimeInv, [Next]_vars
             PROVE  TypeOK'
  OBVIOUS
<1> DEFINE Ends == {"none", "pending", "returned", "deadline", "refused", "unreachable"}
           Clients == [connected : BOOLEAN, lock : Threads \cup {Nobody}, session : BOOLEAN]
<1> USE DEF TypeOK
<1>0. \A t \in Threads : caller[t] \in CallerState /\ task[t] \in TaskState
  OBVIOUS
<1>1. ASSUME NEW t \in Threads, Call(t)
      PROVE  TypeOK'
  <2>1. Fresh("attempt", 1) \in CallerState
    BY TransportAssumption DEF Fresh, CallerState
  <2>2. number' \in [Threads -> 0 .. MaxCalls]
    BY <1>1, TransportAssumption DEF Call
  <2> QED
    BY <1>1, <2>1, <2>2 DEF Call
<1>2. ASSUME NEW t \in Threads, NEW how \in Ends, EndCall(t, how)
      PROVE  /\ number' \in [Threads -> 0 .. MaxCalls]
             /\ caller' \in [Threads -> CallerState]
             /\ shutdown' = shutdown
             /\ wire' \subseteq Calls
             /\ executed' \in [Calls -> Nat]
             /\ outcome' \in [Calls -> Ends]
  <2>1. Idle \in CallerState
    BY TransportAssumption DEF Idle, Fresh, CallerState
  <2> QED
    BY <1>2, <2>1 DEF EndCall
<1>3. ASSUME NEW t \in Threads, Collect(t)
      PROVE  task' \in [Threads -> TaskState] /\ client' \in Clients
  BY <1>3 DEF Collect, NoTask, TaskState
<1>4. ASSUME NEW t \in Threads, Submit(t)
      PROVE  TypeOK'
  <2>1. ResponseTimeout - caller[t].spent \in 0 .. ResponseTimeout
    BY <1>0, <1>4, TransportAssumption DEF Submit, CallerState
  <2>2. [caller[t] EXCEPT !.at = "result", !.remaining = ResponseTimeout - caller[t].spent] \in CallerState
    BY <1>0, <2>1 DEF CallerState
  <2>3. [NoTask EXCEPT !.at = "lock"] \in TaskState
    BY DEF NoTask, TaskState
  <2> QED
    BY <1>4, <2>2, <2>3 DEF Submit
<1>5. ASSUME NEW t \in Threads, TooLate(t)
      PROVE  TypeOK'
  BY <1>2, <1>5 DEF TooLate
<1>6. ASSUME NEW t \in Threads, Return(t) \/ GiveUp(t) \/ OutOfAttempts(t)
      PROVE  TypeOK'
  BY <1>2, <1>3, <1>6 DEF Return, GiveUp, OutOfAttempts
<1>7. ASSUME NEW t \in Threads, BackOff(t)
      PROVE  TypeOK'
  <2>1. caller[t].spent + backoff(t) \in Nat
    BY <1>0, BackOffType DEF CallerState
  <2>2. [caller[t] EXCEPT !.at = "sleep", !.wakeAt = caller[t].spent + backoff(t)] \in CallerState
    BY <1>0, <2>1 DEF CallerState
  <2> QED
    BY <1>3, <1>7, <2>2 DEF BackOff
<1>8. ASSUME NEW t \in Threads, WakeUp(t)
      PROVE  TypeOK'
  <2>1. caller[t].attempt + 1 \in 0 .. MaxRetries
    BY <1>0, <1>8, TransportAssumption DEF WakeUp, TimeInv, CallerState
  <2>2. [caller[t] EXCEPT !.at = "attempt", !.attempt = @ + 1, !.wakeAt = 0] \in CallerState
    BY <1>0, <2>1 DEF CallerState
  <2> QED
    BY <1>8, <2>2 DEF WakeUp
<1>9. ASSUME NEW t \in Threads, Deadline(t)
      PROVE  TypeOK'
  <2>1. [task EXCEPT ![t] = NoTask] \in [Threads -> TaskState]
    BY DEF NoTask, TaskState
  <2>2. client' \in Clients
    BY <1>9 DEF Deadline, Cancel
  <2>3. task' \in [Threads -> TaskState]
    BY <1>9, <2>1, UnderClosedType DEF Deadline, Cancel
  <2> QED
    BY <1>2, <1>9, <2>2, <2>3 DEF Deadline
<1>10. ASSUME NEW t \in Threads, Coroutine(t)
       PROVE  TypeOK'
  <2>1. /\ number' \in [Threads -> 0 .. MaxCalls] /\ caller' \in [Threads -> CallerState]
        /\ shutdown' = shutdown /\ executed' \in [Calls -> Nat] /\ outcome' \in [Calls -> Ends]
    BY <1>10 DEF Coroutine, ReuseSession, BeginConnect, Connected, ConnectFails, Ask, Answered,
       AskFails, BeginClose, Closed, CloseFails, OnLoop
  <2>2. client' \in Clients
    <3>1. CASE UNCHANGED client
      BY <3>1
    <3>2. CASE BeginConnect(t) \/ ConnectFails(t) \/ BeginClose(t)
      BY <3>2 DEF BeginConnect, ConnectFails, BeginClose
    <3>3. CASE Connected(t) \/ Closed(t)
      <4>1. \E b \in BOOLEAN : client' = [connected |-> b, lock |-> Nobody, session |-> b]
        BY <3>3 DEF Connected, Closed
      <4> QED
        BY <4>1
    <3>4. CASE CloseFails(t)
      <4>1. client' \in {[client EXCEPT !.lock = Nobody], [client EXCEPT !.lock = Nobody, !.session = FALSE]}
        BY <3>4 DEF CloseFails
      <4>2. [client EXCEPT !.lock = Nobody] \in Clients
        OBVIOUS
      <4>3. [[client EXCEPT !.lock = Nobody] EXCEPT !.session = FALSE] \in Clients
        BY <4>2
      <4> QED
        BY <4>1, <4>2, <4>3
    <3> QED
      BY <1>10, <3>1, <3>2, <3>3, <3>4
         DEF Coroutine, ReuseSession, Ask, Answered, AskFails
  <2>3. \A stage \in {"ready", "connect", "answered", "closing", "raised"} :
          [task[t] EXCEPT !.at = stage] \in TaskState
    BY <1>0 DEF TaskState
  <2>4. \A stage \in {"failing", "raised"}, e \in Errors :
          [task[t] EXCEPT !.at = stage, !.error = e] \in TaskState
    BY <1>0 DEF TaskState
  <2>5. wire' \subseteq Calls /\ task' \in [Threads -> TaskState]
    <3>1. CASE ReuseSession(t) \/ BeginConnect(t) \/ Connected(t) \/ Answered(t) \/ BeginClose(t)
      BY <2>3, <3>1 DEF ReuseSession, BeginConnect, Connected, Answered, BeginClose
    <3>2. CASE ConnectFails(t) \/ AskFails(t)
      <4>1. PICK stage \in {"failing", "raised"}, e \in Errors :
              task' = [task EXCEPT ![t] = [task[t] EXCEPT !.at = stage, !.error = e]]
        BY <3>2 DEF ConnectFails, AskFails
      <4>2. wire' = wire
        BY <3>2 DEF ConnectFails, AskFails
      <4> QED
        BY <2>4, <4>1, <4>2
    <3>3. CASE Ask(t)
      <4>1. CallOf(t) \in Calls
        BY <3>3, TransportAssumption DEF Ask, Runs, WaitInv, CallOf, Calls
      <4>2. [task[t] EXCEPT !.at = "asked", !.open = TRUE] \in TaskState
        BY <1>0 DEF TaskState
      <4> QED
        BY <3>3, <4>1, <4>2 DEF Ask
    <3>4. CASE Closed(t)
      <4>1. [task EXCEPT ![t].at = "raised"] \in [Threads -> TaskState]
        BY <2>3
      <4> QED
        BY <3>4, <4>1, UnderClosedType DEF Closed
    <3>5. CASE CloseFails(t)
      <4>1. PICK e \in Errors :
              \/ task' = [task EXCEPT ![t] = [task[t] EXCEPT !.at = "raised", !.error = e]]
              \/ task' = UnderClosed([task EXCEPT ![t] = [task[t] EXCEPT !.at = "raised", !.error = e]])
        BY <3>5 DEF CloseFails
      <4>2. [task EXCEPT ![t] = [task[t] EXCEPT !.at = "raised", !.error = e]] \in [Threads -> TaskState]
        BY <2>4
      <4> QED
        BY <3>5, <4>1, <4>2, UnderClosedType DEF CloseFails
    <3> QED
      BY <1>10, <3>1, <3>2, <3>3, <3>4, <3>5 DEF Coroutine
  <2> QED
    BY <2>1, <2>2, <2>5
<1>11. CASE Shutdown
  <2>1. /\ number' \in [Threads -> 0 .. MaxCalls] /\ caller' \in [Threads -> CallerState]
        /\ wire' \subseteq Calls /\ executed' \in [Calls -> Nat] /\ outcome' \in [Calls -> Ends]
        /\ shutdown' \in {"closing", "closed", "forgotten", "stopped", "raised"}
    BY <1>11 DEF Shutdown, Close, SessionCloses, CloseRaises, Forget, StopLoop, Shut
  <2>2. client' \in Clients
    BY <1>11 DEF Shutdown, Close, SessionCloses, CloseRaises, Forget, StopLoop, CloseSession
  <2>3. task' \in [Threads -> TaskState]
    BY <1>11, UnderClosedType
       DEF Shutdown, Close, SessionCloses, CloseRaises, Forget, StopLoop, CloseSession
  <2> QED
    BY <2>1, <2>2, <2>3
<1>12. ASSUME NEW c \in wire, Execute(c)
       PROVE  TypeOK'
  BY <1>12 DEF Execute
<1>13. CASE Tick
  <2>1. \A t \in Threads : [caller[t] EXCEPT !.spent = @ + 1] \in CallerState
    BY <1>0 DEF CallerState
  <2>2. Idle \in CallerState
    BY TransportAssumption DEF Idle, Fresh, CallerState
  <2> QED
    BY <1>13, <2>1, <2>2 DEF Tick
<1>14. CASE UNCHANGED vars
  BY <1>14 DEF vars
<1> QED
  BY <1>1, <1>4, <1>5, <1>6, <1>7, <1>8, <1>9, <1>10, <1>11, <1>12, <1>13, <1>14 DEF Next, Caller

-----------------------------------------------------------------------------
(* The time a call takes.                                                  *)

LEMMA TimeStep ==
  TypeOK /\ WaitInv /\ TimeInv /\ CallBounded /\ [Next]_vars => (WaitInv /\ TimeInv /\ CallBounded)'
<1> SUFFICES ASSUME TypeOK, WaitInv, TimeInv, CallBounded, [Next]_vars
             PROVE  (WaitInv /\ TimeInv /\ CallBounded)'
  OBVIOUS
<1> DEFINE Slack(t) == Least(LongestBackOff, caller[t].remaining)
           Timely(t) ==
             /\ caller[t].at # "idle" => number[t] > 0
             /\ caller[t].at # "result" => task[t].at = "none"
             /\ caller[t].at = "idle" => caller[t].spent = 0
             /\ caller[t].at = "result" => caller[t].spent <= ResponseTimeout
             /\ caller[t].at = "sleep" =>
                  /\ caller[t].attempt < MaxRetries
                  /\ caller[t].spent <= caller[t].wakeAt
                  /\ caller[t].wakeAt <= ResponseTimeout + Slack(t)
             /\ caller[t].spent <= ResponseTimeout + Slack(t)
<1>1. \A t \in Threads : Timely(t)
  BY DEF WaitInv, TimeInv, CallBounded
<1>2. SUFFICES \A t \in Threads : Timely(t)'
  BY DEF WaitInv, TimeInv, CallBounded
<1> DEFINE Others(t) == \A s \in Threads \ {t} : UNCHANGED <<number[s], caller[s], task[s].at>>
<1>3. /\ \A t \in Threads :
           /\ caller[t].spent \in Nat /\ caller[t].attempt \in Nat /\ caller[t].wakeAt \in Nat
           /\ caller[t].remaining \in Nat /\ number[t] \in Nat
           /\ DOMAIN caller[t] = {"at", "attempt", "spent", "remaining", "wakeAt"}
           /\ DOMAIN task[t] = {"at", "error", "open"}
      /\ DOMAIN caller = Threads /\ DOMAIN task = Threads /\ DOMAIN number = Threads
  BY TransportAssumption DEF TypeOK, CallerState, TaskState
<1>4. \A n \in Nat : Least(LongestBackOff, n) \in Nat
  BY LeastBelow, BackOffType, TransportAssumption DEF LongestBackOff
<1>5. ASSUME NEW t \in Threads, UNCHANGED <<number[t], caller[t], task[t].at>>
      PROVE  Timely(t)'
  BY <1>1, <1>5
<1>6. ASSUME NEW t \in Threads, Others(t), Timely(t)'
      PROVE  \A s \in Threads : Timely(s)'
  BY <1>5, <1>6
<1> HIDE DEF Others
<1>7. ASSUME NEW t \in Threads, Call(t)
      PROVE  \A s \in Threads : Timely(s)'
  <2>1. Others(t)
    BY <1>3, <1>7 DEF Call, Others
  <2>2. caller'[t] = Fresh("attempt", 1) /\ number'[t] = number[t] + 1 /\ task'[t].at = "none"
    BY <1>1, <1>3, <1>7 DEF Call
  <2>3. Timely(t)'
    BY <1>3, <1>4, <2>2, TransportAssumption DEF Fresh
  <2> QED
    BY <1>6, <2>1, <2>3
<1>8. ASSUME NEW t \in Threads, NEW how, EndCall(t, how)
      PROVE  /\ caller'[t] = Idle /\ number' = number
             /\ \A s \in Threads \ {t} : caller'[s] = caller[s]
  BY <1>3, <1>8 DEF EndCall
<1>9. ASSUME NEW t \in Threads, caller'[t] = Idle, task'[t].at = "none"
      PROVE  Timely(t)'
  BY <1>4, <1>9, TransportAssumption DEF Idle, Fresh
<1>10. ASSUME NEW t \in Threads, Submit(t)
       PROVE  \A s \in Threads : Timely(s)'
  <2>1. Others(t)
    BY <1>3, <1>10 DEF Submit, Others
  <2>2. /\ caller'[t].at = "result" /\ caller'[t].spent = caller[t].spent
        /\ caller'[t].remaining = ResponseTimeout - caller[t].spent
        /\ caller[t].spent < ResponseTimeout /\ number'[t] = number[t] /\ caller[t].at = "attempt"
    BY <1>3, <1>10 DEF Submit
  <2>3. Timely(t)'
    BY <1>1, <1>3, <1>4, <2>2, TransportAssumption
  <2> QED
    BY <1>6, <2>1, <2>3
<1>11. ASSUME NEW t \in Threads, TooLate(t)
       PROVE  \A s \in Threads : Timely(s)'
  <2>1. Others(t)
    BY <1>8, <1>11 DEF TooLate, Others
  <2>2. caller'[t] = Idle /\ task'[t].at = "none"
    BY <1>1, <1>8, <1>11 DEF TooLate
  <2> QED
    BY <1>6, <1>9, <2>1, <2>2
<1>12. ASSUME NEW t \in Threads, Collect(t)
       PROVE  task'[t].at = "none" /\ \A s \in Threads \ {t} : task'[s] = task[s]
  BY <1>3, <1>12 DEF Collect, NoTask
<1>13. ASSUME NEW t \in Threads, Return(t) \/ GiveUp(t) \/ OutOfAttempts(t)
       PROVE  \A s \in Threads : Timely(s)'
  <2>1. Collect(t) /\ \E how : EndCall(t, how)
    BY <1>13 DEF Return, GiveUp, OutOfAttempts
  <2>2. Others(t)
    BY <1>8, <1>12, <2>1 DEF Others
  <2> QED
    BY <1>6, <1>8, <1>9, <1>12, <2>1, <2>2
<1>14. ASSUME NEW t \in Threads, BackOff(t)
       PROVE  \A s \in Threads : Timely(s)'
  <2>1. Others(t)
    BY <1>3, <1>12, <1>14 DEF BackOff, Others
  <2>2. /\ caller'[t].at = "sleep" /\ caller'[t].spent = caller[t].spent
        /\ caller'[t].wakeAt = caller[t].spent + backoff(t)
        /\ caller'[t].attempt = caller[t].attempt /\ caller'[t].remaining = caller[t].remaining
        /\ caller[t].at = "result" /\ number'[t] = number[t] /\ task'[t].at = "none"
        /\ caller[t].attempt < MaxRetries
    BY <1>3, <1>12, <1>14 DEF BackOff, Waiting, may_retry
  <2>3. Timely(t)'
    BY <1>1, <1>3, <1>4, <2>2, BackOffType, BackOffBelow, TransportAssumption
  <2> QED
    BY <1>6, <2>1, <2>3
<1>15. ASSUME NEW t \in Threads, WakeUp(t)
       PROVE  \A s \in Threads : Timely(s)'
  <2>1. Others(t)
    BY <1>3, <1>15 DEF WakeUp, Others
  <2>2. /\ caller'[t].at = "attempt" /\ caller'[t].spent = caller[t].spent
        /\ caller'[t].remaining = caller[t].remaining
        /\ caller[t].at = "sleep" /\ number'[t] = number[t] /\ task'[t] = task[t]
    BY <1>3, <1>15 DEF WakeUp
  <2>3. Timely(t)'
    BY <1>1, <1>3, <1>4, <2>2
  <2> QED
    BY <1>6, <2>1, <2>3
<1>16. ASSUME NEW t \in Threads, Deadline(t)
       PROVE  \A s \in Threads : Timely(s)'
  <2>1. task'[t].at = "none" /\ \A s \in Threads \ {t} : task'[s].at = task[s].at
    <3>1. CASE task' = [task EXCEPT ![t] = NoTask]
      BY <1>3, <3>1 DEF NoTask
    <3>2. CASE task' = UnderClosed([task EXCEPT ![t] = NoTask])
      BY <1>3, <3>2 DEF UnderClosed, NoTask
    <3> QED
      BY <1>16, <3>1, <3>2 DEF Deadline, Cancel
  <2>2. Others(t)
    BY <1>8, <1>16, <2>1 DEF Deadline, Others
  <2> QED
    BY <1>6, <1>8, <1>9, <1>16, <2>1, <2>2 DEF Deadline
<1>17. ASSUME NEW t \in Threads, Coroutine(t)
       PROVE  \A s \in Threads : Timely(s)'
  <2>1. number' = number /\ caller' = caller
    BY <1>17 DEF Coroutine, ReuseSession, BeginConnect, Connected, ConnectFails, Ask, Answered,
       AskFails, BeginClose, Closed, CloseFails, OnLoop
  <2>2. task[t].at # "none"
    BY <1>17 DEF Coroutine, ReuseSession, BeginConnect, Connected, ConnectFails, Ask, Answered,
       AskFails, BeginClose, Closed, CloseFails, Runs
  <2>3. \A s \in Threads \ {t} : task'[s].at = task[s].at
    <3>1. CASE Closed(t)
      BY <1>3, <3>1 DEF Closed, UnderClosed
    <3>2. CASE CloseFails(t)
      BY <1>3, <3>2 DEF CloseFails, UnderClosed
    <3> QED
      BY <1>3, <1>17, <3>1, <3>2 DEF Coroutine, ReuseSession, BeginConnect, Connected, ConnectFails,
         Ask, Answered, AskFails, BeginClose
  <2>4. Timely(t)'
    BY <1>1, <2>1, <2>2
  <2> QED
    BY <1>6, <2>1, <2>3, <2>4 DEF Others
<1>18. CASE Shutdown
  <2>1. UNCHANGED <<number, caller>> /\ \A s \in Threads : task'[s].at = task[s].at
    BY <1>3, <1>18 DEF Shutdown, Close, SessionCloses, CloseRaises, Forget, StopLoop, Shut,
       CloseSession, UnderClosed
  <2> QED
    BY <1>5, <2>1
<1>19. ASSUME NEW c \in wire, Execute(c)
       PROVE  \A s \in Threads : Timely(s)'
  BY <1>5, <1>19 DEF Execute
<1>20. ASSUME Tick, NEW t \in Threads
       PROVE  Timely(t)'
  <2>1. CASE caller[t].at = "idle"
    BY <1>1, <1>9, <1>20, <2>1 DEF Tick
  <2>2. CASE caller[t].at # "idle"
    <3>1. /\ caller'[t].spent = caller[t].spent + 1 /\ UNCHANGED <<number[t], task[t]>>
          /\ UNCHANGED <<caller[t].at, caller[t].attempt, caller[t].remaining, caller[t].wakeAt>>
      BY <1>3, <1>20, <2>2 DEF Tick
    <3>2. /\ caller[t].at = "result" => caller[t].spent # ResponseTimeout
          /\ caller[t].at = "sleep" => caller[t].spent # caller[t].wakeAt
          /\ caller[t].at \in {"result", "sleep"}
      BY <1>20, <2>2 DEF Tick, Due, TimeIsUp, Waiting, TypeOK, CallerState
    <3> QED
      BY <1>1, <1>3, <1>4, <2>2, <3>1, <3>2, TransportAssumption
  <2> QED
    BY <2>1, <2>2
<1>21. CASE UNCHANGED vars
  BY <1>5, <1>21 DEF vars
<1> QED
  BY <1>7, <1>10, <1>11, <1>13, <1>14, <1>15, <1>16, <1>17, <1>18, <1>19, <1>20, <1>21
     DEF Next, Caller

-----------------------------------------------------------------------------
(* What the steps leave alone.                                             *)

\* A coroutine runs between the starts and ends of calls, and moves no other.
LEMMA CoroutineFrame ==
  ASSUME TypeOK, NEW t \in Threads, Coroutine(t)
  PROVE  /\ UNCHANGED <<number, caller, shutdown, executed, outcome>>
         /\ task[t].at # "none"
         /\ \A s \in Threads \ {t} : UNCHANGED <<task[s].at, task[s].error>>
<1>1. UNCHANGED <<number, caller, shutdown, executed, outcome>>
  BY DEF Coroutine, ReuseSession, BeginConnect, Connected, ConnectFails, Ask, Answered,
     AskFails, BeginClose, Closed, CloseFails, OnLoop
<1>2. task[t].at # "none"
  BY DEF Coroutine, ReuseSession, BeginConnect, Connected, ConnectFails, Ask, Answered,
     AskFails, BeginClose, Closed, CloseFails, Runs
<1>3. DOMAIN task = Threads /\ \A s \in Threads : DOMAIN task[s] = {"at", "error", "open"}
  BY DEF TypeOK, TaskState
<1>4. \A s \in Threads \ {t} : UNCHANGED <<task[s].at, task[s].error>>
  <2>1. CASE Closed(t)
    BY <1>3, <2>1 DEF Closed, UnderClosed
  <2>2. CASE CloseFails(t)
    BY <1>3, <2>2 DEF CloseFails, UnderClosed
  <2> QED
    BY <1>3, <2>1, <2>2 DEF Coroutine, ReuseSession, BeginConnect, Connected, ConnectFails,
       Ask, Answered, AskFails, BeginClose
<1> QED
  BY <1>1, <1>2, <1>4

\* A session that closes under the tasks leaves each where it is.
LEMMA UnderClosedFrame ==
  ASSUME NEW tasks \in [Threads -> TaskState], NEW s \in Threads
  PROVE  UnderClosed(tasks)[s].at = tasks[s].at /\ UnderClosed(tasks)[s].error = tasks[s].error
  BY DEF UnderClosed, TaskState

\* A cancelled coroutine is gone and leaves the lock, and perhaps the session.
LEMMA CancelFrame ==
  ASSUME TypeOK, NEW t \in Threads, Cancel(t)
  PROVE  /\ task'[t].at = "none" /\ task'[t].error = "none"
         /\ \A s \in Threads \ {t} : UNCHANGED <<task[s].at, task[s].error>>
         /\ client'.connected = client.connected
         /\ client'.lock = IF client.lock = t THEN Nobody ELSE client.lock
         /\ client'.session => client.session
<1>1. /\ DOMAIN task = Threads /\ \A s \in Threads : DOMAIN task[s] = {"at", "error", "open"}
      /\ DOMAIN client = {"connected", "lock", "session"}
  BY DEF TypeOK, TaskState
<1> DEFINE rest == [task EXCEPT ![t] = NoTask]
<1>2. /\ rest \in [Threads -> TaskState]
      /\ rest[t].at = "none" /\ rest[t].error = "none"
      /\ \A s \in Threads \ {t} : rest[s] = task[s]
  BY DEF NoTask, TaskState, TypeOK
<1>3. task' = rest \/ task' = UnderClosed(rest)
  BY DEF Cancel
<1> HIDE DEF rest
<1>4. /\ task'[t].at = "none" /\ task'[t].error = "none"
      /\ \A s \in Threads \ {t} : UNCHANGED <<task[s].at, task[s].error>>
  BY <1>2, <1>3, UnderClosedFrame
<1>5. \/ client' = [client EXCEPT !.lock = IF @ = t THEN Nobody ELSE @]
      \/ client' = [client EXCEPT !.lock = IF @ = t THEN Nobody ELSE @, !.session = FALSE]
  BY DEF Cancel
<1>6. /\ client'.connected = client.connected
      /\ client'.lock = IF client.lock = t THEN Nobody ELSE client.lock
      /\ client'.session => client.session
  BY <1>1, <1>5
<1> QED
  BY <1>4, <1>6

\* An attempt that is over leaves no coroutine.
LEMMA CollectFrame ==
  ASSUME TypeOK, NEW t \in Threads, Collect(t)
  PROVE  /\ task'[t].at = "none" /\ task'[t].error = "none" /\ client' = client
         /\ \A s \in Threads \ {t} : UNCHANGED <<task[s].at, task[s].error>>
  BY DEF Collect, NoTask, TypeOK

\* A close that raises leaves the flag, and an error that is not safe.
LEMMA CloseFailsFrame ==
  ASSUME TypeOK, NEW t \in Threads, CloseFails(t)
  PROVE  /\ task[t].at = "closing" /\ task'[t].at = "raised"
         /\ task'[t].error \in Errors \ {"safe"}
         /\ client'.connected = client.connected /\ (client'.session => client.session)
         /\ wire' = wire
<1> DEFINE raised(e) == [task EXCEPT ![t] = [task[t] EXCEPT !.at = "raised", !.error = e]]
<1>1. PICK e \in Errors \ {"safe"} :
        \/ task' = raised(e) /\ client' = [client EXCEPT !.lock = Nobody]
        \/ task' = UnderClosed(raised(e)) /\ client' = [client EXCEPT !.lock = Nobody, !.session = FALSE]
  BY DEF CloseFails
<1>2. /\ raised(e) \in [Threads -> TaskState]
      /\ raised(e)[t].at = "raised" /\ raised(e)[t].error = e
  BY DEF TypeOK, TaskState
<1>3. client'.connected = client.connected /\ (client'.session => client.session)
  BY <1>1 DEF TypeOK
<1> HIDE DEF raised
<1>4. task'[t].at = "raised" /\ task'[t].error = e
  BY <1>1, <1>2, UnderClosedFrame
<1>5. task[t].at = "closing" /\ wire' = wire
  BY DEF CloseFails, Runs
<1> QED
  BY <1>1, <1>3, <1>4, <1>5

\* Shutting down sets no coroutine going, and is not undone.
LEMMA ShutdownFrame ==
  ASSUME TypeOK, Shutdown
  PROVE  /\ UNCHANGED <<number, caller, wire, executed, outcome>>
         /\ \A s \in Threads : UNCHANGED <<task[s].at, task[s].error>>
         /\ client'.lock = client.lock
         /\ shutdown' # "no"
<1>1. DOMAIN client = {"connected", "lock", "session"}
  BY DEF TypeOK
<1>2. UNCHANGED <<number, caller, wire, executed, outcome>> /\ shutdown' # "no"
  BY DEF Shutdown, Close, SessionCloses, CloseRaises, Forget, StopLoop, Shut
<1>3. client'.lock = client.lock
  BY <1>1 DEF Shutdown, Close, SessionCloses, CloseRaises, Forget, StopLoop, CloseSession
<1>4. \A s \in Threads : UNCHANGED <<task[s].at, task[s].error>>
  BY DEF Shutdown, Close, SessionCloses, CloseRaises, Forget, StopLoop, CloseSession, UnderClosed,
     TypeOK, TaskState
<1> QED
  BY <1>2, <1>3, <1>4

-----------------------------------------------------------------------------
(* One session.                                                            *)

LEMMA SessionStep ==
  TypeOK /\ LockInv /\ SessionInv /\ [Next]_vars => (LockInv /\ SessionInv)'
<1> SUFFICES ASSUME TypeOK, LockInv, SessionInv, [Next]_vars
             PROVE  (LockInv /\ SessionInv)'
  OBVIOUS
<1>1. /\ DOMAIN task = Threads /\ \A s \in Threads : DOMAIN task[s] = {"at", "error", "open"}
      /\ DOMAIN client = {"connected", "lock", "session"}
      /\ Nobody \notin Threads
  BY TransportAssumption DEF TypeOK, TaskState
<1>2. ASSUME UNCHANGED <<client, shutdown>>,
             \A s \in Threads : task'[s].at \in {task[s].at, "none", "lock", "ready", "asked",
                                              "failing", "raised", "answered"}
      PROVE  (LockInv /\ SessionInv)'
  BY <1>2 DEF LockInv, SessionInv
<1>3. ASSUME NEW t \in Threads, Call(t) \/ TooLate(t) \/ WakeUp(t)
      PROVE  (LockInv /\ SessionInv)'
  BY <1>2, <1>3 DEF Call, TooLate, WakeUp, EndCall
<1>4. ASSUME NEW t \in Threads, Submit(t)
      PROVE  (LockInv /\ SessionInv)'
  BY <1>1, <1>2, <1>4 DEF Submit, NoTask
<1>5. ASSUME NEW t \in Threads, Return(t) \/ GiveUp(t) \/ OutOfAttempts(t) \/ BackOff(t)
      PROVE  (LockInv /\ SessionInv)'
  <2>1. Collect(t) /\ shutdown' = shutdown
    BY <1>5 DEF Return, GiveUp, OutOfAttempts, BackOff, EndCall
  <2> QED
    BY <1>2, <2>1, CollectFrame
<1>6. ASSUME NEW t \in Threads, Deadline(t)
      PROVE  (LockInv /\ SessionInv)'
  <2>1. Cancel(t) /\ shutdown' = shutdown
    BY <1>6 DEF Deadline, EndCall
  <2> QED
    BY <2>1, CancelFrame DEF LockInv, SessionInv
<1>7. ASSUME NEW t \in Threads, Coroutine(t)
      PROVE  (LockInv /\ SessionInv)'
  <2>1. CASE ReuseSession(t) \/ Ask(t) \/ Answered(t) \/ AskFails(t)
    <3>1. task'[t].at \in {"ready", "asked", "answered", "failing"} /\ client' = client
      BY <1>1, <2>1 DEF ReuseSession, Ask, Answered, AskFails
    <3> QED
      BY <1>2, <1>7, <3>1, CoroutineFrame
  <2>2. CASE BeginConnect(t)
    <3>1. /\ client.lock = Nobody /\ ~client.connected /\ task'[t].at = "connect"
          /\ client'.lock = t /\ UNCHANGED <<client.connected, client.session>>
      BY <1>1, <2>2 DEF BeginConnect
    <3> QED
      BY <1>1, <1>7, <3>1, CoroutineFrame DEF LockInv, SessionInv
  <2>3. CASE Connected(t)
    <3>1. task[t].at = "connect" /\ task'[t].at = "ready" /\ client'.connected
      BY <1>1, <2>3 DEF Connected, Runs
    <3> QED
      BY <1>1, <1>7, <3>1, CoroutineFrame DEF LockInv, SessionInv
  <2>4. CASE ConnectFails(t)
    <3>1. task[t].at = "connect" /\ task'[t].at = "raised" /\ UNCHANGED <<client.connected, client.session>>
      BY <1>1, <2>4 DEF ConnectFails, Runs
    <3> QED
      BY <1>1, <1>7, <3>1, CoroutineFrame DEF LockInv, SessionInv
  <2>5. CASE BeginClose(t)
    <3>1. /\ client.lock = Nobody /\ task'[t].at = "closing"
          /\ client'.lock = t /\ UNCHANGED <<client.connected, client.session>>
      BY <1>1, <2>5 DEF BeginClose
    <3> QED
      BY <1>1, <1>7, <3>1, CoroutineFrame DEF LockInv, SessionInv
  <2>6. CASE Closed(t)
    <3>1. task[t].at = "closing" /\ task'[t].at = "raised" /\ ~client'.connected /\ ~client'.session
      BY <1>1, <2>6 DEF Closed, Runs, UnderClosed
    <3> QED
      BY <1>1, <1>7, <3>1, CoroutineFrame DEF LockInv, SessionInv
  <2>7. CASE CloseFails(t)
    BY <1>1, <1>7, <2>7, CloseFailsFrame, CoroutineFrame DEF LockInv, SessionInv
  <2> QED
    BY <1>7, <2>1, <2>2, <2>3, <2>4, <2>5, <2>6, <2>7 DEF Coroutine
<1>8. CASE Shutdown
  BY <1>8, ShutdownFrame DEF LockInv, SessionInv
<1>9. ASSUME NEW c \in wire, Execute(c)
      PROVE  (LockInv /\ SessionInv)'
  BY <1>2, <1>9 DEF Execute
<1>10. CASE Tick
  BY <1>2, <1>10 DEF Tick
<1>11. CASE UNCHANGED vars
  BY <1>2, <1>11 DEF vars
<1> QED
  BY <1>3, <1>4, <1>5, <1>6, <1>7, <1>8, <1>9, <1>10, <1>11 DEF Next, Caller

-----------------------------------------------------------------------------
(* At most one run for each call.                                          *)

\* The call a thread is in is one of the calls, and pending.
LEMMA CallInHand ==
  ASSUME TypeOK, WaitInv, OutcomeInv, NEW t \in Threads, caller[t].at # "idle"
  PROVE  number[t] \in 1 .. MaxCalls /\ CallOf(t) \in Calls /\ outcome[CallOf(t)] = "pending"
<1>1. number[t] \in 1 .. MaxCalls
  BY TransportAssumption DEF TypeOK, WaitInv
<1> QED
  BY <1>1 DEF CallOf, Calls, OutcomeInv

\* A call that ends, and did not say unreachable if it was transmitted.
LEMMA EndCallStep ==
  ASSUME TypeOK, WaitInv, OutcomeInv, WireInv, NEW t \in Threads, caller[t].at # "idle",
         NEW how \in {"returned", "deadline", "refused", "unreachable"}, EndCall(t, how),
         how = "unreachable" => ~Transmitted(CallOf(t)), task'[t].error = "none",
         \A s \in Threads \ {t} : UNCHANGED <<task[s].at, task[s].error>>
  PROVE  (OutcomeInv /\ WireInv)'
<1>1. CallOf(t) \in Calls /\ number[t] \in Nat
  BY CallInHand, TransportAssumption
<1>2. /\ UNCHANGED <<number, wire, executed>>
      /\ \A c \in Calls : outcome'[c] = IF c = CallOf(t) THEN how ELSE outcome[c]
      /\ caller'[t].at = "idle"
      /\ \A s \in Threads \ {t} : caller'[s] = caller[s]
  BY DEF EndCall, TypeOK, Idle, Fresh
<1>3. OutcomeInv'
  <2>1. ASSUME NEW s \in Threads, NEW n \in 1 .. MaxCalls
        PROVE  /\ outcome'[<<s, n>>] = "none" <=> n > number'[s]
               /\ outcome'[<<s, n>>] = "pending" <=> n = number'[s] /\ caller'[s].at # "idle"
    <3>1. <<s, n>> \in Calls /\ n \in Nat
      BY TransportAssumption DEF Calls
    <3>2. CASE s = t /\ n = number[t]
      BY <1>1, <1>2, <3>1, <3>2 DEF OutcomeInv, CallOf
    <3>3. CASE s # t \/ n # number[t]
      BY <1>1, <1>2, <3>1, <3>3 DEF OutcomeInv, CallOf
    <3> QED
      BY <3>2, <3>3
  <2> QED
    BY <2>1 DEF OutcomeInv
<1>4. \A c \in Calls :
        /\ executed'[c] \in {0, 1}
        /\ c \in wire' => executed'[c] = 0
        /\ Transmitted(c)' => outcome'[c] \notin {"none", "unreachable"}
  BY <1>1, <1>2 DEF WireInv, Transmitted
<1>5. \A s \in Threads : Attempt(s)'
  BY <1>2 DEF WireInv, Transmitted, CallOf, Attempt
<1> QED
  BY <1>3, <1>4, <1>5 DEF WireInv, Attempt

\* A step that moves no call and no task.
LEMMA QuietStep ==
  ASSUME OutcomeInv, WireInv, UNCHANGED <<number, wire, executed, outcome>>,
         \A s \in Threads :
           /\ caller'[s].at = "idle" <=> caller[s].at = "idle"
           /\ \/ UNCHANGED <<task[s].at, task[s].error>>
              \/ /\ task'[s].at \in {"none", "lock", "connect", "ready"} /\ task'[s].error = "none"
                 /\ caller[s].at # "idle" => ~Transmitted(CallOf(s))
  PROVE  (OutcomeInv /\ WireInv)'
<1>1. OutcomeInv'
  BY DEF OutcomeInv
<1>2. \A s \in Threads : Attempt(s)'
  BY DEF WireInv, Transmitted, CallOf, Attempt
<1> QED
  BY <1>1, <1>2 DEF WireInv, Transmitted, Attempt

LEMMA WireStep ==
  TypeOK /\ WaitInv /\ OutcomeInv /\ WireInv /\ [Next]_vars => (OutcomeInv /\ WireInv)'
<1> SUFFICES ASSUME TypeOK, WaitInv, OutcomeInv, WireInv, [Next]_vars
             PROVE  (OutcomeInv /\ WireInv)'
  OBVIOUS
<1>1. /\ DOMAIN task = Threads /\ \A s \in Threads : DOMAIN task[s] = {"at", "error", "open"}
      /\ DOMAIN caller = Threads
      /\ \A s \in Threads : DOMAIN caller[s] = {"at", "attempt", "spent", "remaining", "wakeAt"}
      /\ \A s \in Threads : number[s] \in Nat
  BY TransportAssumption DEF TypeOK, TaskState, CallerState
<1>2. \A s \in Threads : Attempt(s)
  BY DEF WireInv, Attempt
<1>3. ASSUME NEW t \in Threads, Call(t)
      PROVE  (OutcomeInv /\ WireInv)'
  <2> DEFINE new == <<t, number[t] + 1>>
  <2>1. new \in Calls /\ outcome[new] = "none" /\ ~Transmitted(new)
    <3>1. number[t] + 1 \in 1 .. MaxCalls
      BY <1>1, <1>3, TransportAssumption DEF Call
    <3>2. new \in Calls /\ outcome[new] = "none"
      BY <1>1, <3>1 DEF OutcomeInv, Calls
    <3> QED
      BY <3>2 DEF WireInv
  <2>2. /\ UNCHANGED <<task, wire, executed>> /\ caller[t].at = "idle"
        /\ \A c \in Calls : outcome'[c] = IF c = new THEN "pending" ELSE outcome[c]
        /\ caller'[t].at = "attempt" /\ number'[t] = number[t] + 1
        /\ \A s \in Threads \ {t} : caller'[s] = caller[s] /\ number'[s] = number[s]
    BY <1>3 DEF Call, TypeOK, Fresh
  <2>3. OutcomeInv'
    <3>1. ASSUME NEW s \in Threads, NEW n \in 1 .. MaxCalls
          PROVE  /\ outcome'[<<s, n>>] = "none" <=> n > number'[s]
                 /\ outcome'[<<s, n>>] = "pending" <=> n = number'[s] /\ caller'[s].at # "idle"
      <4>1. <<s, n>> \in Calls
        BY DEF Calls
      <4> QED
        BY <1>1, <2>2, <4>1 DEF OutcomeInv
    <3> QED
      BY <3>1 DEF OutcomeInv
  <2>4. \A c \in Calls :
          /\ executed'[c] \in {0, 1}
          /\ c \in wire' => executed'[c] = 0
          /\ Transmitted(c)' => outcome'[c] \notin {"none", "unreachable"}
    BY <2>2 DEF WireInv, Transmitted
  <2>5. task[t].at = "none"
    BY <2>2 DEF WaitInv
  <2>6. ASSUME NEW s \in Threads \ {t}
        PROVE  Attempt(s)'
    BY <1>2, <2>2 DEF Attempt, Transmitted, CallOf
  <2>7. ~Transmitted(CallOf(t))'
    BY <2>1, <2>2 DEF Transmitted, CallOf
  <2>8. Attempt(t)'
    BY <1>2, <2>2, <2>5, <2>7 DEF Attempt
  <2> QED
    BY <2>3, <2>4, <2>6, <2>8 DEF WireInv, Attempt
<1>4. ASSUME NEW t \in Threads, Submit(t)
      PROVE  (OutcomeInv /\ WireInv)'
  <2>1. /\ UNCHANGED <<number, wire, executed, outcome>>
        /\ caller[t].at = "attempt" /\ caller'[t].at = "result"
        /\ task'[t].at = "lock" /\ task'[t].error = "none"
        /\ \A s \in Threads \ {t} : UNCHANGED <<caller[s].at, task[s].at, task[s].error>>
    BY <1>1, <1>4 DEF Submit, NoTask
  <2>2. ~Transmitted(CallOf(t))
    BY <1>2, <2>1 DEF Attempt, WaitInv
  <2> QED
    BY <2>1, <2>2, QuietStep
<1>5. ASSUME NEW t \in Threads, TooLate(t)
      PROVE  (OutcomeInv /\ WireInv)'
  <2>1. task[t].error = "none"
    BY <1>2, <1>5 DEF TooLate, WaitInv, Attempt
  <2> QED
    BY <1>5, <2>1, EndCallStep DEF TooLate
<1>6. ASSUME NEW t \in Threads, Return(t) \/ GiveUp(t)
      PROVE  (OutcomeInv /\ WireInv)'
  BY <1>6, CollectFrame, EndCallStep DEF Return, GiveUp, Waiting
<1>7. ASSUME NEW t \in Threads, OutOfAttempts(t)
      PROVE  (OutcomeInv /\ WireInv)'
  <2>1. ~Transmitted(CallOf(t))
    BY <1>2, <1>7 DEF OutOfAttempts, Waiting, is_safe_to_retry, Attempt
  <2> QED
    BY <1>7, <2>1, CollectFrame, EndCallStep DEF OutOfAttempts, Waiting
<1>8. ASSUME NEW t \in Threads, BackOff(t)
      PROVE  (OutcomeInv /\ WireInv)'
  <2>1. caller[t].at = "result" /\ ~Transmitted(CallOf(t))
    BY <1>2, <1>8 DEF BackOff, Waiting, is_safe_to_retry, Attempt
  <2>2. /\ UNCHANGED <<number, wire, executed, outcome>> /\ Collect(t)
        /\ caller'[t].at = "sleep"
        /\ \A s \in Threads \ {t} : UNCHANGED caller[s].at
    BY <1>1, <1>8 DEF BackOff
  <2> QED
    BY <2>1, <2>2, CollectFrame, QuietStep
<1>9. ASSUME NEW t \in Threads, WakeUp(t)
      PROVE  (OutcomeInv /\ WireInv)'
  <2>1. /\ UNCHANGED <<number, task, wire, executed, outcome>>
        /\ caller[t].at = "sleep" /\ caller'[t].at = "attempt"
        /\ \A s \in Threads \ {t} : UNCHANGED caller[s].at
    BY <1>1, <1>9 DEF WakeUp
  <2> QED
    BY <2>1, QuietStep
<1>10. ASSUME NEW t \in Threads, Deadline(t)
       PROVE  (OutcomeInv /\ WireInv)'
  BY <1>10, CancelFrame, EndCallStep DEF Deadline, TimeIsUp
<1>11. ASSUME NEW t \in Threads, Coroutine(t)
       PROVE  (OutcomeInv /\ WireInv)'
  <2>1. caller[t].at = "result" /\ OutcomeInv'
    BY <1>11, CoroutineFrame DEF WaitInv, OutcomeInv
  <2>2. CallOf(t) \in Calls /\ outcome[CallOf(t)] = "pending"
    BY <2>1, CallInHand
  <2>3. \A s \in Threads : CallOf(s)' = CallOf(s)
    BY <1>11, CoroutineFrame DEF CallOf
  <2>4. \A s \in Threads \ {t} : CallOf(s) # CallOf(t)
    BY DEF CallOf
  <2>5. CASE Ask(t)
    <3>1. /\ task[t].at = "ready" /\ task'[t].at = "asked" /\ task'[t].error = task[t].error
          /\ wire' = wire \cup {CallOf(t)}
      BY <1>1, <2>5 DEF Ask, Runs
    <3>2. ~Transmitted(CallOf(t)) /\ task[t].error = "none"
      BY <1>2, <2>1, <3>1 DEF Attempt
    <3>3. \A c \in Calls :
            /\ c \in wire' => executed[c] = 0
            /\ Transmitted(c)' => Transmitted(c) \/ c = CallOf(t)
      BY <1>11, <2>2, <3>1, <3>2, CoroutineFrame DEF WireInv, Transmitted
    <3>4. \A s \in Threads \ {t} : Attempt(s)'
      BY <1>2, <1>11, <2>3, <2>4, <3>1, CoroutineFrame DEF Attempt, Transmitted
    <3>5. Attempt(t)'
      BY <2>3, <3>1, <3>2 DEF Attempt, Transmitted
    <3>6. \A c \in Calls :
            executed'[c] \in {0, 1} /\ (Transmitted(c)' => outcome'[c] \notin {"none", "unreachable"})
      BY <1>11, <2>2, <3>3, CoroutineFrame DEF WireInv
    <3> QED
      BY <1>11, <2>1, <3>3, <3>4, <3>5, <3>6, CoroutineFrame DEF WireInv
  <2>6. CASE wire' = wire /\ ~Ask(t)
    <3>1. \A c : Transmitted(c)' <=> Transmitted(c)
      BY <1>11, <2>6, CoroutineFrame DEF Transmitted
    <3>2. \A s \in Threads \ {t} : Attempt(s)'
      BY <1>2, <1>11, <2>3, <3>1, CoroutineFrame DEF Attempt
    <3>3. \/ /\ task[t].at \in {"lock", "connect"} /\ task'[t].at \in {"connect", "ready"}
             /\ task'[t].error = task[t].error
          \/ /\ task[t].at \in {"connect", "ready"} /\ task'[t].at \in {"failing", "raised"}
          \/ /\ task[t].at = "asked" /\ task'[t].at = "answered"
             /\ task'[t].error = task[t].error /\ CallOf(t) \notin wire
          \/ /\ task'[t].at \in {"failing", "raised"} /\ task'[t].error # "safe"
          \/ /\ task[t].at \in {"failing", "closing"} /\ task'[t].at \in {"closing", "raised"}
             /\ task'[t].error = task[t].error
      <4>1. CASE ReuseSession(t) \/ BeginConnect(t) \/ Connected(t) \/ Answered(t) \/ BeginClose(t)
        BY <1>1, <4>1 DEF ReuseSession, BeginConnect, Connected, Answered, BeginClose, Runs
      <4>2. CASE ConnectFails(t) \/ AskFails(t)
        BY <1>1, <4>2 DEF ConnectFails, AskFails, Runs
      <4>3. CASE Closed(t)
        BY <1>1, <4>3 DEF Closed, Runs, UnderClosed
      <4> QED
        BY <1>11, <2>6, <4>1, <4>2, <4>3, CloseFailsFrame DEF Coroutine
    <3>4. Attempt(t)'
      BY <1>2, <1>11, <2>1, <2>3, <3>1, <3>3, CoroutineFrame DEF Attempt, Transmitted
    <3> QED
      BY <1>11, <2>1, <2>6, <3>1, <3>2, <3>4, CoroutineFrame DEF WireInv
  <2> QED
    BY <1>11, <2>5, <2>6 DEF Coroutine, ReuseSession, BeginConnect, Connected, ConnectFails,
       Answered, AskFails, BeginClose, Closed, CloseFails
<1>12. CASE Shutdown
  BY <1>12, ShutdownFrame, QuietStep
<1>13. ASSUME NEW c \in wire, Execute(c)
       PROVE  (OutcomeInv /\ WireInv)'
  <2>1. c \in Calls /\ executed[c] = 0
    BY DEF TypeOK, WireInv
  <2>2. /\ UNCHANGED <<number, caller, task, outcome>> /\ wire' = wire \ {c}
        /\ \A d \in Calls : executed'[d] = IF d = c THEN 1 ELSE executed[d]
    BY <1>13, <2>1 DEF Execute, TypeOK
  <2>3. \A d \in Calls : Transmitted(d)' <=> Transmitted(d)
    BY <2>1, <2>2 DEF Transmitted
  <2>4. OutcomeInv'
    BY <2>2 DEF OutcomeInv
  <2>5. \A d \in Calls :
          /\ executed'[d] \in {0, 1}
          /\ d \in wire' => executed'[d] = 0
          /\ Transmitted(d)' => outcome'[d] \notin {"none", "unreachable"}
    BY <2>1, <2>2, <2>3 DEF WireInv
  <2>6. ASSUME NEW s \in Threads, caller[s].at # "idle"
        PROVE  Attempt(s)'
    <3>1. CallOf(s) \in Calls /\ CallOf(s)' = CallOf(s)
      BY <2>2, <2>6, CallInHand DEF CallOf
    <3> QED
      BY <1>2, <2>2, <2>3, <3>1 DEF Attempt
  <2> QED
    BY <2>2, <2>4, <2>5, <2>6 DEF WireInv, Attempt
<1>14. CASE Tick
  <2>1. /\ UNCHANGED <<number, task, wire, executed, outcome>>
        /\ \A s \in Threads : caller'[s].at = caller[s].at
    BY <1>1, <1>14 DEF Tick, Idle, Fresh
  <2> QED
    BY <2>1, QuietStep
<1>15. CASE UNCHANGED vars
  BY <1>15, QuietStep DEF vars
<1> QED
  BY <1>3, <1>4, <1>5, <1>6, <1>7, <1>8, <1>9, <1>10, <1>11, <1>12, <1>13, <1>14, <1>15
     DEF Next, Caller

-----------------------------------------------------------------------------
(* The theorems.                                                           *)

LEMMA InitialInvariant == Init => IInv
<1> SUFFICES ASSUME Init
             PROVE  IInv
  OBVIOUS
<1>1. TypeOK
  BY InitialTypes
<1>2. LongestBackOff \in Nat /\ Least(LongestBackOff, 0) \in Nat
  BY TransportAssumption, LeastBelow DEF LongestBackOff
<1>3. WaitInv /\ TimeInv /\ CallBounded
  BY <1>2, TransportAssumption DEF Init, Idle, Fresh, NoTask, WaitInv, TimeInv, CallBounded
<1>4. LockInv /\ SessionInv
  BY DEF Init, NoTask, LockInv, SessionInv
<1>5. OutcomeInv
  BY TransportAssumption DEF Init, Idle, Fresh, Calls, OutcomeInv
<1>6. WireInv
  BY DEF Init, Idle, Fresh, NoTask, WireInv, Attempt, Transmitted
<1> QED
  BY <1>1, <1>3, <1>4, <1>5, <1>6 DEF IInv

LEMMA Invariance == Spec => []IInv
<1>1. IInv /\ [Next]_vars => IInv'
  BY TypeStep, TimeStep, SessionStep, WireStep DEF IInv
<1> QED
  BY <1>1, InitialInvariant, PTL DEF Spec

\* Every field stays in its range: in particular a call makes no more attempts
\* than max_retries.
THEOREM TypeCorrectness == Spec => []TypeOK
  BY Invariance, PTL DEF IInv

\* A call outlasts its deadline by one back-off at most, no longer than the
\* time that was left when its last attempt began.
THEOREM CallsBounded == Spec => []CallBounded
  BY Invariance, PTL DEF IInv

\* Until the transport is being closed, no thread opens a session while one
\* is open, whatever calls fail, time out or are cancelled.
THEOREM SessionsSingle == Spec => []OneSession
<1>1. IInv => OneSession
  BY DEF IInv, SessionInv, OneSession
<1> QED
  BY <1>1, Invariance, PTL

\* The retries are safe: a tool of the opponent runs at most once for each
\* call, before the call returns, and never for a call that reports that the
\* opponent could not be reached.
THEOREM TransportImplementsRemoteCall == Spec => ImplementsRemoteCall
<1>1. Init => Remote!Init
  BY DEF Init, Remote!Init
<1>2. ASSUME IInv, [Next]_vars
      PROVE  [Remote!Next]_(Remote!vars)
  <2>0. TypeOK /\ WaitInv /\ OutcomeInv /\ WireInv
    BY <1>2 DEF IInv
  <2>1. ASSUME NEW t \in Threads, Call(t)
        PROVE  Remote!Next
    <3>1. number[t] \in Nat /\ number[t] + 1 \in 1 .. MaxCalls
      BY <2>0, <2>1, TransportAssumption DEF Call, TypeOK
    <3>2. <<t, number[t] + 1>> \in Calls /\ outcome[<<t, number[t] + 1>>] = "none"
      BY <2>0, <3>1 DEF OutcomeInv, Calls
    <3> QED
      BY <2>1, <3>2 DEF Call, Remote!Next, Remote!Begin
  <2>2. ASSUME NEW t \in Threads, caller[t].at # "idle", NEW how \in Remote!Endings, EndCall(t, how),
               how = "returned" => executed[CallOf(t)] = 1,
               how = "unreachable" => executed[CallOf(t)] = 0
        PROVE  Remote!Next
    <3>1. CallOf(t) \in Calls /\ outcome[CallOf(t)] = "pending"
      BY <2>0, <2>2, CallInHand
    <3> QED
      BY <2>2, <3>1 DEF EndCall, Remote!Next, Remote!End
  <2>3. ASSUME NEW t \in Threads, Caller(t)
        PROVE  [Remote!Next]_(Remote!vars)
    <3>1. CASE Submit(t) \/ BackOff(t) \/ WakeUp(t)
      BY <3>1 DEF Submit, BackOff, WakeUp, Remote!vars
    <3>2. CASE TooLate(t) \/ GiveUp(t) \/ Deadline(t)
      BY <2>2, <3>2 DEF TooLate, GiveUp, Deadline, Waiting, TimeIsUp, Remote!Endings
    <3>3. CASE Return(t)
      BY <2>0, <2>2, <3>3 DEF Return, Waiting, WireInv, Attempt, Remote!Endings
    <3>4. CASE OutOfAttempts(t)
      <4>1. caller[t].at = "result" /\ ~Transmitted(CallOf(t))
        BY <2>0, <3>4 DEF OutOfAttempts, Waiting, is_safe_to_retry, WireInv, Attempt
      <4>2. executed[CallOf(t)] = 0
        BY <2>0, <4>1, CallInHand DEF Transmitted, WireInv
      <4> QED
        BY <2>2, <3>4, <4>1, <4>2 DEF OutOfAttempts, Remote!Endings
    <3> QED
      BY <2>3, <3>1, <3>2, <3>3, <3>4 DEF Caller
  <2>4. ASSUME NEW t \in Threads, Coroutine(t)
        PROVE  UNCHANGED Remote!vars
    BY <2>0, <2>4, CoroutineFrame DEF Remote!vars
  <2>5. CASE Shutdown
    BY <2>0, <2>5, ShutdownFrame DEF Remote!vars
  <2>6. ASSUME NEW c \in wire, Execute(c)
        PROVE  Remote!Next
    <3>1. /\ c \in Calls /\ executed[c] = 0
          /\ outcome[c] \notin {"none", "unreachable"}
      BY <2>0 DEF TypeOK, WireInv, Transmitted
    <3>2. executed' = [executed EXCEPT ![c] = 1] /\ outcome' = outcome
      BY <2>6, <3>1 DEF Execute
    <3> QED
      BY <3>1, <3>2 DEF Remote!Next, Remote!Execute
  <2>7. CASE Tick \/ UNCHANGED vars
    BY <2>7 DEF Tick, vars, Remote!vars
  <2> QED
    BY <1>2, <2>1, <2>3, <2>4, <2>5, <2>6, <2>7 DEF Next
<1> QED
  BY <1>1, <1>2, Invariance, PTL DEF Spec, ImplementsRemoteCall, Remote!Spec

-----------------------------------------------------------------------------
(* The end of every call.                                                  *)

\* The steps left of the attempt a thread is in.
PlaceLeft(at) == CASE at = "attempt" -> 3 [] at = "result" -> 2 [] OTHER -> 1

\* At most this many steps and ticks are left of the call of a thread: four
\* for each attempt that may still be made, those of this attempt, and the
\* time till the end of the last back-off there can be.
CallLeft(t) ==
  IF caller[t].at = "idle" THEN 0
  ELSE 4 * (MaxRetries - caller[t].attempt) + PlaceLeft(caller[t].at)
         + (2 * ResponseTimeout - caller[t].spent)

LongestCall == 4 * MaxRetries + 3 + 2 * ResponseTimeout

\* What is left of a call, by where it is.
LEMMA CallLeftIs ==
  ASSUME IInv, NEW t \in Threads
  PROVE  /\ caller[t].at \in {"idle", "attempt", "result", "sleep"}
         /\ caller[t].attempt \in 0 .. MaxRetries /\ MaxRetries \in Nat /\ ResponseTimeout \in Nat
         /\ caller[t].spent \in Nat /\ caller[t].spent <= 2 * ResponseTimeout
         /\ CallLeft(t) \in 0 .. LongestCall
         /\ caller[t].at # "idle" => CallLeft(t) > 0
<1>1. /\ caller[t].at \in {"idle", "attempt", "result", "sleep"}
      /\ caller[t].attempt \in 0 .. MaxRetries /\ MaxRetries \in Nat /\ ResponseTimeout \in Nat
      /\ caller[t].spent \in Nat /\ caller[t].remaining \in 0 .. ResponseTimeout
  BY TransportAssumption DEF IInv, TypeOK, CallerState
<1>2. caller[t].spent <= ResponseTimeout + Least(LongestBackOff, caller[t].remaining)
  BY DEF IInv, CallBounded
<1>3. Least(LongestBackOff, caller[t].remaining) <= caller[t].remaining
      /\ Least(LongestBackOff, caller[t].remaining) \in Nat
  <2>1. LongestBackOff \in Nat
    BY BackOffType DEF IInv
  <2>2. caller[t].remaining \in Nat
    BY <1>1
  <2> QED
    BY ONLY <2>1, <2>2, LeastBelow
<1>4. caller[t].spent <= 2 * ResponseTimeout
  <2>1. ASSUME NEW late \in Nat, caller[t].spent <= ResponseTimeout + late, late <= caller[t].remaining
        PROVE  caller[t].spent <= 2 * ResponseTimeout
    BY <1>1, <2>1
  <2> QED
    BY <1>2, <1>3, <2>1
<1>5. PlaceLeft(caller[t].at) \in 1 .. 3
  BY DEF PlaceLeft
<1> QED
  BY <1>1, <1>4, <1>5 DEF CallLeft, LongestCall

\* Every call ends, as far as safety goes: no more attempts than max_retries
\* and no more time than twice the timeout, so each step of its thread and each
\* tick of the clock brings it nearer to its end, and nothing the event loop,
\* the network or another thread does puts it off (mcp_client.py's retry loop).
THEOREM CallsRunDown ==
  Spec => /\ [](\A t \in Threads : CallLeft(t) \in 0 .. LongestCall)
          /\ [][\A t \in Threads : caller[t].at # "idle" =>
                  /\ CallLeft(t)' <= CallLeft(t)
                  /\ Caller(t) \/ Tick => CallLeft(t)' < CallLeft(t)]_vars
<1>1. IInv => \A t \in Threads : CallLeft(t) \in 0 .. LongestCall
  BY CallLeftIs
<1>2. IInv /\ [Next]_vars =>
        [\A t \in Threads : caller[t].at # "idle" =>
           /\ CallLeft(t)' <= CallLeft(t)
           /\ Caller(t) \/ Tick => CallLeft(t)' < CallLeft(t)]_vars
  <2> SUFFICES ASSUME IInv, [Next]_vars, NEW t \in Threads, caller[t].at # "idle"
               PROVE  /\ CallLeft(t)' <= CallLeft(t)
                      /\ Caller(t) \/ Tick => CallLeft(t)' < CallLeft(t)
    OBVIOUS
  <2>t. /\ caller[t].at \in {"attempt", "result", "sleep"}
        /\ caller[t].attempt \in 0 .. MaxRetries /\ MaxRetries \in Nat /\ ResponseTimeout \in Nat
        /\ caller[t].spent \in Nat /\ caller[t].spent <= 2 * ResponseTimeout
        /\ CallLeft(t) \in Nat /\ CallLeft(t) > 0
    <3>1. CallLeft(t) \in 0 .. LongestCall /\ CallLeft(t) > 0
      BY CallLeftIs
    <3> QED
      BY <3>1, CallLeftIs
  <2>c. caller \in [Threads -> CallerState]
    BY DEF IInv, TypeOK
  <2>1. CASE caller'[t] = caller[t] /\ ~Caller(t) /\ ~Tick
    BY <2>1, <2>t DEF CallLeft
  <2>2. CASE Tick
    <3>1. caller'[t] = [caller[t] EXCEPT !.spent = @ + 1]
      BY <2>2 DEF Tick
    <3>2. /\ caller'[t].at = caller[t].at /\ caller'[t].attempt = caller[t].attempt
          /\ caller'[t].spent = caller[t].spent + 1
      BY ONLY <2>c, <3>1 DEF CallerState
    <3> QED
      BY <2>t, <3>2 DEF CallLeft, PlaceLeft
  <2>3. CASE Caller(t) /\ caller'[t].at = "idle"
    BY <2>3, <2>t DEF CallLeft
  <2>4. CASE Submit(t)
    <3>1. /\ caller[t].at = "attempt" /\ caller'[t].at = "result"
          /\ caller'[t].attempt = caller[t].attempt /\ caller'[t].spent = caller[t].spent
      BY <2>4, <2>c DEF Submit, CallerState
    <3> QED
      BY <2>t, <3>1 DEF CallLeft, PlaceLeft
  <2>5. CASE BackOff(t)
    <3>1. /\ caller[t].at = "result" /\ caller'[t].at = "sleep"
          /\ caller'[t].attempt = caller[t].attempt /\ caller'[t].spent = caller[t].spent
      BY <2>5, <2>c DEF BackOff, Waiting, CallerState
    <3> QED
      BY <2>t, <3>1 DEF CallLeft, PlaceLeft
  <2>6. CASE WakeUp(t)
    <3>1. /\ caller[t].at = "sleep" /\ caller'[t].at = "attempt"
          /\ caller'[t].attempt = caller[t].attempt + 1 /\ caller'[t].spent = caller[t].spent
      BY <2>6, <2>c DEF WakeUp, CallerState
    <3> QED
      BY <2>t, <3>1 DEF CallLeft, PlaceLeft
  <2>7. CASE Return(t) \/ TooLate(t) \/ GiveUp(t) \/ OutOfAttempts(t) \/ Deadline(t)
    <3>1. caller'[t] = Idle
      BY <2>7, <2>c DEF Return, TooLate, GiveUp, OutOfAttempts, Deadline, EndCall
    <3> QED
      BY <2>3, <2>7, <3>1 DEF Caller, Idle, Fresh
  <2>8. CASE ~Caller(t) /\ ~Tick
    <3>1. ASSUME NEW u \in Threads, u # t, Call(u) \/ Caller(u) PROVE caller'[t] = caller[t]
      BY <2>c, <3>1
      DEF Call, Caller, Submit, Return, TooLate, GiveUp, OutOfAttempts, Deadline, EndCall, BackOff,
          WakeUp
    <3>2. ~Call(t)
      BY <2>t DEF Call
    <3>3. ASSUME NEW u \in Threads, Coroutine(u) PROVE caller' = caller
      BY <3>3
      DEF Coroutine, ReuseSession, BeginConnect, Connected, ConnectFails, Ask, Answered, AskFails,
          BeginClose, Closed, CloseFails, OnLoop
    <3>4. ASSUME Shutdown \/ (\E c \in wire : Execute(c)) \/ UNCHANGED vars PROVE caller' = caller
      BY <3>4 DEF Shutdown, Close, SessionCloses, CloseRaises, Forget, StopLoop, Shut, Execute, vars
    <3>5. caller'[t] = caller[t]
      BY <2>8, <3>1, <3>2, <3>3, <3>4 DEF Next
    <3> QED
      BY <2>1, <2>8, <3>5
  <2> QED
    BY <2>2, <2>4, <2>5, <2>6, <2>7, <2>8 DEF Caller
<1> QED
  BY <1>1, <1>2, Invariance, PTL DEF Spec

=============================================================================

----------------------------- MODULE McpTransport -----------------------------
(***************************************************************************)
(* One McpTransport: the threads that call the opponent's tools through    *)
(* it, the coroutine that each attempt of a call runs on the transport's   *)
(* own event loop, the one session all of them share, and its close at the *)
(* end of the match.  Time is counted in whole units, from the start of    *)
(* each call.                                                              *)
(***************************************************************************)
EXTENDS Integers

CONSTANTS
  Threads,          \* the main thread and the tool handlers that call
  Main,             \* the one that closes the transport
  Nobody,           \* no thread
  MaxCalls,         \* bound: calls of one thread
  ResponseTimeout,  \* _response_timeout_sec
  RetryBackoff,     \* _retry_backoff_sec
  MaxRetries        \* _max_retries

ASSUME TransportAssumption ==
  /\ Main \in Threads
  /\ Nobody \notin Threads
  /\ MaxCalls \in Nat
  /\ ResponseTimeout \in Nat \ {0}
  /\ RetryBackoff \in Nat
  /\ MaxRetries \in Nat \ {0}

VARIABLES
  number,    \* how many calls each thread has begun
  caller,    \* where it is in call(), and the locals of that call
  task,      \* where the coroutine of its attempt is, what it raised, and
             \* whether the session it has sent its request on is still open
  client,    \* _connected, the holder of _connect_lock, the session itself
  shutdown,  \* how far close() is
  wire,      \* requests transmitted and not yet run by the opponent
  executed,  \* how often the opponent has run each
  outcome    \* how each call ended

vars == <<number, caller, task, client, shutdown, wire, executed, outcome>>

Calls == Threads \X (1 .. MaxCalls)
CallOf(t) == <<t, number[t]>>

Errors == {"safe", "unsafe", "timeout"}
Fresh(at, attempt) ==
  [at |-> at, attempt |-> attempt, spent |-> 0, remaining |-> 0, wakeAt |-> 0]
Idle == Fresh("idle", 0)
NoTask == [at |-> "none", error |-> "none", open |-> FALSE]

Init ==
  /\ number = [t \in Threads |-> 0]
  /\ caller = [t \in Threads |-> Idle]
  /\ task = [t \in Threads |-> NoTask]
  /\ client = [connected |-> FALSE, lock |-> Nobody, session |-> FALSE]
  /\ shutdown = "no"
  /\ wire = {}
  /\ executed = [c \in Calls |-> 0]
  /\ outcome = [c \in Calls |-> "none"]

-----------------------------------------------------------------------------
(* The calling thread.                                                     *)

Call(t) ==
  /\ caller[t].at = "idle"
  /\ number[t] < MaxCalls
  /\ t = Main => shutdown = "no"
  /\ number' = [number EXCEPT ![t] = @ + 1]
  /\ caller' = [caller EXCEPT ![t] = Fresh("attempt", 1)]
  /\ outcome' = [outcome EXCEPT ![<<t, number[t] + 1>>] = "pending"]
  /\ UNCHANGED <<task, client, shutdown, wire, executed>>

\* The call ends, and its locals with it.
EndCall(t, how) ==
  /\ caller' = [caller EXCEPT ![t] = Idle]
  /\ outcome' = [outcome EXCEPT ![CallOf(t)] = how]
  /\ UNCHANGED <<number, shutdown, wire, executed>>

\* The head of the loop: an attempt, if there is time left.
Submit(t) ==
  /\ caller[t].at = "attempt"
  /\ caller[t].spent < ResponseTimeout
  /\ caller' = [caller EXCEPT ![t].at = "result", ![t].remaining = ResponseTimeout - caller[t].spent]
  /\ task' = [task EXCEPT ![t] = [NoTask EXCEPT !.at = "lock"]]
  /\ UNCHANGED <<number, client, shutdown, wire, executed, outcome>>

TooLate(t) ==
  /\ caller[t].at = "attempt"
  /\ caller[t].spent >= ResponseTimeout
  /\ EndCall(t, "deadline")
  /\ UNCHANGED <<task, client>>

Waiting(t, stage) == caller[t].at = "result" /\ task[t].at = stage

\* future.result returns or raises: the attempt is over.
Collect(t) ==
  /\ task' = [task EXCEPT ![t] = NoTask]
  /\ UNCHANGED client

Return(t) ==
  /\ Waiting(t, "answered")
  /\ EndCall(t, "returned")
  /\ Collect(t)

is_safe_to_retry_any_failure(e) == TRUE

is_safe_to_retry(e) == e = "safe"

may_retry_once_more(t) == caller[t].attempt <= MaxRetries

may_retry(t) == caller[t].attempt < MaxRetries

Least(a, b) == IF a < b THEN a ELSE b

backoff_uncapped(t) == RetryBackoff * caller[t].attempt

backoff(t) == Least(RetryBackoff * caller[t].attempt, caller[t].remaining)

\* A TimeoutError of the coroutine itself is taken for the deadline's.
GiveUp(t) ==
  /\ Waiting(t, "raised")
  /\ \/ task[t].error = "timeout" /\ EndCall(t, "deadline")
     \/ task[t].error # "timeout" /\ ~is_safe_to_retry(task[t].error) /\ EndCall(t, "refused")
  /\ Collect(t)

BackOff(t) ==
  /\ Waiting(t, "raised")
  /\ task[t].error # "timeout"
  /\ is_safe_to_retry(task[t].error)
  /\ may_retry(t)
  /\ caller' = [caller EXCEPT ![t].at = "sleep", ![t].wakeAt = caller[t].spent + backoff(t)]
  /\ Collect(t)
  /\ UNCHANGED <<number, shutdown, wire, executed, outcome>>

WakeUp(t) ==
  /\ caller[t].at = "sleep"
  /\ caller[t].spent = caller[t].wakeAt
  /\ caller' = [caller EXCEPT ![t].at = "attempt", ![t].attempt = @ + 1, ![t].wakeAt = 0]
  /\ UNCHANGED <<number, task, client, shutdown, wire, executed, outcome>>

OutOfAttempts(t) ==
  /\ Waiting(t, "raised")
  /\ task[t].error # "timeout"
  /\ is_safe_to_retry(task[t].error)
  /\ ~may_retry(t)
  /\ EndCall(t, "unreachable")
  /\ Collect(t)

TimeIsUp(t) ==
  /\ caller[t].at = "result"
  /\ caller[t].spent = ResponseTimeout
  /\ task[t].at \notin {"raised", "answered"}

\* The session closes under all who have sent a request on it.
UnderClosed(tasks) == [t \in Threads |-> [tasks[t] EXCEPT !.open = FALSE]]

\* The coroutine is cancelled wherever it is, which frees the lock; a close it
\* was in has closed the session, or not.
Cancel(t) ==
  LET freed == [client EXCEPT !.lock = IF @ = t THEN Nobody ELSE @]
      rest == [task EXCEPT ![t] = NoTask]
  IN \/ client' = freed /\ task' = rest
     \/ /\ task[t].at = "closing"
        /\ client' = [freed EXCEPT !.session = FALSE]
        /\ task' = UnderClosed(rest)

CallAgain(t) ==
  /\ TimeIsUp(t)
  /\ caller' = [caller EXCEPT ![t].at = "attempt", ![t].spent = 0]
  /\ Cancel(t)
  /\ UNCHANGED <<number, shutdown, wire, executed, outcome>>

Deadline(t) ==
  /\ TimeIsUp(t)
  /\ EndCall(t, "deadline")
  /\ Cancel(t)

-----------------------------------------------------------------------------
(* The coroutine of an attempt, while the loop runs.                       *)

Runs(t, stage) == shutdown # "stopped" /\ task[t].at = stage

OnLoop == UNCHANGED <<number, caller, shutdown, executed, outcome>>

ReuseSession(t) ==
  /\ Runs(t, "lock")
  /\ client.lock = Nobody
  /\ client.connected
  /\ task' = [task EXCEPT ![t].at = "ready"]
  /\ OnLoop /\ UNCHANGED <<client, wire>>

BeginConnectUnlocked(t) ==
  /\ Runs(t, "lock")
  /\ ~client.connected
  /\ task' = [task EXCEPT ![t].at = "connect"]
  /\ OnLoop /\ UNCHANGED <<client, wire>>

BeginConnect(t) ==
  /\ Runs(t, "lock")
  /\ client.lock = Nobody
  /\ ~client.connected
  /\ client' = [client EXCEPT !.lock = t]
  /\ task' = [task EXCEPT ![t].at = "connect"]
  /\ OnLoop /\ UNCHANGED wire

Connected(t) ==
  /\ Runs(t, "connect")
  /\ client' = [connected |-> TRUE, lock |-> Nobody, session |-> TRUE]
  /\ task' = [task EXCEPT ![t].at = "ready"]
  /\ OnLoop /\ UNCHANGED wire

ConnectFails(t) ==
  /\ Runs(t, "connect")
  /\ client' = [client EXCEPT !.lock = Nobody]
  /\ \E e \in Errors : task' = [task EXCEPT ![t].at = "raised", ![t].error = e]
  /\ OnLoop /\ UNCHANGED wire

\* call_tool transmits the request on the session there is now.
Ask(t) ==
  /\ Runs(t, "ready")
  /\ client.session
  /\ task' = [task EXCEPT ![t].at = "asked", ![t].open = TRUE]
  /\ wire' = wire \cup {CallOf(t)}
  /\ OnLoop /\ UNCHANGED client

\* The opponent's answer comes back on the session it was asked on.
Answered(t) ==
  /\ Runs(t, "asked")
  /\ task[t].open
  /\ CallOf(t) \notin wire
  /\ task' = [task EXCEPT ![t].at = "answered"]
  /\ OnLoop /\ UNCHANGED <<client, wire>>

\* call_tool raises: before it transmits anything, because the client is not
\* connected, cannot connect or otherwise; or later, because the connection
\* breaks, the session is closed or the tool failed.
AskFails(t) ==
  /\ \/ Runs(t, "ready") /\ \E e \in Errors : task' = [task EXCEPT ![t].at = "failing", ![t].error = e]
     \/ Runs(t, "asked") /\ \E e \in Errors \ {"safe"} :
                                task' = [task EXCEPT ![t].at = "failing", ![t].error = e]
  /\ OnLoop /\ UNCHANGED <<client, wire>>

BeginClose(t) ==
  /\ Runs(t, "failing")
  /\ client.lock = Nobody
  /\ client' = [client EXCEPT !.lock = t]
  /\ task' = [task EXCEPT ![t].at = "closing"]
  /\ OnLoop /\ UNCHANGED wire

Closed(t) ==
  /\ Runs(t, "closing")
  /\ client' = [connected |-> FALSE, lock |-> Nobody, session |-> FALSE]
  /\ task' = UnderClosed([task EXCEPT ![t].at = "raised"])
  /\ OnLoop /\ UNCHANGED wire

\* close() raises in its turn, which takes the place of the first error and
\* leaves _connected as it was; that request may have been transmitted.
CloseFails(t) ==
  /\ Runs(t, "closing")
  /\ \E e \in Errors \ {"safe"} :
       LET raised == [task EXCEPT ![t].at = "raised", ![t].error = e]
       IN \/ task' = raised /\ client' = [client EXCEPT !.lock = Nobody]
          \/ /\ task' = UnderClosed(raised)
             /\ client' = [client EXCEPT !.lock = Nobody, !.session = FALSE]
  /\ OnLoop /\ UNCHANGED wire

-----------------------------------------------------------------------------
(* close(), called by the main thread at the end of the match.  It reads   *)
(* and writes _connected without the lock.                                 *)

Shut(from, to) ==
  /\ shutdown = from
  /\ shutdown' = to
  /\ UNCHANGED <<number, caller, wire, executed, outcome>>

Close ==
  /\ caller[Main].at = "idle"
  /\ Shut("no", IF client.connected THEN "closing" ELSE "forgotten")
  /\ UNCHANGED <<task, client>>

CloseSession ==
  /\ client' = [client EXCEPT !.session = FALSE]
  /\ task' = UnderClosed(task)

SessionCloses == Shut("closing", "closed") /\ CloseSession

\* It raises or does not close in time, and the exception leaves close().
CloseRaises == Shut("closing", "raised") /\ (CloseSession \/ UNCHANGED <<task, client>>)

Forget ==
  /\ Shut("closed", "forgotten")
  /\ client' = [client EXCEPT !.connected = FALSE]
  /\ UNCHANGED task

StopLoop == Shut("forgotten", "stopped") /\ UNCHANGED <<task, client>>

-----------------------------------------------------------------------------
(* The opponent and the clock.                                             *)

Execute(c) ==
  /\ wire' = wire \ {c}
  /\ executed' = [executed EXCEPT ![c] = @ + 1]
  /\ UNCHANGED <<number, caller, task, client, shutdown, outcome>>

\* A thread that has something to do before time can pass.
Due(t) ==
  \/ caller[t].at = "attempt"
  \/ TimeIsUp(t) \/ Waiting(t, "raised") \/ Waiting(t, "answered")
  \/ caller[t].at = "sleep" /\ caller[t].spent = caller[t].wakeAt

Tick ==
  /\ \E t \in Threads : caller[t].at # "idle"
  /\ \A t \in Threads : ~Due(t)
  /\ caller' = [t \in Threads |-> IF caller[t].at = "idle" THEN Idle
                                  ELSE [caller[t] EXCEPT !.spent = @ + 1]]
  /\ UNCHANGED <<number, task, client, shutdown, wire, executed, outcome>>

-----------------------------------------------------------------------------
(* The specification.                                                      *)

Caller(t) ==
  \/ Submit(t) \/ TooLate(t) \/ Return(t) \/ GiveUp(t) \/ BackOff(t) \/ WakeUp(t)
  \/ OutOfAttempts(t) \/ Deadline(t)

Coroutine(t) ==
  \/ ReuseSession(t) \/ BeginConnect(t) \/ Connected(t) \/ ConnectFails(t)
  \/ Ask(t) \/ Answered(t) \/ AskFails(t) \/ BeginClose(t) \/ Closed(t) \/ CloseFails(t)

Shutdown == Close \/ SessionCloses \/ CloseRaises \/ Forget \/ StopLoop

Finished ==
  /\ \A t \in Threads : caller[t].at = "idle"
  /\ shutdown \in {"stopped", "raised"}

Next ==
  \/ \E t \in Threads : Call(t) \/ Caller(t) \/ Coroutine(t)
  \/ Shutdown
  \/ \E c \in wire : Execute(c)
  \/ Tick
  \/ Finished /\ UNCHANGED vars

Spec == Init /\ [][Next]_vars

\* Time passes and the threads go on; nothing is assumed of the event loop,
\* the network or the opponent.
FairSpec == Spec /\ WF_vars(Tick) /\ \A t \in Threads : WF_vars(Caller(t))

-----------------------------------------------------------------------------
(* Properties.                                                             *)

CallerState ==
  [at : {"idle", "attempt", "result", "sleep"}, attempt : 0 .. MaxRetries, spent : Nat,
   remaining : 0 .. ResponseTimeout, wakeAt : Nat]
TaskState ==
  [at : {"none", "lock", "connect", "ready", "asked", "failing", "closing", "raised", "answered"},
   error : Errors \cup {"none"}, open : BOOLEAN]

TypeOK ==
  /\ number \in [Threads -> 0 .. MaxCalls]
  /\ caller \in [Threads -> CallerState]
  /\ task \in [Threads -> TaskState]
  /\ client \in [connected : BOOLEAN, lock : Threads \cup {Nobody}, session : BOOLEAN]
  /\ shutdown \in {"no", "closing", "closed", "forgotten", "stopped", "raised"}
  /\ wire \subseteq Calls
  /\ executed \in [Calls -> Nat]
  /\ outcome \in [Calls -> {"none", "pending", "returned", "deadline", "refused", "unreachable"}]

LongestBackOff == RetryBackoff * (MaxRetries - 1)

\* A call is over in bounded time: its last attempt ends at the deadline at the
\* latest, and one back-off may follow, no longer than what was left of the
\* time when that attempt began, nor than the longest there is.
CallBounded ==
  \A t \in Threads :
    caller[t].spent <= ResponseTimeout + Least(LongestBackOff, caller[t].remaining)

\* The opponent accepts one stream: until the transport is being closed, no
\* thread opens a session while one is open.
OneSession ==
  shutdown = "no" => \A t \in Threads : task[t].at = "connect" => ~client.session

Remote == INSTANCE RemoteCall

\* The transport behaves as RemoteCall: whatever is retried, a tool of the
\* opponent runs at most once for each call, has run when the call returns,
\* and never runs when the call reports that it could not be reached.
ImplementsRemoteCall == Remote!Spec

\* Every call ends, whatever the event loop, the network and the opponent do,
\* also when the transport is closed under it.
CallsEnd == \A t \in Threads : caller[t].at # "idle" ~> caller[t].at = "idle"

\* "the whole attempt (including retries) bounded by response_timeout_sec so a
\* hang can't stall a turn indefinitely" (mcp_client.py:5-6).
WithinResponseTimeout == \A t \in Threads : caller[t].spent <= ResponseTimeout

=============================================================================

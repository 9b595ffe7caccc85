--------------------------- MODULE TensorPipeAgent ---------------------------
(***************************************************************************)
(* The RPC agents of a group of workers                                    *)
(* (torch/csrc/distributed/rpc/rpc_agent.cpp, tensorpipe_agent.cpp and     *)
(* agent_utils.cpp): calls, their timeouts and retries, join() and         *)
(* shutdown().  Each call is one send(); which thread makes it is given by *)
(* the program the workers run.  The pipes are TensorPipe's (external):    *)
(* an operation on a pipe that breaks or closes ends in an error callback. *)
(***************************************************************************)
EXTENDS Integers, FiniteSets

CONSTANTS
  Worker,
  Call,           \* calls of send()
  Rpc, NoRpc,     \* calls of sendWithRetries(), and none
  Scenarios,      \* what the workers run and what may go wrong, see ScenarioOK
  maxRetries,     \* RpcRetryOptions::maxRetries
  MaxSync         \* rounds of syncCallCount the model has keys for

VARIABLES
  scenario,       \* the one of this behaviour
  cpc,            \* where each call is in send()
  pending,        \* pendingResponseMessage_ of all client pipes
  wire,           \* the request and its response, as the client's pipe sees them
  serving,        \* calls whose function the callee is running
  timeoutMap,     \* timeoutMap_ of all workers
  expired,        \* calls pollTimeoutRpcs has taken out and not yet marked
  tpc,            \* where each worker's timeout thread is
  isComplete,     \* AtomicJitFuture::isComplete
  tasks,          \* completions queued in the callers' thread pools
  future,         \* the value of each call's future
  completing,     \* calls whose completion task is running
  clientActiveCalls,
  attached,       \* calls whose future has its rpcRetryCallback
  inserting,      \* <<call, thread>>: rpcRetryCallback is about to insert
  retryMap,       \* rpcRetryMap_ of all workers
  retryCount,
  original,       \* originalFuture_ of each sendWithRetries()
  rpc,            \* where each worker's retry thread is, and the RPC it resends
  running,        \* rpcAgentRunning_
  spc,            \* where each worker is in shutdown()
  closed,         \* client pipes <<from, to>> in error
  jpc,            \* where each worker is in join()
  barrierId,      \* barrierId of agent_utils.cpp
  store,          \* the process and active call counts of each barrier
  gaveUp          \* history: calls whose future failed without an answer

sendVars == <<cpc, pending>>
poolVars == <<isComplete, tasks, gaveUp>>
doneVars == <<future, completing, clientActiveCalls>>
wireVars == <<wire, serving, closed>>
timeVars == <<timeoutMap, expired, tpc>>
retryVars == <<attached, inserting, retryMap, retryCount, original, rpc>>
stopVars == <<running, spc>>
joinVars == <<jpc, barrierId, store>>

vars == <<scenario, sendVars, poolVars, doneVars, wireVars, timeVars, retryVars,
          stopVars, joinVars>>

program == scenario.calls
From(c) == program[c].from
To(c) == program[c].to
Pipe(c) == <<From(c), To(c)>>
CallsFrom(w) == {c \in Call : From(c) = w}

\* A call is made by the main thread of its worker, in the function of a call
\* its worker serves, in a callback of a future of its worker, or by the retry
\* thread, as attempt try of a sendWithRetries().  Some workers may shut down
\* without join(), some client pipes <<from, to>> may break by themselves, and
\* the requests of some may hold tensors that have no device mapping.
ScenarioOK(s) ==
  LET p == s.calls
  IN /\ s.quitters \subseteq Worker
     /\ s.breakable \cup s.deviceErrors \subseteq Worker \X Worker
     /\ \A c \in Call :
          /\ p[c].from \in Worker /\ p[c].to \in Worker \ {p[c].from}
          /\ p[c].kind \in {"main", "function", "callback", "retry"}
          /\ p[c].kind = "function" => p[c].of \in Call /\ p[p[c].of].to = p[c].from
          /\ p[c].kind = "callback" => p[c].of \in Call /\ p[p[c].of].from = p[c].from
          /\ p[c].kind = "retry" <=> p[c].rpc \in Rpc /\ p[c].try > 0
          /\ p[c].try \in 0..maxRetries

ASSUME ScenarioAssumption == \A s \in Scenarios : ScenarioOK(s)

Idle == [pc |-> "idle", x |-> NoRpc]
Exited == [pc |-> "exited", x |-> NoRpc]

Init ==
  /\ scenario \in Scenarios
  /\ cpc = [c \in Call |-> "free"]
  /\ pending = {} /\ serving = {} /\ timeoutMap = {} /\ expired = {}
  /\ wire = [c \in Call |-> "none"]
  /\ tpc = [w \in Worker |-> "waiting"]
  /\ isComplete = {} /\ tasks = {} /\ completing = {} /\ gaveUp = {}
  /\ future = [c \in Call |-> "none"]
  /\ clientActiveCalls = [w \in Worker |-> 0]
  /\ attached = {} /\ inserting = {} /\ retryMap = {}
  /\ retryCount = [x \in Rpc |-> 0]
  /\ original = [x \in Rpc |-> "none"]
  /\ rpc = [w \in Worker |-> Idle]
  /\ running = [w \in Worker |-> TRUE]
  /\ spc = [w \in Worker |-> "up"]
  /\ closed = {}
  /\ jpc = [w \in Worker |-> "run"]
  /\ barrierId = [w \in Worker |-> 0]
  /\ store = [k \in 1..MaxSync |-> [processes |-> 0, calls |-> 0]]

-------------------------------------------------------------------------------
(* Threads and locks.                                                       *)

InSend(c) ==
  cpc[c] \in {"pended", "counted", "sent"} \/ <<c, "caller">> \in inserting

\* The main or the retry thread of worker of, or the thread in the function or
\* in the callbacks of call of, is inside send() or sendWithRetries().
MakingCall(kind, of) ==
  \E c \in Call : /\ InSend(c) /\ program[c].kind = kind
                  /\ of = IF kind \in {"main", "retry"} THEN From(c) ELSE program[c].of

\* The thread that makes the call is there to make it.
CanMake(c) ==
  LET p == program[c]
      w == p.from
  IN CASE p.kind = "main" -> /\ jpc[w] = "run" /\ spc[w] = "up"
                             /\ ~MakingCall("main", w)
       [] p.kind = "function" -> p.of \in serving /\ ~MakingCall("function", p.of)
       [] p.kind = "callback" -> p.of \in completing /\ ~MakingCall("callback", p.of)
       [] p.kind = "retry" -> rpc[w] = [pc |-> "sending", x |-> p.rpc] /\ p.try = retryCount[p.rpc] + 1

\* join() holds callCountMutex_ from its vote until the round is over.
callCountMutexFree(w) == jpc[w] \notin {"sync2", "sync3"}

\* The timeout thread holds timeoutMapMutex_ between its look at
\* rpcAgentRunning_ and its sleep.
timeoutMapMutexFree(w) == tpc[w] # "decided"

\* The retry thread resends with rpcRetryMutex_ held.
rpcRetryMutexFree(w) == rpc[w].pc # "sending"

-------------------------------------------------------------------------------
(* Completing a future.                                                     *)

\* Mutant: isComplete is set, not tested.
markFuturesAlways(S, res) ==
  /\ isComplete' = isComplete \cup S
  /\ tasks' = tasks \cup {[call |-> c, res |-> res] : c \in S}

\* markFutureAsComplete, markFutureWithError: whoever sets isComplete first
\* queues the completion.
markFutures(S, res) ==
  /\ isComplete' = isComplete \cup S
  /\ tasks' = tasks \cup {[call |-> c, res |-> res] : c \in S \ isComplete}

\* RpcAgent::rpcRetryCallback, run by the thread named; o is the state of the
\* original futures.
rpcRetryCallback(c, res, thread, o) ==
  LET x == program[c].rpc
      again == res = "err" /\ running[From(c)] /\ retryCount'[x] < maxRetries
  IN /\ inserting' = IF again THEN inserting \cup {<<c, thread>>} ELSE inserting
     /\ original' = IF again THEN o ELSE [o EXCEPT ![x] = res]

\* The end of its third case: the RPC waits in the map for its next attempt.
InsertRetry(c, thread) ==
  /\ <<c, thread>> \in inserting
  /\ rpcRetryMutexFree(From(c))
  /\ inserting' = inserting \ {<<c, thread>>}
  /\ retryMap' = retryMap \cup {program[c].rpc}
  /\ UNCHANGED <<scenario, sendVars, poolVars, doneVars, wireVars, timeVars, stopVars, joinVars,
                 attached, retryCount, original, rpc>>

\* A pool thread completes the future, which runs its callbacks.
Complete(t) ==
  /\ t \in tasks
  /\ tasks' = tasks \ {t}
  /\ future' = [future EXCEPT ![t.call] = t.res]
  /\ completing' = completing \cup {t.call}
  /\ retryCount' = retryCount
  /\ IF t.call \in attached
       THEN rpcRetryCallback(t.call, t.res, "pool", original)
       ELSE UNCHANGED <<inserting, original>>
  /\ UNCHANGED <<scenario, sendVars, isComplete, gaveUp, clientActiveCalls, wireVars, timeVars,
                 attached, retryMap, rpc, stopVars, joinVars>>

\* Mutant: only a call that succeeded is taken off the count.
EndCompleteIfOk(c) ==
  /\ c \in completing
  /\ ~MakingCall("callback", c)
  /\ <<c, "pool">> \notin inserting
  /\ callCountMutexFree(From(c))
  /\ completing' = completing \ {c}
  /\ clientActiveCalls' = [clientActiveCalls EXCEPT ![From(c)] = IF future[c] = "ok" THEN @ - 1 ELSE @]
  /\ UNCHANGED <<scenario, sendVars, poolVars, future, wireVars, timeVars, retryVars, stopVars, joinVars>>

\* Mutant: the call is taken off the count while a callback may be calling.
EndCompleteEarly(c) ==
  /\ c \in completing
  /\ <<c, "pool">> \notin inserting
  /\ callCountMutexFree(From(c))
  /\ completing' = completing \ {c}
  /\ clientActiveCalls' = [clientActiveCalls EXCEPT ![From(c)] = @ - 1]
  /\ UNCHANGED <<scenario, sendVars, poolVars, future, wireVars, timeVars, retryVars, stopVars, joinVars>>

\* The callbacks are over: decreaseCallCount(clientActiveCalls_).
EndComplete(c) ==
  /\ c \in completing
  /\ ~MakingCall("callback", c)
  /\ <<c, "pool">> \notin inserting
  /\ callCountMutexFree(From(c))
  /\ completing' = completing \ {c}
  /\ clientActiveCalls' = [clientActiveCalls EXCEPT ![From(c)] = @ - 1]
  /\ UNCHANGED <<scenario, sendVars, poolVars, future, wireVars, timeVars, retryVars, stopVars, joinVars>>

-------------------------------------------------------------------------------
(* TensorPipeAgent::send.                                                   *)

\* An agent that is not running refuses; otherwise the future is filed under
\* the pipe.
BeginSend(c) ==
  /\ cpc[c] = "free"
  /\ CanMake(c)
  /\ IF running[From(c)]
       THEN /\ cpc' = [cpc EXCEPT ![c] = "pended"]
            /\ pending' = pending \cup {c}
       ELSE /\ cpc' = [cpc EXCEPT ![c] = "thrown"]
            /\ UNCHANGED pending
  /\ UNCHANGED <<scenario, poolVars, doneVars, wireVars, timeVars, retryVars, stopVars, joinVars>>

\* getDevicesForRemote throws: the future stays filed.
DeviceError(c) ==
  /\ Pipe(c) \in scenario.deviceErrors
  /\ cpc[c] = "pended"
  /\ cpc' = [cpc EXCEPT ![c] = "thrown"]
  /\ UNCHANGED <<scenario, pending, poolVars, doneVars, wireVars, timeVars, retryVars, stopVars, joinVars>>

IncreaseCallCount(c) ==
  /\ cpc[c] = "pended"
  /\ callCountMutexFree(From(c))
  /\ cpc' = [cpc EXCEPT ![c] = "counted"]
  /\ clientActiveCalls' = [clientActiveCalls EXCEPT ![From(c)] = @ + 1]
  /\ UNCHANGED <<scenario, pending, poolVars, future, completing, wireVars, timeVars, retryVars,
                 stopVars, joinVars>>

\* Mutant: the timeout thread is not notified.
wakeNobody(w) == tpc' = tpc

\* timeoutThreadCV_.notify_one().
wake(w) == tpc' = IF tpc[w] \in {"waiting", "dozing"} THEN [tpc EXCEPT ![w] = "check"] ELSE tpc

\* The future goes into the timeout map and the request to the pipe; a call of
\* sendWithRetries() still has its callback to attach.
PipeWrite(c) ==
  /\ cpc[c] = "counted"
  /\ timeoutMapMutexFree(From(c))
  /\ timeoutMap' = timeoutMap \cup {c}
  /\ wake(From(c))
  /\ cpc' = [cpc EXCEPT ![c] = IF program[c].rpc = NoRpc THEN "returned" ELSE "sent"]
  /\ wire' = [wire EXCEPT ![c] = "request"]
  /\ UNCHANGED <<scenario, pending, poolVars, doneVars, serving, closed, expired, retryVars,
                 stopVars, joinVars>>

\* addCallback on the future of an attempt: a future that is complete already
\* runs the callback here.
addCallback(c, o) ==
  /\ cpc' = [cpc EXCEPT ![c] = "returned"]
  /\ attached' = attached \cup {c}
  /\ IF future[c] = "none"
       THEN original' = o /\ UNCHANGED inserting
       ELSE rpcRetryCallback(c, future[c], "caller", o)

\* The end of sendWithRetries.
ReturnOriginal(c) ==
  /\ cpc[c] = "sent"
  /\ program[c].try = 0
  /\ retryCount' = retryCount
  /\ addCallback(c, [original EXCEPT ![program[c].rpc] = "pending"])
  /\ UNCHANGED <<scenario, pending, poolVars, doneVars, wireVars, timeVars, retryMap, rpc,
                 stopVars, joinVars>>

-------------------------------------------------------------------------------
(* The pipes and the callee.                                                *)

\* The callee reads the request and runs its function in its thread pool.
Respond(c) ==
  /\ wire[c] = "request"
  /\ Pipe(c) \notin closed
  /\ callCountMutexFree(To(c))
  /\ wire' = [wire EXCEPT ![c] = "accepted"]
  /\ serving' = serving \cup {c}
  /\ UNCHANGED <<scenario, sendVars, poolVars, doneVars, closed, timeVars, retryVars,
                 stopVars, joinVars>>

\* The function's future completes: sendCompletedResponseMessage, which writes
\* nothing when the agent is shutting down.
FunctionReturns(c, res) ==
  /\ c \in serving
  /\ ~MakingCall("function", c)
  /\ callCountMutexFree(To(c))
  /\ serving' = serving \ {c}
  /\ wire' = IF wire[c] = "accepted" /\ running[To(c)] THEN [wire EXCEPT ![c] = res] ELSE wire
  /\ UNCHANGED <<scenario, sendVars, poolVars, doneVars, closed, timeVars, retryVars,
                 stopVars, joinVars>>

\* The caller's read callback, with the response.
ReadResponse(c) ==
  /\ wire[c] \in {"ok", "err"}
  /\ Pipe(c) \notin closed
  /\ timeoutMapMutexFree(From(c))
  /\ wire' = [wire EXCEPT ![c] = "done"]
  /\ pending' = pending \ {c}
  /\ timeoutMap' = timeoutMap \ {c}
  /\ markFutures({c}, wire[c])
  /\ UNCHANGED <<scenario, cpc, gaveUp, doneVars, serving, closed, expired, tpc, retryVars,
                 stopVars, joinVars>>

InPipe(c) == wire[c] \in {"request", "accepted", "ok", "err"}

\* The write or read callback, with an error: handleClientError fails every
\* future filed under the pipe.
PipeError(c) ==
  LET flushed == {d \in pending : Pipe(d) = Pipe(c)}
  IN /\ InPipe(c)
     /\ Pipe(c) \in closed
     /\ timeoutMapMutexFree(From(c))
     /\ wire' = [wire EXCEPT ![c] = "done"]
     /\ pending' = pending \ flushed
     /\ timeoutMap' = timeoutMap \ flushed
     /\ markFutures(flushed, "err")
     /\ gaveUp' = gaveUp \cup (flushed \ isComplete)
     /\ UNCHANGED <<scenario, cpc, doneVars, serving, closed, expired, tpc, retryVars,
                    stopVars, joinVars>>

Break(p) ==
  /\ p \in scenario.breakable \ closed
  /\ closed' = closed \cup {p}
  /\ UNCHANGED <<scenario, sendVars, poolVars, doneVars, wire, serving, timeVars, retryVars,
                 stopVars, joinVars>>

-------------------------------------------------------------------------------
(* pollTimeoutRpcs, the timeout thread.                                     *)

\* It takes timeoutMapMutex_ and looks at rpcAgentRunning_.
TimeoutCheck(w) ==
  /\ tpc[w] = "check"
  /\ tpc' = [tpc EXCEPT ![w] = IF running[w] THEN "decided" ELSE "exited"]
  /\ UNCHANGED <<scenario, sendVars, poolVars, doneVars, wireVars, timeoutMap, expired, retryVars,
                 stopVars, joinVars>>

\* Nothing has expired: wait() while the map is empty, otherwise wait_until()
\* the earliest expiration time.
TimeoutSleep(w) ==
  /\ tpc[w] = "decided"
  /\ tpc' = [tpc EXCEPT ![w] = IF timeoutMap \cap CallsFrom(w) = {} THEN "waiting" ELSE "dozing"]
  /\ UNCHANGED <<scenario, sendVars, poolVars, doneVars, wireVars, timeoutMap, expired, retryVars,
                 stopVars, joinVars>>

\* Some of the entries, those of the earliest time, have expired.
TimeoutTake(w) ==
  /\ tpc[w] = "decided"
  /\ \E batch \in SUBSET (timeoutMap \cap CallsFrom(w)) :
       /\ batch # {}
       /\ timeoutMap' = timeoutMap \ batch
       /\ expired' = expired \cup batch
  /\ tpc' = [tpc EXCEPT ![w] = "marking"]
  /\ UNCHANGED <<scenario, sendVars, poolVars, doneVars, wireVars, retryVars, stopVars, joinVars>>

\* Their futures are marked one by one, without the mutex.
TimeoutMark(c) ==
  /\ c \in expired
  /\ expired' = expired \ {c}
  /\ markFutures({c}, "err")
  /\ gaveUp' = gaveUp \cup ({c} \ isComplete)
  /\ tpc' = IF expired' \cap CallsFrom(From(c)) = {} THEN [tpc EXCEPT ![From(c)] = "check"] ELSE tpc
  /\ UNCHANGED <<scenario, sendVars, doneVars, wireVars, timeoutMap, retryVars, stopVars, joinVars>>

\* wait_until() ends.
TimeoutWake(w) ==
  /\ tpc[w] = "dozing"
  /\ tpc' = [tpc EXCEPT ![w] = "check"]
  /\ UNCHANGED <<scenario, sendVars, poolVars, doneVars, wireVars, timeoutMap, expired, retryVars,
                 stopVars, joinVars>>

-------------------------------------------------------------------------------
(* retryExpiredRpcs, the retry thread.  It sleeps and looks at              *)
(* rpcAgentRunning_ with rpcRetryMutex_ held, as shutdown() clears it.      *)

Attempt(w) == CHOOSE c \in CallsFrom(w) :
                program[c].rpc = rpc[w].x /\ program[c].try = retryCount[rpc[w].x] + 1

\* Mutant: the thread sleeps on although the map has an entry.
RetryNeverDue(w) ==
  /\ rpc[w] = Idle
  /\ running[w]
  /\ retryMap = {}
  /\ UNCHANGED vars

\* The earliest time in the map has come: send() again.
RetryDue(w) ==
  /\ rpc[w] = Idle
  /\ ~MakingCall("retry", w)
  /\ running[w]
  /\ \E x \in retryMap :
       /\ \E c \in CallsFrom(w) : program[c].rpc = x
       /\ rpc' = [rpc EXCEPT ![w] = [pc |-> "sending", x |-> x]]
  /\ UNCHANGED <<scenario, sendVars, poolVars, doneVars, wireVars, timeVars, attached, inserting,
                 retryMap, retryCount, original, stopVars, joinVars>>

\* Mutant: the RPC stays in the map.
RetrySentKeep(w) ==
  /\ rpc[w].pc = "sending"
  /\ cpc[Attempt(w)] \in {"sent", "thrown"}
  /\ rpc' = [rpc EXCEPT ![w].pc = "attach"]
  /\ UNCHANGED <<scenario, sendVars, poolVars, doneVars, wireVars, timeVars, attached, inserting,
                 retryMap, retryCount, original, stopVars, joinVars>>

\* send() has returned or thrown: the RPC leaves the map, and the mutex is
\* released.
RetrySent(w) ==
  /\ rpc[w].pc = "sending"
  /\ cpc[Attempt(w)] \in {"sent", "thrown"}
  /\ retryMap' = retryMap \ {rpc[w].x}
  /\ rpc' = [rpc EXCEPT ![w].pc = "attach"]
  /\ UNCHANGED <<scenario, sendVars, poolVars, doneVars, wireVars, timeVars, attached, inserting,
                 retryCount, original, stopVars, joinVars>>

RetryAttach(w) ==
  LET c == Attempt(w)
      x == rpc[w].x
  IN /\ rpc[w].pc = "attach"
     /\ rpc' = [rpc EXCEPT ![w] = Idle]
     /\ IF cpc[c] = "sent"
          THEN /\ retryCount' = [retryCount EXCEPT ![x] = @ + 1]
               /\ addCallback(c, original)
          ELSE /\ original' = [original EXCEPT ![x] = "err"]
               /\ UNCHANGED <<retryCount, cpc, attached, inserting>>
     /\ UNCHANGED <<scenario, pending, poolVars, doneVars, wireVars, timeVars, retryMap,
                    stopVars, joinVars>>

RetryExit(w) ==
  /\ rpc[w] = Idle
  /\ ~MakingCall("retry", w)
  /\ ~running[w]
  /\ rpc' = [rpc EXCEPT ![w] = Exited]
  /\ UNCHANGED <<scenario, sendVars, poolVars, doneVars, wireVars, timeVars, attached, inserting,
                 retryMap, retryCount, original, stopVars, joinVars>>

-------------------------------------------------------------------------------
(* RpcAgent::shutdown and TensorPipeAgent::shutdownImpl, by the main thread *)
(* of the worker, after a join() (graceful) or without one.                 *)

Shutdown(w) ==
  /\ spc[w] = "up"
  /\ jpc[w] = "joined" \/ (jpc[w] = "run" /\ w \in scenario.quitters)
  /\ ~MakingCall("main", w)
  /\ rpcRetryMutexFree(w)
  /\ running' = [running EXCEPT ![w] = FALSE]
  /\ spc' = [spc EXCEPT ![w] = "joinRetry"]
  /\ UNCHANGED <<scenario, sendVars, poolVars, doneVars, wireVars, timeVars, retryVars, joinVars>>

\* The retry thread has been joined; timeoutThreadCV_.notify_one().
NotifyTimeoutThread(w) ==
  /\ spc[w] = "joinRetry"
  /\ rpc[w] = Exited
  /\ spc' = [spc EXCEPT ![w] = "joinTimeout"]
  /\ wake(w)
  /\ UNCHANGED <<scenario, sendVars, poolVars, doneVars, wireVars, timeoutMap, expired, retryVars,
                 running, joinVars>>

\* context_->join() closes the pipes of the worker ...
CloseContext(w) ==
  /\ spc[w] = "joinTimeout"
  /\ tpc[w] = "exited"
  /\ spc' = [spc EXCEPT ![w] = "closing"]
  /\ closed' = closed \cup {p \in Worker \X Worker : w \in {p[1], p[2]}}
  /\ UNCHANGED <<scenario, sendVars, poolVars, doneVars, wire, serving, timeVars, retryVars,
                 running, joinVars>>

\* ... and returns once every callback has run; then waitWorkComplete().
WorkComplete(w) ==
  /\ spc[w] = "closing"
  /\ \A c \in CallsFrom(w) : ~InPipe(c) /\ c \notin completing
  /\ \A t \in tasks : From(t.call) # w
  /\ \A c \in serving : To(c) # w
  /\ spc' = [spc EXCEPT ![w] = "down"]
  /\ UNCHANGED <<scenario, sendVars, poolVars, doneVars, wireVars, timeVars, retryVars, running, joinVars>>

-------------------------------------------------------------------------------
(* TensorPipeAgent::join.                                                   *)

\* syncCallCount up to its wait: the worker adds its calls and itself to the
\* keys of its next barrier.
addToStore(w, calls) ==
  /\ barrierId[w] < MaxSync
  /\ barrierId' = [barrierId EXCEPT ![w] = @ + 1]
  /\ store' = [store EXCEPT ![barrierId'[w]].processes = @ + 1,
                            ![barrierId'[w]].calls = @ + calls]

\* Its wait: the last worker has set the ready key.
ready(w) == store[barrierId[w]].processes = Cardinality(Worker)

Join(w) ==
  /\ jpc[w] = "run"
  /\ spc[w] = "up"
  /\ ~MakingCall("main", w)
  /\ jpc' = [jpc EXCEPT ![w] = "wait"]
  /\ UNCHANGED <<scenario, sendVars, poolVars, doneVars, wireVars, timeVars, retryVars, stopVars,
                 barrierId, store>>

\* No active client calls: the worker enters the barrier.
JoinSync(w) ==
  /\ jpc[w] = "wait"
  /\ clientActiveCalls[w] = 0
  /\ addToStore(w, 0)
  /\ jpc' = [jpc EXCEPT ![w] = "sync1"]
  /\ UNCHANGED <<scenario, sendVars, poolVars, doneVars, wireVars, timeVars, retryVars, stopVars>>

\* Out of the barrier, it takes callCountMutex_ and votes its count.
JoinVote(w) ==
  /\ jpc[w] = "sync1"
  /\ ready(w)
  /\ addToStore(w, clientActiveCalls[w])
  /\ jpc' = [jpc EXCEPT ![w] = "sync2"]
  /\ UNCHANGED <<scenario, sendVars, poolVars, doneVars, wireVars, timeVars, retryVars, stopVars>>

\* A total of zero ends the loop, after one more barrier; otherwise another
\* round.
JoinDecide(w) ==
  /\ jpc[w] = "sync2"
  /\ ready(w)
  /\ IF store[barrierId[w]].calls = 0
       THEN /\ addToStore(w, 0)
            /\ jpc' = [jpc EXCEPT ![w] = "sync3"]
       ELSE /\ jpc' = [jpc EXCEPT ![w] = "wait"]
            /\ UNCHANGED <<barrierId, store>>
  /\ UNCHANGED <<scenario, sendVars, poolVars, doneVars, wireVars, timeVars, retryVars, stopVars>>

JoinReturn(w) ==
  /\ jpc[w] = "sync3"
  /\ ready(w)
  /\ jpc' = [jpc EXCEPT ![w] = "joined"]
  /\ UNCHANGED <<scenario, sendVars, poolVars, doneVars, wireVars, timeVars, retryVars, stopVars,
                 barrierId, store>>

-------------------------------------------------------------------------------

\* send() goes on once it has begun, and so do the event loops and the pool.
CallStep(c) ==
  \/ DeviceError(c) \/ IncreaseCallCount(c) \/ PipeWrite(c) \/ ReturnOriginal(c)

CallerStep(c) ==
  \/ \E res \in {"ok", "err"} : Complete([call |-> c, res |-> res])
  \/ EndComplete(c)
  \/ \E thread \in {"pool", "caller"} : InsertRetry(c, thread)
  \/ PipeError(c)
  \/ TimeoutMark(c)

CalleeStep(c) ==
  \/ Respond(c) \/ ReadResponse(c)
  \/ \E res \in {"ok", "err"} : FunctionReturns(c, res)

TimeoutThread(w) == TimeoutCheck(w) \/ TimeoutSleep(w) \/ TimeoutTake(w) \/ TimeoutWake(w)

RetryThread(w) == RetryDue(w) \/ RetrySent(w) \/ RetryAttach(w) \/ RetryExit(w)

ShutdownStep(w) == NotifyTimeoutThread(w) \/ CloseContext(w) \/ WorkComplete(w)

JoinStep(w) == JoinSync(w) \/ JoinVote(w) \/ JoinDecide(w) \/ JoinReturn(w)

Next ==
  \/ \E c \in Call : BeginSend(c) \/ CallStep(c) \/ CallerStep(c) \/ CalleeStep(c)
  \/ \E w \in Worker :
       \/ TimeoutThread(w) \/ RetryThread(w)
       \/ Join(w) \/ JoinStep(w)
       \/ Shutdown(w) \/ ShutdownStep(w)
  \/ \E p \in Worker \X Worker : Break(p)

Spec == Init /\ [][Next]_vars

\* Everything that goes on by itself once begun.  A behaviour has finitely many
\* such steps, so that weak fairness of their disjunction is weak fairness of
\* each.
Work ==
  \/ \E c \in Call : \/ CallStep(c) \/ CallerStep(c)
                     \/ \E res \in {"ok", "err"} : FunctionReturns(c, res)
                     \/ program[c].kind = "retry" /\ BeginSend(c)
  \/ \E w \in Worker : RetryThread(w) \/ JoinStep(w) \/ ShutdownStep(w)

\* Threads are scheduled, functions end and clocks advance.  Nobody has to
\* make a call, to join or to shut down, and no answer has to arrive.
FairSpec ==
  /\ Spec
  /\ WF_vars(Work)
  /\ \A w \in Worker : WF_vars(TimeoutThread(w)) /\ SF_vars(TimeoutTake(w))

-------------------------------------------------------------------------------
(* Properties.                                                              *)

\* No future is completed twice, which Future::markCompleted and setError
\* check: the answer, the timeout and the error of the pipe may all come, and
\* one of them queues the completion.
CompletedOnce ==
  \A c \in Call :
    Cardinality({t \in tasks : t.call = c}) + (IF future[c] = "none" THEN 0 ELSE 1) <= 1

\* An RPC being retried is in one place: with an attempt whose callback has
\* not run, about to be inserted, in the map, or in the hands of the retry
\* thread.  In two places its original future would be completed twice.
Places(x) ==
  {c \in attached : program[c].rpc = x /\ future[c] = "none"}
    \cup {e \in inserting : program[e[1]].rpc = x}
    \cup {w \in Worker : rpc[w] = [pc |-> "attach", x |-> x]}
    \cup ({x} \cap retryMap)

RetriedInOnePlace ==
  \A x \in Rpc : (original[x] = "pending") = (Cardinality(Places(x)) = 1)

\* The function that made the call, or an earlier one, belongs to a call its
\* caller had given up, or the call is a retry.
RECURSIVE Excused(_)
Excused(c) ==
  \/ c \in gaveUp
  \/ program[c].kind = "retry"
  \/ program[c].kind \in {"function", "callback"} /\ Excused(program[c].of)

\* join() returns once all workers have no requests pending, the nested ones
\* and those made in callbacks included.  Excepted are what functions do whose
\* caller had timed out, and retries that were not yet due.
JoinIsABarrier ==
  (\E w \in Worker : jpc[w] = "joined") =>
    \A c \in Call :
      (InSend(c) \/ InPipe(c) \/ c \in serving \/ c \in completing \/ \E t \in tasks : t.call = c)
        => Excused(c)

\* Every call ends, with the answer, a timeout or an error, also when its
\* worker is shut down meanwhile.
EveryCallEnds ==
  \A c \in Call : (cpc[c] = "counted") ~> (future[c] # "none")

\* A future of sendWithRetries() is completed unless the worker is shut down.
RetriesEnd ==
  \A x \in Rpc : (original[x] = "pending") ~>
    (original[x] # "pending" \/ \E c \in Call : program[c].rpc = x /\ ~running[From(c)])

\* When all workers join, join() returns, however many rounds the calls made
\* meanwhile take.
JoinEnds ==
  (\A w \in Worker : jpc[w] # "run") ~> (\A w \in Worker : jpc[w] = "joined")

\* shutdown() returns.
ShutdownReturns ==
  \A w \in Worker : (spc[w] = "joinTimeout") ~> (spc[w] = "down")
===============================================================================

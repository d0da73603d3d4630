--------------------------- MODULE PluginService ---------------------------
(***************************************************************************)
(* One plugin service of the local process pool:                           *)
(* local-pool/service/index.ts (PluginService), service/pod-fleet.ts       *)
(* (PodFleet), service/request-queue.ts and the part of pod/index.ts       *)
(* (PluginPod) the scheduler can observe.                                  *)
(*                                                                         *)
(* The service is single-threaded JavaScript: a handler runs to its next   *)
(* await, then the microtasks it made ready run, then the next event is    *)
(* taken.  `turn` says what is on the call stack:                          *)
(*   "idle"    nothing,                                                    *)
(*   "drain"   the while loop of processQueue, one iteration per step,     *)
(*   "update"  the updateConfig coroutine between two of its awaits.       *)
(* Handlers of new events require Event, so no event is taken inside a     *)
(* loop or before the continuations another event has made ready.          *)
(*                                                                         *)
(* Time is abstracted: a timer that is armed may fire at any later event.  *)
(***************************************************************************)
EXTENDS RequestQueue, Integers, FiniteSets

CONSTANTS
  Pods,               \* the child processes that can exist at once: identities are
                      \* reused when nothing refers to them (bound on the processes)
  NoPod,              \* no pod
  Streaming,          \* the requests invoked with returnStream whose result is a stream
  Configs,            \* the plugin configurations an update may install
  InitialConfig,      \* the configuration at registration
  MaxRequests,        \* config.maxRequestsPerPod
  MaxStartupFailures  \* MAX_CONSECUTIVE_POD_STARTUP_FAILURES

Config == [minPods : Nat, maxPods : Nat \ {0}, concurrency : Nat \ {0}, podTimeout : Nat]

ASSUME PodsAssumption == IsFiniteSet(Pods) /\ NoPod \notin Pods

ASSUME RequestsAssumption == IsFiniteSet(Requests) /\ Streaming \subseteq Requests

(* LocalPoolPluginConfigSchema: minPods <= maxPods, maxPods and concurrency positive. *)
ASSUME ConfigAssumption ==
  /\ Configs \subseteq Config
  /\ InitialConfig \in Config
  /\ \A c \in Configs \cup {InitialConfig} : c.minPods <= c.maxPods
  /\ MaxRequests \in Nat \ {0}
  /\ MaxStartupFailures \in Nat \ {0}

VARIABLES
  (* PodFleet *)
  fleet,        \* this.pods
  pending,      \* pods whose start() is awaited (their number is pendingPods)
  retiring,     \* this.retiringPods
  failures,     \* consecutivePodStartupFailures
  disabled,     \* podStartupDisabledError is set
  coolingDown,  \* Date.now() < podStartupRetryAfter
  ensures,      \* calls of ensureMinPods awaiting Promise.allSettled(creates)
  (* PluginPod *)
  status,       \* status[p]
  active,       \* activeRequests
  executed,     \* requestsExecuted
  limit,        \* options.maxConcurrentRequests of the pod
  alive,        \* the child process exists
  connected,    \* the IPC channel of the pod is open
  (* PluginService *)
  config, initialized, destroyed,
  forwarding,   \* drainingTo is set
  closing,      \* fleet.destroy(): "open", "waiting" in its poll loop, "closed"
  retryTimer,   \* startupRetryTimer is armed
  queue,        \* this.queue
  sessions,     \* the requests with an entry in activeInvokeSessions
  update,       \* the updateConfig coroutine
  turn,
  (* ServiceRequest *)
  req,          \* what became of the invocation
  on            \* the pod it waits for or runs on

podVars   == <<status, active, executed, limit, alive, connected>>
fleetVars == <<fleet, pending, retiring>>
startVars == <<failures, disabled, coolingDown, retryTimer>>
reqVars   == <<queue, req, on, sessions>>
lifeVars  == <<initialized, destroyed, forwarding, closing>>
confVars  == <<config, update>>
vars == <<podVars, fleetVars, startVars, reqVars, lifeVars, confVars, ensures, turn>>

Status == {"pending", "idle", "running", "failed", "terminating"}

(* "starting": invoke awaits createPodForImmediateInvoke; "streaming": the *)
(* promise is resolved with a stream that has neither ended nor failed;    *)
(* "moved": the replacement of a draining service is responsible.          *)
ReqState == {"new", "starting", "queued", "running", "streaming", "done", "failed", "moved"}

Then == {"init", "queue", "update"}

NoUpdate == [step |-> "none", rolls |-> FALSE, todo |-> {}, cur |-> NoPod, repl |-> NoPod]

UpdateRecord ==
  [step : {"none", "ensuring", "rolling"}, rolls : BOOLEAN, todo : SUBSET Pods,
   cur : Pods \cup {NoPod}, repl : Pods \cup {NoPod}]

-----------------------------------------------------------------------------
(* Derived state                                                           *)

InFlight(p) == {r \in Requests : req[r] \in {"running", "streaming"} /\ on[r] = p}

Total == Cardinality(fleet) + Cardinality(pending)

CanScaleUp == ~disabled /\ ~coolingDown /\ Total < config.maxPods

(* getStartupBlockedError() # null                                         *)
StartupBlocked == disabled /\ fleet = {} /\ pending = {}

IsIdle(p) == status[p] = "idle" /\ active[p] = 0

IsAvailableOffByOne(p) == \* mutant
  /\ status[p] \in {"idle", "running"}
  /\ active[p] <= limit[p]
  /\ executed[p] < MaxRequests

IsAvailable(p) ==
  /\ status[p] \in {"idle", "running"}
  /\ active[p] < limit[p]
  /\ executed[p] < MaxRequests

Selectable == {p \in fleet \ retiring : IsAvailable(p)}

(* selectAvailablePod: comparePodLoad; its last criteria (times, podId)    *)
(* are abstracted to a free choice.                                        *)
NoMoreLoaded(p, q) ==
  active[p] < active[q] \/ (active[p] = active[q] /\ executed[p] <= executed[q])

LeastLoaded == {p \in Selectable : \A q \in Selectable : NoMoreLoaded(p, q)}

(* Identities a new PluginPod object may take.                             *)
Fresh ==
  {p \in Pods : /\ p \notin fleet \cup pending \cup alive \cup update.todo
                /\ p # update.cur
                /\ \A r \in Requests : on[r] # p}

(* No handler is on the stack and no continuation is ready to run.         *)
Quiet ==
  /\ turn = "idle"
  /\ pending \subseteq alive
  /\ \A e \in ensures : e.creates # {}
  /\ \A r \in Requests : req[r] = "running" => on[r] \in connected

(* Bound on the processes: an event waits for the exit of killed processes *)
(* while the identities would not suffice for every pod it may create.     *)
IdentitiesLeft(cfg) ==
  Cardinality(Fresh) + Total > cfg.maxPods \/ alive \subseteq fleet \cup pending

Event == Quiet /\ IdentitiesLeft(config)

(* processQueue() is called: it returns at once in a destroyed service or  *)
(* when the queue is empty.                                                *)
ProcessQueue == turn' = IF destroyed' \/ queue' = <<>> THEN "idle" ELSE "drain"

-----------------------------------------------------------------------------
(* Starting pods                                                           *)

(* createPod() up to its await, for each pod of S: al, st and lim are the  *)
(* processes, statuses and limits the rest of the handler leaves.          *)
Launch(S, al, st, lim, cfg) ==
  /\ pending' = pending \cup S
  /\ alive' = al \cup S
  /\ connected' = (connected \cap al) \cup S
  /\ status' = [p \in Pods |-> IF p \in S THEN "pending" ELSE st[p]]
  /\ limit' = [p \in Pods |-> IF p \in S THEN cfg.concurrency ELSE lim[p]]

(* The number of pods the loop of ensureMinPods creates when `fl` is the   *)
(* fleet: up to min(minPods, maxPods), unless creation is blocked.         *)
MinDeficitUncounted(fl, cfg) == \* mutant: pods that are starting do not count
  IF disabled \/ coolingDown \/ Cardinality(fl) >= cfg.minPods
  THEN 0 ELSE cfg.minPods - Cardinality(fl)

MinDeficit(fl, cfg) ==
  LET target == IF cfg.minPods < cfg.maxPods THEN cfg.minPods ELSE cfg.maxPods
      total  == Cardinality(fl) + Cardinality(pending)
  IN  IF disabled \/ coolingDown \/ total >= target THEN 0 ELSE target - total

EnsureSets(fl, cfg) == {S \in SUBSET Fresh : Cardinality(S) = MinDeficit(fl, cfg)}

(* Promise.allSettled of the creations in S, `next` naming what follows.   *)
AwaitAll(S, next) == ensures' = ensures \cup {[creates |-> S, then |-> next]}

Init ==
  /\ fleet = {} /\ pending = {} /\ retiring = {}
  /\ failures = 0 /\ disabled = FALSE /\ coolingDown = FALSE /\ retryTimer = FALSE
  /\ ensures = {}
  /\ status = [p \in Pods |-> "pending"]
  /\ active = [p \in Pods |-> 0] /\ executed = [p \in Pods |-> 0]
  /\ limit = [p \in Pods |-> InitialConfig.concurrency]
  /\ alive = {} /\ connected = {}
  /\ config = InitialConfig /\ update = NoUpdate
  /\ initialized = FALSE /\ destroyed = FALSE /\ forwarding = FALSE /\ closing = "open"
  /\ queue = <<>> /\ sessions = {} /\ turn = "idle"
  /\ req = [r \in Requests |-> "new"] /\ on = [r \in Requests |-> NoPod]

(* initialize(): preheats minPods; initialized is set after the await.     *)
Initialize ==
  /\ Event /\ ~initialized /\ ensures = {}
  /\ \E S \in EnsureSets(fleet, config) :
       Launch(S, alive, status, limit, config) /\ AwaitAll(S, "init")
  /\ UNCHANGED <<fleet, retiring, active, executed, startVars, reqVars, confVars, lifeVars, turn>>

-----------------------------------------------------------------------------
(* invoke                                                                  *)

(* executeRequest + the synchronous part of PluginPod.invoke               *)
Execute(r, p) ==
  /\ req' = [req EXCEPT ![r] = "running"]
  /\ on' = [on EXCEPT ![r] = p]
  /\ status' = [status EXCEPT ![p] = "running"]
  /\ active' = [active EXCEPT ![p] = @ + 1]

SettleKeepingSession(r, outcome) == \* mutant
  /\ req' = [req EXCEPT ![r] = outcome]
  /\ on' = [on EXCEPT ![r] = NoPod]
  /\ UNCHANGED sessions

Settle(r, outcome) ==
  /\ req' = [req EXCEPT ![r] = outcome]
  /\ on' = [on EXCEPT ![r] = NoPod]
  /\ sessions' = sessions \ {r}

(* drainingTo.invoke(...): the replacement takes the invocation.           *)
InvokeForwarded(r) ==
  /\ Event /\ req[r] = "new" /\ forwarding
  /\ req' = [req EXCEPT ![r] = "moved"]
  /\ UNCHANGED <<queue, on, sessions, podVars, fleetVars, startVars, lifeVars, confVars,
                 ensures, turn>>

(* assertReady() throws.                                                   *)
InvokeRefused(r) ==
  /\ Event /\ req[r] = "new" /\ ~forwarding
  /\ ~initialized \/ destroyed
  /\ req' = [req EXCEPT ![r] = "failed"]
  /\ UNCHANGED <<queue, on, sessions, podVars, fleetVars, startVars, lifeVars, confVars,
                 ensures, turn>>

InvokeReady(r) ==
  Event /\ req[r] = "new" /\ ~forwarding /\ initialized /\ ~destroyed

(* Fast path: an available pod takes the request at once.                  *)
InvokeOnPod(r) ==
  /\ InvokeReady(r)
  /\ \E p \in LeastLoaded : Execute(r, p)
  /\ sessions' = sessions \cup {r}
  /\ UNCHANGED <<queue, executed, limit, alive, connected, fleetVars, startVars, lifeVars,
                 confVars, ensures, turn>>

(* Cold start: await createPodForImmediateInvoke().                        *)
InvokeColdStart(r) ==
  /\ InvokeReady(r) /\ Selectable = {} /\ CanScaleUp
  /\ \E p \in Fresh :
       /\ Launch({p}, alive, status, limit, config)
       /\ req' = [req EXCEPT ![r] = "starting"]
       /\ on' = [on EXCEPT ![r] = p]
  /\ sessions' = sessions \cup {r}
  /\ UNCHANGED <<queue, active, executed, fleet, retiring, startVars, lifeVars, confVars,
                 ensures, turn>>

(* No pod, no capacity: the startup breaker rejects, else queueAndWait.    *)
InvokeBlocked(r) ==
  /\ InvokeReady(r) /\ Selectable = {} /\ ~CanScaleUp
  /\ StartupBlocked \/ ~HasRoom(queue)
  /\ Settle(r, "failed")
  /\ UNCHANGED <<queue, podVars, fleetVars, startVars, lifeVars, confVars, ensures, turn>>

InvokeQueued(r) ==
  /\ InvokeReady(r) /\ Selectable = {} /\ ~CanScaleUp
  /\ ~StartupBlocked /\ HasRoom(queue)
  /\ queue' = InsertByPriority(queue, r)
  /\ req' = [req EXCEPT ![r] = "queued"]
  /\ sessions' = sessions \cup {r}
  /\ UNCHANGED <<on, podVars, fleetVars, startVars, lifeVars, confVars, ensures>>
  /\ ProcessQueue

(* The timer armTimeout() set for a waiting request.                       *)
QueueTimeoutWhileOpen(r) == \* mutant: closing the service disarms the timers
  /\ Event /\ req[r] = "queued" /\ r \in Queued(queue) /\ ~destroyed
  /\ queue' = Without(queue, r)
  /\ Settle(r, "failed")
  /\ UNCHANGED <<podVars, fleetVars, startVars, lifeVars, confVars, ensures, turn>>

QueueTimeout(r) ==
  /\ Event /\ req[r] = "queued" /\ r \in Queued(queue)
  /\ queue' = Without(queue, r)
  /\ Settle(r, "failed")
  /\ UNCHANGED <<podVars, fleetVars, startVars, lifeVars, confVars, ensures, turn>>

-----------------------------------------------------------------------------
(* processQueue, one iteration of its loop per step                        *)

LoopAgain == turn' = IF queue' = <<>> THEN "idle" ELSE "drain"

DrainDispatches ==
  /\ turn = "drain"
  /\ \E p \in LeastLoaded : Execute(Head(queue), p)
  /\ queue' = Tail(queue)
  /\ UNCHANGED <<sessions, executed, limit, alive, connected, fleetVars, startVars, lifeVars,
                 confVars, ensures>>
  /\ LoopAgain

(* rejectQueuedRequestsIfPodStartupDisabled(), on the fleet and the breaker *)
(* as the handler leaves them.                                             *)
RejectIfBlocked ==
  IF StartupBlocked'
  THEN /\ queue' = <<>>
       /\ req' = [r \in Requests |-> IF r \in Queued(queue) THEN "failed" ELSE req[r]]
       /\ sessions' = sessions \ Queued(queue)
  ELSE UNCHANGED <<queue, req, sessions>>

(* No pod for the head of the queue and none can be started.               *)
DrainStops ==
  /\ turn = "drain" /\ Selectable = {} /\ ~CanScaleUp
  /\ UNCHANGED <<startVars, on, podVars, fleetVars, lifeVars, confVars, ensures>>
  /\ RejectIfBlocked
  /\ turn' = "idle"

(* scaleUpForQueuedWork()                                                  *)
DrainScalesUp ==
  /\ turn = "drain" /\ Selectable = {} /\ CanScaleUp
  /\ \E p \in Fresh : Launch({p}, alive, status, limit, config)
  /\ turn' = "idle"
  /\ UNCHANGED <<active, executed, fleet, retiring, startVars, reqVars, lifeVars, confVars,
                 ensures>>

-----------------------------------------------------------------------------
(* createPod() after its await.  Exactly one caller awaits each pod: an    *)
(* invoke, a call of ensureMinPods, rollPods, or scaleUpForQueuedWork.     *)

AwaitedByInvoke(p) == {r \in Requests : req[r] = "starting" /\ on[r] = p}
AwaitedByEnsure(p) == {e \in ensures : p \in e.creates}
AwaitedByQueue(p) ==
  AwaitedByInvoke(p) = {} /\ AwaitedByEnsure(p) = {} /\ update.repl # p

(* pod.start() resolved: recordPodStartupSuccess, pods.set.                *)
Joins(p) ==
  /\ Event /\ p \in pending \cap connected /\ status[p] = "pending"
  /\ pending' = pending \ {p}
  /\ fleet' = fleet \cup {p}
  /\ failures' = 0 /\ disabled' = FALSE /\ coolingDown' = FALSE
  /\ UNCHANGED <<retiring, retryTimer, executed, limit, alive, connected, config>>

JoinsIdle(p) ==
  /\ Joins(p)
  /\ status' = [status EXCEPT ![p] = "idle"]
  /\ UNCHANGED <<active, queue, req, on, sessions>>

(* The awaiting invoke runs its request on the new pod, not the queue's.   *)
PodReadyForInvoke(p) ==
  /\ Joins(p)
  /\ \E r \in AwaitedByInvoke(p) : Execute(r, p)
  /\ UNCHANGED <<queue, sessions, lifeVars, update, ensures, turn>>

PodReadyForQueue(p) ==
  /\ JoinsIdle(p)
  /\ AwaitedByQueue(p)
  /\ UNCHANGED <<lifeVars, update, ensures>>
  /\ ProcessQueue

(* One creation of an ensureMinPods call has settled.                      *)
CreationSettles(p) ==
  \E e \in AwaitedByEnsure(p) :
    ensures' = (ensures \ {e}) \cup {[e EXCEPT !.creates = @ \ {p}]}

PodReadyForEnsure(p) ==
  /\ JoinsIdle(p)
  /\ CreationSettles(p)
  /\ UNCHANGED <<lifeVars, update, turn>>

PodReadyForRoll(p) ==
  /\ JoinsIdle(p)
  /\ update.repl = p
  /\ update' = [update EXCEPT !.repl = NoPod]
  /\ turn' = "update"
  /\ UNCHANGED <<lifeVars, ensures>>

(* recordPodStartupFailure: a process that exited or could not be forked.  *)
RecordFailure ==
  /\ failures' = failures + 1
  /\ disabled' = (disabled \/ failures + 1 >= MaxStartupFailures)
  /\ coolingDown' = FALSE
  /\ UNCHANGED retryTimer

(* recordPodStartupTimeout: back off and arm the retry timer.              *)
RecordTimeoutSilently == \* mutant: no retry is scheduled
  /\ failures' = 0
  /\ coolingDown' = TRUE
  /\ UNCHANGED <<disabled, retryTimer>>

RecordTimeout ==
  /\ failures' = 0
  /\ coolingDown' = TRUE
  /\ retryTimer' = (retryTimer \/ ~destroyed)
  /\ UNCHANGED disabled

(* start() rejects because the process is gone (after handlePodExit) ...   *)
StartRejected(p) ==
  /\ turn = "idle" /\ p \in pending \ alive
  /\ RecordFailure
  /\ UNCHANGED status

(* ... or because the ready timer fired; the process is killed.            *)
StartTimedOut(p) ==
  /\ Event /\ p \in pending
  /\ RecordTimeout
  /\ status' = [status EXCEPT ![p] = "terminating"]

StartFailed(p) ==
  /\ StartRejected(p) \/ StartTimedOut(p)
  /\ pending' = pending \ {p}
  /\ UNCHANGED <<fleet, retiring, active, executed, limit, alive, connected, config>>

(* The awaiting invoke fails, or queues its request whatever has become of *)
(* the service in the meantime.                                            *)
StartFailedForInvoke(p) ==
  /\ StartFailed(p)
  /\ \E r \in AwaitedByInvoke(p) :
       LET blocked == disabled' /\ fleet = {} /\ pending' = {}
           queues  == ~blocked /\ HasRoom(queue)
           lost    == IF blocked THEN Queued(queue) \cup {r} ELSE IF queues THEN {} ELSE {r}
       IN  /\ queue' = IF blocked THEN <<>>
                       ELSE IF queues THEN InsertByPriority(queue, r) ELSE queue
           /\ req' = [s \in Requests |-> IF s \in lost THEN "failed"
                                         ELSE IF s = r THEN "queued" ELSE req[s]]
           /\ on' = [on EXCEPT ![r] = NoPod]
           /\ sessions' = sessions \ lost
           /\ turn' = IF queues /\ ~destroyed THEN "drain" ELSE "idle"
  /\ UNCHANGED <<lifeVars, update, ensures>>

StartFailedForQueue(p) ==
  /\ StartFailed(p)
  /\ AwaitedByQueue(p)
  /\ RejectIfBlocked
  /\ UNCHANGED <<on, lifeVars, update, ensures>>
  /\ ProcessQueue

StartFailedForEnsure(p) ==
  /\ StartFailed(p)
  /\ CreationSettles(p)
  /\ UNCHANGED <<reqVars, lifeVars, update, turn>>

(* rollPods: onPodStartupBlocked(); continue.                              *)
StartFailedForRollUncaught(p) == \* mutant: the loop does not go on
  /\ StartFailed(p)
  /\ update.repl = p
  /\ RejectIfBlocked
  /\ update' = [update EXCEPT !.repl = NoPod, !.cur = NoPod]
  /\ turn' = "idle"
  /\ UNCHANGED <<on, lifeVars, ensures>>

StartFailedForRoll(p) ==
  /\ StartFailed(p)
  /\ update.repl = p
  /\ RejectIfBlocked
  /\ update' = [update EXCEPT !.repl = NoPod, !.cur = NoPod]
  /\ turn' = "update"
  /\ UNCHANGED <<on, lifeVars, ensures>>

(* The last creation of an ensureMinPods call has settled: the rest of the *)
(* call, then its caller.  initialize() is done, updateConfig goes on, or  *)
(* processQueue() runs.                                                    *)
EnsureSettles ==
  /\ turn = "idle"
  /\ \E e \in ensures :
       /\ e.creates = {}
       /\ ensures' = ensures \ {e}
       /\ UNCHANGED <<startVars, on, podVars, fleetVars, confVars, destroyed, forwarding, closing>>
       /\ initialized' = (initialized \/ e.then = "init")
       /\ RejectIfBlocked
       /\ CASE e.then = "init"   -> UNCHANGED turn
            [] e.then = "update" -> turn' = "update"
            [] e.then = "queue"  -> ProcessQueue

(* prepareRuntime() or fork() throws: there is no process and no exit event. *)
StartThrows(p) ==
  /\ Event /\ p \in pending /\ status[p] = "pending"
  /\ alive' = alive \ {p}
  /\ connected' = connected \ {p}
  /\ UNCHANGED <<status, active, executed, limit, fleetVars, startVars, reqVars, lifeVars,
                 confVars, ensures, turn>>

(* podStartupRetryAfter passes.                                            *)
BackoffElapses ==
  /\ Event /\ coolingDown
  /\ coolingDown' = FALSE
  /\ UNCHANGED <<failures, disabled, retryTimer, podVars, fleetVars, reqVars, lifeVars,
                 confVars, ensures, turn>>

(* The timer of scheduleStartupRetry, armed for the end of the backoff.    *)
RetryTimerFires ==
  /\ Event /\ retryTimer /\ ~coolingDown
  /\ retryTimer' = FALSE
  /\ \E S \in EnsureSets(fleet, config) :
       Launch(S, alive, status, limit, config) /\ AwaitAll(S, "queue")
  /\ UNCHANGED <<failures, disabled, coolingDown, fleet, retiring, active, executed, reqVars,
                 lifeVars, confVars, turn>>

-----------------------------------------------------------------------------
(* Completion of requests                                                  *)

(* completeRequest(): the status a pod is left with.                       *)
CompletedStatus(p) ==
  IF p \in alive /\ status[p] = "running"
  THEN IF active[p] > 1 THEN "running" ELSE "idle"
  ELSE status[p]

CompletesOn(p) == active' = [active EXCEPT ![p] = IF @ > 0 THEN @ - 1 ELSE 0]

(* A request that throws kills its pod.                                    *)
KilledStatus(p) == IF p \in alive THEN "terminating" ELSE "failed"

(* fleet.shouldRecycle, with st and ex the pod's status and count.         *)
ShouldRecycle(p, st, ex) ==
  p \in retiring \/ st \in {"failed", "terminating"} \/ ex >= MaxRequests

(* releasePod: recyclePod, ensureMinPods, then processQueue ...            *)
PodRecycled(p, st, ex) ==
  /\ ~destroyed /\ p \in fleet /\ ShouldRecycle(p, st, ex)
  /\ fleet' = fleet \ {p}
  /\ retiring' = retiring \ {p}
  /\ \E S \in EnsureSets(fleet \ {p}, config) :
       /\ Launch(S, alive, [status EXCEPT ![p] = "terminating"], limit, config)
       /\ AwaitAll(S, "queue")
  /\ UNCHANGED turn

(* ... or, for a pod that stays or is already gone, processQueue alone.    *)
PodReturned(p, st, ex) ==
  /\ destroyed \/ p \notin fleet \/ ~ShouldRecycle(p, st, ex)
  /\ status' = [status EXCEPT ![p] = st]
  /\ turn' = IF destroyed \/ queue = <<>> THEN "idle" ELSE "drain"
  /\ UNCHANGED <<fleetVars, limit, alive, connected, ensures>>

Release(p, st, ex) == PodRecycled(p, st, ex) \/ PodReturned(p, st, ex)

RequestSucceeds(r) ==
  /\ Event /\ req[r] = "running" /\ r \notin Streaming
  /\ LET p == on[r] IN
       /\ executed' = [executed EXCEPT ![p] = @ + 1]
       /\ CompletesOn(p)
       /\ Release(p, CompletedStatus(p), executed[p] + 1)
  /\ Settle(r, "done")
  /\ UNCHANGED <<queue, startVars, lifeVars, confVars>>

(* An error response, the request timeout, or the rejection of a request   *)
(* whose channel was closed.                                               *)
RequestFails(r) ==
  /\ turn = "idle" /\ req[r] = "running"
  /\ Event \/ on[r] \notin connected
  /\ LET p == on[r] IN
       /\ CompletesOn(p)
       /\ Release(p, KilledStatus(p), executed[p])
  /\ Settle(r, "failed")
  /\ UNCHANGED <<queue, executed, startVars, lifeVars, confVars>>

(* The promise resolves with the stream; the pod stays busy.               *)
StreamOpensReleasing(r) == \* mutant: the finally block completes a stream too
  /\ Event /\ req[r] = "running" /\ r \in Streaming
  /\ executed' = [executed EXCEPT ![on[r]] = @ + 1]
  /\ CompletesOn(on[r])
  /\ status' = [status EXCEPT ![on[r]] = CompletedStatus(on[r])]
  /\ req' = [req EXCEPT ![r] = "streaming"]
  /\ UNCHANGED <<queue, on, sessions, limit, alive, connected, fleetVars,
                 startVars, lifeVars, confVars, ensures, turn>>

StreamOpens(r) ==
  /\ Event /\ req[r] = "running" /\ r \in Streaming
  /\ executed' = [executed EXCEPT ![on[r]] = @ + 1]
  /\ req' = [req EXCEPT ![r] = "streaming"]
  /\ UNCHANGED <<queue, on, sessions, status, active, limit, alive, connected, fleetVars,
                 startVars, lifeVars, confVars, ensures, turn>>

(* bindStreamLifecycle: the stream has ended or failed, which may be later *)
(* than its channel closed if all its data had arrived.                    *)
StreamCloses(r) ==
  /\ Event /\ req[r] = "streaming"
  /\ LET p == on[r] IN
       /\ CompletesOn(p)
       /\ Release(p, CompletedStatus(p), executed[p])
  /\ \E outcome \in {"done", "failed"} : Settle(r, outcome)
  /\ UNCHANGED <<queue, executed, startVars, lifeVars, confVars>>

(* The timer of bindStreamLifecycle: kill the pod, fail the stream.        *)
StreamTimesOut(r) ==
  /\ Event /\ req[r] = "streaming"
  /\ LET p == on[r] IN
       /\ CompletesOn(p)
       /\ Release(p, KilledStatus(p), executed[p])
  /\ Settle(r, "failed")
  /\ UNCHANGED <<queue, executed, startVars, lifeVars, confVars>>

-----------------------------------------------------------------------------
(* Events of the child processes and timers                                *)

(* handleExit and handlePodExit.  The counter of a dead pod is never read  *)
(* again: it is reset for the next pod of that identity.                   *)
PodExit(p) ==
  /\ Quiet /\ p \in alive
  /\ p \in fleet \cup pending => IdentitiesLeft(config)
  /\ fleet' = fleet \ {p}
  /\ retiring' = retiring \ {p}
  /\ executed' = [executed EXCEPT ![p] = 0]
  /\ \E S \in IF destroyed THEN {{}} ELSE EnsureSets(fleet \ {p}, config) :
       /\ Launch(S, alive \ {p}, [status EXCEPT ![p] = "failed"], limit, config)
       /\ IF destroyed THEN UNCHANGED ensures ELSE AwaitAll(S, "queue")
  /\ UNCHANGED <<active, startVars, reqVars, lifeVars, confVars>>
  /\ ProcessQueue

(* handleError: a channel error or a fail notification closes the channel. *)
ChannelError(p) ==
  /\ Event /\ p \in connected
  /\ connected' = connected \ {p}
  /\ status' = [status EXCEPT ![p] = "terminating"]
  /\ UNCHANGED <<active, executed, limit, alive, fleetVars, startVars, reqVars, lifeVars,
                 confVars, ensures, turn>>

IdlePods(fl) == {p \in fl : IsIdle(p)}

(* trimIdlePods with T the pods idle for longer than idleTimeout that it   *)
(* may destroy: it stops at minPods.                                       *)
Trimmable(fl) ==
  {T \in SUBSET IdlePods(fl) :
     T = {} \/ Cardinality(fl) - Cardinality(T) >= config.minPods}

Terminated(T) == [p \in Pods |-> IF p \in T THEN "terminating" ELSE status[p]]

IdleCheck ==
  /\ Event /\ initialized /\ ~destroyed
  /\ \E T \in Trimmable(fleet) \ {{}} :
       /\ fleet' = fleet \ T
       /\ retiring' = retiring \ T
       /\ status' = Terminated(T)
  /\ UNCHANGED <<pending, active, executed, limit, alive, connected, startVars, reqVars,
                 lifeVars, confVars, ensures, turn>>

-----------------------------------------------------------------------------
(* updateConfig.  The manager's per-plugin mutex runs one at a time; it    *)
(* may still hold the service while an unregistration is closing it.       *)

HotLimits(c) ==
  IF c.concurrency = config.concurrency THEN limit
  ELSE [p \in Pods |-> IF p \in fleet THEN c.concurrency ELSE limit[p]]

UpdateConfig(c) ==
  /\ Event /\ IdentitiesLeft(c)
  /\ initialized /\ closing # "closed" /\ update.step = "none"
  /\ config' = c
  /\ update' = [NoUpdate EXCEPT !.step = "ensuring",
                                !.rolls = (c.podTimeout # config.podTimeout)]
  /\ \E S \in EnsureSets(fleet, c) :
       Launch(S, alive, status, HotLimits(c), c) /\ AwaitAll(S, "update")
  /\ UNCHANGED <<fleet, retiring, active, executed, startVars, reqVars, lifeVars, turn>>

(* rollPods: the pods of the fleet at this moment, one after the other.    *)
RollBegins ==
  /\ turn = "update" /\ update.step = "ensuring" /\ update.rolls
  /\ update' = [update EXCEPT !.step = "rolling", !.todo = fleet]
  /\ UNCHANGED <<config, podVars, fleetVars, startVars, reqVars, lifeVars, ensures, turn>>

RollSkips(p) ==
  /\ turn = "update" /\ update.step = "rolling" /\ update.cur = NoPod
  /\ p \in update.todo /\ (p \notin fleet \/ destroyed)
  /\ update' = [update EXCEPT !.todo = @ \ {p}]
  /\ UNCHANGED <<config, podVars, fleetVars, startVars, reqVars, lifeVars, ensures, turn>>

RollTurn(p) ==
  /\ turn = "update" /\ update.step = "rolling" /\ update.cur = NoPod
  /\ p \in update.todo \cap fleet /\ ~destroyed
  /\ retiring' = retiring \cup {p}

(* Replacement first: await createPod() ...                                *)
RollCreates(p) ==
  /\ RollTurn(p) /\ CanScaleUp
  /\ \E q \in Fresh :
       /\ Launch({q}, alive, status, limit, config)
       /\ update' = [update EXCEPT !.todo = @ \ {p}, !.cur = p, !.repl = q]
  /\ turn' = "idle"
  /\ UNCHANGED <<fleet, active, executed, config, startVars, reqVars, lifeVars, ensures>>

(* ... unless there is no capacity for one.                                *)
RollWithout(p) ==
  /\ RollTurn(p) /\ ~CanScaleUp
  /\ update' = [update EXCEPT !.todo = @ \ {p}, !.cur = p]
  /\ UNCHANGED <<fleet, pending, podVars, config, startVars, reqVars, lifeVars, ensures, turn>>

(* Then the old pod goes if it is idle; if not, minPods is topped up.      *)
RollDestroys ==
  /\ turn = "update" /\ update.cur \in Pods /\ IsIdle(update.cur)
  /\ fleet' = fleet \ {update.cur}
  /\ retiring' = retiring \ {update.cur}
  /\ status' = [status EXCEPT ![update.cur] = "terminating"]
  /\ update' = [update EXCEPT !.cur = NoPod]
  /\ UNCHANGED <<pending, active, executed, limit, alive, connected, config, startVars,
                 reqVars, lifeVars, ensures, turn>>

RollKeeps ==
  /\ turn = "update" /\ update.cur \in Pods /\ ~IsIdle(update.cur)
  /\ update' = [update EXCEPT !.cur = NoPod]
  /\ \/ /\ Total >= config.minPods
        /\ UNCHANGED <<pending, status, limit, alive, connected, ensures, turn>>
     \/ /\ Total < config.minPods
        /\ \E S \in EnsureSets(fleet, config) :
             Launch(S, alive, status, limit, config) /\ AwaitAll(S, "update")
        /\ turn' = "idle"
  /\ UNCHANGED <<fleet, retiring, active, executed, config, startVars, reqVars, lifeVars>>

(* comparePodRetirementPriority, its time criterion left free.             *)
RetiresBefore(c, d) ==
  /\ IsIdle(d) => IsIdle(c)
  /\ (IsIdle(c) <=> IsIdle(d)) => executed[c] >= executed[d]

Overflow == IF Cardinality(fleet) > config.maxPods
            THEN Cardinality(fleet) - config.maxPods ELSE 0

OverflowSets ==
  {C \in SUBSET fleet : /\ Cardinality(C) = Overflow
                        /\ \A c \in C, d \in fleet \ C : RetiresBefore(c, d)}

(* enforceMaxPods, trimIdlePods, processQueue.                             *)
UpdateFinishes ==
  /\ turn = "update"
  /\ \/ update.step = "ensuring" /\ ~update.rolls
     \/ update.step = "rolling" /\ update.todo = {} /\ update.cur = NoPod
  /\ update' = NoUpdate
  /\ \E C \in OverflowSets :
       LET left == fleet \ IdlePods(C) IN
       \E T \in Trimmable(left) :
         /\ fleet' = left \ T
         /\ retiring' = (retiring \cup C) \ (IdlePods(C) \cup T)
         /\ status' = Terminated(IdlePods(C) \cup T)
  /\ UNCHANGED <<pending, active, executed, limit, alive, connected, config, startVars,
                 reqVars, lifeVars, ensures>>
  /\ ProcessQueue

-----------------------------------------------------------------------------
(* destroy and drainTo                                                     *)

FleetIdle == \A p \in fleet : IsIdle(p)

(* fleet.destroy() up to its first sleep.                                  *)
CloseFleet ==
  /\ retiring' = {}
  /\ fleet' = IF FleetIdle THEN {} ELSE fleet
  /\ status' = IF FleetIdle THEN Terminated(fleet) ELSE status
  /\ closing' = IF FleetIdle THEN "closed" ELSE "waiting"
  /\ UNCHANGED pending

EmptyQueue(outcome) ==
  /\ queue' = <<>>
  /\ req' = [r \in Requests |-> IF r \in Queued(queue) THEN outcome ELSE req[r]]

Destroy ==
  /\ Event /\ initialized /\ ~destroyed
  /\ destroyed' = TRUE
  /\ retryTimer' = FALSE
  /\ EmptyQueue("failed")
  /\ sessions' = {}
  /\ CloseFleet
  /\ UNCHANGED <<active, executed, limit, alive, connected, failures, disabled, coolingDown,
                 on, initialized, forwarding, confVars, ensures, turn>>

(* The queue goes to the replacement, and so does every later invocation.  *)
DrainTo ==
  /\ Event /\ initialized /\ ~destroyed
  /\ destroyed' = TRUE /\ forwarding' = TRUE
  /\ retryTimer' = FALSE
  /\ EmptyQueue("moved")
  /\ CloseFleet
  /\ sessions' = IF FleetIdle THEN {} ELSE sessions \ Queued(queue)
  /\ UNCHANGED <<active, executed, limit, alive, connected, failures, disabled, coolingDown,
                 on, initialized, confVars, ensures, turn>>

(* The poll loop of fleet.destroy() finds every pod idle, or runs out of   *)
(* time and kills what is left.                                            *)
CloseEnds ==
  /\ closing' = "closed"
  /\ fleet' = {}
  /\ status' = Terminated(fleet)
  /\ sessions' = IF forwarding THEN {} ELSE sessions
  /\ UNCHANGED <<pending, active, executed, limit, alive, connected, startVars, queue, req, on,
                 initialized, destroyed, forwarding, confVars, ensures, turn>>

ClosePoll ==
  /\ Event /\ closing = "waiting" /\ FleetIdle
  /\ retiring' = retiring \ fleet
  /\ CloseEnds

CloseTimeout ==
  /\ Event /\ closing = "waiting" /\ fleet # {}
  /\ UNCHANGED retiring
  /\ CloseEnds

-----------------------------------------------------------------------------
Invoke(r) ==
  \/ InvokeForwarded(r) \/ InvokeRefused(r) \/ InvokeOnPod(r) \/ InvokeColdStart(r)
  \/ InvokeBlocked(r) \/ InvokeQueued(r)

RequestStep(r) ==
  \/ QueueTimeout(r) \/ RequestSucceeds(r) \/ RequestFails(r)
  \/ StreamOpens(r) \/ StreamCloses(r) \/ StreamTimesOut(r)

StartStep(p) ==
  \/ PodReadyForInvoke(p) \/ PodReadyForQueue(p) \/ PodReadyForEnsure(p) \/ PodReadyForRoll(p)
  \/ StartFailedForInvoke(p) \/ StartFailedForQueue(p)
  \/ StartFailedForEnsure(p) \/ StartFailedForRoll(p)

ProcessStep(p) == StartThrows(p) \/ PodExit(p) \/ ChannelError(p)

DrainStep == DrainDispatches \/ DrainStops \/ DrainScalesUp

TimerStep == BackoffElapses \/ RetryTimerFires \/ IdleCheck

UpdateStep ==
  \/ \E p \in Pods : (RollSkips(p) \/ RollCreates(p) \/ RollWithout(p))
  \/ RollBegins \/ RollDestroys \/ RollKeeps \/ UpdateFinishes

CloseStep == Destroy \/ DrainTo \/ ClosePoll \/ CloseTimeout

Next ==
  \/ Initialize
  \/ \E r \in Requests : Invoke(r) \/ RequestStep(r)
  \/ \E p \in Pods : StartStep(p) \/ ProcessStep(p)
  \/ EnsureSettles \/ DrainStep \/ TimerStep \/ UpdateStep \/ CloseStep
  \/ \E c \in Configs : UpdateConfig(c)

Spec == Init /\ [][Next]_vars

(* The event loop runs what is on the stack and, sooner or later, every    *)
(* event that is due: the timers of a request (queue, request, stream) and *)
(* of a starting pod, the exit of a process that was killed (kill()        *)
(* escalates to SIGKILL), the poll of a closing fleet.  An event is due    *)
(* only between handlers, so its fairness is strong.  Nothing is assumed   *)
(* of crashes, answers, invocations, backoffs and administration.          *)
Continuation == EnsureSettles \/ DrainStep \/ UpdateStep

KilledExits(p) == status[p] = "terminating" /\ PodExit(p)

Fairness ==
  /\ WF_vars(Continuation)
  /\ \A r \in Requests : SF_vars(RequestStep(r))
  /\ \A p \in Pods : SF_vars(StartStep(p) \/ KilledExits(p))
  /\ SF_vars(ClosePoll \/ CloseTimeout)

FairSpec == Spec /\ Fairness
-----------------------------------------------------------------------------
(* Properties                                                              *)

Live(r) == req[r] \in {"starting", "queued", "running", "streaming"}

PodTypeOK ==
  /\ status \in [Pods -> Status]
  /\ active \in [Pods -> Nat] /\ executed \in [Pods -> Nat] /\ limit \in [Pods -> Nat \ {0}]
  /\ alive \subseteq Pods /\ connected \subseteq Pods

FleetTypeOK ==
  /\ fleet \subseteq Pods /\ pending \subseteq Pods /\ retiring \subseteq Pods
  /\ failures \in Nat /\ disabled \in BOOLEAN /\ coolingDown \in BOOLEAN
  /\ retryTimer \in BOOLEAN
  /\ ensures \subseteq [creates : SUBSET Pods, then : Then]

ServiceTypeOK ==
  /\ config \in Configs \cup {InitialConfig} /\ update \in UpdateRecord
  /\ initialized \in BOOLEAN /\ destroyed \in BOOLEAN /\ forwarding \in BOOLEAN
  /\ closing \in {"open", "waiting", "closed"}
  /\ turn \in {"idle", "drain", "update"}

RequestTypeOK ==
  /\ req \in [Requests -> ReqState] /\ on \in [Requests -> Pods \cup {NoPod}]
  /\ sessions \subseteq Requests
  /\ queue \in Seq(Requests) /\ Len(queue) <= MaxQueueSize

(* Every variable has its type, and the queue never holds more than        *)
(* maxQueueSize requests, whichever path put them there.                   *)
TypeOK == PodTypeOK /\ FleetTypeOK /\ ServiceTypeOK /\ RequestTypeOK

(* The counter activeRequests of a pod, which availability, recycling and  *)
(* idleness are decided on, is the number of requests that run or stream   *)
(* on it, through answers, crashes, stream ends and timeouts in any order. *)
ActiveMatches == \A p \in Pods : active[p] = Cardinality(InFlight(p))

(* A live request is in exactly one place: once in the queue, awaiting a   *)
(* pod that is starting, or on a pod.  None is lost between two of them    *)
(* and none is kept after it was answered.                                 *)
Placement ==
  /\ NoDuplicates(queue)
  /\ \A r \in Requests :
       /\ req[r] = "queued" <=> r \in Queued(queue)
       /\ req[r] = "starting" => on[r] \in pending
       /\ req[r] \in {"starting", "running", "streaming"} <=> on[r] # NoPod

(* Pods and requests agree: a pod counts the requests that are on it, and  *)
(* a request is in one place, in the queue, on its way or on a pod.        *)
PodsMatchRequests == ActiveMatches /\ Placement

(* While the configuration stands, the pods that exist or are starting     *)
(* never exceed maxPods, whoever creates them and however the awaits of    *)
(* invoke, ensureMinPods and processQueue interleave.                      *)
WithinCapacity == Total <= config.maxPods

(* An update may lower maxPods below the pods there are; from then on no   *)
(* step adds a pod until they are below it again.                          *)
NeverGrowsPastCapacity == [][Total' > Total => Total' <= config'.maxPods]_vars

(* isAvailable counts completed requests only, so a pod may execute more   *)
(* than maxRequestsPerPod; never more than the requests in flight beside   *)
(* the last one that was allowed.                                          *)
OvershootBound ==
  \A p \in fleet :
    executed[p] + Cardinality({r \in InFlight(p) : req[r] = "running"})
      <= MaxRequests - 1 + limit[p]

(* processQueue is driven by events: while requests wait, something that   *)
(* will call it again is under way.                                        *)
WakeUpDue ==
  \/ pending # {} \/ retryTimer \/ update.step # "none"
  \/ \E p \in fleet : InFlight(p) # {} \/ p \notin connected
  \/ alive \ (fleet \cup pending) # {}

Stranded == Quiet /\ ~destroyed /\ queue # <<>> /\ ~WakeUpDue

(* A step that does not process the queue: queueAndWait() throws for the   *)
(* invocation whose cold start failed, "Queue is full" (index.ts:322-336). *)
FindsQueueFull ==
  /\ ~HasRoom(queue) /\ UNCHANGED queue
  /\ \E r \in Requests : req[r] = "starting" /\ req'[r] = "failed"

KeptRetiring == \E p \in fleet \cap retiring : InFlight(p) = {}

(* No step strands the queue: crashes, failed, late and blocked starts,    *)
(* backoffs, recycled and trimmed pods, updates and full pods leave waiting *)
(* requests an event that processes them.  Excused are the step above, and *)
(* a pod kept in retirement (KeptPodsServe below).                         *)
NoStrandedQueue == [][Stranded' => Stranded \/ FindsQueueFull \/ KeptRetiring']_vars

(* The host session of an invocation is there as long as its plugin may    *)
(* call back while the service is open, and never longer.                  *)
SessionsFollowRequests ==
  \A r \in Requests :
    /\ r \in sessions => Live(r)
    /\ Live(r) /\ ~destroyed => r \in sessions

(* The queue is in priority order.                                         *)
QueueIsSorted == SortedByPriority(queue)

(* Requests of one priority are FIFO: a request that joins the queue comes *)
(* behind those that outrank or equal it, and nothing reorders the others. *)
QueueIsFair ==
  [][\A a, b \in Queued(queue') :
       a \in Queued(queue) /\ a # b
         /\ (IF b \in Queued(queue) THEN Position(queue, a) < Position(queue, b)
                                    ELSE Priority[a] >= Priority[b])
       => Position(queue', a) < Position(queue', b)]_vars

(* updateConfig terminates, whatever becomes of the pods it waits for.     *)
UpdateTerminates == update.step # "none" ~> update.step = "none"

(* The service keeps its promise to every invocation: it is answered once, *)
(* executed at most once and, sooner or later, leaves every stage, also    *)
(* when the service is destroyed or drained in the meantime.               *)
Stage(r) ==
  IF req[r] \in {"starting", "queued"} THEN "waiting"
  ELSE IF req[r] \in {"running", "streaming"} THEN "serving"
  ELSE req[r]

Lifecycle == INSTANCE RequestLifecycle WITH state <- [r \in Requests |-> Stage(r)]

KeepsPromise == Lifecycle!Promise

-----------------------------------------------------------------------------
(* What the documentation says and the code does not do                    *)

(* "as long as there is capacity the queue is drained": nothing waits      *)
(* while a pod could take it.                                              *)
DrainsWhileCapacity == Quiet /\ ~destroyed /\ queue # <<>> => Selectable = {}

(* The queue is woken by every event that may serve it: also by the start  *)
(* that failed for an invocation the full queue then refuses.              *)
AlwaysWoken == ~Stranded

(* A retiring pod is destroyed after its current requests are done: while  *)
(* the service is open, a healthy pod leaves the fleet only when idle.     *)
RetiresWhenIdle ==
  [][\A p \in retiring \ fleet' :
       closing = "open" /\ closing' = "open" /\ p \in alive' /\ status[p] = "running"
         => InFlight(p)' = {} \/ \E r \in InFlight(p) : req'[r] = "failed"]_vars

(* When the replacement of a pod cannot be created the pod is kept and     *)
(* goes on serving: once no update is at work, no idle pod is retiring.    *)
KeptPodsServe ==
  Quiet /\ ~destroyed /\ update.step = "none" => \A p \in retiring : ~IsIdle(p)

(* Closing waits for the pods and kills what is left: a closed service     *)
(* keeps no pod.                                                           *)
ClosedHasNoPods == closing = "closed" => fleet = {}
=============================================================================

# Verification of FastGPT's plugin server

TLA+ models of the plugin server, the connection gateway, the command line
tool and the SDK, model-checked with TLC, with theorems proved by TLAPS. The
code is TypeScript; paths below are relative to the repository, and three
directories are abbreviated: `I` is `packages/infrastructure/src`, `LP` is
`I/plugin/plugin-runtime/drivers/local-pool`, `U` is `packages/usecase/src`.

## 1. Inventory

The server installs plugins, runs each in child processes and answers
invocations over HTTP. A second application, the connection gateway, lets a
developer's machine execute a plugin that is being debugged. A command line
tool builds, packs and debugs plugins, and an SDK holds the library plugins are
written with and a client of the server.

| Component | State | Operations | Hard behaviour | What makes it correct |
|---|---|---|---|---|
| Request queue (`LP/service/request-queue.ts`) | waiting requests, one timer each | enqueue, append, shift, drain, rejectAll, timeout | timers and dispatch race | bounded, in priority order, FIFO within a priority |
| Plugin service (`LP/service/index.ts`) | configuration, closing state, queue, host sessions, retry timer | initialize, invoke, processQueue, runRequest, stream lifecycle, updateConfig, destroy, drainTo | whatever it awaits can be overtaken by a crash, an update or a close | every invocation answered once, executed at most once, never left behind |
| Pod fleet (`LP/service/pod-fleet.ts`) | pods, starting and retiring pods, breaker, backoff | createPod, ensureMinPods, selectAvailablePod, destroyPod, trimIdlePods, enforceMaxPods, rollPods, destroy, exit handler | concurrent cold starts, failing starts, rolling replacement | never beyond `maxPods`, requests only to healthy pods |
| Pod (`LP/pod/index.ts`) | status, requests, process and its group, channel, directory | start, invoke, kill, completeRequest, error and exit handlers | start timeout against ready against exit, SIGTERM ignored, helpers that outlive their parent | counters match the requests in flight; nothing is left of a pod that was killed |
| SDK dependency (`LP/sdk-factory-runtime.ts`) | a link or copy of a package | ensure | several services at once | the package can be imported afterwards |
| IPC channel (`I/plugin/plugin-runtime/drivers/channel/ipc.ts`), stream object | pending requests, stream waiters, buffered and open streams | request, notify, waitForStream, pipeStream, close | late and early messages, close during a call | each request settled once, no stream lost or left open |
| Runtime manager (`LP/local-pool-runtime.driver.ts`), configuration repository, version keys | loaded plugins, pod quota, version of each plugin in Redis and in the node | register, unregister, updateConfig, getPlugin, shutdown | check-then-act over awaits, several nodes | registrations within the quota, no forgotten service, no stale one that stays |
| Plugin repository and use cases (`I/plugin/plugin.repo.ts`, `U/plugin`) | plugins, installations per source, files | upload, install, confirm, roll back, delete, disable, prune, list | transactions followed by effects that can fail, reads that no transaction ties together | a source is served what it confirmed, and only that |
| Local file storage (`I/file-storage`) | files, metadata, locks | save, get, delete | writers that overlap, a cleanup after a failure | a file that is there is whole |
| Packages (`apps/cli/src/build`, `I/plugin/utils`) | source directory, dist, package, stored files | build, check, pack, parse, upload | interrupted builds, four rules for the names of files | URLs lead to files, a package is of one build |
| Batches of packages (`U/plugin`, `scripts`) | what a call has uploaded and what failed | upload, install, confirm | one of several fails, overlapping batches | a report accounts for all, what was uploaded or pending stands |
| Tool run (`tool.route.ts`, `tool.impl.ts`, `sdk/client`) | a stream through three processes | run, abort | messages cut anywhere, a caller that leaves | what is called complete is complete; a tool nobody hears is stopped |
| Errors (`error.vo.ts`, `I/errors`, `I/hono`) | none | wrap, register, serialise, answer | every layer wraps, repeats or cuts | the caller is told the causes |
| Server start (`apps/server`) | tasks of the start, digests of static data | start, register, listen, shut down | tasks that fail or retry in the background, nodes of two releases | a node that answers has what its answers refer to |
| Gateway: sessions (`I/connection-gateway`) | sessions, locks of sources, indexes in Redis | create, renew, update, remove, close | leases that expire between two commands, several nodes | one session in service per source |
| Gateway: mailboxes, debug driver, CLI gateway client | requests, replies, connections | publish, pump, reply, read, reconnect | lost connections, trimmed mailboxes, timeouts | a stream that ends without an error is whole |
| Debug channel (`debug-session.route.ts`, `remote-session.ts`) | key of a source, configuration on disk, session | create, refresh, revoke, connect, reconfigure, reload | handlers that overlap, loops that await | a revoked key serves nobody; the tool neither hangs nor outlives its end |
| Local run (`apps/cli/src/commands/debug.ts`) | one tool in the process of the command | run | notices and streams that end in any order | the command ends, with all the tool said |
| Contracts, metrics, environment, object storage, terminal and web interfaces | | I/O and conversions | | not modelled |

Interaction: an HTTP handler calls a use case, the use case calls the
repository and the runtime manager. The manager owns one plugin service per
plugin and calls `invoke`, `updateConfig`, `destroy` or `drainTo` on it; the
service owns a queue and a fleet, the fleet owns pods and calls back
(`onPodChanged`, `onPodStartupBlocked`, `onPodStartupRetryable`), a pod owns an
IPC channel and reports its exit. Nodes of the server share MongoDB, Redis and
a storage. A run of a plugin in debugging goes through Redis mailboxes to the
gateway that holds the connection of the developer's command line tool, which
executes it and sends the stream back. `PROJECT.json` lists every component
with its status and the hazards of the code line by line.

## 2. Plan

Done, in this order: the plugin service with its queue and abstract
specification; the channel; the runtime manager over several nodes; the
repository with its use cases; the sessions of the gateway; an invocation in
debugging; the debug channel; files; a tool run; the catalog; packages;
batches; errors; the local run; the start of the server; the processes of a
pod; the SDK dependency.

Left, in the order of their worth:

1. Two services and `drainTo` in one model: the receiving side
   (`acceptTransferredRequests`) may refuse what it was given.
2. Proofs: type correctness of the catalog, packages, batches and errors as
   theorems of their own; their invariants hold the parts of it they need.
3. The object storage and the expiry of files, once something of the server
   reads what they decide.

## 3. Modules

| Module | Models | Used by |
|---|---|---|
| `RequestQueue` | the queue as operators on a sequence | `PluginService` |
| `PluginService` | scheduler, fleet and pods of one plugin service | `MCPluginService` |
| `RequestLifecycle` | abstract: what a service promises about an invocation | refinement in `PluginService` |
| `IpcChannel` | both ends of the channel between a pod and its process | `channel.cfg` |
| `RuntimeManager` | managers of several nodes, version keys, configuration | `MCRuntimeManager` |
| `PluginRepo` | the repository and the use cases that write | `ServerParts` |
| `LocalFiles`, `PluginCatalog`, `PluginPackage`, `PackageUpload`, `FailureReport`, `ServerStartup`, `PodProcess` | parts of the server that share no state here | `ServerParts` |
| `ServerParts` | the eight parts of the server side by side, with the assumptions on their parameters | `MCServerParts` |
| `ConnectionGateway` | sessions, locks and indexes in Redis, handlers of the gateway | `gateway.cfg` |
| `DebugInvocation` | driver, mailboxes, connections and CLI of a debugged plugin | `MCDebugInvocation` |
| `DebugChannel` | the key of a debugging source, its session, the CLI that lives on it | `keys.cfg`, `hot_reload.cfg` |
| `ToolRun` | a run from the SDK client to the stream of the tool and back | `Clients` |
| `LocalDebug` | a run in the process of the command line tool | `Clients` |
| `Clients` | both of these side by side | `clients.cfg` |
| `SdkDependency` | the SDK package in the runtime root | `MCSdkDependency` |
| `PluginServiceProofs`, `IpcChannelProofs`, `PluginRepoProofs`, `RuntimeManagerProofs`, `ConnectionGatewayProofs`, `DebugInvocationProofs`, `ServerPartsProofs` | theorems about the module they are named after | |
| `ClientsProofs` | theorems about `Clients` and `DebugChannel` | |

`MC` modules give the parameters of a module the values of one run: the
instances, their symmetry, and which initial states are told apart.

JavaScript runs a handler to its next await, then the continuations that have
become ready, then the next event. In every module a coroutine therefore makes
one step per await of something that others can see, with all it does until
the next. A process with its own event loop interleaves with the others at
these steps only; several nodes interleave at each command of Redis or MongoDB.

### 3.1 `PluginService`: scheduler, fleet and pods

*State.* `fleet`, `pending`, `retiring` are `this.pods`, the pods whose
`start()` is awaited (`pendingPods` is their number) and `retiringPods`.
`failures`, `disabled`, `coolingDown`, `retryTimer` are the startup breaker and
the backoff. `status`, `active`, `executed`, `limit` are the fields of a pod;
`alive` and `connected` are its process and channel. `queue`, `sessions` and
`closing` are the queue, `activeInvokeSessions` and the progress of
`fleet.destroy()`. `req` and `on` say what became of an invocation and on which
pod: the closure of its promise. `ensures` and `update` are the coroutines of
`ensureMinPods` and `updateConfig` between two awaits.

*Steps.* JavaScript runs a handler to its next await, then the continuations
that have become ready, then the next event. One action is one such piece of a
handler, with all it calls: `PodExit`, for instance, removes the pod, starts
what `ensureMinPods` starts and calls `processQueue`. Two pieces are split
because their choices multiply: the loop of `processQueue` takes one step per
iteration (`turn = "drain"`), and the coroutine of `updateConfig` one step per
pod (`turn = "update"`). No event is taken inside either, nor while a
continuation is ready (`Quiet`): that is the event loop, and it is why the
model is not more permissive than the program. Continuations that are ready
together run in any order, which includes the order of the program.

| Handler | Actions |
|---|---|
| `initialize` | `Initialize`, `EnsureSettles` |
| `invoke` | `InvokeForwarded`, `InvokeRefused`, `InvokeOnPod`, `InvokeColdStart`, `InvokeBlocked`, `InvokeQueued`; after the cold start `PodReadyForInvoke`, `StartFailedForInvoke` |
| `processQueue`, `scaleUpForQueuedWork` | `DrainDispatches`, `DrainStops`, `DrainScalesUp`; `PodReadyForQueue`, `StartFailedForQueue` |
| `createPod`, `pod.start` | `Launch`, `Joins`, `StartRejected`, `StartTimedOut`, `StartThrows` |
| `ensureMinPods` | `EnsureSets`, `AwaitAll`; `PodReadyForEnsure`, `StartFailedForEnsure`, `EnsureSettles` |
| `runRequest`, `releasePod` | `RequestSucceeds`, `RequestFails`, `Release` |
| `bindStreamLifecycle` | `StreamOpens`, `StreamCloses`, `StreamTimesOut` |
| queue timer, retry timer, idle check | `QueueTimeout`, `RetryTimerFires` (and `BackoffElapses`), `IdleCheck` |
| process and channel events | `PodExit`, `ChannelError` |
| `updateConfig`, `rollPods`, `enforceMaxPods` | `UpdateConfig`, `RollBegins`, `RollSkips`, `RollCreates`, `RollWithout`, `RollDestroys`, `RollKeeps`, `UpdateFinishes` |
| `destroy`, `drainTo`, `fleet.destroy` | `Destroy`, `DrainTo`, `ClosePoll`, `CloseTimeout` |

*Abstractions.* Time: an armed timer may fire at any later event; the clock is
steady, so the retry timer does not fire before the backoff it was armed for.
The tie-breakers of the two comparators (times, pod identifiers) are free
choices. `podTimeout` stands for every field whose change rolls the pods.
`maxRequestsPerPod` is positive, as the environment schema requires, and an
update does not change it. Payloads, statistics and logs are left out. The
replacement of `drainTo` is outside: a request given to it is "moved".

*Callers.* The manager publishes a service only after `initialize()` and
serialises `updateConfig` with a mutex; it may still update a service that an
unregistration is closing. `destroy({force: true})` and `replaceIdlePod` have
no caller and are not modelled.

### 3.2 `IpcChannel`: both ends of the pipe

`drivers/channel/ipc.ts` runs at both ends of the pipe. The host sends runs,
each answered with an output stream; the plugin sends reverse calls, an upload
among them with an input stream. Both streams flow to the host, one at most
per request, and so a request, its stream and its name are one value.

*State.* `toClient` and `toHost` are the pipe, in order in each direction.
`run` and `call` are the `pending` maps of the two ends, with what became of a
request afterwards; `handler` and `served` are the request handlers. `incoming`,
`buffered`, `waiters` are `incomingStreams`, `bufferedIncomingStreams`,
`pendingStreamWaiters` of the host. `data` and `got` are the `StreamData` of a
stream and what it was given, `heard` the streams with an error listener,
`writer` and `sent` the child's writable. `open` is the host's `closed`
negated, `killed` the state of the pod, `alive` the process.

| Code | Actions |
|---|---|
| `request` and its timer | `HostInvokes`, `RunTimesOut`; `PluginCalls`, `CallTimesOut` |
| `handleResponse`, `waitForStream` | `LateResponse`, `ErrorResponse`, `StreamResponse`; `AnswerArrives` |
| `handleRequest`, replies | `RunArrives`, `RepliesWithStream`, `RepliesError`; `CallArrives`, `HostReplies`, `HostReplyFails` |
| `handleStreamFrame` | `StreamStarts`, `ChunkArrives`, `ChunkRefused`, `StreamEnds`, `StreamFails` |
| `createWritableStream`, `pipeStream` | `Writes`, `EndsStream`, `FailsStream` |
| consumers of streams | `RunCancelled` (the HTTP client leaves), `StreamTimesOut` (`bindStreamLifecycle`), `UploadRejected` (`toBuffer`) |
| `close`, `handleError`, `handleExit` | `Close`, `Breaks`, `HostSeesExit`, `ChildExits` |

*Abstractions.* A handler runs to its next await in one step; the frames a
handler sends before it awaits are one append. Errors carry no payload: an
answer is a value, a stream or an error. Left out are the timers of waiters
(`NobodyWaits` shows that none is ever armed for long), the notifications
`ready`, `stdio` and `fail`, messages that do not parse, and runs answered
without a stream, which the repository's plugins do not use. The pod is
represented by `killed`; its states are in `PluginService`.

### 3.3 `RuntimeManager`: the managers of several nodes

*State.* `plugins`, `local` and `destroyed` are the fields of each node's
manager; `redis` and `stored` are what the nodes share; `service` is every
`PluginService` object ever made, by the place and the call that made it; `call`
is a coroutine with what it has read.

| Code | Actions |
|---|---|
| `register` | `Register`, `ReadConfig` (quota and reservation), `Load`, `Publish` |
| `unregister`, also with a replacement | `Unregister`, `Replace`, `Closed` |
| `invoke`, `getPlugin` | `Invoke`, `CheckVersions`, then the steps of `unregister` and `register`, `Sync` |
| `updateConfig`, `resetConfig` | `UpdateConfig`, `Save`, `Apply`, `Refresh`, `RefreshFails` |
| `createPod` and the end of pods in a loaded service | `PodStarts`, `PodEnds` |
| `shutdown`, a restart of the process | `Shutdown`, `ShutdownEnds`, `Restart` |

A configuration is its `minPods`; all have the same `maxPods` (`PodLimit`). A
service starts with `minPods` pods and has any number up to `maxPods` from then
to the end of its destruction: `PodStarts` is a cold start or the restoration of
`minPods`, which no quota check precedes (`onPodCreated` only warns), `PodEnds` a
crash, a recycling or a start that failed, and `Apply` leaves any number between
what the service had and the new `minPods`. Of the pods of a service, `granted`
(history) are those a registration started within the quota; a pod that ends is
taken from those that were not granted first, as pods are alike.

A command of Redis may fail, before it was executed or after: `Publish` and
`Sync` keep the version keys Redis answered for, `RefreshFails` leaves a
configuration that is saved and not announced. `Save` may fail as well, also
after the document was written.

The history variable `excuse` names what happened to a place: two calls that
replaced one service at once, a key another version has taken over, updates that
raced, a withdrawal, a configuration that was saved and not announced (until one
is). The properties say where each excuse counts, so that they also say what the
code relies on its callers for.

### 3.4 `PluginRepo`: the repository and its use cases

`inst`, `record`, `files` and `running` are the installations, the plugin
documents, the stored files and the runtime's services. Every use case of
`U/plugin` that writes is a coroutine: `Upload`, `Install`, `Confirm`,
`Delete`, `Prune`, `Restart` begin one; `Create`, `Refresh`, `Mark`,
`SaveFiles`, `Insert`, `Replace`, `Withdraw`, `ConfirmPlugin`, `Rollback`,
`DeleteInstallation`, `Register`, `Unlist`, `Disable`, `Stop`, `Spare`, `Wipe`,
`Forget`, `Erase`, `RegisterActive` are its steps, each of which may fail.
A transaction of MongoDB computes its writes on a snapshot and applies them at
`Commit`, which fails after a conflicting write; `Expire` is the TTL index of
pending installations. `lone` remembers where the only call began, for the
properties about one use case at a time; `spoilt` the etags a prune left half
removed. The runtime manager is external here, as a set. The server wires
`DebugPluginRepoOverlay` before the repository (`deps.ts:48-53`), which drops the
source of an upload: `Upload` reads the pending plugins of the default source
`System`, and `Withdraw` acts on it.

### 3.5 Files, packages, batches, catalog

`LocalFiles` has the lock, the file and its metadata as `getPluginById` and
`LocalFileStorageRepo.save` use them: `Exists`, `Fetch`, `Found`; `Check`,
`Lock`, `Open`, `Write`, `Release`, `WriteMeta`, `Clean`; `Prune` removes the
directory. Creating the directory and opening the lock in it are one step.

`PluginPackage` follows files by their place, kind and owner through `Bundle`,
`MakePlan`, `CopyLogos`, `CopyStatics` (build), `Zip` (pack) and `Upload`
(parser, loader and repository), with `Interrupt` and `Edit` at any time.

`PackageUpload` is a call of upload, install or the script over a batch:
`Snapshot`, `Download`, `TakeFile`, `Parse`, `Create`, `CreateThrows` (an
exception of `createPlugin` leaves the use case without rollback or report),
`Rollback`, `Install`, `Answer`, `Decide`, `Confirm`, `Complete`; `Other` is what
others do. `Listed` and `Withdrawing` are those of the default source, for the
reason given in 3.4.

`PluginCatalog` is a query in its reads (`FindInstallations`, `FindPlugins`,
`ReadSession`, `ReadFails`) while `Install`, `Uninstall` and `SessionChanges`
go on; `ever`, `always`, `latest`, `stayed` record what was true while it ran.

### 3.6 A run and its errors

`ToolRun`: the client sends `Request`, reads messages, the last of them in
part (`ReadBody`: `cut` is where the connection stands, `buffer` what the client
kept), calls its listener, which may throw, or leaves (`Abort`); the route goes through
`Lookup`, `Invoke`, `Consume`, `ConsumeEnds` or `Cancel`; the tool writes and
ends as it likes (`Write`, `ToolEnds`). `FailureReport` is the pipeline of
functions an error goes through (`Serialize`, `Deserialize`,
`ToInvokeFailureError`, `ErrorResponse`, `ErrText` and others), one action per
stage, an error being its chain of causes. `LocalDebug` is a run in the process
of the command: `Load`, `Import`, `Notify`, `Ready`, `Run`, `Consume`, `Show`,
and the tool's `Stream`, `BeginUpload`, `Upload`, `Finish`.

### 3.7 Gateway and debugging

`ConnectionGateway` has `record`, `index` and `lock` (Redis), `binding` and
`open` (connections). A handler (`Bind`, `Message`, `Close`, `Delete`,
`Patch`, `Lookup`) makes one step per Redis command, the `get` of a session
with its purge included (`Purge`, `Unindex`, `Unlock`); any command may fail
(`Fail`), a node may die (`Crash`), a key may expire (`Expire`) and time pass
(`Tick`). The start of a call is merged with its first command; a first `get`
whose result only metrics use is left out. The TTL of the keys is at least the
lease, as by default.

`DebugInvocation` has the driver of the server (`Invoke`, `Publish`, `Read`,
`ReadFails`), the mailboxes with their trimming, the connection in both
directions (`Pump`, `PublishResponse`, `RequestArrives`, `BoundArrives`) and the
CLI with its reconnect loop (`Connect`, `ToolEnds`, `Quit`), under `Faults`.

`DebugChannel` has the handlers of the key on the server (`Begin`,
`ReadRecord`, `SaveRecord`, `WriteSession`, `GetStatus`, `DeleteSession`), which
the crash of a node ends anywhere (`NodeCrashes`), the
connect loop of the CLI (`ConnectLoop`: `StartExchange`, `Lookup`, `Exchanged`,
`Opens`, `Bind`, `Reconnect`), its user (`Interrupt`, `ConfigureKey`) and watch
mode (`Edit`, `Debounce`, `Reload`) with the cache of ES modules.

### 3.8 Start, processes, dependency

`ServerStartup`: the tasks of `init()` in parallel, `MongoClient.init` with
retries nobody awaits (`MongoConnects`, `MongoRetries`, `MongoRegisters`),
static data with its digest (`Get`, `Upload`, `SetDigest`), registration,
listening, answers, signals, `Kill` and `Exit`. `PodProcess`: a process, another
of its group, `kill()` with its escalation, exit and error events, the runtime
directory. `SdkDependency`: each file system call of
`ensureSdkFactoryRuntimeDependency`, the tasks of a recursive copy in any order.

## 4. Runs

| Run | Instance | States | Shows |
|---|---|---|---|
| `serve` | 4 requests (one urgent and streaming, three alike), up to 2 pods of concurrency 2 (3 identities), 2 requests per pod, queue of 2, breaker at 2 | 231,341 | `PodsMatchRequests`, `SessionsFollowRequests` (bookkeeping), `OvershootBound` (concurrent dispatches), `QueueIsFair`, `NoStrandedQueue` (wake-up) |
| `reconfigure` | 1 request, configurations of 1 pod and of 2 that roll the pods, 3 identities, fairness | 82,347 | `NeverGrowsPastCapacity`, `UpdateTerminates` |
| `settle` | 2 requests (one streaming), 1 pod, 1 request per pod, queue of 1, fairness | 31,913 | `TypeOK` with the queue bound, refinement of `RequestLifecycle` (`KeepsPromise`) |
| `channel` | 1 run, an upload and another reverse call, death of the child at any moment, fairness | 415,676 | `NobodyWaits`, `StreamsAreWhole`, `BreaksOnlyWhenDropped`, `RunsEnd` |
| `runtime` | 2 nodes, 2 versions, 3 calls or pods that start or end, configurations of 1 and 2 pods of at most 2, quota 3 | 916,316 | `QuotaHolds`, `ConfigFresh`, `Reachable`, `NoOrphans` |
| `gateway` | 2 connections of one source, 2 calls in flight, fairness of time | 394,131 | `OwnedInService`, `ClosedEnds` |
| `debug` | 2 requests, 2 connections, 2 chunks, mailboxes of 2 | 1,198,408 | `StreamsAreWhole` |
| `keys` | 1 call of the server beside the CLI, 1 fault or crash, 1 reconfiguration, 1 edit, fairness | 262,699 | `StaleSessionsGo`, `KeyInUse`, `Reconnects`, `CloseEnds` |
| `clients` | tools of 3 messages over HTTP, of 2 in the command, fairness | 5,408 | `TruthIsHeard`, `AbortsReachTheTool`, `EveryCallEnds` |
| `parts` | one part per behaviour, see below | 933,839 | thirteen properties, see below |
| `hot_reload` | one edit, no fault | | a violation of `ReloadsFollowEdits` (section 5) |
| `sdk` | 3 services, links allowed | | a violation of `ResolvableOnceEnsured` (section 5) |

`ServerParts` puts eight modules side by side; a behaviour is one of one part,
so that the run `parts` is the sum of eight, not their product. `MCServerParts`
gives the instance, and lets a part start in one state when the behaviour is
not of it:

| Part | Instance | States | Properties |
|---|---|---|---|
| repository | the default source and another, 2 etags, 2 calls that overlap | 298,050 | `LeavesConsistent`, `OthersUndisturbed`, `FailedConfirmRestores`, `InstallationsAreBacked` |
| files | 3 calls, 2 failed downloads, 1 prune | 53,342 | `FilesStand` |
| catalog | 1 plugin in 2 versions, 3 sources, 2 changes | 157,466 | `AnswersAreCurrent` |
| package | 26 source directories, 1 edit | 121,041 | `IconsResolve`, `PacksAreFresh` |
| upload | 2 calls of 2 sources over 2 batches, 1 fault, 1 other event | 121,450 | `Accounted`, `UploadsStand` |
| report | errors of one to six messages | 231 | `FailuresAreTold` |
| server | 2 nodes, 2 releases, 3 starts, 1 fault | 181,781 | `ServesWhenReady` |
| pod | 2 requests at once | 478 | `PodsLeaveNothing` |

Deadlock is checked in `gateway`. Elsewhere the system may come to rest
(everything answered, processes gone) or has made the calls its bound allows.

*Bounds.* Three requests are the fewest for which priority and FIFO differ and
one can overtake two. They let a pod overshoot its limit of two requests: one
ends while another runs, and the pod, which has completed only one, takes a
third; the fourth could go beyond what `OvershootBound` allows. Two pods of concurrency two let a pod be busy with two
requests while another starts. `Pods` has more identities than `maxPods`, for
killed processes that have not exited. An identity is reused when nothing
refers to it, and an event waits for the exit of killed processes when the
identities would not suffice (`IdentitiesLeft`). `serve` and `reconfigure`
divide the questions because updates and four requests together are too many
states. In `serve` the queue holds two of the four requests, so that it refuses
some, also after a failed cold start: that one does not wake the queue, which
`NoStrandedQueue` excuses and section 5 lists (`AlwaysWoken`). On a channel the requests share the pipe and the fate of the
pod and nothing else, so one request of each direction with its stream shows
every interaction of two. Two overlapping calls are the fewest for a race, and
the third call of `runtime` comes after two that raced. `files` needs a third
writer to find what two left. Larger instances passed once during development:
`channel` with streams of two chunks (2.3 million states), the gateway with a
lease of two ticks (2.1 million, safety), 264 source directories (6.4 million),
the server with both kinds of static data (2.3 million), three batches with two
faults (455,122 states of that part) and, before the dropped source and the
crash of a server node were in the models, the repository with three calls (9.1
million) and the debug channel with two server calls (16.5 million, safety).

*Symmetry and view.* The safety runs of the service are symmetric in the pods,
`serve` also in the three requests that differ in nothing, `runtime` in nodes,
versions and calls, `debug` in requests, `parts` in the etags of the repository; runs with liveness use no symmetry. The runs of the
service use the view `Observed`, which drops the fields of pod objects nothing
refers to any more: no guard reads them before `Launch` or an exit overwrites
them and no action changes only them, so that the view keeps liveness as well.

*Fairness.* In `PluginService` ready continuations run (weak fairness): that is
the event loop. Strong fairness is assumed of the events that are certain to
come but need a moment between handlers: the timers that end a request, the
timers and answers that end a start, the exit of a killed process (`kill`
escalates to SIGKILL after the grace period) and the poll of a closing fleet,
which has its own deadline. On the channel the timers of the host fire, a
killed process exits and its exit is reported. In `ConnectionGateway` only time
passes: neither a handler nor a client nor Redis has to make progress. In
`DebugChannel` the connect loop, the file watcher, the end of a session and
each handler of the server progress; its user and the faults need not. In
`ToolRun` and `LocalDebug` client, server and command progress, the tool need
not. Nothing is assumed anywhere of answers of plugins, crashes, invocations or
administration. `ServerStartup` has no fairness: `ServesWhenReady` says with
ENABLED that a node that is starting or stopping can go on.

## 5. Where the code differs from what it says

Two violations are runs. **Reloads end after the first** (`hot_reload`): an
edited entry file is imported as `...index.ts#fastgpt-plugin-debug-<unique>`,
but `import-hooks.ts` rebuilds the URL without the fragment, so that the module
cache answers, the plugin is never evaluated again and the reload waits for
ever. **The SDK package can be lost** (`sdk`): when three services ensure the
link at once, one falls back to a copy although links work, and the removal of
a directory inside its copy goes through the link a third one has just made:
`dist` of the SDK package itself is deleted. `PROJECT.json` quotes the lines.

Further disagreements are stated as definitions beside the properties, without
a run of their own:

| Definition | Module | What the code does instead |
|---|---|---|
| `DrainsWhileCapacity` | `PluginService` | a cold-started pod serves only its own invocation while others wait in the queue |
| `RetiresWhenIdle` | `PluginService` | a retiring pod is killed by the first of its requests to finish |
| `KeptPodsServe` | `PluginService` | a pod whose replacement fails stays retiring and serves nothing |
| `AlwaysWoken` | `PluginService` | the start that fails for an invocation the full queue refuses processes no queue: what waits there waits for its timeout or another event (`LP/service/index.ts:322-336`; `LP/service/DESIGN.md:84`) |
| `ClosedHasNoPods` | `PluginService` | a pod that finishes starting after the service was closed is never killed |
| `FailuresAreHeard` | `IpcChannel` | a process that dies between the start frame of a stream and the message that claims it makes `close()` fail a stream without an error listener, an uncaught exception of the host |
| `ConfigReachesNodes` | `RuntimeManager` | a node that reloads one version of a plugin takes the configuration key as read for all (`docs/dev/process-pool-design.md:336`) |
| `PodsStayWithinQuota` | `RuntimeManager` | services start pods on demand up to their own `maxPods`, and the quota of the node is only compared for a warning (`local-pool-runtime.driver.ts:308-316`), although `docs/dev/process-pool-design.md:15` says that `maxTotalPods` controls the number of child processes (so do `LP/DESIGN.md:81`, `LP/README.md:362`) |
| `RollbacksKeepToTheirSource` | `PackageUpload` | the overlay drops the source the upload passes (`debug-plugin.repo.ts:87-89`, `107-109`; `plugin-upload.uc.ts:86-89`, `128-130`): a failed upload to one source withdraws the same plugin where it became pending in the default source meanwhile, and leaves its own pending |
| `ReinstallRestores` | `PluginRepo` | an installation of a disabled plugin whose record stays active is not restored (`plugin.repo.ts:423`) |
| `Reconnects` | `DebugInvocation` | a connection lost while its bind is awaited leaves the loop waiting (`gateway.ts:246`) |
| `AssetsKeepTheirPath` | `PluginPackage` | an asset is stored under `assets/assets/` (`docs/upgrade/v1.0.0.md:327`, `plugin.repo.ts:1359`) |

The excuses in the properties are findings of the same kind, each named in the
comment of its property: a chunk for a stream the host has dropped breaks the
channel and kills the pod with the runs of other clients
(`BreaksOnlyWhenDropped`); a renewal or a status update in flight writes a
closed session back as connected (`OwnedInService`, `resurrected`); two calls
that replace a service of one plugin at once forget one with its pods
(`NoOrphans`, "overlap"); a prune that fails halfway or beside another call
leaves records without files (`InstallationsAreBacked`); the cleanup of a failed
writer removes the lock of another (`OneWriter`, `robbed`); a configuration that was
saved and whose version key could not be set in Redis reaches no other node
until the next update (`ConfigFresh`, "unannounced"; `version-key.ts:64`); a node
that crashes between saving a new key and closing the session of the former one
leaves that session open (`StaleSessionsGo`, `kept`;
`debug-session.route.ts:101-110`); a user who closes or
reconfigures while the CLI connects is not heard (`CloseEnds`, `unheard`;
`KeyInUse`, `missed`); the status and body of a refused reverse call reach
nobody (`FailuresAreTold`); helper processes of a plugin that crashes by itself
are never killed, and a start that fails before the fork leaves the directory
(`PodsLeaveNothing`).

Noticed while reading, outside every property: a heartbeat is answered although
the lease was not renewed; a file change during a reconnection is not reloaded;
requests are acknowledged although their connection is closed; an exception of
`updateInstallation` leaves an upload of several packages as an answer of 500
that reports nothing of what was done (`plugin.repo.ts:1307`, `1402`); an
installation whose registration fails is not rolled back; a pending upload is written over a
confirmation that came in between; an HTTP failure of the gateway silently
leaves a debugging source out of a list; a list over debugging sources ignores
the filters; `check` accepts a build that was interrupted before README and
assets were copied; the upload script says "Confirm completed" after failed
confirmations; uploads leave extracted files until the next start; one plugin
that cannot be registered keeps the server from starting; a server that
receives SIGTERM does not shut its runtime manager down; a listener that throws
leaves the body of the response unread; `FileTTLManager.cleanExpired` never
removes its documents.

## 6. Proofs

`PluginServiceProofs` first proves of the operators of `RequestQueue`, for every
sequence, that insertion, removal and taking the head keep the type and the priority order,
add or take exactly the request they are given, and change the order of no two
others.
The position `insertByPriority` chooses is a least element, whose existence
follows from the well-foundedness of strict inclusion on finite sets
(`LeastElement`).

It then proves for every number of pods and requests and every
configuration:

| Theorem | Statement | Argument |
|---|---|---|
| `TypeCorrect` | `Spec => []TypeOK` | inductive invariant `TypeInv` |
| `QueueSorted` | `Spec => []QueueIsSorted` | every step changes the queue by an operation of the class (`StepsOfTheQueue`), each of which keeps the order |
| `NeverGrows` | `Spec => NeverGrowsPastCapacity` | every step removes pods, moves a starting pod into the fleet, tops up to `min(minPods, maxPods)`, or adds one pod under `canScaleUp()` (`StepsOfThePods`) |
| `CapacityRespected` | `WithinCapacity` always, if all configurations have the same `maxPods` | the same four kinds of steps |

`TypeOK` is not inductive: taking the head of the queue in the loop of
`processQueue` needs that the loop runs only with a request to serve, and the
counters of a pod need that a request which runs has a pod. `TypeInv` adds both
(`LoopHasWork`, `Hosted`).

`IpcChannelProofs` proves for all sets of requests, streams of any length and a
pipe of any content:

| Theorem | Statement | Argument |
|---|---|---|
| `TypeCorrect` | `Spec => []TypeOK` | inductive as it stands |
| `ClosedClean` | `Spec => []ClosedIsClean` | an open stream is on the books of the channel (`Tracked`), which `close()` goes through |
| `StartsComeFirst` | `Spec => []NobodyWaits` | `WaitInv`: each response to a run that goes on, and each request of an upload, has the start of its stream before it in the pipe or in the buffer, and a request is sent once |
| `StreamsWhole` | `Spec => []StreamsAreWhole` | `WholeInv`: a run is requested once and a stream started once (`StartInv`), and what the host was given of a stream, what is buffered and what is in the pipe follow each other without gaps up to what was written (`Flows`) |
| `BreaksNeedADrop` | `Spec => BreaksOnlyWhenDropped` | `LiveInv`: a chunk in the pipe, and an open writer, belong to a stream that is on the books or whose start comes before, with no end in between |

The lemmas `Taken` and `SentAfter` say what one step does to the positions of
the pipe; the invariants are stated by positions, so that an invariant of a
queue of any length follows from its first and last messages.

The second half of `PluginServiceProofs` is about where requests and pods meet.
It classifies the steps twice: by what they do to requests, queue and counters
(`MoveStep`), and by what they do to the pods that start and to those who wait
for them (`AwaitStep`); `StepsMove` shows that every step of `Next` is one of
each kind. The rest is
proved of the kinds, not of the handlers:

| Theorem | Statement | Argument |
|---|---|---|
| `PodsAndRequestsAgree` | `Spec => []PodsMatchRequests` | `PlaceInv`: a request is in one place (`Placed`), and a starting pod has at most one awaiter among an invocation, a call of `ensureMinPods` and `rollPods`, all of whose pods are starting (`Awaited`). Without it a start that settles could leave a second request waiting for a pod that is gone |
| `SessionsFollow` | `Spec => []SessionsFollowRequests` | a service that is closing has been destroyed (`ClosingIsFinal`), so sessions that go with the pods are those of a closed service |
| `QueueFair` | `Spec => QueueIsFair` | `InsertIsFair`, `TailIsFair`, `WithoutIsFair` of the queue's operators; they need a sorted queue without duplicates, which `QueueSorted` and `Placed` give |
| `Refines` | `Spec => Lifecycle!Init /\ [][Lifecycle!Next]_Stages` | each kind of move is `Accept`, `Serve`, `Answer`, `GiveUp` or a stutter (`MovesRefine`); the fairness of the promise is left to TLC |
| `OvershootWithin`, `OvershootBounded` | for every bound `n` on the concurrency ever configured, a pod has executed and runs at most `MaxRequests - 1 + n`; and `OvershootBound` while updates leave the concurrency alone | a request begins only on a pod with room (`RunsWhereAdmitted`), whose completed requests are below the maximum and whose running ones are below the limit; a pod that starts has executed nothing (`LiveInv`) |
| `NeverStranded` | `Spec => NoStrandedQueue` | `WakeInv`: a backoff has its timer, a pod of the fleet can serve unless it is full or about to exit, a used up pod still runs something. Then each step either leaves such an event or processes the queue |

`NoStrandedQueue` excuses a failed cold start whose invocation the full queue
refuses, and a pod an update left in retirement; both are in the table of
section 5 (`AlwaysWoken`, `KeptPodsServe`). `serve` reaches the first with a
queue of two.

`PluginRepoProofs` proves the four invariants of the repository for all
sources, etags and calls. `PruneInv` says that a prune is alone with the files
it has removed, or they count as spoilt; `BackInv` adds what calls under way
take for granted: the record that a transaction or a write is about to refer to,
the files of the record that is about to be inserted. The three properties that
speak of one use case after another rest on `LoneInv`: while a use case runs
alone, the documents differ from those it found by what its steps have done, and
a confirmation can still be undone.

`RuntimeManagerProofs` proves of every number of nodes, versions and calls that
nothing is orphaned, a published runtime stays reachable, a stored
configuration arrives, and registrations keep to the quota:

| Theorem | Statement | Argument |
|---|---|---|
| `NothingIsOrphaned` | `Spec => []NoOrphans` | `OrphanInv`: where no two calls overlapped, one call replaces the service of a place, and loads only where nothing that can be destroyed is left (`Kept`) |
| `PublishedIsReachable` | `Spec => []Reachable` | `VersionInv` and `ReachInv`: a node knows of a version or will find out from Redis (`Due`) |
| `StoredConfigReaches` | `Spec => []ConfigFresh` | `FreshInv`: a service with an old configuration has an expired key, or a call that will expire it (`Settled`), or its place is excused: an update that fails to announce the configuration excuses the places of the other nodes, one that ends with its node those of all, until a key is set again |
| `QuotaIsKept` | `Spec => []QuotaHolds` | `HeldInv`: where no calls overlapped, a service that has pods is the one in `plugins`, so that the quota check counts all of them; `granted` never grows but by a registration that passed the check, and is at most what the check counts later; pods are counted as the cardinality of a set, so that no sum is needed |

`ConnectionGatewayProofs` proves that a session in service owns its source
(`SessionsOwnTheirSource`), for all connections and calls in flight and every
lease. `OwnedInService` is far from inductive, because a handler reads a session
or a lock with one command of Redis and acts on it with a later one, and the
leases of both run down in between. The invariant says of every connection and
every call:

- a connection is bound at most once, so that two calls never save the same new
  session (`Shape`), and until its bind has saved it nobody else knows of it
  (`Youth`);
- a session that lives, or that a call is about to write back, holds the lock of
  its source at least as long as its own lease lasts and is the one its index
  names (`HeldAt`, `HeldBy`), unless it was written back after its end, or its
  lock was lost in the ways the property excuses;
- whoever gives a source back does so for a session that has ended.

One lemma per group of actions shows that what it does to a call leaves these
for all the others (`OthersKeep`, `QuietKeeps`, `ReadKeeps`, `LockKeeps`); the
clock runs all leases down together and so keeps their order.

`DebugInvocationProofs` proves that a debugged stream that ends without an error
is whole (`StreamsArriveWhole`), for every number of requests, connections and
chunks and every `mailboxMaxLen`. `StreamsAreWhole` speaks of the two ends of the
way only; the invariant follows the replies in between, in three layers:

- `LinkInv`: the types (`InvocationTypes`), and requests travel only on a
  connection whose bind was answered, so that the session of a connection on
  which a tool runs is never made again once it has ended (`Pumped`);
- `TokenInv`: a request is in one place of one mailbox, or once on its way on one
  connection, or its tool has begun; so a tool runs once and all its frames are
  on the connection of that run (`Sent`);
- `FlowInv`: with the position of a frame in what its tool sends, the replies
  that wait for their reader increase, start after the last chunk it has read,
  and none waits without all the chunks before it (`Waiting`); the frames on the
  connection follow them in the same way (`Coming`).

`Waiting` and `Coming` ask nothing of what comes last, and therefore survive
the loss of the end of a connection; when the session of the connection is over,
`Coming` is no longer needed, because none of its frames is published any more.
The frames of other requests on the same connection are passed over by
`Follows`: what is left of `r` is what there was, from the first or the second
place up to a cut.

`ServerPartsProofs` proves the promises of the parts of the server, for every
value of their parameters. The parts share no variable: a step of the whole is a
step of one part or leaves it alone (`PartsStep`), so that each theorem rests on
the invariant of one part.

| Theorem | Statement | Argument |
|---|---|---|
| `FilesAlwaysStand` | `PartsSpec => []FilesStand` | `FilesInv`: a call that writes has the lock, unless the cleanup of another took it (`LocksAreHeld`); half a file belongs to a call that will complete or remove it (`HalvesAreTemporary`); while nothing fails or is pruned, one call has got through the lock and what is there stays (`GoesWell`) |
| `AnswersAlwaysCurrent` | `PartsSpec => []AnswersAreCurrent` | `CatalogInv`: the histories are what they say (`HistoryHolds`), and after each read what was found lies between what was always there and what was ever there (`Chosen`, `Gathered`, `Listed`, `Whole`); the highest version of a finite set exists (`HighestVersion`) |
| `IconsAlwaysResolve`, `PacksAlwaysFresh` | `PartsSpec => []IconsResolve`, `PartsSpec => PacksAreFresh` | `PackageInv`: while nothing was edited, plan, `dist` and package hold files of the source, and each step of the build has added what it says (`FollowsSource`); the kinds of files are told apart by their places (`KindsOfFilesDiffer`) |
| `UploadsAlwaysStand` | `PartsSpec => []UploadsStand` | `UploadInv`: what the default source had pending at the start is in the snapshot of every upload or installed meanwhile, and a rollback comes after a fault or for a package its own source has installed (`RollbacksSpare`); what a call reports stays where it is, or the failure that took it along is remembered in the report of the other (`Remembers`, `StillStand`) |
| `AccountedAlways` | `PartsSpec => []Accounted` | `AccountInv`: each file is still to be taken and reported nowhere, or reported as lost once, or each of its plugins is to do, done or failed as often as it occurs in the file (`Balanced`); occurrences are cardinalities of disjoint sets, so that no induction is needed |
| `FailuresAlwaysTold` | `PartsSpec => []FailuresAreTold` | `StageHolds`: at every stage the error that was raised is in the chain of causes, a known number of links further down and perhaps cut at the end (`Under`, `Shown`), and the links above it say its code |
| `NodesServeWhenReady` | `PartsSpec => []S!ServesWhenReady` | `ServerInv`: a node has what its phase follows (`PhasesInOrder`, `AttemptsInOrder`); who has done a kind of static data, and whoever left its digest, has all logos stored (`UploadedIsThere`); uploads at the same time are of one release, unless one was torn, and then the digest is that of the logos (`UploadsAgree`) |
| `PodsAlwaysLeaveNothing` | `PartsSpec => []PodsLeaveNothing` | `PodInv`: a pod that has not started has nothing (`PodUntouched`), one that was forked has a process and a directory (`PodForked`), and while something runs after a `kill()` the escalation is armed; the directory goes with the process or with the escalation (`PodEscalates`) |
| `NodeTypes`, `PodTypes` | `PartsSpec => []S!TypeOK`, `PartsSpec => []P!TypeOK` | parts of `ServerInv` and `PodInv` |

The assumptions are those the modules name or a theorem states: finite sets of
pods, requests, nodes, runtimes and connections, a value apart for "none",
`minPods <= maxPods`, and positive limits and leases, as the configuration
schemas require. `ServerParts` names those of the parts, as the code gives
them: a source is not at once installed and in debugging, versions are finitely
many and positive, a batch is a sequence of files with sequences of plugins, and
no plugin has the name of a file; messages of errors are strings; the value for
"none" is no call, release or code. `OvershootBounded` assumes that the configurations differ in
fields other than `maxRequestsPerPod`; `OvershootWithin` does not.

`ClientsProofs` proves the two invariants of the debug channel for every
number of calls, keys, faults and edits. Both rest on `ExchangeWaits`: the CLI
has a call under way only while its loop awaits the exchange, so no other phase
can lose or restart one. `KeyIsInUse` then needs `Chosen`, which follows the key
from the prompt of the user over the exchange and the bind to the session, and
says in each phase what of link, token and saved key must already agree; a
server that deletes the session of a connected loop makes the loop leave in the
same step. `StaleSessionsAreClosed` is inductive on that rest: who changes the
record either is itself on the way to close the session or leaves it marked as
late, and a handler on that way ends it only by deleting that very session or
by a failed request (`OthersClose`). Both need that `None` is no session.

The same module proves `TruthIsHeard` of the callers of tools, for tools of any
number of messages and files of any number of chunks. Over the server
(`RunInv`): what the caller has heard is the beginning of what the tool wrote,
all of it stream messages (`HeardAsWritten`); while it reads on, what is on the
connection continues it, with the error at the end as the only addition
(`WireFollows`), what the stream holds continues that (`DataFollows`), and the
buffer of the client is where the connection was cut. A message that is taken
from one and put at the end of the next keeps all three; a failed stream drops
its messages, but then says nothing of the rest. In the command (`LocalInv`):
the output has one last message, which is there when it has ended; the command
knows a response or an error only of that one (`TakenAsSent`), and a URL is given
only for a file that has all its chunks.

Only model-checked: whatever holds under fairness, the liveness of
`KeepsPromise` included, because the prover has no rules for liveness here; and
the part of `ServesWhenReady` that says a node can go on (`NeverStuck`), because
it is stated with ENABLED. Every invariant and every action property that a
passing run checks is otherwise a theorem. Of what
the library defines by CHOOSE or recursion (the maximum of a set of versions,
the order of a set of failures, cardinalities) the proofs use only that it is
what it is chosen to be: a number none of the set exceeds, a sequence that holds
each element once.

## 7. Not modelled

Contracts, metrics, logging and the parsing of the environment keep no state
another component decides on. Object storage (S3) and the expiry of files are
calls of an external service whose results nothing of the server reads.
Templates, prompts and the terminal and web interfaces are I/O without a
protocol. Of the modelled components, what is left out is noted per component
in `PROJECT.json`; the largest pieces are the receiving side of `drainTo`, the
notifications of the channel other than streams, messages a plugin could only
send without the SDK, the reverse invocations of a debugged tool, and the
shutdown of the gateway.

## 8. Running

    tlc -workers 2 -config serve.cfg MCPluginService
    tlc -workers 2 -config parts.cfg MCServerParts
    tlapm PluginServiceProofs.tla

A passing run takes up to two minutes on two cores. The proofs of
`ServerPartsProofs` take up to a quarter of an hour, those of
`PluginRepoProofs`, `RuntimeManagerProofs` and `PluginServiceProofs` up to seven
minutes each, the others less than two or three.

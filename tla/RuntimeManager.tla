--------------------------- MODULE RuntimeManager ---------------------------
(***************************************************************************)
(* The runtime managers of the server processes that share one MongoDB and *)
(* one Redis: drivers/local-pool/local-pool-runtime.driver.ts              *)
(* (LocalPoolPluginRuntimeManager), redis/version-key.ts (VersionKeyStore) *)
(* and plugin-runtime-config.repo.ts (PluginRuntimeConfigRepo).            *)
(*                                                                         *)
(* Runtimes are the versions of one plugin: each has a version key of its  *)
(* own, all share the version key of the configuration.  A configuration   *)
(* is its minPods; every one has the same maxPods.  A call is one coroutine *)
(* of a public operation; between two of its awaits nothing else of its    *)
(* node runs, so a call makes one step per await.  Redis answers the       *)
(* commands of one connection in order: a command and the handling of its  *)
(* reply are one step.  A command may fail, before Redis executed it or    *)
(* after, and the exception ends the call.                                 *)
(*                                                                         *)
(* Abstracted: when a service starts and ends pods (module PluginService). *)
(* Here it has a number of them, which a pod that starts or ends changes,  *)
(* up to maxPods and without a quota check, until its destruction ends.    *)
(***************************************************************************)
EXTENDS Integers, FiniteSets

CONSTANTS
  Nodes, Runtimes,
  Calls,     \* bound: calls made, pods started or ended, and restarts
  Configs,   \* the configurations, each the number of pods it starts
  Default,   \* LOCAL_POOL_DEFAULT_PLUGIN_CONFIG
  PodLimit,  \* maxPods of a configuration
  MaxPods,   \* managerConfig.maxTotalPods
  None

ASSUME ManagerAssumption ==
  /\ IsFiniteSet(Calls) /\ 0 \notin Calls
  /\ PodLimit \in Nat /\ Configs \subseteq 0..PodLimit /\ Default \in Configs
  /\ MaxPods \in Nat
  /\ IsFiniteSet(Nodes) /\ IsFiniteSet(Runtimes)

ASSUME NoneAssumption ==
  None \notin Nat /\ None \notin Nodes /\ None \notin Runtimes /\ None \notin Calls

VARIABLES
  stored,     \* the document of plugin_runtime_config (the default if there is none)
  redis,      \* Redis: the version of a key, or None
  local,      \* versionKeyMap of each node
  plugins,    \* plugins: the service of a runtime, by the call that created it
  service,    \* every PluginService object: phase, configuration, pods of its fleet and, of
              \* these (history), those that a quota check granted
  destroyed,  \* destroyed of each node
  call,       \* the coroutines
  excuse      \* history: what happened to a runtime of a node, see Excuses

vars == <<stored, redis, local, plugins, service, destroyed, call, excuse>>

Config == "config"   \* the key localPoolConfig@pluginId
Keys == Runtimes \cup {Config}

(* No runtime's key, localPool@uniqueId, is the key of the configuration.  *)
ASSUME KeyAssumption == Config \notin Runtimes

(* A call names the version key it sets and the service it creates; 0 is   *)
(* the registration that precedes the behaviour.                           *)
Versions == Calls \cup {0, None}
Ids == Calls \cup {0}
Places == {<<n, r>> : n \in Nodes, r \in Runtimes}
Services == Nodes \X Runtimes \X Ids

(* "none": not created yet, or its destruction has ended;  "misled":       *)
(* drainTo set drainingTo, then the replacement refused.                   *)
Phases == {"none", "live", "misled", "closing"}

Ops == {"none", "register", "invoke", "unregister", "update", "shutdown", "restart"}
Steps == {"new", "config", "load", "publish", "expiry", "closing", "sync", "save",
          "apply", "refresh", "ending", "done"}

CallRecord ==
  [op : Ops, node : Nodes \cup {None}, rt : Runtimes \cup {None}, step : Steps,
   seen : Versions \X Versions,          \* the local versions compared with Redis
   config : Configs \cup {None},         \* the configuration read or to be saved
   old : SUBSET Services,                \* services whose destruction is awaited
   synced : BOOLEAN]                     \* updatedLocalRuntime

(* A fleet has maxPods pods at most, not all of them granted.              *)
ServiceRecord ==
  {x \in [phase : Phases, config : Configs, pods : 0..PodLimit, granted : 0..PodLimit] : x.granted <= x.pods}

NewCall == [op |-> "none", node |-> None, rt |-> None, step |-> "new",
            seen |-> <<None, None>>, config |-> None, old |-> {}, synced |-> FALSE]

(* withdrawn: unregistered by an operator;  overlap: two calls replaced or  *)
(* updated the service of the place at once, or one replaced it by versions *)
(* read before another ended;  shared: another version of the plugin, or an *)
(* update that did not find this one, took the configuration key as read;  *)
(* raced: an update overlapped another update or a registration;           *)
(* unannounced: a configuration was saved and its version key not set, as  *)
(* Redis failed, the save did not say so, or the node ended: until one is. *)
Excuses == {"withdrawn", "overlap", "shared", "raced", "unannounced"}

-----------------------------------------------------------------------------
Begins(c) == call[c].step = "new"

At(c) == <<call[c].node, call[c].rt>>
Running(c) == call[c].step \notin {"new", "done"}

(* The calls that are replacing a service.                                 *)
Replacing(n, r) ==
  {c \in Calls : At(c) = <<n, r>> /\ call[c].step \in {"config", "load", "publish", "closing", "sync"}}

Updating == {c \in Calls : call[c].step \in {"apply", "refresh"}}
Registering == {c \in Calls : call[c].step \in {"load", "publish", "sync"}}

(* getTotalPods: the pods in the fleets of the services in plugins;        *)
(* pendingPodReservations: minPods of the registrations between their quota *)
(* check and their end.  A pod is its service, or its call, and a number.  *)
Alive(s) == service[s].phase # "none"
PodsOf(s) == IF Alive(s) THEN {s} \X (1..service[s].pods) ELSE {}
PodsIn(S) == UNION {PodsOf(s) : s \in S}
Entry(n, r) == <<n, r, plugins[n][r]>>
Has(n, r) == plugins[n][r] # None

Loaded(n) == {Entry(n, r) : r \in {q \in Runtimes : Has(n, q)}}

Reserving(n) == {c \in Calls : call[c].node = n /\ call[c].step \in {"load", "publish"}}

TotalPods(n) == Cardinality(PodsIn(Loaded(n)))

ReservedBy(S) == UNION {{c} \X (1..call[c].config) : c \in S}
Reserved(n) == Cardinality(ReservedBy(Reserving(n)))

TotalPodsUnreserved(n) == TotalPods(n) \* mutant: starting services do not count

TotalPodsIncludingReservations(n) == TotalPods(n) + Reserved(n)

IsExpiredByRuntime(seen, r) == seen[1] # redis[r] \* mutant

(* isVersionKeyExpired for both keys, given the local versions.            *)
IsExpired(seen, r) == seen # <<redis[r], redis[Config]>>
LocalVersions(n, r) == <<local[n][r], local[n][Config]>>
Expired(n, r) == IsExpired(LocalVersions(n, r), r)

Becomes(c, k) == call' = [call EXCEPT ![c] = k]
Goes(c, step) == Becomes(c, [call[c] EXCEPT !.step = step])
(* What the call returns is not kept.                                      *)
Returns(c) == Becomes(c, [NewCall EXCEPT !.step = "done"])

Excused(kind, places) == excuse' = [excuse EXCEPT ![kind] = @ \cup places]

(* Called where c starts to replace the service of its place.              *)
Contends(c, n, r) ==
  IF \/ Replacing(n, r) \ {c} # {} \/ destroyed[n]
     \/ \E d \in Updating : call[d].node = n
     \/ call[c].step = "expiry" /\ call[c].seen # LocalVersions(n, r)
  THEN Excused("overlap", {<<n, r>>})
  ELSE UNCHANGED excuse

(* A service whose pods are those that its registration started.           *)
Service(phase, config, pods) == [phase |-> phase, config |-> config, pods |-> pods, granted |-> pods]

Init ==
  /\ stored = Default
  /\ \E loaded \in SUBSET Places :
       /\ redis = [k \in Keys |-> IF \E n \in Nodes : <<n, k>> \in loaded THEN 0 ELSE None]
       /\ local = [n \in Nodes |-> [k \in Keys |-> IF <<n, k>> \in loaded THEN 0 ELSE None]]
       /\ plugins = [n \in Nodes |-> [r \in Runtimes |-> IF <<n, r>> \in loaded THEN 0 ELSE None]]
       /\ service = [s \in Services |->
            IF s[3] = 0 /\ <<s[1], s[2]>> \in loaded THEN Service("live", Default, Default)
                                                   ELSE Service("none", Default, 0)]
       /\ \A n \in Nodes : TotalPods(n) <= MaxPods
  /\ destroyed = [n \in Nodes |-> FALSE]
  /\ call = [c \in Calls |-> NewCall]
  /\ excuse = [e \in Excuses |-> {}]

-----------------------------------------------------------------------------
(* register                                                                *)

(* From the call to its first await; m is the node's plugins.              *)
Enters(c, k, m) ==
  IF destroyed[k.node] \/ m[k.rt] # None
  THEN Returns(c)
  ELSE Becomes(c, [k EXCEPT !.step = "config", !.old = {}])

Register(c, n, r) ==
  /\ Begins(c)
  /\ Enters(c, [NewCall EXCEPT !.op = "register", !.node = n, !.rt = r], plugins[n])
  /\ IF destroyed[n] \/ Has(n, r) THEN UNCHANGED excuse ELSE Contends(c, n, r)
  /\ UNCHANGED <<stored, redis, local, plugins, service, destroyed>>

(* The configuration is read; the quota is checked and reserved.           *)
ReadConfig(c) ==
  /\ call[c].step = "config"
  /\ \/ Returns(c) /\ UNCHANGED excuse
     \/ IF TotalPodsIncludingReservations(call[c].node) + stored > MaxPods
        THEN Returns(c) /\ UNCHANGED excuse
        ELSE /\ Becomes(c, [call[c] EXCEPT !.step = "load", !.config = stored])
             /\ IF Updating # {} THEN Excused("raced", {At(c)}) ELSE UNCHANGED excuse
  /\ UNCHANGED <<stored, redis, local, plugins, service, destroyed>>

LoadLeavingPods(c) == \* mutant: a service that fails to initialise keeps its pods
  LET n == call[c].node  r == call[c].rt IN
  /\ call[c].step = "load"
  /\ service' = [service EXCEPT ![<<n, r, c>>] = Service("live", call[c].config, call[c].config)]
  /\ \/ Returns(c) /\ UNCHANGED plugins
     \/ plugins' = [plugins EXCEPT ![n][r] = c] /\ Goes(c, "publish")
  /\ UNCHANGED <<stored, redis, local, destroyed, excuse>>

(* getPluginById, new PluginService and initialize: each may fail before a *)
(* pod is started.  initialize ignores a pod that fails to start: it is one *)
(* that ends at once.  plugins.set overwrites.                             *)
Load(c) ==
  LET n == call[c].node  r == call[c].rt IN
  /\ call[c].step = "load"
  /\ \/ /\ Returns(c)
        /\ UNCHANGED <<plugins, service>>
     \/ /\ plugins' = [plugins EXCEPT ![n][r] = c]
        /\ service' = [service EXCEPT ![<<n, r, c>>] = Service("live", call[c].config, call[c].config)]
        /\ Goes(c, "publish")
  /\ UNCHANGED <<stored, redis, local, destroyed, excuse>>

(* The configuration key is taken as read by the whole node.               *)
SharesKey(n, r) ==
  IF local[n][Config] # redis[Config]
  THEN Excused("shared", {<<n, q>> : q \in Runtimes \ {r}})
  ELSE UNCHANGED excuse

(* syncVersionKey                                                          *)
Synced(n, keys) == [local EXCEPT ![n] = [k \in Keys |-> IF k \in keys THEN redis'[k] ELSE @[k]]]

(* Both keys are read, and those that Redis answers for are kept; any other *)
(* answer is an exception.                                                 *)
Syncs(n, r, keys) ==
  /\ local' = Synced(n, keys)
  /\ IF Config \in keys THEN SharesKey(n, r) ELSE UNCHANGED excuse

(* ensureVersionKey (SET NX) or syncVersionKey, and the reservation ends,  *)
(* also with the exception of a command that fails.                        *)
Publish(c) ==
  LET n == call[c].node  r == call[c].rt  registers == call[c].op = "register" IN
  /\ call[c].step = "publish"
  /\ \E keys \in SUBSET {r, Config} :
       /\ \/ registers /\ redis[r] = None /\ redis' = [redis EXCEPT ![r] = c]
          \/ (registers /\ redis[r] = None => r \notin keys) /\ redis' = redis
       /\ Syncs(n, r, keys)
       /\ IF registers \/ keys # {r, Config}
          THEN Returns(c)
          ELSE Becomes(c, [call[c] EXCEPT !.step = "sync", !.config = None])
  /\ UNCHANGED <<stored, plugins, service, destroyed>>

-----------------------------------------------------------------------------
(* unregister                                                              *)

(* destroy() or drainTo() of the service, which does nothing twice.        *)
Destroyable(s) == service[s].phase \in {"live", "misled"}

InPhase(S, phase) == [s \in Services |-> IF s \in S THEN [service[s] EXCEPT !.phase = phase] ELSE service[s]]

(* The destruction of S ends: no pod is left.                              *)
Ended(S) == [s \in Services |-> IF s \in S THEN Service("none", service[s].config, 0) ELSE service[s]]

Unloaded(n, r) == [plugins EXCEPT ![n][r] = None]

(* The service of the place is told to close; its caller waits, or, when   *)
(* it is closing already, deletes the entry at once and goes on with k.    *)
Closes(c, k, s) ==
  /\ Destroyable(s)
  /\ service' = InPhase({s}, "closing")
  /\ Becomes(c, [k EXCEPT !.step = "closing", !.old = {s}])
  /\ UNCHANGED plugins

(* After plugins.delete: unregister returns, a reload registers.           *)
Deleted(c, k) ==
  /\ plugins' = Unloaded(k.node, k.rt)
  /\ IF k.op = "unregister" THEN Returns(c) ELSE Enters(c, k, plugins'[k.node])

Withdraws(c, n, r) ==
  excuse' = [excuse EXCEPT !["withdrawn"] = @ \cup {<<n, r>>},
                           !["overlap"] = IF Replacing(n, r) \ {c} # {} \/ destroyed[n]
                                          THEN @ \cup {<<n, r>>} ELSE @]

Unregister(c, n, r) ==
  LET k == [NewCall EXCEPT !.op = "unregister", !.node = n, !.rt = r]  s == Entry(n, r) IN
  /\ Begins(c)
  /\ IF ~Has(n, r)
     THEN Returns(c) /\ UNCHANGED <<plugins, service, excuse>>
     ELSE /\ Closes(c, k, s) \/ (~Destroyable(s) /\ Deleted(c, k) /\ UNCHANGED service)
          /\ Withdraws(c, n, r)
  /\ UNCHANGED <<stored, redis, local, destroyed>>

(* unregister with replacementUniqueId: drainTo hands over to new's service.*)
Replace(c, n, r, new) ==
  LET k == [NewCall EXCEPT !.op = "unregister", !.node = n, !.rt = r]  s == Entry(n, r) IN
  /\ Begins(c) /\ new # r
  /\ \/ /\ ~Has(n, r) \/ ~Has(n, new)
        /\ Returns(c) /\ UNCHANGED <<plugins, service, excuse>>
     \/ /\ Has(n, r) /\ Has(n, new) /\ Destroyable(s)
        /\ IF service[Entry(n, new)].phase \in {"live", "misled"}
           THEN Closes(c, k, s) /\ Withdraws(c, n, r)
           ELSE /\ service' = InPhase({s}, "misled") /\ Returns(c)
                /\ UNCHANGED <<plugins, excuse>>
     \/ /\ Has(n, r) /\ Has(n, new) /\ ~Destroyable(s)
        /\ Deleted(c, k) /\ Withdraws(c, n, r) /\ UNCHANGED service
  /\ UNCHANGED <<stored, redis, local, destroyed>>

ClosedSyncing(c) == \* mutant: the keys are synchronised before the reload
  LET k == call[c] IN
  /\ k.step = "closing"
  /\ service' = Ended(k.old)
  /\ Deleted(c, k)
  /\ local' = [local EXCEPT ![k.node] = [key \in Keys |-> IF key \in {k.rt, Config} THEN redis[key] ELSE @[key]]]
  /\ UNCHANGED <<stored, redis, destroyed, excuse>>

(* The pods are gone: whatever is in plugins by now is deleted.            *)
Closed(c) ==
  /\ call[c].step = "closing"
  /\ service' = Ended(call[c].old)
  /\ Deleted(c, call[c])
  /\ UNCHANGED <<stored, redis, local, destroyed, excuse>>

-----------------------------------------------------------------------------
(* invoke, as far as plugin.service.invoke                                 *)

Invoke(c, n, r) ==
  /\ Begins(c)
  /\ IF destroyed[n]
     THEN Returns(c)
     ELSE Becomes(c, [NewCall EXCEPT !.op = "invoke", !.node = n, !.rt = r, !.step = "expiry",
                                     !.seen = LocalVersions(n, r)])
  /\ UNCHANGED <<stored, redis, local, plugins, service, destroyed, excuse>>

(* getPlugin: both keys are read (or the read fails); an expired service   *)
(* is unregistered, then registered again.                                 *)
CheckVersions(c) ==
  LET n == call[c].node  r == call[c].rt  s == Entry(n, r)
      k == [call[c] EXCEPT !.seen = NewCall.seen] IN
  /\ call[c].step = "expiry"
  /\ \/ Returns(c) /\ UNCHANGED <<plugins, service, excuse>>
     \/ /\ IsExpired(call[c].seen, r)
        /\ Contends(c, n, r)
        /\ \/ ~Has(n, r) /\ Enters(c, k, plugins[n]) /\ UNCHANGED <<plugins, service>>
           \/ Has(n, r) /\ Closes(c, k, s)
           \/ Has(n, r) /\ ~Destroyable(s) /\ Deleted(c, k) /\ UNCHANGED service
  /\ UNCHANGED <<stored, redis, local, destroyed>>

(* getPlugin synchronises both keys once more, and looks the service up.   *)
Sync(c) ==
  LET n == call[c].node  r == call[c].rt IN
  /\ call[c].step = "sync"
  /\ UNCHANGED <<stored, redis, plugins, service, destroyed>>
  /\ \E keys \in SUBSET {r, Config} : Syncs(n, r, keys)
  /\ Returns(c)

-----------------------------------------------------------------------------
(* updateConfig; resetConfig is updateConfig(Default)                      *)

UpdateConfig(c, n, config) ==
  /\ Begins(c)
  /\ Becomes(c, [NewCall EXCEPT !.op = "update", !.node = n, !.step = "save", !.config = config])
  /\ UNCHANGED <<stored, redis, local, plugins, service, destroyed, excuse>>

Races == Updating # {} \/ Registering # {}

(* It is saved or not; or it is, and the answer is an error all the same.  *)
Save(c) ==
  /\ call[c].step = "save"
  /\ \/ Returns(c) /\ UNCHANGED <<stored, excuse>>
     \/ /\ stored' = call[c].config
        /\ Goes(c, "apply")
        /\ IF Races THEN Excused("raced", Places) ELSE UNCHANGED excuse
     \/ /\ stored' = call[c].config
        /\ Returns(c)
        /\ excuse' = [excuse EXCEPT !["unannounced"] = Places, !["raced"] = IF Races THEN Places ELSE @]
  /\ UNCHANGED <<redis, local, plugins, service, destroyed>>

(* A service that has so many pods now; those it starts beyond what it had *)
(* no quota check has granted.                                             *)
WithPods(x, pods) == [x EXCEPT !.pods = pods, !.granted = IF @ > pods THEN pods ELSE @]

(* What ensureMinPods (some pods may fail to start) or trimming may leave.  *)
Between(a, b) == (a..b) \cup (b..a)

(* updateLoadedPluginConfigs.  The mutex of an entry and the pods a service *)
(* starts or stops delay the refresh, as any step may be delayed.          *)
Apply(c) ==
  LET n == call[c].node  new == call[c].config IN
  /\ call[c].step = "apply"
  /\ \E pods \in [Loaded(n) -> 0..PodLimit] :
       /\ \A s \in Loaded(n) : pods[s] \in Between(service[s].pods, new)
       /\ service' = [s \in Services |->
            IF s \in Loaded(n) THEN [WithPods(service[s], pods[s]) EXCEPT !.config = new] ELSE service[s]]
  /\ Becomes(c, [call[c] EXCEPT !.step = "refresh", !.config = None, !.synced = Loaded(n) # {}])
  /\ Excused("overlap", {<<n, r>> : r \in {q \in Runtimes : Replacing(n, q) # {}}})
  /\ UNCHANGED <<stored, redis, local, plugins, destroyed>>

(* refreshVersionKey, where Redis answers.                                 *)
Refresh(c) ==
  LET n == call[c].node IN
  /\ call[c].step = "refresh"
  /\ redis' = [redis EXCEPT ![Config] = c]
  /\ local' = IF call[c].synced THEN [local EXCEPT ![n][Config] = c] ELSE local
  /\ Returns(c)
  /\ excuse' = [excuse EXCEPT
       !["unannounced"] = {},
       !["shared"] = IF call[c].synced THEN @ \cup ({<<n, r>> : r \in {q \in Runtimes : ~Has(n, q)}}) ELSE @]
  /\ UNCHANGED <<stored, plugins, service, destroyed>>

(* The SET fails: the other nodes are not told, unless only its answer was *)
(* lost.                                                                   *)
RefreshFails(c) ==
  /\ call[c].step = "refresh"
  /\ \/ redis' = [redis EXCEPT ![Config] = c] /\ UNCHANGED excuse
     \/ redis' = redis /\ Excused("unannounced", {<<n, r>> : n \in Nodes \ {call[c].node}, r \in Runtimes})
  /\ Returns(c)
  /\ UNCHANGED <<stored, local, plugins, service, destroyed>>

-----------------------------------------------------------------------------
(* The fleets                                                              *)

(* createPod for a request or to restore minPods: onPodCreated only warns  *)
(* when maxTotalPods is exceeded.                                          *)
PodStarts(c, s) ==
  /\ Begins(c)
  /\ Alive(s) /\ service[s].pods < PodLimit
  /\ service' = [service EXCEPT ![s] = WithPods(@, @.pods + 1)]
  /\ Returns(c)
  /\ UNCHANGED <<stored, redis, local, plugins, destroyed, excuse>>

(* A pod crashes, is recycled or trimmed, or never came up.                *)
PodEnds(c, s) ==
  /\ Begins(c)
  /\ Alive(s) /\ service[s].pods > 0
  /\ service' = [service EXCEPT ![s] = WithPods(@, @.pods - 1)]
  /\ Returns(c)
  /\ UNCHANGED <<stored, redis, local, plugins, destroyed, excuse>>

-----------------------------------------------------------------------------
(* shutdown, and the process                                               *)

Shutdown(c, n) ==
  LET mine == {s \in Loaded(n) : Destroyable(s)} IN
  /\ Begins(c)
  /\ IF destroyed[n]
     THEN Returns(c) /\ UNCHANGED <<service, destroyed, excuse>>
     ELSE /\ destroyed' = [destroyed EXCEPT ![n] = TRUE]
          /\ service' = InPhase(mine, "closing")
          /\ Becomes(c, [NewCall EXCEPT !.op = "shutdown", !.node = n, !.step = "ending", !.old = mine])
          /\ Excused("overlap", {<<n, r>> : r \in {q \in Runtimes : Replacing(n, q) # {}}})
  /\ UNCHANGED <<stored, redis, local, plugins>>

ShutdownEnds(c) ==
  /\ call[c].step = "ending"
  /\ service' = Ended(call[c].old)
  /\ plugins' = [plugins EXCEPT ![call[c].node] = [r \in Runtimes |-> None]]
  /\ Returns(c)
  /\ UNCHANGED <<stored, redis, local, destroyed, excuse>>

(* The process ends, its pods and coroutines with it, and starts anew.     *)
Restart(c, n) ==
  /\ Begins(c)
  /\ destroyed' = [destroyed EXCEPT ![n] = FALSE]
  /\ plugins' = [plugins EXCEPT ![n] = [r \in Runtimes |-> None]]
  /\ local' = [local EXCEPT ![n] = [k \in Keys |-> None]]
  /\ service' = Ended({s \in Services : s[1] = n})
  /\ call' = [d \in Calls |-> IF d = c \/ (call[d].node = n /\ Running(d))
                              THEN [NewCall EXCEPT !.step = "done"] ELSE call[d]]
  /\ IF \E d \in Updating : call[d].node = n THEN Excused("unannounced", Places) ELSE UNCHANGED excuse
  /\ UNCHANGED <<stored, redis>>

-----------------------------------------------------------------------------
Begin(c) ==
  \E n \in Nodes :
    \/ \E r \in Runtimes : Register(c, n, r) \/ Unregister(c, n, r) \/ Invoke(c, n, r)
    \/ \E r, new \in Runtimes : Replace(c, n, r, new)
    \/ \E config \in Configs : UpdateConfig(c, n, config)
    \/ Shutdown(c, n) \/ Restart(c, n)

Fleets(c) == \E s \in Services : PodStarts(c, s) \/ PodEnds(c, s)

Continue(c) ==
  \/ ReadConfig(c) \/ Load(c) \/ Publish(c)
  \/ Closed(c) \/ CheckVersions(c) \/ Sync(c)
  \/ Save(c) \/ Apply(c) \/ Refresh(c) \/ RefreshFails(c)
  \/ ShutdownEnds(c)

Next == \E c \in Calls : Begin(c) \/ Fleets(c) \/ Continue(c)

Spec == Init /\ [][Next]_vars

-----------------------------------------------------------------------------
(* Properties                                                              *)

(* A call has a node unless it has not begun or has ended, a configuration *)
(* exactly while it may apply it, and services to wait for only while it waits. *)
CallOK(k) ==
  /\ k \in CallRecord
  /\ k.step \in {"new", "done"} <=> k.node = None
  /\ k.step \in {"load", "publish", "save", "apply"} <=> k.config # None
  /\ k.old # {} => k.step \in {"closing", "ending"}
  /\ k.step \in {"config", "load", "publish", "closing", "expiry", "sync"} => k.rt # None

(* Every variable holds what its declaration says.                         *)
TypeOK ==
  /\ stored \in Configs
  /\ redis \in [Keys -> Versions]
  /\ local \in [Nodes -> [Keys -> Versions]]
  /\ plugins \in [Nodes -> [Runtimes -> Ids \cup {None}]]
  /\ service \in [Services -> ServiceRecord]
  /\ destroyed \in [Nodes -> BOOLEAN]
  /\ DOMAIN call = Calls /\ \A c \in Calls : CallOK(call[c])
  /\ excuse \in [Excuses -> SUBSET Places]

AtRest == \A c \in Calls : ~Running(c)

Not(kinds, n, r) == \A e \in kinds : <<n, r>> \notin excuse[e]

(* Every service the node ever had; the registrations that passed the quota *)
(* check and have started no pod yet.                                      *)
Own(n) == {s \in Services : s[1] = n}
Loading(n) == {c \in Reserving(n) : call[c].step = "load"}

Granted(s) == IF Alive(s) THEN {s} \X (1..service[s].granted) ELSE {}
GrantedIn(S) == UNION {Granted(s) : s \in S}

(* Registrations never take a node past the quota: the pods they started,  *)
(* of services the node forgot too, and those they are about to start stay *)
(* within it, unless two calls replaced one service at once.  What goes    *)
(* beyond it are pods that services started later, which nothing checks.   *)
QuotaHolds ==
  \A n \in Nodes :
    (\A r \in Runtimes : Not({"overlap"}, n, r)) =>
      Cardinality(GrantedIn(Own(n))) + Cardinality(ReservedBy(Loading(n))) <= MaxPods

(* A service runs under a configuration that is not the stored one only    *)
(* while its keys are expired, so that its next invocation reloads it.     *)
(* Excused: updates that overlapped, a key taken over by another version   *)
(* and, until the next announced update, one the other nodes were not told. *)
ConfigFresh ==
  AtRest => \A n \in Nodes, r \in Runtimes :
    Has(n, r) /\ service[Entry(n, r)].config # stored
      /\ Not({"raced", "shared", "overlap", "unannounced"}, n, r)
      => Expired(n, r)

(* Once a runtime is published, a node that has none of it and has not     *)
(* given it up would load it at the next invocation, also after a reload   *)
(* that failed and after a restart.                                        *)
Reachable ==
  AtRest => \A n \in Nodes, r \in Runtimes :
    redis[r] # None /\ ~Has(n, r) /\ ~destroyed[n] /\ Not({"withdrawn", "shared", "overlap"}, n, r)
      => Expired(n, r)

(* No service keeps pods without an entry in plugins, unless two calls     *)
(* replaced the service of its place at once.                              *)
NoOrphans ==
  \A s \in Services :
    Destroyable(s) /\ Not({"overlap"}, s[1], s[2]) => plugins[s[1]][s[2]] = s[3]

(* process-pool-design.md: a node whose cache is expired reloads.  With    *)
(* updates and registrations one after the other, every service would have *)
(* the stored configuration or be reloaded by its next invocation.         *)
ConfigReachesNodes ==
  AtRest => \A n \in Nodes, r \in Runtimes :
    Has(n, r) /\ service[Entry(n, r)].config # stored /\ Not({"raced", "overlap", "unannounced"}, n, r)
      => Expired(n, r)

(* process-pool-design.md: maxTotalPods controls the number of processes.  *)
(* A node would never have more pods than that.                            *)
PodsStayWithinQuota == \A n \in Nodes : TotalPods(n) <= MaxPods
=============================================================================

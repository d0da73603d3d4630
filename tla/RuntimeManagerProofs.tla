------------------------ MODULE RuntimeManagerProofs ------------------------
(***************************************************************************)
(* What holds of the runtime managers for any number of nodes, versions,   *)
(* calls and configurations.                                               *)
(*                                                                         *)
(* Every invariant speaks of one place, a runtime on a node, and of the    *)
(* calls that are about to change it; an excuse once given is never taken  *)
(* back (but "unannounced"), so a place that has none after a step had     *)
(* none before.  At the    *)
(* centre is OrphanInv: as long as no two calls replaced the service of a  *)
(* place at once, the one that does loads only where nothing that could    *)
(* still be destroyed is left.  The configuration, the version keys and the *)
(* quota each need more, stated below and where it is used.                *)
(***************************************************************************)
EXTENDS RuntimeManager, FiniteSetTheorems, TLAPS

(* A shutdown that waits for its services has set destroyed.               *)
Destroying == \A c \in Calls : call[c].step = "ending" => destroyed[call[c].node]

TypeInv == TypeOK /\ Destroying

(* One call at most replaces the service of the place.  It loads only      *)
(* where there is no entry, and what it waits for cannot be told to close  *)
(* again; a service that can be is the one in plugins.                     *)
Kept(n, r) ==
  /\ \A i \in Ids : Destroyable(<<n, r, i>>) => plugins[n][r] = i /\ ~destroyed[n]
  /\ \A c, d \in Replacing(n, r) : c = d
  /\ \A c \in Replacing(n, r) :
       /\ ~destroyed[n]
       /\ call[c].step \in {"config", "load"} => ~Has(n, r)
       /\ call[c].step = "closing" /\ Has(n, r) => ~Destroyable(Entry(n, r))

OrphanInv == \A n \in Nodes, r \in Runtimes : Not({"overlap"}, n, r) => Kept(n, r)

(* The key of a runtime is set once, so that a node has it or nothing; a   *)
(* call that has not ended has not given its version to the configuration. *)
VersionInv ==
  /\ \A n \in Nodes, r \in Runtimes : local[n][r] \in {None, redis[r]}
  /\ \A c \in Calls : call[c].step # "done" =>
       redis[Config] # c /\ \A n \in Nodes : local[n][Config] # c

(* A published runtime that the node has not would be loaded at the next   *)
(* invocation; a reload under way keeps that so until its end.             *)
Due(n, r) ==
  /\ ~Has(n, r) /\ ~destroyed[n] /\ redis[r] # None => Expired(n, r)
  /\ \A c \in Replacing(n, r) :
       /\ call[c].step \in {"publish", "sync"} => Has(n, r)
       /\ call[c].step = "closing" /\ redis[r] # None => Expired(n, r)
       /\ \A d \in Updating : call[d].node = n => call[d].step # "refresh"

ReachInv == \A n \in Nodes, r \in Runtimes : Not({"withdrawn", "shared", "overlap"}, n, r) => Due(n, r)

Uniform(n, r) == Has(n, r) => service[Entry(n, r)].config = stored

(* One update at most is between its save and its refresh, and none while  *)
(* the place is registered; what a registration read is still stored; and  *)
(* with no update under way the service has the stored configuration or    *)
(* its keys are expired, unless its node was not told of the last update.  *)
Settled(n, r) ==
  /\ \A d, e \in Updating : d = e
  /\ \A d \in Updating : /\ call[d].step = "apply" => call[d].config = stored
                         /\ \A c \in Registering : At(c) # <<n, r>>
                         /\ call[d].step = "refresh" /\ call[d].node = n => Uniform(n, r)
  /\ \A c \in Registering : At(c) = <<n, r>> =>
       IF call[c].step = "load" THEN call[c].config = stored ELSE Uniform(n, r)
  /\ Updating = {} /\ <<n, r>> \notin excuse["unannounced"] => Uniform(n, r) \/ Expired(n, r)

FreshInv == \A n \in Nodes, r \in Runtimes : Not({"raced", "shared", "overlap"}, n, r) => Settled(n, r)

-----------------------------------------------------------------------------
(* Types                                                                   *)

LEMMA KeyFacts ==
  /\ Runtimes \subseteq Keys /\ Config \in Keys
  /\ None \in Versions /\ 0 \in Versions /\ Calls \subseteq Versions
  /\ 0 \in Ids /\ Calls \subseteq Ids
  /\ None \notin Ids /\ None \notin Calls /\ 0 \notin Calls
BY ManagerAssumption, NoneAssumption DEF Keys, Versions, Ids

(* What a service may be, and what is done to one.                         *)
LEMMA ServiceTypes ==
  ASSUME NEW phase \in Phases, NEW config \in Configs, NEW pods \in 0..PodLimit
  PROVE  /\ Service(phase, config, pods) \in ServiceRecord
         /\ Service(phase, config, pods).phase = phase /\ Service(phase, config, pods).config = config
         /\ Service(phase, config, pods).granted = pods
BY ManagerAssumption DEF Service, ServiceRecord

LEMMA PhaseRecord ==
  ASSUME NEW x \in ServiceRecord, NEW phase \in Phases
  PROVE  /\ [x EXCEPT !.phase = phase] \in ServiceRecord
         /\ [x EXCEPT !.phase = phase].phase = phase
         /\ [x EXCEPT !.phase = phase].config = x.config
         /\ [x EXCEPT !.phase = phase].granted = x.granted
BY DEF ServiceRecord

LEMMA PodsRecord ==
  ASSUME NEW x \in ServiceRecord, NEW pods \in 0..PodLimit
  PROVE  /\ WithPods(x, pods) \in ServiceRecord
         /\ WithPods(x, pods).phase = x.phase /\ WithPods(x, pods).config = x.config
         /\ WithPods(x, pods).granted <= x.granted
<1> DEFINE granted == IF x.granted > pods THEN pods ELSE x.granted
<1>1. granted \in 0..PodLimit /\ granted <= pods /\ granted <= x.granted
  BY ManagerAssumption DEF ServiceRecord
<1>2. WithPods(x, pods) = [x EXCEPT !.pods = pods, !.granted = granted]
  BY DEF WithPods, ServiceRecord
<1> HIDE DEF granted
<1> QED BY <1>1, <1>2 DEF ServiceRecord

LEMMA ConfigRecord ==
  ASSUME NEW x \in ServiceRecord, NEW config \in Configs
  PROVE  /\ [x EXCEPT !.config = config] \in ServiceRecord
         /\ [x EXCEPT !.config = config].phase = x.phase /\ [x EXCEPT !.config = config].config = config
         /\ [x EXCEPT !.config = config].granted = x.granted
BY DEF ServiceRecord

LEMMA RecordFacts ==
  ASSUME NEW x \in ServiceRecord
  PROVE  /\ x.phase \in Phases /\ x.config \in Configs /\ x.pods \in 0..PodLimit
         /\ x.granted \in 0..PodLimit /\ x.granted <= x.pods
BY DEF ServiceRecord

LEMMA FreshCalls ==
  /\ CallOK(NewCall)
  /\ CallOK([NewCall EXCEPT !.step = "done"])
<1>1. NewCall \in CallRecord /\ [NewCall EXCEPT !.step = "done"] \in CallRecord
  BY KeyFacts DEF NewCall, CallRecord, Ops, Steps
<1> QED BY <1>1 DEF CallOK, NewCall

LEMMA CallTypes ==
  ASSUME TypeOK, NEW c \in Calls
  PROVE  /\ CallOK(call[c]) /\ call[c] \in CallRecord
         /\ Running(c) => call[c].node \in Nodes
         /\ call[c].step \in {"config", "load", "publish", "closing", "expiry", "sync"} => call[c].rt \in Runtimes
         /\ call[c].step \in {"load", "publish", "save", "apply"} => call[c].config \in Configs
         /\ call[c].step \notin {"load", "publish", "save", "apply"} => call[c].config = None
         /\ call[c].step \notin {"closing", "ending"} => call[c].old = {}
         /\ call[c].old \subseteq Services /\ call[c].synced \in BOOLEAN
         /\ call[c].step \in Steps /\ call[c].op \in Ops
BY SMTT(30) DEF TypeOK, CallOK, CallRecord, Running

(* What Becomes does to the calls.                                         *)
LEMMA BecomesMoves ==
  ASSUME TypeOK, NEW c \in Calls, NEW k, Becomes(c, k)
  PROVE  call'[c] = k /\ DOMAIN call' = Calls /\ \A d \in Calls \ {c} : call'[d] = call[d]
BY DEF TypeOK, Becomes

(* The call c moves, to a step that is not the end of a shutdown.          *)
CallsOK(c) ==
  /\ DOMAIN call' = Calls /\ \A d \in Calls \ {c} : call'[d] = call[d]
  /\ CallOK(call'[c]) /\ call'[c].step # "ending"

LEMMA BecomesOK ==
  ASSUME TypeOK, NEW c \in Calls, NEW k, Becomes(c, k), CallOK(k), k.step # "ending"
  PROVE  CallsOK(c)
BY BecomesMoves DEF CallsOK, TypeOK

LEMMA ReturnsOK ==
  ASSUME TypeOK, NEW c \in Calls, Returns(c)
  PROVE  CallsOK(c)
<1>1. [NewCall EXCEPT !.step = "done"].step # "ending"
  BY DEF NewCall
<1> QED BY <1>1, BecomesOK, FreshCalls DEF Returns

LEMMA CallsStayOK ==
  ASSUME TypeInv, NEW c \in Calls, CallsOK(c), UNCHANGED destroyed
  PROVE  /\ DOMAIN call' = Calls /\ \A d \in Calls : CallOK(call'[d])
         /\ Destroying'
BY DEF TypeInv, TypeOK, Destroying, CallsOK

(* A call that is for a runtime and not yet, or no longer, configured.     *)
Directed(k) ==
  /\ k \in CallRecord /\ k.node \in Nodes /\ k.rt \in Runtimes /\ k.config = None

LEMMA BegunIsDirected ==
  ASSUME NEW n \in Nodes, NEW r \in Runtimes, NEW op \in Ops
  PROVE  Directed([NewCall EXCEPT !.op = op, !.node = n, !.rt = r])
BY KeyFacts DEF NewCall, CallRecord, Steps, Directed

LEMMA EntersOK ==
  ASSUME TypeOK, NEW c \in Calls, NEW k, Directed(k), NEW m, Enters(c, k, m)
  PROVE  CallsOK(c)
<1>1. CASE Returns(c)
  BY <1>1, ReturnsOK
<1>2. CASE Becomes(c, [k EXCEPT !.step = "config", !.old = {}])
  <2>1. CallOK([k EXCEPT !.step = "config", !.old = {}])
    BY NoneAssumption DEF Directed, CallOK, CallRecord, Steps
  <2>2. [k EXCEPT !.step = "config", !.old = {}].step = "config"
    BY DEF Directed, CallOK, CallRecord
  <2> QED BY <1>2, <2>1, <2>2, BecomesOK
<1> QED BY <1>1, <1>2 DEF Enters

LEMMA DeletedOK ==
  ASSUME TypeOK, NEW c \in Calls, NEW k, Directed(k), Deleted(c, k)
  PROVE  /\ CallsOK(c)
         /\ plugins' \in [Nodes -> [Runtimes -> Ids \cup {None}]]
<1>1. CallsOK(c)
  BY EntersOK, ReturnsOK DEF Deleted
<1> QED BY <1>1 DEF Deleted, Unloaded, TypeOK

LEMMA PhaseTypes ==
  ASSUME TypeOK, NEW S, NEW phase \in Phases
  PROVE  InPhase(S, phase) \in [Services -> ServiceRecord]
<1>1. ASSUME NEW s \in Services
      PROVE  (IF s \in S THEN [service[s] EXCEPT !.phase = phase] ELSE service[s]) \in ServiceRecord
  BY PhaseRecord DEF TypeOK
<1> QED BY <1>1 DEF InPhase

LEMMA EndedTypes ==
  ASSUME TypeOK, NEW S
  PROVE  Ended(S) \in [Services -> ServiceRecord]
<1>1. 0 \in 0..PodLimit /\ "none" \in Phases
  BY ManagerAssumption DEF Phases
<1>2. \A s \in Services : service[s].config \in Configs
  BY RecordFacts DEF TypeOK
<1>3. \A s \in Services : Service("none", service[s].config, 0) \in ServiceRecord
  BY <1>1, <1>2, ServiceTypes
<1> QED BY <1>3 DEF Ended, TypeOK

LEMMA ClosesOK ==
  ASSUME TypeOK, NEW c \in Calls, NEW k, Directed(k), NEW s \in Services, Closes(c, k, s)
  PROVE  /\ CallsOK(c)
         /\ service' \in [Services -> ServiceRecord]
         /\ UNCHANGED plugins
<1>1. CallOK([k EXCEPT !.step = "closing", !.old = {s}])
  BY NoneAssumption DEF Directed, CallOK, CallRecord, Steps
<1>2. [k EXCEPT !.step = "closing", !.old = {s}].step = "closing"
  BY DEF Directed, CallOK, CallRecord
<1> QED BY <1>1, <1>2, BecomesOK, PhaseTypes DEF Closes, Phases

LEMMA ExcusedOK ==
  ASSUME TypeOK, NEW kind \in Excuses, NEW S \in SUBSET Places, Excused(kind, S)
  PROVE  excuse' \in [Excuses -> SUBSET Places]
BY DEF TypeOK, Excused

LEMMA EntryIsService ==
  ASSUME TypeOK, NEW n \in Nodes, NEW r \in Runtimes
  PROVE  /\ Has(n, r) => Entry(n, r) \in Services
         /\ <<n, r>> \in Places
         /\ LocalVersions(n, r) \in Versions \X Versions
BY KeyFacts DEF TypeOK, Has, Entry, Services, Places, LocalVersions

LEMMA WithdrawsOK ==
  ASSUME TypeOK, NEW c, NEW n \in Nodes, NEW r \in Runtimes, Withdraws(c, n, r)
  PROVE  excuse' \in [Excuses -> SUBSET Places]
<1> DEFINE overlap == IF Replacing(n, r) \ {c} # {} \/ destroyed[n]
                      THEN excuse["overlap"] \cup {<<n, r>>} ELSE excuse["overlap"]
           withdrawn == excuse["withdrawn"] \cup {<<n, r>>}
<1>1. overlap \subseteq Places /\ withdrawn \subseteq Places
  BY EntryIsService DEF TypeOK, Excuses
<1>2. excuse' = [excuse EXCEPT !["withdrawn"] = withdrawn, !["overlap"] = overlap]
  BY DEF Withdraws, TypeOK, Excuses
<1> HIDE DEF overlap, withdrawn
<1> QED BY <1>1, <1>2 DEF TypeOK

LEMMA ContendsOK ==
  ASSUME TypeOK, NEW c, NEW n \in Nodes, NEW r \in Runtimes, Contends(c, n, r)
  PROVE  excuse' \in [Excuses -> SUBSET Places]
<1>1. CASE Excused("overlap", {<<n, r>>})
  BY <1>1, ExcusedOK, EntryIsService DEF Excuses
<1> QED BY <1>1 DEF Contends, TypeOK

LEMMA SharesKeyOK ==
  ASSUME TypeOK, NEW n \in Nodes, NEW r \in Runtimes, SharesKey(n, r)
  PROVE  excuse' \in [Excuses -> SUBSET Places]
<1>1. {<<n, q>> : q \in Runtimes \ {r}} \in SUBSET Places
  BY DEF Places
<1> QED BY <1>1, ExcusedOK DEF SharesKey, TypeOK, Excuses

LEMMA SyncsOK ==
  ASSUME TypeOK, NEW n \in Nodes, NEW r \in Runtimes, NEW keys, redis' \in [Keys -> Versions], Syncs(n, r, keys)
  PROVE  local' \in [Nodes -> [Keys -> Versions]] /\ excuse' \in [Excuses -> SUBSET Places]
<1>1. [k \in Keys |-> IF k \in keys THEN redis'[k] ELSE local[n][k]] \in [Keys -> Versions]
  BY DEF TypeOK
<1>2. excuse' \in [Excuses -> SUBSET Places]
  BY SharesKeyOK DEF Syncs, TypeOK
<1> QED BY <1>1, <1>2 DEF Syncs, Synced, TypeOK

(* Everything but the calls.                                               *)
DataOK ==
  /\ stored \in Configs
  /\ redis \in [Keys -> Versions]
  /\ local \in [Nodes -> [Keys -> Versions]]
  /\ plugins \in [Nodes -> [Runtimes -> Ids \cup {None}]]
  /\ service \in [Services -> ServiceRecord]
  /\ destroyed \in [Nodes -> BOOLEAN]
  /\ excuse \in [Excuses -> SUBSET Places]

LEMMA Typed ==
  ASSUME TypeInv, NEW c \in Calls, CallsOK(c), UNCHANGED destroyed, DataOK'
  PROVE  TypeInv'
BY CallsStayOK DEF TypeInv, TypeOK, DataOK

LEMMA RegisterTypes ==
  ASSUME TypeInv, NEW c \in Calls, NEW n \in Nodes, NEW r \in Runtimes, Register(c, n, r)
  PROVE  TypeInv'
<1> DEFINE k == [NewCall EXCEPT !.op = "register", !.node = n, !.rt = r]
<1>1. Directed(k)
  <2>1. k.op \in Ops
    BY DEF Ops, NewCall
  <2> QED BY <2>1, BegunIsDirected DEF NewCall, Ops
<1>2. CallsOK(c)
  <2> HIDE DEF k
  <2> QED BY <1>1, EntersOK DEF Register, TypeInv, k
<1>3. excuse' \in [Excuses -> SUBSET Places]
  BY ContendsOK DEF Register, TypeInv, TypeOK
<1> QED BY <1>2, <1>3, Typed DEF Register, DataOK, TypeInv, TypeOK

LEMMA ReadConfigTypes ==
  ASSUME TypeInv, NEW c \in Calls, ReadConfig(c)
  PROVE  TypeInv'
<1> DEFINE k == [call[c] EXCEPT !.step = "load", !.config = stored]
<1> USE DEF TypeInv
<1>1. At(c) \in Places
  BY CallTypes DEF ReadConfig, At, Places, Running
<1>2. excuse' \in [Excuses -> SUBSET Places]
  BY <1>1, ExcusedOK DEF ReadConfig, TypeOK, Excuses
<1>3. CallsOK(c)
  <2>1. k \in CallRecord /\ k.step = "load" /\ k.config = stored /\ k.node = call[c].node /\ k.rt = call[c].rt
        /\ k.old = call[c].old
    BY ZenonT(60), CallTypes DEF CallRecord, TypeOK, Steps
  <2>2. CallOK(k)
    BY <2>1, CallTypes, ManagerAssumption, NoneAssumption DEF ReadConfig, CallOK, TypeOK, Running
  <2>3. CASE Returns(c)
    BY <2>3, ReturnsOK
  <2>4. CASE Becomes(c, k)
    <3> HIDE DEF k
    <3> QED BY <2>4, <2>1, <2>2, BecomesOK
  <2> QED BY <2>3, <2>4 DEF ReadConfig
<1> QED BY <1>2, <1>3, Typed DEF ReadConfig, DataOK, TypeOK

LEMMA LoadTypes ==
  ASSUME TypeInv, NEW c \in Calls, Load(c)
  PROVE  TypeInv'
<1> DEFINE k == [call[c] EXCEPT !.step = "publish"]
<1> USE DEF TypeInv
<1>1. call[c].node \in Nodes /\ call[c].rt \in Runtimes /\ call[c].config \in Configs
  BY CallTypes DEF Load, Running
<1>2. CallsOK(c)
  <2>1. k \in CallRecord /\ k.step = "publish" /\ k.config = call[c].config /\ k.node = call[c].node
        /\ k.rt = call[c].rt /\ k.old = call[c].old
    BY CallTypes DEF CallRecord, Steps
  <2>2. CallOK(k)
    BY <2>1, CallTypes, <1>1, ManagerAssumption, NoneAssumption DEF Load, CallOK
  <2>3. CASE Returns(c)
    BY <2>3, ReturnsOK
  <2>4. CASE Becomes(c, k)
    <3> HIDE DEF k
    <3> QED BY <2>4, <2>1, <2>2, BecomesOK
  <2> QED BY <2>3, <2>4 DEF Load, Goes
<1>3. plugins' \in [Nodes -> [Runtimes -> Ids \cup {None}]]
  <2> DEFINE new == [plugins EXCEPT ![call[c].node][call[c].rt] = c]
  <2>1. new \in [Nodes -> [Runtimes -> Ids \cup {None}]]
    BY <1>1, KeyFacts DEF TypeOK
  <2> QED BY <2>1 DEF Load, TypeOK
<1>4. service' \in [Services -> ServiceRecord]
  <2> DEFINE x == Service("live", call[c].config, call[c].config)
  <2>1. x \in ServiceRecord
    BY <1>1, ServiceTypes, ManagerAssumption DEF Phases
  <2> HIDE DEF x
  <2>2. [service EXCEPT ![<<call[c].node, call[c].rt, c>>] = x] \in [Services -> ServiceRecord]
    BY <2>1 DEF TypeOK
  <2> QED BY <2>2 DEF Load, TypeOK, x
<1> QED BY <1>2, <1>3, <1>4, Typed DEF Load, DataOK, TypeOK

LEMMA PublishTypes ==
  ASSUME TypeInv, NEW c \in Calls, Publish(c)
  PROVE  TypeInv'
<1> DEFINE k == [call[c] EXCEPT !.step = "sync", !.config = None]
<1> USE DEF TypeInv
<1>1. call[c].node \in Nodes /\ call[c].rt \in Runtimes
  BY CallTypes DEF Publish, Running
<1>2. CallsOK(c)
  <2>1. k \in CallRecord /\ k.step = "sync" /\ k.config = None /\ k.node = call[c].node
        /\ k.rt = call[c].rt /\ k.old = call[c].old
    BY CallTypes DEF CallRecord, Steps
  <2>2. CallOK(k)
    BY <2>1, CallTypes, <1>1, NoneAssumption DEF Publish, CallOK
  <2>3. CASE Returns(c)
    BY <2>3, ReturnsOK
  <2>4. CASE Becomes(c, k)
    <3> HIDE DEF k
    <3> QED BY <2>4, <2>1, <2>2, BecomesOK
  <2> QED BY <2>3, <2>4 DEF Publish
<1>3. redis' \in [Keys -> Versions]
  BY <1>1, KeyFacts DEF Publish, TypeOK
<1>4. local' \in [Nodes -> [Keys -> Versions]] /\ excuse' \in [Excuses -> SUBSET Places]
  BY <1>1, <1>3, SyncsOK DEF Publish
<1> QED BY <1>2, <1>3, <1>4, Typed DEF Publish, DataOK, TypeOK

LEMMA UnregisterTypes ==
  ASSUME TypeInv, NEW c \in Calls, NEW n \in Nodes, NEW r \in Runtimes,
         Unregister(c, n, r) \/ \E new \in Runtimes : Replace(c, n, r, new)
  PROVE  TypeInv'
<1> DEFINE k == [NewCall EXCEPT !.op = "unregister", !.node = n, !.rt = r]
<1> USE DEF TypeInv
<1>1. Directed(k)
  <2>1. k.op \in Ops
    BY DEF Ops, NewCall
  <2> QED BY <2>1, BegunIsDirected DEF NewCall, Ops
<1> HIDE DEF k
<1>2. /\ CallsOK(c)
      /\ service' \in [Services -> ServiceRecord]
      /\ plugins' \in [Nodes -> [Runtimes -> Ids \cup {None}]]
  <2>1. CASE Returns(c) /\ UNCHANGED plugins /\ (service' = InPhase({Entry(n, r)}, "misled") \/ UNCHANGED service)
    BY <2>1, ReturnsOK, PhaseTypes DEF TypeOK, Phases
  <2>2. CASE Has(n, r) /\ Closes(c, k, Entry(n, r))
    BY <2>2, <1>1, ClosesOK, EntryIsService DEF TypeOK
  <2>3. CASE Deleted(c, k) /\ UNCHANGED service
    BY <2>3, <1>1, DeletedOK DEF TypeOK
  <2> QED BY <2>1, <2>2, <2>3 DEF Unregister, Replace, k
<1>3. excuse' \in [Excuses -> SUBSET Places]
  BY WithdrawsOK DEF Unregister, Replace, TypeOK
<1> QED BY <1>2, <1>3, Typed DEF Unregister, Replace, DataOK, TypeOK

LEMMA ClosedTypes ==
  ASSUME TypeInv, NEW c \in Calls, Closed(c)
  PROVE  TypeInv'
<1> USE DEF TypeInv
<1>1. Directed(call[c])
  BY CallTypes DEF Closed, Directed, Running
<1>2. CallsOK(c) /\ plugins' \in [Nodes -> [Runtimes -> Ids \cup {None}]]
  BY <1>1, DeletedOK DEF Closed
<1>3. service' \in [Services -> ServiceRecord]
  BY EndedTypes DEF Closed
<1> QED BY <1>2, <1>3, Typed DEF Closed, DataOK, TypeOK

LEMMA InvokeTypes ==
  ASSUME TypeInv, NEW c \in Calls, NEW n \in Nodes, NEW r \in Runtimes, Invoke(c, n, r)
  PROVE  TypeInv'
<1> DEFINE k == [NewCall EXCEPT !.op = "invoke", !.node = n, !.rt = r, !.step = "expiry", !.seen = LocalVersions(n, r)]
<1> USE DEF TypeInv
<1>1. k \in CallRecord /\ k.step = "expiry" /\ k.config = None /\ k.node = n /\ k.rt = r /\ k.old = {}
  BY EntryIsService, KeyFacts DEF NewCall, CallRecord, Ops, Steps
<1>2. CallOK(k)
  BY <1>1, NoneAssumption DEF CallOK
<1> HIDE DEF k
<1>3. CallsOK(c)
  BY <1>1, <1>2, BecomesOK, ReturnsOK DEF Invoke, k
<1> QED BY <1>3, Typed DEF Invoke, DataOK, TypeOK

LEMMA CheckTypes ==
  ASSUME TypeInv, NEW c \in Calls, CheckVersions(c)
  PROVE  TypeInv'
<1> DEFINE n == call[c].node  r == call[c].rt
           k == [call[c] EXCEPT !.seen = NewCall.seen]
<1> USE DEF TypeInv
<1>1. Directed(k) /\ n \in Nodes /\ r \in Runtimes
  BY CallTypes, KeyFacts DEF CheckVersions, Directed, Running, NewCall, CallRecord
<1> HIDE DEF n, r, k
<1>2. /\ CallsOK(c)
      /\ service' \in [Services -> ServiceRecord]
      /\ plugins' \in [Nodes -> [Runtimes -> Ids \cup {None}]]
  <2>1. CASE Returns(c) /\ UNCHANGED <<plugins, service>>
    BY <2>1, ReturnsOK DEF TypeOK
  <2>2. CASE Enters(c, k, plugins[n]) /\ UNCHANGED <<plugins, service>>
    BY <2>2, <1>1, EntersOK DEF TypeOK
  <2>3. CASE Has(n, r) /\ Closes(c, k, Entry(n, r))
    BY <2>3, <1>1, ClosesOK, EntryIsService DEF TypeOK
  <2>4. CASE Deleted(c, k) /\ UNCHANGED service
    BY <2>4, <1>1, DeletedOK DEF TypeOK
  <2> QED BY <2>1, <2>2, <2>3, <2>4 DEF CheckVersions, n, r, k
<1>3. excuse' \in [Excuses -> SUBSET Places]
  <2>1. UNCHANGED excuse \/ Contends(c, n, r)
    BY DEF CheckVersions, n, r
  <2> QED BY <2>1, <1>1, ContendsOK DEF TypeOK
<1> QED BY <1>2, <1>3, Typed DEF CheckVersions, DataOK, TypeOK

LEMMA SyncTypes ==
  ASSUME TypeInv, NEW c \in Calls, Sync(c)
  PROVE  TypeInv'
<1> USE DEF TypeInv
<1>1. call[c].node \in Nodes /\ call[c].rt \in Runtimes
  BY CallTypes DEF Sync, Running
<1>2. redis' \in [Keys -> Versions]
  BY DEF Sync, TypeOK
<1>3. local' \in [Nodes -> [Keys -> Versions]] /\ excuse' \in [Excuses -> SUBSET Places]
  BY <1>1, <1>2, SyncsOK DEF Sync
<1> QED BY <1>3, ReturnsOK, Typed DEF Sync, DataOK, TypeOK

LEMMA UpdateTypes ==
  ASSUME TypeInv, NEW c \in Calls, NEW n \in Nodes, NEW config \in Configs, UpdateConfig(c, n, config)
  PROVE  TypeInv'
<1> DEFINE k == [NewCall EXCEPT !.op = "update", !.node = n, !.step = "save", !.config = config]
<1>1. k \in CallRecord /\ k.step = "save" /\ k.config = config /\ k.node = n /\ k.old = {}
  BY KeyFacts DEF NewCall, CallRecord, Ops, Steps
<1>2. CallOK(k) /\ k.step # "ending"
  BY <1>1, NoneAssumption, ManagerAssumption DEF CallOK
<1>3. CallsOK(c)
  BY <1>2, BecomesOK DEF UpdateConfig, TypeInv
<1> QED BY <1>3, Typed DEF UpdateConfig, DataOK, TypeInv, TypeOK

LEMMA SaveTypes ==
  ASSUME TypeInv, NEW c \in Calls, Save(c)
  PROVE  TypeInv'
<1> DEFINE k == [call[c] EXCEPT !.step = "apply"]
<1> USE DEF TypeInv
<1>1. call[c].node \in Nodes /\ call[c].config \in Configs
  BY CallTypes DEF Save, Running
<1>2. CallsOK(c)
  <2>1. k \in CallRecord /\ k.step = "apply" /\ k.config = call[c].config /\ k.node = call[c].node
        /\ k.rt = call[c].rt /\ k.old = call[c].old
    BY CallTypes DEF CallRecord, Steps
  <2>2. CallOK(k)
    BY <2>1, CallTypes, <1>1, ManagerAssumption, NoneAssumption DEF Save, CallOK
  <2>3. CASE Becomes(c, k)
    <3> HIDE DEF k
    <3> QED BY <2>3, <2>1, <2>2, BecomesOK
  <2> QED BY <2>3, ReturnsOK DEF Save, Goes
<1>3. excuse' \in [Excuses -> SUBSET Places]
  <2>1. CASE UNCHANGED excuse \/ Excused("raced", Places)
    BY <2>1, ExcusedOK DEF TypeOK, Excuses
  <2>2. CASE excuse' = [excuse EXCEPT !["unannounced"] = Places, !["raced"] = IF Races THEN Places ELSE @]
    BY <2>2 DEF TypeOK
  <2> QED BY <2>1, <2>2 DEF Save
<1> QED BY <1>1, <1>2, <1>3, Typed DEF Save, DataOK, TypeOK

LEMMA ApplyTypes ==
  ASSUME TypeInv, NEW c \in Calls, Apply(c)
  PROVE  TypeInv'
<1> DEFINE n == call[c].node
           k == [call[c] EXCEPT !.step = "refresh", !.config = None, !.synced = Loaded(n) # {}]
<1> USE DEF TypeInv
<1>1. n \in Nodes /\ call[c].config \in Configs
  BY CallTypes DEF Apply, Running
<1>2. CallsOK(c)
  <2>1. (Loaded(n) # {}) \in BOOLEAN
    OBVIOUS
  <2>2. k \in CallRecord /\ k.step = "refresh" /\ k.config = None /\ k.node = n
        /\ k.rt = call[c].rt /\ k.old = call[c].old
    BY <2>1, CallTypes DEF CallRecord, Steps
  <2>3. CallOK(k)
    BY <2>2, CallTypes, <1>1, NoneAssumption DEF Apply, CallOK
  <2>4. Becomes(c, k)
    BY DEF Apply
  <2> HIDE DEF k
  <2> QED BY <2>2, <2>3, <2>4, BecomesOK
<1>3. excuse' \in [Excuses -> SUBSET Places]
  <2>1. {<<n, r>> : r \in {q \in Runtimes : Replacing(n, q) # {}}} \in SUBSET Places
    BY <1>1 DEF Places
  <2> QED BY <2>1, ExcusedOK DEF Apply, Excuses
<1>4. service' \in [Services -> ServiceRecord]
  <2>1. PICK pods \in [Loaded(n) -> 0..PodLimit] :
          service' = [s \in Services |->
            IF s \in Loaded(n) THEN [WithPods(service[s], pods[s]) EXCEPT !.config = call[c].config] ELSE service[s]]
    BY DEF Apply
  <2>2. ASSUME NEW s \in Services, s \in Loaded(n)
        PROVE  [WithPods(service[s], pods[s]) EXCEPT !.config = call[c].config] \in ServiceRecord
    <3>1. WithPods(service[s], pods[s]) \in ServiceRecord
      BY <2>2, PodsRecord DEF TypeOK
    <3> QED BY <3>1, <1>1, ConfigRecord
  <2> QED BY <2>1, <2>2 DEF TypeOK
<1> QED BY <1>2, <1>3, <1>4, Typed DEF Apply, DataOK, TypeOK

LEMMA RefreshTypes ==
  ASSUME TypeInv, NEW c \in Calls, Refresh(c)
  PROVE  TypeInv'
<1> USE DEF TypeInv
<1>1. call[c].node \in Nodes
  BY CallTypes DEF Refresh, Running
<1>2. redis' \in [Keys -> Versions]
  BY KeyFacts DEF Refresh, TypeOK
<1>3. local' \in [Nodes -> [Keys -> Versions]]
  BY <1>1, KeyFacts DEF Refresh, TypeOK
<1>4. excuse' \in [Excuses -> SUBSET Places]
  <2>1. {<<call[c].node, r>> : r \in {q \in Runtimes : ~Has(call[c].node, q)}} \in SUBSET Places
    BY <1>1 DEF Places
  <2> QED BY <2>1 DEF Refresh, TypeOK
<1> QED BY <1>2, <1>3, <1>4, ReturnsOK, Typed DEF Refresh, DataOK, TypeOK

LEMMA RefreshFailsTypes ==
  ASSUME TypeInv, NEW c \in Calls, RefreshFails(c)
  PROVE  TypeInv'
<1> USE DEF TypeInv
<1>1. redis' \in [Keys -> Versions]
  BY KeyFacts DEF RefreshFails, TypeOK
<1>2. {<<n, r>> : n \in Nodes \ {call[c].node}, r \in Runtimes} \in SUBSET Places
  BY DEF Places
<1>3. excuse' \in [Excuses -> SUBSET Places]
  BY <1>2, ExcusedOK DEF RefreshFails, TypeOK, Excuses
<1> QED BY <1>1, <1>3, ReturnsOK, Typed DEF RefreshFails, DataOK, TypeOK

(* A pod starts or ends: nothing but its service and the call changes.     *)
LEMMA FleetsChange ==
  ASSUME TypeInv, NEW c \in Calls, Fleets(c)
  PROVE  /\ Returns(c) /\ Begins(c)
         /\ UNCHANGED <<stored, redis, local, plugins, destroyed, excuse>>
         /\ service' \in [Services -> ServiceRecord]
         /\ \A x \in Services : /\ service'[x].phase = service[x].phase /\ service'[x].config = service[x].config
                                /\ service'[x].granted <= service[x].granted
<1>1. PICK s \in Services : PodStarts(c, s) \/ PodEnds(c, s)
  BY DEF Fleets
<1>2. PICK pods \in 0..PodLimit : service' = [service EXCEPT ![s] = WithPods(@, pods)]
  <2>1. service[s].pods \in 0..PodLimit /\ PodLimit \in Nat
    BY RecordFacts, ManagerAssumption DEF TypeInv, TypeOK
  <2>2. CASE PodStarts(c, s)
    <3>1. service[s].pods + 1 \in 0..PodLimit
      BY <2>1, <2>2 DEF PodStarts
    <3>2. service' = [service EXCEPT ![s] = WithPods(@, service[s].pods + 1)]
      BY <2>2 DEF PodStarts, TypeInv, TypeOK
    <3> QED BY <3>1, <3>2
  <2>3. CASE PodEnds(c, s)
    <3>1. service[s].pods - 1 \in 0..PodLimit
      BY <2>1, <2>3 DEF PodEnds
    <3>2. service' = [service EXCEPT ![s] = WithPods(@, service[s].pods - 1)]
      BY <2>3 DEF PodEnds, TypeInv, TypeOK
    <3> QED BY <3>1, <3>2
  <2> QED BY <1>1, <2>2, <2>3
<1>3. service' \in [Services -> ServiceRecord] /\ service'[s] = WithPods(service[s], pods)
      /\ \A x \in Services \ {s} : service'[x] = service[x]
  BY <1>2, PodsRecord DEF TypeInv, TypeOK
<1>4. ASSUME NEW x \in Services
      PROVE  /\ service'[x].phase = service[x].phase /\ service'[x].config = service[x].config
             /\ service'[x].granted <= service[x].granted
  <2>1. service[x] \in ServiceRecord /\ service[x].granted \in Int
    BY RecordFacts DEF TypeInv, TypeOK
  <2> QED BY <2>1, <1>3, PodsRecord
<1> QED BY <1>1, <1>3, <1>4 DEF PodStarts, PodEnds

LEMMA FleetsTypes ==
  ASSUME TypeInv, NEW c \in Calls, Fleets(c)
  PROVE  TypeInv'
<1> USE DEF TypeInv
<1> QED BY FleetsChange, ReturnsOK, Typed DEF DataOK, TypeOK

LEMMA ShutdownTypes ==
  ASSUME TypeInv, NEW c \in Calls, NEW n \in Nodes, Shutdown(c, n)
  PROVE  TypeInv'
<1> DEFINE mine == {s \in Loaded(n) : Destroyable(s)}
           k == [NewCall EXCEPT !.op = "shutdown", !.node = n, !.step = "ending", !.old = mine]
<1> USE DEF TypeInv
<1>1. CASE destroyed[n]
  BY <1>1, ReturnsOK, Typed DEF Shutdown, DataOK, TypeOK
<1>2. CASE ~destroyed[n]
  <2>1. mine \subseteq Services
    BY EntryIsService DEF Loaded
  <2> HIDE DEF mine
  <2>2. k \in CallRecord /\ k.step = "ending" /\ k.config = None /\ k.node = n /\ k.old = mine
    BY <2>1, KeyFacts DEF NewCall, CallRecord, Ops, Steps
  <2>3. CallOK(k)
    BY <2>2, NoneAssumption DEF CallOK
  <2>4. Becomes(c, k)
    BY <1>2 DEF Shutdown, mine
  <2> HIDE DEF k
  <2>5. DOMAIN call' = Calls /\ \A d \in Calls : CallOK(call'[d])
    BY <2>3, <2>4, BecomesMoves DEF TypeOK
  <2>6. destroyed' = [destroyed EXCEPT ![n] = TRUE]
    BY <1>2 DEF Shutdown
  <2>7. Destroying'
    BY <2>2, <2>4, <2>6, BecomesMoves DEF TypeOK, Destroying
  <2>8. destroyed' \in [Nodes -> BOOLEAN]
    BY <2>6 DEF TypeOK
  <2>9. excuse' \in [Excuses -> SUBSET Places]
    <3>1. {<<n, r>> : r \in {q \in Runtimes : Replacing(n, q) # {}}} \in SUBSET Places
      BY DEF Places
    <3> QED BY <3>1, <1>2, ExcusedOK DEF Shutdown, Excuses
  <2>10. service' \in [Services -> ServiceRecord]
    BY <1>2, PhaseTypes DEF Shutdown, Phases
  <2> QED BY <2>5, <2>7, <2>8, <2>9, <2>10 DEF Shutdown, TypeOK
<1> QED BY <1>1, <1>2

LEMMA EndsTypes ==
  ASSUME TypeInv, NEW c \in Calls, ShutdownEnds(c)
  PROVE  TypeInv'
<1> USE DEF TypeInv
<1>1. plugins' \in [Nodes -> [Runtimes -> Ids \cup {None}]]
  BY DEF ShutdownEnds, TypeOK
<1>2. service' \in [Services -> ServiceRecord]
  BY EndedTypes DEF ShutdownEnds
<1> QED BY <1>1, <1>2, ReturnsOK, Typed DEF ShutdownEnds, DataOK, TypeOK

LEMMA RestartTypes ==
  ASSUME TypeInv, NEW c \in Calls, NEW n \in Nodes, Restart(c, n)
  PROVE  TypeInv'
<1> USE DEF TypeInv
<1>1. DOMAIN call' = Calls /\ \A d \in Calls : CallOK(call'[d])
  BY FreshCalls DEF Restart, TypeOK
<1>2. destroyed' \in [Nodes -> BOOLEAN]
  BY DEF Restart, TypeOK
<1>3. Destroying'
  <2> SUFFICES ASSUME NEW d \in Calls, call'[d].step = "ending" PROVE destroyed'[call'[d].node]
    BY DEF Destroying
  <2>1. call'[d] = call[d] /\ ~(call[d].node = n /\ Running(d))
    BY DEF Restart, NewCall
  <2>2. call[d].node \in Nodes /\ call[d].node # n
    BY <2>1, CallTypes DEF Running
  <2> QED BY <2>1, <2>2 DEF Restart, Destroying, TypeOK
<1>4. plugins' \in [Nodes -> [Runtimes -> Ids \cup {None}]]
  BY DEF Restart, TypeOK
<1>5. local' \in [Nodes -> [Keys -> Versions]]
  BY KeyFacts DEF Restart, TypeOK
<1>6. service' \in [Services -> ServiceRecord]
  BY EndedTypes DEF Restart
<1>7. excuse' \in [Excuses -> SUBSET Places]
  BY ExcusedOK DEF Restart, TypeOK, Excuses
<1> QED BY <1>1, <1>2, <1>3, <1>4, <1>5, <1>6, <1>7 DEF Restart, TypeOK

LEMMA TypeInit == Init => TypeInv
<1> SUFFICES ASSUME Init PROVE TypeInv
  OBVIOUS
<1>1. PICK loaded \in SUBSET Places :
        /\ redis = [k \in Keys |-> IF \E n \in Nodes : <<n, k>> \in loaded THEN 0 ELSE None]
        /\ local = [n \in Nodes |-> [k \in Keys |-> IF <<n, k>> \in loaded THEN 0 ELSE None]]
        /\ plugins = [n \in Nodes |-> [r \in Runtimes |-> IF <<n, r>> \in loaded THEN 0 ELSE None]]
        /\ service = [s \in Services |->
             IF s[3] = 0 /\ <<s[1], s[2]>> \in loaded THEN Service("live", Default, Default)
                                                    ELSE Service("none", Default, 0)]
  BY DEF Init
<1>2. stored \in Configs /\ redis \in [Keys -> Versions] /\ local \in [Nodes -> [Keys -> Versions]]
  BY <1>1, KeyFacts, ManagerAssumption DEF Init
<1>3. plugins \in [Nodes -> [Runtimes -> Ids \cup {None}]]
  BY <1>1, KeyFacts
<1>4. service \in [Services -> ServiceRecord]
  <2>1. Service("live", Default, Default) \in ServiceRecord /\ Service("none", Default, 0) \in ServiceRecord
    BY ServiceTypes, ManagerAssumption DEF Phases
  <2> QED BY <1>1, <2>1
<1>5. DOMAIN call = Calls /\ \A c \in Calls : CallOK(call[c]) /\ call[c].step = "new"
  BY FreshCalls DEF Init, NewCall
<1>6. destroyed \in [Nodes -> BOOLEAN] /\ excuse \in [Excuses -> SUBSET Places]
  BY DEF Init
<1> QED BY <1>2, <1>3, <1>4, <1>5, <1>6 DEF TypeInv, TypeOK, Destroying

LEMMA TypeStep == TypeInv /\ [Next]_vars => TypeInv'
<1> SUFFICES ASSUME TypeInv, [Next]_vars PROVE TypeInv'
  OBVIOUS
<1>1. CASE UNCHANGED vars
  BY <1>1 DEF vars, TypeInv, TypeOK, Destroying, CallOK
<1>2. ASSUME NEW c \in Calls, Begin(c) PROVE TypeInv'
  BY <1>2, RegisterTypes, UnregisterTypes, InvokeTypes, UpdateTypes, ShutdownTypes, RestartTypes DEF Begin
<1>3. ASSUME NEW c \in Calls, Continue(c) PROVE TypeInv'
  BY <1>3, ReadConfigTypes, LoadTypes, PublishTypes, ClosedTypes, CheckTypes, SyncTypes, SaveTypes,
     ApplyTypes, RefreshTypes, RefreshFailsTypes, EndsTypes DEF Continue
<1> QED BY <1>1, <1>2, <1>3, FleetsTypes DEF Next

(* Every variable holds what its declaration says, whatever calls begin and *)
(* however they interleave; a shutdown ends only on a node that is destroyed. *)
THEOREM ManagerTypes == Spec => []TypeOK
<1>1. Spec => []TypeInv
  BY TypeInit, TypeStep, PTL DEF Spec
<1> QED BY <1>1, PTL DEF TypeInv

-----------------------------------------------------------------------------
(* What a step does to the calls and to the services of a place            *)

(* The call c goes on with k, if it goes on.                               *)
Follows(c, k) ==
  /\ CallsOK(c)
  /\ call'[c].step # "done" =>
       call'[c].node = k.node /\ call'[c].rt = k.rt /\ call'[c].op = k.op /\ call'[c].seen = k.seen

LEMMA ReturnsFollows ==
  ASSUME TypeOK, NEW c \in Calls, NEW k, Returns(c)
  PROVE  Follows(c, k) /\ call'[c].step = "done"
<1>1. call'[c] = [NewCall EXCEPT !.step = "done"]
  BY BecomesMoves DEF Returns
<1> QED BY <1>1, ReturnsOK DEF Follows, NewCall

LEMMA EntersFollows ==
  ASSUME TypeOK, NEW c \in Calls, NEW k, Directed(k), NEW m, Enters(c, k, m)
  PROVE  /\ Follows(c, k) /\ call'[c].step \in {"done", "config"}
         /\ call'[c].step = "config" => ~destroyed[k.node] /\ m[k.rt] = None
<1>1. CASE Returns(c)
  BY <1>1, ReturnsFollows
<1>2. CASE ~(destroyed[k.node] \/ m[k.rt] # None) /\ Becomes(c, [k EXCEPT !.step = "config", !.old = {}])
  <2>1. call'[c] = [k EXCEPT !.step = "config", !.old = {}]
    BY <1>2, BecomesMoves
  <2> QED BY <1>2, <2>1, EntersOK DEF Follows, Directed, CallRecord
<1> QED BY <1>1, <1>2 DEF Enters

LEMMA ClosesFollows ==
  ASSUME TypeOK, NEW c \in Calls, NEW k, Directed(k), NEW s \in Services, Closes(c, k, s)
  PROVE  /\ Follows(c, k) /\ call'[c].step = "closing" /\ call'[c].old = {s}
         /\ service' = InPhase({s}, "closing") /\ UNCHANGED plugins /\ Destroyable(s)
<1>1. call'[c] = [k EXCEPT !.step = "closing", !.old = {s}]
  BY BecomesMoves DEF Closes
<1> QED BY <1>1, ClosesOK DEF Follows, Directed, CallRecord, Closes

LEMMA DeletedFollows ==
  ASSUME TypeOK, NEW c \in Calls, NEW k, Directed(k), Deleted(c, k)
  PROVE  /\ Follows(c, k) /\ call'[c].step \in {"done", "config"}
         /\ call'[c].step = "config" => ~destroyed[k.node] /\ k.op # "unregister"
         /\ plugins'[k.node][k.rt] = None
         /\ \A n \in Nodes, r \in Runtimes : <<n, r>> # <<k.node, k.rt>> => plugins'[n][r] = plugins[n][r]
<1>1. plugins' = [plugins EXCEPT ![k.node][k.rt] = None]
  BY DEF Deleted, Unloaded
<1>2. /\ plugins'[k.node][k.rt] = None
      /\ \A n \in Nodes, r \in Runtimes : <<n, r>> # <<k.node, k.rt>> => plugins'[n][r] = plugins[n][r]
  BY <1>1 DEF Directed, TypeOK
<1>3. CASE k.op = "unregister" /\ Returns(c)
  BY <1>3, ReturnsFollows, <1>2
<1>4. CASE k.op # "unregister" /\ Enters(c, k, plugins'[k.node])
  BY <1>4, EntersFollows, <1>2
<1> QED BY <1>3, <1>4 DEF Deleted

LEMMA ReadConfigMoves ==
  ASSUME TypeInv, NEW c \in Calls, ReadConfig(c)
  PROVE  Follows(c, call[c]) /\ (call'[c].step = "done" \/ (call'[c].step = "load" /\ call'[c].config = stored))
<1> DEFINE k == [call[c] EXCEPT !.step = "load", !.config = stored]
<1>1. CASE Returns(c)
  BY <1>1, ReturnsFollows DEF TypeInv
<1>2. CASE Becomes(c, k)
  <2>1. call'[c] = k /\ DOMAIN call' = Calls /\ \A d \in Calls \ {c} : call'[d] = call[d]
    BY <1>2, BecomesMoves DEF TypeInv
  <2>2. /\ call'[c].step = "load" /\ call'[c].config = stored /\ call'[c].node = call[c].node
        /\ call'[c].rt = call[c].rt /\ call'[c].op = call[c].op /\ call'[c].seen = call[c].seen
    BY <2>1, CallTypes DEF CallRecord, TypeInv
  <2>3. CallOK(call'[c])
    BY ReadConfigTypes DEF TypeInv, TypeOK
  <2> QED BY <2>1, <2>2, <2>3 DEF Follows, CallsOK
<1> QED BY <1>1, <1>2 DEF ReadConfig

LEMMA PublishMoves ==
  ASSUME TypeInv, NEW c \in Calls, Publish(c)
  PROVE  Follows(c, call[c]) /\ (call'[c].step = "done" \/ (call[c].op # "register" /\ call'[c].step = "sync"))
<1> DEFINE k == [call[c] EXCEPT !.step = "sync", !.config = None]
<1>1. CASE Returns(c)
  BY <1>1, ReturnsFollows DEF TypeInv
<1>2. CASE call[c].op # "register" /\ Becomes(c, k)
  <2>1. call'[c] = k /\ DOMAIN call' = Calls /\ \A d \in Calls \ {c} : call'[d] = call[d]
    BY <1>2, BecomesMoves DEF TypeInv
  <2>2. /\ call'[c].step = "sync" /\ call'[c].node = call[c].node
        /\ call'[c].rt = call[c].rt /\ call'[c].op = call[c].op /\ call'[c].seen = call[c].seen
    BY <2>1, CallTypes DEF CallRecord, TypeInv
  <2>3. CallOK(call'[c])
    BY PublishTypes DEF TypeInv, TypeOK
  <2> QED BY <1>2, <2>1, <2>2, <2>3 DEF Follows, CallsOK
<1> QED BY <1>1, <1>2 DEF Publish

LEMMA SaveMoves ==
  ASSUME TypeInv, NEW c \in Calls, Save(c)
  PROVE  /\ Follows(c, call[c])
         /\ \/ call'[c].step = "done" /\ UNCHANGED <<stored, excuse>>
            \/ /\ call'[c].step = "apply" /\ call'[c].config = stored' /\ call'[c].config = call[c].config
               /\ IF Races THEN Excused("raced", Places) ELSE UNCHANGED excuse
            \/ /\ call'[c].step = "done" /\ stored' = call[c].config
               /\ excuse' = [excuse EXCEPT !["unannounced"] = Places, !["raced"] = IF Races THEN Places ELSE @]
<1> DEFINE k == [call[c] EXCEPT !.step = "apply"]
<1>1. CASE Returns(c) /\ UNCHANGED <<stored, excuse>>
  BY <1>1, ReturnsFollows DEF TypeInv
<1>2. CASE /\ Becomes(c, k) /\ stored' = call[c].config
           /\ IF Races THEN Excused("raced", Places) ELSE UNCHANGED excuse
  <2>1. call'[c] = k /\ DOMAIN call' = Calls /\ \A d \in Calls \ {c} : call'[d] = call[d]
    BY <1>2, BecomesMoves DEF TypeInv
  <2>2. /\ call'[c].step = "apply" /\ call'[c].config = call[c].config /\ call'[c].node = call[c].node
        /\ call'[c].rt = call[c].rt /\ call'[c].op = call[c].op /\ call'[c].seen = call[c].seen
    BY <2>1, CallTypes DEF CallRecord, TypeInv
  <2>3. CallOK(call'[c])
    BY SaveTypes DEF TypeInv, TypeOK
  <2> QED BY <1>2, <2>1, <2>2, <2>3 DEF Follows, CallsOK
<1>3. CASE Returns(c) /\ stored' = call[c].config
           /\ excuse' = [excuse EXCEPT !["unannounced"] = Places, !["raced"] = IF Races THEN Places ELSE @]
  BY <1>3, ReturnsFollows DEF TypeInv
<1> QED BY <1>1, <1>2, <1>3 DEF Save, Goes

LEMMA LoadMoves ==
  ASSUME TypeInv, NEW c \in Calls, Load(c)
  PROVE  /\ Follows(c, call[c])
         /\ \/ call'[c].step = "done" /\ UNCHANGED <<plugins, service>>
            \/ /\ call'[c].step = "publish" /\ call'[c].config = call[c].config
               /\ plugins' = [plugins EXCEPT ![call[c].node][call[c].rt] = c]
               /\ \A s \in Services : service'[s] =
                    IF s = <<call[c].node, call[c].rt, c>> THEN Service("live", call[c].config, call[c].config)
                                                           ELSE service[s]
<1> DEFINE k == [call[c] EXCEPT !.step = "publish"]
<1>1. CASE Returns(c) /\ UNCHANGED <<plugins, service>>
  BY <1>1, ReturnsFollows DEF TypeInv
<1>2. CASE /\ Goes(c, "publish") /\ plugins' = [plugins EXCEPT ![call[c].node][call[c].rt] = c]
           /\ service' = [service EXCEPT ![<<call[c].node, call[c].rt, c>>] =
                            Service("live", call[c].config, call[c].config)]
  <2>1. call'[c] = k /\ DOMAIN call' = Calls /\ \A d \in Calls \ {c} : call'[d] = call[d]
    BY <1>2, BecomesMoves DEF TypeInv, Goes
  <2>2. /\ call'[c].step = "publish" /\ call'[c].config = call[c].config /\ call'[c].node = call[c].node
        /\ call'[c].rt = call[c].rt /\ call'[c].op = call[c].op /\ call'[c].seen = call[c].seen
    BY <2>1, CallTypes DEF CallRecord, TypeInv
  <2>3. CallOK(call'[c])
    BY LoadTypes DEF TypeInv, TypeOK
  <2>4. \A s \in Services : service'[s] =
          IF s = <<call[c].node, call[c].rt, c>> THEN Service("live", call[c].config, call[c].config) ELSE service[s]
    BY <1>2 DEF TypeInv, TypeOK
  <2> QED BY <1>2, <2>1, <2>2, <2>3, <2>4 DEF Follows, CallsOK
<1> QED BY <1>1, <1>2 DEF Load

LEMMA ApplyMoves ==
  ASSUME TypeInv, NEW c \in Calls, Apply(c)
  PROVE  /\ Follows(c, call[c]) /\ call'[c].step = "refresh"
         /\ call'[c].synced = (Loaded(call[c].node) # {})
         /\ \A s \in Services : /\ service'[s].phase = service[s].phase
                                /\ service'[s].granted <= service[s].granted
                                /\ service'[s].config = IF s \in Loaded(call[c].node) THEN call[c].config
                                                                                      ELSE service[s].config
<1> DEFINE k == [call[c] EXCEPT !.step = "refresh", !.config = None, !.synced = Loaded(call[c].node) # {}]
<1>1. call'[c] = k /\ DOMAIN call' = Calls /\ \A d \in Calls \ {c} : call'[d] = call[d]
  BY BecomesMoves DEF TypeInv, Apply
<1>2. (Loaded(call[c].node) # {}) \in BOOLEAN
  OBVIOUS
<1>3. /\ call'[c].step = "refresh" /\ call'[c].node = call[c].node
      /\ call'[c].rt = call[c].rt /\ call'[c].op = call[c].op /\ call'[c].seen = call[c].seen
  BY <1>1, CallTypes DEF CallRecord, TypeInv
<1>4. call'[c].synced = (Loaded(call[c].node) # {})
  BY <1>1, <1>2, CallTypes DEF CallRecord, TypeInv
<1>5. CallOK(call'[c])
  BY ApplyTypes DEF TypeInv, TypeOK
<1>6. ASSUME NEW s \in Services
      PROVE  /\ service'[s].phase = service[s].phase /\ service'[s].granted <= service[s].granted
             /\ service'[s].config = IF s \in Loaded(call[c].node) THEN call[c].config ELSE service[s].config
  <2>1. PICK pods \in [Loaded(call[c].node) -> 0..PodLimit] :
          service' = [x \in Services |-> IF x \in Loaded(call[c].node)
                                         THEN [WithPods(service[x], pods[x]) EXCEPT !.config = call[c].config]
                                         ELSE service[x]]
    BY DEF Apply
  <2>2. service[s] \in ServiceRecord /\ service[s].granted \in Int /\ call[c].config \in Configs
    BY RecordFacts, CallTypes DEF TypeInv, TypeOK, Apply
  <2>3. CASE s \in Loaded(call[c].node)
    <3>1. pods[s] \in 0..PodLimit
      BY <2>3
    <3>2. /\ WithPods(service[s], pods[s]) \in ServiceRecord
          /\ WithPods(service[s], pods[s]).phase = service[s].phase
          /\ WithPods(service[s], pods[s]).granted <= service[s].granted
      BY <2>2, <3>1, PodsRecord
    <3>3. service'[s] = [WithPods(service[s], pods[s]) EXCEPT !.config = call[c].config]
      BY <2>1, <2>3
    <3> QED BY <2>2, <2>3, <3>2, <3>3, ConfigRecord
  <2>4. CASE s \notin Loaded(call[c].node)
    BY <2>1, <2>2, <2>4
  <2> QED BY <2>3, <2>4
<1> QED BY <1>1, <1>3, <1>4, <1>5, <1>6 DEF Follows, CallsOK

LEMMA InvokeMoves ==
  ASSUME TypeInv, NEW c \in Calls, NEW n \in Nodes, NEW r \in Runtimes, Invoke(c, n, r)
  PROVE  CallsOK(c) /\ call'[c].step \in {"done", "expiry"}
<1> DEFINE k == [NewCall EXCEPT !.op = "invoke", !.node = n, !.rt = r, !.step = "expiry", !.seen = LocalVersions(n, r)]
<1>1. CASE Returns(c)
  BY <1>1, ReturnsFollows DEF TypeInv, Follows
<1>2. CASE Becomes(c, k)
  <2>1. call'[c] = k /\ DOMAIN call' = Calls /\ \A d \in Calls \ {c} : call'[d] = call[d]
    BY <1>2, BecomesMoves DEF TypeInv
  <2>2. call'[c].step = "expiry"
    BY <2>1 DEF NewCall
  <2>3. CallOK(call'[c])
    BY InvokeTypes DEF TypeInv, TypeOK
  <2> QED BY <2>1, <2>2, <2>3 DEF CallsOK
<1> QED BY <1>1, <1>2 DEF Invoke

LEMMA UpdateMoves ==
  ASSUME TypeInv, NEW c \in Calls, NEW n \in Nodes, NEW config \in Configs, UpdateConfig(c, n, config)
  PROVE  CallsOK(c) /\ call'[c].step = "save"
<1> DEFINE k == [NewCall EXCEPT !.op = "update", !.node = n, !.step = "save", !.config = config]
<1>1. call'[c] = k /\ DOMAIN call' = Calls /\ \A d \in Calls \ {c} : call'[d] = call[d]
  BY BecomesMoves DEF TypeInv, UpdateConfig
<1>2. call'[c].step = "save"
  BY <1>1 DEF NewCall
<1>3. CallOK(call'[c])
  BY UpdateTypes DEF TypeInv, TypeOK
<1> QED BY <1>1, <1>2, <1>3 DEF CallsOK

LEMMA RegisterMoves ==
  ASSUME TypeInv, NEW c \in Calls, NEW n \in Nodes, NEW r \in Runtimes, Register(c, n, r)
  PROVE  /\ CallsOK(c) /\ call'[c].step \in {"done", "config"}
         /\ call'[c].step = "config" =>
              /\ call'[c].node = n /\ call'[c].rt = r /\ ~destroyed[n] /\ ~Has(n, r) /\ Contends(c, n, r)
<1> DEFINE k == [NewCall EXCEPT !.op = "register", !.node = n, !.rt = r]
<1>1. Directed(k) /\ k.node = n /\ k.rt = r
  <2>1. k.op \in Ops
    BY DEF Ops, NewCall
  <2> QED BY <2>1, BegunIsDirected DEF NewCall, Ops
<1>2. Enters(c, k, plugins[n])
  BY DEF Register
<1> HIDE DEF k
<1> QED BY <1>1, <1>2, EntersFollows DEF Follows, Has, Register, TypeInv

(* No service of the place starts to be one that can be destroyed.         *)
Calmer(n, r) == \A i \in Ids : Destroyable(<<n, r, i>>)' => Destroyable(<<n, r, i>>)

LEMMA PhasesCalm ==
  ASSUME TypeOK, NEW S, service' = InPhase(S, "closing") \/ service' = Ended(S),
         NEW n \in Nodes, NEW r \in Runtimes
  PROVE  /\ Calmer(n, r)
         /\ \A i \in Ids : <<n, r, i>> \in S => ~Destroyable(<<n, r, i>>)'
<1> SUFFICES ASSUME NEW i \in Ids
             PROVE  /\ Destroyable(<<n, r, i>>)' => Destroyable(<<n, r, i>>)
                    /\ <<n, r, i>> \in S => ~Destroyable(<<n, r, i>>)'
  BY DEF Calmer
<1>1. <<n, r, i>> \in Services
  BY DEF Services
<1>2. CASE service' = InPhase(S, "closing")
  BY <1>1, <1>2 DEF InPhase, Destroyable, TypeOK, ServiceRecord
<1>3. CASE service' = Ended(S)
  BY <1>1, <1>3 DEF Ended, Destroyable, TypeOK, Service
<1> QED BY <1>2, <1>3

(* What has happened to a place is not forgotten, but for a configuration   *)
(* that other nodes were not told, which the next one they are told ends.  *)
Lasting == Excuses \ {"unannounced"}

LEMMA ExcusedGrows ==
  ASSUME TypeOK, NEW kind \in Excuses, NEW S, Excused(kind, S)
  PROVE  /\ \A e \in Excuses : excuse[e] \subseteq excuse'[e]
         /\ S \subseteq excuse'[kind]
BY DEF TypeOK, Excused

LEMMA ContendsGrows ==
  ASSUME TypeOK, NEW c, NEW n \in Nodes, NEW r \in Runtimes, Contends(c, n, r)
  PROVE  /\ \A e \in Excuses : excuse[e] \subseteq excuse'[e]
         /\ <<n, r>> \notin excuse'["overlap"] =>
              /\ Replacing(n, r) \subseteq {c} /\ ~destroyed[n]
              /\ \A d \in Updating : call[d].node # n
              /\ call[c].step = "expiry" => call[c].seen = LocalVersions(n, r)
<1>1. CASE UNCHANGED excuse
  BY <1>1, ExcusedGrows DEF Contends, Excuses
<1>2. CASE Excused("overlap", {<<n, r>>})
  BY <1>2, ExcusedGrows DEF Excuses
<1> QED BY <1>1, <1>2 DEF Contends

LEMMA WithdrawsGrows ==
  ASSUME TypeOK, NEW c, NEW n \in Nodes, NEW r \in Runtimes, Withdraws(c, n, r)
  PROVE  /\ \A e \in Excuses : excuse[e] \subseteq excuse'[e]
         /\ <<n, r>> \in excuse'["withdrawn"]
         /\ <<n, r>> \notin excuse'["overlap"] => Replacing(n, r) \subseteq {c} /\ ~destroyed[n]
<1>1. excuse' = [excuse EXCEPT !["withdrawn"] = @ \cup {<<n, r>>},
                           !["overlap"] = IF Replacing(n, r) \ {c} # {} \/ destroyed[n]
                                          THEN @ \cup {<<n, r>>} ELSE @]
  BY DEF Withdraws
<1>2. DOMAIN excuse = Excuses
  BY DEF TypeOK
<1> QED BY <1>1, <1>2 DEF Excuses

LEMMA SharesKeyGrows ==
  ASSUME TypeOK, NEW n \in Nodes, NEW r \in Runtimes, SharesKey(n, r)
  PROVE  /\ \A e \in Excuses : excuse[e] \subseteq excuse'[e]
         /\ local[n][Config] # redis[Config] => \A q \in Runtimes \ {r} : <<n, q>> \in excuse'["shared"]
<1>1. CASE UNCHANGED excuse /\ local[n][Config] = redis[Config]
  BY <1>1
<1>2. CASE Excused("shared", {<<n, q>> : q \in Runtimes \ {r}})
  BY <1>2, ExcusedGrows DEF Excuses
<1> QED BY <1>1, <1>2 DEF SharesKey

LEMMA SyncsGrows ==
  ASSUME TypeOK, NEW n \in Nodes, NEW r \in Runtimes, NEW keys, Syncs(n, r, keys)
  PROVE  \A e \in Excuses : excuse[e] \subseteq excuse'[e]
BY SharesKeyGrows DEF Syncs

LEMMA ExcusesGrowBut ==
  ASSUME TypeInv, NEW c \in Calls, Begin(c) \/ Fleets(c) \/ (Continue(c) /\ ~Refresh(c))
  PROVE  \A e \in Excuses : excuse[e] \subseteq excuse'[e]
<1> USE DEF TypeInv
<1>1. CASE Fleets(c)
  BY <1>1, FleetsChange
<1>2. ASSUME NEW n \in Nodes, NEW r \in Runtimes,
             Register(c, n, r) \/ Unregister(c, n, r) \/ Invoke(c, n, r) \/ \E new \in Runtimes : Replace(c, n, r, new)
      PROVE  \A e \in Excuses : excuse[e] \subseteq excuse'[e]
  BY <1>2, ContendsGrows, WithdrawsGrows DEF Register, Unregister, Invoke, Replace
<1>3. ASSUME NEW n \in Nodes, NEW config \in Configs,
             UpdateConfig(c, n, config) \/ Shutdown(c, n) \/ Restart(c, n)
      PROVE  \A e \in Excuses : excuse[e] \subseteq excuse'[e]
  <2>1. \/ UNCHANGED excuse \/ Excused("unannounced", Places)
        \/ Excused("overlap", {<<n, r>> : r \in {q \in Runtimes : Replacing(n, q) # {}}})
    BY <1>3 DEF UpdateConfig, Shutdown, Restart
  <2> QED BY <2>1, ExcusedGrows DEF Excuses
<1>4. CASE Continue(c) /\ ~Refresh(c)
  <2>1. CASE CheckVersions(c)
    <3>1. call[c].node \in Nodes /\ call[c].rt \in Runtimes
      BY <2>1, CallTypes DEF CheckVersions, Running
    <3> QED BY <2>1, <3>1, ContendsGrows DEF CheckVersions
  <2>2. CASE Publish(c) \/ Sync(c)
    <3>1. call[c].node \in Nodes /\ call[c].rt \in Runtimes
      BY <2>2, CallTypes DEF Publish, Sync, Running
    <3>2. \E keys : Syncs(call[c].node, call[c].rt, keys)
      BY <2>2 DEF Publish, Sync
    <3> QED BY <3>1, <3>2, SyncsGrows
  <2>3. CASE ReadConfig(c) \/ Apply(c) \/ RefreshFails(c)
    <3>1. UNCHANGED excuse \/ \E e \in Excuses : \E places : Excused(e, places)
      BY <2>3 DEF ReadConfig, Apply, RefreshFails, Excuses
    <3> QED BY <3>1, ExcusedGrows
  <2>4. CASE Save(c)
    <3>1. CASE UNCHANGED excuse \/ Excused("raced", Places)
      BY <3>1, ExcusedGrows DEF Excuses
    <3>2. CASE excuse' = [excuse EXCEPT !["unannounced"] = Places, !["raced"] = IF Races THEN Places ELSE @]
      BY <3>2 DEF TypeOK
    <3> QED BY <2>4, <3>1, <3>2 DEF Save
  <2>5. CASE Load(c) \/ Closed(c) \/ ShutdownEnds(c)
    BY <2>5 DEF Load, Closed, ShutdownEnds
  <2> QED BY <1>4, <2>1, <2>2, <2>3, <2>4, <2>5 DEF Continue
<1>5. CASE Begin(c)
  <2>1. PICK n \in Nodes :
          \/ \E r \in Runtimes : Register(c, n, r) \/ Unregister(c, n, r) \/ Invoke(c, n, r)
          \/ \E r \in Runtimes : \E new \in Runtimes : Replace(c, n, r, new)
          \/ \E config \in Configs : UpdateConfig(c, n, config)
          \/ Shutdown(c, n) \/ Restart(c, n)
    BY <1>5 DEF Begin
  <2>2. CASE \E config \in Configs : UpdateConfig(c, n, config)
    BY <2>2, <1>3
  <2>3. CASE Shutdown(c, n) \/ Restart(c, n)
    BY <2>3, <1>3, ManagerAssumption
  <2> QED BY <2>1, <2>2, <2>3, <1>2
<1> QED BY <1>1, <1>4, <1>5

LEMMA RefreshGrows ==
  ASSUME TypeInv, NEW c \in Calls, Refresh(c)
  PROVE  /\ \A e \in Lasting : excuse[e] \subseteq excuse'[e]
         /\ call[c].synced => {<<call[c].node, r>> : r \in {q \in Runtimes : ~Has(call[c].node, q)}} \subseteq excuse'["shared"]
<1> DEFINE shared == IF call[c].synced
                     THEN excuse["shared"] \cup {<<call[c].node, r>> : r \in {q \in Runtimes : ~Has(call[c].node, q)}}
                     ELSE excuse["shared"]
<1>1. excuse' = [excuse EXCEPT !["unannounced"] = {}, !["shared"] = shared]
  BY DEF Refresh, TypeInv, TypeOK, Excuses
<1>2. excuse["shared"] \subseteq shared
  OBVIOUS
<1>3. call[c].synced => {<<call[c].node, r>> : r \in {q \in Runtimes : ~Has(call[c].node, q)}} \subseteq shared
  OBVIOUS
<1> HIDE DEF shared
<1> QED BY <1>1, <1>2, <1>3 DEF TypeInv, TypeOK, Lasting, Excuses

LEMMA ExcusesGrow ==
  ASSUME TypeInv, [Next]_vars
  PROVE  \A e \in Lasting : excuse[e] \subseteq excuse'[e]
BY ExcusesGrowBut, RefreshGrows DEF Next, vars, Lasting

-----------------------------------------------------------------------------
(* No orphans                                                              *)

ReplaceSteps == {"config", "load", "publish", "closing", "sync"}

LEMMA CalmEntry ==
  ASSUME TypeInv, NEW n \in Nodes, NEW r \in Runtimes, Calmer(n, r), plugins'[n][r] = plugins[n][r],
         Has(n, r), ~Destroyable(Entry(n, r))
  PROVE  ~Destroyable(Entry(n, r))'
<1>1. plugins[n][r] \in Ids
  BY DEF Has, TypeInv, TypeOK
<1> QED BY <1>1 DEF Calmer, Entry, Destroyable

(* A step of c that loads nothing at the place keeps it, if c has no rival *)
(* there when it begins, and what c is about to replace is gone.           *)
LEMMA KeptIf ==
  ASSUME TypeInv, NEW c \in Calls, CallsOK(c), NEW n \in Nodes, NEW r \in Runtimes, Kept(n, r),
         plugins'[n][r] = plugins[n][r], destroyed'[n] = destroyed[n], Calmer(n, r),
         (call'[c].node = n /\ call'[c].rt = r /\ call'[c].step \in ReplaceSteps) =>
           /\ Replacing(n, r) \subseteq {c} \/ c \in Replacing(n, r)
           /\ ~destroyed[n]
           /\ call'[c].step \in {"config", "load"} => ~Has(n, r)
           /\ call'[c].step = "closing" /\ Has(n, r) => ~Destroyable(Entry(n, r))'
  PROVE  Kept(n, r)'
<1>1. \A d \in Replacing(n, r)' : d = c \/ (d \in Replacing(n, r) /\ call'[d] = call[d])
  BY DEF Replacing, At, CallsOK
<1>2. c \in Replacing(n, r)' => call'[c].node = n /\ call'[c].rt = r /\ call'[c].step \in ReplaceSteps
  BY DEF Replacing, At, ReplaceSteps
<1>3. \A i \in Ids : Destroyable(<<n, r, i>>)' => plugins'[n][r] = i /\ ~destroyed'[n]
  BY DEF Kept, Calmer
<1>4. \A d, e \in Replacing(n, r)' : d = e
  BY <1>1, <1>2 DEF Kept
<1>5. ASSUME NEW d \in Replacing(n, r)'
      PROVE  /\ ~destroyed'[n]
             /\ call'[d].step \in {"config", "load"} => ~Has(n, r)'
             /\ call'[d].step = "closing" /\ Has(n, r)' => ~Destroyable(Entry(n, r))'
  <2>1. CASE d = c
    BY <2>1, <1>2, <1>5 DEF Has
  <2>2. CASE d # c
    <3>1. d \in Replacing(n, r) /\ call'[d] = call[d]
      BY <1>1, <1>5, <2>2
    <3>2. call[d].step = "closing" /\ Has(n, r) => ~Destroyable(Entry(n, r))'
      BY <3>1, CalmEntry DEF Kept
    <3> QED BY <3>1, <3>2 DEF Kept, Has
  <2> QED BY <2>1, <2>2
<1> QED BY <1>3, <1>4, <1>5 DEF Kept

(* After the step the service cannot be destroyed any more.                *)
Gone(s) == service'[s].phase \notin {"live", "misled"}

(* The same once the service of the place has been taken from plugins.     *)
LEMMA KeptUnloaded ==
  ASSUME TypeInv, NEW c \in Calls, CallsOK(c), NEW n \in Nodes, NEW r \in Runtimes, Kept(n, r),
         plugins'[n][r] = None, UNCHANGED destroyed, Calmer(n, r),
         Replacing(n, r) \subseteq {c}, ~destroyed[n],
         Has(n, r) => Gone(Entry(n, r)), call'[c].step # "closing"
  PROVE  Kept(n, r)'
<1>1. \A d \in Replacing(n, r)' : d = c
  BY DEF Replacing, At, CallsOK
<1>2. ASSUME NEW i \in Ids, Destroyable(<<n, r, i>>)'
      PROVE  FALSE
  <2>1. plugins[n][r] = i
    BY <1>2 DEF Kept, Calmer
  <2>2. Has(n, r)
    BY <2>1, KeyFacts DEF Has
  <2>4. Gone(<<n, r, i>>)
    BY <2>1, <2>2 DEF Entry
  <2> QED BY <1>2, <2>4 DEF Destroyable, Gone
<1> QED BY <1>1, <1>2 DEF Kept, Has

(* The place and the step of the lemmas below.                             *)
Undisputed(n, r) == Kept(n, r) /\ <<n, r>> \notin excuse'["overlap"]

LEMMA QuietKeeps ==
  ASSUME TypeInv, NEW c \in Calls, CallsOK(c), NEW n \in Nodes, NEW r \in Runtimes, Kept(n, r),
         UNCHANGED <<plugins, destroyed>>, \A s \in Services : service'[s].phase = service[s].phase,
         call'[c].step \in ReplaceSteps =>
           /\ call'[c].node = call[c].node /\ call'[c].rt = call[c].rt /\ call[c].step \in ReplaceSteps
           /\ call'[c].step \notin {"config", "closing"}
           /\ call'[c].step = "load" => call[c].step = "config"
  PROVE  Kept(n, r)'
<1>1. Calmer(n, r)
  BY DEF Calmer, Destroyable, Services
<1>2. call'[c].node = n /\ call'[c].rt = r /\ call'[c].step \in ReplaceSteps => c \in Replacing(n, r)
  BY DEF Replacing, At, ReplaceSteps
<1>3. c \in Replacing(n, r) => ~destroyed[n] /\ (call[c].step = "config" => ~Has(n, r))
  BY DEF Kept
<1> QED BY <1>1, <1>2, <1>3, KeptIf

LEMMA RegisterKeeps ==
  ASSUME TypeInv, NEW c \in Calls, NEW m \in Nodes, NEW q \in Runtimes, Register(c, m, q),
         NEW n \in Nodes, NEW r \in Runtimes, Undisputed(n, r)
  PROVE  Kept(n, r)'
<1>1. call'[c].step = "config" /\ m = n /\ q = r => Replacing(n, r) \subseteq {c}
  BY RegisterMoves, ContendsGrows DEF TypeInv, Undisputed
<1>2. Calmer(n, r)
  BY DEF Register, Calmer, Destroyable
<1>3. UNCHANGED <<plugins, destroyed>> /\ Kept(n, r)
  BY DEF Register, Undisputed
<1> QED BY <1>1, <1>2, <1>3, RegisterMoves, KeptIf DEF ReplaceSteps

LEMMA LoadKeeps ==
  ASSUME TypeInv, NEW c \in Calls, Load(c), NEW n \in Nodes, NEW r \in Runtimes, Kept(n, r)
  PROVE  Kept(n, r)'
<1> DEFINE m == call[c].node  q == call[c].rt
<1> USE DEF TypeInv
<1>1. m \in Nodes /\ q \in Runtimes /\ call[c].step = "load"
  BY CallTypes DEF Load, Running
<1>2. CASE call'[c].step = "done" /\ UNCHANGED <<plugins, service>>
  BY <1>2, LoadMoves, QuietKeeps DEF Load, ReplaceSteps, Follows
<1>3. CASE /\ plugins' = [plugins EXCEPT ![m][q] = c] /\ call'[c].step = "publish"
           /\ \A s \in Services : s # <<m, q, c>> => service'[s] = service[s]
  <2>1. \A d \in Calls \ {c} : call'[d] = call[d]
    BY LoadMoves DEF Follows, CallsOK
  <2>2. call'[c].step = "publish" /\ call'[c].node = m /\ call'[c].rt = q
    BY <1>3, LoadMoves DEF Follows
  <2>3. \A a \in Nodes, b \in Runtimes : plugins'[a][b] = IF a = m /\ b = q THEN c ELSE plugins[a][b]
    BY <1>1, <1>3 DEF TypeOK
  <2>4. \A s \in Services : s # <<m, q, c>> => service'[s] = service[s]
    BY <1>3
  <2>5. \A d \in Calls : At(d)' = At(d) /\ (d # c => call'[d] = call[d])
    BY <2>1, <2>2 DEF At
  <2>6. Replacing(n, r)' = Replacing(n, r)
    BY <2>1, <2>2, <2>5, <1>1 DEF Replacing
  <2>7. c \in Replacing(n, r) <=> n = m /\ r = q
    BY <1>1 DEF Replacing, At
  <2>8. CASE n = m /\ r = q
    <3>1. ~Has(n, r) /\ ~destroyed[n] /\ \A d \in Replacing(n, r) : d = c
      BY <2>7, <2>8, <1>1 DEF Kept
    <3>2. \A i \in Ids : ~Destroyable(<<n, r, i>>)
      BY <3>1, KeyFacts DEF Kept, Has
    <3>3. ASSUME NEW i \in Ids, Destroyable(<<n, r, i>>)' PROVE i = c
      BY <3>2, <3>3, <2>4 DEF Destroyable, Services
    <3>4. plugins'[n][r] = c /\ UNCHANGED destroyed
      BY <2>3, <2>8 DEF Load
    <3> QED BY <3>1, <3>3, <3>4, <2>2, <2>6 DEF Kept
  <2>9. CASE ~(n = m /\ r = q)
    <3>1. \A i \in Ids : Destroyable(<<n, r, i>>)' <=> Destroyable(<<n, r, i>>)
      BY <2>4, <2>9 DEF Destroyable, Services
    <3>2. plugins'[n][r] = plugins[n][r] /\ UNCHANGED destroyed
      BY <2>3, <2>9 DEF Load
    <3>3. \A d \in Replacing(n, r) : call'[d] = call[d]
      <4>1. c \notin Replacing(n, r)
        BY <2>7, <2>9
      <4> QED BY <4>1, <2>5 DEF Replacing
    <3>4. \A d \in Replacing(n, r) : call[d].step = "closing" /\ Has(n, r) => ~Destroyable(Entry(n, r))'
      BY <3>1, <3>2, CalmEntry DEF Kept, Calmer
    <3> QED BY <3>1, <3>2, <3>3, <3>4, <2>6 DEF Kept, Has
  <2> QED BY <2>8, <2>9
<1> QED BY <1>2, <1>3, LoadMoves

LEMMA QuietSteps ==
  ASSUME TypeInv, NEW c \in Calls, NEW n \in Nodes, NEW r \in Runtimes, Kept(n, r),
         ReadConfig(c) \/ Publish(c) \/ Sync(c) \/ Save(c) \/ Apply(c) \/ Refresh(c) \/ RefreshFails(c) \/ Fleets(c)
  PROVE  Kept(n, r)'
<1> USE DEF TypeInv
<1>1. CASE ReadConfig(c)
  BY <1>1, ReadConfigMoves, QuietKeeps DEF ReadConfig, ReplaceSteps, Follows
<1>2. CASE Publish(c)
  BY <1>2, PublishMoves, QuietKeeps DEF Publish, ReplaceSteps, Follows
<1>3. CASE Sync(c)
  BY <1>3, ReturnsFollows, QuietKeeps DEF Sync, ReplaceSteps, Follows
<1>4. CASE Save(c)
  BY <1>4, SaveMoves, QuietKeeps DEF Save, ReplaceSteps, Follows
<1>5. CASE Apply(c)
  BY <1>5, ApplyMoves, QuietKeeps DEF Apply, ReplaceSteps, Follows
<1>6. CASE Refresh(c) \/ RefreshFails(c)
  BY <1>6, ReturnsFollows, QuietKeeps DEF Refresh, RefreshFails, ReplaceSteps, Follows
<1>7. CASE Fleets(c)
  BY <1>7, FleetsChange, ReturnsFollows, QuietKeeps DEF ReplaceSteps, Follows
<1> QED BY <1>1, <1>2, <1>3, <1>4, <1>5, <1>6, <1>7

LEMMA QuietBegins ==
  ASSUME TypeInv, NEW c \in Calls, NEW n \in Nodes, NEW r \in Runtimes, Kept(n, r),
         NEW m \in Nodes, NEW q \in Runtimes, NEW config \in Configs,
         Invoke(c, m, q) \/ UpdateConfig(c, m, config)
  PROVE  Kept(n, r)'
<1>1. CASE Invoke(c, m, q)
  BY <1>1, InvokeMoves, QuietKeeps DEF Invoke, ReplaceSteps
<1>2. CASE UpdateConfig(c, m, config)
  BY <1>2, UpdateMoves, QuietKeeps DEF UpdateConfig, ReplaceSteps
<1> QED BY <1>1, <1>2

(* The service of a place is told to close.                                *)
LEMMA ClosesKeeps ==
  ASSUME TypeInv, NEW c \in Calls, NEW k, Directed(k), Has(k.node, k.rt), Closes(c, k, Entry(k.node, k.rt)),
         UNCHANGED destroyed, NEW n \in Nodes, NEW r \in Runtimes, Kept(n, r),
         <<n, r>> = <<k.node, k.rt>> => Replacing(n, r) \subseteq {c} /\ ~destroyed[n]
  PROVE  Kept(n, r)'
<1> USE DEF TypeInv
<1>1. Entry(k.node, k.rt) \in Services
  BY EntryIsService DEF Directed
<1>2. /\ CallsOK(c) /\ call'[c].node = k.node /\ call'[c].rt = k.rt /\ call'[c].step = "closing"
      /\ service' = InPhase({Entry(k.node, k.rt)}, "closing") /\ UNCHANGED plugins
  BY <1>1, ClosesFollows DEF Follows
<1>3. Calmer(n, r)
  BY <1>2, PhasesCalm
<1>4. Gone(Entry(k.node, k.rt))
  BY <1>1, <1>2, PhaseRecord DEF Gone, InPhase, TypeOK, Phases
<1>5. ~Destroyable(Entry(k.node, k.rt))'
  BY <1>2, <1>4 DEF Gone, Destroyable, Entry
<1> QED BY <1>2, <1>3, <1>5, KeptIf

(* The entry of a place is deleted, and its service was closing or is gone. *)
LEMMA DeletedKeeps ==
  ASSUME TypeInv, NEW c \in Calls, NEW k, Directed(k), Deleted(c, k), UNCHANGED destroyed,
         NEW n \in Nodes, NEW r \in Runtimes, Kept(n, r), Calmer(n, r),
         <<n, r>> = <<k.node, k.rt>> =>
           Replacing(n, r) \subseteq {c} /\ ~destroyed[n] /\ (Has(n, r) => Gone(Entry(n, r)))
  PROVE  Kept(n, r)'
<1> USE DEF TypeInv
<1>1. /\ CallsOK(c) /\ (call'[c].step # "done" => call'[c].node = k.node /\ call'[c].rt = k.rt)
      /\ call'[c].step \in {"done", "config"} /\ plugins'[k.node][k.rt] = None
      /\ <<n, r>> # <<k.node, k.rt>> => plugins'[n][r] = plugins[n][r]
  BY DeletedFollows DEF Follows
<1>2. CASE <<n, r>> = <<k.node, k.rt>>
  <2>1. n = k.node /\ r = k.rt
    BY <1>2
  <2> QED BY <1>1, <1>2, <2>1, KeptUnloaded
<1>3. CASE <<n, r>> # <<k.node, k.rt>>
  <2>1. ~(call'[c].node = n /\ call'[c].rt = r /\ call'[c].step \in ReplaceSteps)
    BY <1>1, <1>3 DEF ReplaceSteps
  <2> QED BY <1>1, <1>3, <2>1, KeptIf
<1> QED BY <1>2, <1>3

LEMMA UnregisterKeeps ==
  ASSUME TypeInv, NEW c \in Calls, NEW m \in Nodes, NEW q \in Runtimes,
         Unregister(c, m, q) \/ \E new \in Runtimes : Replace(c, m, q, new),
         NEW n \in Nodes, NEW r \in Runtimes, Undisputed(n, r)
  PROVE  Kept(n, r)'
<1> DEFINE k == [NewCall EXCEPT !.op = "unregister", !.node = m, !.rt = q]
<1> USE DEF TypeInv
<1>1. Directed(k) /\ k.node = m /\ k.rt = q
  <2>1. k.op \in Ops
    BY DEF Ops, NewCall
  <2> QED BY <2>1, BegunIsDirected DEF NewCall, Ops
<1> HIDE DEF k
<1>2. Kept(n, r) /\ UNCHANGED destroyed
  BY DEF Undisputed, Unregister, Replace
<1>3. CASE Returns(c) /\ UNCHANGED <<plugins, service>>
  BY <1>2, <1>3, ReturnsFollows, QuietKeeps DEF Follows, ReplaceSteps
<1>4. CASE Destroyable(Entry(m, q)) /\ service' = InPhase({Entry(m, q)}, "misled") /\ Returns(c) /\ UNCHANGED plugins
  <2>1. CallsOK(c) /\ call'[c].step = "done"
    BY <1>4, ReturnsFollows DEF Follows
  <2>2. Calmer(n, r)
    <3> SUFFICES ASSUME NEW i \in Ids, Destroyable(<<n, r, i>>)' PROVE Destroyable(<<n, r, i>>)
      BY DEF Calmer
    <3> QED BY <1>4 DEF InPhase, Destroyable, Services, TypeOK, ServiceRecord
  <2> QED BY <1>2, <1>4, <2>1, <2>2, KeptIf DEF ReplaceSteps
<1>5. CASE Withdraws(c, m, q) /\ Has(m, q) /\ (Closes(c, k, Entry(m, q)) \/ (~Destroyable(Entry(m, q)) /\ Deleted(c, k) /\ UNCHANGED service))
  <2>1. <<n, r>> = <<m, q>> => Replacing(n, r) \subseteq {c} /\ ~destroyed[n]
    BY <1>5, WithdrawsGrows DEF Undisputed
  <2>2. CASE Closes(c, k, Entry(m, q))
    BY <1>1, <1>2, <1>5, <2>1, <2>2, ClosesKeeps
  <2>3. CASE ~Destroyable(Entry(m, q)) /\ Deleted(c, k) /\ UNCHANGED service
    <3>1. Calmer(n, r)
      BY <2>3 DEF Calmer, Destroyable
    <3>2. Gone(Entry(m, q))
      BY <2>3 DEF Gone, Destroyable
    <3> QED BY <1>1, <1>2, <2>1, <2>3, <3>1, <3>2, DeletedKeeps
  <2> QED BY <1>5, <2>2, <2>3
<1> QED BY <1>3, <1>4, <1>5 DEF Unregister, Replace, k

LEMMA ClosedKeeps ==
  ASSUME TypeInv, NEW c \in Calls, Closed(c), NEW n \in Nodes, NEW r \in Runtimes, Kept(n, r)
  PROVE  Kept(n, r)'
<1> USE DEF TypeInv
<1>1. Directed(call[c]) /\ call[c].step = "closing" /\ UNCHANGED destroyed
  BY CallTypes DEF Closed, Directed, Running
<1>2. Calmer(n, r)
  BY PhasesCalm DEF Closed
<1>3. ASSUME <<n, r>> = <<call[c].node, call[c].rt>>
      PROVE  Replacing(n, r) \subseteq {c} /\ ~destroyed[n] /\ (Has(n, r) => Gone(Entry(n, r)))
  <2>1. c \in Replacing(n, r)
    BY <1>1, <1>3 DEF Replacing, At
  <2>2. Has(n, r) => plugins[n][r] \in Ids /\ ~Destroyable(Entry(n, r))
    BY <1>1, <2>1 DEF Kept, Has, TypeOK
  <2>3. Has(n, r) => Gone(Entry(n, r))
    BY <1>2, <2>2 DEF Calmer, Gone, Entry, Destroyable
  <2> QED BY <2>1, <2>3 DEF Kept
<1> QED BY <1>1, <1>2, <1>3, DeletedKeeps DEF Closed

LEMMA CheckKeeps ==
  ASSUME TypeInv, NEW c \in Calls, CheckVersions(c), NEW n \in Nodes, NEW r \in Runtimes, Undisputed(n, r)
  PROVE  Kept(n, r)'
<1> DEFINE m == call[c].node  q == call[c].rt
           k == [call[c] EXCEPT !.seen = NewCall.seen]
<1> USE DEF TypeInv
<1>1. /\ Directed(k) /\ k.node = m /\ k.rt = q /\ m \in Nodes /\ q \in Runtimes
      /\ call[c].step = "expiry" /\ UNCHANGED destroyed /\ Kept(n, r)
  BY CallTypes, KeyFacts DEF CheckVersions, Directed, Running, NewCall, CallRecord, Undisputed
<1> HIDE DEF m, q, k
<1>2. CASE Returns(c) /\ UNCHANGED <<plugins, service>>
  BY <1>1, <1>2, ReturnsFollows, QuietKeeps DEF Follows, ReplaceSteps
<1>3. CASE Contends(c, m, q) /\ ~Has(m, q) /\ Enters(c, k, plugins[m]) /\ UNCHANGED <<plugins, service>>
  <2>1. <<n, r>> = <<m, q>> => Replacing(n, r) \subseteq {c} /\ ~destroyed[n]
    BY <1>1, <1>3, ContendsGrows DEF Undisputed
  <2>2. Calmer(n, r)
    BY <1>3 DEF Calmer, Destroyable
  <2>3. /\ CallsOK(c) /\ (call'[c].step # "done" => call'[c].node = m /\ call'[c].rt = q)
        /\ call'[c].step \in {"done", "config"}
    BY <1>1, <1>3, EntersFollows DEF Follows
  <2> QED BY <1>1, <1>3, <2>1, <2>2, <2>3, KeptIf DEF ReplaceSteps
<1>4. CASE /\ Contends(c, m, q) /\ Has(m, q)
           /\ Closes(c, k, Entry(m, q)) \/ (~Destroyable(Entry(m, q)) /\ Deleted(c, k) /\ UNCHANGED service)
  <2>1. <<n, r>> = <<m, q>> => Replacing(n, r) \subseteq {c} /\ ~destroyed[n]
    BY <1>1, <1>4, ContendsGrows DEF Undisputed
  <2>2. CASE Closes(c, k, Entry(m, q))
    BY <1>1, <1>4, <2>1, <2>2, ClosesKeeps
  <2>3. CASE ~Destroyable(Entry(m, q)) /\ Deleted(c, k) /\ UNCHANGED service
    <3>1. Calmer(n, r)
      BY <2>3 DEF Calmer, Destroyable
    <3>2. Gone(Entry(m, q))
      BY <2>3 DEF Gone, Destroyable
    <3> QED BY <1>1, <2>1, <2>3, <3>1, <3>2, DeletedKeeps
  <2> QED BY <1>4, <2>2, <2>3
<1> QED BY <1>2, <1>3, <1>4 DEF CheckVersions, m, q, k

LEMMA ShutdownKeeps ==
  ASSUME TypeInv, NEW c \in Calls, NEW m \in Nodes, Shutdown(c, m),
         NEW n \in Nodes, NEW r \in Runtimes, Undisputed(n, r)
  PROVE  Kept(n, r)'
<1> DEFINE mine == {s \in Loaded(m) : Destroyable(s)}
           k == [NewCall EXCEPT !.op = "shutdown", !.node = m, !.step = "ending", !.old = mine]
<1> USE DEF TypeInv
<1>1. CASE destroyed[m]
  BY <1>1, ReturnsFollows, QuietKeeps DEF Shutdown, Undisputed, Follows, ReplaceSteps
<1>2. CASE ~destroyed[m]
  <2>1. /\ destroyed' = [destroyed EXCEPT ![m] = TRUE] /\ service' = InPhase(mine, "closing") /\ UNCHANGED plugins
        /\ Becomes(c, k) /\ Excused("overlap", {<<m, q>> : q \in {q \in Runtimes : Replacing(m, q) # {}}})
    BY <1>2 DEF Shutdown
  <2>2. call'[c].step = "ending" /\ \A d \in Calls \ {c} : call'[d] = call[d]
    <3>1. k.step = "ending"
      BY DEF NewCall
    <3> HIDE DEF k
    <3> QED BY <2>1, <3>1, BecomesMoves
  <2>3. Calmer(n, r) /\ \A i \in Ids : <<n, r, i>> \in mine => ~Destroyable(<<n, r, i>>)'
    <3> HIDE DEF mine
    <3> QED BY <2>1, PhasesCalm
  <2>4. \A d \in Replacing(n, r)' : d \in Replacing(n, r) /\ call'[d] = call[d]
    BY <2>2 DEF Replacing, At
  <2>5. CASE n = m
    <3>1. Replacing(n, r) = {}
      <4>1. Excused("overlap", {<<m, q>> : q \in {q \in Runtimes : Replacing(m, q) # {}}})
        BY <2>1
      <4>2. {<<m, q>> : q \in {q \in Runtimes : Replacing(m, q) # {}}} \subseteq excuse'["overlap"]
        BY <4>1, ExcusedGrows DEF Excuses
      <4> QED BY <4>2, <2>5 DEF Undisputed
    <3>2. ASSUME NEW i \in Ids PROVE ~Destroyable(<<n, r, i>>)'
      <4>1. Destroyable(<<n, r, i>>) => plugins[n][r] = i
        BY DEF Undisputed, Kept
      <4>2. Destroyable(<<n, r, i>>) => <<n, r, i>> \in mine
        BY <4>1, <2>5, KeyFacts DEF Loaded, Entry, Has
      <4> QED BY <4>2, <2>3 DEF Calmer
    <3> QED BY <3>1, <3>2, <2>4 DEF Kept
  <2>6. CASE n # m
    <3>1. destroyed'[n] = destroyed[n] /\ plugins'[n][r] = plugins[n][r]
      BY <2>1, <2>6 DEF TypeOK
    <3>2. \A d \in Replacing(n, r) : call[d].step = "closing" /\ Has(n, r) => ~Destroyable(Entry(n, r))'
      BY <3>1, <2>3, CalmEntry DEF Kept, Undisputed
    <3> QED BY <3>1, <3>2, <2>3, <2>4 DEF Kept, Undisputed, Calmer, Has
  <2> QED BY <2>5, <2>6
<1> QED BY <1>1, <1>2

LEMMA EndsKeeps ==
  ASSUME TypeInv, NEW c \in Calls, ShutdownEnds(c), NEW n \in Nodes, NEW r \in Runtimes, Kept(n, r)
  PROVE  Kept(n, r)'
<1> DEFINE m == call[c].node
<1> USE DEF TypeInv
<1>1. m \in Nodes /\ destroyed[m] /\ UNCHANGED destroyed
  BY CallTypes DEF ShutdownEnds, Running, Destroying
<1>2. CallsOK(c) /\ call'[c].step = "done"
  BY ReturnsFollows DEF ShutdownEnds, Follows
<1>3. Calmer(n, r)
  BY PhasesCalm DEF ShutdownEnds
<1>4. CASE n = m
  <2>1. Replacing(n, r) = {} /\ \A i \in Ids : ~Destroyable(<<n, r, i>>)
    BY <1>1, <1>4 DEF Kept
  <2>2. Replacing(n, r)' = {}
    BY <2>1, <1>2 DEF Replacing, CallsOK, At
  <2> QED BY <2>1, <2>2, <1>3 DEF Kept, Calmer
<1>5. CASE n # m
  <2>1. plugins'[n][r] = plugins[n][r]
    BY <1>5 DEF ShutdownEnds, TypeOK
  <2> QED BY <2>1, <1>1, <1>2, <1>3, KeptIf DEF ReplaceSteps
<1> QED BY <1>4, <1>5

LEMMA RestartKeeps ==
  ASSUME TypeInv, NEW c \in Calls, NEW m \in Nodes, Restart(c, m), NEW n \in Nodes, NEW r \in Runtimes, Kept(n, r)
  PROVE  Kept(n, r)'
<1> USE DEF TypeInv
<1>1. \A d \in Calls : call'[d].step # "done" => call'[d] = call[d] /\ ~(call[d].node = m /\ Running(d))
  BY DEF Restart, NewCall
<1>2. \A d \in Replacing(n, r)' : d \in Replacing(n, r) /\ call'[d] = call[d] /\ n # m
  BY <1>1 DEF Replacing, At, Running
<1>3. Calmer(n, r) /\ (n = m => \A i \in Ids : ~Destroyable(<<n, r, i>>)')
  <2> DEFINE S == {s \in Services : s[1] = m}
  <2>1. service' = Ended(S)
    BY DEF Restart
  <2>2. n = m => \A i \in Ids : Destroyable(<<n, r, i>>) => <<n, r, i>> \in S
    BY DEF Destroyable, Services
  <2> HIDE DEF S
  <2>3. Calmer(n, r) /\ \A i \in Ids : <<n, r, i>> \in S => ~Destroyable(<<n, r, i>>)'
    BY <2>1, PhasesCalm
  <2> QED BY <2>2, <2>3 DEF Calmer
<1>4. CASE n = m
  BY <1>2, <1>3, <1>4 DEF Kept
<1>5. CASE n # m
  <2>1. plugins'[n][r] = plugins[n][r] /\ destroyed'[n] = destroyed[n]
    BY <1>5 DEF Restart, TypeOK
  <2>2. \A d \in Replacing(n, r) : call[d].step = "closing" /\ Has(n, r) => ~Destroyable(Entry(n, r))'
    BY <2>1, <1>3, CalmEntry DEF Kept
  <2> QED BY <2>1, <2>2, <1>2, <1>3 DEF Kept, Calmer, Has
<1> QED BY <1>4, <1>5

LEMMA OrphanInit == Init => OrphanInv
<1> SUFFICES ASSUME Init, NEW n \in Nodes, NEW r \in Runtimes PROVE Kept(n, r)
  BY DEF OrphanInv
<1>1. Replacing(n, r) = {}
  BY DEF Init, Replacing, NewCall
<1>2. PICK loaded \in SUBSET Places :
        /\ plugins = [a \in Nodes |-> [b \in Runtimes |-> IF <<a, b>> \in loaded THEN 0 ELSE None]]
        /\ service = [s \in Services |->
             IF s[3] = 0 /\ <<s[1], s[2]>> \in loaded THEN Service("live", Default, Default)
                                                    ELSE Service("none", Default, 0)]
  BY DEF Init
<1>3. ASSUME NEW i \in Ids, Destroyable(<<n, r, i>>) PROVE plugins[n][r] = i /\ ~destroyed[n]
  <2>1. <<n, r, i>> \in Services
    BY DEF Services
  <2>2. i = 0 /\ <<n, r>> \in loaded
    BY <1>2, <1>3, <2>1 DEF Destroyable, Service
  <2> QED BY <1>2, <2>2 DEF Init
<1> QED BY <1>1, <1>3 DEF Kept

LEMMA OrphanStep == TypeInv /\ OrphanInv /\ [Next]_vars => OrphanInv'
<1> SUFFICES ASSUME TypeInv, OrphanInv, [Next]_vars,
                    NEW n \in Nodes, NEW r \in Runtimes, Not({"overlap"}, n, r)'
             PROVE  Kept(n, r)'
  BY DEF OrphanInv
<1>1. Undisputed(n, r)
  <2>1. excuse["overlap"] \subseteq excuse'["overlap"]
    BY ExcusesGrow DEF Lasting, Excuses
  <2> QED BY <2>1 DEF Undisputed, OrphanInv, Not
<1>2. Kept(n, r)
  BY <1>1 DEF Undisputed
<1>3. CASE UNCHANGED vars
  BY <1>2, <1>3 DEF vars, Kept, Replacing, At, Has, Destroyable, Entry
<1>4. ASSUME NEW c \in Calls, Begin(c) PROVE Kept(n, r)'
  <2>1. PICK m \in Nodes :
          \/ \E q \in Runtimes : Register(c, m, q) \/ Unregister(c, m, q) \/ Invoke(c, m, q)
          \/ \E q \in Runtimes : \E new \in Runtimes : Replace(c, m, q, new)
          \/ \E config \in Configs : UpdateConfig(c, m, config)
          \/ Shutdown(c, m) \/ Restart(c, m)
    BY <1>4 DEF Begin
  <2>2. CASE \E q \in Runtimes : Register(c, m, q)
    BY <2>2, <1>1, RegisterKeeps
  <2>3. CASE \E q \in Runtimes : Unregister(c, m, q) \/ \E new \in Runtimes : Replace(c, m, q, new)
    BY <2>3, <1>1, UnregisterKeeps
  <2>4. CASE \E q \in Runtimes : Invoke(c, m, q)
    BY <2>4, <1>2, QuietBegins, ManagerAssumption
  <2>5. CASE \E config \in Configs : UpdateConfig(c, m, config)
    BY <2>5, <1>2, QuietBegins
  <2>6. CASE Shutdown(c, m)
    BY <2>6, <1>1, ShutdownKeeps
  <2>7. CASE Restart(c, m)
    BY <2>7, <1>2, RestartKeeps
  <2> QED BY <2>1, <2>2, <2>3, <2>4, <2>5, <2>6, <2>7
<1>5. ASSUME NEW c \in Calls, Continue(c) PROVE Kept(n, r)'
  BY <1>1, <1>2, <1>5, QuietSteps, LoadKeeps, ClosedKeeps, CheckKeeps, EndsKeeps DEF Continue
<1>6. ASSUME NEW c \in Calls, Fleets(c) PROVE Kept(n, r)'
  BY <1>2, <1>6, QuietSteps
<1> QED BY <1>3, <1>4, <1>5, <1>6 DEF Next

(* No service keeps pods without an entry in plugins, unless two calls     *)
(* replaced the service of its place at once: a lone call loads only where *)
(* nothing that can still be destroyed is left.                            *)
THEOREM NothingIsOrphaned == Spec => []NoOrphans
<1>1. TypeInv /\ OrphanInv => NoOrphans
  <2> SUFFICES ASSUME OrphanInv, NEW s \in Services, Destroyable(s), Not({"overlap"}, s[1], s[2])
               PROVE  plugins[s[1]][s[2]] = s[3]
    BY DEF NoOrphans
  <2>1. s[1] \in Nodes /\ s[2] \in Runtimes /\ s[3] \in Ids /\ s = <<s[1], s[2], s[3]>>
    BY DEF Services
  <2> QED BY <2>1 DEF OrphanInv, Kept
<1>2. Spec => [](TypeInv /\ OrphanInv)
  BY TypeInit, TypeStep, OrphanInit, OrphanStep, PTL DEF Spec
<1> QED BY <1>1, <1>2, PTL

-----------------------------------------------------------------------------
(* Versions                                                                *)

(* A call that has ended does not go on.                                   *)
LEMMA DoneStays ==
  ASSUME TypeInv, [Next]_vars, NEW d \in Calls, call[d].step = "done"
  PROVE  call'[d].step = "done"
<1> USE DEF TypeInv
<1>1. CASE UNCHANGED vars
  BY <1>1 DEF vars
<1>2. ASSUME NEW c \in Calls, NEW n \in Nodes, Restart(c, n) PROVE call'[d].step = "done"
  BY <1>2 DEF Restart, TypeOK, NewCall
<1>3. ASSUME NEW c \in Calls, c # d, DOMAIN call' = DOMAIN call, \E k : Becomes(c, k) PROVE call'[d].step = "done"
  BY <1>3, BecomesMoves
<1>4. ASSUME NEW c \in Calls, Begin(c) PROVE call'[d].step = "done"
  <2>1. c # d
    BY ZenonT(60), <1>4 DEF Begin, Begins, Register, Unregister, Invoke, Replace, UpdateConfig, Shutdown, Restart
  <2>2. (\E n \in Nodes : Restart(c, n)) \/ \E k : Becomes(c, k)
    <3>1. ASSUME NEW n \in Nodes, NEW r \in Runtimes, Register(c, n, r) \/ Invoke(c, n, r) PROVE \E k : Becomes(c, k)
      BY <3>1 DEF Register, Invoke, Returns, Enters
    <3>2. ASSUME NEW n \in Nodes, NEW r \in Runtimes, Unregister(c, n, r) PROVE \E k : Becomes(c, k)
      BY <3>2 DEF Unregister, Returns, Enters, Closes, Deleted
    <3>3. ASSUME NEW n \in Nodes, NEW r \in Runtimes, NEW new \in Runtimes, Replace(c, n, r, new)
          PROVE  \E k : Becomes(c, k)
      BY <3>3 DEF Replace, Returns, Enters, Closes, Deleted
    <3>4. ASSUME NEW n \in Nodes, NEW config \in Configs, UpdateConfig(c, n, config) \/ Shutdown(c, n)
          PROVE  \E k : Becomes(c, k)
      BY <3>4 DEF UpdateConfig, Shutdown, Returns
    <3>5. ASSUME NEW n \in Nodes, Shutdown(c, n) PROVE \E k : Becomes(c, k)
      BY <3>5, <3>4, ManagerAssumption
    <3>6. PICK m \in Nodes :
            \/ \E q \in Runtimes : Register(c, m, q) \/ Unregister(c, m, q) \/ Invoke(c, m, q)
            \/ \E q \in Runtimes : \E new \in Runtimes : Replace(c, m, q, new)
            \/ \E config \in Configs : UpdateConfig(c, m, config)
            \/ Shutdown(c, m) \/ Restart(c, m)
      BY <1>4 DEF Begin
    <3>7. CASE \E q \in Runtimes : Register(c, m, q) \/ Unregister(c, m, q) \/ Invoke(c, m, q)
      BY <3>7, <3>1, <3>2
    <3>8. CASE \E q \in Runtimes : \E new \in Runtimes : Replace(c, m, q, new)
      BY <3>8, <3>3
    <3>9. CASE \E config \in Configs : UpdateConfig(c, m, config)
      BY <3>9, <3>4
    <3> QED BY <3>5, <3>6, <3>7, <3>8, <3>9
  <2> QED BY <1>2, <2>1, <2>2, BecomesMoves
<1>5. ASSUME NEW c \in Calls, Continue(c) PROVE call'[d].step = "done"
  <2>1. c # d
    BY <1>5 DEF Continue, ReadConfig, Load, Publish, Closed, CheckVersions, Sync, Save, Apply, Refresh, RefreshFails,
                ShutdownEnds
  <2>2. \E k : Becomes(c, k)
    BY <1>5 DEF Continue, ReadConfig, Load, Publish, Closed, CheckVersions, Sync, Save, Apply, Refresh, RefreshFails,
                ShutdownEnds, Returns, Enters, Closes, Deleted, Goes
  <2> QED BY <2>1, <2>2, BecomesMoves
<1>6. ASSUME NEW c \in Calls, Fleets(c) PROVE call'[d].step = "done"
  BY <1>6, FleetsChange, BecomesMoves DEF Begins, Returns
<1> QED BY <1>1, <1>4, <1>5, <1>6 DEF Next

(* Only these steps change a version key, or what a node holds of it.      *)
LEMMA KeysStay ==
  ASSUME [Next]_vars
  PROVE  \/ UNCHANGED <<redis, local>>
         \/ \E c \in Calls : \/ Publish(c) \/ Sync(c) \/ Refresh(c) \/ RefreshFails(c)
                             \/ \E n \in Nodes : Restart(c, n)
<1>1. ASSUME NEW c \in Calls, Begin(c), ~\E n \in Nodes : Restart(c, n)
      PROVE  UNCHANGED <<redis, local>>
  BY ZenonT(60), <1>1 DEF Begin, Register, Unregister, Invoke, Replace, UpdateConfig, Shutdown
<1>2. ASSUME NEW c \in Calls, Continue(c), ~(Publish(c) \/ Sync(c) \/ Refresh(c) \/ RefreshFails(c))
      PROVE  UNCHANGED <<redis, local>>
  BY <1>2 DEF Continue, ReadConfig, Load, Closed, CheckVersions, Save, Apply, ShutdownEnds
<1>3. CASE UNCHANGED vars
  BY <1>3 DEF vars
<1>4. ASSUME NEW c \in Calls, Fleets(c) PROVE UNCHANGED <<redis, local>>
  BY <1>4 DEF Fleets, PodStarts, PodEnds
<1> QED BY <1>1, <1>2, <1>3, <1>4 DEF Next

LEMMA PublishKeys ==
  ASSUME TypeInv, NEW c \in Calls, Publish(c) \/ Sync(c)
  PROVE  LET m == call[c].node  q == call[c].rt IN
         /\ m \in Nodes /\ q \in Runtimes
         /\ \A k \in Keys : redis'[k] = redis[k] \/ (k = q /\ redis[k] = None)
         /\ \A n \in Nodes, k \in Keys :
              local'[n][k] = local[n][k] \/ (n = m /\ k \in {q, Config} /\ local'[n][k] = redis'[k])
         /\ local'[m][Config] # local[m][Config] => \A r \in Runtimes \ {q} : <<m, r>> \in excuse'["shared"]
<1> DEFINE m == call[c].node  q == call[c].rt
<1> USE DEF TypeInv
<1>1. m \in Nodes /\ q \in Runtimes
  BY CallTypes DEF Publish, Sync, Running
<1>2. PICK keys \in SUBSET {q, Config} : Syncs(m, q, keys)
  BY DEF Publish, Sync
<1>3. \A k \in Keys : redis'[k] = redis[k] \/ (k = q /\ redis[k] = None)
  BY DEF Publish, Sync, TypeOK
<1>4. \A n \in Nodes, k \in Keys : local'[n][k] = IF n = m /\ k \in keys THEN redis'[k] ELSE local[n][k]
  BY <1>1, <1>2 DEF Syncs, Synced, TypeOK
<1>5. local'[m][Config] # local[m][Config] => \A r \in Runtimes \ {q} : <<m, r>> \in excuse'["shared"]
  <2> SUFFICES ASSUME local'[m][Config] # local[m][Config] PROVE \A r \in Runtimes \ {q} : <<m, r>> \in excuse'["shared"]
    OBVIOUS
  <2>1. Config \in keys /\ local'[m][Config] = redis'[Config]
    BY <1>1, <1>4, KeyFacts
  <2>2. redis'[Config] = redis[Config]
    BY <1>1, <1>3, KeyFacts, KeyAssumption
  <2> QED BY <1>1, <1>2, <2>1, <2>2, SharesKeyGrows DEF Syncs
<1> QED BY <1>1, <1>3, <1>4, <1>5

LEMMA RefreshKeys ==
  ASSUME TypeInv, NEW c \in Calls, Refresh(c)
  PROVE  LET m == call[c].node IN
         /\ m \in Nodes /\ Follows(c, call[c]) /\ call'[c].step = "done"
         /\ \A k \in Keys : redis'[k] = IF k = Config THEN c ELSE redis[k]
         /\ \A n \in Nodes, k \in Keys :
              local'[n][k] = IF n = m /\ k = Config /\ call[c].synced THEN c ELSE local[n][k]
         /\ call[c].synced => \A r \in Runtimes : ~Has(m, r) => <<m, r>> \in excuse'["shared"]
<1> DEFINE m == call[c].node
<1> USE DEF TypeInv
<1>1. m \in Nodes /\ Follows(c, call[c]) /\ call'[c].step = "done"
  BY CallTypes, ReturnsFollows DEF Refresh, Running
<1>2. \A k \in Keys : redis'[k] = IF k = Config THEN c ELSE redis[k]
  BY DEF Refresh, TypeOK
<1>3. \A n \in Nodes, k \in Keys :
        local'[n][k] = IF n = m /\ k = Config /\ call[c].synced THEN c ELSE local[n][k]
  BY <1>1 DEF Refresh, TypeOK
<1>4. call[c].synced => \A r \in Runtimes : ~Has(m, r) => <<m, r>> \in excuse'["shared"]
  BY RefreshGrows
<1> QED BY <1>1, <1>2, <1>3, <1>4

LEMMA RefreshFailsKeys ==
  ASSUME TypeInv, NEW c \in Calls, RefreshFails(c)
  PROVE  /\ Follows(c, call[c]) /\ call'[c].step = "done" /\ call[c].step = "refresh"
         /\ \A k \in Keys : k # Config => redis'[k] = redis[k]
         /\ redis'[Config] \in {redis[Config], c} /\ local' = local
         /\ \/ redis'[Config] = c
            \/ redis' = redis /\ \A n \in Nodes \ {call[c].node}, r \in Runtimes : <<n, r>> \in excuse'["unannounced"]
<1> USE DEF TypeInv
<1>1. Follows(c, call[c]) /\ call'[c].step = "done" /\ call[c].step = "refresh" /\ local' = local
  BY ReturnsFollows DEF RefreshFails
<1>2. CASE redis' = [redis EXCEPT ![Config] = c]
  BY <1>1, <1>2, KeyFacts DEF TypeOK
<1>3. CASE redis' = redis /\ Excused("unannounced", {<<n, r>> : n \in Nodes \ {call[c].node}, r \in Runtimes})
  <2>1. {<<n, r>> : n \in Nodes \ {call[c].node}, r \in Runtimes} \subseteq excuse'["unannounced"]
    BY <1>3, ExcusedGrows DEF Excuses
  <2> QED BY <1>1, <1>3, <2>1
<1> QED BY <1>2, <1>3 DEF RefreshFails

LEMMA VersionInit == Init => VersionInv
<1> SUFFICES ASSUME Init PROVE VersionInv
  OBVIOUS
<1>1. PICK loaded \in SUBSET Places :
        /\ redis = [k \in Keys |-> IF \E n \in Nodes : <<n, k>> \in loaded THEN 0 ELSE None]
        /\ local = [n \in Nodes |-> [k \in Keys |-> IF <<n, k>> \in loaded THEN 0 ELSE None]]
  BY DEF Init
<1>2. redis[Config] \in {0, None} /\ \A n \in Nodes : local[n][Config] \in {0, None}
  BY <1>1, KeyFacts
<1>3. \A c \in Calls : c # 0 /\ c # None
  BY KeyFacts
<1>4. \A n \in Nodes, r \in Runtimes : local[n][r] \in {None, redis[r]}
  BY <1>1, KeyFacts
<1> QED BY <1>2, <1>3, <1>4 DEF VersionInv

LEMMA VersionStep == TypeInv /\ VersionInv /\ [Next]_vars => VersionInv'
<1> SUFFICES ASSUME TypeInv, VersionInv, [Next]_vars PROVE VersionInv'
  OBVIOUS
<1>1. \A d \in Calls : call'[d].step # "done" =>
        redis[Config] # d /\ \A n \in Nodes : local[n][Config] # d
  BY DoneStays DEF VersionInv
<1>2. \A d \in Calls : d # None
  BY KeyFacts
<1>3. CASE UNCHANGED <<redis, local>>
  BY <1>1, <1>3 DEF VersionInv
<1>4. ASSUME NEW c \in Calls, Publish(c) \/ Sync(c) PROVE VersionInv'
  <2>1. \A d \in Calls : call'[d].step # "done" => redis'[Config] # d
    BY <1>1, <1>4, PublishKeys, KeyFacts, KeyAssumption
  <2>2. \A d \in Calls : call'[d].step # "done" => \A n \in Nodes : local'[n][Config] # d
    BY <1>1, <2>1, <1>4, PublishKeys, KeyFacts
  <2>3. \A n \in Nodes, r \in Runtimes : local'[n][r] \in {None, redis'[r]}
    BY <1>4, PublishKeys, KeyFacts DEF VersionInv
  <2> QED BY <2>1, <2>2, <2>3 DEF VersionInv
<1>5. ASSUME NEW c \in Calls, Refresh(c) PROVE VersionInv'
  <2>1. \A d \in Calls : call'[d].step # "done" => redis'[Config] # d /\ \A n \in Nodes : local'[n][Config] # d
    BY <1>1, <1>5, RefreshKeys, KeyFacts
  <2>2. \A n \in Nodes, r \in Runtimes : local'[n][r] \in {None, redis'[r]}
    BY <1>5, RefreshKeys, KeyFacts, KeyAssumption DEF VersionInv
  <2> QED BY <2>1, <2>2 DEF VersionInv
<1>6. ASSUME NEW c \in Calls, NEW m \in Nodes, Restart(c, m) PROVE VersionInv'
  <2>1. redis' = redis /\ \A n \in Nodes, k \in Keys : local'[n][k] = IF n = m THEN None ELSE local[n][k]
    BY <1>6 DEF Restart, TypeInv, TypeOK
  <2> QED BY <1>1, <1>2, <2>1, KeyFacts DEF VersionInv
<1>7. ASSUME NEW c \in Calls, RefreshFails(c) PROVE VersionInv'
  <2>1. \A d \in Calls : call'[d].step # "done" => redis'[Config] # d
    BY <1>1, <1>7, RefreshFailsKeys
  <2>2. local' = local /\ \A r \in Runtimes : redis'[r] = redis[r]
    BY <1>7, RefreshFailsKeys, KeyFacts, KeyAssumption
  <2> QED BY <1>1, <2>1, <2>2 DEF VersionInv
<1> QED BY <1>3, <1>4, <1>5, <1>6, <1>7, KeysStay

(* A place that is expired stays so until it is loaded anew, unless another *)
(* runtime of the node took the configuration key over.                    *)
LEMMA ExpiredStays ==
  ASSUME TypeInv, VersionInv, NEW c \in Calls, NEW n \in Nodes, NEW r \in Runtimes, Expired(n, r),
         <<n, r>> \notin excuse'["shared"],
         \/ (Publish(c) \/ Sync(c)) /\ At(c) # <<n, r>>
         \/ Refresh(c) /\ ~(call[c].node = n /\ call[c].synced)
         \/ RefreshFails(c)
  PROVE  Expired(n, r)'
<1>1. local[n][r] # redis[r] \/ local[n][Config] # redis[Config]
  BY DEF Expired, IsExpired, LocalVersions
<1>2. CASE (Publish(c) \/ Sync(c)) /\ At(c) # <<n, r>>
  <2>1. local'[n][Config] = local[n][Config]
    BY <1>2, PublishKeys, KeyFacts DEF At
  <2>2. redis'[Config] = redis[Config]
    BY <1>2, PublishKeys, KeyFacts, KeyAssumption
  <2>3. CASE local[n][r] # redis[r]
    <3>1. local[n][r] = None /\ redis[r] # None
      BY <2>3 DEF VersionInv
    <3>2. redis'[r] = redis[r]
      BY <1>2, <3>1, PublishKeys, KeyFacts
    <3>3. local'[n][r] = local[n][r]
      BY <1>2, PublishKeys, KeyFacts, KeyAssumption DEF At
    <3> QED BY <2>3, <3>2, <3>3 DEF Expired, IsExpired, LocalVersions
  <2>4. CASE local[n][Config] # redis[Config]
    <3> QED BY <2>1, <2>2, <2>4 DEF Expired, IsExpired, LocalVersions
  <2> QED BY <1>1, <2>3, <2>4
<1>3. CASE Refresh(c) /\ ~(call[c].node = n /\ call[c].synced)
  <2>1. local'[n][Config] = local[n][Config] /\ redis'[Config] = c
    BY <1>3, RefreshKeys, KeyFacts
  <2>2. local[n][Config] # c
    BY <1>3 DEF VersionInv, Refresh
  <2> QED BY <2>1, <2>2 DEF Expired, IsExpired, LocalVersions
<1>4. CASE RefreshFails(c)
  <2>1. local[n][Config] # c
    BY <1>4 DEF VersionInv, RefreshFails
  <2>2. redis'[r] = redis[r] /\ redis'[Config] \in {redis[Config], c} /\ local' = local
    BY <1>4, RefreshFailsKeys, KeyFacts, KeyAssumption
  <2> QED BY <1>1, <2>1, <2>2 DEF Expired, IsExpired, LocalVersions
<1> QED BY <1>2, <1>3, <1>4

-----------------------------------------------------------------------------
(* A place that is not loaded is due to be                                 *)

Unexcused(n, r) == \A e \in {"withdrawn", "shared", "overlap"} : <<n, r>> \notin excuse'[e]

(* A step of c that leaves the entry of the place alone.                   *)
LEMMA DueIf ==
  ASSUME TypeInv, NEW c \in Calls, CallsOK(c), NEW n \in Nodes, NEW r \in Runtimes, Due(n, r),
         plugins'[n][r] = plugins[n][r], destroyed[n] => destroyed'[n], redis'[r] = redis[r],
         Expired(n, r) => Expired(n, r)',
         (call'[c].node = n /\ call'[c].rt = r /\ call'[c].step \in ReplaceSteps) =>
           /\ \/ c \in Replacing(n, r)
              \/ \A d \in Updating : call[d].node = n => call[d].step # "refresh"
           /\ call'[c].step \in {"publish", "sync"} => Has(n, r)
           /\ call'[c].step = "closing" /\ redis[r] # None => Expired(n, r),
         call'[c].step = "refresh" => call[c].step \notin ReplaceSteps /\ (call'[c].node = n => Replacing(n, r) = {})
  PROVE  Due(n, r)'
<1>1. \A d \in Replacing(n, r)' : d = c \/ (d \in Replacing(n, r) /\ call'[d] = call[d])
  BY DEF Replacing, At, CallsOK
<1>2. c \in Replacing(n, r)' => call'[c].node = n /\ call'[c].rt = r /\ call'[c].step \in ReplaceSteps
  BY DEF Replacing, At, ReplaceSteps
<1>3. ~Has(n, r)' /\ ~destroyed'[n] /\ redis'[r] # None => Expired(n, r)'
  BY DEF Due, Has
<1>4. ASSUME NEW d \in Replacing(n, r)'
      PROVE  /\ call'[d].step \in {"publish", "sync"} => Has(n, r)'
             /\ call'[d].step = "closing" /\ redis'[r] # None => Expired(n, r)'
  <2>1. CASE d = c
    BY <2>1, <1>2, <1>4 DEF Has
  <2>2. CASE d # c
    BY <2>2, <1>1, <1>4 DEF Due, Has
  <2> QED BY <2>1, <2>2
<1>5. ASSUME NEW d \in Replacing(n, r)', NEW u \in Updating', call'[u].node = n, call'[u].step = "refresh"
      PROVE  FALSE
  <2>1. CASE u = c
    <3>1. d # c
      BY <1>2, <1>5, <2>1 DEF ReplaceSteps
    <3> QED BY <1>1, <1>5, <2>1, <3>1
  <2>2. CASE u # c
    <3>1. u \in Updating /\ call'[u] = call[u] /\ u \in Calls
      BY <1>5, <2>2 DEF Updating, CallsOK
    <3>2. CASE d = c
      BY <3>1, <3>2, <1>2, <1>5 DEF Due
    <3>3. CASE d # c
      BY <3>1, <3>3, <1>1, <1>5 DEF Due
    <3> QED BY <3>2, <3>3
  <2> QED BY <2>1, <2>2
<1> QED BY <1>3, <1>4, <1>5 DEF Due

(* The entry of the place is deleted by a call that will load it anew.     *)
LEMMA DueUnloaded ==
  ASSUME TypeInv, NEW c \in Calls, CallsOK(c), NEW n \in Nodes, NEW r \in Runtimes, Due(n, r),
         UNCHANGED <<redis, local>>, Replacing(n, r) \subseteq {c},
         redis[r] # None => Expired(n, r),
         call'[c].step \in {"done", "config"},
         call'[c].node = n /\ call'[c].rt = r =>
           (c \in Replacing(n, r) \/ \A d \in Updating : call[d].node = n => call[d].step # "refresh")
  PROVE  Due(n, r)'
<1>1. \A d \in Replacing(n, r)' : d = c /\ call'[c].node = n /\ call'[c].rt = r
  BY DEF Replacing, At, CallsOK
<1>2. redis'[r] # None => Expired(n, r)'
  BY DEF Expired, IsExpired, LocalVersions
<1>3. ASSUME NEW u \in Updating', NEW d \in Replacing(n, r)', call'[u].node = n, call'[u].step = "refresh"
      PROVE  FALSE
  <2>1. u # c /\ u \in Updating /\ call'[u] = call[u]
    BY <1>3 DEF Updating, CallsOK
  <2> QED BY <1>1, <1>3, <2>1 DEF Due
<1> QED BY <1>1, <1>2, <1>3 DEF Due

(* Steps that change nothing of a place but the calls.                     *)
LEMMA DueQuiet ==
  ASSUME TypeInv, NEW c \in Calls, CallsOK(c), NEW n \in Nodes, NEW r \in Runtimes, Due(n, r),
         UNCHANGED <<plugins, destroyed, redis, local>>,
         call'[c].step \in {"done", "expiry", "save", "apply"}
           \/ (call[c].step = "config" /\ call'[c].step = "load" /\ At(c)' = At(c))
  PROVE  Due(n, r)'
<1>1. Expired(n, r) => Expired(n, r)'
  BY DEF Expired, IsExpired, LocalVersions
<1>2. (call'[c].node = n /\ call'[c].rt = r /\ call'[c].step \in ReplaceSteps) =>
        c \in Replacing(n, r) /\ call'[c].step = "load"
  BY DEF ReplaceSteps, Replacing, At
<1>3. call'[c].step # "refresh"
  OBVIOUS
<1> QED BY <1>1, <1>2, <1>3, DueIf

LEMMA RegisterDue ==
  ASSUME TypeInv, NEW c \in Calls, NEW m \in Nodes, NEW q \in Runtimes, Register(c, m, q),
         NEW n \in Nodes, NEW r \in Runtimes, Due(n, r), Unexcused(n, r)
  PROVE  Due(n, r)'
<1>1. call'[c].step = "config" /\ m = n /\ q = r => \A d \in Updating : call[d].node # n
  <2>1. <<n, r>> \notin excuse'["overlap"]
    BY DEF Unexcused
  <2> QED BY <2>1, RegisterMoves, ContendsGrows DEF TypeInv
<1>2. (Expired(n, r) => Expired(n, r)') /\ UNCHANGED <<plugins, destroyed, redis>>
  BY DEF Register, Expired, IsExpired, LocalVersions
<1> QED BY <1>1, <1>2, RegisterMoves, DueIf DEF ReplaceSteps

LEMMA LoadDue ==
  ASSUME TypeInv, NEW c \in Calls, Load(c), NEW n \in Nodes, NEW r \in Runtimes, Due(n, r), Kept(n, r)
  PROVE  Due(n, r)'
<1> DEFINE m == call[c].node  q == call[c].rt
<1> USE DEF TypeInv
<1>1. m \in Nodes /\ q \in Runtimes /\ call[c].step = "load"
  BY CallTypes DEF Load, Running
<1>2. UNCHANGED <<redis, local, destroyed>>
  BY DEF Load
<1>3. CASE call'[c].step = "done" /\ UNCHANGED <<plugins, service>>
  BY <1>2, <1>3, LoadMoves, DueQuiet DEF Follows
<1>4. CASE plugins' = [plugins EXCEPT ![m][q] = c] /\ call'[c].step = "publish"
  <2>1. \A d \in Calls \ {c} : call'[d] = call[d]
    BY LoadMoves DEF Follows, CallsOK
  <2>2. call'[c].step = "publish" /\ call'[c].node = m /\ call'[c].rt = q
    BY <1>4, LoadMoves DEF Follows
  <2>3. CallsOK(c)
    BY LoadMoves DEF Follows
  <2>4. \A a \in Nodes, b \in Runtimes : plugins'[a][b] = IF a = m /\ b = q THEN c ELSE plugins[a][b]
    BY <1>1, <1>4 DEF TypeOK
  <2>5. Expired(n, r) => Expired(n, r)'
    BY <1>2 DEF Expired, IsExpired, LocalVersions
  <2>6. CASE n = m /\ r = q
    <3>1. c \in Replacing(n, r) /\ Has(n, r)'
      BY <2>6, <1>1, <2>4, KeyFacts DEF Replacing, At, Has
    <3>2. \A d \in Replacing(n, r)' : d = c
      BY <3>1, <2>1 DEF Kept, Replacing, At
    <3>3. \A u \in Updating' : u \in Updating /\ call'[u] = call[u]
      BY <2>1, <2>2 DEF Updating
    <3> QED BY <3>1, <3>2, <3>3, <2>2 DEF Due
  <2>7. CASE ~(n = m /\ r = q)
    <3>1. ~(call'[c].node = n /\ call'[c].rt = r) /\ call'[c].step # "refresh" /\ plugins'[n][r] = plugins[n][r]
      BY <2>2, <2>4, <2>7
    <3> QED BY <3>1, <1>2, <2>3, <2>5, DueIf
  <2> QED BY <2>6, <2>7
<1> QED BY <1>3, <1>4, LoadMoves

LEMMA SyncDue ==
  ASSUME TypeInv, VersionInv, NEW c \in Calls, Publish(c) \/ Sync(c),
         NEW n \in Nodes, NEW r \in Runtimes, Due(n, r), Kept(n, r), Unexcused(n, r)
  PROVE  Due(n, r)'
<1> DEFINE m == call[c].node  q == call[c].rt
<1> USE DEF TypeInv
<1>1. /\ CallsOK(c) /\ UNCHANGED <<plugins, destroyed>>
      /\ call[c].step \in {"publish", "sync"} /\ call'[c].step \in {"done", "sync"}
      /\ (call'[c].step = "sync" => call'[c].node = m /\ call'[c].rt = q)
  BY PublishMoves, ReturnsFollows DEF Publish, Sync, Follows
<1>2. CASE <<m, q>> = <<n, r>>
  <2>1. c \in Replacing(n, r)
    BY <1>1, <1>2 DEF Replacing, At
  <2>2. Has(n, r) /\ \A d \in Replacing(n, r) : d = c
    BY <1>1, <2>1 DEF Due, Kept
  <2>3. \A d \in Replacing(n, r)' : d = c
    BY <1>1, <2>2 DEF Replacing, At, CallsOK
  <2>4. \A u \in Updating' : u \in Updating /\ call'[u] = call[u]
    BY <1>1 DEF Updating, CallsOK
  <2> QED BY <1>1, <2>1, <2>2, <2>3, <2>4 DEF Due, Has
<1>3. CASE <<m, q>> # <<n, r>>
  <2>1. Expired(n, r) => Expired(n, r)'
    BY <1>3, ExpiredStays DEF Unexcused, At
  <2>2. CASE redis'[r] = redis[r]
    <3>1. ~(call'[c].node = n /\ call'[c].rt = r /\ call'[c].step \in ReplaceSteps) /\ call'[c].step # "refresh"
      BY <1>1, <1>3 DEF ReplaceSteps
    <3> QED BY <1>1, <2>1, <2>2, <3>1, DueIf
  <2>3. CASE redis'[r] # redis[r]
    <3>1. r = q /\ redis[r] = None /\ n # m
      BY <1>3, <2>3, PublishKeys, KeyFacts
    <3>2. local'[n][r] = None
      BY <3>1, PublishKeys, KeyFacts DEF VersionInv
    <3>3. redis'[r] # None => Expired(n, r)'
      BY <3>2 DEF Expired, IsExpired, LocalVersions
    <3>4. \A d \in Replacing(n, r)' : d \in Replacing(n, r) /\ call'[d] = call[d]
      BY <1>1, <1>3 DEF Replacing, At, CallsOK
    <3>5. \A u \in Updating' : u \in Updating /\ call'[u] = call[u]
      BY <1>1 DEF Updating, CallsOK
    <3> QED BY <1>1, <3>3, <3>4, <3>5 DEF Due, Has
  <2> QED BY <2>2, <2>3
<1> QED BY <1>2, <1>3

LEMMA RefreshDue ==
  ASSUME TypeInv, VersionInv, NEW c \in Calls, Refresh(c),
         NEW n \in Nodes, NEW r \in Runtimes, Due(n, r), Unexcused(n, r)
  PROVE  Due(n, r)'
<1> USE DEF TypeInv
<1>1. /\ CallsOK(c) /\ call'[c].step = "done" /\ call[c].step = "refresh"
      /\ UNCHANGED <<plugins, destroyed>> /\ redis'[r] = redis[r]
  BY RefreshKeys, KeyFacts, KeyAssumption DEF Follows, Refresh
<1>2. CASE ~(call[c].node = n /\ call[c].synced)
  <2>1. Expired(n, r) => Expired(n, r)'
    BY <1>2, ExpiredStays DEF Unexcused
  <2> QED BY <1>1, <2>1, DueIf DEF ReplaceSteps
<1>3. CASE call[c].node = n /\ call[c].synced
  <2>1. Has(n, r)
    BY <1>3, RefreshKeys DEF Unexcused
  <2>2. Replacing(n, r) = {}
    BY <1>1, <1>3 DEF Due, Updating
  <2>3. Replacing(n, r)' = {}
    BY <1>1, <2>2 DEF Replacing, CallsOK, At
  <2> QED BY <1>1, <2>1, <2>3 DEF Due, Has
<1> QED BY <1>2, <1>3

LEMMA RefreshFailsDue ==
  ASSUME TypeInv, VersionInv, NEW c \in Calls, RefreshFails(c),
         NEW n \in Nodes, NEW r \in Runtimes, Due(n, r), Unexcused(n, r)
  PROVE  Due(n, r)'
<1>1. /\ CallsOK(c) /\ call'[c].step = "done" /\ redis'[r] = redis[r] /\ UNCHANGED <<plugins, destroyed>>
  BY RefreshFailsKeys, KeyFacts, KeyAssumption DEF Follows, RefreshFails
<1>2. Expired(n, r) => Expired(n, r)'
  BY ExpiredStays DEF Unexcused
<1> QED BY <1>1, <1>2, DueIf DEF ReplaceSteps

LEMMA ApplyDue ==
  ASSUME TypeInv, NEW c \in Calls, Apply(c),
         NEW n \in Nodes, NEW r \in Runtimes, Due(n, r), Unexcused(n, r)
  PROVE  Due(n, r)'
<1> USE DEF TypeInv
<1>1. /\ CallsOK(c) /\ call'[c].step = "refresh" /\ call'[c].node = call[c].node /\ call[c].step = "apply"
      /\ UNCHANGED <<plugins, destroyed, redis, local>>
  BY ApplyMoves DEF Follows, Apply
<1>2. Expired(n, r) => Expired(n, r)'
  BY <1>1 DEF Expired, IsExpired, LocalVersions
<1>3. call[c].node = n => Replacing(n, r) = {}
  <2>1. {<<call[c].node, q>> : q \in {q \in Runtimes : Replacing(call[c].node, q) # {}}} \subseteq excuse'["overlap"]
    BY ExcusedGrows DEF Apply, Excuses
  <2>2. <<n, r>> \notin excuse'["overlap"]
    BY DEF Unexcused
  <2> QED BY <2>1, <2>2
<1> QED BY <1>1, <1>2, <1>3, DueIf DEF ReplaceSteps

LEMMA UnregisterDue ==
  ASSUME TypeInv, NEW c \in Calls, NEW m \in Nodes, NEW q \in Runtimes,
         Unregister(c, m, q) \/ \E new \in Runtimes : Replace(c, m, q, new),
         NEW n \in Nodes, NEW r \in Runtimes, Due(n, r), Unexcused(n, r)
  PROVE  Due(n, r)'
<1> DEFINE k == [NewCall EXCEPT !.op = "unregister", !.node = m, !.rt = q]
<1> USE DEF TypeInv
<1>1. Directed(k) /\ k.node = m /\ k.rt = q
  <2>1. k.op \in Ops
    BY DEF Ops, NewCall
  <2> QED BY <2>1, BegunIsDirected DEF NewCall, Ops
<1> HIDE DEF k
<1>2. UNCHANGED <<destroyed, redis, local>> /\ (Expired(n, r) => Expired(n, r)')
  BY DEF Unregister, Replace, Expired, IsExpired, LocalVersions
<1>3. CASE Returns(c) /\ UNCHANGED plugins
  BY <1>2, <1>3, ReturnsFollows, DueQuiet DEF Follows
<1>4. CASE Withdraws(c, m, q) /\ Has(m, q) /\ (Closes(c, k, Entry(m, q)) \/ Deleted(c, k))
  <2>1. <<n, r>> # <<m, q>>
    BY <1>4, WithdrawsGrows DEF Unexcused
  <2>2. /\ CallsOK(c) /\ (call'[c].step # "done" => call'[c].node = m /\ call'[c].rt = q)
        /\ call'[c].step \in {"done", "closing", "config"} /\ plugins'[n][r] = plugins[n][r]
    <3>1. CASE Closes(c, k, Entry(m, q))
      BY <1>1, <1>4, <3>1, ClosesFollows, EntryIsService DEF Follows
    <3>2. CASE Deleted(c, k)
      BY <1>1, <2>1, <3>2, DeletedFollows DEF Follows
    <3> QED BY <1>4, <3>1, <3>2
  <2>3. ~(call'[c].node = n /\ call'[c].rt = r /\ call'[c].step \in ReplaceSteps) /\ call'[c].step # "refresh"
    BY <2>1, <2>2 DEF ReplaceSteps
  <2> QED BY <1>2, <2>2, <2>3, DueIf
<1> QED BY <1>3, <1>4 DEF Unregister, Replace, k

LEMMA ClosedDue ==
  ASSUME TypeInv, NEW c \in Calls, Closed(c), NEW n \in Nodes, NEW r \in Runtimes, Due(n, r), Kept(n, r)
  PROVE  Due(n, r)'
<1> USE DEF TypeInv
<1>1. Directed(call[c]) /\ call[c].step = "closing" /\ UNCHANGED <<destroyed, redis, local>>
  BY CallTypes DEF Closed, Directed, Running
<1>2. /\ CallsOK(c) /\ call'[c].step \in {"done", "config"}
      /\ (call'[c].step # "done" => call'[c].node = call[c].node /\ call'[c].rt = call[c].rt)
      /\ <<n, r>> # <<call[c].node, call[c].rt>> => plugins'[n][r] = plugins[n][r]
  BY <1>1, DeletedFollows DEF Closed, Follows
<1>3. CASE <<n, r>> = <<call[c].node, call[c].rt>>
  <2>1. c \in Replacing(n, r)
    BY <1>1, <1>3 DEF Replacing, At
  <2>2. Replacing(n, r) \subseteq {c} /\ (redis[r] # None => Expired(n, r))
    BY <1>1, <2>1 DEF Kept, Due
  <2> QED BY <1>1, <1>2, <2>1, <2>2, DueUnloaded
<1>4. CASE <<n, r>> # <<call[c].node, call[c].rt>>
  <2>1. ~(call'[c].node = n /\ call'[c].rt = r /\ call'[c].step \in ReplaceSteps) /\ call'[c].step # "refresh"
    BY <1>2, <1>4 DEF ReplaceSteps
  <2>2. Expired(n, r) => Expired(n, r)'
    BY <1>1 DEF Expired, IsExpired, LocalVersions
  <2> QED BY <1>1, <1>2, <1>4, <2>1, <2>2, DueIf
<1> QED BY <1>3, <1>4

LEMMA CheckDue ==
  ASSUME TypeInv, NEW c \in Calls, CheckVersions(c), NEW n \in Nodes, NEW r \in Runtimes,
         Due(n, r), Unexcused(n, r)
  PROVE  Due(n, r)'
<1> DEFINE m == call[c].node  q == call[c].rt
           k == [call[c] EXCEPT !.seen = NewCall.seen]
<1> USE DEF TypeInv
<1>1. /\ Directed(k) /\ k.node = m /\ k.rt = q /\ m \in Nodes /\ q \in Runtimes /\ k.op = call[c].op
      /\ call[c].step = "expiry" /\ UNCHANGED <<destroyed, redis, local>>
  BY CallTypes, KeyFacts DEF CheckVersions, Directed, Running, NewCall, CallRecord
<1>2. Expired(n, r) => Expired(n, r)'
  BY <1>1 DEF Expired, IsExpired, LocalVersions
<1> HIDE DEF m, q, k
<1>3. CASE Returns(c) /\ UNCHANGED plugins
  BY <1>1, <1>3, ReturnsFollows, DueQuiet DEF Follows
<1>4. CASE /\ Contends(c, m, q) /\ IsExpired(call[c].seen, q)
           /\ \/ Enters(c, k, plugins[m]) /\ UNCHANGED plugins
              \/ Has(m, q) /\ Closes(c, k, Entry(m, q))
              \/ Deleted(c, k)
  <2>1. /\ CallsOK(c) /\ (call'[c].step # "done" => call'[c].node = m /\ call'[c].rt = q /\ call'[c].op = call[c].op)
        /\ call'[c].step \in {"done", "closing", "config"}
        /\ <<n, r>> # <<m, q>> => plugins'[n][r] = plugins[n][r]
        /\ call'[c].step = "closing" => UNCHANGED plugins
    <3>1. CASE Enters(c, k, plugins[m]) /\ UNCHANGED plugins
      BY <1>1, <3>1, EntersFollows DEF Follows
    <3>2. CASE Has(m, q) /\ Closes(c, k, Entry(m, q))
      BY <1>1, <3>2, ClosesFollows, EntryIsService DEF Follows
    <3>3. CASE Deleted(c, k)
      BY <1>1, <3>3, DeletedFollows DEF Follows
    <3> QED BY <1>4, <3>1, <3>2, <3>3
  <2>2. CASE <<n, r>> # <<m, q>>
    <3>1. ~(call'[c].node = n /\ call'[c].rt = r /\ call'[c].step \in ReplaceSteps) /\ call'[c].step # "refresh"
      BY <2>1, <2>2 DEF ReplaceSteps
    <3> QED BY <1>1, <1>2, <2>1, <2>2, <3>1, DueIf
  <2>3. CASE <<n, r>> = <<m, q>>
    <3>1. <<n, r>> \notin excuse'["overlap"]
      BY DEF Unexcused
    <3>2. /\ Replacing(n, r) \subseteq {c} /\ \A d \in Updating : call[d].node # n
          /\ call[c].seen = LocalVersions(n, r)
      BY <3>1, <1>1, <1>4, <2>3, ContendsGrows
    <3>3. Expired(n, r)
      BY <3>2, <1>4, <2>3 DEF Expired
    <3>4. CASE call'[c].step \in {"done", "config"}
      BY <3>2, <3>3, <3>4, <1>1, <2>1, DueUnloaded
    <3>5. CASE call'[c].step = "closing"
      BY <3>2, <3>3, <3>5, <1>1, <1>2, <2>1, DueIf
    <3> QED BY <2>1, <3>4, <3>5
  <2> QED BY <2>2, <2>3
<1> QED BY <1>3, <1>4 DEF CheckVersions, m, q, k

LEMMA ShutdownDue ==
  ASSUME TypeInv, NEW c \in Calls, NEW m \in Nodes, Shutdown(c, m),
         NEW n \in Nodes, NEW r \in Runtimes, Due(n, r)
  PROVE  Due(n, r)'
<1> DEFINE mine == {s \in Loaded(m) : Destroyable(s)}
           k == [NewCall EXCEPT !.op = "shutdown", !.node = m, !.step = "ending", !.old = mine]
<1> USE DEF TypeInv
<1>1. CASE destroyed[m]
  BY <1>1, ReturnsFollows, DueQuiet DEF Shutdown, Follows
<1>2. CASE ~destroyed[m]
  <2>1. /\ destroyed' = [destroyed EXCEPT ![m] = TRUE] /\ UNCHANGED <<plugins, redis, local>> /\ Becomes(c, k)
    BY <1>2 DEF Shutdown
  <2>2. call'[c].step = "ending" /\ \A d \in Calls \ {c} : call'[d] = call[d]
    <3>1. k.step = "ending"
      BY DEF NewCall
    <3> HIDE DEF k
    <3> QED BY <2>1, <3>1, BecomesMoves
  <2>3. \A d \in Replacing(n, r)' : d \in Replacing(n, r) /\ call'[d] = call[d]
    BY <2>2 DEF Replacing, At
  <2>4. \A u \in Updating' : u \in Updating /\ call'[u] = call[u]
    BY <2>2 DEF Updating
  <2>5. Expired(n, r) => Expired(n, r)'
    BY <2>1 DEF Expired, IsExpired, LocalVersions
  <2>6. ~destroyed'[n] => ~destroyed[n]
    BY <2>1 DEF TypeOK
  <2> QED BY <2>1, <2>3, <2>4, <2>5, <2>6 DEF Due, Has
<1> QED BY <1>1, <1>2

LEMMA EndsDue ==
  ASSUME TypeInv, NEW c \in Calls, ShutdownEnds(c), NEW n \in Nodes, NEW r \in Runtimes, Due(n, r), Kept(n, r)
  PROVE  Due(n, r)'
<1> DEFINE m == call[c].node
<1> USE DEF TypeInv
<1>1. m \in Nodes /\ destroyed[m] /\ UNCHANGED <<destroyed, redis, local>>
  BY CallTypes DEF ShutdownEnds, Running, Destroying
<1>2. CallsOK(c) /\ call'[c].step = "done"
  BY ReturnsFollows DEF ShutdownEnds, Follows
<1>3. CASE n = m
  <2>1. Replacing(n, r)' = {}
    BY <1>1, <1>2, <1>3 DEF Kept, Replacing, CallsOK, At
  <2> QED BY <1>1, <1>3, <2>1 DEF Due
<1>4. CASE n # m
  <2>1. plugins'[n][r] = plugins[n][r]
    BY <1>4 DEF ShutdownEnds, TypeOK
  <2>2. Expired(n, r) => Expired(n, r)'
    BY <1>1 DEF Expired, IsExpired, LocalVersions
  <2> QED BY <1>1, <1>2, <2>1, <2>2, DueIf DEF ReplaceSteps
<1> QED BY <1>3, <1>4

LEMMA RestartDue ==
  ASSUME TypeInv, NEW c \in Calls, NEW m \in Nodes, Restart(c, m), NEW n \in Nodes, NEW r \in Runtimes, Due(n, r)
  PROVE  Due(n, r)'
<1> USE DEF TypeInv
<1>1. \A d \in Calls : call'[d].step # "done" => call'[d] = call[d] /\ ~(call[d].node = m /\ Running(d))
  BY DEF Restart, NewCall
<1>2. \A d \in Replacing(n, r)' : d \in Replacing(n, r) /\ call'[d] = call[d] /\ n # m
  BY <1>1 DEF Replacing, At, Running
<1>3. \A u \in Updating' : u \in Updating /\ call'[u] = call[u]
  BY <1>1 DEF Updating
<1>4. redis' = redis /\ local' = [local EXCEPT ![m] = [k \in Keys |-> None]]
  BY DEF Restart
<1>5. CASE n = m
  <2>1. local'[n][r] = None
    BY <1>4, <1>5, KeyFacts DEF TypeOK
  <2>2. redis'[r] # None => Expired(n, r)'
    BY <2>1 DEF Expired, IsExpired, LocalVersions
  <2> QED BY <1>2, <1>5, <2>2 DEF Due
<1>6. CASE n # m
  <2>1. plugins'[n][r] = plugins[n][r] /\ destroyed'[n] = destroyed[n] /\ local'[n] = local[n]
    BY <1>6 DEF Restart, TypeOK
  <2>2. Expired(n, r) => Expired(n, r)'
    BY <1>4, <2>1 DEF Expired, IsExpired, LocalVersions
  <2> QED BY <1>2, <1>3, <1>4, <2>1, <2>2 DEF Due, Has
<1> QED BY <1>5, <1>6

LEMMA ReachInit == Init => ReachInv
<1> SUFFICES ASSUME Init, NEW n \in Nodes, NEW r \in Runtimes PROVE Due(n, r)
  BY DEF ReachInv
<1>1. Replacing(n, r) = {}
  BY DEF Init, Replacing, NewCall
<1>2. PICK loaded \in SUBSET Places :
        /\ local = [a \in Nodes |-> [k \in Keys |-> IF <<a, k>> \in loaded THEN 0 ELSE None]]
        /\ plugins = [a \in Nodes |-> [b \in Runtimes |-> IF <<a, b>> \in loaded THEN 0 ELSE None]]
  BY DEF Init
<1>3. ~Has(n, r) => local[n][r] = None
  BY <1>2, KeyFacts DEF Has
<1>4. ~Has(n, r) /\ redis[r] # None => Expired(n, r)
  BY <1>3 DEF Expired, IsExpired, LocalVersions
<1> QED BY <1>1, <1>4 DEF Due

ManagerInv == TypeInv /\ OrphanInv /\ VersionInv

LEMMA ReachStep == ManagerInv /\ ReachInv /\ [Next]_vars => ReachInv'
<1> SUFFICES ASSUME TypeInv, OrphanInv, VersionInv, ReachInv, [Next]_vars,
                    NEW n \in Nodes, NEW r \in Runtimes, Not({"withdrawn", "shared", "overlap"}, n, r)'
             PROVE  Due(n, r)'
  BY DEF ReachInv, ManagerInv
<1>1. Unexcused(n, r)
  BY DEF Unexcused, Not
<1>2. \A e \in {"withdrawn", "shared", "overlap"} : <<n, r>> \notin excuse[e]
  <2>1. \A e \in {"withdrawn", "shared", "overlap"} : excuse[e] \subseteq excuse'[e]
    BY ExcusesGrow DEF Lasting, Excuses
  <2> QED BY <1>1, <2>1 DEF Unexcused
<1>3. Kept(n, r) /\ Due(n, r)
  BY <1>2 DEF OrphanInv, ReachInv, Not
<1>4. CASE UNCHANGED vars
  BY <1>3, <1>4 DEF vars, Due, Replacing, Updating, At, Has, Expired, IsExpired, LocalVersions
<1>5. ASSUME NEW c \in Calls, Begin(c) PROVE Due(n, r)'
  <2>1. PICK m \in Nodes :
          \/ \E q \in Runtimes : Register(c, m, q) \/ Unregister(c, m, q) \/ Invoke(c, m, q)
          \/ \E q \in Runtimes : \E new \in Runtimes : Replace(c, m, q, new)
          \/ \E config \in Configs : UpdateConfig(c, m, config)
          \/ Shutdown(c, m) \/ Restart(c, m)
    BY <1>5 DEF Begin
  <2>2. CASE \E q \in Runtimes : Register(c, m, q)
    BY <2>2, <1>1, <1>3, RegisterDue
  <2>3. CASE \E q \in Runtimes : Unregister(c, m, q) \/ \E new \in Runtimes : Replace(c, m, q, new)
    BY <2>3, <1>1, <1>3, UnregisterDue
  <2>4. ASSUME NEW q \in Runtimes, Invoke(c, m, q) PROVE Due(n, r)'
    BY <2>4, <1>3, InvokeMoves, DueQuiet DEF Invoke
  <2>5. ASSUME NEW config \in Configs, UpdateConfig(c, m, config) PROVE Due(n, r)'
    BY <2>5, <1>3, UpdateMoves, DueQuiet DEF UpdateConfig
  <2>6. CASE Shutdown(c, m)
    BY <2>6, <1>3, ShutdownDue
  <2>7. CASE Restart(c, m)
    BY <2>7, <1>3, RestartDue
  <2> QED BY <2>1, <2>2, <2>3, <2>4, <2>5, <2>6, <2>7
<1>6. ASSUME NEW c \in Calls, Continue(c) PROVE Due(n, r)'
  <2>1. CASE ReadConfig(c)
    BY <2>1, <1>3, ReadConfigMoves, DueQuiet DEF ReadConfig, Follows, At
  <2>2. CASE Save(c)
    BY <2>2, <1>3, SaveMoves, DueQuiet DEF Save, Follows
  <2> QED BY <1>1, <1>3, <1>6, <2>1, <2>2, LoadDue, SyncDue, RefreshDue, RefreshFailsDue, ApplyDue, ClosedDue,
             CheckDue, EndsDue DEF Continue
<1>7. ASSUME NEW c \in Calls, Fleets(c) PROVE Due(n, r)'
  BY <1>3, <1>7, FleetsChange, ReturnsFollows, DueQuiet DEF Follows, TypeInv
<1> QED BY <1>4, <1>5, <1>6, <1>7 DEF Next

LEMMA ManagerInvariant == Spec => []ManagerInv
<1>1. Init => ManagerInv
  BY TypeInit, OrphanInit, VersionInit DEF ManagerInv
<1>2. ManagerInv /\ [Next]_vars => ManagerInv'
  BY TypeStep, OrphanStep, VersionStep DEF ManagerInv
<1> QED BY <1>1, <1>2, PTL DEF Spec

(* Once a runtime is published, a node that has none of it and has not     *)
(* given it up would load it at the next invocation; while calls run, what *)
(* ReachInv says of them takes its place.                                  *)
THEOREM PublishedIsReachable == Spec => []Reachable
<1>1. ReachInv => Reachable
  BY DEF ReachInv, Reachable, Due
<1> QED BY <1>1, ManagerInvariant, ReachInit, ReachStep, PTL DEF Spec

-----------------------------------------------------------------------------
(* A stored configuration reaches the services                             *)

LEMMA UniformStays ==
  ASSUME TypeInv, NEW n \in Nodes, NEW r \in Runtimes, Uniform(n, r), stored' = stored,
         plugins'[n][r] \in {plugins[n][r], None}, \A s \in Services : service'[s].config = service[s].config
  PROVE  Uniform(n, r)'
<1>1. CASE plugins'[n][r] = None
  BY <1>1 DEF Uniform, Has
<1>2. CASE Has(n, r) /\ plugins'[n][r] = plugins[n][r]
  <2>1. Entry(n, r) \in Services /\ Entry(n, r)' = Entry(n, r)
    BY <1>2, EntryIsService DEF Entry, TypeInv
  <2> QED BY <1>2, <2>1 DEF Uniform, Has
<1> QED BY <1>1, <1>2 DEF Has

LEMMA PhaseConfigs ==
  ASSUME TypeInv, NEW S, NEW phase, service' = InPhase(S, phase) \/ service' = Ended(S)
  PROVE  \A s \in Services : service'[s].config = service[s].config
BY DEF InPhase, Ended, Service, TypeInv, TypeOK, ServiceRecord

(* No place is forgotten that was not told of the last update.             *)
StillUntold == excuse["unannounced"] \subseteq excuse'["unannounced"]

(* A step that saves, applies and publishes no configuration.              *)
LEMMA SettledIf ==
  ASSUME NEW c \in Calls, NEW n \in Nodes, NEW r \in Runtimes, Settled(n, r), StillUntold,
         \A d \in Calls \ {c} : call'[d] = call[d],
         call[c].step \notin {"apply", "refresh"}, call'[c].step \notin {"apply", "refresh"},
         stored' = stored, Uniform(n, r) => Uniform(n, r)',
         Uniform(n, r)' \/ (Expired(n, r) => Expired(n, r)'),
         call'[c].step \in {"load", "publish", "sync"} /\ At(c)' = <<n, r>> =>
           /\ Updating = {}
           /\ IF call'[c].step = "load" THEN call'[c].config = stored ELSE Uniform(n, r)'
  PROVE  Settled(n, r)'
<1>1. Updating' = Updating /\ \A d \in Updating : call'[d] = call[d]
  BY DEF Updating
<1>2. \A d \in Registering' : At(d)' = <<n, r>> =>
        \/ d = c /\ call'[c].step \in {"load", "publish", "sync"}
        \/ d # c /\ d \in Registering /\ call'[d] = call[d] /\ At(d) = <<n, r>>
  BY DEF Registering, At
<1>3. \A d \in Updating' : /\ call'[d].step = "apply" => call'[d].config = stored'
                           /\ \A e \in Registering' : At(e)' # <<n, r>>
                           /\ call'[d].step = "refresh" /\ call'[d].node = n => Uniform(n, r)'
  BY <1>1, <1>2 DEF Settled
<1>4. \A d \in Registering' : At(d)' = <<n, r>> =>
        IF call'[d].step = "load" THEN call'[d].config = stored' ELSE Uniform(n, r)'
  <2> SUFFICES ASSUME NEW d \in Registering', At(d)' = <<n, r>>
               PROVE  IF call'[d].step = "load" THEN call'[d].config = stored' ELSE Uniform(n, r)'
    OBVIOUS
  <2>1. CASE d = c
    BY <1>2, <2>1
  <2>2. CASE d # c
    BY <1>2, <2>2 DEF Settled
  <2> QED BY <2>1, <2>2
<1>5. Updating' = {} /\ <<n, r>> \notin excuse'["unannounced"] => Uniform(n, r)' \/ Expired(n, r)'
  BY <1>1 DEF Settled, StillUntold
<1> QED BY <1>1, <1>3, <1>4, <1>5 DEF Settled

LEMMA SaveSettles ==
  ASSUME TypeInv, NEW c \in Calls, Save(c), NEW n \in Nodes, NEW r \in Runtimes, Settled(n, r), StillUntold,
         <<n, r>> \notin excuse'["raced"]
  PROVE  Settled(n, r)'
<1> USE DEF TypeInv
<1>1. /\ \A d \in Calls \ {c} : call'[d] = call[d]
      /\ call[c].step = "save" /\ UNCHANGED <<redis, local, plugins, service>>
  BY SaveMoves DEF Follows, CallsOK, Save
<1>2. CASE call'[c].step = "done" /\ stored' = stored
  <2>1. (Uniform(n, r) => Uniform(n, r)') /\ (Expired(n, r) => Expired(n, r)')
    BY <1>1, <1>2 DEF Uniform, Has, Entry, Expired, IsExpired, LocalVersions
  <2> QED BY <1>1, <1>2, <2>1, SettledIf
<1>3. CASE /\ call'[c].step = "apply" /\ call'[c].config = stored'
           /\ IF Races THEN Excused("raced", Places) ELSE UNCHANGED excuse
  <2>1. ~Races
    BY <1>3, ExcusedGrows DEF Places, Excuses
  <2>2. Updating' = {c} /\ Registering' = {}
    BY <1>1, <1>3, <2>1 DEF Races, Updating, Registering
  <2> QED BY <1>3, <2>2 DEF Settled
<1>4. CASE /\ call'[c].step = "done"
           /\ excuse' = [excuse EXCEPT !["unannounced"] = Places, !["raced"] = IF Races THEN Places ELSE @]
  <2>1. <<n, r>> \in Places /\ "unannounced" \in Excuses /\ "raced" \in Excuses
    BY DEF Places, Excuses
  <2>2. excuse'["unannounced"] = Places /\ (Races => excuse'["raced"] = Places)
    BY <1>4, <2>1 DEF TypeOK
  <2>3. Updating' = {} /\ Registering' = {}
    BY <1>1, <1>4, <2>1, <2>2 DEF Races, Updating, Registering
  <2> QED BY <2>1, <2>2, <2>3 DEF Settled
<1> QED BY <1>2, <1>3, <1>4, SaveMoves

LEMMA ApplySettles ==
  ASSUME TypeInv, NEW c \in Calls, Apply(c), NEW n \in Nodes, NEW r \in Runtimes, Settled(n, r)
  PROVE  Settled(n, r)'
<1> USE DEF TypeInv
<1>1. /\ \A d \in Calls \ {c} : call'[d] = call[d]
      /\ call[c].step = "apply" /\ call'[c].step = "refresh" /\ call'[c].node = call[c].node
      /\ UNCHANGED <<redis, local, plugins, stored>> /\ c \in Updating
  BY ApplyMoves DEF Follows, CallsOK, Apply, Updating
<1>2. Updating = {c} /\ call[c].config = stored /\ \A e \in Registering : At(e) # <<n, r>>
  BY <1>1 DEF Settled
<1>3. Updating' = {c} /\ \A e \in Registering' : At(e)' # <<n, r>>
  BY <1>1, <1>2 DEF Updating, Registering, At
<1>4. call[c].node = n => Uniform(n, r)'
  <2> SUFFICES ASSUME call[c].node = n, Has(n, r) PROVE service'[Entry(n, r)].config = stored
    BY <1>1 DEF Uniform, Has, Entry
  <2>1. Entry(n, r) \in Services /\ Entry(n, r) \in Loaded(n)
    BY EntryIsService DEF Loaded
  <2>2. service'[Entry(n, r)].config = call[c].config
    BY <2>1, ApplyMoves
  <2> QED BY <1>2, <2>1, <2>2
<1> QED BY <1>1, <1>3, <1>4 DEF Settled

LEMMA RefreshSettles ==
  ASSUME TypeInv, VersionInv, NEW c \in Calls, Refresh(c), NEW n \in Nodes, NEW r \in Runtimes, Settled(n, r)
  PROVE  Settled(n, r)'
<1> USE DEF TypeInv
<1>1. /\ \A d \in Calls \ {c} : call'[d] = call[d]
      /\ call[c].step = "refresh" /\ call'[c].step = "done"
      /\ UNCHANGED <<plugins, stored, service>> /\ c \in Updating
  BY RefreshKeys DEF Follows, CallsOK, Refresh, Updating
<1>2. Updating = {c} /\ \A e \in Registering : At(e) # <<n, r>>
  BY <1>1 DEF Settled
<1>3. Updating' = {} /\ \A e \in Registering' : At(e)' # <<n, r>>
  BY <1>1, <1>2 DEF Updating, Registering, At
<1>4. CASE call[c].node = n
  <2>1. Uniform(n, r)
    BY <1>1, <1>4 DEF Settled
  <2>2. Uniform(n, r)'
    BY <1>1, <2>1 DEF Uniform, Has, Entry
  <2> QED BY <1>3, <2>2 DEF Settled
<1>5. CASE call[c].node # n
  <2>1. local'[n][Config] = local[n][Config] /\ redis'[Config] = c
    BY <1>5, RefreshKeys, KeyFacts
  <2>2. local[n][Config] # c
    BY <1>1 DEF VersionInv
  <2>3. Expired(n, r)'
    BY <2>1, <2>2 DEF Expired, IsExpired, LocalVersions
  <2> QED BY <1>3, <2>3 DEF Settled
<1> QED BY <1>4, <1>5

(* The configuration key is not set: the node has the configuration, and    *)
(* the others have the new key to compare with, or are excused.            *)
LEMMA RefreshFailsSettles ==
  ASSUME TypeInv, VersionInv, NEW c \in Calls, RefreshFails(c), NEW n \in Nodes, NEW r \in Runtimes, Settled(n, r)
  PROVE  Settled(n, r)'
<1> USE DEF TypeInv
<1>1. /\ \A d \in Calls \ {c} : call'[d] = call[d]
      /\ call[c].step = "refresh" /\ call'[c].step = "done"
      /\ UNCHANGED <<plugins, stored, service>> /\ c \in Updating
  BY RefreshFailsKeys DEF Follows, CallsOK, RefreshFails, Updating
<1>2. Updating = {c} /\ \A e \in Registering : At(e) # <<n, r>>
  BY <1>1 DEF Settled
<1>3. Updating' = {} /\ \A e \in Registering' : At(e)' # <<n, r>>
  BY <1>1, <1>2 DEF Updating, Registering, At
<1>4. CASE call[c].node = n
  <2>1. Uniform(n, r)
    BY <1>1, <1>4 DEF Settled
  <2>2. Uniform(n, r)'
    BY <1>1, <2>1 DEF Uniform, Has, Entry
  <2> QED BY <1>3, <2>2 DEF Settled
<1>5. CASE call[c].node # n /\ redis'[Config] = c
  <2>1. local'[n][Config] = local[n][Config] /\ local[n][Config] # c
    BY <1>1, RefreshFailsKeys DEF VersionInv
  <2>2. Expired(n, r)'
    BY <1>5, <2>1 DEF Expired, IsExpired, LocalVersions
  <2> QED BY <1>3, <2>2 DEF Settled
<1>6. CASE <<n, r>> \in excuse'["unannounced"]
  BY <1>3, <1>6 DEF Settled
<1> QED BY <1>4, <1>5, <1>6, RefreshFailsKeys

LEMMA ReadConfigSettles ==
  ASSUME TypeInv, NEW c \in Calls, ReadConfig(c), NEW n \in Nodes, NEW r \in Runtimes, Settled(n, r), StillUntold,
         <<n, r>> \notin excuse'["raced"]
  PROVE  Settled(n, r)'
<1> USE DEF TypeInv
<1>1. /\ \A d \in Calls \ {c} : call'[d] = call[d]
      /\ call[c].step = "config" /\ UNCHANGED <<redis, local, plugins, service, stored>>
      /\ call'[c].step = "done" \/ (call'[c].step = "load" /\ call'[c].config = stored /\ At(c)' = At(c))
  BY ReadConfigMoves DEF Follows, CallsOK, ReadConfig, At
<1>2. call'[c].step = "load" /\ At(c) = <<n, r>> => Updating = {}
  <2> SUFFICES ASSUME call'[c].step = "load", At(c) = <<n, r>>, Updating # {} PROVE FALSE
    OBVIOUS
  <2>1. ~Returns(c)
    BY ReturnsFollows
  <2>2. Excused("raced", {At(c)})
    BY <2>1 DEF ReadConfig
  <2> QED BY <2>2, ExcusedGrows DEF Excuses
<1>3. (Uniform(n, r) => Uniform(n, r)') /\ (Expired(n, r) => Expired(n, r)')
  BY <1>1 DEF Uniform, Has, Entry, Expired, IsExpired, LocalVersions
<1> QED BY <1>1, <1>2, <1>3, SettledIf

LEMMA LoadSettles ==
  ASSUME TypeInv, NEW c \in Calls, Load(c), NEW n \in Nodes, NEW r \in Runtimes, Settled(n, r), StillUntold
  PROVE  Settled(n, r)'
<1> DEFINE m == call[c].node  q == call[c].rt
<1> USE DEF TypeInv
<1>1. /\ m \in Nodes /\ q \in Runtimes /\ call[c].step = "load"
      /\ UNCHANGED <<redis, local, stored>>
  BY CallTypes DEF Load, Running
<1>2. Expired(n, r) => Expired(n, r)'
  BY <1>1 DEF Expired, IsExpired, LocalVersions
<1>3. CASE call'[c].step = "done" /\ UNCHANGED <<plugins, service>>
  <2>1. Uniform(n, r) => Uniform(n, r)'
    BY <1>1, <1>3 DEF Uniform, Has, Entry
  <2> QED BY <1>1, <1>2, <1>3, <2>1, LoadMoves, SettledIf DEF Follows, CallsOK
<1>4. CASE /\ plugins' = [plugins EXCEPT ![m][q] = c] /\ call'[c].step = "publish"
           /\ \A s \in Services : service'[s] = IF s = <<m, q, c>> THEN Service("live", call[c].config, call[c].config)
                                                                 ELSE service[s]
  <2>1. \A d \in Calls \ {c} : call'[d] = call[d]
    BY LoadMoves DEF Follows, CallsOK
  <2>2. call'[c].step = "publish" /\ call'[c].node = m /\ call'[c].rt = q
    BY <1>4, LoadMoves DEF Follows
  <2>3. \A a \in Nodes, b \in Runtimes : plugins'[a][b] = IF a = m /\ b = q THEN c ELSE plugins[a][b]
    BY <1>1, <1>4 DEF TypeOK
  <2>4. CASE n = m /\ r = q
    <3>1. c \in Registering /\ At(c) = <<n, r>>
      BY <1>1, <2>4 DEF Registering, At
    <3>2. Updating = {} /\ call[c].config = stored
      BY <1>1, <3>1 DEF Settled
    <3>3. <<m, q, c>> \in Services
      BY <1>1, KeyFacts DEF Services
    <3>4. service'[<<m, q, c>>].config = call[c].config
      BY <1>4, <3>3 DEF Service
    <3>5. Uniform(n, r)'
      BY <1>1, <2>3, <2>4, <3>2, <3>4 DEF Uniform, Has, Entry
    <3> QED BY <1>1, <2>1, <2>2, <3>2, <3>5, SettledIf
  <2>5. CASE ~(n = m /\ r = q)
    <3>1. At(c)' # <<n, r>>
      BY <2>2, <2>5 DEF At
    <3>2. plugins'[n][r] = plugins[n][r] /\ Entry(n, r)' = Entry(n, r)
      BY <2>3, <2>5 DEF Entry
    <3>3. Has(n, r) => service'[Entry(n, r)] = service[Entry(n, r)]
      <4>1. Has(n, r) => Entry(n, r) \in Services /\ Entry(n, r) # <<m, q, c>>
        BY <2>5, EntryIsService DEF Entry
      <4> QED BY <1>4, <4>1
    <3>4. Uniform(n, r) => Uniform(n, r)'
      BY <1>1, <3>2, <3>3 DEF Uniform, Has
    <3> QED BY <1>1, <1>2, <2>1, <2>2, <3>1, <3>4, SettledIf
  <2> QED BY <2>4, <2>5
<1> QED BY <1>3, <1>4, LoadMoves

LEMMA SyncSettles ==
  ASSUME TypeInv, VersionInv, NEW c \in Calls, Publish(c) \/ Sync(c),
         NEW n \in Nodes, NEW r \in Runtimes, Settled(n, r), StillUntold,
         <<n, r>> \notin excuse'["shared"]
  PROVE  Settled(n, r)'
<1> USE DEF TypeInv
<1>1. /\ \A d \in Calls \ {c} : call'[d] = call[d]
      /\ UNCHANGED <<plugins, service, stored>>
      /\ call[c].step \in {"publish", "sync"} /\ call'[c].step \in {"done", "sync"}
      /\ (call'[c].step = "sync" => At(c)' = At(c))
  BY PublishMoves, ReturnsFollows DEF Publish, Sync, Follows, CallsOK, At
<1>2. Uniform(n, r) => Uniform(n, r)'
  BY <1>1 DEF Uniform, Has, Entry
<1>3. CASE At(c) = <<n, r>>
  <2>1. c \in Registering
    BY <1>1 DEF Registering
  <2>2. Updating = {} /\ Uniform(n, r)
    BY <1>1, <1>3, <2>1 DEF Settled
  <2> QED BY <1>1, <1>2, <2>2, SettledIf
<1>4. CASE At(c) # <<n, r>>
  <2>1. Expired(n, r) => Expired(n, r)'
    BY <1>4, ExpiredStays
  <2>2. call'[c].step = "sync" => At(c)' # <<n, r>>
    BY <1>1, <1>4
  <2> QED BY <1>1, <1>2, <2>1, <2>2, SettledIf
<1> QED BY <1>3, <1>4

(* The steps that only unload, or begin a call.                            *)
LEMMA QuietSettles ==
  ASSUME TypeInv, NEW c \in Calls, NEW n \in Nodes, NEW r \in Runtimes, Settled(n, r), StillUntold,
         \A d \in Calls \ {c} : call'[d] = call[d],
         call[c].step \notin {"apply", "refresh"},
         call'[c].step \notin {"load", "publish", "sync", "apply", "refresh"},
         UNCHANGED <<stored, redis, local>>, plugins'[n][r] \in {plugins[n][r], None},
         \A s \in Services : service'[s].config = service[s].config
  PROVE  Settled(n, r)'
<1>1. Expired(n, r) => Expired(n, r)'
  BY DEF Expired, IsExpired, LocalVersions
<1> QED BY <1>1, UniformStays, SettledIf

LEMMA BeginSettles ==
  ASSUME TypeInv, NEW c \in Calls, NEW n \in Nodes, NEW r \in Runtimes, Settled(n, r), StillUntold,
         NEW m \in Nodes, NEW q \in Runtimes,
         Register(c, m, q) \/ Invoke(c, m, q) \/ \E config \in Configs : UpdateConfig(c, m, config)
  PROVE  Settled(n, r)'
<1>1. /\ UNCHANGED <<stored, redis, local, plugins, service>> /\ call[c].step = "new"
  BY DEF Register, Invoke, UpdateConfig, Begins
<1>2. /\ \A d \in Calls \ {c} : call'[d] = call[d]
      /\ call'[c].step \in {"done", "config", "expiry", "save"}
  BY RegisterMoves, InvokeMoves, UpdateMoves DEF CallsOK
<1> QED BY <1>1, <1>2, QuietSettles

LEMMA UnregisterSettles ==
  ASSUME TypeInv, NEW c \in Calls, NEW m \in Nodes, NEW q \in Runtimes,
         Unregister(c, m, q) \/ \E new \in Runtimes : Replace(c, m, q, new),
         NEW n \in Nodes, NEW r \in Runtimes, Settled(n, r), StillUntold
  PROVE  Settled(n, r)'
<1> DEFINE k == [NewCall EXCEPT !.op = "unregister", !.node = m, !.rt = q]
<1> USE DEF TypeInv
<1>1. Directed(k) /\ k.node = m /\ k.rt = q
  <2>1. k.op \in Ops
    BY DEF Ops, NewCall
  <2> QED BY <2>1, BegunIsDirected DEF NewCall, Ops
<1> HIDE DEF k
<1>2. UNCHANGED <<stored, redis, local>> /\ call[c].step = "new"
  BY DEF Unregister, Replace, Begins
<1>3. CASE Returns(c) /\ UNCHANGED plugins /\ (UNCHANGED service \/ service' = InPhase({Entry(m, q)}, "misled"))
  <2>1. \A s \in Services : service'[s].config = service[s].config
    BY <1>3, PhaseConfigs
  <2> QED BY <1>2, <1>3, <2>1, ReturnsFollows, QuietSettles DEF Follows, CallsOK
<1>4. CASE Has(m, q) /\ Closes(c, k, Entry(m, q))
  <2>1. /\ \A d \in Calls \ {c} : call'[d] = call[d] /\ call'[c].step = "closing"
        /\ UNCHANGED plugins /\ service' = InPhase({Entry(m, q)}, "closing")
    BY <1>1, <1>4, ClosesFollows, EntryIsService DEF Follows, CallsOK, Closes
  <2>2. call'[c].step = "closing"
    BY <1>1, <1>4, ClosesFollows, EntryIsService
  <2>3. \A s \in Services : service'[s].config = service[s].config
    BY <2>1, PhaseConfigs
  <2> QED BY <1>2, <2>1, <2>2, <2>3, QuietSettles
<1>5. CASE Deleted(c, k) /\ UNCHANGED service
  <2>1. /\ \A d \in Calls \ {c} : call'[d] = call[d]
        /\ call'[c].step \in {"done", "config"} /\ plugins'[n][r] \in {plugins[n][r], None}
    BY <1>1, <1>5, DeletedFollows DEF Follows, CallsOK
  <2> QED BY <1>2, <1>5, <2>1, QuietSettles
<1> QED BY <1>3, <1>4, <1>5 DEF Unregister, Replace, k

LEMMA CheckSettles ==
  ASSUME TypeInv, NEW c \in Calls, CheckVersions(c), NEW n \in Nodes, NEW r \in Runtimes, Settled(n, r), StillUntold
  PROVE  Settled(n, r)'
<1> DEFINE m == call[c].node  q == call[c].rt
           k == [call[c] EXCEPT !.seen = NewCall.seen]
<1> USE DEF TypeInv
<1>1. /\ Directed(k) /\ k.node = m /\ k.rt = q /\ m \in Nodes /\ q \in Runtimes
      /\ call[c].step = "expiry" /\ UNCHANGED <<stored, redis, local>>
  BY CallTypes, KeyFacts DEF CheckVersions, Directed, Running, NewCall, CallRecord
<1> HIDE DEF m, q, k
<1>2. CASE Returns(c) /\ UNCHANGED <<plugins, service>>
  BY <1>1, <1>2, ReturnsFollows, QuietSettles DEF Follows, CallsOK
<1>3. CASE Enters(c, k, plugins[m]) /\ UNCHANGED <<plugins, service>>
  <2>1. (\A d \in Calls \ {c} : call'[d] = call[d]) /\ call'[c].step \in {"done", "config"}
    BY <1>1, <1>3, EntersFollows DEF Follows, CallsOK
  <2> QED BY <1>1, <1>3, <2>1, QuietSettles
<1>4. CASE Has(m, q) /\ Closes(c, k, Entry(m, q))
  <2>1. (\A d \in Calls \ {c} : call'[d] = call[d]) /\ call'[c].step = "closing"
        /\ UNCHANGED plugins /\ service' = InPhase({Entry(m, q)}, "closing")
    BY <1>1, <1>4, ClosesFollows, EntryIsService DEF Follows, CallsOK
  <2>2. \A s \in Services : service'[s].config = service[s].config
    BY <2>1, PhaseConfigs
  <2> QED BY <1>1, <2>1, <2>2, QuietSettles
<1>5. CASE Deleted(c, k) /\ UNCHANGED service
  <2>1. /\ \A d \in Calls \ {c} : call'[d] = call[d]
        /\ call'[c].step \in {"done", "config"} /\ plugins'[n][r] \in {plugins[n][r], None}
    BY <1>1, <1>5, DeletedFollows DEF Follows, CallsOK
  <2> QED BY <1>1, <1>5, <2>1, QuietSettles
<1> QED BY <1>2, <1>3, <1>4, <1>5 DEF CheckVersions, m, q, k

LEMMA ClosedSettles ==
  ASSUME TypeInv, NEW c \in Calls, Closed(c) \/ ShutdownEnds(c) \/ \E m \in Nodes : Shutdown(c, m),
         NEW n \in Nodes, NEW r \in Runtimes, Settled(n, r), StillUntold
  PROVE  Settled(n, r)'
<1> USE DEF TypeInv
<1>1. UNCHANGED <<stored, redis, local>> /\ call[c].step \in {"new", "closing", "ending"}
  BY DEF Closed, ShutdownEnds, Shutdown, Begins
<1>2. \A s \in Services : service'[s].config = service[s].config
  BY PhaseConfigs DEF Closed, ShutdownEnds, Shutdown
<1>3. CASE Closed(c)
  <2>1. Directed(call[c])
    BY <1>3, CallTypes DEF Closed, Directed, Running
  <2>2. /\ \A d \in Calls \ {c} : call'[d] = call[d]
        /\ call'[c].step \in {"done", "config"} /\ plugins'[n][r] \in {plugins[n][r], None}
    BY <1>3, <2>1, DeletedFollows DEF Closed, Follows, CallsOK
  <2> QED BY <1>1, <1>2, <2>2, QuietSettles
<1>4. CASE ShutdownEnds(c)
  <2>1. (\A d \in Calls \ {c} : call'[d] = call[d]) /\ call'[c].step = "done"
    BY <1>4, ReturnsFollows DEF ShutdownEnds, Follows, CallsOK
  <2>2. plugins'[n][r] \in {plugins[n][r], None}
    BY <1>4 DEF ShutdownEnds, TypeOK
  <2> QED BY <1>1, <1>2, <2>1, <2>2, QuietSettles
<1>5. ASSUME NEW m \in Nodes, Shutdown(c, m) PROVE Settled(n, r)'
  <2> DEFINE k == [NewCall EXCEPT !.op = "shutdown", !.node = m, !.step = "ending",
                                  !.old = {s \in Loaded(m) : Destroyable(s)}]
  <2>1. UNCHANGED plugins /\ (Returns(c) \/ Becomes(c, k))
    BY <1>5 DEF Shutdown
  <2>2. k.step = "ending"
    BY DEF NewCall
  <2> HIDE DEF k
  <2>3. (\A d \in Calls \ {c} : call'[d] = call[d]) /\ call'[c].step \in {"done", "ending"}
    BY <2>1, <2>2, BecomesMoves, ReturnsFollows DEF Follows, CallsOK
  <2> QED BY <1>1, <1>2, <2>1, <2>3, QuietSettles
<1> QED BY <1>3, <1>4, <1>5

LEMMA FleetsSettle ==
  ASSUME TypeInv, NEW c \in Calls, Fleets(c), NEW n \in Nodes, NEW r \in Runtimes, Settled(n, r)
  PROVE  Settled(n, r)'
<1>1. (\A d \in Calls \ {c} : call'[d] = call[d]) /\ call[c].step = "new" /\ call'[c].step = "done"
  BY FleetsChange, ReturnsFollows DEF Follows, CallsOK, Begins, TypeInv
<1>2. StillUntold
  BY FleetsChange DEF StillUntold
<1> QED BY <1>1, <1>2, FleetsChange, QuietSettles

(* If the node was updating, no node is told: every place is excused.      *)
LEMMA RestartSettles ==
  ASSUME TypeInv, NEW c \in Calls, NEW m \in Nodes, Restart(c, m), NEW n \in Nodes, NEW r \in Runtimes,
         Settled(n, r), StillUntold
  PROVE  Settled(n, r)'
<1> USE DEF TypeInv
<1>1. \A d \in Calls : call'[d].step # "done" => call'[d] = call[d]
  BY DEF Restart, NewCall
<1>2. \A d \in Updating' : d \in Updating /\ call'[d] = call[d]
  BY <1>1 DEF Updating
<1>3. (\E d \in Updating : call[d].node = m) \/ Updating' = Updating
  <2> SUFFICES ASSUME \A d \in Updating : call[d].node # m PROVE Updating \subseteq Updating'
    BY <1>2
  <2>1. \A d \in Updating : call'[d] = call[d]
    BY DEF Restart, Updating, TypeOK, Begins
  <2> QED BY <2>1 DEF Updating
<1>4. \A d \in Registering' : d \in Registering /\ call'[d] = call[d] /\ At(d)' = At(d)
  BY <1>1 DEF Registering, At
<1>5. UNCHANGED <<stored, redis>> /\ \A s \in Services : service'[s].config = service[s].config
  BY PhaseConfigs DEF Restart
<1>6. plugins'[n][r] = IF n = m THEN None ELSE plugins[n][r]
  BY DEF Restart, TypeOK
<1>7. Uniform(n, r) => Uniform(n, r)'
  BY <1>5, <1>6, UniformStays
<1>8. Uniform(n, r)' \/ (Expired(n, r) => Expired(n, r)')
  <2>1. CASE n = m
    BY <1>6, <2>1 DEF Uniform, Has
  <2>2. CASE n # m
    <3>1. local'[n] = local[n]
      BY <2>2 DEF Restart, TypeOK
    <3> QED BY <1>5, <3>1 DEF Expired, IsExpired, LocalVersions
  <2> QED BY <2>1, <2>2
<1>9. Updating' = {} /\ <<n, r>> \notin excuse'["unannounced"] => Uniform(n, r)' \/ Expired(n, r)'
  <2>1. CASE \E d \in Updating : call[d].node = m
    <3>1. Excused("unannounced", Places)
      BY <2>1 DEF Restart
    <3>2. <<n, r>> \in excuse'["unannounced"]
      BY <3>1, ExcusedGrows DEF Excuses, Places
    <3> QED BY <3>2
  <2>2. CASE Updating' = Updating
    BY <2>2, <1>7, <1>8 DEF Settled, StillUntold
  <2> QED BY <1>3, <2>1, <2>2
<1>10. \A d \in Updating' : /\ call'[d].step = "apply" => call'[d].config = stored'
                            /\ \A e \in Registering' : At(e)' # <<n, r>>
                            /\ call'[d].step = "refresh" /\ call'[d].node = n => Uniform(n, r)'
  BY <1>2, <1>4, <1>5, <1>7 DEF Settled
<1>11. \A d \in Registering' : At(d)' = <<n, r>> =>
         IF call'[d].step = "load" THEN call'[d].config = stored' ELSE Uniform(n, r)'
  BY <1>4, <1>5, <1>7 DEF Settled
<1> QED BY <1>2, <1>9, <1>10, <1>11 DEF Settled

LEMMA FreshInit == Init => FreshInv
<1> SUFFICES ASSUME Init, NEW n \in Nodes, NEW r \in Runtimes PROVE Settled(n, r)
  BY DEF FreshInv
<1>1. Updating = {} /\ Registering = {}
  BY DEF Init, Updating, Registering, NewCall
<1>2. TypeInv
  BY TypeInit
<1>3. \A s \in Services : service[s].config = Default
  BY DEF Init, Service
<1>4. Uniform(n, r)
  BY <1>2, <1>3, EntryIsService DEF Init, Uniform, TypeInv
<1> QED BY <1>1, <1>4 DEF Settled

LEMMA FreshStep == ManagerInv /\ FreshInv /\ [Next]_vars => FreshInv'
<1> SUFFICES ASSUME TypeInv, VersionInv, FreshInv, [Next]_vars,
                    NEW n \in Nodes, NEW r \in Runtimes, Not({"raced", "shared", "overlap"}, n, r)'
             PROVE  Settled(n, r)'
  BY DEF FreshInv, ManagerInv
<1>1. \A e \in {"raced", "shared", "overlap"} : <<n, r>> \notin excuse'[e]
  BY DEF Not
<1>2. Settled(n, r)
  <2>1. \A e \in {"raced", "shared", "overlap"} : excuse[e] \subseteq excuse'[e]
    BY ExcusesGrow DEF Lasting, Excuses
  <2>2. Not({"raced", "shared", "overlap"}, n, r)
    BY <1>1, <2>1 DEF Not
  <2> QED BY <2>2 DEF FreshInv
<1>3. CASE UNCHANGED vars
  BY <1>2, <1>3 DEF vars, Settled, Uniform, Updating, Registering, At, Has, Entry, Expired, IsExpired, LocalVersions
<1>4. ASSUME NEW c \in Calls, Begin(c) PROVE Settled(n, r)'
  <2> StillUntold
    BY <1>4, ExcusesGrowBut DEF StillUntold, Excuses
  <2>1. PICK m \in Nodes :
          \/ \E q \in Runtimes : Register(c, m, q) \/ Unregister(c, m, q) \/ Invoke(c, m, q)
          \/ \E q \in Runtimes : \E new \in Runtimes : Replace(c, m, q, new)
          \/ \E config \in Configs : UpdateConfig(c, m, config)
          \/ Shutdown(c, m) \/ Restart(c, m)
    BY <1>4 DEF Begin
  <2>2. CASE \E q \in Runtimes : Unregister(c, m, q) \/ \E new \in Runtimes : Replace(c, m, q, new)
    BY <2>2, <1>2, UnregisterSettles
  <2>3. ASSUME NEW q \in Runtimes, Register(c, m, q) \/ Invoke(c, m, q) PROVE Settled(n, r)'
    BY <2>3, <1>2, BeginSettles
  <2>4. CASE \E config \in Configs : UpdateConfig(c, m, config)
    BY <2>4, <1>2, BeginSettles
  <2>5. CASE Shutdown(c, m)
    BY <2>5, <1>2, ClosedSettles
  <2>6. CASE Restart(c, m)
    BY <2>6, <1>1, <1>2, RestartSettles
  <2> QED BY <2>1, <2>2, <2>3, <2>4, <2>5, <2>6
<1>5. ASSUME NEW c \in Calls, Continue(c) PROVE Settled(n, r)'
  <2>1. CASE Refresh(c)
    BY <1>2, <2>1, RefreshSettles
  <2>2. CASE ~Refresh(c)
    <3>1. StillUntold
      BY <1>5, <2>2, ExcusesGrowBut DEF StillUntold, Excuses
    <3> QED BY <1>1, <1>2, <1>5, <2>2, <3>1, ReadConfigSettles, LoadSettles, SyncSettles, ClosedSettles, CheckSettles,
               SaveSettles, ApplySettles, RefreshFailsSettles DEF Continue
  <2> QED BY <2>1, <2>2
<1>6. ASSUME NEW c \in Calls, Fleets(c) PROVE Settled(n, r)'
  BY <1>2, <1>6, FleetsSettle
<1> QED BY <1>3, <1>4, <1>5, <1>6 DEF Next

(* A service runs under a configuration that is not the stored one only    *)
(* while its keys are expired, so that its next invocation reloads it.     *)
(* Excused: updates that overlapped, a key taken over by another version   *)
(* and, until the next announced update, one the other nodes were not told. *)
THEOREM StoredConfigReaches == Spec => []ConfigFresh
<1>1. TypeInv /\ FreshInv => ConfigFresh
  <2> SUFFICES ASSUME TypeInv, FreshInv, AtRest, NEW n \in Nodes, NEW r \in Runtimes,
                      Has(n, r), service[Entry(n, r)].config # stored,
                      Not({"raced", "shared", "overlap", "unannounced"}, n, r)
               PROVE  Expired(n, r)
    BY DEF ConfigFresh
  <2>1. Settled(n, r) /\ <<n, r>> \notin excuse["unannounced"]
    BY DEF FreshInv, Not
  <2>2. Updating = {}
    BY DEF AtRest, Running, Updating
  <2> QED BY <2>1, <2>2 DEF Settled, Uniform
<1>2. ManagerInv => TypeInv
  BY DEF ManagerInv
<1> QED BY <1>1, <1>2, ManagerInvariant, FreshInit, FreshStep, PTL DEF Spec

-----------------------------------------------------------------------------
(* The quota                                                               *)

(* A service that has pods is in plugins; one that closes is waited for by *)
(* the call that ends it, or by the shutdown.                              *)
Held(n, r) ==
  \A i \in Ids : Alive(<<n, r, i>>) =>
    /\ plugins[n][r] = i
    /\ service[<<n, r, i>>].phase = "closing" => destroyed[n] \/ \E c \in Replacing(n, r) : call[c].step = "closing"
    /\ \A c \in Replacing(n, r) : call[c].step = "closing" => <<n, r, i>> \in call[c].old
    /\ \A c \in Calls : call[c].step = "ending" /\ call[c].node = n => <<n, r, i>> \in call[c].old

HeldInv == \A n \in Nodes, r \in Runtimes : Not({"overlap"}, n, r) => Held(n, r)

(* A step of c that closes nothing of the place, nor ends a closing.       *)
LEMMA HeldIf ==
  ASSUME NEW c \in Calls, \A d \in Calls \ {c} : call'[d] = call[d],
         NEW n \in Nodes, NEW r \in Runtimes, Held(n, r),
         plugins'[n][r] = plugins[n][r], destroyed'[n] = destroyed[n],
         \A i \in Ids : Alive(<<n, r, i>>)' =>
           /\ Alive(<<n, r, i>>)
           /\ service'[<<n, r, i>>].phase = "closing" => service[<<n, r, i>>].phase = "closing",
         call'[c].step # "ending",
         call'[c].step = "closing" => At(c)' # <<n, r>>,
         call[c].step = "closing" => At(c) # <<n, r>>
  PROVE  Held(n, r)'
<1> SUFFICES ASSUME NEW i \in Ids, Alive(<<n, r, i>>)'
             PROVE  /\ plugins'[n][r] = i
                    /\ service'[<<n, r, i>>].phase = "closing" =>
                         destroyed'[n] \/ \E d \in Replacing(n, r)' : call'[d].step = "closing"
                    /\ \A d \in Replacing(n, r)' : call'[d].step = "closing" => <<n, r, i>> \in call'[d].old
                    /\ \A d \in Calls : call'[d].step = "ending" /\ call'[d].node = n => <<n, r, i>> \in call'[d].old
  BY DEF Held
<1>1. Alive(<<n, r, i>>)
  OBVIOUS
<1>2. plugins'[n][r] = i
  BY <1>1 DEF Held
<1>3. service'[<<n, r, i>>].phase = "closing" =>
        destroyed'[n] \/ \E d \in Replacing(n, r)' : call'[d].step = "closing"
  <2> SUFFICES ASSUME service'[<<n, r, i>>].phase = "closing", ~destroyed[n]
               PROVE  \E d \in Replacing(n, r)' : call'[d].step = "closing"
    OBVIOUS
  <2>1. PICK d \in Replacing(n, r) : call[d].step = "closing"
    BY <1>1 DEF Held
  <2>2. d # c /\ d \in Calls /\ call'[d] = call[d]
    BY <2>1 DEF Replacing
  <2>3. d \in Replacing(n, r)'
    BY <2>1, <2>2 DEF Replacing, At
  <2> QED BY <2>1, <2>2, <2>3
<1>4. \A d \in Replacing(n, r)' : call'[d].step = "closing" => <<n, r, i>> \in call'[d].old
  <2> SUFFICES ASSUME NEW d \in Replacing(n, r)', call'[d].step = "closing" PROVE <<n, r, i>> \in call'[d].old
    OBVIOUS
  <2>1. d # c /\ call'[d] = call[d] /\ d \in Replacing(n, r)
    BY DEF Replacing, At
  <2> QED BY <1>1, <2>1 DEF Held
<1>5. \A d \in Calls : call'[d].step = "ending" /\ call'[d].node = n => <<n, r, i>> \in call'[d].old
  BY <1>1 DEF Held
<1> QED BY <1>2, <1>3, <1>4, <1>5

(* Steps that leave phases and entries alone.                              *)
LEMMA HeldQuiet ==
  ASSUME NEW c \in Calls, \A d \in Calls \ {c} : call'[d] = call[d],
         NEW n \in Nodes, NEW r \in Runtimes, Held(n, r),
         UNCHANGED <<plugins, destroyed>>, \A s \in Services : service'[s].phase = service[s].phase,
         call[c].step # "closing", call'[c].step \notin {"closing", "ending"}
  PROVE  Held(n, r)'
<1>1. \A i \in Ids : service'[<<n, r, i>>].phase = service[<<n, r, i>>].phase
  BY DEF Services
<1> QED BY <1>1, HeldIf DEF Alive

LEMMA QuietHolds ==
  ASSUME TypeInv, NEW c \in Calls, NEW n \in Nodes, NEW r \in Runtimes, Held(n, r),
         \/ ReadConfig(c) \/ Publish(c) \/ Sync(c) \/ Save(c) \/ Apply(c) \/ Refresh(c) \/ RefreshFails(c)
         \/ \E m \in Nodes, q \in Runtimes : Register(c, m, q) \/ Invoke(c, m, q)
         \/ \E m \in Nodes, config \in Configs : UpdateConfig(c, m, config)
         \/ Fleets(c)
  PROVE  Held(n, r)'
<1> USE DEF TypeInv
<1>1. CASE ReadConfig(c)
  BY <1>1, ReadConfigMoves, HeldQuiet DEF ReadConfig, Follows, CallsOK
<1>2. CASE Publish(c)
  BY <1>2, PublishMoves, HeldQuiet DEF Publish, Follows, CallsOK
<1>3. CASE Sync(c)
  BY <1>3, ReturnsFollows, HeldQuiet DEF Sync, Follows, CallsOK
<1>4. CASE Save(c)
  BY <1>4, SaveMoves, HeldQuiet DEF Save, Follows, CallsOK
<1>5. CASE Apply(c)
  <2>1. (\A s \in Services : service'[s].phase = service[s].phase) /\ Follows(c, call[c]) /\ call'[c].step = "refresh"
    BY <1>5, ApplyMoves
  <2>2. UNCHANGED <<plugins, destroyed>> /\ call[c].step = "apply"
    BY <1>5 DEF Apply
  <2> QED BY <2>1, <2>2, HeldQuiet DEF Follows, CallsOK
<1>6. CASE Refresh(c) \/ RefreshFails(c)
  BY <1>6, ReturnsFollows, HeldQuiet DEF Refresh, RefreshFails, Follows, CallsOK
<1>7. ASSUME NEW m \in Nodes, NEW q \in Runtimes, Register(c, m, q) PROVE Held(n, r)'
  BY <1>7, RegisterMoves, HeldQuiet DEF Register, Begins, CallsOK
<1>8. ASSUME NEW m \in Nodes, NEW q \in Runtimes, Invoke(c, m, q) PROVE Held(n, r)'
  BY <1>8, InvokeMoves, HeldQuiet DEF Invoke, Begins, CallsOK
<1>9. ASSUME NEW m \in Nodes, NEW config \in Configs, UpdateConfig(c, m, config) PROVE Held(n, r)'
  BY <1>9, UpdateMoves, HeldQuiet DEF UpdateConfig, Begins, CallsOK
<1>10. CASE Fleets(c)
  BY <1>10, FleetsChange, ReturnsFollows, HeldQuiet DEF Begins, Follows, CallsOK
<1> QED BY <1>1, <1>2, <1>3, <1>4, <1>5, <1>6, <1>7, <1>8, <1>9, <1>10

(* The pods of the place are gone, or there were none.                     *)
LEMMA HeldEmpty ==
  ASSUME NEW n \in Nodes, NEW r \in Runtimes, \A i \in Ids : ~Alive(<<n, r, i>>)'
  PROVE  Held(n, r)'
BY DEF Held

LEMMA LoadHolds ==
  ASSUME TypeInv, NEW c \in Calls, Load(c), NEW n \in Nodes, NEW r \in Runtimes, Held(n, r), Kept(n, r)
  PROVE  Held(n, r)'
<1> DEFINE m == call[c].node  q == call[c].rt
<1> USE DEF TypeInv
<1>1. m \in Nodes /\ q \in Runtimes /\ call[c].step = "load" /\ UNCHANGED destroyed
  BY CallTypes DEF Load, Running
<1>2. CASE call'[c].step = "done" /\ UNCHANGED <<plugins, service>>
  BY <1>1, <1>2, LoadMoves, HeldQuiet DEF Follows, CallsOK
<1>3. CASE /\ call'[c].step = "publish"
           /\ plugins' = [plugins EXCEPT ![m][q] = c]
           /\ \A s \in Services : service'[s] =
                IF s = <<m, q, c>> THEN Service("live", call[c].config, call[c].config) ELSE service[s]
  <2>1. \A d \in Calls \ {c} : call'[d] = call[d]
    BY LoadMoves DEF Follows, CallsOK
  <2>2. call'[c].step = "publish" /\ call'[c].node = m /\ call'[c].rt = q
    BY <1>3, LoadMoves DEF Follows
  <2>3. \A a \in Nodes, b \in Runtimes : plugins'[a][b] = IF a = m /\ b = q THEN c ELSE plugins[a][b]
    BY <1>1, <1>3 DEF TypeOK
  <2>4. \A s \in Services : s # <<m, q, c>> => service'[s] = service[s]
    BY <1>3
  <2>5. CASE n = m /\ r = q
    <3>1. c \in Replacing(n, r)
      BY <1>1, <2>5 DEF Replacing, At
    <3>2. ~Has(n, r) /\ ~destroyed[n] /\ \A d \in Replacing(n, r) : d = c
      BY <1>1, <3>1 DEF Kept
    <3>3. \A i \in Ids : ~Alive(<<n, r, i>>)
      BY <3>2, KeyFacts DEF Held, Has
    <3>4. ASSUME NEW i \in Ids, Alive(<<n, r, i>>)' PROVE i = c /\ service'[<<n, r, i>>].phase = "live"
      <4>1. i = c
        BY <3>3, <3>4, <2>4 DEF Alive, Services
      <4>2. <<m, q, c>> \in Services
        BY <1>1, KeyFacts DEF Services
      <4>3. service'[<<m, q, c>>].phase = "live"
        BY <1>3, <4>2 DEF Service
      <4> QED BY <4>1, <4>3, <2>5
    <3>5. \A d \in Replacing(n, r)' : call'[d].step # "closing"
      BY <2>1, <2>2, <3>2 DEF Replacing, At
    <3>6. \A d \in Calls : call'[d].step = "ending" => call'[d].node # n
      <4> SUFFICES ASSUME NEW d \in Calls, call'[d].step = "ending", call'[d].node = n PROVE FALSE
        OBVIOUS
      <4>1. d # c /\ call'[d] = call[d]
        BY <2>1, <2>2
      <4> QED BY <3>2, <4>1 DEF Destroying
    <3> QED BY <2>3, <2>5, <3>4, <3>5, <3>6 DEF Held
  <2>6. CASE ~(n = m /\ r = q)
    <3>1. \A i \in Ids : service'[<<n, r, i>>] = service[<<n, r, i>>]
      BY <2>4, <2>6 DEF Services
    <3>2. plugins'[n][r] = plugins[n][r]
      BY <2>3, <2>6
    <3>3. call'[c].step # "ending" /\ call'[c].step # "closing" /\ call[c].step # "closing"
      BY <1>1, <2>2
    <3>4. \A i \in Ids : Alive(<<n, r, i>>)' =>
            /\ Alive(<<n, r, i>>)
            /\ service'[<<n, r, i>>].phase = "closing" => service[<<n, r, i>>].phase = "closing"
      BY <3>1 DEF Alive
    <3>5. destroyed'[n] = destroyed[n]
      BY <1>1
    <3>6. \A d \in Calls \ {c} : call'[d] = call[d]
      BY <2>1
    <3> HIDE DEF TypeInv, m, q
    <3> QED BY <3>2, <3>3, <3>4, <3>5, <3>6, HeldIf
  <2> QED BY <2>5, <2>6
<1> QED BY <1>2, <1>3, LoadMoves

(* The service of a place is told to close: c will end its pods.           *)
LEMMA ClosesHolds ==
  ASSUME TypeInv, NEW c \in Calls, NEW k, Directed(k), Has(k.node, k.rt), Closes(c, k, Entry(k.node, k.rt)),
         UNCHANGED destroyed, call[c].step # "closing", NEW n \in Nodes, NEW r \in Runtimes, Held(n, r),
         <<n, r>> = <<k.node, k.rt>> => Replacing(n, r) \subseteq {c} /\ ~destroyed[n]
  PROVE  Held(n, r)'
<1>1. k.node \in Nodes /\ k.rt \in Runtimes /\ Entry(k.node, k.rt) \in Services
  BY EntryIsService DEF Directed, TypeInv
<1>2. /\ \A d \in Calls \ {c} : call'[d] = call[d]
      /\ call'[c].node = k.node /\ call'[c].rt = k.rt /\ call'[c].step = "closing"
      /\ call'[c].old = {Entry(k.node, k.rt)} /\ Destroyable(Entry(k.node, k.rt))
      /\ service' = InPhase({Entry(k.node, k.rt)}, "closing") /\ UNCHANGED plugins
  BY <1>1, ClosesFollows DEF Follows, TypeInv, CallsOK
<1>3. \A s \in Services : /\ Alive(s)' => Alive(s)
                          /\ s # Entry(k.node, k.rt) => service'[s].phase = service[s].phase
  BY <1>2 DEF Alive, InPhase, Destroyable, TypeInv, TypeOK
<1>4. \A i \in Ids : <<n, r, i>> \in Services
  BY DEF Services
<1>5. CASE <<n, r>> = <<k.node, k.rt>>
  <2> SUFFICES ASSUME NEW i \in Ids, Alive(<<n, r, i>>)'
               PROVE  /\ plugins'[n][r] = i
                      /\ \E d \in Replacing(n, r)' : call'[d].step = "closing"
                      /\ \A d \in Replacing(n, r)' : call'[d].step = "closing" => <<n, r, i>> \in call'[d].old
                      /\ \A d \in Calls : call'[d].step = "ending" /\ call'[d].node = n => <<n, r, i>> \in call'[d].old
    BY DEF Held
  <2>1. plugins[n][r] = i /\ <<n, r, i>> = Entry(k.node, k.rt)
    BY <1>3, <1>4, <1>5 DEF Held, Entry
  <2>2. c \in Replacing(n, r)' /\ \A d \in Replacing(n, r)' : d = c
    BY <1>2, <1>5 DEF Replacing, At
  <2>3. \A d \in Calls : ~(call'[d].step = "ending" /\ call'[d].node = n)
    <3> SUFFICES ASSUME NEW d \in Calls, call'[d].step = "ending", call'[d].node = n PROVE FALSE
      OBVIOUS
    <3>1. d # c /\ call'[d] = call[d]
      BY <1>2
    <3> QED BY <1>5, <3>1 DEF TypeInv, Destroying
  <2> QED BY <1>2, <2>1, <2>2, <2>3
<1>6. CASE <<n, r>> # <<k.node, k.rt>>
  <2>1. \A i \in Ids : service'[<<n, r, i>>].phase = service[<<n, r, i>>].phase
    BY <1>3, <1>4, <1>6 DEF Entry
  <2>2. At(c)' # <<n, r>>
    BY <1>2, <1>6 DEF At
  <2>3. \A i \in Ids : Alive(<<n, r, i>>)' =>
          /\ Alive(<<n, r, i>>)
          /\ service'[<<n, r, i>>].phase = "closing" => service[<<n, r, i>>].phase = "closing"
    BY <2>1 DEF Alive
  <2>4. call'[c].step # "ending" /\ plugins'[n][r] = plugins[n][r] /\ destroyed'[n] = destroyed[n]
        /\ \A d \in Calls \ {c} : call'[d] = call[d]
    BY <1>2
  <2> QED BY <2>2, <2>3, <2>4, HeldIf
<1> QED BY <1>5, <1>6

(* The entry of a place is deleted, and its service has no pods any more.  *)
LEMMA DeletedHolds ==
  ASSUME TypeInv, NEW c \in Calls, NEW k, Directed(k), Deleted(c, k), UNCHANGED destroyed,
         NEW n \in Nodes, NEW r \in Runtimes, Held(n, r),
         \A i \in Ids : Alive(<<n, r, i>>)' =>
           /\ Alive(<<n, r, i>>)
           /\ service'[<<n, r, i>>].phase = "closing" => service[<<n, r, i>>].phase = "closing",
         <<n, r>> = <<k.node, k.rt>> => \A i \in Ids : ~Alive(<<n, r, i>>)',
         call[c].step = "closing" => At(c) = <<k.node, k.rt>>
  PROVE  Held(n, r)'
<1>1. /\ \A d \in Calls \ {c} : call'[d] = call[d]
      /\ call'[c].step \in {"done", "config"}
      /\ <<n, r>> # <<k.node, k.rt>> => plugins'[n][r] = plugins[n][r]
  BY DeletedFollows DEF Follows, CallsOK, TypeInv
<1>2. CASE <<n, r>> = <<k.node, k.rt>>
  BY <1>2, HeldEmpty
<1>3. CASE <<n, r>> # <<k.node, k.rt>>
  <2>1. destroyed'[n] = destroyed[n] /\ (call[c].step = "closing" => At(c) # <<n, r>>)
    BY <1>3
  <2> QED BY <1>1, <1>3, <2>1, HeldIf
<1> QED BY <1>2, <1>3

(* A service that is neither to be destroyed nor awaited by a rival of c   *)
(* has no pods.                                                            *)
LEMMA LoneIsDead ==
  ASSUME TypeInv, NEW c \in Calls, NEW n \in Nodes, NEW r \in Runtimes, Held(n, r), ~Destroyable(Entry(n, r)),
         Replacing(n, r) \subseteq {c}, ~destroyed[n], call[c].step # "closing"
  PROVE  \A i \in Ids : ~Alive(<<n, r, i>>)
<1> SUFFICES ASSUME NEW i \in Ids, Alive(<<n, r, i>>) PROVE FALSE
  OBVIOUS
<1>1. Entry(n, r) = <<n, r, i>> /\ <<n, r, i>> \in Services
  BY DEF Held, Entry, Services
<1>2. service[<<n, r, i>>].phase = "closing"
  <2>1. service[<<n, r, i>>].phase \in Phases
    BY <1>1, RecordFacts DEF TypeInv, TypeOK
  <2> QED BY <1>1, <2>1 DEF Alive, Destroyable, Phases
<1> QED BY <1>2 DEF Held

LEMMA UnregisterHolds ==
  ASSUME TypeInv, NEW c \in Calls, NEW m \in Nodes, NEW q \in Runtimes,
         Unregister(c, m, q) \/ \E new \in Runtimes : Replace(c, m, q, new),
         NEW n \in Nodes, NEW r \in Runtimes, Held(n, r), Undisputed(n, r)
  PROVE  Held(n, r)'
<1> DEFINE k == [NewCall EXCEPT !.op = "unregister", !.node = m, !.rt = q]
<1>1. Directed(k) /\ k.node = m /\ k.rt = q
  <2>1. k.op \in Ops
    BY DEF Ops, NewCall
  <2> QED BY <2>1, BegunIsDirected DEF NewCall, Ops
<1> HIDE DEF k
<1>2. call[c].step = "new" /\ UNCHANGED destroyed /\ TypeOK
  BY DEF Undisputed, Unregister, Replace, Begins, TypeInv
<1>3. CASE Returns(c) /\ UNCHANGED <<plugins, service>>
  BY <1>2, <1>3, ReturnsFollows, HeldQuiet DEF Follows, CallsOK
<1>4. CASE Destroyable(Entry(m, q)) /\ service' = InPhase({Entry(m, q)}, "misled") /\ Returns(c) /\ UNCHANGED plugins
  <2>1. (\A d \in Calls \ {c} : call'[d] = call[d]) /\ call'[c].step = "done"
    BY <1>2, <1>4, ReturnsFollows DEF Follows, CallsOK
  <2>2. \A i \in Ids : Alive(<<n, r, i>>)' =>
          /\ Alive(<<n, r, i>>)
          /\ service'[<<n, r, i>>].phase = "closing" => service[<<n, r, i>>].phase = "closing"
    <3> SUFFICES ASSUME NEW i \in Ids
                 PROVE  /\ Alive(<<n, r, i>>)' => Alive(<<n, r, i>>)
                        /\ service'[<<n, r, i>>].phase = "closing" => service[<<n, r, i>>].phase = "closing"
      OBVIOUS
    <3>1. <<n, r, i>> \in Services
      BY DEF Services
    <3>2. service[<<n, r, i>>] \in ServiceRecord
      BY <1>2, <3>1 DEF TypeOK
    <3>3. CASE <<n, r, i>> = Entry(m, q)
      <4>1. service'[<<n, r, i>>] = [service[<<n, r, i>>] EXCEPT !.phase = "misled"]
        BY <1>4, <3>1, <3>3 DEF InPhase
      <4> QED BY <1>4, <3>2, <3>3, <4>1, PhaseRecord DEF Phases, Destroyable, Alive
    <3>4. CASE <<n, r, i>> # Entry(m, q)
      BY <1>4, <3>1, <3>4 DEF InPhase, Alive
    <3> QED BY <3>3, <3>4
  <2>3. destroyed'[n] = destroyed[n] /\ plugins'[n][r] = plugins[n][r]
    BY <1>2, <1>4
  <2> QED BY <1>2, <2>1, <2>2, <2>3, HeldIf
<1>5. CASE Withdraws(c, m, q) /\ Has(m, q) /\ (Closes(c, k, Entry(m, q)) \/ (~Destroyable(Entry(m, q)) /\ Deleted(c, k) /\ UNCHANGED service))
  <2>1. <<n, r>> = <<m, q>> => Replacing(n, r) \subseteq {c} /\ ~destroyed[n]
    BY <1>2, <1>5, WithdrawsGrows DEF Undisputed
  <2>2. CASE Closes(c, k, Entry(m, q))
    BY <1>1, <1>2, <1>5, <2>1, <2>2, ClosesHolds
  <2>3. CASE ~Destroyable(Entry(m, q)) /\ Deleted(c, k) /\ UNCHANGED service
    <3>1. <<n, r>> = <<m, q>> => \A i \in Ids : ~Alive(<<n, r, i>>)'
      <4> SUFFICES ASSUME <<n, r>> = <<m, q>> PROVE \A i \in Ids : ~Alive(<<n, r, i>>)
        BY <2>3 DEF Alive
      <4>1. ~Destroyable(Entry(n, r))
        BY <2>3
      <4> QED BY <1>2, <2>1, <4>1, LoneIsDead
    <3>2. \A i \in Ids : Alive(<<n, r, i>>)' =>
            /\ Alive(<<n, r, i>>)
            /\ service'[<<n, r, i>>].phase = "closing" => service[<<n, r, i>>].phase = "closing"
      BY <2>3 DEF Alive
    <3> QED BY <1>1, <1>2, <2>3, <3>1, <3>2, DeletedHolds
  <2> QED BY <1>5, <2>2, <2>3
<1> QED BY <1>3, <1>4, <1>5 DEF Unregister, Replace, k

LEMMA CheckHolds ==
  ASSUME TypeInv, NEW c \in Calls, CheckVersions(c), NEW n \in Nodes, NEW r \in Runtimes,
         Held(n, r), Undisputed(n, r)
  PROVE  Held(n, r)'
<1> DEFINE m == call[c].node  q == call[c].rt
           k == [call[c] EXCEPT !.seen = NewCall.seen]
<1>1. /\ Directed(k) /\ k.node = m /\ k.rt = q /\ m \in Nodes /\ q \in Runtimes
      /\ call[c].step = "expiry" /\ UNCHANGED destroyed /\ TypeOK
  BY CallTypes, KeyFacts DEF CheckVersions, Directed, Running, NewCall, CallRecord, TypeInv
<1> HIDE DEF m, q, k
<1>2. CASE Returns(c) /\ UNCHANGED <<plugins, service>>
  BY <1>1, <1>2, ReturnsFollows, HeldQuiet DEF Follows, CallsOK
<1>3. CASE Enters(c, k, plugins[m]) /\ UNCHANGED <<plugins, service>>
  <2>1. (\A d \in Calls \ {c} : call'[d] = call[d]) /\ call'[c].step \in {"done", "config"}
    BY <1>1, <1>3, EntersFollows DEF Follows, CallsOK
  <2> QED BY <1>1, <1>3, <2>1, HeldQuiet
<1>4. CASE /\ Contends(c, m, q) /\ Has(m, q)
           /\ Closes(c, k, Entry(m, q)) \/ (~Destroyable(Entry(m, q)) /\ Deleted(c, k) /\ UNCHANGED service)
  <2>1. <<n, r>> = <<m, q>> => Replacing(n, r) \subseteq {c} /\ ~destroyed[n]
    BY <1>1, <1>4, ContendsGrows DEF Undisputed
  <2>2. CASE Closes(c, k, Entry(m, q))
    BY <1>1, <1>4, <2>1, <2>2, ClosesHolds
  <2>3. CASE ~Destroyable(Entry(m, q)) /\ Deleted(c, k) /\ UNCHANGED service
    <3>1. <<n, r>> = <<m, q>> => \A i \in Ids : ~Alive(<<n, r, i>>)'
      <4> SUFFICES ASSUME <<n, r>> = <<m, q>> PROVE \A i \in Ids : ~Alive(<<n, r, i>>)
        BY <2>3 DEF Alive
      <4>1. ~Destroyable(Entry(n, r))
        BY <2>3
      <4> QED BY <1>1, <2>1, <4>1, LoneIsDead
    <3>2. \A i \in Ids : Alive(<<n, r, i>>)' =>
            /\ Alive(<<n, r, i>>)
            /\ service'[<<n, r, i>>].phase = "closing" => service[<<n, r, i>>].phase = "closing"
      BY <2>3 DEF Alive
    <3> QED BY <1>1, <2>3, <3>1, <3>2, DeletedHolds
  <2> QED BY <1>4, <2>2, <2>3
<1> QED BY <1>2, <1>3, <1>4 DEF CheckVersions, m, q, k

(* A step that does not touch the calls of the node.                       *)
LEMMA HeldElsewhere ==
  ASSUME NEW n \in Nodes, NEW r \in Runtimes, Held(n, r),
         \A d \in Calls : call[d].node = n \/ call'[d].node = n => call'[d] = call[d],
         plugins'[n][r] = plugins[n][r], destroyed'[n] = destroyed[n],
         \A i \in Ids : Alive(<<n, r, i>>)' =>
           /\ Alive(<<n, r, i>>)
           /\ service'[<<n, r, i>>].phase = "closing" => service[<<n, r, i>>].phase = "closing"
  PROVE  Held(n, r)'
<1>1. Replacing(n, r)' = Replacing(n, r) /\ \A d \in Replacing(n, r) : call'[d] = call[d]
  BY DEF Replacing, At
<1> QED BY <1>1 DEF Held

(* The services S end.                                                     *)
LEMMA PhasesDie ==
  ASSUME TypeOK, NEW S, service' = Ended(S), NEW n \in Nodes, NEW r \in Runtimes
  PROVE  \A i \in Ids : Alive(<<n, r, i>>)' =>
           /\ Alive(<<n, r, i>>) /\ <<n, r, i>> \notin S
           /\ service'[<<n, r, i>>].phase = "closing" => service[<<n, r, i>>].phase = "closing"
<1> SUFFICES ASSUME NEW i \in Ids, Alive(<<n, r, i>>)'
             PROVE  /\ Alive(<<n, r, i>>) /\ <<n, r, i>> \notin S
                    /\ service'[<<n, r, i>>].phase = "closing" => service[<<n, r, i>>].phase = "closing"
  OBVIOUS
<1>1. <<n, r, i>> \in Services
  BY DEF Services
<1> QED BY <1>1 DEF Ended, Service, Alive

LEMMA ClosedHolds ==
  ASSUME TypeInv, NEW c \in Calls, Closed(c), NEW n \in Nodes, NEW r \in Runtimes, Held(n, r)
  PROVE  Held(n, r)'
<1>1. /\ Directed(call[c]) /\ call[c].step = "closing" /\ UNCHANGED destroyed
      /\ service' = Ended(call[c].old) /\ Deleted(c, call[c])
  BY CallTypes DEF Closed, Directed, Running, TypeInv
<1>2. \A i \in Ids : Alive(<<n, r, i>>)' =>
        /\ Alive(<<n, r, i>>) /\ <<n, r, i>> \notin call[c].old
        /\ service'[<<n, r, i>>].phase = "closing" => service[<<n, r, i>>].phase = "closing"
  BY <1>1, PhasesDie DEF TypeInv
<1>3. <<n, r>> = <<call[c].node, call[c].rt>> => \A i \in Ids : ~Alive(<<n, r, i>>)'
  <2> SUFFICES ASSUME <<n, r>> = <<call[c].node, call[c].rt>>, NEW i \in Ids, Alive(<<n, r, i>>)' PROVE FALSE
    OBVIOUS
  <2>1. c \in Replacing(n, r)
    BY <1>1 DEF Replacing, At
  <2> QED BY <1>1, <1>2, <2>1 DEF Held
<1>4. At(c) = <<call[c].node, call[c].rt>>
  BY DEF At
<1> QED BY <1>1, <1>2, <1>3, <1>4, DeletedHolds

LEMMA ShutdownHolds ==
  ASSUME TypeInv, NEW c \in Calls, NEW m \in Nodes, Shutdown(c, m),
         NEW n \in Nodes, NEW r \in Runtimes, Held(n, r), Undisputed(n, r)
  PROVE  Held(n, r)'
<1> DEFINE mine == {s \in Loaded(m) : Destroyable(s)}
           k == [NewCall EXCEPT !.op = "shutdown", !.node = m, !.step = "ending", !.old = mine]
<1>1. CASE destroyed[m]
  <2>1. (\A d \in Calls \ {c} : call'[d] = call[d]) /\ call'[c].step = "done" /\ call[c].step = "new"
    BY <1>1, ReturnsFollows DEF Shutdown, Follows, CallsOK, Begins, TypeInv
  <2> QED BY <1>1, <2>1, HeldQuiet DEF Shutdown
<1>2. CASE ~destroyed[m]
  <2>1. /\ destroyed' = [destroyed EXCEPT ![m] = TRUE] /\ service' = InPhase(mine, "closing") /\ UNCHANGED plugins
        /\ Becomes(c, k) /\ Excused("overlap", {<<m, q>> : q \in {q \in Runtimes : Replacing(m, q) # {}}})
        /\ call[c].step = "new"
    BY <1>2 DEF Shutdown, Begins
  <2>2. /\ call'[c].step = "ending" /\ call'[c].old = mine /\ call'[c].node = m
        /\ \A d \in Calls \ {c} : call'[d] = call[d]
    <3>1. k.step = "ending" /\ k.old = mine /\ k.node = m
      BY DEF NewCall
    <3> HIDE DEF k
    <3> QED BY <2>1, <3>1, BecomesMoves DEF TypeInv
  <2>3. \A i \in Ids : /\ Alive(<<n, r, i>>)' => Alive(<<n, r, i>>)
                       /\ <<n, r, i>> \notin mine => service'[<<n, r, i>>] = service[<<n, r, i>>]
    <3> SUFFICES ASSUME NEW i \in Ids
                 PROVE  /\ Alive(<<n, r, i>>)' => Alive(<<n, r, i>>)
                        /\ <<n, r, i>> \notin mine => service'[<<n, r, i>>] = service[<<n, r, i>>]
      OBVIOUS
    <3>1. <<n, r, i>> \in Services
      BY DEF Services
    <3>2. <<n, r, i>> \in mine => Alive(<<n, r, i>>)
      BY DEF Alive, Destroyable
    <3> HIDE DEF mine
    <3> QED BY <2>1, <3>1, <3>2 DEF InPhase, Alive
  <2>4. CASE n = m
    <3>1. Replacing(n, r) = {}
      <4>1. {<<m, q>> : q \in {q \in Runtimes : Replacing(m, q) # {}}} \subseteq excuse'["overlap"]
        BY <2>1, ExcusedGrows DEF Excuses, TypeInv
      <4> QED BY <4>1, <2>4 DEF Undisputed
    <3>2. Replacing(n, r)' = {}
      BY <2>2, <3>1 DEF Replacing, At
    <3>3. ASSUME NEW i \in Ids, Alive(<<n, r, i>>) PROVE plugins[n][r] = i /\ <<n, r, i>> \in mine
      <4>1. plugins[n][r] = i /\ <<n, r, i>> \in Services
        BY <3>3 DEF Held, Services
      <4>2. service[<<n, r, i>>].phase # "closing"
        BY <1>2, <2>4, <3>1, <3>3 DEF Held
      <4>3. Destroyable(<<n, r, i>>)
        <5>1. service[<<n, r, i>>].phase \in Phases
          BY <4>1, RecordFacts DEF TypeInv, TypeOK
        <5> QED BY <3>3, <4>2, <5>1 DEF Alive, Destroyable, Phases
      <4> QED BY <4>1, <4>3, <2>4, KeyFacts DEF Loaded, Entry, Has
    <3>4. ASSUME NEW d \in Calls, call'[d].step = "ending", call'[d].node = n PROVE d = c
      BY <1>2, <2>2, <2>4, <3>4 DEF TypeInv, Destroying
    <3>5. destroyed'[n]
      BY <2>1, <2>4 DEF TypeInv, TypeOK
    <3> HIDE DEF mine
    <3> QED BY <2>1, <2>2, <2>3, <3>2, <3>3, <3>4, <3>5 DEF Held
  <2>5. CASE n # m
    <3>1. destroyed'[n] = destroyed[n] /\ plugins'[n][r] = plugins[n][r]
      BY <2>1, <2>5 DEF TypeInv, TypeOK
    <3>2. \A i \in Ids : <<n, r, i>> \notin mine
      BY <2>5 DEF Loaded, Entry
    <3>3. \A d \in Calls : call[d].node = n \/ call'[d].node = n => call'[d] = call[d]
      <4>1. call[c].node = None
        BY <2>1, CallTypes DEF CallOK, TypeInv
      <4> QED BY <4>1, <2>2, <2>5, NoneAssumption
    <3>4. \A i \in Ids : Alive(<<n, r, i>>)' =>
            /\ Alive(<<n, r, i>>)
            /\ service'[<<n, r, i>>].phase = "closing" => service[<<n, r, i>>].phase = "closing"
      <4> HIDE DEF mine
      <4> QED BY <2>3, <3>2
    <3> QED BY <3>1, <3>3, <3>4, HeldElsewhere
  <2> QED BY <2>4, <2>5
<1> QED BY <1>1, <1>2

LEMMA EndsHolds ==
  ASSUME TypeInv, NEW c \in Calls, ShutdownEnds(c), NEW n \in Nodes, NEW r \in Runtimes, Held(n, r)
  PROVE  Held(n, r)'
<1>1. /\ service' = Ended(call[c].old) /\ UNCHANGED destroyed /\ call[c].step = "ending"
      /\ plugins' = [plugins EXCEPT ![call[c].node] = [b \in Runtimes |-> None]]
  BY DEF ShutdownEnds
<1>2. call'[c].step = "done" /\ \A d \in Calls \ {c} : call'[d] = call[d]
  BY ReturnsFollows DEF ShutdownEnds, Follows, CallsOK, TypeInv
<1>3. \A i \in Ids : Alive(<<n, r, i>>)' =>
        /\ Alive(<<n, r, i>>) /\ <<n, r, i>> \notin call[c].old
        /\ service'[<<n, r, i>>].phase = "closing" => service[<<n, r, i>>].phase = "closing"
  BY <1>1, PhasesDie DEF TypeInv
<1>4. CASE n = call[c].node
  BY <1>1, <1>3, <1>4, HeldEmpty DEF Held
<1>5. CASE n # call[c].node
  <2>1. plugins'[n][r] = plugins[n][r]
    BY <1>1, <1>5 DEF TypeInv, TypeOK
  <2> QED BY <1>1, <1>2, <1>3, <2>1, HeldIf
<1> QED BY <1>4, <1>5

LEMMA RestartHolds ==
  ASSUME TypeInv, NEW c \in Calls, NEW m \in Nodes, Restart(c, m), NEW n \in Nodes, NEW r \in Runtimes, Held(n, r)
  PROVE  Held(n, r)'
<1> DEFINE S == {s \in Services : s[1] = m}
<1>1. service' = Ended(S)
  BY DEF Restart
<1>2. n = m => \A i \in Ids : Alive(<<n, r, i>>) => <<n, r, i>> \in S
  BY DEF Alive, Services
<1> HIDE DEF S
<1>3. \A i \in Ids : Alive(<<n, r, i>>)' =>
        /\ Alive(<<n, r, i>>) /\ <<n, r, i>> \notin S
        /\ service'[<<n, r, i>>].phase = "closing" => service[<<n, r, i>>].phase = "closing"
  BY <1>1, PhasesDie DEF TypeInv
<1>4. CASE n = m
  BY <1>2, <1>3, <1>4, HeldEmpty
<1>5. CASE n # m
  <2>1. plugins'[n][r] = plugins[n][r] /\ destroyed'[n] = destroyed[n]
    BY <1>5 DEF Restart, TypeInv, TypeOK
  <2>2. call[c].node = None
    BY CallTypes DEF Restart, Begins, CallOK, TypeInv
  <2>3. \A d \in Calls : call[d].node = n \/ call'[d].node = n => call'[d] = call[d]
    BY <1>5, <2>2, NoneAssumption DEF Restart, NewCall
  <2> QED BY <1>3, <2>1, <2>3, HeldElsewhere
<1> QED BY <1>4, <1>5

LEMMA HeldInit == Init => HeldInv
<1> SUFFICES ASSUME Init, NEW n \in Nodes, NEW r \in Runtimes PROVE Held(n, r)
  BY DEF HeldInv
<1>1. \A c \in Calls : call[c].step = "new"
  BY DEF Init, NewCall
<1>2. PICK loaded \in SUBSET Places :
        /\ plugins = [a \in Nodes |-> [b \in Runtimes |-> IF <<a, b>> \in loaded THEN 0 ELSE None]]
        /\ service = [s \in Services |->
             IF s[3] = 0 /\ <<s[1], s[2]>> \in loaded THEN Service("live", Default, Default)
                                                    ELSE Service("none", Default, 0)]
  BY DEF Init
<1>3. ASSUME NEW i \in Ids, Alive(<<n, r, i>>) PROVE plugins[n][r] = i /\ service[<<n, r, i>>].phase = "live"
  <2>1. <<n, r, i>> \in Services
    BY DEF Services
  <2>2. i = 0 /\ <<n, r>> \in loaded
    BY <1>2, <1>3, <2>1 DEF Alive, Service
  <2> QED BY <1>2, <2>1, <2>2 DEF Service
<1> QED BY <1>1, <1>3 DEF Held, Replacing

LEMMA HeldStep == TypeInv /\ OrphanInv /\ HeldInv /\ [Next]_vars => HeldInv'
<1> SUFFICES ASSUME TypeInv, OrphanInv, HeldInv, [Next]_vars,
                    NEW n \in Nodes, NEW r \in Runtimes, Not({"overlap"}, n, r)'
             PROVE  Held(n, r)'
  BY DEF HeldInv
<1>1. Undisputed(n, r) /\ Held(n, r)
  <2>1. excuse["overlap"] \subseteq excuse'["overlap"]
    BY ExcusesGrow DEF Lasting, Excuses
  <2> QED BY <2>1 DEF Undisputed, OrphanInv, HeldInv, Not
<1>2. CASE UNCHANGED vars
  BY <1>1, <1>2 DEF vars, Held, Replacing, At, Alive
<1>3. ASSUME NEW c \in Calls, Begin(c) PROVE Held(n, r)'
  <2>1. PICK m \in Nodes :
          \/ \E q \in Runtimes : Register(c, m, q) \/ Unregister(c, m, q) \/ Invoke(c, m, q)
          \/ \E q \in Runtimes : \E new \in Runtimes : Replace(c, m, q, new)
          \/ \E config \in Configs : UpdateConfig(c, m, config)
          \/ Shutdown(c, m) \/ Restart(c, m)
    BY <1>3 DEF Begin
  <2>2. CASE \E q \in Runtimes : Register(c, m, q) \/ Invoke(c, m, q)
    BY <2>2, <1>1, QuietHolds
  <2>3. CASE \E q \in Runtimes : Unregister(c, m, q) \/ \E new \in Runtimes : Replace(c, m, q, new)
    BY <2>3, <1>1, UnregisterHolds
  <2>4. CASE \E config \in Configs : UpdateConfig(c, m, config)
    BY <2>4, <1>1, QuietHolds
  <2>5. CASE Shutdown(c, m)
    BY <2>5, <1>1, ShutdownHolds
  <2>6. CASE Restart(c, m)
    BY <2>6, <1>1, RestartHolds
  <2> QED BY <2>1, <2>2, <2>3, <2>4, <2>5, <2>6
<1>4. ASSUME NEW c \in Calls, Continue(c) PROVE Held(n, r)'
  <2>1. Kept(n, r)
    BY <1>1 DEF Undisputed
  <2>2. CASE ReadConfig(c) \/ Publish(c) \/ Sync(c) \/ Save(c) \/ Apply(c) \/ Refresh(c) \/ RefreshFails(c)
    BY <1>1, <2>2, QuietHolds
  <2> QED BY <1>1, <1>4, <2>1, <2>2, LoadHolds, ClosedHolds, CheckHolds, EndsHolds DEF Continue
<1>5. ASSUME NEW c \in Calls, Fleets(c) PROVE Held(n, r)'
  BY <1>1, <1>5, QuietHolds
<1> QED BY <1>2, <1>3, <1>4, <1>5 DEF Next

-----------------------------------------------------------------------------
(* Counting pods                                                           *)

(* QuotaHolds at a node without excuse.                                    *)
Quota(n) == Cardinality(GrantedIn(Own(n))) + Cardinality(ReservedBy(Loading(n))) <= MaxPods

(* A service or a registration counts its configuration.                   *)
LEMMA BlockCounts ==
  ASSUME NEW x, NEW k \in Nat
  PROVE  IsFiniteSet({x} \X (1..k)) /\ Cardinality({x} \X (1..k)) = k
<1>1. IsFiniteSet({x}) /\ Cardinality({x}) = 1
  BY FS_Singleton
<1>2. IsFiniteSet(1..k) /\ Cardinality(1..k) = k
  BY FS_Interval
<1>3. IsFiniteSet({x} \X (1..k)) /\ Cardinality({x} \X (1..k)) = Cardinality({x}) * Cardinality(1..k)
  BY <1>1, <1>2, FS_Product
<1> QED BY <1>1, <1>2, <1>3

LEMMA ServicesAreFinite == IsFiniteSet(Services) /\ IsFiniteSet(Calls)
<1>1. IsFiniteSet(Calls)
  BY ManagerAssumption
<1>2. IsFiniteSet({0}) /\ IsFiniteSet(Ids)
  BY <1>1, FS_Singleton, FS_Union DEF Ids
<1>3. IsFiniteSet(Nodes \X Runtimes)
  BY FS_Product, ManagerAssumption
<1>4. IsFiniteSet((Nodes \X Runtimes) \X Ids)
  BY <1>2, <1>3, FS_Product
<1> DEFINE f == [p \in (Nodes \X Runtimes) \X Ids |-> <<p[1][1], p[1][2], p[2]>>]
<1>5. f \in Surjection((Nodes \X Runtimes) \X Ids, Services)
  <2>1. f \in [(Nodes \X Runtimes) \X Ids -> Services]
    BY DEF Services
  <2>2. ASSUME NEW s \in Services PROVE \E p \in (Nodes \X Runtimes) \X Ids : f[p] = s
    <3>1. <<<<s[1], s[2]>>, s[3]>> \in (Nodes \X Runtimes) \X Ids /\ s = <<s[1], s[2], s[3]>>
      BY DEF Services
    <3>2. f[<<<<s[1], s[2]>>, s[3]>>] = s
      BY <3>1
    <3> QED BY <3>1, <3>2
  <2> QED BY <2>1, <2>2 DEF Surjection
<1>6. IsFiniteSet(Services)
  <2> HIDE DEF f
  <2> QED BY <1>4, <1>5, FS_Surjection
<1> QED BY <1>1, <1>6

LEMMA BlocksAreFinite ==
  ASSUME NEW S, IsFiniteSet(S), NEW B, \A s \in S : IsFiniteSet(B[s])
  PROVE  IsFiniteSet(UNION {B[s] : s \in S})
<1> DEFINE f == [s \in S |-> B[s]]
           T == {B[s] : s \in S}
<1>1. f \in Surjection(S, T)
  BY DEF Surjection
<1>2. \A A \in T : IsFiniteSet(A)
  OBVIOUS
<1> HIDE DEF f
<1>3. IsFiniteSet(T)
  <2> HIDE DEF T
  <2> QED BY <1>1, FS_Surjection
<1> QED BY <1>2, <1>3, FS_UNION

LEMMA PodsAreFinite ==
  ASSUME TypeOK, NEW S \in SUBSET Services
  PROVE  /\ IsFiniteSet(PodsIn(S)) /\ Cardinality(PodsIn(S)) \in Nat
         /\ IsFiniteSet(GrantedIn(S)) /\ Cardinality(GrantedIn(S)) \in Nat
         /\ GrantedIn(S) \subseteq PodsIn(S)
<1>1. IsFiniteSet(S) /\ IsFiniteSet({})
  BY ServicesAreFinite, FS_Subset, FS_EmptySet
<1> DEFINE pods == [s \in S |-> PodsOf(s)]
<1>2. ASSUME NEW s \in S PROVE IsFiniteSet(PodsOf(s)) /\ Granted(s) \subseteq PodsOf(s)
  <2>1. service[s] \in ServiceRecord
    BY DEF TypeOK
  <2>2. service[s].pods \in Nat /\ service[s].granted \in Nat /\ service[s].granted <= service[s].pods
    BY <2>1, RecordFacts, ManagerAssumption
  <2>3. PICK k \in Nat, g \in Nat : k = service[s].pods /\ g = service[s].granted /\ g <= k
    BY <2>2
  <2>4. IsFiniteSet({s} \X (1..k))
    BY BlockCounts
  <2>5. 1..g \subseteq 1..k
    BY <2>3
  <2> QED BY <1>1, <2>3, <2>4, <2>5 DEF PodsOf, Granted
<1>3. \A s \in S : IsFiniteSet(pods[s])
  BY <1>2
<1>4. PodsIn(S) = UNION {pods[s] : s \in S}
  BY DEF PodsIn
<1>5. IsFiniteSet(PodsIn(S))
  <2> HIDE DEF pods
  <2> QED BY <1>1, <1>3, <1>4, BlocksAreFinite
<1>6. GrantedIn(S) \subseteq PodsIn(S)
  BY <1>2 DEF PodsIn, GrantedIn
<1> QED BY <1>5, <1>6, FS_Subset, FS_CardinalityType

LEMMA ReservationsAreFinite ==
  ASSUME TypeOK, NEW S \in SUBSET Calls, \A c \in S : call[c].step \in {"load", "publish"}
  PROVE  IsFiniteSet(ReservedBy(S)) /\ Cardinality(ReservedBy(S)) \in Nat
<1>1. IsFiniteSet(S)
  BY ServicesAreFinite, FS_Subset
<1> DEFINE pods == [c \in S |-> {c} \X (1..call[c].config)]
<1>2. ASSUME NEW c \in S PROVE call[c].config \in Nat
  <2>1. c \in Calls /\ call[c].step \in {"load", "publish"}
    OBVIOUS
  <2>2. call[c].config \in Configs
    BY <2>1, CallTypes
  <2>3. Configs \subseteq Nat
    BY ManagerAssumption
  <2> QED BY <2>2, <2>3
<1>3. \A c \in S : IsFiniteSet(pods[c])
  BY <1>2, BlockCounts
<1>4. ReservedBy(S) = UNION {pods[c] : c \in S}
  BY DEF ReservedBy
<1>5. IsFiniteSet(ReservedBy(S))
  <2> HIDE DEF pods
  <2> QED BY <1>1, <1>3, <1>4, BlocksAreFinite
<1> QED BY <1>5, FS_CardinalityType

LEMMA QuotaIsFinite ==
  ASSUME TypeOK, NEW n \in Nodes
  PROVE  /\ IsFiniteSet(GrantedIn(Own(n))) /\ Cardinality(GrantedIn(Own(n))) \in Nat
         /\ IsFiniteSet(PodsIn(Loaded(n))) /\ Cardinality(PodsIn(Loaded(n))) \in Nat
         /\ IsFiniteSet(ReservedBy(Loading(n))) /\ Cardinality(ReservedBy(Loading(n))) \in Nat
         /\ IsFiniteSet(ReservedBy(Reserving(n))) /\ Cardinality(ReservedBy(Reserving(n))) \in Nat
<1>1. Own(n) \in SUBSET Services /\ Loaded(n) \in SUBSET Services
  BY EntryIsService DEF Own, Loaded
<1>2. /\ Loading(n) \in SUBSET Calls /\ \A c \in Loading(n) : call[c].step \in {"load", "publish"}
      /\ Reserving(n) \in SUBSET Calls /\ \A c \in Reserving(n) : call[c].step \in {"load", "publish"}
  BY DEF Loading, Reserving
<1> QED BY <1>1, <1>2, PodsAreFinite, ReservationsAreFinite

LEMMA ServicePods ==
  ASSUME TypeOK
  PROVE  \A s \in Services : service[s].pods \in Nat /\ service[s].granted \in Nat
<1> SUFFICES ASSUME NEW s \in Services PROVE service[s].pods \in Nat /\ service[s].granted \in Nat
  OBVIOUS
<1>1. service[s] \in ServiceRecord
  BY DEF TypeOK
<1> QED BY <1>1, RecordFacts, ManagerAssumption

(* Nothing is started, and nothing more is about to be.                    *)
LEMMA QuotaShrinks ==
  ASSUME TypeOK, NEW n \in Nodes, Quota(n),
         GrantedIn(Own(n))' \subseteq GrantedIn(Own(n)),
         ReservedBy(Loading(n))' \subseteq ReservedBy(Loading(n))
  PROVE  Quota(n)'
<1>1. Cardinality(GrantedIn(Own(n)))' <= Cardinality(GrantedIn(Own(n))) /\ Cardinality(GrantedIn(Own(n)))' \in Nat
  BY QuotaIsFinite, FS_Subset, FS_CardinalityType
<1>2. Cardinality(ReservedBy(Loading(n)))' <= Cardinality(ReservedBy(Loading(n)))
      /\ Cardinality(ReservedBy(Loading(n)))' \in Nat
  BY QuotaIsFinite, FS_Subset, FS_CardinalityType
<1>3. Cardinality(GrantedIn(Own(n))) \in Nat /\ Cardinality(ReservedBy(Loading(n))) \in Nat /\ MaxPods \in Nat
  BY QuotaIsFinite, ManagerAssumption
<1> QED BY <1>1, <1>2, <1>3 DEF Quota

LEMMA ReservationsShrink ==
  ASSUME NEW n \in Nodes,
         \A d \in Calls : call'[d].step = "load" /\ call'[d].node = n => call'[d] = call[d]
  PROVE  ReservedBy(Loading(n))' \subseteq ReservedBy(Loading(n))
<1>1. \A d \in Loading(n)' : d \in Loading(n) /\ call'[d].config = call[d].config
  BY DEF Loading, Reserving
<1> QED BY <1>1 DEF ReservedBy

LEMMA PodsShrink ==
  ASSUME TypeOK, TypeOK', NEW n \in Nodes,
         \A s \in Own(n) : Alive(s)' => Alive(s) /\ service'[s].granted <= service[s].granted
  PROVE  GrantedIn(Own(n))' \subseteq GrantedIn(Own(n))
<1> SUFFICES ASSUME NEW s \in Own(n) PROVE Granted(s)' \subseteq Granted(s)
  BY DEF GrantedIn, Own
<1>1. service[s].granted \in Nat /\ service'[s].granted \in Nat
  <2>1. s \in Services
    BY DEF Own
  <2>2. service[s] \in ServiceRecord /\ service'[s] \in ServiceRecord
    BY <2>1 DEF TypeOK
  <2> QED BY <2>2, RecordFacts, ManagerAssumption
<1>2. CASE ~Alive(s)'
  BY <1>2 DEF Granted
<1>3. CASE Alive(s)'
  <2>1. PICK a \in Nat, b \in Nat : a = service'[s].granted /\ b = service[s].granted /\ a <= b
    BY <1>1, <1>3
  <2>2. 1..a \subseteq 1..b
    BY <2>1
  <2> QED BY <1>3, <2>1, <2>2 DEF Granted
<1> QED BY <1>2, <1>3

LEMMA QuotaIf ==
  ASSUME TypeOK, TypeOK', NEW n \in Nodes, Quota(n),
         \A d \in Calls : call'[d].step = "load" /\ call'[d].node = n => call'[d] = call[d],
         \A s \in Own(n) : Alive(s)' => Alive(s) /\ service'[s].granted <= service[s].granted
  PROVE  Quota(n)'
BY QuotaShrinks, ReservationsShrink, PodsShrink

(* Services are told to close, or end.                                     *)
LEMMA PhasesGrantNothing ==
  ASSUME TypeOK, NEW S, NEW phase,
         \/ service' = Ended(S)
         \/ service' = InPhase(S, phase) /\ \A s \in S \cap Services : Destroyable(s)
         \/ UNCHANGED service
  PROVE  \A s \in Services : Alive(s)' => Alive(s) /\ service'[s].granted <= service[s].granted
<1> SUFFICES ASSUME NEW s \in Services, Alive(s)'
             PROVE  Alive(s) /\ service'[s].granted <= service[s].granted
  OBVIOUS
<1>1. service[s].granted \in Nat
  BY ServicePods
<1>2. service'[s].granted = service[s].granted /\ Alive(s)
  <2>1. CASE service' = Ended(S)
    BY <2>1 DEF Ended, Service, Alive
  <2>2. CASE service' = InPhase(S, phase) /\ \A x \in S \cap Services : Destroyable(x)
    <3>1. service[s] \in ServiceRecord
      BY DEF TypeOK
    <3> QED BY <2>2, <3>1 DEF InPhase, Alive, Destroyable, ServiceRecord
  <2>3. CASE UNCHANGED service
    BY <2>3 DEF Alive
  <2> QED BY <2>1, <2>2, <2>3
<1> QED BY <1>1, <1>2

(* Where each service that has pods is in plugins, the quota check counts  *)
(* every pod of the node.                                                  *)
LEMMA OwnAreLoaded ==
  ASSUME TypeOK, NEW n \in Nodes, \A r \in Runtimes : Held(n, r)
  PROVE  Cardinality(GrantedIn(Own(n))) <= Cardinality(PodsIn(Loaded(n)))
<1>1. ASSUME NEW s \in Own(n), Alive(s) PROVE s \in Loaded(n)
  <2>1. s[2] \in Runtimes /\ s[3] \in Ids /\ s = <<n, s[2], s[3]>>
    BY DEF Own, Services
  <2>2. plugins[n][s[2]] = s[3]
    BY <1>1, <2>1 DEF Held
  <2> QED BY <2>1, <2>2, KeyFacts DEF Loaded, Entry, Has
<1>2. GrantedIn(Own(n)) \subseteq PodsIn(Loaded(n))
  <2> SUFFICES ASSUME NEW s \in Own(n) PROVE Granted(s) \subseteq PodsIn(Loaded(n))
    BY DEF GrantedIn
  <2>1. CASE ~Alive(s)
    BY <2>1 DEF Granted
  <2>2. CASE Alive(s)
    <3>1. s \in Loaded(n) /\ {s} \in SUBSET Services
      BY <1>1, <2>2 DEF Own
    <3>2. GrantedIn({s}) \subseteq PodsIn({s})
      BY <3>1, PodsAreFinite
    <3>3. Granted(s) \subseteq PodsOf(s)
      BY <3>2 DEF GrantedIn, PodsIn
    <3> QED BY <3>1, <3>3 DEF PodsIn
  <2> QED BY <2>1, <2>2
<1> QED BY <1>2, QuotaIsFinite, FS_Subset

LEMMA QuietQuota ==
  ASSUME TypeInv, TypeInv', NEW c \in Calls, NEW n \in Nodes, Quota(n),
         \A d \in Calls \ {c} : call'[d] = call[d], call'[c].step # "load",
         NEW S, NEW phase,
         \/ service' = Ended(S)
         \/ service' = InPhase(S, phase) /\ \A s \in S \cap Services : Destroyable(s)
         \/ UNCHANGED service
  PROVE  Quota(n)'
<1>1. \A s \in Own(n) : Alive(s)' => Alive(s) /\ service'[s].granted <= service[s].granted
  BY PhasesGrantNothing DEF Own, TypeInv
<1> QED BY <1>1, QuotaIf DEF TypeInv

(* The quota check: what is loaded, what is reserved and what c would add. *)
LEMMA ReadConfigQuota ==
  ASSUME TypeInv, TypeInv', NEW c \in Calls, ReadConfig(c), NEW n \in Nodes, Quota(n),
         \A r \in Runtimes : Held(n, r)
  PROVE  Quota(n)'
<1> USE DEF TypeInv
<1>1. UNCHANGED service /\ (\A d \in Calls \ {c} : call'[d] = call[d])
  BY ReadConfigMoves DEF ReadConfig, Follows, CallsOK
<1>2. CASE call'[c].step # "load" \/ call[c].node # n
  <2>1. call'[c].step = "load" => call'[c].node # n
    BY <1>2, ReadConfigMoves DEF Follows
  <2>2. \A d \in Calls : call'[d].step = "load" /\ call'[d].node = n => call'[d] = call[d]
    BY <1>1, <2>1
  <2>3. \A s \in Own(n) : Alive(s)' => Alive(s) /\ service'[s].granted <= service[s].granted
    <3>1. \A s \in Own(n) : service[s].granted \in Nat
      BY ServicePods DEF Own
    <3> QED BY <1>1, <3>1 DEF Alive
  <2> QED BY <2>2, <2>3, QuotaIf
<1>3. CASE call'[c].step = "load" /\ call[c].node = n
  <2>1. /\ call[c].step = "config" /\ call'[c] = [call[c] EXCEPT !.step = "load", !.config = stored]
        /\ ~(TotalPodsIncludingReservations(n) + stored > MaxPods)
    <3>1. ~Returns(c)
      BY <1>3, ReturnsFollows
    <3> QED BY <1>3, <3>1, BecomesMoves DEF ReadConfig
  <2>2. call'[c].config = stored /\ stored \in Nat
    BY <2>1, CallTypes, ManagerAssumption DEF CallRecord, TypeOK
  <2> DEFINE R == {c} \X (1..stored)
  <2>3. ReservedBy(Loading(n))' \subseteq ReservedBy(Reserving(n)) \cup R
    <3>1. \A d \in Loading(n)' : d = c \/ (d \in Reserving(n) /\ call'[d].config = call[d].config)
      BY <1>1 DEF Loading, Reserving
    <3> QED BY <2>2, <3>1 DEF ReservedBy
  <2>4. IsFiniteSet(R) /\ Cardinality(R) = stored
    BY <2>2, BlockCounts
  <2> HIDE DEF R
  <2>5. /\ IsFiniteSet(ReservedBy(Reserving(n)) \cup R)
        /\ Cardinality(ReservedBy(Reserving(n)) \cup R) <= Cardinality(ReservedBy(Reserving(n))) + stored
    <3>1. Cardinality(ReservedBy(Reserving(n)) \cap R) \in Nat
      BY QuotaIsFinite, FS_Intersection, FS_CardinalityType
    <3>2. IsFiniteSet(ReservedBy(Reserving(n))) /\ Cardinality(ReservedBy(Reserving(n))) \in Nat
      BY QuotaIsFinite
    <3> DEFINE A == ReservedBy(Reserving(n))
    <3> HIDE DEF TypeInv, A
    <3>3. IsFiniteSet(A \cup R) /\ Cardinality(A \cup R) = Cardinality(A) + Cardinality(R) - Cardinality(A \cap R)
      BY <2>4, <3>2, FS_Union DEF A
    <3>4. Cardinality(A \cap R) \in Nat /\ Cardinality(A) \in Nat
      BY <3>1, <3>2 DEF A
    <3>5. Cardinality(A \cup R) <= Cardinality(A) + stored
      BY <2>2, <2>4, <3>3, <3>4
    <3> QED BY <3>3, <3>5 DEF A
  <2>6. /\ Cardinality(ReservedBy(Loading(n)))' <= Cardinality(ReservedBy(Reserving(n)) \cup R)
        /\ Cardinality(ReservedBy(Loading(n)))' \in Nat /\ Cardinality(ReservedBy(Reserving(n)) \cup R) \in Nat
    BY <2>3, <2>5, FS_Subset, FS_CardinalityType
  <2>7. GrantedIn(Own(n))' = GrantedIn(Own(n))
    BY <1>1 DEF GrantedIn, Granted, Alive, Own
  <2>8. Cardinality(GrantedIn(Own(n))) <= Cardinality(PodsIn(Loaded(n)))
    BY OwnAreLoaded
  <2>9. Cardinality(PodsIn(Loaded(n))) + Cardinality(ReservedBy(Reserving(n))) + stored <= MaxPods
    <3>1. /\ Cardinality(PodsIn(Loaded(n))) \in Nat /\ Cardinality(ReservedBy(Reserving(n))) \in Nat
          /\ MaxPods \in Nat
      BY QuotaIsFinite, ManagerAssumption
    <3> QED BY <2>1, <2>2, <3>1 DEF TotalPodsIncludingReservations, TotalPods, Reserved
  <2> QED
    <3>1. /\ Cardinality(GrantedIn(Own(n))) \in Nat /\ Cardinality(PodsIn(Loaded(n))) \in Nat
          /\ Cardinality(ReservedBy(Reserving(n))) \in Nat /\ MaxPods \in Nat
      BY QuotaIsFinite, ManagerAssumption
    <3> HIDE DEF TypeInv
    <3> QED BY <2>2, <2>5, <2>6, <2>7, <2>8, <2>9, <3>1 DEF Quota
<1> QED BY <1>2, <1>3

(* The pods that c reserved become those of its service.                   *)
LEMMA LoadQuota ==
  ASSUME TypeInv, TypeInv', NEW c \in Calls, Load(c), NEW n \in Nodes, Quota(n)
  PROVE  Quota(n)'
<1> DEFINE m == call[c].node  q == call[c].rt  k == call[c].config
<1> USE DEF TypeInv
<1>1. m \in Nodes /\ q \in Runtimes /\ call[c].step = "load" /\ k \in Configs /\ k \in Nat
  BY CallTypes, ManagerAssumption DEF Load, Running
<1>2. CASE call'[c].step = "done" /\ UNCHANGED service
  <2>1. (\A d \in Calls \ {c} : call'[d] = call[d]) /\ call'[c].step # "load"
    BY <1>2, LoadMoves DEF Follows, CallsOK
  <2> HIDE DEF TypeInv
  <2> QED BY <1>2, <2>1, QuietQuota
<1>3. CASE /\ call'[c].step = "publish"
           /\ \A s \in Services : service'[s] = IF s = <<m, q, c>> THEN Service("live", k, k) ELSE service[s]
  <2> DEFINE s0 == <<m, q, c>>
  <2>1. (\A d \in Calls \ {c} : call'[d] = call[d]) /\ call'[c].step = "publish"
    BY <1>3, LoadMoves DEF Follows, CallsOK
  <2>2. s0 \in Services /\ service'[s0] = Service("live", k, k)
        /\ \A s \in Services \ {s0} : service'[s] = service[s]
    <3>1. s0 \in Services
      BY <1>1, KeyFacts DEF Services
    <3> QED BY <1>3, <3>1
  <2>3. CASE n # m
    <3>1. \A d \in Calls : call'[d].step = "load" /\ call'[d].node = n => call'[d] = call[d]
      BY <2>1
    <3>2. \A s \in Own(n) : Alive(s)' => Alive(s) /\ service'[s].granted <= service[s].granted
      <4>1. \A s \in Own(n) : service[s].granted \in Nat /\ service'[s] = service[s]
        <5> SUFFICES ASSUME NEW s \in Own(n) PROVE service[s].granted \in Nat /\ service'[s] = service[s]
          OBVIOUS
        <5>1. s \in Services /\ s # s0
          BY <2>3 DEF Own
        <5> QED BY <2>2, <5>1, ServicePods
      <4> QED BY <4>1 DEF Alive
    <3> QED BY <3>1, <3>2, QuotaIf
  <2>4. CASE n = m
    <3> DEFINE P == {s0} \X (1..k)
               R == {c} \X (1..k)
               L == ReservedBy(Loading(n))
               A == GrantedIn(Own(n))
    <3>1. GrantedIn(Own(n))' \subseteq A \cup P
      <4>1. \A s \in Own(n) : s = s0 \/ service'[s] = service[s]
        BY <2>2 DEF Own
      <4>2. ASSUME NEW s \in Own(n), s = s0 PROVE Granted(s)' \subseteq P
        <5>1. service'[s].granted = k
          BY <2>2, <4>2 DEF Service
        <5> QED BY <4>2, <5>1 DEF Granted
      <4>3. ASSUME NEW s \in Own(n) PROVE Granted(s)' \subseteq Granted(s) \cup P
        <5>1. s # s0 => Granted(s)' = Granted(s)
          BY <4>1 DEF Granted, Alive
        <5> HIDE DEF P
        <5> QED BY <4>2, <5>1
      <4> HIDE DEF P
      <4> QED BY <4>3 DEF GrantedIn, Own
    <3>2. ReservedBy(Loading(n))' \subseteq L \ R
      <4>1. \A d \in Loading(n)' : d # c /\ d \in Loading(n) /\ call'[d].config = call[d].config
        BY <2>1 DEF Loading, Reserving
      <4> QED BY <4>1 DEF ReservedBy
    <3>3. R \subseteq L
      <4>1. c \in Loading(n)
        BY <1>1, <2>4 DEF Loading, Reserving
      <4> QED BY <4>1 DEF ReservedBy
    <3>4. IsFiniteSet(P) /\ Cardinality(P) = k /\ IsFiniteSet(R) /\ Cardinality(R) = k
      BY <1>1, BlockCounts
    <3>5. /\ IsFiniteSet(A) /\ Cardinality(A) \in Nat /\ IsFiniteSet(L) /\ Cardinality(L) \in Nat
          /\ MaxPods \in Nat
      BY QuotaIsFinite, ManagerAssumption
    <3>6. Cardinality(A) + Cardinality(L) <= MaxPods
      BY DEF Quota
    <3> HIDE DEF P, R, L, A, TypeInv, k
    <3>7. IsFiniteSet(A \cup P) /\ Cardinality(A \cup P) <= Cardinality(A) + k
      <4>1. Cardinality(A \cap P) \in Nat
        BY <3>5, FS_Intersection, FS_CardinalityType
      <4>2. /\ IsFiniteSet(A \cup P)
            /\ Cardinality(A \cup P) = Cardinality(A) + Cardinality(P) - Cardinality(A \cap P)
        BY <3>4, <3>5, FS_Union
      <4> QED BY <1>1, <3>4, <3>5, <4>1, <4>2
    <3>8. IsFiniteSet(L \ R) /\ Cardinality(L \ R) = Cardinality(L) - k
      <4>1. L \cap R = R
        BY <3>3
      <4>2. IsFiniteSet(L \ R) /\ Cardinality(L \ R) = Cardinality(L) - Cardinality(L \cap R)
        BY <3>5, FS_Difference
      <4> QED BY <3>4, <4>1, <4>2
    <3>9. /\ Cardinality(GrantedIn(Own(n)))' <= Cardinality(A \cup P) /\ Cardinality(GrantedIn(Own(n)))' \in Nat
          /\ Cardinality(ReservedBy(Loading(n)))' <= Cardinality(L \ R)
          /\ Cardinality(ReservedBy(Loading(n)))' \in Nat
          /\ Cardinality(A \cup P) \in Nat /\ Cardinality(L \ R) \in Nat
      BY <3>1, <3>2, <3>7, <3>8, FS_Subset, FS_CardinalityType
    <3> QED BY <1>1, <3>5, <3>6, <3>7, <3>8, <3>9 DEF Quota
  <2> QED BY <2>3, <2>4
<1> QED BY <1>2, <1>3, LoadMoves

(* Updates, and the pods that services start or lose, grant nothing.       *)
LEMMA ApplyQuota ==
  ASSUME TypeInv, TypeInv', NEW c \in Calls, Apply(c), NEW n \in Nodes, Quota(n)
  PROVE  Quota(n)'
<1>1. (\A d \in Calls \ {c} : call'[d] = call[d]) /\ call'[c].step = "refresh"
  BY ApplyMoves DEF Follows, CallsOK
<1>2. \A d \in Calls : call'[d].step = "load" /\ call'[d].node = n => call'[d] = call[d]
  BY <1>1
<1>3. \A s \in Own(n) : Alive(s)' => Alive(s) /\ service'[s].granted <= service[s].granted
  BY ApplyMoves DEF Own, Alive
<1> QED BY <1>2, <1>3, QuotaIf DEF TypeInv

LEMMA FleetsQuota ==
  ASSUME TypeInv, TypeInv', NEW c \in Calls, Fleets(c), NEW n \in Nodes, Quota(n)
  PROVE  Quota(n)'
<1>1. (\A d \in Calls \ {c} : call'[d] = call[d]) /\ call'[c].step = "done"
  BY FleetsChange, ReturnsFollows DEF Follows, CallsOK, TypeInv
<1>2. \A d \in Calls : call'[d].step = "load" /\ call'[d].node = n => call'[d] = call[d]
  BY <1>1
<1>3. \A s \in Own(n) : Alive(s)' => Alive(s) /\ service'[s].granted <= service[s].granted
  BY FleetsChange DEF Own, Alive
<1> QED BY <1>2, <1>3, QuotaIf DEF TypeInv

LEMMA UnregisterQuota ==
  ASSUME TypeInv, TypeInv', NEW c \in Calls, NEW m \in Nodes, NEW q \in Runtimes,
         Unregister(c, m, q) \/ \E new \in Runtimes : Replace(c, m, q, new),
         NEW n \in Nodes, Quota(n)
  PROVE  Quota(n)'
<1> DEFINE k == [NewCall EXCEPT !.op = "unregister", !.node = m, !.rt = q]
           s == Entry(m, q)
<1>1. Directed(k)
  <2>1. k.op \in Ops
    BY DEF Ops, NewCall
  <2> QED BY <2>1, BegunIsDirected DEF NewCall, Ops
<1> HIDE DEF k, s
<1>2. CASE Returns(c) /\ (UNCHANGED service \/ (Destroyable(s) /\ service' = InPhase({s}, "misled")))
  <2>1. (\A d \in Calls \ {c} : call'[d] = call[d]) /\ call'[c].step # "load"
    BY <1>2, ReturnsFollows DEF Follows, CallsOK, TypeInv
  <2>2. CASE UNCHANGED service
    BY <2>1, <2>2, QuietQuota
  <2>3. CASE Destroyable(s) /\ service' = InPhase({s}, "misled")
    <3>1. \A x \in {s} \cap Services : Destroyable(x)
      BY <2>3
    <3> QED BY <2>1, <2>3, <3>1, QuietQuota
  <2> QED BY <1>2, <2>2, <2>3
<1>3. CASE Has(m, q) /\ Closes(c, k, s)
  <2>1. s \in Services
    BY <1>3, EntryIsService DEF TypeInv, s
  <2>2. /\ (\A d \in Calls \ {c} : call'[d] = call[d]) /\ call'[c].step # "load"
        /\ service' = InPhase({s}, "closing") /\ Destroyable(s)
    BY <1>1, <1>3, <2>1, ClosesFollows DEF Follows, CallsOK, TypeInv
  <2>3. \A x \in {s} \cap Services : Destroyable(x)
    BY <2>2
  <2> QED BY <2>2, <2>3, QuietQuota
<1>4. CASE Deleted(c, k) /\ UNCHANGED service
  <2>1. (\A d \in Calls \ {c} : call'[d] = call[d]) /\ call'[c].step # "load"
    BY <1>1, <1>4, DeletedFollows DEF Follows, CallsOK, TypeInv
  <2> QED BY <1>4, <2>1, QuietQuota
<1> QED BY <1>2, <1>3, <1>4 DEF Unregister, Replace, k, s

LEMMA CheckQuota ==
  ASSUME TypeInv, TypeInv', NEW c \in Calls, CheckVersions(c), NEW n \in Nodes, Quota(n)
  PROVE  Quota(n)'
<1> DEFINE m == call[c].node  q == call[c].rt
           k == [call[c] EXCEPT !.seen = NewCall.seen]
           s == Entry(m, q)
<1>1. Directed(k) /\ m \in Nodes /\ q \in Runtimes
  BY CallTypes, KeyFacts DEF CheckVersions, Directed, Running, NewCall, CallRecord, TypeInv
<1> HIDE DEF m, q, k, s
<1>2. CASE (Returns(c) \/ Enters(c, k, plugins[m]) \/ Deleted(c, k)) /\ UNCHANGED service
  <2>1. (\A d \in Calls \ {c} : call'[d] = call[d]) /\ call'[c].step # "load"
    BY <1>1, <1>2, ReturnsFollows, EntersFollows, DeletedFollows DEF Follows, CallsOK, TypeInv
  <2> QED BY <1>2, <2>1, QuietQuota
<1>3. CASE Has(m, q) /\ Closes(c, k, s)
  <2>1. s \in Services
    BY <1>1, <1>3, EntryIsService DEF TypeInv, s
  <2>2. /\ (\A d \in Calls \ {c} : call'[d] = call[d]) /\ call'[c].step # "load"
        /\ service' = InPhase({s}, "closing") /\ Destroyable(s)
    BY <1>1, <1>3, <2>1, ClosesFollows DEF Follows, CallsOK, TypeInv
  <2>3. \A x \in {s} \cap Services : Destroyable(x)
    BY <2>2
  <2> QED BY <2>2, <2>3, QuietQuota
<1> QED BY <1>2, <1>3 DEF CheckVersions, m, q, k, s

LEMMA ShutdownQuota ==
  ASSUME TypeInv, TypeInv', NEW c \in Calls, NEW m \in Nodes, Shutdown(c, m), NEW n \in Nodes, Quota(n)
  PROVE  Quota(n)'
<1> DEFINE mine == {s \in Loaded(m) : Destroyable(s)}
           k == [NewCall EXCEPT !.op = "shutdown", !.node = m, !.step = "ending", !.old = mine]
<1>1. UNCHANGED service \/ service' = InPhase(mine, "closing")
  BY DEF Shutdown
<1>2. \A s \in mine \cap Services : Destroyable(s)
  OBVIOUS
<1>3. (\A d \in Calls \ {c} : call'[d] = call[d]) /\ call'[c].step # "load"
  <2>1. k.step = "ending"
    BY DEF NewCall
  <2>2. Returns(c) \/ Becomes(c, k)
    BY DEF Shutdown
  <2> HIDE DEF k
  <2> QED BY <2>1, <2>2, BecomesMoves, ReturnsFollows DEF Follows, CallsOK, TypeInv
<1> HIDE DEF mine
<1> QED BY <1>1, <1>2, <1>3, QuietQuota

LEMMA EndsQuota ==
  ASSUME TypeInv, TypeInv', NEW c \in Calls, Closed(c) \/ ShutdownEnds(c), NEW n \in Nodes, Quota(n)
  PROVE  Quota(n)'
<1>1. service' = Ended(call[c].old)
  BY DEF Closed, ShutdownEnds
<1>2. (\A d \in Calls \ {c} : call'[d] = call[d]) /\ call'[c].step # "load"
  <2>1. CASE Closed(c)
    <3>1. Directed(call[c])
      BY <2>1, CallTypes DEF Closed, Directed, Running, TypeInv
    <3> QED BY <2>1, <3>1, DeletedFollows DEF Closed, Follows, CallsOK, TypeInv
  <2>2. CASE ShutdownEnds(c)
    BY <2>2, ReturnsFollows DEF ShutdownEnds, Follows, CallsOK, TypeInv
  <2> QED BY <2>1, <2>2
<1> QED BY <1>1, <1>2, QuietQuota

LEMMA RestartQuota ==
  ASSUME TypeInv, TypeInv', NEW c \in Calls, NEW m \in Nodes, Restart(c, m), NEW n \in Nodes, Quota(n)
  PROVE  Quota(n)'
<1> DEFINE S == {s \in Services : s[1] = m}
<1>1. service' = Ended(S)
  BY DEF Restart
<1> HIDE DEF S
<1>2. \A s \in Own(n) : Alive(s)' => Alive(s) /\ service'[s].granted <= service[s].granted
  BY <1>1, PhasesGrantNothing DEF Own, TypeInv
<1>3. \A d \in Calls : call'[d].step = "load" /\ call'[d].node = n => call'[d] = call[d]
  BY DEF Restart, NewCall
<1> QED BY <1>2, <1>3, QuotaIf DEF TypeInv

(* Steps that leave every service alone.                                   *)
LEMMA IdleQuota ==
  ASSUME TypeInv, TypeInv', NEW c \in Calls, NEW n \in Nodes, Quota(n),
         \/ Publish(c) \/ Sync(c) \/ Save(c) \/ Refresh(c) \/ RefreshFails(c)
         \/ \E m \in Nodes, q \in Runtimes : Register(c, m, q) \/ Invoke(c, m, q)
         \/ \E m \in Nodes, config \in Configs : UpdateConfig(c, m, config)
  PROVE  Quota(n)'
<1>1. UNCHANGED service
  <2>1. Publish(c) \/ Sync(c) \/ Save(c) \/ Refresh(c) \/ RefreshFails(c) => UNCHANGED service
    BY DEF Publish, Sync, Save, Refresh, RefreshFails
  <2> QED BY <2>1 DEF Register, Invoke, UpdateConfig
<1>2. (\A d \in Calls \ {c} : call'[d] = call[d]) /\ call'[c].step # "load"
  <2>1. CASE Publish(c) \/ Sync(c) \/ Save(c) \/ Refresh(c) \/ RefreshFails(c)
    BY <2>1, PublishMoves, SaveMoves, ReturnsFollows DEF Sync, Refresh, RefreshFails, Follows, CallsOK, TypeInv
  <2>2. ASSUME NEW m \in Nodes, NEW q \in Runtimes, Register(c, m, q) \/ Invoke(c, m, q)
        PROVE  (\A d \in Calls \ {c} : call'[d] = call[d]) /\ call'[c].step # "load"
    BY <2>2, RegisterMoves, InvokeMoves DEF CallsOK
  <2>3. ASSUME NEW m \in Nodes, NEW config \in Configs, UpdateConfig(c, m, config)
        PROVE  (\A d \in Calls \ {c} : call'[d] = call[d]) /\ call'[c].step # "load"
    BY <2>3, UpdateMoves DEF CallsOK
  <2> QED BY <2>1, <2>2, <2>3
<1> QED BY <1>1, <1>2, QuietQuota

LEMMA QuotaInit == Init => QuotaHolds
<1> SUFFICES ASSUME Init, NEW n \in Nodes PROVE Quota(n)
  BY DEF QuotaHolds, Quota
<1>1. TypeOK /\ \A r \in Runtimes : Held(n, r)
  <2>1. \A r \in Runtimes : Not({"overlap"}, n, r)
    BY DEF Init, Not, Excuses
  <2> QED BY <2>1, TypeInit, HeldInit DEF HeldInv, TypeInv
<1>2. TotalPods(n) <= MaxPods
  BY DEF Init
<1>3. Cardinality(GrantedIn(Own(n))) <= TotalPods(n)
  BY <1>1, OwnAreLoaded DEF TotalPods
<1>4. ReservedBy(Loading(n)) = {}
  <2>1. Loading(n) = {}
    BY DEF Init, Loading, Reserving, NewCall
  <2> QED BY <2>1 DEF ReservedBy
<1>5. Cardinality(ReservedBy(Loading(n))) = 0
  BY <1>4, FS_EmptySet
<1>6. Cardinality(GrantedIn(Own(n))) \in Nat /\ TotalPods(n) \in Nat /\ MaxPods \in Nat
  BY <1>1, QuotaIsFinite, ManagerAssumption DEF TotalPods
<1> QED BY <1>2, <1>3, <1>5, <1>6 DEF Quota

LEMMA QuotaStep == TypeInv /\ HeldInv /\ QuotaHolds /\ [Next]_vars /\ TypeInv' => QuotaHolds'
<1> SUFFICES ASSUME TypeInv, HeldInv, QuotaHolds, [Next]_vars, TypeInv',
                    NEW n \in Nodes, \A r \in Runtimes : Not({"overlap"}, n, r)'
             PROVE  Quota(n)'
  BY DEF QuotaHolds, Quota
<1>1. \A r \in Runtimes : Not({"overlap"}, n, r)
  <2>1. excuse["overlap"] \subseteq excuse'["overlap"]
    BY ExcusesGrow DEF Lasting, Excuses
  <2> QED BY <2>1 DEF Not
<1>2. Quota(n) /\ \A r \in Runtimes : Held(n, r)
  BY <1>1 DEF QuotaHolds, Quota, HeldInv
<1>3. CASE UNCHANGED vars
  BY <1>2, <1>3 DEF vars, Quota, GrantedIn, Granted, Alive, Own, ReservedBy, Loading, Reserving
<1>4. ASSUME NEW c \in Calls, Begin(c) PROVE Quota(n)'
  <2>1. PICK m \in Nodes :
          \/ \E q \in Runtimes : Register(c, m, q) \/ Unregister(c, m, q) \/ Invoke(c, m, q)
          \/ \E q \in Runtimes : \E new \in Runtimes : Replace(c, m, q, new)
          \/ \E config \in Configs : UpdateConfig(c, m, config)
          \/ Shutdown(c, m) \/ Restart(c, m)
    BY <1>4 DEF Begin
  <2>2. CASE \E q \in Runtimes : Register(c, m, q) \/ Invoke(c, m, q)
    BY <2>2, <1>2, IdleQuota
  <2>3. CASE \E q \in Runtimes : Unregister(c, m, q) \/ \E new \in Runtimes : Replace(c, m, q, new)
    BY <2>3, <1>2, UnregisterQuota
  <2>4. CASE \E config \in Configs : UpdateConfig(c, m, config)
    BY <2>4, <1>2, IdleQuota
  <2>5. CASE Shutdown(c, m)
    BY <2>5, <1>2, ShutdownQuota
  <2>6. CASE Restart(c, m)
    BY <2>6, <1>2, RestartQuota
  <2> QED BY <2>1, <2>2, <2>3, <2>4, <2>5, <2>6
<1>5. ASSUME NEW c \in Calls, Continue(c) PROVE Quota(n)'
  BY <1>1, <1>2, <1>5, IdleQuota, ReadConfigQuota, LoadQuota, ApplyQuota, CheckQuota, EndsQuota DEF Continue
<1>6. ASSUME NEW c \in Calls, Fleets(c) PROVE Quota(n)'
  BY <1>2, <1>6, FleetsQuota
<1> QED BY <1>3, <1>4, <1>5, <1>6 DEF Next

(* The pods that the registrations of a node started, those of services it *)
(* forgot included, and those they are about to start stay within           *)
(* maxTotalPods: the check of register counts every pod that is in plugins, *)
(* each pod it ever granted is, and what was reserved is exactly what is    *)
(* started.  Calls that replaced one service at once are excused; the pods  *)
(* that services start later, which nothing checks, are not counted.        *)
THEOREM QuotaIsKept == Spec => []QuotaHolds
<1>1. Init => TypeInv /\ OrphanInv /\ HeldInv /\ QuotaHolds
  BY TypeInit, OrphanInit, HeldInit, QuotaInit
<1>2. TypeInv /\ OrphanInv /\ HeldInv /\ QuotaHolds /\ [Next]_vars
        => (TypeInv /\ OrphanInv /\ HeldInv /\ QuotaHolds)'
  BY TypeStep, OrphanStep, HeldStep, QuotaStep
<1> QED BY <1>1, <1>2, PTL DEF Spec
=============================================================================

--------------------------- MODULE ServerStartup ---------------------------
(***************************************************************************)
(* The nodes of the server from their start to their exit: main.ts and     *)
(* init.ts (apps/server), MongoClient.init with its retries, and the       *)
(* static data, whose logos the nodes upload to a storage they share,      *)
(* unless a digest in Redis says that this was done (model-static.ts and   *)
(* workflow/init.ts).  Nodes of two releases may run at once, and a node   *)
(* may start again with either.                                            *)
(*                                                                         *)
(* Abstracted: telemetry, the proxy, routes; the registration of plugins   *)
(* is a step that ends well or not (RuntimeManager has its details).       *)
(* mongoose answers queries when it is connected, and else fails them.     *)
(***************************************************************************)
EXTENDS Naturals, FiniteSets

CONSTANTS
  Nodes,
  Releases,   \* a release is its number, and the digests of its static data
  Kinds,      \* of static data: models, workflows
  Logos,      \* Logos[r][k]: the logos of a kind in a release
  MaxStarts,  \* bound: starts of a node, over all nodes
  MaxFaults,  \* bound: steps that fail, and nodes that are killed
  None

VARIABLES
  at,         \* a node: "off", "init", "static", "register", "ready", or "failed" to start
  release,    \* the release it runs
  todo,       \* steps of the first Promise.all of init that have not ended
  attempts,   \* MongoClient.init, by its number: where it is
  connected,  \* mongoose is connected
  job,        \* the uploads of a kind: where they are
  left,       \* the logos that are still to be uploaded
  templates,  \* the workflow templates are loaded
  listening,  \* the HTTP server accepts requests
  stopping,   \* shutdown: "no", "close" waits for the requests, "flush" will exit
  request,    \* a request is being answered
  digest,     \* Redis: the release of which the logos of a kind were uploaded
  stored,     \* the storage: the release a logo is of, or None
  starts, faults,
  torn        \* history: kinds whose uploads were interrupted, or overlapped
              \* with those of another release

mongo == <<attempts, connected>>
static == <<job, left, templates>>
serving == <<listening, stopping, request>>
shared == <<digest, stored, torn>>
bounds == <<starts, faults>>
vars == <<at, release, todo, mongo, static, serving, shared, bounds>>

Tasks == {"files", "buckets", "mongo"}
MaxAttempts == 3
AllLogos == UNION {Logos[r][k] : r \in Releases, k \in Kinds}
NoJobs == [k \in Kinds |-> "none"]
NoneLeft == [k \in Kinds |-> {}]

Init ==
  /\ at = [n \in Nodes |-> "off"] /\ release = [n \in Nodes |-> None]
  /\ todo = [n \in Nodes |-> {}]
  /\ attempts = [n \in Nodes |-> [i \in 1..MaxAttempts |-> "none"]]
  /\ connected = [n \in Nodes |-> FALSE]
  /\ job = [n \in Nodes |-> NoJobs] /\ left = [n \in Nodes |-> NoneLeft]
  /\ templates = [n \in Nodes |-> FALSE]
  /\ listening = [n \in Nodes |-> FALSE] /\ stopping = [n \in Nodes |-> "no"]
  /\ request = [n \in Nodes |-> FALSE]
  /\ digest = [k \in Kinds |-> None] /\ stored = [k \in Kinds |-> [l \in AllLogos |-> None]]
  /\ starts = 0 /\ faults = 0 /\ torn = {}

Set(f, n, value) == [f EXCEPT ![n] = value]
Goes(n, from, to) == at[n] = from /\ at' = Set(at, n, to)
Fault == faults < MaxFaults /\ faults' = faults + 1 /\ UNCHANGED starts

(* The process ends: uploads of which the digest does not tell are torn.   *)
Ends(n) ==
  /\ at' = Set(at, n, "off")
  /\ todo' = Set(todo, n, {})
  /\ attempts' = Set(attempts, n, [i \in 1..MaxAttempts |-> "none"])
  /\ connected' = Set(connected, n, FALSE)
  /\ torn' = torn \cup {k \in Kinds : job[n][k] = "upload"}
  /\ job' = Set(job, n, NoJobs) /\ left' = Set(left, n, NoneLeft)
  /\ templates' = Set(templates, n, FALSE)
  /\ listening' = Set(listening, n, FALSE) /\ stopping' = Set(stopping, n, "no")
  /\ request' = Set(request, n, FALSE)
  /\ UNCHANGED <<release, digest, stored>>

(* prepare() has failed: shutdown() finds no server to close and waits for *)
(* the telemetry; meanwhile main() goes on, and listens.                   *)
Fails(n) ==
  /\ at' = Set(at, n, "failed")
  /\ stopping' = Set(stopping, n, "flush") /\ listening' = Set(listening, n, TRUE)
  /\ UNCHANGED request

-----------------------------------------------------------------------------
(* init: the local storage is emptied, the buckets are ensured, Mongo.     *)

Start(n) ==
  /\ Goes(n, "off", "init") /\ starts < MaxStarts
  /\ \E r \in Releases : release' = Set(release, n, r)
  /\ todo' = Set(todo, n, Tasks)
  /\ attempts' = [attempts EXCEPT ![n][1] = "connect"]
  /\ starts' = starts + 1
  /\ UNCHANGED <<connected, static, serving, shared, faults>>

Task(n, task) ==
  /\ at[n] = "init" /\ task \in todo[n] \ {"mongo"}
  /\ \/ todo' = Set(todo, n, todo[n] \ {task}) /\ UNCHANGED <<at, serving, bounds>>
     \/ Fault /\ Fails(n) /\ UNCHANGED todo
  /\ UNCHANGED <<release, mongo, static, shared>>

(* init(retry) returns when it is initialized already, or out of retries.  *)
Initialized(n) == \E i \in 1..MaxAttempts : attempts[n][i] = "done"
NextAttempt(n, i) ==
  [attempts EXCEPT ![n] =
    [j \in 1..MaxAttempts |->
       IF j = i THEN "sync" ELSE IF j = i + 1 /\ ~Initialized(n) THEN "connect" ELSE @[j]]]

MongoConnects(n, i) ==
  /\ attempts[n][i] = "connect"
  /\ \/ connected' = Set(connected, n, TRUE) /\ attempts' = [attempts EXCEPT ![n][i] = "sync"] /\ UNCHANGED bounds
     \/ connected' = Set(connected, n, FALSE) /\ attempts' = [attempts EXCEPT ![n][i] = "delay"] /\ Fault
  /\ UNCHANGED <<at, release, todo, static, serving, shared>>

(* After the delay the next attempt is begun, but not waited for: this one *)
(* goes on as if it had connected.                                         *)
MongoRetries(n, i) ==
  /\ attempts[n][i] = "delay" /\ attempts' = NextAttempt(n, i)
  /\ UNCHANGED <<at, release, todo, connected, static, serving, shared, bounds>>

(* The models are registered (and their indexes synchronised).             *)
MongoRegisters(n, i) ==
  /\ attempts[n][i] = "sync" /\ attempts' = [attempts EXCEPT ![n][i] = "done"]
  /\ todo' = IF i = 1 THEN Set(todo, n, todo[n] \ {"mongo"}) ELSE todo
  /\ UNCHANGED <<at, release, connected, static, serving, shared, bounds>>

InitDone(n) ==
  /\ Goes(n, "init", "static") /\ todo[n] = {}
  /\ job' = Set(job, n, [k \in Kinds |-> "get"])
  /\ UNCHANGED <<release, todo, mongo, left, templates, serving, shared, bounds>>

-----------------------------------------------------------------------------
(* initStaticModelAssets, initStaticWorkflowAssets, initWorkflowTemplates  *)

SetJob(n, k, to) == job' = [job EXCEPT ![n][k] = to]
Uploading(k) == {n \in Nodes : job[n][k] = "upload"}

Get(n, k) ==
  /\ job[n][k] = "get"
  /\ IF digest[k] = release[n]
     THEN SetJob(n, k, "done") /\ UNCHANGED <<left, torn>>
     ELSE /\ SetJob(n, k, "upload") /\ left' = [left EXCEPT ![n][k] = Logos[release[n]][k]]
          /\ torn' = IF \E m \in Uploading(k) : release[m] # release[n] THEN torn \cup {k} ELSE torn
  /\ UNCHANGED <<at, release, todo, mongo, templates, serving, digest, stored, bounds>>

(* All at once; those that have not ended when one fails go on.            *)
Upload(n, k, logo) ==
  /\ job[n][k] \in {"upload", "failed"} /\ logo \in left[n][k]
  /\ left' = [left EXCEPT ![n][k] = @ \ {logo}]
  /\ \/ stored' = [stored EXCEPT ![k][logo] = release[n]] /\ UNCHANGED <<job, torn, bounds>>
     \/ /\ job[n][k] = "upload" /\ SetJob(n, k, "failed") /\ Fault
        /\ torn' = torn \cup {k} /\ UNCHANGED stored
  /\ UNCHANGED <<at, release, todo, mongo, templates, serving, digest>>

SetDigestEarly(n, k) == \* mutant: the digest does not wait for the uploads
  /\ job[n][k] = "upload"
  /\ digest' = [digest EXCEPT ![k] = release[n]] /\ SetJob(n, k, "done")
  /\ UNCHANGED <<at, release, todo, mongo, left, templates, serving, stored, torn, bounds>>

SetDigest(n, k) ==
  /\ job[n][k] = "upload" /\ left[n][k] = {}
  /\ digest' = [digest EXCEPT ![k] = release[n]] /\ SetJob(n, k, "done")
  /\ UNCHANGED <<at, release, todo, mongo, left, templates, serving, stored, torn, bounds>>

LoadTemplates(n) ==
  /\ at[n] = "static" /\ ~templates[n] /\ templates' = Set(templates, n, TRUE)
  /\ UNCHANGED <<at, release, todo, mongo, job, left, serving, shared, bounds>>

StaticDone(n) ==
  /\ Goes(n, "static", "register") /\ templates[n] /\ \A k \in Kinds : job[n][k] = "done"
  /\ UNCHANGED <<release, todo, mongo, static, serving, shared, bounds>>
StaticFails(n) ==
  /\ at[n] = "static" /\ \E k \in Kinds : job[n][k] = "failed"
  /\ Fails(n)
  /\ UNCHANGED <<release, todo, mongo, static, shared, bounds>>

-----------------------------------------------------------------------------
(* pluginRegisterActiveUC, and serve                                       *)

(* Queries wait for the connection for a while; one plugin that cannot be  *)
(* registered is enough to fail.                                           *)
Register(n) ==
  /\ Goes(n, "register", "ready") /\ connected[n]
  /\ listening' = Set(listening, n, TRUE)
  /\ UNCHANGED <<release, todo, mongo, static, stopping, request, shared, bounds>>
RegisterFails(n) ==
  /\ at[n] = "register" /\ Fails(n)
  /\ IF connected[n] THEN Fault ELSE UNCHANGED bounds
  /\ UNCHANGED <<release, todo, mongo, static, shared>>

Request(n) ==
  /\ listening[n] /\ ~request[n] /\ request' = Set(request, n, TRUE)
  /\ UNCHANGED <<at, release, todo, mongo, static, listening, stopping, shared, bounds>>
Answer(n) ==
  /\ request[n] /\ request' = Set(request, n, FALSE)
  /\ UNCHANGED <<at, release, todo, mongo, static, listening, stopping, shared, bounds>>

-----------------------------------------------------------------------------
(* shutdown                                                                *)

(* Before main() has set the handlers, a signal ends the process.          *)
Kill(n) == at[n] # "off" /\ Fault /\ Ends(n)
Signal(n) ==
  /\ at[n] = "ready" /\ stopping[n] = "no"
  /\ stopping' = Set(stopping, n, "close") /\ listening' = Set(listening, n, FALSE)
  /\ UNCHANGED <<at, release, todo, mongo, static, request, shared, bounds>>
Closed(n) ==
  /\ stopping[n] = "close" /\ ~request[n] /\ stopping' = Set(stopping, n, "flush")
  /\ UNCHANGED <<at, release, todo, mongo, static, listening, request, shared, bounds>>
Exit(n) == stopping[n] = "flush" /\ Ends(n) /\ UNCHANGED bounds

-----------------------------------------------------------------------------
Starting(n) ==
  \/ \E task \in Tasks : Task(n, task)
  \/ \E i \in 1..MaxAttempts : MongoConnects(n, i) \/ MongoRetries(n, i) \/ MongoRegisters(n, i)
  \/ InitDone(n)
  \/ \E k \in Kinds : Get(n, k) \/ SetDigest(n, k) \/ \E logo \in AllLogos : Upload(n, k, logo)
  \/ LoadTemplates(n) \/ StaticDone(n) \/ StaticFails(n) \/ Register(n) \/ RegisterFails(n)
Stopping(n) == Closed(n) \/ Exit(n)

Next ==
  \E n \in Nodes :
    Start(n) \/ Starting(n) \/ Stopping(n) \/ Request(n) \/ Answer(n) \/ Kill(n) \/ Signal(n)

Spec == Init /\ [][Next]_vars

-----------------------------------------------------------------------------
(* Properties                                                              *)

(* Every variable holds what its declaration says.                         *)
TypeOK ==
  /\ at \in [Nodes -> {"off", "init", "static", "register", "ready", "failed"}]
  /\ release \in [Nodes -> Releases \cup {None}] /\ todo \in [Nodes -> SUBSET Tasks]
  /\ attempts \in [Nodes -> [1..MaxAttempts -> {"none", "connect", "delay", "sync", "done"}]]
  /\ job \in [Nodes -> [Kinds -> {"none", "get", "upload", "failed", "done"}]]
  /\ left \in [Nodes -> [Kinds -> SUBSET AllLogos]]
  /\ \A f \in {connected, templates, listening, request} : f \in [Nodes -> BOOLEAN]
  /\ stopping \in [Nodes -> {"no", "close", "flush"}]
  /\ digest \in [Kinds -> Releases \cup {None}] /\ torn \subseteq Kinds
  /\ stored \in [Kinds -> [AllLogos -> Releases \cup {None}]]

(* Whatever nodes start, fail and die, a node that serves finds every logo *)
(* its answers link to, templates to list, and a database; one that        *)
(* listens without will exit.  What a digest says is stored, is, and it is *)
(* of that release when nobody uploads, unless an upload was interrupted   *)
(* or two releases uploaded at once.                                       *)
ServesWhenReady ==
  /\ \A n \in Nodes :
       listening[n] => \/ at[n] = "failed" /\ stopping[n] = "flush"
                       \/ /\ todo[n] = {} /\ templates[n] /\ connected[n] /\ Initialized(n)
                          /\ \A k \in Kinds, l \in AllLogos : l \in Logos[release[n]][k] => stored[k][l] # None
  /\ \A k \in Kinds :
       digest[k] # None =>
         \A l \in Logos[digest[k]][k] :
           /\ stored[k][l] # None
           /\ k \notin torn /\ Uploading(k) = {} => stored[k][l] = digest[k]

(* No node gets stuck: until it serves or has exited it can go on, though  *)
(* requests it is to answer first may hold it up.  Its steps lead forward, *)
(* so that a node that goes on serves or exits.                            *)
NeverStuck ==
  \A n \in Nodes :
    /\ at[n] \in {"init", "static", "register"} => ENABLED Starting(n)
    /\ stopping[n] # "no" => request[n] \/ ENABLED Stopping(n)
=============================================================================

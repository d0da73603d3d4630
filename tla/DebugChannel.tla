--------------------------- MODULE DebugChannel ---------------------------
(***************************************************************************)
(* The debug channel of one developer: the handlers of the server that     *)
(* open, refresh, revoke and exchange its connection key                   *)
(* (debug-session.route.ts over debug-session.repo.ts), and the CLI that   *)
(* lives on it (apps/cli/src/debug/remote-session.ts, session.ts,          *)
(* import-hooks.ts and the reconnect loop of gateway.ts), with its user,   *)
(* who configures another key, interrupts it and edits the plugin.         *)
(*                                                                         *)
(* The connection gateway is what these parts see of it: one session for   *)
(* the source of the developer, claimed by a bind, removed by its id or    *)
(* with its connection (module ConnectionGateway has the leases and locks, *)
(* module DebugInvocation the requests).                                   *)
(*                                                                         *)
(* Abstracted: a key is the number of its creation, 0 one that never was;  *)
(* a connect token is the key it was given for; timestamps, URLs, upload   *)
(* directories, manifests, logs and the drawing of the TUI.                *)
(***************************************************************************)
EXTENDS Integers

CONSTANTS
  Calls,       \* calls of the server by FastGPT, one operation each
  Cli,         \* the exchange call of the CLI
  MaxFaults,   \* bound: requests and connections that fail
  MaxConfigs,  \* bound: keys the user configures while the session runs
  MaxEdits,    \* bound: versions of the plugin after the first
  None, Invalid

(* The sessions of the gateway (Session below).                            *)
Sessions == [id : Nat, key : Nat, up : BOOLEAN, late : BOOLEAN, kept : BOOLEAN]

ASSUME ChannelAssumption ==
  /\ MaxFaults \in Nat /\ MaxConfigs \in Nat /\ MaxEdits \in Nat
  /\ Cli \notin Calls /\ None # Invalid /\ None \notin Sessions

VARIABLES
  record,    \* Redis: the debug session of the developer
  index,     \* Redis: the keys that lead to it
  made,      \* the keys created
  calls,     \* the handlers of the server
  session,   \* the session of the gateway for the source
  binds,     \* the sessions it has made
  phase,     \* what the connect loop of the CLI awaits
  link,      \* options.connect
  token,     \* the key being exchanged, then the one its connect token is for
  persist,   \* options.connectPersistOnSuccess
  saved,     \* the key in config.json
  reporter,  \* "attached": it has the handlers of the session
  interrupts, \* interruptCount
  closed,    \* closed, of the session and of the reconnect loop
  plugin,    \* index.ts: its version, and whether the file exists
  modules,   \* the module cache: the version evaluated of each URL
  active,    \* activeTargets: the version that is served
  timer,     \* fsWatch: the debounce timer runs
  reload,    \* reloadTargets: what it awaits, and reloadPending
  faults, configs,
  missed,    \* history: reconnect() found no connection
  unheard,   \* history: close() found no connection
  blocked    \* history: the loop gave up for a session that the server failed to close

server == <<record, index, made, calls>>
gateway == <<session, binds>>
options == <<link, token, persist, saved>>
user == <<reporter, interrupts, closed, configs>>
watch == <<plugin, modules, active, timer, reload>>
history == <<missed, unheard, blocked>>
vars == <<server, gateway, phase, options, user, watch, faults, history>>

Keys == 0..made
Record(key, status, plain) == [key |-> key, status |-> status, plain |-> plain]

(* up: its connection is open.  History, late: its key was replaced or     *)
(* revoked before the bind, or by a handler that closes no session;  kept: *)
(* a request to close it failed, or a crash of the server took its place.  *)
Session(id, key, late) == [id |-> id, key |-> key, up |-> TRUE, late |-> late, kept |-> FALSE]

Operations == {"create", "refresh", "revoke"}
Free == [at |-> "free", op |-> None, seen |-> None, sid |-> 0]
Done(c) == [Free EXCEPT !.at = "done", !.op = calls[c].op]

(* "load", "ask": before the first exchange;  "open": openWebSocket;       *)
(* "bind", "answered": await bound;  "bound": await current.closed;        *)
(* "leaving": the socket closes;  "delay": before the next attempt;        *)
(* "hung": the socket closed while bound was awaited;  "duplicate": the    *)
(* source had a session, and the loop gave up;  "exited": the process did. *)
Phases == {"load", "ask", "exchange", "open", "bind", "answered", "bound", "leaving", "delay",
           "hung", "duplicate", "exited"}

(* The loop has no current connection, and has taken the key it will use.  *)
Connecting == phase \in {"exchange", "open", "bind", "answered"}

Fault == faults < MaxFaults /\ faults' = faults + 1

(* The record of a store used by older versions may hold the hash of its   *)
(* key alone, or not even that.                                            *)
Init ==
  /\ \/ record = None /\ index = {} /\ made = 0
     \/ record = Invalid /\ index = {} /\ made = 0
     \/ \E plain \in BOOLEAN :
          record = Record(1, "enabled", plain) /\ index = {1} /\ made = 1
  /\ calls = [c \in Calls \cup {Cli} |-> Free]
  /\ session = None /\ binds = 0
  /\ phase = "load" /\ link = 0 /\ token = 0 /\ persist = FALSE /\ saved = 0
  /\ reporter = "off" /\ interrupts = 0 /\ closed = FALSE
  /\ plugin = [version |-> 0, there |-> TRUE] /\ modules = <<>> /\ active = None
  /\ timer = FALSE /\ reload = [at |-> "idle", pending |-> FALSE]
  /\ faults = 0 /\ configs = 0
  /\ missed = FALSE /\ unheard = FALSE /\ blocked = FALSE

-----------------------------------------------------------------------------
(* The server: debug-session.route.ts and RedisPluginDebugSessionRepo      *)

Begin(c, op) ==
  /\ calls[c].at = "free"
  /\ calls' = [calls EXCEPT ![c] = [Free EXCEPT !.at = "read", !.op = op]]
  /\ UNCHANGED <<record, index, made, gateway, phase, options, user, watch, faults, history>>

(* exchangeConnectionKey: the key is looked up first.                      *)
Lookup ==
  /\ calls[Cli].at = "lookup"
  /\ calls' = [calls EXCEPT ![Cli].at = IF token \in index THEN "read" ELSE "refused"]
  /\ UNCHANGED <<record, index, made, gateway, phase, options, user, watch, faults, history>>

(* The key is that of an enabled channel.                                  *)
Opening(r, key) == r \notin {None, Invalid} /\ r.status = "enabled" /\ r.key = key
Opened(key) == Opening(record, key)

ContinuesUnclosed(op, seen) == \* mutant: the exchange does not close the session there is
  CASE op = "exchange" -> IF seen = None \/ seen.status # "enabled" \/ seen.key # token
                          THEN "refused" ELSE "accepted"
    [] op = "create" /\ seen # None -> IF seen.status = "disconnected" THEN "save" ELSE "done"
    [] op = "revoke" -> IF seen = None THEN "done" ELSE "save"
    [] OTHER -> "write"

(* Where an operation goes on from the record it has read: create, refresh, *)
(* revoke and exchangeConnectionKey.                                       *)
Continues(op, seen) ==
  CASE op = "exchange" -> IF seen = None \/ seen.status # "enabled" \/ seen.key # token
                          THEN "refused" ELSE IF seen.plain THEN "status" ELSE "save"
    [] op = "create" /\ seen # None -> IF seen.status = "disconnected" THEN "save" ELSE "done"
    [] op = "revoke" -> IF seen = None THEN "done" ELSE "save"
    [] OTHER -> "write"

(* get: a record that does not parse is to be cleared.                     *)
ReadRecord(c) ==
  LET seen == IF record = Invalid THEN None ELSE record IN
  /\ calls[c].at = "read"
  /\ calls' = [calls EXCEPT ![c] =
       [@ EXCEPT !.seen = seen,
                 !.at = IF record = Invalid THEN "clear" ELSE Continues(calls[c].op, seen)]]
  /\ UNCHANGED <<record, index, made, gateway, phase, options, user, watch, faults, history>>

(* History: the session is not closed by who changes the record.           *)
Outlives ==
  session' = IF session = None THEN None
             ELSE [session EXCEPT !.late = @ \/ ~Opening(record', session.key)]

(* clearInvalidStoredSession: whatever the record is by now.               *)
ClearRecord(c) ==
  /\ calls[c].at = "clear"
  /\ record' = None
  /\ Outlives
  /\ calls' = [calls EXCEPT ![c].at = Continues(calls[c].op, None)]
  /\ UNCHANGED <<index, made, binds, phase, options, user, watch, faults, history>>

ClosesNextOnRevoke(c) == \* mutant: a refresh does not close the session
  IF calls[c].op \in {"create", "refresh"}
  THEN calls' = [calls EXCEPT ![c] = Done(c)] /\ UNCHANGED session
  ELSE calls' = [calls EXCEPT ![c].at = "status"] /\ UNCHANGED session

(* All but create go on to close the session of the gateway.               *)
ClosesNext(c) ==
  IF calls[c].op = "create"
  THEN calls' = [calls EXCEPT ![c] = Done(c)] /\ Outlives
  ELSE calls' = [calls EXCEPT ![c].at = "status"] /\ UNCHANGED session

(* markEnabled, revoke, ensureConnectionKeyStored: the whole record that   *)
(* was read is written back, changed.                                      *)
SaveRecord(c) ==
  LET call == calls[c] IN
  /\ call.at = "save"
  /\ record' = CASE call.op = "create" -> [call.seen EXCEPT !.status = "enabled"]
                 [] call.op = "revoke" -> [call.seen EXCEPT !.status = "disconnected"]
                 [] OTHER -> [call.seen EXCEPT !.plain = TRUE]
  /\ ClosesNext(c)
  /\ UNCHANGED <<index, made, binds, phase, options, user, watch, faults, history>>

Replaced(c) == IF calls[c].seen = None THEN {} ELSE {calls[c].seen.key}

(* writeEnabledSession: a new key replaces the one that was read (MULTI).  *)
WriteSession(c) ==
  /\ calls[c].at = "write"
  /\ made' = made + 1
  /\ record' = Record(made', "enabled", TRUE)
  /\ index' = (index \ Replaced(c)) \cup {made'}
  /\ ClosesNext(c)
  /\ UNCHANGED <<binds, phase, options, user, watch, faults, history>>

(* The answer of a handler; that of the exchange carries the token.        *)
Answers(c) == IF c = Cli THEN [Free EXCEPT !.at = "accepted"] ELSE Done(c)

(* A request to the gateway that fails is logged, and the handler answers. *)
KeepsSession(c) ==
  /\ Fault
  /\ calls' = [calls EXCEPT ![c] = Answers(c)]
  /\ session' = IF session = None THEN None ELSE [session EXCEPT !.kept = TRUE]
  /\ UNCHANGED phase

(* closeGatewaySessionBySource: the session is looked up, then deleted by  *)
(* its id.  The client of a connection that the gateway closes hears of it *)
(* after what was sent before.                                             *)
GetStatus(c) ==
  /\ calls[c].at = "status"
  /\ \/ /\ calls' = [calls EXCEPT ![c] =
             IF session = None THEN Answers(c)
             ELSE [@ EXCEPT !.at = "delete", !.sid = session.id]]
        /\ UNCHANGED <<session, phase, faults>>
     \/ KeepsSession(c)
  /\ UNCHANGED <<record, index, made, binds, options, user, watch, history>>

DeleteSession(c) ==
  LET found == session # None /\ session.id = calls[c].sid IN
  /\ calls[c].at = "delete"
  /\ \/ /\ calls' = [calls EXCEPT ![c] = Answers(c)]
        /\ session' = IF found THEN None ELSE session
        /\ phase' = IF found /\ session.up /\ phase = "bound" THEN "leaving" ELSE phase
        /\ UNCHANGED faults
     \/ KeepsSession(c)
  /\ UNCHANGED <<record, index, made, binds, options, user, watch, history>>

(* A node of the server ends while it handles the call: the record may be  *)
(* saved, and nobody closes the session.  The caller gets an error.        *)
NodeCrashes(c) ==
  /\ calls[c].at \notin {"free", "accepted", "refused", "done"}
  /\ Fault
  /\ calls' = [calls EXCEPT ![c] = IF c = Cli THEN [Free EXCEPT !.at = "refused"] ELSE Done(c)]
  /\ session' = IF session # None /\ calls[c].at \in {"status", "delete"}
                THEN [session EXCEPT !.kept = TRUE] ELSE session
  /\ UNCHANGED <<record, index, made, binds, phase, options, user, watch, history>>

Serve(c) ==
  \/ ReadRecord(c) \/ ClearRecord(c) \/ SaveRecord(c) \/ WriteSession(c)
  \/ GetStatus(c) \/ DeleteSession(c)

-----------------------------------------------------------------------------
(* The connect loop: connectReconnectingDebugGateway                       *)

(* await import(moduleUrl): the resolve hook returns a URL without the     *)
(* fragment that makes each import different, and a module that has been   *)
(* evaluated is not evaluated again.                                       *)
ResolveSpecifier(attempt) == "index.ts"
Evaluates(attempt) == ResolveSpecifier(attempt) \notin DOMAIN modules

(* loadTargets of a session that starts; the user may give a key with the  *)
(* command, or use the saved one (ensureConnectLink), or is asked for it.  *)
LoadTargets ==
  /\ phase = "load" /\ Evaluates(0)
  /\ modules' = [url \in {ResolveSpecifier(0)} |-> plugin.version]
  /\ active' = plugin.version
  /\ phase' = "ask"
  /\ UNCHANGED <<server, gateway, options, user, plugin, timer, reload, faults, history>>

(* resolveConnectGatewayOptions: the loop takes the key there is.          *)
StartExchange(key) ==
  /\ token' = key /\ phase' = "exchange" /\ missed' = FALSE
  /\ calls' = [calls EXCEPT ![Cli] = [Free EXCEPT !.at = "lookup", !.op = "exchange"]]

TakesKey ==
  /\ phase = "ask"
  /\ link' \in Keys /\ persist' = TRUE
  /\ StartExchange(link')
  /\ UNCHANGED <<record, index, made, gateway, saved, user, watch, faults,
                 unheard, blocked>>

Retries == phase' = IF closed THEN "exited" ELSE "delay"

(* The response of the exchange.  A key that was accepted is saved: the    *)
(* one options has by now.  The watcher and the reporter start after the   *)
(* first exchange, whose failure ends the session or asks for a key.       *)
Exchanged ==
  /\ calls[Cli].at = "accepted"
  /\ phase' = "open"
  /\ saved' = IF persist THEN link ELSE saved
  /\ persist' = FALSE
  /\ reporter' = IF reporter = "off" THEN "started" ELSE reporter
  /\ calls' = [calls EXCEPT ![Cli] = Free]
  /\ UNCHANGED <<record, index, made, gateway, link, token, interrupts, closed, configs, watch,
                 faults, history>>

ExchangeFails ==
  /\ \/ calls[Cli].at = "refused" /\ UNCHANGED faults
     \/ calls[Cli].at \in {"lookup", "accepted"} /\ Fault
  /\ \/ reporter # "off" /\ Retries
     \/ reporter = "off" /\ phase' \in {"ask", "exited"}
  /\ calls' = [calls EXCEPT ![Cli] = Free]
  /\ UNCHANGED <<record, index, made, gateway, options, user, watch, history>>

(* openWebSocket.                                                          *)
Opens ==
  /\ phase = "open"
  /\ \/ phase' = "bind" /\ UNCHANGED faults
     \/ Fault /\ Retries
  /\ UNCHANGED <<server, gateway, options, user, watch, history>>

(* The gateway handles the bind: it claims the source, or refuses.         *)
Bind ==
  /\ phase = "bind"
  /\ \/ /\ session = None
        /\ binds' = binds + 1
        /\ session' = Session(binds', token, ~Opened(token))
        /\ phase' = "answered"
        /\ UNCHANGED <<closed, faults, blocked>>
     \/ /\ session # None
        /\ phase' = "duplicate" /\ closed' = TRUE /\ blocked' = session.kept
        /\ UNCHANGED <<gateway, faults>>
     \/ Fault /\ Retries /\ UNCHANGED <<gateway, closed, blocked>>
  /\ UNCHANGED <<server, options, reporter, interrupts, configs, watch, missed, unheard>>

(* The message bound, behind which the gateway may have closed already.    *)
(* connectDebugGateway returns: attachClose, attachConfigureConnectionKey. *)
BoundArrives ==
  /\ phase = "answered"
  /\ phase' = IF session = None THEN "leaving" ELSE "bound"
  /\ reporter' = "attached"
  /\ UNCHANGED <<server, gateway, options, interrupts, closed, configs, watch, faults, history>>

HangUp == session' = IF session = None THEN None ELSE [session EXCEPT !.up = FALSE]

(* The socket is lost.  Nothing settles bound if it was awaited.           *)
SocketLost ==
  /\ phase \in {"bind", "answered", "bound"} /\ Fault
  /\ phase' = IF phase = "bound" THEN "leaving" ELSE "hung"
  /\ HangUp
  /\ UNCHANGED <<server, binds, options, user, watch, history>>

SocketClosed ==
  /\ phase = "leaving" /\ Retries
  /\ UNCHANGED <<server, gateway, options, user, watch, faults, history>>

(* The gateway closes the session with its connection, or its lease ends.  *)
SessionEnds ==
  /\ session # None /\ ~session.up
  /\ session' = None
  /\ UNCHANGED <<server, binds, phase, options, user, watch, faults, history>>

ReconnectAlways == \* mutant: the loop does not look at closed after the delay
  /\ phase = "delay"
  /\ StartExchange(link)
  /\ UNCHANGED <<record, index, made, gateway, link, persist, saved, user, watch, faults,
                 unheard, blocked>>

Reconnect ==
  /\ phase = "delay"
  /\ \/ ~closed /\ StartExchange(link)
     \/ closed /\ phase' = "exited" /\ UNCHANGED <<calls, token, missed>>
  /\ UNCHANGED <<record, index, made, gateway, link, persist, saved, user, watch, faults,
                 unheard, blocked>>

-----------------------------------------------------------------------------
(* The user: requestClose, configureConnectionKey                          *)

Ended == phase \in {"duplicate", "exited"}

(* current?.close(): the connection is closed if there is one.             *)
CloseCurrent ==
  IF phase = "bound" THEN phase' = "leaving" /\ HangUp ELSE UNCHANGED <<phase, session>>

(* A signal closes the session, a second one ends the process; the first   *)
(* is lost before the session is attached, and kills before the reporter.  *)
Interrupt ==
  LET force == interrupts = 1 IN
  /\ ~Ended /\ interrupts < 2
  /\ interrupts' = interrupts + 1
  /\ closed' = (closed \/ reporter = "attached")
  /\ unheard' = (unheard \/ (reporter = "attached" /\ (Connecting \/ phase = "hung")))
  /\ timer' = (timer /\ reporter # "attached")
  /\ \/ (reporter = "off" \/ force) /\ phase' = "exited" /\ HangUp
     \/ reporter # "off" /\ ~force /\ reporter = "attached" /\ CloseCurrent
     \/ reporter # "off" /\ ~force /\ reporter # "attached" /\ UNCHANGED <<phase, session>>
  /\ calls' = [calls EXCEPT ![Cli] = IF phase' = "exited" THEN Free ELSE @]
  /\ UNCHANGED <<record, index, made, binds, options, reporter, configs, plugin, modules, active,
                 reload, faults, missed, blocked>>

ConfigureKeyOnly == \* mutant: the connection of the old key is kept
  /\ reporter = "attached" /\ ~Ended /\ configs < MaxConfigs
  /\ configs' = configs + 1
  /\ link' \in Keys /\ persist' = TRUE
  /\ missed' = (Connecting \/ phase = "hung")
  /\ UNCHANGED <<server, gateway, phase, token, saved, reporter, interrupts, closed, watch,
                 faults, unheard, blocked>>

(* The prompt of the TUI; then the connection is closed, so that the loop  *)
(* takes the new key.                                                      *)
ConfigureKey ==
  /\ reporter = "attached" /\ ~Ended /\ configs < MaxConfigs
  /\ configs' = configs + 1
  /\ link' \in Keys /\ persist' = TRUE
  /\ missed' = (Connecting \/ phase = "hung")
  /\ CloseCurrent
  /\ UNCHANGED <<server, binds, token, saved, reporter, interrupts, closed, watch, faults,
                 unheard, blocked>>

-----------------------------------------------------------------------------
(* The watcher: watchDebugEntries, reloadTargets, loadDebugSession         *)

Watching == reporter # "off" /\ ~closed /\ ~Ended

Edit ==
  /\ phase # "load" /\ ~Ended /\ plugin.version < MaxEdits
  /\ plugin' \in [version : {plugin.version + 1}, there : BOOLEAN]
  /\ timer' = (timer \/ Watching)
  /\ UNCHANGED <<server, gateway, phase, options, user, modules, active, reload, faults, history>>

(* One reload runs at a time, and once more for what changed meanwhile.    *)
Debounce ==
  /\ timer /\ Watching
  /\ timer' = FALSE
  /\ reload' = IF reload.at = "idle" THEN [at |-> "loading", pending |-> FALSE]
               ELSE [reload EXCEPT !.pending = TRUE]
  /\ UNCHANGED <<server, gateway, phase, options, user, plugin, modules, active, faults, history>>

(* The loop of reloadTargets goes on or ends.                              *)
ReloadEnds == reload' = [at |-> IF reload.pending /\ ~closed THEN "loading" ELSE "idle",
                         pending |-> FALSE]

(* An entry without index.ts is an error.  Otherwise its module is         *)
(* imported, and the ready of its tool awaited, which comes when the       *)
(* module is evaluated and never after.                                    *)
Reload ==
  /\ reload.at = "loading" /\ ~Ended
  /\ IF ~plugin.there THEN ReloadEnds /\ UNCHANGED <<modules, active>>
     ELSE IF Evaluates(1)
     THEN /\ ReloadEnds /\ active' = plugin.version
          /\ modules' = [modules EXCEPT ![ResolveSpecifier(1)] = plugin.version]
     ELSE reload' = [reload EXCEPT !.at = "waiting"] /\ UNCHANGED <<modules, active>>
  /\ UNCHANGED <<server, gateway, phase, options, user, plugin, timer, faults, history>>

-----------------------------------------------------------------------------
Step ==
  \/ Lookup \/ Exchanged \/ ExchangeFails \/ Reconnect
  \/ Opens \/ Bind \/ BoundArrives \/ SocketClosed
  \/ SessionEnds \/ Debounce \/ Reload
  \/ \E c \in Calls \cup {Cli} : Serve(c)

Next ==
  \/ LoadTargets \/ TakesKey \/ Step
  \/ SocketLost \/ Interrupt \/ ConfigureKey \/ Edit
  \/ \E c \in Calls, op \in Operations : Begin(c, op)
  \/ \E c \in Calls \cup {Cli} : NodeCrashes(c)

Spec == Init /\ [][Next]_vars

(* The connect loop of the CLI and what it waits for.                      *)
ConnectLoop ==
  Lookup \/ Serve(Cli) \/ Exchanged \/ ExchangeFails \/ Reconnect \/ Opens
  \/ Bind \/ BoundArrives \/ SocketClosed

(* The event loops, the network and the gateway make progress; the user,   *)
(* the calls and the faults do not have to come.                           *)
FairSpec ==
  /\ Spec /\ WF_vars(SessionEnds)
  /\ WF_vars(ConnectLoop)
  /\ WF_vars(Debounce \/ Reload)
  /\ \A c \in Calls : WF_vars(Serve(c))

-----------------------------------------------------------------------------
(* Properties                                                              *)

Records == [key : Nat, status : {"enabled", "disconnected"}, plain : BOOLEAN]
CallRecord ==
  [at : {"free", "lookup", "read", "clear", "write", "save", "status", "delete", "accepted",
         "refused", "done"},
   op : Operations \cup {"exchange", None}, seen : Records \cup {None}, sid : Nat]

(* Every variable has its type, and a handler that is to save a record has *)
(* read one.                                                               *)
TypeOK ==
  /\ record \in Records \cup {None, Invalid} /\ index \subseteq Nat /\ made \in Nat
  /\ calls \in [Calls \cup {Cli} -> CallRecord]
  /\ \A c \in Calls \cup {Cli} : calls[c].at = "save" => calls[c].seen \in Records
  /\ session \in Sessions \cup {None} /\ binds \in Nat
  /\ phase \in Phases /\ {link, token, saved} \subseteq Nat
  /\ reporter \in {"off", "started", "attached"}
  /\ interrupts \in 0..2 /\ configs \in 0..MaxConfigs /\ faults \in 0..MaxFaults
  /\ plugin \in [version : 0..MaxEdits, there : BOOLEAN] /\ active \in 0..MaxEdits \cup {None}
  /\ modules \in UNION {[urls -> 0..MaxEdits] : urls \in SUBSET {"index.ts"}}
  /\ reload \in [at : {"idle", "loading", "waiting"}, pending : BOOLEAN]
  /\ {persist, closed, timer, missed, unheard, blocked} \subseteq BOOLEAN

(* connection-gateway-design.md:220-221: a session of a key that was       *)
(* replaced or revoked is about to be closed.  Excused: it was bound after *)
(* that, by a token it was signed before, or the request to close it       *)
(* failed or was lost with the server.                                     *)
StaleSessionsGo ==
  session # None /\ session.up /\ ~session.late /\ ~session.kept /\ ~Opened(session.key) =>
    \E c \in Calls \cup {Cli} :
      calls[c].at = "status" \/ (calls[c].at = "delete" /\ calls[c].sid = session.id)

(* A session that is connected uses the key the user configured last, and  *)
(* that key is the one saved.  Excused: it was configured while the loop   *)
(* was connecting with another.                                            *)
KeyInUse == phase = "bound" /\ ~missed => session.key = link /\ saved = link /\ ~persist

(* README.en.md of the CLI:89: reconnect is enabled by default.  A session *)
(* whose key leads to the channel is connected again and again, unless it  *)
(* was ended.  Excused: a socket lost while bound was awaited, and a       *)
(* source whose session the server failed to close.                        *)
Reconnects ==
  []<>(\/ phase \in {"load", "ask", "bound", "hung"}
       \/ phase = "exited" /\ (interrupts > 0 \/ reporter = "off")
       \/ phase = "duplicate" /\ blocked
       \/ ~Opened(link) \/ link \notin index)

(* A session the user closes ends.  Excused: it was closed while the loop  *)
(* was connecting, when there was no connection to close.                  *)
CloseEnds == closed /\ ~unheard ~> Ended

(* README.en.md of the CLI:89: with --watch the plugin is loaded again     *)
(* when a change of its files is noticed.                                  *)
ReloadsFollowEdits ==
  timer /\ plugin.there ~> active = plugin.version \/ ~Watching \/ ~plugin.there
=============================================================================

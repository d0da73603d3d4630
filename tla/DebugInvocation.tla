-------------------------- MODULE DebugInvocation --------------------------
(***************************************************************************)
(* An invocation of a plugin that a developer debugs locally: the runtime  *)
(* driver of the server (debug-runtime.driver.ts), the requests and replies *)
(* of the connection gateway (service.ts, mailbox.ts, routes.ts and        *)
(* apps/connection-gateway/src/deps.ts) and the client of the CLI          *)
(* (apps/cli/src/debug/gateway.ts), which reconnects.                      *)
(*                                                                         *)
(* All requests are of one source.  A session is named by its connection;  *)
(* its lease and its lock are those of module ConnectionGateway, here the  *)
(* flag active: a source has one active session, which ends at any time    *)
(* that its connection is closed, it is deleted or not renewed.  The frames *)
(* of a connection are handled one at a time: every handler makes the same *)
(* Redis commands on the one connection of its node, which keeps the       *)
(* handlers of successive frames in lockstep.                              *)
(*                                                                         *)
(* Abstracted: payloads (a chunk is its number), capabilities and limits   *)
(* (one way to be refused), heartbeats, logs, the reverse invocations of   *)
(* the tool.                                                               *)
(***************************************************************************)
EXTENDS Integers, Sequences

CONSTANTS
  Requests,
  MaxConns,    \* bound: connections the CLI makes
  MaxChunks,   \* bound: chunks a tool streams
  MaxLen,      \* mailboxMaxLen: a mailbox that is longer may be trimmed
  None

ASSUME InvocationAssumption == MaxConns \in Nat /\ MaxChunks \in Nat /\ MaxLen \in Nat \ {0}
ASSUME NoneAssumption == None \notin Nat

Conns == 1..MaxConns

VARIABLES
  loop,      \* the reconnect loop of the CLI: what it awaits
  attempt,   \* the last connection it made
  quit,      \* closed: the user closed the session
  socket,    \* readyState of each WebSocket of the CLI is OPEN
  served,    \* the connection of the gateway, and its binding
  active,    \* the sessions that are connected and whose lease lasts
  mailbox,   \* the requests published to a session and not yet pumped
  toClient, fromClient,  \* the messages in flight on a connection
  run,       \* the run of a request by the CLI
  reply,     \* reply mailboxes
  driver,    \* the invocation of a request by the server
  lost       \* history: the requests of which a reply was not published or was trimmed

vars == <<loop, attempt, quit, socket, served, active, mailbox, toClient, fromClient, run, reply,
          driver, lost>>
client == <<loop, attempt, quit, socket>>
gateway == <<served, active, mailbox>>

Frame(kind, r, n) == [kind |-> kind, r |-> r, n |-> n]
Frames == [kind : {"accepted", "end", "error"}, r : Requests, n : {0}]
          \cup [kind : {"chunk"}, r : Requests, n : 1..MaxChunks]
Messages == [kind : {"bound", "duplicate", "refused"}, r : {None}]
            \cup [kind : {"request"}, r : Requests]

(* "waiting": the delay before the next attempt;  "binding": await bound;  *)
(* "bound": await current.closed;  "ended": the process is gone.           *)
Loops == {"waiting", "binding", "bound", "ended"}

(* "half": the connection closed while its bind was in flight.             *)
Served == {"none", "unbound", "bound", "half", "closed"}

RunRecord == [st : {"none", "running", "done"}, conn : Conns \cup {None},
              made : 0..MaxChunks]   \* history: the chunks of the tool
DriverRecord == [st : {"new", "found", "reading", "closed", "failed"}, conn : Conns \cup {None},
                 got : Seq(1..MaxChunks)]

NewRun == [st |-> "none", conn |-> None, made |-> 0]
NewDriver == [st |-> "new", conn |-> None, got |-> <<>>]

-----------------------------------------------------------------------------
Open(c) == served[c] \in {"unbound", "bound"}

(* send: what is sent on a connection the other end has closed is lost.    *)
SendToClient(c, m) ==
  toClient' = IF socket[c] THEN [toClient EXCEPT ![c] = Append(@, m)] ELSE toClient
SendToGateway(c, frames) ==
  fromClient' = IF Open(c) THEN [fromClient EXCEPT ![c] = @ \o frames] ELSE fromClient

(* XADD with MAXLEN ~: a stream that is longer may be trimmed.             *)
Added(box, e) ==
  LET all == Append(box, e) IN {all} \cup (IF Len(all) > MaxLen THEN {Tail(all)} ELSE {})

(* XREAD, and XDEL of what was read.                                       *)
Taken(box) == Tail(box)

(* The route that publishes a request streams its replies to the server.   *)
Streaming(r) == driver[r].st = "reading"

Init ==
  /\ loop = "waiting" /\ attempt = 0 /\ quit = FALSE
  /\ socket = [c \in Conns |-> FALSE]
  /\ served = [c \in Conns |-> "none"]
  /\ active = {}
  /\ mailbox = [c \in Conns |-> <<>>]
  /\ toClient = [c \in Conns |-> <<>>]
  /\ fromClient = [c \in Conns |-> <<>>]
  /\ run = [r \in Requests |-> NewRun]
  /\ reply = [r \in Requests |-> <<>>]
  /\ driver = [r \in Requests |-> NewDriver]
  /\ lost = {}

-----------------------------------------------------------------------------
(* The client: connectReconnectingDebugGateway, connectSingleDebugGateway  *)

(* The loop goes on after a connection, or ends.                           *)
Retries == loop' = IF quit THEN "ended" ELSE "waiting"

(* openWebSocket, and the bind message.  An attempt that fails is repeated. *)
Connect ==
  LET c == attempt + 1 IN
  /\ loop = "waiting" /\ c \in Conns
  /\ loop' = "binding" /\ attempt' = c
  /\ socket' = [socket EXCEPT ![c] = TRUE]
  /\ served' = [served EXCEPT ![c] = "unbound"]
  /\ UNCHANGED <<quit, active, mailbox, toClient, fromClient, run, reply, driver, lost>>

(* A message of the gateway: bound, or an error that ends the attempt; a   *)
(* duplicate ends the loop and with it the process.                        *)
BoundArrives(c) ==
  LET m == Head(toClient[c]).kind IN
  /\ toClient[c] # <<>> /\ m # "request" /\ loop = "binding" /\ c = attempt
  /\ toClient' = [toClient EXCEPT ![c] = Tail(@)]
  /\ \/ m = "bound" /\ loop' = "bound"
     \/ m = "refused" /\ Retries
     \/ m = "duplicate" /\ loop' = "ended"
  /\ UNCHANGED <<attempt, quit, socket, gateway, fromClient, run, reply, driver, lost>>

(* handleGatewayEnvelope: the request is accepted and its tool starts; a   *)
(* request without a target is answered with an error.                     *)
RequestArrives(c) ==
  LET m == Head(toClient[c])  r == m.r IN
  /\ toClient[c] # <<>> /\ m.kind = "request" /\ loop # "ended"
  /\ toClient' = [toClient EXCEPT ![c] = Tail(@)]
  /\ \/ /\ SendToGateway(c, <<Frame("accepted", r, 0)>>)
        /\ run' = [run EXCEPT ![r] = [st |-> "running", conn |-> c, made |-> 0]]
     \/ /\ SendToGateway(c, <<Frame("error", r, 0)>>)
        /\ run' = [run EXCEPT ![r] = [st |-> "done", conn |-> c, made |-> 0]]
  /\ UNCHANGED <<client, gateway, reply, driver, lost>>

Chunks(r, n) == [i \in 1..n |-> Frame("chunk", r, i)]

(* runDebugTool ends, and all its chunks are sent, or it throws.  On a     *)
(* socket that is not open the first frame throws, so does the error frame *)
(* of the catch handler, and the rejection ends the process.               *)
ToolEnds(r) ==
  LET c == run[r].conn IN
  /\ run[r].st = "running" /\ loop # "ended"
  /\ IF ~socket[c]
     THEN /\ loop' = "ended"
          /\ run' = [run EXCEPT ![r].st = "done"]
          /\ UNCHANGED fromClient
     ELSE /\ \/ \E n \in 0..MaxChunks :
                  /\ SendToGateway(c, Append(Chunks(r, n), Frame("end", r, 0)))
                  /\ run' = [run EXCEPT ![r].st = "done", ![r].made = n]
             \/ /\ SendToGateway(c, <<Frame("error", r, 0)>>)
                /\ run' = [run EXCEPT ![r].st = "done"]
          /\ UNCHANGED loop
  /\ UNCHANGED <<attempt, quit, socket, gateway, toClient, reply, driver, lost>>

(* close and reconnect of the client, or the loss of the connection, as the *)
(* client sees it: what the gateway has not read may be lost.  Nothing      *)
(* rejects bound when the socket closes while it is awaited.                *)
ClientCloses(c) ==
  /\ socket' = [socket EXCEPT ![c] = FALSE]
  /\ toClient' = [toClient EXCEPT ![c] = <<>>]
  /\ \E k \in 0..Len(fromClient[c]) : fromClient' = [fromClient EXCEPT ![c] = SubSeq(@, 1, k)]

SocketCloses(c) ==
  /\ socket[c]
  /\ ClientCloses(c)
  /\ IF loop = "bound" /\ c = attempt THEN Retries ELSE UNCHANGED loop
  /\ UNCHANGED <<attempt, quit, gateway, run, reply, driver, lost>>

(* close of the client: only the connection it has by now is closed.       *)
Quit ==
  /\ ~quit /\ loop # "ended"
  /\ quit' = TRUE
  /\ IF loop = "bound"
     THEN ClientCloses(attempt) /\ loop' = "ended"
     ELSE /\ loop' = IF loop = "waiting" THEN "ended" ELSE loop
          /\ UNCHANGED <<socket, toClient, fromClient>>
  /\ UNCHANGED <<attempt, gateway, run, reply, driver, lost>>

-----------------------------------------------------------------------------
(* The gateway: onMessage, onClose and pumpSessionMailbox of deps.ts       *)

(* bindConnection, whether or not the connection has closed since.  One that *)
(* is refused is closed; the last one is refused only as a duplicate.      *)
Bind(c) ==
  /\ served[c] \in {"unbound", "half"}
  /\ \/ /\ active = {}
        /\ active' = {c}
        /\ served' = [served EXCEPT ![c] = IF @ = "half" THEN "closed" ELSE "bound"]
        /\ SendToClient(c, [kind |-> "bound", r |-> None])
     \/ /\ active # {}
        /\ served' = [served EXCEPT ![c] = "closed"]
        /\ SendToClient(c, [kind |-> "duplicate", r |-> None])
        /\ UNCHANGED active
     \/ /\ c < MaxConns
        /\ served' = [served EXCEPT ![c] = "closed"]
        /\ SendToClient(c, [kind |-> "refused", r |-> None])
        /\ UNCHANGED active
  /\ fromClient' = IF served'[c] = "closed" THEN [fromClient EXCEPT ![c] = <<>>] ELSE fromClient
  /\ UNCHANGED <<client, mailbox, run, reply, driver, lost>>

(* onClose, disconnectSession or the end of the node: what the client has  *)
(* not read may be lost.                                                   *)
GatewayCloses(c) ==
  /\ Open(c)
  /\ served' = [served EXCEPT ![c] = IF @ = "unbound" THEN "half" ELSE "closed"]
  /\ fromClient' = [fromClient EXCEPT ![c] = <<>>]
  /\ \E k \in 0..Len(toClient[c]) : toClient' = [toClient EXCEPT ![c] = SubSeq(@, 1, k)]
  /\ UNCHANGED <<client, active, mailbox, run, reply, driver, lost>>

(* closeSession, deleteSession, or a lease that is over.                   *)
SessionEnds(c) ==
  /\ c \in active
  /\ active' = active \ {c}
  /\ UNCHANGED <<client, served, mailbox, toClient, fromClient, run, reply, driver, lost>>

(* A request is read from the mailbox, sent, and deleted.                  *)
Pump(c) ==
  /\ served[c] = "bound" /\ mailbox[c] # <<>>
  /\ SendToClient(c, [kind |-> "request", r |-> Head(mailbox[c])])
  /\ mailbox' = [mailbox EXCEPT ![c] = Taken(@)]
  /\ UNCHANGED <<client, served, active, fromClient, run, reply, driver, lost>>

(* publishResponse of an envelope, to the reply mailbox of its request:    *)
(* it needs the session, and may fail.  What nobody will read is not kept. *)
PublishResponse(c) ==
  LET e == Head(fromClient[c])  r == e.r IN
  /\ served[c] = "bound" /\ fromClient[c] # <<>>
  /\ fromClient' = [fromClient EXCEPT ![c] = Tail(@)]
  /\ \/ ~Streaming(r) /\ UNCHANGED <<reply, lost>>
     \/ /\ Streaming(r) /\ c \in active
        /\ \E box \in Added(reply[r], e) :
             /\ reply' = [reply EXCEPT ![r] = box]
             /\ lost' = IF Len(box) > Len(reply[r]) THEN lost ELSE lost \cup {r}
     \/ /\ Streaming(r) /\ UNCHANGED reply
        /\ lost' = IF c \in active THEN lost \cup {r} ELSE lost
  /\ UNCHANGED <<client, gateway, toClient, run, driver>>

-----------------------------------------------------------------------------
(* The server: invoke of the driver                                        *)

Fails(r) == driver' = [driver EXCEPT ![r].st = "failed"]

(* findSessionBySource                                                     *)
Invoke(r) ==
  /\ driver[r].st = "new"
  /\ \/ \E c \in active : driver' = [driver EXCEPT ![r] = [@ EXCEPT !.st = "found", !.conn = c]]
     \/ Fails(r)
  /\ UNCHANGED <<client, gateway, toClient, fromClient, run, reply, lost>>

(* publishRequestAndWait: a step after the publication may fail as well,   *)
(* and then nobody waits for the replies.                                  *)
Publish(r) ==
  LET c == driver[r].conn IN
  /\ driver[r].st = "found"
  /\ \/ /\ c \in active
        /\ \E box \in Added(mailbox[c], r) : mailbox' = [mailbox EXCEPT ![c] = box]
        /\ driver' = [driver EXCEPT ![r].st = "reading"] \/ Fails(r)
     \/ Fails(r) /\ UNCHANGED mailbox
  /\ UNCHANGED <<client, served, active, toClient, fromClient, run, reply, lost>>

IsTerminalAccepted(e) == e.kind # "chunk" \* mutant: every response is terminal

(* isTerminalReplyEnvelope                                                 *)
IsTerminal(e) == e.kind \in {"end", "error"}

(* readReplyEnvelopes, the NDJSON stream and consumeGatewayResponses: the  *)
(* replies are read in order and deleted.  The response ends after a       *)
(* terminal one, and the stream is closed when the response ends.          *)
Read(r) ==
  LET e == Head(reply[r])  d == driver[r] IN
  /\ Streaming(r) /\ reply[r] # <<>>
  /\ reply' = [reply EXCEPT ![r] = IF e.kind \in {"accepted", "chunk"} THEN Taken(@) ELSE <<>>]
  /\ driver' = [driver EXCEPT ![r] =
       [d EXCEPT !.got = IF e.kind = "chunk" THEN Append(@, e.n) ELSE @,
                 !.st = IF e.kind = "error" THEN "failed"
                        ELSE IF IsTerminal(e) THEN "closed" ELSE @]]
  /\ UNCHANGED <<client, gateway, toClient, fromClient, run, lost>>

(* The deadline, a failing read, or the end of the gateway node.           *)
ReadFails(r) ==
  /\ Streaming(r)
  /\ Fails(r)
  /\ reply' = [reply EXCEPT ![r] = <<>>]
  /\ UNCHANGED <<client, gateway, toClient, fromClient, run, lost>>

-----------------------------------------------------------------------------
(* The last connection is not lost (bound).                                *)
Faults == \E c \in Conns :
  c < MaxConns /\ (SocketCloses(c) \/ GatewayCloses(c) \/ SessionEnds(c))

(* An end of a connection closes after the other, or with its process.     *)
Closing(c) ==
  \/ socket[c] /\ ~Open(c) /\ toClient[c] = <<>> /\ SocketCloses(c)
  \/ socket[c] /\ loop = "ended" /\ SocketCloses(c)
  \/ ~socket[c] /\ fromClient[c] = <<>> /\ GatewayCloses(c)
  \/ ~Open(c) /\ SessionEnds(c)

Serve ==
  \E c \in Conns :
    \/ BoundArrives(c) \/ RequestArrives(c)
    \/ Bind(c) \/ Pump(c) \/ PublishResponse(c) \/ Closing(c)

Next ==
  \/ Connect \/ Quit \/ Serve \/ Faults
  \/ \E r \in Requests :
       Invoke(r) \/ Publish(r) \/ Read(r) \/ ReadFails(r) \/ ToolEnds(r)

Spec == Init /\ [][Next]_vars

(* The event loops and the network make progress.                          *)
FairSpec == Spec /\ WF_vars(Connect) /\ WF_vars(Serve) /\ WF_vars(\E r \in Requests : ToolEnds(r))

-----------------------------------------------------------------------------
(* Properties                                                              *)

(* Every variable holds what its declaration says.                         *)
TypeOK ==
  /\ loop \in Loops /\ attempt \in 0..MaxConns /\ quit \in BOOLEAN
  /\ socket \in [Conns -> BOOLEAN] /\ served \in [Conns -> Served]
  /\ active \subseteq Conns
  /\ mailbox \in [Conns -> Seq(Requests)]
  /\ toClient \in [Conns -> Seq(Messages)] /\ fromClient \in [Conns -> Seq(Frames)]
  /\ \A c \in Conns : /\ toClient[c] # <<>> => socket[c]
                      /\ fromClient[c] # <<>> => Open(c)
  /\ run \in [Requests -> RunRecord] /\ reply \in [Requests -> Seq(Frames)]
  /\ driver \in [Requests -> DriverRecord]
  /\ lost \subseteq Requests

(* A stream that ends without an error delivered the chunks of its tool,   *)
(* each once and in order, whatever connections were lost and timeouts hit; *)
(* and no stream ever delivers anything else first.  Excused: a request of *)
(* which the gateway failed to publish a reply, or trimmed one.            *)
StreamsAreWhole ==
  \A r \in Requests \ lost :
    /\ \A i \in DOMAIN driver[r].got : driver[r].got[i] = i
    /\ driver[r].st = "closed" => Len(driver[r].got) = run[r].made

(* README.en.md of the CLI: reconnect is enabled by default.  A session    *)
(* that its user has not closed would be connected again and again.        *)
Connected == loop = "bound" /\ served[attempt] = "bound" /\ attempt \in active
Reconnects == []<>(Connected \/ quit)
=============================================================================

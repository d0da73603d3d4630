------------------------------ MODULE ToolRun ------------------------------
(***************************************************************************)
(* One run of a tool from end to end: runToolStream of the SDK client      *)
(* (sdk/client/src/tool-stream.ts, transport.ts), the run-stream route of  *)
(* the server (apps/server/src/routes/tool.route.ts), ToolManager.run      *)
(* (tool.impl.ts) and the stream of its messages (stream.vo.ts).           *)
(*                                                                         *)
(* The runtime that fills the stream is external here, and may write any   *)
(* messages, end or fail at any time: modules PluginService and IpcChannel *)
(* model the one of installed plugins, DebugInvocation the one of plugins  *)
(* in debugging.                                                           *)
(*                                                                         *)
(* Abstracted: payloads (a message is its kind and its number), bytes (a   *)
(* read ends after a message or within one), headers, the texts and codes  *)
(* of errors, logs.                                                        *)
(***************************************************************************)
EXTENDS Naturals, Sequences

CONSTANTS
  MaxMessages   \* bound: messages a tool writes

VARIABLES
  at,        \* the handler of the route: what it awaits
  data,      \* the StreamData: buffered messages, and how it ended
  tool,      \* the runtime: "none", "running", "over"
  written,   \* history: the messages the tool has written
  http,      \* the ReadableStream of the response
  link,      \* the connection of client and server
  wire,      \* the messages on it
  cut,       \* the client has read a part of the first of them
  client,    \* the client: what it awaits, or the result
  buffer,    \* that part is in its buffer
  heard      \* the messages given to onMessage

server == <<at, data, http>>
connection == <<link, wire, cut>>
caller == <<client, buffer, heard>>
vars == <<server, tool, written, connection, caller>>

Kinds == {"stream", "response", "error"}
Messages == [kind : Kinds, n : 0..MaxMessages]

NoData == [buf |-> <<>>, st |-> "none"]

Init ==
  /\ at = "idle" /\ data = NoData /\ tool = "none" /\ written = <<>>
  /\ http = "none" /\ link = "none" /\ wire = <<>> /\ cut = FALSE
  /\ client = "new" /\ buffer = FALSE /\ heard = <<>>

-----------------------------------------------------------------------------
(* The client: RunToolWithStream.run, requestResponse                      *)

(* A request that does not parse is an error and is not sent.              *)
Request ==
  /\ client = "new"
  /\ \/ client' = "requesting" /\ link' = "up" /\ at' = "lookup"
     \/ client' = "error" /\ UNCHANGED <<link, at>>
  /\ UNCHANGED <<data, tool, written, http, wire, cut, buffer, heard>>

(* A response that is not ok is thrown as an error (buildError).           *)
ResponseArrives ==
  /\ client = "requesting" /\ link = "up"
  /\ \/ at = "refused" /\ client' = "error"
     \/ http # "none" /\ client' = "reading"
  /\ UNCHANGED <<server, tool, written, connection, buffer, heard>>

Hangs == link' = "down" /\ wire' = <<>> /\ cut' = FALSE

RestNothing(begun) == FALSE \* mutant: the buffer is cleared after each read

(* buffer = chunks.pop(): what a read leaves, the part of a message that   *)
(* is not complete.                                                        *)
Rest(begun) == begun

(* The messages that a read of the first n completes; the end of one whose *)
(* beginning is not in the buffer does not parse, and is passed over.      *)
Parsed(n) == IF cut /\ ~buffer THEN SubSeq(wire, 2, n) ELSE SubSeq(wire, 1, n)

IsTerminal(m) == m.kind \in {"response", "error"}

(* One read of the body: all chunks but the last of buffer.split('\n\n')   *)
(* are handled, up to a terminal one, after which the reader is cancelled. *)
Handle(messages) ==
  LET terminal == {i \in DOMAIN messages : IsTerminal(messages[i])}
  IN \/ /\ terminal = {}
        /\ heard' = heard \o messages
        /\ UNCHANGED <<client, link>>
     \/ \E t \in terminal :
          /\ \A i \in terminal : t <= i
          /\ heard' = heard \o SubSeq(messages, 1, t - 1)
          /\ client' = IF messages[t].kind = "response" THEN "output" ELSE "error"
          /\ link' = "down"

(* It reads n messages to their end, and may have begun the next.          *)
ReadBody ==
  /\ client = "reading" /\ link = "up"
  /\ \E n \in 0..Len(wire), begun \in BOOLEAN :
       /\ begun => n < Len(wire) /\ (n = 0 => ~cut)
       /\ n = 0 => begun
       /\ buffer' = Rest(begun)
       /\ Handle(Parsed(n))
       /\ IF link' = "down" THEN wire' = <<>> /\ cut' = FALSE
          ELSE wire' = SubSeq(wire, n + 1, Len(wire)) /\ cut' = begun
  /\ UNCHANGED <<server, tool, written>>

(* onMessage throws: the run ends with its error, the body is not read on. *)
ListenerThrows ==
  /\ client = "reading" /\ link = "up" /\ wire # <<>> /\ Head(wire).kind = "stream"
  /\ client' = "error"
  /\ UNCHANGED <<server, tool, written, connection, buffer, heard>>

(* The body ends without a terminal message: what is left is parsed, and   *)
(* there is none in half a message.                                        *)
BodyEnds ==
  /\ client = "reading" /\ link = "up" /\ wire = <<>> /\ http = "closed"
  /\ client' = "error"
  /\ UNCHANGED <<server, tool, written, connection, buffer, heard>>

(* The caller aborts (signal), or the connection is lost.                  *)
Abort ==
  /\ client \in {"requesting", "reading"} /\ link = "up"
  /\ client' = "error" /\ Hangs
  /\ UNCHANGED <<server, tool, written, buffer, heard>>

-----------------------------------------------------------------------------
(* The server: the route, makeToolRunUC and ToolManager.run                *)

(* getPluginByUserPluginId.                                                *)
Lookup ==
  /\ at = "lookup"
  /\ at' \in {"invoke", "refused"}
  /\ UNCHANGED <<data, tool, written, http, connection, caller>>

(* invoke of the runtime that CompositePluginRuntimeManager chooses.  An   *)
(* error that is returned or thrown (a source in debugging without a user) *)
(* is the response.  Otherwise the stream is consumed from now on.         *)
Invoke ==
  /\ at = "invoke"
  /\ \/ at' = "refused" /\ UNCHANGED <<data, tool, http>>
     \/ /\ at' = "consuming"
        /\ data' = [buf |-> <<>>, st |-> "open"]
        /\ tool' = "running"
        /\ http' = "open"
  /\ UNCHANGED <<written, connection, caller>>

(* controller.enqueue: what is sent on a lost connection is lost.          *)
Send(m) ==
  wire' = IF link = "up" THEN Append(wire, m) ELSE wire

(* The consumer of values() takes a message.  It throws when the response  *)
(* is cancelled, and so do the error message and the close after it; the   *)
(* loop that is left destroys the stream.                                  *)
Consume ==
  /\ at = "consuming" /\ data.buf # <<>>
  /\ IF http = "open"
     THEN Send(Head(data.buf)) /\ data' = [data EXCEPT !.buf = Tail(@)] /\ UNCHANGED at
     ELSE at' = "over" /\ data' = [buf |-> <<>>, st |-> "failed"] /\ UNCHANGED wire
  /\ UNCHANGED <<tool, written, http, link, cut, caller>>

ConsumeEndsOpen == \* mutant: only a failed stream closes the response
  /\ at = "consuming" /\ data.buf = <<>> /\ data.st # "open"
  /\ at' = "over"
  /\ http' = IF http = "open" /\ data.st = "failed" THEN "closed" ELSE http
  /\ IF data.st = "failed" /\ http = "open"
     THEN Send([kind |-> "error", n |-> 0]) ELSE UNCHANGED wire
  /\ UNCHANGED <<data, tool, written, link, cut, caller>>

(* The stream has ended or failed: the error is the last message.          *)
ConsumeEnds ==
  /\ at = "consuming" /\ data.buf = <<>> /\ data.st # "open"
  /\ at' = "over"
  /\ http' = IF http = "open" THEN "closed" ELSE http
  /\ IF data.st = "failed" /\ http = "open"
     THEN Send([kind |-> "error", n |-> 0]) ELSE UNCHANGED wire
  /\ UNCHANGED <<data, tool, written, link, cut, caller>>

CloseData == IF data.st = "open" THEN [data EXCEPT !.st = "ended"] ELSE data

CancelKeeping == \* mutant: cancel does not close the result
  /\ http = "open" /\ link = "down"
  /\ http' = "cancelled"
  /\ UNCHANGED <<at, data, tool, written, connection, caller>>

(* cancel of the ReadableStream, when its connection is gone.              *)
Cancel ==
  /\ http = "open" /\ link = "down"
  /\ http' = "cancelled"
  /\ data' = CloseData
  /\ UNCHANGED <<at, tool, written, connection, caller>>

-----------------------------------------------------------------------------
(* The runtime: StreamData.write, close, fail                              *)

(* write throws when the stream is closed, and the runtime gives up.       *)
Write ==
  /\ tool = "running" /\ Len(written) < MaxMessages
  /\ IF data.st = "open"
     THEN \E kind \in Kinds :
            LET m == [kind |-> kind, n |-> Len(written) + 1]
            IN /\ data' = [data EXCEPT !.buf = Append(@, m)]
               /\ written' = Append(written, m)
               /\ UNCHANGED tool
     ELSE tool' = "over" /\ UNCHANGED <<data, written>>
  /\ UNCHANGED <<at, http, connection, caller>>

(* close; or fail, which discards the messages nobody has read.            *)
ToolEnds ==
  /\ tool = "running"
  /\ tool' = "over"
  /\ \/ data' = CloseData
     \/ data' = IF at = "over" THEN data ELSE [buf |-> <<>>, st |-> "failed"]
  /\ UNCHANGED <<at, written, http, connection, caller>>

-----------------------------------------------------------------------------
Serve == Lookup \/ Invoke \/ Consume \/ ConsumeEnds \/ Cancel
Call == ResponseArrives \/ ReadBody \/ BodyEnds

Next ==
  \/ Request \/ Call \/ ListenerThrows \/ Abort
  \/ Serve
  \/ Write \/ ToolEnds

Spec == Init /\ [][Next]_vars

(* The event loops of client and server make progress; a tool need not.    *)
FairSpec == Spec /\ WF_vars(Call) /\ WF_vars(Serve)

-----------------------------------------------------------------------------
(* Properties                                                              *)

(* Every variable holds what its declaration says.                         *)
TypeOK ==
  /\ at \in {"idle", "lookup", "invoke", "refused", "consuming", "over"}
  /\ data.st \in {"none", "open", "ended", "failed"} /\ data.buf \in Seq(Messages)
  /\ tool \in {"none", "running", "over"} /\ written \in Seq(Messages)
  /\ http \in {"none", "open", "closed", "cancelled"} /\ link \in {"none", "up", "down"}
  /\ wire \in Seq(Messages) /\ cut \in BOOLEAN /\ buffer \in BOOLEAN
  /\ client \in {"new", "requesting", "reading", "output", "error"}
  /\ heard \in Seq(Messages)

(* What the caller hears is what the tool said: onMessage gets its stream  *)
(* messages in order, each once, whatever the pieces they arrive in; and   *)
(* an output is the first terminal message the tool wrote, after all the   *)
(* stream messages before it.                                              *)
AnswersAreTrue ==
  /\ Len(heard) <= Len(written)
  /\ \A i \in DOMAIN heard : heard[i] = written[i] /\ written[i].kind = "stream"
  /\ client = "output" =>
       Len(heard) < Len(written) /\ written[Len(heard) + 1].kind = "response"

(* A tool whose caller is gone loses its stream, so that the runtime stops *)
(* it, without waiting for the tool to write or to end.                    *)
AbortsReachTheTool == link = "down" /\ data.st = "open" ~> data.st # "open"

(* Every call ends when its tool does, or fails to be found or to start.   *)
CallsEnd == (at = "refused" \/ tool = "over") /\ client # "new" ~> client \in {"output", "error"}
=============================================================================

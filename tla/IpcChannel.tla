----------------------------- MODULE IpcChannel -----------------------------
(***************************************************************************)
(* The IPC channel between a pod and its child process:                    *)
(* drivers/channel/ipc.ts (PluginIpcRuntimeChannel) on both sides, with    *)
(* the calls local-pool/pod/index.ts and service/index.ts make on the host *)
(* and sdk/factory makes in the child.                                     *)
(*                                                                         *)
(* The host sends runs, each answered with an output stream; the plugin    *)
(* sends reverse calls, an upload among them with an input stream.  Both   *)
(* kinds of stream flow from the child to the host, and a request has one  *)
(* at most: the name, the id and the request of a stream are one value.    *)
(*                                                                         *)
(* The pipe keeps the order of the messages of a direction.  The handlers  *)
(* of both event loops run to their next await, one message per step.      *)
(***************************************************************************)
EXTENDS Naturals, Sequences

CONSTANTS
  Runs,      \* host.request: tool runs
  Calls,     \* client.request: reverse calls of the plugin
  Uploads,   \* the calls that pass options.input
  MaxChunks  \* bound on the chunks of a stream

ASSUME IpcAssumption ==
  /\ Runs \cap Calls = {}
  /\ Uploads \subseteq Calls
  /\ MaxChunks \in Nat

Streams == Runs \cup Uploads

VARIABLES
  toClient, toHost,  \* messages in the pipe
  alive,             \* the child process exists
  writer, sent,      \* child: the writable of a stream and the chunks written to it
  handler,           \* child: the request handler of a run
  call,              \* child: what became of a reverse call (its `pending` map)
  open,              \* host: ~this.closed
  killed,            \* host: the pod was killed or has failed
  run,               \* host: what became of a run (its `pending` map)
  served,            \* host: the request handler of a reverse call
  incoming,          \* host: incomingStreams
  buffered,          \* host: bufferedIncomingStreams
  waiters,           \* host: pendingStreamWaiters
  data, got,         \* host: the StreamData of a stream and the chunks written to it
  heard              \* host: the streams with an error listener

childVars  == <<writer, sent, handler, call>>
streamVars == <<incoming, buffered, waiters, data, got, heard>>
vars == <<toClient, toHost, alive, childVars, open, killed, run, served, streamVars>>

(* "value", "stream" (hasOutputStream) and "error" are responses; a chunk   *)
(* carries its number in its stream.                                       *)
ToClient == [type : {"request"}, id : Runs, n : {0}]
            \cup [type : {"value", "error"}, id : Calls, n : {0}]
ToHost == [type : {"request"}, id : Calls, n : {0}]
          \cup [type : {"stream", "error"}, id : Runs, n : {0}]
          \cup [type : {"start", "end"}, id : Streams, n : {0}]
          \cup [type : {"fail"}, id : Uploads, n : {0}]
          \cup [type : {"chunk"}, id : Streams, n : 1..MaxChunks]

Msg(t, id) == [type |-> t, id |-> id, n |-> 0]

(* "output": request() awaits waitForStream after the response.            *)
RunState == {"new", "pending", "output", "done", "failed"}
CallState == {"new", "pending", "done", "failed"}

(* "input": the handler awaits waitForStream; "reading": it consumes the   *)
(* upload; "answering": what it answers does not depend on the stream.     *)
ServedState == {"none", "input", "reading", "answering", "replied"}
WriterState == {"none", "open", "ended", "failed"}

(* "dropped": the host itself ended or destroyed it before its end.        *)
DataState == {"none", "open", "ended", "failed", "dropped"}

Init ==
  /\ toClient = <<>> /\ toHost = <<>> /\ alive = TRUE
  /\ writer = [s \in Streams |-> "none"] /\ sent = [s \in Streams |-> 0]
  /\ handler = [r \in Runs |-> "none"] /\ call = [q \in Calls |-> "new"]
  /\ open = TRUE /\ killed = FALSE
  /\ run = [r \in Runs |-> "new"] /\ served = [q \in Calls |-> "none"]
  /\ incoming = {} /\ buffered = {} /\ waiters = {}
  /\ data = [s \in Streams |-> "none"] /\ got = [s \in Streams |-> <<>>]
  /\ heard = {}

-----------------------------------------------------------------------------
(* Host: requests and the end of the channel                               *)

(* rejectAllPending, rejectAllPendingStreamWaiters, failAllIncomingStreams *)
FailsAll ==
  /\ run' = [r \in Runs |-> IF run[r] \in {"pending", "output"} THEN "failed" ELSE run[r]]
  /\ served' = [q \in Calls |-> IF q \in waiters THEN "answering" ELSE served[q]]
  /\ data' = [s \in Streams |->
                IF s \in incoming /\ data[s] = "open" THEN "failed" ELSE data[s]]
  /\ incoming' = {} /\ buffered' = {} /\ waiters' = {}

(* close(): what is pending is rejected, what is open fails, and no later  *)
(* message is listened to.                                                 *)
Close ==
  /\ open' = FALSE
  /\ toHost' = <<>>
  /\ FailsAll
  /\ UNCHANGED <<got, heard>>

(* emitError() reaches PluginPod.handleError: close and kill.              *)
Breaks ==
  /\ Close
  /\ killed' = TRUE

(* PluginPod.invoke on an available pod.  A pod whose process is gone is   *)
(* available until its exit is handled: the send fails and so does invoke. *)
HostInvokes(r) ==
  /\ run[r] = "new" /\ open /\ ~killed
  /\ run' = [run EXCEPT ![r] = IF alive THEN "pending" ELSE "failed"]
  /\ toClient' = IF alive THEN Append(toClient, Msg("request", r)) ELSE toClient
  /\ killed' = ~alive
  /\ UNCHANGED <<toHost, alive, childVars, open, served, streamVars>>

(* The timer of request(): the catch block of invoke kills the pod.        *)
RunTimesOutKeepingPod(r) == \* mutant
  /\ run[r] = "pending"
  /\ run' = [run EXCEPT ![r] = "failed"]
  /\ UNCHANGED <<toClient, toHost, alive, childVars, open, killed, served, streamVars>>

RunTimesOut(r) ==
  /\ run[r] = "pending"
  /\ run' = [run EXCEPT ![r] = "failed"]
  /\ killed' = TRUE
  /\ UNCHANGED <<toClient, toHost, alive, childVars, open, served, streamVars>>

(* handleExit                                                              *)
HostSeesExit ==
  /\ ~alive /\ open
  /\ Breaks
  /\ UNCHANGED <<toClient, alive, childVars>>

-----------------------------------------------------------------------------
(* Host: messages                                                          *)

HostTakes(t) == open /\ toHost # <<>> /\ Head(toHost).type = t /\ toHost' = Tail(toHost)

Sender == Head(toHost).id

(* A response to a run that is not pending any more is ignored.            *)
LateResponse ==
  /\ \E t \in {"stream", "error"} : HostTakes(t)
  /\ Sender \in Runs /\ run[Sender] # "pending"
  /\ UNCHANGED <<toClient, alive, childVars, open, killed, run, served, streamVars>>

(* invoke rejects and kills the pod.                                       *)
ErrorResponse ==
  /\ HostTakes("error")
  /\ Sender \in Runs /\ run[Sender] = "pending"
  /\ run' = [run EXCEPT ![Sender] = "failed"]
  /\ killed' = TRUE
  /\ UNCHANGED <<toClient, alive, childVars, open, served, streamVars>>

(* waitForStream: the stream is buffered, or its start is waited for.      *)
Claim(s) ==
  /\ IF s \in buffered THEN heard' = heard \cup {s} /\ UNCHANGED waiters
                       ELSE waiters' = waiters \cup {s} /\ UNCHANGED heard
  /\ buffered' = buffered \ {s}
  /\ UNCHANGED <<incoming, data, got>>

StreamResponse ==
  /\ HostTakes("stream")
  /\ run[Sender] = "pending"
  /\ run' = [run EXCEPT ![Sender] = IF Sender \in buffered THEN "done" ELSE "output"]
  /\ Claim(Sender)
  /\ UNCHANGED <<toClient, alive, childVars, open, killed, served>>

(* dispatchIncomingStream: to the waiter of that name, or to the buffer.   *)
StreamStarts ==
  /\ HostTakes("start")
  /\ incoming' = incoming \cup {Sender}
  /\ data' = [data EXCEPT ![Sender] = "open"]
  /\ IF Sender \in waiters
     THEN /\ waiters' = waiters \ {Sender}
          /\ heard' = heard \cup {Sender}
          /\ run' = [r \in Runs |-> IF r = Sender THEN "done" ELSE run[r]]
          /\ served' = [q \in Calls |-> IF q = Sender THEN "reading" ELSE served[q]]
          /\ UNCHANGED buffered
     ELSE /\ buffered' = buffered \cup {Sender}
          /\ UNCHANGED <<waiters, heard, run, served>>
  /\ UNCHANGED <<toClient, alive, childVars, open, killed, got>>

Writable(s) == s \in incoming /\ data[s] = "open"

ChunkArrives ==
  /\ HostTakes("chunk")
  /\ Writable(Sender)
  /\ got' = [got EXCEPT ![Sender] = Append(@, Head(toHost).n)]
  /\ UNCHANGED <<toClient, alive, childVars, open, killed, run, served, incoming, buffered,
                 waiters, data, heard>>

(* "Stream not found", or write() of a StreamData that is closed: the      *)
(* error goes to the error handlers of the channel.                        *)
ChunkRefused ==
  /\ open /\ toHost # <<>> /\ Head(toHost).type = "chunk"
  /\ ~Writable(Sender)
  /\ Breaks
  /\ UNCHANGED <<toClient, alive, childVars>>

StreamFinishes(outcome) ==
  /\ incoming' = incoming \ {Sender}
  /\ data' = IF Writable(Sender) THEN [data EXCEPT ![Sender] = outcome] ELSE data
  /\ UNCHANGED <<toClient, alive, childVars, open, killed, run, served, buffered, waiters,
                 got, heard>>

StreamEnds == HostTakes("end") /\ StreamFinishes("ended")

StreamFailsAsEnd == HostTakes("fail") /\ StreamFinishes("ended") \* mutant

StreamFails == HostTakes("fail") /\ StreamFinishes("failed")

(* PluginPod.routeClientRequest: an upload claims its stream first, then   *)
(* permission and session decide; a stream that is not used is discarded.  *)
CallArrives ==
  /\ HostTakes("request")
  /\ \/ /\ Sender \in Uploads
        /\ Claim(Sender)
        /\ \E next \in {"reading", "answering"} :
             served' = [served EXCEPT ![Sender] = IF Sender \in buffered THEN next ELSE "input"]
     \/ /\ Sender \notin Uploads
        /\ served' = [served EXCEPT ![Sender] = "answering"]
        /\ UNCHANGED streamVars
  /\ UNCHANGED <<toClient, alive, childVars, open, killed, run>>

-----------------------------------------------------------------------------
(* Host: consumers of streams and handlers of reverse calls                *)

Drop(s) == data' = [data EXCEPT ![s] = "dropped"]

(* The HTTP client of the run goes away: result.close().                   *)
RunCancelled(r) ==
  /\ run[r] = "done" /\ data[r] = "open"
  /\ Drop(r)
  /\ UNCHANGED <<toClient, toHost, alive, childVars, open, killed, run, served, incoming,
                 buffered, waiters, got, heard>>

(* The timer of bindStreamLifecycle: pod.kill() and result.fail().         *)
StreamTimesOut(r) ==
  /\ run[r] = "done" /\ data[r] = "open"
  /\ Drop(r)
  /\ killed' = TRUE
  /\ UNCHANGED <<toClient, toHost, alive, childVars, open, run, served, incoming, buffered,
                 waiters, got, heard>>

(* toBuffer() throws on a chunk: leaving its loop destroys the stream.     *)
UploadRejected(q) ==
  /\ q \in Uploads /\ served[q] = "reading" /\ data[q] = "open" /\ got[q] # <<>>
  /\ Drop(q)
  /\ served' = [served EXCEPT ![q] = "answering"]
  /\ UNCHANGED <<toClient, toHost, alive, childVars, open, killed, run, incoming, buffered,
                 waiters, got, heard>>

(* The handler has its answer; reply() sends also on a closed channel, as  *)
(* long as the process is there.                                           *)
Answered(q, t) ==
  \/ served[q] = "answering" /\ (q \in Uploads => t = "error")
  \/ served[q] = "reading" /\ data[q] = "ended"
  \/ served[q] = "reading" /\ data[q] = "failed" /\ t = "error"

HostReplies(q) ==
  /\ alive
  /\ \E t \in {"value", "error"} : Answered(q, t) /\ toClient' = Append(toClient, Msg(t, q))
  /\ served' = [served EXCEPT ![q] = "replied"]
  /\ UNCHANGED <<toHost, alive, childVars, open, killed, run, streamVars>>

(* The send fails, and so does the send of the error: emitError.           *)
HostReplyFails(q) ==
  /\ ~alive /\ open
  /\ \E t \in {"value", "error"} : Answered(q, t)
  /\ Breaks
  /\ UNCHANGED <<toClient, alive, childVars>>

-----------------------------------------------------------------------------
(* Child                                                                   *)

(* A send to a host that has closed its channel succeeds and is not heard. *)
SendToHost(ms) == toHost' = IF open THEN toHost \o ms ELSE toHost

hostSide == <<open, killed, run, served, streamVars>>

RunArrives ==
  /\ alive /\ toClient # <<>> /\ Head(toClient).type = "request"
  /\ toClient' = Tail(toClient)
  /\ handler' = [handler EXCEPT ![Head(toClient).id] = "running"]
  /\ UNCHANGED <<toHost, alive, writer, sent, call, hostSide>>

(* A response to a call that is not pending any more is ignored.           *)
AnswerArrives ==
  /\ alive /\ toClient # <<>> /\ Head(toClient).type # "request"
  /\ toClient' = Tail(toClient)
  /\ LET m == Head(toClient) IN
     call' = IF call[m.id] # "pending" THEN call
             ELSE [call EXCEPT ![m.id] = IF m.type = "value" THEN "done" ELSE "failed"]
  /\ UNCHANGED <<toHost, alive, writer, sent, handler, hostSide>>

(* handleReplyDescriptor: pipeStream sends its start frame before the      *)
(* reply is sent.                                                          *)
RepliesThenPipes(r) == \* mutant
  /\ alive /\ handler[r] = "running"
  /\ handler' = [handler EXCEPT ![r] = "replied"]
  /\ writer' = [writer EXCEPT ![r] = "open"]
  /\ SendToHost(<<Msg("stream", r), Msg("start", r)>>)
  /\ UNCHANGED <<toClient, alive, sent, call, hostSide>>

RepliesWithStream(r) ==
  /\ alive /\ handler[r] = "running"
  /\ handler' = [handler EXCEPT ![r] = "replied"]
  /\ writer' = [writer EXCEPT ![r] = "open"]
  /\ SendToHost(<<Msg("start", r), Msg("stream", r)>>)
  /\ UNCHANGED <<toClient, alive, sent, call, hostSide>>

(* The handler throws: replyError.                                         *)
RepliesError(r) ==
  /\ alive /\ handler[r] = "running"
  /\ handler' = [handler EXCEPT ![r] = "replied"]
  /\ SendToHost(<<Msg("error", r)>>)
  /\ UNCHANGED <<toClient, alive, writer, sent, call, hostSide>>

(* request() with options.input: the start frame, then the request.        *)
PluginCalls(q) ==
  /\ alive /\ call[q] = "new"
  /\ call' = [call EXCEPT ![q] = "pending"]
  /\ writer' = [s \in Streams |-> IF s = q THEN "open" ELSE writer[s]]
  /\ SendToHost((IF q \in Uploads THEN <<Msg("start", q)>> ELSE <<>>) \o <<Msg("request", q)>>)
  /\ UNCHANGED <<toClient, alive, sent, handler, hostSide>>

CallTimesOut(q) ==
  /\ alive /\ call[q] = "pending"
  /\ call' = [call EXCEPT ![q] = "failed"]
  /\ UNCHANGED <<toClient, toHost, alive, writer, sent, handler, hostSide>>

(* pipeStream: a chunk, the end of the source, or its failure (the source  *)
(* of a run's output, a StreamData of the SDK, does not fail).             *)
WritesAfterEnd(s) == \* mutant: write() does not look at `closed`
  /\ alive /\ writer[s] \in {"open", "ended"} /\ sent[s] < MaxChunks
  /\ sent' = [sent EXCEPT ![s] = @ + 1]
  /\ SendToHost(<<[type |-> "chunk", id |-> s, n |-> sent[s] + 1]>>)
  /\ UNCHANGED <<toClient, alive, writer, handler, call, hostSide>>

Writes(s) ==
  /\ alive /\ writer[s] = "open" /\ sent[s] < MaxChunks
  /\ sent' = [sent EXCEPT ![s] = @ + 1]
  /\ SendToHost(<<[type |-> "chunk", id |-> s, n |-> sent[s] + 1]>>)
  /\ UNCHANGED <<toClient, alive, writer, handler, call, hostSide>>

EndsStream(s) ==
  /\ alive /\ writer[s] = "open"
  /\ writer' = [writer EXCEPT ![s] = "ended"]
  /\ SendToHost(<<Msg("end", s)>>)
  /\ UNCHANGED <<toClient, alive, sent, handler, call, hostSide>>

FailsStream(q) ==
  /\ alive /\ q \in Uploads /\ writer[q] = "open"
  /\ writer' = [writer EXCEPT ![q] = "failed"]
  /\ SendToHost(<<Msg("fail", q)>>)
  /\ UNCHANGED <<toClient, alive, sent, handler, call, hostSide>>

(* The process exits; what it has sent can still be read, or be lost.      *)
ChildExits ==
  /\ alive
  /\ alive' = FALSE
  /\ toClient' = <<>>
  /\ UNCHANGED <<toHost, childVars, hostSide>>

-----------------------------------------------------------------------------
HostStep ==
  \/ \E r \in Runs : HostInvokes(r) \/ RunTimesOut(r) \/ RunCancelled(r) \/ StreamTimesOut(r)
  \/ \E q \in Calls : UploadRejected(q) \/ HostReplies(q) \/ HostReplyFails(q)
  \/ HostSeesExit

HostReceives ==
  \/ LateResponse \/ ErrorResponse \/ StreamResponse
  \/ StreamStarts \/ ChunkArrives \/ ChunkRefused \/ StreamEnds \/ StreamFails
  \/ CallArrives

ChildStep ==
  \/ RunArrives \/ AnswerArrives
  \/ \E r \in Runs : RepliesWithStream(r) \/ RepliesError(r)
  \/ \E q \in Calls : PluginCalls(q) \/ CallTimesOut(q) \/ FailsStream(q)
  \/ \E s \in Streams : Writes(s) \/ EndsStream(s)
  \/ ChildExits

Next == HostStep \/ HostReceives \/ ChildStep

Spec == Init /\ [][Next]_vars

(* The timers of the host fire, a killed process exits (kill() escalates   *)
(* to SIGKILL) and its exit event is delivered.                            *)
Fairness ==
  /\ \A r \in Runs : WF_vars(RunTimesOut(r)) /\ WF_vars(StreamTimesOut(r))
  /\ WF_vars(killed /\ ChildExits)
  /\ WF_vars(HostSeesExit)

FairSpec == Spec /\ Fairness
-----------------------------------------------------------------------------
(* Properties                                                              *)

(* Every variable has its type; a stream is waited for only by a request   *)
(* that may have one.                                                      *)
TypeOK ==
  /\ toClient \in Seq(ToClient) /\ toHost \in Seq(ToHost)
  /\ alive \in BOOLEAN /\ open \in BOOLEAN /\ killed \in BOOLEAN
  /\ writer \in [Streams -> WriterState] /\ sent \in [Streams -> 0..MaxChunks]
  /\ handler \in [Runs -> {"none", "running", "replied"}] /\ call \in [Calls -> CallState]
  /\ run \in [Runs -> RunState] /\ served \in [Calls -> ServedState]
  /\ incoming \subseteq Streams /\ buffered \subseteq Streams
  /\ waiters \subseteq Streams /\ heard \subseteq Streams
  /\ data \in [Streams -> DataState] /\ got \in [Streams -> Seq(1..MaxChunks)]

(* waitForStream never waits: the start of a stream always overtakes the   *)
(* message that makes the host ask for it, so that no request depends on   *)
(* the timer of a waiter.                                                  *)
NobodyWaits == waiters = {}

(* A stream the host has read to its end, and an upload the plugin is told *)
(* has succeeded, were written to their end and delivered every chunk in   *)
(* order, although a stream is filled before it is claimed and although    *)
(* either side may give up at any moment.                                  *)
StreamsAreWhole ==
  \A s \in Streams :
    data[s] = "ended" \/ (s \in Uploads /\ call[s] = "done") =>
      writer[s] = "ended" /\ got[s] = [i \in 1..sent[s] |-> i]

(* A closed channel leaves nothing behind: nobody awaits a response or a   *)
(* stream, and every stream has ended or failed.                           *)
ClosedIsClean ==
  ~open => /\ incoming = {} /\ buffered = {} /\ waiters = {}
           /\ \A r \in Runs : run[r] \notin {"pending", "output"}
           /\ \A s \in Streams : data[s] # "open"

(* While its process lives, a pod loses its channel, and with it all its   *)
(* requests, only by a chunk of a stream the host itself has dropped: a    *)
(* cancelled or timed out run, or an upload it could not read.             *)
BreaksOnlyWhenDropped ==
  [][open /\ ~open' /\ alive => \E s \in Streams : data[s] = "dropped"]_vars

(* Every run ends, answered or not, and so does the stream it may have     *)
(* opened, also one nobody has claimed.                                    *)
RunsEnd ==
  \A r \in Runs : run[r] = "pending" ~> run[r] \in {"done", "failed"} /\ data[r] # "open"

(* "isolate plugin execution in separate processes": the failure of a      *)
(* stream always has a listener.  A Readable destroyed with an error that  *)
(* nobody listens to is an uncaught exception of the host process.         *)
FailuresAreHeard ==
  [][\A s \in Streams : data[s] = "open" /\ data'[s] = "failed" => s \in heard]_vars
=============================================================================

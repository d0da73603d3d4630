-------------------------- MODULE IpcChannelProofs --------------------------
(***************************************************************************)
(* Safety of the channel between a pod and its process, for every set of   *)
(* requests and streams of any length.                                     *)
(***************************************************************************)
EXTENDS IpcChannel, SequenceTheorems, TLAPS

(* What a message may be, by its type.                                     *)
LEMMA Messages ==
  ASSUME NEW m \in ToHost
  PROVE  /\ m.type \in {"stream", "error"} => m.id \in Runs
         /\ m.type = "request" => m.id \in Calls
         /\ m.type \in {"start", "end", "chunk"} => m.id \in Streams
         /\ m.type = "fail" => m.id \in Uploads
         /\ m.type = "chunk" => m.n \in 1..MaxChunks
BY DEF ToHost

(* What a client is sent, by its type.                                     *)
LEMMA Answers ==
  ASSUME NEW m \in ToClient
  PROVE  /\ m.type = "request" => m.id \in Runs
         /\ m.type # "request" => m.id \in Calls
BY DEF ToClient

(* A message the child sends joins the end of the pipe, if it is heard.    *)
LEMMA SendTypes ==
  ASSUME toHost \in Seq(ToHost), NEW ms \in Seq(ToHost), SendToHost(ms)
  PROVE  toHost' \in Seq(ToHost)
BY ConcatProperties DEF SendToHost

(* Taking a message keeps the types of the pipe.                           *)
LEMMA TakeTypes ==
  ASSUME toHost \in Seq(ToHost), NEW t, HostTakes(t)
  PROVE  /\ toHost' \in Seq(ToHost) /\ Head(toHost) \in ToHost
         /\ Head(toHost).type = t
BY HeadTailProperties DEF HostTakes

(* The same of the pipe to the child.                                      *)
LEMMA ClientTypes ==
  ASSUME toClient \in Seq(ToClient), toClient # <<>>
  PROVE  Tail(toClient) \in Seq(ToClient) /\ Head(toClient) \in ToClient
BY HeadTailProperties

(* What the child puts into the pipe.                                      *)
LEMMA SentMessages ==
  /\ \A q \in Calls : Msg("request", q) \in ToHost
  /\ \A r \in Runs : Msg("stream", r) \in ToHost /\ Msg("error", r) \in ToHost
  /\ \A s \in Streams : Msg("start", s) \in ToHost /\ Msg("end", s) \in ToHost
  /\ \A q \in Uploads : Msg("fail", q) \in ToHost
  /\ \A s \in Streams, k \in 1..MaxChunks : [type |-> "chunk", id |-> s, n |-> k] \in ToHost
BY DEF Msg, ToHost

(* What the host puts into the pipe.                                       *)
LEMMA SentAnswers ==
  /\ \A r \in Runs : Msg("request", r) \in ToClient
  /\ \A q \in Calls : Msg("value", q) \in ToClient /\ Msg("error", q) \in ToClient
BY DEF Msg, ToClient

-----------------------------------------------------------------------------
(* Types                                                                   *)

(* The initial state has its types.                                        *)
LEMMA InitTypes == Init => TypeOK
<1> SUFFICES ASSUME Init PROVE TypeOK
  OBVIOUS
<1>1. toClient \in Seq(ToClient) /\ toHost \in Seq(ToHost)
  BY EmptySeq DEF Init
<1>2. sent \in [Streams -> 0..MaxChunks] /\ got \in [Streams -> Seq(1..MaxChunks)]
  BY IpcAssumption, EmptySeq DEF Init
<1> QED BY <1>1, <1>2
        DEF Init, TypeOK, WriterState, CallState, RunState, ServedState, DataState

(* close() keeps the types.                                                *)
LEMMA CloseTypes ==
  ASSUME TypeOK, Close, UNCHANGED <<toClient, alive, childVars>>, killed' \in BOOLEAN
  PROVE  TypeOK'
BY EmptySeq
DEF Close, FailsAll, TypeOK, childVars, RunState, ServedState, DataState

(* A step of the host on its own keeps the types.                          *)
LEMMA HostStepTypes == TypeOK /\ HostStep => TypeOK'
<1> SUFFICES ASSUME TypeOK, HostStep PROVE TypeOK'
  OBVIOUS
<1>1. ASSUME NEW r \in Runs, HostInvokes(r) PROVE TypeOK'
  <2>1. toClient' \in Seq(ToClient)
    BY <1>1, SentAnswers, AppendProperties DEF HostInvokes, TypeOK
  <2> QED BY <1>1, <2>1 DEF HostInvokes, TypeOK, RunState, childVars, streamVars
<1>2. ASSUME NEW r \in Runs, RunTimesOut(r) PROVE TypeOK'
  BY <1>2 DEF RunTimesOut, TypeOK, RunState, childVars, streamVars
<1>3. ASSUME NEW r \in Runs, RunCancelled(r) PROVE TypeOK'
  BY <1>3 DEF RunCancelled, Drop, TypeOK, DataState, childVars, Streams
<1>4. ASSUME NEW r \in Runs, StreamTimesOut(r) PROVE TypeOK'
  BY <1>4 DEF StreamTimesOut, Drop, TypeOK, DataState, childVars, Streams
<1>5. ASSUME NEW q \in Calls, UploadRejected(q) PROVE TypeOK'
  BY <1>5 DEF UploadRejected, Drop, TypeOK, DataState, ServedState, childVars, Streams
<1>6. ASSUME NEW q \in Calls, HostReplies(q) PROVE TypeOK'
  <2>1. toClient' \in Seq(ToClient)
    BY <1>6, SentAnswers, AppendProperties DEF HostReplies, TypeOK
  <2> QED BY <1>6, <2>1 DEF HostReplies, TypeOK, ServedState, childVars, streamVars
<1>7. ASSUME NEW q \in Calls, HostReplyFails(q) PROVE TypeOK'
  BY <1>7, CloseTypes DEF HostReplyFails, Breaks
<1>8. CASE HostSeesExit
  BY <1>8, CloseTypes DEF HostSeesExit, Breaks
<1> QED BY <1>1, <1>2, <1>3, <1>4, <1>5, <1>6, <1>7, <1>8 DEF HostStep

(* A message keeps the types.                                              *)
LEMMA HostReceivesTypes == TypeOK /\ HostReceives => TypeOK'
<1> SUFFICES ASSUME TypeOK, HostReceives PROVE TypeOK'
  OBVIOUS
<1>0. toHost \in Seq(ToHost)
  BY DEF TypeOK
<1>1. CASE LateResponse
  BY <1>0, <1>1, TakeTypes DEF LateResponse, TypeOK, childVars, streamVars
<1>2. CASE ErrorResponse
  BY <1>0, <1>2, TakeTypes DEF ErrorResponse, TypeOK, RunState, childVars, streamVars
<1>3. CASE StreamResponse
  <2>1. toHost' \in Seq(ToHost) /\ Sender \in Runs
    BY <1>0, <1>3, TakeTypes, Messages DEF StreamResponse, Sender
  <2>2. run' \in [Runs -> RunState]
    BY <1>3, <2>1 DEF StreamResponse, TypeOK, RunState
  <2> QED BY <1>3, <2>1, <2>2 DEF StreamResponse, Claim, TypeOK, childVars, Streams
<1>4. CASE StreamStarts
  <2>1. toHost' \in Seq(ToHost) /\ Sender \in Streams
    BY <1>0, <1>4, TakeTypes, Messages DEF StreamStarts, Sender
  <2>2. run' \in [Runs -> RunState] /\ served' \in [Calls -> ServedState]
    BY <1>4, <2>1 DEF StreamStarts, TypeOK, RunState, ServedState
  <2>3. data' \in [Streams -> DataState]
    BY <1>4, <2>1 DEF StreamStarts, TypeOK, DataState
  <2> QED BY <1>4, <2>1, <2>2, <2>3 DEF StreamStarts, TypeOK, childVars
<1>5. CASE ChunkArrives
  <2>1. toHost' \in Seq(ToHost) /\ Sender \in Streams /\ Head(toHost).n \in 1..MaxChunks
    BY <1>0, <1>5, TakeTypes, Messages DEF ChunkArrives, Sender
  <2>2. got' \in [Streams -> Seq(1..MaxChunks)]
    BY <1>5, <2>1, AppendProperties DEF ChunkArrives, TypeOK
  <2> QED BY <1>5, <2>1, <2>2 DEF ChunkArrives, TypeOK, childVars
<1>6. CASE ChunkRefused
  BY <1>6, CloseTypes DEF ChunkRefused, Breaks
<1>7. CASE StreamEnds
  BY <1>0, <1>7, TakeTypes DEF StreamEnds, StreamFinishes, TypeOK, DataState, childVars
<1>8. CASE StreamFails
  BY <1>0, <1>8, TakeTypes DEF StreamFails, StreamFinishes, TypeOK, DataState, childVars
<1>9. CASE CallArrives
  <2>1. toHost' \in Seq(ToHost) /\ Sender \in Calls
    BY <1>0, <1>9, TakeTypes, Messages DEF CallArrives, Sender
  <2>2. served' \in [Calls -> ServedState]
    BY <1>9, <2>1 DEF CallArrives, TypeOK, ServedState
  <2> QED BY <1>9, <2>1, <2>2 DEF CallArrives, Claim, TypeOK, childVars, streamVars, Streams
<1> QED BY <1>1, <1>2, <1>3, <1>4, <1>5, <1>6, <1>7, <1>8, <1>9 DEF HostReceives

(* A step of the child keeps the types.                                    *)
LEMMA ChildStepTypes == TypeOK /\ ChildStep => TypeOK'
<1> SUFFICES ASSUME TypeOK, ChildStep PROVE TypeOK'
  OBVIOUS
<1> USE DEF hostSide, streamVars
<1>0. toHost \in Seq(ToHost) /\ toClient \in Seq(ToClient)
  BY DEF TypeOK
<1>1. CASE RunArrives
  <2>1. toClient' \in Seq(ToClient) /\ Head(toClient).id \in Runs
    BY <1>0, <1>1, ClientTypes, Answers DEF RunArrives
  <2> QED BY <1>1, <2>1 DEF RunArrives, TypeOK
<1>2. CASE AnswerArrives
  <2>1. toClient' \in Seq(ToClient) /\ Head(toClient).id \in Calls
    BY <1>0, <1>2, ClientTypes, Answers DEF AnswerArrives
  <2>2. call' \in [Calls -> CallState]
    BY <1>2, <2>1 DEF AnswerArrives, TypeOK, CallState
  <2> QED BY <1>2, <2>1, <2>2 DEF AnswerArrives, TypeOK
<1>3. ASSUME NEW r \in Runs, RepliesWithStream(r) PROVE TypeOK'
  <2>1. <<Msg("start", r), Msg("stream", r)>> \in Seq(ToHost)
    BY SentMessages DEF Streams
  <2>2. toHost' \in Seq(ToHost)
    BY <1>0, <1>3, <2>1, SendTypes DEF RepliesWithStream
  <2> QED BY <1>3, <2>2 DEF RepliesWithStream, TypeOK, WriterState
<1>4. ASSUME NEW r \in Runs, RepliesError(r) PROVE TypeOK'
  <2>1. <<Msg("error", r)>> \in Seq(ToHost)
    BY SentMessages
  <2>2. toHost' \in Seq(ToHost)
    BY <1>0, <1>4, <2>1, SendTypes DEF RepliesError
  <2> QED BY <1>4, <2>2 DEF RepliesError, TypeOK
<1>5. ASSUME NEW q \in Calls, PluginCalls(q) PROVE TypeOK'
  <2>1. <<Msg("start", q)>> \o <<Msg("request", q)>> \in Seq(ToHost) \/ q \notin Uploads
    BY SentMessages, ConcatProperties DEF Streams
  <2>2. <<>> \o <<Msg("request", q)>> \in Seq(ToHost)
    BY SentMessages, ConcatProperties
  <2>3. toHost' \in Seq(ToHost)
    BY <1>0, <1>5, <2>1, <2>2, SendTypes DEF PluginCalls
  <2> QED BY <1>5, <2>3 DEF PluginCalls, TypeOK, WriterState, CallState
<1>6. ASSUME NEW q \in Calls, CallTimesOut(q) PROVE TypeOK'
  BY <1>6 DEF CallTimesOut, TypeOK, CallState
<1>7. ASSUME NEW q \in Calls, FailsStream(q) PROVE TypeOK'
  <2>1. <<Msg("fail", q)>> \in Seq(ToHost)
    BY <1>7, SentMessages DEF FailsStream
  <2>2. toHost' \in Seq(ToHost)
    BY <1>0, <1>7, <2>1, SendTypes DEF FailsStream
  <2> QED BY <1>7, <2>2 DEF FailsStream, TypeOK, WriterState
<1>8. ASSUME NEW s \in Streams, Writes(s) PROVE TypeOK'
  <2>1. sent[s] + 1 \in 1..MaxChunks
    BY <1>8, IpcAssumption DEF Writes, TypeOK
  <2>2. <<[type |-> "chunk", id |-> s, n |-> sent[s] + 1]>> \in Seq(ToHost)
    BY <2>1, SentMessages
  <2>3. toHost' \in Seq(ToHost)
    BY <1>0, <1>8, <2>2, SendTypes DEF Writes
  <2> QED BY <1>8, <2>1, <2>3 DEF Writes, TypeOK
<1>9. ASSUME NEW s \in Streams, EndsStream(s) PROVE TypeOK'
  <2>1. <<Msg("end", s)>> \in Seq(ToHost)
    BY SentMessages
  <2>2. toHost' \in Seq(ToHost)
    BY <1>0, <1>9, <2>1, SendTypes DEF EndsStream
  <2> QED BY <1>9, <2>2 DEF EndsStream, TypeOK, WriterState
<1>10. CASE ChildExits
  BY <1>10, EmptySeq DEF ChildExits, TypeOK, childVars
<1> QED BY <1>1, <1>2, <1>3, <1>4, <1>5, <1>6, <1>7, <1>8, <1>9, <1>10 DEF ChildStep

(* Every variable has its type in every reachable state, whatever the two  *)
(* processes do.                                                           *)
THEOREM TypeCorrect == Spec => []TypeOK
<1>1. Init => TypeOK
  BY InitTypes
<1>2. TypeOK /\ [Next]_vars => TypeOK'
  <2> SUFFICES ASSUME TypeOK, [Next]_vars PROVE TypeOK'
    OBVIOUS
  <2>1. CASE UNCHANGED vars
    BY <2>1 DEF vars, childVars, streamVars, TypeOK
  <2> QED BY <2>1, HostStepTypes, HostReceivesTypes, ChildStepTypes DEF Next
<1> QED BY <1>1, <1>2, PTL DEF Spec

-----------------------------------------------------------------------------
(* Inductive invariants                                                    *)

(* A stream that is open is one the channel will fail when it closes.      *)
Tracked == \A s \in Streams : data[s] = "open" => s \in incoming

CloseInv == ClosedIsClean /\ Tracked

(* The start of stream s is in the pipe p before position i.               *)
Started(p, s, i) == \E j \in 1..(i - 1) : p[j].type = "start" /\ p[j].id = s

(* A message that claims a stream comes after the start of the stream, and *)
(* comes once: a response while its run is not over, a call before it is   *)
(* served.                                                                 *)
ResponsesFollowStarts ==
  \A i \in 1..Len(toHost) :
    toHost[i].type = "stream" /\ run[toHost[i].id] \in {"new", "pending"} =>
      toHost[i].id \in buffered \/ Started(toHost, toHost[i].id, i)

RequestsFollowStarts ==
  \A i \in 1..Len(toHost) :
    toHost[i].type = "request" =>
      /\ served[toHost[i].id] = "none" /\ call[toHost[i].id] # "new"
      /\ toHost[i].id \in Uploads =>
           toHost[i].id \in buffered \/ Started(toHost, toHost[i].id, i)

RequestsAreSentOnce ==
  /\ \A q \in Calls : call[q] = "new" => served[q] = "none"
  /\ \A i, j \in 1..Len(toHost) :
       toHost[i].type = "request" /\ toHost[j].type = "request"
         /\ toHost[i].id = toHost[j].id => i = j

WaitInv == NobodyWaits /\ ResponsesFollowStarts /\ RequestsFollowStarts /\ RequestsAreSentOnce

(* At position i of the pipe p the host still takes chunks of stream s,    *)
(* unless it drops the stream itself.                                      *)
Unfinished(p, s, j, i) ==
  \A k \in (j + 1)..(i - 1) : ~(p[k].type \in {"end", "fail"} /\ p[k].id = s)

Live(p, in, s, i) ==
  \/ s \in in /\ Unfinished(p, s, 0, i)
  \/ \E j \in 1..(i - 1) : p[j].type = "start" /\ p[j].id = s /\ Unfinished(p, s, j, i)

IncomingIsOpen == \A s \in incoming : data[s] \in {"open", "dropped"}

ChunksAreLive ==
  \A i \in 1..Len(toHost) : toHost[i].type = "chunk" => Live(toHost, incoming, toHost[i].id, i)

WritersAreLive ==
  open => \A s \in Streams : writer[s] = "open" => Live(toHost, incoming, s, Len(toHost) + 1)

LiveInv == IncomingIsOpen /\ ChunksAreLive /\ WritersAreLive

-----------------------------------------------------------------------------
(* The pipe by positions                                                   *)

(* What the host takes is the first message; the others move up by one.    *)
LEMMA Taken ==
  ASSUME TypeOK, NEW t, HostTakes(t)
  PROVE  /\ Len(toHost) \in Nat /\ Len(toHost) >= 1
         /\ toHost[1].type = t /\ toHost[1].id = Sender
         /\ Len(toHost') = Len(toHost) - 1
         /\ \A i \in 1..Len(toHost') : toHost'[i] = toHost[i + 1]
<1>1. toHost \in Seq(ToHost) /\ toHost # <<>> /\ toHost' = Tail(toHost) /\ Head(toHost).type = t
  BY DEF TypeOK, HostTakes
<1>2. Len(toHost) \in Nat \ {0}
  BY <1>1, EmptySeq
<1>3. Head(toHost) = toHost[1]
  BY <1>1
<1> QED BY <1>1, <1>2, <1>3, HeadTailProperties DEF Sender

(* What the child sends comes after what is in the pipe.                   *)
LEMMA SentAfter ==
  ASSUME TypeOK, NEW ms \in Seq(ToHost), SendToHost(ms)
  PROVE  /\ Len(toHost) \in Nat /\ Len(toHost') \in Nat
         /\ \A i \in 1..Len(toHost) : i \in 1..Len(toHost') /\ toHost'[i] = toHost[i]
         /\ Len(toHost') = IF open THEN Len(toHost) + Len(ms) ELSE Len(toHost)
         /\ open => \A k \in 1..Len(ms) : toHost'[Len(toHost) + k] = ms[k]
<1>1. toHost \in Seq(ToHost) /\ Len(toHost) \in Nat /\ Len(ms) \in Nat
  BY LenProperties DEF TypeOK
<1>2. CASE open
  <2>1. toHost' = toHost \o ms
    BY <1>2 DEF SendToHost
  <2>2. Len(toHost') = Len(toHost) + Len(ms)
    BY <1>1, <2>1, ConcatProperties
  <2>3. \A i \in 1..(Len(toHost) + Len(ms)) :
          toHost'[i] = IF i <= Len(toHost) THEN toHost[i] ELSE ms[i - Len(toHost)]
    BY <1>1, <2>1, ConcatProperties
  <2>4. \A i \in 1..Len(toHost) : toHost'[i] = toHost[i]
    BY <1>1, <2>3
  <2>5. ASSUME NEW k \in 1..Len(ms) PROVE toHost'[Len(toHost) + k] = ms[k]
    <3>1. Len(toHost) + k \in 1..(Len(toHost) + Len(ms)) /\ ~(Len(toHost) + k <= Len(toHost))
      BY <1>1
    <3>2. Len(toHost) + k - Len(toHost) = k
      BY <1>1
    <3> QED BY <2>3, <3>1, <3>2
  <2> QED BY <1>1, <1>2, <2>2, <2>4, <2>5
<1>3. CASE ~open
  BY <1>1, <1>3 DEF SendToHost
<1> QED BY <1>2, <1>3

(* The messages of the pipe are of the types ToHost lists.                 *)
LEMMA InThePipe ==
  ASSUME TypeOK, NEW i \in 1..Len(toHost)
  PROVE  toHost[i] \in ToHost
BY ElementOfSeq DEF TypeOK

-----------------------------------------------------------------------------
(* The end of the channel                                                  *)

(* close() leaves nothing behind.                                          *)
LEMMA CloseCleans == TypeOK /\ CloseInv /\ Close => CloseInv'
BY DEF TypeOK, CloseInv, ClosedIsClean, Tracked, Close, FailsAll, RunState

(* What the channel has to fail when it closes stays on its books.         *)
LEMMA CloseStep == TypeOK /\ CloseInv /\ [Next]_vars => CloseInv'
<1> SUFFICES ASSUME TypeOK, CloseInv, [Next]_vars PROVE CloseInv'
  OBVIOUS
<1> USE DEF CloseInv, ClosedIsClean, Tracked
<1>1. ASSUME NEW r \in Runs, HostInvokes(r) PROVE CloseInv'
  BY <1>1 DEF HostInvokes, TypeOK, streamVars
<1>2. ASSUME NEW r \in Runs, RunTimesOut(r) PROVE CloseInv'
  BY <1>2 DEF RunTimesOut, TypeOK, streamVars
<1>3. ASSUME NEW r \in Runs, RunCancelled(r) \/ StreamTimesOut(r) PROVE CloseInv'
  BY <1>3 DEF RunCancelled, StreamTimesOut, Drop, TypeOK
<1>4. ASSUME NEW q \in Calls, UploadRejected(q) PROVE CloseInv'
  BY <1>4 DEF UploadRejected, Drop, TypeOK
<1>5. ASSUME NEW q \in Calls, HostReplies(q) PROVE CloseInv'
  BY <1>5 DEF HostReplies, streamVars
<1>6. ASSUME (\E q \in Calls : HostReplyFails(q)) \/ HostSeesExit \/ ChunkRefused
      PROVE  CloseInv'
  BY <1>6, CloseCleans DEF HostReplyFails, HostSeesExit, ChunkRefused, Breaks
<1>7. CASE LateResponse
  BY <1>7 DEF LateResponse, streamVars
<1>8. CASE ErrorResponse
  BY <1>8 DEF ErrorResponse, HostTakes, streamVars
<1>9. CASE StreamResponse
  BY <1>9 DEF StreamResponse, HostTakes, Claim
<1>10. CASE StreamStarts
  BY <1>10 DEF StreamStarts, HostTakes, TypeOK
<1>11. CASE ChunkArrives
  BY <1>11 DEF ChunkArrives, HostTakes
<1>12. ASSUME NEW o \in {"ended", "failed"}, StreamFinishes(o), open PROVE CloseInv'
  BY <1>12 DEF StreamFinishes, Writable, TypeOK
<1>13. CASE StreamEnds \/ StreamFails
  BY <1>12, <1>13 DEF StreamEnds, StreamFails, HostTakes
<1>14. CASE CallArrives
  BY <1>14 DEF CallArrives, HostTakes, Claim, streamVars
<1>15. CASE ChildStep
  BY <1>15 DEF ChildStep, RunArrives, AnswerArrives, RepliesWithStream, RepliesError,
       PluginCalls, CallTimesOut, FailsStream, Writes, EndsStream, ChildExits, hostSide, streamVars
<1>16. CASE UNCHANGED vars
  BY <1>16 DEF vars, streamVars
<1> QED BY <1>1, <1>2, <1>3, <1>4, <1>5, <1>6, <1>7, <1>8, <1>9, <1>10, <1>11, <1>13, <1>14,
           <1>15, <1>16 DEF Next, HostStep, HostReceives

(* A closed channel leaves nothing behind: no request or stream is waited  *)
(* for, and no stream is left open, whatever was in flight when it closed. *)
THEOREM ClosedClean == Spec => []ClosedIsClean
<1>1. Init => CloseInv
  BY DEF Init, CloseInv, ClosedIsClean, Tracked
<1>2. TypeOK /\ CloseInv /\ [Next]_vars => CloseInv'
  BY CloseStep
<1>3. CloseInv => ClosedIsClean
  BY DEF CloseInv
<1> QED BY <1>1, <1>2, <1>3, TypeCorrect, PTL DEF Spec

-----------------------------------------------------------------------------
(* The start of a stream overtakes what claims it                          *)

(* Taking a message keeps the starts before the others, but for its own.   *)
LEMMA StartsMoveUp ==
  ASSUME TypeOK, NEW t, HostTakes(t), NEW s, NEW i \in 1..Len(toHost'),
         Started(toHost, s, i + 1)
  PROVE  Started(toHost', s, i) \/ (t = "start" /\ s = Sender)
<1>1. PICK j \in 1..i : toHost[j].type = "start" /\ toHost[j].id = s
  BY Taken DEF Started
<1>2. CASE j = 1
  BY <1>1, <1>2, Taken
<1>3. CASE j # 1
  <2>1. j - 1 \in 1..(i - 1) /\ j - 1 \in 1..Len(toHost') /\ j - 1 + 1 = j
    BY <1>3, Taken
  <2>2. toHost'[j - 1] = toHost[j]
    BY <2>1, Taken
  <2> QED BY <1>1, <2>1, <2>2 DEF Started
<1> QED BY <1>2, <1>3

(* Sending keeps the starts before what is in the pipe.                    *)
LEMMA StartsStay ==
  ASSUME TypeOK, NEW ms \in Seq(ToHost), SendToHost(ms),
         NEW s, NEW i \in 1..Len(toHost), Started(toHost, s, i)
  PROVE  Started(toHost', s, i)
BY SentAfter DEF Started

(* Taking a message keeps the responses behind the starts, if the buffer   *)
(* gains the stream that starts and loses none of a run that goes on.      *)
LEMMA TakeResponses ==
  ASSUME TypeOK, NEW t, HostTakes(t), ResponsesFollowStarts,
         \A r \in Runs : run'[r] \in {"new", "pending"} =>
           /\ run[r] \in {"new", "pending"}
           /\ r \in buffered \/ (t = "start" /\ r = Sender) => r \in buffered'
  PROVE  ResponsesFollowStarts'
<1> SUFFICES ASSUME NEW i \in 1..Len(toHost'),
                    toHost'[i].type = "stream", run'[toHost'[i].id] \in {"new", "pending"}
             PROVE  toHost'[i].id \in buffered' \/ Started(toHost', toHost'[i].id, i)
  BY DEF ResponsesFollowStarts
<1>1. i + 1 \in 1..Len(toHost) /\ toHost'[i] = toHost[i + 1]
  BY Taken
<1>2. toHost'[i].id \in Runs
  BY <1>1, InThePipe, Messages
<1>3. toHost[i + 1].id \in buffered \/ Started(toHost, toHost[i + 1].id, i + 1)
  BY <1>1, <1>2 DEF ResponsesFollowStarts
<1> QED BY <1>1, <1>2, <1>3, StartsMoveUp

(* The same of the requests: a call that is served had its only request    *)
(* taken.                                                                  *)
LEMMA TakeRequests ==
  ASSUME TypeOK, NEW t, HostTakes(t), RequestsFollowStarts, RequestsAreSentOnce,
         UNCHANGED call,
         \A q \in Calls : t # "request" \/ q # Sender =>
           /\ served'[q] = served[q]
           /\ q \in buffered \/ (t = "start" /\ q = Sender) => q \in buffered'
  PROVE  RequestsFollowStarts' /\ RequestsAreSentOnce'
<1>1. ASSUME NEW i \in 1..Len(toHost'), toHost'[i].type = "request"
      PROVE  /\ served'[toHost'[i].id] = "none" /\ call'[toHost'[i].id] # "new"
             /\ toHost'[i].id \in Uploads =>
                  toHost'[i].id \in buffered' \/ Started(toHost', toHost'[i].id, i)
  <2>1. i + 1 \in 1..Len(toHost) /\ i + 1 # 1 /\ 1 \in 1..Len(toHost) /\ toHost'[i] = toHost[i + 1]
    BY Taken
  <2>2. toHost'[i].id \in Calls
    BY <1>1, <2>1, InThePipe, Messages
  <2>3. t # "request" \/ toHost'[i].id # Sender
    BY <1>1, <2>1, Taken DEF RequestsAreSentOnce
  <2>4. /\ served[toHost[i + 1].id] = "none" /\ call[toHost[i + 1].id] # "new"
        /\ toHost[i + 1].id \in Uploads =>
             toHost[i + 1].id \in buffered \/ Started(toHost, toHost[i + 1].id, i + 1)
    BY <1>1, <2>1 DEF RequestsFollowStarts
  <2> QED BY <2>1, <2>2, <2>3, <2>4, StartsMoveUp
<1>2. RequestsFollowStarts'
  BY <1>1 DEF RequestsFollowStarts
<1>3. ASSUME NEW q \in Calls, call'[q] = "new" PROVE served'[q] = "none"
  <2>1. t # "request" \/ q # Sender
    BY <1>3, Taken DEF RequestsFollowStarts
  <2> QED BY <1>3, <2>1 DEF RequestsAreSentOnce
<1>4. ASSUME NEW i \in 1..Len(toHost'), NEW j \in 1..Len(toHost'),
             toHost'[i].type = "request", toHost'[j].type = "request",
             toHost'[i].id = toHost'[j].id
      PROVE  i = j
  <2>1. i + 1 \in 1..Len(toHost) /\ j + 1 \in 1..Len(toHost)
        /\ toHost'[i] = toHost[i + 1] /\ toHost'[j] = toHost[j + 1]
    BY Taken
  <2>2. i + 1 = j + 1
    BY <1>4, <2>1 DEF RequestsAreSentOnce
  <2> QED BY <2>2
<1> QED BY <1>2, <1>3, <1>4 DEF RequestsAreSentOnce

(* Sending a response keeps the order if the start of its stream is sent   *)
(* before it.                                                              *)
LEMMA SendResponses ==
  ASSUME TypeOK, NEW ms \in Seq(ToHost), SendToHost(ms), ResponsesFollowStarts,
         UNCHANGED <<run, buffered>>,
         \A k \in 1..Len(ms) : ms[k].type = "stream" =>
           \E l \in 1..(k - 1) : ms[l].type = "start" /\ ms[l].id = ms[k].id
  PROVE  ResponsesFollowStarts'
<1> SUFFICES ASSUME NEW i \in 1..Len(toHost'),
                    toHost'[i].type = "stream", run'[toHost'[i].id] \in {"new", "pending"}
             PROVE  toHost'[i].id \in buffered' \/ Started(toHost', toHost'[i].id, i)
  BY DEF ResponsesFollowStarts
<1>1. CASE i \in 1..Len(toHost)
  BY <1>1, SentAfter, StartsStay DEF ResponsesFollowStarts
<1>2. CASE i \notin 1..Len(toHost)
  <2>1. open /\ i - Len(toHost) \in 1..Len(ms) /\ Len(toHost) + (i - Len(toHost)) = i
    BY <1>2, SentAfter, LenProperties
  <2>2. toHost'[i] = ms[i - Len(toHost)]
    BY <2>1, SentAfter
  <2>3. PICK l \in 1..(i - Len(toHost) - 1) :
          ms[l].type = "start" /\ ms[l].id = toHost'[i].id
    BY <2>1, <2>2
  <2>4. l \in 1..Len(ms) /\ Len(toHost) + l \in 1..(i - 1)
    BY <2>1, <2>3, SentAfter, LenProperties
  <2>5. toHost'[Len(toHost) + l] = ms[l]
    BY <2>1, <2>4, SentAfter
  <2> QED BY <2>3, <2>4, <2>5 DEF Started
<1> QED BY <1>1, <1>2

(* Sending anything but a request keeps the requests in order.             *)
LEMMA SendNoRequest ==
  ASSUME TypeOK, NEW ms \in Seq(ToHost), SendToHost(ms),
         RequestsFollowStarts, RequestsAreSentOnce,
         UNCHANGED <<served, buffered, call>>,
         \A k \in 1..Len(ms) : ms[k].type # "request"
  PROVE  RequestsFollowStarts' /\ RequestsAreSentOnce'
<1>1. ASSUME NEW i \in 1..Len(toHost'), toHost'[i].type = "request"
      PROVE  i \in 1..Len(toHost) /\ toHost'[i] = toHost[i]
  <2>1. SUFFICES ASSUME i \notin 1..Len(toHost) PROVE FALSE
    BY SentAfter
  <2>2. open /\ i - Len(toHost) \in 1..Len(ms) /\ Len(toHost) + (i - Len(toHost)) = i
    BY <2>1, SentAfter, LenProperties
  <2>3. toHost'[i] = ms[i - Len(toHost)]
    BY <2>2, SentAfter
  <2> QED BY <1>1, <2>2, <2>3
<1>2. RequestsFollowStarts'
  BY <1>1, StartsStay DEF RequestsFollowStarts
<1>3. RequestsAreSentOnce'
  BY <1>1 DEF RequestsAreSentOnce
<1> QED BY <1>2, <1>3

(* The request of a new call is the only one, and comes after the start of *)
(* its stream.                                                             *)
LEMMA SendRequest ==
  ASSUME TypeOK, WaitInv, NEW q \in Calls, PluginCalls(q)
  PROVE  WaitInv'
<1> DEFINE ms == (IF q \in Uploads THEN <<Msg("start", q)>> ELSE <<>>) \o <<Msg("request", q)>>
<1>1. \/ /\ q \in Uploads /\ Len(ms) = 2
         /\ ms[1] = Msg("start", q) /\ ms[2] = Msg("request", q)
      \/ q \notin Uploads /\ Len(ms) = 1 /\ ms[1] = Msg("request", q)
  OBVIOUS
<1>2. ms \in Seq(ToHost)
  <2>1. <<Msg("request", q)>> \in Seq(ToHost) /\ <<>> \in Seq(ToHost)
    BY SentMessages
  <2>2. q \in Uploads => <<Msg("start", q)>> \in Seq(ToHost)
    BY SentMessages DEF Streams
  <2> QED BY <2>1, <2>2, ConcatProperties
<1>3. SendToHost(ms) /\ call[q] = "new" /\ call' = [call EXCEPT ![q] = "pending"]
      /\ UNCHANGED <<run, served, buffered, waiters>>
  BY DEF PluginCalls, hostSide, streamVars
<1> HIDE DEF ms
<1>4. ResponsesFollowStarts'
  BY <1>1, <1>2, <1>3, SendResponses DEF WaitInv, Msg
<1>9. ASSUME NEW k \in 1..Len(ms), ms[k].type = "request"
      PROVE  k = Len(ms) /\ ms[k] = Msg("request", q)
  <2>1. CASE k = 1
    BY <1>1, <1>9, <2>1 DEF Msg
  <2>2. CASE k # 1
    <3>1. q \in Uploads /\ Len(ms) = 2
      BY <1>1, <2>2
    <3>2. k = 2
      BY <2>2, <3>1
    <3> QED BY <1>1, <3>1, <3>2
  <2> QED BY <2>1, <2>2
<1>5. ASSUME NEW i \in 1..Len(toHost'), toHost'[i].type = "request"
      PROVE  \/ i \in 1..Len(toHost) /\ toHost'[i] = toHost[i] /\ toHost'[i].id # q
             \/ /\ i = Len(toHost') /\ i \notin 1..Len(toHost) /\ toHost'[i].id = q
                /\ q \in Uploads => Started(toHost', q, i)
  <2>1. CASE i \in 1..Len(toHost)
    BY <1>2, <1>3, <1>5, <2>1, SentAfter DEF WaitInv, RequestsFollowStarts
  <2>2. CASE i \notin 1..Len(toHost)
    <3>1. open /\ i - Len(toHost) \in 1..Len(ms) /\ Len(toHost) + (i - Len(toHost)) = i
          /\ Len(toHost') = Len(toHost) + Len(ms) /\ Len(toHost) \in Nat
      BY <1>1, <1>2, <1>3, <2>2, SentAfter
    <3>2. toHost'[i] = ms[i - Len(toHost)]
      BY <1>2, <1>3, <3>1, SentAfter
    <3>3. i = Len(toHost') /\ toHost'[i] = Msg("request", q)
      BY <1>5, <1>9, <3>1, <3>2
    <3>4. CASE q \in Uploads
      <4>1. toHost'[Len(toHost) + 1] = Msg("start", q)
        BY <1>1, <1>2, <1>3, <3>1, <3>4, SentAfter
      <4>2. Len(toHost) + 1 \in 1..(i - 1)
        BY <1>1, <3>1, <3>3, <3>4
      <4> QED BY <2>2, <3>3, <4>1, <4>2 DEF Started, Msg
    <3> QED BY <2>2, <3>3, <3>4 DEF Msg
  <2> QED BY <2>1, <2>2
<1>6. served[q] = "none"
  BY <1>3 DEF WaitInv, RequestsAreSentOnce
<1>7. RequestsFollowStarts'
  <2> SUFFICES ASSUME NEW i \in 1..Len(toHost'), toHost'[i].type = "request"
               PROVE  /\ served'[toHost'[i].id] = "none" /\ call'[toHost'[i].id] # "new"
                      /\ toHost'[i].id \in Uploads =>
                           toHost'[i].id \in buffered' \/ Started(toHost', toHost'[i].id, i)
    BY DEF RequestsFollowStarts
  <2>1. CASE i \in 1..Len(toHost) /\ toHost'[i] = toHost[i] /\ toHost'[i].id # q
    <3>1. /\ served[toHost[i].id] = "none" /\ call[toHost[i].id] # "new"
          /\ toHost[i].id \in Uploads =>
               toHost[i].id \in buffered \/ Started(toHost, toHost[i].id, i)
      BY <2>1 DEF WaitInv, RequestsFollowStarts
    <3>2. toHost[i].id \in Calls
      BY <2>1, InThePipe, Messages
    <3> QED BY <1>2, <1>3, <2>1, <3>1, <3>2, StartsStay DEF TypeOK
  <2>2. CASE toHost'[i].id = q /\ (q \in Uploads => Started(toHost', q, i))
    BY <1>3, <1>6, <2>2 DEF TypeOK
  <2> QED BY <1>5, <2>1, <2>2
<1>8. RequestsAreSentOnce'
  <2>1. \A c \in Calls : call'[c] = "new" => served'[c] = "none"
    BY <1>3 DEF WaitInv, RequestsAreSentOnce, TypeOK
  <2>2. ASSUME NEW i \in 1..Len(toHost'), NEW j \in 1..Len(toHost'),
               toHost'[i].type = "request", toHost'[j].type = "request",
               toHost'[i].id = toHost'[j].id
        PROVE  i = j
    <3>1. CASE toHost'[i].id = q
      BY <1>5, <2>2, <3>1
    <3>2. CASE toHost'[i].id # q
      BY <1>5, <2>2, <3>2 DEF WaitInv, RequestsAreSentOnce
    <3> QED BY <3>1, <3>2
  <2> QED BY <2>1, <2>2 DEF RequestsAreSentOnce
<1> QED BY <1>3, <1>4, <1>7, <1>8 DEF WaitInv, NobodyWaits

(* close() empties the pipe.                                               *)
LEMMA CloseWaits ==
  ASSUME TypeOK, WaitInv, Close, UNCHANGED call
  PROVE  WaitInv'
<1>1. Len(toHost') = 0 /\ waiters' = {} /\ UNCHANGED served
  BY DEF Close, FailsAll, WaitInv, NobodyWaits, TypeOK
<1> QED BY <1>1 DEF WaitInv, NobodyWaits, ResponsesFollowStarts, RequestsFollowStarts,
                    RequestsAreSentOnce

(* A step that touches neither the pipe nor the buffer and leaves the runs *)
(* that are over as they are.                                              *)
LEMMA QuietStep ==
  ASSUME TypeOK, WaitInv, UNCHANGED <<toHost, buffered, waiters>>,
         \A r \in Runs : run'[r] \in {"new", "pending"} => run[r] \in {"new", "pending"},
         \A q \in Calls : served'[q] = served[q] \/ served[q] # "none",
         \A q \in Calls : call'[q] = "new" <=> call[q] = "new",
         \A q \in Calls : served[q] # "none" => served'[q] # "none"
  PROVE  WaitInv'
<1>1. ASSUME NEW i \in 1..Len(toHost)
      PROVE  /\ toHost[i].type = "stream" => toHost[i].id \in Runs
             /\ toHost[i].type = "request" => toHost[i].id \in Calls
  BY InThePipe, Messages
<1>2. ResponsesFollowStarts'
  BY <1>1 DEF WaitInv, ResponsesFollowStarts, Started
<1>3. RequestsFollowStarts'
  BY <1>1 DEF WaitInv, RequestsFollowStarts, Started
<1>4. RequestsAreSentOnce'
  BY <1>1 DEF WaitInv, RequestsAreSentOnce
<1> QED BY <1>2, <1>3, <1>4 DEF WaitInv, NobodyWaits

(* The start of a stream always overtakes what claims it.                  *)
LEMMA WaitStep == TypeOK /\ WaitInv /\ [Next]_vars => WaitInv'
<1> SUFFICES ASSUME TypeOK, WaitInv, [Next]_vars PROVE WaitInv'
  OBVIOUS
<1> USE DEF NobodyWaits
<1>1. ASSUME NEW r \in Runs, HostInvokes(r) PROVE WaitInv'
  BY <1>1, QuietStep DEF HostInvokes, TypeOK, childVars, streamVars
<1>2. ASSUME NEW r \in Runs, RunTimesOut(r) PROVE WaitInv'
  BY <1>2, QuietStep DEF RunTimesOut, TypeOK, childVars, streamVars
<1>3. ASSUME NEW r \in Runs, RunCancelled(r) \/ StreamTimesOut(r) PROVE WaitInv'
  BY <1>3, QuietStep DEF RunCancelled, StreamTimesOut, childVars
<1>4. ASSUME NEW q \in Calls, UploadRejected(q) \/ HostReplies(q) PROVE WaitInv'
  <2>1. UNCHANGED <<toHost, buffered, waiters, run, call>>
    BY <1>4 DEF UploadRejected, HostReplies, childVars, streamVars
  <2>2. \A c \in Calls : /\ served'[c] = served[c] \/ served[c] # "none"
                         /\ served[c] # "none" => served'[c] # "none"
    BY <1>4 DEF UploadRejected, HostReplies, Answered, TypeOK
  <2> QED BY <2>1, <2>2, QuietStep
<1>5. ASSUME (\E q \in Calls : HostReplyFails(q)) \/ HostSeesExit \/ ChunkRefused
      PROVE  WaitInv'
  BY <1>5, CloseWaits DEF HostReplyFails, HostSeesExit, ChunkRefused, Breaks, childVars
<1>6. ASSUME NEW t, HostTakes(t), t # "request", UNCHANGED <<served, call, waiters>>,
             \A q \in Calls : q \in buffered \/ (t = "start" /\ q = Sender) => q \in buffered',
             \A r \in Runs : run'[r] \in {"new", "pending"} =>
               /\ run[r] \in {"new", "pending"}
               /\ r \in buffered \/ (t = "start" /\ r = Sender) => r \in buffered'
      PROVE  WaitInv'
  <2>1. ResponsesFollowStarts'
    BY <1>6, TakeResponses DEF WaitInv
  <2>2. RequestsFollowStarts' /\ RequestsAreSentOnce'
    BY <1>6, TakeRequests DEF WaitInv
  <2> QED BY <1>6, <2>1, <2>2 DEF WaitInv
<1>7. CASE LateResponse
  BY <1>6, <1>7 DEF LateResponse, childVars, streamVars
<1>8. CASE ErrorResponse
  <2>1. UNCHANGED <<served, call, waiters, buffered>> /\ HostTakes("error")
    BY <1>8 DEF ErrorResponse, childVars, streamVars
  <2>2. \A r \in Runs : run'[r] \in {"new", "pending"} => run[r] \in {"new", "pending"}
    BY <1>8 DEF ErrorResponse, TypeOK
  <2> QED BY <1>6, <2>1, <2>2
<1>9. CASE StreamResponse
  <2>1. HostTakes("stream") /\ run[Sender] = "pending" /\ UNCHANGED <<served, call>>
    BY <1>9 DEF StreamResponse, childVars
  <2>2. Sender \in Runs /\ Sender \in buffered
    <3>1. 1 \in 1..Len(toHost) /\ toHost[1].type = "stream" /\ toHost[1].id = Sender
      BY <2>1, Taken
    <3>2. Sender \in buffered \/ Started(toHost, Sender, 1)
      BY <2>1, <3>1 DEF WaitInv, ResponsesFollowStarts
    <3> QED BY <3>1, <3>2, InThePipe, Messages DEF Started
  <2>3. waiters' = waiters /\ buffered' = buffered \ {Sender}
    BY <1>9, <2>2 DEF StreamResponse, Claim
  <2>4. \A r \in Runs : run'[r] = IF r = Sender THEN "done" ELSE run[r]
    BY <1>9, <2>2 DEF StreamResponse, TypeOK
  <2>5. \A q \in Calls : q # Sender
    BY <2>2, IpcAssumption
  <2> QED BY <1>6, <2>1, <2>3, <2>4, <2>5
<1>10. CASE StreamStarts
  <2>1. HostTakes("start") /\ Sender \notin waiters
    BY <1>10 DEF StreamStarts, WaitInv
  <2>2. buffered' = buffered \cup {Sender} /\ UNCHANGED <<waiters, run, served, call>>
    BY <1>10, <2>1 DEF StreamStarts, childVars
  <2> QED BY <1>6, <2>1, <2>2
<1>11. CASE ChunkArrives
  BY <1>6, <1>11 DEF ChunkArrives, childVars
<1>12. CASE StreamEnds \/ StreamFails
  BY <1>6, <1>12 DEF StreamEnds, StreamFails, StreamFinishes, childVars
<1>13. CASE CallArrives
  <2>1. HostTakes("request") /\ UNCHANGED <<run, call>>
    BY <1>13 DEF CallArrives, childVars
  <2>2. Sender \in Calls /\ (Sender \in Uploads => Sender \in buffered)
    <3>1. 1 \in 1..Len(toHost) /\ toHost[1].type = "request" /\ toHost[1].id = Sender
      BY <2>1, Taken
    <3>2. Sender \in Uploads => Sender \in buffered \/ Started(toHost, Sender, 1)
      BY <3>1 DEF WaitInv, RequestsFollowStarts
    <3> QED BY <3>1, <3>2, InThePipe, Messages DEF Started
  <2>3. waiters' = waiters /\ (buffered' = buffered \ {Sender} \/ buffered' = buffered)
    BY <1>13, <2>2 DEF CallArrives, Claim, streamVars
  <2>4. \A q \in Calls : q # Sender => served'[q] = served[q]
    BY <1>13 DEF CallArrives, TypeOK
  <2>5. \A r \in Runs : r # Sender
    BY <2>2, IpcAssumption
  <2>6. ResponsesFollowStarts'
    BY <2>1, <2>3, <2>5, TakeResponses DEF WaitInv
  <2>7. RequestsFollowStarts' /\ RequestsAreSentOnce'
    BY <2>1, <2>3, <2>4, TakeRequests DEF WaitInv
  <2> QED BY <2>3, <2>6, <2>7 DEF WaitInv
<1>14. CASE RunArrives \/ AnswerArrives \/ ChildExits \/ \E q \in Calls : CallTimesOut(q)
  <2>1. UNCHANGED <<toHost, buffered, waiters, run, served>>
    BY <1>14 DEF RunArrives, AnswerArrives, ChildExits, CallTimesOut, hostSide, streamVars
  <2>2. \A q \in Calls : call'[q] = "new" <=> call[q] = "new"
    BY <1>14 DEF RunArrives, AnswerArrives, ChildExits, CallTimesOut, TypeOK, childVars
  <2> QED BY <2>1, <2>2, QuietStep
<1>15. ASSUME NEW ms \in Seq(ToHost), SendToHost(ms), UNCHANGED <<call, hostSide>>,
              \A k \in 1..Len(ms) : ms[k].type # "request",
              \A k \in 1..Len(ms) : ms[k].type = "stream" =>
                \E l \in 1..(k - 1) : ms[l].type = "start" /\ ms[l].id = ms[k].id
       PROVE  WaitInv'
  <2>1. UNCHANGED <<run, served, buffered, waiters>>
    BY <1>15 DEF hostSide, streamVars
  <2>2. ResponsesFollowStarts'
    BY <1>15, <2>1, SendResponses DEF WaitInv
  <2>3. RequestsFollowStarts' /\ RequestsAreSentOnce'
    BY <1>15, <2>1, SendNoRequest DEF WaitInv
  <2> QED BY <2>1, <2>2, <2>3 DEF WaitInv
<1>16. ASSUME NEW r \in Runs, RepliesWithStream(r) PROVE WaitInv'
  <2> DEFINE ms == <<Msg("start", r), Msg("stream", r)>>
  <2>1. ms \in Seq(ToHost)
    BY SentMessages DEF Streams
  <2>2. Len(ms) = 2 /\ ms[1] = Msg("start", r) /\ ms[2] = Msg("stream", r)
    OBVIOUS
  <2>3. SendToHost(ms) /\ UNCHANGED <<call, hostSide>>
    BY <1>16 DEF RepliesWithStream
  <2> HIDE DEF ms
  <2>4. ASSUME NEW k \in 1..Len(ms)
        PROVE  /\ ms[k].type # "request"
               /\ ms[k].type = "stream" =>
                    \E l \in 1..(k - 1) : ms[l].type = "start" /\ ms[l].id = ms[k].id
    <3>1. CASE k = 1
      BY <2>2, <3>1 DEF Msg
    <3>2. CASE k = 2
      BY <2>2, <3>2 DEF Msg
    <3> QED BY <2>2, <3>1, <3>2
  <2> QED BY <1>15, <2>1, <2>3, <2>4
<1>17. ASSUME NEW m \in ToHost, SendToHost(<<m>>), UNCHANGED <<call, hostSide>>,
              m.type \notin {"request", "stream"}
       PROVE  WaitInv'
  <2> DEFINE ms == <<m>>
  <2>1. ms \in Seq(ToHost) /\ Len(ms) = 1 /\ ms[1] = m
    BY <1>17
  <2>2. SendToHost(ms)
    BY <1>17
  <2> HIDE DEF ms
  <2>3. \A k \in 1..Len(ms) : ms[k].type \notin {"request", "stream"}
    BY <1>17, <2>1
  <2> QED BY <1>15, <1>17, <2>1, <2>2, <2>3
<1>18. ASSUME NEW r \in Runs, RepliesError(r) PROVE WaitInv'
  BY <1>17, <1>18, SentMessages DEF RepliesError, Msg
<1>19. ASSUME NEW s \in Streams, Writes(s) PROVE WaitInv'
  <2>1. sent[s] + 1 \in 1..MaxChunks
    BY <1>19, IpcAssumption DEF Writes, TypeOK
  <2> QED BY <1>17, <1>19, <2>1, SentMessages DEF Writes
<1>20. ASSUME NEW s \in Streams, EndsStream(s) PROVE WaitInv'
  BY <1>17, <1>20, SentMessages DEF EndsStream, Msg
<1>21. ASSUME NEW q \in Calls, FailsStream(q) PROVE WaitInv'
  BY <1>17, <1>21, SentMessages DEF FailsStream, Msg
<1>22. CASE UNCHANGED vars
  BY <1>22, QuietStep DEF vars, childVars, streamVars
<1> QED BY <1>1, <1>2, <1>3, <1>4, <1>5, <1>7, <1>8, <1>9, <1>10, <1>11, <1>12, <1>13, <1>14,
           <1>16, <1>18, <1>19, <1>20, <1>21, <1>22, SendRequest
        DEF Next, HostStep, HostReceives, ChildStep

(* waitForStream never waits, so that no request depends on the timer of a *)
(* waiter: the start frame of a stream is sent before its message, and the *)
(* stream is still in the buffer when the message arrives.                 *)
THEOREM StartsComeFirst == Spec => []NobodyWaits
<1>1. Init => WaitInv
  BY EmptySeq DEF Init, WaitInv, NobodyWaits, ResponsesFollowStarts, RequestsFollowStarts,
     RequestsAreSentOnce
<1>2. TypeOK /\ WaitInv /\ [Next]_vars => WaitInv'
  BY WaitStep
<1>3. WaitInv => NobodyWaits
  BY DEF WaitInv
<1> QED BY <1>1, <1>2, <1>3, TypeCorrect, PTL DEF Spec

-----------------------------------------------------------------------------
(* What breaks a channel                                                   *)

(* Taking a message keeps a stream live, unless it is the one that         *)
(* finishes it.                                                            *)
LEMMA LiveMovesUp ==
  ASSUME TypeOK, NEW t, HostTakes(t), NEW s, NEW i \in 1..Len(toHost),
         Live(toHost, incoming, s, i + 1),
         t = "start" /\ s = Sender => s \in incoming',
         s \in incoming /\ ~(t \in {"end", "fail"} /\ s = Sender) => s \in incoming'
  PROVE  Live(toHost', incoming', s, i)
<1>1. ASSUME NEW j \in 0..i, NEW l \in Nat, l >= j - 1, l >= 0, Unfinished(toHost, s, j, i + 1)
      PROVE  Unfinished(toHost', s, l, i)
  <2> SUFFICES ASSUME NEW k \in (l + 1)..(i - 1)
               PROVE  ~(toHost'[k].type \in {"end", "fail"} /\ toHost'[k].id = s)
    BY DEF Unfinished
  <2>1. k + 1 \in (j + 1)..(i + 1 - 1) /\ k \in 1..Len(toHost')
    BY <1>1, Taken
  <2>2. ~(toHost[k + 1].type \in {"end", "fail"} /\ toHost[k + 1].id = s)
    BY <1>1, <2>1 DEF Unfinished
  <2>3. toHost'[k] = toHost[k + 1]
    BY <2>1, Taken
  <2> QED BY <2>2, <2>3
<1>2. CASE s \in incoming /\ Unfinished(toHost, s, 0, i + 1)
  <2>1. ~(t \in {"end", "fail"} /\ s = Sender)
    <3>1. 1 \in (0 + 1)..(i + 1 - 1)
      OBVIOUS
    <3> QED BY <1>2, <3>1, Taken DEF Unfinished
  <2>2. Unfinished(toHost', s, 0, i)
    BY <1>1, <1>2
  <2> QED BY <1>2, <2>1, <2>2 DEF Live
<1>3. CASE \E j \in 1..(i + 1 - 1) :
             toHost[j].type = "start" /\ toHost[j].id = s /\ Unfinished(toHost, s, j, i + 1)
  <2>1. PICK j \in 1..i :
          toHost[j].type = "start" /\ toHost[j].id = s /\ Unfinished(toHost, s, j, i + 1)
    BY <1>3
  <2>2. Unfinished(toHost', s, j - 1, i)
    BY <1>1, <2>1
  <2>3. CASE j = 1
    <3>1. s \in incoming'
      BY <2>1, <2>3, Taken
    <3> QED BY <2>2, <2>3, <3>1 DEF Live
  <2>4. CASE j # 1
    <3>1. j - 1 \in 1..(i - 1) /\ j - 1 \in 1..Len(toHost') /\ j - 1 + 1 = j
      BY <2>4, Taken
    <3>2. toHost'[j - 1] = toHost[j]
      BY <3>1, Taken
    <3> QED BY <2>1, <2>2, <3>1, <3>2 DEF Live
  <2> QED BY <2>3, <2>4
<1> QED BY <1>2, <1>3 DEF Live

(* Taking a message keeps the chunks and the writers live.                 *)
LEMMA TakeLive ==
  ASSUME TypeOK, ChunksAreLive, WritersAreLive, NEW t, HostTakes(t),
         UNCHANGED <<writer, open>>,
         \A s \in Streams :
           /\ t = "start" /\ s = Sender => s \in incoming'
           /\ s \in incoming /\ ~(t \in {"end", "fail"} /\ s = Sender) => s \in incoming'
  PROVE  ChunksAreLive' /\ WritersAreLive'
<1>1. ASSUME NEW i \in 1..Len(toHost'), toHost'[i].type = "chunk"
      PROVE  Live(toHost', incoming', toHost'[i].id, i)
  <2>1. i \in 1..Len(toHost) /\ i + 1 \in 1..Len(toHost) /\ toHost'[i] = toHost[i + 1]
    BY Taken
  <2>2. toHost[i + 1].id \in Streams /\ Live(toHost, incoming, toHost[i + 1].id, i + 1)
    BY <1>1, <2>1, InThePipe, Messages DEF ChunksAreLive
  <2> QED BY <2>1, <2>2, LiveMovesUp
<1>2. ASSUME open', NEW s \in Streams, writer'[s] = "open"
      PROVE  Live(toHost', incoming', s, Len(toHost') + 1)
  <2>1. Live(toHost, incoming, s, Len(toHost) + 1)
    BY <1>2 DEF WritersAreLive
  <2>2. Len(toHost') + 1 = Len(toHost) /\ Len(toHost) \in 1..Len(toHost)
    BY Taken
  <2> QED BY <2>1, <2>2, LiveMovesUp
<1> QED BY <1>1, <1>2 DEF ChunksAreLive, WritersAreLive

(* Sending keeps the streams live that were.                               *)
LEMMA LiveStays ==
  ASSUME TypeOK, NEW ms \in Seq(ToHost), SendToHost(ms), UNCHANGED incoming,
         NEW s, NEW i \in 1..(Len(toHost) + 1), Live(toHost, incoming, s, i)
  PROVE  Live(toHost', incoming', s, i)
<1>1. ASSUME NEW k \in 1..(i - 1) PROVE k \in 1..Len(toHost) /\ toHost'[k] = toHost[k]
  BY SentAfter
<1>2. ASSUME NEW j \in 0..i, Unfinished(toHost, s, j, i) PROVE Unfinished(toHost', s, j, i)
  BY <1>1, <1>2 DEF Unfinished
<1> QED BY <1>1, <1>2, SentAfter DEF Live

(* A stream that is written to, or whose start is sent, is live behind     *)
(* what is sent, unless that finishes it.                                  *)
LEMMA LiveAfterSend ==
  ASSUME TypeOK, NEW ms \in Seq(ToHost), SendToHost(ms), open, UNCHANGED incoming, NEW s,
         \/ Live(toHost, incoming, s, Len(toHost) + 1)
         \/ Len(ms) >= 1 /\ ms[1].type = "start" /\ ms[1].id = s,
         \A k \in 1..Len(ms) : ~(ms[k].type \in {"end", "fail"} /\ ms[k].id = s)
  PROVE  Live(toHost', incoming', s, Len(toHost') + 1)
<1>0. Len(ms) \in Nat /\ Len(toHost) \in Nat /\ Len(toHost') = Len(toHost) + Len(ms)
  BY SentAfter, LenProperties
<1>1. ASSUME NEW k \in (Len(toHost) + 1)..Len(toHost')
      PROVE  ~(toHost'[k].type \in {"end", "fail"} /\ toHost'[k].id = s)
  <2>1. k - Len(toHost) \in 1..Len(ms) /\ Len(toHost) + (k - Len(toHost)) = k
    BY <1>0
  <2>2. toHost'[k] = ms[k - Len(toHost)]
    BY <2>1, SentAfter
  <2> QED BY <2>1, <2>2
<1>2. ASSUME NEW j \in 0..Len(toHost), Unfinished(toHost', s, j, Len(toHost) + 1)
      PROVE  Unfinished(toHost', s, j, Len(toHost') + 1)
  <2> SUFFICES ASSUME NEW k \in (j + 1)..(Len(toHost') + 1 - 1)
               PROVE  ~(toHost'[k].type \in {"end", "fail"} /\ toHost'[k].id = s)
    BY DEF Unfinished
  <2>1. CASE k <= Len(toHost)
    BY <1>0, <1>2, <2>1 DEF Unfinished
  <2>2. CASE k > Len(toHost)
    BY <1>0, <1>1, <2>2
  <2> QED BY <1>0, <2>1, <2>2
<1>3. CASE Live(toHost, incoming, s, Len(toHost) + 1)
  <2>1. Live(toHost', incoming', s, Len(toHost) + 1)
    BY <1>0, <1>3, LiveStays
  <2> QED BY <1>0, <1>2, <2>1 DEF Live
<1>4. CASE Len(ms) >= 1 /\ ms[1].type = "start" /\ ms[1].id = s
  <2>1. toHost'[Len(toHost) + 1] = ms[1]
    BY <1>0, <1>4, SentAfter
  <2>2. Unfinished(toHost', s, Len(toHost) + 1, Len(toHost') + 1)
    BY <1>0, <1>1 DEF Unfinished
  <2>3. Len(toHost) + 1 \in 1..(Len(toHost') + 1 - 1)
    BY <1>0, <1>4
  <2> QED BY <1>4, <2>1, <2>2, <2>3 DEF Live
<1> QED BY <1>3, <1>4

(* Sending keeps the chunks and the writers live: a chunk is sent alone,   *)
(* by an open writer.                                                      *)
LEMMA SendLive ==
  ASSUME TypeOK, LiveInv, NEW ms \in Seq(ToHost), SendToHost(ms), UNCHANGED <<open, incoming, data>>,
         \A k \in 1..Len(ms) : ms[k].type = "chunk" => k = 1 /\ writer[ms[k].id] = "open",
         \A s \in Streams : writer'[s] = "open" =>
           /\ writer[s] = "open" \/ (Len(ms) >= 1 /\ ms[1].type = "start" /\ ms[1].id = s)
           /\ \A k \in 1..Len(ms) : ~(ms[k].type \in {"end", "fail"} /\ ms[k].id = s)
  PROVE  LiveInv'
<1>1. IncomingIsOpen'
  BY DEF LiveInv, IncomingIsOpen
<1>2. ASSUME NEW i \in 1..Len(toHost'), toHost'[i].type = "chunk"
      PROVE  Live(toHost', incoming', toHost'[i].id, i)
  <2>1. CASE i \in 1..Len(toHost)
    <3>1. toHost'[i] = toHost[i] /\ Live(toHost, incoming, toHost[i].id, i) /\ i \in 1..(Len(toHost) + 1)
      BY <1>2, <2>1, SentAfter DEF LiveInv, ChunksAreLive
    <3> QED BY <3>1, LiveStays
  <2>2. CASE i \notin 1..Len(toHost)
    <3>1. open /\ i - Len(toHost) \in 1..Len(ms) /\ Len(toHost) + (i - Len(toHost)) = i
      BY <2>2, SentAfter, LenProperties
    <3>2. toHost'[i] = ms[i - Len(toHost)] /\ ms[i - Len(toHost)] \in ToHost
      BY <3>1, SentAfter, ElementOfSeq
    <3>3. i - Len(toHost) = 1 /\ writer[toHost'[i].id] = "open" /\ toHost'[i].id \in Streams
      BY <1>2, <3>1, <3>2, Messages
    <3>4. Live(toHost, incoming, toHost'[i].id, Len(toHost) + 1)
      BY <3>1, <3>3 DEF LiveInv, WritersAreLive
    <3>5. i = Len(toHost) + 1 /\ i \in 1..(Len(toHost) + 1)
      BY <3>3, SentAfter
    <3> QED BY <3>4, <3>5, LiveStays
  <2> QED BY <2>1, <2>2
<1>3. ASSUME open', NEW s \in Streams, writer'[s] = "open"
      PROVE  Live(toHost', incoming', s, Len(toHost') + 1)
  BY <1>3, LiveAfterSend DEF LiveInv, WritersAreLive
<1> QED BY <1>1, <1>2, <1>3 DEF LiveInv, ChunksAreLive, WritersAreLive

(* A step that leaves the pipe and the books of the streams alone.         *)
LEMMA LiveUnchanged ==
  ASSUME TypeOK, LiveInv, UNCHANGED <<toHost, writer, open, incoming>>,
         \A s \in Streams : data'[s] = data[s] \/ data'[s] = "dropped"
  PROVE  LiveInv'
<1>1. IncomingIsOpen'
  BY DEF LiveInv, IncomingIsOpen, TypeOK
<1> QED BY <1>1 DEF LiveInv, ChunksAreLive, WritersAreLive

(* close() empties the pipe and the books.                                 *)
LEMMA CloseLive ==
  ASSUME Close
  PROVE  LiveInv'
BY EmptySeq DEF Close, FailsAll, LiveInv, IncomingIsOpen, ChunksAreLive, WritersAreLive

(* Every chunk in the pipe belongs to a stream the host knows by then.     *)
LEMMA LiveStep == TypeOK /\ LiveInv /\ [Next]_vars => LiveInv'
<1> SUFFICES ASSUME TypeOK, LiveInv, [Next]_vars PROVE LiveInv'
  OBVIOUS
<1>1. ASSUME NEW r \in Runs, HostInvokes(r) \/ RunTimesOut(r) \/ RunCancelled(r) \/ StreamTimesOut(r)
      PROVE  LiveInv'
  <2>1. UNCHANGED <<toHost, writer, open, incoming>>
    BY <1>1 DEF HostInvokes, RunTimesOut, RunCancelled, StreamTimesOut, childVars, streamVars
  <2>2. \A s \in Streams : data'[s] = data[s] \/ data'[s] = "dropped"
    BY <1>1 DEF HostInvokes, RunTimesOut, RunCancelled, StreamTimesOut, Drop, streamVars, TypeOK
  <2> QED BY <2>1, <2>2, LiveUnchanged
<1>2. ASSUME NEW q \in Calls, UploadRejected(q) \/ HostReplies(q)
      PROVE  LiveInv'
  <2>1. UNCHANGED <<toHost, writer, open, incoming>>
    BY <1>2 DEF UploadRejected, HostReplies, childVars, streamVars
  <2>2. \A s \in Streams : data'[s] = data[s] \/ data'[s] = "dropped"
    BY <1>2 DEF UploadRejected, HostReplies, Drop, streamVars, TypeOK
  <2> QED BY <2>1, <2>2, LiveUnchanged
<1>3. ASSUME (\E q \in Calls : HostReplyFails(q)) \/ HostSeesExit \/ ChunkRefused
      PROVE  LiveInv'
  BY <1>3, CloseLive DEF HostReplyFails, HostSeesExit, ChunkRefused, Breaks
<1>4. ASSUME NEW t, HostTakes(t), UNCHANGED <<writer, open, incoming, data>>, t # "start", IncomingIsOpen'
      PROVE  LiveInv'
  BY <1>4, TakeLive DEF LiveInv
<1>5. CASE LateResponse \/ ErrorResponse \/ StreamResponse \/ ChunkArrives \/ CallArrives
  <2>1. UNCHANGED <<writer, open, incoming, data>>
    BY <1>5 DEF LateResponse, ErrorResponse, StreamResponse, ChunkArrives, CallArrives, Claim,
         childVars, streamVars
  <2>2. IncomingIsOpen'
    BY <2>1 DEF LiveInv, IncomingIsOpen
  <2>3. \E t \in {"stream", "error", "chunk", "request"} : HostTakes(t)
    BY <1>5 DEF LateResponse, ErrorResponse, StreamResponse, ChunkArrives, CallArrives
  <2> QED BY <1>4, <2>1, <2>2, <2>3
<1>6. CASE StreamStarts
  <2>1. HostTakes("start") /\ incoming' = incoming \cup {Sender} /\ UNCHANGED <<writer, open>>
    BY <1>6 DEF StreamStarts, childVars
  <2>2. IncomingIsOpen'
    <3>1. data' = [data EXCEPT ![Sender] = "open"] /\ Sender \in Streams
      BY <1>6, <2>1, TakeTypes, Messages DEF StreamStarts, Sender, TypeOK
    <3> QED BY <2>1, <3>1 DEF LiveInv, IncomingIsOpen, TypeOK
  <2>3. ChunksAreLive' /\ WritersAreLive'
    BY <2>1, TakeLive DEF LiveInv
  <2> QED BY <2>2, <2>3 DEF LiveInv
<1>7. CASE StreamEnds \/ StreamFails
  <2>1. PICK t \in {"end", "fail"} : HostTakes(t)
    BY <1>7 DEF StreamEnds, StreamFails
  <2>2. incoming' = incoming \ {Sender} /\ UNCHANGED <<writer, open>>
    BY <1>7 DEF StreamEnds, StreamFails, StreamFinishes, childVars
  <2>3. \A s \in Streams : s # Sender => data'[s] = data[s]
    BY <1>7 DEF StreamEnds, StreamFails, StreamFinishes, TypeOK
  <2>4. IncomingIsOpen'
    BY <2>2, <2>3 DEF LiveInv, IncomingIsOpen, TypeOK
  <2>5. ChunksAreLive' /\ WritersAreLive'
    BY <2>1, <2>2, TakeLive DEF LiveInv
  <2> QED BY <2>4, <2>5 DEF LiveInv
<1>8. CASE RunArrives \/ AnswerArrives \/ ChildExits \/ \E q \in Calls : CallTimesOut(q)
  BY <1>8, LiveUnchanged DEF RunArrives, AnswerArrives, ChildExits, CallTimesOut, childVars,
     hostSide, streamVars
<1>9. ASSUME NEW r \in Runs, RepliesWithStream(r) PROVE LiveInv'
  <2> DEFINE ms == <<Msg("start", r), Msg("stream", r)>>
  <2>1. ms \in Seq(ToHost)
    BY SentMessages DEF Streams
  <2>2. Len(ms) = 2 /\ ms[1] = Msg("start", r) /\ ms[2] = Msg("stream", r)
    OBVIOUS
  <2>3. SendToHost(ms) /\ UNCHANGED <<open, incoming, data>>
        /\ writer' = [writer EXCEPT ![r] = "open"]
    BY <1>9 DEF RepliesWithStream, hostSide, streamVars
  <2> HIDE DEF ms
  <2>4. \A k \in 1..Len(ms) : ms[k].type \in {"start", "stream"}
    <3>1. \A k \in 1..2 : k = 1 \/ k = 2
      OBVIOUS
    <3> QED BY <2>2, <3>1 DEF Msg
  <2>5. Len(ms) >= 1 /\ ms[1].type = "start" /\ ms[1].id = r
    BY <2>2 DEF Msg
  <2> QED BY <2>1, <2>3, <2>4, <2>5, SendLive DEF TypeOK
<1>10. ASSUME NEW m \in ToHost, SendToHost(<<m>>), UNCHANGED <<open, incoming, data>>,
              m.type = "chunk" => writer[m.id] = "open",
              \A s \in Streams : writer'[s] = "open" =>
                 writer[s] = "open" /\ ~(m.type \in {"end", "fail"} /\ m.id = s)
       PROVE  LiveInv'
  <2> DEFINE ms == <<m>>
  <2>1. ms \in Seq(ToHost) /\ Len(ms) = 1 /\ ms[1] = m
    BY <1>10
  <2>2. SendToHost(ms)
    BY <1>10
  <2> HIDE DEF ms
  <2>3. \A k \in 1..Len(ms) : k = 1 /\ ms[k] = m
    BY <2>1
  <2> QED BY <1>10, <2>1, <2>2, <2>3, SendLive
<1>11. ASSUME NEW r \in Runs, RepliesError(r) PROVE LiveInv'
  BY <1>10, <1>11, SentMessages DEF RepliesError, Msg, hostSide, streamVars
<1>12. ASSUME NEW s \in Streams, Writes(s) PROVE LiveInv'
  <2>1. sent[s] + 1 \in 1..MaxChunks
    BY <1>12, IpcAssumption DEF Writes, TypeOK
  <2> QED BY <1>10, <1>12, <2>1, SentMessages DEF Writes, hostSide, streamVars
<1>13. ASSUME NEW s \in Streams, EndsStream(s) PROVE LiveInv'
  BY <1>10, <1>13, SentMessages DEF EndsStream, Msg, hostSide, streamVars, TypeOK
<1>14. ASSUME NEW q \in Calls, FailsStream(q) PROVE LiveInv'
  BY <1>10, <1>14, SentMessages DEF FailsStream, Msg, hostSide, streamVars, TypeOK
<1>15. ASSUME NEW q \in Calls, PluginCalls(q) PROVE LiveInv'
  <2> DEFINE ms == (IF q \in Uploads THEN <<Msg("start", q)>> ELSE <<>>) \o <<Msg("request", q)>>
  <2>1. \/ /\ q \in Uploads /\ Len(ms) = 2
           /\ ms[1] = Msg("start", q) /\ ms[2] = Msg("request", q)
        \/ q \notin Uploads /\ Len(ms) = 1 /\ ms[1] = Msg("request", q)
    OBVIOUS
  <2>2. ms \in Seq(ToHost)
    <3>1. <<Msg("request", q)>> \in Seq(ToHost) /\ <<>> \in Seq(ToHost)
      BY SentMessages
    <3>2. q \in Uploads => <<Msg("start", q)>> \in Seq(ToHost)
      BY SentMessages DEF Streams
    <3> QED BY <3>1, <3>2, ConcatProperties
  <2>3. SendToHost(ms) /\ UNCHANGED <<open, incoming, data>>
        /\ writer' = [s \in Streams |-> IF s = q THEN "open" ELSE writer[s]]
    BY <1>15 DEF PluginCalls, hostSide, streamVars
  <2> HIDE DEF ms
  <2>4. \A k \in 1..Len(ms) : ms[k].type \in {"start", "request"}
    <3>1. \A k \in 1..2 : k = 1 \/ k = 2
      OBVIOUS
    <3>2. \A k \in 1..1 : k = 1
      OBVIOUS
    <3> QED BY <2>1, <3>1, <3>2 DEF Msg
  <2>5. q \in Streams => Len(ms) >= 1 /\ ms[1].type = "start" /\ ms[1].id = q
    BY <2>1, IpcAssumption DEF Msg, Streams
  <2> QED BY <2>2, <2>3, <2>4, <2>5, SendLive
<1>16. CASE UNCHANGED vars
  BY <1>16, LiveUnchanged DEF vars, childVars, streamVars
<1> QED BY <1>1, <1>2, <1>3, <1>5, <1>6, <1>7, <1>8, <1>9, <1>11, <1>12, <1>13, <1>14, <1>15, <1>16
        DEF Next, HostStep, HostReceives, ChildStep

(* While its process lives, a channel is broken only by a chunk of a       *)
(* stream the host itself has dropped: a cancelled or timed out run, or an *)
(* upload it could not read.                                               *)
THEOREM BreaksNeedADrop == Spec => BreaksOnlyWhenDropped
<1> DEFINE Step == open /\ ~open' /\ alive => \E s \in Streams : data[s] = "dropped"
<1>1. Init => LiveInv
  BY EmptySeq DEF Init, LiveInv, IncomingIsOpen, ChunksAreLive, WritersAreLive
<1>2. TypeOK /\ LiveInv /\ [Next]_vars => LiveInv'
  BY LiveStep
<1>3. TypeOK /\ LiveInv /\ [Next]_vars => [Step]_vars
  <2> SUFFICES ASSUME TypeOK, LiveInv, Next, open, ~open', alive
               PROVE  \E s \in Streams : data[s] = "dropped"
    OBVIOUS
  <2>1. ChunkRefused
    BY DEF Next, HostStep, HostReceives, ChildStep, HostInvokes, RunTimesOut, RunCancelled,
       StreamTimesOut, UploadRejected, HostReplies, HostReplyFails, HostSeesExit, LateResponse,
       ErrorResponse, StreamResponse, StreamStarts, ChunkArrives, StreamEnds, StreamFails,
       StreamFinishes, CallArrives, RunArrives, AnswerArrives, RepliesWithStream, RepliesError,
       PluginCalls, CallTimesOut, FailsStream, Writes, EndsStream, ChildExits, hostSide
  <2>2. 1 \in 1..Len(toHost) /\ toHost[1].type = "chunk" /\ toHost[1].id = Sender
    <3>1. toHost \in Seq(ToHost) /\ toHost # <<>> /\ Head(toHost).type = "chunk"
      BY <2>1 DEF ChunkRefused, TypeOK
    <3>2. Len(toHost) \in Nat \ {0} /\ Head(toHost) = toHost[1]
      BY <3>1, EmptySeq
    <3> QED BY <3>1, <3>2 DEF Sender
  <2>3. Sender \in Streams /\ Live(toHost, incoming, Sender, 1)
    BY <2>2, InThePipe, Messages DEF LiveInv, ChunksAreLive
  <2>4. data[Sender] \in {"open", "dropped"} /\ Sender \in incoming
    BY <2>3 DEF Live, LiveInv, IncomingIsOpen
  <2> QED BY <2>1, <2>3, <2>4 DEF ChunkRefused, Writable
<1>4. Spec => [][Step]_vars
  BY <1>1, <1>2, <1>3, TypeCorrect, PTL DEF Spec
<1> QED BY <1>4 DEF BreaksOnlyWhenDropped

-----------------------------------------------------------------------------
(* Streams arrive whole                                                    *)

(* The request of a run reaches the process once.                          *)
RequestsArriveOnce ==
  /\ \A r \in Runs : run[r] = "new" => handler[r] = "none"
  /\ \A i \in 1..Len(toClient) :
       toClient[i].type = "request" =>
         handler[toClient[i].id] = "none" /\ run[toClient[i].id] # "new"
  /\ \A i, j \in 1..Len(toClient) :
       toClient[i].type = "request" /\ toClient[j].type = "request"
         /\ toClient[i].id = toClient[j].id => i = j

StartAt(i, s) == toHost[i].type = "start" /\ toHost[i].id = s
ChunkAt(i, s) == toHost[i].type = "chunk" /\ toHost[i].id = s
EndAt(i, s) == toHost[i].type = "end" /\ toHost[i].id = s

(* So a stream is started once, and not before its start by the host.      *)
StreamsStartOnce ==
  /\ \A r \in Runs : handler[r] # "replied" => writer[r] = "none"
  /\ \A q \in Uploads : call[q] = "new" => writer[q] = "none"
  /\ \A s \in Streams : writer[s] = "none" =>
       data[s] = "none" /\ \A i \in 1..Len(toHost) : ~StartAt(i, s)
  /\ \A s \in Streams, i \in 1..Len(toHost) : StartAt(i, s) => data[s] = "none"
  /\ \A s \in Streams, i, j \in 1..Len(toHost) : StartAt(i, s) /\ StartAt(j, s) => i = j

StartInv == RequestsArriveOnce /\ StreamsStartOnce

(* What the host has of stream s are its first chunks; those in the pipe   *)
(* are the others, in order, the end behind them.                          *)
ReadInOrder(s) == Len(got[s]) <= sent[s] /\ \A k \in 1..Len(got[s]) : got[s][k] = k

SentInOrder(s) ==
  /\ open => \A k \in (Len(got[s]) + 1)..sent[s] :
               \E i \in 1..Len(toHost) : ChunkAt(i, s) /\ toHost[i].n = k
  /\ \A i \in 1..Len(toHost) : ChunkAt(i, s) => toHost[i].n \in (Len(got[s]) + 1)..sent[s]
  /\ \A i, j \in 1..Len(toHost) : i < j /\ ChunkAt(i, s) /\ ChunkAt(j, s) => toHost[i].n < toHost[j].n

EndsLast(s) ==
  /\ \A i \in 1..Len(toHost) : EndAt(i, s) =>
       writer[s] = "ended" /\ \A j \in (i + 1)..Len(toHost) : ~ChunkAt(j, s)
  /\ data[s] = "ended" => writer[s] = "ended" /\ Len(got[s]) = sent[s]

Flows(s) == ReadInOrder(s) /\ SentInOrder(s) /\ EndsLast(s)

(* The plugin is told that an upload succeeded after it was read.          *)
ToldAreRead ==
  /\ \A i \in 1..Len(toClient) :
       toClient[i].type = "value" /\ toClient[i].id \in Uploads => data[toClient[i].id] = "ended"
  /\ \A q \in Uploads : call[q] = "done" => data[q] = "ended"

WholeInv == StartInv /\ (\A s \in Streams : Flows(s)) /\ ToldAreRead

(* The child takes the first message; the host's joins the end.            *)
LEMMA ClientTaken ==
  ASSUME TypeOK, toClient # <<>>, toClient' = Tail(toClient)
  PROVE  /\ Len(toClient) \in Nat /\ Len(toClient) >= 1 /\ Len(toClient') = Len(toClient) - 1
         /\ Head(toClient) = toClient[1]
         /\ \A i \in 1..Len(toClient') : i + 1 \in 1..Len(toClient) /\ toClient'[i] = toClient[i + 1]
<1>1. toClient \in Seq(ToClient)
  BY DEF TypeOK
<1>2. Len(toClient) \in Nat \ {0} /\ Head(toClient) = toClient[1]
  BY <1>1, EmptySeq
<1>3. Len(toClient') = Len(toClient) - 1 /\ \A i \in 1..Len(toClient') : toClient'[i] = toClient[i + 1]
  BY <1>1, HeadTailProperties
<1> QED BY <1>2, <1>3

LEMMA ClientSent ==
  ASSUME TypeOK, NEW m \in ToClient, toClient' = Append(toClient, m)
  PROVE  /\ Len(toClient) \in Nat /\ Len(toClient') = Len(toClient) + 1
         /\ toClient'[Len(toClient) + 1] = m
         /\ \A i \in 1..Len(toClient) : toClient'[i] = toClient[i]
BY AppendProperties, LenProperties DEF TypeOK

LEMMA InTheClientPipe ==
  ASSUME TypeOK, NEW i \in 1..Len(toClient)
  PROVE  toClient[i] \in ToClient
BY ElementOfSeq DEF TypeOK

(* A step that sends no run and starts none.                               *)
LEMMA ArriveUnchanged ==
  ASSUME RequestsArriveOnce, UNCHANGED <<toClient, handler>>,
         \A r \in Runs : run'[r] = "new" => run[r] = "new",
         \A i \in 1..Len(toClient) : toClient[i].type = "request" => toClient[i].id \in Runs
  PROVE  RequestsArriveOnce'
BY DEF RequestsArriveOnce

(* The process takes a message.                                            *)
LEMMA ArriveTaken ==
  ASSUME TypeOK, RequestsArriveOnce, toClient # <<>>, toClient' = Tail(toClient), UNCHANGED run,
         \A r \in Runs : handler'[r] = handler[r] \/ (Head(toClient).type = "request" /\ r = Head(toClient).id)
  PROVE  RequestsArriveOnce'
<1>1. ASSUME NEW i \in 1..Len(toClient'), toClient'[i].type = "request"
      PROVE  handler'[toClient'[i].id] = "none" /\ run'[toClient'[i].id] # "new"
  <2>1. i + 1 \in 1..Len(toClient) /\ 1 \in 1..Len(toClient) /\ i + 1 # 1 /\ toClient'[i] = toClient[i + 1]
        /\ Head(toClient) = toClient[1]
    BY ClientTaken
  <2>2. toClient[i + 1].id \in Runs /\ handler[toClient[i + 1].id] = "none" /\ run[toClient[i + 1].id] # "new"
    BY <1>1, <2>1, InTheClientPipe, Answers DEF RequestsArriveOnce
  <2>3. ~(Head(toClient).type = "request" /\ toClient[i + 1].id = Head(toClient).id)
    BY <1>1, <2>1 DEF RequestsArriveOnce
  <2> QED BY <2>1, <2>2, <2>3
<1>2. ASSUME NEW i \in 1..Len(toClient'), NEW j \in 1..Len(toClient'),
             toClient'[i].type = "request", toClient'[j].type = "request", toClient'[i].id = toClient'[j].id
      PROVE  i = j
  <2>1. i + 1 \in 1..Len(toClient) /\ j + 1 \in 1..Len(toClient)
        /\ toClient'[i] = toClient[i + 1] /\ toClient'[j] = toClient[j + 1]
    BY ClientTaken
  <2>2. i + 1 = j + 1
    BY <1>2, <2>1 DEF RequestsArriveOnce
  <2> QED BY <2>2
<1>3. ASSUME NEW r \in Runs, run'[r] = "new" PROVE handler'[r] = "none"
  <2>1. ~(Head(toClient).type = "request" /\ r = Head(toClient).id)
    BY <1>3, ClientTaken DEF RequestsArriveOnce
  <2> QED BY <1>3, <2>1 DEF RequestsArriveOnce
<1> QED BY <1>1, <1>2, <1>3 DEF RequestsArriveOnce

(* The host sends an answer, or the one request of a run.                  *)
LEMMA ArriveSent ==
  ASSUME TypeOK, RequestsArriveOnce, NEW m \in ToClient, toClient' = Append(toClient, m), UNCHANGED handler,
         m.type = "request" => run[m.id] = "new" /\ run'[m.id] # "new",
         \A r \in Runs : run'[r] = run[r] \/ (m.type = "request" /\ r = m.id)
  PROVE  RequestsArriveOnce'
<1>1. ASSUME NEW i \in 1..Len(toClient'), i \notin 1..Len(toClient) PROVE toClient'[i] = m /\ i = Len(toClient) + 1
  BY <1>1, ClientSent
<1>2. \A i \in 1..Len(toClient) : toClient'[i] = toClient[i] /\ (toClient[i].type = "request" => toClient[i].id \in Runs)
  BY ClientSent, InTheClientPipe, Answers
<1>3. m.type = "request" => m.id \in Runs
  BY Answers
<1>4. \A i \in 1..Len(toClient) : toClient[i].type = "request" /\ m.type = "request" => toClient[i].id # m.id
  BY DEF RequestsArriveOnce
<1>5. ASSUME NEW i \in 1..Len(toClient'), toClient'[i].type = "request"
      PROVE  handler'[toClient'[i].id] = "none" /\ run'[toClient'[i].id] # "new"
  BY <1>1, <1>2, <1>3, <1>4, <1>5 DEF RequestsArriveOnce
<1>6. ASSUME NEW i \in 1..Len(toClient'), NEW j \in 1..Len(toClient'),
             toClient'[i].type = "request", toClient'[j].type = "request", toClient'[i].id = toClient'[j].id
      PROVE  i = j
  BY <1>1, <1>2, <1>4, <1>6 DEF RequestsArriveOnce
<1>7. ASSUME NEW r \in Runs, run'[r] = "new" PROVE handler'[r] = "none"
  BY <1>7 DEF RequestsArriveOnce
<1> QED BY <1>5, <1>6, <1>7 DEF RequestsArriveOnce

LEMMA ArriveStep == TypeOK /\ RequestsArriveOnce /\ [Next]_vars => RequestsArriveOnce'
<1> SUFFICES ASSUME TypeOK, RequestsArriveOnce, [Next]_vars PROVE RequestsArriveOnce'
  OBVIOUS
<1>0. \A i \in 1..Len(toClient) : toClient[i].type = "request" => toClient[i].id \in Runs
  BY InTheClientPipe, Answers
<1>1. ASSUME NEW r \in Runs, HostInvokes(r) PROVE RequestsArriveOnce'
  <2>1. /\ run[r] = "new" /\ run'[r] # "new" /\ UNCHANGED handler
        /\ \A x \in Runs : x # r => run'[x] = run[x]
    BY <1>1 DEF HostInvokes, childVars, TypeOK
  <2>2. CASE toClient' = Append(toClient, Msg("request", r))
    <3>1. Msg("request", r) \in ToClient /\ Msg("request", r).type = "request" /\ Msg("request", r).id = r
      BY SentAnswers DEF Msg
    <3> QED BY <2>1, <2>2, <3>1, ArriveSent
  <2>3. CASE toClient' = toClient
    BY <1>0, <2>1, <2>3, ArriveUnchanged
  <2> QED BY <1>1, <2>2, <2>3 DEF HostInvokes
<1>2. ASSUME NEW q \in Calls, HostReplies(q) PROVE RequestsArriveOnce'
  <2>1. PICK t \in {"value", "error"} : toClient' = Append(toClient, Msg(t, q))
    BY <1>2 DEF HostReplies
  <2>2. Msg(t, q) \in ToClient /\ Msg(t, q).type # "request"
    BY SentAnswers DEF Msg
  <2>3. UNCHANGED <<handler, run>>
    BY <1>2 DEF HostReplies, childVars
  <2> QED BY <2>1, <2>2, <2>3, ArriveSent
<1>3. CASE RunArrives \/ AnswerArrives
  <2>1. /\ toClient # <<>> /\ toClient' = Tail(toClient) /\ UNCHANGED run
        /\ \A r \in Runs : handler'[r] = handler[r] \/ (Head(toClient).type = "request" /\ r = Head(toClient).id)
    BY <1>3 DEF RunArrives, AnswerArrives, hostSide, TypeOK
  <2> QED BY <2>1, ArriveTaken
<1>4. ASSUME NEW r \in Runs, RepliesWithStream(r) \/ RepliesError(r) PROVE RequestsArriveOnce'
  <2>1. handler[r] = "running" /\ handler' = [handler EXCEPT ![r] = "replied"] /\ UNCHANGED <<toClient, run>>
    BY <1>4 DEF RepliesWithStream, RepliesError, hostSide
  <2> QED BY <1>0, <2>1 DEF RequestsArriveOnce, TypeOK
<1>5. CASE ChildExits
  BY <1>5, EmptySeq DEF ChildExits, childVars, hostSide, RequestsArriveOnce
<1>6. ASSUME UNCHANGED <<toClient, handler>>, \A r \in Runs : run'[r] = "new" => run[r] = "new"
      PROVE  RequestsArriveOnce'
  BY <1>0, <1>6, ArriveUnchanged
<1>7. ASSUME Close, UNCHANGED <<toClient, alive, childVars>> PROVE RequestsArriveOnce'
  BY <1>6, <1>7 DEF Close, FailsAll, childVars
<1>8. ASSUME NEW x \in Runs, RunTimesOut(x) \/ RunCancelled(x) \/ StreamTimesOut(x) PROVE RequestsArriveOnce'
  BY <1>6, <1>8 DEF RunTimesOut, RunCancelled, StreamTimesOut, childVars, TypeOK
<1>9. ASSUME NEW q \in Calls, UploadRejected(q) \/ HostReplyFails(q) PROVE RequestsArriveOnce'
  BY <1>6, <1>7, <1>9 DEF UploadRejected, HostReplyFails, Breaks, childVars
<1>10. CASE HostSeesExit \/ ChunkRefused
  BY <1>7, <1>10 DEF HostSeesExit, ChunkRefused, Breaks
<1>11. CASE LateResponse \/ ErrorResponse \/ StreamResponse \/ ChunkArrives \/ CallArrives
  BY <1>6, <1>11 DEF LateResponse, ErrorResponse, StreamResponse, ChunkArrives, CallArrives, childVars, TypeOK
<1>12. CASE StreamStarts \/ StreamEnds \/ StreamFails
  BY <1>6, <1>12 DEF StreamStarts, StreamEnds, StreamFails, StreamFinishes, childVars
<1>13. ASSUME NEW q \in Calls, PluginCalls(q) \/ CallTimesOut(q) \/ FailsStream(q) PROVE RequestsArriveOnce'
  BY <1>6, <1>13 DEF PluginCalls, CallTimesOut, FailsStream, hostSide
<1>14. ASSUME NEW s \in Streams, Writes(s) \/ EndsStream(s) PROVE RequestsArriveOnce'
  BY <1>6, <1>14 DEF Writes, EndsStream, hostSide
<1>15. CASE UNCHANGED vars
  BY <1>6, <1>15 DEF vars, childVars
<1> QED BY <1>1, <1>2, <1>3, <1>4, <1>5, <1>8, <1>9, <1>10, <1>11, <1>12, <1>13, <1>14, <1>15
        DEF Next, HostStep, HostReceives, ChildStep

(* Taking a message.                                                       *)
LEMMA StartTaken ==
  ASSUME TypeOK, NEW t, HostTakes(t), StreamsStartOnce, UNCHANGED <<writer, handler, call>>,
         \A s \in Streams : data'[s] = data[s] \/ data[s] # "none" \/ (t = "start" /\ s = Sender)
  PROVE  StreamsStartOnce'
<1>1. /\ 1 \in 1..Len(toHost) /\ (t = "start" => StartAt(1, Sender))
      /\ \A i \in 1..Len(toHost') : i + 1 \in 1..Len(toHost) /\ i + 1 # 1 /\ toHost'[i] = toHost[i + 1]
  BY Taken DEF StartAt
<1>2. \A i \in 1..Len(toHost'), s \in Streams : StartAt(i, s)' => StartAt(i + 1, s)
  BY <1>1 DEF StartAt
<1>3. ASSUME NEW s \in Streams, writer'[s] = "none"
      PROVE  data'[s] = "none" /\ \A i \in 1..Len(toHost') : ~StartAt(i, s)'
  <2>1. data[s] = "none" /\ \A i \in 1..Len(toHost) : ~StartAt(i, s)
    BY <1>3 DEF StreamsStartOnce
  <2> QED BY <1>1, <1>2, <2>1
<1>4. ASSUME NEW s \in Streams, NEW i \in 1..Len(toHost'), StartAt(i, s)' PROVE data'[s] = "none"
  <2>1. StartAt(i + 1, s) /\ i + 1 \in 1..Len(toHost) /\ i + 1 # 1
    BY <1>1, <1>2, <1>4
  <2>2. data[s] = "none" /\ ~(t = "start" /\ s = Sender)
    BY <1>1, <2>1 DEF StreamsStartOnce
  <2> QED BY <2>2
<1>5. ASSUME NEW s \in Streams, NEW i \in 1..Len(toHost'), NEW j \in 1..Len(toHost'), StartAt(i, s)', StartAt(j, s)'
      PROVE  i = j
  <2>1. i + 1 = j + 1
    BY <1>1, <1>2, <1>5 DEF StreamsStartOnce
  <2> QED BY <2>1
<1>6. /\ \A r \in Runs : handler'[r] # "replied" => writer'[r] = "none"
      /\ \A q \in Uploads : call'[q] = "new" => writer'[q] = "none"
  BY DEF StreamsStartOnce
<1> QED BY <1>3, <1>4, <1>5, <1>6 DEF StreamsStartOnce

(* Sending: a start is sent first, for a stream that had none.             *)
LEMMA StartSent ==
  ASSUME TypeOK, NEW ms \in Seq(ToHost), SendToHost(ms), StreamsStartOnce, UNCHANGED data,
         \A k \in 1..Len(ms) : ms[k].type = "start" =>
           k = 1 /\ writer[ms[k].id] = "none" /\ writer'[ms[k].id] # "none",
         \A s \in Streams : writer'[s] = "none" => writer[s] = "none",
         \A r \in Runs : handler'[r] # "replied" => writer'[r] = "none",
         \A q \in Uploads : call'[q] = "new" => writer'[q] = "none"
  PROVE  StreamsStartOnce'
<1>1. ASSUME NEW s \in Streams, NEW i \in 1..Len(toHost'), StartAt(i, s)'
      PROVE  \/ i \in 1..Len(toHost) /\ StartAt(i, s)
             \/ i = Len(toHost) + 1 /\ writer[s] = "none" /\ writer'[s] # "none"
  <2>1. CASE i \in 1..Len(toHost)
    BY <1>1, <2>1, SentAfter DEF StartAt
  <2>2. CASE i \notin 1..Len(toHost)
    <3>1. open /\ i - Len(toHost) \in 1..Len(ms) /\ Len(toHost) + (i - Len(toHost)) = i
      BY <2>2, SentAfter, LenProperties
    <3>2. toHost'[i] = ms[i - Len(toHost)]
      BY <3>1, SentAfter
    <3>3. i - Len(toHost) = 1 /\ writer[s] = "none" /\ writer'[s] # "none"
      BY <1>1, <3>1, <3>2 DEF StartAt
    <3> QED BY <3>1, <3>3
  <2> QED BY <2>1, <2>2
<1>2. Len(toHost) \in Nat /\ Len(toHost) + 1 \notin 1..Len(toHost)
  BY SentAfter
<1>3. ASSUME NEW s \in Streams, writer'[s] = "none"
      PROVE  data'[s] = "none" /\ \A i \in 1..Len(toHost') : ~StartAt(i, s)'
  BY <1>1, <1>3 DEF StreamsStartOnce
<1>4. ASSUME NEW s \in Streams, NEW i \in 1..Len(toHost'), StartAt(i, s)' PROVE data'[s] = "none"
  BY <1>1, <1>4 DEF StreamsStartOnce
<1>5. ASSUME NEW s \in Streams, NEW i \in 1..Len(toHost'), NEW j \in 1..Len(toHost'), StartAt(i, s)', StartAt(j, s)'
      PROVE  i = j
  BY <1>1, <1>2, <1>5 DEF StreamsStartOnce
<1> QED BY <1>3, <1>4, <1>5 DEF StreamsStartOnce

(* Nothing is taken or sent.                                               *)
LEMMA StartUnchanged ==
  ASSUME StreamsStartOnce, toHost' = toHost \/ toHost' = <<>>, UNCHANGED writer,
         \A s \in Streams : data'[s] = data[s] \/ data[s] # "none",
         \A r \in Runs : handler'[r] = handler[r] \/ handler[r] # "replied",
         \A q \in Uploads : call'[q] = "new" => call[q] = "new"
  PROVE  StreamsStartOnce'
BY EmptySeq DEF StreamsStartOnce, StartAt

(* The host lets a stream go, or closes.                                   *)
LEMMA DataSettles ==
  ASSUME TypeOK,
         \/ \E r \in Runs : RunCancelled(r) \/ StreamTimesOut(r)
         \/ \E q \in Calls : UploadRejected(q)
         \/ Close \/ StreamEnds \/ StreamFails
  PROVE  \A s \in Streams : data'[s] = data[s] \/ data[s] = "open"
BY DEF RunCancelled, StreamTimesOut, UploadRejected, Drop, Close, FailsAll, StreamEnds, StreamFails,
   StreamFinishes, Writable, TypeOK

LEMMA StartOnceStep == TypeOK /\ StartInv /\ [Next]_vars => StreamsStartOnce'
<1> SUFFICES ASSUME TypeOK, RequestsArriveOnce, StreamsStartOnce, [Next]_vars PROVE StreamsStartOnce'
  BY DEF StartInv
<1>1. ASSUME NEW r \in Runs, HostInvokes(r) \/ RunTimesOut(r) \/ RunCancelled(r) \/ StreamTimesOut(r)
      PROVE  StreamsStartOnce'
  <2>1. UNCHANGED <<toHost, writer, handler, call>>
    BY <1>1 DEF HostInvokes, RunTimesOut, RunCancelled, StreamTimesOut, childVars
  <2>2. \A s \in Streams : data'[s] = data[s] \/ data[s] # "none"
    BY <1>1, DataSettles DEF HostInvokes, RunTimesOut, streamVars
  <2> QED BY <2>1, <2>2, StartUnchanged
<1>2. ASSUME NEW q \in Calls, UploadRejected(q) \/ HostReplies(q) PROVE StreamsStartOnce'
  <2>1. UNCHANGED <<toHost, writer, handler, call>>
    BY <1>2 DEF UploadRejected, HostReplies, childVars
  <2>2. \A s \in Streams : data'[s] = data[s] \/ data[s] # "none"
    BY <1>2, DataSettles DEF HostReplies, streamVars
  <2> QED BY <2>1, <2>2, StartUnchanged
<1>3. ASSUME (\E q \in Calls : HostReplyFails(q)) \/ HostSeesExit \/ ChunkRefused PROVE StreamsStartOnce'
  <2>1. Close /\ UNCHANGED <<writer, handler, call>>
    BY <1>3 DEF HostReplyFails, HostSeesExit, ChunkRefused, Breaks, childVars
  <2>2. \A s \in Streams : data'[s] = data[s] \/ data[s] # "none"
    BY <2>1, DataSettles
  <2> QED BY <2>1, <2>2, StartUnchanged DEF Close
<1>4. CASE LateResponse \/ ErrorResponse \/ StreamResponse \/ ChunkArrives \/ CallArrives
  <2>1. UNCHANGED <<writer, handler, call, data>>
    BY <1>4 DEF LateResponse, ErrorResponse, StreamResponse, ChunkArrives, CallArrives, Claim, childVars, streamVars
  <2>2. \E t \in {"stream", "error", "chunk", "request"} : HostTakes(t)
    BY <1>4 DEF LateResponse, ErrorResponse, StreamResponse, ChunkArrives, CallArrives
  <2> QED BY <2>1, <2>2, StartTaken
<1>5. CASE StreamStarts
  <2>1. HostTakes("start") /\ UNCHANGED <<writer, handler, call>> /\ data' = [data EXCEPT ![Sender] = "open"]
    BY <1>5 DEF StreamStarts, childVars
  <2>2. \A s \in Streams : data'[s] = data[s] \/ s = Sender
    BY <2>1 DEF TypeOK
  <2> QED BY <2>1, <2>2, StartTaken
<1>6. CASE StreamEnds \/ StreamFails
  <2>1. (HostTakes("end") \/ HostTakes("fail")) /\ UNCHANGED <<writer, handler, call>>
    BY <1>6 DEF StreamEnds, StreamFails, StreamFinishes, childVars
  <2>2. \A s \in Streams : data'[s] = data[s] \/ data[s] # "none"
    BY <1>6, DataSettles
  <2> QED BY <2>1, <2>2, StartTaken
<1>7. CASE RunArrives
  <2>1. /\ toClient # <<>> /\ toClient' = Tail(toClient) /\ UNCHANGED <<toHost, writer, call, data>>
        /\ Head(toClient).type = "request" /\ handler' = [handler EXCEPT ![Head(toClient).id] = "running"]
    BY <1>7 DEF RunArrives, hostSide, streamVars
  <2>2. 1 \in 1..Len(toClient) /\ Head(toClient) = toClient[1]
    BY <2>1, ClientTaken
  <2>3. handler[Head(toClient).id] = "none"
    BY <2>1, <2>2 DEF RequestsArriveOnce
  <2>4. \A r \in Runs : handler'[r] = handler[r] \/ handler[r] # "replied"
    BY <2>1, <2>3 DEF TypeOK
  <2> QED BY <2>1, <2>4, StartUnchanged
<1>8. CASE AnswerArrives \/ ChildExits \/ \E q \in Calls : CallTimesOut(q)
  <2>1. UNCHANGED <<toHost, writer, handler, data>>
    BY <1>8 DEF AnswerArrives, ChildExits, CallTimesOut, childVars, hostSide, streamVars
  <2>2. \A q \in Uploads : call'[q] = "new" => call[q] = "new"
    BY <1>8, IpcAssumption DEF AnswerArrives, ChildExits, CallTimesOut, childVars, TypeOK
  <2> QED BY <2>1, <2>2, StartUnchanged
<1>9. ASSUME NEW r \in Runs, RepliesWithStream(r) PROVE StreamsStartOnce'
  <2> DEFINE ms == <<Msg("start", r), Msg("stream", r)>>
  <2>1. ms \in Seq(ToHost)
    BY SentMessages DEF Streams
  <2>2. Len(ms) = 2 /\ ms[1] = Msg("start", r) /\ ms[2] = Msg("stream", r)
    OBVIOUS
  <2>3. /\ SendToHost(ms) /\ UNCHANGED <<data, call>> /\ handler[r] = "running" /\ r \in Streams
        /\ handler' = [handler EXCEPT ![r] = "replied"] /\ writer' = [writer EXCEPT ![r] = "open"]
    BY <1>9 DEF RepliesWithStream, hostSide, streamVars, Streams
  <2> HIDE DEF ms
  <2>4. writer[r] = "none" /\ writer'[r] = "open" /\ \A s \in Streams : s # r => writer'[s] = writer[s]
    BY <2>3 DEF StreamsStartOnce, TypeOK
  <2>5. \A k \in 1..Len(ms) : ms[k].type = "start" => k = 1 /\ ms[k].id = r
    <3>1. \A k \in 1..2 : k = 1 \/ k = 2
      OBVIOUS
    <3> QED BY <2>2, <3>1 DEF Msg
  <2>6. \A x \in Runs : handler'[x] # "replied" => writer'[x] = "none"
    BY <2>3, <2>4 DEF StreamsStartOnce, TypeOK, Streams
  <2>7. \A q \in Uploads : call'[q] = "new" => writer'[q] = "none"
    <3>1. \A q \in Uploads : q # r /\ q \in Streams
      BY IpcAssumption DEF Streams
    <3> QED BY <2>3, <2>4, <3>1 DEF StreamsStartOnce
  <2> QED BY <2>1, <2>3, <2>4, <2>5, <2>6, <2>7, StartSent
<1>10. ASSUME NEW m \in ToHost, SendToHost(<<m>>), UNCHANGED data, m.type # "start",
              \A s \in Streams : writer'[s] = writer[s] \/ (writer[s] # "none" /\ writer'[s] # "none"),
              \A r \in Runs : handler'[r] = handler[r] \/ handler'[r] = "replied",
              \A q \in Calls : call'[q] = call[q]
       PROVE  StreamsStartOnce'
  <2> DEFINE ms == <<m>>
  <2>1. ms \in Seq(ToHost) /\ Len(ms) = 1 /\ ms[1] = m
    BY <1>10
  <2>2. SendToHost(ms)
    BY <1>10
  <2> HIDE DEF ms
  <2>3. \A k \in 1..Len(ms) : ms[k].type # "start"
    BY <1>10, <2>1
  <2>4. \A r \in Runs : handler'[r] # "replied" => writer'[r] = "none"
    BY <1>10 DEF StreamsStartOnce, Streams
  <2>5. \A q \in Uploads : call'[q] = "new" => writer'[q] = "none"
    BY <1>10, IpcAssumption DEF StreamsStartOnce, Streams
  <2> QED BY <1>10, <2>1, <2>2, <2>3, <2>4, <2>5, StartSent
<1>11. ASSUME NEW r \in Runs, RepliesError(r) PROVE StreamsStartOnce'
  <2>1. Msg("error", r) \in ToHost /\ Msg("error", r).type # "start" /\ SendToHost(<<Msg("error", r)>>)
        /\ UNCHANGED <<data, writer, call>>
    BY <1>11, SentMessages DEF RepliesError, Msg, hostSide, streamVars
  <2>2. \A x \in Runs : handler'[x] = handler[x] \/ handler'[x] = "replied"
    BY <1>11 DEF RepliesError, TypeOK
  <2> QED BY <1>10, <2>1, <2>2
<1>12. ASSUME NEW s \in Streams, Writes(s) PROVE StreamsStartOnce'
  <2>1. sent[s] + 1 \in 1..MaxChunks
    BY <1>12, IpcAssumption DEF Writes, TypeOK
  <2> QED BY <1>10, <1>12, <2>1, SentMessages DEF Writes, hostSide, streamVars
<1>13. ASSUME NEW s \in Streams, EndsStream(s) PROVE StreamsStartOnce'
  <2>1. Msg("end", s) \in ToHost /\ Msg("end", s).type # "start" /\ SendToHost(<<Msg("end", s)>>)
        /\ UNCHANGED <<data, handler, call>>
    BY <1>13, SentMessages DEF EndsStream, Msg, hostSide, streamVars
  <2>2. \A x \in Streams : writer'[x] = writer[x] \/ (writer[x] # "none" /\ writer'[x] # "none")
    BY <1>13 DEF EndsStream, TypeOK
  <2> QED BY <1>10, <2>1, <2>2
<1>14. ASSUME NEW q \in Calls, FailsStream(q) PROVE StreamsStartOnce'
  <2>1. Msg("fail", q) \in ToHost /\ Msg("fail", q).type # "start" /\ SendToHost(<<Msg("fail", q)>>)
        /\ UNCHANGED <<data, handler, call>>
    BY <1>14, SentMessages DEF FailsStream, Msg, hostSide, streamVars
  <2>2. \A x \in Streams : writer'[x] = writer[x] \/ (writer[x] # "none" /\ writer'[x] # "none")
    BY <1>14 DEF FailsStream, TypeOK
  <2> QED BY <1>10, <2>1, <2>2
<1>15. ASSUME NEW q \in Calls, PluginCalls(q) PROVE StreamsStartOnce'
  <2> DEFINE ms == (IF q \in Uploads THEN <<Msg("start", q)>> ELSE <<>>) \o <<Msg("request", q)>>
  <2>1. \/ /\ q \in Uploads /\ Len(ms) = 2
           /\ ms[1] = Msg("start", q) /\ ms[2] = Msg("request", q)
        \/ q \notin Uploads /\ Len(ms) = 1 /\ ms[1] = Msg("request", q)
    OBVIOUS
  <2>2. ms \in Seq(ToHost)
    <3>1. <<Msg("request", q)>> \in Seq(ToHost) /\ <<>> \in Seq(ToHost)
      BY SentMessages
    <3>2. q \in Uploads => <<Msg("start", q)>> \in Seq(ToHost)
      BY SentMessages DEF Streams
    <3> QED BY <3>1, <3>2, ConcatProperties
  <2>3. /\ SendToHost(ms) /\ UNCHANGED <<data, handler>> /\ call[q] = "new"
        /\ call' = [call EXCEPT ![q] = "pending"]
        /\ writer' = [s \in Streams |-> IF s = q THEN "open" ELSE writer[s]]
    BY <1>15 DEF PluginCalls, hostSide, streamVars
  <2> HIDE DEF ms
  <2>4. q \in Streams => q \in Uploads /\ writer[q] = "none" /\ writer'[q] = "open"
    BY <2>3, IpcAssumption DEF Streams, StreamsStartOnce
  <2>5. \A k \in 1..Len(ms) : ms[k].type = "start" => k = 1 /\ ms[k].id = q /\ q \in Uploads
    <3>1. \A k \in 1..2 : k = 1 \/ k = 2
      OBVIOUS
    <3>2. \A k \in 1..1 : k = 1
      OBVIOUS
    <3> QED BY <2>1, <3>1, <3>2 DEF Msg
  <2>6. \A s \in Streams : writer'[s] = IF s = q THEN "open" ELSE writer[s]
    BY <2>3
  <2>7. \A r \in Runs : handler'[r] # "replied" => writer'[r] = "none"
    BY <2>3, <2>6, IpcAssumption DEF StreamsStartOnce, Streams
  <2>8. \A x \in Uploads : call'[x] = "new" => writer'[x] = "none"
    <3>1. \A x \in Uploads : x \in Streams /\ x \in Calls
      BY IpcAssumption DEF Streams
    <3> QED BY <2>3, <2>6, <3>1 DEF StreamsStartOnce, TypeOK
  <2>9. \A k \in 1..Len(ms) : ms[k].type = "start" =>
          k = 1 /\ writer[ms[k].id] = "none" /\ writer'[ms[k].id] # "none"
    BY <2>4, <2>5 DEF Streams
  <2> QED BY <2>2, <2>3, <2>6, <2>7, <2>8, <2>9, StartSent
<1>16. CASE UNCHANGED vars
  BY <1>16, StartUnchanged DEF vars, childVars, streamVars
<1> QED BY <1>1, <1>2, <1>3, <1>4, <1>5, <1>6, <1>7, <1>8, <1>9, <1>11, <1>12, <1>13, <1>14, <1>15, <1>16
        DEF Next, HostStep, HostReceives, ChildStep

LEMMA FlowTypes ==
  ASSUME TypeOK, NEW s \in Streams
  PROVE  /\ got[s] \in Seq(1..MaxChunks) /\ Len(got[s]) \in Nat /\ sent[s] \in Nat /\ sent[s] <= MaxChunks
         /\ MaxChunks \in Nat
BY IpcAssumption, LenProperties DEF TypeOK

(* Nothing is taken or sent, or the host closes.                           *)
LEMMA FlowQuiet ==
  ASSUME NEW s \in Streams, Flows(s), UNCHANGED <<sent, writer, got>>, open' => open,
         toHost' = toHost \/ (~open' /\ toHost' = <<>>),
         data'[s] = "ended" => data[s] = "ended"
  PROVE  Flows(s)'
<1>1. ReadInOrder(s)'
  BY DEF Flows, ReadInOrder
<1>2. CASE toHost' = toHost
  BY <1>1, <1>2 DEF Flows, SentInOrder, EndsLast, ChunkAt, EndAt
<1>3. CASE ~open' /\ toHost' = <<>>
  <2>1. \A i \in 1..Len(toHost') : FALSE
    BY <1>3, EmptySeq
  <2> QED BY <1>1, <1>3, <2>1 DEF Flows, SentInOrder, EndsLast
<1> QED BY <1>2, <1>3

(* The host takes a message that is no chunk of the stream.                *)
LEMMA FlowTaken ==
  ASSUME TypeOK, NEW s \in Streams, Flows(s), NEW t, HostTakes(t), UNCHANGED <<sent, writer, open>>,
         got'[s] = got[s], ~(t = "chunk" /\ s = Sender),
         data'[s] = "ended" => data[s] = "ended" \/ (t = "end" /\ s = Sender)
  PROVE  Flows(s)'
<1> DEFINE n == Len(got[s])
<1>1. /\ Len(toHost) \in Nat /\ 1 \in 1..Len(toHost) /\ toHost[1].type = t /\ toHost[1].id = Sender
      /\ Len(toHost') = Len(toHost) - 1
      /\ \A i \in 1..Len(toHost') : i + 1 \in 1..Len(toHost) /\ toHost'[i] = toHost[i + 1]
  BY Taken
<1>2. /\ \A i \in 1..Len(toHost') : ChunkAt(i, s)' => ChunkAt(i + 1, s)
      /\ \A i \in 1..Len(toHost') : EndAt(i, s)' => EndAt(i + 1, s)
  BY <1>1 DEF ChunkAt, EndAt
<1>3. open /\ n \in Nat /\ n' = n /\ sent' = sent /\ sent[s] \in Nat
  BY FlowTypes DEF HostTakes
<1>4. ReadInOrder(s)'
  BY <1>3 DEF Flows, ReadInOrder
<1>5. ASSUME NEW i \in 1..Len(toHost), ChunkAt(i, s)
      PROVE  i - 1 \in 1..Len(toHost') /\ ChunkAt(i - 1, s)' /\ toHost'[i - 1].n = toHost[i].n
  <2>1. i # 1
    BY <1>1, <1>5 DEF ChunkAt
  <2>2. i - 1 \in 1..Len(toHost') /\ (i - 1) + 1 = i
    BY <1>1, <2>1
  <2>3. toHost'[i - 1] = toHost[i]
    BY <1>1, <2>2
  <2> QED BY <1>5, <2>2, <2>3 DEF ChunkAt
<1>6. SentInOrder(s)'
  <2>1. ASSUME NEW k \in (n + 1)..sent[s]
        PROVE  \E i \in 1..Len(toHost') : ChunkAt(i, s)' /\ toHost'[i].n = k
    <3>1. PICK i \in 1..Len(toHost) : ChunkAt(i, s) /\ toHost[i].n = k
      BY <1>3 DEF Flows, SentInOrder
    <3> QED BY <1>5, <3>1
  <2>2. \A i \in 1..Len(toHost') : ChunkAt(i, s)' => toHost'[i].n \in (n + 1)..sent[s]
    BY <1>1, <1>2 DEF Flows, SentInOrder
  <2>3. ASSUME NEW i \in 1..Len(toHost'), NEW j \in 1..Len(toHost'), i < j, ChunkAt(i, s)', ChunkAt(j, s)'
        PROVE  toHost'[i].n < toHost'[j].n
    <3>1. i + 1 \in 1..Len(toHost) /\ j + 1 \in 1..Len(toHost) /\ i + 1 < j + 1
      BY <1>1, <2>3
    <3>2. ChunkAt(i + 1, s) /\ ChunkAt(j + 1, s)
      BY <1>2, <2>3
    <3>3. toHost[i + 1].n < toHost[j + 1].n
      BY <3>1, <3>2 DEF Flows, SentInOrder
    <3> QED BY <1>1, <3>3
  <2> QED BY <1>3, <2>1, <2>2, <2>3 DEF SentInOrder
<1>7. ASSUME NEW i \in 1..Len(toHost'), EndAt(i, s)'
      PROVE  writer'[s] = "ended" /\ \A j \in (i + 1)..Len(toHost') : ~ChunkAt(j, s)'
  <2>1. i + 1 \in 1..Len(toHost) /\ EndAt(i + 1, s)
    BY <1>1, <1>2, <1>7
  <2>2. writer[s] = "ended" /\ \A j \in (i + 2)..Len(toHost) : ~ChunkAt(j, s)
    <3>1. (i + 1) + 1 = i + 2
      OBVIOUS
    <3> QED BY <2>1, <3>1 DEF Flows, EndsLast
  <2>3. ASSUME NEW j \in (i + 1)..Len(toHost') PROVE ~ChunkAt(j, s)'
    <3>1. j \in 1..Len(toHost') /\ j + 1 \in (i + 2)..Len(toHost)
      BY <1>1
    <3> QED BY <1>2, <2>2, <3>1
  <2> QED BY <2>2, <2>3
<1>8. ASSUME data'[s] = "ended" PROVE writer'[s] = "ended" /\ n' = sent'[s]
  <2>1. CASE data[s] = "ended"
    BY <1>3, <2>1 DEF Flows, EndsLast
  <2>2. CASE t = "end" /\ s = Sender
    <3>1. EndAt(1, s)
      BY <1>1, <2>2 DEF EndAt
    <3>2. writer[s] = "ended" /\ \A j \in 2..Len(toHost) : ~ChunkAt(j, s)
      BY <1>1, <3>1 DEF Flows, EndsLast
    <3>3. \A j \in 1..Len(toHost) : ~ChunkAt(j, s)
      <4>1. ~ChunkAt(1, s)
        BY <1>1, <2>2 DEF ChunkAt
      <4>2. \A j \in 1..Len(toHost) : j = 1 \/ j \in 2..Len(toHost)
        BY <1>1
      <4> QED BY <3>2, <4>1, <4>2
    <3>4. \A k \in (n + 1)..sent[s] : FALSE
      BY <1>3, <3>3 DEF Flows, SentInOrder
    <3>5. n <= sent[s]
      BY DEF Flows, ReadInOrder
    <3>6. ~(n < sent[s])
      <4>1. n < sent[s] => n + 1 \in (n + 1)..sent[s]
        BY <1>3
      <4> QED BY <3>4, <4>1
    <3> QED BY <1>3, <3>2, <3>5, <3>6
  <2> QED BY <1>8, <2>1, <2>2
<1> QED BY <1>4, <1>6, <1>7, <1>8 DEF Flows, EndsLast

(* The chunk the host reads is the next one.                               *)
LEMMA FlowRead ==
  ASSUME TypeOK, NEW s \in Streams, Flows(s), HostTakes("chunk"), s = Sender, UNCHANGED <<sent, writer, open, data>>,
         got'[s] = Append(got[s], Head(toHost).n), data[s] # "ended"
  PROVE  Flows(s)'
<1> DEFINE n == Len(got[s])
<1>1. /\ Len(toHost) \in Nat /\ 1 \in 1..Len(toHost) /\ ChunkAt(1, s) /\ Head(toHost) = toHost[1]
      /\ Len(toHost') = Len(toHost) - 1
      /\ \A i \in 1..Len(toHost') : i + 1 \in 1..Len(toHost) /\ toHost'[i] = toHost[i + 1]
  <2>1. toHost \in Seq(ToHost) /\ toHost # <<>>
    BY DEF HostTakes, TypeOK
  <2> QED BY Taken, <2>1 DEF ChunkAt
<1>2. /\ \A i \in 1..Len(toHost') : ChunkAt(i, s)' => ChunkAt(i + 1, s)
      /\ \A i \in 1..Len(toHost') : EndAt(i, s)' => EndAt(i + 1, s)
  BY <1>1 DEF ChunkAt, EndAt
<1>3. open /\ got[s] \in Seq(1..MaxChunks) /\ n \in Nat /\ sent[s] \in Nat /\ sent' = sent
  BY FlowTypes DEF HostTakes
<1>4. toHost[1].n \in (n + 1)..sent[s] /\ toHost[1].n \in 1..MaxChunks
  BY <1>1, InThePipe, Messages DEF Flows, SentInOrder, ChunkAt
<1>5. toHost[1].n = n + 1
  <2>1. n + 1 \in (n + 1)..sent[s]
    BY <1>3, <1>4
  <2>2. PICK i \in 1..Len(toHost) : ChunkAt(i, s) /\ toHost[i].n = n + 1
    BY <1>3, <2>1 DEF Flows, SentInOrder
  <2>3. CASE i = 1
    BY <2>2, <2>3
  <2>4. CASE i # 1
    <3>1. 1 < i
      BY <2>4
    <3>2. toHost[1].n < n + 1
      BY <1>1, <2>2, <3>1 DEF Flows, SentInOrder
    <3> QED BY <1>3, <1>4, <3>2
  <2> QED BY <2>3, <2>4
<1>6. n' = n + 1 /\ got'[s][n + 1] = n + 1 /\ \A k \in 1..n : got'[s][k] = got[s][k]
  BY <1>1, <1>3, <1>4, <1>5, AppendProperties
<1>7. ReadInOrder(s)'
  <2>1. \A k \in 1..(n + 1) : k = n + 1 \/ k \in 1..n
    BY <1>3
  <2>2. n + 1 <= sent[s]
    BY <1>3, <1>4
  <2> QED BY <1>3, <1>6, <2>1, <2>2 DEF Flows, ReadInOrder
<1>8. SentInOrder(s)'
  <2>1. ASSUME NEW k \in (n + 2)..sent[s]
        PROVE  \E i \in 1..Len(toHost') : ChunkAt(i, s)' /\ toHost'[i].n = k
    <3>1. PICK i \in 1..Len(toHost) : ChunkAt(i, s) /\ toHost[i].n = k
      BY <1>3 DEF Flows, SentInOrder
    <3>2. i # 1
      BY <1>3, <1>5, <3>1
    <3>3. i - 1 \in 1..Len(toHost') /\ (i - 1) + 1 = i
      BY <1>1, <3>2
    <3>4. toHost'[i - 1] = toHost[i]
      BY <1>1, <3>3
    <3> QED BY <3>1, <3>3, <3>4 DEF ChunkAt
  <2>2. ASSUME NEW i \in 1..Len(toHost'), ChunkAt(i, s)' PROVE toHost'[i].n \in (n + 2)..sent[s]
    <3>1. i + 1 \in 1..Len(toHost) /\ 1 < i + 1 /\ toHost'[i] = toHost[i + 1]
      BY <1>1
    <3>3. ChunkAt(i + 1, s)
      BY <1>2, <2>2
    <3>2. toHost[1].n < toHost[i + 1].n /\ toHost[i + 1].n \in (n + 1)..sent[s]
      BY <1>1, <3>1, <3>3 DEF Flows, SentInOrder
    <3> QED BY <1>3, <1>5, <3>1, <3>2
  <2>3. ASSUME NEW i \in 1..Len(toHost'), NEW j \in 1..Len(toHost'), i < j, ChunkAt(i, s)', ChunkAt(j, s)'
        PROVE  toHost'[i].n < toHost'[j].n
    <3>1. i + 1 \in 1..Len(toHost) /\ j + 1 \in 1..Len(toHost) /\ i + 1 < j + 1
      BY <1>1, <2>3
    <3>2. ChunkAt(i + 1, s) /\ ChunkAt(j + 1, s)
      BY <1>2, <2>3
    <3>3. toHost[i + 1].n < toHost[j + 1].n
      BY <3>1, <3>2 DEF Flows, SentInOrder
    <3> QED BY <1>1, <3>3
  <2>4. n' + 1 = n + 2
    BY <1>3, <1>6
  <2> QED BY <1>3, <2>1, <2>2, <2>3, <2>4 DEF SentInOrder
<1>9. ASSUME NEW i \in 1..Len(toHost'), EndAt(i, s)'
      PROVE  writer'[s] = "ended" /\ \A j \in (i + 1)..Len(toHost') : ~ChunkAt(j, s)'
  <2>1. i + 1 \in 1..Len(toHost) /\ EndAt(i + 1, s)
    BY <1>1, <1>2, <1>9
  <2>2. writer[s] = "ended" /\ \A j \in (i + 2)..Len(toHost) : ~ChunkAt(j, s)
    <3>1. (i + 1) + 1 = i + 2
      OBVIOUS
    <3> QED BY <2>1, <3>1 DEF Flows, EndsLast
  <2>3. ASSUME NEW j \in (i + 1)..Len(toHost') PROVE ~ChunkAt(j, s)'
    <3>1. j \in 1..Len(toHost') /\ j + 1 \in (i + 2)..Len(toHost)
      BY <1>1
    <3> QED BY <1>2, <2>2, <3>1
  <2> QED BY <2>2, <2>3
<1> QED BY <1>7, <1>8, <1>9 DEF Flows, EndsLast

(* The child sends nothing of the stream but its start or its failure.     *)
LEMMA FlowSent ==
  ASSUME TypeOK, NEW s \in Streams, Flows(s), NEW ms \in Seq(ToHost), SendToHost(ms), UNCHANGED <<got, data, open>>,
         sent'[s] = sent[s], writer[s] = "ended" => writer'[s] = "ended",
         \A k \in 1..Len(ms) : ~(ms[k].type \in {"chunk", "end"} /\ ms[k].id = s)
  PROVE  Flows(s)'
<1>1. ASSUME NEW i \in 1..Len(toHost'), ChunkAt(i, s)' \/ EndAt(i, s)'
      PROVE  i \in 1..Len(toHost)
  <2> SUFFICES ASSUME i \notin 1..Len(toHost) PROVE FALSE
    OBVIOUS
  <2>1. open /\ i - Len(toHost) \in 1..Len(ms) /\ Len(toHost) + (i - Len(toHost)) = i
    BY SentAfter, LenProperties
  <2>2. toHost'[i] = ms[i - Len(toHost)]
    BY <2>1, SentAfter
  <2> QED BY <1>1, <2>1, <2>2 DEF ChunkAt, EndAt
<1>2. /\ Len(toHost) \in Nat
      /\ \A i \in 1..Len(toHost) : i \in 1..Len(toHost') /\ toHost'[i] = toHost[i]
      /\ \A i \in 1..Len(toHost) : (ChunkAt(i, s)' <=> ChunkAt(i, s)) /\ (EndAt(i, s)' <=> EndAt(i, s))
  BY SentAfter DEF ChunkAt, EndAt
<1>3. ReadInOrder(s)'
  BY DEF Flows, ReadInOrder
<1>4. SentInOrder(s)'
  BY <1>1, <1>2 DEF Flows, SentInOrder
<1>5. ASSUME NEW i \in 1..Len(toHost'), EndAt(i, s)'
      PROVE  writer'[s] = "ended" /\ \A j \in (i + 1)..Len(toHost') : ~ChunkAt(j, s)'
  <2>1. i \in 1..Len(toHost) /\ EndAt(i, s)
    BY <1>1, <1>2, <1>5
  <2>2. \A j \in (i + 1)..Len(toHost) : ~ChunkAt(j, s)
    BY <2>1 DEF Flows, EndsLast
  <2>3. ASSUME NEW j \in (i + 1)..Len(toHost'), ChunkAt(j, s)' PROVE FALSE
    <3>1. j \in 1..Len(toHost')
      BY <2>1, <2>3, SentAfter
    <3>2. j \in 1..Len(toHost) /\ ChunkAt(j, s)
      BY <1>1, <1>2, <2>3, <3>1
    <3>3. j \in (i + 1)..Len(toHost)
      BY <2>3, <3>2
    <3> QED BY <2>2, <3>2, <3>3
  <2> QED BY <2>1, <2>3 DEF Flows, EndsLast
<1>6. data'[s] = "ended" => writer'[s] = "ended" /\ Len(got'[s]) = sent'[s]
  BY DEF Flows, EndsLast
<1> QED BY <1>3, <1>4, <1>5, <1>6 DEF Flows, EndsLast

(* One message joins the end of the pipe, if the host listens.             *)
LEMMA OneSent ==
  ASSUME TypeOK, NEW m \in ToHost, SendToHost(<<m>>)
  PROVE  /\ Len(toHost) \in Nat /\ Len(toHost') = (IF open THEN Len(toHost) + 1 ELSE Len(toHost))
         /\ \A i \in 1..Len(toHost) : toHost'[i] = toHost[i]
         /\ open => toHost'[Len(toHost) + 1] = m
<1> DEFINE ms == <<m>>
<1>1. ms \in Seq(ToHost) /\ Len(ms) = 1 /\ ms[1] = m /\ SendToHost(ms)
  OBVIOUS
<1> HIDE DEF ms
<1>2. 1 \in 1..Len(ms)
  BY <1>1
<1> QED BY <1>1, <1>2, SentAfter

(* The next chunk is written.                                              *)
LEMMA FlowWritten ==
  ASSUME TypeOK, NEW s \in Streams, Flows(s), Writes(s)
  PROVE  Flows(s)'
<1> DEFINE m == [type |-> "chunk", id |-> s, n |-> sent[s] + 1]
           l == Len(toHost)
<1>1. /\ UNCHANGED <<got, data, open, writer>> /\ SendToHost(<<m>>) /\ writer[s] = "open"
      /\ sent'[s] = sent[s] + 1 /\ sent[s] + 1 \in 1..MaxChunks /\ sent[s] \in Nat /\ Len(got[s]) \in Nat
  BY FlowTypes DEF Writes, hostSide, streamVars, TypeOK
<1>2. m \in ToHost /\ m.type = "chunk" /\ m.id = s /\ m.n = sent[s] + 1
  BY <1>1, SentMessages
<1> HIDE DEF m
<1>3. /\ l \in Nat /\ Len(toHost') = (IF open THEN l + 1 ELSE l)
      /\ \A i \in 1..l : toHost'[i] = toHost[i]
      /\ open => toHost'[l + 1] = m
  BY <1>1, <1>2, OneSent
<1>4. ReadInOrder(s)'
  BY <1>1 DEF Flows, ReadInOrder
<1>5. \A i \in 1..Len(toHost') :
        (i \in 1..l /\ toHost'[i] = toHost[i]) \/ (open /\ i = l + 1 /\ toHost'[i] = m)
  BY <1>3
<1>6. \A i \in 1..l : ChunkAt(i, s) => toHost[i].n \in (Len(got[s]) + 1)..sent[s]
  BY DEF Flows, SentInOrder
<1>7. \A i \in 1..l : ~EndAt(i, s)
  BY <1>1 DEF Flows, EndsLast
<1>8. SentInOrder(s)'
  <2>1. ASSUME NEW k \in (Len(got[s]) + 1)..(sent[s] + 1), open
        PROVE  \E i \in 1..Len(toHost') : ChunkAt(i, s)' /\ toHost'[i].n = k
    <3>1. CASE k = sent[s] + 1
      <4>1. l + 1 \in 1..Len(toHost') /\ toHost'[l + 1] = m
        BY <1>3, <2>1
      <4> QED BY <1>2, <3>1, <4>1 DEF ChunkAt
    <3>2. CASE k # sent[s] + 1
      <4>1. k \in (Len(got[s]) + 1)..sent[s]
        BY <1>1, <3>2
      <4>2. PICK i \in 1..l : ChunkAt(i, s) /\ toHost[i].n = k
        BY <2>1, <4>1 DEF Flows, SentInOrder
      <4>3. i \in 1..Len(toHost') /\ toHost'[i] = toHost[i]
        BY <1>3
      <4> QED BY <4>2, <4>3 DEF ChunkAt
    <3> QED BY <3>1, <3>2
  <2>2. ASSUME NEW i \in 1..Len(toHost'), ChunkAt(i, s)' PROVE toHost'[i].n \in (Len(got[s]) + 1)..(sent[s] + 1)
    <3>1. CASE i \in 1..l /\ toHost'[i] = toHost[i]
      BY <1>1, <1>6, <2>2, <3>1 DEF ChunkAt
    <3>2. CASE i = l + 1 /\ toHost'[i] = m
      <4>1. Len(got[s]) <= sent[s]
        BY DEF Flows, ReadInOrder
      <4> QED BY <1>1, <1>2, <3>2, <4>1
    <3> QED BY <1>5, <3>1, <3>2
  <2>3. ASSUME NEW i \in 1..Len(toHost'), NEW j \in 1..Len(toHost'), i < j, ChunkAt(i, s)', ChunkAt(j, s)'
        PROVE  toHost'[i].n < toHost'[j].n
    <3>1. i \in 1..l /\ toHost'[i] = toHost[i] /\ ChunkAt(i, s)
      <4>1. i # l + 1
        BY <1>3, <2>3
      <4> QED BY <1>5, <2>3, <4>1 DEF ChunkAt
    <3>2. CASE j \in 1..l /\ toHost'[j] = toHost[j]
      BY <2>3, <3>1, <3>2 DEF Flows, SentInOrder, ChunkAt
    <3>3. CASE j = l + 1 /\ toHost'[j] = m
      BY <1>1, <1>2, <1>6, <3>1, <3>3
    <3> QED BY <1>5, <3>2, <3>3
  <2> QED BY <1>1, <2>1, <2>2, <2>3 DEF SentInOrder
<1>9. \A i \in 1..Len(toHost') : ~EndAt(i, s)'
  BY <1>2, <1>5, <1>7 DEF EndAt
<1>10. data'[s] # "ended"
  BY <1>1 DEF Flows, EndsLast
<1> QED BY <1>4, <1>8, <1>9, <1>10 DEF Flows, EndsLast

(* The end is written, behind all chunks.                                  *)
LEMMA FlowEnded ==
  ASSUME TypeOK, NEW s \in Streams, Flows(s), EndsStream(s)
  PROVE  Flows(s)'
<1> DEFINE m == Msg("end", s)
           l == Len(toHost)
<1>1. /\ UNCHANGED <<got, data, open, sent>> /\ SendToHost(<<m>>) /\ writer[s] = "open" /\ writer'[s] = "ended"
  BY DEF EndsStream, hostSide, streamVars, TypeOK
<1>2. m \in ToHost /\ m.type = "end" /\ m.id = s
  BY SentMessages DEF Msg
<1> HIDE DEF m
<1>3. /\ l \in Nat /\ Len(toHost') = (IF open THEN l + 1 ELSE l)
      /\ \A i \in 1..l : toHost'[i] = toHost[i]
      /\ open => toHost'[l + 1] = m
  BY <1>1, <1>2, OneSent
<1>4. ReadInOrder(s)'
  BY <1>1 DEF Flows, ReadInOrder
<1>5. \A i \in 1..Len(toHost') :
        (i \in 1..l /\ toHost'[i] = toHost[i]) \/ (open /\ i = l + 1 /\ toHost'[i] = m)
  BY <1>3
<1>6. \A i \in 1..Len(toHost') : ChunkAt(i, s)' => i \in 1..l /\ toHost'[i] = toHost[i] /\ ChunkAt(i, s)
  BY <1>2, <1>5 DEF ChunkAt
<1>7. \A i \in 1..l : ~EndAt(i, s)
  BY <1>1 DEF Flows, EndsLast
<1>8. \A i \in 1..l : i \in 1..Len(toHost') /\ (ChunkAt(i, s) => ChunkAt(i, s)')
  BY <1>3 DEF ChunkAt
<1>9. SentInOrder(s)'
  <2>1. ASSUME NEW k \in (Len(got[s]) + 1)..sent[s], open
        PROVE  \E i \in 1..Len(toHost') : ChunkAt(i, s)' /\ toHost'[i].n = k
    <3>1. PICK i \in 1..l : ChunkAt(i, s) /\ toHost[i].n = k
      BY <2>1 DEF Flows, SentInOrder
    <3> QED BY <1>3, <1>8, <3>1
  <2> QED BY <1>1, <1>6, <2>1 DEF Flows, SentInOrder
<1>10. ASSUME NEW i \in 1..Len(toHost'), EndAt(i, s)'
       PROVE  \A j \in (i + 1)..Len(toHost') : ~ChunkAt(j, s)'
  <2>1. i = l + 1
    BY <1>5, <1>7, <1>10 DEF EndAt
  <2> QED BY <1>3, <1>6, <2>1
<1>11. data'[s] # "ended"
  BY <1>1 DEF Flows, EndsLast
<1> QED BY <1>1, <1>4, <1>9, <1>10, <1>11 DEF Flows, EndsLast

LEMMA FlowStep ==
  ASSUME TypeOK, StreamsStartOnce, NEW s \in Streams, Flows(s), [Next]_vars
  PROVE  Flows(s)'
<1>1. ASSUME NEW r \in Runs, HostInvokes(r) \/ RunTimesOut(r) \/ RunCancelled(r) \/ StreamTimesOut(r)
      PROVE  Flows(s)'
  <2>1. UNCHANGED <<toHost, writer, sent, got, open>>
    BY <1>1 DEF HostInvokes, RunTimesOut, RunCancelled, StreamTimesOut, childVars, streamVars
  <2>2. data'[s] = "ended" => data[s] = "ended"
    BY <1>1 DEF HostInvokes, RunTimesOut, RunCancelled, StreamTimesOut, Drop, streamVars, TypeOK
  <2> QED BY <2>1, <2>2, FlowQuiet
<1>2. ASSUME NEW q \in Calls, UploadRejected(q) \/ HostReplies(q) PROVE Flows(s)'
  <2>1. UNCHANGED <<toHost, writer, sent, got, open>>
    BY <1>2 DEF UploadRejected, HostReplies, childVars, streamVars
  <2>2. data'[s] = "ended" => data[s] = "ended"
    BY <1>2 DEF UploadRejected, HostReplies, Drop, streamVars, TypeOK
  <2> QED BY <2>1, <2>2, FlowQuiet
<1>3. ASSUME (\E q \in Calls : HostReplyFails(q)) \/ HostSeesExit \/ ChunkRefused PROVE Flows(s)'
  <2>1. Close /\ UNCHANGED <<writer, sent>>
    BY <1>3 DEF HostReplyFails, HostSeesExit, ChunkRefused, Breaks, childVars
  <2>2. data'[s] = "ended" => data[s] = "ended"
    BY <2>1 DEF Close, FailsAll, TypeOK
  <2> QED BY <2>1, <2>2, FlowQuiet DEF Close
<1>4. CASE LateResponse \/ ErrorResponse \/ StreamResponse \/ CallArrives
  <2>1. UNCHANGED <<writer, sent, got, open, data>>
    BY <1>4 DEF LateResponse, ErrorResponse, StreamResponse, CallArrives, Claim, childVars, streamVars
  <2>2. \E t \in {"stream", "error", "request"} : HostTakes(t)
    BY <1>4 DEF LateResponse, ErrorResponse, StreamResponse, CallArrives
  <2> QED BY <2>1, <2>2, FlowTaken
<1>5. CASE StreamStarts
  <2>1. HostTakes("start") /\ UNCHANGED <<writer, sent, got, open>> /\ data' = [data EXCEPT ![Sender] = "open"]
    BY <1>5 DEF StreamStarts, childVars
  <2>2. data'[s] = "ended" => data[s] = "ended"
    BY <2>1 DEF TypeOK
  <2> QED BY <2>1, <2>2, FlowTaken
<1>6. CASE ChunkArrives
  <2>1. /\ HostTakes("chunk") /\ Writable(Sender) /\ UNCHANGED <<writer, sent, open, data>>
        /\ got' = [got EXCEPT ![Sender] = Append(@, Head(toHost).n)]
    BY <1>6 DEF ChunkArrives, childVars
  <2>2. CASE s = Sender
    BY <2>1, <2>2, FlowRead DEF Writable, TypeOK
  <2>3. CASE s # Sender
    <3>1. got'[s] = got[s]
      BY <2>1, <2>3 DEF TypeOK
    <3> QED BY <2>1, <2>3, <3>1, FlowTaken
  <2> QED BY <2>2, <2>3
<1>7. CASE StreamEnds
  <2>1. HostTakes("end") /\ UNCHANGED <<writer, sent, got, open>>
    BY <1>7 DEF StreamEnds, StreamFinishes, childVars
  <2>2. data'[s] = "ended" => data[s] = "ended" \/ s = Sender
    BY <1>7 DEF StreamEnds, StreamFinishes, TypeOK
  <2> QED BY <2>1, <2>2, FlowTaken
<1>8. CASE StreamFails
  <2>1. HostTakes("fail") /\ UNCHANGED <<writer, sent, got, open>>
    BY <1>8 DEF StreamFails, StreamFinishes, childVars
  <2>2. data'[s] = "ended" => data[s] = "ended"
    BY <1>8 DEF StreamFails, StreamFinishes, TypeOK
  <2> QED BY <2>1, <2>2, FlowTaken
<1>9. CASE RunArrives \/ AnswerArrives \/ ChildExits \/ \E q \in Calls : CallTimesOut(q)
  BY <1>9, FlowQuiet DEF RunArrives, AnswerArrives, ChildExits, CallTimesOut, childVars, hostSide, streamVars
<1>10. ASSUME NEW r \in Runs, RepliesWithStream(r) PROVE Flows(s)'
  <2> DEFINE ms == <<Msg("start", r), Msg("stream", r)>>
  <2>1. ms \in Seq(ToHost)
    BY SentMessages DEF Streams
  <2>2. Len(ms) = 2 /\ ms[1] = Msg("start", r) /\ ms[2] = Msg("stream", r)
    OBVIOUS
  <2>3. /\ SendToHost(ms) /\ UNCHANGED <<data, got, open, sent>> /\ handler[r] = "running" /\ r \in Streams
        /\ writer' = [writer EXCEPT ![r] = "open"]
    BY <1>10 DEF RepliesWithStream, hostSide, streamVars, Streams
  <2> HIDE DEF ms
  <2>4. writer[s] = "ended" => writer'[s] = "ended"
    <3>1. writer[r] = "none"
      BY <2>3 DEF StreamsStartOnce
    <3> QED BY <2>3, <3>1 DEF TypeOK
  <2>5. \A k \in 1..Len(ms) : ms[k].type \notin {"chunk", "end"}
    <3>1. \A k \in 1..2 : k = 1 \/ k = 2
      OBVIOUS
    <3> QED BY <2>2, <3>1 DEF Msg
  <2> QED BY <2>1, <2>3, <2>4, <2>5, FlowSent
<1>11. ASSUME NEW m \in ToHost, SendToHost(<<m>>), UNCHANGED <<got, data, open>>, sent'[s] = sent[s],
              writer[s] = "ended" => writer'[s] = "ended", ~(m.type \in {"chunk", "end"} /\ m.id = s)
       PROVE  Flows(s)'
  <2> DEFINE ms == <<m>>
  <2>1. ms \in Seq(ToHost) /\ Len(ms) = 1 /\ ms[1] = m
    BY <1>11
  <2>2. SendToHost(ms)
    BY <1>11
  <2> HIDE DEF ms
  <2>3. \A k \in 1..Len(ms) : ms[k] = m
    BY <2>1
  <2> QED BY <1>11, <2>1, <2>2, <2>3, FlowSent
<1>12. ASSUME NEW r \in Runs, RepliesError(r) PROVE Flows(s)'
  <2>1. Msg("error", r) \in ToHost /\ Msg("error", r).type = "error" /\ SendToHost(<<Msg("error", r)>>)
        /\ UNCHANGED <<data, writer, sent, got, open>>
    BY <1>12, SentMessages DEF RepliesError, Msg, hostSide, streamVars
  <2> QED BY <1>11, <2>1
<1>13. ASSUME NEW q \in Calls, FailsStream(q) PROVE Flows(s)'
  <2>1. /\ Msg("fail", q) \in ToHost /\ Msg("fail", q).type = "fail" /\ SendToHost(<<Msg("fail", q)>>)
        /\ UNCHANGED <<data, sent, got, open>>
    BY <1>13, SentMessages DEF FailsStream, Msg, hostSide, streamVars
  <2>2. writer[s] = "ended" => writer'[s] = "ended"
    BY <1>13 DEF FailsStream, TypeOK
  <2> QED BY <1>11, <2>1, <2>2
<1>14. ASSUME NEW x \in Streams, x # s, Writes(x) PROVE Flows(s)'
  <2> DEFINE m == [type |-> "chunk", id |-> x, n |-> sent[x] + 1]
  <2>1. sent[x] + 1 \in 1..MaxChunks
    BY <1>14, IpcAssumption DEF Writes, TypeOK
  <2>2. m \in ToHost /\ m.id = x /\ SendToHost(<<m>>) /\ UNCHANGED <<data, got, open, writer>>
    BY <1>14, <2>1, SentMessages DEF Writes, hostSide, streamVars
  <2>3. sent'[s] = sent[s]
    BY <1>14 DEF Writes, TypeOK
  <2> HIDE DEF m
  <2> QED BY <1>11, <1>14, <2>2, <2>3
<1>15. ASSUME NEW x \in Streams, x # s, EndsStream(x) PROVE Flows(s)'
  <2>1. /\ Msg("end", x) \in ToHost /\ Msg("end", x).id = x /\ SendToHost(<<Msg("end", x)>>)
        /\ UNCHANGED <<data, sent, got, open>>
    BY <1>15, SentMessages DEF EndsStream, Msg, hostSide, streamVars
  <2>2. writer'[s] = writer[s]
    BY <1>15 DEF EndsStream, TypeOK
  <2> QED BY <1>11, <1>15, <2>1, <2>2
<1>16. ASSUME NEW x \in Streams, Writes(x) \/ EndsStream(x) PROVE Flows(s)'
  BY <1>14, <1>15, <1>16, FlowWritten, FlowEnded
<1>17. ASSUME NEW q \in Calls, PluginCalls(q) PROVE Flows(s)'
  <2> DEFINE ms == (IF q \in Uploads THEN <<Msg("start", q)>> ELSE <<>>) \o <<Msg("request", q)>>
  <2>1. \/ /\ q \in Uploads /\ Len(ms) = 2
           /\ ms[1] = Msg("start", q) /\ ms[2] = Msg("request", q)
        \/ q \notin Uploads /\ Len(ms) = 1 /\ ms[1] = Msg("request", q)
    OBVIOUS
  <2>2. ms \in Seq(ToHost)
    <3>1. <<Msg("request", q)>> \in Seq(ToHost) /\ <<>> \in Seq(ToHost)
      BY SentMessages
    <3>2. q \in Uploads => <<Msg("start", q)>> \in Seq(ToHost)
      BY SentMessages DEF Streams
    <3> QED BY <3>1, <3>2, ConcatProperties
  <2>3. /\ SendToHost(ms) /\ UNCHANGED <<data, got, open, sent>> /\ call[q] = "new"
        /\ writer' = [x \in Streams |-> IF x = q THEN "open" ELSE writer[x]]
    BY <1>17 DEF PluginCalls, hostSide, streamVars
  <2> HIDE DEF ms
  <2>4. writer[s] = "ended" => writer'[s] = "ended"
    BY <2>3, IpcAssumption DEF Streams, StreamsStartOnce
  <2>5. \A k \in 1..Len(ms) : ms[k].type \notin {"chunk", "end"}
    <3>1. \A k \in 1..2 : k = 1 \/ k = 2
      OBVIOUS
    <3>2. \A k \in 1..1 : k = 1
      OBVIOUS
    <3> QED BY <2>1, <3>1, <3>2 DEF Msg
  <2> QED BY <2>2, <2>3, <2>4, <2>5, FlowSent
<1>18. CASE UNCHANGED vars
  BY <1>18, FlowQuiet DEF vars, childVars, streamVars
<1> QED BY <1>1, <1>2, <1>3, <1>4, <1>5, <1>6, <1>7, <1>8, <1>9, <1>10, <1>12, <1>13, <1>16, <1>17, <1>18
        DEF Next, HostStep, HostReceives, ChildStep

(* A stream that was read to its end stays so.                             *)
LEMMA EndedStays ==
  ASSUME TypeOK, StreamsStartOnce, [Next]_vars, NEW s \in Streams, data[s] = "ended"
  PROVE  data'[s] = "ended"
<1>1. CASE StreamStarts
  <2>1. HostTakes("start") /\ data' = [data EXCEPT ![Sender] = "open"]
    BY <1>1 DEF StreamStarts
  <2>2. 1 \in 1..Len(toHost) /\ StartAt(1, Sender)
    BY <2>1, Taken DEF StartAt
  <2>3. s # Sender
    BY <2>2 DEF StreamsStartOnce
  <2> QED BY <2>1, <2>3 DEF TypeOK
<1>2. CASE \/ \E r \in Runs : RunCancelled(r) \/ StreamTimesOut(r)
           \/ \E q \in Calls : UploadRejected(q) \/ HostReplyFails(q)
           \/ HostSeesExit \/ ChunkRefused \/ StreamEnds \/ StreamFails
  BY <1>2, DataSettles DEF HostReplyFails, HostSeesExit, ChunkRefused, Breaks
<1>3. ASSUME NEW r \in Runs, HostInvokes(r) \/ RunTimesOut(r) PROVE data'[s] = "ended"
  BY <1>3 DEF HostInvokes, RunTimesOut, streamVars
<1>4. ASSUME NEW q \in Calls, HostReplies(q) PROVE data'[s] = "ended"
  BY <1>4 DEF HostReplies, streamVars
<1>5. CASE LateResponse \/ ErrorResponse \/ StreamResponse \/ CallArrives \/ ChunkArrives
  BY <1>5 DEF LateResponse, ErrorResponse, StreamResponse, CallArrives, ChunkArrives, Claim, streamVars
<1>6. CASE ChildStep
  BY <1>6 DEF ChildStep, RunArrives, AnswerArrives, RepliesWithStream, RepliesError, PluginCalls, CallTimesOut,
     FailsStream, Writes, EndsStream, ChildExits, hostSide, streamVars
<1>7. CASE UNCHANGED vars
  BY <1>7 DEF vars, streamVars
<1> QED BY <1>1, <1>2, <1>3, <1>4, <1>5, <1>6, <1>7 DEF Next, HostStep, HostReceives

LEMMA ToldStep == TypeOK /\ StreamsStartOnce /\ ToldAreRead /\ [Next]_vars => ToldAreRead'
<1> SUFFICES ASSUME TypeOK, StreamsStartOnce, ToldAreRead, [Next]_vars PROVE ToldAreRead'
  OBVIOUS
<1>1. \A q \in Uploads : q \in Calls /\ q \in Streams /\ (data[q] = "ended" => data'[q] = "ended")
  BY EndedStays, IpcAssumption DEF Streams
<1>2. ASSUME toClient' = toClient \/ toClient' = <<>>, \A q \in Calls : call'[q] = "done" => call[q] = "done"
      PROVE  ToldAreRead'
  BY <1>1, <1>2, EmptySeq DEF ToldAreRead
<1>3. ASSUME NEW m \in ToClient, toClient' = Append(toClient, m), UNCHANGED call,
             m.type = "value" /\ m.id \in Uploads => data[m.id] = "ended"
      PROVE  ToldAreRead'
  <2>1. /\ Len(toClient) \in Nat /\ Len(toClient') = Len(toClient) + 1 /\ toClient'[Len(toClient) + 1] = m
        /\ \A i \in 1..Len(toClient) : toClient'[i] = toClient[i]
    BY <1>3, ClientSent
  <2>2. \A i \in 1..Len(toClient') : toClient'[i] = m \/ (i \in 1..Len(toClient) /\ toClient'[i] = toClient[i])
    BY <2>1
  <2> QED BY <1>1, <1>3, <2>2 DEF ToldAreRead
<1>4. ASSUME NEW r \in Runs, HostInvokes(r) \/ RunTimesOut(r) \/ RunCancelled(r) \/ StreamTimesOut(r)
      PROVE  ToldAreRead'
  <2>1. UNCHANGED call
    BY <1>4 DEF HostInvokes, RunTimesOut, RunCancelled, StreamTimesOut, childVars
  <2>2. toClient' = toClient \/ toClient' = Append(toClient, Msg("request", r))
    BY <1>4 DEF HostInvokes, RunTimesOut, RunCancelled, StreamTimesOut
  <2>3. Msg("request", r) \in ToClient /\ Msg("request", r).type = "request"
    BY SentAnswers DEF Msg
  <2> QED BY <1>2, <1>3, <2>1, <2>2, <2>3
<1>5. ASSUME NEW q \in Calls, HostReplies(q) PROVE ToldAreRead'
  <2>1. PICK t \in {"value", "error"} : Answered(q, t) /\ toClient' = Append(toClient, Msg(t, q))
    BY <1>5 DEF HostReplies
  <2>2. Msg(t, q) \in ToClient /\ Msg(t, q).type = t /\ Msg(t, q).id = q /\ UNCHANGED call
    BY <1>5, SentAnswers DEF HostReplies, Msg, childVars
  <2>3. t = "value" /\ q \in Uploads => data[q] = "ended"
    BY <2>1 DEF Answered
  <2> QED BY <1>3, <2>1, <2>2, <2>3
<1>6. ASSUME NEW q \in Calls, UploadRejected(q) \/ HostReplyFails(q) PROVE ToldAreRead'
  BY <1>2, <1>6 DEF UploadRejected, HostReplyFails, childVars
<1>7. CASE HostSeesExit \/ HostReceives
  BY <1>2, <1>7 DEF HostSeesExit, HostReceives, LateResponse, ErrorResponse, StreamResponse, StreamStarts,
     ChunkArrives, ChunkRefused, StreamEnds, StreamFails, StreamFinishes, CallArrives, childVars
<1>8. ASSUME toClient # <<>>, toClient' = Tail(toClient),
             \A q \in Uploads : call'[q] = "done" => call[q] = "done" \/ (Head(toClient).type = "value" /\ Head(toClient).id = q)
      PROVE  ToldAreRead'
  <2>1. /\ 1 \in 1..Len(toClient) /\ Head(toClient) = toClient[1]
        /\ \A i \in 1..Len(toClient') : i + 1 \in 1..Len(toClient) /\ toClient'[i] = toClient[i + 1]
    BY <1>8, ClientTaken
  <2>2. \A i \in 1..Len(toClient') :
          toClient'[i].type = "value" /\ toClient'[i].id \in Uploads => data'[toClient'[i].id] = "ended"
    BY SMTT(30), <1>1, <2>1 DEF ToldAreRead
  <2>3. \A q \in Uploads : call'[q] = "done" => data'[q] = "ended"
    BY <1>1, <1>8, <2>1 DEF ToldAreRead
  <2> QED BY <2>2, <2>3 DEF ToldAreRead
<1>9. CASE RunArrives
  BY <1>8, <1>9 DEF RunArrives
<1>10. CASE AnswerArrives
  <2>1. toClient # <<>> /\ toClient' = Tail(toClient) /\ Head(toClient) \in ToClient /\ Head(toClient).type # "request"
    BY <1>10, ClientTypes DEF AnswerArrives, TypeOK
  <2>2. \A q \in Uploads : call'[q] = "done" =>
          call[q] = "done" \/ (Head(toClient).type = "value" /\ Head(toClient).id = q)
    BY <1>1, <1>10, <2>1, Answers DEF AnswerArrives, TypeOK
  <2> QED BY <1>8, <2>1, <2>2
<1>11. CASE ChildExits
  BY <1>2, <1>11 DEF ChildExits, childVars
<1>12. ASSUME NEW r \in Runs, RepliesWithStream(r) \/ RepliesError(r) PROVE ToldAreRead'
  BY <1>2, <1>12 DEF RepliesWithStream, RepliesError
<1>13. ASSUME NEW q \in Calls, PluginCalls(q) \/ CallTimesOut(q) \/ FailsStream(q) PROVE ToldAreRead'
  BY <1>2, <1>13 DEF PluginCalls, CallTimesOut, FailsStream, TypeOK
<1>14. ASSUME NEW s \in Streams, Writes(s) \/ EndsStream(s) PROVE ToldAreRead'
  BY <1>2, <1>14 DEF Writes, EndsStream
<1>15. CASE UNCHANGED vars
  BY <1>2, <1>15 DEF vars, childVars
<1> QED BY <1>4, <1>5, <1>6, <1>7, <1>9, <1>10, <1>11, <1>12, <1>13, <1>14, <1>15 DEF Next, HostStep, ChildStep

(* A stream the host has read to its end, and an upload the plugin is told *)
(* has succeeded, were written to their end and delivered whole.           *)
THEOREM StreamsWhole == Spec => []StreamsAreWhole
<1>1. Init => WholeInv
  <2> SUFFICES ASSUME Init PROVE WholeInv
    OBVIOUS
  <2>1. /\ \A i \in 1..Len(toClient) : FALSE
        /\ \A i \in 1..Len(toHost) : FALSE
    BY EmptySeq DEF Init
  <2>2. StartInv
    BY <2>1, IpcAssumption DEF Init, StartInv, RequestsArriveOnce, StreamsStartOnce, Streams
  <2>3. \A s \in Streams : Flows(s)
    BY <2>1, EmptySeq DEF Init, Flows, ReadInOrder, SentInOrder, EndsLast
  <2>4. ToldAreRead
    BY <2>1, IpcAssumption DEF Init, ToldAreRead
  <2> QED BY <2>2, <2>3, <2>4 DEF WholeInv
<1>2. TypeOK /\ WholeInv /\ [Next]_vars => WholeInv'
  <2> SUFFICES ASSUME TypeOK, WholeInv, [Next]_vars PROVE WholeInv'
    OBVIOUS
  <2>1. StartInv'
    BY ArriveStep, StartOnceStep DEF WholeInv, StartInv
  <2>2. \A s \in Streams : Flows(s)'
    BY FlowStep DEF WholeInv, StartInv
  <2>3. ToldAreRead'
    BY ToldStep DEF WholeInv, StartInv
  <2> QED BY <2>1, <2>2, <2>3 DEF WholeInv
<1>3. TypeOK /\ WholeInv => StreamsAreWhole
  <2> SUFFICES ASSUME TypeOK, WholeInv, NEW s \in Streams,
                      data[s] = "ended" \/ (s \in Uploads /\ call[s] = "done")
               PROVE  writer[s] = "ended" /\ got[s] = [i \in 1..sent[s] |-> i]
    BY DEF StreamsAreWhole
  <2>1. data[s] = "ended"
    BY DEF WholeInv, ToldAreRead
  <2>2. writer[s] = "ended" /\ Len(got[s]) = sent[s] /\ \A k \in 1..Len(got[s]) : got[s][k] = k
    BY <2>1 DEF WholeInv, Flows, ReadInOrder, EndsLast
  <2>3. got[s] = [i \in 1..Len(got[s]) |-> got[s][i]]
    BY FlowTypes, LenProperties
  <2> QED BY <2>2, <2>3
<1> QED BY <1>1, <1>2, <1>3, TypeCorrect, PTL DEF Spec
=============================================================================

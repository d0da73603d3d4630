--------------------------- MODULE FailureReport ---------------------------
(***************************************************************************)
(* The way of an error from where it arises to who is told of it: from a   *)
(* pod, the repository or a handler of the server to the client of the     *)
(* HTTP interface, and from an answer of FastGPT to a reverse invocation   *)
(* through the channel of the pod to the user of the tool that made it.    *)
(* error.vo.ts, error.registry.ts, result.vo.ts (domain), response.ts and  *)
(* the hooks (hono), ipc.ts, local-pool-runtime.driver.ts, tool.impl.ts,   *)
(* invoke.impl.ts, the SDK's invoke.client.ts and transport.ts, err.ts.    *)
(*                                                                         *)
(* An error is the sequence of itself, its cause, the cause of that, ...;  *)
(* a text (message or reason) is the set of the messages it was made from. *)
(* Abstracted: names, stacks, HTTP status, telemetry, data, languages.     *)
(***************************************************************************)
EXTENDS Naturals, Sequences

CONSTANTS
  Messages,  \* those of an error where it arises and its causes, the outermost first
  None

VARIABLES
  stage,   \* where the error is
  error,   \* the error there, outermost link first
  raised,  \* history: the error where it arose
  from,    \* history: the stage it arose at
  told     \* the messages that the text shown at the end is made from

vars == <<stage, error, raised, from, told>>

-----------------------------------------------------------------------------
(* error.vo.ts                                                             *)

(* The codes of the registry that are used here, and those whose           *)
(* visibility is internal.                                                 *)
Registered ==
  {"invoke.failed", "invoke.timeout", "invoke.queue_timeout", "plugin_not_found",
   "bad_request", "unauthorized", "not_found", "validation_failed", "internal_server_error"}
Internal == {"internal_server_error"}

(* A link: a RegisteredError, any other Error, or a cause that is not one. *)
Link(kind, code, reason, text) == [kind |-> kind, code |-> code, reason |-> reason, text |-> text]
Plain(text) == Link("error", None, {}, text)

CreateError(code, text, cause) == <<Link("registered", code, text, text)>> \o cause
ReasonError(reason, cause) == <<Link("error", None, reason, reason)>> \o cause

(* getErrorReason                                                          *)
Reason(e) ==
  IF e[1].kind = "registered" /\ e[1].code \in Internal THEN {"internal server error"}
  ELSE IF e[1].reason # {} THEN e[1].reason ELSE e[1].text

(* normalizeToError: of an error, itself; of another value, an error with  *)
(* its message, if it has one, and the value as cause.                     *)
UnknownText(value, fallback) ==
  IF value.text # {} THEN value.text ELSE IF value.kind = "null" THEN fallback ELSE {"[object Object]"}
Normalized(e, fallback) ==
  IF e[1].kind \in {"registered", "error"} THEN e ELSE <<Plain(UnknownText(e[1], fallback))>> \o e

(* normalizeToError of a ResultFailure: its error, under its reason unless *)
(* that is the reason of the error already.                                *)
NormalizedFailure(reason, e) == IF Reason(e) = reason THEN e ELSE ReasonError(reason, e)

(* serializeError: six links; a cause that is no error becomes one.        *)
Depth == 6
SerializedLink(link) ==
  IF link.kind \in {"registered", "error"} THEN link
  ELSE Plain(UnknownText(link, {"unknown error"}))
Serialize(e) ==
  LET kept == IF Len(e) > Depth THEN Append(SubSeq(e, 1, Depth), Plain({"depth exceeded"})) ELSE e
  IN [i \in DOMAIN kept |-> SerializedLink(kept[i])]

(* deserializeError: a registered code makes a RegisteredError again, with *)
(* the reason of its definition when it has none.                          *)
Deserialize(e) ==
  [i \in DOMAIN e |->
     IF e[i].code \notin Registered THEN [e[i] EXCEPT !.kind = "error"]
     ELSE [e[i] EXCEPT !.kind = "registered", !.reason = IF @ = {} THEN {e[i].code} ELSE @]]

(* toErrorResponse, toCauseResponse: every link has a code and a reason;   *)
(* the message of an internal error is not shown.                          *)
ErrorResponse(e) ==
  LET sent == Serialize(e)
  IN [i \in DOMAIN sent |->
        [code |-> IF sent[i].code = None THEN "INTERNAL_ERROR" ELSE sent[i].code,
         reason |-> IF i = 1 THEN Reason(e)
                    ELSE IF sent[i].reason # {} THEN sent[i].reason ELSE sent[i].text,
         text |-> IF i = 1 /\ e[1].kind = "registered" /\ e[1].code \in Internal
                  THEN Reason(e) ELSE sent[i].text]]

-----------------------------------------------------------------------------
(* ipc.ts                                                                  *)

(* A failed reply: toPluginChannelError gives every link a code.           *)
OverChannel(e) ==
  LET sent == Serialize(e)
  IN Deserialize([i \in DOMAIN sent |->
       [sent[i] EXCEPT !.code = IF @ = None THEN "INTERNAL_ERROR" ELSE @]])

(* An error within a result: encodeChannelResult, decodeChannelResult.     *)
InResult(e) == Deserialize(Serialize(e))

-----------------------------------------------------------------------------
Init ==
  /\ stage = "begin" /\ from = "begin"
  /\ error = <<>> /\ raised = <<>> /\ told = {}

(* An error with n causes.                                                 *)
Nested(first, n) == <<first>> \o [i \in 1..n |-> Plain({Messages[i + 1]})]
Arisen == {Nested(Plain({Messages[1]}), n) : n \in 0..Len(Messages) - 1}

Raise(at, errors) ==
  /\ stage = "begin" /\ stage' = at /\ from' = at
  /\ raised' \in errors /\ error' = raised'
  /\ UNCHANGED told

Moves(at, to, e) == stage = at /\ stage' = to /\ error' = e /\ UNCHANGED <<raised, from, told>>

-----------------------------------------------------------------------------
(* The run of a tool fails in the service or the pod; a registered error   *)
(* of the drivers; an error of the debug driver's requests, under one.     *)
PodFails ==
  Raise("pod", Arisen \cup {<<Link("error", code, {}, {"a"})>> : code \in {"REQUEST_TIMEOUT", "QUEUE_TIMEOUT"}})
DriverFails == Raise("driver", {CreateError("plugin_not_found", {"a"}, <<>>)})
DebugFails == Raise("debug", Arisen)

(* LocalPoolRuntimeManager.invoke: toInvokeFailureError.                   *)
TimeoutCode(code) ==
  IF code = "REQUEST_TIMEOUT" THEN "invoke.timeout"
  ELSE IF code = "QUEUE_TIMEOUT" THEN "invoke.queue_timeout" ELSE None
ToInvokeFailureError(e) ==
  IF TimeoutCode(e[1].code) # None THEN CreateError(TimeoutCode(e[1].code), {"timed out"}, e)
  ELSE CreateError("invoke.failed", {"invoke failed"} \cup e[1].text, e)
WrapPodError == Moves("pod", "manager", ToInvokeFailureError(error))
PassDriverError == Moves("driver", "manager", error)
WrapDebugError == Moves("debug", "manager", CreateError("invoke.failed", {"invoke failed"}, error))

(* ToolManager.run: toPluginInvokeError repeats a registered error, with   *)
(* its cause or, when it has none, itself as the cause.                    *)
RepeatedAlone(e) == <<e[1]>> \* mutant: without the cause
Repeated(e) == <<e[1]>> \o (IF Len(e) > 1 THEN Tail(e) ELSE e)
WrapManagerError ==
  Moves("manager", "route",
        IF error[1].code \in Registered THEN Repeated(error)
        ELSE CreateError("invoke.failed", {"invoke failed"} \cup error[1].text, error))

-----------------------------------------------------------------------------
(* The repository fails, under a reason of its own.  ToolManager.run makes *)
(* another error of it; use cases return it, or give it a reason as well.  *)
RepoFails == Raise("repo", Arisen)
WrapRepoError == Moves("repo", "failure", ReasonError({"repo"}, error))
WrapPluginError == Moves("failure", "route", CreateError("plugin_not_found", {"get plugin"}, error))
WrapUseCaseError ==
  \/ Moves("failure", "route", error)
  \/ Moves("failure", "route", ReasonError({"use case"}, NormalizedFailure({"repo"}, error)))

(* An error that is thrown out of a handler, one of hono's, a request that *)
(* is not valid, and a path that is not known.                             *)
HandlerThrows == Raise("thrown", Arisen)
HttpException == Raise("http", {<<Plain({"a"})>>})
InputFails == Raise("route", {CreateError("validation_failed", {"a"}, <<>>)})
PathFails == Raise("route", {CreateError("not_found", {"a"}, <<>>)})
OnError ==
  \/ Moves("thrown", "route", CreateError("internal_server_error", {"internal server error"}, error))
  \/ \E code \in {"bad_request", "unauthorized"} : Moves("http", "route", CreateError(code, error[1].text, error))

(* R.fail: the response, of which the client of the SDK shows the message. *)
Respond == Moves("route", "client", ErrorResponse(error))
ClientThrows ==
  /\ stage = "client" /\ stage' = "over"
  /\ told' = error[1].text
  /\ UNCHANGED <<error, raised, from>>

-----------------------------------------------------------------------------
(* A reverse invocation fails: fetch, or the parsing of the answer, throws; *)
(* FastGPT refuses with an HTTP status, or says in its answer why not.     *)
FastGPTFails ==
  Raise("fastgpt", Arisen \cup {<<Link("value", None, {}, {})>>, <<Link("value", None, {}, {"a"})>>})
NotPermitted == Raise("fastgpt", {<<Link("null", None, {}, {})>>})
NoSession == Raise("session", {<<Plain({"a"})>>})

(* InvokeManager.requestFastGPT, parseResponse, routeClientRequest:        *)
(* failureResult(reason, value).                                           *)
HostReason ==
  IF raised[1].kind = "value" /\ raised[1].text # {} THEN raised[1].text ELSE {"host"}
WrapAnswer == Moves("fastgpt", "result", ReasonError(HostReason, Normalized(error, HostReason)))
ReplyResult == Moves("result", "plugin", InResult(error))
ReplyError == Moves("session", "plugin", OverChannel(error))

(* InvokeClient: failureResult(reason, failure), or of what was thrown.    *)
WrapForTool ==
  Moves("plugin", "tool",
        ReasonError({"invoke"}, IF from = "session" THEN error ELSE NormalizedFailure(HostReason, error)))

(* getErrText: the reasons, and the message of the innermost error, or of  *)
(* the one that is five levels down.                                       *)
ErrText(e, depth) ==
  LET last == IF Len(e) > 6 - depth THEN 6 - depth ELSE Len(e)
  IN (UNION {e[i].reason : i \in DOMAIN e}) \cup IF e[last].reason = {} THEN e[last].text ELSE {}

(* The tool throws the failure or its error, which becomes the text of an  *)
(* error message of its run.                                               *)
ToolThrows ==
  /\ stage = "tool" /\ stage' = "over"
  /\ \E depth \in {0, 1} : told' = ErrText(error, depth)
  /\ UNCHANGED <<error, raised, from>>

Next ==
  \/ PodFails \/ DriverFails \/ DebugFails \/ WrapPodError \/ PassDriverError \/ WrapDebugError \/ WrapManagerError
  \/ RepoFails \/ WrapRepoError \/ WrapPluginError \/ WrapUseCaseError
  \/ HandlerThrows \/ HttpException \/ InputFails \/ PathFails \/ OnError
  \/ Respond \/ ClientThrows
  \/ FastGPTFails \/ NotPermitted \/ NoSession \/ WrapAnswer \/ ReplyResult \/ ReplyError \/ WrapForTool \/ ToolThrows

Spec == Init /\ [][Next]_vars

-----------------------------------------------------------------------------
(* Properties                                                              *)

(* The code of the answer to a run.                                        *)
Due ==
  IF from = "driver" THEN "plugin_not_found"
  ELSE IF TimeoutCode(raised[1].code) # None THEN TimeoutCode(raised[1].code) ELSE "invoke.failed"

(* Wherever an error arises, who is told of the failure in the end can     *)
(* find the error and its causes, to the fourth, in their order: no layer  *)
(* that wraps, repeats, serialises or cuts errors loses one of them.  The  *)
(* run of a tool is answered with the code of what happened, and with its  *)
(* message unless it was a timeout.  The user of a tool is shown the       *)
(* reason FastGPT gave for a refusal, and the last cause of a short error. *)
(* Excused: a refusal by an HTTP status, whose status and body get lost    *)
(* ("[object Object]").                                                    *)
FailuresAreTold ==
  LET kept == {i \in DOMAIN raised : i <= 4 /\ raised[i].text # {}}
  IN stage = "over" =>
       /\ \A i \in kept : \E k \in DOMAIN error : error[k].text = raised[i].text
       /\ \A i, j \in kept :
            i < j => \E k, l \in DOMAIN error :
                       k < l /\ error[k].text = raised[i].text /\ error[l].text = raised[j].text
       /\ from \in {"pod", "driver", "debug"} => error[1].code = Due
       /\ from \in {"pod", "driver"} /\ Due \in {"invoke.failed", "plugin_not_found"} => raised[1].text \subseteq told
       /\ from \in {"fastgpt", "session"} =>
            /\ {"invoke"} \subseteq told /\ (from = "fastgpt" => HostReason \subseteq told)
            /\ Len(raised) <= 3 => raised[Len(raised)].text \subseteq told
=============================================================================

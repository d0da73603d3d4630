------------------------------ MODULE Clients ------------------------------
(***************************************************************************)
(* The two parts that run a tool for a user: the client of the SDK, over   *)
(* the server (ToolRun), and the debug command of the CLI without a        *)
(* gateway (LocalDebug).                                                   *)
(* A behaviour is one of one part, the other stays as it is: nothing is    *)
(* shared between them, and nothing is said of them together.              *)
(***************************************************************************)
CONSTANTS MaxMessages, MaxSent, MaxChunks, NoFile

VARIABLES route, data, runtime, written, http, wired, wire, cut, client, buffer, heard
R == INSTANCE ToolRun WITH at <- route, tool <- runtime, link <- wired
runVars == <<route, data, runtime, written, http, wired, wire, cut, client, buffer, heard>>

VARIABLES command, current, notice, handler, sent, ended, taken, result, hosted, stored
L == INSTANCE LocalDebug WITH
  None <- NoFile, at <- command, tool <- handler, upload <- hosted, saved <- stored
localVars == <<command, current, notice, handler, sent, ended, taken, result, hosted, stored>>

VARIABLE part

allVars == <<part, runVars, localVars>>

ClientsInit == part \in {"run", "local"} /\ R!Init /\ L!Init

ClientsNext ==
  \/ part = "run" /\ R!Next /\ UNCHANGED <<part, localVars>>
  \/ part = "local" /\ L!Next /\ UNCHANGED <<part, runVars>>

(* The fairness of ToolRun!FairSpec and of LocalDebug!FairSpec.            *)
ClientsSpec ==
  /\ ClientsInit /\ [][ClientsNext]_allVars
  /\ WF_runVars(part = "run" /\ R!Call) /\ WF_runVars(part = "run" /\ R!Serve)
  /\ WF_localVars(part = "local" /\ L!Command) /\ WF_localVars(part = "local" /\ L!Notify)

-----------------------------------------------------------------------------
(* Properties                                                              *)

(* ToolRun, LocalDebug: what the caller hears is what the tool said.       *)
TruthIsHeard == R!AnswersAreTrue /\ L!AnswersAreTrue
(* ToolRun: a tool whose caller is gone loses its stream.                  *)
AbortsReachTheTool == R!AbortsReachTheTool
(* ToolRun, LocalDebug: every call ends when its tool does.                *)
EveryCallEnds == R!CallsEnd /\ (part = "local" => L!CallsEnd)
=============================================================================

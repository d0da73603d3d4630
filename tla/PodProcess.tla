----------------------------- MODULE PodProcess -----------------------------
(***************************************************************************)
(* The process of one pod from its start to its end, with the group of     *)
(* processes it leads and its runtime directory: PluginPod                 *)
(* (pod/index.ts).  The fleet starts a pod, has it once start() resolves,  *)
(* and then destroys it at most once; a pod kills itself when it is not    *)
(* ready in time, when its channel breaks and when an invocation fails.    *)
(* Processes end, or ignore SIGTERM, as they like.                         *)
(*                                                                         *)
(* Abstracted: the messages of the channel (module IpcChannel), the choice *)
(* of a pod and the limit of requests it serves (module PluginService),    *)
(* what the process may read (module SdkDependency).                       *)
(***************************************************************************)
EXTENDS Naturals

CONSTANT
  MaxActive   \* maxConcurrentRequests

VARIABLES
  start,      \* start(): "no", "prepare", "waiting" for ready, "resolved", "rejected"
  status, active,
  process,    \* there is a ChildProcess
  main,       \* the process: "none", "unborn", "runs", "ended" unnoticed, "gone"
  helper,     \* another process of the group is alive
  stubborn,   \* who ignores SIGTERM: "main", "helper"
  forceKill,  \* forceKillTimer is set
  channel,    \* "none", "open", "closed"
  directory,  \* the runtime directory: "none", "made", "known" to the pod as well
  held,       \* the fleet has the pod
  killed,     \* history: the signals that were sent
  unclean     \* history: a start that failed before there was a process

podState == <<start, status, active, process, channel, forceKill>>
system == <<main, helper, directory>>
vars == <<podState, system, stubborn, held, killed, unclean>>

Init ==
  /\ start = "no" /\ status = "pending" /\ active = 0
  /\ process = FALSE /\ main = "none" /\ helper = FALSE /\ stubborn \in SUBSET {"main", "helper"}
  /\ forceKill = FALSE /\ channel = "none" /\ directory = "none"
  /\ held = FALSE /\ killed = {} /\ unclean = FALSE

(* sendSignal: SIGTERM may be ignored, SIGKILL ends the whole group.       *)
Receive(signal) ==
  LET ignoring == IF signal = "SIGKILL" THEN {} ELSE stubborn
  IN /\ main' = IF main = "runs" /\ "main" \notin ignoring THEN "ended" ELSE main
     /\ helper' = (helper /\ "helper" \in ignoring)

Kill(signal, otherwise) ==
  IF process
  THEN /\ status' = "terminating" /\ killed' = killed \cup {signal}
       /\ forceKill' = (signal = "SIGTERM")
       /\ Receive(signal)
  ELSE status' = otherwise /\ UNCHANGED <<forceKill, main, helper, killed>>

(* handleExit: once a kill is under way the group is waited for.           *)
GroupIsForgotten == FALSE \* mutant: only the process itself is waited for
GroupIsWaitedFor == forceKill /\ helper

-----------------------------------------------------------------------------
(* start()                                                                 *)

Start ==
  /\ start = "no" /\ start' = "prepare"
  /\ UNCHANGED <<status, active, process, channel, forceKill, system, stubborn, held, killed, unclean>>

(* prepareRuntime fails in any of its steps, and leaves what it has made.  *)
PrepareFails ==
  /\ start = "prepare" /\ start' = "rejected" /\ unclean' = TRUE
  /\ directory' \in {"none", "made", "known"}
  /\ UNCHANGED <<status, active, process, channel, forceKill, main, helper, stubborn, held, killed>>

(* fork() throws, and the directory is removed again; or there is a        *)
(* ChildProcess, though the system may have no process for it.             *)
ForkThrows ==
  /\ start = "prepare" /\ start' = "rejected"
  /\ UNCHANGED <<status, active, process, channel, forceKill, system, stubborn, held, killed, unclean>>
Fork ==
  /\ start = "prepare" /\ start' = "waiting" /\ directory' = "known"
  /\ process' = TRUE /\ channel' = "open"
  /\ \/ main' = "runs" /\ UNCHANGED unclean
     \/ main' = "unborn" /\ unclean' = TRUE
  /\ UNCHANGED <<status, active, forceKill, helper, stubborn, held, killed>>

(* Only the first of ready, the timeout and the exit counts.               *)
Ready ==
  /\ start = "waiting" /\ main \in {"runs", "ended"} /\ channel = "open"
  /\ start' = "resolved" /\ status' = "idle" /\ held' = TRUE
  /\ UNCHANGED <<active, process, channel, forceKill, system, stubborn, killed, unclean>>
ReadyTimeout ==
  /\ start = "waiting" /\ start' = "rejected" /\ Kill("SIGTERM", status)
  /\ UNCHANGED <<active, process, channel, directory, stubborn, held, unclean>>

-----------------------------------------------------------------------------
(* Events of the process                                                   *)

MainEnds == main = "runs" /\ main' = "ended" /\ UNCHANGED <<podState, helper, directory, stubborn, held, killed, unclean>>
Spawn == main = "runs" /\ ~helper /\ helper' = TRUE /\ UNCHANGED <<podState, main, directory, stubborn, held, killed, unclean>>
HelperEnds == helper /\ helper' = FALSE /\ UNCHANGED <<podState, main, directory, stubborn, held, killed, unclean>>

(* A process that was not born, that says fail, or whose channel breaks.   *)
HandleError ==
  /\ process /\ channel = "open" /\ channel' = "closed" /\ Kill("SIGTERM", "failed")
  /\ UNCHANGED <<start, active, process, directory, stubborn, held, unclean>>

HandleExit ==
  /\ main = "ended" /\ main' = "gone"
  /\ start' = (IF start = "waiting" THEN "rejected" ELSE start)
  /\ status' = "failed" /\ process' = FALSE /\ channel' = "none" /\ held' = FALSE
  /\ IF GroupIsWaitedFor
     THEN UNCHANGED <<forceKill, directory>>
     ELSE forceKill' = FALSE /\ directory' = "none"
  /\ UNCHANGED <<active, helper, stubborn, killed, unclean>>

(* The grace period is over; if the process itself is gone, this was all.  *)
ForceKill ==
  /\ forceKill /\ forceKill' = FALSE /\ killed' = killed \cup {"SIGKILL"}
  /\ Receive("SIGKILL")
  /\ directory' = IF process THEN directory ELSE "none"
  /\ UNCHANGED <<start, status, active, process, channel, stubborn, held, unclean>>

-----------------------------------------------------------------------------
(* The service: it invokes, and destroys                                   *)

IsAvailable == status \in {"idle", "running"} /\ active < MaxActive

Invoke ==
  /\ held /\ IsAvailable /\ active' = active + 1 /\ status' = "running"
  /\ UNCHANGED <<start, process, channel, forceKill, system, stubborn, held, killed, unclean>>
CompleteRequest ==
  /\ active > 0 /\ active' = active - 1
  /\ status' = IF process /\ status = "running" /\ active = 1 THEN "idle" ELSE status
  /\ UNCHANGED <<start, process, channel, forceKill, system, stubborn, held, killed, unclean>>
InvokeFails ==
  /\ active > 0 /\ active' = active - 1 /\ Kill("SIGTERM", "failed")
  /\ UNCHANGED <<start, process, channel, directory, stubborn, held, unclean>>
DestroyPod ==
  /\ held /\ held' = FALSE
  /\ \E signal \in {"SIGTERM", "SIGKILL"} : Kill(signal, status)
  /\ UNCHANGED <<start, active, process, channel, directory, stubborn, unclean>>

-----------------------------------------------------------------------------
Next ==
  \/ Start \/ PrepareFails \/ ForkThrows \/ Fork \/ Ready \/ ReadyTimeout
  \/ MainEnds \/ Spawn \/ HelperEnds \/ HandleError \/ HandleExit \/ ForceKill
  \/ Invoke \/ CompleteRequest \/ InvokeFails \/ DestroyPod

Spec == Init /\ [][Next]_vars

-----------------------------------------------------------------------------
(* Properties                                                              *)

(* Every variable holds what its declaration says.                         *)
TypeOK ==
  /\ start \in {"no", "prepare", "waiting", "resolved", "rejected"}
  /\ status \in {"pending", "idle", "running", "terminating", "failed"} /\ active \in 0..MaxActive
  /\ {process, helper, forceKill, held, unclean} \subseteq BOOLEAN
  /\ stubborn \subseteq {"main", "helper"}
  /\ main \in {"none", "unborn", "runs", "ended", "gone"} /\ channel \in {"none", "open", "closed"}
  /\ directory \in {"none", "made", "known"} /\ killed \subseteq {"SIGTERM", "SIGKILL"}

(* A pod offers itself only while nothing has been done to end it.         *)
OffersOnlyItself ==
  status \in {"idle", "running"} => start = "resolved" /\ process /\ killed = {} /\ channel = "open"

(* When a pod has nothing more to do its directory is gone, and with it    *)
(* the whole group if the pod has killed it.  Until then the group has its *)
(* directory.  Excused: a start that failed before there was a process,    *)
(* and what outlives a process that ended by itself.                       *)
LeavesNothing ==
  /\ start \in {"resolved", "rejected"} /\ ~process /\ ~forceKill =>
       /\ unclean \/ directory = "none"
       /\ killed # {} => ~helper /\ main # "runs"
  /\ main = "runs" \/ (helper /\ killed # {}) => directory = "known"

(* Both: a pod takes requests only while nothing is done to end it, and a  *)
(* pod that has been ended leaves neither a process nor a file.            *)
PodsLeaveNothing == OffersOnlyItself /\ LeavesNothing
=============================================================================

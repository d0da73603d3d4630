-------------------------- MODULE MCPluginService --------------------------
(***************************************************************************)
(* Small instances of PluginService for TLC.                               *)
(***************************************************************************)
EXTENDS PluginService, TLC

CONSTANTS r1, r2, r3, r4

(* r3 outranks the others, which are FIFO between them.                    *)
MCPriority == [r \in Requests |-> IF r = r3 THEN 1 ELSE 0]

(* LocalPoolPluginConfigSchema, podTimeout standing for every field whose  *)
(* change rolls the pods.                                                  *)
Small  == [minPods |-> 1, maxPods |-> 1, concurrency |-> 1, podTimeout |-> 0]
Pair   == [Small EXCEPT !.maxPods = 2, !.concurrency = 2]
Grown  == [Small EXCEPT !.maxPods = 2, !.podTimeout = 1]

Grows  == {Small, Grown}

(* r1, r2 and r4 differ in nothing where r3 is the one that streams.       *)
ServeSymmetry == {p @@ r : p \in Permutations(Pods), r \in Permutations({r1, r2, r4})}

(* The state without the fields of pod objects nothing refers to any more: *)
(* no action reads them before Launch or PodExit overwrites them.          *)
Referenced ==
  fleet \cup pending \cup alive \cup update.todo \cup {update.cur} \cup {on[r] : r \in Requests}

PodFields ==
  [p \in Pods |->
     IF p \in Referenced THEN <<status[p], active[p], executed[p], limit[p]>> ELSE <<>>]

Observed ==
  <<PodFields, alive, connected, fleetVars, startVars, reqVars, lifeVars, confVars, ensures, turn>>
=============================================================================

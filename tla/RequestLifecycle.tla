-------------------------- MODULE RequestLifecycle --------------------------
(***************************************************************************)
(* What a plugin service promises of the invocations it is given           *)
(* (local-pool/service/index.ts, the promise returned by invoke), without  *)
(* pods, queues or timers: an invocation is answered once, a result comes  *)
(* only from an execution, an invocation is executed at most once and is   *)
(* handed to the replacement of the service only while it has not begun.   *)
(***************************************************************************)
CONSTANT Requests

VARIABLE state

States == {"new", "waiting", "serving", "done", "failed", "moved"}

Settled(r) == state[r] \in {"done", "failed", "moved"}

Init == state = [r \in Requests |-> "new"]

Become(S, s) == state' = [r \in Requests |-> IF r \in S THEN s ELSE state[r]]

Accept(r) == state[r] = "new" /\ Become({r}, "waiting")

Serve(r) == state[r] \in {"new", "waiting"} /\ Become({r}, "serving")

Answer(r) == state[r] = "serving" /\ \E s \in {"done", "failed"} : Become({r}, s)

(* One event may end the wait of several invocations.                      *)
Unserved == {r \in Requests : state[r] \in {"new", "waiting"}}

GiveUp(S) == \E s \in {"failed", "moved"} : Become(S, s)

Next ==
  \/ \E r \in Requests : Accept(r) \/ Serve(r) \/ Answer(r)
  \/ \E S \in SUBSET Unserved : GiveUp(S)

(* An invocation that was accepted leaves each of its stages.              *)
Leaves(r) ==
  /\ state[r] \in {"waiting", "serving"}
  /\ Next /\ state'[r] # state[r]

Promise ==
  Init /\ [][Next]_state /\ \A r \in Requests : WF_state(Leaves(r))
=============================================================================

---------------------------- MODULE RequestQueue ----------------------------
(***************************************************************************)
(* The bounded priority queue of one plugin service                        *)
(* (local-pool/service/request-queue.ts), as operators on the sequence     *)
(* `requests`.  The timers of the class are actions of the service: a      *)
(* request has an armed timer exactly while it is in the sequence, since   *)
(* enqueue/append arm it and shift/drain/remove clear it.                  *)
(***************************************************************************)
EXTENDS Naturals, Sequences

CONSTANTS
  Requests,      \* the invocations, each one ServiceRequest
  Priority,      \* Priority[r]: options.priority of the invocation (0 by default)
  MaxQueueSize   \* config.maxQueueSize

ASSUME QueueAssumption ==
  /\ Priority \in [Requests -> Nat]
  /\ MaxQueueSize \in Nat \ {0}

(* The guard that enqueue and append share: a full queue throws.           *)
HasRoomOffByOne(q) == Len(q) <= MaxQueueSize \* mutant

HasRoom(q) == Len(q) < MaxQueueSize

(* insertByPriority: the first index whose request has a strictly lower    *)
(* priority, or the end of the queue.                                      *)
OutrankedOrEqual(q, r) == {i \in 1..Len(q) : Priority[r] >= Priority[q[i]]} \* mutant

Outranked(q, r) == {i \in 1..Len(q) : Priority[r] > Priority[q[i]]}

InsertIndex(q, r) ==
  IF Outranked(q, r) = {}
  THEN Len(q) + 1
  ELSE CHOOSE i \in Outranked(q, r) : \A j \in Outranked(q, r) : i <= j

InsertByPriority(q, r) ==
  LET k == InsertIndex(q, r)
  IN  [i \in 1..(Len(q) + 1) |->
         IF i < k THEN q[i] ELSE IF i = k THEN r ELSE q[i - 1]]

(* The requests waiting in the queue.                                      *)
Queued(q) == {q[i] : i \in 1..Len(q)}

(* remove(requestId): findIndex, then splice one element out.              *)
Position(q, r) == CHOOSE i \in 1..Len(q) : q[i] = r

WithoutNext(q, r) == \* mutant
  LET k == Position(q, r)
  IN  [i \in 1..(Len(q) - 1) |-> IF i <= k THEN q[i] ELSE q[i + 1]]

Without(q, r) ==
  LET k == Position(q, r)
  IN  [i \in 1..(Len(q) - 1) |-> IF i < k THEN q[i] ELSE q[i + 1]]

-----------------------------------------------------------------------------
(* What the class promises about its contents.                             *)
SortedByPriority(q) ==
  \A i, j \in 1..Len(q) : i < j => Priority[q[i]] >= Priority[q[j]]

NoDuplicates(q) ==
  \A i, j \in 1..Len(q) : q[i] = q[j] => i = j
=============================================================================

------------------------- MODULE ConnectionGateway -------------------------
(***************************************************************************)
(* The sessions of the connection gateway: session-registry.ts             *)
(* (RedisConnectionGatewaySessionRegistry), the session operations of      *)
(* service.ts (ConnectionGatewayService), resource-limiter.ts, the         *)
(* connections of transports/websocket-transport.ts and the handlers of    *)
(* apps/connection-gateway/src/deps.ts and routes.ts.                      *)
(*                                                                         *)
(* A client binds a connection once, so a session is named by its          *)
(* connection.  A call is one coroutine of a handler: it makes one step per *)
(* Redis command, the handling of its reply included.  Times are the ticks  *)
(* left.  The keys of a session live at least as long as its lease         *)
(* (SESSION_TTL_MS >= OWNER_LEASE_TTL_MS, as by default), so Redis may drop *)
(* them once the lease is over.                                            *)
(*                                                                         *)
(* Abstracted: tokens (the claims are the source of the connection; subject *)
(* and source name the same user), capabilities, generations (an id is     *)
(* fresh, so 0), metadata, logs and metrics; the mailboxes are those of    *)
(* module DebugInvocation.                                                 *)
(***************************************************************************)
EXTENDS Integers, FiniteSets

CONSTANTS
  Conns,           \* connections, numbered in the order of their binds
  Sources,
  Calls,           \* bound: calls in flight at a time
  Lease,           \* ownerLeaseTtlMs
  MaxSessions,     \* limits.maxSessionsPerSubject
  None

ASSUME GatewayAssumption ==
  /\ Lease \in Nat \ {0} /\ MaxSessions \in Nat
  /\ Conns \subseteq Nat /\ IsFiniteSet(Conns)
  /\ Calls \subseteq Nat

ASSUME NoneAssumption == None \notin Nat

VARIABLES
  source,       \* sessionScope.source of its token
  open,         \* the connections that are not closed or being closed
  binding,      \* boundConnections: the binding of a connection, closed when it is gone
  record,       \* Redis: sessions:by-id
  index,        \* Redis: sessions:by-source
  lock,         \* Redis: sessions:source-owner
  call,         \* the coroutines
  resurrected   \* history: sessions saved as connected after their end

vars == <<source, open, binding, record, index, lock, call, resurrected>>

Leases == 0..Lease
Statuses == {"connected", "closed"}
SessionRecord == [status : Statuses, left : Leases]
NoOwner == [owner |-> None, left |-> 0]

BindSteps == {"claim", "save", "undo", "bound"}
Steps == BindSteps \cup
         {"idle", "purge", "unindex", "unlock", "refresh", "renewed", "renewSave", "metaSave",
          "closeSave", "deleteKeys", "release"}

(* The steps with an expiresAt to save.                                    *)
Leasing == {"claim", "save", "refresh", "renewSave", "metaSave", "closeSave"}

CallRecord ==
  [conn : Conns \cup {None}, step : Steps,
   status : Statuses \cup {None},   \* of the record read
   left : Leases,                   \* expiresAt of the record to be saved
   stale : SUBSET Conns,            \* expired sessions whose keys are being removed
   after : Steps]                   \* the step that follows their removal

Idle == [conn |-> None, step |-> "idle", status |-> None, left |-> 0, stale |-> {}, after |-> "idle"]

-----------------------------------------------------------------------------
Live(c) == record[c] # None /\ record[c].status = "connected"
Unexpired(c) == record[c] # None /\ record[c].left > 0
Active(c) == Live(c) /\ Unexpired(c)

Holder(s) == lock[s].owner

(* The sessions a gateway serves: requests are pumped to their connection   *)
(* and its messages are accepted.                                          *)
Served(c) == binding[c] = "open" /\ Active(c)


MayOwnAny(c) == TRUE \* mutant: the owner of the key is not compared

(* UPSERT_SOURCE_OWNER_SCRIPT, with the ttl of a lease that starts with its *)
(* call.                                                                   *)
MayOwn(c) == Holder(source[c]) \in {None, c}
Owns(c) == lock' = [lock EXCEPT ![source[c]] = [owner |-> c, left |-> Lease]]

(* RELEASE_SOURCE_OWNER_SCRIPT                                             *)
Release(D) ==
  lock' = [s \in Sources |->
             IF Holder(s) \in D THEN NoOwner ELSE lock[s]]

(* saveSessionAndIndexes                                                   *)
Save(c, status, left) ==
  /\ record' = [record EXCEPT ![c] = [status |-> status, left |-> left]]
  /\ index' = index \cup {c}

Becomes(k, f) == call' = [call EXCEPT ![k] = f]
Then(f, step) ==
  IF step = "idle" THEN Idle
  ELSE [Idle EXCEPT !.conn = f.conn, !.step = step,
          !.status = IF step \in Leasing THEN f.status ELSE None,
          !.left = IF step \in Leasing THEN f.left ELSE 0]
Goes(k, step) == Becomes(k, Then(call[k], step))

(* get, by a call that goes on at found or else at missing: an expired      *)
(* session counts as none, and its keys are removed.  A renewal replaces    *)
(* expiresAt, every other operation keeps the one read.                    *)
AfterGet(c, found, missing) ==
  LET f == [Idle EXCEPT !.conn = c] IN
  IF Unexpired(c)
  THEN Then([f EXCEPT !.status = record[c].status,
               !.left = IF found = "refresh" THEN Lease ELSE record[c].left], found)
  ELSE IF record[c] = None
  THEN Then(f, missing)
  ELSE [f EXCEPT !.step = "purge", !.stale = {c}, !.after = missing]

(* A call begins with its first command.                                   *)
Begins(k, f) ==
  /\ call[k] = Idle /\ \A j \in Calls : j < k => call[j] # Idle
  /\ Becomes(k, f)

Init ==
  /\ source \in [Conns -> Sources]
  /\ open = Conns
  /\ binding = [c \in Conns |-> "none"]
  /\ record = [c \in Conns |-> None]
  /\ index = {}
  /\ lock = [s \in Sources |-> NoOwner]
  /\ call = [k \in Calls |-> Idle]
  /\ resurrected = {}

-----------------------------------------------------------------------------
(* Connections                                                             *)

(* The gateway ends the connection of c, unless it is closed already.      *)
Drops(c) ==
  /\ open' = open \ {c}
  /\ binding' = [binding EXCEPT ![c] = "closed"]

(* onClose: a connection that is not bound yet has nothing to close.       *)
Close(k, c) ==
  /\ c \in open
  /\ open' = open \ {c}
  /\ IF binding[c] = "open"
     THEN /\ binding' = [binding EXCEPT ![c] = "closed"]
          /\ Begins(k, AfterGet(c, "closeSave", "idle"))
     ELSE /\ binding' = [binding EXCEPT ![c] = IF @ = "none" THEN "closed" ELSE @]
          /\ UNCHANGED call
  /\ UNCHANGED <<source, record, index, lock, resurrected>>

(* onMessage, bind: listBySubject and assertSessionBudget.                 *)
Bind(k, c) ==
  LET listed == {d \in Conns : source[d] = source[c] /\ record[d] # None}
      live == {d \in listed : Unexpired(d)}
      allowed == Cardinality(live) < MaxSessions
      next == IF allowed THEN "claim" ELSE "idle"
      new == [Idle EXCEPT !.conn = c, !.left = IF allowed THEN Lease ELSE 0]
  IN
  /\ c \in open /\ binding[c] = "none" /\ \A d \in Conns : d < c => binding[d] # "none"
  /\ IF allowed THEN binding' = [binding EXCEPT ![c] = "pending"] /\ UNCHANGED open ELSE Drops(c)
  /\ Begins(k, IF listed = live
                THEN Then(new, next)
                ELSE [new EXCEPT !.step = "purge", !.stale = listed \ live, !.after = next])
  /\ UNCHANGED <<source, record, index, lock, resurrected>>

(* onMessage: every other message renews the lease first.                  *)
Message(k, c) ==
  /\ c \in open /\ binding[c] = "open"
  /\ Begins(k, AfterGet(c, "refresh", "renewed"))
  /\ UNCHANGED <<source, open, binding, record, index, lock, resurrected>>

(* routes.ts, at any node: DELETE, with disconnectSession if it is the one  *)
(* of the connection, PATCH, and the gets of a status.                     *)
Delete(k, c) ==
  /\ record[c] # None
  /\ \/ binding[c] = "open" /\ Drops(c)
     \/ UNCHANGED <<open, binding>>
  /\ Begins(k, AfterGet(c, "deleteKeys", "idle"))
  /\ UNCHANGED <<source, record, index, lock, resurrected>>

Patch(k, c) ==
  /\ record[c] # None
  /\ Begins(k, AfterGet(c, "metaSave", "idle"))
  /\ UNCHANGED <<source, open, binding, record, index, lock, resurrected>>

Lookup(k, c) ==
  /\ record[c] # None
  /\ Begins(k, AfterGet(c, "idle", "idle"))
  /\ UNCHANGED <<source, open, binding, record, index, lock, resurrected>>

-----------------------------------------------------------------------------
(* The keys of expired sessions are removed.                               *)

Purge(k) ==
  /\ call[k].step = "purge"
  /\ record' = [c \in Conns |-> IF c \in call[k].stale THEN None ELSE record[c]]
  /\ Becomes(k, [call[k] EXCEPT !.step = "unindex"])
  /\ UNCHANGED <<source, open, binding, index, lock, resurrected>>

(* removeSourceIndexes                                                     *)
Unindex(k) ==
  /\ call[k].step = "unindex"
  /\ index' = index \ call[k].stale
  /\ Becomes(k, [call[k] EXCEPT !.step = "unlock"])
  /\ UNCHANGED <<source, open, binding, record, lock, resurrected>>

Unlock(k) ==
  /\ call[k].step = "unlock"
  /\ Release(call[k].stale)
  /\ Goes(k, call[k].after)
  /\ UNCHANGED <<source, open, binding, record, index, resurrected>>

-----------------------------------------------------------------------------
(* bindConnection, and the handler that awaits it                          *)

(* claimSourceOwners                                                       *)
Claim(k) ==
  LET c == call[k].conn IN
  /\ call[k].step = "claim"
  /\ IF MayOwn(c)
     THEN Owns(c) /\ Goes(k, "save") /\ UNCHANGED <<open, binding>>
     ELSE Goes(k, "idle") /\ Drops(c) /\ UNCHANGED lock
  /\ UNCHANGED <<source, record, index, resurrected>>

(* A failed command may have been carried out.                             *)
SaveNew(k) ==
  LET c == call[k].conn IN
  /\ call[k].step = "save"
  /\ \/ Save(c, "connected", call[k].left) /\ (Goes(k, "bound") \/ Goes(k, "undo"))
     \/ Goes(k, "undo") /\ UNCHANGED <<record, index>>
  /\ UNCHANGED <<source, open, binding, lock, resurrected>>

Undo(k) ==
  /\ call[k].step = "undo"
  /\ Release({call[k].conn})
  /\ Goes(k, "idle")
  /\ Drops(call[k].conn)
  /\ UNCHANGED <<source, record, index, resurrected>>

(* boundConnections.set, even if the connection closed in the meantime.    *)
Bound(k) ==
  /\ call[k].step = "bound"
  /\ Goes(k, "idle")
  /\ binding' = [binding EXCEPT ![call[k].conn] = "open"]
  /\ UNCHANGED <<source, open, record, index, lock, resurrected>>

-----------------------------------------------------------------------------
(* renewOwnerLease                                                         *)

(* refreshSourceOwners                                                     *)
Refresh(k) ==
  LET c == call[k].conn IN
  /\ call[k].step = "refresh"
  /\ IF MayOwn(c)
     THEN Owns(c) /\ Goes(k, "renewSave")
     ELSE Goes(k, "renewed") /\ UNCHANGED lock
  /\ UNCHANGED <<source, open, binding, record, index, resurrected>>

(* The whole record is saved as it was read, whatever happened to it since. *)
SaveRead(k) ==
  LET c == call[k].conn IN
  /\ Save(c, call[k].status, call[k].left)
  /\ resurrected' = IF call[k].status = "connected" /\ ~Live(c)
                    THEN resurrected \cup {c} ELSE resurrected
  /\ UNCHANGED <<source, open, binding, lock>>

RenewSave(k) ==
  /\ call[k].step = "renewSave"
  /\ SaveRead(k)
  /\ Goes(k, "renewed")

(* A heartbeat is answered, metadata is updated, an envelope needs its      *)
(* session, whether the lease was renewed or not.                          *)
Renewed(k) ==
  /\ call[k].step = "renewed"
  /\ \/ Goes(k, "idle")
     \/ Becomes(k, AfterGet(call[k].conn, "metaSave", "idle"))
     \/ Becomes(k, AfterGet(call[k].conn, "idle", "idle"))
  /\ UNCHANGED <<source, open, binding, record, index, lock, resurrected>>

(* updateMetadata                                                          *)
MetaSave(k) ==
  /\ call[k].step = "metaSave"
  /\ SaveRead(k)
  /\ Goes(k, "idle")

-----------------------------------------------------------------------------
(* closeSession with updateStatus, and deleteSession with remove           *)

CloseSave(k) ==
  /\ call[k].step = "closeSave"
  /\ Save(call[k].conn, "closed", call[k].left)
  /\ Goes(k, "release")
  /\ UNCHANGED <<source, open, binding, lock, resurrected>>

DeleteKeys(k) ==
  /\ call[k].step = "deleteKeys"
  /\ record' = [record EXCEPT ![call[k].conn] = None]
  /\ index' = index \ {call[k].conn}
  /\ Goes(k, "release")
  /\ UNCHANGED <<source, open, binding, lock, resurrected>>

ReleaseOwner(k) ==
  /\ call[k].step = "release"
  /\ Release({call[k].conn})
  /\ Goes(k, "idle")
  /\ UNCHANGED <<source, open, binding, record, index, resurrected>>

-----------------------------------------------------------------------------
(* Faults and time                                                         *)

Binds(k) == call[k].step \in BindSteps \/ call[k].after = "claim"

(* A command fails: the handler throws, and a bind closes its connection.  *)
Fail(k) ==
  /\ call[k].step \notin {"idle", "save", "undo"}
  /\ Becomes(k, Idle)
  /\ IF Binds(k) THEN Drops(call[k].conn) ELSE UNCHANGED <<open, binding>>
  /\ UNCHANGED <<source, record, index, lock, resurrected>>

(* A gateway process ends and with it its connections D; its handlers of   *)
(* other requests end by Fail.                                             *)
Crash(D) ==
  /\ open' = open \ D
  /\ binding' = [c \in Conns |-> IF c \in D THEN "closed" ELSE binding[c]]
  /\ call' = [k \in Calls |-> IF call[k].conn \in D THEN Idle ELSE call[k]]
  /\ UNCHANGED <<source, record, index, lock, resurrected>>

(* Redis drops the keys of a session at their own time to live.            *)
Expire(c) ==
  /\ record[c] # None /\ ~Unexpired(c)
  /\ record' = [record EXCEPT ![c] = None]
  /\ UNCHANGED <<source, open, binding, index, lock, call, resurrected>>

Less(t) == IF t > 0 THEN t - 1 ELSE 0

TickWithoutPx == \* mutant: the script sets the owner without a time to live
  /\ record' = [c \in Conns |->
        IF record[c] = None THEN None ELSE [record[c] EXCEPT !.left = Less(@)]]
  /\ call' = [k \in Calls |-> [call[k] EXCEPT !.left = Less(@)]]
  /\ UNCHANGED <<source, open, binding, index, lock, resurrected>>

Tick ==
  /\ record' = [c \in Conns |->
        IF record[c] = None THEN None ELSE [record[c] EXCEPT !.left = Less(@)]]
  /\ lock' = [s \in Sources |->
        IF lock[s].left > 1 THEN [lock[s] EXCEPT !.left = @ - 1] ELSE NoOwner]
  /\ call' = [k \in Calls |-> [call[k] EXCEPT !.left = Less(@)]]
  /\ UNCHANGED <<source, open, binding, index, resurrected>>

Handle(k) ==
  \/ Purge(k) \/ Unindex(k) \/ Unlock(k)
  \/ Claim(k) \/ SaveNew(k) \/ Undo(k) \/ Bound(k)
  \/ Refresh(k) \/ RenewSave(k) \/ Renewed(k) \/ MetaSave(k)
  \/ CloseSave(k) \/ DeleteKeys(k) \/ ReleaseOwner(k) \/ Fail(k)

Next ==
  \/ \E k \in Calls, c \in Conns :
       \/ Close(k, c) \/ Bind(k, c) \/ Message(k, c)
       \/ Delete(k, c) \/ Patch(k, c) \/ Lookup(k, c)
  \/ \E c \in Conns : Expire(c)
  \/ \E k \in Calls : Handle(k)
  \/ \E D \in SUBSET Conns : Crash(D)
  \/ Tick

Spec == Init /\ [][Next]_vars

(* Nothing is assumed of the handlers, the clients or Redis, only that time *)
(* passes.                                                                 *)
FairSpec == Spec /\ WF_vars(Tick)

-----------------------------------------------------------------------------
(* Properties                                                              *)

CallOK(f) ==
  /\ f \in CallRecord
  /\ f.step = "idle" => f = Idle
  /\ f.step \notin Leasing => f.status = None /\ (f.after = "claim" \/ f.left = 0)

(* The shape of the state; a call keeps what it will save, and a connection *)
(* is pending exactly while its bind is in flight.                         *)
TypeOK ==
  /\ source \in [Conns -> Sources]
  /\ open \subseteq Conns
  /\ binding \in [Conns -> {"none", "pending", "open", "closed"}]
  /\ record \in [Conns -> SessionRecord \cup {None}]
  /\ index \subseteq Conns
  /\ lock \in [Sources -> [owner : Conns \cup {None}, left : Leases]]
  /\ call \in [Calls -> CallRecord] /\ \A k \in Calls : CallOK(call[k])
  /\ \A c \in Conns : binding[c] = "pending" <=> \E k \in Calls : Binds(k) /\ call[k].conn = c
  /\ resurrected \subseteq Conns

(* A session in service holds its source for as long as its lease lasts, and *)
(* the status by source finds it: bind claims and renewOwnerLease refreshes *)
(* the lock before the record is saved, and the lock is released after the *)
(* record is gone or closed.  A source has one lock, so one session in     *)
(* service.  Excused: a session whose end a renewal or a metadata update   *)
(* overwrote with the record it had read before.                           *)
OwnedInService ==
  \A c \in Conns \ resurrected :
    Served(c) => /\ Holder(source[c]) = c
                 /\ lock[source[c]].left >= record[c].left
                 /\ c \in index

(* A closed connection does not keep its source: even if the status update *)
(* fails, the node crashes or the connection closed while it was bound, its *)
(* lease ends and nothing brings it back.                                  *)
ClosedEnds ==
  \A c \in Conns : c \notin open ~> [](Holder(source[c]) # c /\ ~Active(c))
=============================================================================
